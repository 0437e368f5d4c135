---------------------------- MODULE RamFsProofs ----------------------------
(***************************************************************************)
(* Proofs about RamFs, for every size of the node pool, of the directory,  *)
(* of the heap and of shell_cat's buffer, and every set of names and paths.*)
(***************************************************************************)
EXTENDS RamFs, RingLemmas

NodeRec == [name : Names \cup {"/"}, dir : BOOLEAN, owns : BOOLEAN,
            data : Blocks \cup {Nil, Static}, size : 0 .. MaxEnd]
Bytes == [1 .. MaxEnd -> Int]

(* The types of TypeOK, and those of the variables it leaves open.         *)
Typed ==
    /\ node_count \in 2 .. MaxNodes
    /\ nodes \in Seq(NodeRec) /\ Len(nodes) = node_count
    /\ children \in Seq(2 .. node_count)
    /\ mem \in [Blocks \cup {Static} -> Bytes]
    /\ used \subseteq Blocks
    /\ ops \in 0 .. MaxOps

(* The directory holds no name twice.                                      *)
NamesDiffer ==
    \A i, j \in 1 .. Len(children) :
      nodes[children[i]].name = nodes[children[j]].name => i = j

(* Which nodes own a block, and that a node has a size when it has one.    *)
NodeOK(r) ==
    /\ nodes[r].name \in Names
    /\ nodes[r].dir => nodes[r].data = Nil
    /\ nodes[r].data = Nil <=> nodes[r].size = 0
    /\ nodes[r].owns => nodes[r].data # Static
    /\ ~nodes[r].owns => nodes[r].data \in {Nil, Static}
    /\ nodes[r].data = Static => r = 2
NodesOK == nodes[ROOT].dir /\ \A r \in Children : NodeOK(r)

(* The blocks in use are those of the files in the directory.              *)
Owned ==
    /\ \A r \in Children : nodes[r].owns /\ nodes[r].data # Nil => nodes[r].data \in used
    /\ \A b \in used : \E r \in Children : nodes[r].owns /\ nodes[r].data = b
Unshared ==
    \A r, s \in Children :
      r # s /\ nodes[r].data # Nil => nodes[r].data # nodes[s].data

Inv == Typed /\ NamesDiffer /\ NodesOK /\ Owned /\ Unshared

-----------------------------------------------------------------------------
LEMMA Constants ==
    /\ MaxNodes \in Nat /\ MaxNodes >= 2 /\ MaxEnd \in Nat /\ MaxOps \in Nat
    /\ BufSize \in Nat /\ BufSize > 0 /\ HelloSize \in 1 .. MaxEnd /\ Hello \in Names
    /\ Nil \notin Blocks /\ Static \notin Blocks /\ Nil # Static /\ Nil = 0 /\ ROOT = 1
BY RamFsAssumption DEF Nil, Static, ROOT

LEMMA NodeFacts ==
    ASSUME Typed, NEW r \in 1 .. node_count
    PROVE  /\ nodes[r] \in NodeRec
           /\ nodes[r].dir \in BOOLEAN /\ nodes[r].owns \in BOOLEAN
           /\ nodes[r].data \in Blocks \cup {Nil, Static}
           /\ nodes[r].size \in Nat /\ nodes[r].size <= MaxEnd
<1>1. nodes[r] \in NodeRec
  BY DEF Typed
<1>2. nodes[r].size \in 0 .. MaxEnd
  BY <1>1 DEF NodeRec
<1> QED BY <1>1, <1>2, Constants DEF NodeRec

LEMMA CountFacts == Typed => node_count \in Nat /\ node_count >= 2 /\ Len(children) \in Nat
BY Constants DEF Typed

LEMMA ChildFacts ==
    ASSUME Typed, NEW r \in Children
    PROVE  /\ r \in 2 .. node_count /\ r \in 1 .. node_count /\ r \in Nat /\ r # 1 /\ r # Nil
           /\ \E i \in 1 .. Len(children) : r = children[i]
<1>1. PICK i \in 1 .. Len(children) : r = children[i]
  BY DEF Children
<1>2. r \in 2 .. node_count
  BY <1>1 DEF Typed
<1> QED BY <1>1, <1>2, CountFacts, Constants

(* ramfs_finddir finds the entry of that name, and there is but one.       *)
LEMMA LookupIs ==
    ASSUME Typed, NamesDiffer, NEW n
    PROVE  /\ Lookup(n) = 0 => \A r \in Children : nodes[r].name # n
           /\ Lookup(n) # 0 => /\ Lookup(n) \in 1 .. Len(children)
                               /\ children[Lookup(n)] \in Children
                               /\ nodes[children[Lookup(n)]].name = n
           /\ \A i \in 1 .. Len(children) : nodes[children[i]].name = n => Lookup(n) = i
<1> DEFINE at == {i \in 1 .. Len(children) : nodes[children[i]].name = n}
<1>1. Lookup(n) = IF at = {} THEN 0 ELSE CHOOSE i \in at : \A j \in at : i <= j
  BY DEF Lookup
<1>2. Len(children) \in Nat
  BY CountFacts
<1>3. ASSUME NEW i \in at
      PROVE  Lookup(n) = i
  <2>1. \A j \in at : j = i
    BY DEF NamesDiffer
  <2>2. i \in Nat /\ at # {}
    BY <1>2
  <2>3. \A j \in at : i <= j
    BY <2>1, <2>2
  <2> HIDE DEF at
  <2>4. (CHOOSE x \in at : \A j \in at : x <= j) \in at
    BY <2>3
  <2> QED BY <1>1, <2>1, <2>2, <2>4
<1>4. ASSUME at = {}
      PROVE  Lookup(n) = 0 /\ \A r \in Children : nodes[r].name # n
  BY <1>1, <1>4 DEF Children
<1>5. ASSUME NEW i \in at
      PROVE  Lookup(n) # 0 /\ Lookup(n) \in 1 .. Len(children) /\ nodes[children[Lookup(n)]].name = n
  BY <1>2, <1>3
<1> QED BY <1>3, <1>4, <1>5 DEF Children

LEMMA NamesOfChildren ==
    ASSUME Typed, NamesDiffer, NEW r \in Children, NEW s \in Children,
           nodes[r].name = nodes[s].name
    PROVE  r = s
BY DEF Children, NamesDiffer

(* A path names at most one entry of the directory.                        *)
LEMMA ResolveIs ==
    ASSUME Typed, NamesDiffer, nodes[ROOT].dir, NEW n \in Names, Writable(n)
    PROVE  Resolve(n) \in Children /\ ~nodes[Resolve(n)].dir
<1>1. Resolve(n) # Nil /\ Resolve(n) # ROOT /\ ~nodes[Resolve(n)].dir
  BY DEF Writable
<1>2. Lookup(PathOf[n][1]) # 0 /\ Resolve(n) = children[Lookup(PathOf[n][1])]
  BY <1>1 DEF Resolve
<1> QED BY <1>1, <1>2, LookupIs

LEMMA InitInv == Init => Inv
<1> SUFFICES ASSUME Init PROVE Inv
  OBVIOUS
<1> DEFINE A == Node("/", TRUE, FALSE)
           C == Node(Hello, FALSE, FALSE)
           B == [C EXCEPT !.data = Static, !.size = HelloSize]
<1>1. nodes = <<A, B>>
  BY DEF Init
<1>2. A \in NodeRec /\ A.dir
  BY Constants DEF NodeRec, Node
<1>3. /\ B \in NodeRec /\ B.name = Hello /\ ~B.dir /\ ~B.owns
      /\ B.data = Static /\ B.size = HelloSize
  <2>1. C \in NodeRec
    BY Constants DEF NodeRec, Node
  <2>2. C.name = Hello /\ ~C.dir /\ ~C.owns
    BY DEF Node
  <2>3. Static \in Blocks \cup {Nil, Static} /\ HelloSize \in 0 .. MaxEnd
    BY Constants
  <2> HIDE DEF C
  <2>4. /\ B \in NodeRec /\ B.name = C.name /\ (B.dir <=> C.dir) /\ (B.owns <=> C.owns)
        /\ B.data = Static /\ B.size = HelloSize
    BY <2>1, <2>3 DEF NodeRec
  <2> QED BY <2>2, <2>4
<1> HIDE DEF A, B
<1>4. children = <<2>> /\ Len(children) = 1 /\ children[1] = 2 /\ node_count = 2 /\ used = {} /\ ops = 0
  BY DEF Init
<1>5. nodes[1] = A /\ nodes[2] = B /\ Len(nodes) = 2
  BY <1>1
<1>6. Children = {2}
  BY <1>4 DEF Children
<1>7. Typed
  <2>1. nodes \in Seq(NodeRec)
    BY <1>1, <1>2, <1>3
  <2>2. mem \in [Blocks \cup {Static} -> Bytes]
    BY Constants DEF Init, Bytes
  <2>3. children \in Seq(2 .. node_count)
    BY <1>4
  <2> QED BY <1>4, <1>5, <2>1, <2>2, <2>3, Constants DEF Typed
<1>8. NamesDiffer
  BY <1>4 DEF NamesDiffer
<1>9. NodesOK
  <2>1. nodes[ROOT].dir
    BY <1>2, <1>5, Constants
  <2>2. NodeOK(2)
    BY <1>3, <1>5, Constants DEF NodeOK
  <2> QED BY <1>6, <2>1, <2>2 DEF NodesOK
<1>10. Owned /\ Unshared
  BY <1>3, <1>4, <1>5, <1>6 DEF Owned, Unshared
<1> QED BY <1>7, <1>8, <1>9, <1>10 DEF Inv

-----------------------------------------------------------------------------
(* A new node, which the directory lists if it has room.                   *)
LEMMA AddStep ==
    ASSUME Inv, NEW n \in Names, NEW isDir \in BOOLEAN, AddNode(n, isDir)
    PROVE  /\ Inv'
           /\ \A r \in 1 .. node_count : nodes'[r] = nodes[r]
           /\ \/ Children' = Children /\ ret' = [op |-> "create", val |-> -1]
              \/ /\ Children' = Children \cup {node_count + 1}
                 /\ nodes'[node_count + 1] = Node(n, isDir, ~isDir)
                 /\ ret' = [op |-> "create", val |-> 0]
<1>1. PICK c \in Nat : c = node_count + 1 /\ c > 2
  BY CountFacts DEF Inv
<1> DEFINE N == [name |-> n, dir |-> isDir, data |-> Nil, size |-> 0, owns |-> ~isDir]
<1>2. N \in NodeRec
  <2>1. (~isDir) \in BOOLEAN
    OBVIOUS
  <2> QED BY <2>1, Constants DEF NodeRec
<1>3. /\ N.name = n /\ N.data = Nil /\ N.size = 0 /\ N = Node(n, isDir, ~isDir)
  BY DEF Node
<1> HIDE DEF N
<1>4. nodes' = Append(nodes, N) /\ node_count' = c /\ mem' = mem /\ used' = used /\ ops' = ops
  BY <1>1, <1>3 DEF AddNode
<1>5. /\ nodes' \in Seq(NodeRec) /\ Len(nodes') = c /\ nodes'[c] = N
      /\ \A r \in 1 .. node_count : nodes'[r] = nodes[r]
  <2>1. nodes \in Seq(NodeRec) /\ Len(nodes) = node_count
    BY DEF Inv, Typed
  <2> QED BY <1>1, <1>2, <1>4, <2>1, AppendProperties
<1>6. c \in 2 .. MaxNodes /\ 2 .. node_count \subseteq 2 .. c /\ c \notin 2 .. node_count
  BY <1>1, Constants, CountFacts DEF AddNode, CanAdd, Inv
<1>7. \A r \in Children : r \in 1 .. node_count /\ r # c /\ nodes'[r] = nodes[r]
  BY <1>1, <1>5, ChildFacts, CountFacts DEF Inv
<1>8. children \in Seq(2 .. node_count) /\ children \in Seq(2 .. c) /\ Len(children) \in Nat
  BY <1>6, SeqMonotonic DEF Inv, Typed
<1>9. nodes'[ROOT].dir
  BY <1>5, CountFacts, Constants DEF Inv, NodesOK
<1>10. \A r \in Children : NodeOK(r)'
  BY <1>7 DEF Inv, NodesOK, NodeOK
<1>11. CASE Len(children) < MaxChildren
  <2>1. children' = Append(children, c) /\ ret' = [op |-> "create", val |-> 0]
    BY <1>1, <1>11 DEF AddNode, Result
  <2>2. /\ Len(children') = Len(children) + 1 /\ children'[Len(children) + 1] = c
        /\ children' \in Seq(2 .. c)
        /\ \A i \in 1 .. Len(children) : children'[i] = children[i]
    BY <1>6, <1>8, <2>1, AppendProperties
  <2>3. Children' = Children \cup {c}
    <3>1. ASSUME NEW x \in Children' PROVE x \in Children \cup {c}
      <4>1. PICK i \in 1 .. Len(children) + 1 : x = children'[i]
        BY <2>2 DEF Children
      <4>2. CASE i = Len(children) + 1
        BY <2>2, <4>1, <4>2
      <4>3. CASE i \in 1 .. Len(children)
        BY <2>2, <4>1, <4>3 DEF Children
      <4> QED BY <1>8, <4>2, <4>3
    <3>2. ASSUME NEW x \in Children PROVE x \in Children'
      <4>1. PICK i \in 1 .. Len(children) : x = children[i]
        BY DEF Children
      <4>2. i \in 1 .. Len(children) + 1
        BY <1>8
      <4> QED BY <2>2, <4>1, <4>2 DEF Children
    <3>3. c \in Children'
      <4>1. Len(children) + 1 \in 1 .. Len(children) + 1
        BY <1>8
      <4> QED BY <2>2, <4>1 DEF Children
    <3> QED BY <3>1, <3>2, <3>3
  <2>4. Typed'
    BY <1>4, <1>5, <1>6, <2>2 DEF Typed, Inv
  <2>5. \A r \in Children : nodes[r].name # n
    BY LookupIs DEF AddNode, CanAdd, Inv
  <2>6. NamesDiffer'
    <3>1. ASSUME NEW i \in 1 .. Len(children) + 1, NEW j \in 1 .. Len(children) + 1,
                 nodes'[children'[i]].name = nodes'[children'[j]].name
          PROVE  i = j
      <4>1. \A k \in 1 .. Len(children) :
              children'[k] \in Children /\ children'[k] = children[k] /\ nodes'[children'[k]].name # n
        BY <1>7, <2>2, <2>5 DEF Children
      <4>2. nodes'[children'[Len(children) + 1]].name = n
        BY <1>3, <1>5, <2>2
      <4>3. i = Len(children) + 1 <=> j = Len(children) + 1
        BY <1>8, <3>1, <4>1, <4>2
      <4>4. CASE i \in 1 .. Len(children) /\ j \in 1 .. Len(children)
        <5>1. nodes'[children'[i]] = nodes[children[i]] /\ nodes'[children'[j]] = nodes[children[j]]
          BY <1>7, <4>1, <4>4
        <5> QED BY <3>1, <4>4, <5>1 DEF Inv, NamesDiffer
      <4> QED BY <1>8, <4>3, <4>4
    <3> QED BY <2>2, <3>1 DEF NamesDiffer
  <2>7. NodesOK'
    <3>1. NodeOK(c)'
      <4>1. nodes'[c].dir <=> isDir
        BY <1>5 DEF N
      <4>2. nodes'[c].name = n /\ nodes'[c].data = Nil /\ nodes'[c].size = 0
        BY <1>3, <1>5
      <4> QED BY <4>2, Constants DEF NodeOK
    <3> QED BY <1>9, <1>10, <2>3, <3>1 DEF NodesOK
  <2>8. Owned'
    <3>1. ASSUME NEW r \in Children', nodes'[r].owns, nodes'[r].data # Nil
          PROVE  nodes'[r].data \in used'
      <4>1. r \in Children /\ nodes'[r] = nodes[r]
        BY <1>3, <1>5, <1>7, <2>3, <3>1
      <4> QED BY <1>4, <3>1, <4>1 DEF Inv, Owned
    <3>2. ASSUME NEW b \in used'
          PROVE  \E r \in Children' : nodes'[r].owns /\ nodes'[r].data = b
      <4>1. PICK r \in Children : nodes[r].owns /\ nodes[r].data = b
        BY <1>4 DEF Inv, Owned
      <4> QED BY <1>7, <2>3, <4>1
    <3> QED BY <3>1, <3>2 DEF Owned
  <2>9. Unshared'
    BY <1>3, <1>5, <1>7, <2>3 DEF Inv, Unshared
  <2>10. Inv'
    BY <2>4, <2>6, <2>7, <2>8, <2>9 DEF Inv
  <2> QED BY <1>1, <1>3, <1>5, <2>1, <2>3, <2>10
<1>12. CASE ~(Len(children) < MaxChildren)
  <2>1. children' = children /\ ret' = [op |-> "create", val |-> -1]
    BY <1>12 DEF AddNode, Result
  <2>2. Children' = Children
    BY <2>1 DEF Children
  <2>3. Typed'
    BY <1>4, <1>5, <1>6, <1>8, <2>1 DEF Typed, Inv
  <2>4. NamesDiffer'
    <3>1. \A i \in 1 .. Len(children) : children[i] \in Children
      BY DEF Children
    <3> QED BY <1>7, <2>1, <3>1 DEF Inv, NamesDiffer
  <2>5. NodesOK'
    BY <1>9, <1>10, <2>2 DEF NodesOK
  <2>6. Owned'
    <3>1. used' = used
      BY <1>4
    <3>2. \A r \in Children : nodes'[r] = nodes[r]
      BY <1>7
    <3> QED BY <2>2, <3>1, <3>2 DEF Inv, Owned
  <2>7. Unshared'
    <3>1. ASSUME NEW r \in Children, NEW s \in Children, r # s, nodes'[r].data # Nil
          PROVE  nodes'[r].data # nodes'[s].data
      <4>1. nodes'[r] = nodes[r] /\ nodes'[s] = nodes[s]
        BY <1>7
      <4> QED BY <3>1, <4>1 DEF Inv, Unshared
    <3> QED BY <2>2, <3>1 DEF Unshared
  <2> QED BY <1>5, <2>1, <2>2, <2>3, <2>4, <2>5, <2>6, <2>7 DEF Inv
<1> QED BY <1>11, <1>12

-----------------------------------------------------------------------------
LEMMA RemoveAtIs ==
    ASSUME NEW S, NEW s \in Seq(S), NEW p \in 1 .. Len(s)
    PROVE  /\ RemoveAt(s, p) \in Seq(S) /\ Len(RemoveAt(s, p)) = Len(s) - 1
           /\ \A i \in 1 .. Len(s) - 1 :
                RemoveAt(s, p)[i] = IF i < p THEN s[i] ELSE s[i + 1]
<1>1. Len(s) \in Nat /\ \A i \in 1 .. Len(s) : s[i] \in S
  OBVIOUS
<1> DEFINE a == SubSeq(s, 1, p - 1)
           b == SubSeq(s, p + 1, Len(s))
<1>2. a \in Seq(S) /\ Len(a) = p - 1 /\ \A i \in 1 .. p - 1 : a[i] = s[i]
  BY <1>1, SubSeqProperties
<1>3. b \in Seq(S) /\ Len(b) = Len(s) - p /\ \A i \in 1 .. Len(s) - p : b[i] = s[p + i]
  <2>1. \A i \in p + 1 .. Len(s) : s[i] \in S
    BY <1>1
  <2>2. /\ b \in Seq(S) /\ Len(b) = IF p + 1 <= Len(s) THEN Len(s) - (p + 1) + 1 ELSE 0
        /\ \A i \in 1 .. Len(s) - (p + 1) + 1 : b[i] = s[(p + 1) + i - 1]
    BY <1>1, <2>1, SubSeqProperties
  <2>3. Len(b) = Len(s) - p
    <3> HIDE DEF b
    <3> QED BY <1>1, <2>2
  <2>4. ASSUME NEW i \in 1 .. Len(s) - p
        PROVE  b[i] = s[p + i]
    <3> HIDE DEF b
    <3>1. i \in 1 .. Len(s) - (p + 1) + 1 /\ (p + 1) + i - 1 = p + i
      BY <1>1
    <3> QED BY <2>2, <3>1
  <2> QED BY <2>2, <2>3, <2>4
<1>4. RemoveAt(s, p) = a \o b
  BY DEF RemoveAt
<1> HIDE DEF a, b
<1>5. /\ a \o b \in Seq(S) /\ Len(a \o b) = Len(s) - 1
      /\ \A i \in 1 .. Len(s) - 1 : (a \o b)[i] = IF i <= p - 1 THEN a[i] ELSE b[i - (p - 1)]
  BY <1>1, <1>2, <1>3, ConcatProperties
<1>6. ASSUME NEW i \in 1 .. Len(s) - 1
      PROVE  (a \o b)[i] = IF i < p THEN s[i] ELSE s[i + 1]
  <2>1. CASE i < p
    BY <1>1, <1>2, <1>5, <2>1
  <2>2. CASE ~(i < p)
    <3>1. i - (p - 1) \in 1 .. Len(s) - p /\ p + (i - (p - 1)) = i + 1
      BY <1>1, <2>2
    <3> QED BY <1>1, <1>3, <1>5, <2>2, <3>1
  <2> QED BY <2>1, <2>2
<1> QED BY <1>4, <1>5, <1>6

(* ramfs_unlink takes entry r out of the directory.                        *)
LEMMA UnlinkStep ==
    ASSUME Inv, NEW n \in Names, Unlink(n)
    PROVE  /\ Inv'
           /\ \E r \in Children : /\ nodes[r].name = n /\ Children' = Children \ {r}
                                  /\ \A s \in Children : s # r => nodes'[s] = nodes[s]
<1>1. PICK p \in 1 .. Len(children) : p = Lookup(n)
  BY LookupIs DEF Unlink, Inv
<1>2. PICK r \in Children : r = children[p] /\ nodes[r].name = n
  BY <1>1, LookupIs DEF Unlink, Inv
<1>3. /\ r \in 1 .. node_count /\ r # 1 /\ nodes[r] \in NodeRec /\ nodes[r].owns \in BOOLEAN
      /\ Len(children) \in Nat
  BY ChildFacts, NodeFacts, CountFacts DEF Inv
<1>4. /\ used' = IF nodes[r].owns THEN used \ {nodes[r].data} ELSE used
      /\ nodes' = IF nodes[r].owns THEN [nodes EXCEPT ![r].data = Nil] ELSE nodes
      /\ children' = RemoveAt(children, p)
      /\ UNCHANGED <<node_count, mem, ops>>
  BY <1>1, <1>2 DEF Unlink, Released
<1>5. /\ nodes' \in Seq(NodeRec) /\ Len(nodes') = node_count
      /\ \A s \in 1 .. node_count : s # r => nodes'[s] = nodes[s]
  <2>1. nodes \in Seq(NodeRec) /\ Len(nodes) = node_count
    BY DEF Inv, Typed
  <2>2. CASE nodes[r].owns
    <3>1. [nodes[r] EXCEPT !.data = Nil] \in NodeRec
      BY <1>3 DEF NodeRec
    <3>2. nodes' = [nodes EXCEPT ![r] = [nodes[r] EXCEPT !.data = Nil]]
      BY <1>4, <2>2
    <3> QED BY <1>3, <2>1, <3>1, <3>2, ExceptSeq
  <2>3. CASE ~nodes[r].owns
    BY <1>4, <2>1, <2>3
  <2> QED BY <2>2, <2>3
<1>6. /\ children' \in Seq(2 .. node_count) /\ Len(children') = Len(children) - 1
      /\ \A i \in 1 .. Len(children) - 1 :
           children'[i] = IF i < p THEN children[i] ELSE children[i + 1]
  BY <1>4, RemoveAtIs DEF Inv, Typed
<1>7. ASSUME NEW i \in 1 .. Len(children), children[i] = r
      PROVE  i = p
  BY <1>2, <1>7 DEF Inv, NamesDiffer
<1>8. Children' = Children \ {r}
  <2>1. ASSUME NEW x \in Children' PROVE x \in Children \ {r}
    <3>1. PICK i \in 1 .. Len(children) - 1 : x = children'[i]
      BY <1>6 DEF Children
    <3>2. PICK q \in 1 .. Len(children) : x = children[q] /\ q # p
      <4>1. CASE i < p
        BY <1>3, <1>6, <3>1, <4>1
      <4>2. CASE ~(i < p)
        <5>1. i + 1 \in 1 .. Len(children) /\ i + 1 # p
          BY <1>3, <4>2
        <5> QED BY <1>6, <3>1, <4>2, <5>1
      <4> QED BY <4>1, <4>2
    <3> QED BY <1>7, <3>2 DEF Children
  <2>2. ASSUME NEW x \in Children, x # r PROVE x \in Children'
    <3>1. PICK i \in 1 .. Len(children) : x = children[i]
      BY DEF Children
    <3>2. i # p
      BY <1>2, <2>2, <3>1
    <3>3. CASE i < p
      <4>1. i \in 1 .. Len(children) - 1
        BY <1>3, <3>3
      <4> QED BY <1>6, <3>1, <3>3, <4>1 DEF Children
    <3>4. CASE ~(i < p)
      <4>1. i - 1 \in 1 .. Len(children) - 1 /\ ~(i - 1 < p) /\ (i - 1) + 1 = i
        BY <1>3, <3>2, <3>4
      <4>2. children'[i - 1] = x
        BY <1>6, <3>1, <4>1
      <4> QED BY <1>6, <4>1, <4>2 DEF Children
    <3> QED BY <3>3, <3>4
  <2> QED BY <2>1, <2>2
<1>9. \A s \in Children : s # r => nodes'[s] = nodes[s]
  BY <1>5, ChildFacts DEF Inv
<1>10. Typed'
  BY <1>4, <1>5, <1>6 DEF Inv, Typed
<1>11. NamesDiffer'
  <2> DEFINE q(i) == IF i < p THEN i ELSE i + 1
  <2>1. ASSUME NEW i \in 1 .. Len(children) - 1
        PROVE  q(i) \in 1 .. Len(children) /\ q(i) # p /\ children'[i] = children[q(i)]
    BY <1>3, <1>6
  <2>2. ASSUME NEW i \in 1 .. Len(children) - 1
        PROVE  nodes'[children'[i]] = nodes[children[q(i)]]
    <3> HIDE DEF q
    <3>1. children[q(i)] \in Children /\ children[q(i)] # r
      BY <1>7, <2>1 DEF Children
    <3> QED BY <1>9, <2>1, <3>1
  <2>3. ASSUME NEW i \in 1 .. Len(children) - 1, NEW j \in 1 .. Len(children) - 1,
               nodes'[children'[i]].name = nodes'[children'[j]].name
        PROVE  i = j
    <3>1. q(i) = q(j)
      <4> HIDE DEF q
      <4>1. nodes[children[q(i)]].name = nodes[children[q(j)]].name
        BY <2>2, <2>3
      <4>2. PICK k \in 1 .. Len(children), m \in 1 .. Len(children) : k = q(i) /\ m = q(j)
        BY <2>1
      <4> QED BY <4>1, <4>2 DEF Inv, NamesDiffer
    <3> QED BY <1>3, <3>1
  <2> QED BY <1>6, <2>3 DEF NamesDiffer
<1>12. NodesOK'
  <2>1. nodes'[ROOT].dir
    <3>1. 1 \in 1 .. node_count
      BY CountFacts DEF Inv
    <3> QED BY <1>3, <1>5, <3>1, Constants DEF Inv, NodesOK
  <2>2. \A s \in Children' : NodeOK(s)'
    BY <1>8, <1>9 DEF Inv, NodesOK, NodeOK
  <2> QED BY <2>1, <2>2 DEF NodesOK
<1>13. Owned'
  <2>1. ASSUME NEW s \in Children', nodes'[s].owns, nodes'[s].data # Nil
        PROVE  nodes'[s].data \in used'
    <3>1. s \in Children /\ s # r /\ nodes'[s] = nodes[s]
      BY <1>8, <1>9
    <3>2. nodes[s].data \in used /\ nodes[s].data # nodes[r].data
      BY <2>1, <3>1 DEF Inv, Owned, Unshared
    <3> QED BY <1>4, <3>1, <3>2
  <2>2. ASSUME NEW b \in used'
        PROVE  \E s \in Children' : nodes'[s].owns /\ nodes'[s].data = b
    <3>1. PICK s \in Children : nodes[s].owns /\ nodes[s].data = b
      BY <1>4 DEF Inv, Owned
    <3>2. s # r
      BY <1>4, <3>1
    <3> QED BY <1>8, <1>9, <3>1, <3>2
  <2> QED BY <2>1, <2>2 DEF Owned
<1>14. Unshared'
  BY <1>8, <1>9 DEF Inv, Unshared
<1> QED BY <1>2, <1>8, <1>9, <1>10, <1>11, <1>12, <1>13, <1>14 DEF Inv

-----------------------------------------------------------------------------
LEMMA PutIs ==
    ASSUME NEW bytes \in Bytes, NEW off \in Nat, NEW k \in Int, ops \in Nat
    PROVE  /\ Put(bytes, off, k) \in Bytes
           /\ \A i \in 1 .. MaxEnd :
                Put(bytes, off, k)[i] = IF off < i /\ i <= off + k THEN ops + 1 ELSE bytes[i]
BY DEF Put, Bytes

(* A write into the block that the file has.                               *)
LEMMA WriteInsideStep ==
    ASSUME Inv, NEW n \in Names, NEW off \in Nat, NEW size \in Nat, off + size <= MaxEnd,
           WriteInside(n, off, size)
    PROVE  /\ Inv' /\ nodes' = nodes /\ Children' = Children /\ ops + 1 \in 1 .. MaxOps
           /\ \E r \in Children, k \in Nat :
                /\ ~nodes[r].dir /\ nodes[r].data # Nil /\ off + k <= nodes[r].size
                /\ mem' = [mem EXCEPT ![nodes[r].data] = Put(mem[nodes[r].data], off, k)]
                /\ ret' = [op |-> "write", val |-> k]
<1>1. PICK r \in Children : r = Resolve(n) /\ ~nodes[r].dir
  BY ResolveIs DEF WriteInside, Inv, NodesOK
<1>2. /\ nodes[r].size \in Nat /\ nodes[r].data \in Blocks \cup {Nil, Static}
      /\ nodes[r].size <= MaxEnd
  BY ChildFacts, NodeFacts DEF Inv
<1> DEFINE z == IF off + size > nodes[r].size THEN nodes[r].size - off ELSE size
<1>3. /\ nodes[r].data # Nil
      /\ off + size <= nodes[r].size \/ off < nodes[r].size
      /\ mem' = [mem EXCEPT ![nodes[r].data] = Put(mem[nodes[r].data], off, z)]
      /\ ret' = [op |-> "write", val |-> z]
      /\ ops < MaxOps /\ ops' = ops + 1
      /\ UNCHANGED <<nodes, node_count, children, used>>
  BY <1>1 DEF WriteInside, Result
<1>4. z \in Nat /\ off + z <= nodes[r].size
  BY <1>2, <1>3
<1> HIDE DEF z
<1>5. ops \in Nat /\ ops + 1 \in 1 .. MaxOps
  BY <1>3, Constants DEF Inv, Typed
<1>6. Typed'
  <2>1. nodes[r].data \in Blocks \cup {Static} /\ mem[nodes[r].data] \in Bytes
    BY <1>2, <1>3 DEF Inv, Typed
  <2>2. Put(mem[nodes[r].data], off, z) \in Bytes
    BY <1>4, <1>5, <2>1, PutIs
  <2>3. mem' \in [Blocks \cup {Static} -> Bytes]
    BY <1>3, <2>1, <2>2 DEF Inv, Typed
  <2>4. ops' \in 0 .. MaxOps
    BY <1>3, <1>5
  <2> QED BY <1>3, <2>3, <2>4 DEF Inv, Typed
<1>7. Children' = Children
  BY <1>3 DEF Children
<1>8. NamesDiffer' /\ NodesOK' /\ Owned' /\ Unshared'
  BY <1>3, <1>7 DEF Inv, NamesDiffer, NodesOK, NodeOK, Owned, Unshared
<1> QED BY <1>1, <1>3, <1>4, <1>5, <1>6, <1>7, <1>8 DEF Inv

(* A write beyond the end: the file moves to the block fresh.              *)
LEMMA WriteGrowStep ==
    ASSUME Inv, NEW n \in Names, NEW off \in Nat, NEW size \in Nat, off + size <= MaxEnd,
           WriteGrow(n, off, size)
    PROVE  /\ Inv' /\ Children' = Children /\ ops + 1 \in 1 .. MaxOps
           /\ ret' = [op |-> "write", val |-> size]
           /\ \E r \in Children, fresh \in Blocks \ used :
                /\ ~nodes[r].dir /\ nodes[r].size < off + size
                /\ mem' = [mem EXCEPT ![fresh] = Put(Moved(nodes[r], fresh), off, size)]
                /\ nodes'[r].name = nodes[r].name /\ ~nodes'[r].dir
                /\ nodes'[r].data = fresh /\ nodes'[r].size = off + size
                /\ \A s \in Children : s # r => nodes'[s] = nodes[s]
<1>1. PICK r \in Children : r = Resolve(n) /\ ~nodes[r].dir
  BY ResolveIs DEF WriteGrow, Inv, NodesOK
<1>2. /\ r \in 1 .. node_count /\ r # 1 /\ nodes[r] \in NodeRec
      /\ nodes[r].size \in Nat /\ nodes[r].data \in Blocks \cup {Nil, Static}
      /\ nodes[r].size <= MaxEnd
  BY ChildFacts, NodeFacts DEF Inv
<1>3. PICK fresh \in Blocks \ used :
        /\ mem' = [mem EXCEPT ![fresh] = Put(Moved(nodes[r], fresh), off, size)]
        /\ used' = (IF nodes[r].size > 0 THEN used \ {nodes[r].data} ELSE used) \cup {fresh}
        /\ nodes' = [nodes EXCEPT ![r].data = fresh, ![r].size = off + size]
  BY <1>1 DEF WriteGrow
<1>4. /\ nodes[r].owns /\ off + size > nodes[r].size
      /\ ret' = [op |-> "write", val |-> size] /\ ops < MaxOps /\ ops' = ops + 1
      /\ UNCHANGED <<node_count, children>>
  BY <1>1 DEF WriteGrow, Result
<1>5. ops \in Nat /\ ops + 1 \in 1 .. MaxOps
  BY <1>4, Constants DEF Inv, Typed
<1>6. PICK z \in 0 .. MaxEnd : z = off + size /\ z > 0
  BY <1>2, <1>4, Constants
<1> DEFINE g == [nodes[r] EXCEPT !.data = fresh, !.size = z]
<1>7. /\ g \in NodeRec /\ g.name = nodes[r].name /\ (g.dir <=> nodes[r].dir)
      /\ (g.owns <=> nodes[r].owns) /\ g.data = fresh /\ g.size = z
  BY <1>2 DEF NodeRec
<1>8. nodes \in Seq(NodeRec) /\ Len(nodes) = node_count
  BY DEF Inv, Typed
<1>9. nodes' = [nodes EXCEPT ![r] = g]
  BY <1>2, <1>3, <1>6, <1>8
<1> HIDE DEF g
<1>10. /\ nodes' \in Seq(NodeRec) /\ Len(nodes') = node_count /\ nodes'[r] = g
       /\ \A s \in 1 .. node_count : s # r => nodes'[s] = nodes[s]
  BY <1>2, <1>7, <1>8, <1>9, ExceptSeq
<1>11. \A s \in Children : s # r => nodes'[s] = nodes[s]
  BY <1>10, ChildFacts DEF Inv
<1>12. Children' = Children
  BY <1>4 DEF Children
<1>13. nodes[r].data # Static /\ (nodes[r].data = Nil <=> nodes[r].size = 0) /\ nodes[r].name \in Names
  BY <1>4 DEF Inv, NodesOK, NodeOK
<1>14. \A s \in Children : nodes[s].data # fresh
  <2>1. ASSUME NEW s \in Children, nodes[s].data = fresh PROVE FALSE
    <3>1. fresh # Nil /\ fresh # Static /\ fresh \notin used
      BY Constants
    <3> QED BY <2>1, <3>1 DEF Inv, NodesOK, NodeOK, Owned
  <2> QED BY <2>1
<1>15. Typed'
  <2>1. Moved(nodes[r], fresh) \in Bytes
    <3>1. mem[fresh] \in Bytes
      BY DEF Inv, Typed
    <3>2. nodes[r].data # Nil => mem[nodes[r].data] \in Bytes
      BY <1>2 DEF Inv, Typed
    <3> QED BY <3>1, <3>2 DEF Moved, Bytes
  <2>2. Put(Moved(nodes[r], fresh), off, size) \in Bytes
    BY <1>5, <2>1, PutIs
  <2>3. mem' \in [Blocks \cup {Static} -> Bytes]
    BY <1>3, <2>2 DEF Inv, Typed
  <2>4. ops' \in 0 .. MaxOps
    BY <1>4, <1>5
  <2>5. used' \subseteq Blocks
    BY <1>3 DEF Inv, Typed
  <2> QED BY <1>4, <1>10, <2>3, <2>4, <2>5 DEF Inv, Typed
<1>16. \A s \in Children : nodes'[s].name = nodes[s].name
  BY <1>7, <1>10, <1>11
<1>17. NamesDiffer'
  <2>1. \A i \in 1 .. Len(children) :
          children'[i] = children[i] /\ nodes'[children[i]].name = nodes[children[i]].name
    BY <1>4, <1>16 DEF Children
  <2>2. Len(children') = Len(children)
    BY <1>4
  <2> QED BY <2>1, <2>2 DEF Inv, NamesDiffer
<1>18. NodesOK'
  <2>1. nodes'[ROOT].dir
    <3>1. 1 \in 1 .. node_count
      BY CountFacts DEF Inv
    <3> QED BY <1>2, <1>10, <3>1, Constants DEF Inv, NodesOK
  <2>2. NodeOK(r)'
    BY <1>1, <1>4, <1>6, <1>7, <1>10, <1>13, Constants DEF NodeOK
  <2>3. \A s \in Children : s # r => NodeOK(s)'
    BY <1>11 DEF Inv, NodesOK, NodeOK
  <2> QED BY <1>12, <2>1, <2>2, <2>3 DEF NodesOK
<1>19. Owned'
  <2>1. ASSUME NEW s \in Children, nodes'[s].owns, nodes'[s].data # Nil
        PROVE  nodes'[s].data \in used'
    <3>1. CASE s = r
      BY <1>3, <1>7, <1>10, <3>1
    <3>2. CASE s # r
      <4>1. nodes'[s] = nodes[s]
        BY <1>11, <3>2
      <4>2. nodes[s].data \in used /\ nodes[s].data # nodes[r].data
        BY <2>1, <3>2, <4>1 DEF Inv, Owned, Unshared
      <4> QED BY <1>3, <4>1, <4>2
    <3> QED BY <3>1, <3>2
  <2>2. ASSUME NEW b \in used'
        PROVE  \E s \in Children : nodes'[s].owns /\ nodes'[s].data = b
    <3>1. CASE b = fresh
      BY <1>4, <1>7, <1>10, <3>1
    <3>2. CASE b # fresh
      <4>1. b \in used /\ (nodes[r].size > 0 => b # nodes[r].data)
        BY <1>3, <3>2
      <4>2. PICK s \in Children : nodes[s].owns /\ nodes[s].data = b
        BY <4>1 DEF Inv, Owned
      <4>3. b # Nil
        BY <4>1, Constants DEF Inv, Typed
      <4>4. s # r
        BY <1>2, <1>13, <4>1, <4>2, <4>3
      <4> QED BY <1>11, <4>2, <4>4
    <3> QED BY <3>1, <3>2
  <2> QED BY <1>12, <2>1, <2>2 DEF Owned
<1>20. Unshared'
  <2>1. ASSUME NEW s \in Children, NEW t \in Children, s # t, nodes'[s].data # Nil
        PROVE  nodes'[s].data # nodes'[t].data
    <3>1. CASE s = r
      BY <1>7, <1>10, <1>11, <1>14, <2>1, <3>1
    <3>2. CASE t = r
      BY <1>7, <1>10, <1>11, <1>14, <2>1, <3>2
    <3>3. CASE s # r /\ t # r
      BY <1>11, <2>1, <3>3 DEF Inv, Unshared
    <3> QED BY <3>1, <3>2, <3>3
  <2> QED BY <1>12, <2>1 DEF Unshared
<1>21. Inv'
  BY <1>15, <1>17, <1>18, <1>19, <1>20 DEF Inv
<1>22. /\ nodes'[r].name = nodes[r].name /\ ~nodes'[r].dir
       /\ nodes'[r].data = fresh /\ nodes'[r].size = off + size
  BY <1>1, <1>6, <1>7, <1>10
<1>23. nodes[r].size < off + size
  BY <1>2, <1>4
<1> QED BY <1>1, <1>3, <1>4, <1>5, <1>11, <1>12, <1>21, <1>22, <1>23

-----------------------------------------------------------------------------
LEMMA UnchangedInv ==
    ASSUME Inv, UNCHANGED <<nodes, node_count, children, mem, used, ops>>
    PROVE  Inv' /\ Children' = Children
<1>1. Children' = Children
  BY DEF Children
<1>2. Typed' /\ NamesDiffer' /\ NodesOK' /\ Owned' /\ Unshared'
  BY <1>1 DEF Inv, Typed, NamesDiffer, NodesOK, NodeOK, Owned, Unshared
<1> QED BY <1>1, <1>2 DEF Inv

LEMMA InvStep == Inv /\ [Next]_vars => Inv'
<1> SUFFICES ASSUME Inv, [Next]_vars PROVE Inv'
  OBVIOUS
<1>1. ASSUME NEW n \in Names, Create(n) PROVE Inv'
  BY <1>1, AddStep DEF Create
<1>2. ASSUME NEW n \in Names, Mkdir(n) PROVE Inv'
  BY <1>2, AddStep DEF Mkdir
<1>3. ASSUME NEW n \in Names, AddRefused(n) PROVE Inv'
  BY <1>3, UnchangedInv DEF AddRefused
<1>4. ASSUME NEW n \in Names, Unlink(n) PROVE Inv'
  BY <1>4, UnlinkStep
<1>5. ASSUME NEW n \in Names, UnlinkRefused(n) PROVE Inv'
  BY <1>5, UnchangedInv DEF UnlinkRefused
<1>6. ASSUME NEW n \in Names, NEW off \in 0 .. MaxEnd, NEW size \in 0 .. MaxEnd - off,
             \/ WriteInside(n, off, size)
             \/ WriteGrow(n, off, size)
             \/ WriteRefused(n, off, size)
      PROVE  Inv'
  <2>1. off \in Nat /\ size \in Nat /\ off + size <= MaxEnd
    BY Constants
  <2>2. CASE WriteInside(n, off, size)
    BY <2>1, <2>2, WriteInsideStep
  <2>3. CASE WriteGrow(n, off, size)
    BY <2>1, <2>3, WriteGrowStep
  <2>4. CASE WriteRefused(n, off, size)
    BY <2>4, UnchangedInv DEF WriteRefused
  <2> QED BY <1>6, <2>2, <2>3, <2>4
<1>7. CASE UNCHANGED vars
  BY <1>7, UnchangedInv DEF vars
<1> QED BY <1>1, <1>2, <1>3, <1>4, <1>5, <1>6, <1>7 DEF Next

LEMMA AlwaysInv == Spec => []Inv
BY InitInv, InvStep, PTL DEF Spec

(* Growing and removing files in any order leaks no heap block, frees none *)
(* twice and shares none between files, and the node pool keeps its limit. *)
THEOREM BlocksKept == Spec => []BlocksAccounted
<1>1. Inv => BlocksAccounted
  <2> SUFFICES ASSUME Inv PROVE BlocksAccounted
    OBVIOUS
  <2>1. TypeOK
    <3>1. \A r \in 1 .. node_count : nodes[r] \in NodeRec
      BY NodeFacts DEF Inv
    <3> QED BY <3>1 DEF Inv, Typed, TypeOK, NodeRec
  <2>2. ASSUME NEW b \in used
        PROVE  b \in {nodes[r].data : r \in {c \in Children : nodes[c].owns}} \ {Nil}
    <3>1. PICK r \in Children : nodes[r].owns /\ nodes[r].data = b
      BY DEF Inv, Owned
    <3>2. b # Nil
      BY Constants DEF Inv, Typed
    <3> QED BY <3>1, <3>2
  <2>3. ASSUME NEW b \in {nodes[r].data : r \in {c \in Children : nodes[c].owns}} \ {Nil}
        PROVE  b \in used
    BY DEF Inv, Owned
  <2>4. used = {nodes[r].data : r \in {c \in Children : nodes[c].owns}} \ {Nil}
    BY <2>2, <2>3
  <2> QED BY <2>1, <2>4 DEF Inv, Unshared, BlocksAccounted
<1> QED BY <1>1, AlwaysInv, PTL

-----------------------------------------------------------------------------
(* The bytes of file r.                                                    *)
BytesOf(r) ==
    IF nodes[r].data = Nil THEN <<>> ELSE SubSeq(mem[nodes[r].data], 1, nodes[r].size)
Contents(r) == [dir |-> nodes[r].dir, bytes |-> BytesOf(r)]

LEMMA PrefixIs ==
    ASSUME NEW b \in Bytes, NEW z \in Nat, z <= MaxEnd
    PROVE  /\ Len(SubSeq(b, 1, z)) = z /\ SubSeq(b, 1, z) \in [1 .. z -> Int]
           /\ \A i \in 1 .. z : SubSeq(b, 1, z)[i] = b[i]
<1>1. \A i \in 1 .. z : b[i] \in Int
  BY Constants DEF Bytes
<1>2. /\ SubSeq(b, 1, z) \in Seq(Int)
      /\ Len(SubSeq(b, 1, z)) = IF 1 <= z THEN z - 1 + 1 ELSE 0
      /\ \A i \in 1 .. z - 1 + 1 : SubSeq(b, 1, z)[i] = b[1 + i - 1]
  BY <1>1, SubSeqProperties
<1>3. Len(SubSeq(b, 1, z)) = z
  BY <1>2
<1>4. ASSUME NEW i \in 1 .. z
      PROVE  SubSeq(b, 1, z)[i] = b[i]
  <2>1. i \in 1 .. z - 1 + 1 /\ 1 + i - 1 = i
    OBVIOUS
  <2> QED BY <1>2, <2>1
<1>5. PICK q \in Seq(Int) : q = SubSeq(b, 1, z)
  BY <1>2
<1>6. q \in [1 .. z -> Int]
  BY <1>3, <1>5, LenProperties
<1> QED BY <1>3, <1>4, <1>5, <1>6

LEMMA BytesAre ==
    ASSUME Inv, NEW r \in Children
    PROVE  /\ nodes[r].data = Nil => nodes[r].size = 0 /\ BytesOf(r) = <<>>
           /\ nodes[r].data # Nil => nodes[r].data \in Blocks \cup {Static}
                                     /\ mem[nodes[r].data] \in Seq(Int)
                                     /\ Len(mem[nodes[r].data]) = MaxEnd
           /\ Len(BytesOf(r)) = nodes[r].size
           /\ \A i \in 1 .. nodes[r].size : BytesOf(r)[i] = mem[nodes[r].data][i]
<1>1. nodes[r].size \in Nat /\ nodes[r].size <= MaxEnd /\ nodes[r].data \in Blocks \cup {Nil, Static}
  BY ChildFacts, NodeFacts DEF Inv
<1>2. nodes[r].data = Nil <=> nodes[r].size = 0
  BY DEF Inv, NodesOK, NodeOK
<1>3. CASE nodes[r].data = Nil
  BY <1>1, <1>2, <1>3 DEF BytesOf
<1>4. CASE nodes[r].data # Nil
  <2>1. PICK b \in Bytes : b = mem[nodes[r].data]
    BY <1>1, <1>4 DEF Inv, Typed
  <2>2. b \in Seq(Int) /\ Len(b) = MaxEnd
    BY Constants DEF Bytes
  <2>3. PICK z \in Nat : z = nodes[r].size /\ z <= MaxEnd /\ z # 0
    BY <1>1, <1>2, <1>4
  <2>4. \A i \in 1 .. z : b[i] \in Int
    BY <2>3, Constants DEF Bytes
  <2>5. /\ Len(SubSeq(b, 1, z)) = z
        /\ \A i \in 1 .. z : SubSeq(b, 1, z)[i] = b[i]
    BY <2>2, <2>3, <2>4, SubSeqProperties
  <2>6. BytesOf(r) = SubSeq(b, 1, z)
    BY <1>4, <2>1, <2>3 DEF BytesOf
  <2> QED BY <1>1, <1>4, <2>1, <2>2, <2>3, <2>5, <2>6
<1> QED BY <1>3, <1>4

(* shell_cat prints all of the file, piece by piece.                       *)
LEMMA CatIs ==
    ASSUME Inv, NEW r \in Children
    PROVE  Cat(r) = BytesOf(r)
<1> DEFINE D == 0 .. MaxEnd + BufSize
           body(f, off) ==
             LET n == ReadSize(r, off, BufSize)
             IN  IF n = 0 THEN <<>> ELSE Read(r, off, BufSize) \o f[off + n]
           w == [off \in D |-> IF nodes[r].data = Nil \/ off >= nodes[r].size THEN <<>>
                               ELSE SubSeq(mem[nodes[r].data], off + 1, nodes[r].size)]
           g == CHOOSE f : f = [off \in D |-> body(f, off)]
<1>1. /\ nodes[r].size \in Nat /\ nodes[r].size <= MaxEnd
      /\ nodes[r].dir => nodes[r].data = Nil
      /\ nodes[r].data = Nil <=> nodes[r].size = 0
  <2>1. nodes[r].size \in Nat /\ nodes[r].size <= MaxEnd
    BY ChildFacts, NodeFacts DEF Inv
  <2> QED BY <2>1 DEF Inv, NodesOK, NodeOK
<1>2. PICK z \in Nat : z = nodes[r].size /\ z <= MaxEnd
  BY <1>1
<1>3. ASSUME NEW off \in D
      PROVE  IF nodes[r].data = Nil \/ off >= z THEN ReadSize(r, off, BufSize) = 0
             ELSE ReadSize(r, off, BufSize) \in 1 .. z - off
  BY <1>1, <1>2, Constants DEF ReadSize
<1>4. ASSUME NEW off \in D
      PROVE  w[off] = body(w, off)
  <2>1. CASE nodes[r].data = Nil \/ off >= z
    BY <1>2, <1>3, <2>1
  <2>2. CASE ~(nodes[r].data = Nil \/ off >= z)
    <3>1. PICK n \in 1 .. z - off : n = ReadSize(r, off, BufSize)
      BY <1>3, <2>2
    <3>2. PICK b \in Seq(Int) : b = mem[nodes[r].data] /\ Len(b) = MaxEnd
      BY <2>2, BytesAre
    <3>3. off + n \in D /\ off + n <= z /\ n # 0
      BY <1>2, <2>2, <3>1, Constants
    <3>4. w[off + n] = SubSeq(b, (off + n) + 1, z)
      <4>1. CASE off + n = z
        <5>1. SubSeq(b, (off + n) + 1, z) = <<>>
          BY <4>1, SubSeqEmpty
        <5> QED BY <1>2, <3>3, <4>1, <5>1
      <4>2. CASE off + n # z
        <5>1. PICK x \in D : x = off + n /\ ~(x >= z)
          BY <1>2, <3>1, <3>3, <4>2
        <5>2. w[x] = SubSeq(b, x + 1, z)
          BY <1>2, <2>2, <3>2, <5>1
        <5> QED BY <5>1, <5>2
      <4> QED BY <4>1, <4>2
    <3>5. w[off] = SubSeq(b, off + 1, z)
      BY <1>2, <2>2, <3>2
    <3>6. Read(r, off, BufSize) = SubSeq(b, off + 1, off + n)
      BY <3>1, <3>2 DEF Read
    <3>7. body(w, off) = SubSeq(b, off + 1, off + n) \o SubSeq(b, (off + n) + 1, z)
      <4> HIDE DEF w
      <4> QED BY <3>1, <3>3, <3>4, <3>6
    <3>8. off + 1 \in 1 .. Len(b) + 1 /\ off + n \in (off + 1) - 1 .. Len(b) /\ z \in off + n .. Len(b)
      <4>1. PICK e \in Nat : e = Len(b) /\ z <= e
        BY <1>2, <3>2, Constants
      <4>2. off \in Nat /\ n \in Nat /\ off + n <= z
        BY <3>1, <3>3, Constants
      <4> QED BY <4>1, <4>2
    <3>9. SubSeq(b, off + 1, off + n) \o SubSeq(b, (off + n) + 1, z) = SubSeq(b, off + 1, z)
      BY <3>8, ConcatAdjacentSubSeq
    <3> QED BY <3>5, <3>7, <3>9
  <2> QED BY <2>1, <2>2
<1>5. w = [off \in D |-> body(w, off)]
  BY <1>4, Zenon
<1>6. g = [off \in D |-> body(g, off)]
  BY <1>5, Zenon
<1>7. Cat(r) = g[0]
  BY DEF Cat
<1>8. w[0] = BytesOf(r) /\ 0 \in D
  <2>1. 0 \in D
    BY Constants
  <2>2. CASE nodes[r].data = Nil
    BY <2>1, <2>2 DEF BytesOf
  <2>3. CASE nodes[r].data # Nil
    <3>1. ~(0 >= nodes[r].size) /\ 0 + 1 = 1
      BY <1>1, <2>3
    <3> QED BY <2>1, <2>3, <3>1 DEF BytesOf
  <2> QED BY <2>1, <2>2, <2>3
<1> HIDE DEF w, g
<1>9. \A off \in D : g[off] = w[off]
  <2>1. SUFFICES ASSUME NEW o \in D, g[o] # w[o] PROVE FALSE
    OBVIOUS
  <2> DEFINE B == {k \in D : g[MaxEnd + BufSize - k] # w[MaxEnd + BufSize - k]}
  <2>2. B \subseteq Nat /\ B # {}
    <3>1. MaxEnd + BufSize - o \in D /\ MaxEnd + BufSize - (MaxEnd + BufSize - o) = o
      BY Constants
    <3>2. MaxEnd + BufSize - o \in B
      BY <2>1, <3>1
    <3>3. D \subseteq Nat
      BY Constants
    <3> QED BY <3>2, <3>3
  <2>3. PICK k \in B : \A j \in B : k <= j
    <3> HIDE DEF B
    <3> QED BY <2>2, LeastNatural
  <2>4. PICK off \in D : off = MaxEnd + BufSize - k /\ g[off] # w[off]
    BY <2>3, Constants
  <2>5. ASSUME NEW x \in D, x > off
        PROVE  g[x] = w[x]
    <3>1. /\ MaxEnd + BufSize - x \in D /\ ~(k <= MaxEnd + BufSize - x)
          /\ MaxEnd + BufSize - (MaxEnd + BufSize - x) = x
      BY <2>3, <2>4, <2>5, Constants
    <3>2. MaxEnd + BufSize - x \notin B
      BY <2>3, <3>1
    <3> QED BY <3>1, <3>2
  <2>6. g[off] = body(g, off) /\ w[off] = body(w, off)
    BY <1>5, <1>6, Zenon
  <2>7. CASE nodes[r].data = Nil \/ off >= z
    BY <1>3, <2>4, <2>6, <2>7
  <2>8. CASE ~(nodes[r].data = Nil \/ off >= z)
    <3>1. PICK n \in 1 .. z - off : n = ReadSize(r, off, BufSize)
      BY <1>3, <2>8
    <3>2. off + n \in D /\ off + n > off
      BY <1>2, <2>8, <3>1, Constants
    <3>3. g[off + n] = w[off + n]
      BY <2>5, <3>2
    <3>4. body(g, off) = body(w, off)
      BY <3>1, <3>3
    <3> QED BY <2>4, <2>6, <3>4
  <2> QED BY <2>7, <2>8
<1> QED BY <1>7, <1>8, <1>9

(* Every entry of the directory is the one its name leads to, and shell_cat*)
(* prints the whole of it, for every size of the file and of the buffer.   *)
THEOREM AllReachable == Spec => []EntriesReachable
<1>1. Inv => EntriesReachable
  <2> SUFFICES ASSUME Inv, NEW i \in 1 .. Len(children)
               PROVE  LET f == nodes[children[i]] IN
                      /\ Lookup(f.name) = i
                      /\ PathOf[f.name] = <<f.name>> =>
                           /\ Resolve(f.name) = children[i]
                           /\ Cat(Resolve(f.name)) = IF f.data = Nil THEN <<>>
                                                     ELSE SubSeq(mem[f.data], 1, f.size)
    BY DEF EntriesReachable
  <2>1. PICK r \in Children : r = children[i]
    BY DEF Children
  <2>2. Lookup(nodes[r].name) = i
    BY <2>1, LookupIs DEF Inv
  <2>3. i # 0
    BY CountFacts DEF Inv
  <2>4. PathOf[nodes[r].name] = <<nodes[r].name>> => Resolve(nodes[r].name) = r
    BY <2>1, <2>2, <2>3 DEF Resolve
  <2>5. Cat(r) = BytesOf(r)
    BY CatIs
  <2> QED BY <2>1, <2>2, <2>4, <2>5 DEF BytesOf
<1> QED BY <1>1, AlwaysInv, PTL

-----------------------------------------------------------------------------
(* Stored, through the nodes of the directory.                             *)
StoredOK ==
    /\ DOMAIN Stored = {nodes[r].name : r \in Children}
    /\ Stored = [m \in DOMAIN Stored |-> Stored[m]]
    /\ \A r \in Children : Stored[nodes[r].name] = Contents(r)

LEMMA StoredIs == Inv => StoredOK
<1> SUFFICES ASSUME Inv PROVE StoredOK
  OBVIOUS
<1>1. DOMAIN Stored = {nodes[r].name : r \in Children} /\ Stored = [m \in DOMAIN Stored |-> Stored[m]]
  BY DEF Stored
<1>2. ASSUME NEW r \in Children
      PROVE  Stored[nodes[r].name] = Contents(r)
  <2>1. PICK i \in 1 .. Len(children) : r = children[i]
    BY DEF Children
  <2>2. children[Lookup(nodes[r].name)] = r
    BY <2>1, LookupIs DEF Inv
  <2> QED BY <2>2 DEF Stored, Contents, BytesOf
<1> QED BY <1>1, <1>2 DEF StoredOK

(* Nothing stored changes when the entries keep their contents.            *)
LEMMA StoredSame ==
    ASSUME StoredOK, StoredOK', Children' = Children,
           \A r \in Children : nodes'[r].name = nodes[r].name /\ Contents(r)' = Contents(r)
    PROVE  Stored' = Stored
<1>1. DOMAIN Stored' = DOMAIN Stored
  BY DEF StoredOK
<1>2. ASSUME NEW m \in DOMAIN Stored
      PROVE  Stored'[m] = Stored[m]
  <2>1. PICK r \in Children : m = nodes[r].name
    BY DEF StoredOK
  <2> QED BY <2>1 DEF StoredOK
<1> QED BY <1>1, <1>2 DEF StoredOK

LEMMA SameContents ==
    ASSUME NEW r, nodes'[r] = nodes[r],
           nodes[r].data # Nil => mem'[nodes[r].data] = mem[nodes[r].data]
    PROVE  Contents(r)' = Contents(r)
BY DEF Contents, BytesOf

LEMMA StoredAdd ==
    ASSUME Inv, NEW n \in Names, NEW isDir \in BOOLEAN, AddNode(n, isDir)
    PROVE  Store!StoreNext
<1>1. StoredOK /\ StoredOK'
  <2>1. Inv'
    BY AddStep
  <2> QED BY <2>1, StoredIs, PTL
<1>2. mem' = mem
  BY DEF AddNode
<1>3. \A r \in Children : nodes'[r] = nodes[r]
  BY AddStep, ChildFacts DEF Inv
<1>4. \A r \in Children : Contents(r)' = Contents(r)
  BY <1>2, <1>3, SameContents
<1>5. CASE Children' = Children /\ ret' = [op |-> "create", val |-> -1]
  <2>1. Stored' = Stored
    BY <1>1, <1>3, <1>4, <1>5, StoredSame
  <2>2. Store!StoreRefuse
    BY <1>5, <2>1 DEF Store!StoreRefuse
  <2> QED BY <2>2 DEF Store!StoreNext
<1>6. ASSUME NEW c, Children' = Children \cup {c}, nodes'[c] = Node(n, isDir, ~isDir),
             ret' = [op |-> "create", val |-> 0]
      PROVE  Store!StoreNext
  <2>1. n \notin DOMAIN Stored
    <3>1. \A r \in Children : nodes[r].name # n
      BY LookupIs DEF AddNode, CanAdd, Inv
    <3> QED BY <1>1, <3>1 DEF StoredOK
  <2>2. nodes'[c].name = n /\ nodes'[c].data = Nil /\ nodes'[c].dir = isDir
    BY <1>6 DEF Node
  <2>3. Contents(c)' = [dir |-> isDir, bytes |-> <<>>]
    BY <2>2 DEF Contents, BytesOf
  <2>4. DOMAIN Stored' = DOMAIN Stored \cup {n}
    <3>1. DOMAIN Stored' = {nodes'[r].name : r \in Children'}
      BY <1>1 DEF StoredOK
    <3>2. DOMAIN Stored = {nodes[r].name : r \in Children}
      BY <1>1 DEF StoredOK
    <3> QED BY <1>3, <1>6, <2>2, <3>1, <3>2
  <2>5. Stored'[n] = [dir |-> isDir, bytes |-> <<>>]
    BY <1>1, <1>6, <2>2, <2>3 DEF StoredOK
  <2>6. ASSUME NEW m \in DOMAIN Stored
        PROVE  Stored'[m] = Stored[m] /\ m # n
    <3>1. PICK r \in Children : m = nodes[r].name
      BY <1>1 DEF StoredOK
    <3> QED BY <1>1, <1>3, <1>4, <1>6, <2>1, <3>1 DEF StoredOK
  <2>7. Stored' = [m \in DOMAIN Stored' |-> Stored'[m]]
    BY <1>1 DEF StoredOK
  <2>8. Stored' = [m \in DOMAIN Stored \cup {n} |->
                     IF m = n THEN [dir |-> isDir, bytes |-> <<>>] ELSE Stored[m]]
    BY <2>4, <2>5, <2>6, <2>7
  <2>9. Store!StoreCreate(n, isDir)
    BY <1>6, <2>1, <2>8 DEF Store!StoreCreate
  <2> QED BY <2>9 DEF Store!StoreNext
<1> QED BY <1>5, <1>6, AddStep

LEMMA StoredRemove ==
    ASSUME Inv, NEW n \in Names, Unlink(n)
    PROVE  Store!StoreNext
<1>1. StoredOK /\ StoredOK'
  <2>1. Inv'
    BY UnlinkStep
  <2> QED BY <2>1, StoredIs, PTL
<1>2. PICK r \in Children : /\ nodes[r].name = n /\ Children' = Children \ {r}
                            /\ \A s \in Children : s # r => nodes'[s] = nodes[s]
  BY UnlinkStep
<1>3. mem' = mem /\ ret' = [op |-> "remove", val |-> 0]
  BY DEF Unlink, Result
<1>4. \A s \in Children : s # r => Contents(s)' = Contents(s) /\ nodes[s].name # n
  BY <1>2, <1>3, SameContents, NamesOfChildren DEF Inv
<1>5. DOMAIN Stored' = DOMAIN Stored \ {n} /\ n \in DOMAIN Stored
  <2>1. DOMAIN Stored' = {nodes'[s].name : s \in Children'}
    BY <1>1 DEF StoredOK
  <2>2. DOMAIN Stored = {nodes[s].name : s \in Children}
    BY <1>1 DEF StoredOK
  <2> QED BY <1>2, <1>4, <2>1, <2>2
<1>6. ASSUME NEW m \in DOMAIN Stored, m # n
      PROVE  Stored'[m] = Stored[m]
  <2>1. PICK s \in Children : m = nodes[s].name
    BY <1>1 DEF StoredOK
  <2>2. s # r /\ s \in Children' /\ nodes'[s] = nodes[s]
    BY <1>2, <1>6, <2>1
  <2> QED BY <1>1, <1>4, <2>1, <2>2 DEF StoredOK
<1>7. Stored' = [m \in DOMAIN Stored' |-> Stored'[m]]
  BY <1>1 DEF StoredOK
<1>8. Stored' = [m \in DOMAIN Stored \ {n} |-> Stored[m]]
  BY <1>5, <1>6, <1>7
<1>9. Store!StoreRemove(n)
  BY <1>3, <1>5, <1>8 DEF Store!StoreRemove
<1> QED BY <1>9 DEF Store!StoreNext

(* A write that leaves the other entries alone is a write of FileStore.    *)
LEMMA StoredWrite ==
    ASSUME Inv, Inv', Children' = Children, NEW r \in Children, NEW b \in 1 .. MaxOps,
           NEW off \in Nat, NEW k \in Nat, off + k <= MaxEnd,
           ret' = [op |-> "write", val |-> k],
           nodes'[r].name = nodes[r].name, ~nodes[r].dir, ~nodes'[r].dir,
           \A s \in Children : s # r => nodes'[s].name = nodes[s].name /\ Contents(s)' = Contents(s),
           Len(BytesOf(r)') = IF Len(BytesOf(r)) > off + k THEN Len(BytesOf(r)) ELSE off + k,
           \A i \in 1 .. Len(BytesOf(r)') :
             IF off < i /\ i <= off + k THEN BytesOf(r)'[i] = b
             ELSE i <= Len(BytesOf(r)) => BytesOf(r)'[i] = BytesOf(r)[i]
    PROVE  Store!StoreNext
<1>1. StoredOK /\ StoredOK'
  BY StoredIs, PTL
<1>2. PICK n \in Names : n = nodes[r].name
  BY DEF Inv, NodesOK, NodeOK
<1>3. DOMAIN Stored' = DOMAIN Stored /\ n \in DOMAIN Stored
  <2>1. DOMAIN Stored' = {nodes'[s].name : s \in Children'}
    BY <1>1 DEF StoredOK
  <2>2. DOMAIN Stored = {nodes[s].name : s \in Children}
    BY <1>1 DEF StoredOK
  <2>3. \A s \in Children : nodes'[s].name = nodes[s].name
    OBVIOUS
  <2> QED BY <1>2, <2>1, <2>2, <2>3
<1>4. /\ Stored[n].bytes = BytesOf(r) /\ Stored'[n].bytes = BytesOf(r)'
      /\ ~Stored[n].dir /\ ~Stored'[n].dir
  <2>1. Stored[n] = Contents(r)
    BY <1>1, <1>2 DEF StoredOK
  <2>2. Stored'[n] = Contents(r)'
    BY <1>1, <1>2 DEF StoredOK
  <2>3. Contents(r).bytes = BytesOf(r) /\ ~Contents(r).dir
    BY DEF Contents
  <2>4. Contents(r)'.bytes = BytesOf(r)' /\ ~Contents(r)'.dir
    BY DEF Contents
  <2> QED BY <2>1, <2>2, <2>3, <2>4
<1>5. ASSUME NEW m \in DOMAIN Stored, m # n
      PROVE  Stored'[m] = Stored[m]
  <2>1. PICK s \in Children : m = nodes[s].name
    BY <1>1 DEF StoredOK
  <2>2. s # r
    BY <1>2, <1>5, <2>1
  <2> QED BY <1>1, <2>1, <2>2 DEF StoredOK
<1>6. Store!StoreWrite(n, off, k, b)
  BY <1>3, <1>4, <1>5 DEF Store!StoreWrite
<1>7. off \in 0 .. MaxEnd /\ k \in 0 .. MaxEnd - off
  BY Constants
<1> QED BY <1>6, <1>7 DEF Store!StoreNext

LEMMA StoredWriteInside ==
    ASSUME Inv, NEW n \in Names, NEW off \in Nat, NEW size \in Nat, off + size <= MaxEnd,
           WriteInside(n, off, size)
    PROVE  Store!StoreNext
<1>1. Inv' /\ nodes' = nodes /\ Children' = Children /\ ops + 1 \in 1 .. MaxOps
  BY WriteInsideStep
<1>2. PICK r \in Children, k \in Nat :
        /\ ~nodes[r].dir /\ nodes[r].data # Nil /\ off + k <= nodes[r].size
        /\ mem' = [mem EXCEPT ![nodes[r].data] = Put(mem[nodes[r].data], off, k)]
        /\ ret' = [op |-> "write", val |-> k]
  BY WriteInsideStep
<1>3. PICK z \in Nat : z = nodes[r].size /\ z <= MaxEnd
  BY ChildFacts, NodeFacts DEF Inv
<1>4. PICK d \in Blocks \cup {Static} : d = nodes[r].data /\ mem[d] \in Bytes
  BY <1>2, BytesAre DEF Inv, Typed
<1>5. mem'[d] = Put(mem[d], off, k) /\ \A e \in Blocks \cup {Static} : e # d => mem'[e] = mem[e]
  BY <1>2, <1>4 DEF Inv, Typed
<1>6. \A i \in 1 .. z : mem'[d][i] = IF off < i /\ i <= off + k THEN ops + 1 ELSE mem[d][i]
  <2>1. ops \in Nat
    BY Constants DEF Inv, Typed
  <2>2. \A i \in 1 .. z : i \in 1 .. MaxEnd
    BY <1>3, Constants
  <2>3. \A i \in 1 .. MaxEnd :
          Put(mem[d], off, k)[i] = IF off < i /\ i <= off + k THEN ops + 1 ELSE mem[d][i]
    <3>1. PICK old \in Bytes : old = mem[d]
      BY <1>4
    <3>2. \A i \in 1 .. MaxEnd :
            Put(old, off, k)[i] = IF off < i /\ i <= off + k THEN ops + 1 ELSE old[i]
      BY <2>1, PutIs
    <3> QED BY <3>1, <3>2
  <2> QED BY <1>5, <2>2, <2>3
<1>7. Len(BytesOf(r)) = z /\ \A i \in 1 .. z : BytesOf(r)[i] = mem[d][i]
  BY <1>3, <1>4, BytesAre
<1>8. Len(BytesOf(r)') = z /\ \A i \in 1 .. z : BytesOf(r)'[i] = mem'[d][i]
  <2>1. BytesOf(r)' = SubSeq(mem'[d], 1, z)
    BY <1>1, <1>2, <1>3, <1>4 DEF BytesOf
  <2>2. mem'[d] \in Bytes
    BY <1>1 DEF Inv, Typed
  <2> QED BY <1>3, <2>1, <2>2, PrefixIs
<1>9. ASSUME NEW s \in Children, s # r
      PROVE  nodes'[s].name = nodes[s].name /\ Contents(s)' = Contents(s)
  <2>1. nodes'[s] = nodes[s]
    BY <1>1
  <2>2. nodes[s].data # Nil => nodes[s].data \in Blocks \cup {Static} /\ nodes[s].data # d
    BY <1>4, <1>9, BytesAre DEF Inv, Unshared
  <2> QED BY <1>5, <2>1, <2>2, SameContents
<1>10. Len(BytesOf(r)') = IF Len(BytesOf(r)) > off + k THEN Len(BytesOf(r)) ELSE off + k
  BY <1>2, <1>3, <1>7, <1>8
<1>11. \A i \in 1 .. Len(BytesOf(r)') :
         IF off < i /\ i <= off + k THEN BytesOf(r)'[i] = ops + 1
         ELSE i <= Len(BytesOf(r)) => BytesOf(r)'[i] = BytesOf(r)[i]
  BY <1>6, <1>7, <1>8
<1>12. PICK b \in 1 .. MaxOps : b = ops + 1
  BY <1>1
<1>13. off + k <= MaxEnd
  BY <1>2, <1>3, Constants
<1> QED BY <1>1, <1>2, <1>9, <1>10, <1>11, <1>12, <1>13, StoredWrite

LEMMA StoredWriteGrow ==
    ASSUME Inv, NEW n \in Names, NEW off \in Nat, NEW size \in Nat, off + size <= MaxEnd,
           WriteGrow(n, off, size)
    PROVE  Store!StoreNext
<1>1. /\ Inv' /\ Children' = Children /\ ops + 1 \in 1 .. MaxOps
      /\ ret' = [op |-> "write", val |-> size]
  BY WriteGrowStep
<1>2. PICK r \in Children, fresh \in Blocks \ used :
        /\ ~nodes[r].dir /\ nodes[r].size < off + size
        /\ mem' = [mem EXCEPT ![fresh] = Put(Moved(nodes[r], fresh), off, size)]
        /\ nodes'[r].name = nodes[r].name /\ ~nodes'[r].dir
        /\ nodes'[r].data = fresh /\ nodes'[r].size = off + size
        /\ \A s \in Children : s # r => nodes'[s] = nodes[s]
  BY WriteGrowStep
<1>3. PICK z \in Nat : z = off + size /\ z <= MaxEnd
  OBVIOUS
<1>4. PICK y \in Nat : y = nodes[r].size /\ y < z /\ y <= MaxEnd
  BY <1>2, <1>3, ChildFacts, NodeFacts DEF Inv
<1> DEFINE M == Moved(nodes[r], fresh)
<1>5. M \in Bytes /\ \A i \in 1 .. MaxEnd : nodes[r].data # Nil /\ i <= y => M[i] = mem[nodes[r].data][i]
  <2>1. mem[fresh] \in Bytes
    BY DEF Inv, Typed
  <2>2. nodes[r].data # Nil => mem[nodes[r].data] \in Bytes
    BY BytesAre DEF Inv, Typed
  <2> QED BY <1>4, <2>1, <2>2 DEF Moved, Bytes
<1>6. mem'[fresh] = Put(M, off, size) /\ \A e \in Blocks \cup {Static} : e # fresh => mem'[e] = mem[e]
  BY <1>2 DEF Inv, Typed
<1> HIDE DEF M
<1>7. \A i \in 1 .. z : mem'[fresh][i] = IF off < i /\ i <= off + size THEN ops + 1 ELSE M[i]
  <2>1. ops \in Nat
    BY Constants DEF Inv, Typed
  <2>2. \A i \in 1 .. z : i \in 1 .. MaxEnd
    BY <1>3, Constants
  <2>3. \A i \in 1 .. MaxEnd :
          Put(M, off, size)[i] = IF off < i /\ i <= off + size THEN ops + 1 ELSE M[i]
    BY <1>5, <2>1, PutIs
  <2>4. \A i \in 1 .. z :
          Put(M, off, size)[i] = IF off < i /\ i <= off + size THEN ops + 1 ELSE M[i]
    BY <2>2, <2>3
  <2> QED BY <1>6, <2>4
<1>8. Len(BytesOf(r)) = y /\ \A i \in 1 .. y : nodes[r].data # Nil /\ BytesOf(r)[i] = mem[nodes[r].data][i]
  <2>1. nodes[r].data = Nil => y = 0
    BY <1>4, BytesAre
  <2> QED BY <1>4, <2>1, BytesAre
<1>9. Len(BytesOf(r)') = z /\ \A i \in 1 .. z : BytesOf(r)'[i] = mem'[fresh][i]
  <2>1. BytesOf(r)' = SubSeq(mem'[fresh], 1, z)
    BY <1>2, <1>3, Constants DEF BytesOf
  <2>2. mem'[fresh] \in Bytes
    BY <1>1 DEF Inv, Typed
  <2> QED BY <1>3, <2>1, <2>2, PrefixIs
<1>10. ASSUME NEW s \in Children, s # r
       PROVE  nodes'[s].name = nodes[s].name /\ Contents(s)' = Contents(s)
  <2>1. nodes'[s] = nodes[s]
    BY <1>2, <1>10
  <2>2. nodes[s].data # Nil => nodes[s].data \in Blocks \cup {Static} /\ nodes[s].data # fresh
    <3>1. fresh # Nil /\ fresh # Static /\ fresh \notin used
      BY Constants
    <3> QED BY <3>1, BytesAre DEF Inv, NodesOK, NodeOK, Owned
  <2> QED BY <1>6, <2>1, <2>2, SameContents
<1>11. Len(BytesOf(r)') = IF Len(BytesOf(r)) > off + size THEN Len(BytesOf(r)) ELSE off + size
  BY <1>3, <1>4, <1>8, <1>9
<1>12. ASSUME NEW i \in 1 .. Len(BytesOf(r)')
       PROVE  IF off < i /\ i <= off + size THEN BytesOf(r)'[i] = ops + 1
              ELSE i <= Len(BytesOf(r)) => BytesOf(r)'[i] = BytesOf(r)[i]
  <2>1. i \in 1 .. z /\ i \in 1 .. MaxEnd
    BY <1>3, <1>9, Constants
  <2>2. i <= y => BytesOf(r)[i] = M[i]
    BY <1>4, <1>5, <1>8, <2>1
  <2> QED BY <1>7, <1>8, <1>9, <2>1, <2>2
<1>13. PICK b \in 1 .. MaxOps : b = ops + 1
  BY <1>1
<1> QED BY <1>1, <1>2, <1>10, <1>11, <1>12, <1>13, StoredWrite

LEMMA StoredUnchanged ==
    ASSUME Inv, UNCHANGED <<nodes, node_count, children, mem, used, ops>>
    PROVE  Stored' = Stored
<1>1. StoredOK /\ StoredOK'
  <2>1. Inv'
    BY UnchangedInv
  <2> QED BY <2>1, StoredIs, PTL
<1>2. Children' = Children
  BY UnchangedInv
<1>3. \A r \in Children : nodes'[r].name = nodes[r].name /\ Contents(r)' = Contents(r)
  BY SameContents
<1> QED BY <1>1, <1>2, <1>3, StoredSame

LEMMA StoreStep == Inv /\ [Next]_vars => [Store!StoreNext]_(Store!storeVars)
<1> SUFFICES ASSUME Inv, [Next]_vars PROVE [Store!StoreNext]_(Store!storeVars)
  OBVIOUS
<1>1. ASSUME NEW n \in Names, Create(n) PROVE Store!StoreNext
  BY <1>1, StoredAdd DEF Create
<1>2. ASSUME NEW n \in Names, Mkdir(n) PROVE Store!StoreNext
  BY <1>2, StoredAdd DEF Mkdir
<1>3. ASSUME NEW n \in Names, AddRefused(n) PROVE Store!StoreNext
  <2>1. Stored' = Stored
    BY <1>3, StoredUnchanged DEF AddRefused
  <2>2. Store!StoreRefuse
    BY <1>3, <2>1 DEF AddRefused, Result, Store!StoreRefuse
  <2> QED BY <2>2 DEF Store!StoreNext
<1>4. ASSUME NEW n \in Names, Unlink(n) PROVE Store!StoreNext
  BY <1>4, StoredRemove
<1>5. ASSUME NEW n \in Names, UnlinkRefused(n) PROVE Store!StoreNext
  <2>1. Stored' = Stored
    BY <1>5, StoredUnchanged DEF UnlinkRefused
  <2>2. Store!StoreRefuse
    BY <1>5, <2>1 DEF UnlinkRefused, Result, Store!StoreRefuse
  <2> QED BY <2>2 DEF Store!StoreNext
<1>6. ASSUME NEW n \in Names, NEW off \in 0 .. MaxEnd, NEW size \in 0 .. MaxEnd - off,
             \/ WriteInside(n, off, size)
             \/ WriteGrow(n, off, size)
             \/ WriteRefused(n, off, size)
      PROVE  Store!StoreNext
  <2>1. off \in Nat /\ size \in Nat /\ off + size <= MaxEnd
    BY Constants
  <2>2. CASE WriteInside(n, off, size)
    BY <2>1, <2>2, StoredWriteInside
  <2>3. CASE WriteGrow(n, off, size)
    BY <2>1, <2>3, StoredWriteGrow
  <2>4. CASE WriteRefused(n, off, size)
    <3>1. Stored' = Stored
      BY <2>4, StoredUnchanged DEF WriteRefused
    <3>2. Store!StoreRefuse
      BY <2>4, <3>1 DEF WriteRefused, Result, Store!StoreRefuse
    <3> QED BY <3>2 DEF Store!StoreNext
  <2> QED BY <1>6, <2>2, <2>3, <2>4
<1>7. CASE UNCHANGED vars
  <2>1. Stored' = Stored
    BY <1>7, StoredUnchanged DEF vars
  <2> QED BY <1>7, <2>1 DEF vars, Store!storeVars
<1> QED BY <1>1, <1>2, <1>3, <1>4, <1>5, <1>6, <1>7 DEF Next

LEMMA StoreInitially == Init => Store!StoreInit
<1> SUFFICES ASSUME Init PROVE Store!StoreInit
  OBVIOUS
<1>1. StoredOK /\ Inv
  BY InitInv, StoredIs
<1>2. Children = {2} /\ nodes[2].name = Hello /\ ~nodes[2].dir
      /\ nodes[2].data = Static /\ nodes[2].size = HelloSize
  <2>1. Children = {2}
    BY DEF Init, Children
  <2>2. /\ nodes[2].name = Hello /\ ~nodes[2].dir
        /\ nodes[2].data = Static /\ nodes[2].size = HelloSize
    BY DEF Init, Node
  <2> QED BY <2>1, <2>2
<1>3. BytesOf(2) = [i \in 1 .. HelloSize |-> 0]
  <2>1. PICK z \in Nat : z = HelloSize /\ z <= MaxEnd
    BY Constants
  <2>2. mem[Static] \in Bytes /\ \A i \in 1 .. MaxEnd : mem[Static][i] = 0
    BY DEF Init, Bytes
  <2>3. BytesOf(2) = SubSeq(mem[Static], 1, z)
    BY <1>2, <2>1, Constants DEF BytesOf
  <2>4. \A i \in 1 .. z : i \in 1 .. MaxEnd
    BY <2>1, Constants
  <2>5. SubSeq(mem[Static], 1, z) \in [1 .. z -> Int] /\ \A i \in 1 .. z : SubSeq(mem[Static], 1, z)[i] = 0
    BY <2>1, <2>2, <2>4, PrefixIs
  <2> QED BY <2>1, <2>3, <2>5
<1>4. Stored = [n \in {Hello} |-> [dir |-> FALSE, bytes |-> [i \in 1 .. HelloSize |-> 0]]]
  <2>1. DOMAIN Stored = {Hello} /\ Stored = [m \in DOMAIN Stored |-> Stored[m]]
    BY <1>1, <1>2 DEF StoredOK
  <2>2. nodes[2].dir = FALSE
    <3>1. nodes[2].dir \in BOOLEAN
      BY <1>1, <1>2, ChildFacts, NodeFacts DEF Inv
    <3> QED BY <1>2, <3>1
  <2>3. Stored[Hello] = [dir |-> FALSE, bytes |-> [i \in 1 .. HelloSize |-> 0]]
    BY <1>1, <1>2, <1>3, <2>2 DEF StoredOK, Contents
  <2> QED BY <2>1, <2>3
<1>5. ret = [op |-> "init", val |-> 0]
  BY DEF Init
<1> QED BY <1>4, <1>5 DEF Store!StoreInit

(* The RAM file system implements FileStore: a write changes the bytes it  *)
(* was asked to change and no other byte of any file, although blocks are  *)
(* replaced and reused, and the return values tell what happened.          *)
THEOREM ImplementsStore == Spec => RefinesStore
BY StoreInitially, StoreStep, AlwaysInv, PTL DEF Spec, RefinesStore, Store!StoreSpec
=============================================================================
