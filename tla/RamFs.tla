------------------------------- MODULE RamFs -------------------------------
(***************************************************************************)
(* The RAM file system of src/fs/ramfs.c, called through src/fs/vfs.c.     *)
(* Nodes come from a static pool that only grows; the root directory is an *)
(* array of node pointers; the bytes of a file are in a heap block that is *)
(* replaced when the file grows.  One caller at a time (the kernel shell). *)
(***************************************************************************)
EXTENDS Integers, Sequences, FiniteSets, SequencesExt

CONSTANTS MaxNodes,      \* RAMFS_MAX_FILES + 1
          MaxChildren,   \* RAMFS_MAX_CHILDREN
          Names,         \* names callers pass, shorter than VFS_NAME_MAX
          PathOf,        \* name -> the components vfs_resolve_path splits it into
          Hello,         \* "hello.txt"
          HelloSize,
          Blocks,        \* addresses of the blocks kmalloc can hand out
          BufSize,       \* buffer of shell_cat
          MaxEnd,        \* bound of the model: offset + size of a write
          MaxOps         \* bound of the model: writes

Static == -1          \* the address of hello_data
Nil == 0
ROOT == 1

ASSUME RamFsAssumption ==
    /\ MaxNodes \in Nat /\ MaxNodes >= 2 /\ MaxChildren \in Nat
    /\ MaxNodes <= MaxChildren
    /\ MaxEnd \in Nat /\ MaxOps \in Nat
    /\ Hello \in Names /\ HelloSize \in 1 .. MaxEnd
    /\ PathOf \in [Names -> Seq(STRING)]
    /\ {Nil, Static} \cap Blocks = {} /\ BufSize \in Nat \ {0}

VARIABLES nodes,        \* the pool: node number -> its fields
          node_count,
          children,     \* ramfs_root->children, child_count of them
          mem,          \* what the heap blocks and hello_data hold
          used,         \* blocks that are allocated
          ret,          \* the last operation and its return value
          ops

vars == <<nodes, node_count, children, mem, used, ret, ops>>

Node(name, isDir, owns) ==
    [name |-> name, dir |-> isDir, data |-> Nil, size |-> 0, owns |-> owns]

Result(op, v) == ret' = [op |-> op, val |-> v]

-----------------------------------------------------------------------------
(* ramfs_init: the root (node 1) and hello.txt (node 2).  What fresh heap  *)
(* memory holds is written 0.                                              *)
Init ==
    /\ nodes = <<Node("/", TRUE, FALSE),
                 [Node(Hello, FALSE, FALSE) EXCEPT !.data = Static, !.size = HelloSize]>>
    /\ node_count = 2
    /\ children = <<2>>
    /\ mem = [b \in Blocks \cup {Static} |-> [i \in 1 .. MaxEnd |-> 0]]
    /\ used = {}
    /\ ret = [op |-> "init", val |-> 0]
    /\ ops = 0

(* ramfs_finddir on the root: the position of the first child of that name *)
Lookup(n) ==
    LET at == {i \in 1 .. Len(children) : nodes[children[i]].name = n}
    IN  IF at = {} THEN 0 ELSE CHOOSE i \in at : \A j \in at : i <= j

(* vfs_resolve_path.  Only the root has entries, so a second component is  *)
(* never found.                                                            *)
Resolve(n) ==
    IF PathOf[n] = <<>> THEN ROOT
    ELSE IF Len(PathOf[n]) = 1 /\ Lookup(PathOf[n][1]) # 0
      THEN children[Lookup(PathOf[n][1])]
    ELSE Nil

(* vfs_read and ramfs_read: how many bytes are copied, and which.          *)
ReadSize(r, off, size) ==
    IF nodes[r].dir \/ nodes[r].data = Nil \/ off >= nodes[r].size THEN 0
    ELSE IF off + size > nodes[r].size THEN nodes[r].size - off ELSE size

Read(r, off, size) == SubSeq(mem[nodes[r].data], off + 1, off + ReadSize(r, off, size))

(* shell_cat: reads of BufSize bytes until one returns nothing.            *)
Cat(r) ==
    LET shown[off \in 0 .. MaxEnd + BufSize] ==
          LET n == ReadSize(r, off, BufSize)
          IN  IF n = 0 THEN <<>> ELSE Read(r, off, BufSize) \o shown[off + n]
    IN  shown[0]

-----------------------------------------------------------------------------
(* Mutant: the name is not looked for.                                     *)
MutCanAdd(n) == node_count < MaxNodes

(* ramfs_create and ramfs_mkdir: the name is new and a node is left.       *)
CanAdd(n) == Lookup(n) = 0 /\ node_count < MaxNodes

(* ramfs_alloc_node takes a node before ramfs_add_child looks for room in  *)
(* the directory.                                                          *)
AddNode(n, isDir) ==
    /\ CanAdd(n)
    /\ nodes' = Append(nodes, Node(n, isDir, ~isDir))
    /\ node_count' = node_count + 1
    /\ IF Len(children) < MaxChildren
         THEN children' = Append(children, node_count + 1) /\ Result("create", 0)
         ELSE children' = children /\ Result("create", -1)
    /\ UNCHANGED <<mem, used, ops>>

Create(n) == AddNode(n, FALSE)
Mkdir(n) == AddNode(n, TRUE)

AddRefused(n) ==
    /\ ~CanAdd(n)
    /\ Result("create", -1)
    /\ UNCHANGED <<nodes, node_count, children, mem, used, ops>>

(* Mutant: the block is not returned to the heap.                          *)
MutReleased(r) == used

Released(r) == IF nodes[r].owns THEN used \ {nodes[r].data} ELSE used

(* ramfs_unlink: the block goes back to the heap, the later children move  *)
(* up; the node itself is lost to the pool.  A directory has no children.  *)
Unlink(n) ==
    /\ Lookup(n) # 0
    /\ LET r == children[Lookup(n)] IN
       /\ used' = Released(r)
       /\ nodes' = IF nodes[r].owns THEN [nodes EXCEPT ![r].data = Nil] ELSE nodes
    /\ children' = RemoveAt(children, Lookup(n))
    /\ Result("remove", 0)
    /\ UNCHANGED <<node_count, mem, ops>>

UnlinkRefused(n) ==
    /\ Lookup(n) = 0
    /\ Result("remove", -1)
    /\ UNCHANGED <<nodes, node_count, children, mem, used, ops>>

-----------------------------------------------------------------------------
(* vfs_write on a resolved path reaches ramfs_write for a file only.       *)
Writable(n) == Resolve(n) # Nil /\ ~nodes[Resolve(n)].dir

(* memcpy of the caller's bytes; those of the i-th write are all i.        *)
Put(bytes, off, k) ==
    [i \in 1 .. MaxEnd |-> IF off < i /\ i <= off + k THEN ops + 1 ELSE bytes[i]]

(* Inside the file, or up to the end of one that cannot grow.              *)
WriteInside(n, off, size) ==
    /\ ops < MaxOps /\ Writable(n)
    /\ LET f == nodes[Resolve(n)]
           k == IF off + size > f.size THEN f.size - off ELSE size
       IN  /\ f.data # Nil
           /\ off + size <= f.size \/ (~f.owns /\ off < f.size)
           /\ mem' = [mem EXCEPT ![f.data] = Put(@, off, k)]
           /\ Result("write", k)
    /\ ops' = ops + 1
    /\ UNCHANGED <<nodes, node_count, children, used>>

(* Mutant: the old contents are not copied.                                *)
MutMoved(f, fresh) == mem[fresh]

(* memcpy of the old contents into the new block.                          *)
Moved(f, fresh) ==
    [i \in 1 .. MaxEnd |->
       IF f.data # Nil /\ i <= f.size THEN mem[f.data][i] ELSE mem[fresh][i]]

(* Beyond the end: a new block, the old one is freed, then the bytes.      *)
WriteGrow(n, off, size) ==
    /\ ops < MaxOps /\ Writable(n)
    /\ LET r == Resolve(n)
           f == nodes[r]
       IN  /\ f.owns /\ off + size > f.size
           /\ \E fresh \in Blocks \ used :
                /\ mem' = [mem EXCEPT ![fresh] = Put(Moved(f, fresh), off, size)]
                /\ used' = (IF f.size > 0 THEN used \ {f.data} ELSE used) \cup {fresh}
                /\ nodes' = [nodes EXCEPT ![r].data = fresh, ![r].size = off + size]
    /\ Result("write", size)
    /\ ops' = ops + 1
    /\ UNCHANGED <<node_count, children>>

(* No file, no heap block, nothing to write into: 0.                       *)
WriteRefused(n, off, size) ==
    /\ Writable(n) =>
         LET f == nodes[Resolve(n)] IN
         IF off + size <= f.size THEN f.data = Nil
         ELSE IF f.owns THEN Blocks \subseteq used ELSE off >= f.size
    /\ Result("write", 0)
    /\ UNCHANGED <<nodes, node_count, children, mem, used, ops>>

-----------------------------------------------------------------------------
Next ==
    \/ \E n \in Names : Create(n)
    \/ \E n \in Names : Mkdir(n)
    \/ \E n \in Names : AddRefused(n)
    \/ \E n \in Names : Unlink(n)
    \/ \E n \in Names : UnlinkRefused(n)
    \/ \E n \in Names, off \in 0 .. MaxEnd : \E size \in 0 .. MaxEnd - off :
         \/ WriteInside(n, off, size)
         \/ WriteGrow(n, off, size)
         \/ WriteRefused(n, off, size)

Spec == Init /\ [][Next]_vars

-----------------------------------------------------------------------------
(* Properties.                                                             *)

Children == {children[i] : i \in 1 .. Len(children)}

(* The variables keep their types and the pool its limit.                  *)
TypeOK ==
    /\ node_count \in 2 .. MaxNodes /\ Len(nodes) = node_count
    /\ \A r \in 1 .. node_count :
         nodes[r] \in [name : Names \cup {"/"}, dir : BOOLEAN, owns : BOOLEAN,
                       data : Blocks \cup {Nil, Static}, size : 0 .. MaxEnd]
    /\ children \in Seq(2 .. node_count)
    /\ used \subseteq Blocks

(* The root directory never holds a name twice, so the path of everything  *)
(* in it leads to the very node that was created for it, and shell_cat     *)
(* prints the whole contents, whatever their size is in relation to its    *)
(* buffer; the exception is a name with a slash, which touch and mkdir     *)
(* accept but no path can have.                                            *)
EntriesReachable ==
    \A i \in 1 .. Len(children) :
      LET f == nodes[children[i]] IN
      /\ Lookup(f.name) = i
      /\ PathOf[f.name] = <<f.name>> =>
           /\ Resolve(f.name) = children[i]
           /\ Cat(Resolve(f.name)) = IF f.data = Nil THEN <<>>
                                     ELSE SubSeq(mem[f.data], 1, f.size)

(* Every allocated block belongs to one file of the directory, and every   *)
(* block a file points to is allocated: growing and removing files in any  *)
(* order leaks no block, frees none twice and shares none, and the node    *)
(* pool keeps its limit.                                                   *)
BlocksAccounted ==
    /\ TypeOK
    /\ used = {nodes[r].data : r \in {c \in Children : nodes[c].owns}} \ {Nil}
    /\ \A r, s \in Children :
         r # s /\ nodes[r].data # Nil => nodes[r].data # nodes[s].data

(* The directory, with the contents of its files.                          *)
Stored ==
    [n \in {nodes[r].name : r \in Children} |->
       LET f == nodes[children[Lookup(n)]] IN
       [dir |-> f.dir,
        bytes |-> IF f.data = Nil THEN <<>> ELSE SubSeq(mem[f.data], 1, f.size)]]

Store == INSTANCE FileStore WITH
    files <- Stored,
    Bytes <- 1 .. MaxOps,
    Initial <- [n \in {Hello} |-> [dir |-> FALSE, bytes |-> [i \in 1 .. HelloSize |-> 0]]]

(* The file system implements FileStore: a write changes the bytes it was  *)
(* asked to change and no other, of no other file, although blocks are     *)
(* replaced and reused, and the return value tells what happened.          *)
RefinesStore == Store!StoreSpec
=============================================================================
