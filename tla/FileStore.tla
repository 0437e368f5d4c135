----------------------------- MODULE FileStore -----------------------------
(***************************************************************************)
(* What a flat file system promises its callers: names map to directories  *)
(* or to files, a file is a sequence of bytes, and the value an operation  *)
(* returns tells what it did.  RamFs implements this.                      *)
(***************************************************************************)
EXTENDS Integers, Sequences

CONSTANTS Names, Bytes, Initial

VARIABLES files,   \* name -> [dir, bytes]
          ret      \* the last operation and the value it returned

storeVars == <<files, ret>>

StoreInit == files = Initial /\ ret = [op |-> "init", val |-> 0]

(* A new, empty file or directory.                                         *)
StoreCreate(n, isDir) ==
    /\ ret' = [op |-> "create", val |-> 0]
    /\ n \notin DOMAIN files
    /\ files' = [m \in DOMAIN files \cup {n} |->
                   IF m = n THEN [dir |-> isDir, bytes |-> <<>>] ELSE files[m]]

StoreRemove(n) ==
    /\ ret' = [op |-> "remove", val |-> 0]
    /\ n \in DOMAIN files
    /\ files' = [m \in DOMAIN files \ {n} |-> files[m]]

(* k bytes b at off, and no other byte of the file changes.  The value of  *)
(* bytes between the old end and off is not defined.                       *)
StoreWrite(n, off, k, b) ==
    /\ ret' = [op |-> "write", val |-> k]
    /\ n \in DOMAIN files /\ ~files[n].dir
    /\ DOMAIN files' = DOMAIN files
    /\ \A m \in DOMAIN files : m # n => files'[m] = files[m]
    /\ ~files'[n].dir
    /\ LET old == files[n].bytes
           new == files'[n].bytes
           end == off + k
       IN  /\ Len(new) = IF Len(old) > end THEN Len(old) ELSE end
           /\ \A i \in 1 .. Len(new) :
                IF off < i /\ i <= end THEN new[i] = b
                ELSE i <= Len(old) => new[i] = old[i]

(* An operation that reports failure has changed nothing.                  *)
StoreRefuse ==
    /\ ret' \in {[op |-> "create", val |-> -1], [op |-> "remove", val |-> -1],
                 [op |-> "write", val |-> 0]}
    /\ UNCHANGED files

CONSTANT MaxEnd    \* bound of the model: no write ends beyond it

StoreNext ==
    \/ \E n \in Names : (\E isDir \in BOOLEAN : StoreCreate(n, isDir)) \/ StoreRemove(n)
    \/ \E n \in Names, off \in 0 .. MaxEnd, b \in Bytes :
         \E k \in 0 .. MaxEnd - off : StoreWrite(n, off, k, b)
    \/ StoreRefuse

StoreSpec == StoreInit /\ [][StoreNext]_storeVars
=============================================================================
