------------------------------ MODULE MCFatFs ------------------------------
(* Small instance of FatFs for TLC: six clusters of two two-byte sectors   *)
(* (clusters 2 to 5 are the ones the driver allocates), a root directory   *)
(* of two sectors with two entries each.                                   *)
EXTENDS FatFs

MCFormatName == [n \in UserNames |-> IF n = "a" THEN "A" ELSE n]

Entry(kind, name, first, size) ==
    [kind |-> kind, name |-> name, first |-> first, size |-> size]
Unused == Entry("end", "", 0, 0)
Blank == [c \in Clusters |-> [s \in 0 .. SectorsPerCluster - 1 |->
                                [ver |-> 0, off |-> 0, len |-> 0]]]
Piece(v, o, l) == [ver |-> v, off |-> o, len |-> l]

EmptyDisk ==
    [fat |-> [c \in Clusters |-> 0],
     dir |-> [e \in 1 .. DirEntries |-> Unused],
     data |-> Blank,
     content |-> [n \in DiskNames |-> Absent]]

(* A label, a fragmented file A (5 -> 3), a deleted entry, and a file B in *)
(* the last cluster, which the driver's own scan never reaches.            *)
UsedDisk ==
    [fat |-> [c \in Clusters |->
                IF c = 5 THEN 3 ELSE IF c \in {3, 7} THEN EOC ELSE 0],
     dir |-> <<Entry("label", "VOL", 0, 0), Entry("file", "A", 5, 5),
               Entry("deleted", "", 4, 3), Entry("file", "B", 7, 3)>>,
     data |-> [Blank EXCEPT ![5] = [s \in 0 .. 1 |-> Piece(100, 2 * s, 2)],
                            ![3][0] = Piece(100, 4, 1),
                            ![7] = [s \in 0 .. 1 |-> Piece(200, 2 * s, 2 - s)]],
     content |-> [n \in DiskNames |->
                    IF n = "A" THEN [ver |-> 100, size |-> 5]
                    ELSE IF n = "B" THEN [ver |-> 200, size |-> 3]
                    ELSE Absent]]

MCDisks == {EmptyDisk, UsedDisk}
=============================================================================
