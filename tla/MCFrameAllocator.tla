-------------------------- MODULE MCFrameAllocator --------------------------
(* Small instance of FrameAllocator for TLC: 4-byte frames, 4-bit words,   *)
(* a 64-byte address space and three memory maps.                          *)
EXTENDS FrameAllocator

Region(a, e, t) == [addr |-> a, end |-> e, type |-> t]

(* Low memory, a hole, high memory with an unaligned end and a region that *)
(* reaches 4 GiB: the shape a PC's firmware reports.                       *)
PcMap == {Region(0, 7, 1), Region(7, 12, 2), Region(12, 54, 1), Region(58, 64, 2)}
(* One usable region, aligned at both ends.                                *)
FlatMap == {Region(0, 44, 1)}
(* Overlapping usable regions and one beyond the 32-bit address space.     *)
OverlapMap == {Region(0, 32, 1), Region(24, 40, 1), Region(64, 96, 1)}

(* The map in a frame of its own, the structure below the kernel's end.    *)
MCMbRegions == {[addr |-> 24, end |-> 27], [addr |-> 5, end |-> 9]}

MCMmaps == {PcMap, FlatMap, OverlapMap}
=============================================================================
