--------------------------- MODULE FrameAllocator ---------------------------
(***************************************************************************)
(* The physical frame allocator of src/mm/memory.c: a bitmap built from    *)
(* the boot loader's memory map, single and contiguous allocation, and the *)
(* figures frame_stats reports.  The bitmap is the set of its set bits; it *)
(* has whole words, so more bits than there are frames.  Nothing here runs *)
(* in an interrupt, so each function is one step.                          *)
(***************************************************************************)
EXTENDS Integers, FiniteSets, FiniteSetsExt

CONSTANTS FrameSize,   \* FRAME_SIZE, 4096
          WordBits,    \* bits of a bitmap word, 32
          WordBytes,   \* sizeof(u32int), 4
          AddrSpace,   \* 2^32: addresses are u32int
          Mmaps,       \* memory maps the boot loader may pass: sets of
                       \* [addr, end, type] with type 1 for usable memory
          KernelEnd,   \* &__kernel_end
          MbRegions    \* where the loader left the map and the structure
                       \* that points to it: a set of [addr, end]

ASSUME FrameAssumption ==
    /\ {FrameSize, WordBits, WordBytes, AddrSpace} \subseteq Nat \ {0}
    /\ AddrSpace % FrameSize = 0
    /\ KernelEnd \in 0 .. AddrSpace - FrameSize
    /\ \A r \in MbRegions : r.addr \in Nat /\ r.end \in Nat /\ r.addr <= r.end
    /\ \A m \in Mmaps :
         /\ \A r \in m : r.addr \in Nat /\ r.end \in Nat /\ r.addr < r.end
         /\ \E r \in m : \A q \in m : q.end <= r.end

VARIABLES mmap,           \* the map of this boot
          ready,          \* frame_bitmap is not null
          total_frames, used_frames,
          used,           \* bits set in frame_bitmap
          owned           \* history: frames handed out and not freed since

vars == <<mmap, ready, total_frames, used_frames, used, owned>>

Init ==
    /\ mmap \in Mmaps
    /\ ready = FALSE
    /\ total_frames = 0 /\ used_frames = 0
    /\ used = {} /\ owned = {}

-----------------------------------------------------------------------------
AlignUp(addr) == (((addr + FrameSize - 1) % AddrSpace) \div FrameSize) * FrameSize

(* The frames reserve_region and free_region loop over: both ends are      *)
(* rounded up, on 32 bits.                                                 *)
RegionFrames(start, end) ==
    {f \in 0 .. AddrSpace \div FrameSize - 1 :
        AlignUp(start) <= f * FrameSize /\ f * FrameSize < AlignUp(end % AddrSpace)}

MaxAddr(m) == Max({r.end : r \in m})

ClampU32(v) == IF v > AddrSpace - 1 THEN AddrSpace - 1 ELSE v
TotalFrames(m) == ClampU32(MaxAddr(m)) \div FrameSize
BitmapWords(total) == (total + WordBits - 1) \div WordBits
Bits(total) == 0 .. BitmapWords(total) * WordBits - 1

(* The regions of type 1 that start below 4 GiB, cut off there.            *)
UsableFrames(m) ==
    UNION {RegionFrames(r.addr, Min({r.end, AddrSpace})) :
             r \in {q \in m : q.type = 1 /\ q.addr < AddrSpace}}

(* placement_addr once the bitmap has been placed after the kernel.        *)
PlacementEnd(total) == AlignUp(KernelEnd) + BitmapWords(total) * WordBytes
ReservedFrames(total) ==
    RegionFrames(0, PlacementEnd(total))
      \cup UNION {RegionFrames(r.addr, r.end) : r \in MbRegions}

(* What the allocator relies on and does not test.  The kernel, the bitmap *)
(* and the multiboot structures lie in the memory it manages; the latter   *)
(* begin with a frame or lie below the end of the kernel, for the frame an *)
(* unaligned structure begins in is not reserved; the frame that usable    *)
(* memory ends in lies within the memory of the map, for that frame is     *)
(* freed.                                                                  *)
ASSUME LayoutAssumption ==
    /\ \A r \in MbRegions : r.addr % FrameSize = 0 \/ r.end <= KernelEnd
    /\ \A m \in Mmaps :
         /\ PlacementEnd(TotalFrames(m)) <= TotalFrames(m) * FrameSize
         /\ \A r \in MbRegions : r.end <= TotalFrames(m) * FrameSize
         /\ \A r \in m : r.type = 1 /\ r.end <= AddrSpace - FrameSize =>
              \E q \in m, k \in 0 .. AddrSpace \div FrameSize :
                r.end <= k * FrameSize /\ k * FrameSize <= q.end

(* frame_allocator_init.  clear_frame and set_frame count only the bits    *)
(* they change.                                                            *)
FrameAllocatorInit ==
    /\ ~ready
    /\ LET total == TotalFrames(mmap)
           freed == UsableFrames(mmap)
           kept == Bits(total) \ freed
           reserved == ReservedFrames(total)
       IN  /\ total # 0
           /\ total_frames' = total
           /\ used' = kept \cup reserved
           /\ used_frames' = total - Cardinality(Bits(total) \cap freed)
                               + Cardinality(reserved \ kept)
    /\ ready' = TRUE
    /\ UNCHANGED <<mmap, owned>>

-----------------------------------------------------------------------------

(* Mutant: counts a run as one frame.                                      *)
MutSetFrames(S) == used' = used \cup S /\ used_frames' = used_frames + 1

(* set_frame on a set of frames.                                           *)
SetFrames(S) ==
    /\ used' = used \cup S
    /\ used_frames' = used_frames + Cardinality(S \ used)

(* frame_alloc: the first clear bit of the bitmap.                         *)
FirstClear == Min(Bits(total_frames) \ used)

FrameAlloc ==
    /\ ready
    /\ Bits(total_frames) \ used # {}
    /\ SetFrames({FirstClear})
    /\ owned' = owned \cup {FirstClear}
    /\ UNCHANGED <<mmap, ready, total_frames>>

(* frame_free of a frame handed out before; out-of-range ones are ignored. *)
FrameFree(f) ==
    /\ ready
    /\ f < total_frames
    /\ used' = used \ {f}
    /\ used_frames' = used_frames - Cardinality({f} \cap used)
    /\ owned' = owned \ {f}
    /\ UNCHANGED <<mmap, ready, total_frames>>

(* frame_alloc_contiguous: from start, test count frames; at the first one *)
(* in use skip past it.  NoRun stands for the returned 0.                  *)
NoRun == -1

(* Mutant: the last frame of the run is not tested.                        *)
MutInUse(start, count) == {i \in 0 .. count - 2 : start + i \in used}

InUse(start, count) == {i \in 0 .. count - 1 : start + i \in used}

(* Mutant: skips one frame too many.                                       *)
MutSkipTo(start, count) == start + Min(InUse(start, count)) + 2

SkipTo(start, count) == start + Min(InUse(start, count)) + 1

ScanFrom(count) ==
    LET scan[start \in 0 .. total_frames] ==
          IF start + count > total_frames THEN NoRun
          ELSE IF InUse(start, count) = {} THEN start
          ELSE scan[SkipTo(start, count)]
    IN  scan

ContiguousScan(count) == ScanFrom(count)[0]

FrameAllocContiguous(count) ==
    /\ ready
    /\ count # 0 /\ count <= total_frames
    /\ ContiguousScan(count) # NoRun
    /\ LET run == ContiguousScan(count) .. ContiguousScan(count) + count - 1
       IN  SetFrames(run) /\ owned' = owned \cup run
    /\ UNCHANGED <<mmap, ready, total_frames>>

(* frame_largest_free_run: current is the run that ends before frame i.    *)
CurrentRun ==
    LET current[i \in 0 .. total_frames] ==
          IF i = 0 THEN 0
          ELSE IF i - 1 \in used THEN 0 ELSE current[i - 1] + 1
    IN  current

LargestFreeRun == Max({CurrentRun[i] : i \in 0 .. total_frames})

FrameFreeCount ==
    IF total_frames < used_frames THEN 0 ELSE total_frames - used_frames

-----------------------------------------------------------------------------
Next ==
    \/ FrameAllocatorInit
    \/ FrameAlloc
    \/ \E f \in owned : FrameFree(f)
    \/ \E count \in 1 .. total_frames : FrameAllocContiguous(count)

Spec == Init /\ [][Next]_vars

-----------------------------------------------------------------------------
(* Properties.                                                             *)

Frames == 0 .. total_frames - 1

(* The counters stay within the machine's frames.                          *)
TypeOK ==
    /\ mmap \in Mmaps
    /\ ready \in BOOLEAN
    /\ total_frames \in 0 .. AddrSpace \div FrameSize
    /\ used_frames \in 0 .. total_frames
    /\ used \subseteq Bits(total_frames)
    /\ owned \subseteq used

(* The free count that frame_stats reports is the number of clear frames:  *)
(* no region counted twice at boot, no frame on free or allocation.        *)
FreeCountExact == TypeOK /\ FrameFreeCount = Cardinality(Frames \ used)

(* A frame that is handed out was clear, begins in memory the map calls    *)
(* usable, and holds no byte of the kernel, of the bitmap itself or of the *)
(* multiboot structures: no frame has two owners.  It need not end in      *)
(* usable memory, for free_region rounds the end of a region up.           *)
StartsUsable(f) ==
    \E r \in mmap : /\ r.type = 1
                    /\ r.addr <= f * FrameSize /\ f * FrameSize < r.end
Holds(f, from, to) == f * FrameSize < to /\ from < (f + 1) * FrameSize
HandsOutOnlyFree ==
    [][\A f \in owned' \ owned :
          /\ f \in Frames \ used
          /\ StartsUsable(f)
          /\ ~Holds(f, 0, KernelEnd)
          /\ ~Holds(f, AlignUp(KernelEnd), PlacementEnd(total_frames))
          /\ \A r \in MbRegions : ~Holds(f, r.addr, r.end)]_vars

(* Skipping past the first frame in use never misses a run: the scan       *)
(* returns the lowest run of count clear frames, for every count up to     *)
(* what frame_stats reports as the largest run, and fails beyond it.       *)
RunsOf(count) ==
    {s \in 0 .. total_frames - count : s .. s + count - 1 \subseteq Frames \ used}
ScanFindsLowestRun ==
    ready => \A count \in 1 .. total_frames :
        /\ ContiguousScan(count) =
             IF RunsOf(count) = {} THEN NoRun ELSE Min(RunsOf(count))
        /\ (ContiguousScan(count) # NoRun) <=> (count <= LargestFreeRun)

=============================================================================
