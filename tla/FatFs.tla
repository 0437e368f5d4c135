-------------------------------- MODULE FatFs --------------------------------
(***************************************************************************)
(* The FAT16 driver of src/fs/fat.c over a device that storage.c has       *)
(* registered.  The shell is its only caller, so one call runs at a time;  *)
(* what makes it hard is the disk: every sector write of fat_write_file is *)
(* a step of its own, it may fail, and the machine may lose power before   *)
(* the next one.                                                           *)
(*                                                                         *)
(* The disk is abstracted to the entries of its first FAT (the only one    *)
(* the driver reads or writes), the entries of the root directory and the  *)
(* sectors of the data clusters.  A sector holds len bytes of buffer       *)
(* number ver, from offset off, and zeros.                                 *)
(***************************************************************************)
EXTENDS Integers, Sequences, FiniteSets, FiniteSetsExt

CONSTANTS TotalClusters,      \* fat.total_clusters
          BytesPerSector, SectorsPerCluster,
          DirEntries,         \* root_entries
          EntriesPerSector,   \* bytes_per_sector / 32
          CacheMax,           \* elements of fat_files
          UserNames,          \* names callers pass
          DiskNames,          \* names as 11-byte directory entries hold them
          FormatName,         \* fat_format_name: user name -> disk name
          Disks,              \* disks the machine may boot with
          Sizes,              \* sizes passed to fat_write_file
          Faults,             \* subset of {"read", "write", "crash"}
          MaxWrites           \* bound of the model: calls of fat_write_file

EOC == 65535                  \* 0xFFFF: end of a chain
InChain(c) == 2 <= c /\ c < 65528
Clusters == 2 .. TotalClusters + 1
ClusterSize == BytesPerSector * SectorsPerCluster
SectorOf(e) == (e - 1) \div EntriesPerSector + 1
DirSectors == SectorOf(DirEntries)

ASSUME FatAssumption ==
    /\ {TotalClusters, BytesPerSector, SectorsPerCluster, DirEntries,
        EntriesPerSector, CacheMax} \subseteq Nat \ {0}
    /\ TotalClusters + 1 < 65528
    /\ FormatName \in [UserNames -> DiskNames]
    /\ Sizes \subseteq Nat /\ MaxWrites \in Nat

VARIABLES fat,       \* FAT entries of the data clusters
          dir,       \* root directory
          data,      \* cluster -> sectors
          cache,     \* fat_files, up to fat_file_count
          mounted,   \* fat.dev is set and fat_type is 16
          pc, w,     \* fat_write_file: where it is, and its locals
          writes,    \* buffers written so far: the next one's number
          content,   \* history: what the last successful write of a name wrote
          failed,    \* history: names whose last write failed or was cut off
          stale,     \* history: those that another write has followed
          spoiled,   \* history: a stale name was written again
          misread,   \* history: a sector read failed during a write
          clean      \* history: no write failed, was ignored or was cut off

disk == <<fat, dir, data>>
history == <<content, failed, stale, spoiled, misread, clean>>
vars == <<disk, cache, mounted, pc, w, writes, history>>

-----------------------------------------------------------------------------
(* Reading the directory.  A scan that cannot read sector k + 1 stops      *)
(* there; within a sector it stops at the first entry that was never used. *)
Visible(d, k) ==
    {e \in 1 .. DirEntries :
        /\ SectorOf(e) <= k
        /\ \A f \in 1 .. e - 1 : SectorOf(f) = SectorOf(e) => d[f].kind # "end"}

(* fat_parse_root_dir and fat_add_file over all sectors: the cache.        *)
ParseRootDir(d, k) ==
    LET files == {e \in Visible(d, k) : d[e].kind = "file"}
        nth(i) == CHOOSE e \in files : Cardinality({f \in files : f < e}) = i - 1
    IN  [i \in 1 .. Min({Cardinality(files), CacheMax}) |->
           [name |-> d[nth(i)].name, first |-> d[nth(i)].first, size |-> d[nth(i)].size]]

(* fat_find_root_entry: <<1, the entry>>, <<0, a free one>> or <<-1, 0>>.  *)
FindRootEntry(name, k) ==
    LET match == {e \in Visible(dir, k) :
                    dir[e].kind \in {"file", "label"} /\ dir[e].name = name}
        free == {e \in Visible(dir, k) : dir[e].kind \in {"end", "deleted"}}
    IN  IF match # {} THEN <<1, Min(match)>>
        ELSE IF free # {} THEN <<0, Min(free)>>
        ELSE <<-1, 0>>

(* The clusters that fat_read_file follows in the FAT f from first.        *)
Chain(f, first) ==
    LET hop[i \in 0 .. TotalClusters] ==
          IF i = 0 THEN first
          ELSE IF hop[i - 1] \in Clusters THEN f[hop[i - 1]] ELSE 0
        len == Cardinality({i \in 0 .. TotalClusters :
                              \A j \in 0 .. i : hop[j] \in Clusters})
    IN  [i \in 1 .. len |-> hop[i - 1]]

(* fat_read_file when every sector read succeeds: byte by byte, as         *)
(* <<buffer number, offset>>, zeros as <<0, 0>>; <<>> stands for "not      *)
(* found" too.  It changes no state.  When a sector read fails the code    *)
(* goes on with the next cluster at the same place of the buffer and       *)
(* returns how much it copied; that is not modelled.                       *)
ByteAt(d, chain, k) ==
    LET sector == d[chain[k \div ClusterSize + 1]]
                      [(k % ClusterSize) \div BytesPerSector]
        o == k % BytesPerSector
    IN  IF o < sector.len THEN <<sector.ver, sector.off + o>> ELSE <<0, 0>>

ReadFile(name, max) ==
    LET found == {i \in 1 .. Len(cache) : cache[i].name = name} IN
    IF found = {} THEN <<>>
    ELSE LET info == cache[Min(found)]
             chain == Chain(fat, info.first)
             bytes == Min({info.size, max, Len(chain) * ClusterSize})
         IN  [k \in 1 .. bytes |-> ByteAt(data, chain, k - 1)]

-----------------------------------------------------------------------------
(* What a disk must be like for the driver to keep it so.                  *)
Sector == [ver : Nat, off : Nat, len : 0 .. BytesPerSector]
Needs(size) == (size + ClusterSize - 1) \div ClusterSize
ClustersFrom(f, first) == {Chain(f, first)[i] : i \in DOMAIN Chain(f, first)}

(* s is a chain of the FAT f from first to an end mark, without a cycle.   *)
Chained(f, first, s) ==
    /\ s \in Seq(Clusters) /\ Len(s) <= TotalClusters
    /\ IF s = <<>> THEN first \notin Clusters
                   ELSE s[1] = first /\ f[s[Len(s)]] = EOC
    /\ \A i \in 1 .. Len(s) - 1 : f[s[i]] = s[i + 1]
    /\ \A i, j \in 1 .. Len(s) : s[i] = s[j] => i = j

(* The entry's chain has the clusters that its size needs and holds what   *)
(* was written.                                                            *)
Holds(f, d, entry, written) ==
    /\ Chained(f, entry.first, Chain(f, entry.first))
    /\ Len(Chain(f, entry.first)) = Needs(entry.size)
    /\ entry.size = written.size
    /\ \A k \in 0 .. written.size - 1 :
         ByteAt(d, Chain(f, entry.first), k) = <<written.ver, k>>

(* No name occurs twice, a label has no clusters, and in a sector nothing  *)
(* follows an entry that was never used.                                   *)
Orderly(d) ==
    /\ \A e, f \in 1 .. DirEntries :
         /\ {d[e].kind, d[f].kind} \subseteq {"file", "label"} /\ d[e].name = d[f].name
              => e = f
         /\ SectorOf(e) = SectorOf(f) /\ e < f /\ d[e].kind = "end" => d[f].kind = "end"
    /\ \A e \in 1 .. DirEntries : d[e].kind = "label" => d[e].first = 0

(* The disks are FAT16 disks without subdirectories, made by a tool that   *)
(* left them sound; content tells what is in the files.                    *)
ASSUME DisksSound ==
    \A d \in Disks :
      LET files == {e \in 1 .. DirEntries : d.dir[e].kind = "file"}
          used(e) == ClustersFrom(d.fat, d.dir[e].first)
      IN  /\ d.fat \in [Clusters -> {0, EOC} \cup Clusters]
          /\ d.data \in [Clusters -> [0 .. SectorsPerCluster - 1 -> Sector]]
          /\ d.content \in [DiskNames -> [ver : Nat, size : Nat]]
          /\ DOMAIN d.dir = 1 .. DirEntries
          /\ \A e \in 1 .. DirEntries : d.dir[e].first \in {0} \cup Clusters
          /\ Orderly(d.dir)
          /\ \A e \in files : /\ d.dir[e].name \in DiskNames
                              /\ Holds(d.fat, d.data, d.dir[e], d.content[d.dir[e].name])
          /\ \A e, f \in files : e # f => used(e) \cap used(f) = {}
          /\ {c \in Clusters : d.fat[c] # 0} = UNION {used(e) : e \in files}

-----------------------------------------------------------------------------
NoLocals == [name |-> "", size |-> 0, entry |-> 0, cluster |-> 0, first |-> 0,
             i |-> 0, left |-> 0]
Absent == [ver |-> 0, size |-> 0]

(* fat_init has mounted one of the disks; a file on it was written as      *)
(* buffer 0 of its name by whoever made the disk.                          *)
Init ==
    /\ \E d \in Disks :
         /\ fat = d.fat /\ dir = d.dir /\ data = d.data
         /\ content = d.content
    /\ cache = ParseRootDir(dir, DirSectors)
    /\ mounted = TRUE
    /\ pc = "idle" /\ w = NoLocals
    /\ writes = 0
    /\ failed = {} /\ stale = {}
    /\ spoiled = FALSE /\ misread = FALSE /\ clean = TRUE

(* How a read of n sectors in a row can go: the number that succeeded.     *)
(* One read fails per behaviour at most.                                   *)
ReadsOf(n) == IF "read" \in Faults /\ ~misread THEN 0 .. n ELSE {n}
(* Whether a sector write succeeds; if not, the sector is as it was.       *)
WriteOk == IF "write" \in Faults THEN BOOLEAN ELSE {TRUE}

-----------------------------------------------------------------------------
(* fat_write_file returns -1.                                              *)
Fail ==
    /\ pc' = "idle" /\ w' = NoLocals
    /\ failed' = failed \cup {w.name}
    /\ clean' = FALSE
    /\ UNCHANGED <<dir, data, cache, mounted, writes, content, stale, spoiled>>

(* The call, up to the old chain; for its early returns see ReadOrList.    *)
Begin(n, size) ==
    /\ pc = "idle" /\ mounted /\ writes < MaxWrites
    /\ \E k \in ReadsOf(DirSectors) :
         LET name == FormatName[n]
             r == FindRootEntry(name, k)
             old == dir[r[2]].first
         IN  /\ r[1] >= 0
             /\ w' = [NoLocals EXCEPT !.name = name, !.size = size, !.entry = r[2],
                                      !.cluster = IF r[1] = 1 THEN old ELSE 0]
             /\ spoiled' = (spoiled \/ name \in stale)
             /\ stale' = (stale \cup failed) \ {name}
             /\ misread' = (misread \/ k < DirSectors)
    /\ pc' = "free"
    /\ writes' = writes + 1
    /\ UNCHANGED <<disk, cache, mounted, content, failed, clean>>

(* Mutants: the successor is read after the entry was cleared; it is not   *)
(* read at all.                                                            *)
MutNextCleared(c) == 0
MutNextSame(c) == c

NextInChain(c) == fat[c]

(* fat_free_chain, one cluster: read the successor, clear the entry.  A    *)
(* failed read counts as 0, a failed write is ignored.                     *)
FreeCluster ==
    /\ pc = "free" /\ InChain(w.cluster)
    /\ \E got \in ReadsOf(1), ok \in WriteOk :
         /\ w' = [w EXCEPT !.cluster = IF got = 1 THEN NextInChain(w.cluster) ELSE 0]
         /\ fat' = IF ok THEN [fat EXCEPT ![w.cluster] = 0] ELSE fat
         /\ misread' = (misread \/ got = 0)
         /\ clean' = (clean /\ ok)
    /\ UNCHANGED <<dir, data, cache, mounted, pc, writes, content, failed, stale, spoiled>>

Needed == Needs(w.size)

(* Mutant: only the first cluster of the run is looked at.                 *)
MutFreeRunsFirst(missed) == {s \in 2 .. TotalClusters - Needed : fat[s] = 0}

(* fat_find_free_run: the scan ends before TotalClusters; an entry that    *)
(* cannot be read counts as 0, which means free.                           *)
FreeRuns(missed) ==
    {s \in 2 .. TotalClusters - Needed :
        \A c \in s .. s + Needed - 1 : fat[c] = 0 \/ c \in missed}

Misreads ==
    {{}} \cup IF "read" \in Faults /\ ~misread
                THEN {{c} : c \in 2 .. TotalClusters - 1} ELSE {}

Allocate ==
    /\ pc = "free" /\ ~InChain(w.cluster)
    /\ w.size > 0
    /\ \E missed \in Misreads :
         /\ FreeRuns(missed) # {}
         /\ LET first == Min(FreeRuns(missed))
            IN  w' = [w EXCEPT !.first = first, !.cluster = first, !.left = w.size]
         /\ misread' = (misread \/ missed # {})
    /\ pc' = "link"
    /\ UNCHANGED <<disk, cache, mounted, writes, content, failed, stale, spoiled, clean>>

(* The disk is full: the old chain is gone, the directory entry stays.     *)
AllocateFails ==
    /\ pc = "free" /\ ~InChain(w.cluster)
    /\ w.size > 0 /\ FreeRuns({}) = {}
    /\ Fail
    /\ UNCHANGED <<fat, misread>>

(* An empty file needs no clusters.                                        *)
AllocateNone ==
    /\ pc = "free" /\ ~InChain(w.cluster)
    /\ w.size = 0
    /\ pc' = "dir"
    /\ UNCHANGED <<disk, cache, mounted, w, writes, history>>

LinkValue == IF w.i + 1 = Needed THEN EOC ELSE w.first + w.i + 1

(* One entry of the new chain.                                             *)
Link ==
    /\ pc = "link"
    /\ fat' = [fat EXCEPT ![w.first + w.i] = LinkValue]
    /\ w' = [w EXCEPT !.i = IF w.i + 1 = Needed THEN 0 ELSE w.i + 1]
    /\ pc' = IF w.i + 1 = Needed THEN "data" ELSE "link"
    /\ UNCHANGED <<dir, data, cache, mounted, writes, history>>

(* What goes into a sector: the next bytes of the buffer, zero padded.     *)
Chunk == [ver |-> writes, off |-> w.size - w.left,
          len |-> IF w.left < BytesPerSector THEN w.left ELSE BytesPerSector]

(* One sector of data (w.i counts them within the cluster); after the last *)
(* of a cluster the FAT is read for the next one.                          *)
WriteSector ==
    /\ pc = "data" /\ w.left > 0 /\ InChain(w.cluster)
    /\ data' = [data EXCEPT ![w.cluster][w.i] = Chunk]
    /\ LET left == w.left - Chunk.len IN
       IF left > 0 /\ w.i + 1 < SectorsPerCluster
         THEN w' = [w EXCEPT !.left = left, !.i = w.i + 1] /\ UNCHANGED misread
         ELSE \E got \in ReadsOf(1) :
                /\ w' = [w EXCEPT !.left = left, !.i = 0,
                           !.cluster = IF got = 1 THEN fat[w.cluster] ELSE 0]
                /\ misread' = (misread \/ got = 0)
    /\ UNCHANGED <<fat, dir, cache, mounted, pc, writes, content, failed, stale, spoiled, clean>>

DataDone ==
    /\ pc = "data" /\ ~(w.left > 0 /\ InChain(w.cluster))
    /\ pc' = "dir"
    /\ UNCHANGED <<disk, cache, mounted, w, writes, history>>

(* A sector of the FAT, of the data or of the directory is not written.    *)
WriteFails ==
    /\ FALSE \in WriteOk
    /\ pc \in {"link", "dir"} \/ (pc = "data" /\ w.left > 0 /\ InChain(w.cluster))
    /\ Fail
    /\ UNCHANGED <<fat, misread>>

NewEntry == [kind |-> "file", name |-> w.name, first |-> w.first, size |-> w.size]

(* The directory sector is written last, then the cache is read again.     *)
Finish ==
    /\ pc = "dir"
    /\ dir' = [dir EXCEPT ![w.entry] = NewEntry]
    /\ \E k \in ReadsOf(DirSectors) :
         /\ cache' = ParseRootDir(dir', k)
         /\ misread' = (misread \/ k < DirSectors)
    /\ content' = [content EXCEPT ![w.name] = [ver |-> writes, size |-> w.size]]
    /\ failed' = failed \ {w.name}
    /\ pc' = "idle" /\ w' = NoLocals
    /\ UNCHANGED <<fat, data, mounted, writes, stale, spoiled, clean>>

(* Power loss at any point, and fat_init on the next boot.  If the boot    *)
(* sector cannot be read the driver stays off.                             *)
Crash ==
    /\ "crash" \in Faults
    /\ pc # "idle" \/ ~mounted
    /\ \E ok \in ReadsOf(1) :
         /\ mounted' = (ok = 1)
         /\ cache' = IF ok = 1 THEN ParseRootDir(dir, DirSectors) ELSE <<>>
    /\ pc' = "idle" /\ w' = NoLocals
    /\ failed' = IF pc = "idle" THEN failed ELSE failed \cup {w.name}
    /\ clean' = FALSE
    /\ UNCHANGED <<disk, writes, content, stale, spoiled, misread>>

(* fat_list_root, fat_read_file, and a fat_write_file that returns -1      *)
(* before it frees the old chain (no name, no writable device, a directory *)
(* that is full or cannot be read) change nothing.                         *)
ReadOrList ==
    /\ pc = "idle"
    /\ UNCHANGED vars

-----------------------------------------------------------------------------
WriteStep == FreeCluster \/ Allocate \/ AllocateFails \/ AllocateNone \/ Link
               \/ WriteSector \/ DataDone \/ Finish \/ WriteFails

Next ==
    \/ \E n \in UserNames, size \in Sizes : Begin(n, size)
    \/ FreeCluster
    \/ Allocate
    \/ AllocateFails
    \/ AllocateNone
    \/ Link
    \/ WriteSector
    \/ DataDone
    \/ WriteFails
    \/ Finish
    \/ Crash
    \/ ReadOrList

Spec == Init /\ [][Next]_vars

(* A call that was entered keeps executing.                                *)
FairSpec == Spec /\ WF_vars(WriteStep)

-----------------------------------------------------------------------------
(* Properties.                                                             *)

(* The structures keep their shape, and the driver allocates only clusters *)
(* its scan may return.                                                    *)
TypeOK ==
    /\ fat \in [Clusters -> {0, EOC} \cup Clusters]
    /\ DOMAIN dir = 1 .. DirEntries
    /\ \A e \in 1 .. DirEntries : dir[e].first \in {0} \cup Clusters
    /\ data \in [Clusters -> [0 .. SectorsPerCluster - 1 -> Sector]]
    /\ Len(cache) <= CacheMax
    /\ pc \in {"idle", "free", "link", "data", "dir"}
    /\ pc = "link" => w.first + w.i \in 2 .. TotalClusters - 1

Files == {e \in 1 .. DirEntries : dir[e].kind = "file"}
ClustersOf(e) == ClustersFrom(fat, dir[e].first)
Writing == IF pc = "idle" THEN {} ELSE {w.name}

(* What a reader of the file should get.                                   *)
Expected(name) ==
    [k \in 1 .. content[name].size |-> <<content[name].ver, k - 1>>]

(* Between calls of fat_write_file that all succeeded the disk is sound:   *)
(* no cluster belongs to two files, every chain has as many clusters as    *)
(* the file's size needs, and no cluster is lost.                          *)
SoundWhileNothingFailed ==
    pc = "idle" /\ clean /\ ~misread =>
      /\ \A e, f \in Files : e # f => ClustersOf(e) \cap ClustersOf(f) = {}
      /\ \A e \in Files :
           Len(Chain(fat, dir[e].first)) = Needs(dir[e].size)
      /\ {c \in Clusters : fat[c] # 0} = UNION {ClustersOf(e) : e \in Files}

(* A write that fails, for want of space or because a sector was not       *)
(* written, or that a power loss cuts off, harms no other file: what was   *)
(* written successfully reads back, at every instant.  This lasts until a  *)
(* name whose write failed is written again after a write of another name. *)
OthersIntact ==
    /\ TypeOK
    /\ ~spoiled /\ ~misread =>
         \A i \in 1 .. Len(cache) :
           LET name == cache[i].name IN
           name \notin failed \cup Writing
             => ReadFile(name, content[name].size) = Expected(name)

(* fat_write_file returns, whatever sector reads or writes fail on the     *)
(* way: the chain that fat_free_chain and the data loop follow has an end. *)
CallsReturn == (pc # "idle") ~> (pc = "idle")

=============================================================================
