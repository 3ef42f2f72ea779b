------------------------------ MODULE DiskTools ------------------------------
(* The programs that make partitions and file systems                      *)
(* (system-tools/src/mkpart.cpp, mkneufs.cpp, mkfat.cpp): what they compute *)
(* from the size of a device and their options, and the writes that they   *)
(* make, each of which may fail.  They are run one after the other on one  *)
(* device.                                                                 *)
EXTENDS Integers, Sequences

CONSTANTS
  Devices,            \* numbers of sectors of a device
  SectorSize,         \* its bytes, a multiple of 8
  Word,               \* 2^64, where the arithmetic of mkpart wraps
  MbrWord,            \* 2^32: the fields of an MBR
  MinDevice,          \* what mkpart needs: 4096 sectors
  EntrySectors,       \* sectors of the entries of a GPT: 32
  FrontSectors,              \* sectors that mkpart wipes at the front: 34
  RvtSize, RootSize,  \* bytes of the two structures of NEUFS: 68 and 1072
  EntriesPerSector,   \* entries of a FAT in a sector: 128
  MinClusters,        \* 65525
  Starts, Counts,     \* options of mkpart; 0 is a count that was not given
  MetaSizes,          \* bytes for metadata that mkneufs asked for or computed
  Clusters, Reserved, FatCounts,  \* options of mkfat
  MaxRuns             \* bound: runs of the tools

DiskToolsAssumption ==
  /\ Devices \subseteq Nat \ {0} /\ SectorSize \in Nat \ {0} /\ SectorSize % 8 = 0
  /\ Word \in Nat /\ \A n \in Devices : n < Word
  /\ MbrWord \in Nat /\ 2 * MbrWord =< Word
  /\ EntrySectors \in Nat \ {0} /\ FrontSectors \in Nat /\ FrontSectors >= EntrySectors + 2
  /\ MinDevice \in Nat /\ MinDevice >= 2 * FrontSectors
  /\ RvtSize \in Nat \ {0} /\ RootSize \in Nat \ {0}
  /\ EntriesPerSector \in Nat \ {0} /\ MinClusters \in Nat \ {0}
  /\ Starts \subseteq 0..(Word - 1) /\ Counts \subseteq 0..(Word - 1)
  /\ MetaSizes \subseteq Nat \ {0}
  /\ Clusters \subseteq Nat \ {0} /\ FatCounts \subseteq Nat \ {0}
  /\ Reserved \subseteq Nat /\ \A r \in Reserved : r >= 8
  /\ MaxRuns \in Nat

VARIABLES
  sectors,            \* sector_count of the device
  disk,               \* [sector -> what of the tools is in it]
  at,                 \* where the running tool is
  layout,             \* what it computed
  todo,               \* the writes it has left: ranges of sectors with their contents
  fat,                \* fat_sectors in the loop of mkfat
  pass,               \* its passes
  runs,               \* runs that were begun
  report,             \* how the last run ended
  unread              \* history: the last run went on over a layout or a file
                      \* system that it was to keep, in a sector that it could not read

vars == <<sectors, disk, at, layout, todo, fat, pass, runs, report, unread>>

NoLayout == [kind |-> "none"]
Places == 0..(sectors - 1)
Data == {"data"}
Zero == {}

AlignUp(value, unit) ==
  IF value % unit = 0 THEN value ELSE value + (unit - (value % unit))

\* A write of whole sectors, and one that reads a sector, changes a part of it
\* and writes it back.
Put(from, to, what) == [from |-> from, to |-> to, what |-> what, adds |-> FALSE]
Patch(from, to, what) == [from |-> from, to |-> to, what |-> what, adds |-> TRUE]

\* A device with data of others, or with the header of a GPT whose first sector
\* something else has taken.
Init ==
  /\ sectors \in Devices
  /\ \E second \in {Data, {"header"}} : disk = [i \in Places |-> IF i = 1 THEN second ELSE Data]
  /\ at = "idle" /\ layout = NoLayout /\ todo = <<>>
  /\ fat = 0 /\ pass = 0 /\ runs = 0 /\ report = "none" /\ unread = FALSE

Begins == at = "idle" /\ runs < MaxRuns /\ runs' = runs + 1

\* Without a write.
Ends(how) ==
  /\ at' = "idle" /\ report' = how /\ layout' = NoLayout
  /\ UNCHANGED <<todo, fat, pass>>

-----------------------------------------------------------------------------
(* mkpart.                                                                 *)

\* existing_layout(): a whole-disk NEUFS, an MBR that has an entry, a GPT.
\* There is no other file system that it knows.
HasLayout == {"neufs", "mbr"} \cap disk[0] # {} \/ "header" \in disk[1]

\* What it says: a first sector that it cannot read counts as a layout, a second
\* one as none.
LayoutsFound == {TRUE, HasLayout, {"neufs", "mbr"} \cap disk[0] # {}}

Wipes == <<Put(0, FrontSectors - 1, Zero), Put(sectors - (FrontSectors - 1), sectors - 1, Zero)>>

Mkpart(table, start, count, wipe) ==
  /\ Begins
  /\ \E found \in LayoutsFound :
     \/ (sectors < MinDevice \/ (found /\ ~wipe)) /\ Ends("refused") /\ unread' = FALSE
     \/ /\ sectors >= MinDevice /\ (found => wipe)
        /\ unread' = (HasLayout /\ ~wipe)
        /\ at' = "wipe" /\ report' = "none"
        /\ layout' = [kind |-> table, start |-> start, count |-> count]
        /\ todo' = IF wipe THEN Wipes ELSE <<>>
        /\ UNCHANGED <<fat, pass>>
  /\ UNCHANGED <<sectors, disk>>

FirstUsable == IF layout.kind = "gpt" THEN 2 + EntrySectors ELSE 1
BackupEntries == sectors - 1 - EntrySectors
LastUsable == IF layout.kind = "gpt" THEN BackupEntries - 1 ELSE sectors - 1

StartAsAsked == layout.start
StartLba == IF layout.start < FirstUsable THEN FirstUsable ELSE layout.start
SectorCount == IF layout.count # 0 THEN layout.count ELSE LastUsable - StartLba + 1

\* partition_bounds(), with sums of 64 bits, and the limits of write_mbr().
BoundsHold ==
  /\ LastUsable > StartLba
  /\ ((StartLba + SectorCount) - 1) % Word <= LastUsable
  /\ (StartLba + SectorCount) % Word <= sectors

InMbr == layout.kind = "mbr" => StartLba < MbrWord /\ SectorCount < MbrWord

Tables ==
  IF layout.kind = "mbr" THEN <<Put(0, 0, {"mbr"})>>
  ELSE << Put(0, 0, {"mbr"}),
          Put(2, 1 + EntrySectors, {"entries"}),
          Put(BackupEntries, BackupEntries + EntrySectors - 1, {"entries"}),
          Put(1, 1, {"header"}),
          Put(sectors - 1, sectors - 1, {"header"}) >>

\* The table is wiped before it is known whether the new one fits.
Bounds ==
  /\ at = "wipe" /\ todo = <<>>
  /\ \/ ~(BoundsHold /\ InMbr) /\ Ends("failed")
     \/ /\ BoundsHold /\ InMbr
        /\ at' = "write" /\ todo' = Tables
        /\ layout' = [kind |-> layout.kind, start |-> StartLba, count |-> SectorCount]
        /\ UNCHANGED <<fat, pass, report>>
  /\ UNCHANGED <<sectors, disk, runs, unread>>

-----------------------------------------------------------------------------
(* mkneufs.                                                                *)

TotalBytes == sectors * SectorSize
DataBitmap == AlignUp(RvtSize, 8)
DataBitmapSize == (sectors + 7) \div 8
MetaBitmap == AlignUp(DataBitmap + DataBitmapSize, 8)
MetaBitmapSize(meta) == (meta \div 8 + 7) \div 8
RootOffset(meta) == AlignUp(MetaBitmap + MetaBitmapSize(meta), SectorSize)

NeufsFits(meta) == meta < TotalBytes /\ RootOffset(meta) + RootSize <= meta

\* What the bitmap of the metadata is set to: ranges of blocks of 8 bytes.
Blocks(offset, size) == (offset \div 8)..(offset \div 8 + AlignUp(size, 8) \div 8 - 1)
MetaMarked(meta) ==
  Blocks(0, RvtSize) \cup Blocks(DataBitmap, DataBitmapSize)
    \cup Blocks(MetaBitmap, MetaBitmapSize(meta)) \cup Blocks(RootOffset(meta), RootSize)

Covering(offset, size, what) ==
  Patch(offset \div SectorSize, (offset + size - 1) \div SectorSize, what)

\* has_filesystem_signature() of mkneufs and existing_filesystem() of mkfat: in
\* a sector that they cannot read there is no file system.
HasFilesystem == {"neufs", "fat"} \cap disk[0] # {}
FilesystemsFound == {HasFilesystem, FALSE}

\* The bits of the two bitmaps that are set: those of the sectors with metadata,
\* and those of the blocks that are taken.
Format(meta) ==
  << Put(0, meta \div SectorSize - 1, Zero),
     Covering(0, RvtSize, {"neufs"}),
     Covering(RootOffset(meta), RootSize, {"root"}),
     Covering(DataBitmap, (meta \div SectorSize + 7) \div 8, {"sectors"}),
     Covering(MetaBitmap, (RootOffset(meta) + RootSize + 63) \div 64, {"blocks"}) >>

Mkneufs(asked, force) ==
  /\ Begins
  /\ LET meta == AlignUp(asked, SectorSize) IN
     \E found \in FilesystemsFound :
     /\ unread' = (HasFilesystem /\ ~force /\ ~found)
     /\ \/ found /\ ~force /\ Ends("refused")
        \/ (found => force) /\ ~NeufsFits(meta) /\ Ends("failed")
        \/ /\ found => force
           /\ NeufsFits(meta)
           /\ at' = "write" /\ report' = "none"
           /\ layout' = [kind |-> "neufs", meta |-> meta] /\ todo' = Format(meta)
           /\ UNCHANGED <<fat, pass>>
  /\ UNCHANGED <<sectors, disk>>

-----------------------------------------------------------------------------
(* mkfat.                                                                  *)

CeilDiv(n, d) == ((n + d) - 1) \div d
Overhead(l, f) == l.reserved + l.fats * f
ClustersWith(l, f) == (sectors - Overhead(l, f)) \div l.cluster
Needed(l, f) == CeilDiv(ClustersWith(l, f) + 2, EntriesPerSector)
DataStart(l, f) == Overhead(l, f)
Most(l) == CeilDiv(sectors \div l.cluster + 2, EntriesPerSector)

\* calculate_layout() begins with a FAT for a device without one.
Mkfat(cluster, reserved, fats) ==
  /\ Begins
  /\ layout' = [kind |-> "fat", cluster |-> cluster, reserved |-> reserved, fats |-> fats]
  /\ fat' = Most(layout') /\ pass' = 0 /\ at' = "layout" /\ report' = "none" /\ unread' = FALSE
  /\ UNCHANGED <<sectors, disk, todo>>

\* One pass of at most 16: the size that this many clusters need is the next
\* one, unless it is larger: then it is the last one.
Pass ==
  /\ at = "layout"
  /\ \/ (pass = 16 \/ Overhead(layout, fat) >= sectors) /\ Ends("failed")
     \/ /\ pass < 16 /\ Overhead(layout, fat) < sectors
        /\ fat' = Needed(layout, fat) /\ pass' = pass + 1
        /\ at' = IF Needed(layout, fat) >= fat THEN "check" ELSE "layout"
        /\ UNCHANGED <<layout, todo, report>>
  /\ UNCHANGED <<sectors, disk, runs, unread>>

FatFits ==
  /\ DataStart(layout, fat) < sectors
  /\ ClustersWith(layout, fat) >= MinClusters
  /\ fat * EntriesPerSector >= ClustersWith(layout, fat) + 2

\* The root directory is the first cluster; there are copies of the first two
\* sectors.
FatWrites ==
  << Put(0, DataStart(layout, fat) + layout.cluster - 1, Zero),
     Put(0, 0, {"fat"}), Put(6, 6, {"fat"}), Put(1, 1, {"info"}), Put(7, 7, {"info"}) >>
  \o [i \in 1..layout.fats |->
        Put(layout.reserved + (i - 1) * fat, layout.reserved + (i - 1) * fat, {"table"})]
  \o <<Put(DataStart(layout, fat), DataStart(layout, fat), {"label"})>>

Check(force) ==
  /\ at = "check"
  /\ \E found \in FilesystemsFound :
     \/ ~FatFits /\ Ends("failed") /\ UNCHANGED unread
     \/ FatFits /\ found /\ ~force /\ Ends("refused") /\ UNCHANGED unread
     \/ /\ FatFits /\ (found => force)
        /\ unread' = (HasFilesystem /\ ~force)
        /\ at' = "write" /\ todo' = FatWrites
        /\ UNCHANGED <<layout, fat, pass, report>>
  /\ UNCHANGED <<sectors, disk, runs>>

-----------------------------------------------------------------------------
(* The writes.                                                             *)

Written(w, to) ==
  [i \in Places |-> IF i \notin w.from..to THEN disk[i]
                    ELSE IF w.adds THEN (disk[i] \ Data) \cup w.what ELSE w.what]

Write ==
  /\ todo # <<>>
  /\ disk' = Written(Head(todo), Head(todo).to) /\ todo' = Tail(todo)
  /\ UNCHANGED <<sectors, at, layout, fat, pass, runs, report, unread>>

\* A range is written in parts, and one of them fails.
WriteFails ==
  /\ todo # <<>>
  /\ \E to \in (Head(todo).from - 1)..(Head(todo).to - 1) : disk' = Written(Head(todo), to)
  /\ todo' = <<>> /\ at' = "idle" /\ report' = "failed" /\ layout' = NoLayout
  /\ UNCHANGED <<sectors, fat, pass, runs, unread>>

Made ==
  /\ at = "write" /\ todo = <<>>
  /\ at' = "idle" /\ report' = "made"
  /\ UNCHANGED <<sectors, disk, layout, todo, fat, pass, runs, unread>>

Next ==
  \/ \E table \in {"mbr", "gpt"}, start \in Starts, count \in Counts, wipe \in BOOLEAN :
       Mkpart(table, start, count, wipe)
  \/ \E meta \in MetaSizes, force \in BOOLEAN : Mkneufs(meta, force)
  \/ \E cluster \in Clusters, reserved \in Reserved, fats \in FatCounts :
       Mkfat(cluster, reserved, fats)
  \/ \E force \in BOOLEAN : Check(force)
  \/ Bounds \/ Pass \/ Write \/ WriteFails \/ Made

Spec == Init /\ [][Next]_vars

-----------------------------------------------------------------------------
TypeOK ==
  /\ sectors \in Devices
  /\ at \in {"idle", "wipe", "write", "layout", "check"}
  /\ layout.kind \in {"none", "mbr", "gpt", "neufs", "fat"}
  /\ runs \in 0..MaxRuns /\ pass \in 0..16 /\ fat \in Nat

\* What the table says of the partition: its last sector, where a sum that wraps
\* is small.  Such a partition passes the check, and has no sectors.
LastLba == ((layout.start + layout.count) - 1) % Word
Sectors == layout.start..LastLba
Wraps == layout.start + layout.count > Word

\* The sectors of a partition, as the table says them, are behind the first table
\* and before the second, whatever start and count were asked for; it has as many
\* as were asked for, except that it has none with a count that makes the sum
\* wrap, which an MBR never has.
PartitionFits ==
  at = "write" /\ layout.kind \in {"mbr", "gpt"} =>
    /\ FirstUsable <= layout.start /\ LastLba <= LastUsable
    /\ IF Wraps THEN layout.kind = "gpt" /\ LastLba < layout.start
                ELSE layout.count > 0 /\ LastLba = layout.start + layout.count - 1

\* The structures of NEUFS follow one another without an overlap and end before
\* the data, and the blocks marked are those that have something of them.
NeufsOrdered ==
  at = "write" /\ layout.kind = "neufs" =>
    /\ RvtSize <= DataBitmap
    /\ DataBitmap + DataBitmapSize <= MetaBitmap
    /\ MetaBitmap + MetaBitmapSize(layout.meta) <= RootOffset(layout.meta)
    /\ RootOffset(layout.meta) + RootSize <= layout.meta /\ layout.meta < TotalBytes

Overlaps(block, offset, size) == 8 * block < offset + size /\ offset < 8 * block + 8
BlocksExact ==
  at = "write" /\ layout.kind = "neufs" =>
    \A b \in 0..(TotalBytes \div 8) :
      (b \in MetaMarked(layout.meta)) =
        (\/ Overlaps(b, 0, RvtSize) \/ Overlaps(b, DataBitmap, DataBitmapSize)
         \/ Overlaps(b, MetaBitmap, MetaBitmapSize(layout.meta))
         \/ Overlaps(b, RootOffset(layout.meta), RootSize))

\* The loop of mkfat ends in its second pass, long before the sixteenth, with
\* tables that have an entry for every cluster.
Converges ==
  /\ pass <= 2
  /\ at = "check" => Needed(layout, fat) <= fat

\* What is reported as made is there, with every structure in its place and
\* nothing of another, whatever was on the device and however runs before it
\* ended; an MBR may stand before the header of a GPT that could not be read.
MadeIsWhole ==
  report = "made" =>
    CASE layout.kind = "mbr" -> disk[0] = {"mbr"} /\ (disk[1] # {"header"} \/ unread)
      [] layout.kind = "gpt" ->
           /\ disk[0] = {"mbr"} /\ disk[1] = {"header"} /\ disk[sectors - 1] = {"header"}
           /\ \A i \in 0..(EntrySectors - 1) :
                disk[2 + i] = {"entries"} /\ disk[BackupEntries + i] = {"entries"}
      [] layout.kind = "neufs" ->
           /\ "neufs" \in disk[0]
           /\ "root" \in disk[RootOffset(layout.meta) \div SectorSize]
           /\ \A i \in 0..(layout.meta \div SectorSize - 1) :
                disk[i] \subseteq {"neufs", "root", "sectors", "blocks"}
      [] layout.kind = "fat" ->
           /\ disk[0] = {"fat"} /\ disk[6] = {"fat"} /\ disk[1] = {"info"} /\ disk[7] = {"info"}
           /\ \A i \in 0..(layout.fats - 1) : disk[layout.reserved + i * fat] = {"table"}
           /\ disk[DataStart(layout, fat)] = {"label"}

\* No write goes to a sector of the partition, of the files of NEUFS or of a
\* cluster but the first, where somebody's data may be.
DataSpared ==
  at = "write" =>
    \A k \in 1..Len(todo) :
      LET w == todo[k] IN
        /\ 0 <= w.from /\ w.to < sectors
        /\ layout.kind \in {"mbr", "gpt"} => \A i \in w.from..w.to : i \notin Sectors
        /\ layout.kind = "neufs" => w.to < layout.meta \div SectorSize
        /\ layout.kind = "fat" => w.to < DataStart(layout, fat) + layout.cluster

LayoutsFit == PartitionFits /\ NeufsOrdered /\ BlocksExact /\ Converges /\ DataSpared
=============================================================================
