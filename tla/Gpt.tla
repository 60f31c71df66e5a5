-------------------------------- MODULE Gpt --------------------------------
(***************************************************************************)
(* VmgsIO::from_disk up to the partition it opens (src/src/Gpt.cpp,        *)
(* Vmgs.cpp): Gpt::load_from reads the protective MBR, a header, and the   *)
(* partition entries, each of them a step of its own, and from_disk takes  *)
(* the first partition of the VMGS type.                                   *)
(*                                                                         *)
(* The disk was laid out by another tool and may be damaged at any time.   *)
(* A block is a GPT header, a block of partition entries, the MBR, or raw; *)
(* the header's fields with only one legal value (revision, header_size,   *)
(* reserved_zero, partition_entry_size) are one field, `fixed'.            *)
(***************************************************************************)
EXTENDS Interval, Sequences, FiniteSets

CONSTANTS
  DiskBlocks,  \* get_block_count() of the disk
  PerBlock,    \* partition entries in a block
  Crc32(_),    \* crc32_iso3309 of what it covers (crc32.cpp)
  Types,       \* partition type GUIDs
  VmgsType,    \* VMGS_PARTITION_TYPE_GUID
  Tables,      \* partition tables: [partition_entries_lba, entries]
  Damage,      \* [header field -> values that damage may leave in it]
  DamagedEntries,  \* what damage may put in the place of an entry
  MaxDamage,   \* bound on the places that get damaged
  Faults       \* {"io"} when reads may fail, else {}

VARIABLES
  disk,      \* block -> what it holds
  written,   \* the table that was last written to it
  damaged,   \* the places damaged since, as <<block, field>>
  pc,        \* where load_from is
  at,        \* the block of the header to read
  header,    \* gpt_header, the GptHeader object, <<>> before it is loaded
  entries,   \* the loaded partition entries
  opened,    \* the VhdPartitionRef's m_lba_range, <<>> when there is none
  error      \* why the last call failed

vars == <<disk, written, damaged, pc, at, header, entries, opened, error>>

LbaRange == Interval(0, DiskBlocks)
Lba == 0 .. DiskBlocks - 1
Last == DiskBlocks - 1

ASSUME DiskAssumption == DiskBlocks \in Nat /\ PerBlock \in Nat \ {0}
ASSUME TypesAssumption == VmgsType \in Types

Entry == [type_guid : Types, first_lba : Nat, last_lba : Nat]
ASSUME TablesAssumption ==
  \A t \in Tables : t.partition_entries_lba \in Lba /\ t.entries \in Seq(Entry)

---------------------------------------------------------------------------
(* The layouts.                                                            *)

SIGNATURE == "EFI PART"
Fixed == "1.0"
Raw == [signature |-> "raw"]
Mbr == [signature |-> "mbr"]

\* What load gets from 0x80 bytes that are no partition entry.
Garbage == [type_guid |-> "garbage", first_lba |-> DiskBlocks, last_lba |-> 0]

\* Blocks that n entries take, rounded up.
EntryBlocks(n) == (n + PerBlock - 1) \div PerBlock

EntriesIn(b) ==
  IF b.signature = "entries" THEN b.entries ELSE [i \in 1 .. PerBlock |-> Garbage]

\* The first n of the entries on d that start at block lba.
EntriesOn(d, lba, n) ==
  [i \in 1 .. n |->
     EntriesIn(d[lba + (i - 1) \div PerBlock])[((i - 1) % PerBlock) + 1]]

\* GptLbaLayout::load accepts the address.
LbaLoads(lba) == contains(LbaRange, lba)

\* The GptHeader object made from a layout.
Numbers == {"current_lba", "backup_lba", "first_usable_lba", "last_usable_lba",
            "partition_entries_lba", "partition_entries_num"}
HeaderFields == Numbers \cup {"guid", "partition_entries_checksum"}
LoadHeader(y) == [f \in HeaderFields |-> y[f]]

\* A damaged number is a number; a damaged signature is a wiped block.
ASSUME DamageAssumption ==
  /\ MaxDamage \in Nat
  /\ DOMAIN Damage \subseteq HeaderFields \cup {"fixed", "header_checksum"}
  /\ \A f \in Numbers \cap DOMAIN Damage : Damage[f] \subseteq Nat
  /\ DamagedEntries \subseteq Entry \cup {Garbage}

\* The bytes the header checksum covers: every field but itself.
Covered(y) ==
  <<y.fixed, y.current_lba, y.backup_lba, y.first_usable_lba,
    y.last_usable_lba, y.guid, y.partition_entries_lba,
    y.partition_entries_num, y.partition_entries_checksum>>

FaultyPlausible(y) ==
  /\ y.signature = SIGNATURE
  /\ y.fixed = Fixed
  /\ \A f \in {"current_lba", "first_usable_lba", "last_usable_lba",
              "partition_entries_lba"} : LbaLoads(y[f])
  /\ y.current_lba # y.backup_lba
  /\ y.first_usable_lba <= y.last_usable_lba
  /\ y.partition_entries_lba + EntryBlocks(y.partition_entries_num) <= DiskBlocks

\* The tests of GptHeaderLayout::load but the last one: a header that fails
\* one of them makes load throw something else than a checksum error.
Plausible(y) ==
  /\ y.signature = SIGNATURE
  /\ y.fixed = Fixed
  /\ \A f \in {"current_lba", "backup_lba", "first_usable_lba",
              "last_usable_lba", "partition_entries_lba"} : LbaLoads(y[f])
  /\ y.current_lba # y.backup_lba
  /\ y.first_usable_lba <= y.last_usable_lba
  /\ y.partition_entries_lba + EntryBlocks(y.partition_entries_num) <= DiskBlocks

ChecksumMatches(y) == y.header_checksum = Crc32(Covered(y))

\* GptHeader::partition_entries_lba_range.
EntryRange(y) ==
  Interval(y.partition_entries_lba,
           y.partition_entries_lba + EntryBlocks(y.partition_entries_num))

FaultyEntryLoads(e) == LbaLoads(e.first_lba) /\ e.first_lba <= e.last_lba

\* GptPartitionEntryLayout::load accepts e.
EntryLoads(e) ==
  /\ LbaLoads(e.first_lba) /\ LbaLoads(e.last_lba)
  /\ e.first_lba <= e.last_lba

---------------------------------------------------------------------------
(* The disk: what a partitioning tool leaves on it.  External: the code    *)
(* only reads GPTs.                                                        *)

HeaderFor(t, current, backup, lba) ==
  LET y == [signature |-> SIGNATURE, fixed |-> Fixed,
            current_lba |-> current, backup_lba |-> backup,
            first_usable_lba |-> 2, last_usable_lba |-> Last, guid |-> "disk",
            partition_entries_lba |-> lba,
            partition_entries_num |-> Len(t.entries),
            partition_entries_checksum |-> Crc32(t.entries),
            header_checksum |-> 0]
  IN [y EXCEPT !.header_checksum = Crc32(Covered(y))]

EntriesBlock(t, j) ==
  [signature |-> "entries",
   entries |-> [i \in 1 .. PerBlock |->
     IF j * PerBlock + i <= Len(t.entries) THEN t.entries[j * PerBlock + i]
                                           ELSE Garbage]]

\* The primary header and entries at the front, their copies at the end.
OnDisk(t) ==
  LET n == EntryBlocks(Len(t.entries))
      copy == Last - n
      front == t.partition_entries_lba .. t.partition_entries_lba + n - 1 IN
  [b \in Lba |->
     CASE b = 0 -> Mbr
       [] b = 1 -> HeaderFor(t, 1, Last, t.partition_entries_lba)
       [] b = Last /\ Last > 1 -> HeaderFor(t, Last, 1, copy)
       [] b \in front \ {0, 1, Last} -> EntriesBlock(t, b - t.partition_entries_lba)
       [] b \in (copy .. Last - 1) \ (front \cup {0, 1}) -> EntriesBlock(t, b - copy)
       [] OTHER -> Raw]

---------------------------------------------------------------------------
Loading == {"mbr", "header", "backup", "entries", "pick"}

Init ==
  /\ written \in Tables
  /\ disk = OnDisk(written)
  /\ damaged = {}
  /\ pc = "none" /\ at = 1
  /\ header = <<>> /\ entries = <<>> /\ opened = <<>>
  /\ error = "none"

\* The tool writes another table, while nobody has the disk attached.
Rewrite(t) ==
  /\ pc = "none"
  /\ written' = t /\ disk' = OnDisk(t) /\ damaged' = {}
  /\ UNCHANGED <<pc, at, header, entries, opened, error>>

\* Something else than this program changes what block b holds in place f.
Decays(b, f, block) ==
  /\ Cardinality(damaged) < MaxDamage /\ <<b, f>> \notin damaged
  /\ disk' = [disk EXCEPT ![b] = block]
  /\ damaged' = damaged \cup {<<b, f>>}
  /\ UNCHANGED <<written, pc, at, header, entries, opened, error>>

DecayHeader(b, f, v) ==
  /\ disk[b].signature = SIGNATURE
  /\ Decays(b, f, [disk[b] EXCEPT ![f] = v])

DecayEntry(b, i, e) ==
  /\ disk[b].signature = "entries"
  /\ Decays(b, "entries", [disk[b] EXCEPT !.entries[i] = e])

Wipe(b) == disk[b] # Raw /\ Decays(b, "block", Raw)

---------------------------------------------------------------------------
(* from_disk.                                                              *)

Goto(to) == pc' = to /\ UNCHANGED <<disk, written, damaged>>

\* An exception leaves from_disk and the disk is closed.
Throw(e) ==
  /\ Goto("failed")
  /\ error' = e
  /\ at' = 1 /\ header' = <<>> /\ entries' = <<>>
  /\ UNCHANGED opened

Open ==
  /\ pc = "none"
  /\ Goto("mbr")
  /\ error' = "none"
  /\ UNCHANGED <<at, header, entries, opened>>

ReadMbr ==
  /\ pc = "mbr"
  /\ IF length(LbaRange) >= 3 /\ disk[0].signature = "mbr"
       THEN Goto("header") /\ UNCHANGED <<at, header, entries, opened, error>>
       ELSE Throw("no_mbr")

FaultyReadHeader ==
  LET y == disk[1] IN
  /\ pc = "header"
  /\ \/ /\ Plausible(y) /\ ChecksumMatches(y)
        /\ Goto("entries")
        /\ header' = LoadHeader(y)
        /\ UNCHANGED <<at, entries, opened, error>>
     \/ /\ ~ (Plausible(y) /\ ChecksumMatches(y))
        /\ Throw("bad_header")

\* The header at LBA 1.  Only a checksum that does not match sends the code
\* to the backup, at the LBA that this header, checksum or not, gives.
ReadHeader ==
  LET y == disk[1] IN
  /\ pc = "header"
  /\ \/ /\ Plausible(y) /\ ChecksumMatches(y)
        /\ Goto("entries")
        /\ header' = LoadHeader(y)
        /\ UNCHANGED <<at, entries, opened, error>>
     \/ /\ Plausible(y) /\ ~ ChecksumMatches(y)
        /\ Goto("backup")
        /\ at' = y.backup_lba
        /\ UNCHANGED <<header, entries, opened, error>>
     \/ /\ ~ Plausible(y)
        /\ Throw("bad_header")

ReadBackup ==
  LET y == disk[at] IN
  /\ pc = "backup"
  /\ IF Plausible(y) /\ ChecksumMatches(y)
       THEN /\ Goto("entries")
            /\ header' = LoadHeader(y)
            /\ UNCHANGED <<at, entries, opened, error>>
       ELSE Throw("bad_header")

\* The entries may not lie on the MBR or on a header.
Overlaps(y) ==
  \E lba \in {0, y.current_lba, y.backup_lba} : contains(EntryRange(y), lba)

\* The blocks of the entries, their checksum, and then every entry in turn.
ReadEntries ==
  LET es == EntriesOn(disk, header.partition_entries_lba,
                      header.partition_entries_num) IN
  /\ pc = "entries"
  /\ IF Overlaps(header) THEN Throw("overlap")
     ELSE IF Crc32(es) # header.partition_entries_checksum THEN Throw("checksum")
     ELSE IF \E i \in DOMAIN es : ~ EntryLoads(es[i]) THEN Throw("bad_entry")
     ELSE /\ Goto("pick")
          /\ entries' = es
          /\ UNCHANGED <<at, header, opened, error>>

FaultyFirst(is) == CHOOSE i \in is : \A j \in is : i >= j

\* The first partition of the VMGS type; its lba_range is half open.
Vmgs(es) == {i \in DOMAIN es : es[i].type_guid = VmgsType}
First(is) == CHOOSE i \in is : \A j \in is : i <= j
Pick ==
  /\ pc = "pick"
  /\ IF Vmgs(entries) = {} THEN Throw("no_partition")
     ELSE LET e == entries[First(Vmgs(entries))] IN
          /\ Goto("opened")
          /\ opened' = Interval(e.first_lba, e.last_lba + 1)
          /\ UNCHANGED <<at, header, entries, error>>

ReadFails ==
  /\ "io" \in Faults
  /\ pc \in Loading \ {"pick"}
  /\ Throw("io")

\* The VmgsIO is closed, or the exception was handled.
Close ==
  /\ pc \in {"opened", "failed"}
  /\ Goto("none")
  /\ at' = 1 /\ header' = <<>> /\ entries' = <<>> /\ opened' = <<>>
  /\ error' = "none"

Next ==
  \/ Open \/ ReadMbr \/ ReadHeader \/ ReadBackup \/ ReadEntries \/ Pick
  \/ ReadFails \/ Close
  \/ \E t \in Tables : Rewrite(t)
  \/ \E b \in Lba :
       \/ Wipe(b)
       \/ \E f \in DOMAIN Damage : \E v \in Damage[f] : DecayHeader(b, f, v)
       \/ \E i \in 1 .. PerBlock, e \in DamagedEntries : DecayEntry(b, i, e)

Spec == Init /\ [][Next]_vars

---------------------------------------------------------------------------
(* Properties.                                                             *)

TypeOK ==
  /\ DOMAIN disk = Lba
  /\ written \in Tables
  /\ Cardinality(damaged) <= MaxDamage
  /\ pc \in Loading \cup {"none", "opened", "failed"}
  /\ pc = "backup" => at \in Lba
  /\ header # <<>> => /\ DOMAIN header = HeaderFields
                      /\ LbaLoads(header.current_lba) /\ LbaLoads(header.backup_lba)
  /\ entries \in Seq(Entry)
  /\ opened = <<>> \/ opened \in [min : Lba, max : 1 .. DiskBlocks]

\* Whatever decays, before or while from_disk runs, and whichever of the two
\* headers was taken: the entries it accepts are those that were written, in
\* their order, and the partition is the first VMGS one of them (Gpt.cpp:280,
\* 319, Vmgs.cpp:302).
OpenedWasWritten ==
  /\ pc \in {"pick", "opened"} => entries = written.entries
  /\ pc = "opened" =>
       \E i \in DOMAIN written.entries :
         /\ opened = Interval(written.entries[i].first_lba,
                              written.entries[i].last_lba + 1)
         /\ written.entries[i].type_guid = VmgsType
         /\ \A j \in 1 .. i - 1 : written.entries[j].type_guid # VmgsType

\* The partition from_disk opens is not empty and ends on the disk, also when
\* a sloppy tool wrote the table under a valid checksum: VhdPartitionRef adds
\* its first block to every address and checks none of them.
OpenedOnDisk ==
  pc = "opened" => ~ empty(opened) /\ opened.max <= DiskBlocks

\* A table that loads while nothing is damaged, and whose two copies of the
\* entries are apart.
Sound(t) ==
  LET n == EntryBlocks(Len(t.entries)) IN
  /\ t.partition_entries_lba >= 2
  /\ t.partition_entries_lba + n <= Last - n
  /\ \A i \in DOMAIN t.entries : EntryLoads(t.entries[i])
  /\ Vmgs(t.entries) # {}

\* Damage that costs nothing: any at the backup; or, the backup being whole,
\* any in the primary header that leaves it plausible and its backup_lba alone.
FrontLbas == {0, 1} \cup
  (written.partition_entries_lba ..
     written.partition_entries_lba + EntryBlocks(Len(written.entries)) - 1)
Recoverable ==
  \/ \A d \in damaged : d[1] \notin FrontLbas
  \/ /\ \A d \in damaged : d[1] = 1 /\ d[2] \notin {"block", "backup_lba"}
     /\ Plausible(disk[1])

\* As long as reads succeed, from_disk throws on a sound table only when more
\* than that is damaged: the fallback of Gpt.cpp:287-292 does work.
Fails == pc \in Loading /\ pc' = "failed" /\ error' # "io"
RecoverableOpens == [][Fails /\ Sound(written) => ~ Recoverable]_vars
=============================================================================
