------------------------------- MODULE MCGpt -------------------------------
(***************************************************************************)
(* Small instances of Gpt: the MBR, a header, entries, two usable blocks,  *)
(* the copy of the entries, and the backup header.                         *)
(***************************************************************************)
EXTENDS Gpt

CONSTANTS Free, Data, Vmgs1  \* partition types

MCCrc(x) == x

Unused == [type_guid |-> Free, first_lba |-> 0, last_lba |-> 0]
MCEntry(type, first, last) ==
  [type_guid |-> type, first_lba |-> first, last_lba |-> last]

MCTable(lba, es) == [partition_entries_lba |-> lba, entries |-> es]

SoundTables ==
  {MCTable(2, <<Unused, MCEntry(Vmgs1, 4, 5), MCEntry(Data, 6, 6)>>),
   MCTable(2, <<MCEntry(Vmgs1, 5, 5), MCEntry(Vmgs1, 4, 4)>>)}

\* No VMGS, a partition that ends beyond the disk, one with its ends swapped,
\* and entries on the MBR or on a header.
SloppyTables ==
  {MCTable(2, <<MCEntry(Data, 4, 5)>>),
   MCTable(2, <<MCEntry(Vmgs1, 4, DiskBlocks)>>),
   MCTable(2, <<MCEntry(Vmgs1, 5, 4)>>),
   MCTable(0, <<>>),
   MCTable(0, <<MCEntry(Vmgs1, 4, 4)>>),
   MCTable(1, <<MCEntry(Vmgs1, 4, 4)>>),
   MCTable(DiskBlocks - 1, <<MCEntry(Vmgs1, 4, 4)>>)}

MCTables == SoundTables \cup SloppyTables

MCDamagedEntries == {Garbage, MCEntry(Vmgs1, 4, 4)}

MCDamage ==
  [fixed |-> {"2.0"}, current_lba |-> {Last, DiskBlocks},
   backup_lba |-> {1, 4, DiskBlocks}, first_usable_lba |-> {3},
   last_usable_lba |-> {0, 4}, guid |-> {"other"},
   partition_entries_lba |-> {3, 5}, partition_entries_num |-> {0, 1, 2, 99},
   partition_entries_checksum |-> {<<>>}, header_checksum |-> {<<>>}]
=============================================================================
