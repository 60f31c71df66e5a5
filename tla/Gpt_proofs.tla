----------------------------- MODULE Gpt_proofs -----------------------------
(***************************************************************************)
(* Proofs about Gpt, for every disk, every set of tables that a tool may   *)
(* write and every damage: the types, that the partition from_disk opens   *)
(* lies on the disk, that it is the one that was written, and that damage  *)
(* to one header or to the backup costs nothing.                           *)
(***************************************************************************)
EXTENDS Gpt, FiniteSetTheorems, WellFoundedInduction, TLAPS

LayoutFields == HeaderFields \cup {"signature", "fixed", "header_checksum"}

\* The header that the tool puts into block b, 1 or the last one.
HeaderAt(t, b) ==
  IF b = 1 THEN HeaderFor(t, 1, Last, t.partition_entries_lba)
           ELSE HeaderFor(t, Last, 1, Last - EntryBlocks(Len(t.entries)))

\* What becomes of header y when some of its fields are damaged.
Decayed(y, z) ==
  /\ DOMAIN z = LayoutFields
  /\ z.signature = SIGNATURE
  /\ \A f \in LayoutFields : z[f] = y[f] \/ (f \in DOMAIN Damage /\ z[f] \in Damage[f])

\* The entries that a read of the disk can come upon.
InPlay(t) == {t.entries[i] : i \in 1 .. Len(t.entries)} \cup DamagedEntries \cup {Garbage}
EntriesBlocks(t) == [signature : {"entries"}, entries : [1 .. PerBlock -> InPlay(t)]]

---------------------------------------------------------------------------
(* The inductive invariant.                                                *)

\* What a block of the disk may be, and that a block nobody damaged is as the
\* tool left it.
BlockInv(b) ==
  /\ \/ disk[b] \in {Raw, Mbr}
     \/ b \in {1, Last} /\ Decayed(HeaderAt(written, b), disk[b])
     \/ disk[b] \in EntriesBlocks(written)
  /\ (\A d \in damaged : d[1] # b) => disk[b] = OnDisk(written)[b]
  /\ b = 1 /\ disk[b].signature = SIGNATURE /\ <<1, "backup_lba">> \notin damaged =>
       disk[b].backup_lba = Last

DiskInv ==
  /\ DOMAIN disk = Lba
  /\ \A b \in Lba : BlockInv(b)
  /\ IsFiniteSet(damaged)

\* A header that GptHeaderLayout::load accepted.
HeaderInv ==
  /\ DOMAIN header = HeaderFields
  /\ \A f \in {"current_lba", "backup_lba", "partition_entries_lba"} : header[f] \in Lba
  /\ header.partition_entries_num \in Nat
  /\ header.partition_entries_lba + EntryBlocks(header.partition_entries_num) <= DiskBlocks

HaveHeader == {"entries", "pick", "opened"}

LoadInv ==
  /\ pc \in HaveHeader \cup {"header", "backup"} => DiskBlocks >= 3
  /\ pc \in HaveHeader => HeaderInv
  /\ pc \notin HaveHeader => header = <<>>
  /\ \A i \in DOMAIN entries : EntryLoads(entries[i])
  /\ pc = "opened" => /\ opened \in [min : Lba, max : 1 .. DiskBlocks]
                      /\ opened.min < opened.max

\* The backup is only read after damage to the header at LBA 1, and where the
\* tool said unless that is what was damaged.
BackupInv ==
  pc = "backup" => /\ \E d \in damaged : d[1] = 1
                   /\ at = Last \/ <<1, "backup_lba">> \in damaged

IInv == TypeOK /\ DiskInv /\ LoadInv /\ BackupInv

---------------------------------------------------------------------------
(* Operators.                                                              *)

LEMMA LbaIs ==
  /\ \A v \in Int : LbaLoads(v) <=> v \in Lba
  /\ 1 \in Lba <=> DiskBlocks >= 2
  /\ DiskBlocks >= 1 => 0 \in Lba /\ Last \in Lba
  /\ Last = DiskBlocks - 1 /\ Last \in Int
  BY DiskAssumption DEF LbaLoads, contains, LbaRange, Interval, Lba, Last

\* n entries take EntryBlocks(n) blocks, entry i one of them.
LEMMA EntryBlocksIs ==
  ASSUME NEW n \in Nat
  PROVE  /\ EntryBlocks(n) \in Nat
         /\ n > 0 => EntryBlocks(n) > 0
         /\ \A i \in 1 .. n :
              LET j == (i - 1) \div PerBlock
                  e == ((i - 1) % PerBlock) + 1 IN
              /\ j \in Nat /\ j < EntryBlocks(n) /\ e \in 1 .. PerBlock
              /\ j * PerBlock + e = i
<1>1. PerBlock \in Nat \ {0}
  BY DiskAssumption
<1>2. EntryBlocks(n) \in Nat
  BY <1>1 DEF EntryBlocks
<1>3. ASSUME NEW i \in 1 .. n
      PROVE  LET j == (i - 1) \div PerBlock
                 e == ((i - 1) % PerBlock) + 1 IN
             /\ j \in Nat /\ j < EntryBlocks(n) /\ e \in 1 .. PerBlock
             /\ j * PerBlock + e = i
  <2> DEFINE j == (i - 1) \div PerBlock
             r == (i - 1) % PerBlock
             m == EntryBlocks(n)
  <2>1. /\ j \in Nat /\ r \in 0 .. PerBlock - 1 /\ j * PerBlock + r = i - 1
    BY <1>1
  <2>2. /\ m \in Nat /\ m * PerBlock >= n
    <3> DEFINE u == n + PerBlock - 1
    <3>1. u \in Nat
      BY <1>1
    <3> HIDE DEF u
    <3>2. /\ (u \div PerBlock) * PerBlock + (u % PerBlock) = u
          /\ u % PerBlock \in 0 .. PerBlock - 1 /\ u \div PerBlock \in Nat
      BY <1>1, <3>1
    <3>3. (u \div PerBlock) * PerBlock >= u - (PerBlock - 1)
      <4> DEFINE q == (u \div PerBlock) * PerBlock
                 w == u % PerBlock
      <4>1. q + w = u /\ w \in 0 .. PerBlock - 1 /\ q \in Nat
        BY <1>1, <3>2
      <4> HIDE DEF q, w
      <4> QED
        BY <1>1, <3>1, <4>1 DEF q
    <3> QED
      BY <1>1, <3>2, <3>3 DEF u, EntryBlocks
  <2> HIDE DEF j, r, m
  <2>3. j < m
    <3>1. SUFFICES ASSUME m <= j PROVE FALSE
      BY <2>1, <2>2
    <3>2. m * PerBlock <= j * PerBlock /\ j * PerBlock \in Nat /\ m * PerBlock \in Nat
      BY <1>1, <2>1, <2>2, <3>1
    <3> QED
      BY <1>1, <2>1, <2>2, <3>2
  <2>4. r + 1 \in 1 .. PerBlock /\ j * PerBlock + (r + 1) = i
    <3>1. j * PerBlock \in Nat
      BY <1>1, <2>1
    <3> QED
      BY <1>1, <2>1, <3>1
  <2> QED
    BY <2>1, <2>3, <2>4 DEF j, r, m
<1>4. n > 0 => EntryBlocks(n) > 0
  <2>1. ASSUME n > 0 PROVE 1 \in 1 .. n
    BY <2>1
  <2>2. ASSUME NEW j \in Nat, j < EntryBlocks(n) PROVE EntryBlocks(n) > 0
    BY <1>2, <2>2
  <2> QED
    BY <1>3, <2>1, <2>2
<1> QED
  BY <1>2, <1>3, <1>4

\* The tool's headers, field by field.
LEMMA HeaderAtIs ==
  ASSUME NEW t \in Tables, NEW b
  PROVE  LET y == HeaderAt(t, b) IN
         /\ DOMAIN y = LayoutFields
         /\ y.signature = SIGNATURE /\ y.fixed = Fixed
         /\ y.current_lba = IF b = 1 THEN 1 ELSE Last
         /\ y.backup_lba = IF b = 1 THEN Last ELSE 1
         /\ y.first_usable_lba = 2 /\ y.last_usable_lba = Last
         /\ y.partition_entries_lba =
              IF b = 1 THEN t.partition_entries_lba
                       ELSE Last - EntryBlocks(Len(t.entries))
         /\ y.partition_entries_num = Len(t.entries)
         /\ y.partition_entries_checksum = Crc32(t.entries)
         /\ y.header_checksum = Crc32(Covered(y))
         /\ \A f \in Numbers : y[f] \in Int
<1>1. ASSUME NEW c, NEW k, NEW l
      PROVE  LET y == HeaderFor(t, c, k, l) IN
             /\ DOMAIN y = LayoutFields
             /\ y.signature = SIGNATURE /\ y.fixed = Fixed
             /\ y.current_lba = c /\ y.backup_lba = k
             /\ y.first_usable_lba = 2 /\ y.last_usable_lba = Last
             /\ y.partition_entries_lba = l
             /\ y.partition_entries_num = Len(t.entries)
             /\ y.partition_entries_checksum = Crc32(t.entries)
             /\ y.header_checksum = Crc32(Covered(y))
  <2> DEFINE x == [signature |-> SIGNATURE, fixed |-> Fixed,
                   current_lba |-> c, backup_lba |-> k,
                   first_usable_lba |-> 2, last_usable_lba |-> Last, guid |-> "disk",
                   partition_entries_lba |-> l,
                   partition_entries_num |-> Len(t.entries),
                   partition_entries_checksum |-> Crc32(t.entries),
                   header_checksum |-> 0]
             y == [x EXCEPT !.header_checksum = Crc32(Covered(x))]
  <2>1. y = HeaderFor(t, c, k, l)
    BY DEF HeaderFor
  <2>2. DOMAIN x = LayoutFields
    BY DEF LayoutFields, HeaderFields, Numbers
  <2>3. /\ DOMAIN y = LayoutFields
        /\ y.signature = SIGNATURE /\ y.fixed = Fixed
        /\ y.current_lba = c /\ y.backup_lba = k
        /\ y.first_usable_lba = 2 /\ y.last_usable_lba = Last
        /\ y.partition_entries_lba = l
        /\ y.partition_entries_num = Len(t.entries)
        /\ y.partition_entries_checksum = Crc32(t.entries)
        /\ y.header_checksum = Crc32(Covered(x))
    BY <2>2
  <2>4. Covered(y) = Covered(x)
    BY <2>3 DEF Covered
  <2> HIDE DEF x, y
  <2> QED
    BY <2>1, <2>3, <2>4
<1>2. /\ t.partition_entries_lba \in Int /\ Len(t.entries) \in Int /\ Last \in Int
      /\ Last - EntryBlocks(Len(t.entries)) \in Int
  <2>1. t.partition_entries_lba \in Lba /\ Len(t.entries) \in Nat
    BY TablesAssumption
  <2>2. EntryBlocks(Len(t.entries)) \in Nat
    BY <2>1, EntryBlocksIs
  <2> QED
    BY <2>1, <2>2, LbaIs DEF Lba
<1> QED
  BY <1>1, <1>2 DEF HeaderAt, Numbers

\* A decayed header keeps its numbers numbers; when it is accepted, its
\* addresses are on the disk.
LEMMA DecayedIs ==
  ASSUME NEW t \in Tables, NEW b, NEW z, Decayed(HeaderAt(t, b), z)
  PROVE  /\ \A f \in Numbers : z[f] \in Int
         /\ z.partition_entries_num \in Nat
         /\ Plausible(z) =>
              /\ \A f \in {"current_lba", "backup_lba", "partition_entries_lba"} :
                   z[f] \in Lba
              /\ z.partition_entries_lba + EntryBlocks(z.partition_entries_num)
                   <= DiskBlocks
<1>1. ASSUME NEW f \in Numbers PROVE z[f] \in Int
  BY HeaderAtIs, DamageAssumption DEF Decayed, LayoutFields, HeaderFields
<1>2. z.partition_entries_num \in Nat
  <2>1. Len(t.entries) \in Nat
    BY TablesAssumption
  <2>2. "partition_entries_num" \in Numbers \cap LayoutFields
    BY DEF LayoutFields, HeaderFields, Numbers
  <2>3. HeaderAt(t, b).partition_entries_num = Len(t.entries)
    BY HeaderAtIs
  <2> QED
    BY <2>1, <2>2, <2>3, DamageAssumption DEF Decayed
<1>3. ASSUME Plausible(z)
      PROVE  \A f \in {"current_lba", "backup_lba", "partition_entries_lba"} : z[f] \in Lba
  BY <1>1, <1>3, LbaIs DEF Plausible, Numbers
<1> QED
  BY <1>1, <1>2, <1>3 DEF Plausible

\* A loaded header has the fields of the layout.
LEMMA LoadHeaderIs ==
  ASSUME NEW z
  PROVE  /\ DOMAIN LoadHeader(z) = HeaderFields
         /\ \A f \in HeaderFields : LoadHeader(z)[f] = z[f]
         /\ LoadHeader(z).current_lba = z.current_lba
         /\ LoadHeader(z).backup_lba = z.backup_lba
         /\ LoadHeader(z).partition_entries_lba = z.partition_entries_lba
         /\ LoadHeader(z).partition_entries_num = z.partition_entries_num
         /\ LoadHeader(z).partition_entries_checksum = z.partition_entries_checksum
  BY DEF LoadHeader, HeaderFields, Numbers

\* A block with a GPT signature is a header of the tool's, damaged perhaps.
LEMMA SignedBlocks ==
  ASSUME DiskInv, NEW b \in Lba, disk[b].signature = SIGNATURE
  PROVE  b \in {1, Last} /\ Decayed(HeaderAt(written, b), disk[b])
<1>1. BlockInv(b)
  BY DEF DiskInv
<1>2. disk[b] \notin {Raw, Mbr}
  <2>1. Raw.signature # SIGNATURE /\ Mbr.signature # SIGNATURE
    BY DEF Raw, Mbr, SIGNATURE
  <2> QED
    BY <2>1
<1>3. disk[b] \notin EntriesBlocks(written)
  BY DEF EntriesBlocks, SIGNATURE
<1> QED
  BY <1>1, <1>2, <1>3 DEF BlockInv

\* A block of entries holds entries that can be read.
LEMMA EntriesBlocksAre ==
  ASSUME DiskInv, NEW b \in Lba, disk[b].signature = "entries"
  PROVE  disk[b] \in EntriesBlocks(written)
<1>1. BlockInv(b)
  BY DEF DiskInv
<1>2. disk[b] \notin {Raw, Mbr}
  BY DEF Raw, Mbr
<1>3. ~ Decayed(HeaderAt(written, b), disk[b])
  BY DEF Decayed, SIGNATURE
<1> QED
  BY <1>1, <1>2, <1>3 DEF BlockInv

\* What a read of n entries gets, n of which are on the disk.
LEMMA EntriesRead ==
  ASSUME DiskInv, NEW n \in Nat, NEW lba \in Lba, lba + EntryBlocks(n) <= DiskBlocks
  PROVE  EntriesOn(disk, lba, n) \in [1 .. n -> InPlay(written)]
<1> SUFFICES ASSUME NEW i \in 1 .. n
             PROVE  EntriesIn(disk[lba + (i - 1) \div PerBlock])
                      [((i - 1) % PerBlock) + 1] \in InPlay(written)
  BY DEF EntriesOn
<1> DEFINE j == (i - 1) \div PerBlock
           e == ((i - 1) % PerBlock) + 1
<1>1. j \in Nat /\ j < EntryBlocks(n) /\ e \in 1 .. PerBlock /\ EntryBlocks(n) \in Nat
  BY EntryBlocksIs
<1> HIDE DEF j, e
<1>2. lba + j \in Lba
  BY <1>1, DiskAssumption DEF Lba
<1> DEFINE blk == disk[lba + j]
<1>3. EntriesIn(blk)[e] \in InPlay(written)
  <2>1. CASE blk.signature = "entries"
    <3>1. blk \in EntriesBlocks(written)
      BY <1>2, <2>1, EntriesBlocksAre
    <3> HIDE DEF blk
    <3>2. blk.entries \in [1 .. PerBlock -> InPlay(written)]
      BY <3>1 DEF EntriesBlocks
    <3> QED
      BY <1>1, <2>1, <3>2 DEF EntriesIn
  <2>2. CASE blk.signature # "entries"
    <3> HIDE DEF blk
    <3>1. EntriesIn(blk)[e] = Garbage
      BY <1>1, <2>2 DEF EntriesIn
    <3> QED
      BY <3>1 DEF InPlay
  <2> QED
    BY <2>1, <2>2
<1> QED
  BY <1>3 DEF j, e, blk

\* What EntryLoads accepts is an entry, and its blocks are on the disk.
LEMMA LoadedEntry ==
  ASSUME NEW t \in Tables, NEW x \in InPlay(t), EntryLoads(x)
  PROVE  /\ x \in Entry
         /\ x.first_lba \in Lba /\ x.last_lba \in Lba /\ x.first_lba <= x.last_lba
<1>1. t.entries \in Seq(Entry)
  BY TablesAssumption
<1>2. x \in Entry \cup {Garbage}
  BY <1>1, DamageAssumption DEF InPlay
<1>3. x # Garbage
  <2>1. ~ LbaLoads(DiskBlocks)
    BY LbaIs, DiskAssumption DEF Lba
  <2> QED
    BY <2>1 DEF EntryLoads, Garbage
<1>4. x \in Entry
  BY <1>2, <1>3
<1> QED
  BY <1>4, LbaIs DEF EntryLoads, Entry

---------------------------------------------------------------------------
(* The disk as the tool leaves it, block by block.                         *)

LEMMA EntriesBlockIs ==
  ASSUME NEW t \in Tables, NEW j \in Nat
  PROVE  EntriesBlock(t, j) \in EntriesBlocks(t)
<1> DEFINE es == [i \in 1 .. PerBlock |->
                    IF j * PerBlock + i <= Len(t.entries) THEN t.entries[j * PerBlock + i]
                                                          ELSE Garbage]
<1>1. ASSUME NEW i \in 1 .. PerBlock, j * PerBlock + i <= Len(t.entries)
      PROVE  j * PerBlock + i \in 1 .. Len(t.entries)
  <2>1. Len(t.entries) \in Nat
    BY TablesAssumption
  <2>2. j * PerBlock \in Nat
    BY DiskAssumption
  <2> QED
    BY <1>1, <2>1, <2>2
<1>2. ASSUME NEW i \in 1 .. PerBlock PROVE es[i] \in InPlay(t)
  BY <1>1 DEF InPlay
<1>3. es \in [1 .. PerBlock -> InPlay(t)]
  BY <1>2
<1> HIDE DEF es
<1>4. EntriesBlock(t, j) = [signature |-> "entries", entries |-> es]
  BY DEF EntriesBlock, es
<1> QED
  BY <1>3, <1>4 DEF EntriesBlocks

LEMMA OnDiskIs ==
  ASSUME NEW t \in Tables, NEW b \in Lba
  PROVE  LET n == EntryBlocks(Len(t.entries))
             lba == t.partition_entries_lba
             copy == Last - n
             x == OnDisk(t)[b] IN
         /\ b = 0 => x = Mbr
         /\ b \in {1, Last} /\ b # 0 => x = HeaderAt(t, b)
         /\ b \notin {0, 1, Last} /\ b >= lba /\ b < lba + n => x = EntriesBlock(t, b - lba)
         /\ b \notin {0, 1, Last} /\ b >= copy /\ ~ (b >= lba /\ b < lba + n) =>
              x = EntriesBlock(t, b - copy)
         /\ b \notin {0, 1, Last} /\ b < copy /\ ~ (b >= lba /\ b < lba + n) => x = Raw
<1> DEFINE n == EntryBlocks(Len(t.entries))
           lba == t.partition_entries_lba
           copy == Last - n
           x == OnDisk(t)[b]
<1>1. /\ n \in Nat /\ lba \in Nat /\ copy \in Int /\ b \in Int /\ Last \in Int
      /\ b >= 0 /\ b <= Last
  <2>1. Len(t.entries) \in Nat /\ lba \in Lba
    BY TablesAssumption
  <2>2. n \in Nat
    BY <2>1, EntryBlocksIs
  <2> HIDE DEF n
  <2> QED
    BY <2>1, <2>2, DiskAssumption DEF Lba, Last
<1>2. x = CASE b = 0 -> Mbr
            [] b = 1 -> HeaderFor(t, 1, Last, lba)
            [] b = Last /\ Last > 1 -> HeaderFor(t, Last, 1, copy)
            [] b \in (lba .. lba + n - 1) \ {0, 1, Last} -> EntriesBlock(t, b - lba)
            [] b \in (copy .. Last - 1) \ ((lba .. lba + n - 1) \cup {0, 1}) ->
                 EntriesBlock(t, b - copy)
            [] OTHER -> Raw
  BY DEF OnDisk
<1>3. b = 0 => x = Mbr
  BY <1>2
<1>4. b = 1 => x = HeaderFor(t, 1, Last, lba)
  BY <1>2
<1>5. b = Last /\ b \notin {0, 1} => x = HeaderFor(t, Last, 1, copy)
  <2> HIDE DEF n, lba, copy, x
  <2> QED
    BY <1>1, <1>2
<1>6. ASSUME b \notin {0, 1, Last}, b >= lba, b < lba + n
      PROVE  x = EntriesBlock(t, b - lba)
  <2> HIDE DEF n, lba, copy, x
  <2>1. b \in (lba .. lba + n - 1) \ {0, 1, Last}
    BY <1>1, <1>6
  <2> QED
    BY <1>2, <1>6, <2>1
<1>7. ASSUME b \notin {0, 1, Last}, b >= copy, ~ (b >= lba /\ b < lba + n)
      PROVE  x = EntriesBlock(t, b - copy)
  <2> HIDE DEF n, lba, copy, x
  <2>1. b \in (copy .. Last - 1) \ ((lba .. lba + n - 1) \cup {0, 1})
    BY <1>1, <1>7
  <2>2. b \notin (lba .. lba + n - 1) \ {0, 1, Last}
    BY <1>1, <1>7
  <2> QED
    BY <1>2, <1>7, <2>1, <2>2
<1>8. ASSUME b \notin {0, 1, Last}, b < copy, ~ (b >= lba /\ b < lba + n)
      PROVE  x = Raw
  <2> HIDE DEF n, lba, copy, x
  <2>1. b \notin (copy .. Last - 1) \ ((lba .. lba + n - 1) \cup {0, 1})
    BY <1>1, <1>8
  <2>2. b \notin (lba .. lba + n - 1) \ {0, 1, Last}
    BY <1>1, <1>8
  <2> QED
    BY <1>2, <1>8, <2>1, <2>2
<1>9. b \in {1, Last} /\ b # 0 => x = HeaderAt(t, b)
  <2>1. b = 1 => HeaderAt(t, b) = HeaderFor(t, 1, Last, lba)
    BY DEF HeaderAt
  <2>2. b = Last /\ b # 1 => HeaderAt(t, b) = HeaderFor(t, Last, 1, copy)
    BY DEF HeaderAt
  <2> HIDE DEF n, lba, copy, x
  <2> QED
    BY <1>4, <1>5, <2>1, <2>2
<1> QED
  BY <1>3, <1>6, <1>7, <1>8, <1>9

\* As the tool leaves it, the disk is one that DiskInv describes.
LEMMA WrittenDisk ==
  ASSUME NEW t \in Tables
  PROVE  /\ DOMAIN OnDisk(t) = Lba
         /\ \A b \in Lba :
              \/ OnDisk(t)[b] \in {Raw, Mbr}
              \/ b \in {1, Last} /\ Decayed(HeaderAt(t, b), OnDisk(t)[b])
              \/ OnDisk(t)[b] \in EntriesBlocks(t)
         /\ 1 \in Lba => OnDisk(t)[1].backup_lba = Last
<1>1. DOMAIN OnDisk(t) = Lba
  BY DEF OnDisk
<1>2. ASSUME NEW b \in Lba
      PROVE  \/ OnDisk(t)[b] \in {Raw, Mbr}
             \/ b \in {1, Last} /\ Decayed(HeaderAt(t, b), OnDisk(t)[b])
             \/ OnDisk(t)[b] \in EntriesBlocks(t)
  <2> DEFINE n == EntryBlocks(Len(t.entries))
             lba == t.partition_entries_lba
             copy == Last - n
  <2>1. /\ n \in Nat /\ lba \in Nat /\ copy \in Int /\ b \in Int
    <3>1. Len(t.entries) \in Nat /\ lba \in Lba
      BY TablesAssumption
    <3>2. n \in Nat
      BY <3>1, EntryBlocksIs
    <3> HIDE DEF n
    <3> QED
      BY <3>1, <3>2, LbaIs DEF Lba
  <2>2. CASE b = 0
    BY <2>2, OnDiskIs
  <2>3. CASE b # 0 /\ b \in {1, Last}
    <3>1. OnDisk(t)[b] = HeaderAt(t, b)
      BY <2>3, OnDiskIs
    <3> QED
      BY <2>3, <3>1, HeaderAtIs DEF Decayed
  <2>4. CASE b \notin {0, 1, Last} /\ b >= lba /\ b < lba + n
    <3>1. OnDisk(t)[b] = EntriesBlock(t, b - lba)
      BY <2>4, OnDiskIs
    <3>2. b - lba \in Nat
      BY <2>1, <2>4
    <3> QED
      BY <3>1, <3>2, EntriesBlockIs
  <2>5. CASE b \notin {0, 1, Last} /\ ~ (b >= lba /\ b < lba + n) /\ b >= copy
    <3>1. OnDisk(t)[b] = EntriesBlock(t, b - copy)
      BY <2>5, OnDiskIs
    <3> HIDE DEF copy
    <3>2. b - copy \in Nat
      BY <2>1, <2>5
    <3> QED
      BY <3>1, <3>2, EntriesBlockIs
  <2>6. CASE b \notin {0, 1, Last} /\ ~ (b >= lba /\ b < lba + n) /\ b < copy
    BY <2>6, OnDiskIs
  <2> HIDE DEF n, lba, copy
  <2> QED
    BY <2>1, <2>2, <2>3, <2>4, <2>5, <2>6
<1>3. 1 \in Lba => OnDisk(t)[1].backup_lba = Last
  BY OnDiskIs, HeaderAtIs
<1> QED
  BY <1>1, <1>2, <1>3

\* First takes the least of a set of positions.
LEMMA FirstIs ==
  ASSUME NEW S \in SUBSET Nat, S # {}
  PROVE  First(S) \in S /\ \A j \in S : First(S) <= j
<1> DEFINE R == OpToRel(<, Nat)
<1>1. IsWellFoundedOn(R, Nat)
  BY NatLessThanWellFounded
<1>2. PICK i \in S : \A j \in S : ~ (<<j, i>> \in R)
  <2> HIDE DEF R
  <2> QED
    BY <1>1, WFMin
<1>3. ASSUME NEW j \in S PROVE i <= j
  <2>1. SUFFICES ASSUME j < i PROVE FALSE
    OBVIOUS
  <2>2. <<j, i>> \in Nat \X Nat /\ <<j, i>>[1] < <<j, i>>[2]
    BY <2>1
  <2>3. <<j, i>> \in R
    BY <2>2, Zenon DEF OpToRel
  <2> QED
    BY <1>2, <2>3
<1> QED
  BY <1>3 DEF First

---------------------------------------------------------------------------
(* The inductive invariant: initially, and kept by every action.           *)

LEMMA InitIInv == Init => IInv
<1> SUFFICES ASSUME Init PROVE IInv
  OBVIOUS
<1>1. TypeOK
  <2>1. Cardinality(damaged) <= MaxDamage
    BY FS_EmptySet, DamageAssumption DEF Init
  <2>2. entries \in Seq(Entry)
    BY DEF Init
  <2>3. DOMAIN disk = Lba
    BY WrittenDisk DEF Init
  <2> QED
    BY <2>1, <2>2, <2>3 DEF Init, TypeOK
<1>2. DiskInv
  <2>1. ASSUME NEW b \in Lba PROVE BlockInv(b)
    BY WrittenDisk DEF Init, BlockInv
  <2> QED
    BY <2>1, WrittenDisk, FS_EmptySet DEF Init, DiskInv
<1>3. LoadInv
  BY DEF Init, LoadInv, HaveHeader
<1>4. BackupInv
  BY DEF Init, BackupInv
<1> QED
  BY <1>1, <1>2, <1>3, <1>4 DEF IInv

\* The parts of the invariant about the disk depend on the disk, the table and
\* the damage alone.
LEMMA SameDisk ==
  ASSUME DiskInv, UNCHANGED <<disk, written, damaged>>
  PROVE  DiskInv'
  BY DEF DiskInv, BlockInv

LEMMA ThrowKeeps ==
  ASSUME IInv, NEW e, Throw(e)
  PROVE  IInv'
<1> USE DEF Throw, Goto
<1>1. DiskInv'
  BY SameDisk DEF IInv
<1>2. TypeOK'
  BY DEF IInv, TypeOK, Loading
<1>3. LoadInv'
  BY DEF LoadInv, HaveHeader
<1>4. BackupInv'
  BY DEF BackupInv
<1> QED
  BY <1>1, <1>2, <1>3, <1>4 DEF IInv

\* Damage: what it may put into a block keeps the block within the invariant.
LEMMA DecaysKeeps ==
  ASSUME IInv, NEW b \in Lba, NEW f, NEW block, Decays(b, f, block),
         \/ block \in {Raw, Mbr}
         \/ b \in {1, Last} /\ Decayed(HeaderAt(written, b), block)
         \/ block \in EntriesBlocks(written),
         b = 1 /\ block.signature = SIGNATURE /\ f # "backup_lba" =>
           disk[1].signature = SIGNATURE /\ block.backup_lba = disk[1].backup_lba
  PROVE  IInv'
<1>1. /\ disk' = [disk EXCEPT ![b] = block]
      /\ damaged' = damaged \cup {<<b, f>>} /\ <<b, f>> \notin damaged
      /\ Cardinality(damaged) < MaxDamage
      /\ UNCHANGED <<written, pc, at, header, entries, opened, error>>
  BY DEF Decays
<1>2. DOMAIN disk = Lba /\ (\A c \in Lba : BlockInv(c)) /\ IsFiniteSet(damaged)
  BY DEF IInv, DiskInv
<1>3. IsFiniteSet(damaged') /\ Cardinality(damaged') <= MaxDamage
  <2>1. Cardinality(damaged) \in Nat
    BY <1>2, FS_CardinalityType
  <2>2. /\ IsFiniteSet(damaged \cup {<<b, f>>})
        /\ Cardinality(damaged \cup {<<b, f>>}) = Cardinality(damaged) + 1
    BY <1>1, <1>2, FS_AddElement, Zenon
  <2> QED
    BY <1>1, <2>1, <2>2, DamageAssumption
<1>4. DOMAIN disk' = Lba
  BY <1>1, <1>2
<1>5. ASSUME NEW c \in Lba PROVE BlockInv(c)'
  <2>1. CASE c = b
    <3>1. disk'[c] = block
      BY <1>1, <1>2, <2>1
    <3>2. \E d \in damaged' : d[1] = c
      BY <1>1, <2>1
    <3>3. c = 1 /\ block.signature = SIGNATURE /\ <<1, "backup_lba">> \notin damaged' =>
            block.backup_lba = Last
      <4>1. SUFFICES ASSUME c = 1, block.signature = SIGNATURE,
                            <<1, "backup_lba">> \notin damaged'
                     PROVE  block.backup_lba = Last
        OBVIOUS
      <4>2. f # "backup_lba" /\ <<1, "backup_lba">> \notin damaged
        BY <1>1, <2>1, <4>1
      <4>3. disk[1].signature = SIGNATURE /\ block.backup_lba = disk[1].backup_lba
        BY <2>1, <4>1, <4>2
      <4>4. BlockInv(1)
        BY <1>2, <4>1
      <4> QED
        BY <4>2, <4>3, <4>4 DEF BlockInv
    <3>4. \/ block \in {Raw, Mbr}
          \/ c \in {1, Last} /\ Decayed(HeaderAt(written, c), block)
          \/ block \in EntriesBlocks(written)
      BY <2>1
    <3>5. written' = written
      BY <1>1
    <3> QED
      BY <3>1, <3>2, <3>3, <3>4, <3>5 DEF BlockInv, Last
  <2>2. CASE c # b
    <3>1. disk'[c] = disk[c]
      BY <1>1, <1>2, <2>2
    <3>2. damaged \subseteq damaged' /\ written' = written
      BY <1>1
    <3>3. BlockInv(c)
      BY <1>2
    <3>4. (\A d \in damaged' : d[1] # c) => \A d \in damaged : d[1] # c
      BY <3>2
    <3> QED
      BY <3>1, <3>2, <3>3, <3>4 DEF BlockInv, Last
  <2> QED
    BY <2>1, <2>2
<1>6. DiskInv'
  BY <1>3, <1>4, <1>5 DEF DiskInv, Lba
<1>7. TypeOK'
  BY <1>1, <1>3, <1>4 DEF IInv, TypeOK, Lba
<1>8. LoadInv'
  BY <1>1 DEF IInv, LoadInv, HeaderInv
<1>9. BackupInv'
  BY <1>1 DEF IInv, BackupInv, Last
<1> QED
  BY <1>6, <1>7, <1>8, <1>9 DEF IInv

LEMMA WipeKeeps ==
  ASSUME IInv, NEW b \in Lba, Wipe(b)
  PROVE  IInv'
<1>1. Raw.signature # SIGNATURE
  BY DEF Raw, SIGNATURE
<1> QED
  BY <1>1, DecaysKeeps DEF Wipe

LEMMA DecayHeaderKeeps ==
  ASSUME IInv, NEW b \in Lba, NEW f \in DOMAIN Damage, NEW v \in Damage[f],
         DecayHeader(b, f, v)
  PROVE  IInv'
<1> DEFINE block == [disk[b] EXCEPT ![f] = v]
<1>1. disk[b].signature = SIGNATURE /\ Decays(b, f, block)
  BY DEF DecayHeader
<1>2. b \in {1, Last} /\ Decayed(HeaderAt(written, b), disk[b])
  BY <1>1, SignedBlocks DEF IInv
<1>3. f \in LayoutFields /\ f # "signature"
  BY DamageAssumption DEF LayoutFields, HeaderFields, Numbers
<1>4. DOMAIN block = LayoutFields /\ block[f] = v
  BY <1>2, <1>3 DEF Decayed
<1>5. \A g \in LayoutFields : g # f => block[g] = disk[b][g]
  BY <1>2 DEF Decayed
<1> HIDE DEF block
<1>6. "signature" \in LayoutFields /\ "backup_lba" \in LayoutFields
  BY DEF LayoutFields, HeaderFields, Numbers
<1>7. block.signature = SIGNATURE
  BY <1>1, <1>3, <1>5, <1>6
<1>8. Decayed(HeaderAt(written, b), block)
  BY <1>2, <1>4, <1>5, <1>7 DEF Decayed
<1>9. f # "backup_lba" => block.backup_lba = disk[b].backup_lba
  BY <1>5, <1>6
<1> QED
  BY <1>1, <1>2, <1>8, <1>9, DecaysKeeps

LEMMA DecayEntryKeeps ==
  ASSUME IInv, NEW b \in Lba, NEW i \in 1 .. PerBlock, NEW e \in DamagedEntries,
         DecayEntry(b, i, e)
  PROVE  IInv'
<1> DEFINE block == [disk[b] EXCEPT !.entries[i] = e]
<1>1. disk[b].signature = "entries" /\ Decays(b, "entries", block)
  BY DEF DecayEntry
<1>2. disk[b] \in EntriesBlocks(written)
  BY <1>1, EntriesBlocksAre DEF IInv
<1>3. e \in InPlay(written)
  BY DEF InPlay
<1>4. block \in EntriesBlocks(written)
  BY <1>2, <1>3 DEF EntriesBlocks
<1>5. block.signature # SIGNATURE
  BY <1>4 DEF EntriesBlocks, SIGNATURE
<1> HIDE DEF block
<1> QED
  BY <1>1, <1>4, <1>5, DecaysKeeps

LEMMA RewriteKeeps ==
  ASSUME IInv, NEW t \in Tables, Rewrite(t)
  PROVE  IInv'
<1>1. /\ pc = "none" /\ written' = t /\ disk' = OnDisk(t) /\ damaged' = {}
      /\ UNCHANGED <<pc, at, header, entries, opened, error>>
  BY DEF Rewrite
<1>2. DiskInv'
  <2>1. ASSUME NEW b \in Lba PROVE BlockInv(b)'
    BY <1>1, WrittenDisk DEF BlockInv, Last
  <2> QED
    BY <1>1, <2>1, WrittenDisk, FS_EmptySet DEF DiskInv, Lba
<1>3. TypeOK'
  <2>1. Cardinality(damaged') <= MaxDamage /\ DOMAIN disk' = Lba
    BY <1>1, WrittenDisk, FS_EmptySet, DamageAssumption
  <2> QED
    BY <1>1, <2>1 DEF IInv, TypeOK, Lba
<1>4. LoadInv'
  BY <1>1 DEF IInv, LoadInv, HeaderInv
<1>5. BackupInv'
  BY <1>1 DEF BackupInv
<1> QED
  BY <1>2, <1>3, <1>4, <1>5 DEF IInv

---------------------------------------------------------------------------
(* from_disk.                                                              *)

LEMMA OpenKeeps ==
  ASSUME IInv, Open
  PROVE  IInv'
<1> USE DEF Open, Goto
<1>1. DiskInv'
  BY SameDisk DEF IInv
<1>2. TypeOK'
  BY DEF IInv, TypeOK, Loading, Lba
<1>3. LoadInv'
  BY DEF IInv, LoadInv, HaveHeader, HeaderInv
<1>4. BackupInv'
  BY DEF BackupInv
<1> QED
  BY <1>1, <1>2, <1>3, <1>4 DEF IInv

LEMMA ReadMbrKeeps ==
  ASSUME IInv, ReadMbr
  PROVE  IInv'
<1>1. CASE Throw("no_mbr")
  BY <1>1, ThrowKeeps
<1>2. CASE /\ length(LbaRange) >= 3 /\ pc = "mbr" /\ Goto("header")
           /\ UNCHANGED <<at, header, entries, opened, error>>
  <2> USE <1>2 DEF Goto
  <2>1. DiskInv'
    BY SameDisk DEF IInv
  <2>2. TypeOK'
    BY DEF IInv, TypeOK, Loading, Lba
  <2>3. DiskBlocks >= 3
    BY DiskAssumption DEF length, LbaRange, Interval
  <2>4. LoadInv'
    BY <2>3 DEF IInv, LoadInv, HaveHeader, HeaderInv
  <2>5. BackupInv'
    BY DEF BackupInv
  <2> QED
    BY <2>1, <2>2, <2>4, <2>5 DEF IInv
<1> QED
  BY <1>1, <1>2 DEF ReadMbr

\* Taking the header y of block b.
LEMMA TakeHeaderKeeps ==
  ASSUME IInv, pc \in {"header", "backup"}, NEW b \in Lba, Plausible(disk[b]),
         Goto("entries"), header' = LoadHeader(disk[b]),
         UNCHANGED <<at, entries, opened, error>>
  PROVE  IInv'
<1> DEFINE y == disk[b]
<1>1. Decayed(HeaderAt(written, b), y) /\ written \in Tables
  <2>1. y.signature = SIGNATURE
    BY DEF Plausible
  <2> QED
    BY <2>1, SignedBlocks DEF IInv, TypeOK
<1>2. /\ y.partition_entries_num \in Nat
      /\ y.current_lba \in Lba /\ y.backup_lba \in Lba /\ y.partition_entries_lba \in Lba
      /\ y.partition_entries_lba + EntryBlocks(y.partition_entries_num) <= DiskBlocks
  BY <1>1, DecayedIs
<1> HIDE DEF y
<1>3. HeaderInv'
  <2>1. header' = LoadHeader(y)
    BY DEF y
  <2> QED
    BY <1>2, <2>1, LoadHeaderIs DEF HeaderInv, Lba, EntryBlocks
<1>4. DiskInv'
  BY SameDisk DEF IInv, Goto
<1>5. TypeOK'
  <2>1. /\ DOMAIN header' = HeaderFields
        /\ LbaLoads(header'.current_lba) /\ LbaLoads(header'.backup_lba)
    <3>1. DOMAIN header' = HeaderFields /\ header'.current_lba \in Lba /\ header'.backup_lba \in Lba
      BY <1>3 DEF HeaderInv, Lba
    <3>2. header'.current_lba \in Int /\ header'.backup_lba \in Int
      BY <3>1 DEF Lba
    <3> QED
      BY <3>1, <3>2, LbaIs
  <2> QED
    BY <2>1 DEF IInv, TypeOK, Loading, Goto, LbaLoads, LbaRange, Lba
<1>6. LoadInv'
  BY <1>3 DEF IInv, LoadInv, HaveHeader, Goto, EntryLoads, LbaLoads, LbaRange
<1>7. BackupInv'
  BY DEF BackupInv, Goto
<1> QED
  BY <1>4, <1>5, <1>6, <1>7 DEF IInv

LEMMA ReadHeaderKeeps ==
  ASSUME IInv, ReadHeader
  PROVE  IInv'
<1> DEFINE y == disk[1]
<1>1. pc = "header" /\ 1 \in Lba /\ DiskBlocks >= 3
  <2>1. pc = "header"
    BY DEF ReadHeader
  <2>2. DiskBlocks >= 3
    BY <2>1 DEF IInv, LoadInv
  <2> QED
    BY <2>1, <2>2, LbaIs, DiskAssumption
<1>2. CASE /\ Plausible(y) /\ Goto("entries") /\ header' = LoadHeader(y)
           /\ UNCHANGED <<at, entries, opened, error>>
  BY <1>1, <1>2, TakeHeaderKeeps
<1>3. CASE /\ Plausible(y) /\ ~ ChecksumMatches(y) /\ Goto("backup") /\ at' = y.backup_lba
           /\ UNCHANGED <<header, entries, opened, error>>
  <2>1. /\ Decayed(HeaderAt(written, 1), y) /\ written \in Tables /\ BlockInv(1)
        /\ y.signature = SIGNATURE
    BY <1>1, <1>3, SignedBlocks DEF IInv, TypeOK, DiskInv, Plausible
  <2>2. y.backup_lba \in Lba
    BY <1>3, <2>1, DecayedIs
  <2>3. \E d \in damaged : d[1] = 1
    <3>1. SUFFICES ASSUME \A d \in damaged : d[1] # 1 PROVE FALSE
      OBVIOUS
    <3>2. y = OnDisk(written)[1]
      BY <2>1, <3>1 DEF BlockInv
    <3>3. y = HeaderAt(written, 1)
      BY <1>1, <2>1, <3>2, OnDiskIs
    <3> QED
      BY <1>3, <2>1, <3>3, HeaderAtIs DEF ChecksumMatches
  <2>4. at' = Last \/ <<1, "backup_lba">> \in damaged
    BY <1>3, <2>1 DEF BlockInv
  <2>5. BackupInv'
    BY <1>3, <2>3, <2>4 DEF BackupInv, Goto, Last
  <2>6. DiskInv'
    BY <1>3, SameDisk DEF IInv, Goto
  <2>7. TypeOK'
    BY <1>3, <2>2 DEF IInv, TypeOK, Loading, Goto, Lba, LbaLoads, LbaRange
  <2>8. LoadInv'
    BY <1>1, <1>3 DEF IInv, LoadInv, HaveHeader, Goto, EntryLoads, LbaLoads, LbaRange
  <2> QED
    BY <2>5, <2>6, <2>7, <2>8 DEF IInv
<1>4. CASE Throw("bad_header")
  BY <1>4, ThrowKeeps
<1> QED
  BY <1>2, <1>3, <1>4 DEF ReadHeader

LEMMA ReadBackupKeeps ==
  ASSUME IInv, ReadBackup
  PROVE  IInv'
<1>1. pc = "backup" /\ at \in Lba
  BY DEF ReadBackup, IInv, TypeOK
<1>2. CASE /\ Plausible(disk[at]) /\ Goto("entries") /\ header' = LoadHeader(disk[at])
           /\ UNCHANGED <<at, entries, opened, error>>
  BY <1>1, <1>2, TakeHeaderKeeps
<1>3. CASE Throw("bad_header")
  BY <1>3, ThrowKeeps
<1> QED
  BY <1>2, <1>3 DEF ReadBackup

LEMMA ReadEntriesKeeps ==
  ASSUME IInv, ReadEntries
  PROVE  IInv'
<1> DEFINE es == EntriesOn(disk, header.partition_entries_lba, header.partition_entries_num)
<1>1. pc = "entries" /\ HeaderInv
  BY DEF ReadEntries, IInv, LoadInv, HaveHeader
<1>2. CASE \E e : Throw(e)
  BY <1>2, ThrowKeeps
<1>3. CASE /\ \A i \in DOMAIN es : EntryLoads(es[i])
           /\ Goto("pick") /\ entries' = es /\ UNCHANGED <<at, header, opened, error>>
  <2>1. es \in [1 .. header.partition_entries_num -> InPlay(written)]
    BY <1>1, EntriesRead DEF IInv, HeaderInv
  <2> HIDE DEF es
  <2>2. ASSUME NEW i \in 1 .. header.partition_entries_num PROVE es[i] \in Entry
    BY <1>3, <2>1, LoadedEntry DEF IInv, TypeOK
  <2>3. es \in [1 .. header.partition_entries_num -> Entry]
    BY <2>1, <2>2
  <2>4. es \in Seq(Entry)
    BY <1>1, <2>3 DEF HeaderInv
  <2>5. TypeOK'
    BY <1>3, <2>4 DEF IInv, TypeOK, Loading, Goto, Lba, LbaLoads, LbaRange, Entry
  <2>6. DiskInv'
    BY <1>3, SameDisk DEF IInv, Goto
  <2>7. LoadInv'
    BY <1>1, <1>3 DEF IInv, LoadInv, HaveHeader, HeaderInv, Goto, EntryLoads, LbaLoads, LbaRange
  <2>8. BackupInv'
    BY <1>3 DEF BackupInv, Goto
  <2> QED
    BY <2>5, <2>6, <2>7, <2>8 DEF IInv
<1> QED
  BY <1>2, <1>3 DEF ReadEntries

LEMMA PickKeeps ==
  ASSUME IInv, Pick
  PROVE  IInv'
<1> DEFINE e == entries[First(Vmgs(entries))]
<1>1. pc = "pick"
  BY DEF Pick
<1>2. CASE Throw("no_partition")
  BY <1>2, ThrowKeeps
<1>3. CASE /\ Vmgs(entries) # {} /\ Goto("opened")
           /\ opened' = Interval(e.first_lba, e.last_lba + 1)
           /\ UNCHANGED <<at, header, entries, error>>
  <2>1. entries \in Seq(Entry) /\ \A i \in DOMAIN entries : EntryLoads(entries[i])
    BY DEF IInv, TypeOK, LoadInv
  <2>2. First(Vmgs(entries)) \in DOMAIN entries
    <3>1. Vmgs(entries) \in SUBSET Nat /\ Vmgs(entries) \subseteq DOMAIN entries
      BY <2>1 DEF Vmgs
    <3> QED
      BY <1>3, <3>1, FirstIs
  <2>3. e \in Entry /\ EntryLoads(e)
    BY <2>1, <2>2
  <2> HIDE DEF e
  <2>4. e.first_lba \in Lba /\ e.last_lba \in Lba /\ e.first_lba <= e.last_lba
    BY <2>3, LbaIs DEF EntryLoads, Entry
  <2>5. opened' \in [min : Lba, max : 1 .. DiskBlocks] /\ opened'.min < opened'.max
    <3>1. e.last_lba + 1 \in 1 .. DiskBlocks /\ e.first_lba < e.last_lba + 1
      BY <2>4, DiskAssumption DEF Lba
    <3> QED
      BY <1>3, <2>4, <3>1 DEF Interval
  <2>6. TypeOK'
    BY <1>3, <2>5 DEF IInv, TypeOK, Goto, Lba, LbaLoads, LbaRange
  <2>7. DiskInv'
    BY <1>3, SameDisk DEF IInv, Goto
  <2>8. LoadInv'
    BY <1>1, <1>3, <2>5 DEF IInv, LoadInv, HaveHeader, HeaderInv, Goto, EntryLoads, LbaLoads,
                            LbaRange, Lba
  <2>9. BackupInv'
    BY <1>3 DEF BackupInv, Goto
  <2> QED
    BY <2>6, <2>7, <2>8, <2>9 DEF IInv
<1> QED
  BY <1>2, <1>3 DEF Pick

LEMMA CloseKeeps ==
  ASSUME IInv, Close
  PROVE  IInv'
<1> USE DEF Close, Goto
<1>1. DiskInv'
  BY SameDisk DEF IInv
<1>2. TypeOK'
  BY DEF IInv, TypeOK, Loading, Lba
<1>3. LoadInv'
  BY DEF LoadInv, HaveHeader
<1>4. BackupInv'
  BY DEF BackupInv
<1> QED
  BY <1>1, <1>2, <1>3, <1>4 DEF IInv

LEMMA NextIInv == IInv /\ [Next]_vars => IInv'
<1> SUFFICES ASSUME IInv, [Next]_vars PROVE IInv'
  OBVIOUS
<1>1. CASE Open
  BY <1>1, OpenKeeps
<1>2. CASE ReadMbr
  BY <1>2, ReadMbrKeeps
<1>3. CASE ReadHeader
  BY <1>3, ReadHeaderKeeps
<1>4. CASE ReadBackup
  BY <1>4, ReadBackupKeeps
<1>5. CASE ReadEntries
  BY <1>5, ReadEntriesKeeps
<1>6. CASE Pick
  BY <1>6, PickKeeps
<1>7. CASE ReadFails
  BY <1>7, ThrowKeeps DEF ReadFails
<1>8. CASE Close
  BY <1>8, CloseKeeps
<1>9. CASE \E t \in Tables : Rewrite(t)
  BY <1>9, RewriteKeeps
<1>10. ASSUME NEW b \in Lba,
              \/ Wipe(b)
              \/ \E f \in DOMAIN Damage : \E v \in Damage[f] : DecayHeader(b, f, v)
              \/ \E i \in 1 .. PerBlock, e \in DamagedEntries : DecayEntry(b, i, e)
       PROVE  IInv'
  BY <1>10, WipeKeeps, DecayHeaderKeeps, DecayEntryKeeps
<1>11. CASE UNCHANGED vars
  <2> USE <1>11 DEF vars
  <2>1. DiskInv'
    BY SameDisk DEF IInv
  <2>2. TypeOK' /\ LoadInv' /\ BackupInv'
    BY DEF IInv, TypeOK, LoadInv, HeaderInv, BackupInv
  <2> QED
    BY <2>1, <2>2 DEF IInv
<1> QED
  BY <1>1, <1>2, <1>3, <1>4, <1>5, <1>6, <1>7, <1>8, <1>9, <1>10, <1>11 DEF Next

\* from_disk on a disk with any table and any damage keeps the invariant.
THEOREM Invariance == Spec => []IInv
  BY InitIInv, NextIInv, PTL DEF Spec

\* The objects that from_disk makes are what their constructors accept.
THEOREM TypeCorrect == Spec => []TypeOK
<1>1. IInv => TypeOK
  BY DEF IInv
<1> QED
  BY <1>1, Invariance, PTL

\* The partition that from_disk opens is not empty and ends on the disk,
\* whatever the table says.
THEOREM OpensOnDisk == Spec => []OpenedOnDisk
<1>1. IInv => OpenedOnDisk
  <2> SUFFICES ASSUME IInv, pc = "opened" PROVE ~ empty(opened) /\ opened.max <= DiskBlocks
    BY DEF OpenedOnDisk
  <2>1. opened \in [min : Lba, max : 1 .. DiskBlocks] /\ opened.min < opened.max
    BY DEF IInv, LoadInv
  <2>2. opened.min \in Int /\ opened.max \in Int /\ opened.max <= DiskBlocks
    BY <2>1 DEF Lba
  <2> QED
    BY <2>1, <2>2 DEF empty
<1> QED
  BY <1>1, Invariance, PTL

---------------------------------------------------------------------------
(* What the checksums are for.  They cannot be trusted in general: 32 bits *)
(* do not tell all contents apart.  The rest is proved for damage that     *)
(* they do detect, in a header and in the entries of every table.          *)

DetectsDamage ==
  \A t \in Tables :
    /\ \A b \in {1, Last} : \A z :
         Decayed(HeaderAt(t, b), z) /\ ChecksumMatches(z) => Covered(z) = Covered(HeaderAt(t, b))
    /\ \A es \in [1 .. Len(t.entries) -> InPlay(t)] :
         Crc32(es) = Crc32(t.entries) => es = t.entries

\* The header that was taken is the primary one or, after damage to that, the
\* backup; the entries are those that were written, and the partition is the
\* first of the VMGS type among them.
HeaderWritten ==
  pc \in HaveHeader =>
    \/ header = LoadHeader(HeaderAt(written, 1))
    \/ /\ header = LoadHeader(HeaderAt(written, Last))
       /\ \E d \in damaged : d[1] = 1
EntriesWritten == pc \in {"pick", "opened"} => entries = written.entries
OpenedFirst ==
  pc = "opened" =>
    LET es == written.entries
        e == es[First(Vmgs(es))] IN
    Vmgs(es) # {} /\ opened = Interval(e.first_lba, e.last_lba + 1)

WrittenInv == HeaderWritten /\ EntriesWritten /\ OpenedFirst

\* An accepted header gives the object that the tool's own header gives.
LEMMA AcceptedHeader ==
  ASSUME DetectsDamage, IInv, NEW b \in Lba, Plausible(disk[b]), ChecksumMatches(disk[b])
  PROVE  b \in {1, Last} /\ LoadHeader(disk[b]) = LoadHeader(HeaderAt(written, b))
<1> DEFINE z == disk[b]
           y == HeaderAt(written, b)
<1>1. b \in {1, Last} /\ Decayed(y, z) /\ written \in Tables
  <2>1. z.signature = SIGNATURE
    BY DEF Plausible
  <2> QED
    BY <2>1, SignedBlocks DEF IInv, TypeOK
<1>2. Covered(z) = Covered(y)
  BY <1>1 DEF DetectsDamage
<1> HIDE DEF z, y
<1>3. /\ z.current_lba = y.current_lba /\ z.backup_lba = y.backup_lba
      /\ z.first_usable_lba = y.first_usable_lba /\ z.last_usable_lba = y.last_usable_lba
      /\ z.guid = y.guid /\ z.partition_entries_lba = y.partition_entries_lba
      /\ z.partition_entries_num = y.partition_entries_num
      /\ z.partition_entries_checksum = y.partition_entries_checksum
  BY <1>2 DEF Covered
<1>4. \A f \in HeaderFields : z[f] = y[f]
  BY <1>3 DEF HeaderFields, Numbers
<1>5. LoadHeader(z) = LoadHeader(y)
  BY <1>4 DEF LoadHeader
<1> QED
  BY <1>1, <1>5 DEF z, y

\* Steps that take no header and no entries.
LEMMA OtherStepsWritten ==
  ASSUME WrittenInv, written' = written, damaged \subseteq damaged',
         UNCHANGED <<pc, header, entries, opened>>
  PROVE  WrittenInv'
<1>1. HeaderWritten'
  BY DEF WrittenInv, HeaderWritten, Last
<1>2. EntriesWritten' /\ OpenedFirst'
  BY DEF WrittenInv, EntriesWritten, OpenedFirst
<1> QED
  BY <1>1, <1>2 DEF WrittenInv

LEMMA NoHeaderWritten ==
  ASSUME pc' \notin HaveHeader
  PROVE  WrittenInv'
  BY DEF WrittenInv, HeaderWritten, EntriesWritten, OpenedFirst, HaveHeader

LEMMA TakeHeaderWritten ==
  ASSUME DetectsDamage, IInv, NEW b \in Lba, Plausible(disk[b]), ChecksumMatches(disk[b]),
         b # 1 => \E d \in damaged : d[1] = 1,
         Goto("entries"), header' = LoadHeader(disk[b])
  PROVE  WrittenInv'
<1>1. b \in {1, Last} /\ header' = LoadHeader(HeaderAt(written, b))
  BY AcceptedHeader
<1>2. pc' = "entries" /\ written' = written /\ damaged' = damaged
  BY DEF Goto
<1>3. HeaderWritten'
  BY <1>1, <1>2 DEF HeaderWritten, Last
<1>4. EntriesWritten' /\ OpenedFirst'
  BY <1>2 DEF EntriesWritten, OpenedFirst
<1> QED
  BY <1>3, <1>4 DEF WrittenInv

\* The headers of the table give the length and the checksum of its entries.
LEMMA HeaderGives ==
  ASSUME IInv, WrittenInv, pc = "entries"
  PROVE  /\ header.partition_entries_num = Len(written.entries)
         /\ header.partition_entries_checksum = Crc32(written.entries)
         /\ written \in Tables /\ HeaderInv
<1>1. written \in Tables /\ HeaderInv
  BY DEF IInv, TypeOK, LoadInv, HaveHeader
<1>2. PICK b : header = LoadHeader(HeaderAt(written, b))
  BY DEF WrittenInv, HeaderWritten, HaveHeader
<1>3. /\ HeaderAt(written, b).partition_entries_num = Len(written.entries)
      /\ HeaderAt(written, b).partition_entries_checksum = Crc32(written.entries)
  BY <1>1, HeaderAtIs
<1> QED
  BY <1>1, <1>2, <1>3, LoadHeaderIs

LEMMA ReadEntriesWritten ==
  ASSUME DetectsDamage, IInv, WrittenInv, ReadEntries
  PROVE  WrittenInv'
<1> DEFINE es == EntriesOn(disk, header.partition_entries_lba, header.partition_entries_num)
<1>1. pc = "entries"
  BY DEF ReadEntries
<1>2. CASE \E e : Throw(e)
  BY <1>2, NoHeaderWritten DEF Throw, Goto, HaveHeader
<1>3. CASE /\ Crc32(es) = header.partition_entries_checksum
           /\ Goto("pick") /\ entries' = es /\ UNCHANGED <<at, header, opened, error>>
  <2>1. es \in [1 .. header.partition_entries_num -> InPlay(written)]
    BY <1>1, HeaderGives, EntriesRead DEF IInv, HeaderInv
  <2> HIDE DEF es
  <2>2. es = written.entries
    BY <1>1, <1>3, <2>1, HeaderGives DEF DetectsDamage
  <2>3. pc' = "pick" /\ written' = written /\ damaged' = damaged /\ header' = header
    BY <1>3 DEF Goto
  <2>4. HeaderWritten'
    BY <1>1, <2>3 DEF WrittenInv, HeaderWritten, HaveHeader, Last
  <2>5. EntriesWritten' /\ OpenedFirst'
    BY <1>3, <2>2, <2>3 DEF EntriesWritten, OpenedFirst
  <2> QED
    BY <2>4, <2>5 DEF WrittenInv
<1> QED
  BY <1>2, <1>3 DEF ReadEntries

LEMMA PickWritten ==
  ASSUME WrittenInv, Pick
  PROVE  WrittenInv'
<1> DEFINE e == entries[First(Vmgs(entries))]
<1>1. pc = "pick" /\ entries = written.entries
  BY DEF Pick, WrittenInv, EntriesWritten
<1>2. CASE Throw("no_partition")
  BY <1>2, NoHeaderWritten DEF Throw, Goto, HaveHeader
<1>3. CASE /\ Vmgs(entries) # {} /\ Goto("opened")
           /\ opened' = Interval(e.first_lba, e.last_lba + 1)
           /\ UNCHANGED <<at, header, entries, error>>
  <2>1. /\ pc' = "opened" /\ written' = written /\ damaged' = damaged
        /\ header' = header /\ entries' = entries
    BY <1>3 DEF Goto
  <2>2. HeaderWritten'
    BY <1>1, <2>1 DEF WrittenInv, HeaderWritten, HaveHeader, Last
  <2>3. EntriesWritten'
    BY <1>1, <2>1 DEF EntriesWritten
  <2>4. OpenedFirst'
    BY <1>1, <1>3, <2>1 DEF OpenedFirst
  <2> QED
    BY <2>2, <2>3, <2>4 DEF WrittenInv
<1> QED
  BY <1>2, <1>3 DEF Pick

LEMMA NextWritten ==
  ASSUME DetectsDamage, IInv, WrittenInv, [Next]_vars
  PROVE  WrittenInv'
<1>1. CASE Open \/ ReadMbr
  BY <1>1, NoHeaderWritten DEF Open, ReadMbr, Throw, Goto, HaveHeader
<1>2. CASE ReadHeader
  <2>1. 1 \in Lba /\ DiskBlocks >= 3
    <3>1. DiskBlocks >= 3
      BY <1>2 DEF ReadHeader, IInv, LoadInv
    <3> QED
      BY <3>1, LbaIs, DiskAssumption
  <2>2. CASE /\ Plausible(disk[1]) /\ ChecksumMatches(disk[1])
             /\ Goto("entries") /\ header' = LoadHeader(disk[1])
    BY <2>1, <2>2, TakeHeaderWritten
  <2>3. CASE Goto("backup") \/ Throw("bad_header")
    BY <2>3, NoHeaderWritten DEF Throw, Goto, HaveHeader
  <2> QED
    BY <1>2, <2>2, <2>3 DEF ReadHeader
<1>3. CASE ReadBackup
  <2>1. at \in Lba /\ \E d \in damaged : d[1] = 1
    BY <1>3 DEF ReadBackup, IInv, TypeOK, BackupInv
  <2>2. CASE /\ Plausible(disk[at]) /\ ChecksumMatches(disk[at])
             /\ Goto("entries") /\ header' = LoadHeader(disk[at])
    BY <2>1, <2>2, TakeHeaderWritten
  <2>3. CASE Throw("bad_header")
    BY <2>3, NoHeaderWritten DEF Throw, Goto, HaveHeader
  <2> QED
    BY <1>3, <2>2, <2>3 DEF ReadBackup
<1>4. CASE ReadEntries
  BY <1>4, ReadEntriesWritten
<1>5. CASE Pick
  BY <1>5, PickWritten
<1>6. CASE ReadFails \/ Close
  BY <1>6, NoHeaderWritten DEF ReadFails, Close, Throw, Goto, HaveHeader
<1>7. CASE \E t \in Tables : Rewrite(t)
  BY <1>7, NoHeaderWritten DEF Rewrite, HaveHeader
<1>8. ASSUME NEW b \in Lba,
             \/ Wipe(b)
             \/ \E f \in DOMAIN Damage : \E v \in Damage[f] : DecayHeader(b, f, v)
             \/ \E i \in 1 .. PerBlock, e \in DamagedEntries : DecayEntry(b, i, e)
      PROVE  WrittenInv'
  BY <1>8, OtherStepsWritten DEF Wipe, DecayHeader, DecayEntry, Decays
<1>9. CASE UNCHANGED vars
  BY <1>9, OtherStepsWritten DEF vars
<1> QED
  BY <1>1, <1>2, <1>3, <1>4, <1>5, <1>6, <1>7, <1>8, <1>9 DEF Next

\* What the loader took is what was written, at every point of every run.
LEMMA WrittenInvariance == ASSUME DetectsDamage PROVE Spec => []WrittenInv
<1>1. Init => WrittenInv
  BY DEF Init, WrittenInv, HeaderWritten, EntriesWritten, OpenedFirst, HaveHeader
<1>2. IInv /\ WrittenInv /\ [Next]_vars => WrittenInv'
  BY NextWritten
<1> QED
  BY <1>1, <1>2, Invariance, PTL DEF Spec

\* The entries from_disk accepts are those that were written, whichever of the
\* headers it took, and it opens the first VMGS partition among them.
THEOREM OpensWhatWasWritten == ASSUME DetectsDamage PROVE Spec => []OpenedWasWritten
<1>1. IInv /\ WrittenInv => OpenedWasWritten
  <2> SUFFICES ASSUME IInv, WrittenInv PROVE OpenedWasWritten
    OBVIOUS
  <2> DEFINE es == written.entries
             k == First(Vmgs(es))
  <2>1. es \in Seq(Entry)
    BY TablesAssumption DEF IInv, TypeOK
  <2>2. ASSUME pc = "opened"
        PROVE  /\ k \in DOMAIN es /\ es[k].type_guid = VmgsType
               /\ \A j \in 1 .. k - 1 : es[j].type_guid # VmgsType
               /\ opened = Interval(es[k].first_lba, es[k].last_lba + 1)
    <3>1. Vmgs(es) # {} /\ opened = Interval(es[k].first_lba, es[k].last_lba + 1)
      BY <2>2 DEF WrittenInv, OpenedFirst
    <3> HIDE DEF es
    <3>2. Vmgs(es) \in SUBSET Nat
      BY <2>1 DEF Vmgs
    <3>3. k \in Vmgs(es) /\ \A j \in Vmgs(es) : k <= j
      BY <3>1, <3>2, FirstIs
    <3> HIDE DEF k
    <3>4. k \in DOMAIN es /\ es[k].type_guid = VmgsType /\ DOMAIN es = 1 .. Len(es)
          /\ Len(es) \in Nat
      BY <2>1, <3>3 DEF Vmgs
    <3>5. ASSUME NEW j \in 1 .. k - 1 PROVE es[j].type_guid # VmgsType
      <4>1. j \in DOMAIN es /\ ~ (k <= j)
        BY <3>4
      <4> QED
        BY <3>3, <4>1 DEF Vmgs
    <3> QED
      BY <3>1, <3>4, <3>5
  <2>3. pc \in {"pick", "opened"} => entries = es
    BY DEF WrittenInv, EntriesWritten
  <2> HIDE DEF k
  <2> QED
    BY <2>2, <2>3 DEF OpenedWasWritten
<1> QED
  BY <1>1, Invariance, WrittenInvariance, PTL

---------------------------------------------------------------------------
(* A sound table loads as long as nothing that matters is damaged.         *)

LEMMA SoundIs ==
  ASSUME NEW t \in Tables, Sound(t)
  PROVE  LET n == EntryBlocks(Len(t.entries))
             lba == t.partition_entries_lba IN
         /\ Len(t.entries) \in Nat /\ n \in Nat \ {0} /\ lba \in Nat /\ lba >= 2
         /\ lba + n <= Last - n /\ Last \in Nat /\ DiskBlocks = Last + 1
<1> DEFINE n == EntryBlocks(Len(t.entries))
           lba == t.partition_entries_lba
<1>1. t.entries \in Seq(Entry) /\ lba \in Lba
  BY TablesAssumption
<1>2. Len(t.entries) \in Nat /\ Len(t.entries) # 0
  <2>1. Vmgs(t.entries) # {}
    BY DEF Sound
  <2>2. DOMAIN t.entries # {}
    BY <2>1 DEF Vmgs
  <2> QED
    BY <1>1, <2>2
<1>3. n \in Nat \ {0}
  <2>1. n \in Nat /\ (Len(t.entries) > 0 => n > 0)
    BY <1>2, EntryBlocksIs
  <2> HIDE DEF n
  <2> QED
    BY <1>2, <2>1
<1>4. lba >= 2 /\ lba + n <= Last - n
  BY DEF Sound
<1> HIDE DEF n
<1> QED
  BY <1>1, <1>2, <1>3, <1>4, DiskAssumption DEF Last, Lba, n

LEMMA SoundHeaders ==
  ASSUME NEW t \in Tables, Sound(t), NEW b \in {1, Last}
  PROVE  /\ Plausible(HeaderAt(t, b)) /\ ChecksumMatches(HeaderAt(t, b))
         /\ ~ Overlaps(LoadHeader(HeaderAt(t, b)))
<1> DEFINE n == EntryBlocks(Len(t.entries))
           lba == t.partition_entries_lba
           y == HeaderAt(t, b)
<1>1. /\ n \in Nat \ {0} /\ lba \in Nat /\ lba >= 2
      /\ lba + n <= Last - n /\ Last \in Nat /\ DiskBlocks = Last + 1
  BY SoundIs
<1>2. /\ y.signature = SIGNATURE /\ y.fixed = Fixed
      /\ y.current_lba = IF b = 1 THEN 1 ELSE Last
      /\ y.backup_lba = IF b = 1 THEN Last ELSE 1
      /\ y.first_usable_lba = 2 /\ y.last_usable_lba = Last
      /\ y.partition_entries_lba = IF b = 1 THEN lba ELSE Last - n
      /\ EntryBlocks(y.partition_entries_num) = n
      /\ y.header_checksum = Crc32(Covered(y))
  BY HeaderAtIs
<1> HIDE DEF n, lba, y
<1>3. /\ y.current_lba \in Lba /\ y.backup_lba \in Lba /\ 2 \in Lba /\ Last \in Lba
      /\ y.partition_entries_lba \in Lba /\ y.current_lba # y.backup_lba
      /\ y.partition_entries_lba + n <= DiskBlocks
  BY <1>1, <1>2 DEF Lba
<1>4. \A v \in Lba : LbaLoads(v)
  BY LbaIs DEF Lba
<1>5. Plausible(y)
  BY <1>1, <1>2, <1>3, <1>4 DEF Plausible
<1>6. ChecksumMatches(y)
  BY <1>2 DEF ChecksumMatches
<1>7. ~ Overlaps(LoadHeader(y))
  <2> DEFINE l == LoadHeader(y)
  <2>1. /\ l.current_lba = y.current_lba /\ l.backup_lba = y.backup_lba
        /\ l.partition_entries_lba = y.partition_entries_lba
        /\ EntryBlocks(l.partition_entries_num) = n
    BY <1>2, LoadHeaderIs
  <2> HIDE DEF l
  <2>2. EntryRange(l) = Interval(y.partition_entries_lba, y.partition_entries_lba + n)
    BY <2>1 DEF EntryRange
  <2>3. ~ contains(EntryRange(l), 0) /\ ~ contains(EntryRange(l), 1)
        /\ ~ contains(EntryRange(l), Last)
    BY <1>1, <1>2, <2>2 DEF contains, Interval
  <2>4. l.current_lba \in {1, Last} /\ l.backup_lba \in {1, Last}
    BY <1>2, <2>1
  <2>5. ~ Overlaps(l)
    BY <2>3, <2>4 DEF Overlaps
  <2> QED
    BY <2>5 DEF l
<1> QED
  BY <1>5, <1>6, <1>7 DEF y

\* The blocks of a table's entries, at either of the two places, read in turn.
LEMMA EntriesFrom ==
  ASSUME NEW t \in Tables, NEW d, NEW l \in Nat,
         \A j \in Nat : j < EntryBlocks(Len(t.entries)) => d[l + j] = EntriesBlock(t, j)
  PROVE  EntriesOn(d, l, Len(t.entries)) = t.entries
<1> DEFINE n == Len(t.entries)
           es == EntriesOn(d, l, n)
<1>1. t.entries \in Seq(Entry) /\ n \in Nat
  BY TablesAssumption
<1>2. ASSUME NEW i \in 1 .. n PROVE es[i] = t.entries[i]
  <2> DEFINE j == (i - 1) \div PerBlock
             e == ((i - 1) % PerBlock) + 1
  <2>1. /\ j \in Nat /\ j < EntryBlocks(n) /\ e \in 1 .. PerBlock
        /\ j * PerBlock + e = i
    BY <1>1, EntryBlocksIs
  <2>2. es[i] = EntriesIn(d[l + j])[e]
    BY DEF EntriesOn
  <2> HIDE DEF j, e, es
  <2>3. d[l + j] = EntriesBlock(t, j)
    BY <2>1
  <2>4. EntriesIn(EntriesBlock(t, j))[e] = t.entries[j * PerBlock + e]
    <3> DEFINE blk == [x \in 1 .. PerBlock |->
                         IF j * PerBlock + x <= Len(t.entries) THEN t.entries[j * PerBlock + x]
                                                               ELSE Garbage]
    <3>1. blk[e] = t.entries[j * PerBlock + e]
      BY <1>1, <2>1
    <3> HIDE DEF blk
    <3>2. EntriesBlock(t, j) = [signature |-> "entries", entries |-> blk]
      BY DEF EntriesBlock, blk
    <3> QED
      BY <3>1, <3>2 DEF EntriesIn
  <2> QED
    BY <2>1, <2>2, <2>3, <2>4
<1>3. es = [i \in 1 .. n |-> es[i]]
  BY DEF EntriesOn
<1> HIDE DEF es
<1>4. t.entries = [i \in 1 .. n |-> t.entries[i]]
  BY <1>1
<1> QED
  BY <1>2, <1>3, <1>4 DEF es

\* Where the tool put the entries of a sound table, and their copy.
LEMMA SoundEntries ==
  ASSUME NEW t \in Tables, Sound(t), NEW j \in Nat, j < EntryBlocks(Len(t.entries))
  PROVE  LET lba == t.partition_entries_lba
             copy == Last - EntryBlocks(Len(t.entries)) IN
         /\ lba + j \in Lba \ {0, 1} /\ OnDisk(t)[lba + j] = EntriesBlock(t, j)
         /\ copy + j \in Lba \ {0, 1} /\ OnDisk(t)[copy + j] = EntriesBlock(t, j)
<1> DEFINE n == EntryBlocks(Len(t.entries))
           lba == t.partition_entries_lba
           copy == Last - n
<1>1. /\ n \in Nat \ {0} /\ lba \in Nat /\ lba >= 2 /\ lba + n <= copy
      /\ Last \in Nat /\ DiskBlocks = Last + 1 /\ copy \in Int /\ copy + n = Last /\ j < n
  <2>1. /\ n \in Nat \ {0} /\ lba \in Nat /\ lba >= 2 /\ lba + n <= Last - n
        /\ Last \in Nat /\ DiskBlocks = Last + 1
    BY SoundIs
  <2> HIDE DEF n, lba
  <2> QED
    BY <2>1 DEF n
<1> DEFINE a == lba + j
           c == copy + j
<1>2. /\ a \in Lba /\ a \notin {0, 1, Last} /\ a >= lba /\ a < lba + n /\ a - lba = j
  <2> HIDE DEF n, lba, copy
  <2> QED
    BY <1>1 DEF Lba
<1>3. /\ c \in Lba /\ c \notin {0, 1, Last} /\ c >= copy /\ ~ (c < lba + n) /\ c - copy = j
  <2> HIDE DEF n, lba, copy
  <2> QED
    BY <1>1 DEF Lba
<1> HIDE DEF a, c
<1>4. OnDisk(t)[a] = EntriesBlock(t, j)
  BY <1>2, OnDiskIs
<1>5. OnDisk(t)[c] = EntriesBlock(t, j)
  BY <1>3, OnDiskIs
<1> QED
  BY <1>2, <1>3, <1>4, <1>5 DEF a, c

\* What is left of the disk after damage that costs nothing.
LEMMA RecoverableDisk ==
  ASSUME IInv, Sound(written), Recoverable
  PROVE  /\ written \in Tables /\ DiskBlocks >= 3 /\ disk[0].signature = "mbr"
         /\ Plausible(disk[1])
         /\ (\E d \in damaged : d[1] = 1) =>
              /\ <<1, "backup_lba">> \notin damaged
              /\ \A b \in Lba \ {1} : disk[b] = OnDisk(written)[b]
         /\ (\A d \in damaged : d[1] # 1) =>
              /\ disk[1] = HeaderAt(written, 1)
              /\ \A j \in Nat : j < EntryBlocks(Len(written.entries)) =>
                   disk[written.partition_entries_lba + j] = EntriesBlock(written, j)
<1> DEFINE n == EntryBlocks(Len(written.entries))
           lba == written.partition_entries_lba
<1>1. written \in Tables /\ \A b \in Lba : BlockInv(b)
  BY DEF IInv, TypeOK, DiskInv
<1>2. /\ n \in Nat \ {0} /\ lba \in Nat /\ lba >= 2 /\ lba + n <= Last - n
      /\ Last \in Nat /\ DiskBlocks = Last + 1
  BY <1>1, SoundIs
<1>3. \A b \in Lba : (\A d \in damaged : d[1] # b) => disk[b] = OnDisk(written)[b]
  BY <1>1 DEF BlockInv
<1>4. DiskBlocks >= 3 /\ 0 \in Lba /\ 1 \in Lba /\ Last \in Lba
  <2> HIDE DEF n, lba
  <2> QED
    BY <1>2 DEF Lba
<1>5. 0 \in FrontLbas /\ 1 \in FrontLbas /\ lba .. lba + n - 1 \subseteq FrontLbas
  BY DEF FrontLbas
<1>6. disk[0].signature = "mbr"
  <2>1. \A d \in damaged : d[1] # 0
    BY <1>5 DEF Recoverable
  <2>2. disk[0] = Mbr
    BY <1>1, <1>3, <1>4, <2>1, OnDiskIs
  <2> QED
    BY <2>2 DEF Mbr
<1>7. (\A d \in damaged : d[1] # 1) => disk[1] = HeaderAt(written, 1)
  BY <1>1, <1>3, <1>4, OnDiskIs
<1>8. Plausible(disk[1])
  <2>1. CASE \A d \in damaged : d[1] # 1
    BY <1>1, <1>7, <2>1, SoundHeaders
  <2>2. CASE \E d \in damaged : d[1] = 1
    BY <1>5, <2>2 DEF Recoverable
  <2> QED
    BY <2>1, <2>2
<1>9. ASSUME \E d \in damaged : d[1] = 1
      PROVE  /\ <<1, "backup_lba">> \notin damaged
             /\ \A b \in Lba \ {1} : disk[b] = OnDisk(written)[b]
  <2>1. \A d \in damaged : d[1] = 1 /\ d[2] \notin {"block", "backup_lba"}
    BY <1>5, <1>9 DEF Recoverable
  <2>2. <<1, "backup_lba">> \notin damaged
    BY <2>1
  <2>3. ASSUME NEW b \in Lba \ {1} PROVE disk[b] = OnDisk(written)[b]
    BY <1>3, <2>1
  <2> QED
    BY <2>2, <2>3
<1>10. ASSUME \A d \in damaged : d[1] # 1, NEW j \in Nat, j < n
       PROVE  disk[lba + j] = EntriesBlock(written, j)
  <2>1. lba + j \in Lba \ {0, 1} /\ OnDisk(written)[lba + j] = EntriesBlock(written, j)
    BY <1>1, <1>10, SoundEntries
  <2>2. lba + j \in FrontLbas
    <3>1. lba + j \in lba .. lba + n - 1
      <4> HIDE DEF n, lba
      <4> QED
        BY <1>2, <1>10
    <3> QED
      BY <1>5, <3>1
  <2> HIDE DEF lba
  <2>3. \A d \in damaged : d[1] # lba + j
    BY <1>10, <2>1, <2>2 DEF Recoverable
  <2> QED
    BY <1>3, <2>1, <2>3
<1> QED
  BY <1>1, <1>4, <1>6, <1>7, <1>8, <1>9, <1>10

LEMMA RecoverableEntries ==
  ASSUME IInv, WrittenInv, pc = "entries", Sound(written), Recoverable
  PROVE  /\ EntriesOn(disk, header.partition_entries_lba, header.partition_entries_num)
               = written.entries
         /\ ~ Overlaps(header)
<1> DEFINE n == EntryBlocks(Len(written.entries))
           lba == written.partition_entries_lba
           Damaged1 == \E d \in damaged : d[1] = 1
<1>1. /\ n \in Nat \ {0} /\ lba \in Nat /\ lba >= 2 /\ lba + n <= Last - n
      /\ Last \in Nat /\ DiskBlocks = Last + 1 /\ written \in Tables
  BY RecoverableDisk, SoundIs
<1>2. \A j \in Nat : j < n => disk[lba + j] = EntriesBlock(written, j)
  <2>1. CASE Damaged1
    BY <1>1, <2>1, RecoverableDisk, SoundEntries
  <2>2. CASE ~ Damaged1
    BY <2>2, RecoverableDisk
  <2> QED
    BY <2>1, <2>2
<1>3. Last # 1
  <2> HIDE DEF n, lba
  <2> QED
    BY <1>1
<1>4. CASE header = LoadHeader(HeaderAt(written, 1))
  <2>1. header.partition_entries_lba = lba
    BY <1>1, <1>4, HeaderAtIs, LoadHeaderIs
  <2>2. EntriesOn(disk, lba, Len(written.entries)) = written.entries
    BY <1>1, <1>2, EntriesFrom
  <2>3. header.partition_entries_num = Len(written.entries)
    BY HeaderGives
  <2>4. ~ Overlaps(header)
    BY <1>1, <1>4, SoundHeaders
  <2> QED
    BY <2>1, <2>2, <2>3, <2>4
<1>5. CASE header = LoadHeader(HeaderAt(written, Last)) /\ Damaged1
  <2> DEFINE copy == Last - n
  <2>1. header.partition_entries_lba = copy
    BY <1>1, <1>3, <1>5, HeaderAtIs, LoadHeaderIs
  <2>2. \A j \in Nat : j < n => disk[copy + j] = EntriesBlock(written, j)
    BY <1>1, <1>5, RecoverableDisk, SoundEntries
  <2>3. copy \in Nat
    <3> HIDE DEF n, lba
    <3> QED
      BY <1>1
  <2>4. EntriesOn(disk, copy, Len(written.entries)) = written.entries
    <3> HIDE DEF copy
    <3> QED
      BY <1>1, <2>2, <2>3, EntriesFrom
  <2>5. header.partition_entries_num = Len(written.entries)
    BY HeaderGives
  <2>6. ~ Overlaps(header)
    BY <1>1, <1>5, SoundHeaders
  <2> QED
    BY <2>1, <2>4, <2>5, <2>6
<1> QED
  BY <1>4, <1>5 DEF WrittenInv, HeaderWritten, HaveHeader

LEMMA RecoverableStep ==
  ASSUME IInv, WrittenInv, [Next]_vars, Fails, Sound(written), Recoverable
  PROVE  FALSE
<1>1. pc \in Loading /\ pc' = "failed" /\ error' # "io"
  BY DEF Fails
<1>2. CASE ReadMbr
  <2>1. length(LbaRange) >= 3 /\ disk[0].signature = "mbr"
    BY RecoverableDisk, DiskAssumption DEF length, LbaRange, Interval, empty
  <2> QED
    BY <1>1, <1>2, <2>1 DEF ReadMbr, Goto
<1>3. CASE ReadHeader
  <2>1. Plausible(disk[1])
    BY RecoverableDisk
  <2> QED
    BY <1>1, <1>3, <2>1 DEF ReadHeader, Goto
<1>4. CASE ReadBackup
  <2>1. pc = "backup" /\ (\E d \in damaged : d[1] = 1)
        /\ (at = Last \/ <<1, "backup_lba">> \in damaged)
    BY <1>4 DEF ReadBackup, IInv, BackupInv
  <2>2. /\ written \in Tables /\ DiskBlocks >= 3 /\ at = Last
        /\ \A b \in Lba \ {1} : disk[b] = OnDisk(written)[b]
    BY <2>1, RecoverableDisk
  <2>3. Last \in Lba \ {0, 1}
    BY <2>2, DiskAssumption DEF Last, Lba
  <2>4. disk[at] = HeaderAt(written, Last)
    BY <2>2, <2>3, OnDiskIs
  <2>5. Plausible(disk[at]) /\ ChecksumMatches(disk[at])
    BY <2>2, <2>4, SoundHeaders
  <2> QED
    BY <1>1, <1>4, <2>5 DEF ReadBackup, Goto
<1>5. CASE ReadEntries
  <2>1. pc = "entries"
    BY <1>5 DEF ReadEntries
  <2>2. /\ EntriesOn(disk, header.partition_entries_lba, header.partition_entries_num)
              = written.entries
        /\ ~ Overlaps(header)
        /\ header.partition_entries_checksum = Crc32(written.entries)
    BY <2>1, RecoverableEntries, HeaderGives
  <2>3. \A i \in DOMAIN written.entries : EntryLoads(written.entries[i])
    BY DEF Sound
  <2> QED
    BY <1>1, <1>5, <2>2, <2>3 DEF ReadEntries, Goto
<1>6. CASE Pick
  <2>1. entries = written.entries /\ Vmgs(written.entries) # {}
    BY <1>6 DEF Pick, WrittenInv, EntriesWritten, Sound
  <2> QED
    BY <1>1, <1>6, <2>1 DEF Pick, Goto
<1>7. CASE Open \/ ReadFails \/ Close
  BY <1>1, <1>7 DEF Open, ReadFails, Close, Throw, Goto
<1>8. CASE \E t \in Tables : Rewrite(t)
  BY <1>1, <1>8 DEF Rewrite, Loading
<1>9. ASSUME NEW b \in Lba,
             \/ Wipe(b)
             \/ \E f \in DOMAIN Damage : \E v \in Damage[f] : DecayHeader(b, f, v)
             \/ \E i \in 1 .. PerBlock, e \in DamagedEntries : DecayEntry(b, i, e)
      PROVE  FALSE
  BY <1>1, <1>9 DEF Wipe, DecayHeader, DecayEntry, Decays, Loading
<1>10. CASE UNCHANGED vars
  BY <1>1, <1>10 DEF vars, Loading
<1> QED
  BY <1>2, <1>3, <1>4, <1>5, <1>6, <1>7, <1>8, <1>9, <1>10 DEF Next

\* As long as reads succeed, from_disk throws on a sound table only when more
\* is damaged than one whole copy and the way to it.
THEOREM RecoverableTablesOpen == ASSUME DetectsDamage PROVE Spec => RecoverableOpens
<1>1. IInv /\ WrittenInv /\ [Next]_vars => [Fails /\ Sound(written) => ~ Recoverable]_vars
  BY RecoverableStep
<1> QED
  BY <1>1, Invariance, WrittenInvariance, PTL DEF Spec, RecoverableOpens
=============================================================================
