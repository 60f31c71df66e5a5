-------------------------- MODULE VmgsData_proofs --------------------------
(***************************************************************************)
(* Proofs about VmgsData, for any headers that other tools write, sizes,   *)
(* partition and bounds: the inductive invariant IInv, under the           *)
(* hypothesis that the checksum tells the damage that happens, and the     *)
(* properties that follow from it.                                         *)
(***************************************************************************)
EXTENDS VmgsData, VmgsFormat_proofs, FiniteSetTheorems

---------------------------------------------------------------------------
(* The headers that a behaviour can come to.                               *)

WrittenHeaders == {hs[i] : hs \in Written, i \in {0, 1}}
WrittenLocators == {h.locators[j] : h \in WrittenHeaders, j \in {0, 1}}

\* Resizes change a data_size only, and sequence numbers do not go down.
LocatorsInPlay ==
  {[allocation_lba |-> l.allocation_lba, allocation_num |-> l.allocation_num,
    data_size |-> size] :
     l \in WrittenLocators, size \in Sizes \cup {k.data_size : k \in WrittenLocators}}
NumbersInPlay ==
  {s \in 0 .. U32 - 1 : \E h \in WrittenHeaders : h.sequence_number <= s}
HeadersInPlay ==
  [sequence_number : NumbersInPlay, active_index : {0, 1},
   locators : [{0, 1} -> LocatorsInPlay]]

\* The damage that befalls a header is of the kind that its checksum detects: a
\* CRC-32 detects every change within one field of at most 32 bits, and all
\* but one in 2^32 of the others.  (Of a field with one right value the test of
\* the field is enough.)
DetectsDamage ==
  \A h \in HeadersInPlay, f \in DOMAIN Damage : \A v \in Damage[f] :
    LET y == StoreHeader(h)
        z == [y EXCEPT ![f] = v] IN
    FieldsLoad(z, PartBlocks) /\ Covered(z) # Covered(y) =>
      Crc32(Covered(z)) # Crc32(Covered(y))

---------------------------------------------------------------------------
(* The inductive invariant.                                                *)

\* A header on the device is what was last put there, but for damage to a field.
HeadsInv ==
  \A i \in {0, 1} :
    \/ i \notin damaged /\ heads[i] = StoreHeader(stored[i])
    \/ /\ i \in damaged
       /\ \E f \in DOMAIN Damage : \E v \in Damage[f] :
            heads[i] = [StoreHeader(stored[i]) EXCEPT ![f] = v]

InPlay(hs) == DOMAIN hs = {0, 1} /\ \A i \in {0, 1} : hs[i] \in HeadersInPlay

LocatorsLoad(hs) == \A i, j \in {0, 1} : LocatorLoads(hs[i].locators[j], PartBlocks)

\* The headers of an object passed the tests of load_from, and still do.
MemoryInv ==
  /\ outcome = "storing" => m_headers # <<>>
  /\ m_headers # <<>> =>
       /\ InPlay(m_headers) /\ LocatorsLoad(m_headers)
       /\ Consecutive(m_headers[0].sequence_number, m_headers[1].sequence_number)

\* How far the file can be from the headers of an object, after at most one
\* update by another tool: that has replaced the older header, and store_to may
\* have put the object's one back.
StaleInv ==
  m_headers # <<>> /\ updates <= 1 =>
    LET a == ActiveIndex(m_headers)
        newer == m_headers[a].sequence_number
        older == m_headers[1 - a].sequence_number IN
    /\ LocatorsLoad(stored)
    /\ stored[a].sequence_number = newer
    /\ \/ stored[1 - a].sequence_number = older
       \/ /\ updates = 1 /\ newer + 1 < U32
          /\ stored[1 - a].sequence_number = newer + 1

\* A block holds what was laid out of a header, but for damage to a field.
FromHeader(y, h) ==
  \/ y = StoreHeader(h)
  \/ \E f \in DOMAIN Damage : \E v \in Damage[f] : y = [StoreHeader(h) EXCEPT ![f] = v]

\* Between the two reads of load_from, after one update: what the two reads get is
\* at most that one update behind the file.
OneUpdateAhead ==
  /\ LocatorsLoad(stored)
  /\ stored[1].sequence_number = origin.sequence_number + 1
  /\ \/ stored[0] = origin
     \/ /\ stored[0].sequence_number = origin.sequence_number + 2
        /\ stored[0].sequence_number < U32

\* Updates only add to the numbers.  As long as that of the second header is within
\* reach of origin's, origin and the second header were there together.
HeldTogether ==
  /\ stored[0] = origin \/ stored[0].sequence_number > origin.sequence_number
  /\ stored[1].sequence_number <= origin.sequence_number + 1 =>
       [stored EXCEPT ![0] = origin] \in meanwhile

\* The header block that load_from holds between its reads, and what may have
\* happened to the file since.
LoadingInv ==
  /\ outcome # "loading" => meanwhile = {}
  /\ outcome = "loading" =>
       /\ m_headers = <<>>
       /\ origin \in HeadersInPlay /\ FromHeader(header0, origin)
       /\ updates = 0 => stored[0] = origin
       /\ updates = 1 => OneUpdateAhead
       /\ meanwhile # {} => HeldTogether

IInv == TypeOK /\ HeadsInv /\ InPlay(stored) /\ MemoryInv /\ StaleInv /\ LoadingInv

---------------------------------------------------------------------------
(* Headers in play.                                                        *)

\* They are headers.
LEMMA InPlayTyped ==
  /\ LocatorsInPlay \subseteq Locator
  /\ NumbersInPlay \subseteq Nat
  /\ HeadersInPlay \subseteq Header
<1>1. WrittenHeaders \subseteq Header
  BY WrittenAssumption DEF WrittenHeaders, Headers
<1>2. WrittenLocators \subseteq Locator
  BY <1>1 DEF WrittenLocators, Header
<1>3. LocatorsInPlay \subseteq Locator
  BY <1>2, SizesAssumption DEF LocatorsInPlay, Locator
<1>4. NumbersInPlay \subseteq Nat
  BY WidthAssumption DEF NumbersInPlay
<1> QED
  BY <1>3, <1>4 DEF HeadersInPlay, Header

\* A header is in play when its number and locators are.
LEMMA HeaderInPlay ==
  ASSUME NEW h \in Header, h.sequence_number \in NumbersInPlay,
         \A j \in {0, 1} : h.locators[j] \in LocatorsInPlay
  PROVE  h \in HeadersInPlay
<1>1. h.locators \in [{0, 1} -> LocatorsInPlay]
  BY DEF Header
<1> QED
  BY <1>1 DEF Header, HeadersInPlay

\* Every header that another tool writes is in play.
LEMMA WrittenInPlay ==
  ASSUME NEW hs \in Written
  PROVE  InPlay(hs) /\ hs \in Headers
<1>1. hs \in Headers /\ \A i \in {0, 1} : hs[i].sequence_number < U32
  BY WrittenAssumption
<1>2. ASSUME NEW i \in {0, 1}
      PROVE  hs[i] \in HeadersInPlay
  <2>1. hs[i] \in WrittenHeaders /\ hs[i] \in Header
    BY <1>1 DEF WrittenHeaders, Headers
  <2>2. hs[i].sequence_number \in NumbersInPlay
    BY <1>1, <2>1, WidthAssumption DEF NumbersInPlay, Header
  <2>3. ASSUME NEW j \in {0, 1}
        PROVE  hs[i].locators[j] \in LocatorsInPlay
    <3> DEFINE l == hs[i].locators[j]
    <3>1. l \in WrittenLocators /\ l \in Locator
      BY <2>1 DEF WrittenLocators, Header
    <3> HIDE DEF l
    <3>2. l = [allocation_lba |-> l.allocation_lba,
               allocation_num |-> l.allocation_num, data_size |-> l.data_size]
      BY <3>1 DEF Locator
    <3> QED
      BY <3>1, <3>2 DEF LocatorsInPlay, l
  <2> QED
    BY <2>1, <2>2, <2>3, HeaderInPlay
<1> QED
  BY <1>1, <1>2 DEF InPlay, Headers

\* A locator with another size of Sizes is in play.
LEMMA SizedInPlay ==
  ASSUME NEW l \in LocatorsInPlay, NEW size \in Sizes
  PROVE  [l EXCEPT !.data_size = size] \in LocatorsInPlay
<1>1. PICK w \in WrittenLocators, old \in Sizes \cup {k.data_size : k \in WrittenLocators} :
        l = [allocation_lba |-> w.allocation_lba,
             allocation_num |-> w.allocation_num, data_size |-> old]
  BY DEF LocatorsInPlay
<1>2. [l EXCEPT !.data_size = size]
        = [allocation_lba |-> w.allocation_lba,
           allocation_num |-> w.allocation_num, data_size |-> size]
  BY <1>1
<1> QED
  BY <1>2 DEF LocatorsInPlay

---------------------------------------------------------------------------
(* What damage and loads do.                                               *)

\* A damaged header that VmgsDataHeaderLayout::load accepts is not damaged.
LEMMA DamageShows ==
  ASSUME DetectsDamage, NEW h \in HeadersInPlay,
         NEW f \in DOMAIN Damage, NEW v \in Damage[f],
         HeaderLoads([StoreHeader(h) EXCEPT ![f] = v], PartBlocks)
  PROVE  [StoreHeader(h) EXCEPT ![f] = v] = StoreHeader(h)
<1> DEFINE y == StoreHeader(h)
           z == [y EXCEPT ![f] = v]
<1>1. h \in Header
  BY InPlayTyped
<1>2. /\ DOMAIN y = {"signature", "version", "checksum", "sequence_number",
                     "header_size", "locator_size", "active_index", "locators"}
      /\ y.checksum = Crc32(Covered(y))
  BY <1>1 DEF StoreHeader, Layout, Covered, Whole
<1>3. y = [x \in DOMAIN y |-> y[x]]
  BY DEF StoreHeader, Layout
<1> HIDE DEF y
<1>4. DOMAIN z = DOMAIN y /\ \A x \in DOMAIN y \ {f} : z[x] = y[x]
  BY <1>2, <1>3
<1>5. z.checksum = Crc32(Covered(z)) /\ FieldsLoad(z, PartBlocks)
  BY DEF HeaderLoads, y
<1>6. CASE Covered(z) = Covered(y)
  <2>1. \A x \in DOMAIN y \ {"checksum"} : z[x] = y[x]
    BY <1>2, <1>6 DEF Covered
  <2>2. z.checksum = y.checksum
    BY <1>2, <1>5, <1>6
  <2>3. \A x \in DOMAIN y : z[x] = y[x]
    BY <2>1, <2>2
  <2>4. z = [x \in DOMAIN y |-> z[x]]
    BY <1>2, <1>3
  <2> QED
    BY <1>3, <2>3, <2>4 DEF y
<1>7. CASE Covered(z) # Covered(y)
  <2>1. Crc32(Covered(z)) # Crc32(Covered(y))
    BY <1>5, <1>7 DEF DetectsDamage, y
  <2>2. f # "checksum"
    BY <1>2, <1>4, <1>7 DEF Covered
  <2>3. z.checksum = y.checksum
    BY <1>2, <1>4, <2>2
  <2> QED
    BY <1>2, <1>5, <2>1, <2>3
<1> QED
  BY <1>6, <1>7

\* A header block that load accepts is the one that was stored, and its fields are
\* in range.
LEMMA LoadedHeader ==
  ASSUME DetectsDamage, NEW h \in HeadersInPlay, NEW y, FromHeader(y, h),
         HeaderLoads(y, PartBlocks)
  PROVE  /\ y = StoreHeader(h) /\ LoadHeader(y) = h
         /\ y.sequence_number = h.sequence_number
         /\ \A j \in {0, 1} : LocatorLoads(h.locators[j], PartBlocks)
<1>1. h \in Header
  BY InPlayTyped
<1>2. y = StoreHeader(h)
  <2>1. ASSUME NEW f \in DOMAIN Damage, NEW v \in Damage[f],
               y = [StoreHeader(h) EXCEPT ![f] = v]
        PROVE  y = StoreHeader(h)
    <3>1. HeaderLoads([StoreHeader(h) EXCEPT ![f] = v], PartBlocks)
      BY <2>1
    <3>2. [StoreHeader(h) EXCEPT ![f] = v] = StoreHeader(h)
      BY <3>1, DamageShows
    <3> QED
      BY <2>1, <3>2
  <2> QED
    BY <2>1 DEF FromHeader
<1>3. LoadHeader(y) = h
  BY <1>1, <1>2, LoadGivesBack
<1>4. \A j \in {0, 1} : LocatorLoads(h.locators[j], PartBlocks)
  BY <1>1, <1>2, StoredHeaderLoads
<1>5. y.sequence_number = h.sequence_number
  BY <1>1, <1>2 DEF StoreHeader, Layout, Header
<1> QED
  BY <1>2, <1>3, <1>4, <1>5

\* What the device holds is what was stored, but for damage.
LEMMA HeadsFrom ==
  ASSUME HeadsInv, NEW i \in {0, 1}
  PROVE  FromHeader(heads[i], stored[i])
  BY DEF HeadsInv, FromHeader

\* A pair of header blocks that load_from accepts, read at one time or not.
LEMMA LoadedFacts ==
  ASSUME DetectsDamage, NEW h0 \in HeadersInPlay, NEW h1 \in HeadersInPlay,
         NEW y0, NEW y1, FromHeader(y0, h0), FromHeader(y1, h1),
         PairLoads(y0, y1, PartBlocks)
  PROVE  /\ LoadPair(y0, y1) = [i \in {0, 1} |-> IF i = 0 THEN h0 ELSE h1]
         /\ \A j \in {0, 1} : /\ LocatorLoads(h0.locators[j], PartBlocks)
                              /\ LocatorLoads(h1.locators[j], PartBlocks)
         /\ Consecutive(h0.sequence_number, h1.sequence_number)
<1>1. HeaderLoads(y0, PartBlocks) /\ HeaderLoads(y1, PartBlocks)
      /\ Consecutive(y0.sequence_number, y1.sequence_number)
  BY DEF PairLoads
<1>2. /\ LoadHeader(y0) = h0 /\ y0.sequence_number = h0.sequence_number
      /\ \A j \in {0, 1} : LocatorLoads(h0.locators[j], PartBlocks)
  BY <1>1, LoadedHeader
<1>3. /\ LoadHeader(y1) = h1 /\ y1.sequence_number = h1.sequence_number
      /\ \A j \in {0, 1} : LocatorLoads(h1.locators[j], PartBlocks)
  BY <1>1, LoadedHeader
<1>4. LoadPair(y0, y1) = [i \in {0, 1} |-> IF i = 0 THEN h0 ELSE h1]
  BY <1>2, <1>3 DEF LoadPair
<1> QED
  BY <1>1, <1>2, <1>3, <1>4

\* Stored headers load when their fields are in range and their numbers are
\* consecutive.
LEMMA StoredPairLoads ==
  ASSUME NEW hs, LocatorsLoad(hs),
         Consecutive(hs[0].sequence_number, hs[1].sequence_number),
         NEW ys, \A i \in {0, 1} : ys[i] = StoreHeader(hs[i]) /\ hs[i] \in Header
  PROVE  PairLoads(ys[0], ys[1], PartBlocks)
<1>1. \A i \in {0, 1} : HeaderLoads(ys[i], PartBlocks)
  BY StoredHeaderLoads DEF LocatorsLoad
<1>2. \A i \in {0, 1} : ys[i].sequence_number = hs[i].sequence_number
  BY DEF StoreHeader, Layout, Header
<1> QED
  BY <1>1, <1>2 DEF PairLoads

---------------------------------------------------------------------------
(* What changes of the headers do.                                         *)

\* A resize that update_data_size accepts keeps the headers in play and in range.
LEMMA ResizeInPlay ==
  ASSUME NEW hs \in Headers, InPlay(hs), NEW size \in Sizes, Fits(hs, size)
  PROVE  /\ Resize(hs, size) \in Headers /\ InPlay(Resize(hs, size))
         /\ LocatorsLoad(hs) => LocatorsLoad(Resize(hs, size))
         /\ \A i \in {0, 1} :
              Resize(hs, size)[i].sequence_number = hs[i].sequence_number
<1> DEFINE r == Resize(hs, size)
           a == ActiveIndex(hs)
           x == ActiveHeader(hs).active_index
<1>0. size \in Nat
  BY SizesAssumption
<1>1. /\ r \in Headers /\ a \in {0, 1} /\ x \in {0, 1}
      /\ \A i \in {0, 1} \ {a} : r[i] = hs[i]
      /\ \A i \in {0, 1} : r[i].sequence_number = hs[i].sequence_number
      /\ \A j \in {0, 1} \ {x} : r[a].locators[j] = hs[a].locators[j]
      /\ r[a].locators[x] = [hs[a].locators[x] EXCEPT !.data_size = size]
      /\ size <= Capacity(hs[a].locators[x])
  <2>1. ActiveHeader(r) = r[a] /\ ActiveHeader(hs) = hs[a]
    BY <1>0, ResizeKeeps DEF ActiveHeader
  <2>2. a \in {0, 1} /\ x \in {0, 1} /\ r[a].active_index = x
    BY <1>0, <2>1, ResizeKeeps DEF ActiveIndex, Headers, Header
  <2> QED
    BY <1>0, <2>1, <2>2, ResizeKeeps DEF ActiveLocator, Fits
<1> HIDE DEF r, a, x
<1>2. \A i, j \in {0, 1} : hs[i].locators[j] \in LocatorsInPlay
                           /\ hs[i].sequence_number \in NumbersInPlay
  BY DEF InPlay, HeadersInPlay
<1>3. r[a].locators[x] \in LocatorsInPlay /\ hs[a].locators[x] \in Locator
  BY <1>1, <1>2, SizedInPlay, InPlayTyped
<1>4. \A i, j \in {0, 1} : r[i].locators[j] \in LocatorsInPlay
  BY <1>1, <1>2, <1>3
<1>5. \A i \in {0, 1} : r[i] \in HeadersInPlay
  BY <1>1, <1>2, <1>4, HeaderInPlay DEF Headers
<1>6. ASSUME LocatorsLoad(hs)
      PROVE  LocatorsLoad(r)
  <2>1. LocatorLoads(r[a].locators[x], PartBlocks)
    BY <1>1, <1>3, <1>6 DEF LocatorsLoad, LocatorLoads, Capacity, Locator
  <2> QED
    BY <1>1, <1>6, <2>1 DEF LocatorsLoad
<1> QED
  BY <1>1, <1>5, <1>6 DEF r, InPlay, Headers

\* An update by another tool replaces the header that is not the active one by a
\* successor of the active one.
LEMMA UpdateInPlay ==
  ASSUME NEW hs \in Headers, InPlay(hs), LocatorsLoad(hs), NEW size \in Sizes,
         Fits(hs, size), ActiveHeader(hs).sequence_number + 1 < U32
  PROVE  LET a == ActiveIndex(hs)
             u == Updated(hs, 1 - a, size) IN
         /\ u \in Headers /\ InPlay(u) /\ LocatorsLoad(u)
         /\ u[a] = hs[a]
         /\ u[1 - a].sequence_number = hs[a].sequence_number + 1
<1> DEFINE a == ActiveIndex(hs)
           o == 1 - a
           x == hs[a].active_index
           l == hs[a].locators[x]
           next == [hs[a] EXCEPT !.sequence_number = @ + 1]
           slots == [hs[a].locators EXCEPT ![x] = [@ EXCEPT !.data_size = size]]
           new == [next EXCEPT !.locators = slots]
           u == Updated(hs, o, size)
<1>1. /\ a \in {0, 1} /\ o \in {0, 1} /\ o # a /\ 1 - o = a
      /\ \A i \in {0, 1} : i = a \/ i = o
  BY DEF ActiveIndex
<1>2. hs[a] \in Header /\ hs[a] \in HeadersInPlay /\ x \in {0, 1}
  BY <1>1 DEF Headers, Header, InPlay
<1>3. hs[a].sequence_number + 1 < U32 /\ size <= Capacity(l) /\ size \in Nat
  BY SizesAssumption DEF ActiveHeader, ActiveLocator, Fits
<1> HIDE DEF a, o
<1>4. next \in Header /\ next.active_index = x /\ next.locators = hs[a].locators
      /\ next.sequence_number = hs[a].sequence_number + 1
  BY <1>2 DEF Header
<1>5. u = [hs EXCEPT ![o] = new]
  <2> HIDE DEF next
  <2>1. u = [hs EXCEPT ![o] = [next EXCEPT !.locators[next.active_index].data_size = size]]
    BY <1>1 DEF Updated, next
  <2> QED
    BY <1>4, <2>1
<1>6. l \in LocatorsInPlay /\ l \in Locator
  BY <1>2, InPlayTyped DEF HeadersInPlay
<1>7. /\ slots \in [{0, 1} -> Locator]
      /\ \A j \in {0, 1} : slots[j] \in LocatorsInPlay
      /\ \A j \in {0, 1} : LocatorLoads(slots[j], PartBlocks)
  <2>1. [l EXCEPT !.data_size = size] \in LocatorsInPlay
    BY <1>6, SizedInPlay
  <2>2. LocatorLoads([l EXCEPT !.data_size = size], PartBlocks)
    BY <1>1, <1>2, <1>3, <1>6 DEF LocatorsLoad, LocatorLoads, Capacity, Locator
  <2>3. hs[a].locators \in [{0, 1} -> Locator]
        /\ \A j \in {0, 1} : hs[a].locators[j] \in LocatorsInPlay
                             /\ LocatorLoads(hs[a].locators[j], PartBlocks)
    BY <1>1, <1>2 DEF Header, HeadersInPlay, LocatorsLoad
  <2>4. [l EXCEPT !.data_size = size] \in Locator
    BY <2>1, InPlayTyped
  <2> QED
    BY <1>2, <2>1, <2>2, <2>3, <2>4
<1>8. /\ new \in Header /\ new.locators = slots
      /\ new.sequence_number = hs[a].sequence_number + 1
  <2> HIDE DEF slots, next
  <2> QED
    BY <1>4, <1>7 DEF Header
<1>9. new \in HeadersInPlay
  <2>1. hs[a].sequence_number + 1 \in NumbersInPlay
    <3>1. hs[a].sequence_number \in NumbersInPlay
      BY <1>2 DEF HeadersInPlay
    <3>2. PICK h \in WrittenHeaders : h.sequence_number <= hs[a].sequence_number
      BY <3>1 DEF NumbersInPlay
    <3>3. h.sequence_number \in Nat /\ hs[a].sequence_number \in Nat
      BY <1>2, WrittenAssumption DEF WrittenHeaders, Headers, Header
    <3> QED
      BY <1>3, <3>2, <3>3, WidthAssumption DEF NumbersInPlay
  <2> HIDE DEF new, slots
  <2> QED
    BY <1>7, <1>8, <2>1, HeaderInPlay
<1> HIDE DEF new, slots, next, u
<1>10. u \in Headers /\ u[a] = hs[a] /\ u[o] = new
  BY <1>1, <1>5, <1>8 DEF Headers
<1>11. InPlay(u)
  BY <1>1, <1>2, <1>9, <1>10 DEF InPlay, Headers
<1>12. LocatorsLoad(u)
  BY <1>1, <1>7, <1>8, <1>10 DEF LocatorsLoad
<1> QED
  BY <1>8, <1>10, <1>11, <1>12 DEF u, o, a

---------------------------------------------------------------------------
(* One lemma for each kind of step.                                        *)

\* What the proofs use of a pair of headers in play.
LEMMA PlayFacts ==
  ASSUME NEW hs, InPlay(hs)
  PROVE  /\ ActiveIndex(hs) \in {0, 1} /\ 1 - ActiveIndex(hs) \in {0, 1}
         /\ 1 - ActiveIndex(hs) # ActiveIndex(hs)
         /\ \A i \in {0, 1} : hs[i] \in Header /\ hs[i].sequence_number \in 0 .. U32 - 1
         /\ \A i \in {0, 1} : hs[i].sequence_number \in Nat
<1>1. \A i \in {0, 1} : hs[i] \in HeadersInPlay
  BY DEF InPlay
<1> QED
  BY <1>1, InPlayTyped DEF ActiveIndex, HeadersInPlay, NumbersInPlay

\* Sets of damaged headers are finite.
LEMMA DamagedFacts ==
  ASSUME NEW S \in SUBSET {0, 1}
  PROVE  /\ IsFiniteSet(S) /\ Cardinality(S) \in Nat
         /\ \A i \in {0, 1} : Cardinality(S \ {i}) <= Cardinality(S)
         /\ \A i \in {0, 1} : Cardinality(S \cup {i}) <= Cardinality(S) + 1
<1>1. IsFiniteSet({0, 1})
  <2>1. IsFiniteSet({} \cup {0})
    BY FS_EmptySet, FS_AddElement
  <2>2. IsFiniteSet(({} \cup {0}) \cup {1})
    BY <2>1, FS_AddElement
  <2>3. ({} \cup {0}) \cup {1} = {0, 1}
    OBVIOUS
  <2> QED
    BY <2>2, <2>3
<1>2. IsFiniteSet(S) /\ Cardinality(S) \in Nat
  BY <1>1, FS_Subset, FS_CardinalityType
<1>3. ASSUME NEW i \in {0, 1}
      PROVE  Cardinality(S \ {i}) <= Cardinality(S)
  BY <1>2, FS_Subset
<1>4. ASSUME NEW i \in {0, 1}
      PROVE  Cardinality(S \cup {i}) <= Cardinality(S) + 1
  BY <1>2, FS_AddElement
<1> QED
  BY <1>2, <1>3, <1>4

\* A step that touches neither the device nor its history leaves the headers as
\* they were stored or damaged.
LEMMA HeadsStay ==
  ASSUME HeadsInv, UNCHANGED <<heads, stored, damaged>>
  PROVE  HeadsInv'
<1>1. ASSUME NEW i \in {0, 1}
      PROVE  \/ i \notin damaged' /\ heads'[i] = StoreHeader(stored'[i])
             \/ /\ i \in damaged'
                /\ \E f \in DOMAIN Damage : \E v \in Damage[f] :
                     heads'[i] = [StoreHeader(stored'[i]) EXCEPT ![f] = v]
  <2>1. \/ i \notin damaged /\ heads[i] = StoreHeader(stored[i])
        \/ /\ i \in damaged
           /\ \E f \in DOMAIN Damage : \E v \in Damage[f] :
                heads[i] = [StoreHeader(stored[i]) EXCEPT ![f] = v]
    BY DEF HeadsInv
  <2>2. heads'[i] = heads[i] /\ stored'[i] = stored[i] /\ damaged' = damaged
    OBVIOUS
  <2> QED
    BY <2>1, <2>2
<1> QED
  BY <1>1 DEF HeadsInv

\* A step that is no part of load_from, of a process that is not in one.
LEMMA NotLoading ==
  ASSUME LoadingInv, outcome # "loading", outcome' # "loading", meanwhile' = meanwhile
  PROVE  LoadingInv'
BY DEF LoadingInv

\* A step that load_from does not see.
LEMMA LoadingStays ==
  ASSUME LoadingInv, UNCHANGED <<stored, updates, reading, m_headers, outcome>>
  PROVE  LoadingInv'
<1>1. /\ stored' = stored /\ updates' = updates /\ m_headers' = m_headers
      /\ outcome' = outcome /\ header0' = header0 /\ origin' = origin
      /\ meanwhile' = meanwhile
  BY DEF reading
<1>2. (outcome # "loading" => meanwhile = {})'
  BY <1>1 DEF LoadingInv
<1>3. ASSUME outcome' = "loading"
      PROVE  /\ m_headers' = <<>>
             /\ origin' \in HeadersInPlay /\ FromHeader(header0', origin')
             /\ updates' = 0 => stored'[0] = origin'
             /\ updates' = 1 => OneUpdateAhead'
             /\ meanwhile' # {} => HeldTogether'
  <2>1. /\ m_headers = <<>>
        /\ origin \in HeadersInPlay /\ FromHeader(header0, origin)
        /\ updates = 0 => stored[0] = origin
        /\ updates = 1 => OneUpdateAhead
        /\ meanwhile # {} => HeldTogether
    BY <1>1, <1>3 DEF LoadingInv
  <2>2. updates' = 1 => OneUpdateAhead'
    BY <1>1, <2>1 DEF OneUpdateAhead, LocatorsLoad
  <2>3. meanwhile' # {} => HeldTogether'
    BY <1>1, <2>1 DEF HeldTogether
  <2> QED
    BY <1>1, <2>1, <2>2, <2>3
<1> QED
  BY <1>2, <1>3 DEF LoadingInv, FromHeader

\* load_from reads the first header block (Vmgs.cpp:193).
LEMMA LoadFirstKeeps ==
  ASSUME IInv, LoadFirst
  PROVE  IInv'
<1>1. /\ updates' = 0 /\ UNCHANGED <<heads, stored, damaged>>
      /\ header0' = heads[0] /\ origin' = stored[0] /\ meanwhile' = {stored}
      /\ m_headers' = <<>> /\ outcome' = "loading"
  BY DEF LoadFirst
<1>2. stored \in Headers /\ stored[0] \in Header /\ stored[0] \in HeadersInPlay
  BY DEF IInv, TypeOK, InPlay, Headers
<1>3. TypeOK'
  BY <1>1, <1>2, BoundsAssumption DEF IInv, TypeOK
<1>4. HeadsInv'
  BY <1>1, HeadsStay DEF IInv
<1>5. InPlay(stored)'
  BY <1>1 DEF IInv, InPlay
<1>6. MemoryInv' /\ StaleInv'
  BY <1>1 DEF MemoryInv, StaleInv
<1>7. LoadingInv'
  <2>1. FromHeader(header0', origin')
    BY <1>1, HeadsFrom DEF IInv
  <2>2. HeldTogether'
    <3>1. stored' = stored /\ stored'[0] = origin' /\ stored \in meanwhile'
      BY <1>1
    <3>2. [stored' EXCEPT ![0] = origin'] = stored
      BY <1>1, <1>2 DEF Headers
    <3> QED
      BY <3>1, <3>2 DEF HeldTogether
  <2>3. stored'[0] = origin' /\ origin' \in HeadersInPlay
    BY <1>1, <1>2
  <2> QED
    BY <1>1, <2>1, <2>2, <2>3 DEF LoadingInv, FromHeader
<1> QED
  BY <1>3, <1>4, <1>5, <1>6, <1>7 DEF IInv

\* What the two reads get when load_from accepts it.
LEMMA LoadedPair ==
  ASSUME DetectsDamage, IInv, outcome = "loading",
         PairLoads(header0, heads[1], PartBlocks)
  PROVE  /\ LoadPair(header0, heads[1]) = [stored EXCEPT ![0] = origin]
         /\ LocatorsLoad([stored EXCEPT ![0] = origin])
         /\ Consecutive(origin.sequence_number, stored[1].sequence_number)
<1>1. /\ origin \in HeadersInPlay /\ stored[1] \in HeadersInPlay
      /\ FromHeader(header0, origin) /\ FromHeader(heads[1], stored[1])
  BY HeadsFrom DEF IInv, LoadingInv, InPlay
<1>2. stored \in Headers
  BY DEF IInv, TypeOK
<1>3. /\ LoadPair(header0, heads[1])
           = [i \in {0, 1} |-> IF i = 0 THEN origin ELSE stored[1]]
      /\ \A j \in {0, 1} : /\ LocatorLoads(origin.locators[j], PartBlocks)
                           /\ LocatorLoads(stored[1].locators[j], PartBlocks)
      /\ Consecutive(origin.sequence_number, stored[1].sequence_number)
  BY <1>1, LoadedFacts
<1> DEFINE p == [stored EXCEPT ![0] = origin]
<1>4. /\ p = [i \in {0, 1} |-> IF i = 0 THEN origin ELSE stored[1]]
      /\ p[0] = origin /\ p[1] = stored[1]
  <2>1. /\ DOMAIN stored = {0, 1}
        /\ p = [i \in {0, 1} |-> IF i = 0 THEN origin ELSE stored[i]]
    BY <1>2 DEF Headers
  <2>2. \A i \in {0, 1} : (IF i = 0 THEN origin ELSE stored[i])
                             = (IF i = 0 THEN origin ELSE stored[1])
    OBVIOUS
  <2> QED
    BY <2>1, <2>2
<1> HIDE DEF p
<1>5. LocatorsLoad(p)
  BY <1>3, <1>4 DEF LocatorsLoad
<1> QED
  BY <1>3, <1>4, <1>5 DEF p

\* It reads the second one and checks both (Vmgs.cpp:194-211).
LEMMA LoadSecondKeeps ==
  ASSUME DetectsDamage, IInv, LoadSecond
  PROVE  IInv'
<1>1. /\ outcome = "loading" /\ UNCHANGED <<heads, stored, damaged, updates>>
      /\ origin' = <<>> /\ meanwhile' = {} /\ outcome' \in {"loaded", "refused"}
  BY DEF LoadSecond, EndLoad
<1>2. HeadsInv'
  BY <1>1, HeadsStay DEF IInv
<1>3. InPlay(stored)'
  BY <1>1 DEF IInv, InPlay
<1>4. LoadingInv'
  BY <1>1 DEF LoadingInv
<1>5. CASE PairLoads(header0, heads[1], PartBlocks)
  <2> DEFINE p == [stored EXCEPT ![0] = origin]
  <2>1. /\ m_headers' = p /\ LocatorsLoad(p)
        /\ Consecutive(origin.sequence_number, stored[1].sequence_number)
    BY <1>1, <1>5, LoadedPair DEF LoadSecond
  <2>2. stored \in Headers /\ origin \in HeadersInPlay /\ InPlay(stored)
        /\ updates \in 0 .. MaxUpdates
    BY <1>1 DEF IInv, TypeOK, LoadingInv
  <2>3. p \in Headers /\ p[0] = origin /\ p[1] = stored[1]
    BY <2>2, InPlayTyped DEF Headers
  <2> HIDE DEF p
  <2>4. InPlay(p)
    BY <2>2, <2>3 DEF InPlay, Headers
  <2>5. TypeOK'
    BY <1>1, <2>1, <2>3 DEF IInv, TypeOK
  <2>6. MemoryInv'
    BY <1>1, <2>1, <2>3, <2>4 DEF MemoryInv, InPlay, LocatorsLoad
  <2>7. StaleInv'
    <3>1. CASE updates = 0
      <4>1. stored[0] = origin
        BY <1>1, <3>1 DEF IInv, LoadingInv
      <4>2. p = stored
        BY <2>2, <2>3, <4>1 DEF Headers
      <4> QED
        BY <1>1, <2>1, <4>2 DEF StaleInv, LocatorsLoad, ActiveIndex
    <3>2. CASE updates = 1
      <4>1. /\ LocatorsLoad(stored)
            /\ stored[1].sequence_number = origin.sequence_number + 1
            /\ \/ stored[0] = origin
               \/ /\ stored[0].sequence_number = origin.sequence_number + 2
                  /\ stored[0].sequence_number < U32
        BY <1>1, <3>2 DEF IInv, LoadingInv, OneUpdateAhead
      <4>2. origin.sequence_number \in Nat
        BY <2>2, InPlayTyped DEF Header
      <4>3. ActiveIndex(p) = 1
        BY <2>3, <4>1, <4>2 DEF ActiveIndex
      <4>4. \/ stored[0].sequence_number = origin.sequence_number
            \/ /\ stored[1].sequence_number + 1 < U32
               /\ stored[0].sequence_number = stored[1].sequence_number + 1
        BY <4>1, <4>2
      <4> QED
        BY <1>1, <2>1, <2>3, <3>2, <4>1, <4>3, <4>4 DEF StaleInv, LocatorsLoad
    <3>3. CASE ~ (updates <= 1)
      BY <1>1, <3>3 DEF StaleInv
    <3> QED
      BY <2>2, <3>1, <3>2, <3>3, BoundsAssumption
  <2> QED
    BY <1>2, <1>3, <1>4, <2>5, <2>6, <2>7 DEF IInv
<1>6. CASE ~ PairLoads(header0, heads[1], PartBlocks)
  <2>1. m_headers' = <<>> /\ outcome' = "refused"
    BY <1>6 DEF LoadSecond, IInv, LoadingInv
  <2>2. TypeOK'
    BY <1>1, <2>1 DEF IInv, TypeOK
  <2>3. MemoryInv' /\ StaleInv'
    BY <2>1 DEF MemoryInv, StaleInv
  <2> QED
    BY <1>2, <1>3, <1>4, <2>2, <2>3 DEF IInv
<1> QED
  BY <1>5, <1>6

\* A read that throws leaves no object.
LEMMA LoadFailsKeeps ==
  ASSUME IInv, LoadFails
  PROVE  IInv'
<1>1. /\ outcome' = "io_error" /\ origin' = <<>> /\ meanwhile' = {}
      /\ UNCHANGED <<heads, stored, damaged, updates, m_headers>>
      /\ m_headers = <<>>
  BY DEF LoadFails, EndLoad, IInv, LoadingInv
<1>2. TypeOK'
  BY <1>1 DEF IInv, TypeOK
<1>3. HeadsInv'
  BY <1>1, HeadsStay DEF IInv
<1>4. InPlay(stored)'
  BY <1>1 DEF IInv, InPlay
<1>5. MemoryInv' /\ StaleInv' /\ LoadingInv'
  BY <1>1 DEF MemoryInv, StaleInv, LoadingInv
<1> QED
  BY <1>2, <1>3, <1>4, <1>5 DEF IInv

\* update_data_size (Vmgs.cpp:156-162) changes the object only.
LEMMA ResizeStepKeeps ==
  ASSUME IInv, NEW size \in Sizes, update_data_size(size)
  PROVE  IInv'
<1>1. /\ m_headers # <<>> /\ UNCHANGED <<heads, stored, damaged, updates>>
      /\ outcome' \in {"resized", "size_error"}
      /\ origin' = origin /\ meanwhile' = meanwhile
  BY DEF update_data_size, reading
<1>2. m_headers \in Headers /\ InPlay(m_headers) /\ LocatorsLoad(m_headers)
      /\ Consecutive(m_headers[0].sequence_number, m_headers[1].sequence_number)
  BY <1>1 DEF IInv, TypeOK, MemoryInv
<1>3. /\ m_headers' \in Headers /\ InPlay(m_headers') /\ LocatorsLoad(m_headers')
      /\ \A i \in {0, 1} : m_headers'[i].sequence_number = m_headers[i].sequence_number
  <2>1. CASE Fits(m_headers, size)
    <3>1. m_headers' = Resize(m_headers, size)
      BY <2>1 DEF update_data_size
    <3> QED
      BY <1>2, <2>1, <3>1, ResizeInPlay
  <2>2. CASE ~ Fits(m_headers, size)
    BY <1>2, <2>2 DEF update_data_size
  <2> QED
    BY <2>1, <2>2
<1>4. TypeOK'
  BY <1>1, <1>3 DEF IInv, TypeOK
<1>5. HeadsInv' /\ InPlay(stored)'
  <2>1. HeadsInv'
    BY <1>1, HeadsStay DEF IInv
  <2>2. InPlay(stored)'
    BY <1>1 DEF IInv, InPlay
  <2> QED
    BY <2>1, <2>2
<1>6. MemoryInv'
  BY <1>1, <1>2, <1>3 DEF MemoryInv, InPlay, LocatorsLoad
<1>7. StaleInv'
  <2>1. ActiveIndex(m_headers') = ActiveIndex(m_headers)
    BY <1>3 DEF ActiveIndex
  <2>2. ActiveIndex(m_headers) \in {0, 1} /\ 1 - ActiveIndex(m_headers) \in {0, 1}
    BY <1>2, PlayFacts
  <2>3. StaleInv
    BY DEF IInv
  <2> QED
    BY <1>1, <1>3, <2>1, <2>2, <2>3 DEF StaleInv, LocatorsLoad
<1>8. LoadingInv'
  <2>1. outcome # "loading" /\ LoadingInv
    BY <1>1 DEF IInv, LoadingInv
  <2> QED
    BY <1>1, <2>1, NotLoading
<1> QED
  BY <1>4, <1>5, <1>6, <1>7, <1>8 DEF IInv

\* store_to puts one header out (Vmgs.cpp:171-181).
LEMMA PutKeeps ==
  ASSUME IInv, m_headers # <<>>, NEW i \in {0, 1}, PutHeader(i),
         updates' = updates \/ (updates' = 0 /\ stored' = m_headers),
         outcome' \in {"storing", "stored"}
  PROVE  IInv'
<1>1. /\ heads' = [heads EXCEPT ![i] = StoreHeader(m_headers[i])]
      /\ stored' = [stored EXCEPT ![i] = m_headers[i]]
      /\ damaged' = damaged \ {i} /\ m_headers' = m_headers
      /\ origin' = origin /\ meanwhile' = meanwhile
  BY DEF PutHeader, reading
<1>2. /\ m_headers \in Headers /\ InPlay(m_headers) /\ LocatorsLoad(m_headers)
      /\ Consecutive(m_headers[0].sequence_number, m_headers[1].sequence_number)
  BY DEF IInv, TypeOK, MemoryInv
<1>3. /\ stored \in Headers /\ DOMAIN heads = {0, 1} /\ damaged \in SUBSET {0, 1}
      /\ InPlay(stored) /\ Cardinality(damaged) <= MaxDamage
      /\ updates \in 0 .. MaxUpdates
      /\ origin \in Header \cup {<<>>} /\ meanwhile \subseteq Headers
  BY DEF IInv, TypeOK
<1>4. /\ stored' \in Headers /\ stored'[i] = m_headers[i]
      /\ \A k \in {0, 1} \ {i} : stored'[k] = stored[k]
  BY <1>1, <1>2, <1>3 DEF Headers
<1>5. TypeOK'
  <2>1. Cardinality(damaged') <= MaxDamage /\ damaged' \subseteq {0, 1}
    <3>1. /\ Cardinality(damaged) \in Nat /\ Cardinality(damaged \ {i}) \in Nat
          /\ Cardinality(damaged \ {i}) <= Cardinality(damaged)
      BY <1>3, DamagedFacts
    <3>2. Cardinality(damaged \ {i}) <= MaxDamage
      BY <1>3, <3>1, BoundsAssumption
    <3> QED
      BY <1>1, <1>3, <3>2
  <2>2. DOMAIN heads' = {0, 1}
    BY <1>1, <1>3
  <2>3. updates' \in 0 .. MaxUpdates
    BY <1>3, BoundsAssumption
  <2> QED
    BY <1>1, <1>2, <1>3, <1>4, <2>1, <2>2, <2>3 DEF TypeOK
<1>6. HeadsInv'
  <2>1. ASSUME NEW k \in {0, 1}
        PROVE  \/ k \notin damaged' /\ heads'[k] = StoreHeader(stored'[k])
               \/ /\ k \in damaged'
                  /\ \E f \in DOMAIN Damage : \E v \in Damage[f] :
                       heads'[k] = [StoreHeader(stored'[k]) EXCEPT ![f] = v]
    <3>1. CASE k = i
      BY <1>1, <1>3, <1>4, <3>1
    <3>2. CASE k # i
      <4>1. heads'[k] = heads[k] /\ stored'[k] = stored[k]
            /\ (k \in damaged' <=> k \in damaged)
        BY <1>1, <1>3, <1>4, <3>2
      <4>2. \/ k \notin damaged /\ heads[k] = StoreHeader(stored[k])
            \/ /\ k \in damaged
               /\ \E f \in DOMAIN Damage : \E v \in Damage[f] :
                    heads[k] = [StoreHeader(stored[k]) EXCEPT ![f] = v]
        BY DEF IInv, HeadsInv
      <4> QED
        BY <4>1, <4>2
    <3> QED
      BY <3>1, <3>2
  <2> QED
    BY <2>1 DEF HeadsInv
<1>7. InPlay(stored)'
  BY <1>2, <1>3, <1>4 DEF InPlay, Headers
<1>8. MemoryInv'
  BY <1>1, <1>2 DEF MemoryInv, InPlay, LocatorsLoad
<1>9. StaleInv'
  <2> DEFINE a == ActiveIndex(m_headers)
             o == 1 - a
  <2>1. /\ a \in {0, 1} /\ o \in {0, 1} /\ a # o
        /\ i = a \/ i = o
    BY <1>2, PlayFacts
  <2> HIDE DEF a, o
  <2>2. CASE updates' = 0 /\ stored' = m_headers
    <3>1. /\ LocatorsLoad(stored')
          /\ stored'[a].sequence_number = m_headers[a].sequence_number
          /\ stored'[o].sequence_number = m_headers[o].sequence_number
      BY <1>2, <2>2
    <3> QED
      BY <1>1, <3>1 DEF StaleInv, LocatorsLoad, a, o
  <2>3. ASSUME updates' = updates, updates <= 1
        PROVE  StaleInv'
    <3>1. /\ LocatorsLoad(stored)
          /\ stored[a].sequence_number = m_headers[a].sequence_number
          /\ \/ stored[o].sequence_number = m_headers[o].sequence_number
             \/ /\ updates = 1 /\ m_headers[a].sequence_number + 1 < U32
                /\ stored[o].sequence_number = m_headers[a].sequence_number + 1
      BY <2>3 DEF IInv, StaleInv, a, o
    <3>2. LocatorsLoad(stored')
      BY <1>2, <1>4, <3>1 DEF LocatorsLoad
    <3>3. /\ stored'[a].sequence_number = m_headers[a].sequence_number
          /\ \/ stored'[o].sequence_number = m_headers[o].sequence_number
             \/ /\ updates = 1 /\ m_headers[a].sequence_number + 1 < U32
                /\ stored'[o].sequence_number = m_headers[a].sequence_number + 1
      BY <1>4, <2>1, <3>1
    <3> QED
      BY <1>1, <2>3, <3>1, <3>2, <3>3 DEF StaleInv, LocatorsLoad, a, o
  <2>4. CASE updates' = updates /\ ~ (updates <= 1)
    BY <2>4 DEF StaleInv
  <2> QED
    BY <2>2, <2>3, <2>4
<1>10. LoadingInv'
  <2>1. outcome # "loading" /\ LoadingInv
    BY DEF IInv, LoadingInv
  <2> QED
    BY <1>1, <2>1, NotLoading
<1> QED
  BY <1>5, <1>6, <1>7, <1>8, <1>9, <1>10 DEF IInv

\* Of two consecutive numbers below the wrap the active header's is the larger.
LEMMA ActiveIsNext ==
  ASSUME NEW hs, InPlay(hs),
         Consecutive(hs[0].sequence_number, hs[1].sequence_number),
         hs[ActiveIndex(hs)].sequence_number + 1 < U32
  PROVE  hs[ActiveIndex(hs)].sequence_number
           = hs[1 - ActiveIndex(hs)].sequence_number + 1
<1> DEFINE s0 == hs[0].sequence_number
           s1 == hs[1].sequence_number
<1>1. s0 \in 0 .. U32 - 1 /\ s1 \in 0 .. U32 - 1 /\ U32 \in Nat \ {0}
  BY PlayFacts, WidthAssumption
<1>2. \/ ActiveIndex(hs) = 0 /\ s0 > s1
      \/ ActiveIndex(hs) = 1 /\ ~ (s0 > s1)
  BY DEF ActiveIndex
<1>3. s0 = (s1 + 1) % U32 \/ s1 = (s0 + 1) % U32
  BY DEF Consecutive
<1>4. \A x \in Nat : x < U32 => x % U32 = x
  BY <1>1
<1>5. CASE ActiveIndex(hs) = 0 /\ s0 > s1
  <2>1. s0 + 1 < U32
    BY <1>5
  <2> HIDE DEF s0, s1
  <2>2. (s1 + 1) % U32 = s1 + 1 /\ (s0 + 1) % U32 = s0 + 1
    BY <1>1, <1>4, <1>5, <2>1
  <2>3. s0 = s1 + 1
    BY <1>1, <1>3, <1>5, <2>2
  <2> QED
    BY <1>5, <2>3 DEF s0, s1
<1>6. CASE ActiveIndex(hs) = 1 /\ ~ (s0 > s1)
  <2>1. s1 + 1 < U32
    BY <1>6
  <2> HIDE DEF s0, s1
  <2>2. (s1 + 1) % U32 = s1 + 1 /\ (s0 + 1) % U32 = s0 + 1
    BY <1>1, <1>4, <1>6, <2>1
  <2>3. s1 = s0 + 1
    BY <1>1, <1>3, <1>6, <2>2
  <2> QED
    BY <1>6, <2>3 DEF s0, s1
<1> QED
  BY <1>2, <1>5, <1>6

\* Headers that are laid out anew are not damaged.
LEMMA LaidOut ==
  ASSUME NEW hs, heads' = Stored(hs), stored' = hs, damaged' = {}
  PROVE  HeadsInv' /\ DOMAIN heads' = {0, 1}
<1>1. \A i \in {0, 1} : heads'[i] = StoreHeader(hs[i])
  BY DEF Stored
<1>2. \A i \in {0, 1} : i \notin damaged' /\ heads'[i] = StoreHeader(stored'[i])
  BY <1>1
<1> QED
  BY <1>2 DEF HeadsInv, Stored

\* Another tool lays out headers of its own.
LEMMA OtherToolKeeps ==
  ASSUME IInv, NEW hs \in Written, OtherTool(hs)
  PROVE  IInv'
<1>1. /\ heads' = Stored(hs) /\ stored' = hs /\ damaged' = {}
      /\ updates' = MaxUpdates /\ meanwhile' = {}
      /\ UNCHANGED <<header0, origin, m_headers, outcome>>
  BY DEF OtherTool
<1>2. hs \in Headers /\ InPlay(hs)
  BY WrittenInPlay
<1>3. HeadsInv' /\ DOMAIN heads' = {0, 1}
  BY <1>1, LaidOut
<1>4. TypeOK'
  BY <1>1, <1>2, <1>3, FS_EmptySet, BoundsAssumption DEF IInv, TypeOK
<1>5. InPlay(stored)'
  BY <1>1, <1>2 DEF InPlay
<1>6. MemoryInv'
  BY <1>1 DEF IInv, MemoryInv, InPlay, LocatorsLoad
<1>7. ~ (updates' <= 1) /\ updates' # 0 /\ updates' # 1
  BY <1>1, BoundsAssumption
<1>8. StaleInv'
  BY <1>7 DEF StaleInv
<1>9. LoadingInv'
  BY <1>1, <1>7 DEF IInv, LoadingInv, FromHeader
<1> QED
  BY <1>3, <1>4, <1>5, <1>6, <1>8, <1>9 DEF IInv

\* Another tool updates the file by the format's rules.
LEMMA UpdateKeeps ==
  ASSUME DetectsDamage, IInv, NEW size \in Sizes, Update(size)
  PROVE  IInv'
<1> DEFINE b == ActiveIndex(stored)
           hs == Updated(stored, 1 - b, size)
<1>1. /\ heads' = Stored(hs) /\ stored' = hs /\ damaged' = {}
      /\ updates < MaxUpdates /\ updates' = updates + 1
      /\ meanwhile' = IF meanwhile = {} THEN {} ELSE meanwhile \cup {hs}
      /\ UNCHANGED <<header0, origin, m_headers, outcome>>
  BY DEF Update
<1>2. /\ Fits(stored, size) /\ ActiveHeader(stored).sequence_number + 1 < U32
      /\ PairLoads(heads[0], heads[1], PartBlocks)
  BY DEF Update
<1>3. stored \in Headers /\ InPlay(stored) /\ updates \in 0 .. MaxUpdates
  BY DEF IInv, TypeOK
<1>4. LocatorsLoad(stored)
      /\ Consecutive(stored[0].sequence_number, stored[1].sequence_number)
  <2>1. /\ stored[0] \in HeadersInPlay /\ stored[1] \in HeadersInPlay
        /\ FromHeader(heads[0], stored[0]) /\ FromHeader(heads[1], stored[1])
    BY <1>3, HeadsFrom DEF IInv, InPlay
  <2> QED
    BY <1>2, <2>1, LoadedFacts DEF LocatorsLoad
<1>5. /\ hs \in Headers /\ InPlay(hs) /\ LocatorsLoad(hs)
      /\ hs[b] = stored[b]
      /\ hs[1 - b].sequence_number = stored[b].sequence_number + 1
  BY <1>2, <1>3, <1>4, UpdateInPlay
<1>6. /\ stored[b].sequence_number = stored[1 - b].sequence_number + 1
      /\ stored[b].sequence_number + 1 < U32
  BY <1>2, <1>3, <1>4, ActiveIsNext DEF ActiveHeader
<1> HIDE DEF hs, b
<1>7. HeadsInv' /\ DOMAIN heads' = {0, 1}
  BY <1>1, LaidOut
<1>8. TypeOK'
  <2>1. updates' \in 0 .. MaxUpdates
    BY <1>1, <1>3, BoundsAssumption
  <2>2. meanwhile' \subseteq Headers
    BY <1>1, <1>5 DEF IInv, TypeOK
  <2> QED
    BY <1>1, <1>5, <1>7, <2>1, <2>2, FS_EmptySet, BoundsAssumption DEF IInv, TypeOK
<1>9. InPlay(stored)'
  BY <1>1, <1>5 DEF InPlay
<1>10. MemoryInv'
  BY <1>1 DEF IInv, MemoryInv, InPlay, LocatorsLoad
<1>11. StaleInv'
  <2>1. SUFFICES ASSUME m_headers # <<>>, updates = 0 PROVE StaleInv'
    BY <1>1, <1>3, BoundsAssumption DEF StaleInv
  <2> DEFINE a == ActiveIndex(m_headers)
  <2>2. /\ stored[a].sequence_number = m_headers[a].sequence_number
        /\ stored[1 - a].sequence_number = m_headers[1 - a].sequence_number
    BY <2>1 DEF IInv, StaleInv
  <2>3. a = b
    <3>1. /\ \A i \in {0, 1} : stored[i].sequence_number = m_headers[i].sequence_number
      BY <2>2 DEF ActiveIndex
    <3> QED
      BY <3>1 DEF ActiveIndex, b
  <2> HIDE DEF a
  <2>4. /\ LocatorsLoad(stored')
        /\ stored'[a].sequence_number = m_headers[a].sequence_number
        /\ stored'[1 - a].sequence_number = m_headers[a].sequence_number + 1
    BY <1>1, <1>5, <2>2, <2>3
  <2>5. m_headers[a].sequence_number + 1 < U32
    BY <1>6, <2>2, <2>3
  <2>6. updates' = 1
    BY <1>1, <2>1
  <2> QED
    BY <1>1, <2>4, <2>5, <2>6 DEF StaleInv, LocatorsLoad, a
<1>12. LoadingInv'
  <2>1. SUFFICES ASSUME outcome = "loading" PROVE LoadingInv'
    <3>1. outcome' = outcome /\ (meanwhile = {} => meanwhile' = {})
      BY <1>1
    <3> QED
      BY <2>1, <3>1 DEF IInv, LoadingInv
  <2>2. /\ m_headers = <<>> /\ origin \in HeadersInPlay /\ FromHeader(header0, origin)
        /\ updates = 0 => stored[0] = origin
        /\ meanwhile # {} => HeldTogether
    BY <2>1 DEF IInv, LoadingInv
  <2>3. /\ b \in {0, 1} /\ \A i \in {0, 1} : stored[i].sequence_number \in Nat
        /\ origin.sequence_number \in Nat
    BY <1>3, <2>2, PlayFacts, InPlayTyped DEF b, Header
  <2>4. /\ b = 0 => /\ stored'[0] = stored[0]
                   /\ stored'[1].sequence_number = stored[0].sequence_number + 1
                   /\ stored[0].sequence_number + 1 < U32
        /\ b = 1 => /\ stored'[1] = stored[1]
                   /\ stored'[0].sequence_number = stored[1].sequence_number + 1
                   /\ stored[1].sequence_number = stored[0].sequence_number + 1
                   /\ stored[1].sequence_number + 1 < U32
    BY <1>1, <1>5, <1>6
  <2>5. ASSUME updates' = 1
        PROVE  OneUpdateAhead'
    <3>1. stored[0] = origin
      BY <1>1, <1>3, <2>2, <2>5
    <3>2. LocatorsLoad(stored')
      BY <1>1, <1>5
    <3>3. stored'[1].sequence_number = origin.sequence_number + 1
      BY <2>3, <2>4, <3>1
    <3>4. \/ stored'[0] = origin
          \/ /\ stored'[0].sequence_number = origin.sequence_number + 2
             /\ stored'[0].sequence_number < U32
      BY <2>3, <2>4, <3>1
    <3> QED
      BY <1>1, <3>2, <3>3, <3>4 DEF OneUpdateAhead, LocatorsLoad
  <2>6. ASSUME meanwhile' # {}
        PROVE  HeldTogether'
    <3>1. meanwhile # {} /\ meanwhile' = meanwhile \cup {stored'}
      BY <1>1, <2>6
    <3>2. /\ stored[0] = origin \/ stored[0].sequence_number > origin.sequence_number
          /\ stored[1].sequence_number <= origin.sequence_number + 1 =>
               [stored EXCEPT ![0] = origin] \in meanwhile
      BY <2>2, <3>1 DEF HeldTogether
    <3>3. stored' \in Headers
      BY <1>1, <1>5
    <3>4. stored'[0] = origin \/ stored'[0].sequence_number > origin.sequence_number
      BY <2>3, <2>4, <3>2
    <3>5. ASSUME stored'[1].sequence_number <= origin.sequence_number + 1
          PROVE  [stored' EXCEPT ![0] = origin] \in meanwhile'
      <4>1. CASE b = 0
        <5>1. stored'[0] = origin
          BY <2>3, <2>4, <3>2, <3>5, <4>1
        <5>2. [stored' EXCEPT ![0] = origin] = stored'
          BY <3>3, <5>1 DEF Headers
        <5> QED
          BY <3>1, <5>2
      <4>2. CASE b = 1
        <5>1. [stored' EXCEPT ![0] = origin] = [stored EXCEPT ![0] = origin]
          BY <1>3, <2>4, <3>3, <4>2 DEF Headers
        <5>2. [stored EXCEPT ![0] = origin] \in meanwhile
          BY <2>4, <3>2, <3>5, <4>2
        <5> QED
          BY <3>1, <5>1, <5>2
      <4> QED
        BY <2>3, <4>1, <4>2
    <3> QED
      BY <1>1, <3>4, <3>5 DEF HeldTogether
  <2>7. updates' # 0
    BY <1>1, <1>3
  <2> QED
    BY <1>1, <2>1, <2>2, <2>5, <2>6, <2>7 DEF LoadingInv, FromHeader
<1> QED
  BY <1>7, <1>8, <1>9, <1>10, <1>11, <1>12 DEF IInv

\* One field of one header decays.
LEMMA DecayKeeps ==
  ASSUME IInv, NEW i \in {0, 1}, NEW f \in DOMAIN Damage, NEW v \in Damage[f],
         Decay(i, f, v)
  PROVE  IInv'
<1>1. /\ i \notin damaged /\ Cardinality(damaged) < MaxDamage
      /\ heads' = [heads EXCEPT ![i][f] = v]
      /\ damaged' = damaged \cup {i}
      /\ UNCHANGED <<stored, updates, reading, m_headers, outcome>>
      /\ origin' = origin /\ meanwhile' = meanwhile
  BY DEF Decay, reading
<1>2. DOMAIN heads = {0, 1} /\ damaged \in SUBSET {0, 1}
  BY DEF IInv, TypeOK
<1>3. /\ DOMAIN heads' = {0, 1}
      /\ heads'[i] = [heads[i] EXCEPT ![f] = v]
      /\ \A k \in {0, 1} \ {i} : heads'[k] = heads[k]
  BY <1>1, <1>2
<1>4. TypeOK'
  <2>1. /\ Cardinality(damaged) \in Nat /\ Cardinality(damaged') \in Nat
        /\ Cardinality(damaged') <= Cardinality(damaged) + 1
        /\ damaged' \subseteq {0, 1}
    <3>1. damaged' \in SUBSET {0, 1}
      BY <1>1, <1>2
    <3> QED
      BY <1>1, <1>2, <3>1, DamagedFacts
  <2>2. Cardinality(damaged') <= MaxDamage
    BY <1>1, <2>1, BoundsAssumption
  <2> QED
    BY <1>1, <1>3, <2>1, <2>2 DEF IInv, TypeOK
<1>5. HeadsInv'
  <2>1. ASSUME NEW k \in {0, 1}
        PROVE  \/ k \notin damaged' /\ heads'[k] = StoreHeader(stored'[k])
               \/ /\ k \in damaged'
                  /\ \E g \in DOMAIN Damage : \E w \in Damage[g] :
                       heads'[k] = [StoreHeader(stored'[k]) EXCEPT ![g] = w]
    <3>1. \/ k \notin damaged /\ heads[k] = StoreHeader(stored[k])
          \/ /\ k \in damaged
             /\ \E g \in DOMAIN Damage : \E w \in Damage[g] :
                  heads[k] = [StoreHeader(stored[k]) EXCEPT ![g] = w]
      BY DEF IInv, HeadsInv
    <3>2. CASE k = i
      <4>1. heads'[k] = [StoreHeader(stored'[k]) EXCEPT ![f] = v] /\ k \in damaged'
        BY <1>1, <1>3, <3>1, <3>2
      <4> QED
        BY <4>1
    <3>3. CASE k # i
      <4>1. heads'[k] = heads[k] /\ stored'[k] = stored[k]
            /\ (k \in damaged' <=> k \in damaged)
        BY <1>1, <1>3, <3>3
      <4> QED
        BY <3>1, <4>1
    <3> QED
      BY <3>2, <3>3
  <2> QED
    BY <2>1 DEF HeadsInv
<1>6. InPlay(stored)' /\ MemoryInv' /\ StaleInv'
  BY <1>1 DEF IInv, InPlay, MemoryInv, StaleInv, LocatorsLoad
<1>7. LoadingInv'
  BY <1>1, LoadingStays DEF IInv
<1> QED
  BY <1>4, <1>5, <1>6, <1>7 DEF IInv

---------------------------------------------------------------------------
(* The invariant.                                                          *)

\* Headers that some tool wrote, and no object.
LEMMA InitHolds == Init => IInv
<1> SUFFICES ASSUME Init PROVE IInv
  OBVIOUS
<1>1. /\ stored \in Written /\ heads = Stored(stored)
      /\ damaged = {} /\ updates = 0 /\ m_headers = <<>> /\ outcome = "none"
      /\ origin = <<>> /\ meanwhile = {}
  BY DEF Init
<1>2. stored \in Headers /\ InPlay(stored)
  BY <1>1, WrittenInPlay
<1>3. TypeOK
  BY <1>1, <1>2, FS_EmptySet, BoundsAssumption DEF TypeOK, Stored
<1>4. HeadsInv
  BY <1>1 DEF HeadsInv, Stored
<1>5. MemoryInv /\ StaleInv /\ LoadingInv
  BY <1>1 DEF MemoryInv, StaleInv, LoadingInv
<1> QED
  BY <1>2, <1>3, <1>4, <1>5 DEF IInv

\* Every step of the object, of other tools and of the damage keeps it.
LEMMA StepKeeps ==
  ASSUME DetectsDamage, IInv, [Next]_vars
  PROVE  IInv'
<1>1. CASE LoadFirst \/ LoadSecond \/ LoadFails
  BY <1>1, LoadFirstKeeps, LoadSecondKeeps, LoadFailsKeeps
<1>2. ASSUME NEW size \in Sizes, update_data_size(size) \/ Update(size)
      PROVE  IInv'
  BY <1>2, ResizeStepKeeps, UpdateKeeps
<1>3. CASE StoreFirst
  <2>1. m_headers # <<>> /\ PutHeader(0) /\ outcome' = "storing" /\ updates' = updates
    BY <1>3 DEF StoreFirst
  <2> QED
    BY <2>1, PutKeeps
<1>4. CASE StoreSecond
  <2>1. /\ outcome = "storing" /\ PutHeader(1) /\ outcome' = "stored"
        /\ updates' = updates \/ (updates' = 0 /\ stored' = m_headers)
    BY <1>4 DEF StoreSecond
  <2>2. m_headers # <<>>
    BY <2>1 DEF IInv, MemoryInv
  <2> QED
    BY <2>1, <2>2, PutKeeps
<1>5. CASE StoreFails
  <2>1. /\ outcome' = "io_error" /\ outcome = "storing"
        /\ UNCHANGED <<heads, stored, damaged, updates, m_headers>>
        /\ origin' = origin /\ meanwhile' = meanwhile
    BY <1>5 DEF StoreFails, reading
  <2>2. TypeOK'
    BY <2>1 DEF IInv, TypeOK
  <2>3. HeadsInv'
    BY <2>1, HeadsStay DEF IInv
  <2>4. InPlay(stored)' /\ MemoryInv' /\ StaleInv'
    BY <2>1 DEF IInv, InPlay, MemoryInv, StaleInv, LocatorsLoad
  <2>5. LoadingInv'
    BY <2>1, NotLoading DEF IInv
  <2> QED
    BY <2>2, <2>3, <2>4, <2>5 DEF IInv
<1>6. CASE \E hs \in Written : OtherTool(hs)
  BY <1>6, OtherToolKeeps
<1>7. CASE \E i \in {0, 1}, f \in DOMAIN Damage : \E v \in Damage[f] : Decay(i, f, v)
  BY <1>7, DecayKeeps
<1>8. CASE UNCHANGED vars
  <2>1. UNCHANGED <<heads, stored, damaged, updates, reading, m_headers, outcome>>
        /\ UNCHANGED <<origin, meanwhile>>
    BY <1>8 DEF vars, reading
  <2>2. TypeOK'
    BY <2>1 DEF IInv, TypeOK
  <2>3. HeadsInv'
    BY <2>1, HeadsStay DEF IInv
  <2>4. InPlay(stored)' /\ MemoryInv' /\ StaleInv'
    BY <2>1 DEF IInv, InPlay, MemoryInv, StaleInv, LocatorsLoad
  <2>5. LoadingInv'
    BY <2>1, LoadingStays DEF IInv
  <2> QED
    BY <2>2, <2>3, <2>4, <2>5 DEF IInv
<1> QED
  BY <1>1, <1>2, <1>3, <1>4, <1>5, <1>6, <1>7, <1>8 DEF Next

\* The invariant holds whatever other tools and damage do.
THEOREM Invariance ==
  ASSUME DetectsDamage
  PROVE  Spec => []IInv
<1>1. Init => IInv
  BY InitHolds
<1>2. IInv /\ [Next]_vars => IInv'
  BY StepKeeps
<1> QED
  BY <1>1, <1>2, PTL DEF Spec

---------------------------------------------------------------------------
(* The properties.                                                         *)

\* The members of VmgsData and the headers on the device stay what their
\* declarations say.
THEOREM TypeCorrect ==
  ASSUME DetectsDamage
  PROVE  Spec => []TypeOK
<1>1. IInv => TypeOK
  BY DEF IInv
<1> QED
  BY <1>1, Invariance, PTL

\* What the test of Vmgs.cpp:62 leaves open: an end of an allocation, or its length
\* in bytes, that does not fit into uint64_t.  Other tools write none such.
AllocationsFit ==
  \A l \in WrittenLocators :
    /\ l.allocation_lba + l.allocation_num < U64
    /\ l.allocation_num * BlockSize < U64

\* Of what load_from accepts, every allocation lies within the partition and
\* every data_size within its allocation, unless the sums wrap.
THEOREM LocatorsInRange ==
  ASSUME DetectsDamage, AllocationsFit
  PROVE  Spec => []LoadedInRange
<1>1. IInv => LoadedInRange
  <2> SUFFICES ASSUME IInv, m_headers # <<>>, NEW i \in {0, 1}, NEW j \in {0, 1}
               PROVE  LET l == m_headers[i].locators[j] IN
                      /\ l.allocation_lba + l.allocation_num <= PartBlocks
                      /\ l.data_size <= l.allocation_num * BlockSize
    BY DEF LoadedInRange, Locators
  <2> DEFINE l == m_headers[i].locators[j]
  <2>1. l \in LocatorsInPlay /\ LocatorLoads(l, PartBlocks)
    BY DEF IInv, MemoryInv, InPlay, HeadersInPlay, LocatorsLoad
  <2> HIDE DEF l
  <2>2. PICK w \in WrittenLocators :
          l.allocation_lba = w.allocation_lba /\ l.allocation_num = w.allocation_num
    BY <2>1 DEF LocatorsInPlay
  <2>3. l \in Locator
    BY <2>1, InPlayTyped
  <2>4. /\ l.allocation_lba + l.allocation_num \in Nat
        /\ l.allocation_num * BlockSize \in Nat
    BY <2>3, BlockSizeAssumption DEF Locator
  <2>5. /\ l.allocation_lba + l.allocation_num < U64
        /\ l.allocation_num * BlockSize < U64
    BY <2>2 DEF AllocationsFit
  <2>6. \A x \in Nat : x < U64 => x % U64 = x
    BY WidthAssumption
  <2> QED
    BY <2>1, <2>4, <2>5, <2>6 DEF LocatorLoads, Capacity, l
<1> QED
  BY <1>1, Invariance, PTL

\* Sequence numbers start at 1: a number 0 would be the successor of U32 - 1.
NumbersFromOne == \A h \in WrittenHeaders : h.sequence_number > 0

\* No header in play has the number 0 then.
LEMMA NumberRange ==
  ASSUME NumbersFromOne, NEW h \in HeadersInPlay
  PROVE  h.sequence_number \in 1 .. U32 - 1
<1>1. h.sequence_number \in NumbersInPlay
  BY DEF HeadersInPlay
<1>2. PICK w \in WrittenHeaders : w.sequence_number <= h.sequence_number
  BY <1>1 DEF NumbersInPlay
<1>3. w.sequence_number \in Nat /\ w.sequence_number > 0
  BY WrittenAssumption DEF WrittenHeaders, Headers, Header, NumbersFromOne
<1> QED
  BY <1>1, <1>2, <1>3, WidthAssumption DEF NumbersInPlay

\* The next number, in uint32_t arithmetic.
LEMMA SuccessorWraps ==
  ASSUME NEW x \in 1 .. U32 - 1
  PROVE  (x + 1) % U32 = x + 1 \/ (x + 1) % U32 = 0
<1>1. U32 \in Nat \ {0}
  BY WidthAssumption
<1>2. CASE x + 1 < U32
  BY <1>1, <1>2
<1>3. CASE x + 1 = U32
  BY <1>1, <1>3
<1> QED
  BY <1>1, <1>2, <1>3

\* As long as sequence numbers do not wrap, active_header() picks the successor of
\* the other header (Vmgs.hpp:84-91), also of pairs that were put together of
\* headers of two tools.
THEOREM ActiveIsSuccessor ==
  ASSUME DetectsDamage, NumbersFromOne
  PROVE  Spec => []ActiveIsNewer
<1>1. IInv => ActiveIsNewer
  <2> SUFFICES ASSUME IInv, m_headers # <<>>
               PROVE  LET a == ActiveIndex(m_headers) IN
                      m_headers[a].sequence_number
                        = (m_headers[1 - a].sequence_number + 1) % U32
    BY DEF ActiveIsNewer
  <2> DEFINE s0 == m_headers[0].sequence_number
             s1 == m_headers[1].sequence_number
  <2>1. InPlay(m_headers) /\ Consecutive(s0, s1)
    BY DEF IInv, MemoryInv
  <2>2. \A i \in {0, 1} : m_headers[i].sequence_number \in 1 .. U32 - 1
    BY <2>1, NumberRange DEF InPlay
  <2>3. s0 \in 1 .. U32 - 1 /\ s1 \in 1 .. U32 - 1 /\ U32 \in Nat \ {0}
    BY <2>2, WidthAssumption
  <2>4. \/ ActiveIndex(m_headers) = 0 /\ s0 > s1
        \/ ActiveIndex(m_headers) = 1 /\ ~ (s0 > s1)
    BY DEF ActiveIndex
  <2>5. s0 = (s1 + 1) % U32 \/ s1 = (s0 + 1) % U32
    BY <2>1 DEF Consecutive
  <2>6. \A x \in 1 .. U32 - 1 : (x + 1) % U32 = x + 1 \/ (x + 1) % U32 = 0
    BY SuccessorWraps
  <2> HIDE DEF s0, s1
  <2>7. s0 = s1 + 1 \/ s1 = s0 + 1
    BY <2>3, <2>5, <2>6
  <2>8. CASE ActiveIndex(m_headers) = 0 /\ s0 > s1
    <3>1. s0 = (s1 + 1) % U32
      BY <2>3, <2>5, <2>6, <2>8
    <3> QED
      BY <2>8, <3>1 DEF s0, s1
  <2>9. CASE ActiveIndex(m_headers) = 1 /\ ~ (s0 > s1)
    <3>1. s1 = (s0 + 1) % U32
      BY <2>3, <2>5, <2>6, <2>7, <2>9
    <3> QED
      BY <2>9, <3>1 DEF s0, s1
  <2> QED
    BY <2>4, <2>8, <2>9
<1> QED
  BY <1>1, Invariance, PTL

\* load_from gives out only headers that were once stored, damage to a field of
\* either makes it throw (Vmgs.cpp:84-137), and two that were there together, as
\* long as the updates between its two reads keep to the format's rules, however
\* many they are: the test for a gap tells the others (Vmgs.cpp:193-208).
THEOREM LoadsOnlyStored ==
  ASSUME DetectsDamage, NumbersFromOne
  PROVE  Spec => LoadedWasStored
<1>1. IInv /\ [Next]_vars
        => [LoadSecond /\ outcome' = "loaded" =>
              /\ m_headers' = [stored EXCEPT ![0] = origin]
              /\ meanwhile # {} => m_headers' \in meanwhile]_vars
  <2> SUFFICES ASSUME IInv, LoadSecond, outcome' = "loaded"
               PROVE  /\ m_headers' = [stored EXCEPT ![0] = origin]
                      /\ meanwhile # {} => m_headers' \in meanwhile
    OBVIOUS
  <2>1. /\ outcome = "loading" /\ PairLoads(header0, heads[1], PartBlocks)
        /\ m_headers' = LoadPair(header0, heads[1])
    BY DEF LoadSecond
  <2>2. /\ m_headers' = [stored EXCEPT ![0] = origin]
        /\ Consecutive(origin.sequence_number, stored[1].sequence_number)
    BY <2>1, LoadedPair
  <2>3. ASSUME meanwhile # {}
        PROVE  m_headers' \in meanwhile
    <3> DEFINE s0 == origin.sequence_number
               s1 == stored[1].sequence_number
    <3>1. /\ origin \in HeadersInPlay /\ stored[1] \in HeadersInPlay
          /\ s1 <= s0 + 1 => [stored EXCEPT ![0] = origin] \in meanwhile
      BY <2>1, <2>3 DEF IInv, LoadingInv, HeldTogether, InPlay
    <3>2. s0 \in 1 .. U32 - 1 /\ s1 \in 1 .. U32 - 1 /\ U32 \in Nat \ {0}
      BY <3>1, NumberRange, WidthAssumption
    <3>3. s0 = (s1 + 1) % U32 \/ s1 = (s0 + 1) % U32
      BY <2>2 DEF Consecutive
    <3> HIDE DEF s0, s1
    <3>4. \A x \in 1 .. U32 - 1 : (x + 1) % U32 = x + 1 \/ (x + 1) % U32 = 0
      BY <3>2, SuccessorWraps
    <3>5. s1 <= s0 + 1
      BY <3>2, <3>3, <3>4
    <3> QED
      BY <2>2, <3>1, <3>5
  <2> QED
    BY <2>2, <2>3
<1> QED
  BY <1>1, Invariance, PTL DEF Spec, LoadedWasStored

\* What store_to has put out, and nothing touched since, loads and is what the
\* object holds (Vmgs.cpp:139-152, 171-181).
THEOREM StoresReload ==
  ASSUME DetectsDamage
  PROVE  Spec => []StoredReloads
<1>1. IInv => StoredReloads
  <2> SUFFICES ASSUME IInv, outcome = "stored", damaged = {}, stored = m_headers
               PROVE  /\ PairLoads(heads[0], heads[1], PartBlocks)
                      /\ LoadPair(heads[0], heads[1]) = m_headers
    BY DEF StoredReloads
  <2>1. /\ stored \in Headers /\ m_headers # <<>>
        /\ \A i \in {0, 1} : heads[i] = StoreHeader(stored[i]) /\ stored[i] \in Header
    <3>1. stored \in Headers /\ \A i \in {0, 1} : heads[i] = StoreHeader(stored[i])
      BY DEF IInv, TypeOK, HeadsInv
    <3>2. DOMAIN stored = {0, 1} /\ \A i \in {0, 1} : stored[i] \in Header
      BY <3>1 DEF Headers
    <3>3. DOMAIN <<>> = {}
      OBVIOUS
    <3> QED
      BY <3>1, <3>2, <3>3
  <2>2. LocatorsLoad(stored)
        /\ Consecutive(stored[0].sequence_number, stored[1].sequence_number)
    BY <2>1 DEF IInv, MemoryInv
  <2>3. PairLoads(heads[0], heads[1], PartBlocks)
    BY <2>1, <2>2, StoredPairLoads
  <2>4. LoadPair(heads[0], heads[1]) = stored
    BY <2>1, LoadGivesBack DEF LoadPair, Headers
  <2> QED
    BY <2>3, <2>4
<1> QED
  BY <1>1, Invariance, PTL

\* Wherever a store_to of headers that may be out of date stops, the file still
\* loads, if another tool has updated it at most once in the meantime.
THEOREM StaleStoresLoad ==
  ASSUME DetectsDamage
  PROVE  Spec => []StaleStoreLoads
<1>1. IInv => StaleStoreLoads
  <2> SUFFICES ASSUME IInv, m_headers # <<>>, updates <= 1, damaged = {}
               PROVE  PairLoads(heads[0], heads[1], PartBlocks)
    BY DEF StaleStoreLoads
  <2> DEFINE a == ActiveIndex(m_headers)
             newer == m_headers[a].sequence_number
             older == m_headers[1 - a].sequence_number
  <2>1. /\ InPlay(m_headers)
        /\ Consecutive(m_headers[0].sequence_number, m_headers[1].sequence_number)
    BY DEF IInv, MemoryInv
  <2>2. /\ LocatorsLoad(stored) /\ stored[a].sequence_number = newer
        /\ \/ stored[1 - a].sequence_number = older
           \/ newer + 1 < U32 /\ stored[1 - a].sequence_number = newer + 1
    BY DEF IInv, StaleInv
  <2>3. /\ a \in {0, 1} /\ newer \in Nat /\ older \in Nat
        /\ a = 0 => 1 - a = 1
        /\ a = 1 => 1 - a = 0
    BY <2>1, PlayFacts
  <2>4. Consecutive(newer, older)
    BY <2>1, <2>3 DEF Consecutive
  <2> HIDE DEF newer, older, a
  <2>5. Consecutive(stored[a].sequence_number, stored[1 - a].sequence_number)
    <3>1. CASE stored[1 - a].sequence_number = older
      BY <2>2, <2>4, <3>1
    <3>2. CASE newer + 1 < U32 /\ stored[1 - a].sequence_number = newer + 1
      <4>1. (newer + 1) % U32 = newer + 1
        BY <2>3, <3>2, WidthAssumption
      <4> QED
        BY <2>2, <3>2, <4>1 DEF Consecutive
    <3> QED
      BY <2>2, <3>1, <3>2
  <2>6. Consecutive(stored[0].sequence_number, stored[1].sequence_number)
    BY <2>3, <2>5 DEF Consecutive
  <2>7. \A i \in {0, 1} : heads[i] = StoreHeader(stored[i]) /\ stored[i] \in Header
    BY DEF IInv, TypeOK, HeadsInv, Headers
  <2> QED
    BY <2>2, <2>6, <2>7, StoredPairLoads
<1> QED
  BY <1>1, Invariance, PTL
=============================================================================
