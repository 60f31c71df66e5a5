------------------------- MODULE VmgsFormat_proofs -------------------------
(***************************************************************************)
(* What update_data_size, VmgsDataHeaderLayout::store and ::load do to     *)
(* each other, for every header.                                           *)
(***************************************************************************)
EXTENDS VmgsFormat, TLAPS

\* update_data_size (Vmgs.cpp:156-162) changes nothing but the data_size of
\* the active locator, so that the active header stays the active one, and
\* only the last of several sizes counts.
LEMMA ResizeKeeps ==
  ASSUME NEW hs \in Headers, NEW s \in Nat
  PROVE  /\ Resize(hs, s) \in Headers
         /\ ActiveIndex(Resize(hs, s)) = ActiveIndex(hs)
         /\ \A i \in {0, 1} \ {ActiveIndex(hs)} : Resize(hs, s)[i] = hs[i]
         /\ \A i \in {0, 1} :
              /\ Resize(hs, s)[i].sequence_number = hs[i].sequence_number
              /\ Resize(hs, s)[i].active_index = hs[i].active_index
         /\ \A j \in {0, 1} \ {ActiveHeader(hs).active_index} :
              ActiveHeader(Resize(hs, s)).locators[j] = ActiveHeader(hs).locators[j]
         /\ ActiveLocator(Resize(hs, s)) = [ActiveLocator(hs) EXCEPT !.data_size = s]
         /\ \A t \in Nat : Resize(Resize(hs, s), t) = Resize(hs, t)
<1> DEFINE a == ActiveIndex(hs)
           x == hs[a].active_index
           Sized(l, t) == [l EXCEPT !.data_size = t]
           Slots(t) == [hs[a].locators EXCEPT ![x] = Sized(@, t)]
           Head(t) == [hs[a] EXCEPT !.locators = Slots(t)]
<1>1. a \in {0, 1} /\ x \in {0, 1} /\ hs[a] \in Header
  BY DEF ActiveIndex, Headers, Header
<1>2. \A t \in Nat : Resize(hs, t) = [hs EXCEPT ![a] = Head(t)]
  BY <1>1 DEF Resize
<1>3. \A t \in Nat : Slots(t) \in [{0, 1} -> Locator]
  BY <1>1 DEF Header, Locator
<1>4. \A t \in Nat : /\ Head(t) \in Header
                     /\ Head(t).sequence_number = hs[a].sequence_number
                     /\ Head(t).active_index = x
                     /\ Head(t).locators = Slots(t)
  BY <1>1, <1>3 DEF Header
<1> HIDE DEF Head
<1>5. ASSUME NEW t \in Nat
      PROVE  /\ Resize(hs, t) \in Headers
             /\ Resize(hs, t)[a] = Head(t)
             /\ \A i \in {0, 1} \ {a} : Resize(hs, t)[i] = hs[i]
  BY <1>1, <1>2, <1>4 DEF Headers
<1>6. \A i \in {0, 1} :
        /\ Resize(hs, s)[i].sequence_number = hs[i].sequence_number
        /\ Resize(hs, s)[i].active_index = hs[i].active_index
  BY <1>1, <1>4, <1>5
<1>7. ActiveIndex(Resize(hs, s)) = a
  BY <1>6 DEF ActiveIndex
<1>8. /\ ActiveLocator(Resize(hs, s)) = [ActiveLocator(hs) EXCEPT !.data_size = s]
      /\ \A j \in {0, 1} \ {ActiveHeader(hs).active_index} :
           ActiveHeader(Resize(hs, s)).locators[j] = ActiveHeader(hs).locators[j]
  <2>1. ActiveHeader(Resize(hs, s)) = Head(s)
    BY <1>5, <1>7 DEF ActiveHeader
  <2>2. ActiveLocator(Resize(hs, s)) = Slots(s)[x]
    BY <1>4, <2>1 DEF ActiveLocator
  <2>3. ActiveLocator(hs) = hs[a].locators[x] /\ ActiveHeader(hs) = hs[a]
    BY DEF ActiveLocator, ActiveHeader
  <2>4. ActiveLocator(Resize(hs, s)) = [ActiveLocator(hs) EXCEPT !.data_size = s]
    BY <1>1, <2>2, <2>3 DEF Header
  <2>5. \A j \in {0, 1} \ {x} : Slots(s)[j] = hs[a].locators[j]
    BY <1>1 DEF Header
  <2>6. ActiveHeader(Resize(hs, s)).locators = Slots(s)
    BY <1>4, <2>1
  <2> HIDE DEF a, Slots
  <2>7. \A j \in {0, 1} \ {ActiveHeader(hs).active_index} :
          ActiveHeader(Resize(hs, s)).locators[j] = ActiveHeader(hs).locators[j]
    BY <2>3, <2>5, <2>6
  <2> QED
    BY <2>4, <2>7
<1>9. ASSUME NEW t \in Nat
      PROVE  Resize(Resize(hs, s), t) = Resize(hs, t)
  <2> DEFINE r == Resize(hs, s)
  <2>1. /\ ActiveIndex(r) = a /\ r[a] = Head(s)
        /\ Head(s).locators = Slots(s) /\ Head(s).active_index = x
    BY <1>4, <1>5, <1>7
  <2>2. [Slots(s) EXCEPT ![x] = Sized(@, t)] = Slots(t)
    BY <1>1, <1>3 DEF Header, Locator
  <2>3. [Head(s) EXCEPT !.locators = Slots(t)] = Head(t)
    BY <1>1 DEF Head, Header
  <2>4. Resize(r, t) = [r EXCEPT ![a].locators[x] = Sized(@, t)]
    <3> HIDE DEF r
    <3> QED
      BY <2>1 DEF Resize
  <2>5. Resize(r, t) = [r EXCEPT ![a] = Head(t)]
    BY <2>1, <2>2, <2>3, <2>4
  <2> QED
    BY <1>1, <1>2, <2>5 DEF Headers
<1> QED
  BY <1>5, <1>6, <1>7, <1>8, <1>9

\* The fields of a stored layout are those of the header.
LEMMA LoadGivesBack ==
  ASSUME NEW h \in Header
  PROVE  LoadHeader(StoreHeader(h)) = h
  BY DEF LoadHeader, StoreHeader, Layout, Header

\* A stored layout carries the checksum of its fields, and loads as soon as
\* the header's fields are in range.
LEMMA StoredHeaderLoads ==
  ASSUME NEW h \in Header, NEW blocks
  PROVE  HeaderLoads(StoreHeader(h), blocks)
           <=> \A i \in {0, 1} : LocatorLoads(h.locators[i], blocks)
<1>1. Covered(StoreHeader(h))
        = Whole(Layout(h.sequence_number, h.active_index, h.locators))
  BY DEF Covered, Whole, StoreHeader, Layout
<1>2. StoreHeader(h).checksum = Crc32(Covered(StoreHeader(h)))
  BY <1>1 DEF StoreHeader, Layout
<1> QED
  BY <1>2 DEF HeaderLoads, FieldsLoad, StoreHeader, Layout, Header

\* What store lays out of a header passes every test of load, that of the
\* checksum among them, whatever the checksum function is, unless one of the
\* two locators is out of range: then and only then load throws.  What load
\* returns is that header (Vmgs.cpp:84-152).
THEOREM StoreThenLoad ==
  ASSUME NEW h \in Header, NEW blocks
  PROVE  /\ HeaderLoads(StoreHeader(h), blocks)
              <=> \A i \in {0, 1} : LocatorLoads(h.locators[i], blocks)
         /\ LoadHeader(StoreHeader(h)) = h
<1>1. HeaderLoads(StoreHeader(h), blocks)
        <=> \A i \in {0, 1} : LocatorLoads(h.locators[i], blocks)
  BY StoredHeaderLoads
<1>2. LoadHeader(StoreHeader(h)) = h
  BY LoadGivesBack
<1> QED
  BY <1>1, <1>2

\* A stored pair of headers that loads still loads after a resize that
\* update_data_size accepts.
LEMMA ResizedPairLoads ==
  ASSUME NEW hs \in Headers, NEW blocks, NEW s \in Nat, Fits(hs, s),
         PairLoads(StoreHeader(hs[0]), StoreHeader(hs[1]), blocks)
  PROVE  PairLoads(StoreHeader(Resize(hs, s)[0]),
                   StoreHeader(Resize(hs, s)[1]), blocks)
<1> DEFINE r == Resize(hs, s)
           a == ActiveIndex(hs)
           x == ActiveHeader(hs).active_index
<1>1. /\ r \in Headers
      /\ \A i \in {0, 1} \ {a} : r[i] = hs[i]
      /\ \A i \in {0, 1} : r[i].sequence_number = hs[i].sequence_number
      /\ ActiveHeader(r) = r[a]
      /\ ActiveHeader(hs) = hs[a]
      /\ \A j \in {0, 1} \ {x} : r[a].locators[j] = hs[a].locators[j]
      /\ r[a].locators[x] = [hs[a].locators[x] EXCEPT !.data_size = s]
  <2>1. ActiveHeader(r) = r[a] /\ ActiveHeader(hs) = hs[a]
    BY ResizeKeeps DEF ActiveHeader
  <2>2. a \in {0, 1} /\ r[a].active_index = x
    BY <2>1, ResizeKeeps DEF ActiveIndex
  <2> QED
    BY <2>1, <2>2, ResizeKeeps DEF ActiveLocator
<1>2. \A i, j \in {0, 1} : LocatorLoads(hs[i].locators[j], blocks)
  BY StoredHeaderLoads DEF PairLoads, Headers
<1>3. a \in {0, 1} /\ x \in {0, 1} /\ hs[a].locators[x] \in Locator
  BY <1>1 DEF ActiveIndex, Headers, Header
<1>4. LocatorLoads(r[a].locators[x], blocks)
  <2>1. s <= Capacity(hs[a].locators[x])
    BY <1>1 DEF Fits, ActiveLocator
  <2> QED
    BY <1>1, <1>2, <1>3, <2>1 DEF LocatorLoads, Capacity, Locator
<1>5. \A i, j \in {0, 1} : LocatorLoads(r[i].locators[j], blocks)
  BY <1>1, <1>2, <1>3, <1>4
<1>6. \A i \in {0, 1} : HeaderLoads(StoreHeader(r[i]), blocks)
  BY <1>1, <1>5, StoredHeaderLoads DEF Headers
<1>7. \A h \in Header : StoreHeader(h).sequence_number = h.sequence_number
  BY DEF StoreHeader, Layout, Header
<1>8. Consecutive(r[0].sequence_number, r[1].sequence_number)
  BY <1>1, <1>7 DEF PairLoads, Headers
<1> QED
  BY <1>1, <1>6, <1>7, <1>8 DEF PairLoads, Headers
===========================================================================
