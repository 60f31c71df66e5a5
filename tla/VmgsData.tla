------------------------------ MODULE VmgsData ------------------------------
(***************************************************************************)
(* VmgsData (src/src/Vmgs.hpp, Vmgs.cpp): load_from on header blocks that  *)
(* some tool wrote and that may have been damaged since, the choice of the *)
(* active locator, update_data_size, and store_to.  The two header reads   *)
(* of load_from and the two header writes of store_to are a step each: a   *)
(* call may stop between them, and other tools do not wait.                *)
(***************************************************************************)
EXTENDS VmgsFormat, FiniteSets

CONSTANTS
  PartBlocks,   \* blocks of the partition
  Written,      \* header pairs that other tools may have left on the device
  Sizes,        \* arguments of update_data_size
  Damage,       \* [field -> values that damage may leave in it]
  MaxDamage,    \* bound on the headers that are damaged at one time
  MaxUpdates    \* bound on the updates of other tools that get counted

VARIABLES
  heads,      \* the two layouts on the device
  stored,     \* the headers that were last put into them
  damaged,    \* which of the two were damaged since, in one field
  updates,    \* updates by other tools since the first read of the load of
              \* m_headers, or since a whole store of them
  header0,    \* the header block that load_from has read, Raw when none
  origin,     \* the header that was last put into it by then, <<>> when none
  meanwhile,  \* the pairs stored since then, {} if not all by the format's rules
  m_headers,  \* the VmgsData object's headers, <<>> when there is no object
  outcome     \* how the last call ended; "loading" in the middle of load_from,
              \* "storing" in the middle of store_to

vars == <<heads, stored, damaged, updates, header0, origin, meanwhile, m_headers,
          outcome>>

reading == <<header0, origin, meanwhile>>

ASSUME BoundsAssumption ==
  PartBlocks \in Nat /\ MaxDamage \in Nat /\ MaxUpdates \in Nat \ {0, 1}

\* sequence_number is a uint32_t, data_size a number.
ASSUME WrittenAssumption ==
  /\ Written \subseteq Headers
  /\ \A hs \in Written, i \in {0, 1} : hs[i].sequence_number < U32
ASSUME SizesAssumption == Sizes \subseteq Nat

Stored(hs) == [i \in {0, 1} |-> StoreHeader(hs[i])]

Init ==
  /\ stored \in Written
  /\ heads = Stored(stored)
  /\ damaged = {} /\ updates = 0
  /\ header0 = Raw /\ origin = <<>> /\ meanwhile = {}
  /\ m_headers = <<>>
  /\ outcome = "none"

\* Any other program than this one lays out the headers anew: as many updates
\* as there are.
OtherTool(hs) ==
  /\ heads' = Stored(hs) /\ stored' = hs
  /\ damaged' = {} /\ updates' = MaxUpdates
  /\ meanwhile' = {}
  /\ UNCHANGED <<header0, origin, m_headers, outcome>>

\* Header i of hs gives way to a successor of the other one.
Updated(hs, i, size) ==
  LET h == [hs[1 - i] EXCEPT !.sequence_number = @ + 1] IN
  [hs EXCEPT ![i] = [h EXCEPT !.locators[h.active_index].data_size = size]]

\* Another tool updates the file by the format's rules: it replaces the older
\* header.  Bounds: on the updates, and below the wrap of sequence numbers.
Update(size) ==
  LET hs == Updated(stored, 1 - ActiveIndex(stored), size) IN
  /\ updates < MaxUpdates
  /\ damaged = {}
  /\ PairLoads(heads[0], heads[1], PartBlocks) /\ Fits(stored, size)
  /\ ActiveHeader(stored).sequence_number + 1 < U32
  /\ heads' = Stored(hs) /\ stored' = hs
  /\ updates' = updates + 1
  /\ meanwhile' = IF meanwhile = {} THEN {} ELSE meanwhile \cup {hs}
  /\ UNCHANGED <<damaged, header0, origin, m_headers, outcome>>

Decay(i, f, v) ==
  /\ i \notin damaged
  /\ Cardinality(damaged) < MaxDamage
  /\ heads' = [heads EXCEPT ![i][f] = v]
  /\ damaged' = damaged \cup {i}
  /\ UNCHANGED <<stored, updates, reading, m_headers, outcome>>

\* VmgsData::load_from reads the first header block, in a new process or for a
\* new object: in the middle of a call the old process has been killed.
LoadFirst ==
  /\ header0' = heads[0] /\ origin' = stored[0] /\ meanwhile' = {stored}
  /\ m_headers' = <<>>
  /\ outcome' = "loading"
  /\ updates' = 0
  /\ UNCHANGED <<heads, stored, damaged>>

EndLoad == header0' = Raw /\ origin' = <<>> /\ meanwhile' = {}

\* It reads the second one and checks both; an exception leaves no object.
LoadSecond ==
  /\ outcome = "loading"
  /\ IF PairLoads(header0, heads[1], PartBlocks)
       THEN m_headers' = LoadPair(header0, heads[1]) /\ outcome' = "loaded"
       ELSE UNCHANGED m_headers /\ outcome' = "refused"
  /\ EndLoad
  /\ UNCHANGED <<heads, stored, damaged, updates>>

\* One of its reads throws.
LoadFails ==
  /\ outcome = "loading"
  /\ outcome' = "io_error"
  /\ EndLoad
  /\ UNCHANGED <<heads, stored, damaged, updates, m_headers>>

\* VmgsDataLocator::update_data_size on the active locator.
update_data_size(size) ==
  /\ m_headers # <<>> /\ outcome # "storing"
  /\ IF Fits(m_headers, size)
       THEN m_headers' = Resize(m_headers, size) /\ outcome' = "resized"
       ELSE UNCHANGED m_headers /\ outcome' = "size_error"
  /\ UNCHANGED <<heads, stored, damaged, updates, reading>>

FaultyPutHeader(i) ==
  /\ heads' = [heads EXCEPT ![i] = StoreHeader(m_headers[0])]
  /\ stored' = [stored EXCEPT ![i] = m_headers[i]]
  /\ damaged' = damaged \ {i}
  /\ UNCHANGED <<reading, m_headers>>

\* Header i goes out whole; the block it is put into was read for the sake of
\* the bytes behind the header.
PutHeader(i) ==
  /\ heads' = [heads EXCEPT ![i] = StoreHeader(m_headers[i])]
  /\ stored' = [stored EXCEPT ![i] = m_headers[i]]
  /\ damaged' = damaged \ {i}
  /\ UNCHANGED <<reading, m_headers>>

\* VmgsData::store_to.
StoreFirst ==
  /\ m_headers # <<>> /\ outcome # "storing"
  /\ PutHeader(0)
  /\ outcome' = "storing"
  /\ UNCHANGED updates

StoreSecond ==
  /\ outcome = "storing"
  /\ PutHeader(1)
  /\ outcome' = "stored"
  /\ updates' = IF stored' = m_headers THEN 0 ELSE updates

\* The second write throws; the object lives on.
StoreFails ==
  /\ outcome = "storing"
  /\ outcome' = "io_error"
  /\ UNCHANGED <<heads, stored, damaged, updates, reading, m_headers>>

Next ==
  \/ LoadFirst \/ LoadSecond \/ LoadFails
  \/ \E size \in Sizes : update_data_size(size) \/ Update(size)
  \/ StoreFirst \/ StoreSecond \/ StoreFails
  \/ \E hs \in Written : OtherTool(hs)
  \/ \E i \in {0, 1}, f \in DOMAIN Damage : \E v \in Damage[f] : Decay(i, f, v)

Spec == Init /\ [][Next]_vars

---------------------------------------------------------------------------
Locators(hs) == {hs[i].locators[j] : i, j \in {0, 1}}

TypeOK ==
  /\ DOMAIN heads = {0, 1}
  /\ stored \in Headers
  /\ damaged \subseteq {0, 1} /\ Cardinality(damaged) <= MaxDamage
  /\ updates \in 0 .. MaxUpdates
  /\ m_headers \in Headers \cup {<<>>}
  /\ origin \in Header \cup {<<>>}
  /\ meanwhile \subseteq Headers
  /\ outcome \in {"none", "loading", "loaded", "refused", "resized", "size_error",
                 "storing", "stored", "io_error"}

\* Of what load_from accepts, every allocation lies within the partition and
\* every data_size within its allocation, in unbounded arithmetic, and resizes
\* keep it so: "`allocation_lba` or `allocation_num` is/are out of range."
LoadedInRange ==
  m_headers # <<>> =>
    \A l \in Locators(m_headers) :
      /\ l.allocation_lba + l.allocation_num <= PartBlocks
      /\ l.data_size <= l.allocation_num * BlockSize

\* The header that active_header() picks is the successor of the other one:
\* the newer of two whose sequence numbers have no gap between them.
ActiveIsNewer ==
  m_headers # <<>> =>
    LET a == ActiveIndex(m_headers) IN
    m_headers[a].sequence_number = (m_headers[1 - a].sequence_number + 1) % U32

\* load_from gives out only what was once stored: fields that were damaged
\* since then, in either header, make it throw.  And as long as other tools
\* keep to the format's rules it gives out two headers that were on the device
\* at one time, between its two reads (Vmgs.cpp:193-194), however many updates
\* there are: that is what the test for a gap is good for (Vmgs.cpp:202-208).
LoadedWasStored ==
  [][LoadSecond /\ outcome' = "loaded" =>
       /\ m_headers' = [stored EXCEPT ![0] = origin]
       /\ meanwhile # {} => m_headers' \in meanwhile]_vars

\* What store_to writes is what the next load_from returns.
StoredReloads ==
  outcome = "stored" /\ damaged = {} /\ stored = m_headers =>
    /\ PairLoads(heads[0], heads[1], PartBlocks)
    /\ LoadPair(heads[0], heads[1]) = m_headers

\* store_to puts the headers of an object back that may be out of date, one by
\* one (Vmgs.cpp:171-181).  Wherever it stops, and however often it is tried
\* again, the file still loads if another tool has updated it at most once in
\* the meantime.  (After two updates, the old first header and the newer second
\* one can have a gap between them.)
StaleStoreLoads ==
  m_headers # <<>> /\ updates <= 1 /\ damaged = {} =>
    PairLoads(heads[0], heads[1], PartBlocks)
=============================================================================
