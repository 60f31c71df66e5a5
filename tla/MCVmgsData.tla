----------------------------- MODULE MCVmgsData -----------------------------
(***************************************************************************)
(* Small instances of VmgsData.  Damage of a locator is one more value of  *)
(* the locators field.                                                     *)
(***************************************************************************)
EXTENDS VmgsData

CONSTANTS
  Lbas, Nums, DataSizes,   \* values of a locator's fields
  Pairs                    \* pairs of sequence numbers

MCCrc(x) == x

Adjacent == {<<1, 2>>, <<6, 5>>}
Wrapped == {<<0, 7>>, <<7, 0>>}

OneLocator == [allocation_lba : Lbas, allocation_num : Nums, data_size : DataSizes]
Spare == [allocation_lba |-> 2, allocation_num |-> 0, data_size |-> 0]

MCHeader(s, a, l) ==
  [sequence_number |-> s, active_index |-> a,
   locators |-> [j \in {0, 1} |-> IF j = a THEN l ELSE Spare]]

\* The active header's locator varies; the older header holds a spare one.
MCWritten ==
  {[i \in {0, 1} |->
      MCHeader(p[i + 1], a, IF p[i + 1] >= p[2 - i] THEN l ELSE Spare)] :
     p \in Pairs, a \in {0, 1}, l \in OneLocator}

MCDamage ==
  [signature |-> {"damaged"}, version |-> {VERSION + 1}, header_size |-> {0},
   locator_size |-> {0}, active_index |-> {0, 1, 2},
   sequence_number |-> {1, 2, 3}, checksum |-> {<<>>},
   locators |-> {[j \in {0, 1} |-> Spare]}]
=============================================================================
