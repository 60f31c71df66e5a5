---------------------------- MODULE VmgsNeighbour ----------------------------
(***************************************************************************)
(* VmgsIO objects beside another program that owns the blocks outside the  *)
(* header blocks and the active allocation: another file of the VMGS, the  *)
(* next partition of the disk.  write() reads and writes back the block    *)
(* after the last whole one of its buffer (Vmgs.cpp:269-273), which may be *)
(* one of those.                                                           *)
(***************************************************************************)
EXTENDS VmgsIO

CONSTANT NeighbourWrites   \* what the other program writes: <<lba, block>>

VARIABLE owned   \* foreign block -> all the contents its owner gave it, in turn

ForeignLbas == Lba \ (HeaderLbas \cup ActiveLbas)

\* The block behind the active allocation.
Behind == LET l == ActiveLocator(Original) IN
          Dev(l.allocation_lba + l.allocation_num)

\* Of a block that is no header block only the bytes matter, so that what the
\* other program writes is a Block: no layout that is new to the device.
ASSUME NeighbourAssumption ==
  \A w \in NeighbourWrites : w[1] \in ForeignLbas /\ w[2] \in Block

\* The other program writes one of its blocks.  Bound: once in a behaviour.
NeighbourWrite(w) ==
  /\ \A b \in ForeignLbas : Len(owned[b]) = 1
  /\ disk' = [disk EXCEPT ![w[1]] = w[2]]
  /\ owned' = [owned EXCEPT ![w[1]] = Append(@, w[2])]
  /\ UNCHANGED <<media, pc, writable, m_vmgs_data, buf, k, single_block,
                 header_block, got, ret>>

SharedInit == Init /\ owned = [b \in ForeignLbas |-> <<Image[b]>>]

SharedNext ==
  \/ Next /\ UNCHANGED owned
  \/ \E w \in NeighbourWrites : NeighbourWrite(w)

SharedSpec == SharedInit /\ [][SharedNext]_<<vars, owned>>

Latest(b) == owned[b][Len(owned[b])]
Given(b) == {owned[b][i] : i \in DOMAIN owned[b]}

\* Of what another program owns, write() can undo a change to one block alone,
\* the one behind the allocation, and it leaves nothing there that its owner
\* had not put there, however the device calls of writers and owner interleave.
OwnerKeepsBlocks ==
  \A b \in ForeignLbas :
    IF b = Behind THEN disk[b] \in Given(b) ELSE disk[b] = Latest(b)
=============================================================================
