--------------------------- MODULE MCVmgsNeighbour ---------------------------
(* Small instances of VmgsNeighbour, on those of VmgsIO.                     *)
EXTENDS VmgsNeighbour, MCVmgsIO

\* A write to the block behind the allocation, or to the block after that.
MCNeighbourWrites ==
  {<<b, BlockOf(Raw, [j \in 1 .. BlockSize |-> <<"image", j>>])>> :
     b \in {Behind, Behind + 1} \cap ForeignLbas}
=============================================================================
