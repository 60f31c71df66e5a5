-------------------------- MODULE VmgsIORefinement --------------------------
(***************************************************************************)
(* One process's VmgsIO implements VmgsStore.  A block is written whole or *)
(* not at all, the active header is one block, and the order of write() is *)
(* data first, header last: that is what makes the switch to the new size  *)
(* one step.                                                               *)
(***************************************************************************)
EXTENDS VmgsIO

Process == CHOOSE h \in Handles : TRUE

InWrite == pc[Process] \in WritePc

Store == INSTANCE VmgsStore WITH
  Data <- {SubSeq(b.bytes, 1, Size(b)) : b \in Buffers},
  Initial <- Content(Image),
  content <- Content(disk),
  writing <- InWrite,
  data <- SubSeq(buf[Process].bytes, 1, Size(buf[Process])),
  done <- ret[Process].status = "written"

\* Every step of read(), write(), close(), the constructors and their failures
\* is a step of the store or leaves it alone (Vmgs.cpp:240-288): in particular
\* no failure exposes the new size with old bytes under it.
ImplementsStore == Store!Spec
=============================================================================
