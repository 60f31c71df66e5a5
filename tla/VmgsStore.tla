------------------------------ MODULE VmgsStore ------------------------------
(***************************************************************************)
(* What a VMGS promises to one process that reads and writes it through a  *)
(* VmgsIO: the file holds one string of bytes.  A write lays a growing     *)
(* prefix of the new data over the old (the code updates the allocation in *)
(* place), then switches to exactly the new data in one step (the header   *)
(* with the size).  A write that stops early leaves what it has done.      *)
(***************************************************************************)
EXTENDS Naturals, Sequences

CONSTANTS
  Data,      \* what may be written
  Initial    \* what the file holds at first

VARIABLES
  content,   \* what a reader that opens the file gets
  writing,   \* a write is in progress
  data,      \* its data, <<>> when there is none
  done       \* the last call was a write, and it returned

vars == <<content, writing, data, done>>

Init == content = Initial /\ writing = FALSE /\ data = <<>> /\ done = FALSE

Begin(d) ==
  /\ ~ writing
  /\ writing' = TRUE /\ data' = d /\ done' = FALSE
  /\ UNCHANGED content

\* The content with its first n bytes replaced by the new ones.
Torn(n) == SubSeq(data, 1, n) \o SubSeq(content, n + 1, Len(content))
Prefixes == {n \in 1 .. Len(content) : n <= Len(data)}

Tear ==
  /\ writing
  /\ \E n \in Prefixes : content' = Torn(n)
  /\ UNCHANGED <<writing, data, done>>

Switch ==
  /\ writing
  /\ content' = data
  /\ UNCHANGED <<writing, data, done>>

\* The write returns; the last step it took may have been the switch.
Return ==
  /\ writing
  /\ content' = data
  /\ writing' = FALSE /\ data' = <<>> /\ done' = TRUE

\* The write throws, at its last step perhaps, or the process is killed.
Abort ==
  /\ writing
  /\ content' \in {content, data} \cup {Torn(n) : n \in Prefixes}
  /\ writing' = FALSE /\ data' = <<>> /\ done' = FALSE

\* Any other call.
Other == done' = FALSE /\ UNCHANGED <<content, writing, data>>

Next ==
  \/ \E d \in Data : Begin(d)
  \/ Tear \/ Switch \/ Return \/ Abort \/ Other

Spec == Init /\ [][Next]_vars
=============================================================================
