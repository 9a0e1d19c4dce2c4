-------------------------------- MODULE Feed --------------------------------
(***************************************************************************)
(* What the bridge promises the money plane: one log, only ever extended   *)
(* at its end, and a reader that comes by every entry of it in order.      *)
(***************************************************************************)
EXTENDS Naturals, Sequences

VARIABLES
  log,   \* the events published so far
  read   \* how many of them the reader is done with

Init == log = <<>> /\ read = 0

Publish ==
  /\ Len(log') > Len(log)
  /\ SubSeq(log', 1, Len(log)) = log
  /\ UNCHANGED read

Consume ==
  /\ read' \in read + 1 .. Len(log)
  /\ UNCHANGED log

Next == Publish \/ Consume

Spec == Init /\ [][Next]_<<log, read>>
=============================================================================
