------------------------------ MODULE LossyFifo ------------------------------
(***************************************************************************)
(* What a guest may expect of what a device brings it (frames, events):    *)
(* some may be lost, oldest first; the others arrive once each and in the  *)
(* order in which they were sent.                                          *)
(***************************************************************************)
EXTENDS Naturals, Sequences

VARIABLES
  sent,      \* they are numbered 1 .. sent
  transit,   \* those on their way
  delivered  \* those that arrived

Init == sent = 0 /\ transit = <<>> /\ delivered = <<>>

\* The n oldest may be lost.
Left(n) == SubSeq(transit, n + 1, Len(transit))

Send ==
  /\ sent' = sent + 1
  /\ \E n \in 0 .. Len(transit) : transit' = Append(Left(n), sent + 1)
  /\ UNCHANGED delivered

Lose ==
  /\ \E n \in 0 .. Len(transit) : transit' = Left(n)
  /\ UNCHANGED <<sent, delivered>>

Deliver ==
  /\ transit # <<>>
  /\ transit' = Tail(transit)
  /\ delivered' = Append(delivered, Head(transit))
  /\ UNCHANGED sent

Next == Send \/ Lose \/ Deliver

Spec == Init /\ [][Next]_<<sent, transit, delivered>>
=============================================================================
