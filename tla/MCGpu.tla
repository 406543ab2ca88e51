-------------------------------- MODULE MCGpu --------------------------------
(* Gpu with a display of two by two pixels and scatter lists that are not   *)
(* the identity: entries of unequal length, in descending order.            *)
EXTENDS Gpu, TLC

\* Two resources on the same pages, in different order.
SomeLists ==
  1 :> <<[gpa |-> 3, len |-> 1], [gpa |-> 0, len |-> 3]>>
  @@ 2 :> <<[gpa |-> 2, len |-> 2], [gpa |-> 0, len |-> 2]>>

\* A column, and everything with an edge that hangs over.
SomeRects == {<<1, 0, 1, 2>>, <<0, 0, 3, 2>>}
=============================================================================
