---------------------------- MODULE MCVirtioBlock ----------------------------
(* VirtioBlock with a short plan of requests.                               *)
EXTENDS VirtioBlock

Whole(op) == [op |-> op, first |-> 0, segs |-> NSector]
Short(op) == [op |-> op, first |-> 0, segs |-> 1]

\* Two writes of the whole image and a read of what they left, one segment for
\* each sector; instead of a write also a request that transfers nothing, which
\* is all that a device without an image is sent.
SomeAsks ==
  <<{Whole("out"), Short("flush")}, {Whole("out"), Short("other")},
    {Whole("in")}, {Short("id")}>>
=============================================================================
