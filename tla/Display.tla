------------------------------- MODULE Display -------------------------------
(***************************************************************************)
(* What a guest and the application may expect of the 2D display: commands *)
(* take effect one by one and in order, a transfer makes the picture of a  *)
(* resource what the guest sees in its backing memory, and every flush of  *)
(* the resource on the scanout is shown once, as the picture was then.     *)
(* When it is shown is left open, and so is the order.                     *)
(***************************************************************************)
EXTENDS Naturals, Sequences

CONSTANTS Res, Pixel

VARIABLES
  view,     \* what the guest has drawn for each resource
  todo,     \* commands [op, res, area] not yet taken
  picture,  \* of each resource: what the last transfers made of it, or Gone
  bound,    \* the resource on the scanout; 0 is none
  flushes,  \* frames flushed so far; they are numbered
  owed      \* frames [n, picture] not yet shown

vars == <<view, todo, picture, bound, flushes, owed>>

Gone  == <<>>
Black == [p \in Pixel |-> 0]

Init ==
  /\ view \in [Res -> [Pixel -> Nat]]
  /\ todo = <<>>
  /\ picture = [r \in Res |-> Gone]
  /\ bound = 0 /\ flushes = 0 /\ owed = {}

Draw ==
  /\ view' # view
  /\ UNCHANGED <<todo, picture, bound, flushes, owed>>

Submit ==
  /\ Len(todo') = Len(todo) + 1
  /\ SubSeq(todo', 1, Len(todo)) = todo
  /\ UNCHANGED <<view, picture, bound, flushes, owed>>

Create(c) ==
  /\ c.op = "create"
  /\ picture' = [picture EXCEPT ![c.res] = Black]
  /\ UNCHANGED <<bound, flushes, owed>>

Unref(c) ==
  /\ c.op = "unref"
  /\ picture' = [picture EXCEPT ![c.res] = Gone]
  /\ bound' = IF bound = c.res THEN 0 ELSE bound
  /\ UNCHANGED <<flushes, owed>>

Bind(c) ==
  /\ c.op = "scanout"
  /\ bound' = c.res
  /\ UNCHANGED <<picture, flushes, owed>>

Transfer(c) ==
  /\ c.op = "transfer"
  /\ picture' = [picture EXCEPT ![c.res] =
       [p \in Pixel |-> IF p \in c.area THEN view[c.res][p] ELSE @[p]]]
  /\ UNCHANGED <<bound, flushes, owed>>

Flush(c) ==
  /\ c.op = "flush"
  /\ IF c.res = bound
       THEN /\ flushes' = flushes + 1
            /\ owed' = owed \cup {[n |-> flushes', picture |-> picture[c.res]]}
       ELSE UNCHANGED <<flushes, owed>>
  /\ UNCHANGED <<picture, bound>>

NoEffect(c) ==
  /\ c.op \in {"attach", "detach", "info"}
  /\ UNCHANGED <<picture, bound, flushes, owed>>

Take ==
  /\ todo # <<>>
  /\ todo' = Tail(todo)
  /\ \/ Create(Head(todo)) \/ Unref(Head(todo)) \/ Bind(Head(todo))
     \/ Transfer(Head(todo)) \/ Flush(Head(todo)) \/ NoEffect(Head(todo))
  /\ UNCHANGED view

Show ==
  /\ \E f \in owed : owed' = owed \ {f}
  /\ UNCHANGED <<view, todo, picture, bound, flushes>>

\* A reset forgets the resources; the frames flushed before it are shown.
Reset ==
  /\ todo' = <<>>
  /\ picture' = [r \in Res |-> Gone]
  /\ bound' = 0
  /\ UNCHANGED <<view, flushes, owed>>

Next == Draw \/ Submit \/ Take \/ Show \/ Reset

Spec == Init /\ [][Next]_vars
=============================================================================
