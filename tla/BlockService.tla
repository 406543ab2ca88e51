---------------------------- MODULE BlockService ----------------------------
(***************************************************************************)
(* The disk a virtio-blk guest may rely on, without rings, interrupts or   *)
(* vCPUs: submitted requests are served one at a time, in the order they   *)
(* were submitted, each exactly once; a served read returns what the       *)
(* writes served before it left, and only a failed write is partial.       *)
(***************************************************************************)
EXTENDS Integers, Sequences

CONSTANTS Req, Sector

VARIABLES
  queue,    \* the requests submitted and not served
  asked,    \* what each request asks
  answer,   \* status "none" until the request is served
  disk      \* for each sector, the request that wrote it last

Blank == [s \in Sector |-> 0]

Init ==
  /\ queue = <<>>
  /\ disk = Blank
  /\ \A r \in Req : answer[r].status = "none"

Fresh(r) ==
  answer[r].status = "none" /\ \A k \in 1 .. Len(queue) : queue[k] # r

Prepare(r) ==
  /\ Fresh(r)
  /\ \A q \in Req \ {r} : asked'[q] = asked[q]
  /\ UNCHANGED <<queue, answer, disk>>

Submit(r) ==
  /\ Fresh(r)
  /\ queue' = Append(queue, r)
  /\ UNCHANGED <<asked, answer, disk>>

Span(r, k) == asked[r].first .. asked[r].first + k - 1
Written(r, k) == [s \in Sector |-> IF s \in Span(r, k) THEN r ELSE disk[s]]

Read(r) ==
  /\ asked[r].op = "in"
  /\ answer' = [answer EXCEPT ![r] = [status |-> "ok",
       data |-> [s \in Sector |->
                   IF s \in Span(r, asked[r].segs) THEN disk[s] ELSE 0]]]
  /\ UNCHANGED disk

Write(r) ==
  /\ asked[r].op = "out"
  /\ answer' = [answer EXCEPT ![r] = [status |-> "ok", data |-> Blank]]
  /\ disk' = Written(r, asked[r].segs)

\* A flush, or the device's name.
Acknowledge(r) ==
  /\ asked[r].op \in {"flush", "id"}
  /\ answer' = [answer EXCEPT ![r] = [status |-> "ok", data |-> Blank]]
  /\ UNCHANGED disk

Refuse(r) ==
  /\ asked[r].op = "other"
  /\ answer' = [answer EXCEPT ![r] = [status |-> "unsupp", data |-> Blank]]
  /\ UNCHANGED disk

Fail(r) ==
  /\ asked[r].op \in {"in", "out", "flush"}
  /\ answer' = [answer EXCEPT ![r] = [status |-> "ioerr", data |-> Blank]]
  /\ \/ UNCHANGED disk
     \/ /\ asked[r].op = "out"
        /\ \E k \in 0 .. asked[r].segs - 1 : disk' = Written(r, k)

Serve ==
  /\ queue # <<>>
  /\ queue' = Tail(queue)
  /\ LET r == Head(queue)
     IN Read(r) \/ Write(r) \/ Acknowledge(r) \/ Refuse(r) \/ Fail(r)
  /\ UNCHANGED asked

\* The driver resets the device: what was not served never will be.
Abandon == queue' = <<>> /\ UNCHANGED <<asked, answer, disk>>

Next ==
  \/ Serve \/ Abandon
  \/ \E r \in Req : Prepare(r) \/ Submit(r)

Spec == Init /\ [][Next]_<<queue, asked, answer, disk>>
=============================================================================
