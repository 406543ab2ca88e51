-------------------------------- MODULE TcpNat --------------------------------
(***************************************************************************)
(* TCP through the userspace NAT (network/network.cpp): the table of       *)
(* connections behind Impl::mtx, the handler that runs on the vCPU which   *)
(* kicked the TX queue, and the detached helper threads: one that dials    *)
(* the host for each outbound connection, one that forwards each inbound   *)
(* one, one that reads the host socket of each established one.            *)
(*                                                                         *)
(* handle_tcp is called with the device's mutex held, so its unlocked tail *)
(* (write, then reply) is overtaken by helper threads only.  Sequence      *)
(* numbers are counted from each side's initial number.  A segment of the  *)
(* guest carries at most one byte, the j-th of its connection; one read    *)
(* from the host any number.  The guest and the host are external.      *)
(***************************************************************************)
EXTENDS Integers, Sequences, FiniteSets

CONSTANTS
  OutKey,       \* 4-tuples of connections the guest may open
  EportMod,     \* 2^16: next_eport wraps here
  MaxConn,      \* bound on the TcpConn objects
  MaxId,        \* bound on the guest's connections
  MaxSent,      \* bound on the bytes the guest sends on a connection
  MaxRead,      \* the host sends while fewer numbers than this are taken
  MaxAttempts   \* inbound_fwd sends this many SYNs (5)

ASSUME NatBounds ==
  /\ {EportMod, MaxAttempts} \subseteq Nat \ {0}
  /\ {MaxConn, MaxId, MaxSent, MaxRead} \subseteq Nat

\* The table's keys.  That of an inbound connection is its ephemeral port;
\* nothing keeps the guest from opening a connection with the same 4-tuple.
Key  == OutKey \cup 0 .. EportMod - 1
Conn == 1 .. MaxConn
None == 0

VARIABLES
  conns,     \* Impl::conns, a TcpConn or None for each key
  done,      \* Impl::done_queue
  eport,     \* Impl::next_eport
  made,      \* TcpConn objects created
  conn,      \* their fields
  helper,    \* the thread that dials or forwards each connection
  io,        \* the thread launch_io_thread starts for it
  job,       \* the unlocked tail of handle_tcp
  (* the guest, the host and the wire *)
  guest, ids, emitted, written

nat   == <<conns, done, eport, made, conn, helper, io, job>>
world == <<guest, ids, emitted, written>>
vars  == <<nat, world>>

States == {"connecting", "synack", "est"}
Fields == [key : Key, state : States, stop : BOOLEAN,
           hnxt : Nat, gnxt : Nat,
           id : 0 .. MaxId,                \* whose numbers g_nxt counts
           sock : {"none", "open", "shut", "failed"}]

Dialing    == {"dial", "answer"}
Forwarding == {"add", "syn", "check", "erase"}
HelperPcs  == {"none", "ended"} \cup Dialing \cup Forwarding
IoPcs == {"none", "top", "wait", "send", "last", "push", "ended"}

Segment(c, kind, seq, len) == [conn |-> c, kind |-> kind, seq |-> seq, len |-> len]
NoJob == [conn |-> None, byte |-> 0, fin |-> FALSE, seq |-> 0]
Closed == [st |-> "closed", id |-> 0, sent |-> 0]

Init ==
  /\ conns = [k \in Key |-> None] /\ done = {}
  /\ eport = 0 /\ made = 0
  /\ conn = [c \in Conn |->
       [key |-> 0, state |-> "connecting", stop |-> FALSE, hnxt |-> 0,
        gnxt |-> 0, id |-> 0, sock |-> "none"]]
  /\ helper = [c \in Conn |-> [pc |-> "none", n |-> 0]]
  /\ io = [c \in Conn |-> [pc |-> "none", kind |-> "data", len |-> 0]]
  /\ job = NoJob
  /\ guest = [k \in Key |-> Closed] /\ ids = 0
  /\ emitted = {}
  /\ written = [c \in Conn |-> <<>>]

-----------------------------------------------------------------------------
(* handle_tcp, up to the unlock.  Its first lines erase what the done      *)
(* queue names from the table.                                             *)

Drained == [k \in Key |-> IF k \in done THEN None ELSE conns[k]]

Idle == job = NoJob

\* A SYN, sent again or for a new connection (of a guest that has rebooted,
\* perhaps): a TcpConn, unless the key is in the table.
HandleSyn(k, fresh) ==
  LET id == IF fresh THEN ids + 1 ELSE guest[k].id
      c  == made + 1
  IN /\ Idle
     /\ k \in OutKey
     /\ fresh \/ guest[k].st = "syn"
     /\ id <= MaxId
     /\ ids' = IF fresh THEN id ELSE ids
     /\ guest' = [guest EXCEPT ![k] = [st |-> "syn", id |-> id, sent |-> 0]]
     /\ done' = {}
     /\ IF Drained[k] # None
          THEN /\ conns' = Drained
               /\ UNCHANGED <<made, conn, helper>>
          ELSE /\ c \in Conn
               /\ made' = c
               /\ conns' = [Drained EXCEPT ![k] = c]
               /\ conn' = [conn EXCEPT ![c].key = k, ![c].id = id]
               /\ helper' = [helper EXCEPT ![c].pc = "dial"]
     /\ UNCHANGED <<eport, io, job, emitted, written>>

\* An RST ends the connection at once.
HandleRst(k) ==
  LET c == Drained[k]
  IN /\ Idle
     /\ guest[k].st # "closed"
     /\ guest' = [guest EXCEPT ![k] = Closed]
     /\ done' = {}
     /\ conns' = [Drained EXCEPT ![k] = None]
     /\ conn' = IF c = None THEN conn ELSE [conn EXCEPT ![c].stop = TRUE]
     /\ UNCHANGED <<eport, made, helper, io, job, ids, emitted, written>>

Establish(c, id) ==
  /\ conn' = [conn EXCEPT ![c].state = "est", ![c].id = id]
  /\ io' = [io EXCEPT ![c].pc = "top"]

\* The guest accepts an inbound connection with SYN|ACK.
HandleSynAck(k) ==
  LET c  == Drained[k]
      id == ids + 1
  IN /\ Idle
     /\ id <= MaxId
     /\ \E s \in emitted : s.kind = "syn" /\ conn[s.conn].key = k
     /\ ids' = id
     /\ guest' = [guest EXCEPT ![k] = [st |-> "est", id |-> id, sent |-> 0]]
     /\ done' = {}
     /\ conns' = Drained
     /\ IF c # None /\ conn[c].state = "synack"
          THEN Establish(c, id)
          ELSE UNCHANGED <<conn, io>>
     /\ UNCHANGED <<eport, made, helper, job, emitted, written>>

\* The reply to a SYN reached the guest.
GuestEstablishes(k) ==
  /\ guest[k].st = "syn"
  /\ \E s \in emitted :
       /\ s.kind = "synack"
       /\ conn[s.conn].key = k /\ conn[s.conn].id = guest[k].id
  /\ guest' = [guest EXCEPT ![k].st = "est"]
  /\ UNCHANGED <<nat, ids, emitted, written>>

\* Mutation: any data of the guest is accepted, in order or not.
InOrderAlways(c, id, j) == j # 0

InOrder(c, id, j) == j # 0 /\ id = conn[c].id /\ j = conn[c].gnxt + 1

\* Mutation: the FIN is answered with a number that is not taken.
TakeSegmentNoNumber(c, id, j, fin) ==
  LET new == InOrder(c, id, j)
      C   == conn[c]
  IN /\ conn' = [conn EXCEPT ![c] =
          [C EXCEPT !.gnxt = @ + (IF new THEN 1 ELSE 0) + (IF fin THEN 1 ELSE 0),
                    !.stop = @ \/ fin,
                    !.sock = IF fin /\ @ = "open" THEN "shut" ELSE @]]
     /\ job' = IF new \/ fin
          THEN [conn |-> c, byte |-> IF new THEN j ELSE 0, fin |-> fin,
                seq |-> C.hnxt]
          ELSE NoJob

\* Data and FIN on an established connection: shutdown(SHUT_WR) comes before
\* the data of the same segment is written.
TakeSegment(c, id, j, fin) ==
  LET new == InOrder(c, id, j)
      C   == conn[c]
  IN /\ conn' = [conn EXCEPT ![c] =
          [C EXCEPT !.gnxt = @ + (IF new THEN 1 ELSE 0) + (IF fin THEN 1 ELSE 0),
                    !.hnxt = @ + (IF fin THEN 1 ELSE 0),
                    !.stop = @ \/ fin,
                    !.sock = IF fin /\ @ = "open" THEN "shut" ELSE @]]
     /\ job' = IF new \/ fin
          THEN [conn |-> c, byte |-> IF new THEN j ELSE 0, fin |-> fin,
                seq |-> C.hnxt]
          ELSE NoJob

\* Any other segment: byte j (0: none, a sent one: a retransmission), and FIN
\* after the last.  The first after SYN|ACK only establishes: its data and
\* its FIN are dropped.  Without an entry it is answered with RST.
HandleSegment(k, j, fin) ==
  LET c   == Drained[k]
      g   == guest[k]
      fins == c # None /\ conn[c].state = "est" /\ fin
  IN /\ Idle
     /\ g.st = "est" \/ (g.st = "fin" /\ fin /\ j <= g.sent)
     /\ j <= MaxSent /\ j <= g.sent + 1
     /\ fin => j \in {0, g.sent, g.sent + 1}
     /\ guest' = [guest EXCEPT ![k].sent = IF j > @ THEN j ELSE @,
                               ![k].st = IF fin THEN "fin" ELSE @]
     /\ done' = {}
     /\ conns' = IF fins THEN [Drained EXCEPT ![k] = None] ELSE Drained
     /\ CASE c # None /\ conn[c].state = "est" ->
               TakeSegment(c, g.id, j, fin) /\ UNCHANGED io
          [] c # None /\ conn[c].state = "synack" ->
               Establish(c, conn[c].id) /\ UNCHANGED job
          [] OTHER -> UNCHANGED <<conn, io, job>>
     /\ UNCHANGED <<eport, made, helper, ids, emitted, written>>

\* The tail: the data is written to the host unless the socket is shut or
\* broken ...
Write ==
  /\ job.byte # 0
  /\ LET c == job.conn
     IN \/ /\ conn[c].sock = "open"
           /\ written' = [written EXCEPT ![c] = Append(@, job.byte)]
           /\ UNCHANGED conn
        \/ /\ conn' = [conn EXCEPT ![c].sock =
                         IF @ = "open" THEN "failed" ELSE @]
           /\ UNCHANGED written
  /\ job' = IF job.fin THEN [job EXCEPT !.byte = 0] ELSE NoJob
  /\ UNCHANGED <<conns, done, eport, made, helper, io, guest, ids, emitted>>

\* ... and a FIN is answered with our own.
ReplyFin ==
  /\ job.fin /\ job.byte = 0
  /\ emitted' = emitted \cup {Segment(job.conn, "fin", job.seq, 1)}
  /\ job' = NoJob
  /\ UNCHANGED <<conns, done, eport, made, conn, helper, io, guest, ids, written>>

-----------------------------------------------------------------------------
(* The thread that dials the host. *)

HelperGoes(c, from, to) ==
  helper[c].pc = from /\ helper' = [helper EXCEPT ![c].pc = to]

\* poll() > 0: connected, or refused, which is not looked at and shows as the
\* first read or write failing.
DialDone(c) ==
  /\ HelperGoes(c, "dial", "answer")
  /\ conn' = [conn EXCEPT ![c].sock = "open", ![c].state = "synack"]
  /\ UNCHANGED <<conns, done, eport, made, io, job, world>>

\* No socket, or no answer in five seconds: whatever has the key is erased.
DialFails(c) ==
  /\ HelperGoes(c, "dial", "ended")
  /\ conns' = [conns EXCEPT ![conn[c].key] = None]
  /\ UNCHANGED <<done, eport, made, conn, io, job, world>>

\* h_nxt.fetch_add(1) numbers the SYN|ACK; the initial number is 0.
DialAnswer(c) ==
  /\ HelperGoes(c, "answer", "ended")
  /\ conn' = [conn EXCEPT ![c].hnxt = @ + 1]
  /\ emitted' = emitted \cup {Segment(c, "synack", conn[c].hnxt, 1)}
  /\ UNCHANGED <<conns, done, eport, made, io, job, guest, ids, written>>

-----------------------------------------------------------------------------
(* inbound_fwd, on a thread of its own for each accepted connection. *)

HostConnects ==
  LET c == made + 1
  IN /\ c \in Conn
     /\ made' = c
     /\ eport' = (eport + 1) % EportMod
     /\ conn' = [conn EXCEPT ![c] = [@ EXCEPT !.key = eport, !.hnxt = 1,
                                      !.state = "synack", !.sock = "open"]]
     /\ helper' = [helper EXCEPT ![c].pc = "add"]
     /\ UNCHANGED <<conns, done, io, job, world>>

\* emplace() leaves an entry that has the key alone.
FwdAdd(c) ==
  LET k == conn[c].key
  IN /\ HelperGoes(c, "add", "syn")
     /\ conns' = IF conns[k] = None THEN [conns EXCEPT ![k] = c] ELSE conns
     /\ UNCHANGED <<done, eport, made, conn, io, job, world>>

FwdSyn(c) ==
  /\ HelperGoes(c, "syn", "check")
  /\ emitted' = emitted \cup {Segment(c, "syn", 0, 1)}
  /\ UNCHANGED <<conns, done, eport, made, conn, io, job, guest, ids, written>>

\* Mutation: the attempts are not counted.
FwdCheckForever(c) ==
  LET e == conns[conn[c].key]
  IN /\ helper[c].pc = "check"
     /\ helper' = [helper EXCEPT ![c].pc =
          IF e = None \/ conn[e].state # "synack" THEN "ended" ELSE "syn"]
     /\ UNCHANGED <<conns, done, eport, made, conn, io, job, world>>

\* After a pause: settled, or another attempt, or the last one failed.
FwdCheck(c) ==
  LET e == conns[conn[c].key]
      n == helper[c].n + 1
      next == IF e = None \/ conn[e].state # "synack" THEN "ended"
              ELSE IF n < MaxAttempts THEN "syn" ELSE "erase"
  IN /\ helper[c].pc = "check"
     /\ helper' = [helper EXCEPT ![c] =
          [pc |-> next, n |-> IF next = "syn" THEN n ELSE 0]]
     /\ UNCHANGED <<conns, done, eport, made, conn, io, job, world>>

FwdErase(c) ==
  /\ HelperGoes(c, "erase", "ended")
  /\ conns' = [conns EXCEPT ![conn[c].key] = None]
  /\ UNCHANGED <<done, eport, made, conn, io, job, world>>

-----------------------------------------------------------------------------
(* The thread of launch_io_thread. *)

IoGoes(c, from, to) ==
  io[c].pc = from /\ io' = [io EXCEPT ![c].pc = to]

\* Mutation: the loop does not look at stop.
IoCheckNever(c) ==
  /\ IoGoes(c, "top", "wait")
  /\ UNCHANGED <<conns, done, eport, made, conn, helper, job, world>>

IoCheck(c) ==
  /\ IoGoes(c, "top", IF conn[c].stop THEN "last" ELSE "wait")
  /\ UNCHANGED <<conns, done, eport, made, conn, helper, job, world>>

\* poll() times out after 100 ms; or it fails or the host closed; or data.
IoTimeout(c) ==
  /\ IoGoes(c, "wait", "top")
  /\ UNCHANGED <<conns, done, eport, made, conn, helper, job, world>>

IoEof(c) ==
  /\ IoGoes(c, "wait", "last")
  /\ UNCHANGED <<conns, done, eport, made, conn, helper, job, world>>

IoRead(c) ==
  /\ io[c].pc = "wait"
  /\ conn[c].sock \in {"open", "shut"}
  /\ \E n \in 1 .. MaxRead + 1 - conn[c].hnxt :
       io' = [io EXCEPT ![c] = [pc |-> "send", kind |-> "data", len |-> n]]
  /\ UNCHANGED <<conns, done, eport, made, conn, helper, job, world>>

\* h_nxt.fetch_add(n) numbers what is sent, data or the FIN.
IoSend(c) ==
  /\ IoGoes(c, "send", IF io[c].kind = "fin" THEN "push" ELSE "top")
  /\ emitted' = emitted \cup {Segment(c, io[c].kind, conn[c].hnxt, io[c].len)}
  /\ conn' = [conn EXCEPT ![c].hnxt = @ + io[c].len]
  /\ UNCHANGED <<conns, done, eport, made, helper, job, guest, ids, written>>

\* Out of the loop: our FIN, unless the connection was stopped.
IoLast(c) ==
  /\ io[c].pc = "last"
  /\ io' = [io EXCEPT ![c] =
       IF conn[c].stop THEN [@ EXCEPT !.pc = "push"]
       ELSE [pc |-> "send", kind |-> "fin", len |-> 1]]
  /\ UNCHANGED <<conns, done, eport, made, conn, helper, job, world>>

\* Mutation: a stopped thread ends without a word.
IoPushSilently(c) ==
  /\ IoGoes(c, "push", "ended")
  /\ UNCHANGED <<conns, done, eport, made, conn, helper, job, world>>

IoPush(c) ==
  /\ IoGoes(c, "push", "ended")
  /\ done' = done \cup {conn[c].key}
  /\ UNCHANGED <<conns, eport, made, conn, helper, job, world>>

-----------------------------------------------------------------------------
Handle ==
  \E k \in Key :
    \/ \E fresh \in BOOLEAN : HandleSyn(k, fresh)
    \/ HandleRst(k) \/ HandleSynAck(k) \/ GuestEstablishes(k)
    \/ \E j \in 0 .. MaxSent, fin \in BOOLEAN : HandleSegment(k, j, fin)

Finish == Write \/ ReplyFin

Helper(c) ==
  \/ DialDone(c) \/ DialFails(c) \/ DialAnswer(c)
  \/ FwdAdd(c) \/ FwdSyn(c) \/ FwdCheck(c) \/ FwdErase(c)

Io(c) ==
  \/ IoCheck(c) \/ IoTimeout(c) \/ IoEof(c) \/ IoRead(c)
  \/ IoSend(c) \/ IoLast(c) \/ IoPush(c)

Next ==
  \/ Handle \/ Finish \/ HostConnects
  \/ \E c \in Conn : Helper(c) \/ Io(c)

Spec == Init /\ [][Next]_vars

(* Detached threads keep running, and a write to the host ends.  Nothing   *)
(* is assumed of the guest or of who connects.                             *)
FairSpec ==
  Spec /\ WF_vars(Finish) /\ \A c \in Conn : WF_vars(Helper(c)) /\ WF_vars(Io(c))
-----------------------------------------------------------------------------
(* Every variable has its type. *)
TypeOK ==
  /\ conns \in [Key -> {None} \cup Conn] /\ done \subseteq Key
  /\ eport \in 0 .. EportMod - 1 /\ made \in {None} \cup Conn
  /\ conn \in [Conn -> Fields]
  /\ \A c \in Conn : /\ helper[c].pc \in HelperPcs
                     /\ helper[c].n \in 0 .. MaxAttempts
                     /\ io[c].pc \in IoPcs
  /\ job.conn \in {None} \cup Conn /\ job.byte \in 0 .. MaxSent
  /\ ids \in 0 .. MaxId

Running(c) == io[c].pc \notin {"none", "ended"}

(* Types; and no entry is left in the table with nobody to remove it: a    *)
(* connecting one has its dialing thread, an established one its reader or *)
(* its key in done_queue, an inbound one a thread that counts attempts; an *)
(* outbound one that is dialed has had its SYN|ACK and waits for the guest.*)
EntriesAreServed ==
  /\ TypeOK
  /\ \A k \in Key : conns[k] # None =>
    LET c == conns[k] IN
      CASE conn[c].state = "connecting" -> helper[c].pc = "dial"
        [] conn[c].state = "est" -> Running(c) \/ k \in done
        [] conn[c].state = "synack" ->
             \/ helper[c].pc \in Dialing
             \/ Segment(c, "synack", 0, 1) \in emitted
             \/ \E d \in Conn :
                  conn[d].key = k /\ helper[d].pc \in Forwarding

\* Numbers that are taken and whose segment is still to be sent.
InFlight ==
  {Segment(c, "syn", 0, 1) : c \in {d \in Conn : helper[d].pc \in {"add", "syn"}}}
  \cup IF job.fin THEN {Segment(job.conn, "fin", job.seq, 1)} ELSE {}

Carriers(c, n) ==
  {s \in emitted \cup InFlight :
     s.conn = c /\ n \in s.seq .. s.seq + s.len - 1}

(* Each sequence number below h_nxt is carried by exactly one segment that *)
(* was, or is about to be, sent to the guest: the reader and the handler   *)
(* never give two pieces of the stream one number, and leave no gap the    *)
(* guest would wait for for ever (the fetch_adds of h_nxt).                *)
SequenceTiled ==
  \A c \in Conn : \A n \in 0 .. conn[c].hnxt - 1 :
    Cardinality(Carriers(c, n)) = 1

(* What the host's socket is given are the guest's bytes, each once and in *)
(* order, and while the socket takes them it has every byte that was       *)
(* acknowledged, but the one the handler is about to write.                *)
AcceptedIsWritten ==
  \A c \in Conn :
    /\ written[c] = [i \in 1 .. Len(written[c]) |-> i]
    /\ conn[c].state = "est" /\ conn[c].sock = "open" =>
         conn[c].gnxt = Len(written[c])
           + (IF job.conn = c /\ job.byte # 0 THEN 1 ELSE 0)

(* A forwarded connection does not stay half open: within its attempts the *)
(* thread of inbound_fwd ends, and with it the half-open entry.            *)
InboundSettles ==
  \A c \in Conn : (helper[c].pc = "add") ~> (helper[c].pc = "ended")

(* A reader that is stopped, by RST or FIN of the guest, ends.             *)
StoppedReaderEnds ==
  \A c \in Conn : conn[c].stop ~> (io[c].pc \in {"none", "ended"})
=============================================================================
