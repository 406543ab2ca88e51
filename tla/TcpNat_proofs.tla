---------------------------- MODULE TcpNat_proofs ----------------------------
(***************************************************************************)
(* What the runs nat and nat_live check on two connections that share one  *)
(* 4-tuple, proved for any number of connections, 4-tuples, ephemeral      *)
(* ports, bytes and attempts.                                              *)
(***************************************************************************)
EXTENDS TcpNat, FiniteSetTheorems, SequenceTheorems, TLAPS

LEMMA Bounds ==
  /\ EportMod \in Nat \ {0} /\ MaxAttempts \in Nat \ {0}
  /\ MaxConn \in Nat /\ MaxId \in Nat /\ MaxSent \in Nat /\ MaxRead \in Nat
  BY NatBounds

LEMMA Keys ==
  /\ 0 \in Key /\ OutKey \subseteq Key /\ 0 .. EportMod - 1 \subseteq Key
  /\ Conn \subseteq Nat \ {0} /\ None \notin Conn
  BY Bounds DEF Key, Conn, None

\* What TypeOK leaves out of the threads and of the world around the NAT.
HelperState == [pc : HelperPcs, n : 0 .. MaxAttempts]
IoState == [pc : IoPcs, kind : {"data", "fin"}, len : Nat]
Job == [conn : {None} \cup Conn, byte : 0 .. MaxSent, fin : BOOLEAN, seq : Nat]
GuestState == [st : {"closed", "syn", "est", "fin"}, id : 0 .. MaxId,
               sent : 0 .. MaxSent]

Shapes ==
  /\ helper \in [Conn -> HelperState] /\ io \in [Conn -> IoState] /\ job \in Job
  /\ guest \in [Key -> GuestState] /\ ids \in 0 .. MaxId

\* The table, the queue and the counters.
Table ==
  /\ conns \in [Key -> {None} \cup Conn] /\ done \subseteq Key
  /\ eport \in 0 .. EportMod - 1 /\ made \in {None} \cup Conn

LEMMA TypeParts == TypeOK /\ Shapes <=> Table /\ Shapes /\ conn \in [Conn -> Fields]
  BY DEF TypeOK, Shapes, Table, HelperState, IoState, Job

LEMMA NumbersOfConns == \A c \in {None} \cup Conn : c \in Nat
  BY DEF Conn, None

LEMMA DrainedType == ASSUME Table PROVE Drained \in [Key -> {None} \cup Conn]
  BY DEF Drained, Table

(* Setting one field of a connection, a thread's place, a guest's state.   *)
LEMMA FieldsKept ==
  ASSUME NEW c \in Conn, NEW r \in Fields, conn \in [Conn -> Fields],
         conn' = [conn EXCEPT ![c] = r]
  PROVE  (conn \in [Conn -> Fields])'
  OBVIOUS

LEMMA HelperMoves ==
  ASSUME Shapes, NEW c \in Conn, NEW from, NEW to \in HelperPcs,
         HelperGoes(c, from, to)
  PROVE  /\ (helper \in [Conn -> HelperState])'
         /\ helper[c].pc = from
         /\ \A d \in Conn : helper'[d].pc = IF d = c THEN to ELSE helper[d].pc
  BY DEF HelperGoes, Shapes, HelperState

LEMMA IoMoves ==
  ASSUME Shapes, NEW c \in Conn, NEW from, NEW to \in IoPcs, IoGoes(c, from, to)
  PROVE  /\ (io \in [Conn -> IoState])'
         /\ io[c].pc = from
         /\ \A d \in Conn : io'[d].pc = IF d = c THEN to ELSE io[d].pc
  BY DEF IoGoes, Shapes, IoState

LEMMA EstablishTypes ==
  ASSUME Shapes, conn \in [Conn -> Fields], NEW c \in Conn, NEW id \in 0 .. MaxId,
         Establish(c, id)
  PROVE  (conn \in [Conn -> Fields])' /\ (io \in [Conn -> IoState])'
<1>1. (conn \in [Conn -> Fields])'
  BY ZenonT(40) DEF Establish, Fields, States
<1>2. (io \in [Conn -> IoState])'
  BY DEF Establish, Shapes, IoState, IoPcs
<1> QED
  BY <1>1, <1>2

-----------------------------------------------------------------------------
LEMMA TypesHold == Spec => [](TypeOK /\ Shapes)
<1> USE Bounds, Keys
<1> DEFINE Types == Table /\ Shapes /\ conn \in [Conn -> Fields]
<1>1. Init => Types
  <2> SUFFICES ASSUME Init PROVE Types
    OBVIOUS
  <2>1. Table
    BY DEF Init, Table, None
  <2>2. Shapes
    BY DEF Init, Shapes, HelperState, HelperPcs, IoState, IoPcs, Job, NoJob, None,
       GuestState, Closed
  <2>3. conn \in [Conn -> Fields]
    BY DEF Init, Fields, States
  <2> QED
    BY <2>1, <2>2, <2>3
<1>2. Types /\ [Next]_vars => Types'
  <2> SUFFICES ASSUME Table, Shapes, conn \in [Conn -> Fields], [Next]_vars
               PROVE  Types'
    OBVIOUS
  <2> USE DEF world, nat
  <2>1. ASSUME NEW k \in Key, NEW fresh \in BOOLEAN, HandleSyn(k, fresh)
        PROVE  Types'
    <3> DEFINE id == IF fresh THEN ids + 1 ELSE guest[k].id
               c  == made + 1
    <3>1. id \in 0 .. MaxId /\ ids' \in 0 .. MaxId
      BY <2>1 DEF HandleSyn, Shapes, GuestState
    <3>2. /\ guest' = [guest EXCEPT ![k] = [st |-> "syn", id |-> id, sent |-> 0]]
          /\ done' = {} /\ UNCHANGED <<eport, io, job>>
      BY <2>1 DEF HandleSyn
    <3> HIDE DEF id
    <3>3. guest' \in [Key -> GuestState]
      BY <3>1, <3>2 DEF Shapes, GuestState
    <3>4. CASE Drained[k] # None
      <4>1. conns' = Drained /\ UNCHANGED <<made, conn, helper>>
        BY <2>1, <3>4 DEF HandleSyn
      <4> QED
        BY <3>1, <3>2, <3>3, <4>1, DrainedType DEF Table, Shapes
    <3>5. CASE Drained[k] = None
      <4>1. /\ c \in Conn /\ made' = c /\ conns' = [Drained EXCEPT ![k] = c]
            /\ conn' = [conn EXCEPT ![c].key = k, ![c].id = id]
            /\ helper' = [helper EXCEPT ![c].pc = "dial"]
        BY <2>1, <3>5 DEF HandleSyn, id
      <4> HIDE DEF c
      <4>2. conn' \in [Conn -> Fields]
        BY <3>1, <4>1, ZenonT(40) DEF Fields
      <4>3. helper' \in [Conn -> HelperState]
        BY <4>1 DEF Shapes, HelperState, HelperPcs, Dialing
      <4>4. conns' \in [Key -> {None} \cup Conn]
        BY <4>1, DrainedType
      <4> QED
        BY <3>1, <3>2, <3>3, <4>1, <4>2, <4>3, <4>4 DEF Table, Shapes
    <3> QED
      BY <3>4, <3>5
  <2>2. ASSUME NEW k \in Key, HandleRst(k) PROVE Types'
    <3>1. Table'
      BY <2>2, DrainedType DEF HandleRst, Table
    <3>2. Shapes'
      BY <2>2 DEF HandleRst, Shapes, GuestState, Closed
    <3>3. (conn \in [Conn -> Fields])'
      BY <2>2, DrainedType, ZenonT(40) DEF HandleRst, Fields
    <3> QED
      BY <3>1, <3>2, <3>3
  <2>3. ASSUME NEW k \in Key, HandleSynAck(k) PROVE Types'
    <3> DEFINE c  == Drained[k]
               id == ids + 1
    <3>1. /\ id \in 0 .. MaxId /\ ids' = id /\ done' = {} /\ conns' = Drained
          /\ guest' = [guest EXCEPT ![k] = [st |-> "est", id |-> id, sent |-> 0]]
          /\ UNCHANGED <<eport, made, helper, job>>
      BY <2>3 DEF HandleSynAck, Shapes
    <3>2. guest' \in [Key -> GuestState]
      BY <3>1 DEF Shapes, GuestState
    <3>3. (conn \in [Conn -> Fields])' /\ (io \in [Conn -> IoState])'
      <4>1. CASE c # None /\ conn[c].state = "synack"
        <5>1. Establish(c, id) /\ c \in Conn
          BY <2>3, <4>1, DrainedType DEF HandleSynAck
        <5> QED
          BY <3>1, <5>1, EstablishTypes
      <4>2. CASE ~(c # None /\ conn[c].state = "synack")
        BY <2>3, <4>2 DEF HandleSynAck, Shapes
      <4> QED
        BY <4>1, <4>2
    <3> QED
      BY <3>1, <3>2, <3>3, DrainedType DEF Table, Shapes
  <2>4. ASSUME NEW k \in Key, GuestEstablishes(k) PROVE Types'
    BY <2>4 DEF GuestEstablishes, Table, Shapes, GuestState
  <2>5. ASSUME NEW k \in Key, NEW j \in 0 .. MaxSent, NEW fin \in BOOLEAN,
               HandleSegment(k, j, fin)
        PROVE  Types'
    <3> DEFINE c == Drained[k]
    <3>1. Table'
      BY <2>5, DrainedType DEF HandleSegment, Table
    <3>2. UNCHANGED <<helper, ids>>
          /\ guest' = [guest EXCEPT ![k].sent = IF j > @ THEN j ELSE @,
                                    ![k].st = IF fin THEN "fin" ELSE @]
      BY <2>5 DEF HandleSegment
    <3>3. guest' \in [Key -> GuestState]
      <4> DEFINE x == IF j > guest[k].sent THEN j ELSE guest[k].sent
                 y == IF fin THEN "fin" ELSE guest[k].st
      <4>1. guest[k] \in GuestState
        BY DEF Shapes
      <4>2. x \in 0 .. MaxSent /\ y \in {"closed", "syn", "est", "fin"}
        BY <4>1 DEF GuestState
      <4>3. guest' = [guest EXCEPT ![k].sent = x, ![k].st = y]
        BY <3>2
      <4> HIDE DEF x, y
      <4> QED
        BY <4>2, <4>3, ZenonT(40) DEF Shapes, GuestState
    <3>4. c \in {None} \cup Conn
      BY DrainedType
    <3>5. CASE c # None /\ conn[c].state = "est"
      <4>1. TakeSegment(c, guest[k].id, j, fin) /\ UNCHANGED io
        BY <2>5, <3>5 DEF HandleSegment
      <4> DEFINE new == InOrder(c, guest[k].id, j)
                 C   == conn[c]
                 r   == [C EXCEPT !.gnxt = @ + (IF new THEN 1 ELSE 0)
                                             + (IF fin THEN 1 ELSE 0),
                                  !.hnxt = @ + (IF fin THEN 1 ELSE 0),
                                  !.stop = @ \/ fin,
                                  !.sock = IF fin /\ @ = "open" THEN "shut" ELSE @]
      <4>2. conn' = [conn EXCEPT ![c] = r] /\ C \in Fields /\ c \in Conn
            /\ new \in BOOLEAN
        BY <3>4, <3>5, <4>1 DEF TakeSegment, InOrder
      <4>3. job' = IF new \/ fin
                     THEN [conn |-> c, byte |-> IF new THEN j ELSE 0, fin |-> fin,
                           seq |-> C.hnxt]
                     ELSE NoJob
        BY <4>1 DEF TakeSegment
      <4> HIDE DEF C, c, new
      <4>4. r \in Fields
        <5>1. /\ C.gnxt + (IF new THEN 1 ELSE 0) + (IF fin THEN 1 ELSE 0) \in Nat
              /\ C.hnxt + (IF fin THEN 1 ELSE 0) \in Nat
              /\ (C.stop \/ fin) \in BOOLEAN
          BY <4>2 DEF Fields
        <5>2. (IF fin /\ C.sock = "open" THEN "shut" ELSE C.sock)
                \in {"none", "open", "shut", "failed"}
          BY <4>2 DEF Fields
        <5> QED
          BY <4>2, <5>1, <5>2 DEF Fields
      <4>5. job' \in Job
        BY <4>2, <4>3 DEF Fields, Job, NoJob, None
      <4> HIDE DEF r
      <4>6. conn' \in [Conn -> Fields]
        BY <4>2, <4>4
      <4> QED
        BY <3>1, <3>2, <3>3, <4>1, <4>5, <4>6 DEF Shapes
    <3>6. CASE c # None /\ conn[c].state = "synack"
      <4>1. Establish(c, conn[c].id) /\ UNCHANGED job /\ c \in Conn
            /\ conn[c].id \in 0 .. MaxId
        BY <2>5, <3>4, <3>6 DEF HandleSegment, Fields
      <4> QED
        BY <3>1, <3>2, <3>3, <4>1, EstablishTypes DEF Shapes
    <3>7. CASE c = None \/ conn[c].state \notin {"est", "synack"}
      <4>1. UNCHANGED <<conn, io, job>>
        BY <2>5, <3>7 DEF HandleSegment
      <4> QED
        BY <3>1, <3>2, <3>3, <4>1 DEF Shapes
    <3> QED
      BY <3>5, <3>6, <3>7
  <2>6. CASE Finish
    <3>1. job' \in Job
      <4>1. [job EXCEPT !.byte = 0] \in Job /\ NoJob \in Job
        BY DEF Shapes, Job, NoJob, None
      <4> QED
        BY <2>6, <4>1 DEF Finish, Write, ReplyFin
    <3>2. (conn \in [Conn -> Fields])'
      <4>1. CASE UNCHANGED conn
        BY <4>1
      <4>2. CASE conn' = [conn EXCEPT ![job.conn].sock =
                           IF @ = "open" THEN "failed" ELSE @]
        <5> DEFINE x == IF conn[job.conn].sock = "open" THEN "failed"
                        ELSE conn[job.conn].sock
        <5>1. CASE job.conn \in Conn
          <6>1. x \in {"none", "open", "shut", "failed"}
            BY <5>1 DEF Fields
          <6>2. conn' = [conn EXCEPT ![job.conn].sock = x]
            BY <4>2
          <6> HIDE DEF x
          <6> QED
            BY <5>1, <6>1, <6>2 DEF Fields
        <5>2. CASE job.conn \notin Conn
          BY <4>2, <5>2
        <5> QED
          BY <5>1, <5>2
      <4> QED
        BY <2>6, <4>1, <4>2 DEF Finish, Write, ReplyFin
    <3>3. UNCHANGED <<conns, done, eport, made, helper, io, guest, ids>>
      BY <2>6 DEF Finish, Write, ReplyFin
    <3> QED
      BY <3>1, <3>2, <3>3 DEF Shapes, Table
  <2>7. CASE HostConnects
    <3>1. Table'
      BY <2>7 DEF HostConnects, Table
    <3>2. Shapes'
      BY <2>7 DEF HostConnects, Shapes, HelperState, HelperPcs, Forwarding
    <3>3. (conn \in [Conn -> Fields])'
      BY <2>7, ZenonT(40) DEF HostConnects, Table, Fields, States
    <3> QED
      BY <3>1, <3>2, <3>3
  <2>8. ASSUME NEW c \in Conn, Helper(c) PROVE Types'
    <3>1. conn[c] \in Fields
      OBVIOUS
    <3>2. {"answer", "ended", "syn", "check"} \subseteq HelperPcs
      BY DEF HelperPcs, Dialing, Forwarding
    <3>3. (helper \in [Conn -> HelperState])'
      <4>1. CASE FwdCheck(c)
        BY <4>1 DEF FwdCheck, Shapes, HelperState, HelperPcs, Forwarding
      <4> QED
        BY <2>8, <3>2, <4>1, HelperMoves
           DEF Helper, DialDone, DialFails, DialAnswer, FwdAdd, FwdSyn, FwdErase
    <3>4. (conn \in [Conn -> Fields])'
      <4>1. CASE DialDone(c)
        <5>1. conn' = [conn EXCEPT ![c] =
                         [conn[c] EXCEPT !.sock = "open", !.state = "synack"]]
          BY <4>1 DEF DialDone
        <5>2. [conn[c] EXCEPT !.sock = "open", !.state = "synack"] \in Fields
          BY <3>1 DEF Fields, States
        <5> QED
          BY <5>1, <5>2
      <4>2. CASE DialAnswer(c)
        BY <4>2 DEF DialAnswer, Fields
      <4> QED
        BY <2>8, <4>1, <4>2 DEF Helper, DialFails, FwdAdd, FwdSyn, FwdCheck, FwdErase
    <3>5. (conns \in [Key -> {None} \cup Conn])'
      BY <2>8, <3>1
         DEF Helper, DialDone, DialFails, DialAnswer, FwdAdd, FwdSyn, FwdCheck,
             FwdErase, Table, Fields
    <3>6. UNCHANGED <<done, eport, made, io, job, guest, ids>>
      BY <2>8 DEF Helper, DialDone, DialFails, DialAnswer, FwdAdd, FwdSyn, FwdCheck,
         FwdErase
    <3> QED
      BY <3>3, <3>4, <3>5, <3>6 DEF Table, Shapes
  <2>9. ASSUME NEW c \in Conn, Io(c) PROVE Types'
    <3>1. UNCHANGED <<conns, eport, made, helper, job, guest, ids>>
      BY <2>9 DEF Io, IoCheck, IoTimeout, IoEof, IoRead, IoSend, IoLast, IoPush
    <3>2. (done \subseteq Key)'
      BY <2>9 DEF Io, IoCheck, IoTimeout, IoEof, IoRead, IoSend, IoLast, IoPush,
         Table, Fields
    <3>3. (conn \in [Conn -> Fields])'
      <4>1. CASE IoSend(c)
        <5>1. io[c].len \in Nat /\ conn' = [conn EXCEPT ![c].hnxt = @ + io[c].len]
          BY <4>1 DEF IoSend, Shapes, IoState
        <5> QED
          BY <5>1 DEF Fields
      <4> QED
        BY <2>9, <4>1 DEF Io, IoCheck, IoTimeout, IoEof, IoRead, IoLast, IoPush
    <3>4. (io \in [Conn -> IoState])'
      <4>1. CASE IoRead(c)
        <5>1. PICK n \in 1 .. MaxRead + 1 - conn[c].hnxt :
                io' = [io EXCEPT ![c] = [pc |-> "send", kind |-> "data", len |-> n]]
          BY <4>1 DEF IoRead
        <5>2. n \in Nat
          BY <5>1
        <5> QED
          BY <5>1, <5>2 DEF Shapes, IoState, IoPcs
      <4>2. CASE IoLast(c)
        BY <4>2 DEF IoLast, Shapes, IoState, IoPcs
      <4>3. {"top", "wait", "last", "push", "ended"} \subseteq IoPcs
        BY DEF IoPcs
      <4> QED
        BY <2>9, <4>1, <4>2, <4>3, IoMoves
           DEF Io, IoCheck, IoTimeout, IoEof, IoSend, IoPush
    <3> QED
      BY <3>1, <3>2, <3>3, <3>4 DEF Table, Shapes
  <2>10. CASE UNCHANGED vars
    BY <2>10 DEF vars, Table, Shapes
  <2> QED
    BY <2>1, <2>2, <2>3, <2>4, <2>5, <2>6, <2>7, <2>8, <2>9, <2>10
       DEF Next, Handle
<1> QED
  BY <1>1, <1>2, TypeParts, PTL DEF Spec

-----------------------------------------------------------------------------
\* How far a connection is: nothing has happened to one that is not made or is
\* still dialed, only an established one has a reader, has taken bytes of the
\* guest or is what the handler's tail is about, and no number is used before
\* the SYN|ACK but by a connection established without one.
Stage(c) ==
  /\ c > made => helper[c].pc = "none" /\ conn[c].state = "connecting"
  /\ helper[c].pc = "dial" => conn[c].state = "connecting"
  /\ conn[c].state # "est" => io[c].pc = "none" /\ conn[c].gnxt = 0
  /\ conn[c].state = "connecting" => conn[c].hnxt = 0
  /\ helper[c].pc = "answer" => /\ conn[c].state # "connecting"
                                /\ conn[c].state = "synack" => conn[c].hnxt = 0

JobStage ==
  /\ job.byte # 0 \/ job.fin => job.conn # None
  /\ job.conn # None => conn[job.conn].state = "est"

Stages == JobStage /\ \A c \in Conn : Stage(c)

LEMMA StagesHold == Spec => []Stages
<1> USE Bounds, Keys
<1>1. Init => Stages
  BY DEF Init, Stages, Stage, JobStage, NoJob, None
<1>2. TypeOK /\ Shapes /\ Stages /\ [Next]_vars => Stages'
  <2> SUFFICES ASSUME Table, Shapes, conn \in [Conn -> Fields], Stages,
                      [Next]_vars
               PROVE  Stages'
    BY TypeParts
  <2> USE DEF world, nat
  <2>0. JobStage /\ \A d \in Conn : Stage(d)
    BY DEF Stages
  <2>1. /\ job.conn \in {None} \cup Conn /\ made \in Nat
        /\ \A d \in Conn : d > made + 1 => d > made
    BY DEF Table, Shapes, Job, None
  <2>2. ASSUME UNCHANGED job, \A d \in Conn : conn[d].state = "est" => conn'[d].state = "est"
        PROVE  JobStage'
    BY <2>0, <2>1, <2>2 DEF JobStage
  <2>3. ASSUME NEW k \in Key, NEW fresh \in BOOLEAN, HandleSyn(k, fresh)
        PROVE  Stages'
    <3>1. UNCHANGED <<io, job>>
      BY <2>3 DEF HandleSyn
    <3>2. CASE UNCHANGED <<made, conn, helper>>
      BY <3>1, <3>2 DEF Stages, Stage, JobStage
    <3>3. CASE ~ UNCHANGED <<made, conn, helper>>
      <4> DEFINE c == made + 1
                 id == IF fresh THEN ids + 1 ELSE guest[k].id
      <4>1. /\ c \in Conn /\ made' = c
            /\ conn' = [conn EXCEPT ![c].key = k, ![c].id = id]
            /\ helper' = [helper EXCEPT ![c].pc = "dial"]
        BY <2>3, <3>3 DEF HandleSyn
      <4> HIDE DEF id
      <4>2. \A d \in Conn : /\ conn'[d].state = conn[d].state
                            /\ conn'[d].hnxt = conn[d].hnxt
                            /\ conn'[d].gnxt = conn[d].gnxt
                            /\ helper'[d].pc = IF d = c THEN "dial" ELSE helper[d].pc
        BY <4>1 DEF Fields, Shapes, HelperState
      <4>3. ASSUME NEW d \in Conn PROVE Stage(d)'
        BY <2>0, <2>1, <3>1, <4>1, <4>2 DEF Stage
      <4> QED
        BY <2>2, <3>1, <4>2, <4>3 DEF Stages
    <3> QED
      BY <3>2, <3>3
  <2>4. ASSUME NEW k \in Key, HandleRst(k) PROVE Stages'
    <3>1. UNCHANGED <<io, job, made, helper>>
      BY <2>4 DEF HandleRst
    <3>2. \A d \in Conn : /\ conn'[d].state = conn[d].state
                          /\ conn'[d].hnxt = conn[d].hnxt
                          /\ conn'[d].gnxt = conn[d].gnxt
      BY <2>4, DrainedType DEF HandleRst, Fields
    <3> QED
      BY <2>0, <2>2, <3>1, <3>2 DEF Stages, Stage
  <2>5. ASSUME NEW c \in Conn, NEW id \in 0 .. MaxId, Establish(c, id),
               conn[c].state = "synack", UNCHANGED <<made, helper, job>>
        PROVE  Stages'
    <3>1. \A d \in Conn :
            /\ conn'[d].state = IF d = c THEN "est" ELSE conn[d].state
            /\ conn'[d].hnxt = conn[d].hnxt /\ conn'[d].gnxt = conn[d].gnxt
            /\ io'[d].pc = IF d = c THEN "top" ELSE io[d].pc
      BY <2>5 DEF Establish, Fields, Shapes, IoState
    <3>2. ASSUME NEW d \in Conn PROVE Stage(d)'
      BY <2>0, <2>5, <3>1 DEF Stage
    <3> QED
      BY <2>2, <2>5, <3>1, <3>2 DEF Stages
  <2>6. ASSUME NEW k \in Key, HandleSynAck(k) PROVE Stages'
    <3> DEFINE c == Drained[k]
    <3>1. UNCHANGED <<made, helper, job>> /\ ids + 1 \in 0 .. MaxId
      BY <2>6 DEF HandleSynAck, Shapes
    <3>2. CASE c # None /\ conn[c].state = "synack"
      BY <2>5, <2>6, <3>1, <3>2, DrainedType DEF HandleSynAck
    <3>3. CASE ~(c # None /\ conn[c].state = "synack")
      BY <2>6, <3>1, <3>3 DEF HandleSynAck, Stages, Stage, JobStage
    <3> QED
      BY <3>2, <3>3
  <2>7. ASSUME NEW k \in Key, GuestEstablishes(k) PROVE Stages'
    BY <2>7 DEF GuestEstablishes, Stages, Stage, JobStage
  <2>8. ASSUME NEW k \in Key, NEW j \in 0 .. MaxSent, NEW fin \in BOOLEAN,
               HandleSegment(k, j, fin)
        PROVE  Stages'
    <3> DEFINE c == Drained[k]
    <3>1. UNCHANGED <<made, helper>> /\ c \in {None} \cup Conn
      BY <2>8, DrainedType DEF HandleSegment
    <3>2. CASE c # None /\ conn[c].state = "est"
      <4>1. TakeSegment(c, guest[k].id, j, fin) /\ UNCHANGED io
        BY <2>8, <3>2 DEF HandleSegment
      <4>2. \A d \in Conn :
              /\ conn'[d].state = conn[d].state
              /\ d # c => conn'[d].hnxt = conn[d].hnxt /\ conn'[d].gnxt = conn[d].gnxt
        BY <3>1, <3>2, <4>1 DEF TakeSegment, Fields
      <4>3. job' = NoJob \/ job'.conn = c
        BY <4>1 DEF TakeSegment
      <4>4. JobStage'
        <5>1. CASE job' = NoJob
          BY <5>1 DEF JobStage, NoJob, None
        <5>2. CASE job'.conn = c
          BY <3>1, <3>2, <4>2, <5>2 DEF JobStage
        <5> QED
          BY <4>3, <5>1, <5>2
      <4>5. ASSUME NEW d \in Conn PROVE Stage(d)'
        BY <2>0, <3>1, <3>2, <4>1, <4>2, ZenonT(40) DEF Stage
      <4> QED
        BY <4>4, <4>5 DEF Stages
    <3>3. CASE c # None /\ conn[c].state = "synack"
      <4>1. Establish(c, conn[c].id) /\ UNCHANGED job /\ c \in Conn
            /\ conn[c].id \in 0 .. MaxId
        BY <2>8, <3>1, <3>3 DEF HandleSegment, Fields
      <4> QED
        BY <2>5, <3>1, <3>3, <4>1
    <3>4. CASE c = None \/ conn[c].state \notin {"est", "synack"}
      <4>1. UNCHANGED <<conn, io, job>>
        BY <2>8, <3>4 DEF HandleSegment
      <4> QED
        BY <3>1, <4>1 DEF Stages, Stage, JobStage
    <3> QED
      BY <3>2, <3>3, <3>4
  <2>9. CASE Finish
    <3>1. UNCHANGED <<made, helper, io>>
      BY <2>9 DEF Finish, Write, ReplyFin
    <3>2. \A d \in Conn : /\ conn'[d].state = conn[d].state
                          /\ conn'[d].hnxt = conn[d].hnxt
                          /\ conn'[d].gnxt = conn[d].gnxt
      <4>1. CASE UNCHANGED conn
        BY <4>1
      <4>2. CASE conn' = [conn EXCEPT ![job.conn].sock =
                           IF @ = "open" THEN "failed" ELSE @]
        BY <4>2 DEF Fields
      <4> QED
        BY <2>9, <4>1, <4>2 DEF Finish, Write, ReplyFin
    <3>3. job' = NoJob \/ (job'.conn = job.conn /\ job'.byte = 0 /\ job.fin)
      <4>1. [job EXCEPT !.byte = 0].conn = job.conn /\ [job EXCEPT !.byte = 0].byte = 0
        BY DEF Shapes, Job
      <4>2. CASE Write
        BY <4>1, <4>2 DEF Write
      <4>3. CASE ReplyFin
        BY <4>3 DEF ReplyFin
      <4> QED
        BY <2>9, <4>2, <4>3 DEF Finish
    <3>4. JobStage'
      BY <2>0, <2>1, <3>2, <3>3 DEF JobStage, NoJob, None
    <3>5. ASSUME NEW d \in Conn PROVE Stage(d)'
      BY <2>0, <3>1, <3>2 DEF Stage
    <3> QED
      BY <3>4, <3>5 DEF Stages
  <2>10. CASE HostConnects
    <3> DEFINE c == made + 1
    <3>1. /\ c \in Conn /\ made' = c /\ UNCHANGED <<io, job>>
          /\ conn' = [conn EXCEPT ![c] = [@ EXCEPT !.key = eport, !.hnxt = 1,
                                            !.state = "synack", !.sock = "open"]]
          /\ helper' = [helper EXCEPT ![c].pc = "add"]
      BY <2>10 DEF HostConnects
    <3>2. \A d \in Conn :
            /\ conn'[d].state = IF d = c THEN "synack" ELSE conn[d].state
            /\ d # c => conn'[d].hnxt = conn[d].hnxt
            /\ conn'[d].gnxt = conn[d].gnxt
            /\ helper'[d].pc = IF d = c THEN "add" ELSE helper[d].pc
      BY <3>1 DEF Fields, Shapes, HelperState
    <3>3. ASSUME NEW d \in Conn PROVE Stage(d)'
      BY <2>0, <2>1, <3>1, <3>2 DEF Stage
    <3>4. conn[c].state = "connecting"
      BY <2>0, <2>1, <3>1 DEF Stage
    <3> QED
      BY <2>2, <3>1, <3>2, <3>3, <3>4 DEF Stages
  <2>11. ASSUME NEW c \in Conn, Helper(c) PROVE Stages'
    <3>1. UNCHANGED <<made, io, job>>
      BY <2>11 DEF Helper, DialDone, DialFails, DialAnswer, FwdAdd, FwdSyn, FwdCheck,
         FwdErase
    <3>2. CASE DialDone(c)
      <4>1. \A d \in Conn :
              /\ conn'[d].state = IF d = c THEN "synack" ELSE conn[d].state
              /\ conn'[d].hnxt = conn[d].hnxt /\ conn'[d].gnxt = conn[d].gnxt
        BY <3>2 DEF DialDone, Fields
      <4>2. /\ helper[c].pc = "dial"
            /\ \A d \in Conn : helper'[d].pc = IF d = c THEN "answer" ELSE helper[d].pc
        BY <3>2 DEF DialDone, HelperGoes, Shapes, HelperState
      <4>3. ASSUME NEW d \in Conn PROVE Stage(d)'
        BY <2>0, <3>1, <4>1, <4>2 DEF Stage
      <4>4. conn[c].state = "connecting"
        BY <2>0, <4>2 DEF Stage
      <4> QED
        BY <2>2, <3>1, <4>1, <4>3, <4>4 DEF Stages
    <3>3. CASE DialAnswer(c)
      <4>1. \A d \in Conn :
              /\ conn'[d].state = conn[d].state /\ conn'[d].gnxt = conn[d].gnxt
              /\ d # c => conn'[d].hnxt = conn[d].hnxt
        BY <3>3 DEF DialAnswer, Fields
      <4>2. /\ helper[c].pc = "answer"
            /\ \A d \in Conn : helper'[d].pc = IF d = c THEN "ended" ELSE helper[d].pc
        BY <3>3 DEF DialAnswer, HelperGoes, Shapes, HelperState
      <4>3. ASSUME NEW d \in Conn PROVE Stage(d)'
        BY <2>0, <3>1, <4>1, <4>2, ZenonT(40) DEF Stage
      <4> QED
        BY <2>2, <3>1, <4>1, <4>3 DEF Stages
    <3>4. CASE DialFails(c) \/ FwdAdd(c) \/ FwdSyn(c) \/ FwdErase(c) \/ FwdCheck(c)
      <4>1. UNCHANGED conn
        BY <3>4 DEF DialFails, FwdAdd, FwdSyn, FwdErase, FwdCheck
      <4>2. /\ helper[c].pc # "none" /\ helper'[c].pc \notin {"dial", "answer"}
            /\ \A d \in Conn \ {c} : helper'[d].pc = helper[d].pc
        BY <3>4 DEF DialFails, FwdAdd, FwdSyn, FwdErase, FwdCheck, HelperGoes, Shapes,
           HelperState
      <4>3. ASSUME NEW d \in Conn PROVE Stage(d)'
        BY <2>0, <3>1, <4>1, <4>2 DEF Stage
      <4> QED
        BY <2>2, <3>1, <4>1, <4>3 DEF Stages
    <3> QED
      BY <2>11, <3>2, <3>3, <3>4 DEF Helper
  <2>12. ASSUME NEW c \in Conn, Io(c) PROVE Stages'
    <3>1. UNCHANGED <<made, helper, job>>
      BY <2>12 DEF Io, IoCheck, IoTimeout, IoEof, IoRead, IoSend, IoLast, IoPush
    <3>2. /\ io[c].pc # "none" /\ \A d \in Conn \ {c} : io'[d].pc = io[d].pc
      BY <2>12 DEF Io, IoCheck, IoTimeout, IoEof, IoRead, IoSend, IoLast, IoPush,
         IoGoes, Shapes, IoState
    <3>3. \A d \in Conn : /\ conn'[d].state = conn[d].state
                          /\ conn'[d].gnxt = conn[d].gnxt
                          /\ d # c => conn'[d].hnxt = conn[d].hnxt
      BY <2>12 DEF Io, IoCheck, IoTimeout, IoEof, IoRead, IoSend, IoLast, IoPush,
         Fields
    <3>4. ASSUME NEW d \in Conn PROVE Stage(d)'
      BY <2>0, <3>1, <3>2, <3>3 DEF Stage
    <3> QED
      BY <2>2, <3>1, <3>3, <3>4 DEF Stages
  <2>13. CASE UNCHANGED vars
    BY <2>13 DEF vars, Stages, Stage, JobStage
  <2> QED
    BY <2>3, <2>4, <2>6, <2>7, <2>8, <2>9, <2>10, <2>11, <2>12, <2>13
       DEF Next, Handle
<1> QED
  BY <1>1, <1>2, TypesHold, PTL DEF Spec

-----------------------------------------------------------------------------
\* An inbound connection is not established before it is in the table, and an
\* entry of the table was made.
Unadded ==
  /\ \A k \in Key : conns[k] <= made
  /\ \A c \in Conn : helper[c].pc = "add" =>
       conn[c].state = "synack" /\ \A k \in Key : conns[k] # c

LEMMA UnaddedHolds == Spec => []Unadded
<1> USE Bounds, Keys
<1>1. Init => Unadded
  BY DEF Init, Unadded, None
<1>2. TypeOK /\ Shapes /\ Stages /\ Unadded /\ [Next]_vars => Unadded'
  <2> SUFFICES ASSUME Table, Shapes, conn \in [Conn -> Fields], Stages, Unadded,
                      [Next]_vars
               PROVE  Unadded'
    BY TypeParts
  <2> USE DEF world, nat
  <2>0. /\ \A d \in Conn : Stage(d) /\ \A k \in Key : Drained[k] \in {None, conns[k]}
        /\ made \in Nat /\ Drained \in [Key -> {None} \cup Conn] /\ None <= made
        /\ conns \in [Key -> {None} \cup Conn]
    BY DrainedType DEF Stages, Table, None, Drained
  \* A step that adds no entry and establishes only entries.
  <2>1. ASSUME \A k \in Key : conns'[k] \in {None, conns[k]}, made' = made,
               \A d \in Conn : helper'[d].pc = "add" => helper[d].pc = "add",
               \A d \in Conn : \/ conn'[d].state = conn[d].state
                               \/ helper[d].pc # "add"
        PROVE  Unadded'
    BY <2>0, <2>1 DEF Unadded
  <2>2. ASSUME NEW l \in Key, NEW fresh \in BOOLEAN, HandleSyn(l, fresh)
        PROVE  Unadded'
    <3>1. CASE Drained[l] # None
      <4>1. conns' = Drained /\ UNCHANGED <<made, conn, helper>>
        BY <2>2, <3>1 DEF HandleSyn
      <4> QED
        BY <2>0, <2>1, <4>1
    <3>2. CASE Drained[l] = None
      <4> DEFINE c == made + 1
                 id == IF fresh THEN ids + 1 ELSE guest[l].id
      <4>1. /\ c \in Conn /\ made' = c /\ conns' = [Drained EXCEPT ![l] = c]
            /\ conn' = [conn EXCEPT ![c].key = l, ![c].id = id]
            /\ helper' = [helper EXCEPT ![c].pc = "dial"]
        BY <2>2, <3>2 DEF HandleSyn
      <4> HIDE DEF id
      <4>2. \A d \in Conn : /\ conn'[d].state = conn[d].state
                            /\ helper'[d].pc = IF d = c THEN "dial" ELSE helper[d].pc
        BY <4>1 DEF Fields, Shapes, HelperState
      <4>3. \A k \in Key : conns'[k] = c \/ conns'[k] \in {None, conns[k]}
        BY <2>0, <4>1
      <4>4. ASSUME NEW k \in Key PROVE conns'[k] <= made'
        <5>1. conns[k] \in Nat /\ conns[k] <= made
          BY <2>0, NumbersOfConns DEF Unadded
        <5> QED
          BY <2>0, <4>1, <4>3, <5>1 DEF None
      <4>5. \A d \in Conn : helper'[d].pc = "add" => d # c /\ helper[d].pc = "add"
        BY <4>2
      <4> HIDE DEF c
      <4>6. ASSUME NEW d \in Conn, helper'[d].pc = "add"
            PROVE  conn'[d].state = "synack" /\ \A k \in Key : conns'[k] # d
        BY <4>2, <4>3, <4>5, <4>6 DEF Unadded, None
      <4> QED
        BY <4>4, <4>6 DEF Unadded
    <3> QED
      BY <3>1, <3>2
  <2>3. ASSUME NEW l \in Key, HandleRst(l) PROVE Unadded'
    <3>1. UNCHANGED <<made, helper>> /\ conns' = [Drained EXCEPT ![l] = None]
      BY <2>3 DEF HandleRst
    <3>2. \A d \in Conn : conn'[d].state = conn[d].state
      BY <2>3, DrainedType DEF HandleRst, Fields
    <3> QED
      BY <2>0, <2>1, <3>1, <3>2
  <2>4. ASSUME NEW c \in Conn, NEW id \in 0 .. MaxId, Establish(c, id),
               NEW l \in Key, Drained[l] = c, conns' = Drained,
               UNCHANGED <<made, helper>>
        PROVE  Unadded'
    <3>1. \A d \in Conn : conn'[d].state = IF d = c THEN "est" ELSE conn[d].state
      BY <2>4 DEF Establish, Fields, States
    <3>2. helper[c].pc # "add"
      BY <2>0, <2>4 DEF Unadded
    <3> QED
      BY <2>0, <2>1, <2>4, <3>1, <3>2
  <2>5. ASSUME NEW l \in Key, HandleSynAck(l) PROVE Unadded'
    <3> DEFINE c == Drained[l]
    <3>1. UNCHANGED <<made, helper>> /\ ids + 1 \in 0 .. MaxId /\ conns' = Drained
      BY <2>5 DEF HandleSynAck, Shapes
    <3>2. CASE c # None /\ conn[c].state = "synack"
      BY <2>0, <2>4, <2>5, <3>1, <3>2 DEF HandleSynAck
    <3>3. CASE ~(c # None /\ conn[c].state = "synack")
      <4>1. UNCHANGED conn
        BY <2>5, <3>3 DEF HandleSynAck
      <4> QED
        BY <2>0, <2>1, <3>1, <4>1
    <3> QED
      BY <3>2, <3>3
  <2>6. ASSUME NEW l \in Key, NEW j \in 0 .. MaxSent, NEW fin \in BOOLEAN,
               HandleSegment(l, j, fin)
        PROVE  Unadded'
    <3> DEFINE c == Drained[l]
    <3>1. UNCHANGED <<made, helper>> /\ c \in {None} \cup Conn
      BY <2>6, DrainedType DEF HandleSegment
    <3>2. \A k \in Key : conns'[k] \in {None, conns[k]}
      BY <2>0, <2>6 DEF HandleSegment
    <3>3. CASE c # None /\ conn[c].state = "est"
      <4>1. TakeSegment(c, guest[l].id, j, fin)
        BY <2>6, <3>3 DEF HandleSegment
      <4>2. \A d \in Conn : conn'[d].state = conn[d].state
        BY <3>1, <3>3, <4>1 DEF TakeSegment, Fields
      <4> QED
        BY <2>1, <3>1, <3>2, <4>2
    <3>4. CASE c # None /\ conn[c].state = "synack"
      <4>1. Establish(c, conn[c].id) /\ c \in Conn /\ conn[c].id \in 0 .. MaxId
            /\ conns' = Drained
        BY <2>6, <3>1, <3>4 DEF HandleSegment, Fields
      <4> QED
        BY <2>4, <3>1, <3>4, <4>1
    <3>5. CASE c = None \/ conn[c].state \notin {"est", "synack"}
      <4>1. UNCHANGED conn
        BY <2>6, <3>5 DEF HandleSegment
      <4> QED
        BY <2>1, <3>1, <3>2, <4>1
    <3> QED
      BY <3>3, <3>4, <3>5
  <2>7. CASE Finish
    <3>1. UNCHANGED <<conns, made, helper>>
      BY <2>7 DEF Finish, Write, ReplyFin
    <3>2. \A d \in Conn : conn'[d].state = conn[d].state
      <4>1. CASE UNCHANGED conn
        BY <4>1
      <4>2. CASE conn' = [conn EXCEPT ![job.conn].sock =
                           IF @ = "open" THEN "failed" ELSE @]
        BY <4>2 DEF Fields
      <4> QED
        BY <2>7, <4>1, <4>2 DEF Finish, Write, ReplyFin
    <3> QED
      BY <2>1, <3>1, <3>2
  <2>8. CASE HostConnects
    <3> DEFINE c == made + 1
    <3>1. /\ c \in Conn /\ made' = c /\ UNCHANGED conns
          /\ conn' = [conn EXCEPT ![c] = [@ EXCEPT !.key = eport, !.hnxt = 1,
                                            !.state = "synack", !.sock = "open"]]
          /\ helper' = [helper EXCEPT ![c].pc = "add"]
      BY <2>8 DEF HostConnects
    <3>2. /\ conn'[c].state = "synack"
          /\ \A d \in Conn \ {c} : conn'[d] = conn[d] /\ helper'[d] = helper[d]
      BY <3>1 DEF Fields
    <3>3. ASSUME NEW k \in Key PROVE conns[k] # c /\ conns[k] <= c
      <4>1. conns[k] \in Nat /\ conns[k] <= made
        BY <2>0, NumbersOfConns DEF Unadded
      <4> QED
        BY <2>0, <4>1
    <3> HIDE DEF c
    <3> QED
      BY <2>0, <3>1, <3>2, <3>3 DEF Unadded
  <2>9. ASSUME NEW c \in Conn, Helper(c) PROVE Unadded'
    <3>1. UNCHANGED made
      BY <2>9 DEF Helper, DialDone, DialFails, DialAnswer, FwdAdd, FwdSyn, FwdCheck,
         FwdErase
    <3>2. \A d \in Conn : \/ conn'[d].state = conn[d].state
                          \/ helper[d].pc # "add"
      BY <2>9 DEF Helper, DialDone, DialFails, DialAnswer, FwdAdd, FwdSyn, FwdCheck,
         FwdErase, Fields, HelperGoes
    <3>3. /\ helper'[c].pc # "add"
          /\ \A d \in Conn \ {c} : helper'[d].pc = helper[d].pc
      BY <2>9 DEF Helper, DialDone, DialFails, DialAnswer, FwdAdd, FwdSyn, FwdCheck,
         FwdErase, HelperGoes, Shapes, HelperState
    <3>4. CASE FwdAdd(c)
      <4>1. UNCHANGED conn /\ helper[c].pc = "add"
            /\ \A k \in Key : conns'[k] \in {c, conns[k]}
        BY <2>0, <3>4 DEF FwdAdd, HelperGoes
      <4>2. c <= made
        <5>1. c > made => helper[c].pc = "none"
          BY <2>0 DEF Stage
        <5>2. c \in Int /\ made \in Int
          BY <2>0, Bounds
        <5> QED
          BY <4>1, <5>1, <5>2
      <4> QED
        <5>1. \A k \in Key : conns'[k] <= made'
          BY <3>1, <4>1, <4>2 DEF Unadded
        <5>2. ASSUME NEW d \in Conn, helper'[d].pc = "add"
              PROVE  conn'[d].state = "synack" /\ \A k \in Key : conns'[k] # d
          BY <3>3, <4>1, <5>2 DEF Unadded
        <5> QED
          BY <5>1, <5>2 DEF Unadded
    <3>5. CASE ~FwdAdd(c)
      <4>1. \A k \in Key : conns'[k] \in {None, conns[k]}
        BY <2>0, <2>9, <3>5 DEF Helper, DialDone, DialFails, DialAnswer, FwdSyn,
           FwdCheck, FwdErase
      <4> QED
        BY <2>1, <3>1, <3>2, <3>3, <4>1
    <3> QED
      BY <3>4, <3>5
  <2>10. ASSUME NEW c \in Conn, Io(c) PROVE Unadded'
    <3>1. UNCHANGED <<conns, made, helper>>
      BY <2>10 DEF Io, IoCheck, IoTimeout, IoEof, IoRead, IoSend, IoLast, IoPush
    <3>2. \A d \in Conn : conn'[d].state = conn[d].state
      BY <2>10 DEF Io, IoCheck, IoTimeout, IoEof, IoRead, IoSend, IoLast, IoPush,
         Fields
    <3> QED
      BY <2>1, <3>1, <3>2
  <2>11. CASE UNCHANGED vars \/ \E l \in Key : GuestEstablishes(l)
    BY <2>1, <2>11 DEF vars, GuestEstablishes
  <2> QED
    BY <2>2, <2>3, <2>5, <2>6, <2>7, <2>8, <2>9, <2>10, <2>11 DEF Next, Handle
<1> QED
  BY <1>1, <1>2, TypesHold, StagesHold, PTL DEF Spec

-----------------------------------------------------------------------------
(* Who removes the entry of a key.                                         *)
Settles(c, k) ==
  \/ helper[c].pc \in Dialing
  \/ Segment(c, "synack", 0, 1) \in emitted
  \/ \E d \in Conn : conn[d].key = k /\ helper[d].pc \in Forwarding

ServedAt(k) ==
  conns[k] # None =>
    /\ conns[k] <= made /\ conn[conns[k]].key = k
    /\ conn[conns[k]].state = "connecting" => helper[conns[k]].pc = "dial"
    /\ conn[conns[k]].state = "est" => Running(conns[k]) \/ k \in done
    /\ conn[conns[k]].state = "synack" => Settles(conns[k], k)

Served == \A k \in Key : ServedAt(k)

LEMMA ServedHolds == Spec => []Served
<1> USE Bounds, Keys
<1>1. Init => Served
  BY DEF Init, Served, ServedAt
<1>2. TypeOK /\ Shapes /\ Stages /\ Unadded /\ Served /\ [Next]_vars => Served'
  <2> SUFFICES ASSUME Table, Shapes, conn \in [Conn -> Fields], Stages, Unadded,
                      Served, [Next]_vars,
                      NEW k \in Key, (conns[k] # None)'
               PROVE  ServedAt(k)'
    BY TypeParts DEF Served, ServedAt
  <2> USE DEF world, nat
  <2>0. /\ ServedAt(k) /\ \A d \in Conn : Stage(d)
        /\ made \in Nat /\ conns[k] \in {None} \cup Conn
        /\ Drained[k] = IF k \in done THEN None ELSE conns[k]
        /\ Drained \in [Key -> {None} \cup Conn]
    BY DrainedType DEF Served, Stages, Table, None, Drained
  <2>1. ASSUME conns'[k] = conns[k], UNCHANGED <<made, conn, helper, io, done>>,
               emitted \subseteq emitted'
        PROVE  ServedAt(k)'
    BY <2>0, <2>1 DEF ServedAt, Settles, Running
  \* A step of the handler that leaves the entry: it was not in the queue.
  <2>2. ASSUME conns'[k] = conns[k], k \notin done, made' >= made, made' \in Nat,
               UNCHANGED emitted,
               \A d \in Conn : d <= made =>
                 /\ conn'[d].key = conn[d].key
                 /\ conn'[d].state = conn[d].state
                      \/ (conn'[d].state = "est" /\ io'[d].pc = "top")
                 /\ helper'[d].pc = helper[d].pc
                 /\ io'[d].pc = io[d].pc \/ io'[d].pc = "top"
        PROVE  ServedAt(k)'
    <3>1. conns[k] \in Conn /\ conns[k] <= made
      BY <2>0, <2>2 DEF ServedAt
    <3>2. ASSUME NEW d \in Conn, helper[d].pc \in Forwarding
          PROVE  conn'[d].key = conn[d].key /\ helper'[d].pc = helper[d].pc
      BY <2>0, <2>2, <3>2 DEF Stage, Forwarding
    <3>3. Settles(conns[k], k) => Settles(conns[k], k)'
      BY <2>2, <3>1, <3>2 DEF Settles
    <3> DEFINE c == conns[k]
    <3>4. /\ conns'[k] = c /\ c <= made' /\ conn'[c].key = k
          /\ helper'[c].pc = helper[c].pc
      <4>1. c \in Nat /\ conn[c].key = k
        BY <2>0, <2>2, <3>1 DEF ServedAt
      <4>2. c <= made'
        BY <2>0, <2>2, <3>1, <4>1
      <4> QED
        BY <2>2, <3>1, <4>1, <4>2
    <3>5. CASE conn'[c].state = conn[c].state
      <4>1. conn[c].state = "est" => Running(c)'
        BY <2>0, <2>2, <3>1 DEF ServedAt, Running
      <4> QED
        BY <2>0, <2>2, <3>1, <3>3, <3>4, <3>5, <4>1 DEF ServedAt
    <3>6. CASE conn'[c].state = "est" /\ io'[c].pc = "top"
      BY <3>4, <3>6 DEF ServedAt, Running
    <3> QED
      BY <2>2, <3>1, <3>5, <3>6
  <2>3. ASSUME NEW l \in Key, NEW fresh \in BOOLEAN, HandleSyn(l, fresh)
        PROVE  ServedAt(k)'
    <3>1. UNCHANGED <<io, emitted>>
      BY <2>3 DEF HandleSyn
    <3>2. CASE Drained[l] # None
      <4>1. conns' = Drained /\ UNCHANGED <<made, conn, helper>>
        BY <2>3, <3>2 DEF HandleSyn
      <4> QED
        BY <2>0, <2>2, <3>1, <4>1
    <3>3. CASE Drained[l] = None
      <4> DEFINE c == made + 1
                 id == IF fresh THEN ids + 1 ELSE guest[l].id
      <4>1. /\ c \in Conn /\ made' = c /\ conns' = [Drained EXCEPT ![l] = c]
            /\ conn' = [conn EXCEPT ![c].key = l, ![c].id = id]
            /\ helper' = [helper EXCEPT ![c].pc = "dial"]
        BY <2>3, <3>3 DEF HandleSyn
      <4> HIDE DEF id
      <4>2. \A d \in Conn : /\ conn'[d].state = conn[d].state
                            /\ conn'[d].key = IF d = c THEN l ELSE conn[d].key
                            /\ helper'[d].pc = IF d = c THEN "dial" ELSE helper[d].pc
        BY <4>1 DEF Fields, Shapes, HelperState
      <4>3. CASE k = l
        <5>1. conns'[k] = c /\ conn[c].state = "connecting"
          BY <2>0, <4>1, <4>3 DEF Stage
        <5> QED
          BY <2>0, <4>1, <4>2, <4>3, <5>1 DEF ServedAt
      <4>4. CASE k # l
        <5>1. conns'[k] = conns[k] /\ k \notin done
          BY <2>0, <4>1, <4>4
        <5>2. made' >= made /\ made' \in Nat
          BY <2>0, <4>1
        <5>3. \A d \in Conn : d <= made => d # c
          BY <2>0
        <5> HIDE DEF c
        <5> QED
          BY <2>2, <3>1, <4>2, <5>1, <5>2, <5>3
      <4> QED
        BY <4>3, <4>4
    <3> QED
      BY <3>2, <3>3
  <2>4. ASSUME NEW l \in Key, HandleRst(l) PROVE ServedAt(k)'
    <3>1. UNCHANGED <<io, made, helper, emitted>>
          /\ conns' = [Drained EXCEPT ![l] = None]
      BY <2>4 DEF HandleRst
    <3>2. \A d \in Conn : /\ conn'[d].state = conn[d].state
                          /\ conn'[d].key = conn[d].key
      BY <2>4, DrainedType DEF HandleRst, Fields
    <3>3. conns'[k] = conns[k] /\ k \notin done
      BY <2>0, <3>1
    <3> QED
      BY <2>0, <2>2, <3>1, <3>2, <3>3
  <2>5. ASSUME NEW c \in Conn, NEW id \in 0 .. MaxId, Establish(c, id),
               conns'[k] = conns[k], k \notin done, UNCHANGED <<made, helper, emitted>>
        PROVE  ServedAt(k)'
    <3>1. \A d \in Conn :
            /\ conn'[d].state = IF d = c THEN "est" ELSE conn[d].state
            /\ conn'[d].key = conn[d].key
            /\ io'[d].pc = IF d = c THEN "top" ELSE io[d].pc
      BY <2>5 DEF Establish, Fields, Shapes, IoState
    <3> QED
      BY <2>0, <2>2, <2>5, <3>1
  <2>6. ASSUME NEW l \in Key, HandleSynAck(l) PROVE ServedAt(k)'
    <3> DEFINE c == Drained[l]
    <3>1. UNCHANGED <<made, helper, emitted>> /\ ids + 1 \in 0 .. MaxId
          /\ conns'[k] = conns[k] /\ k \notin done
      BY <2>0, <2>6 DEF HandleSynAck, Shapes
    <3>2. CASE c # None /\ conn[c].state = "synack"
      BY <2>5, <2>6, <3>1, <3>2, DrainedType DEF HandleSynAck
    <3>3. CASE ~(c # None /\ conn[c].state = "synack")
      <4>1. UNCHANGED <<conn, io>>
        BY <2>6, <3>3 DEF HandleSynAck
      <4> QED
        BY <2>0, <2>2, <3>1, <4>1
    <3> QED
      BY <3>2, <3>3
  <2>7. ASSUME NEW l \in Key, GuestEstablishes(l) PROVE ServedAt(k)'
    BY <2>1, <2>7 DEF GuestEstablishes
  <2>8. ASSUME NEW l \in Key, NEW j \in 0 .. MaxSent, NEW fin \in BOOLEAN,
               HandleSegment(l, j, fin)
        PROVE  ServedAt(k)'
    <3> DEFINE c == Drained[l]
    <3>1. UNCHANGED <<made, helper, emitted>> /\ c \in {None} \cup Conn
          /\ conns'[k] = conns[k] /\ k \notin done
      BY <2>0, <2>8, DrainedType DEF HandleSegment
    <3>2. CASE c # None /\ conn[c].state = "est"
      <4>1. TakeSegment(c, guest[l].id, j, fin) /\ UNCHANGED io
        BY <2>8, <3>2 DEF HandleSegment
      <4>2. \A d \in Conn :
              conn'[d].state = conn[d].state /\ conn'[d].key = conn[d].key
        BY <3>1, <3>2, <4>1 DEF TakeSegment, Fields
      <4> QED
        BY <2>0, <2>2, <3>1, <4>1, <4>2
    <3>3. CASE c # None /\ conn[c].state = "synack"
      <4>1. Establish(c, conn[c].id) /\ c \in Conn /\ conn[c].id \in 0 .. MaxId
        BY <2>8, <3>1, <3>3 DEF HandleSegment, Fields
      <4> QED
        BY <2>5, <3>1, <3>3, <4>1
    <3>4. CASE c = None \/ conn[c].state \notin {"est", "synack"}
      <4>1. UNCHANGED <<conn, io>>
        BY <2>8, <3>4 DEF HandleSegment
      <4> QED
        BY <2>0, <2>2, <3>1, <4>1
    <3> QED
      BY <3>2, <3>3, <3>4
  <2>9. CASE Finish
    <3>1. UNCHANGED <<conns, done, made, helper, io>> /\ emitted \subseteq emitted'
      BY <2>9 DEF Finish, Write, ReplyFin
    <3>2. \A d \in Conn : conn'[d].state = conn[d].state /\ conn'[d].key = conn[d].key
      <4>1. CASE UNCHANGED conn
        BY <4>1
      <4>2. CASE conn' = [conn EXCEPT ![job.conn].sock =
                           IF @ = "open" THEN "failed" ELSE @]
        BY <4>2 DEF Fields
      <4> QED
        BY <2>9, <4>1, <4>2 DEF Finish, Write, ReplyFin
    <3> QED
      BY <2>0, <3>1, <3>2 DEF ServedAt, Settles, Running
  <2>10. CASE HostConnects
    <3> DEFINE c == made + 1
    <3>1. /\ c \in Conn /\ made' = c /\ UNCHANGED <<conns, done, io, emitted>>
          /\ conn' = [conn EXCEPT ![c] = [@ EXCEPT !.key = eport, !.hnxt = 1,
                                            !.state = "synack", !.sock = "open"]]
          /\ helper' = [helper EXCEPT ![c].pc = "add"]
      BY <2>10 DEF HostConnects
    <3>2. \A d \in Conn \ {c} : conn'[d] = conn[d] /\ helper'[d].pc = helper[d].pc
      BY <3>1 DEF Shapes, HelperState
    <3>3. conns[k] \in Conn \ {c} /\ helper[c].pc = "none" /\ conns[k] <= made'
      BY <2>0, <3>1 DEF ServedAt, Stage
    <3>4. Settles(conns[k], k) => Settles(conns[k], k)'
      BY <2>0, <3>1, <3>2, <3>3 DEF Settles, Forwarding
    <3> HIDE DEF c
    <3> QED
      BY <2>0, <3>1, <3>2, <3>3, <3>4 DEF ServedAt, Running
  <2>11. ASSUME NEW c \in Conn, Helper(c) PROVE ServedAt(k)'
    <3>1. UNCHANGED <<made, io, done>> /\ emitted \subseteq emitted'
      BY <2>11 DEF Helper, DialDone, DialFails, DialAnswer, FwdAdd, FwdSyn, FwdCheck,
         FwdErase
    <3>2. CASE DialDone(c)
      <4>1. /\ UNCHANGED conns
            /\ \A d \in Conn :
                 /\ conn'[d].state = IF d = c THEN "synack" ELSE conn[d].state
                 /\ conn'[d].key = conn[d].key
        BY <3>2 DEF DialDone, Fields
      <4>2. /\ helper[c].pc = "dial"
            /\ \A d \in Conn : helper'[d].pc = IF d = c THEN "answer" ELSE helper[d].pc
        BY <3>2 DEF DialDone, HelperGoes, Shapes, HelperState
      <4>3. Settles(conns[k], k) => Settles(conns[k], k)'
        BY <2>0, <3>1, <4>1, <4>2 DEF Settles, Dialing, Forwarding
      <4>4. conns[k] = c => Settles(conns[k], k)'
        BY <4>1, <4>2 DEF Settles, Dialing
      <4> QED
        BY <2>0, <3>1, <4>1, <4>2, <4>3, <4>4 DEF ServedAt, Running
    <3>3. CASE DialAnswer(c)
      <4>1. /\ UNCHANGED conns
            /\ \A d \in Conn : conn'[d].state = conn[d].state /\ conn'[d].key = conn[d].key
        BY <3>3 DEF DialAnswer, Fields
      <4>2. /\ helper[c].pc = "answer"
            /\ \A d \in Conn : helper'[d].pc = IF d = c THEN "ended" ELSE helper[d].pc
            /\ Segment(c, "synack", conn[c].hnxt, 1) \in emitted'
        BY <3>3 DEF DialAnswer, HelperGoes, Shapes, HelperState
      <4>3. conns[k] # c /\ Settles(conns[k], k) => Settles(conns[k], k)'
        BY <2>0, <3>1, <4>1, <4>2 DEF Settles, Dialing, Forwarding
      <4>4. conns[k] = c /\ conn[c].state = "synack" => Settles(conns[k], k)'
        BY <2>0, <4>1, <4>2 DEF Settles, Stage
      <4> QED
        BY <2>0, <3>1, <4>1, <4>2, <4>3, <4>4 DEF ServedAt, Running
    <3>4. CASE DialFails(c)
      <4>1. /\ conns' = [conns EXCEPT ![conn[c].key] = None] /\ UNCHANGED conn
            /\ helper[c].pc = "dial"
            /\ \A d \in Conn : helper'[d].pc = IF d = c THEN "ended" ELSE helper[d].pc
        BY <3>4 DEF DialFails, HelperGoes, Shapes, HelperState
      <4>2. conns'[k] = conns[k] /\ k # conn[c].key
        BY <4>1 DEF Table
      <4>3. conns[k] # c
        BY <2>0, <4>2 DEF ServedAt
      <4>4. Settles(conns[k], k) => Settles(conns[k], k)'
        BY <2>0, <3>1, <4>1, <4>2, <4>3 DEF Settles, Dialing, Forwarding
      <4> QED
        BY <2>0, <3>1, <4>1, <4>2, <4>3, <4>4 DEF ServedAt, Running
    <3>5. CASE FwdAdd(c)
      <4>1. /\ UNCHANGED conn /\ helper[c].pc = "add"
            /\ conns' = IF conns[conn[c].key] = None
                          THEN [conns EXCEPT ![conn[c].key] = c] ELSE conns
            /\ \A d \in Conn : helper'[d].pc = IF d = c THEN "syn" ELSE helper[d].pc
        BY <3>5 DEF FwdAdd, HelperGoes, Shapes, HelperState
      <4>2. \A d \in Conn : Settles(d, k) => Settles(d, k)'
        BY <3>1, <4>1 DEF Settles, Dialing, Forwarding
      <4>3. CASE conns'[k] = conns[k]
        BY <2>0, <3>1, <4>1, <4>2, <4>3 DEF ServedAt, Running
      <4>4. CASE conns'[k] # conns[k]
        <5>1. conns'[k] = c /\ k = conn[c].key
          BY <4>1, <4>4 DEF Table
        <5>2. c <= made /\ conn[c].state = "synack"
          BY <2>0, <4>1 DEF Stage, Unadded
        <5>3. Settles(c, k)'
          BY <4>1, <5>1 DEF Settles, Forwarding
        <5> QED
          BY <3>1, <4>1, <5>1, <5>2, <5>3 DEF ServedAt
      <4> QED
        BY <4>3, <4>4
    <3>6. CASE FwdSyn(c)
      <4>1. /\ UNCHANGED <<conn, conns>> /\ helper[c].pc = "syn"
            /\ \A d \in Conn : helper'[d].pc = IF d = c THEN "check" ELSE helper[d].pc
        BY <3>6 DEF FwdSyn, HelperGoes, Shapes, HelperState
      <4>2. \A d \in Conn : Settles(d, k) => Settles(d, k)'
        BY <3>1, <4>1 DEF Settles, Dialing, Forwarding
      <4> QED
        BY <2>0, <3>1, <4>1, <4>2 DEF ServedAt, Running
    <3>7. CASE FwdCheck(c)
      <4>1. /\ UNCHANGED <<conn, conns>> /\ helper[c].pc = "check"
            /\ \A d \in Conn \ {c} : helper'[d].pc = helper[d].pc
            /\ \/ helper'[c].pc \in Forwarding
               \/ conns[conn[c].key] = None
               \/ conn[conns[conn[c].key]].state # "synack"
        BY <3>7 DEF FwdCheck, Shapes, HelperState, Forwarding
      <4>2. conn[conns[k]].state = "synack" /\ Settles(conns[k], k)
              => Settles(conns[k], k)'
        <5>1. conns[k] \in Conn
          BY <2>0, <4>1
        <5>2. helper[conns[k]].pc \in Dialing => helper'[conns[k]].pc \in Dialing
          BY <4>1, <5>1 DEF Dialing
        <5>3. ASSUME conn[conns[k]].state = "synack", NEW d \in Conn,
                     conn[d].key = k, helper[d].pc \in Forwarding
              PROVE  helper'[d].pc \in Forwarding
          BY <2>0, <4>1, <5>1, <5>3
        <5> QED
          BY <3>1, <4>1, <5>2, <5>3 DEF Settles
      <4> QED
        BY <2>0, <3>1, <4>1, <4>2 DEF ServedAt, Running
    <3>8. CASE FwdErase(c)
      <4>1. /\ conns' = [conns EXCEPT ![conn[c].key] = None] /\ UNCHANGED conn
            /\ helper[c].pc = "erase"
            /\ \A d \in Conn : helper'[d].pc = IF d = c THEN "ended" ELSE helper[d].pc
        BY <3>8 DEF FwdErase, HelperGoes, Shapes, HelperState
      <4>2. conns'[k] = conns[k] /\ k # conn[c].key
        BY <4>1 DEF Table
      <4>3. Settles(conns[k], k) => Settles(conns[k], k)'
        BY <2>0, <3>1, <4>1, <4>2 DEF Settles, Dialing
      <4> QED
        BY <2>0, <3>1, <4>1, <4>2, <4>3 DEF ServedAt, Running
    <3> QED
      BY <2>11, <3>2, <3>3, <3>4, <3>5, <3>6, <3>7, <3>8 DEF Helper
  <2>12. ASSUME NEW c \in Conn, Io(c) PROVE ServedAt(k)'
    <3>1. UNCHANGED <<conns, made, helper>> /\ emitted \subseteq emitted'
          /\ done \subseteq done'
      BY <2>12 DEF Io, IoCheck, IoTimeout, IoEof, IoRead, IoSend, IoLast, IoPush
    <3>2. /\ io[c].pc \notin {"none", "ended"}
          /\ \A d \in Conn \ {c} : io'[d].pc = io[d].pc
          /\ io'[c].pc \notin {"none", "ended"} \/ conn[c].key \in done'
      BY <2>12 DEF Io, IoCheck, IoTimeout, IoEof, IoRead, IoSend, IoLast, IoPush,
         IoGoes, Shapes, IoState
    <3>3. \A d \in Conn : conn'[d].state = conn[d].state /\ conn'[d].key = conn[d].key
      BY <2>12 DEF Io, IoCheck, IoTimeout, IoEof, IoRead, IoSend, IoLast, IoPush,
         Fields
    <3>4. Settles(conns[k], k) => Settles(conns[k], k)'
      BY <3>1, <3>3 DEF Settles
    <3> QED
      BY <2>0, <3>1, <3>2, <3>3, <3>4 DEF ServedAt, Running
  <2>13. CASE UNCHANGED vars
    BY <2>1, <2>13 DEF vars
  <2> QED
    BY <2>3, <2>4, <2>6, <2>7, <2>8, <2>9, <2>10, <2>11, <2>12, <2>13
       DEF Next, Handle
<1> QED
  BY <1>1, <1>2, TypesHold, StagesHold, UnaddedHolds, PTL DEF Spec

(* No entry is left in the table with nobody to remove it, for any number  *)
(* of connections, 4-tuples that collide with ephemeral ports, and any     *)
(* order of the guest's segments and the helper threads.                   *)
THEOREM NoOrphans == Spec => []EntriesAreServed
<1>1. TypeOK /\ Shapes /\ Served => EntriesAreServed
  <2> SUFFICES ASSUME TypeOK, Shapes, Served, NEW k \in Key, conns[k] # None
               PROVE  LET c == conns[k] IN
                        CASE conn[c].state = "connecting" -> helper[c].pc = "dial"
                          [] conn[c].state = "est" -> Running(c) \/ k \in done
                          [] conn[c].state = "synack" -> Settles(c, k)
    BY DEF EntriesAreServed, Settles
  <2>1. conn[conns[k]].state \in States
    BY TypeParts DEF Table, Fields
  <2> QED
    BY <2>1 DEF Served, ServedAt, States
<1> QED
  BY <1>1, TypesHold, ServedHolds, PTL

-----------------------------------------------------------------------------
\* The numbers 1 .. n, in order.
Count(n) == [i \in 1 .. n |-> i]

LEMMA Counting ==
  ASSUME NEW n \in Nat
  PROVE  /\ Count(n) \in Seq(Nat) /\ Len(Count(n)) = n
         /\ Append(Count(n), n + 1) = Count(n + 1)
<1>1. ASSUME NEW m \in Nat
      PROVE  /\ Count(m) \in Seq(Nat) /\ Len(Count(m)) = m
             /\ \A i \in 1 .. m : Count(m)[i] = i
  BY <1>1 DEF Count
<1>2. Append(Count(n), n + 1) \in Seq(Nat)
      /\ Len(Append(Count(n), n + 1)) = n + 1
      /\ \A i \in 1 .. n : Append(Count(n), n + 1)[i] = i
      /\ Append(Count(n), n + 1)[n + 1] = n + 1
  <2>1. n + 1 \in Nat
    OBVIOUS
  <2>2. Count(n) \in Seq(Nat) /\ Len(Count(n)) = n
    BY <1>1
  <2>3. /\ Append(Count(n), n + 1) \in Seq(Nat)
        /\ Len(Append(Count(n), n + 1)) = Len(Count(n)) + 1
        /\ \A i \in 1 .. Len(Count(n)) : Append(Count(n), n + 1)[i] = Count(n)[i]
        /\ Append(Count(n), n + 1)[Len(Count(n)) + 1] = n + 1
    BY <2>1, <2>2, AppendProperties
  <2> QED
    BY <1>1, <2>2, <2>3
<1>3. n + 1 \in Nat
  OBVIOUS
<1>4. \A i \in 1 .. n + 1 : Append(Count(n), n + 1)[i] = Count(n + 1)[i]
  BY <1>1, <1>2, <1>3
<1> QED
  BY <1>1, <1>2, <1>3, <1>4, SeqEqual

\* What was written of a connection: the first bytes of the guest; as long as
\* the socket takes them all that were acknowledged, but the one at hand.
AtHand(c) == job.conn = c /\ job.byte # 0

WrittenAt(c) ==
  \E n \in Nat :
    /\ written[c] = Count(n)
    /\ conn[c].state # "est" => n = 0
    /\ conn[c].sock = "open" /\ conn[c].state = "est" =>
         /\ conn[c].gnxt = n + (IF AtHand(c) THEN 1 ELSE 0)
         /\ AtHand(c) => job.byte = n + 1

Written == written \in [Conn -> Seq(Nat)] /\ \A c \in Conn : WrittenAt(c)

LEMMA WrittenHolds == Spec => []Written
<1> USE Bounds, Keys
<1>1. Init => Written
  <2> SUFFICES ASSUME Init PROVE Written
    OBVIOUS
  <2>1. Count(0) = <<>>
    BY DEF Count
  <2>2. ASSUME NEW c \in Conn PROVE WrittenAt(c)
    BY <2>1 DEF Init, WrittenAt
  <2> QED
    BY <2>2 DEF Init, Written
<1>2. TypeOK /\ Shapes /\ Stages /\ Written /\ [Next]_vars => Written'
  <2> SUFFICES ASSUME Table, Shapes, conn \in [Conn -> Fields], Stages, Written,
                      [Next]_vars
               PROVE  Written'
    BY TypeParts
  <2> USE DEF world, nat
  <2>0. /\ \A d \in Conn : Stage(d) /\ WrittenAt(d)
        /\ JobStage /\ written \in [Conn -> Seq(Nat)]
        /\ job.conn \in {None} \cup Conn /\ made \in Nat
    BY DEF Stages, Written, Shapes, Job, Table, None
  \* A step that touches none of it, or only of a connection that is not
  \* established before or after.
  <2>1. ASSUME UNCHANGED <<written, job>>,
               \A d \in Conn :
                 \/ /\ conn'[d].state = conn[d].state /\ conn'[d].gnxt = conn[d].gnxt
                    /\ conn'[d].sock = conn[d].sock
                 \/ conn[d].state # "est" /\ conn'[d].state # "est"
        PROVE  Written'
    <3>1. ASSUME NEW d \in Conn PROVE WrittenAt(d)'
      <4>1. WrittenAt(d)
        BY <2>0
      <4> QED
        BY <2>1, <4>1 DEF WrittenAt, AtHand
    <3> QED
      BY <2>0, <2>1, <3>1 DEF Written
  <2>2. ASSUME NEW k \in Key, NEW fresh \in BOOLEAN, HandleSyn(k, fresh)
        PROVE  Written'
    <3>1. UNCHANGED <<written, job>>
      BY <2>2 DEF HandleSyn
    <3>2. \A d \in Conn :
            /\ conn'[d].state = conn[d].state /\ conn'[d].gnxt = conn[d].gnxt
            /\ conn'[d].sock = conn[d].sock
      <4> DEFINE id == IF fresh THEN ids + 1 ELSE guest[k].id
                 c == made + 1
      <4>1. \/ UNCHANGED conn
            \/ conn' = [conn EXCEPT ![c].key = k, ![c].id = id]
        BY <2>2 DEF HandleSyn
      <4> HIDE DEF id, c
      <4> QED
        BY <4>1 DEF Fields
    <3> QED
      BY <2>1, <3>1, <3>2
  <2>3. ASSUME NEW k \in Key, HandleRst(k) PROVE Written'
    <3>1. UNCHANGED <<written, job>>
      BY <2>3 DEF HandleRst
    <3>2. \A d \in Conn :
            /\ conn'[d].state = conn[d].state /\ conn'[d].gnxt = conn[d].gnxt
            /\ conn'[d].sock = conn[d].sock
      BY <2>3, DrainedType DEF HandleRst, Fields
    <3> QED
      BY <2>1, <3>1, <3>2
  <2>4. ASSUME NEW c \in Conn, NEW id \in 0 .. MaxId, Establish(c, id),
               conn[c].state = "synack", UNCHANGED <<written, job>>
        PROVE  Written'
    <3>1. \A d \in Conn :
            /\ conn'[d].state = IF d = c THEN "est" ELSE conn[d].state
            /\ conn'[d].gnxt = conn[d].gnxt /\ conn'[d].sock = conn[d].sock
      BY <2>4 DEF Establish, Fields
    <3>2. ASSUME NEW d \in Conn PROVE WrittenAt(d)'
      <4>1. WrittenAt(d) /\ (d = c => conn[d].gnxt = 0 /\ ~AtHand(d))
        BY <2>0, <2>4 DEF Stage, JobStage, AtHand
      <4> QED
        BY <2>4, <3>1, <4>1 DEF WrittenAt, AtHand
    <3> QED
      BY <2>0, <2>4, <3>2 DEF Written
  <2>5. ASSUME NEW k \in Key, HandleSynAck(k) PROVE Written'
    <3> DEFINE c == Drained[k]
    <3>1. UNCHANGED <<written, job>> /\ ids + 1 \in 0 .. MaxId
      BY <2>5 DEF HandleSynAck, Shapes
    <3>2. CASE c # None /\ conn[c].state = "synack"
      BY <2>4, <2>5, <3>1, <3>2, DrainedType DEF HandleSynAck
    <3>3. CASE ~(c # None /\ conn[c].state = "synack")
      <4>1. UNCHANGED conn
        BY <2>5, <3>3 DEF HandleSynAck
      <4> QED
        BY <2>1, <3>1, <4>1
    <3> QED
      BY <3>2, <3>3
  <2>6. ASSUME NEW k \in Key, NEW j \in 0 .. MaxSent, NEW fin \in BOOLEAN,
               HandleSegment(k, j, fin)
        PROVE  Written'
    <3> DEFINE c == Drained[k]
    <3>1. UNCHANGED written /\ c \in {None} \cup Conn /\ job = NoJob
      BY <2>6, DrainedType DEF HandleSegment, Idle
    <3>2. CASE c # None /\ conn[c].state = "est"
      <4> DEFINE new == InOrder(c, guest[k].id, j)
      <4>1. TakeSegment(c, guest[k].id, j, fin)
        BY <2>6, <3>2 DEF HandleSegment
      <4>2. c \in Conn /\ \A d \in Conn \ {c} : conn'[d] = conn[d]
        BY <3>1, <3>2, <4>1 DEF TakeSegment
      <4>3. \A d \in Conn : ~AtHand(d)
        BY <3>1, Keys DEF AtHand, NoJob, None
      <4>4. job' = IF new \/ fin
                     THEN [conn |-> c, byte |-> IF new THEN j ELSE 0, fin |-> fin,
                           seq |-> conn[c].hnxt]
                     ELSE NoJob
        BY <4>1 DEF TakeSegment
      <4>5. /\ conn'[c].gnxt = conn[c].gnxt + (IF new THEN 1 ELSE 0)
                                            + (IF fin THEN 1 ELSE 0)
            /\ conn'[c].state = conn[c].state
            /\ conn'[c].sock = IF fin /\ conn[c].sock = "open" THEN "shut"
                               ELSE conn[c].sock
        BY <4>1, <4>2 DEF TakeSegment, Fields
      <4>6. new => j = conn[c].gnxt + 1 /\ j # 0
        BY DEF InOrder
      <4>7. conn[c].gnxt \in Nat
        BY <4>2 DEF Fields
      <4> HIDE DEF c, new
      <4>8. ASSUME NEW d \in Conn PROVE WrittenAt(d)'
        <5>1. PICK n \in Nat :
                /\ written[d] = Count(n)
                /\ conn[d].state # "est" => n = 0
                /\ conn[d].sock = "open" /\ conn[d].state = "est" =>
                     conn[d].gnxt = n
          BY <2>0, <4>3 DEF WrittenAt
        <5>2. CASE d # c
          <6>1. ~AtHand(d)'
            BY <4>4, <5>2 DEF AtHand, NoJob
          <6> QED
            BY <3>1, <4>2, <5>1, <5>2, <6>1 DEF WrittenAt
        <5>3. CASE d = c /\ conn'[c].sock # "open"
          BY <3>1, <3>2, <4>5, <5>1, <5>3 DEF WrittenAt
        <5>4. CASE d = c /\ conn'[c].sock = "open"
          <6>1. ~fin /\ conn[c].sock = "open" /\ conn[c].gnxt = n
            BY <3>2, <4>5, <5>1, <5>4
          <6>2. AtHand(d)' <=> new
            <7>1. CASE new
              BY <4>4, <4>6, <5>4, <7>1 DEF AtHand
            <7>2. CASE ~new
              BY <4>4, <6>1, <7>2 DEF AtHand, NoJob
            <7> QED
              BY <7>1, <7>2
          <6>3. new => job'.byte = n + 1
            BY <4>4, <4>6, <6>1
          <6>4. conn'[c].gnxt = n + (IF new THEN 1 ELSE 0)
            BY <4>5, <4>7, <6>1
          <6>5. written'[d] = Count(n) /\ conn'[d].state = "est"
                /\ conn'[d].gnxt = n + (IF AtHand(d)' THEN 1 ELSE 0)
                /\ (AtHand(d)' => job'.byte = n + 1)
            BY <3>1, <3>2, <4>5, <5>1, <5>4, <6>2, <6>3, <6>4
          <6> QED
            BY <6>5 DEF WrittenAt
        <5> QED
          BY <5>2, <5>3, <5>4
      <4> QED
        BY <2>0, <3>1, <4>8 DEF Written
    <3>3. CASE c # None /\ conn[c].state = "synack"
      <4>1. Establish(c, conn[c].id) /\ UNCHANGED job /\ c \in Conn
            /\ conn[c].id \in 0 .. MaxId
        BY <2>6, <3>1, <3>3 DEF HandleSegment, Fields
      <4> QED
        BY <2>4, <3>1, <3>3, <4>1
    <3>4. CASE c = None \/ conn[c].state \notin {"est", "synack"}
      <4>1. UNCHANGED <<conn, job>>
        BY <2>6, <3>4 DEF HandleSegment
      <4> QED
        BY <2>1, <3>1, <4>1
    <3> QED
      BY <3>2, <3>3, <3>4
  <2>7. CASE Write
    <3> DEFINE c == job.conn
    <3>1. c \in Conn /\ job.byte # 0 /\ conn[c].state = "est" /\ AtHand(c)
      BY <2>0, <2>7 DEF Write, JobStage, AtHand
    <3>2. job'.byte = 0
      <4>1. [job EXCEPT !.byte = 0].byte = 0 /\ NoJob.byte = 0
        BY DEF Shapes, Job, NoJob
      <4> QED
        BY <2>7, <4>1 DEF Write
    <3>3. \A d \in Conn : ~AtHand(d)' /\ (d # c => ~AtHand(d))
      BY <3>2 DEF AtHand
    <3>4. CASE /\ conn[c].sock = "open" /\ UNCHANGED conn
               /\ written' = [written EXCEPT ![c] = Append(@, job.byte)]
      <4>1. PICK n \in Nat : written[c] = Count(n) /\ conn[c].gnxt = n + 1
                             /\ job.byte = n + 1
        BY <2>0, <3>1, <3>4 DEF WrittenAt
      <4>2. written'[c] = Count(n + 1) /\ \A d \in Conn \ {c} : written'[d] = written[d]
        BY <2>0, <3>1, <3>4, <4>1, Counting
      <4>3. ASSUME NEW d \in Conn PROVE WrittenAt(d)'
        <5>1. CASE d = c
          <6>1. n + 1 \in Nat /\ written'[d] = Count(n + 1)
            BY <4>2, <5>1
          <6>2. /\ conn'[d].state = "est" /\ conn'[d].gnxt = n + 1 /\ ~AtHand(d)'
            BY <3>1, <3>3, <3>4, <4>1, <5>1
          <6> QED
            BY <6>1, <6>2 DEF WrittenAt
        <5>2. CASE d # c
          BY <2>0, <3>3, <3>4, <4>2, <5>2 DEF WrittenAt
        <5> QED
          BY <5>1, <5>2
      <4>4. written' \in [Conn -> Seq(Nat)]
        <5>1. n + 1 \in Nat
          OBVIOUS
        <5>2. Append(written[c], job.byte) \in Seq(Nat)
          BY <4>1, <5>1, Counting
        <5> QED
          BY <2>0, <3>1, <3>4, <5>2
      <4> QED
        BY <4>3, <4>4 DEF Written
    <3>5. CASE /\ UNCHANGED written
               /\ conn' = [conn EXCEPT ![c].sock = IF @ = "open" THEN "failed" ELSE @]
      <4>1. /\ conn'[c].sock # "open" /\ conn'[c].state = conn[c].state
            /\ \A d \in Conn \ {c} : conn'[d] = conn[d]
        BY <3>1, <3>5 DEF Fields
      <4>2. ASSUME NEW d \in Conn PROVE WrittenAt(d)'
        <5>1. CASE d = c
          BY <2>0, <3>1, <3>5, <4>1, <5>1 DEF WrittenAt
        <5>2. CASE d # c
          BY <2>0, <3>3, <3>5, <4>1, <5>2 DEF WrittenAt
        <5> QED
          BY <5>1, <5>2
      <4> QED
        BY <2>0, <3>5, <4>2 DEF Written
    <3> QED
      BY <2>7, <3>4, <3>5 DEF Write
  <2>8. CASE ReplyFin
    <3>1. UNCHANGED <<written, conn>> /\ job.byte = 0 /\ job'.byte = 0
      BY <2>8 DEF ReplyFin, NoJob
    <3>2. ASSUME NEW d \in Conn PROVE WrittenAt(d)'
      BY <2>0, <3>1 DEF WrittenAt, AtHand
    <3> QED
      BY <2>0, <3>1, <3>2 DEF Written
  <2>9. CASE HostConnects
    <3> DEFINE c == made + 1
    <3>1. /\ c \in Conn /\ UNCHANGED <<written, job>>
          /\ conn' = [conn EXCEPT ![c] = [@ EXCEPT !.key = eport, !.hnxt = 1,
                                            !.state = "synack", !.sock = "open"]]
      BY <2>9 DEF HostConnects
    <3>2. /\ \A d \in Conn \ {c} : conn'[d] = conn[d]
          /\ conn'[c].state = "synack" /\ conn[c].state = "connecting"
      BY <2>0, <3>1 DEF Fields, Stage
    <3> HIDE DEF c
    <3> QED
      BY <2>1, <3>1, <3>2
  <2>10. ASSUME NEW c \in Conn, Helper(c) PROVE Written'
    <3>1. UNCHANGED <<written, job>>
      BY <2>10 DEF Helper, DialDone, DialFails, DialAnswer, FwdAdd, FwdSyn, FwdCheck,
         FwdErase
    <3>2. CASE DialDone(c)
      <4>1. /\ \A d \in Conn \ {c} : conn'[d] = conn[d]
            /\ conn'[c].state = "synack" /\ conn[c].state = "connecting"
        BY <2>0, <3>2 DEF DialDone, HelperGoes, Fields, Stage
      <4> QED
        BY <2>1, <3>1, <4>1
    <3>3. CASE ~DialDone(c)
      <4>1. \A d \in Conn :
              /\ conn'[d].state = conn[d].state /\ conn'[d].gnxt = conn[d].gnxt
              /\ conn'[d].sock = conn[d].sock
        BY <2>10, <3>3 DEF Helper, DialFails, DialAnswer, FwdAdd, FwdSyn, FwdCheck,
           FwdErase, Fields
      <4> QED
        BY <2>1, <3>1, <4>1
    <3> QED
      BY <3>2, <3>3
  <2>11. ASSUME NEW c \in Conn, Io(c) PROVE Written'
    <3>1. UNCHANGED <<written, job>>
      BY <2>11 DEF Io, IoCheck, IoTimeout, IoEof, IoRead, IoSend, IoLast, IoPush
    <3>2. \A d \in Conn :
            /\ conn'[d].state = conn[d].state /\ conn'[d].gnxt = conn[d].gnxt
            /\ conn'[d].sock = conn[d].sock
      BY <2>11 DEF Io, IoCheck, IoTimeout, IoEof, IoRead, IoSend, IoLast, IoPush,
         Fields
    <3> QED
      BY <2>1, <3>1, <3>2
  <2>12. CASE UNCHANGED vars \/ \E k \in Key : GuestEstablishes(k)
    BY <2>1, <2>12 DEF vars, GuestEstablishes
  <2> QED
    BY <2>2, <2>3, <2>5, <2>6, <2>7, <2>8, <2>9, <2>10, <2>11, <2>12
       DEF Next, Handle, Finish
<1> QED
  BY <1>1, <1>2, TypesHold, StagesHold, PTL DEF Spec

(* The host is given the guest's bytes, each once and in order, and while  *)
(* its socket takes them every byte that was acknowledged but the one at   *)
(* hand, for any number of connections and bytes.                          *)
THEOREM HostGetsTheBytes == Spec => []AcceptedIsWritten
<1>1. Written => AcceptedIsWritten
  <2> SUFFICES ASSUME Written, NEW c \in Conn
               PROVE  /\ written[c] = Count(Len(written[c]))
                      /\ conn[c].state = "est" /\ conn[c].sock = "open" =>
                           conn[c].gnxt = Len(written[c])
                             + (IF AtHand(c) THEN 1 ELSE 0)
    BY DEF AcceptedIsWritten, Count, AtHand
  <2> QED
    BY Counting DEF Written, WrittenAt
<1> QED
  BY <1>1, WrittenHolds, PTL

-----------------------------------------------------------------------------
\* The segments with numbers: sent, or about to be.  Each number below h_nxt is
\* on one of them, and no other is on any.
Numbered == emitted \cup InFlight

OneCarrier(c, n) ==
  \E s : Carriers(c, n) = IF n < conn[c].hnxt THEN {s} ELSE {}

Tiled ==
  /\ \A c \in Conn : \A n \in Nat : OneCarrier(c, n)
  /\ \A c \in Conn : helper[c].pc = "check" => Segment(c, "syn", 0, 1) \in emitted

\* A step that numbers nothing.
LEMMA SameTiles ==
  ASSUME Tiled, Numbered' = Numbered, \A d \in Conn : conn'[d].hnxt = conn[d].hnxt,
         NEW c \in Conn, NEW n \in Nat
  PROVE  OneCarrier(c, n)'
<1>1. Carriers(c, n)' = Carriers(c, n)
  BY DEF Carriers, Numbered
<1> QED
  BY <1>1 DEF Tiled, OneCarrier

\* A step that takes the next numbers of one connection for one segment.
LEMMA NextTile ==
  ASSUME Tiled, conn \in [Conn -> Fields],
         NEW d \in Conn, NEW kind, NEW len \in Nat,
         Numbered' = Numbered \cup {Segment(d, kind, conn[d].hnxt, len)},
         conn'[d].hnxt = conn[d].hnxt + len,
         \A e \in Conn \ {d} : conn'[e].hnxt = conn[e].hnxt,
         NEW c \in Conn, NEW n \in Nat
  PROVE  OneCarrier(c, n)'
<1> DEFINE s == Segment(d, kind, conn[d].hnxt, len)
           h == conn[d].hnxt
<1>1. h \in Nat
  BY DEF Fields
<1>2. s.conn = d /\ s.seq = h /\ s.len = len
  BY DEF Segment
<1>3. Carriers(c, n)' = Carriers(c, n)
                          \cup {t \in {s} : c = d /\ n \in h .. h + len - 1}
  <2> HIDE DEF h
  <2>1. \A t \in {s} : (t.conn = c /\ n \in t.seq .. t.seq + t.len - 1)
                         <=> (c = d /\ n \in h .. h + len - 1)
    BY <1>2
  <2> HIDE DEF s
  <2>2. Numbered' = Numbered \cup {s}
    BY DEF s
  <2> QED
    BY <2>1, <2>2 DEF Carriers, Numbered
<1> HIDE DEF s, h
<1>4. CASE c = d /\ n \in h .. h + len - 1
  <2>1. Carriers(c, n) = {} /\ n < h + len
    BY <1>1, <1>4 DEF Tiled, OneCarrier, h
  <2>2. Carriers(c, n)' = {s}
    BY <1>3, <1>4, <2>1
  <2>3. n < conn'[c].hnxt
    BY <1>4, <2>1 DEF h
  <2> QED
    BY <2>2, <2>3 DEF OneCarrier
<1>5. CASE ~(c = d /\ n \in h .. h + len - 1)
  <2>1. Carriers(c, n)' = Carriers(c, n)
    BY <1>3, <1>5
  <2>2. n < conn[c].hnxt <=> n < conn'[c].hnxt
    BY <1>1, <1>5 DEF h
  <2> QED
    BY <2>1, <2>2 DEF Tiled, OneCarrier
<1> QED
  BY <1>4, <1>5

\* What is about to be sent changes only with the threads between "add" and
\* "syn" and with the handler's tail.
LEMMA InFlightSame ==
  ASSUME \A d \in Conn :
           (helper'[d].pc \in {"add", "syn"}) <=> (helper[d].pc \in {"add", "syn"}),
         (job.fin /\ UNCHANGED job) \/ (~job.fin /\ ~job'.fin)
  PROVE  InFlight' = InFlight
  BY DEF InFlight

LEMMA TilesHold == Spec => []Tiled
<1> USE Bounds, Keys
<1>1. Init => Tiled
  <2> SUFFICES ASSUME Init PROVE Tiled
    OBVIOUS
  <2>1. emitted \cup InFlight = {}
    BY DEF Init, InFlight, NoJob
  <2>2. ASSUME NEW c \in Conn, NEW n \in Nat
        PROVE  Carriers(c, n) = {} /\ ~(n < conn[c].hnxt)
    BY <2>1 DEF Init, Carriers
  <2> QED
    BY <2>2 DEF Init, Tiled, OneCarrier
<1>2. TypeOK /\ Shapes /\ Stages /\ Tiled /\ [Next]_vars => Tiled'
  <2> SUFFICES ASSUME Table, Shapes, conn \in [Conn -> Fields], Stages, Tiled,
                      [Next]_vars
               PROVE  Tiled'
    BY TypeParts
  <2> USE DEF world, nat
  <2>0. /\ \A d \in Conn : Stage(d)
        /\ made \in Nat /\ job.fin \in BOOLEAN /\ ~NoJob.fin
    BY DEF Stages, Shapes, Job, Table, None, NoJob
  \* A step that numbers nothing and sends nothing.
  <2>1. ASSUME UNCHANGED emitted,
               (job.fin /\ UNCHANGED job) \/ (~job.fin /\ ~job'.fin),
               \A d \in Conn :
                 /\ conn'[d].hnxt = conn[d].hnxt
                 /\ \/ helper'[d].pc = helper[d].pc
                    \/ helper[d].pc = "add" /\ helper'[d].pc = "syn"
                    \/ {helper[d].pc, helper'[d].pc} \cap {"add", "syn", "check"} = {}
        PROVE  Tiled'
    <3>1. InFlight' = InFlight
      BY <2>1, InFlightSame
    <3>2. Numbered' = Numbered
      BY <2>1, <3>1 DEF Numbered
    <3>3. \A c \in Conn : \A n \in Nat : OneCarrier(c, n)'
      BY <2>1, <3>2, SameTiles
    <3>4. \A c \in Conn : helper'[c].pc = "check" => helper[c].pc = "check"
      BY <2>1
    <3> QED
      BY <2>1, <3>3, <3>4 DEF Tiled
  <2>2. ASSUME NEW k \in Key, NEW fresh \in BOOLEAN, HandleSyn(k, fresh)
        PROVE  Tiled'
    <3>1. UNCHANGED <<emitted, job>>
      BY <2>2 DEF HandleSyn
    <3>2. CASE UNCHANGED <<conn, helper>>
      BY <2>0, <2>1, <3>1, <3>2
    <3>3. CASE ~UNCHANGED <<conn, helper>>
      <4> DEFINE id == IF fresh THEN ids + 1 ELSE guest[k].id
                 c == made + 1
      <4>1. /\ c \in Conn /\ conn' = [conn EXCEPT ![c].key = k, ![c].id = id]
            /\ helper' = [helper EXCEPT ![c].pc = "dial"]
        BY <2>2, <3>3 DEF HandleSyn
      <4> HIDE DEF id
      <4>2. helper[c].pc = "none"
        BY <2>0, <4>1 DEF Stage
      <4>3. \A d \in Conn : /\ conn'[d].hnxt = conn[d].hnxt
                            /\ helper'[d].pc = IF d = c THEN "dial" ELSE helper[d].pc
        BY <4>1 DEF Fields, Shapes, HelperState
      <4> HIDE DEF c
      <4> QED
        BY <2>0, <2>1, <3>1, <4>2, <4>3
    <3> QED
      BY <3>2, <3>3
  <2>3. ASSUME NEW k \in Key, HandleRst(k) PROVE Tiled'
    <3>1. UNCHANGED <<emitted, job, helper>>
      BY <2>3 DEF HandleRst
    <3>2. \A d \in Conn : conn'[d].hnxt = conn[d].hnxt
      BY <2>3, DrainedType DEF HandleRst, Fields
    <3> QED
      BY <2>0, <2>1, <3>1, <3>2
  <2>4. ASSUME NEW c \in Conn, NEW id \in 0 .. MaxId, Establish(c, id),
               UNCHANGED <<emitted, job, helper>>
        PROVE  Tiled'
    <3>1. \A d \in Conn : conn'[d].hnxt = conn[d].hnxt
      BY <2>4 DEF Establish, Fields
    <3> QED
      BY <2>0, <2>1, <2>4, <3>1
  <2>5. ASSUME NEW k \in Key, HandleSynAck(k) PROVE Tiled'
    <3> DEFINE c == Drained[k]
    <3>1. UNCHANGED <<emitted, job, helper>> /\ ids + 1 \in 0 .. MaxId
      BY <2>5 DEF HandleSynAck, Shapes
    <3>2. CASE c # None /\ conn[c].state = "synack"
      BY <2>4, <2>5, <3>1, <3>2, DrainedType DEF HandleSynAck
    <3>3. CASE ~(c # None /\ conn[c].state = "synack")
      <4>1. UNCHANGED conn
        BY <2>5, <3>3 DEF HandleSynAck
      <4> QED
        BY <2>0, <2>1, <3>1, <4>1
    <3> QED
      BY <3>2, <3>3
  <2>6. ASSUME NEW k \in Key, NEW j \in 0 .. MaxSent, NEW fin \in BOOLEAN,
               HandleSegment(k, j, fin)
        PROVE  Tiled'
    <3> DEFINE c == Drained[k]
    <3>1. UNCHANGED <<emitted, helper>> /\ c \in {None} \cup Conn /\ ~job.fin
      BY <2>0, <2>6, DrainedType DEF HandleSegment, Idle
    <3>2. CASE c # None /\ conn[c].state = "est"
      <4> DEFINE new == InOrder(c, guest[k].id, j)
      <4>1. TakeSegment(c, guest[k].id, j, fin)
        BY <2>6, <3>2 DEF HandleSegment
      <4>2. c \in Conn /\ \A d \in Conn \ {c} : conn'[d] = conn[d]
        BY <3>1, <3>2, <4>1 DEF TakeSegment
      <4>3. job' = IF new \/ fin
                     THEN [conn |-> c, byte |-> IF new THEN j ELSE 0, fin |-> fin,
                           seq |-> conn[c].hnxt]
                     ELSE NoJob
        BY <4>1 DEF TakeSegment
      <4>4. conn'[c].hnxt = conn[c].hnxt + (IF fin THEN 1 ELSE 0)
        BY <4>1, <4>2 DEF TakeSegment, Fields
      <4> HIDE DEF c, new
      <4>5. CASE ~fin
        <5>1. ~job'.fin
          BY <2>0, <4>3, <4>5
        <5>2. conn[c].hnxt \in Nat
          BY <4>2 DEF Fields
        <5>3. conn'[c].hnxt = conn[c].hnxt
          BY <4>4, <4>5, <5>2
        <5>4. \A d \in Conn : conn'[d].hnxt = conn[d].hnxt
          BY <4>2, <5>3
        <5> QED
          BY <2>1, <3>1, <5>1, <5>4
      <4>6. CASE fin
        <5>1. job'.fin /\ job'.conn = c /\ job'.seq = conn[c].hnxt
          BY <4>3, <4>6
        <5>2. Numbered' = Numbered \cup {Segment(c, "fin", conn[c].hnxt, 1)}
          BY <3>1, <5>1 DEF Numbered, InFlight
        <5>3. \A e \in Conn : \A n \in Nat : OneCarrier(e, n)'
          BY <4>2, <4>4, <4>6, <5>2, NextTile
        <5> QED
          BY <3>1, <5>3 DEF Tiled
      <4> QED
        BY <4>5, <4>6
    <3>3. CASE c # None /\ conn[c].state = "synack"
      <4>1. Establish(c, conn[c].id) /\ UNCHANGED job /\ c \in Conn
            /\ conn[c].id \in 0 .. MaxId
        BY <2>6, <3>1, <3>3 DEF HandleSegment, Fields
      <4> QED
        BY <2>4, <3>1, <3>3, <4>1
    <3>4. CASE c = None \/ conn[c].state \notin {"est", "synack"}
      <4>1. UNCHANGED <<conn, job>>
        BY <2>6, <3>4 DEF HandleSegment
      <4> QED
        BY <2>0, <2>1, <3>1, <4>1
    <3> QED
      BY <3>2, <3>3, <3>4
  <2>7. CASE Finish
    <3>1. UNCHANGED helper
      BY <2>7 DEF Finish, Write, ReplyFin
    <3>2. \A d \in Conn : conn'[d].hnxt = conn[d].hnxt
      <4>1. CASE UNCHANGED conn
        BY <4>1
      <4>2. CASE conn' = [conn EXCEPT ![job.conn].sock =
                           IF @ = "open" THEN "failed" ELSE @]
        BY <4>2 DEF Fields
      <4> QED
        BY <2>7, <4>1, <4>2 DEF Finish, Write, ReplyFin
    <3>3. Numbered' = Numbered
      <4> DEFINE Syns == {Segment(c, "syn", 0, 1) :
                            c \in {d \in Conn : helper[d].pc \in {"add", "syn"}}}
                 Fin == IF job.fin THEN {Segment(job.conn, "fin", job.seq, 1)} ELSE {}
      <4>1. Syns' = Syns
        BY <3>1
      <4>2. CASE Write
        <5>1. /\ [job EXCEPT !.byte = 0].fin = job.fin
              /\ [job EXCEPT !.byte = 0].conn = job.conn
              /\ [job EXCEPT !.byte = 0].seq = job.seq
          BY DEF Shapes, Job
        <5>2. UNCHANGED emitted
              /\ job' = IF job.fin THEN [job EXCEPT !.byte = 0] ELSE NoJob
          BY <4>2 DEF Write
        <5>3. Fin' = Fin
          BY <2>0, <5>1, <5>2
        <5> QED
          BY <4>1, <5>2, <5>3 DEF Numbered, InFlight
      <4>3. CASE ReplyFin
        <5>1. /\ emitted' = emitted \cup {Segment(job.conn, "fin", job.seq, 1)}
              /\ job.fin /\ ~job'.fin
          BY <2>0, <4>3 DEF ReplyFin
        <5> QED
          BY <4>1, <5>1 DEF Numbered, InFlight
      <4> QED
        BY <2>7, <4>2, <4>3 DEF Finish
    <3>4. \A c \in Conn : \A n \in Nat : OneCarrier(c, n)'
      BY <3>2, <3>3, SameTiles
    <3>5. emitted \subseteq emitted'
      BY <2>7 DEF Finish, Write, ReplyFin
    <3> QED
      BY <3>1, <3>4, <3>5 DEF Tiled
  <2>8. CASE HostConnects
    <3> DEFINE c == made + 1
    <3>1. /\ c \in Conn /\ UNCHANGED <<emitted, job>>
          /\ conn' = [conn EXCEPT ![c] = [@ EXCEPT !.key = eport, !.hnxt = 1,
                                            !.state = "synack", !.sock = "open"]]
          /\ helper' = [helper EXCEPT ![c].pc = "add"]
      BY <2>8 DEF HostConnects
    <3>2. helper[c].pc = "none" /\ conn[c].hnxt = 0
      BY <2>0, <3>1 DEF Stage
    <3>3. /\ conn'[c].hnxt = 1 /\ \A d \in Conn \ {c} : conn'[d].hnxt = conn[d].hnxt
          /\ \A d \in Conn : helper'[d].pc = IF d = c THEN "add" ELSE helper[d].pc
      BY <3>1 DEF Fields, Shapes, HelperState
    <3> HIDE DEF c
    <3>4. Numbered' = Numbered \cup {Segment(c, "syn", conn[c].hnxt, 1)}
      BY <3>1, <3>2, <3>3 DEF Numbered, InFlight
    <3>5. conn'[c].hnxt = conn[c].hnxt + 1
      BY <3>2, <3>3
    <3>6. \A e \in Conn : \A n \in Nat : OneCarrier(e, n)'
      BY <3>1, <3>3, <3>4, <3>5, NextTile
    <3> QED
      BY <3>1, <3>3, <3>6 DEF Tiled
  <2>9. ASSUME NEW c \in Conn, Helper(c) PROVE Tiled'
    <3>1. UNCHANGED job
      BY <2>9 DEF Helper, DialDone, DialFails, DialAnswer, FwdAdd, FwdSyn, FwdCheck,
         FwdErase
    <3>2. CASE DialDone(c)
      <4>1. UNCHANGED emitted /\ \A d \in Conn : conn'[d].hnxt = conn[d].hnxt
        BY <3>2 DEF DialDone, Fields
      <4>2. /\ helper[c].pc = "dial"
            /\ \A d \in Conn : helper'[d].pc = IF d = c THEN "answer" ELSE helper[d].pc
        BY <3>2 DEF DialDone, HelperGoes, Shapes, HelperState
      <4> QED
        BY <2>0, <2>1, <3>1, <4>1, <4>2
    <3>3. CASE DialAnswer(c)
      <4>1. /\ emitted' = emitted \cup {Segment(c, "synack", conn[c].hnxt, 1)}
            /\ conn'[c].hnxt = conn[c].hnxt + 1
            /\ \A d \in Conn \ {c} : conn'[d].hnxt = conn[d].hnxt
        BY <3>3 DEF DialAnswer, Fields
      <4>2. /\ helper[c].pc = "answer"
            /\ \A d \in Conn : helper'[d].pc = IF d = c THEN "ended" ELSE helper[d].pc
        BY <3>3 DEF DialAnswer, HelperGoes, Shapes, HelperState
      <4>3. InFlight' = InFlight
        BY <2>0, <3>1, <4>2, InFlightSame
      <4>4. Numbered' = Numbered \cup {Segment(c, "synack", conn[c].hnxt, 1)}
        BY <4>1, <4>3 DEF Numbered
      <4>5. \A e \in Conn : \A n \in Nat : OneCarrier(e, n)'
        BY <4>1, <4>4, NextTile
      <4> QED
        BY <4>1, <4>2, <4>5 DEF Tiled
    <3>4. CASE FwdSyn(c)
      <4>1. /\ UNCHANGED conn /\ emitted' = emitted \cup {Segment(c, "syn", 0, 1)}
            /\ helper[c].pc = "syn"
            /\ \A d \in Conn : helper'[d].pc = IF d = c THEN "check" ELSE helper[d].pc
        BY <3>4 DEF FwdSyn, HelperGoes, Shapes, HelperState
      <4>2. Numbered' = Numbered
        BY <3>1, <4>1 DEF Numbered, InFlight
      <4>3. \A e \in Conn : \A n \in Nat : OneCarrier(e, n)'
        BY <4>1, <4>2, SameTiles
      <4> QED
        BY <4>1, <4>3 DEF Tiled
    <3>5. CASE FwdCheck(c)
      <4>1. /\ UNCHANGED <<conn, emitted>> /\ helper[c].pc = "check"
            /\ helper'[c].pc \in {"ended", "syn", "erase"}
            /\ \A d \in Conn \ {c} : helper'[d].pc = helper[d].pc
        BY <3>5 DEF FwdCheck, Shapes, HelperState
      <4>2. Segment(c, "syn", 0, 1) \in emitted
        BY <4>1 DEF Tiled
      <4>3. Numbered' = Numbered
        BY <3>1, <4>1, <4>2 DEF Numbered, InFlight
      <4>4. \A e \in Conn : \A n \in Nat : OneCarrier(e, n)'
        BY <4>1, <4>3, SameTiles
      <4> QED
        BY <4>1, <4>4 DEF Tiled
    <3>6. CASE DialFails(c) \/ FwdAdd(c) \/ FwdErase(c)
      <4>1. UNCHANGED <<conn, emitted>>
            /\ \A d \in Conn \ {c} : helper'[d].pc = helper[d].pc
        BY <3>6 DEF DialFails, FwdAdd, FwdErase, HelperGoes, Shapes, HelperState
      <4>2. \/ helper[c].pc = "add" /\ helper'[c].pc = "syn"
            \/ helper[c].pc \in {"dial", "erase"} /\ helper'[c].pc = "ended"
        BY <3>6 DEF DialFails, FwdAdd, FwdErase, HelperGoes, Shapes, HelperState
      <4>3. ASSUME NEW d \in Conn
            PROVE  \/ helper'[d].pc = helper[d].pc
                   \/ helper[d].pc = "add" /\ helper'[d].pc = "syn"
                   \/ {helper[d].pc, helper'[d].pc} \cap {"add", "syn", "check"} = {}
        BY <4>1, <4>2
      <4> QED
        BY <2>0, <2>1, <3>1, <4>1, <4>3
    <3> QED
      BY <2>9, <3>2, <3>3, <3>4, <3>5, <3>6 DEF Helper
  <2>10. ASSUME NEW c \in Conn, Io(c) PROVE Tiled'
    <3>1. UNCHANGED <<job, helper>>
      BY <2>10 DEF Io, IoCheck, IoTimeout, IoEof, IoRead, IoSend, IoLast, IoPush
    <3>2. CASE IoSend(c)
      <4>1. /\ emitted' = emitted \cup {Segment(c, io[c].kind, conn[c].hnxt, io[c].len)}
            /\ conn'[c].hnxt = conn[c].hnxt + io[c].len
            /\ \A d \in Conn \ {c} : conn'[d].hnxt = conn[d].hnxt
            /\ io[c].len \in Nat
        BY <3>2 DEF IoSend, Fields, Shapes, IoState
      <4>2. InFlight' = InFlight
        BY <2>0, <3>1, InFlightSame
      <4>3. Numbered' = Numbered \cup {Segment(c, io[c].kind, conn[c].hnxt, io[c].len)}
        BY <4>1, <4>2 DEF Numbered
      <4>4. \A e \in Conn : \A n \in Nat : OneCarrier(e, n)'
        BY <4>1, <4>3, NextTile
      <4> QED
        BY <3>1, <4>1, <4>4 DEF Tiled
    <3>3. CASE ~IoSend(c)
      <4>1. UNCHANGED <<emitted, conn>>
        BY <2>10, <3>3 DEF Io, IoCheck, IoTimeout, IoEof, IoRead, IoLast, IoPush
      <4> QED
        BY <2>0, <2>1, <3>1, <4>1
    <3> QED
      BY <3>2, <3>3
  <2>11. CASE UNCHANGED vars \/ \E k \in Key : GuestEstablishes(k)
    BY <2>0, <2>1, <2>11 DEF vars, GuestEstablishes
  <2> QED
    BY <2>2, <2>3, <2>5, <2>6, <2>7, <2>8, <2>9, <2>10, <2>11 DEF Next, Handle
<1> QED
  BY <1>1, <1>2, TypesHold, StagesHold, PTL DEF Spec

(* The reader of a host socket and the handler of the guest's segments     *)
(* give every number of the stream to one segment, whatever their order.   *)
THEOREM NumbersOnce == Spec => []SequenceTiled
<1>1. TypeOK /\ Tiled => SequenceTiled
  <2> SUFFICES ASSUME TypeOK, Tiled, NEW c \in Conn, NEW n \in 0 .. conn[c].hnxt - 1
               PROVE  Cardinality(Carriers(c, n)) = 1
    BY DEF SequenceTiled
  <2>1. conn[c].hnxt \in Nat
    BY DEF TypeOK, Fields
  <2>2. n \in Nat /\ n < conn[c].hnxt
    BY <2>1
  <2>3. \E s : Carriers(c, n) = {s}
    BY <2>2 DEF Tiled, OneCarrier
  <2> QED
    BY <2>3, FS_Singleton
<1> QED
  BY <1>1, TypesHold, TilesHold, PTL

=============================================================================
