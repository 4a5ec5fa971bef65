------------------------ MODULE SessionReaderProofs ------------------------
(* Proofs about SessionReader, for every set of sessions, every limit and *)
(* every number of packets.                                               *)
EXTENDS SessionReader, SequenceTheorems, TLAPS

\* The parts of TypeOK.
ReaderOK ==
  /\ reader \in [Session -> {"reading", "serving", "timed out", "stopped"}]
  /\ parse_state \in [Session -> ParseState]
QueueOK == read_buffer \in [Session -> Seq(Packet)]
CountOK ==
  missing \in [Session -> 0..HeadSize] /\ packets \in [Session -> 0..MaxPackets]
BufferOK == ReaderOK /\ QueueOK /\ CountOK
StateOK ==
  /\ session_state \in [Session -> SessionState]
  /\ logins \in [Session -> Nat]
ClockOK == first_byte \in Ticks /\ since \in [Session -> Ticks]
FlagsOK == overwritten \in [Session -> BOOLEAN]

\* What LoginOnce depends on: nobody logs in and remains in kNone.
Marked ==
  \A s \in Session :
    logins[s] <= 1 /\ (session_state[s] = "kNone" => logins[s] = 0)

\* What the properties of time depend on: within a packet, first_byte is the
\* time of its first byte or of a later one of another session.
Timed ==
  \A s \in Session :
    parse_state[s] # "kNone" =>
      first_byte <= since[s] /\ (overwritten[s] \/ first_byte = since[s])
-----------------------------------------------------------------------------
(* Type correctness. *)

LEMMA BufferInit == Init => BufferOK
BY BoundAssumption
   DEF Init, BufferOK, ReaderOK, QueueOK, CountOK, ParseState, HeadSize

LEMMA StateInit == Init => StateOK
BY DEF Init, StateOK, SessionState

LEMMA ClockInit == Init => ClockOK
BY LimitAssumption DEF Init, ClockOK, Ticks

LEMMA FlagsInit == Init => FlagsOK
BY DEF Init, FlagsOK

LEMMA ReaderNext ==
  ASSUME ReaderOK, NEW s \in Session,
         OnReadMore(s) \/ OnReadNext(s) \/ OnReadFail(s) \/ ServeClient(s) \/ OnLogin(s)
  PROVE  ReaderOK'
BY DEF ReaderOK, ParseState, Goto, Consume, OnReadMore, OnReadNext, OnReadFail, ServeClient,
       Timeout, Incomplete, ServeClientLogin, RefuseLogin, ServePacket, OnLogin

LEMMA CountNext ==
  ASSUME CountOK, NEW s \in Session,
         OnReadMore(s) \/ OnReadNext(s) \/ OnReadFail(s) \/ ServeClient(s) \/ OnLogin(s)
  PROVE  CountOK'
<1>1. CASE OnReadMore(s)
  <2>1. PICK m \in 0..(missing[s] - 1) : missing' = [missing EXCEPT ![s] = m]
    BY <1>1 DEF OnReadMore
  <2>2. missing[s] \in 0..HeadSize
    BY DEF CountOK
  <2>3. m \in 0..HeadSize
    BY <2>2 DEF HeadSize
  <2>4. QED
    BY <1>1, <2>1, <2>3 DEF OnReadMore, CountOK
<1>2. CASE OnReadNext(s)
  <2>1. PICK n \in 1..(MaxPackets - packets[s]) :
          /\ packets' = [packets EXCEPT ![s] = @ + n]
          /\ \E new \in [1..n -> Packet] : \E m \in 0..(Size(new[n]) - 1) :
               missing' = [missing EXCEPT ![s] = m]
    BY <1>2 DEF OnReadNext
  <2>2. packets[s] \in 0..MaxPackets
    BY DEF CountOK
  <2>3. packets[s] + n \in 0..MaxPackets
    BY <2>2, BoundAssumption
  <2>4. PICK p : \E m \in 0..(Size(p) - 1) : missing' = [missing EXCEPT ![s] = m]
    BY <2>1
  <2>5. PICK m \in 0..HeadSize : missing' = [missing EXCEPT ![s] = m]
    <3>1. Size(p) - 1 = 1 \/ Size(p) - 1 = 2
      BY DEF Size, HeadSize
    <3>2. 0..(Size(p) - 1) \subseteq 0..HeadSize
      BY <3>1 DEF HeadSize
    <3>3. QED
      BY <2>4, <3>2
  <2>6. QED
    BY <2>1, <2>3, <2>5 DEF CountOK
<1>3. CASE OnReadFail(s) \/ ServeClient(s) \/ OnLogin(s)
  BY <1>3 DEF CountOK, buffer, OnReadFail, ServeClient, Timeout, Incomplete,
              ServeClientLogin, RefuseLogin, ServePacket, OnLogin, Consume
<1>4. QED
  BY <1>1, <1>2, <1>3

LEMMA QueueNext ==
  ASSUME QueueOK, NEW s \in Session,
         OnReadMore(s) \/ OnReadNext(s) \/ OnReadFail(s) \/ ServeClient(s) \/ OnLogin(s)
  PROVE  QueueOK'
<1>1. CASE OnReadNext(s)
  <2>1. PICK n \in 1..(MaxPackets - packets[s]) : \E new \in [1..n -> Packet] :
          read_buffer' = [read_buffer EXCEPT ![s] = @ \o new]
    BY <1>1 DEF OnReadNext
  <2>2. PICK new \in [1..n -> Packet] :
          read_buffer' = [read_buffer EXCEPT ![s] = @ \o new]
    BY <2>1
  <2>3. n \in Nat
    OBVIOUS
  <2>4. new \in Seq(Packet)
    BY <2>3
  <2>5. read_buffer[s] \o new \in Seq(Packet)
    BY <2>4 DEF QueueOK
  <2>6. QED
    BY <2>2, <2>5 DEF QueueOK
<1>2. CASE ServeClientLogin(s) \/ ServePacket(s)
  <2>1. read_buffer[s] # <<>> /\ Consume(s)
    BY <1>2 DEF ServeClientLogin, ServePacket, Served, Serving
  <2>2. read_buffer[s] \in Seq(Packet)
    BY DEF QueueOK
  <2>3. Tail(read_buffer[s]) \in Seq(Packet)
    BY <2>1, <2>2
  <2>4. QED
    BY <2>1, <2>3 DEF Consume, QueueOK
<1>3. CASE OnReadMore(s) \/ OnReadFail(s) \/ Timeout(s) \/ Incomplete(s)
           \/ RefuseLogin(s) \/ OnLogin(s)
  BY <1>3 DEF QueueOK, buffer, OnReadMore, OnReadFail, Timeout, Incomplete,
              RefuseLogin, OnLogin
<1>4. QED
  BY <1>1, <1>2, <1>3 DEF ServeClient

LEMMA StateNext ==
  ASSUME StateOK, NEW s \in Session,
         OnReadMore(s) \/ OnReadNext(s) \/ OnReadFail(s) \/ ServeClient(s) \/ OnLogin(s)
  PROVE  StateOK'
<1> USE DEF StateOK, SessionState
<1>1. CASE ServeClientLogin(s)
  BY <1>1 DEF ServeClientLogin
<1>2. CASE RefuseLogin(s)
  BY <1>2 DEF RefuseLogin
<1>3. CASE OnLogin(s)
  BY <1>3 DEF OnLogin
<1>4. CASE UNCHANGED <<session_state, logins>>
  BY <1>4
<1>5. QED
  BY <1>1, <1>2, <1>3, <1>4
     DEF OnReadMore, OnReadNext, OnReadFail, ServeClient, Timeout, Incomplete,
         ServePacket

LEMMA ClockNext ==
  ASSUME ClockOK, NEW s \in Session,
         OnReadMore(s) \/ OnReadNext(s) \/ OnReadFail(s) \/ ServeClient(s) \/ OnLogin(s)
  PROVE  ClockOK'
<1>1. CASE Begin(s)
  BY <1>1, LimitAssumption DEF Begin, ClockOK, Ticks, clock
<1>2. CASE UNCHANGED clock
  BY <1>2 DEF ClockOK, Ticks, clock
<1>3. QED
  BY <1>1, <1>2 DEF Served, OnReadMore, OnReadNext, OnReadFail, ServeClient,
       Timeout, Incomplete, ServeClientLogin, RefuseLogin, ServePacket, OnLogin

LEMMA FlagsNext ==
  ASSUME FlagsOK, NEW s \in Session,
         OnReadMore(s) \/ OnReadNext(s) \/ OnReadFail(s) \/ ServeClient(s) \/ OnLogin(s)
  PROVE  FlagsOK'
BY DEF FlagsOK, clock, OnReadMore, OnReadNext, OnReadFail, ServeClient,
       Timeout, Incomplete, ServeClientLogin, RefuseLogin, ServePacket, OnLogin,
       Served, Begin

LEMMA TickOK ==
  ASSUME BufferOK, StateOK, ClockOK, FlagsOK, Tick
  PROVE  BufferOK' /\ StateOK' /\ ClockOK' /\ FlagsOK'
<1>1. BufferOK' /\ StateOK'
  BY DEF Tick, BufferOK, ReaderOK, QueueOK, CountOK, StateOK, buffer
<1>2. ClockOK'
  BY LimitAssumption DEF Tick, ClockOK, Ticks, Later
<1>3. FlagsOK'
  BY DEF Tick, FlagsOK
<1>4. QED
  BY <1>1, <1>2, <1>3

LEMMA Parts == TypeOK <=> BufferOK /\ StateOK /\ ClockOK /\ FlagsOK
BY DEF TypeOK, BufferOK, ReaderOK, QueueOK, CountOK, StateOK, ClockOK, FlagsOK

LEMMA TypeNext == TypeOK /\ [Next]_vars => TypeOK'
<1> SUFFICES ASSUME BufferOK, StateOK, ClockOK, FlagsOK, [Next]_vars
             PROVE  BufferOK' /\ StateOK' /\ ClockOK' /\ FlagsOK'
  BY Parts, PTL
<1>1. CASE UNCHANGED vars
  BY <1>1 DEF vars, buffer, clock, BufferOK, ReaderOK, QueueOK, CountOK, StateOK,
              ClockOK, FlagsOK
<1>2. CASE Tick
  BY <1>2, TickOK
<1>3. ASSUME NEW s \in Session,
             OnReadMore(s) \/ OnReadNext(s) \/ OnReadFail(s) \/ ServeClient(s) \/ OnLogin(s)
      PROVE  BufferOK' /\ StateOK' /\ ClockOK' /\ FlagsOK'
  BY <1>3, ReaderNext, QueueNext, CountNext, StateNext, ClockNext, FlagsNext
     DEF BufferOK
<1>4. QED
  BY <1>1, <1>2, <1>3 DEF Next

\* Every variable keeps its type: no piece of a packet is counted twice, and the
\* first packet of the buffer is taken only when there is one (GameSession::OnRead,
\* ServeClient).
THEOREM TypeCorrect == Spec => []TypeOK
<1>1. Init => TypeOK
  BY Parts, BufferInit, StateInit, ClockInit, FlagsInit
<1>2. QED
  BY <1>1, TypeNext, PTL DEF Spec
-----------------------------------------------------------------------------
(* Logging in. *)

LEMMA MarkedNext == TypeOK /\ Marked /\ [Next]_vars => Marked'
<1> SUFFICES ASSUME StateOK, Marked, [Next]_vars
             PROVE  Marked'
  BY Parts
<1> USE DEF Marked, StateOK
<1>1. CASE UNCHANGED vars \/ Tick
  BY <1>1 DEF vars, Tick
<1>2. ASSUME NEW s \in Session,
             OnReadMore(s) \/ OnReadNext(s) \/ OnReadFail(s) \/ Timeout(s)
             \/ Incomplete(s) \/ ServePacket(s)
      PROVE  Marked'
  BY <1>2 DEF OnReadMore, OnReadNext, OnReadFail, Timeout, Incomplete, ServePacket
<1>3. ASSUME NEW s \in Session, ServeClientLogin(s)
      PROVE  Marked'
  BY <1>3 DEF ServeClientLogin
<1>4. ASSUME NEW s \in Session, RefuseLogin(s) \/ OnLogin(s)
      PROVE  Marked'
  BY <1>4 DEF RefuseLogin, OnLogin
<1>5. QED
  BY <1>1, <1>2, <1>3, <1>4 DEF Next, ServeClient

\* However many packets there are and however they are cut, a session asks for
\* its login once (GameSession::ServeClientLogin).
THEOREM LoginOnceHolds == Spec => []LoginOnce
<1>1. Init => Marked
  <2> SUFFICES ASSUME Init, NEW s \in Session
               PROVE  logins[s] <= 1 /\ (session_state[s] = "kNone" => logins[s] = 0)
    BY DEF Marked
  <2>1. logins[s] = 0
    BY DEF Init
  <2>2. QED
    BY <2>1
<1>2. Marked => LoginOnce
  BY DEF Marked, LoginOnce
<1>3. QED
  BY <1>1, <1>2, MarkedNext, TypeCorrect, PTL DEF Spec
-----------------------------------------------------------------------------
(* The time a packet may take. *)

LEMMA TimedInit == Init => Timed
<1> SUFFICES ASSUME Init, NEW s \in Session
             PROVE  parse_state[s] = "kNone"
  BY DEF Timed
<1>1. QED
  BY DEF Init

LEMMA TimedNext == TypeOK /\ Timed /\ [Next]_vars => Timed'
<1> SUFFICES ASSUME ReaderOK, ClockOK, FlagsOK, Timed, [Next]_vars
             PROVE  Timed'
  BY Parts DEF BufferOK
<1>1. CASE UNCHANGED vars
  BY <1>1 DEF vars, clock, Timed
<1>2. CASE Tick
  <2> SUFFICES ASSUME NEW r \in Session, parse_state[r] # "kNone"
               PROVE  first_byte' <= since'[r]
                      /\ (overwritten[r] \/ first_byte' = since'[r])
    BY <1>2 DEF Tick, Timed
  <2>1. /\ first_byte <= since[r]
        /\ overwritten[r] \/ first_byte = since[r]
    BY DEF Timed
  <2>2. first_byte' = Later(first_byte) /\ since'[r] = Later(since[r])
    BY <1>2 DEF Tick
  <2>3. first_byte' <= since'[r]
    BY <2>1, <2>2, LimitAssumption DEF Later, ClockOK, Ticks
  <2>4. QED
    BY <2>1, <2>2, <2>3
<1>3. ASSUME NEW s \in Session, UNCHANGED <<parse_state, clock>>
      PROVE  Timed'
  BY <1>3 DEF Timed, clock
<1>4. ASSUME NEW s \in Session, NEW state,
             Begin(s), parse_state' = [parse_state EXCEPT ![s] = state]
      PROVE  Timed'
  <2>1. CASE parse_state[s] # "kNone"
    BY <1>4, <2>1 DEF Begin, Timed, clock, ReaderOK
  <2>2. CASE parse_state[s] = "kNone"
    <3>1. /\ first_byte' = 0
          /\ since' = [since EXCEPT ![s] = 0]
          /\ overwritten' = [r \in Session |-> r # s]
      BY <1>4, <2>2 DEF Begin
    <3>2. since'[s] = 0
      BY <3>1 DEF ClockOK
    <3>3. \A r \in Session : first_byte' <= since'[r]
      BY <3>1, LimitAssumption DEF ClockOK, Ticks
    <3>4. \A r \in Session : r # s => overwritten'[r]
      BY <3>1
    <3>5. QED
      BY <3>1, <3>2, <3>3, <3>4 DEF Timed
  <2>3. QED
    BY <2>1, <2>2
<1>5. ASSUME NEW s \in Session,
             OnReadMore(s) \/ OnReadNext(s) \/ OnReadFail(s) \/ Timeout(s) \/ OnLogin(s)
      PROVE  Timed'
  BY <1>3, <1>5 DEF OnReadMore, OnReadNext, OnReadFail, Timeout, OnLogin
<1>6. ASSUME NEW s \in Session, Incomplete(s)
      PROVE  Timed'
  BY <1>4, <1>6 DEF Incomplete
<1>7. ASSUME NEW s \in Session, ServeClientLogin(s) \/ ServePacket(s)
      PROVE  Timed'
  BY <1>4, <1>7 DEF ServeClientLogin, ServePacket, Served, Consume
<1>8. ASSUME NEW s \in Session, RefuseLogin(s)
      PROVE  Timed'
  <2>1. parse_state' = [parse_state EXCEPT ![s] = parse_state[s]]
    BY <1>8 DEF RefuseLogin, ReaderOK
  <2>2. QED
    BY <1>4, <1>8, <2>1 DEF RefuseLogin, Served
<1>9. QED
  BY <1>1, <1>2, <1>5, <1>6, <1>7, <1>8 DEF Next, ServeClient

LEMMA TimedAlways == Spec => [](TypeOK /\ Timed)
<1>1. QED
  BY TimedInit, TimedNext, TypeCorrect, PTL DEF Spec

\* The only step that ends in a timeout is the session's own.
LEMMA TimedOutBySelf ==
  ASSUME Next, NEW s \in Session, ReaderOK,
         reader[s] # "timed out", reader'[s] = "timed out"
  PROVE  Timeout(s)
<1>1. CASE Tick
  BY <1>1 DEF Tick
<1>2. ASSUME NEW r \in Session,
             OnReadMore(r) \/ OnReadNext(r) \/ OnReadFail(r) \/ Incomplete(r)
             \/ ServeClientLogin(r) \/ RefuseLogin(r) \/ ServePacket(r) \/ OnLogin(r)
      PROVE  FALSE
  BY <1>2 DEF ReaderOK, OnReadMore, OnReadNext, OnReadFail, Incomplete, OnLogin,
              ServeClientLogin, RefuseLogin, ServePacket, Goto, Consume
<1>3. ASSUME NEW r \in Session, Timeout(r)
      PROVE  Timeout(s)
  BY <1>3 DEF ReaderOK, Timeout, Goto
<1>4. QED
  BY <1>1, <1>2, <1>3 DEF Next, ServeClient

\* However many sessions share first_byte, no session is stopped for what another
\* did: a timeout follows more than the limit after the first byte of the
\* session's own packet (GameSession::ServeClient).
THEOREM NoFalseTimeoutHolds == Spec => NoFalseTimeout
<1>1. ASSUME TypeOK, Timed, [Next]_vars, NEW s \in Session,
             reader[s] # "timed out", reader'[s] = "timed out"
      PROVE  since[s] > Limit
  <2>1. Timeout(s)
    BY <1>1, Parts, TimedOutBySelf DEF BufferOK, vars
  <2>2. parse_state[s] # "kNone" /\ ~(first_byte <= Limit)
    BY <2>1 DEF Timeout, InTime
  <2>3. first_byte <= since[s]
    BY <1>1, <2>2 DEF Timed
  <2>4. ClockOK
    BY <1>1, Parts
  <2>5. QED
    BY <2>2, <2>3, <2>4, LimitAssumption DEF ClockOK, Ticks
<1>2. TypeOK /\ Timed /\ [Next]_vars =>
        [\A s \in Session :
           reader[s] # "timed out" /\ reader'[s] = "timed out" => since[s] > Limit]_vars
  BY <1>1
<1>3. QED
  BY <1>2, TimedAlways, PTL DEF Spec, NoFalseTimeout

\* A session that has been too slow, with nobody else having set first_byte, is
\* given neither another packet nor another wait (GameSession::ServeClient).
THEOREM SlowIsNoticedHolds == Spec => SlowIsNoticed
<1> DEFINE Slow(s) == /\ reader[s] = "serving" /\ parse_state[s] # "kNone"
                      /\ since[s] > Limit /\ ~overwritten[s]
           Kept(s) == /\ reader'[s] \in {"serving", "timed out"}
                      /\ UNCHANGED <<read_buffer[s], parse_state[s]>>
<1>1. ASSUME TypeOK, Timed, Next, NEW s \in Session, Slow(s)
      PROVE  Kept(s)
  <2>1. ReaderOK /\ QueueOK /\ ClockOK
    BY <1>1, Parts DEF BufferOK
  <2>2. ~InTime(s)
    BY <1>1, <2>1, LimitAssumption DEF Timed, InTime, ClockOK, Ticks
  <2>3. CASE Tick
    BY <1>1, <2>3 DEF Tick, buffer
  <2>4. ASSUME NEW r \in Session, OnReadMore(r) \/ OnReadNext(r) \/ OnReadFail(r)
        PROVE  Kept(s)
    BY <1>1, <2>1, <2>4
       DEF ReaderOK, QueueOK, OnReadMore, OnReadNext, OnReadFail, Goto, buffer
  <2>5. ASSUME NEW r \in Session, ServeClient(r)
        PROVE  Kept(s)
    <3>1. CASE r = s
      BY <1>1, <2>1, <2>2, <2>5, <3>1
         DEF ServeClient, Timeout, Incomplete, ServeClientLogin, RefuseLogin,
             ServePacket, Served, Goto, buffer, ReaderOK
    <3>2. CASE r # s
      BY <1>1, <2>1, <2>5, <3>2
         DEF ServeClient, Timeout, Incomplete, ServeClientLogin, RefuseLogin,
             ServePacket, Consume, Goto, buffer, ReaderOK, QueueOK
    <3>3. QED
      BY <3>1, <3>2
  <2>6. ASSUME NEW r \in Session, OnLogin(r)
        PROVE  Kept(s)
    BY <1>1, <2>6 DEF OnLogin, buffer
  <2>7. QED
    BY <1>1, <2>3, <2>4, <2>5, <2>6 DEF Next
<1>2. TypeOK /\ Timed /\ [Next]_vars => [\A s \in Session : Slow(s) => Kept(s)]_vars
  BY <1>1
<1>3. QED
  BY <1>2, TimedAlways, PTL DEF Spec, SlowIsNoticed
-----------------------------------------------------------------------------
(* What is left in the buffer. *)

LEMMA NothingLeftInit == Init => NothingLeftBehind
BY DEF Init, NothingLeftBehind

LEMMA NothingLeftNext == TypeOK /\ NothingLeftBehind /\ [Next]_vars => NothingLeftBehind'
<1> SUFFICES ASSUME BufferOK, ReaderOK, QueueOK, CountOK, NothingLeftBehind,
                    [Next]_vars,
                    NEW s \in Session, reader'[s] = "reading"
             PROVE  IF read_buffer'[s] = <<>> THEN parse_state'[s] = "kNone"
                    ELSE /\ ~Whole(s)' /\ parse_state'[s] # "kNone"
                         /\ parse_state'[s] = "kHead" <=> There(s)' < HeadSize
  BY Parts DEF BufferOK, NothingLeftBehind
<1> USE DEF There, Whole
<1>1. ASSUME UNCHANGED <<reader[s], parse_state[s], read_buffer[s], missing[s]>>
      PROVE  IF read_buffer'[s] = <<>> THEN parse_state'[s] = "kNone"
             ELSE /\ ~Whole(s)' /\ parse_state'[s] # "kNone"
                  /\ parse_state'[s] = "kHead" <=> There(s)' < HeadSize
  BY <1>1 DEF NothingLeftBehind
<1>2. CASE UNCHANGED vars \/ Tick
  BY <1>1, <1>2 DEF vars, Tick, buffer
<1>3. ASSUME NEW r \in Session, OnReadMore(r) \/ OnReadNext(r) \/ OnReadFail(r)
             \/ Timeout(r) \/ RefuseLogin(r), r = s
      PROVE  FALSE
  BY <1>3 DEF OnReadMore, OnReadNext, OnReadFail, Timeout, RefuseLogin, Goto, ReaderOK
<1>4. ASSUME NEW r \in Session, OnReadMore(r) \/ OnReadNext(r) \/ OnReadFail(r)
             \/ ServeClient(r), r # s
      PROVE  UNCHANGED <<reader[s], parse_state[s], read_buffer[s], missing[s]>>
  <2>1. CASE OnReadMore(r) \/ OnReadNext(r) \/ OnReadFail(r)
    BY <1>4, <2>1 DEF OnReadMore, OnReadNext, OnReadFail, Goto, buffer, ReaderOK,
                      QueueOK, CountOK
  <2>2. CASE ServeClient(r)
    BY <1>4, <2>2 DEF ServeClient, Timeout, RefuseLogin, Incomplete, ServePacket,
                      ServeClientLogin, Consume, Goto, buffer, ReaderOK, QueueOK
  <2>3. QED
    BY <1>4, <2>1, <2>2
<1>5. CASE Incomplete(s)
  BY <1>5 DEF Incomplete, Serving, buffer, ReaderOK
<1>6. CASE ServeClientLogin(s) \/ ServePacket(s)
  <2>1. Consume(s) /\ read_buffer[s] # <<>>
    BY <1>6 DEF ServeClientLogin, ServePacket, Served, Serving
  <2>2. Len(read_buffer[s]) = 1
    BY <2>1 DEF Consume, Goto, ReaderOK
  <2>3. Tail(read_buffer[s]) = <<>>
    <3>1. read_buffer[s] \in Seq(Packet)
      BY DEF QueueOK
    <3>2. Tail(read_buffer[s]) \in Seq(Packet) /\ Len(Tail(read_buffer[s])) = 0
      BY <2>1, <2>2, <3>1
    <3>3. QED
      BY <3>2, EmptySeq
  <2>4. QED
    BY <2>1, <2>3 DEF Consume, ReaderOK, QueueOK
<1>7. ASSUME NEW r \in Session, OnLogin(r)
      PROVE  UNCHANGED <<reader[s], parse_state[s], read_buffer[s], missing[s]>>
  BY <1>7 DEF OnLogin, buffer
<1>8. QED
  BY <1>1, <1>2, <1>3, <1>4, <1>5, <1>6, <1>7 DEF Next, ServeClient

\* However the packets are cut, a session that waits has served every whole packet
\* it was sent (the loop of GameSession::ServeClient).
THEOREM NothingLeftBehindHolds == Spec => []NothingLeftBehind
<1>1. QED
  BY NothingLeftInit, NothingLeftNext, TypeCorrect, PTL DEF Spec
=============================================================================
