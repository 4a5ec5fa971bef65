--------------------------- MODULE SessionReader ---------------------------
(***************************************************************************)
(* How the sessions read their clients' packets (game_session.cpp): a      *)
(* packet may come in pieces and a piece may end one packet and begin the  *)
(* next.  A packet must be there 7 seconds after its first byte; the time  *)
(* of that byte is kept in one static variable for all sessions, and is    *)
(* looked at only when something arrives.                                  *)
(*                                                                         *)
(* Each session has one OnRead at a time; those of different sessions run  *)
(* on different threads.  One iteration of ServeClient's loop is one step. *)
(* Sizes are such that adding that of the head to them does not overflow.  *)
(***************************************************************************)
EXTENDS Naturals, Sequences

CONSTANTS
  Session,   \* the sessions
  Limit,     \* the 7 seconds, in ticks of the clock
  MaxPackets \* bound: packets a client sends

ASSUME LimitAssumption == Limit \in Nat
ASSUME BoundAssumption == MaxPackets \in Nat

VARIABLES
  reader,        \* where the session's OnRead is
  parse_state,   \* GameSession::parse_state_
  read_buffer,   \* GameSession::read_buffer_: the packets in it
  missing,       \* pieces that the last of them lacks
  session_state, \* GameSession::session_state_
  first_byte,    \* ticks since ServeClient's first_byte
  \* History.
  since,         \* ticks since the session's packet began
  overwritten,   \* another session has set first_byte since
  logins,        \* UserManagers the session has created
  packets        \* packets the client has begun to send

buffer == <<read_buffer, missing, packets>>
clock == <<first_byte, since, overwritten>>
vars == <<reader, parse_state, buffer, session_state, clock, logins>>
-----------------------------------------------------------------------------
\* A login whose packet is too short, and one whose data cannot be right; a
\* packet without a body, whose action is whatever follows it.  A kPing is
\* treated as a kControl here: nothing more is done with either.
Packet == {"kLogin", "short login", "wrong login", "kControl", "empty"}

\* The pieces: a head comes in two, a body in one.
HeadSize == 2
Size(p) == IF p = "empty" THEN HeadSize ELSE HeadSize + 1

ParseState == {"kNone", "kHead", "kBody"}
SessionState == {"kNone", "kAuthorizing", "kFailed", "kAuthorized"}
Ticks == 0..(Limit + 1)

TypeOK ==
  /\ reader \in [Session -> {"reading", "serving", "timed out", "stopped"}]
  /\ parse_state \in [Session -> ParseState]
  /\ read_buffer \in [Session -> Seq(Packet)]
  /\ missing \in [Session -> 0..HeadSize]
  /\ session_state \in [Session -> SessionState]
  /\ first_byte \in Ticks /\ since \in [Session -> Ticks]
  /\ overwritten \in [Session -> BOOLEAN]
  /\ logins \in [Session -> Nat] /\ packets \in [Session -> 0..MaxPackets]

Init ==
  /\ reader = [s \in Session |-> "reading"]
  /\ parse_state = [s \in Session |-> "kNone"]
  /\ read_buffer = [s \in Session |-> <<>>]
  /\ missing = [s \in Session |-> 0]
  /\ session_state = [s \in Session |-> "kNone"]
  /\ first_byte = 0 /\ since = [s \in Session |-> 0]
  /\ overwritten = [s \in Session |-> FALSE]
  /\ logins = [s \in Session |-> 0] /\ packets = [s \in Session |-> 0]
-----------------------------------------------------------------------------
Goto(s, where) == reader' = [reader EXCEPT ![s] = where]

\* Mutant: a message with the whole of it is taken for one piece.
OnReadMoreOnce(s) ==
  /\ reader[s] = "reading"
  /\ missing' = [missing EXCEPT ![s] = @ - 1]
  /\ Goto(s, "serving")
  /\ UNCHANGED <<parse_state, read_buffer, packets, session_state, clock,
                 logins>>

\* A message with more of the packet that is incomplete.
OnReadMore(s) ==
  /\ reader[s] = "reading" /\ missing[s] > 0
  /\ \E m \in 0..(missing[s] - 1) : missing' = [missing EXCEPT ![s] = m]
  /\ Goto(s, "serving")
  /\ UNCHANGED <<parse_state, read_buffer, packets, session_state, clock,
                 logins>>

\* A message with what was missing and with n packets, the last one or not all
\* of it.
OnReadNext(s) ==
  /\ reader[s] = "reading"
  /\ \E n \in 1..(MaxPackets - packets[s]) : \E new \in [1..n -> Packet] :
       /\ packets' = [packets EXCEPT ![s] = @ + n]
       /\ read_buffer' = [read_buffer EXCEPT ![s] = @ \o new]
       /\ \E m \in 0..(Size(new[n]) - 1) : missing' = [missing EXCEPT ![s] = m]
  /\ Goto(s, "serving")
  /\ UNCHANGED <<parse_state, session_state, clock, logins>>

\* The client has gone, or the session was closed.
OnReadFail(s) ==
  /\ reader[s] = "reading"
  /\ Goto(s, "stopped")
  /\ UNCHANGED <<parse_state, buffer, session_state, clock, logins>>

\* What is there of the first packet in the buffer.
There(s) == LET p == Head(read_buffer[s])
            IN IF Len(read_buffer[s]) = 1 THEN Size(p) - missing[s] ELSE Size(p)
Whole(s) == There(s) = Size(Head(read_buffer[s]))

\* Mutant: the time of the first byte is set only when there was none.
BeginOnce(s) ==
  IF parse_state[s] # "kNone" THEN UNCHANGED clock
  ELSE /\ since' = [since EXCEPT ![s] = 0]
       /\ UNCHANGED <<first_byte, overwritten>>

\* kNone: first_byte is set, for this session and all others.
Begin(s) ==
  IF parse_state[s] # "kNone" THEN UNCHANGED clock
  ELSE /\ first_byte' = 0
       /\ since' = [since EXCEPT ![s] = 0]
       /\ overwritten' = [r \in Session |-> r # s]

\* Mutant: only the head has to be there in time.
InTimeHead(s) == parse_state[s] # "kHead" \/ first_byte <= Limit

InTime(s) == parse_state[s] = "kNone" \/ first_byte <= Limit

Serving(s) == reader[s] = "serving" /\ read_buffer[s] # <<>>

Timeout(s) ==
  /\ Serving(s) /\ ~InTime(s)
  /\ Goto(s, "timed out")
  /\ UNCHANGED <<parse_state, buffer, session_state, clock, logins>>

\* More has to be read; that the head is there is remembered.
Incomplete(s) ==
  /\ Serving(s) /\ InTime(s) /\ ~Whole(s)
  /\ Begin(s)
  /\ parse_state' = [parse_state EXCEPT
       ![s] = IF There(s) < HeadSize THEN "kHead" ELSE "kBody"]
  /\ Goto(s, "reading")
  /\ UNCHANGED <<buffer, session_state, logins>>

\* Mutant: one packet is served for each message.
ConsumeOne(s) ==
  /\ read_buffer' = [read_buffer EXCEPT ![s] = Tail(@)]
  /\ parse_state' = [parse_state EXCEPT ![s] = "kNone"]
  /\ Goto(s, "reading")
  /\ UNCHANGED <<missing, packets>>

\* The packet is taken from the buffer; the loop goes on with the next.
Consume(s) ==
  /\ read_buffer' = [read_buffer EXCEPT ![s] = Tail(@)]
  /\ parse_state' = [parse_state EXCEPT ![s] = "kNone"]
  /\ Goto(s, IF Len(read_buffer[s]) = 1 THEN "reading" ELSE "serving")
  /\ UNCHANGED <<missing, packets>>

Served(s) == Serving(s) /\ InTime(s) /\ Whole(s) /\ Begin(s)

\* Mutant: the session is not marked as authorizing.
ServeClientLoginUnmarked(s) ==
  /\ Served(s) /\ Head(read_buffer[s]) = "kLogin" /\ session_state[s] = "kNone"
  /\ logins' = [logins EXCEPT ![s] = @ + 1]
  /\ Consume(s)
  /\ UNCHANGED session_state

\* ServeClientLogin, for a session that has not tried yet.
ServeClientLogin(s) ==
  /\ Served(s) /\ Head(read_buffer[s]) = "kLogin" /\ session_state[s] = "kNone"
  /\ session_state' = [session_state EXCEPT ![s] = "kAuthorizing"]
  /\ logins' = [logins EXCEPT ![s] = @ + 1]
  /\ Consume(s)

\* It refuses a login: ServeClient returns false, and OnRead stops the session.
RefuseLogin(s) ==
  /\ Served(s) /\ session_state[s] = "kNone"
  /\ Head(read_buffer[s]) \in {"short login", "wrong login", "empty"}
  /\ session_state' = [session_state EXCEPT
       ![s] = IF Head(read_buffer[s]) = "wrong login" THEN "kAuthorizing" ELSE @]
  /\ Goto(s, "stopped")
  /\ UNCHANGED <<parse_state, buffer, logins>>

\* Everything else: a control is replayed if the session is authorised (see
\* VirtualHid), and what does not fit the session's state is ignored.
ServePacket(s) ==
  /\ Served(s)
  /\ session_state[s] = "kNone" => Head(read_buffer[s]) \in {"kControl", "empty"}
  /\ Consume(s)
  /\ UNCHANGED <<session_state, logins>>

\* OnLogin, on any thread; a failed login closes the stream.
OnLogin(s) ==
  /\ session_state[s] = "kAuthorizing" /\ logins[s] > 0
  /\ \E result \in {"kAuthorized", "kFailed"} :
       session_state' = [session_state EXCEPT ![s] = result]
  /\ UNCHANGED <<reader, parse_state, buffer, clock, logins>>

Later(t) == IF t > Limit THEN t ELSE t + 1
Tick ==
  /\ \/ first_byte <= Limit
     \/ \E s \in Session : since[s] <= Limit
  /\ first_byte' = Later(first_byte)
  /\ since' = [s \in Session |-> Later(since[s])]
  /\ UNCHANGED <<reader, parse_state, buffer, session_state, overwritten,
                 logins>>
-----------------------------------------------------------------------------
ServeClient(s) ==
  \/ Timeout(s) \/ Incomplete(s) \/ ServeClientLogin(s) \/ RefuseLogin(s)
  \/ ServePacket(s)

Next ==
  \/ \E s \in Session :
       \/ OnReadMore(s) \/ OnReadNext(s) \/ OnReadFail(s) \/ ServeClient(s)
       \/ OnLogin(s)
  \/ Tick

Spec == Init /\ [][Next]_vars
-----------------------------------------------------------------------------
(* Properties *)

\* A session that waits for its client has nothing left to do: no whole packet
\* stays in the buffer until the client happens to send more, and parse_state_
\* says how much of the next one is there.
NothingLeftBehind ==
  \A s \in Session :
    reader[s] = "reading" =>
      IF read_buffer[s] = <<>> THEN parse_state[s] = "kNone"
      ELSE /\ ~Whole(s) /\ parse_state[s] # "kNone"
           /\ parse_state[s] = "kHead" <=> There(s) < HeadSize

\* However its packets are cut, queued or interleaved with the answer of the
\* user service, a session asks for its login once.
LoginOnce == \A s \in Session : logins[s] <= 1

\* Although all sessions share first_byte, none is stopped for another's
\* slowness: whoever is timed out has itself been too slow.
NoFalseTimeout ==
  [][\A s \in Session :
       reader[s] # "timed out" /\ reader'[s] = "timed out" => since[s] > Limit]_vars

\* A session that was too slow gets nothing more served, and waits for no more
\* of its packet either: it is stopped, unless another has set first_byte since.
SlowIsNoticed ==
  [][\A s \in Session :
       /\ reader[s] = "serving" /\ parse_state[s] # "kNone"
       /\ since[s] > Limit /\ ~overwritten[s]
       => /\ reader'[s] \in {"serving", "timed out"}
          /\ UNCHANGED <<read_buffer[s], parse_state[s]>>]_vars
=============================================================================
