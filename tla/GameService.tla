---------------------------- MODULE GameService ----------------------------
(***************************************************************************)
(* The registry of client sessions of the engine (cge/cge/game_service.cpp), *)
(* the life of one session (game_session.cpp) and the encoder threads the  *)
(* registry starts and stops through Engine (engine.cpp).                  *)
(*                                                                         *)
(* Completion handlers run on the threads of one io_context, without a     *)
(* strand: two handlers of one session may run at the same time.  A        *)
(* thread's stack of calls still to make is the sequence todo[t]: a thread *)
(* with an empty sequence is inside io_context::run() and may take any     *)
(* handler that is ready; otherwise it executes the call at the head.      *)
(* What happens between two accesses to shared state is one step.          *)
(***************************************************************************)
EXTENDS Naturals, Sequences, FiniteSets

CONSTANTS
  Session,         \* clients that may connect
  IoThread,        \* threads inside Engine::Loop
  kMaxClientCount, \* game_service.cpp:38
  Encoders,        \* the encoders, in the order Engine runs and stops them
  Streaming,       \* encoders whose source keeps producing frames
  MaxRestarts      \* bound: restarts of the video encoder

Encoder == {Encoders[i] : i \in DOMAIN Encoders}
Nobody == "nobody"
Nothing == "nothing"

ASSUME SessionAssumption == IsFiniteSet(Session) /\ Nothing \notin Session
ASSUME LimitAssumption == kMaxClientCount \in Nat /\ MaxRestarts \in Nat
ASSUME EncodersAssumption == Encoders \in {<<"audio", "video">>, <<"video">>}
ASSUME StreamingAssumption == Streaming \subseteq Encoder
ASSUME ThreadAssumption ==
  /\ Session \cap Encoder = {}
  /\ IoThread \cap (Encoder \cup {Nobody}) = {}

VARIABLES
  sessions,            \* GameService::sessions_
  authorized_sessions, \* GameService::authorized_sessions_
  session_mutex,       \* who holds GameService::session_mutex_
  accepting,           \* an async_accept is outstanding on acceptor_
  conn,                \* the session's WebSocket
  reading,             \* an async_read is outstanding on it
  writing,             \* state of the session's write queue
  session_state,       \* GameSession::session_state_
  login,               \* what the session's UserManager may still report
  todo,                \* the calls each io thread still has to make
  thread,              \* the std::thread of each encoder and what it does
  stop_event,          \* the encoders' manual-reset stop events
  codec_context,       \* the encoders whose codec_context_ is not null
  posted,              \* RestartVideoEncoder handlers in the io_context
  restarts,            \* restarts begun so far (bounded by MaxRestarts)
  phase                \* the process: running, stopping, ..., terminated

registry == <<sessions, authorized_sessions, session_mutex>>
client == <<conn, reading, writing, session_state, login>>
encoders == <<thread, stop_event, codec_context, posted, restarts>>
vars == <<registry, accepting, client, todo, encoders, phase>>
-----------------------------------------------------------------------------
Ops == {"Join", "Stop", "Leave", "AddAuthorized", "LoginResult", "Close",
        "StopAll", "StopBegin", "EncoderRun", "StartThread", "EncoderStop",
        "JoinTest", "JoinThread", "FreeCodec"}
Call == [op : Ops, arg : Session \cup Encoder \cup {Nothing}]
Calls(op, arg) == [op |-> op, arg |-> arg]

\* Engine::EncoderRun and Engine::EncoderStop, one call per encoder.
EachEncoder(op) == [i \in DOMAIN Encoders |-> Calls(op, Encoders[i])]
EncoderRunCalls == EachEncoder("EncoderRun")
EncoderStopCalls == EachEncoder("EncoderStop")

ConnState == {"out", "handshake", "open", "closing", "closed"}
\* "writing": an async_write begun on an open stream is outstanding;
\* "doomed": one begun on a stream that is no longer open, bound to fail;
\* "dead": one failed, and the queue it leaves non-empty is never drained.
WriteState == {"idle", "writing", "doomed", "dead"}
SessionState == {"None", "Authorizing", "Failed", "Authorized"}
LoginState == {"none", "inflight", "loggedin", "over"}
ThreadState == {"none", "opening", "encoding", "sendlock", "sending",
                "resetlock", "resetting", "exited"}
Phase == {"running", "stopping", "stopped", "exiting", "exited", "terminated"}

TypeOK ==
  /\ sessions \subseteq Session
  /\ authorized_sessions \subseteq Session
  /\ session_mutex \in IoThread \cup Encoder \cup {Nobody}
  /\ accepting \in BOOLEAN
  /\ conn \in [Session -> ConnState]
  /\ reading \in [Session -> BOOLEAN]
  /\ writing \in [Session -> WriteState]
  /\ session_state \in [Session -> SessionState]
  /\ login \in [Session -> LoginState]
  /\ todo \in [IoThread -> Seq(Call)]
  /\ thread \in [Encoder -> ThreadState]
  /\ stop_event \in [Encoder -> BOOLEAN]
  /\ codec_context \subseteq Encoder
  /\ posted \in Nat
  /\ restarts \in 0..MaxRestarts
  /\ phase \in Phase

Init ==
  /\ sessions = {}
  /\ authorized_sessions = {}
  /\ session_mutex = Nobody
  /\ accepting = TRUE
  /\ conn = [s \in Session |-> "out"]
  /\ reading = [s \in Session |-> FALSE]
  /\ writing = [s \in Session |-> "idle"]
  /\ session_state = [s \in Session |-> "None"]
  /\ login = [s \in Session |-> "none"]
  /\ todo = [t \in IoThread |-> <<>>]
  /\ thread = [e \in Encoder |-> "none"]
  /\ stop_event = [e \in Encoder |-> FALSE]
  /\ codec_context = {}
  /\ posted = 0
  /\ restarts = 0
  /\ phase = "running"
-----------------------------------------------------------------------------
\* The threads of the io_context.

\* Thread t is in ioc_.run() and may take a handler.
Ready(t) == todo[t] = <<>> /\ phase \in {"running", "stopping"}

\* Thread t is about to make the call op(arg).
At(t, op, arg) ==
  /\ phase # "terminated"
  /\ todo[t] # <<>>
  /\ Head(todo[t]) = Calls(op, arg)

\* Thread t returns from its call and makes the given calls next.
Then(t, calls) == todo' = [todo EXCEPT ![t] = calls \o Tail(todo[t])]
\* Thread t starts a handler that makes the given calls.
Start(t, calls) == todo' = [todo EXCEPT ![t] = calls]

\* Some thread has a call of one of the operations ops on s to make.
Pending(s, ops) ==
  \E t \in IoThread : \E i \in DOMAIN todo[t] :
    todo[t][i].op \in ops /\ todo[t][i].arg = s

\* A shared_ptr to the session exists: one of the registry's sets or a bound
\* handler holds it.
Alive(s) ==
  \/ s \in sessions \cup authorized_sessions
  \/ conn[s] \in {"handshake", "closing"}
  \/ reading[s]
  \/ writing[s] \in {"writing", "doomed"}
  \/ Pending(s, Ops)

\* GameSession::Write as the registry sees it: the first packet of an empty
\* queue begins an async_write, a later one waits behind it.
Written(s) ==
  IF writing[s] # "idle" THEN writing[s]
  ELSE IF conn[s] = "open" THEN "writing" ELSE "doomed"
-----------------------------------------------------------------------------
\* Accepting and reading.

OnAccept(t, s) ==
  /\ Ready(t) /\ accepting /\ conn[s] = "out"
  /\ conn' = [conn EXCEPT ![s] = "handshake"]
  /\ UNCHANGED <<registry, accepting, reading, writing, session_state, login,
                 todo, encoders, phase>>

\* An error, or the peer being gone already so that remote_endpoint() or
\* set_option() throws: Accept() is not reached and nothing accepts any more, or,
\* where it is GameSession's constructor that calls it, the process terminates.
OnAcceptFail(t) ==
  /\ Ready(t) /\ accepting
  /\ accepting' = FALSE
  /\ phase' \in {phase, "terminated"}
  /\ UNCHANGED <<registry, client, todo, encoders>>

OnHandshake(t, s) ==
  /\ Ready(t) /\ conn[s] = "handshake"
  /\ conn' = [conn EXCEPT ![s] = "open"]
  /\ Start(t, <<Calls("Join", s)>>)
  /\ UNCHANGED <<registry, accepting, reading, writing, session_state, login,
                 encoders, phase>>

OnHandshakeFail(t, s) ==
  /\ Ready(t) /\ conn[s] = "handshake"
  /\ conn' = [conn EXCEPT ![s] = "closed"]
  /\ UNCHANGED <<registry, accepting, reading, writing, session_state, login,
                 todo, encoders, phase>>

\* GameService::Join and what GameSession::OnAccept does with its result.
Join(t, s) ==
  /\ At(t, "Join", s) /\ session_mutex = Nobody
  /\ \/ /\ Cardinality(authorized_sessions) < kMaxClientCount
        /\ sessions' = sessions \cup {s}
        /\ reading' = [reading EXCEPT ![s] = TRUE]
        /\ Then(t, <<>>)
     \/ /\ Cardinality(authorized_sessions) >= kMaxClientCount
        /\ Then(t, <<Calls("Stop", s), Calls("Stop", s)>>)
        /\ UNCHANGED <<sessions, reading>>
  /\ UNCHANGED <<authorized_sessions, session_mutex, accepting, conn, writing,
                 session_state, login, encoders, phase>>

\* The stream has been open, and may have been closed since the bytes arrived:
\* a read that has already completed is still served.
HasRead(s) == reading[s] /\ conn[s] \in {"open", "closing", "closed"}

\* ServeClient() meets a well-formed login packet: the UserManager starts, and
\* OnRead reads again.
OnReadLogin(t, s) ==
  /\ Ready(t) /\ HasRead(s)
  /\ session_state[s] = "None"
  /\ session_state' = [session_state EXCEPT ![s] = "Authorizing"]
  /\ login' = [login EXCEPT ![s] = "inflight"]
  /\ UNCHANGED <<registry, accepting, conn, reading, writing, todo, encoders,
                 phase>>

\* Mutant of OnReadBad: the session is not stopped.
OnReadBadIgnored(t, s) ==
  /\ Ready(t) /\ HasRead(s)
  /\ reading' = [reading EXCEPT ![s] = FALSE]
  /\ UNCHANGED <<registry, accepting, conn, writing, session_state, login, todo,
                 encoders, phase>>

\* ServeClient() returns false: a late packet, or a login packet of a wrong
\* size, which may already have moved the session to kAuthorizing.
OnReadBad(t, s) ==
  /\ Ready(t) /\ HasRead(s)
  /\ \/ UNCHANGED session_state
     \/ /\ session_state[s] = "None"
        /\ session_state' = [session_state EXCEPT ![s] = "Authorizing"]
  /\ reading' = [reading EXCEPT ![s] = FALSE]
  /\ Start(t, <<Calls("Stop", s)>>)
  /\ UNCHANGED <<registry, accepting, conn, writing, login, encoders, phase>>

OnReadFail(t, s) ==
  /\ Ready(t) /\ reading[s] /\ conn[s] \in {"closing", "closed"}
  /\ reading' = [reading EXCEPT ![s] = FALSE]
  /\ Start(t, <<Calls("Stop", s)>>)
  /\ UNCHANGED <<registry, accepting, conn, writing, session_state, login,
                 encoders, phase>>
-----------------------------------------------------------------------------
\* What the UserManager reports (UserManager has the detail).

\* OnLogin(false).  After a failed request the UserManager reports the failure
\* and tries again, so a later report may follow.
OnLoginFailed(t, s) ==
  /\ Ready(t) /\ login[s] = "inflight" /\ Alive(s)
  /\ login' \in {login, [login EXCEPT ![s] = "over"]}
  /\ session_state' = [session_state EXCEPT ![s] = "Failed"]
  /\ Start(t, <<Calls("Stop", s)>>)
  /\ UNCHANGED <<registry, accepting, conn, reading, writing, encoders, phase>>

\* OnLogin(true).
OnLoginOk(t, s) ==
  /\ Ready(t) /\ login[s] = "inflight" /\ Alive(s)
  /\ login' = [login EXCEPT ![s] = "loggedin"]
  /\ session_state' = [session_state EXCEPT ![s] = "Authorized"]
  /\ Start(t, <<Calls("AddAuthorized", s)>>)
  /\ UNCHANGED <<registry, accepting, conn, reading, writing, encoders, phase>>

\* OnKeepAlive(false).
OnKeepAliveFailed(t, s) ==
  /\ Ready(t) /\ login[s] = "loggedin" /\ Alive(s)
  /\ login' = [login EXCEPT ![s] = "over"]
  /\ session_state' = [session_state EXCEPT ![s] = "Failed"]
  /\ Start(t, <<Calls("Stop", s)>>)
  /\ UNCHANGED <<registry, accepting, conn, reading, writing, encoders, phase>>

\* Mutant of AddAuthorized: the limit is left to Join.
AddAuthorizedUnlimited(t, s) ==
  /\ At(t, "AddAuthorized", s) /\ session_mutex = Nobody
  /\ authorized_sessions' = authorized_sessions \cup {s}
  /\ Then(t, IF authorized_sessions = {}
             THEN EncoderRunCalls \o <<Calls("LoginResult", s)>>
             ELSE <<Calls("LoginResult", s)>>)
  /\ UNCHANGED <<sessions, session_mutex, accepting, client, encoders, phase>>

\* GameService::AddAuthorized: the first authorised session runs the encoders.
AddAuthorized(t, s) ==
  /\ At(t, "AddAuthorized", s) /\ session_mutex = Nobody
  /\ \/ /\ Cardinality(authorized_sessions) < kMaxClientCount
        /\ authorized_sessions' = authorized_sessions \cup {s}
        /\ Then(t, IF authorized_sessions = {}
                   THEN EncoderRunCalls \o <<Calls("LoginResult", s)>>
                   ELSE <<Calls("LoginResult", s)>>)
     \/ /\ Cardinality(authorized_sessions) >= kMaxClientCount
        /\ Then(t, <<Calls("Stop", s)>>)
        /\ UNCHANGED authorized_sessions
  /\ UNCHANGED <<sessions, session_mutex, accepting, client, encoders, phase>>

\* Mutant of LoginResult: nothing is written.
LoginResultOmitted(t, s) ==
  /\ At(t, "LoginResult", s)
  /\ Then(t, <<>>)
  /\ UNCHANGED <<registry, accepting, client, encoders, phase>>

\* The rest of OnLogin(true): the login result is written.
LoginResult(t, s) ==
  /\ At(t, "LoginResult", s)
  /\ writing' = [writing EXCEPT ![s] = Written(s)]
  /\ Then(t, <<>>)
  /\ UNCHANGED <<registry, accepting, conn, reading, session_state, login,
                 encoders, phase>>
-----------------------------------------------------------------------------
\* Writing, closing and leaving.

\* OnWrite without error: the next packet of the queue, if any, is written.
OnWriteOk(t, s) ==
  /\ Ready(t) /\ writing[s] = "writing"
  /\ writing' \in {[writing EXCEPT ![s] = "idle"],
                   [writing EXCEPT ![s] = IF conn[s] = "open" THEN "writing"
                                          ELSE "doomed"]}
  /\ UNCHANGED <<registry, accepting, conn, reading, session_state, login,
                 todo, encoders, phase>>

\* Mutant of OnWriteFail: the session is left to its reader.
OnWriteFailIgnored(t, s) ==
  /\ Ready(t)
  /\ \/ writing[s] = "doomed"
     \/ writing[s] = "writing" /\ conn[s] \in {"closing", "closed"}
  /\ writing' = [writing EXCEPT ![s] = "dead"]
  /\ UNCHANGED <<registry, accepting, conn, reading, session_state, login,
                 todo, encoders, phase>>

\* OnWrite with an error: the packet is not popped, so Write() never begins
\* another async_write.
OnWriteFail(t, s) ==
  /\ Ready(t)
  /\ \/ writing[s] = "doomed"
     \/ writing[s] = "writing" /\ conn[s] \in {"closing", "closed"}
  /\ writing' = [writing EXCEPT ![s] = "dead"]
  /\ Start(t, <<Calls("Stop", s)>>)
  /\ UNCHANGED <<registry, accepting, conn, reading, session_state, login,
                 encoders, phase>>

\* GameSession::Stop(true): an open stream is closed asynchronously, any other
\* leaves at once.
Stop(t, s) ==
  /\ At(t, "Stop", s)
  /\ IF conn[s] = "open"
     THEN /\ conn' = [conn EXCEPT ![s] = "closing"]
          /\ Then(t, <<>>)
     ELSE /\ Then(t, <<Calls("Leave", s)>>)
          /\ UNCHANGED conn
  /\ UNCHANGED <<registry, accepting, reading, writing, session_state, login,
                 encoders, phase>>

\* The async_close completes, with or without an error.
OnStop(t, s) ==
  /\ Ready(t) /\ conn[s] = "closing"
  /\ conn' = [conn EXCEPT ![s] = "closed"]
  /\ Start(t, <<Calls("Leave", s)>>)
  /\ UNCHANGED <<registry, accepting, reading, writing, session_state, login,
                 encoders, phase>>

\* GameService::Leave: the last authorised session stops the encoders, after
\* the lock is released.
Leave(t, s) ==
  /\ At(t, "Leave", s) /\ session_mutex = Nobody
  /\ sessions' = sessions \ {s}
  /\ authorized_sessions' = authorized_sessions \ {s}
  /\ Then(t, IF authorized_sessions = {s} THEN EncoderStopCalls ELSE <<>>)
  /\ UNCHANGED <<session_mutex, accepting, client, encoders, phase>>

\* The peer goes away, or the stream's own timeout fires.
Disconnect(s) ==
  /\ phase # "terminated" /\ conn[s] = "open"
  /\ conn' = [conn EXCEPT ![s] = "closed"]
  /\ UNCHANGED <<registry, accepting, reading, writing, session_state, login,
                 todo, encoders, phase>>
-----------------------------------------------------------------------------
\* The encoder threads.

\* Encoder::Run() takes back the stop event...
EncoderRun(t, e) ==
  /\ At(t, "EncoderRun", e)
  /\ stop_event' = [stop_event EXCEPT ![e] = FALSE]
  /\ Then(t, <<Calls("StartThread", e)>>)
  /\ UNCHANGED <<registry, accepting, client, thread, codec_context, posted,
                 restarts, phase>>

\* ... and starts the thread: assigning to a joinable std::thread terminates the
\* process.
StartThread(t, e) ==
  /\ At(t, "StartThread", e)
  /\ \/ /\ thread[e] = "none"
        /\ thread' = [thread EXCEPT ![e] = "opening"]
        /\ Then(t, <<>>)
        /\ UNCHANGED phase
     \/ /\ thread[e] # "none"
        /\ phase' = "terminated"
        /\ UNCHANGED <<thread, todo>>
  /\ UNCHANGED <<registry, accepting, client, stop_event, codec_context, posted,
                 restarts>>

\* Free(true) sets the stop event, ...
EncoderStop(t, e) ==
  /\ At(t, "EncoderStop", e)
  /\ stop_event' = [stop_event EXCEPT ![e] = TRUE]
  /\ Then(t, <<Calls("JoinTest", e), Calls("FreeCodec", e)>>)
  /\ UNCHANGED <<registry, accepting, client, thread, codec_context, posted,
                 restarts, phase>>

\* ... asks whether there is a thread to join, ...
JoinTest(t, e) ==
  /\ At(t, "JoinTest", e)
  /\ Then(t, IF thread[e] = "none" THEN <<>> ELSE <<Calls("JoinThread", e)>>)
  /\ UNCHANGED <<registry, accepting, client, encoders, phase>>

Joiners(e) == {t \in IoThread : At(t, "JoinThread", e)}

\* ... waits until thread_.join() returns, ...  A second thread in join() on the
\* same object is undefined: its join() throws inside a noexcept function and
\* terminates the process, or it returns too.
JoinThread(t, e) ==
  /\ At(t, "JoinThread", e) /\ thread[e] = "exited"
  /\ thread' = [thread EXCEPT ![e] = "none"]
  /\ todo' = [u \in IoThread |-> IF u \in Joiners(e) THEN Tail(todo[u])
                                 ELSE todo[u]]
  /\ \/ UNCHANGED phase
     \/ Joiners(e) # {t} /\ phase' = "terminated"
  /\ UNCHANGED <<registry, accepting, client, stop_event, codec_context, posted,
                 restarts>>

\* ... and frees what the thread used.
FreeCodec(t, e) ==
  /\ At(t, "FreeCodec", e)
  /\ codec_context' = codec_context \ {e}
  /\ Then(t, <<>>)
  /\ UNCHANGED <<registry, accepting, client, thread, stop_event, posted,
                 restarts, phase>>

\* The first frame, or the format of the source, is there: AddStream and Open.
OpenCodec(e) ==
  /\ phase # "terminated" /\ e \in Streaming
  /\ thread[e] = "opening" /\ ~stop_event[e]
  /\ thread' = [thread EXCEPT ![e] = "encoding"]
  /\ codec_context' = codec_context \cup {e}
  /\ UNCHANGED <<registry, accepting, client, todo, stop_event, posted, restarts, phase>>

\* EncodeFrame, and a packet for GameService::Send; without a codec it is the end.
EncodeFrame(e) ==
  IF e \in codec_context
  THEN thread' = [thread EXCEPT ![e] = "sendlock"] /\ UNCHANGED phase
  ELSE phase' = "terminated" /\ UNCHANGED thread

\* Mutant of Encode: the frame comes before the stop event.
EncodeFirst(e) ==
  /\ phase # "terminated" /\ thread[e] = "encoding"
  /\ EncodeFrame(e)
  /\ UNCHANGED <<registry, accepting, client, todo, stop_event, codec_context,
                 posted, restarts>>

\* A frame is ready.  When both events are set WaitForMultipleObjects reports the
\* stop event.
Encode(e) ==
  /\ phase # "terminated" /\ thread[e] = "encoding" /\ ~stop_event[e]
  /\ EncodeFrame(e)
  /\ UNCHANGED <<registry, accepting, client, todo, stop_event, codec_context,
                 posted, restarts>>

\* Send takes the lock...
SendLock(e) ==
  /\ phase # "terminated" /\ session_mutex = Nobody
  /\ \/ thread[e] = "sendlock" /\ thread' = [thread EXCEPT ![e] = "sending"]
     \/ thread[e] = "resetlock" /\ thread' = [thread EXCEPT ![e] = "resetting"]
  /\ session_mutex' = e
  /\ UNCHANGED <<sessions, authorized_sessions, accepting, client, todo,
                 stop_event, codec_context, posted, restarts, phase>>

\* ... and writes to every authorised session.  (The packets one frame gives are
\* sent as one.)
WriteAll ==
  writing' = [s \in Session |-> IF s \in authorized_sessions THEN Written(s)
                                ELSE writing[s]]

SendPacket(e) ==
  /\ phase # "terminated" /\ thread[e] = "sending"
  /\ WriteAll
  /\ session_mutex' = Nobody
  /\ thread' = [thread EXCEPT ![e] = "encoding"]
  /\ UNCHANGED <<sessions, authorized_sessions, accepting, conn, reading,
                 session_state, login, todo, stop_event, codec_context, posted,
                 restarts, phase>>

\* The source's type or size changed, or its mapping cannot be opened.
RestartNeeded ==
  /\ phase # "terminated"
  /\ thread["video"] \in {"opening", "encoding"} /\ ~stop_event["video"]
  /\ restarts < MaxRestarts
  /\ restarts' = restarts + 1
  /\ thread' = [thread EXCEPT !["video"] = "resetlock"]
  /\ UNCHANGED <<registry, accepting, client, todo, stop_event, codec_context,
                 posted, phase>>

\* Mutant of NotifyRestartVideoEncoder: without a client there is no restart.
NotifyRestartForClients ==
  /\ phase # "terminated" /\ thread["video"] = "resetting"
  /\ WriteAll
  /\ session_mutex' = Nobody
  /\ thread' = [thread EXCEPT !["video"] = "exited"]
  /\ posted' = IF authorized_sessions = {} THEN posted ELSE posted + 1
  /\ UNCHANGED <<sessions, authorized_sessions, accepting, conn, reading,
                 session_state, login, todo, stop_event, codec_context, restarts,
                 phase>>

\* Engine::NotifyRestartVideoEncoder: kResetVideo is sent, then the restart is
\* left to an io thread and the encoder thread ends, its codec kept.
NotifyRestartVideoEncoder ==
  /\ phase # "terminated" /\ thread["video"] = "resetting"
  /\ WriteAll
  /\ session_mutex' = Nobody
  /\ thread' = [thread EXCEPT !["video"] = "exited"]
  /\ posted' = posted + 1
  /\ UNCHANGED <<sessions, authorized_sessions, accepting, conn, reading,
                 session_state, login, todo, stop_event, codec_context, restarts, phase>>

\* Mutant of RestartVideoEncoder: it runs although nothing was posted.
RestartVideoEncoderAnyway(t) ==
  /\ Ready(t)
  /\ posted' = posted - 1
  /\ Start(t, <<Calls("EncoderStop", "video"), Calls("EncoderRun", "video")>>)
  /\ UNCHANGED <<registry, accepting, client, thread, stop_event, codec_context,
                 restarts, phase>>

\* The posted handler: the encoder is stopped and run again.
RestartVideoEncoder(t) ==
  /\ Ready(t) /\ posted > 0
  /\ posted' = posted - 1
  /\ Start(t, <<Calls("EncoderStop", "video"), Calls("EncoderRun", "video")>>)
  /\ UNCHANGED <<registry, accepting, client, thread, stop_event, codec_context,
                 restarts, phase>>

\* The thread sees the stop event and ends; its Free(false) sets the event and
\* frees the codec.
EncoderExit(e) ==
  /\ phase # "terminated" /\ thread[e] \in {"opening", "encoding"} /\ stop_event[e]
  /\ thread' = [thread EXCEPT ![e] = "exited"]
  /\ codec_context' = codec_context \ {e}
  /\ UNCHANGED <<registry, accepting, client, todo, stop_event, posted,
                 restarts, phase>>

\* The thread ends on an error of its own.
EncoderFail(e) ==
  /\ phase # "terminated" /\ e \in Streaming
  /\ thread[e] \in {"opening", "encoding"} /\ ~stop_event[e]
  /\ thread' = [thread EXCEPT ![e] = "exited"]
  /\ stop_event' = [stop_event EXCEPT ![e] = TRUE]
  /\ codec_context' = codec_context \ {e}
  /\ UNCHANGED <<registry, accepting, client, todo, posted, restarts,
                 phase>>
-----------------------------------------------------------------------------
\* Stopping the process.

\* The signal handler: Engine::Stop, GameService::Stop(false).
Signal(t) ==
  /\ Ready(t) /\ phase = "running"
  /\ phase' = "stopping"
  /\ accepting' = FALSE
  /\ Start(t, <<Calls("StopAll", Nothing)>>)
  /\ UNCHANGED <<registry, client, encoders>>

\* The loop's test of sessions_.empty(), without the lock; when it is empty
\* ioc_.stop() ends every ioc_.run().
StopAll(t) ==
  /\ At(t, "StopAll", Nothing)
  /\ \/ /\ sessions # {}
        /\ Then(t, <<Calls("StopBegin", Nothing)>>)
        /\ UNCHANGED phase
     \/ /\ sessions = {}
        /\ phase' = "stopped"
        /\ Then(t, <<>>)
  /\ UNCHANGED <<registry, accepting, client, encoders>>

\* (*sessions_.begin())->Stop(false).  The set may have become empty since it
\* was tested: begin() is then end(), whose dereference ends the process.
StopBegin(t) ==
  /\ At(t, "StopBegin", Nothing)
  /\ \/ \E s \in sessions :
          Then(t, IF conn[s] = "open"
                  THEN <<Calls("Leave", s), Calls("Close", s),
                         Calls("StopAll", Nothing)>>
                  ELSE <<Calls("Leave", s), Calls("StopAll", Nothing)>>)
        /\ UNCHANGED phase
     \/ /\ sessions = {}
        /\ phase' = "terminated"
        /\ UNCHANGED todo
  /\ UNCHANGED <<registry, accepting, client, encoders>>

\* The synchronous ws_.close().
Close(t, s) ==
  /\ At(t, "Close", s)
  /\ conn' = [conn EXCEPT ![s] = IF conn[s] = "open" THEN "closed" ELSE conn[s]]
  /\ Then(t, <<>>)
  /\ UNCHANGED <<registry, accepting, reading, writing, session_state, login,
                 encoders, phase>>

\* Engine::Run has joined the other io thread; main() stops the encoders.
MainEncoderStop(t) ==
  /\ phase = "stopped" /\ \A u \in IoThread : todo[u] = <<>>
  /\ phase' = "exiting"
  /\ Start(t, EncoderStopCalls)
  /\ UNCHANGED <<registry, accepting, client, encoders>>

MainReturn ==
  /\ phase = "exiting" /\ \A u \in IoThread : todo[u] = <<>>
  /\ phase' = "exited"
  /\ UNCHANGED <<registry, accepting, client, todo, encoders>>

\* The process has ended.
Ended == phase \in {"exited", "terminated"} /\ UNCHANGED vars
-----------------------------------------------------------------------------
\* A handler of the io_context, taken by thread t.
Handler(t) ==
  \/ \E s \in Session :
       \/ OnAccept(t, s) \/ OnHandshake(t, s) \/ OnHandshakeFail(t, s)
       \/ OnReadLogin(t, s) \/ OnReadBad(t, s) \/ OnReadFail(t, s)
       \/ OnLoginFailed(t, s) \/ OnLoginOk(t, s) \/ OnKeepAliveFailed(t, s)
       \/ OnWriteOk(t, s) \/ OnWriteFail(t, s) \/ OnStop(t, s)
  \/ OnAcceptFail(t) \/ RestartVideoEncoder(t) \/ Signal(t)

\* The call at the head of thread t's stack.
Step(t) ==
  \/ \E s \in Session :
       \/ Join(t, s) \/ AddAuthorized(t, s) \/ LoginResult(t, s)
       \/ Stop(t, s) \/ Leave(t, s) \/ Close(t, s)
  \/ \E e \in Encoder :
       \/ EncoderRun(t, e) \/ StartThread(t, e)
       \/ EncoderStop(t, e) \/ JoinTest(t, e) \/ JoinThread(t, e) \/ FreeCodec(t, e)
  \/ StopAll(t) \/ StopBegin(t)

EncoderStep(e) ==
  \/ OpenCodec(e) \/ Encode(e) \/ SendLock(e) \/ SendPacket(e)
  \/ EncoderExit(e) \/ EncoderFail(e)

Next ==
  \/ \E t \in IoThread : Handler(t) \/ Step(t) \/ MainEncoderStop(t)
  \/ \E e \in Encoder : EncoderStep(e)
  \/ \E s \in Session : Disconnect(s)
  \/ RestartNeeded \/ NotifyRestartVideoEncoder
  \/ MainReturn \/ Ended

Spec == Init /\ [][Next]_vars

(***************************************************************************)
(* Fairness.  Both threads keep running their handlers and an io_context   *)
(* serves completed operations in the order they complete, so a completion *)
(* that stays pending is taken although the threads are busy in between:   *)
(* strong fairness.  The same for the lock: an encoder releases it after   *)
(* every packet and then waits for a frame.  Nothing is assumed of the     *)
(* client, of the frame source or of the encoders' own errors.             *)
(***************************************************************************)
EncoderProgress(e) ==
  \/ SendLock(e) \/ SendPacket(e) \/ EncoderExit(e)
  \/ e = "video" /\ NotifyRestartVideoEncoder

Fairness ==
  /\ \A t \in IoThread : SF_vars(Step(t))
  /\ \A e \in Encoder : SF_vars(EncoderProgress(e))
  /\ \A s \in Session :
       SF_vars(\E t \in IoThread :
                 OnReadFail(t, s) \/ OnWriteFail(t, s) \/ OnStop(t, s))

FairSpec == Spec /\ Fairness
-----------------------------------------------------------------------------
(* Properties *)

\* No interleaving of two logins lets more sessions than kMaxClientCount into
\* authorized_sessions_ (Join tests the limit long before AddAuthorized).
ClientLimit == Cardinality(authorized_sessions) <= kMaxClientCount

\* An open stream has an outstanding async_read, which is what notices that
\* the peer has gone, unless a handler is about to begin it or to close it.
OpenIsRead ==
  \A s \in Session :
    conn[s] = "open" => reading[s] \/ Pending(s, {"Join", "Stop"})

\* A session that is no longer connected and still in one of the registry's
\* sets has something left that takes it out: an outstanding operation that
\* will fail, the completion of its async_close, or a call that leads to Leave.
\* It is what a login answered after the client left depends on: the session
\* is authorised after its last Leave, and only the failing write of its login
\* result takes it out again.
NoOrphan ==
  \A s \in sessions \cup authorized_sessions :
    conn[s] # "open" =>
      \/ reading[s]
      \/ conn[s] = "closing"
      \/ writing[s] = "doomed"
      \/ Pending(s, {"Join", "Stop", "Leave"})
      \/ writing[s] = "idle" /\ Pending(s, {"LoginResult"})

\* EncodeFrame has a codec: whoever frees it has joined the thread that uses it
\* (the assertion of VideoEncoder::EncodeFrame).
CodecIsThere ==
  \A e \in Encoder : thread[e] = "encoding" /\ ~stop_event[e] => e \in codec_context

\* A restart the video encoder has ended for is not lost, whoever runs and stops
\* encoders meanwhile: as long as nobody has told it to stop, the handler is posted
\* or its Stop() is still to come, or somebody is about to run the encoder anew.
RestartIsServed ==
  phase # "terminated" /\ thread["video"] = "exited" /\ ~stop_event["video"] =>
    posted > 0 \/ Pending("video", {"EncoderStop", "StartThread"})

\* A thread joining the video encoder gets on: the encoder is not kept waiting
\* for a lock its joiner holds, and sees the stop event although frames keep
\* coming.  (Audio has a capture thread besides: see AudioPipeline.)  It is so
\* unless Run() takes the event back that the joiner has set: then the joiner may
\* wait for a thread that has never been told to stop, and for ever.
Joining == Joiners("video") # {}
EncoderStopReturns == Joining ~> ~Joining \/ ~stop_event["video"]

\* A session whose connection is gone is eventually in neither set, for good,
\* however late its login is answered (while the io threads run handlers).
GoneForGood ==
  \A s \in Session :
    <>[](phase \in {"running", "stopping"} /\ conn[s] = "closed"
         => s \notin sessions \cup authorized_sessions)
=============================================================================
