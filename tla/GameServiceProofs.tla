------------------------- MODULE GameServiceProofs -------------------------
(* Proofs about GameService, for every set of sessions and io threads.     *)
EXTENDS GameService, FiniteSetTheorems, SequenceTheorems, TLAPS

-----------------------------------------------------------------------------
(* The stacks of calls. *)

\* What Then(t, calls) and Start(t, calls) leave is again a stack of calls.
LEMMA StackType ==
  ASSUME todo \in [IoThread -> Seq(Call)], NEW t \in IoThread,
         NEW calls \in Seq(Call),
         \/ todo[t] # <<>> /\ Then(t, calls)
         \/ Start(t, calls)
  PROVE  todo' \in [IoThread -> Seq(Call)]
<1>1. todo[t] \in Seq(Call)
  OBVIOUS
<1>2. CASE todo[t] # <<>> /\ Then(t, calls)
  <2>1. Tail(todo[t]) \in Seq(Call)
    BY <1>1, <1>2
  <2>2. calls \o Tail(todo[t]) \in Seq(Call)
    BY <2>1
  <2>3. QED
    BY <1>2, <2>2 DEF Then
<1>3. CASE Start(t, calls)
  BY <1>3 DEF Start
<1>4. QED
  BY <1>2, <1>3

\* There is a video encoder, and perhaps one for audio.
LEMMA EncoderNames == "video" \in Encoder /\ Encoder \subseteq {"audio", "video"}
<1>1. CASE Encoders = <<"audio", "video">>
  BY <1>1 DEF Encoder
<1>2. CASE Encoders = <<"video">>
  BY <1>2 DEF Encoder
<1>3. QED
  BY <1>1, <1>2, EncodersAssumption

\* The calls made for each encoder are of one operation.
LEMMA EachEncoderType ==
  ASSUME NEW op \in Ops
  PROVE  /\ EachEncoder(op) \in Seq(Call)
         /\ \A i \in 1..Len(EachEncoder(op)) :
              \E e \in Encoder : EachEncoder(op)[i] = Calls(op, e)
<1>1. PICK n \in Nat : Encoders \in [1..n -> Encoder]
  <2>1. CASE Encoders = <<"audio", "video">>
    <3>1. DOMAIN Encoders = 1..2
      BY <2>1
    <3>2. QED
      BY <2>1, <3>1 DEF Encoder
  <2>2. CASE Encoders = <<"video">>
    <3>1. DOMAIN Encoders = 1..1
      BY <2>2
    <3>2. QED
      BY <2>2, <3>1 DEF Encoder
  <2>3. QED
    BY <2>1, <2>2, EncodersAssumption
<1>2. \A e \in Encoder : Calls(op, e) \in Call
  BY DEF Calls, Call
<1>3. EachEncoder(op) = [i \in 1..n |-> Calls(op, Encoders[i])]
  BY <1>1 DEF EachEncoder
<1>4. EachEncoder(op) \in [1..n -> Call]
  BY <1>1, <1>2, <1>3
<1>5. EachEncoder(op) \in Seq(Call) /\ Len(EachEncoder(op)) = n
  BY <1>4
<1>6. QED
  BY <1>1, <1>3, <1>5

\* The stacks the handlers begin with are stacks of calls.
LEMMA CallsType ==
  /\ <<>> \in Seq(Call)
  /\ \A op \in Ops, a \in Session \cup Encoder \cup {Nothing} :
       /\ <<Calls(op, a)>> \in Seq(Call)
       /\ <<Calls(op, a), Calls(op, a)>> \in Seq(Call)
  /\ EncoderRunCalls \in Seq(Call)
  /\ EncoderStopCalls \in Seq(Call)
<1>1. \A op \in Ops, a \in Session \cup Encoder \cup {Nothing} :
        Calls(op, a) \in Call
  BY DEF Calls, Call
<1>2. EncoderRunCalls \in Seq(Call) /\ EncoderStopCalls \in Seq(Call)
  BY EachEncoderType DEF Ops, EncoderRunCalls, EncoderStopCalls
<1>3. QED
  BY <1>1, <1>2
-----------------------------------------------------------------------------
(* Type correctness. *)

LEMMA TypeInit == Init => TypeOK
<1>1. <<>> \in Seq(Call)
  BY CallsType
<1>2. QED
  BY <1>1, LimitAssumption
     DEF Init, TypeOK, ConnState, WriteState, SessionState, LoginState,
         ThreadState, Phase

\* A handler of one session leaves every variable in its type.
LEMMA TypeHandler ==
  ASSUME TypeOK, NEW t \in IoThread, NEW s \in Session,
         \/ OnAccept(t, s) \/ OnHandshake(t, s) \/ OnHandshakeFail(t, s)
         \/ OnReadLogin(t, s) \/ OnReadBad(t, s) \/ OnReadFail(t, s)
         \/ OnLoginFailed(t, s) \/ OnLoginOk(t, s) \/ OnKeepAliveFailed(t, s)
         \/ OnWriteOk(t, s) \/ OnWriteFail(t, s) \/ OnStop(t, s)
  PROVE  TypeOK'
<1> USE DEF TypeOK, registry, client, encoders
<1>0. /\ <<Calls("Join", s)>> \in Seq(Call)
      /\ <<Calls("Stop", s)>> \in Seq(Call)
      /\ <<Calls("AddAuthorized", s)>> \in Seq(Call)
      /\ <<Calls("Leave", s)>> \in Seq(Call)
  BY CallsType DEF Ops
<1>1. CASE OnAccept(t, s)
  BY <1>1 DEF OnAccept, ConnState
<1>2. CASE OnHandshake(t, s)
  <2>1. todo' \in [IoThread -> Seq(Call)]
    BY <1>0, <1>2, StackType DEF OnHandshake
  <2>2. QED
    BY <1>2, <2>1 DEF OnHandshake, ConnState
<1>3. CASE OnHandshakeFail(t, s)
  BY <1>3 DEF OnHandshakeFail, ConnState
<1>4. CASE OnReadLogin(t, s)
  BY <1>4 DEF OnReadLogin, SessionState, LoginState
<1>5. CASE OnReadBad(t, s)
  <2>1. todo' \in [IoThread -> Seq(Call)]
    BY <1>0, <1>5, StackType DEF OnReadBad
  <2>2. QED
    BY <1>5, <2>1 DEF OnReadBad, SessionState
<1>6. CASE OnReadFail(t, s)
  <2>1. todo' \in [IoThread -> Seq(Call)]
    BY <1>0, <1>6, StackType DEF OnReadFail
  <2>2. QED
    BY <1>6, <2>1 DEF OnReadFail
<1>7. CASE OnLoginFailed(t, s)
  <2>1. todo' \in [IoThread -> Seq(Call)]
    BY <1>0, <1>7, StackType DEF OnLoginFailed
  <2>2. QED
    BY <1>7, <2>1 DEF OnLoginFailed, SessionState, LoginState
<1>8. CASE OnLoginOk(t, s)
  <2>1. todo' \in [IoThread -> Seq(Call)]
    BY <1>0, <1>8, StackType DEF OnLoginOk
  <2>2. QED
    BY <1>8, <2>1 DEF OnLoginOk, SessionState, LoginState
<1>9. CASE OnKeepAliveFailed(t, s)
  <2>1. todo' \in [IoThread -> Seq(Call)]
    BY <1>0, <1>9, StackType DEF OnKeepAliveFailed
  <2>2. QED
    BY <1>9, <2>1 DEF OnKeepAliveFailed, SessionState, LoginState
<1>10. CASE OnWriteOk(t, s)
  BY <1>10 DEF OnWriteOk, WriteState
<1>11. CASE OnWriteFail(t, s)
  <2>1. todo' \in [IoThread -> Seq(Call)]
    BY <1>0, <1>11, StackType DEF OnWriteFail
  <2>2. QED
    BY <1>11, <2>1 DEF OnWriteFail, WriteState
<1>12. CASE OnStop(t, s)
  <2>1. todo' \in [IoThread -> Seq(Call)]
    BY <1>0, <1>12, StackType DEF OnStop
  <2>2. QED
    BY <1>12, <2>1 DEF OnStop, ConnState
<1>13. QED
  BY <1>1, <1>2, <1>3, <1>4, <1>5, <1>6, <1>7, <1>8, <1>9, <1>10, <1>11,
     <1>12

\* So does a call on a session.
LEMMA TypeSessionCall ==
  ASSUME TypeOK, NEW t \in IoThread, NEW s \in Session,
         \/ Join(t, s) \/ AddAuthorized(t, s) \/ LoginResult(t, s)
         \/ Stop(t, s) \/ Leave(t, s) \/ Close(t, s)
  PROVE  TypeOK'
<1> USE DEF TypeOK, registry, client, encoders
<1>0. /\ <<>> \in Seq(Call)
      /\ <<Calls("Stop", s)>> \in Seq(Call)
      /\ <<Calls("Stop", s), Calls("Stop", s)>> \in Seq(Call)
      /\ <<Calls("LoginResult", s)>> \in Seq(Call)
      /\ <<Calls("Leave", s)>> \in Seq(Call)
      /\ EncoderRunCalls \o <<Calls("LoginResult", s)>> \in Seq(Call)
      /\ EncoderStopCalls \in Seq(Call)
  BY CallsType DEF Ops
<1>1. CASE Join(t, s)
  <2>1. todo' \in [IoThread -> Seq(Call)]
    BY <1>0, <1>1, StackType DEF Join, At
  <2>2. QED
    BY <1>1, <2>1 DEF Join
<1>2. CASE AddAuthorized(t, s)
  <2>1. todo' \in [IoThread -> Seq(Call)]
    BY <1>0, <1>2, StackType DEF AddAuthorized, At
  <2>2. QED
    BY <1>2, <2>1 DEF AddAuthorized
<1>3. CASE LoginResult(t, s)
  <2>1. todo' \in [IoThread -> Seq(Call)]
    BY <1>0, <1>3, StackType DEF LoginResult, At
  <2>2. QED
    BY <1>3, <2>1 DEF LoginResult, Written, WriteState
<1>4. CASE Stop(t, s)
  <2>1. todo' \in [IoThread -> Seq(Call)]
    BY <1>0, <1>4, StackType DEF Stop, At
  <2>2. QED
    BY <1>4, <2>1 DEF Stop, ConnState
<1>5. CASE Leave(t, s)
  <2>1. todo' \in [IoThread -> Seq(Call)]
    BY <1>0, <1>5, StackType DEF Leave, At
  <2>2. QED
    BY <1>5, <2>1 DEF Leave
<1>6. CASE Close(t, s)
  <2>1. todo' \in [IoThread -> Seq(Call)]
    BY <1>0, <1>6, StackType DEF Close, At
  <2>2. QED
    BY <1>6, <2>1 DEF Close, ConnState
<1>7. QED
  BY <1>1, <1>2, <1>3, <1>4, <1>5, <1>6

\* So does a call on an encoder or on the whole service.
LEMMA TypeEncoderCall ==
  ASSUME TypeOK, NEW t \in IoThread,
         \/ \E e \in Encoder :
              \/ EncoderRun(t, e) \/ StartThread(t, e)
              \/ EncoderStop(t, e) \/ JoinTest(t, e) \/ JoinThread(t, e)
              \/ FreeCodec(t, e)
         \/ StopAll(t) \/ StopBegin(t)
         \/ OnAcceptFail(t) \/ RestartVideoEncoder(t) \/ Signal(t)
         \/ MainEncoderStop(t)
  PROVE  TypeOK'
<1> USE DEF TypeOK, registry, client, encoders
<1>0. <<>> \in Seq(Call)
  BY CallsType
<1>1. ASSUME NEW e \in Encoder, EncoderRun(t, e)
      PROVE  TypeOK'
  <2>1. <<Calls("StartThread", e)>> \in Seq(Call)
    BY CallsType DEF Ops
  <2>2. todo' \in [IoThread -> Seq(Call)]
    BY <1>1, <2>1, StackType DEF EncoderRun, At
  <2>3. QED
    BY <1>1, <2>2 DEF EncoderRun
<1>11. ASSUME NEW e \in Encoder, StartThread(t, e)
       PROVE  TypeOK'
  <2>1. todo' \in [IoThread -> Seq(Call)]
    BY <1>0, <1>11, StackType DEF StartThread, At
  <2>2. QED
    BY <1>11, <2>1 DEF StartThread, ThreadState, Phase
<1>2. ASSUME NEW e \in Encoder, EncoderStop(t, e)
      PROVE  TypeOK'
  <2>1. <<Calls("JoinTest", e), Calls("FreeCodec", e)>> \in Seq(Call)
    <3>1. Calls("JoinTest", e) \in Call /\ Calls("FreeCodec", e) \in Call
      BY DEF Calls, Call, Ops
    <3>2. QED
      BY <3>1
  <2>2. todo' \in [IoThread -> Seq(Call)]
    BY <1>2, <2>1, StackType DEF EncoderStop, At
  <2>3. QED
    BY <1>2, <2>2 DEF EncoderStop
<1>12. ASSUME NEW e \in Encoder, JoinTest(t, e)
       PROVE  TypeOK'
  <2>1. <<Calls("JoinThread", e)>> \in Seq(Call)
    BY CallsType DEF Ops
  <2>2. todo' \in [IoThread -> Seq(Call)]
    BY <1>0, <1>12, <2>1, StackType DEF JoinTest, At
  <2>3. QED
    BY <1>12, <2>2 DEF JoinTest
<1>13. ASSUME NEW e \in Encoder, FreeCodec(t, e)
       PROVE  TypeOK'
  <2>1. todo' \in [IoThread -> Seq(Call)]
    BY <1>0, <1>13, StackType DEF FreeCodec, At
  <2>2. QED
    BY <1>13, <2>1 DEF FreeCodec
<1>3. ASSUME NEW e \in Encoder, JoinThread(t, e)
      PROVE  TypeOK'
  <2>1. \A u \in Joiners(e) : Tail(todo[u]) \in Seq(Call)
    BY DEF Joiners, At
  <2>2. todo' \in [IoThread -> Seq(Call)]
    BY <1>3, <2>1 DEF JoinThread
  <2>3. QED
    BY <1>3, <2>2 DEF JoinThread, ThreadState, Phase
<1>4. CASE StopAll(t)
  <2>1. <<Calls("StopBegin", Nothing)>> \in Seq(Call)
    BY CallsType DEF Ops
  <2>2. todo' \in [IoThread -> Seq(Call)]
    BY <1>0, <1>4, <2>1, StackType DEF StopAll, At
  <2>3. QED
    BY <1>4, <2>2 DEF StopAll, Phase
<1>5. CASE StopBegin(t)
  <2>1. \A s \in sessions :
          /\ <<Calls("Leave", s), Calls("Close", s), Calls("StopAll", Nothing)>>
               \in Seq(Call)
          /\ <<Calls("Leave", s), Calls("StopAll", Nothing)>> \in Seq(Call)
    <3>1. \A s \in sessions :
            /\ Calls("Leave", s) \in Call
            /\ Calls("Close", s) \in Call
            /\ Calls("StopAll", Nothing) \in Call
      BY DEF Calls, Call, Ops
    <3>2. QED
      BY <3>1
  <2>2. todo' \in [IoThread -> Seq(Call)]
    <3>1. CASE UNCHANGED todo
      BY <3>1
    <3>2. ASSUME NEW s \in sessions,
                 Then(t, IF conn[s] = "open"
                         THEN <<Calls("Leave", s), Calls("Close", s),
                                Calls("StopAll", Nothing)>>
                         ELSE <<Calls("Leave", s), Calls("StopAll", Nothing)>>)
          PROVE  todo' \in [IoThread -> Seq(Call)]
      BY <1>5, <2>1, <3>2, StackType DEF StopBegin, At
    <3>3. QED
      BY <1>5, <3>1, <3>2 DEF StopBegin
  <2>3. QED
    BY <1>5, <2>2 DEF StopBegin, Phase
<1>6. CASE OnAcceptFail(t)
  BY <1>6 DEF OnAcceptFail, Phase
<1>7. CASE RestartVideoEncoder(t)
  <2>1. <<Calls("EncoderStop", "video"), Calls("EncoderRun", "video")>>
          \in Seq(Call)
    <3>1. /\ Calls("EncoderStop", "video") \in Call
          /\ Calls("EncoderRun", "video") \in Call
      BY EncoderNames DEF Calls, Call, Ops
    <3>2. QED
      BY <3>1
  <2>2. todo' \in [IoThread -> Seq(Call)]
    BY <1>7, <2>1, StackType DEF RestartVideoEncoder
  <2>3. posted' \in Nat
    BY <1>7 DEF RestartVideoEncoder
  <2>4. QED
    BY <1>7, <2>2, <2>3 DEF RestartVideoEncoder
<1>8. CASE Signal(t)
  <2>1. <<Calls("StopAll", Nothing)>> \in Seq(Call)
    BY CallsType DEF Ops
  <2>2. todo' \in [IoThread -> Seq(Call)]
    BY <1>8, <2>1, StackType DEF Signal
  <2>3. QED
    BY <1>8, <2>2 DEF Signal, Phase
<1>9. CASE MainEncoderStop(t)
  <2>1. todo' \in [IoThread -> Seq(Call)]
    BY <1>9, CallsType, StackType DEF MainEncoderStop
  <2>2. QED
    BY <1>9, <2>1 DEF MainEncoderStop, Phase
<1>10. QED
  BY <1>1, <1>2, <1>3, <1>4, <1>5, <1>6, <1>7, <1>8, <1>9, <1>11, <1>12, <1>13

\* So does a step of an encoder thread, of a client or of main().
LEMMA TypeOther ==
  ASSUME TypeOK,
         \/ \E e \in Encoder : EncoderStep(e)
         \/ \E s \in Session : Disconnect(s)
         \/ RestartNeeded \/ NotifyRestartVideoEncoder
         \/ MainReturn \/ Ended
  PROVE  TypeOK'
<1> USE DEF TypeOK, registry, client, encoders
<1>0. WriteAll => writing' \in [Session -> WriteState]
  BY DEF WriteAll, Written, WriteState
<1>1. ASSUME NEW e \in Encoder, EncoderStep(e)
      PROVE  TypeOK'
  <2>0. CASE OpenCodec(e)
    BY <2>0 DEF OpenCodec, ThreadState
  <2>1. CASE Encode(e)
    BY <2>1 DEF Encode, EncodeFrame, ThreadState, Phase
  <2>2. CASE SendLock(e)
    BY <2>2 DEF SendLock, ThreadState
  <2>3. CASE SendPacket(e)
    BY <1>0, <2>3 DEF SendPacket, ThreadState
  <2>4. CASE EncoderExit(e)
    BY <2>4 DEF EncoderExit, ThreadState
  <2>5. CASE EncoderFail(e)
    BY <2>5 DEF EncoderFail, ThreadState
  <2>6. QED
    BY <1>1, <2>0, <2>1, <2>2, <2>3, <2>4, <2>5 DEF EncoderStep
<1>2. ASSUME NEW s \in Session, Disconnect(s)
      PROVE  TypeOK'
  BY <1>2 DEF Disconnect, ConnState
<1>3. CASE RestartNeeded
  <2>1. restarts' \in 0..MaxRestarts
    BY <1>3, LimitAssumption DEF RestartNeeded
  <2>2. thread' \in [Encoder -> ThreadState]
    BY <1>3 DEF RestartNeeded, ThreadState
  <2>3. QED
    BY <1>3, <2>1, <2>2 DEF RestartNeeded
<1>4. CASE NotifyRestartVideoEncoder
  <2>1. posted' \in Nat
    BY <1>4 DEF NotifyRestartVideoEncoder
  <2>2. thread' \in [Encoder -> ThreadState]
    BY <1>4 DEF NotifyRestartVideoEncoder, ThreadState
  <2>3. QED
    BY <1>0, <1>4, <2>1, <2>2 DEF NotifyRestartVideoEncoder
<1>5. CASE MainReturn
  BY <1>5 DEF MainReturn, Phase
<1>6. CASE Ended
  BY <1>6 DEF Ended, vars
<1>7. QED
  BY <1>1, <1>2, <1>3, <1>4, <1>5, <1>6

LEMMA TypeNext == TypeOK /\ [Next]_vars => TypeOK'
<1> SUFFICES ASSUME TypeOK, [Next]_vars
             PROVE  TypeOK'
  OBVIOUS
<1>1. ASSUME NEW t \in IoThread, Handler(t) \/ Step(t) \/ MainEncoderStop(t)
      PROVE  TypeOK'
  BY <1>1, TypeHandler, TypeSessionCall, TypeEncoderCall DEF Handler, Step
<1>2. CASE UNCHANGED vars
  BY <1>2 DEF TypeOK, vars, registry, client, encoders
<1>3. QED
  BY <1>1, <1>2, TypeOther DEF Next

\* Every variable keeps its type, whatever the clients, the user service and
\* the frame source do.
THEOREM TypeCorrect == Spec => []TypeOK
BY TypeInit, TypeNext, PTL DEF Spec

-----------------------------------------------------------------------------
(* The limit on authorised sessions.                                        *)

\* Only AddAuthorized and Leave touch authorized_sessions_.
LEMMA AuthorizedFrame ==
  ASSUME [Next]_vars
  PROVE  \/ \E t \in IoThread, s \in Session : AddAuthorized(t, s)
         \/ \E t \in IoThread, s \in Session : Leave(t, s)
         \/ UNCHANGED authorized_sessions
<1>1. ASSUME NEW t \in IoThread, Handler(t) \/ MainEncoderStop(t)
      PROVE  UNCHANGED authorized_sessions
  BY <1>1 DEF Handler, MainEncoderStop, OnAccept, OnHandshake, OnHandshakeFail,
       OnReadLogin, OnReadBad, OnReadFail, OnLoginFailed, OnLoginOk,
       OnKeepAliveFailed, OnWriteOk, OnWriteFail, OnStop, OnAcceptFail,
       RestartVideoEncoder, Signal, registry
<1>2. ASSUME NEW t \in IoThread, Step(t)
      PROVE  \/ \E s \in Session : AddAuthorized(t, s) \/ Leave(t, s)
             \/ UNCHANGED authorized_sessions
  BY <1>2 DEF Step, Join, LoginResult, Stop, Close, EncoderRun, StartThread,
       EncoderStop, JoinTest, JoinThread, FreeCodec, StopAll, StopBegin, registry
<1>3. ASSUME NEW e \in Encoder, EncoderStep(e)
      PROVE  UNCHANGED authorized_sessions
  BY <1>3 DEF EncoderStep, OpenCodec, Encode, SendLock, SendPacket, EncoderExit,
       EncoderFail, registry
<1>4. ASSUME \/ \E s \in Session : Disconnect(s)
             \/ RestartNeeded \/ NotifyRestartVideoEncoder
             \/ MainReturn \/ Ended \/ UNCHANGED vars
      PROVE  UNCHANGED authorized_sessions
  BY <1>4 DEF Disconnect, RestartNeeded, NotifyRestartVideoEncoder, MainReturn,
       Ended, vars, registry
<1>5. QED
  BY <1>1, <1>2, <1>3, <1>4 DEF Next

\* No more than kMaxClientCount sessions are ever authorised, whatever the
\* number of clients and of io threads: AddAuthorized repeats, under the lock,
\* the test that Join made when the session was not yet counted.
THEOREM ClientLimitHolds == Spec => []ClientLimit
<1>1. Init => ClientLimit
  BY FS_EmptySet, LimitAssumption DEF Init, ClientLimit
<1>2. TypeOK /\ ClientLimit /\ [Next]_vars => ClientLimit'
  <2> SUFFICES ASSUME TypeOK, ClientLimit, [Next]_vars
               PROVE  ClientLimit'
    OBVIOUS
  <2>0. IsFiniteSet(authorized_sessions)
    BY FS_Subset, SessionAssumption DEF TypeOK
  <2>1. ASSUME NEW t \in IoThread, NEW s \in Session, AddAuthorized(t, s)
        PROVE  ClientLimit'
    <3>1. CASE /\ Cardinality(authorized_sessions) < kMaxClientCount
               /\ authorized_sessions' = authorized_sessions \cup {s}
      <4>1. Cardinality(authorized_sessions) \in Nat
        BY <2>0, FS_CardinalityType
      <4>2. Cardinality(authorized_sessions \cup {s}) =
              IF s \in authorized_sessions THEN Cardinality(authorized_sessions)
              ELSE Cardinality(authorized_sessions) + 1
        BY <2>0, FS_AddElement
      <4>3. Cardinality(authorized_sessions \cup {s}) <= kMaxClientCount
        BY <3>1, <4>1, <4>2, LimitAssumption
      <4>4. QED
        BY <3>1, <4>3 DEF ClientLimit
    <3>2. CASE UNCHANGED authorized_sessions
      BY <3>2 DEF ClientLimit
    <3>3. QED
      BY <2>1, <3>1, <3>2 DEF AddAuthorized
  <2>2. ASSUME NEW t \in IoThread, NEW s \in Session, Leave(t, s)
        PROVE  ClientLimit'
    <3>1. authorized_sessions' \subseteq authorized_sessions
      BY <2>2 DEF Leave
    <3>2. /\ Cardinality(authorized_sessions') <=
               Cardinality(authorized_sessions)
          /\ Cardinality(authorized_sessions') \in Nat
          /\ Cardinality(authorized_sessions) \in Nat
      BY <2>0, <3>1, FS_Subset, FS_CardinalityType
    <3>3. QED
      BY <3>2, LimitAssumption DEF ClientLimit
  <2>3. CASE UNCHANGED authorized_sessions
    BY <2>3 DEF ClientLimit
  <2>4. QED
    BY <2>1, <2>2, <2>3, AuthorizedFrame
<1>3. QED
  BY <1>1, <1>2, TypeCorrect, PTL DEF Spec

-----------------------------------------------------------------------------
(* Restarts of the video encoder.                                           *)

Restarting == {"EncoderStop", "StartThread"}
Coming == Pending("video", Restarting)

\* A thread that takes a handler takes no call away.
LEMMA ComingStart ==
  ASSUME TypeOK, NEW t \in IoThread, todo[t] = <<>>, NEW calls, Start(t, calls),
         Coming
  PROVE  Coming'
<1>0. PICK u \in IoThread :
        \E i \in DOMAIN todo[u] :
          todo[u][i].op \in Restarting /\ todo[u][i].arg = "video"
  BY DEF Coming, Pending
<1>1. PICK i \in DOMAIN todo[u] :
        todo[u][i].op \in Restarting /\ todo[u][i].arg = "video"
  BY <1>0
<1>2. u # t
  BY <1>1
<1>3. todo'[u] = todo[u]
  BY <1>2 DEF Start, TypeOK
<1>4. QED
  BY <1>1, <1>3, Zenon DEF Coming, Pending

\* A call takes itself away.
LEMMA ComingThen ==
  ASSUME TypeOK, NEW t \in IoThread, NEW op, NEW arg, At(t, op, arg),
         NEW calls \in Seq(Call), Then(t, calls), Coming,
         op \notin Restarting \/ arg # "video"
  PROVE  Coming'
<1>0. PICK u \in IoThread :
        \E i \in DOMAIN todo[u] :
          todo[u][i].op \in Restarting /\ todo[u][i].arg = "video"
  BY DEF Coming, Pending
<1>1. PICK i \in DOMAIN todo[u] :
        todo[u][i].op \in Restarting /\ todo[u][i].arg = "video"
  BY <1>0
<1>2. CASE u # t
  <2>1. todo'[u] = todo[u]
    BY <1>2 DEF Then, TypeOK
  <2>2. QED
    BY <1>1, <2>1, Zenon DEF Coming, Pending
<1>3. CASE u = t
  <2>1. /\ todo[t] \in Seq(Call) /\ todo[t] # <<>>
        /\ todo[t][1].op = op /\ todo[t][1].arg = arg
    BY DEF At, Calls, TypeOK
  <2>2. i \in 2..Len(todo[t])
    BY <1>1, <1>3, <2>1
  <2>3. todo'[t] = calls \o Tail(todo[t])
    BY DEF Then, TypeOK
  <2>4. Len(calls) + i - 1 \in DOMAIN todo'[t]
    BY <2>1, <2>2, <2>3
  <2>5. todo'[t][Len(calls) + i - 1] = todo[t][i]
    <3>1. Tail(todo[t]) \in Seq(Call) /\ Len(Tail(todo[t])) = Len(todo[t]) - 1
      BY <2>1
    <3>2. i - 1 \in 1..Len(Tail(todo[t])) /\ Tail(todo[t])[i - 1] = todo[t][i]
      BY <2>1, <2>2, <3>1
    <3>3. (calls \o Tail(todo[t]))[Len(calls) + (i - 1)] = Tail(todo[t])[i - 1]
      BY <3>1, <3>2
    <3>4. Len(calls) + (i - 1) = Len(calls) + i - 1
      BY <2>2
    <3>5. QED
      BY <2>3, <3>2, <3>3, <3>4
  <2>6. QED
    BY <1>1, <1>3, <2>4, <2>5 DEF Coming, Pending
<1>4. QED
  BY <1>2, <1>3

\* The call that is pushed first is pending.
LEMMA ComingFirst ==
  ASSUME TypeOK, NEW t \in IoThread, NEW calls \in Seq(Call), calls # <<>>,
         \/ todo[t] # <<>> /\ Then(t, calls)
         \/ Start(t, calls),
         calls[1].op \in Restarting, calls[1].arg = "video"
  PROVE  Coming'
<1>1. 1 \in DOMAIN todo'[t] /\ todo'[t][1] = calls[1]
  <2>1. CASE todo[t] # <<>> /\ Then(t, calls)
    <3>1. todo[t] \in Seq(Call) /\ Tail(todo[t]) \in Seq(Call)
      BY <2>1 DEF TypeOK
    <3>2. todo'[t] = calls \o Tail(todo[t])
      BY <2>1 DEF Then, TypeOK
    <3>3. QED
      BY <3>1, <3>2
  <2>2. CASE Start(t, calls)
    BY <2>2 DEF Start, TypeOK
  <2>3. QED
    BY <2>1, <2>2
<1>2. QED
  BY <1>1 DEF Coming, Pending

\* What changes neither the encoder nor its event nor what is posted.
LEMMA RestartFrame ==
  ASSUME RestartIsServed, UNCHANGED <<thread, stop_event, posted>>,
         phase = "terminated" => phase' = "terminated",
         Coming => Coming'
  PROVE  RestartIsServed'
BY DEF RestartIsServed, Coming, Restarting

\* The handlers but the restart itself.
LEMMA RestartHandler ==
  ASSUME TypeOK, RestartIsServed, NEW t \in IoThread,
         \/ \E s \in Session :
              \/ OnAccept(t, s) \/ OnHandshake(t, s) \/ OnHandshakeFail(t, s)
              \/ OnReadLogin(t, s) \/ OnReadBad(t, s) \/ OnReadFail(t, s)
              \/ OnLoginFailed(t, s) \/ OnLoginOk(t, s) \/ OnKeepAliveFailed(t, s)
              \/ OnWriteOk(t, s) \/ OnWriteFail(t, s) \/ OnStop(t, s)
         \/ OnAcceptFail(t) \/ Signal(t) \/ MainEncoderStop(t)
  PROVE  RestartIsServed'
<1> USE DEF encoders
<1>1. /\ UNCHANGED <<thread, stop_event, posted>>
      /\ phase = "terminated" => phase' = "terminated"
      /\ UNCHANGED todo \/ (todo[t] = <<>> /\ \E calls : Start(t, calls))
  BY DEF OnAccept, OnHandshake, OnHandshakeFail, OnReadLogin, OnReadBad, OnReadFail,
     OnLoginFailed, OnLoginOk, OnKeepAliveFailed, OnWriteOk, OnWriteFail, OnStop,
     OnAcceptFail, Signal, MainEncoderStop, Ready
<1>2. Coming => Coming'
  <2>1. CASE UNCHANGED todo
    BY <2>1 DEF Coming, Pending
  <2>2. CASE todo[t] = <<>> /\ \E calls : Start(t, calls)
    BY <2>2, ComingStart
  <2>3. QED
    BY <1>1, <2>1, <2>2
<1>3. QED
  BY <1>1, <1>2, RestartFrame

\* The calls on sessions and on the service.
LEMMA RestartSessionCall ==
  ASSUME TypeOK, RestartIsServed, NEW t \in IoThread,
         \/ \E s \in Session :
              \/ Join(t, s) \/ AddAuthorized(t, s) \/ LoginResult(t, s)
              \/ Stop(t, s) \/ Leave(t, s) \/ Close(t, s)
         \/ StopAll(t) \/ StopBegin(t)
  PROVE  RestartIsServed'
<1> USE DEF encoders
<1>1. /\ UNCHANGED <<thread, stop_event, posted>>
      /\ phase # "terminated"
  BY DEF Join, AddAuthorized, LoginResult, Stop, Leave, Close, StopAll, StopBegin, At
<1>2. \A s \in Session :
        /\ <<>> \in Seq(Call) /\ EncoderStopCalls \in Seq(Call)
        /\ <<Calls("Stop", s)>> \in Seq(Call) /\ <<Calls("Leave", s)>> \in Seq(Call)
        /\ <<Calls("LoginResult", s)>> \in Seq(Call)
        /\ <<Calls("Stop", s), Calls("Stop", s)>> \in Seq(Call)
        /\ EncoderRunCalls \o <<Calls("LoginResult", s)>> \in Seq(Call)
        /\ <<Calls("StopBegin", Nothing)>> \in Seq(Call)
        /\ <<Calls("Leave", s), Calls("StopAll", Nothing)>> \in Seq(Call)
        /\ <<Calls("Leave", s), Calls("Close", s), Calls("StopAll", Nothing)>>
             \in Seq(Call)
  <2>1. \A s \in Session :
          /\ Calls("Leave", s) \in Call /\ Calls("Close", s) \in Call
          /\ Calls("StopAll", Nothing) \in Call
    BY DEF Calls, Call, Ops
  <2>2. \A s \in Session :
          /\ <<Calls("Leave", s), Calls("StopAll", Nothing)>> \in Seq(Call)
          /\ <<Calls("Leave", s), Calls("Close", s), Calls("StopAll", Nothing)>>
               \in Seq(Call)
    BY <2>1
  <2>3. QED
    BY <2>2, CallsType DEF Ops
<1>3. Coming => Coming'
  <2>1. ASSUME NEW op \in Ops \ Restarting, NEW arg, At(t, op, arg),
               NEW calls \in Seq(Call), Then(t, calls)
        PROVE  Coming => Coming'
    BY <2>1, ComingThen
  <2>2. ASSUME NEW s \in Session, Join(t, s)
        PROVE  Coming => Coming'
    BY <1>2, <2>1, <2>2 DEF Join, Ops, Restarting
  <2>3. ASSUME NEW s \in Session, AddAuthorized(t, s)
        PROVE  Coming => Coming'
    BY <1>2, <2>1, <2>3 DEF AddAuthorized, Ops, Restarting
  <2>4. ASSUME NEW s \in Session, LoginResult(t, s) \/ Close(t, s)
        PROVE  Coming => Coming'
    BY <1>2, <2>1, <2>4 DEF LoginResult, Close, Ops, Restarting
  <2>5. ASSUME NEW s \in Session, Stop(t, s)
        PROVE  Coming => Coming'
    BY <1>2, <2>1, <2>5 DEF Stop, Ops, Restarting
  <2>6. ASSUME NEW s \in Session, Leave(t, s)
        PROVE  Coming => Coming'
    BY <1>2, <2>1, <2>6 DEF Leave, Ops, Restarting
  <2>7. CASE StopAll(t)
    <3>1. <<>> \in Seq(Call) /\ <<Calls("StopBegin", Nothing)>> \in Seq(Call)
      BY CallsType DEF Ops
    <3>2. QED
      BY <2>1, <2>7, <3>1 DEF StopAll, Ops, Restarting
  <2>8. CASE StopBegin(t) /\ todo' # todo
    <3>1. PICK s \in sessions :
            Then(t, IF conn[s] = "open"
                    THEN <<Calls("Leave", s), Calls("Close", s),
                           Calls("StopAll", Nothing)>>
                    ELSE <<Calls("Leave", s), Calls("StopAll", Nothing)>>)
      BY <2>8 DEF StopBegin
    <3>2. s \in Session /\ At(t, "StopBegin", Nothing)
      BY <2>8 DEF StopBegin, TypeOK
    <3>3. QED
      BY <1>2, <2>1, <3>1, <3>2 DEF Ops, Restarting
  <2>9. CASE todo' = todo
    BY <2>9 DEF Coming, Pending
  <2>10. QED
    BY <2>2, <2>3, <2>4, <2>5, <2>6, <2>7, <2>8, <2>9
<1>4. QED
  BY <1>1, <1>3, RestartFrame

\* The calls on the encoders.
LEMMA RestartEncoderCall ==
  ASSUME TypeOK, RestartIsServed, NEW t \in IoThread, NEW e \in Encoder,
         \/ EncoderRun(t, e) \/ StartThread(t, e)
         \/ EncoderStop(t, e) \/ JoinTest(t, e) \/ JoinThread(t, e)
         \/ FreeCodec(t, e)
  PROVE  RestartIsServed'
<1>0. /\ <<>> \in Seq(Call)
      /\ \A op \in Ops : Calls(op, e) \in Call /\ <<Calls(op, e)>> \in Seq(Call)
      /\ <<Calls("JoinTest", e), Calls("FreeCodec", e)>> \in Seq(Call)
  <2>1. \A op \in Ops : Calls(op, e) \in Call
    BY DEF Calls, Call
  <2>2. Calls("JoinTest", e) \in Call /\ Calls("FreeCodec", e) \in Call
    BY <2>1 DEF Ops
  <2>3. QED
    BY <2>1, <2>2, CallsType
<1>1. CASE EncoderRun(t, e)
  <2>1. /\ At(t, "EncoderRun", e) /\ Then(t, <<Calls("StartThread", e)>>)
        /\ <<Calls("StartThread", e)>> \in Seq(Call)
        /\ UNCHANGED <<thread, posted, phase>>
    BY <1>0, <1>1 DEF EncoderRun, Ops
  <2>2. CASE e = "video"
    <3>1. Coming'
      BY <2>1, <2>2, ComingFirst DEF At, Restarting, Calls
    <3>2. QED
      BY <3>1 DEF RestartIsServed, Coming, Restarting
  <2>3. CASE e # "video"
    <3>1. stop_event'["video"] = stop_event["video"]
      BY <1>1, <2>3, EncoderNames DEF EncoderRun, TypeOK
    <3>2. Coming => Coming'
      <4> DEFINE q == <<Calls("StartThread", e)>>
      <4>1. q \in Seq(Call) /\ Then(t, q) /\ At(t, "EncoderRun", e)
        BY <2>1
      <4> HIDE DEF q
      <4>2. QED
        BY <2>3, <4>1, ComingThen
    <3>3. QED
      BY <2>1, <3>1, <3>2 DEF RestartIsServed, Coming, Restarting
  <2>4. QED
    BY <2>2, <2>3
<1>2. CASE StartThread(t, e)
  <2>1. CASE phase' = "terminated"
    BY <2>1 DEF RestartIsServed
  <2>2. CASE /\ thread[e] = "none" /\ thread' = [thread EXCEPT ![e] = "opening"]
             /\ Then(t, <<>>) /\ UNCHANGED phase
    <3>1. UNCHANGED <<stop_event, posted>> /\ At(t, "StartThread", e)
      BY <1>2 DEF StartThread
    <3>2. CASE e = "video"
      BY <2>2, <3>2, EncoderNames DEF RestartIsServed, TypeOK
    <3>3. CASE e # "video"
      <4>1. Coming => Coming'
        BY <1>0, <2>2, <3>1, <3>3, ComingThen
      <4>2. thread'["video"] = thread["video"]
        BY <2>2, <3>3, EncoderNames DEF TypeOK
      <4>3. QED
        BY <2>2, <3>1, <4>1, <4>2 DEF RestartIsServed, Coming, Restarting
    <3>4. QED
      BY <3>2, <3>3
  <2>3. QED
    BY <1>2, <2>1, <2>2 DEF StartThread
<1>3. CASE EncoderStop(t, e)
  <2>1. /\ At(t, "EncoderStop", e) /\ UNCHANGED <<thread, posted, phase>>
        /\ stop_event' = [stop_event EXCEPT ![e] = TRUE]
        /\ Then(t, <<Calls("JoinTest", e), Calls("FreeCodec", e)>>)
    BY <1>3 DEF EncoderStop
  <2>2. CASE e = "video"
    BY <2>1, <2>2, EncoderNames DEF RestartIsServed, TypeOK
  <2>3. CASE e # "video"
    <3>1. Coming => Coming'
      <4> DEFINE q == <<Calls("JoinTest", e), Calls("FreeCodec", e)>>
      <4>1. q \in Seq(Call) /\ Then(t, q) /\ At(t, "EncoderStop", e)
        BY <1>0, <2>1
      <4> HIDE DEF q
      <4>2. QED
        BY <2>3, <4>1, ComingThen
    <3>2. stop_event'["video"] = stop_event["video"]
      BY <2>1, <2>3, EncoderNames DEF TypeOK
    <3>3. QED
      BY <2>1, <3>1, <3>2 DEF RestartIsServed, Coming, Restarting
  <2>4. QED
    BY <2>2, <2>3
<1>4. CASE JoinTest(t, e) \/ FreeCodec(t, e)
  <2>1. /\ At(t, "JoinTest", e) \/ At(t, "FreeCodec", e)
        /\ \/ Then(t, <<>>)
           \/ Then(t, <<Calls("JoinThread", e)>>)
        /\ UNCHANGED <<thread, stop_event, posted, phase>>
    BY <1>4 DEF JoinTest, FreeCodec, encoders
  <2>2. <<Calls("JoinThread", e)>> \in Seq(Call)
    BY <1>0 DEF Ops
  <2>3. "JoinTest" \notin Restarting /\ "FreeCodec" \notin Restarting
    BY DEF Restarting
  <2>4. Coming => Coming'
    BY <1>0, <2>1, <2>2, <2>3, ComingThen
  <2>5. QED
    BY <2>1, <2>4, RestartFrame
<1>5. CASE JoinThread(t, e)
  <2>1. /\ thread' = [thread EXCEPT ![e] = "none"]
        /\ UNCHANGED <<stop_event, posted>> /\ phase # "terminated"
        /\ \A u \in IoThread :
             todo'[u] = IF u \in Joiners(e) THEN Tail(todo[u]) ELSE todo[u]
    BY <1>5 DEF JoinThread, At
  <2>2. CASE e = "video"
    BY <2>1, <2>2, EncoderNames DEF RestartIsServed, TypeOK
  <2>3. CASE e # "video"
    <3>1. thread'["video"] = thread["video"]
      BY <2>1, <2>3, EncoderNames DEF TypeOK
    <3>2. ASSUME Coming
          PROVE  Coming'
      <4>0. PICK u \in IoThread :
              \E i \in DOMAIN todo[u] :
                todo[u][i].op \in Restarting /\ todo[u][i].arg = "video"
        BY <3>2 DEF Coming, Pending
      <4>1. PICK i \in DOMAIN todo[u] :
              todo[u][i].op \in Restarting /\ todo[u][i].arg = "video"
        BY <4>0
      <4>2. CASE u \notin Joiners(e)
        BY <2>1, <4>1, <4>2 DEF Coming, Pending
      <4>3. CASE u \in Joiners(e)
        <5>1. todo[u] \in Seq(Call) /\ todo[u] # <<>> /\ todo[u][1].op = "JoinThread"
          BY <4>3 DEF Joiners, At, Calls, TypeOK
        <5>2. i \in 2..Len(todo[u])
          BY <4>1, <5>1 DEF Restarting
        <5>3. /\ i - 1 \in DOMAIN Tail(todo[u])
              /\ Tail(todo[u])[i - 1] = todo[u][i]
          BY <5>1, <5>2
        <5>4. QED
          BY <2>1, <4>1, <4>3, <5>3 DEF Coming, Pending
      <4>4. QED
        BY <4>2, <4>3
    <3>3. QED
      BY <2>1, <3>1, <3>2 DEF RestartIsServed, Coming, Restarting
  <2>4. QED
    BY <2>2, <2>3
<1>6. QED
  BY <1>1, <1>2, <1>3, <1>4, <1>5

\* The encoder threads, and the restart.
LEMMA RestartOther ==
  ASSUME TypeOK, RestartIsServed,
         \/ \E e \in Encoder : EncoderStep(e)
         \/ \E s \in Session : Disconnect(s)
         \/ RestartNeeded \/ NotifyRestartVideoEncoder
         \/ MainReturn \/ Ended \/ UNCHANGED vars
         \/ \E t \in IoThread : RestartVideoEncoder(t)
  PROVE  RestartIsServed'
<1> USE EncoderNames DEF TypeOK, encoders
<1>1. UNCHANGED todo => (Coming <=> Coming')
  BY DEF Coming, Pending
<1>2. ASSUME NEW e \in Encoder, EncoderStep(e)
      PROVE  RestartIsServed'
  <2>1. CASE OpenCodec(e) \/ SendLock(e) \/ SendPacket(e)
    <3>1. /\ UNCHANGED <<todo, stop_event, posted, phase>>
          /\ thread'["video"] = "exited" => thread["video"] = "exited"
      BY <2>1 DEF OpenCodec, SendLock, SendPacket
    <3>2. QED
      BY <1>1, <3>1 DEF RestartIsServed, Coming, Restarting
  <2>2. CASE Encode(e)
    <3>1. /\ UNCHANGED <<todo, stop_event, posted>>
          /\ thread'["video"] = "exited" => thread["video"] = "exited"
          /\ phase # "terminated"
      BY <2>2 DEF Encode, EncodeFrame
    <3>2. QED
      BY <1>1, <3>1 DEF RestartIsServed, Coming, Restarting
  <2>3. CASE EncoderExit(e)
    <3>1. /\ UNCHANGED <<todo, stop_event, posted, phase>>
          /\ stop_event[e]
          /\ thread'["video"] = "exited" => thread["video"] = "exited" \/ e = "video"
      BY <2>3 DEF EncoderExit
    <3>2. QED
      BY <1>1, <3>1 DEF RestartIsServed, Coming, Restarting
  <2>4. CASE EncoderFail(e)
    <3>1. /\ UNCHANGED <<todo, posted, phase>>
          /\ e = "video" => stop_event'["video"]
          /\ e # "video" => /\ thread'["video"] = thread["video"]
                            /\ stop_event'["video"] = stop_event["video"]
      BY <2>4 DEF EncoderFail
    <3>2. QED
      BY <1>1, <3>1 DEF RestartIsServed, Coming, Restarting
  <2>5. QED
    BY <1>2, <2>1, <2>2, <2>3, <2>4 DEF EncoderStep
<1>3. CASE RestartNeeded
  <2>1. thread'["video"] = "resetlock"
    BY <1>3 DEF RestartNeeded
  <2>2. QED
    BY <2>1 DEF RestartIsServed
<1>4. CASE NotifyRestartVideoEncoder
  <2>1. posted' > 0
    BY <1>4 DEF NotifyRestartVideoEncoder
  <2>2. QED
    BY <2>1 DEF RestartIsServed
<1>5. CASE \/ \E s \in Session : Disconnect(s)
           \/ MainReturn \/ Ended \/ UNCHANGED vars
  <2>1. /\ UNCHANGED <<todo, thread, stop_event, posted>>
        /\ phase = "terminated" => phase' = "terminated"
    BY <1>5 DEF Disconnect, MainReturn, Ended, vars
  <2>2. QED
    BY <1>1, <2>1, RestartFrame
<1>6. ASSUME NEW t \in IoThread, RestartVideoEncoder(t)
      PROVE  RestartIsServed'
  <2> DEFINE q == <<Calls("EncoderStop", "video"), Calls("EncoderRun", "video")>>
  <2>1. Calls("EncoderStop", "video") \in Call /\ Calls("EncoderRun", "video") \in Call
    BY DEF Calls, Call, Ops
  <2>2. /\ q \in Seq(Call) /\ q # <<>>
        /\ q[1].op \in Restarting /\ q[1].arg = "video"
    BY <2>1 DEF Calls, Restarting
  <2>3. Start(t, q)
    BY <1>6 DEF RestartVideoEncoder
  <2> HIDE DEF q
  <2>4. Coming'
    BY <2>2, <2>3, ComingFirst
  <2>5. QED
    BY <2>4 DEF RestartIsServed, Coming, Restarting
<1>7. QED
  BY <1>2, <1>3, <1>4, <1>5, <1>6

\* However many io threads run and stop encoders at once, a video encoder that has
\* ended for a restart and has not been told to stop since has the restart posted,
\* or its Stop() or its start still to come (NotifyRestartVideoEncoder and
\* RestartVideoEncoder of engine.cpp).
THEOREM RestartIsServedHolds == Spec => []RestartIsServed
<1>1. Init => RestartIsServed
  BY EncoderNames DEF Init, RestartIsServed
<1>2. TypeOK /\ RestartIsServed /\ [Next]_vars => RestartIsServed'
  <2> SUFFICES ASSUME TypeOK, RestartIsServed, [Next]_vars
               PROVE  RestartIsServed'
    OBVIOUS
  <2>1. ASSUME NEW t \in IoThread, Handler(t) \/ MainEncoderStop(t)
        PROVE  RestartIsServed'
    BY <2>1, RestartHandler, RestartOther DEF Handler
  <2>2. ASSUME NEW t \in IoThread, Step(t)
        PROVE  RestartIsServed'
    BY <2>2, RestartSessionCall, RestartEncoderCall DEF Step
  <2>3. QED
    BY <2>1, <2>2, RestartOther DEF Next
<1>3. QED
  BY <1>1, <1>2, TypeCorrect, PTL DEF Spec
=============================================================================
