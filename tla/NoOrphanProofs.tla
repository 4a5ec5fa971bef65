--------------------------- MODULE NoOrphanProofs ---------------------------
(***************************************************************************)
(* Proofs about GameService: no open stream without a reader, and no lost  *)
(* session forgotten in the registry, for every set of sessions and of io  *)
(* threads.                                                                *)
(***************************************************************************)
EXTENDS GameServiceProofs

\* The calls that threads have still to make.
In(q, c) == \E i \in 1..Len(q) : q[i] = c
Waiting(s, op) == \E t \in IoThread : In(todo[t], Calls(op, s))

\* A session is added to the authorised ones once, by a handler that has
\* nothing else to do first.
Add(s) == Calls("AddAuthorized", s)
Once(s) ==
  \A t, u \in IoThread :
    In(todo[t], Add(s)) =>
      todo[t] = <<Add(s)>> /\ (In(todo[u], Add(s)) => t = u)

\* Until then nothing is written to it.
Unwritten(s) ==
  /\ s \notin authorized_sessions /\ writing[s] = "idle"
  /\ ~Waiting(s, "LoginResult")

Fresh(s) ==
  /\ session_state[s] = "None" => login[s] = "none"
  /\ login[s] \in {"none", "inflight"} =>
       ~Waiting(s, "AddAuthorized") /\ Unwritten(s)
  /\ Waiting(s, "AddAuthorized") => Unwritten(s)
  /\ Once(s)

\* OpenIsRead and NoOrphan, of one session.
Attended(s) ==
  conn[s] = "open" =>
    reading[s] \/ Waiting(s, "Join") \/ Waiting(s, "Stop")

Leaving(s) ==
  \/ reading[s]
  \/ conn[s] = "closing"
  \/ writing[s] = "doomed"
  \/ Waiting(s, "Join") \/ Waiting(s, "Stop") \/ Waiting(s, "Leave")
  \/ writing[s] = "idle" /\ Waiting(s, "LoginResult")

Kept(s) ==
  s \in sessions \cup authorized_sessions /\ conn[s] # "open" => Leaving(s)

Good(s) == Fresh(s) /\ Attended(s) /\ Kept(s)
-----------------------------------------------------------------------------
(* The stacks of calls. *)

\* What is in two stacks put together.
LEMMA InBoth ==
  ASSUME NEW p \in Seq(Call), NEW q \in Seq(Call), NEW c
  PROVE  In(p \o q, c) <=> In(p, c) \/ In(q, c)
<1>1. In(p \o q, c) => In(p, c) \/ In(q, c)
  <2> SUFFICES ASSUME NEW i \in 1..Len(p \o q), (p \o q)[i] = c, ~In(p, c)
               PROVE  In(q, c)
    BY DEF In
  <2>1. i > Len(p)
    BY DEF In
  <2>2. i - Len(p) \in 1..Len(q) /\ q[i - Len(p)] = c
    BY <2>1
  <2>3. QED
    BY <2>2 DEF In
<1>2. In(p, c) => In(p \o q, c)
  <2> SUFFICES ASSUME NEW i \in 1..Len(p), p[i] = c
               PROVE  In(p \o q, c)
    BY DEF In
  <2>1. i \in 1..Len(p \o q) /\ (p \o q)[i] = c
    OBVIOUS
  <2>2. QED
    BY <2>1 DEF In
<1>3. In(q, c) => In(p \o q, c)
  <2> SUFFICES ASSUME NEW i \in 1..Len(q), q[i] = c
               PROVE  In(p \o q, c)
    BY DEF In
  <2>1. i + Len(p) \in 1..Len(p \o q) /\ (p \o q)[i + Len(p)] = c
    OBVIOUS
  <2>2. QED
    BY <2>1 DEF In
<1>4. QED
  BY <1>1, <1>2, <1>3

\* What is in the stack that a call leaves, and what was in the one before it.
LEMMA InStack ==
  ASSUME NEW q \in Seq(Call), q # <<>>, NEW calls \in Seq(Call), NEW c
  PROVE  /\ In(calls \o Tail(q), c) <=> In(calls, c) \/ In(Tail(q), c)
         /\ In(q, c) <=> c = Head(q) \/ In(Tail(q), c)
<1>1. In(calls \o Tail(q), c) <=> In(calls, c) \/ In(Tail(q), c)
  <2>1. Tail(q) \in Seq(Call)
    OBVIOUS
  <2>2. QED
    BY <2>1, InBoth
<1>4. In(q, c) => c = Head(q) \/ In(Tail(q), c)
  <2> SUFFICES ASSUME NEW i \in 1..Len(q), q[i] = c, c # Head(q)
               PROVE  In(Tail(q), c)
    BY DEF In
  <2>1. i - 1 \in 1..Len(Tail(q)) /\ Tail(q)[i - 1] = c
    OBVIOUS
  <2>2. QED
    BY <2>1 DEF In
<1>5. In(Tail(q), c) => In(q, c)
  <2> SUFFICES ASSUME NEW i \in 1..Len(Tail(q)), Tail(q)[i] = c
               PROVE  In(q, c)
    BY DEF In
  <2>1. i + 1 \in 1..Len(q) /\ q[i + 1] = c
    OBVIOUS
  <2>2. QED
    BY <2>1 DEF In
<1>6. c = Head(q) => In(q, c)
  BY DEF In
<1>7. QED
  BY <1>1, <1>4, <1>5, <1>6

\* The stacks of one, two and three calls.
LEMMA InCalls ==
  ASSUME NEW a, NEW b, NEW c
  PROVE  /\ ~In(<<>>, c)
         /\ In(<<a>>, c) <=> c = a
         /\ In(<<a, b>>, c) <=> c = a \/ c = b
         /\ \A d : In(<<a, b, d>>, c) <=> c = a \/ c = b \/ c = d
BY DEF In

\* Two calls are the same when operation and argument are.
LEMMA Differ ==
  \A a, b, x, y : Calls(a, x) = Calls(b, y) <=> a = b /\ x = y
BY DEF Calls

\* The calls on the encoders are on no session.
LEMMA EncodersElsewhere ==
  /\ \A r \in Session : \A o : ~In(EncoderRunCalls, Calls(o, r))
  /\ \A r \in Session : \A o : ~In(EncoderStopCalls, Calls(o, r))
<1>1. ASSUME NEW op \in Ops, NEW r \in Session, NEW o
      PROVE  ~In(EachEncoder(op), Calls(o, r))
  <2>1. \A e \in Encoder : e # r
    BY ThreadAssumption
  <2>2. \A e \in Encoder : Calls(o, r) # Calls(op, e)
    BY <2>1, Differ
  <2>3. QED
    BY <2>2, EachEncoderType DEF In
<1>2. QED
  BY <1>1 DEF Ops, EncoderRunCalls, EncoderStopCalls

\* Behind the only call there is none.
LEMMA Alone ==
  ASSUME NEW q \in Seq(Call), NEW c, q = <<c>>
  PROVE  ~In(Tail(q), c)
<1>1. Len(q) = 1
  <2>1. Len(<<c>>) = 1
    OBVIOUS
  <2>2. QED
    BY <2>1, Zenon
<1>2. Tail(q) \in Seq(Call) /\ Len(Tail(q)) = 0
  BY <1>1
<1>3. QED
  BY <1>2 DEF In

\* A thread that makes a call and pushes others: what waits then.
LEMMA Pop ==
  ASSUME TypeOK, NEW t \in IoThread, NEW op, NEW arg, At(t, op, arg),
         NEW calls \in Seq(Call), Then(t, calls), NEW s \in Session
  PROVE  /\ \A o : Waiting(s, o)' => Waiting(s, o) \/ In(calls, Calls(o, s))
         /\ \A o : In(calls, Calls(o, s)) => Waiting(s, o)'
         /\ \A o : Waiting(s, o) /\ Calls(o, s) # Calls(op, arg) => Waiting(s, o)'
<1>0. /\ todo[t] \in Seq(Call) /\ todo[t] # <<>> /\ Head(todo[t]) = Calls(op, arg)
      /\ \A u \in IoThread :
           todo'[u] = IF u = t THEN calls \o Tail(todo[t]) ELSE todo[u]
  BY DEF TypeOK, At, Then
<1>1. \A c : /\ In(todo'[t], c) <=> In(calls, c) \/ In(Tail(todo[t]), c)
             /\ In(todo[t], c) <=> c = Calls(op, arg) \/ In(Tail(todo[t]), c)
  BY <1>0, InStack
<1>2. \A u \in IoThread : u # t => todo'[u] = todo[u]
  BY <1>0
<1>3. QED
  BY <1>1, <1>2, Zenon DEF Waiting

\* As to whom it adds, unless it pushes AddAuthorized, which no call does.
LEMMA PopOnce ==
  ASSUME TypeOK, NEW t \in IoThread, NEW op, NEW arg, At(t, op, arg),
         NEW calls \in Seq(Call), Then(t, calls), NEW s \in Session,
         ~In(calls, Add(s)), Once(s)
  PROVE  /\ Once(s)'
         /\ Calls(op, arg) = Add(s) => ~Waiting(s, "AddAuthorized")'
<1>0. /\ todo[t] \in Seq(Call) /\ todo[t] # <<>> /\ Head(todo[t]) = Calls(op, arg)
      /\ \A u \in IoThread :
           todo'[u] = IF u = t THEN calls \o Tail(todo[t]) ELSE todo[u]
  BY DEF TypeOK, At, Then
<1>1. /\ In(todo'[t], Add(s)) <=> In(Tail(todo[t]), Add(s))
      /\ In(todo[t], Add(s)) <=> Add(s) = Calls(op, arg) \/ In(Tail(todo[t]), Add(s))
  BY <1>0, InStack
<1>2. \A u \in IoThread : u # t => todo'[u] = todo[u]
  BY <1>0
<1>3. ~In(todo'[t], Add(s))
  <2>0. In(todo[t], Add(s)) => todo[t] = <<Add(s)>>
    BY Zenon DEF Once
  <2>1. In(todo[t], Add(s)) => ~In(Tail(todo[t]), Add(s))
    BY <2>0, <1>0, Alone
  <2>2. QED
    BY <1>1, <2>1
<1>4. Once(s)'
  BY <1>2, <1>3, Zenon DEF Once, Add, Calls
<1>5. ASSUME Calls(op, arg) = Add(s)
      PROVE  ~Waiting(s, "AddAuthorized")'
  <2>1. In(todo[t], Add(s))
    BY <1>1, <1>5
  <2>2. \A u \in IoThread : u # t => ~In(todo[u], Add(s))
    BY <2>1, Zenon DEF Once
  <2>3. \A u \in IoThread : ~In(todo'[u], Add(s))
    BY <1>2, <1>3, <2>2, Zenon
  <2>4. QED
    BY <2>3, Zenon DEF Waiting, Add
<1>6. QED
  BY <1>4, <1>5

\* A thread that takes a handler, which makes the given calls.
LEMMA Push ==
  ASSUME TypeOK, NEW t \in IoThread, todo[t] = <<>>,
         NEW calls \in Seq(Call), Start(t, calls), NEW s \in Session
  PROVE  \A o : Waiting(s, o)' <=> Waiting(s, o) \/ In(calls, Calls(o, s))
<1>1. \A u \in IoThread : todo'[u] = IF u = t THEN calls ELSE todo[u]
  BY DEF TypeOK, Start
<1>2. \A c : ~In(todo[t], c)
  BY DEF In
<1>3. QED
  BY <1>1, <1>2, Zenon DEF Waiting

\* It keeps to adding a session once.
LEMMA PushOnce ==
  ASSUME TypeOK, NEW t \in IoThread, todo[t] = <<>>,
         NEW calls \in Seq(Call), Start(t, calls), NEW s \in Session,
         Once(s),
         \/ ~In(calls, Add(s))
         \/ calls = <<Add(s)>> /\ ~Waiting(s, "AddAuthorized")
  PROVE  Once(s)'
<1>1. \A u \in IoThread : todo'[u] = IF u = t THEN calls ELSE todo[u]
  BY DEF TypeOK, Start
<1>2. CASE ~In(calls, Add(s))
  BY <1>1, <1>2, Zenon DEF Once, Add, Calls
<1>3. CASE calls = <<Add(s)>> /\ ~Waiting(s, "AddAuthorized")
  <2>1. \A u \in IoThread : ~In(todo[u], Add(s))
    BY <1>3, Zenon DEF Waiting, Add
  <2>2. \A u \in IoThread : In(todo'[u], Add(s)) => u = t
    BY <1>1, <2>1, Zenon
  <2>3. QED
    BY <1>1, <1>3, <2>2, Zenon DEF Once, Add, Calls
<1>4. QED
  BY <1>2, <1>3

\* A handler with one call to make, other than AddAuthorized.
LEMMA PushOne ==
  ASSUME TypeOK, NEW t \in IoThread, Ready(t), NEW op \in Ops \ {"AddAuthorized"},
         NEW s \in Session, Start(t, <<Calls(op, s)>>),
         NEW r \in Session, Once(r)
  PROVE  /\ \A o : Waiting(r, o)' <=> Waiting(r, o) \/ (o = op /\ r = s)
         /\ Once(r)'
<1>1. <<Calls(op, s)>> \in Seq(Call) /\ todo[t] = <<>>
  BY CallsType DEF Ready
<1>2. \A c : In(<<Calls(op, s)>>, c) <=> c = Calls(op, s)
  BY InCalls
<1>3. \A o : Calls(o, r) = Calls(op, s) <=> o = op /\ r = s
  BY DEF Calls
<1>4. ~In(<<Calls(op, s)>>, Add(r))
  BY <1>2, <1>3 DEF Add
<1>5. Once(r)'
  BY <1>1, <1>4, PushOnce
<1>6. \A o : Waiting(r, o)' <=> Waiting(r, o) \/ In(<<Calls(op, s)>>, Calls(o, r))
  BY <1>1, Push
<1>7. QED
  BY <1>2, <1>3, <1>5, <1>6

\* A join of an encoder's thread makes no call on a session.
LEMMA Joined ==
  ASSUME TypeOK, NEW t \in IoThread, NEW e \in Encoder, JoinThread(t, e),
         NEW r \in Session, Once(r)
  PROVE  /\ \A o : Waiting(r, o)' <=> Waiting(r, o)
         /\ Once(r)'
<1>1. \A u \in IoThread :
        todo'[u] = IF u \in Joiners(e) THEN Tail(todo[u]) ELSE todo[u]
  BY DEF JoinThread
<1>2. \A u \in Joiners(e) :
        /\ todo[u] \in Seq(Call) /\ todo[u] # <<>>
        /\ Head(todo[u]) = Calls("JoinThread", e)
  BY DEF TypeOK, Joiners, At
<1>3. \A o : Calls(o, r) # Calls("JoinThread", e)
  BY ThreadAssumption DEF Calls
<1>4. \A u \in IoThread : \A o :
        In(todo'[u], Calls(o, r)) <=> In(todo[u], Calls(o, r))
  <2> SUFFICES ASSUME NEW u \in Joiners(e), NEW o
               PROVE  In(Tail(todo[u]), Calls(o, r)) <=> In(todo[u], Calls(o, r))
    BY <1>1
  <2>1. <<>> \in Seq(Call)
    OBVIOUS
  <2>2. In(todo[u], Calls(o, r))
        <=> Calls(o, r) = Head(todo[u]) \/ In(Tail(todo[u]), Calls(o, r))
    BY <1>2, <2>1, InStack
  <2>3. QED
    BY <1>2, <1>3, <2>2
<1>5. \A o : Waiting(r, o)' <=> Waiting(r, o)
  BY <1>4, Zenon DEF Waiting
<1>6. \A u \in IoThread : In(todo'[u], Add(r)) <=> In(todo[u], Add(r))
  BY <1>4 DEF Add
<1>7. \A u \in IoThread : In(todo[u], Add(r)) => u \notin Joiners(e)
  <2> SUFFICES ASSUME NEW u \in IoThread, todo[u] = <<Add(r)>>
               PROVE  u \notin Joiners(e)
    BY Zenon DEF Once
  <2>1. Head(<<Add(r)>>) = Add(r)
    OBVIOUS
  <2>2. QED
    BY <1>2, <1>3, <2>1 DEF Add
<1>8. Once(r)'
  BY <1>1, <1>6, <1>7, Zenon DEF Once, Add, Calls
<1>9. QED
  BY <1>5, <1>8
-----------------------------------------------------------------------------
(* What leaves a session as it is. *)

Same(r) ==
  /\ conn'[r] = conn[r] /\ reading'[r] = reading[r] /\ writing'[r] = writing[r]
  /\ session_state'[r] = session_state[r] /\ login'[r] = login[r]
  /\ r \in sessions' <=> r \in sessions
  /\ r \in authorized_sessions' <=> r \in authorized_sessions

\* Nothing changes but that Stop or Leave of the session may be called.
LEMMA Frame ==
  ASSUME NEW r \in Session, Good(r), Same(r), Once(r)',
         \A o : Waiting(r, o) => Waiting(r, o)',
         \A o \in {"AddAuthorized", "LoginResult"} :
           Waiting(r, o)' => Waiting(r, o)
  PROVE  Good(r)'
BY DEF Good, Fresh, Unwritten, Attended, Kept, Leaving, Same

\* A call on something else, which makes none on this session.
LEMMA CallElsewhere ==
  ASSUME TypeOK, NEW t \in IoThread, NEW op, NEW arg, At(t, op, arg),
         NEW calls \in Seq(Call), Then(t, calls),
         NEW r \in Session, arg # r, Good(r), Same(r),
         \A o \in {"AddAuthorized", "LoginResult"} : ~In(calls, Calls(o, r))
  PROVE  Good(r)'
<1>1. Once(r) /\ ~In(calls, Add(r))
  BY DEF Good, Fresh, Add
<1>2. Once(r)'
  BY <1>1, PopOnce
<1>3. \A o : Calls(o, r) # Calls(op, arg)
  BY DEF Calls
<1>4. /\ \A o : Waiting(r, o) => Waiting(r, o)'
      /\ \A o \in {"AddAuthorized", "LoginResult"} :
           Waiting(r, o)' => Waiting(r, o)
  BY <1>3, Pop
<1>5. QED
  BY <1>2, <1>4, Frame

\* A handler of something else.
LEMMA HandlerElsewhere ==
  ASSUME TypeOK, NEW t \in IoThread, todo[t] = <<>>,
         NEW calls \in Seq(Call), Start(t, calls),
         NEW r \in Session, Good(r), Same(r),
         \A o \in {"AddAuthorized", "LoginResult"} : ~In(calls, Calls(o, r))
  PROVE  Good(r)'
<1>1. Once(r) /\ ~In(calls, Add(r))
  BY DEF Good, Fresh, Add
<1>2. Once(r)'
  BY <1>1, PushOnce
<1>3. \A o : Waiting(r, o)' <=> Waiting(r, o) \/ In(calls, Calls(o, r))
  BY Push
<1>4. QED
  BY <1>2, <1>3, Frame
-----------------------------------------------------------------------------
(* The steps of the service and of the encoders. *)

\* Nothing changes at all for a session.
LEMMA Still ==
  ASSUME NEW r \in Session, Good(r), Same(r), UNCHANGED todo
  PROVE  Good(r)'
<1>1. (\A o : Waiting(r, o)' <=> Waiting(r, o)) /\ (Once(r)' <=> Once(r))
  BY Zenon DEF Waiting, Once, Add, Calls, In
<1>2. Once(r)'
  BY <1>1 DEF Good, Fresh
<1>3. QED
  BY <1>1, <1>2, Frame

\* Send writes to the authorised sessions.
LEMMA WrittenGood ==
  ASSUME TypeOK, WriteAll,
         UNCHANGED <<sessions, authorized_sessions, conn, reading, session_state,
                     login, todo>>,
         NEW r \in Session, Good(r)
  PROVE  Good(r)'
<1>1. (\A o : Waiting(r, o)' <=> Waiting(r, o)) /\ (Once(r)' <=> Once(r))
  BY Zenon DEF Waiting, Once, Add, Calls, In
<1>2. writing'[r] = IF r \in authorized_sessions THEN Written(r) ELSE writing[r]
  BY DEF WriteAll
<1>3. Fresh(r)'
  BY <1>1, <1>2 DEF Good, Fresh, Unwritten
<1>4. Attended(r)'
  BY <1>1 DEF Good, Attended
<1>5. Kept(r)'
  BY <1>1, <1>2 DEF Good, Kept, Leaving, Written
<1>6. QED
  BY <1>3, <1>4, <1>5 DEF Good

\* The encoder threads at most write to the session; the process ending, not even that.
LEMMA EncoderGood ==
  ASSUME TypeOK, NEW r \in Session, Good(r),
         \/ \E e \in Encoder : EncoderStep(e)
         \/ RestartNeeded \/ NotifyRestartVideoEncoder \/ MainReturn \/ Ended
  PROVE  Good(r)'
<1> USE DEF registry, client, encoders
<1>1. ASSUME NEW e \in Encoder, EncoderStep(e)
      PROVE  Good(r)'
  <2>1. CASE SendPacket(e)
    BY <2>1, WrittenGood DEF SendPacket
  <2>2. CASE \/ OpenCodec(e) \/ Encode(e) \/ SendLock(e)
             \/ EncoderExit(e) \/ EncoderFail(e)
    BY <2>2, Still DEF OpenCodec, Encode, SendLock, EncoderExit, EncoderFail, Same
  <2>3. QED
    BY <1>1, <2>1, <2>2 DEF EncoderStep
<1>2. CASE NotifyRestartVideoEncoder
  BY <1>2, WrittenGood DEF NotifyRestartVideoEncoder
<1>3. CASE RestartNeeded \/ MainReturn \/ Ended
  BY <1>3, Still DEF RestartNeeded, MainReturn, Ended, vars, Same
<1>4. QED
  BY <1>1, <1>2, <1>3

\* The calls the service and the encoders make.
LEMMA EncoderCallGood ==
  ASSUME TypeOK, NEW t \in IoThread, NEW e \in Encoder,
         \/ EncoderRun(t, e) \/ StartThread(t, e)
         \/ EncoderStop(t, e) \/ JoinTest(t, e) \/ JoinThread(t, e)
         \/ FreeCodec(t, e),
         NEW r \in Session, Good(r)
  PROVE  Good(r)'
<1> USE DEF registry, client, encoders
<1>0. /\ e # r /\ <<>> \in Seq(Call)
      /\ \A op \in Ops : Calls(op, e) \in Call /\ <<Calls(op, e)>> \in Seq(Call)
  BY CallsType, ThreadAssumption DEF Calls, Call
<1>1. \A c : ~In(<<>>, c)
  BY InCalls
<1>2. \A op, o : ~In(<<Calls(op, e)>>, Calls(o, r))
  <2>1. \A op, c : In(<<Calls(op, e)>>, c) <=> c = Calls(op, e)
    BY InCalls
  <2>2. QED
    BY <1>0, <2>1, Differ
<1>3. CASE EncoderRun(t, e)
  <2>1. /\ At(t, "EncoderRun", e) /\ Same(r)
        /\ Then(t, <<Calls("StartThread", e)>>)
    BY <1>3 DEF EncoderRun, Same
  <2>2. <<Calls("StartThread", e)>> \in Seq(Call)
    BY <1>0 DEF Ops
  <2>3. QED
    BY <1>0, <1>2, <2>1, <2>2, CallElsewhere
<1>4. CASE StartThread(t, e)
  <2>1. At(t, "StartThread", e) /\ Same(r) /\ (Then(t, <<>>) \/ UNCHANGED todo)
    BY <1>4 DEF StartThread, Same
  <2>2. CASE Then(t, <<>>)
    BY <1>0, <1>1, <2>1, <2>2, CallElsewhere
  <2>3. CASE UNCHANGED todo
    BY <2>1, <2>3, Still
  <2>4. QED
    BY <2>1, <2>2, <2>3
<1>5. CASE EncoderStop(t, e)
  <2> DEFINE q == <<Calls("JoinTest", e), Calls("FreeCodec", e)>>
  <2>1. At(t, "EncoderStop", e) /\ Same(r) /\ Then(t, q)
    BY <1>5 DEF EncoderStop, Same
  <2>2. q \in Seq(Call)
    <3>1. Calls("JoinTest", e) \in Call /\ Calls("FreeCodec", e) \in Call
      BY <1>0 DEF Ops
    <3>2. QED
      BY <3>1
  <2>3. \A o : ~In(q, Calls(o, r))
    <3>1. \A c : In(q, c) <=> c = Calls("JoinTest", e) \/ c = Calls("FreeCodec", e)
      BY InCalls
    <3>2. QED
      BY <1>0, <3>1, Differ
  <2> HIDE DEF q
  <2>4. QED
    BY <1>0, <2>1, <2>2, <2>3, CallElsewhere
<1>6. CASE JoinTest(t, e)
  <2>1. /\ At(t, "JoinTest", e) /\ Same(r)
        /\ Then(t, <<>>) \/ Then(t, <<Calls("JoinThread", e)>>)
    BY <1>6 DEF JoinTest, Same
  <2>2. <<Calls("JoinThread", e)>> \in Seq(Call)
    BY <1>0 DEF Ops
  <2>3. CASE Then(t, <<>>)
    BY <1>0, <1>1, <2>1, <2>3, CallElsewhere
  <2>4. CASE Then(t, <<Calls("JoinThread", e)>>)
    BY <1>0, <1>2, <2>1, <2>2, <2>4, CallElsewhere
  <2>5. QED
    BY <2>1, <2>3, <2>4
<1>7. CASE JoinThread(t, e)
  <2>1. (\A o : Waiting(r, o)' <=> Waiting(r, o)) /\ Once(r)'
    BY <1>7, Joined DEF Good, Fresh
  <2>2. Same(r)
    BY <1>7 DEF JoinThread, Same
  <2>3. QED
    BY <2>1, <2>2, Frame
<1>8. CASE FreeCodec(t, e)
  <2>1. At(t, "FreeCodec", e) /\ Same(r) /\ Then(t, <<>>)
    BY <1>8 DEF FreeCodec, Same
  <2>2. QED
    BY <1>0, <1>1, <2>1, CallElsewhere
<1>9. QED
  BY <1>3, <1>4, <1>5, <1>6, <1>7, <1>8

\* The loop that stops all sessions: it pushes calls that lead out of the registry.
LEMMA ServiceCallGood ==
  ASSUME TypeOK, NEW t \in IoThread, StopAll(t) \/ StopBegin(t),
         NEW r \in Session, Good(r)
  PROVE  Good(r)'
<1> USE DEF registry, client, encoders
<1>0. Nothing # r
  BY SessionAssumption
<1>1. \A c : ~In(<<>>, c)
  BY InCalls
<1>2. CASE StopAll(t)
  <2>1. /\ At(t, "StopAll", Nothing) /\ Same(r)
        /\ Then(t, <<>>) \/ Then(t, <<Calls("StopBegin", Nothing)>>)
    BY <1>2 DEF StopAll, Same
  <2>2. <<>> \in Seq(Call) /\ <<Calls("StopBegin", Nothing)>> \in Seq(Call)
    BY CallsType DEF Ops
  <2>3. \A o \in {"AddAuthorized", "LoginResult"} :
          ~In(<<Calls("StopBegin", Nothing)>>, Calls(o, r))
    <3>1. \A c : In(<<Calls("StopBegin", Nothing)>>, c)
                 <=> c = Calls("StopBegin", Nothing)
      BY InCalls
    <3>2. QED
      BY <3>1, Differ
  <2>4. CASE Then(t, <<>>)
    BY <1>0, <1>1, <2>1, <2>2, <2>4, CallElsewhere
  <2>5. CASE Then(t, <<Calls("StopBegin", Nothing)>>)
    BY <1>0, <2>1, <2>2, <2>3, <2>5, CallElsewhere
  <2>6. QED
    BY <2>1, <2>4, <2>5
<1>3. ASSUME StopBegin(t), NEW s \in sessions,
             Then(t, IF conn[s] = "open"
                     THEN <<Calls("Leave", s), Calls("Close", s),
                            Calls("StopAll", Nothing)>>
                     ELSE <<Calls("Leave", s), Calls("StopAll", Nothing)>>)
      PROVE  Good(r)'
  <2> DEFINE q == <<Calls("Leave", s), Calls("Close", s),
                    Calls("StopAll", Nothing)>>
             p == <<Calls("Leave", s), Calls("StopAll", Nothing)>>
  <2>1. At(t, "StopBegin", Nothing) /\ Same(r)
    BY <1>3 DEF StopBegin, Same
  <2>2. q \in Seq(Call) /\ p \in Seq(Call)
    <3>1. /\ Calls("Leave", s) \in Call /\ Calls("Close", s) \in Call
          /\ Calls("StopAll", Nothing) \in Call
      BY <1>3 DEF TypeOK, Call, Calls, Ops
    <3>2. QED
      BY <3>1
  <2>3. \A o \in {"AddAuthorized", "LoginResult"} :
          ~In(q, Calls(o, r)) /\ ~In(p, Calls(o, r))
    <3>1. \A c : /\ In(q, c) <=> \/ c = Calls("Leave", s) \/ c = Calls("Close", s)
                                \/ c = Calls("StopAll", Nothing)
                 /\ In(p, c) <=> \/ c = Calls("Leave", s)
                                \/ c = Calls("StopAll", Nothing)
      BY InCalls
    <3>2. QED
      BY <3>1, Differ
  <2>4. Then(t, q) \/ Then(t, p)
    BY <1>3
  <2>5. CASE Then(t, q)
    <3> HIDE DEF q
    <3>1. QED
      BY <1>0, <2>1, <2>2, <2>3, <2>5, CallElsewhere
  <2>6. CASE Then(t, p)
    <3> HIDE DEF p
    <3>1. QED
      BY <1>0, <2>1, <2>2, <2>3, <2>6, CallElsewhere
  <2>7. QED
    BY <2>4, <2>5, <2>6
<1>4. CASE StopBegin(t) /\ UNCHANGED todo
  BY <1>4, Still DEF StopBegin, Same
<1>5. QED
  BY <1>2, <1>3, <1>4 DEF StopBegin

\* The handlers that are not of a session: none adds it or writes to it.
LEMMA ServiceHandlerGood ==
  ASSUME TypeOK, NEW t \in IoThread,
         \/ OnAcceptFail(t) \/ RestartVideoEncoder(t) \/ Signal(t)
         \/ MainEncoderStop(t),
         NEW r \in Session, Good(r)
  PROVE  Good(r)'
<1> USE DEF registry, client, encoders
<1> DEFINE p == <<Calls("EncoderStop", "video"), Calls("EncoderRun", "video")>>
           q == <<Calls("StopAll", Nothing)>>
<1>1. p \in Seq(Call) /\ q \in Seq(Call) /\ EncoderStopCalls \in Seq(Call)
  <2>1. Calls("EncoderStop", "video") \in Call /\ Calls("EncoderRun", "video") \in Call
    BY EncoderNames DEF Calls, Call, Ops
  <2>2. QED
    BY <2>1, CallsType DEF Ops
<1>2. \A o \in {"AddAuthorized", "LoginResult"} :
        /\ ~In(p, Calls(o, r)) /\ ~In(q, Calls(o, r))
        /\ ~In(EncoderStopCalls, Calls(o, r))
  <2>1. \A c : /\ In(p, c) <=> \/ c = Calls("EncoderStop", "video")
                              \/ c = Calls("EncoderRun", "video")
               /\ In(q, c) <=> c = Calls("StopAll", Nothing)
    BY InCalls
  <2>2. QED
    BY <2>1, Differ, EncodersElsewhere
<1>3. CASE OnAcceptFail(t)
  BY <1>3, Still DEF OnAcceptFail, Same
<1>4. CASE RestartVideoEncoder(t)
  <2>1. todo[t] = <<>> /\ Start(t, p) /\ Same(r)
    BY <1>4 DEF RestartVideoEncoder, Ready, Same
  <2> HIDE DEF p
  <2>2. QED
    BY <1>1, <1>2, <2>1, HandlerElsewhere
<1>5. CASE Signal(t)
  <2>1. todo[t] = <<>> /\ Start(t, q) /\ Same(r)
    BY <1>5 DEF Signal, Ready, Same
  <2> HIDE DEF q
  <2>2. QED
    BY <1>1, <1>2, <2>1, HandlerElsewhere
<1>6. CASE MainEncoderStop(t)
  <2>1. todo[t] = <<>> /\ Start(t, EncoderStopCalls) /\ Same(r)
    BY <1>6 DEF MainEncoderStop, Same
  <2>2. QED
    BY <1>1, <1>2, <2>1, HandlerElsewhere
<1>7. QED
  BY <1>3, <1>4, <1>5, <1>6
-----------------------------------------------------------------------------
(* The handlers of a session. *)

\* Those that make no call.
LEMMA QuietHandlerGood ==
  ASSUME TypeOK, NEW t, NEW s \in Session,
         \/ OnAccept(t, s) \/ OnHandshakeFail(t, s) \/ OnReadLogin(t, s)
         \/ OnWriteOk(t, s) \/ Disconnect(s),
         NEW r \in Session, Good(r)
  PROVE  Good(r)'
<1> USE DEF registry, client, encoders, TypeOK
<1>1. UNCHANGED <<todo, sessions, authorized_sessions>>
  BY DEF OnAccept, OnHandshakeFail, OnReadLogin, OnWriteOk, Disconnect
<1>2. (\A o : Waiting(r, o)' <=> Waiting(r, o)) /\ (Once(r)' <=> Once(r))
  BY <1>1, Zenon DEF Waiting, Once, Add, Calls, In
<1>3. Fresh(r)'
  BY <1>1, <1>2 DEF Good, Fresh, Unwritten,
     OnAccept, OnHandshakeFail, OnReadLogin, OnWriteOk, Disconnect
<1>4. Attended(r)'
  BY <1>1, <1>2 DEF Good, Attended,
     OnAccept, OnHandshakeFail, OnReadLogin, OnWriteOk, Disconnect
<1>5. Kept(r)'
  BY <1>1, <1>2 DEF Good, Kept, Leaving, Attended,
     OnAccept, OnHandshakeFail, OnReadLogin, OnWriteOk, Disconnect
<1>6. QED
  BY <1>3, <1>4, <1>5 DEF Good

\* Those that stop the session, join it or take it out.
LEMMA StoppingHandlerGood ==
  ASSUME TypeOK, NEW t \in IoThread, NEW s \in Session,
         \/ OnHandshake(t, s) \/ OnReadBad(t, s) \/ OnReadFail(t, s)
         \/ OnLoginFailed(t, s) \/ OnKeepAliveFailed(t, s)
         \/ OnWriteFail(t, s) \/ OnStop(t, s),
         NEW r \in Session, Good(r)
  PROVE  Good(r)'
<1> USE DEF registry, client, encoders, TypeOK
<1>0. Ready(t) /\ Once(r) /\ UNCHANGED <<sessions, authorized_sessions>>
  BY DEF Good, Fresh, OnHandshake, OnReadBad, OnReadFail, OnLoginFailed,
         OnKeepAliveFailed, OnWriteFail, OnStop
<1>1. CASE OnHandshake(t, s)
  <2>1. (\A o : Waiting(r, o)' <=> Waiting(r, o) \/ (o = "Join" /\ r = s)) /\ Once(r)'
    BY <1>0, <1>1, PushOne DEF OnHandshake, Ops
  <2>2. Fresh(r)'
    BY <1>0, <1>1, <2>1 DEF Good, Fresh, Unwritten, OnHandshake
  <2>3. Attended(r)' /\ Kept(r)'
    BY <1>0, <1>1, <2>1 DEF Good, Attended, Kept, Leaving, OnHandshake
  <2>4. QED
    BY <2>2, <2>3 DEF Good
<1>2. CASE OnStop(t, s)
  <2>1. (\A o : Waiting(r, o)' <=> Waiting(r, o) \/ (o = "Leave" /\ r = s)) /\ Once(r)'
    BY <1>0, <1>2, PushOne DEF OnStop, Ops
  <2>2. Fresh(r)'
    BY <1>0, <1>2, <2>1 DEF Good, Fresh, Unwritten, OnStop
  <2>3. Attended(r)' /\ Kept(r)'
    BY <1>0, <1>2, <2>1 DEF Good, Attended, Kept, Leaving, OnStop
  <2>4. QED
    BY <2>2, <2>3 DEF Good
<1>3. CASE \/ OnReadBad(t, s) \/ OnReadFail(t, s) \/ OnLoginFailed(t, s)
           \/ OnKeepAliveFailed(t, s) \/ OnWriteFail(t, s)
  <2>1. (\A o : Waiting(r, o)' <=> Waiting(r, o) \/ (o = "Stop" /\ r = s)) /\ Once(r)'
    BY <1>0, <1>3, PushOne DEF OnReadBad, OnReadFail, OnLoginFailed,
       OnKeepAliveFailed, OnWriteFail, Ops
  <2>2. Fresh(r)'
    BY <1>0, <1>3, <2>1 DEF Good, Fresh, Unwritten, OnReadBad, OnReadFail,
       OnLoginFailed, OnKeepAliveFailed, OnWriteFail
  <2>3. Attended(r)' /\ Kept(r)'
    BY <1>0, <1>3, <2>1 DEF Good, Attended, Kept, Leaving, OnReadBad, OnReadFail,
       OnLoginFailed, OnKeepAliveFailed, OnWriteFail
  <2>4. QED
    BY <2>2, <2>3 DEF Good
<1>4. QED
  BY <1>1, <1>2, <1>3

\* The login succeeds.
LEMMA LoginOkGood ==
  ASSUME TypeOK, NEW t \in IoThread, NEW s \in Session, OnLoginOk(t, s),
         NEW r \in Session, Good(r)
  PROVE  Good(r)'
<1> USE DEF registry, client, encoders, TypeOK
<1> DEFINE q == <<Calls("AddAuthorized", s)>>
<1>1. /\ todo[t] = <<>> /\ Start(t, q) /\ q \in Seq(Call)
      /\ UNCHANGED <<sessions, authorized_sessions, conn, reading, writing>>
  BY CallsType DEF OnLoginOk, Ready, Ops
<1>2. \A o : In(q, Calls(o, r)) <=> o = "AddAuthorized" /\ r = s
  <2>1. \A c : In(q, c) <=> c = Calls("AddAuthorized", s)
    BY InCalls
  <2>2. \A o : Calls(o, r) = Calls("AddAuthorized", s)
               <=> o = "AddAuthorized" /\ r = s
    BY Differ
  <2> HIDE DEF q
  <2>3. QED
    BY <2>1, <2>2
<1>3. r = s => ~Waiting(r, "AddAuthorized") /\ Unwritten(r)
  BY DEF Good, Fresh, OnLoginOk
<1>4. Once(r)
  BY DEF Good, Fresh
<1>5. \/ ~In(q, Add(r))
      \/ q = <<Add(r)>> /\ ~Waiting(r, "AddAuthorized")
  BY <1>2, <1>3 DEF Add
<1> HIDE DEF q
<1>6. Once(r)'
  BY <1>1, <1>4, <1>5, PushOnce
<1>7. \A o : Waiting(r, o)' <=> Waiting(r, o) \/ (o = "AddAuthorized" /\ r = s)
  BY <1>1, <1>2, Push
<1>8. Fresh(r)'
  BY <1>1, <1>3, <1>6, <1>7 DEF Good, Fresh, Unwritten, OnLoginOk
<1>9. Attended(r)' /\ Kept(r)'
  BY <1>1, <1>7 DEF Good, Attended, Kept, Leaving
<1>10. QED
  BY <1>8, <1>9 DEF Good
-----------------------------------------------------------------------------
(* The calls on a session. *)

\* The stacks a call on session s may leave, and what is in them.
LEMMA SessionStacks ==
  ASSUME NEW s \in Session
  PROVE  /\ \A calls \in {<<>>, EncoderStopCalls} :
              calls \in Seq(Call) /\ \A r \in Session : \A o : ~In(calls, Calls(o, r))
         /\ \A op \in {"Stop", "Leave", "LoginResult"} :
              /\ <<Calls(op, s)>> \in Seq(Call)
              /\ \A o, r : In(<<Calls(op, s)>>, Calls(o, r)) <=> o = op /\ r = s
         /\ <<Calls("Stop", s), Calls("Stop", s)>> \in Seq(Call)
         /\ \A o, r : In(<<Calls("Stop", s), Calls("Stop", s)>>, Calls(o, r))
                     <=> o = "Stop" /\ r = s
         /\ EncoderRunCalls \o <<Calls("LoginResult", s)>> \in Seq(Call)
         /\ \A r \in Session : \A o :
              In(EncoderRunCalls \o <<Calls("LoginResult", s)>>, Calls(o, r))
              <=> o = "LoginResult" /\ r = s
<1>1. \A calls \in {<<>>, EncoderStopCalls} :
        calls \in Seq(Call) /\ \A r \in Session : \A o : ~In(calls, Calls(o, r))
  <2>1. \A c : ~In(<<>>, c)
    BY InCalls
  <2>2. QED
    BY <2>1, EncodersElsewhere, CallsType
<1>2. ASSUME NEW op \in {"Stop", "Leave", "LoginResult"}
      PROVE  /\ <<Calls(op, s)>> \in Seq(Call)
             /\ \A o, r : In(<<Calls(op, s)>>, Calls(o, r)) <=> o = op /\ r = s
  <2>1. \A c : In(<<Calls(op, s)>>, c) <=> c = Calls(op, s)
    BY InCalls
  <2>2. QED
    BY <2>1, CallsType, Differ DEF Ops
<1>3. /\ <<Calls("Stop", s), Calls("Stop", s)>> \in Seq(Call)
      /\ \A o, r : In(<<Calls("Stop", s), Calls("Stop", s)>>, Calls(o, r))
                  <=> o = "Stop" /\ r = s
  <2>1. \A c : In(<<Calls("Stop", s), Calls("Stop", s)>>, c) <=> c = Calls("Stop", s)
    BY InCalls
  <2>2. QED
    BY <2>1, CallsType, Differ DEF Ops
<1>4. /\ EncoderRunCalls \o <<Calls("LoginResult", s)>> \in Seq(Call)
      /\ \A r \in Session : \A o :
           In(EncoderRunCalls \o <<Calls("LoginResult", s)>>, Calls(o, r))
           <=> o = "LoginResult" /\ r = s
  <2>1. <<Calls("LoginResult", s)>> \in Seq(Call)
    BY <1>2
  <2>2. EncoderRunCalls \o <<Calls("LoginResult", s)>> \in Seq(Call)
    BY <2>1, CallsType
  <2>3. \A c : In(EncoderRunCalls \o <<Calls("LoginResult", s)>>, c)
               <=> In(EncoderRunCalls, c) \/ In(<<Calls("LoginResult", s)>>, c)
    BY <2>1, CallsType, InBoth
  <2>4. QED
    BY <1>2, <2>2, <2>3, EncodersElsewhere
<1>5. QED
  BY <1>1, <1>2, <1>3, <1>4

\* What waits for a session after a call on it.
LEMMA Made ==
  ASSUME TypeOK, NEW t \in IoThread, NEW op, NEW s \in Session, At(t, op, s),
         NEW calls \in Seq(Call), Then(t, calls), Once(s),
         ~In(calls, Calls("AddAuthorized", s))
  PROVE  /\ \A o : Waiting(s, o)' => Waiting(s, o) \/ In(calls, Calls(o, s))
         /\ \A o : In(calls, Calls(o, s)) => Waiting(s, o)'
         /\ \A o : Waiting(s, o) /\ o # op => Waiting(s, o)'
         /\ Once(s)'
         /\ op = "AddAuthorized" => ~Waiting(s, "AddAuthorized")'
<1>1. \A o : Waiting(s, o) /\ o # op => Waiting(s, o)'
  BY Pop, Differ
<1>2. Once(s)' /\ (op = "AddAuthorized" => ~Waiting(s, "AddAuthorized")')
  <2>1. ~In(calls, Add(s))
    BY DEF Add
  <2>2. Once(s)' /\ (Calls(op, s) = Add(s) => ~Waiting(s, "AddAuthorized")')
    BY <2>1, PopOnce
  <2>3. QED
    BY <2>2 DEF Add
<1>3. QED
  BY <1>1, <1>2, Pop

\* The thread that makes the call is there.
LEMMA AtWaits ==
  ASSUME TypeOK, NEW t \in IoThread, NEW op, NEW s \in Session, At(t, op, s)
  PROVE  Waiting(s, op)
<1>1. todo[t] \in Seq(Call) /\ todo[t] # <<>> /\ Head(todo[t]) = Calls(op, s)
  BY DEF TypeOK, At
<1>2. <<>> \in Seq(Call)
  OBVIOUS
<1>3. In(todo[t], Calls(op, s))
  BY <1>1, <1>2, InStack
<1>4. QED
  BY <1>3 DEF Waiting

\* A call on another session.
LEMMA CallOnOther ==
  ASSUME TypeOK, NEW t \in IoThread, NEW s \in Session,
         \/ Join(t, s) \/ AddAuthorized(t, s) \/ LoginResult(t, s)
         \/ Stop(t, s) \/ Leave(t, s) \/ Close(t, s),
         NEW r \in Session, r # s, Good(r)
  PROVE  Good(r)'
<1> USE DEF registry, client, encoders, TypeOK
<1>1. Same(r)
  BY DEF Same, Join, AddAuthorized, LoginResult, Stop, Leave, Close
<1>2. PICK op \in Ops : At(t, op, s)
  BY DEF Join, AddAuthorized, LoginResult, Stop, Leave, Close, Ops
<1>3. \E calls \in Seq(Call) :
        Then(t, calls) /\ \A o : ~In(calls, Calls(o, r))
  <2> DEFINE Fine(calls) == /\ calls \in Seq(Call)
                            /\ \A o : ~In(calls, Calls(o, r))
  <2>1. /\ Fine(<<>>) /\ Fine(EncoderStopCalls)
        /\ Fine(<<Calls("Stop", s)>>) /\ Fine(<<Calls("Leave", s)>>)
        /\ Fine(<<Calls("LoginResult", s)>>)
        /\ Fine(<<Calls("Stop", s), Calls("Stop", s)>>)
        /\ Fine(EncoderRunCalls \o <<Calls("LoginResult", s)>>)
    BY SessionStacks
  <2>2. \/ Then(t, <<>>) \/ Then(t, EncoderStopCalls)
        \/ Then(t, <<Calls("Stop", s)>>) \/ Then(t, <<Calls("Leave", s)>>)
        \/ Then(t, <<Calls("LoginResult", s)>>)
        \/ Then(t, <<Calls("Stop", s), Calls("Stop", s)>>)
        \/ Then(t, EncoderRunCalls \o <<Calls("LoginResult", s)>>)
    BY DEF Join, AddAuthorized, LoginResult, Stop, Leave, Close
  <2>3. \E calls : Then(t, calls) /\ Fine(calls)
    <3> HIDE DEF Fine
    <3>1. QED
      BY <2>1, <2>2
  <2>4. QED
    BY <2>3
<1>4. PICK calls \in Seq(Call) : Then(t, calls) /\ \A o : ~In(calls, Calls(o, r))
  BY <1>3
<1>5. \A o \in {"AddAuthorized", "LoginResult"} : ~In(calls, Calls(o, r))
  BY <1>4
<1>6. QED
  BY <1>1, <1>2, <1>4, <1>5, CallElsewhere

\* The calls on the session itself.
LEMMA JoinGood ==
  ASSUME TypeOK, NEW t \in IoThread, NEW s \in Session, Good(s), Join(t, s)
  PROVE  Good(s)'
<1> USE DEF registry, client, encoders, TypeOK
<1>1. At(t, "Join", s) /\ Once(s)
  BY DEF Join, Good, Fresh
<1>2. CASE /\ Then(t, <<>>)
           /\ sessions' = sessions \cup {s}
           /\ reading' = [reading EXCEPT ![s] = TRUE]
  <2>1. /\ <<>> \in Seq(Call) /\ \A o : ~In(<<>>, Calls(o, s))
    BY SessionStacks
  <2>2. /\ \A o : Waiting(s, o)' => Waiting(s, o)
        /\ Once(s)'
    BY <1>1, <1>2, <2>1, Made
  <2>3. Fresh(s)'
    BY <2>2 DEF Good, Fresh, Unwritten, Join
  <2>4. QED
    BY <1>2, <2>3 DEF Good, Attended, Kept, Leaving
<1>3. CASE /\ Then(t, <<Calls("Stop", s), Calls("Stop", s)>>)
           /\ UNCHANGED <<sessions, reading>>
  <2> DEFINE q == <<Calls("Stop", s), Calls("Stop", s)>>
  <2>1. /\ q \in Seq(Call) /\ \A o : In(q, Calls(o, s)) <=> o = "Stop"
    BY SessionStacks
  <2>2. Then(t, q)
    BY <1>3
  <2> HIDE DEF q
  <2>3. /\ \A o : Waiting(s, o)' => Waiting(s, o) \/ o = "Stop"
        /\ Waiting(s, "Stop")' /\ Once(s)'
    BY <1>1, <2>1, <2>2, Made
  <2>4. Fresh(s)'
    BY <2>3 DEF Good, Fresh, Unwritten, Join
  <2>5. QED
    BY <2>3, <2>4 DEF Good, Attended, Kept, Leaving
<1>4. QED
  BY <1>2, <1>3 DEF Join

\* The session is authorised with nothing written yet, and its login result will be,
\* or it is stopped.
LEMMA AddAuthorizedGood ==
  ASSUME TypeOK, NEW t \in IoThread, NEW s \in Session, Good(s),
         AddAuthorized(t, s)
  PROVE  Good(s)'
<1> USE DEF registry, client, encoders, TypeOK
<1>1. At(t, "AddAuthorized", s) /\ Once(s) /\ Waiting(s, "AddAuthorized")
  BY AtWaits DEF AddAuthorized, Good, Fresh
<1>2. Unwritten(s) /\ login[s] \notin {"none", "inflight"}
  BY <1>1 DEF Good, Fresh
<1>3. ASSUME NEW calls \in Seq(Call), Then(t, calls),
             authorized_sessions' = authorized_sessions \cup {s},
             \A o : In(calls, Calls(o, s)) <=> o = "LoginResult"
      PROVE  Good(s)'
  <2>1. /\ \A o : Waiting(s, o)' => Waiting(s, o) \/ o = "LoginResult"
        /\ \A o : Waiting(s, o) /\ o # "AddAuthorized" => Waiting(s, o)'
        /\ Waiting(s, "LoginResult")' /\ Once(s)'
        /\ ~Waiting(s, "AddAuthorized")'
    BY <1>1, <1>3, Made
  <2>2. Fresh(s)'
    BY <1>2, <2>1 DEF Good, Fresh, AddAuthorized
  <2>3. QED
    BY <1>2, <2>1, <2>2 DEF Good, Attended, Kept, Leaving, Unwritten, AddAuthorized
<1>4. CASE Then(t, <<Calls("Stop", s)>>) /\ UNCHANGED authorized_sessions
  <2> DEFINE q == <<Calls("Stop", s)>>
  <2>1. /\ q \in Seq(Call) /\ \A o : In(q, Calls(o, s)) <=> o = "Stop"
    BY SessionStacks
  <2>2. Then(t, q)
    BY <1>4
  <2> HIDE DEF q
  <2>3. /\ \A o : Waiting(s, o)' => Waiting(s, o) \/ o = "Stop"
        /\ Waiting(s, "Stop")' /\ Once(s)' /\ ~Waiting(s, "AddAuthorized")'
    BY <1>1, <2>1, <2>2, Made
  <2>4. Fresh(s)'
    BY <1>2, <2>3 DEF Good, Fresh, AddAuthorized
  <2>5. QED
    BY <2>3, <2>4 DEF Good, Attended, Kept, Leaving
<1>5. QED
  <2> DEFINE p == EncoderRunCalls \o <<Calls("LoginResult", s)>>
             q == <<Calls("LoginResult", s)>>
  <2>1. /\ p \in Seq(Call) /\ q \in Seq(Call)
        /\ \A o : In(p, Calls(o, s)) <=> o = "LoginResult"
        /\ \A o : In(q, Calls(o, s)) <=> o = "LoginResult"
    BY SessionStacks
  <2>2. \/ /\ authorized_sessions' = authorized_sessions \cup {s}
           /\ Then(t, p) \/ Then(t, q)
        \/ Then(t, <<Calls("Stop", s)>>) /\ UNCHANGED authorized_sessions
    BY DEF AddAuthorized
  <2> HIDE DEF p, q
  <2>3. QED
    BY <1>3, <1>4, <2>1, <2>2

\* Written to a stream that is gone, the login result is bound to fail.
LEMMA LoginResultGood ==
  ASSUME TypeOK, NEW t \in IoThread, NEW s \in Session, Good(s),
         LoginResult(t, s)
  PROVE  Good(s)'
<1> USE DEF registry, client, encoders, TypeOK
<1>1. At(t, "LoginResult", s) /\ Once(s) /\ Waiting(s, "LoginResult")
  BY AtWaits DEF LoginResult, Good, Fresh
<1>2. <<>> \in Seq(Call) /\ Then(t, <<>>) /\ \A o : ~In(<<>>, Calls(o, s))
  BY SessionStacks DEF LoginResult
<1>3. /\ \A o : Waiting(s, o)' => Waiting(s, o)
      /\ \A o : Waiting(s, o) /\ o # "LoginResult" => Waiting(s, o)'
      /\ Once(s)'
  BY <1>1, <1>2, Made
<1>4. Fresh(s)'
  BY <1>1, <1>3 DEF Good, Fresh, Unwritten, LoginResult
<1>5. Attended(s)'
  BY <1>3 DEF Good, Attended, LoginResult
<1>6. Kept(s)'
  BY <1>3 DEF Good, Kept, Leaving, LoginResult, Written
<1>7. QED
  BY <1>4, <1>5, <1>6 DEF Good

\* Stop closes the stream, whose completion leaves, or leaves at once.
LEMMA StopGood ==
  ASSUME TypeOK, NEW t \in IoThread, NEW s \in Session, Good(s), Stop(t, s)
  PROVE  Good(s)'
<1> USE DEF registry, client, encoders, TypeOK
<1>1. At(t, "Stop", s) /\ Once(s)
  BY DEF Stop, Good, Fresh
<1>2. CASE conn[s] = "open"
  <2>1. <<>> \in Seq(Call) /\ Then(t, <<>>) /\ \A o : ~In(<<>>, Calls(o, s))
    BY <1>2, SessionStacks DEF Stop
  <2>2. /\ \A o : Waiting(s, o)' => Waiting(s, o)
        /\ \A o : Waiting(s, o) /\ o # "Stop" => Waiting(s, o)'
        /\ Once(s)'
    BY <1>1, <2>1, Made
  <2>3. Fresh(s)'
    BY <2>2 DEF Good, Fresh, Unwritten, Stop
  <2>4. conn'[s] = "closing"
    BY <1>2 DEF Stop
  <2>5. QED
    BY <2>3, <2>4 DEF Good, Attended, Kept, Leaving
<1>3. CASE conn[s] # "open"
  <2> DEFINE q == <<Calls("Leave", s)>>
  <2>1. /\ q \in Seq(Call) /\ Then(t, q)
        /\ \A o : In(q, Calls(o, s)) <=> o = "Leave"
    BY <1>3, SessionStacks DEF Stop
  <2> HIDE DEF q
  <2>2. /\ \A o : Waiting(s, o)' => Waiting(s, o) \/ o = "Leave"
        /\ Waiting(s, "Leave")' /\ Once(s)'
    BY <1>1, <2>1, Made
  <2>3. Fresh(s)'
    BY <2>2 DEF Good, Fresh, Unwritten, Stop
  <2>4. QED
    BY <1>3, <2>2, <2>3 DEF Good, Attended, Kept, Leaving, Stop
<1>4. QED
  BY <1>2, <1>3

\* After Leave the session is in neither set.
LEMMA LeaveGood ==
  ASSUME TypeOK, NEW t \in IoThread, NEW s \in Session, Good(s), Leave(t, s)
  PROVE  Good(s)'
<1> USE DEF registry, client, encoders, TypeOK
<1>1. At(t, "Leave", s) /\ Once(s)
  BY DEF Leave, Good, Fresh
<1>2. PICK calls \in {<<>>, EncoderStopCalls} : Then(t, calls)
  BY DEF Leave
<1>3. calls \in Seq(Call) /\ \A o : ~In(calls, Calls(o, s))
  BY SessionStacks
<1>4. /\ \A o : Waiting(s, o)' => Waiting(s, o)
      /\ \A o : Waiting(s, o) /\ o # "Leave" => Waiting(s, o)'
      /\ Once(s)'
  BY <1>1, <1>2, <1>3, Made
<1>5. s \notin sessions' \cup authorized_sessions'
  BY DEF Leave
<1>6. Fresh(s)'
  BY <1>4, <1>5 DEF Good, Fresh, Unwritten, Leave
<1>7. Attended(s)'
  BY <1>4 DEF Good, Attended, Leave
<1>8. QED
  BY <1>5, <1>6, <1>7 DEF Good, Kept

\* The stream closed by the service was attended as an open one.
LEMMA CloseGood ==
  ASSUME TypeOK, NEW t \in IoThread, NEW s \in Session, Good(s), Close(t, s)
  PROVE  Good(s)'
<1> USE DEF registry, client, encoders, TypeOK
<1>1. At(t, "Close", s) /\ Once(s)
  BY DEF Close, Good, Fresh
<1>2. <<>> \in Seq(Call) /\ Then(t, <<>>) /\ \A o : ~In(<<>>, Calls(o, s))
  BY SessionStacks DEF Close
<1>3. /\ \A o : Waiting(s, o)' => Waiting(s, o)
      /\ \A o : Waiting(s, o) /\ o # "Close" => Waiting(s, o)'
      /\ Once(s)'
  BY <1>1, <1>2, Made
<1>4. Fresh(s)'
  BY <1>3 DEF Good, Fresh, Unwritten, Close
<1>5. Attended(s)' /\ Kept(s)'
  BY <1>3 DEF Good, Attended, Kept, Leaving, Close
<1>6. QED
  BY <1>4, <1>5 DEF Good
-----------------------------------------------------------------------------
(* The invariant. *)

\* No session is in the registry at first, and no call waits.
LEMMA GoodInit == Init => \A r \in Session : Good(r)
<1> SUFFICES ASSUME Init, NEW r \in Session
             PROVE  Good(r)
  OBVIOUS
<1>1. \A t \in IoThread : \A c : ~In(todo[t], c)
  BY DEF Init, In
<1>2. (\A o : ~Waiting(r, o)) /\ Once(r)
  BY <1>1 DEF Waiting, Once
<1>3. QED
  BY <1>2 DEF Good, Fresh, Unwritten, Attended, Kept, Init

\* Every step of the system, for every session.
LEMMA GoodStep ==
  ASSUME TypeOK, [Next]_vars, NEW r \in Session, Good(r)
  PROVE  Good(r)'
<1>1. ASSUME NEW t \in IoThread, NEW s \in Session,
             \/ OnAccept(t, s) \/ OnHandshake(t, s) \/ OnHandshakeFail(t, s)
             \/ OnReadLogin(t, s) \/ OnReadBad(t, s) \/ OnReadFail(t, s)
             \/ OnLoginFailed(t, s) \/ OnLoginOk(t, s) \/ OnKeepAliveFailed(t, s)
             \/ OnWriteOk(t, s) \/ OnWriteFail(t, s) \/ OnStop(t, s)
      PROVE  Good(r)'
  BY <1>1, QuietHandlerGood, StoppingHandlerGood, LoginOkGood
<1>2. ASSUME NEW t \in IoThread, NEW s \in Session,
             \/ Join(t, s) \/ AddAuthorized(t, s) \/ LoginResult(t, s)
             \/ Stop(t, s) \/ Leave(t, s) \/ Close(t, s)
      PROVE  Good(r)'
  <2>1. CASE r # s
    BY <1>2, <2>1, CallOnOther
  <2>2. CASE r = s
    BY <1>2, <2>2, JoinGood, AddAuthorizedGood, LoginResultGood, StopGood,
       LeaveGood, CloseGood
  <2>3. QED
    BY <2>1, <2>2
<1>3. ASSUME NEW t \in IoThread, Handler(t)
      PROVE  Good(r)'
  BY <1>1, <1>3, ServiceHandlerGood DEF Handler
<1>4. ASSUME NEW t \in IoThread, Step(t)
      PROVE  Good(r)'
  BY <1>2, <1>4, EncoderCallGood, ServiceCallGood DEF Step
<1>5. ASSUME NEW s \in Session, Disconnect(s)
      PROVE  Good(r)'
  BY <1>5, QuietHandlerGood
<1>6. CASE UNCHANGED vars
  BY <1>6, Still DEF vars, registry, client, encoders, Same
<1>7. ASSUME NEW t \in IoThread, MainEncoderStop(t)
      PROVE  Good(r)'
  BY <1>7, ServiceHandlerGood
<1>8. CASE \/ \E e \in Encoder : EncoderStep(e)
           \/ RestartNeeded \/ NotifyRestartVideoEncoder \/ MainReturn \/ Ended
  BY <1>8, EncoderGood
<1>9. QED
  BY <1>3, <1>4, <1>5, <1>6, <1>7, <1>8 DEF Next

\* What Pending says of one operation is what Waiting says.
LEMMA PendingWaiting ==
  ASSUME TypeOK, NEW s, NEW ops
  PROVE  Pending(s, ops) <=> \E op \in ops : Waiting(s, op)
<1>1. ASSUME NEW t \in IoThread
      PROVE  (\E i \in DOMAIN todo[t] : todo[t][i].op \in ops /\ todo[t][i].arg = s)
             <=> \E op \in ops : In(todo[t], Calls(op, s))
  <2>1. todo[t] \in Seq(Call)
    BY DEF TypeOK
  <2>2. /\ DOMAIN todo[t] = 1..Len(todo[t])
        /\ \A i \in 1..Len(todo[t]) : todo[t][i] \in Call
    BY <2>1
  <2>3. \A c \in Call : c = Calls(c.op, c.arg)
    BY DEF Call, Calls
  <2>4. \A op : Calls(op, s).op = op /\ Calls(op, s).arg = s
    BY DEF Calls
  <2>5. QED
    BY <2>2, <2>3, <2>4 DEF In
<1>2. QED
  BY <1>1, Zenon DEF Pending, Waiting

\* What is proved of every session: it is authorised at most once, with nothing
\* written before; its open stream is attended; it is not forgotten.
THEOREM GoodHolds == Spec => [](\A r \in Session : Good(r))
<1>1. TypeOK /\ (\A r \in Session : Good(r)) /\ [Next]_vars
      => (\A r \in Session : Good(r))'
  BY GoodStep
<1>2. QED
  BY <1>1, GoodInit, TypeCorrect, PTL DEF Spec

\* In every reachable state an open stream is being read, or a handler is about
\* to begin the read or to close it (OnAccept, OnRead and Stop of
\* game_session.cpp).
THEOREM OpenIsReadHolds == Spec => []OpenIsRead
<1>1. TypeOK /\ (\A r \in Session : Good(r)) => OpenIsRead
  <2> SUFFICES ASSUME TypeOK, NEW s \in Session, Good(s), conn[s] = "open",
                      ~reading[s]
               PROVE  Pending(s, {"Join", "Stop"})
    BY DEF OpenIsRead
  <2>1. Waiting(s, "Join") \/ Waiting(s, "Stop")
    BY DEF Good, Attended
  <2>2. QED
    BY <2>1, PendingWaiting
<1>2. QED
  BY <1>1, TypeCorrect, GoodHolds, PTL

\* In every reachable state a session that has lost its connection and is still
\* in sessions_ or authorized_sessions_ has something left that takes it out,
\* however its login, its reads, its writes and its Stop interleave.
THEOREM NoOrphanHolds == Spec => []NoOrphan
<1>1. TypeOK /\ (\A r \in Session : Good(r)) => NoOrphan
  <2> SUFFICES ASSUME TypeOK, \A r \in Session : Good(r),
                      NEW s \in sessions \cup authorized_sessions,
                      conn[s] # "open"
               PROVE  \/ reading[s]
                      \/ conn[s] = "closing"
                      \/ writing[s] = "doomed"
                      \/ Pending(s, {"Join", "Stop", "Leave"})
                      \/ writing[s] = "idle" /\ Pending(s, {"LoginResult"})
    BY DEF NoOrphan
  <2>1. s \in Session
    BY DEF TypeOK
  <2>2. Leaving(s)
    BY <2>1 DEF Good, Kept
  <2>3. Pending(s, {"Join", "Stop", "Leave"})
        <=> Waiting(s, "Join") \/ Waiting(s, "Stop") \/ Waiting(s, "Leave")
    BY PendingWaiting
  <2>4. Pending(s, {"LoginResult"}) <=> Waiting(s, "LoginResult")
    BY PendingWaiting
  <2>5. QED
    BY <2>2, <2>3, <2>4 DEF Leaving
<1>2. QED
  BY <1>1, TypeCorrect, GoodHolds, PTL
=============================================================================
