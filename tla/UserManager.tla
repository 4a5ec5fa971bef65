---------------------------- MODULE UserManager ----------------------------
(***************************************************************************)
(* The client of the user service that a session logs in through           *)
(* (cge/cge/user_manager.cpp).  Requests wait in request_queue_; the first *)
(* one is sent over a fresh HTTP connection, and its response, a timer or  *)
(* an error decides what is done next.  All handlers run on the threads of *)
(* the io_context without a strand; todo[t] holds the calls thread t still *)
(* has to make, as in GameService.                                         *)
(*                                                                         *)
(* Close() only makes an operation on the stream fail, and every operation *)
(* of the model may fail: it has no step of its own.                       *)
(***************************************************************************)
EXTENDS Naturals, Sequences, FiniteSets, Functions

CONSTANTS
  IoThread,        \* threads inside Engine::Loop
  kMaxRetryTimes,  \* user_manager.cpp:26
  MaxStops,        \* bound: calls of Logout by GameSession::Stop
  MaxKeepAlives,   \* bound: firings of keep_alive_timer_
  MaxWriteErrors   \* bound: requests that fail while they are written

ASSUME RetryAssumption == kMaxRetryTimes \in Nat
ASSUME BoundAssumption ==
  MaxStops \in Nat /\ MaxKeepAlives \in Nat /\ MaxWriteErrors \in Nat

VARIABLES
  user_state,       \* UserManager::user_state_
  request_queue,    \* the methods in request_queue_
  retry_times,      \* retry_times_
  async,            \* the outstanding operations on stream_, by kind
  retry_timer,      \* retry_timer_ is being waited for
  keep_alive_timer, \* keep_alive_timer_ is being waited for
  todo,             \* the calls each io thread still has to make
  session,          \* the GameSession: not yet logging in, alive, expired
  reports,          \* history: what was reported to the session
  stops, keepalives, write_errors  \* uses of the bounds

exchange == <<request_queue, async, retry_timer, retry_times>>
bounds == <<stops, keepalives, write_errors>>
vars == <<user_state, exchange, keep_alive_timer, todo, session, reports,
          bounds>>
-----------------------------------------------------------------------------
Method == {"login", "keepalive", "logout"}
UserState == {"None", "LoggingIn", "LoggedIn", "LoggingOut"}
Ops == {"InvokeConnection", "InvokeNextConnection", "LoggedIn", "Logout",
        "NotifyLoginResult", "NotifyKeepAliveResult"}
Result == {"ok", "failed"}
Call == [op : Ops, arg : Method \cup Result \cup {"nothing"}]
Calls(op, arg) == [op |-> op, arg |-> arg]
\* A call without an argument.
Go(op) == Calls(op, "nothing")

\* async_connect, http::async_write, and http::async_read with the handler of
\* each method.
AsyncOp == {"connect", "write"} \cup Method
Report == {"loginOk", "loginFailed", "keepAliveFailed"}

TypeOK ==
  /\ user_state \in UserState
  /\ request_queue \in Seq(Method)
  /\ retry_times \in Nat
  /\ async \in [AsyncOp -> Nat]
  /\ retry_timer \in BOOLEAN
  /\ keep_alive_timer \in BOOLEAN
  /\ todo \in [IoThread -> Seq(Call)]
  /\ session \in {"new", "alive", "expired"}
  /\ reports \in Seq(Report)
  /\ stops \in 0..MaxStops
  /\ keepalives \in 0..MaxKeepAlives
  /\ write_errors \in 0..MaxWriteErrors

Init ==
  /\ user_state = "None"
  /\ request_queue = <<>>
  /\ retry_times = 0
  /\ async = [o \in AsyncOp |-> 0]
  /\ retry_timer = FALSE
  /\ keep_alive_timer = FALSE
  /\ todo = [t \in IoThread |-> <<>>]
  /\ session = "new"
  /\ reports = <<>>
  /\ stops = 0 /\ keepalives = 0 /\ write_errors = 0
-----------------------------------------------------------------------------
Ready(t) == todo[t] = <<>>
At(t, op) == todo[t] # <<>> /\ Head(todo[t]).op = op
Then(t, calls) == todo' = [todo EXCEPT ![t] = calls \o Tail(todo[t])]
Start(t, calls) == todo' = [todo EXCEPT ![t] = calls]

\* A shared_ptr to the UserManager exists: the session's, or one bound to an
\* outstanding operation.  The timers hold none, and the destructor cancels them.
Exists ==
  \/ session = "alive"
  \/ \E o \in AsyncOp : async[o] > 0
  \/ \E t \in IoThread : todo[t] # <<>>

Begin(o) == async' = [async EXCEPT ![o] = @ + 1]
\* Operation o completes and begins operation p.
Follow(o, p) == async' = [async EXCEPT ![o] = @ - 1, ![p] = @ + 1]
Complete(o) == async[o] > 0 /\ async' = [async EXCEPT ![o] = @ - 1]

\* UserManager::Login, from ServeClientLogin.
Login(t) ==
  /\ Ready(t) /\ session = "new"
  /\ session' = "alive"
  /\ Start(t, <<Calls("InvokeConnection", "login")>>)
  /\ UNCHANGED <<user_state, exchange, keep_alive_timer, reports, bounds>>

\* GameSession::Stop, for a reason of the session's own, calls Logout.
SessionStop(t) ==
  /\ Ready(t) /\ session = "alive" /\ stops < MaxStops
  /\ stops' = stops + 1
  /\ Start(t, <<Go("Logout")>>)
  /\ UNCHANGED <<user_state, exchange, keep_alive_timer, session, reports,
                 keepalives, write_errors>>

\* The last reference to the session goes: game_session_ expires.
SessionExpires ==
  /\ session = "alive" /\ session' = "expired"
  /\ UNCHANGED <<user_state, exchange, keep_alive_timer, todo, reports, bounds>>

\* The test of user_state_ in Logout, without a lock.
Logout(t) ==
  /\ At(t, "Logout")
  /\ Then(t, IF user_state = "None" THEN <<>>
             ELSE <<Calls("InvokeConnection", "logout")>>)
  /\ UNCHANGED <<user_state, exchange, keep_alive_timer, session, reports,
                 bounds>>

\* keep_alive_timer_ expires: KeepAlive tests user_state_.
KeepAlive(t) ==
  /\ Ready(t) /\ keep_alive_timer /\ Exists /\ keepalives < MaxKeepAlives
  /\ keepalives' = keepalives + 1
  /\ keep_alive_timer' = FALSE
  /\ Start(t, IF user_state \in {"None", "LoggingIn"} THEN <<>>
              ELSE <<Calls("InvokeConnection", "keepalive")>>)
  /\ UNCHANGED <<user_state, exchange, session, reports, stops, write_errors>>

\* Mutants of InvokeConnection: it connects although an exchange is under way;
\* it puts a request in front of those that wait.
InvokeConnectionAlways(t) ==
  /\ At(t, "InvokeConnection")
  /\ request_queue' = Append(request_queue, Head(todo[t]).arg)
  /\ Begin("connect")
  /\ Then(t, <<>>)
  /\ UNCHANGED <<user_state, retry_timer, retry_times, keep_alive_timer,
                 session, reports, bounds>>
InvokeConnectionFirst(t) ==
  /\ At(t, "InvokeConnection")
  /\ request_queue' = <<Head(todo[t]).arg>> \o request_queue
  /\ IF request_queue = <<>> THEN Begin("connect") ELSE UNCHANGED async
  /\ Then(t, <<>>)
  /\ UNCHANGED <<user_state, retry_timer, retry_times, keep_alive_timer,
                 session, reports, bounds>>

\* The request is queued; on an empty queue it is also connected for.
InvokeConnection(t) ==
  /\ At(t, "InvokeConnection")
  /\ request_queue' = Append(request_queue, Head(todo[t]).arg)
  /\ IF request_queue = <<>> THEN Begin("connect") ELSE UNCHANGED async
  /\ Then(t, <<>>)
  /\ UNCHANGED <<user_state, retry_timer, retry_times, keep_alive_timer,
                 session, reports, bounds>>

InvokeNextConnection(t) ==
  /\ At(t, "InvokeNextConnection")
  /\ IF request_queue # <<>> THEN Begin("connect") ELSE UNCHANGED async
  /\ Then(t, <<>>)
  /\ UNCHANGED <<user_state, request_queue, retry_timer, retry_times,
                 keep_alive_timer, session, reports, bounds>>

\* retry_timer_ expires.
RetryTimer(t) ==
  /\ Ready(t) /\ retry_timer /\ Exists
  /\ retry_timer' = FALSE
  /\ Start(t, <<Go("InvokeNextConnection")>>)
  /\ UNCHANGED <<user_state, request_queue, async, retry_times,
                 keep_alive_timer, session, reports, bounds>>
-----------------------------------------------------------------------------
\* The completion handlers.  OnConnect and OnRequest assert that the queue is
\* not empty; the front of an empty one would be undefined.

OnConnectOk(t) ==
  /\ Ready(t) /\ async["connect"] > 0
  /\ Follow("connect", "write")
  /\ UNCHANGED <<user_state, request_queue, retry_timer, retry_times,
                 keep_alive_timer, todo, session, reports, bounds>>

\* Mutant of OnConnectFail: the last failure is not reported.
OnConnectFailSilent(t) ==
  /\ Ready(t) /\ Complete("connect")
  /\ retry_times' = retry_times + 1
  /\ retry_timer' = (retry_times' <= kMaxRetryTimes)
  /\ UNCHANGED <<user_state, todo, request_queue, keep_alive_timer, session,
                 reports, bounds>>

\* A failed connection is tried again after kRetryInterval, kMaxRetryTimes
\* times; then the front request is given up, but not taken off the queue.
OnConnectFail(t) ==
  /\ Ready(t) /\ Complete("connect")
  /\ retry_times' = retry_times + 1
  /\ IF retry_times' <= kMaxRetryTimes
     THEN retry_timer' = TRUE /\ UNCHANGED <<user_state, todo>>
     ELSE /\ CASE Head(request_queue) = "login" ->
                    /\ user_state' = "None"
                    /\ Start(t, <<Calls("NotifyLoginResult", "failed")>>)
               [] Head(request_queue) = "keepalive" ->
                    /\ Start(t, <<Calls("NotifyKeepAliveResult", "failed")>>)
                    /\ UNCHANGED user_state
               [] OTHER -> UNCHANGED <<user_state, todo>>
          /\ UNCHANGED retry_timer
  /\ UNCHANGED <<request_queue, keep_alive_timer, session, reports, bounds>>

\* Mutant of OnRequestOk: user_state_ is given the method.
OnRequestOkMethod(t) ==
  /\ Ready(t) /\ async["write"] > 0
  /\ Follow("write", Head(request_queue))
  /\ user_state' = Head(request_queue)
  /\ UNCHANGED <<request_queue, retry_timer, retry_times, keep_alive_timer,
                 todo, session, reports, bounds>>

\* The request is written: its response is read.
OnRequestOk(t) ==
  /\ Ready(t) /\ async["write"] > 0
  /\ Follow("write", Head(request_queue))
  /\ user_state' = CASE Head(request_queue) = "login" -> "LoggingIn"
                     [] Head(request_queue) = "logout" -> "LoggingOut"
                     [] OTHER -> user_state
  /\ UNCHANGED <<request_queue, retry_timer, retry_times, keep_alive_timer,
                 todo, session, reports, bounds>>

\* Mutant of OnRequestFail: a failure is reported whatever the method.
OnRequestFailReported(t) ==
  /\ Ready(t) /\ Complete("write")
  /\ write_errors < MaxWriteErrors /\ write_errors' = write_errors + 1
  /\ Start(t, <<Calls("NotifyLoginResult", "failed"),
                Go("InvokeNextConnection")>>)
  /\ UNCHANGED <<user_state, request_queue, retry_timer, retry_times,
                 keep_alive_timer, session, reports, stops, keepalives>>

\* The request is sent again at once, and a login reported to have failed.
OnRequestFail(t) ==
  /\ Ready(t) /\ Complete("write")
  /\ write_errors < MaxWriteErrors /\ write_errors' = write_errors + 1
  /\ Start(t, IF Head(request_queue) = "login"
              THEN <<Calls("NotifyLoginResult", "failed"),
                     Go("InvokeNextConnection")>>
              ELSE <<Go("InvokeNextConnection")>>)
  /\ UNCHANGED <<user_state, request_queue, retry_timer, retry_times,
                 keep_alive_timer, session, reports, stops, keepalives>>

\* Any response, or none, ends the login; whether it names a session decides.
\* The queue is not looked at again: what waits behind the login stays there.
OnLoginResponse(t) ==
  /\ Ready(t) /\ Complete("login")
  /\ retry_times' = 0
  /\ request_queue' = Tail(request_queue)
  /\ \E authorized \in BOOLEAN :
       Start(t, IF authorized
                THEN <<Go("LoggedIn"), Calls("NotifyLoginResult", "ok")>>
                ELSE <<Calls("NotifyLoginResult", "failed")>>)
  /\ UNCHANGED <<user_state, retry_timer, keep_alive_timer, session, reports,
                 bounds>>

\* InvokeNextKeepAlive, when the service gave an interval.
InvokeNextKeepAlive == keep_alive_timer' \in {keep_alive_timer, TRUE}

\* The rest of OnLoginResponse before it reports.
LoggedIn(t) ==
  /\ At(t, "LoggedIn")
  /\ user_state' = "LoggedIn"
  /\ InvokeNextKeepAlive
  /\ Then(t, <<>>)
  /\ UNCHANGED <<exchange, session, reports, bounds>>

\* No usable response: the request stays in front and is sent again later,
\* kMaxRetryTimes times.  Then nothing is done, and nothing reported.
OnKeepAliveResponseFail(t) ==
  /\ Ready(t) /\ Complete("keepalive")
  /\ retry_times' = retry_times + 1
  /\ IF retry_times' <= kMaxRetryTimes THEN retry_timer' = TRUE
     ELSE UNCHANGED retry_timer
  /\ UNCHANGED <<user_state, request_queue, keep_alive_timer, todo, session,
                 reports, bounds>>

\* A response that names the session, or another.
OnKeepAliveResponse(t) ==
  /\ Ready(t) /\ Complete("keepalive")
  /\ retry_times' = 0
  /\ request_queue' = Tail(request_queue)
  /\ \E kept_alive \in BOOLEAN :
       IF kept_alive
       THEN InvokeNextKeepAlive /\ UNCHANGED todo
       ELSE /\ Start(t, <<Calls("NotifyKeepAliveResult", "failed")>>)
            /\ UNCHANGED keep_alive_timer
  /\ UNCHANGED <<user_state, retry_timer, session, reports, bounds>>

OnLogoutResponse(t) ==
  /\ Ready(t) /\ Complete("logout")
  /\ retry_times' = 0
  /\ user_state' = "None"
  /\ request_queue' = Tail(request_queue)
  /\ UNCHANGED <<retry_timer, keep_alive_timer, todo, session, reports, bounds>>
-----------------------------------------------------------------------------
\* The reports run inline on the io thread; a failure stops the session, which
\* calls Logout.

NotifyLoginResult(t) ==
  /\ At(t, "NotifyLoginResult")
  /\ IF session = "alive"
     THEN \/ /\ Head(todo[t]).arg = "ok"
             /\ reports' = Append(reports, "loginOk")
             /\ Then(t, <<>>)
          \/ /\ Head(todo[t]).arg = "failed"
             /\ reports' = Append(reports, "loginFailed")
             /\ Then(t, <<Go("Logout")>>)
     ELSE UNCHANGED reports /\ Then(t, <<>>)
  /\ UNCHANGED <<user_state, exchange, keep_alive_timer, session, bounds>>

NotifyKeepAliveResult(t) ==
  /\ At(t, "NotifyKeepAliveResult")
  /\ IF session = "alive"
     THEN /\ reports' = Append(reports, "keepAliveFailed")
          /\ Then(t, <<Go("Logout")>>)
     ELSE UNCHANGED reports /\ Then(t, <<>>)
  /\ UNCHANGED <<user_state, exchange, keep_alive_timer, session, bounds>>
-----------------------------------------------------------------------------
\* An operation on the stream or a retry timer completes.
Completion(t) ==
  \/ OnConnectOk(t) \/ OnConnectFail(t) \/ OnRequestOk(t) \/ OnRequestFail(t)
  \/ OnLoginResponse(t) \/ OnKeepAliveResponseFail(t) \/ OnKeepAliveResponse(t)
  \/ OnLogoutResponse(t) \/ RetryTimer(t)

\* The call at the head of thread t's stack.
Step(t) ==
  \/ InvokeConnection(t) \/ InvokeNextConnection(t) \/ LoggedIn(t) \/ Logout(t)
  \/ NotifyLoginResult(t) \/ NotifyKeepAliveResult(t)

Next ==
  \/ \E t \in IoThread :
       Completion(t) \/ Step(t) \/ Login(t) \/ SessionStop(t) \/ KeepAlive(t)
  \/ SessionExpires

Spec == Init /\ [][Next]_vars

\* The io threads make the calls they have to make, and an operation begun on
\* the stream completes: the user service answers or the connection breaks.
\* The code sets no timeout on the stream, so this is all it can rely on.
Fairness ==
  /\ \A t \in IoThread : WF_vars(Step(t))
  /\ SF_vars(\E t \in IoThread : Completion(t))
FairSpec == Spec /\ Fairness
-----------------------------------------------------------------------------
(* Properties *)

\* What will carry on with the request in front: outstanding operations, the
\* retry timer, and calls of InvokeNextConnection some thread has yet to make.
Exchanges ==
  (UNION {{o} \X (1..async[o]) : o \in AsyncOp})
    \cup {<<"retry_timer", i>> : i \in {j \in {1} : retry_timer}}
    \cup (UNION {{t} \X {i \in DOMAIN todo[t] :
                          todo[t][i].op = "InvokeNextConnection"} :
                 t \in IoThread})

\* There is one stream_ and one request_: however Login, KeepAlive and Logout
\* arrive, from whatever thread, one exchange is under way at a time, and the
\* request it serves is in the queue (the assertions of OnConnect and
\* OnRequest, and the unchecked front() and pop() of the other handlers).
SingleExchange ==
  /\ \A x, y \in Exchanges : x = y
  /\ Exchanges # {} => request_queue # <<>>

\* The response being waited for answers the request in front, which its
\* handler removes without looking at it.
AnswersFront ==
  \A m \in Method : async[m] > 0 => Head(request_queue) = m

\* The failures counted since the last response never exceed the limit by
\* more than the one that gives up, although nothing resets the count then.
RetryBound == retry_times <= kMaxRetryTimes + 1

\* What GameService assumes of a login: no report before it began, failures
\* first, one success at most, one failed keep-alive at most and last.
LoginSoFar ==
  CASE session = "new" -> "none"
    [] "keepAliveFailed" \in Range(reports) -> "over"
    [] "loginOk" \in Range(reports) /\ "keepAliveFailed" \notin Range(reports)
         -> "loggedin"
    [] OTHER -> "inflight"
Contract == INSTANCE LoginReports WITH login <- LoginSoFar
ReportsInOrder == Contract!Spec

\* Until the session is told anything its login is under way: a thread is about
\* to queue it or to report on it, or an exchange has it in front.
LoginIsUnderWay ==
  session = "alive" /\ reports = <<>> =>
    \/ \E t \in IoThread : \E i \in DOMAIN todo[t] :
         \/ todo[t][i].op = "NotifyLoginResult"
         \/ todo[t][i] = Calls("InvokeConnection", "login")
    \/ Exchanges # {} /\ Head(request_queue) = "login"

\* A login is answered, if only by a failure, unless the session goes first.
LoginAnswered == session = "alive" ~> session = "expired" \/ reports # <<>>
=============================================================================
