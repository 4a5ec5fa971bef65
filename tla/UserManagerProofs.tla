------------------------- MODULE UserManagerProofs -------------------------
(* Proofs about UserManager, for every number of io threads and of retries,  *)
(* and every number of calls from outside.                                   *)
EXTENDS UserManager, SequenceTheorems, TLAPS

\* The calls a thread may have to make: InvokeNextConnection comes last, and a
\* request is one of the methods.
Tidy(q) ==
  /\ q \in Seq(Call)
  /\ \A i \in 1..Len(q) :
       /\ q[i].op = "InvokeNextConnection" => i = Len(q)
       /\ q[i].op = "InvokeConnection" => q[i].arg \in Method
Pends(q) == \E i \in 1..Len(q) : q[i].op = "InvokeNextConnection"

\* The exchange that is under way: an operation, the retry timer or a pending
\* InvokeNextConnection, and only one of them.
Single ==
  /\ \A o \in AsyncOp : async[o] \in {0, 1}
  /\ \A o, p \in AsyncOp : async[o] = 1 /\ async[p] = 1 => o = p
  /\ retry_timer => \A o \in AsyncOp : async[o] = 0
  /\ \A t \in IoThread : Pends(todo[t]) =>
       /\ ~retry_timer /\ \A o \in AsyncOp : async[o] = 0
       /\ \A u \in IoThread : Pends(todo[u]) => u = t
Active ==
  \/ \E o \in AsyncOp : async[o] = 1
  \/ retry_timer
  \/ \E t \in IoThread : Pends(todo[t])

\* It has its request in front of the queue, and retries left; and so has the
\* next one when the queue is empty.
Queued == Active => request_queue # <<>>
Counted ==
  /\ retry_times \in Nat /\ retry_times <= kMaxRetryTimes + 1
  /\ Active \/ request_queue = <<>> => retry_times <= kMaxRetryTimes

QueueOK == request_queue \in Seq(Method)
TodoOK ==
  todo \in [IoThread -> Seq(Call)] /\ \A t \in IoThread : Tidy(todo[t])
AsyncOK == async \in [AsyncOp -> Nat]
IInv == QueueOK /\ TodoOK /\ AsyncOK /\ Single /\ Queued /\ AnswersFront /\ Counted
-----------------------------------------------------------------------------
(* Calls. *)

LEMMA TidyEmpty == Tidy(<<>>) /\ ~Pends(<<>>)
BY DEF Tidy, Pends

LEMMA TidyTail ==
  ASSUME NEW q, Tidy(q), q # <<>>
  PROVE  /\ Tidy(Tail(q)) /\ Head(q) \in Call
         /\ Head(q).op = "InvokeNextConnection" => Tail(q) = <<>>
         /\ Head(q).op # "InvokeNextConnection" => (Pends(Tail(q)) <=> Pends(q))
         /\ Head(q).op = "InvokeConnection" => Head(q).arg \in Method
<1>1. /\ q \in Seq(Call) /\ Len(q) \in Nat \ {0} /\ Tail(q) \in Seq(Call)
      /\ Len(Tail(q)) = Len(q) - 1 /\ Head(q) = q[1] /\ q[1] \in Call
      /\ \A i \in 1..Len(Tail(q)) : Tail(q)[i] = q[i + 1]
  BY DEF Tidy
<1>2. /\ q[1].op = "InvokeNextConnection" => 1 = Len(q)
      /\ q[1].op = "InvokeConnection" => q[1].arg \in Method
  <2>1. 1 \in 1..Len(q)
    BY <1>1
  <2>2. QED
    BY <2>1 DEF Tidy
<1>3. Tidy(Tail(q))
  <2>1. ASSUME NEW i \in 1..Len(Tail(q))
        PROVE  /\ Tail(q)[i].op = "InvokeNextConnection" => i = Len(Tail(q))
               /\ Tail(q)[i].op = "InvokeConnection" => Tail(q)[i].arg \in Method
    <3>1. i + 1 \in 1..Len(q) /\ Tail(q)[i] = q[i + 1]
      BY <1>1
    <3>2. /\ q[i + 1].op = "InvokeNextConnection" => i + 1 = Len(q)
          /\ q[i + 1].op = "InvokeConnection" => q[i + 1].arg \in Method
      BY <3>1 DEF Tidy
    <3>3. i + 1 = Len(q) => i = Len(Tail(q))
      <4>1. Len(q) \in Int /\ Len(Tail(q)) \in Int /\ i \in Int
        BY <1>1
      <4>2. \A n, m, j \in Int : m = n - 1 /\ j + 1 = n => j = m
        OBVIOUS
      <4>3. QED
        BY <1>1, <4>1, <4>2, Zenon
    <3>4. QED
      BY <3>1, <3>2, <3>3, Zenon
  <2>2. QED
    BY <1>1, <2>1 DEF Tidy
<1>4. ASSUME q[1].op = "InvokeNextConnection"
      PROVE  Tail(q) = <<>>
  <2>1. Len(q) = 1
    BY <1>1, <1>4, <1>2
  <2>2. Len(Tail(q)) = 0
    BY <1>1, <2>1
  <2>3. QED
    BY <1>1, <2>2, EmptySeq
<1>5. ASSUME q[1].op # "InvokeNextConnection"
      PROVE  Pends(Tail(q)) <=> Pends(q)
  <2>1. ASSUME NEW i \in 1..Len(q), q[i].op = "InvokeNextConnection"
        PROVE  Pends(Tail(q))
    <3>1. i # 1
      BY <1>5, <2>1
    <3>2. i - 1 \in 1..Len(Tail(q)) /\ (i - 1) + 1 = i
      BY <1>1, <3>1
    <3>3. Tail(q)[i - 1] = q[i]
      BY <1>1, <3>2
    <3>4. QED
      BY <2>1, <3>2, <3>3 DEF Pends
  <2>2. ASSUME NEW i \in 1..Len(Tail(q)), Tail(q)[i].op = "InvokeNextConnection"
        PROVE  Pends(q)
    <3>1. i + 1 \in 1..Len(q) /\ q[i + 1].op = "InvokeNextConnection"
      BY <1>1, <2>2
    <3>2. QED
      BY <3>1 DEF Pends
  <2>3. QED
    BY <2>1, <2>2 DEF Pends
<1>6. QED
  BY <1>1, <1>3, <1>4, <1>5, <1>2

LEMMA TidyPush ==
  ASSUME NEW q, Tidy(q), NEW c \in Call, c.op # "InvokeNextConnection",
         c.op = "InvokeConnection" => c.arg \in Method
  PROVE  Tidy(<<c>> \o q) /\ (Pends(<<c>> \o q) <=> Pends(q))
<1> DEFINE r == <<c>> \o q
<1>1. /\ q \in Seq(Call) /\ Len(q) \in Nat /\ r \in Seq(Call)
      /\ Len(r) = Len(q) + 1 /\ r[1] = c
      /\ \A i \in 2..Len(r) : r[i] = q[i - 1] /\ i - 1 \in 1..Len(q)
  BY DEF Tidy
<1>2. ASSUME NEW i \in 1..Len(r)
      PROVE  /\ r[i].op = "InvokeNextConnection" => i = Len(r)
             /\ r[i].op = "InvokeConnection" => r[i].arg \in Method
  <2>1. CASE i = 1
    BY <1>1, <2>1
  <2>2. CASE i # 1
    <3>1. r[i] = q[i - 1] /\ i - 1 \in 1..Len(q)
      BY <1>1, <2>2
    <3>2. q[i - 1].op = "InvokeNextConnection" => i - 1 = Len(q)
      BY <3>1 DEF Tidy
    <3>3. q[i - 1].op = "InvokeConnection" => q[i - 1].arg \in Method
      BY <3>1 DEF Tidy
    <3>4. QED
      BY <1>1, <3>1, <3>2, <3>3
  <2>3. QED
    BY <2>1, <2>2
<1>3. Tidy(r)
  BY <1>1, <1>2 DEF Tidy
<1>4. Pends(r) => Pends(q)
  <2>1. ASSUME NEW i \in 1..Len(r), r[i].op = "InvokeNextConnection"
        PROVE  Pends(q)
    <3>1. i # 1
      BY <1>1, <2>1
    <3>2. r[i] = q[i - 1] /\ i - 1 \in 1..Len(q)
      BY <1>1, <3>1
    <3>3. QED
      BY <2>1, <3>2 DEF Pends
  <2>2. QED
    BY <2>1 DEF Pends
<1>5. Pends(q) => Pends(r)
  <2>1. ASSUME NEW i \in 1..Len(q), q[i].op = "InvokeNextConnection"
        PROVE  Pends(r)
    <3>1. i + 1 \in 2..Len(r) /\ (i + 1) - 1 = i
      BY <1>1
    <3>2. r[i + 1] = q[i]
      BY <1>1, <3>1
    <3>3. i + 1 \in 1..Len(r)
      BY <3>1
    <3>4. QED
      BY <2>1, <3>2, <3>3 DEF Pends
  <2>2. QED
    BY <2>1 DEF Pends
<1>6. QED
  BY <1>3, <1>4, <1>5

LEMMA TidyOne ==
  ASSUME NEW c \in Call, c.op = "InvokeConnection" => c.arg \in Method
  PROVE  Tidy(<<c>>) /\ (Pends(<<c>>) <=> c.op = "InvokeNextConnection")
<1>1. <<c>> \in Seq(Call) /\ Len(<<c>>) = 1 /\ <<c>>[1] = c
  OBVIOUS
<1>2. Tidy(<<c>>)
  BY <1>1 DEF Tidy
<1>3. Pends(<<c>>) <=> c.op = "InvokeNextConnection"
  BY <1>1 DEF Pends
<1>4. QED
  BY <1>2, <1>3

LEMMA CallTypes ==
  /\ \A m \in Method : /\ Calls("InvokeConnection", m) \in Call
                       /\ Calls("InvokeConnection", m).op = "InvokeConnection"
                       /\ Calls("InvokeConnection", m).arg = m
  /\ \A r \in Result : /\ Calls("NotifyLoginResult", r) \in Call
                       /\ Calls("NotifyLoginResult", r).op = "NotifyLoginResult"
                       /\ Calls("NotifyKeepAliveResult", r) \in Call
                       /\ Calls("NotifyKeepAliveResult", r).op =
                            "NotifyKeepAliveResult"
  /\ \A o \in Ops : Go(o) \in Call /\ Go(o).op = o
BY DEF Calls, Go, Call, Ops, Method, Result

\* What a thread may be given to do at once, and whether that carries on with
\* the queue.
LEMMA TidyStarts ==
  /\ \A m \in Method : /\ Tidy(<<Calls("InvokeConnection", m)>>)
                       /\ ~Pends(<<Calls("InvokeConnection", m)>>)
  /\ \A r \in Result : /\ Tidy(<<Calls("NotifyLoginResult", r)>>)
                       /\ ~Pends(<<Calls("NotifyLoginResult", r)>>)
                       /\ Tidy(<<Calls("NotifyKeepAliveResult", r)>>)
                       /\ ~Pends(<<Calls("NotifyKeepAliveResult", r)>>)
  /\ Tidy(<<Go("Logout")>>) /\ ~Pends(<<Go("Logout")>>)
  /\ Tidy(<<Go("InvokeNextConnection")>>)
  /\ Pends(<<Go("InvokeNextConnection")>>)
<1>1. ASSUME NEW m \in Method
      PROVE  /\ Tidy(<<Calls("InvokeConnection", m)>>)
             /\ ~Pends(<<Calls("InvokeConnection", m)>>)
  BY CallTypes, TidyOne
<1>2. ASSUME NEW r \in Result
      PROVE  /\ Tidy(<<Calls("NotifyLoginResult", r)>>)
             /\ ~Pends(<<Calls("NotifyLoginResult", r)>>)
             /\ Tidy(<<Calls("NotifyKeepAliveResult", r)>>)
             /\ ~Pends(<<Calls("NotifyKeepAliveResult", r)>>)
  BY CallTypes, TidyOne
<1>3. ASSUME NEW o \in Ops, o # "InvokeConnection"
      PROVE  /\ Tidy(<<Go(o)>>)
             /\ Pends(<<Go(o)>>) <=> o = "InvokeNextConnection"
  BY <1>3, CallTypes, TidyOne
<1>4. "Logout" \in Ops /\ "InvokeNextConnection" \in Ops
  BY DEF Ops
<1>5. QED
  BY <1>1, <1>2, <1>3, <1>4

LEMMA TidyPairs ==
  ASSUME NEW c \in Call, NEW d \in Call,
         c.op \notin {"InvokeNextConnection", "InvokeConnection"},
         d.op # "InvokeConnection"
  PROVE  Tidy(<<c, d>>) /\ (Pends(<<c, d>>) <=> d.op = "InvokeNextConnection")
<1>1. Tidy(<<d>>) /\ (Pends(<<d>>) <=> d.op = "InvokeNextConnection")
  BY TidyOne
<1>2. <<c>> \o <<d>> = <<c, d>>
  <2> DEFINE r == <<c>> \o <<d>>
  <2>1. r \in Seq(Call) /\ Len(r) = 2 /\ r[1] = c /\ r[2] = d
    OBVIOUS
  <2>2. <<c, d>> \in Seq(Call) /\ Len(<<c, d>>) = 2
    OBVIOUS
  <2>3. \A i \in 1..2 : r[i] = <<c, d>>[i]
    BY <2>1
  <2>4. QED
    BY <2>1, <2>2, <2>3, SeqEqual
<1>3. Tidy(<<c>> \o <<d>>) /\ (Pends(<<c>> \o <<d>>) <=> Pends(<<d>>))
  BY <1>1, TidyPush
<1>4. QED
  BY <1>1, <1>2, <1>3

\* A thread that had nothing to do is given calls.
LEMMA StartCalls ==
  ASSUME TodoOK, NEW t \in IoThread, Ready(t), NEW q, Tidy(q), Start(t, q)
  PROVE  /\ TodoOK' /\ todo'[t] = q /\ ~Pends(todo[t])
         /\ \A u \in IoThread : u # t => todo'[u] = todo[u]
<1>1. todo'[t] = q /\ \A u \in IoThread : u # t => todo'[u] = todo[u]
  BY DEF Start, TodoOK
<1>2. q \in Seq(Call)
  BY DEF Tidy
<1>3. TodoOK'
  <2>1. todo' \in [IoThread -> Seq(Call)]
    BY <1>2 DEF Start, TodoOK
  <2>2. \A u \in IoThread : Tidy(todo'[u])
    BY <1>1 DEF TodoOK
  <2>3. QED
    BY <2>1, <2>2 DEF TodoOK, Tidy
<1>4. ~Pends(todo[t])
  BY TidyEmpty DEF Ready
<1>5. QED
  BY <1>1, <1>3, <1>4

\* A thread makes the call at its head; what that calls in turn comes first.
LEMMA ThenCalls ==
  ASSUME TodoOK, NEW t \in IoThread, NEW op, At(t, op), NEW q,
         Then(t, q),
         \/ q = <<>>
         \/ \E c \in Call : /\ q = <<c>> /\ c.op # "InvokeNextConnection"
                            /\ c.op = "InvokeConnection" => c.arg \in Method
  PROVE  /\ TodoOK'
         /\ \A u \in IoThread : u # t => todo'[u] = todo[u]
         /\ op = "InvokeNextConnection" => Pends(todo[t]) /\ ~Pends(todo'[t])
         /\ op # "InvokeNextConnection" => (Pends(todo'[t]) <=> Pends(todo[t]))
         /\ op = "InvokeConnection" => Head(todo[t]).arg \in Method
<1> DEFINE s == todo[t]
<1>1. Tidy(s) /\ s # <<>> /\ Head(s).op = op
  BY DEF TodoOK, At
<1>2. /\ Tidy(Tail(s))
      /\ Head(s).op = "InvokeNextConnection" => Tail(s) = <<>>
      /\ Head(s).op # "InvokeNextConnection" => (Pends(Tail(s)) <=> Pends(s))
      /\ Head(s).op = "InvokeConnection" => Head(s).arg \in Method
  BY <1>1, TidyTail
<1>3. Tidy(q \o Tail(s)) /\ (Pends(q \o Tail(s)) <=> Pends(Tail(s)))
  <2>1. CASE q = <<>>
    <3>1. Tail(s) \in Seq(Call)
      BY <1>2 DEF Tidy
    <3>2. q \o Tail(s) = Tail(s)
      BY <2>1, <3>1, ConcatEmptySeq
    <3>3. QED
      BY <1>2, <3>2
  <2>2. ASSUME NEW c \in Call, q = <<c>>, c.op # "InvokeNextConnection",
               c.op = "InvokeConnection" => c.arg \in Method
        PROVE  Tidy(q \o Tail(s)) /\ (Pends(q \o Tail(s)) <=> Pends(Tail(s)))
    BY <1>2, <2>2, TidyPush
  <2>3. QED
    BY <2>1, <2>2
<1>4. /\ todo'[t] = q \o Tail(s)
      /\ \A u \in IoThread : u # t => todo'[u] = todo[u]
  BY DEF Then, TodoOK
<1>5. TodoOK'
  <2>1. q \o Tail(s) \in Seq(Call)
    BY <1>3 DEF Tidy
  <2>2. todo' \in [IoThread -> Seq(Call)]
    BY <2>1 DEF Then, TodoOK
  <2>3. \A u \in IoThread : Tidy(todo'[u])
    BY <1>3, <1>4 DEF TodoOK
  <2>4. QED
    BY <2>2, <2>3 DEF TodoOK, Tidy
<1>6. Head(s).op = "InvokeNextConnection" => Pends(s)
  <2>1. s \in Seq(Call) /\ 1 \in 1..Len(s) /\ Head(s) = s[1]
    BY <1>1 DEF Tidy
  <2>2. QED
    BY <2>1 DEF Pends
<1>7. Pends(Tail(s)) => Tail(s) # <<>>
  BY TidyEmpty
<1>8. QED
  BY <1>1, <1>2, <1>3, <1>4, <1>5, <1>6, <1>7
-----------------------------------------------------------------------------
(* What the exchange can be after a step. *)

Idle == \A o \in AsyncOp : async[o] = 0
Unpending == \A t \in IoThread : ~Pends(todo[t])

\* Nothing of the exchange changes, and nobody's duty to carry on.
LEMMA SameExchange ==
  ASSUME IInv, UNCHANGED exchange, TodoOK',
         \A t \in IoThread : Pends(todo'[t]) <=> Pends(todo[t])
  PROVE  IInv'
<1>1. UNCHANGED <<request_queue, async, retry_timer, retry_times>>
  BY DEF exchange
<1>2. Active' <=> Active
  BY <1>1 DEF Active
<1>3. QueueOK' /\ AsyncOK' /\ AnswersFront'
  BY <1>1 DEF IInv, QueueOK, AsyncOK, AnswersFront
<1>4. Single'
  BY <1>1 DEF IInv, Single
<1>5. Queued' /\ Counted'
  BY <1>1, <1>2 DEF IInv, Queued, Counted
<1>6. QED
  BY <1>3, <1>4, <1>5 DEF IInv

\* One operation is outstanding.
LEMMA Working ==
  ASSUME QueueOK', TodoOK', Unpending', NEW o \in AsyncOp,
         async' = [p \in AsyncOp |-> IF p = o THEN 1 ELSE 0],
         ~retry_timer', request_queue' # <<>>,
         o \in Method => Head(request_queue') = o,
         retry_times' \in Nat, retry_times' <= kMaxRetryTimes
  PROVE  IInv'
<1>1. \A p \in AsyncOp : async'[p] = IF p = o THEN 1 ELSE 0
  OBVIOUS
<1>2. AsyncOK'
  BY DEF AsyncOK
<1>3. Single'
  BY <1>1 DEF Single, Unpending
<1>4. Queued'
  BY DEF Queued
<1>5. AnswersFront'
  <2>1. Method \subseteq AsyncOp
    BY DEF AsyncOp
  <2>2. \A m \in Method : async'[m] > 0 => m = o
    BY <1>1, <2>1
  <2>3. QED
    BY <2>2 DEF AnswersFront
<1>6. Counted'
  BY RetryAssumption DEF Counted
<1>7. QED
  BY <1>2, <1>3, <1>4, <1>5, <1>6 DEF IInv

\* No operation is outstanding: the retry timer may be, or one thread is to
\* carry on, or neither.
LEMMA Waiting ==
  ASSUME QueueOK', TodoOK', AsyncOK', Idle',
         \A t, u \in IoThread :
           Pends(todo'[t]) /\ Pends(todo'[u]) => t = u,
         retry_timer' => Unpending',
         Active' => request_queue' # <<>>,
         retry_times' \in Nat, retry_times' <= kMaxRetryTimes + 1,
         Active' \/ request_queue' = <<>> => retry_times' <= kMaxRetryTimes
  PROVE  IInv'
<1>1. Single'
  BY DEF Single, Idle, Unpending
<1>2. Queued' /\ Counted'
  BY DEF Queued, Counted
<1>3. AnswersFront'
  <2>1. \A m \in Method : async'[m] = 0
    BY DEF Idle, AsyncOp
  <2>2. QED
    BY <2>1 DEF AnswersFront
<1>4. QED
  BY <1>1, <1>2, <1>3 DEF IInv

\* An outstanding operation is the exchange.
LEMMA OneOp ==
  ASSUME IInv, NEW o \in AsyncOp, async[o] > 0
  PROVE  /\ async[o] = 1 /\ \A p \in AsyncOp : p # o => async[p] = 0
         /\ ~retry_timer /\ Unpending
         /\ request_queue \in Seq(Method) /\ request_queue # <<>>
         /\ Head(request_queue) \in Method /\ Tail(request_queue) \in Seq(Method)
         /\ retry_times \in Nat /\ retry_times <= kMaxRetryTimes
<1>1. async[o] = 1
  BY DEF IInv, Single
<1>2. \A p \in AsyncOp : p # o => async[p] = 0
  BY <1>1 DEF IInv, Single
<1>3. ~retry_timer
  BY <1>1 DEF IInv, Single
<1>4. Unpending
  BY <1>1 DEF IInv, Single, Unpending
<1>5. Active
  BY <1>1 DEF Active
<1>6. request_queue \in Seq(Method) /\ request_queue # <<>>
  BY <1>5 DEF IInv, Queued, QueueOK
<1>7. Head(request_queue) \in Method /\ Tail(request_queue) \in Seq(Method)
  BY <1>6
<1>8. retry_times \in Nat /\ retry_times <= kMaxRetryTimes
  BY <1>5 DEF IInv, Counted
<1>9. QED
  BY <1>1, <1>2, <1>3, <1>4, <1>6, <1>7, <1>8

\* It completes, or hands over to the next.
LEMMA Completes ==
  ASSUME IInv, NEW o \in AsyncOp, Complete(o)
  PROVE  AsyncOK' /\ Idle' /\ async[o] > 0
<1>1. async[o] > 0 /\ async' = [async EXCEPT ![o] = @ - 1]
  BY DEF Complete
<1>2. async[o] = 1 /\ \A p \in AsyncOp : p # o => async[p] = 0
  BY <1>1, OneOp
<1>3. async \in [AsyncOp -> Nat]
  BY DEF IInv, AsyncOK
<1>4. async'[o] = 0
  BY <1>1, <1>2, <1>3
<1>5. \A p \in AsyncOp : p # o => async'[p] = 0
  BY <1>1, <1>2, <1>3
<1>6. Idle' /\ AsyncOK'
  BY <1>1, <1>3, <1>4, <1>5 DEF Idle, AsyncOK
<1>7. QED
  BY <1>1, <1>6

LEMMA Follows ==
  ASSUME IInv, NEW o \in AsyncOp, NEW p \in AsyncOp, o # p, async[o] > 0,
         Follow(o, p)
  PROVE  async' = [r \in AsyncOp |-> IF r = p THEN 1 ELSE 0]
<1>1. async[o] = 1 /\ \A r \in AsyncOp : r # o => async[r] = 0
  BY OneOp
<1>2. async \in [AsyncOp -> Nat]
  BY DEF IInv, AsyncOK
<1>3. /\ async' = [async EXCEPT ![o] = @ - 1, ![p] = @ + 1]
      /\ async'[o] = 0 /\ async'[p] = 1
      /\ \A r \in AsyncOp : r # o /\ r # p => async'[r] = 0
  BY <1>1, <1>2 DEF Follow
<1>4. async' = [r \in AsyncOp |-> async'[r]]
  BY <1>2, <1>3
<1>5. \A r \in AsyncOp : async'[r] = IF r = p THEN 1 ELSE 0
  BY <1>3
<1>6. QED
  BY <1>4, <1>5

LEMMA Begins ==
  ASSUME IInv, Idle, NEW o \in AsyncOp, Begin(o)
  PROVE  async' = [r \in AsyncOp |-> IF r = o THEN 1 ELSE 0]
<1>1. async \in [AsyncOp -> Nat] /\ \A r \in AsyncOp : async[r] = 0
  BY DEF IInv, AsyncOK, Idle
<1>2. /\ async' = [async EXCEPT ![o] = @ + 1]
      /\ async'[o] = 1 /\ \A r \in AsyncOp : r # o => async'[r] = 0
  BY <1>1 DEF Begin
<1>3. async' = [r \in AsyncOp |-> async'[r]]
  BY <1>1, <1>2
<1>4. \A r \in AsyncOp : async'[r] = IF r = o THEN 1 ELSE 0
  BY <1>2
<1>5. QED
  BY <1>3, <1>4
-----------------------------------------------------------------------------
(* The steps. *)

\* A thread that had nothing to do is given calls that do not carry on.
LEMMA StartSame ==
  ASSUME IInv, NEW t \in IoThread, Ready(t), NEW q, Tidy(q), ~Pends(q),
         Start(t, q), UNCHANGED exchange
  PROVE  IInv'
<1>1. /\ TodoOK' /\ todo'[t] = q /\ ~Pends(todo[t])
      /\ \A u \in IoThread : u # t => todo'[u] = todo[u]
  BY StartCalls DEF IInv
<1>2. \A u \in IoThread : Pends(todo'[u]) <=> Pends(todo[u])
  BY <1>1
<1>3. QED
  BY <1>1, <1>2, SameExchange

\* A thread makes a call that leaves the exchange alone.
LEMMA ThenSame ==
  ASSUME IInv, NEW t \in IoThread, NEW op, At(t, op),
         op # "InvokeNextConnection", NEW q, Then(t, q),
         \/ q = <<>>
         \/ \E c \in Call : /\ q = <<c>> /\ c.op # "InvokeNextConnection"
                            /\ c.op = "InvokeConnection" => c.arg \in Method,
         UNCHANGED exchange
  PROVE  IInv'
<1>1. /\ TodoOK'
      /\ \A u \in IoThread : u # t => todo'[u] = todo[u]
      /\ Pends(todo'[t]) <=> Pends(todo[t])
  BY ThenCalls DEF IInv
<1>2. \A u \in IoThread : Pends(todo'[u]) <=> Pends(todo[u])
  BY <1>1
<1>3. QED
  BY <1>1, <1>2, SameExchange

LEMMA Callers ==
  ASSUME IInv, NEW t \in IoThread,
         Login(t) \/ SessionStop(t) \/ KeepAlive(t)
  PROVE  IInv'
<1>0. "login" \in Method /\ "keepalive" \in Method
  BY DEF Method
<1>1. CASE Login(t)
  BY <1>0, <1>1, StartSame, TidyStarts DEF Login
<1>2. CASE SessionStop(t)
  BY <1>2, StartSame, TidyStarts DEF SessionStop
<1>3. CASE KeepAlive(t)
  <2>1. CASE user_state \in {"None", "LoggingIn"}
    BY <1>3, <2>1, StartSame, TidyEmpty DEF KeepAlive
  <2>2. CASE user_state \notin {"None", "LoggingIn"}
    BY <1>0, <1>3, <2>2, StartSame, TidyStarts DEF KeepAlive
  <2>3. QED
    BY <2>1, <2>2
<1>4. QED
  BY <1>1, <1>2, <1>3

LEMMA Inline ==
  ASSUME IInv, NEW t \in IoThread,
         \/ LoggedIn(t) \/ Logout(t)
         \/ NotifyLoginResult(t) \/ NotifyKeepAliveResult(t)
  PROVE  IInv'
<1>1. /\ Go("Logout") \in Call /\ Go("Logout").op = "Logout"
      /\ Calls("InvokeConnection", "logout") \in Call
      /\ Calls("InvokeConnection", "logout").op = "InvokeConnection"
      /\ Calls("InvokeConnection", "logout").arg \in Method
  BY CallTypes DEF Ops, Method
<1>2. CASE LoggedIn(t)
  BY <1>2, ThenSame DEF LoggedIn
<1>3. CASE Logout(t)
  <2>1. CASE user_state = "None"
    BY <1>3, <2>1, ThenSame DEF Logout
  <2>2. CASE user_state # "None"
    BY <1>1, <1>3, <2>2, ThenSame DEF Logout
  <2>3. QED
    BY <2>1, <2>2
<1>4. CASE NotifyLoginResult(t)
  <2>1. At(t, "NotifyLoginResult") /\ UNCHANGED exchange
    BY <1>4 DEF NotifyLoginResult
  <2>2. Then(t, <<>>) \/ Then(t, <<Go("Logout")>>)
    BY <1>4 DEF NotifyLoginResult
  <2>3. QED
    BY <1>1, <2>1, <2>2, ThenSame
<1>5. CASE NotifyKeepAliveResult(t)
  <2>1. At(t, "NotifyKeepAliveResult") /\ UNCHANGED exchange
    BY <1>5 DEF NotifyKeepAliveResult
  <2>2. Then(t, <<>>) \/ Then(t, <<Go("Logout")>>)
    BY <1>5 DEF NotifyKeepAliveResult
  <2>3. QED
    BY <1>1, <2>1, <2>2, ThenSame
<1>6. QED
  BY <1>2, <1>3, <1>4, <1>5

LEMMA Invokes ==
  ASSUME IInv, NEW t \in IoThread, InvokeConnection(t)
  PROVE  IInv'
<1> DEFINE m == Head(todo[t]).arg
<1>1. /\ TodoOK' /\ m \in Method
      /\ \A u \in IoThread : u # t => todo'[u] = todo[u]
      /\ Pends(todo'[t]) <=> Pends(todo[t])
  BY ThenCalls DEF IInv, InvokeConnection
<1>2. \A u \in IoThread : Pends(todo'[u]) <=> Pends(todo[u])
  BY <1>1
<1>3. /\ request_queue \in Seq(Method)
      /\ request_queue' = Append(request_queue, m)
      /\ UNCHANGED <<retry_timer, retry_times>>
  BY DEF InvokeConnection, IInv, QueueOK
<1>4. request_queue' \in Seq(Method) /\ request_queue' # <<>>
  BY <1>1, <1>3, AppendProperties
<1>5. CASE request_queue = <<>>
  <2>1. ~Active /\ retry_times \in Nat /\ retry_times <= kMaxRetryTimes
    BY <1>5 DEF IInv, Queued, Counted
  <2>2. Idle /\ ~retry_timer /\ Unpending
    BY <2>1 DEF Active, Idle, Unpending, IInv, Single
  <2>3. Begin("connect")
    BY <1>5 DEF InvokeConnection
  <2>4. "connect" \in AsyncOp /\ "connect" \notin Method
    BY DEF AsyncOp, Method
  <2>5. async' = [p \in AsyncOp |-> IF p = "connect" THEN 1 ELSE 0]
    BY <2>2, <2>3, <2>4, Begins
  <2>6. Unpending'
    BY <1>2, <2>2 DEF Unpending
  <2>7. QueueOK' /\ ~retry_timer' /\ retry_times' \in Nat
        /\ retry_times' <= kMaxRetryTimes
    BY <1>3, <1>4, <2>1, <2>2 DEF QueueOK
  <2>8. QED
    BY <1>1, <1>4, <2>4, <2>5, <2>6, <2>7, Working
<1>6. CASE request_queue # <<>>
  <2>1. UNCHANGED async
    BY <1>6 DEF InvokeConnection
  <2>2. Head(request_queue') = Head(request_queue)
    BY <1>1, <1>3, <1>6
  <2>3. Single' /\ AsyncOK'
    BY <1>2, <1>3, <2>1 DEF IInv, Single, AsyncOK
  <2>4. Active' <=> Active
    BY <1>2, <1>3, <2>1 DEF Active
  <2>5. Queued' /\ QueueOK'
    BY <1>4 DEF Queued, QueueOK
  <2>6. Counted'
    BY <1>3, <1>4, <2>4 DEF IInv, Counted
  <2>7. AnswersFront'
    BY <2>1, <2>2 DEF IInv, AnswersFront
  <2>8. QED
    BY <1>1, <2>3, <2>5, <2>6, <2>7 DEF IInv
<1>7. QED
  BY <1>5, <1>6

LEMMA InvokesNext ==
  ASSUME IInv, NEW t \in IoThread, InvokeNextConnection(t)
  PROVE  IInv'
<1>1. /\ TodoOK' /\ Pends(todo[t]) /\ ~Pends(todo'[t])
      /\ \A u \in IoThread : u # t => todo'[u] = todo[u]
  BY ThenCalls DEF IInv, InvokeNextConnection
<1>2. Active
  BY <1>1 DEF Active
<1>3. Idle /\ ~retry_timer /\ \A u \in IoThread : Pends(todo[u]) => u = t
  BY <1>1 DEF IInv, Single, Idle
<1>4. /\ request_queue \in Seq(Method) /\ request_queue # <<>>
      /\ retry_times \in Nat /\ retry_times <= kMaxRetryTimes
  BY <1>2 DEF IInv, QueueOK, Queued, Counted
<1>5. Begin("connect") /\ UNCHANGED <<request_queue, retry_timer, retry_times>>
  BY <1>4 DEF InvokeNextConnection
<1>6. "connect" \in AsyncOp /\ "connect" \notin Method
  BY DEF AsyncOp, Method
<1>7. async' = [p \in AsyncOp |-> IF p = "connect" THEN 1 ELSE 0]
  BY <1>3, <1>5, <1>6, Begins
<1>8. Unpending' /\ QueueOK'
  BY <1>1, <1>3, <1>4, <1>5 DEF Unpending, QueueOK
<1>9. QED
  BY <1>1, <1>3, <1>4, <1>5, <1>6, <1>7, <1>8, Working

\* An operation completes and nothing carries on.
LEMMA Rests ==
  ASSUME IInv, NEW o \in AsyncOp, Complete(o), retry_timer' = retry_timer,
         TodoOK', Unpending', QueueOK',
         retry_times' \in Nat, retry_times' <= kMaxRetryTimes + 1,
         request_queue' = <<>> => retry_times' <= kMaxRetryTimes
  PROVE  IInv'
<1>1. AsyncOK' /\ Idle' /\ async[o] > 0
  BY Completes
<1>2. ~retry_timer'
  BY <1>1, OneOp
<1>3. ~Active'
  <2>1. \A p \in AsyncOp : async'[p] # 1
    BY <1>1 DEF Idle
  <2>2. QED
    BY <1>2, <2>1 DEF Active, Unpending
<1>4. QED
  BY <1>1, <1>2, <1>3, Waiting DEF Unpending

\* An operation completes and the retry timer is armed, or a thread is to
\* carry on.
LEMMA CarriesOn ==
  ASSUME IInv, NEW o \in AsyncOp, Complete(o), TodoOK',
         UNCHANGED request_queue,
         \/ retry_timer' /\ Unpending'
         \/ /\ ~retry_timer'
            /\ \E t \in IoThread : \A u \in IoThread : Pends(todo'[u]) => u = t,
         retry_times' \in Nat, retry_times' <= kMaxRetryTimes
  PROVE  IInv'
<1>1. AsyncOK' /\ Idle' /\ async[o] > 0
  BY Completes
<1>2. request_queue \in Seq(Method) /\ request_queue # <<>>
  BY <1>1, OneOp
<1>3. QueueOK' /\ request_queue' # <<>>
  BY <1>2 DEF QueueOK
<1>4. \A t, u \in IoThread : Pends(todo'[t]) /\ Pends(todo'[u]) => t = u
  BY DEF Unpending
<1>5. retry_timer' => Unpending'
  OBVIOUS
<1>6. retry_times' <= kMaxRetryTimes + 1
  BY RetryAssumption
<1>7. QED
  BY <1>1, <1>3, <1>4, <1>5, <1>6, Waiting

LEMMA StartUnpending ==
  ASSUME IInv, Unpending, NEW t \in IoThread, Ready(t), NEW q, Tidy(q),
         ~Pends(q), Start(t, q)
  PROVE  TodoOK' /\ Unpending'
<1>1. /\ TodoOK' /\ todo'[t] = q
      /\ \A u \in IoThread : u # t => todo'[u] = todo[u]
  BY StartCalls DEF IInv
<1>2. QED
  BY <1>1 DEF Unpending

LEMMA StartPending ==
  ASSUME IInv, Unpending, NEW t \in IoThread, Ready(t), NEW q, Tidy(q),
         Start(t, q)
  PROVE  TodoOK' /\ \A u \in IoThread : Pends(todo'[u]) => u = t
<1>1. /\ TodoOK' /\ todo'[t] = q
      /\ \A u \in IoThread : u # t => todo'[u] = todo[u]
  BY StartCalls DEF IInv
<1>2. QED
  BY <1>1 DEF Unpending

LEMMA TodoKept ==
  ASSUME IInv, Unpending, UNCHANGED todo
  PROVE  TodoOK' /\ Unpending'
BY DEF IInv, TodoOK, Unpending

LEMMA OpsAreApart ==
  /\ "connect" \in AsyncOp /\ "write" \in AsyncOp
  /\ "connect" \notin Method /\ "write" \notin Method
  /\ "login" \in Method /\ "keepalive" \in Method /\ "logout" \in Method
  /\ Method \subseteq AsyncOp /\ "failed" \in Result /\ "ok" \in Result
BY DEF AsyncOp, Method, Result

LEMMA ConnectOk ==
  ASSUME IInv, NEW t \in IoThread, OnConnectOk(t)
  PROVE  IInv'
<1>1. async["connect"] > 0 /\ Follow("connect", "write")
      /\ UNCHANGED <<request_queue, retry_timer, retry_times, todo>>
  BY DEF OnConnectOk
<1>2. async' = [p \in AsyncOp |-> IF p = "write" THEN 1 ELSE 0]
  BY <1>1, Follows, OpsAreApart
<1>3. /\ ~retry_timer /\ Unpending
      /\ request_queue \in Seq(Method) /\ request_queue # <<>>
      /\ retry_times \in Nat /\ retry_times <= kMaxRetryTimes
  BY <1>1, OneOp, OpsAreApart
<1>4. TodoOK' /\ Unpending' /\ QueueOK'
  BY <1>1, <1>3, TodoKept DEF QueueOK
<1>5. QED
  BY <1>1, <1>2, <1>3, <1>4, Working, OpsAreApart

LEMMA ConnectFail ==
  ASSUME IInv, NEW t \in IoThread, OnConnectFail(t)
  PROVE  IInv'
<1>1. /\ Ready(t) /\ Complete("connect") /\ retry_times' = retry_times + 1
      /\ UNCHANGED request_queue
  BY DEF OnConnectFail
<1>2. async["connect"] > 0
  BY <1>1 DEF Complete
<1>3. /\ ~retry_timer /\ Unpending
      /\ request_queue \in Seq(Method) /\ request_queue # <<>>
      /\ retry_times \in Nat /\ retry_times <= kMaxRetryTimes
  BY <1>2, OneOp, OpsAreApart
<1>4. retry_times' \in Nat /\ retry_times' <= kMaxRetryTimes + 1
  BY <1>1, <1>3, RetryAssumption
<1>5. CASE retry_times' <= kMaxRetryTimes
  <2>1. retry_timer' /\ UNCHANGED todo
    BY <1>5 DEF OnConnectFail
  <2>2. TodoOK' /\ Unpending'
    BY <1>3, <2>1, TodoKept
  <2>3. QED
    BY <1>1, <1>4, <1>5, <2>1, <2>2, CarriesOn, OpsAreApart
<1>6. CASE ~(retry_times' <= kMaxRetryTimes)
  <2>1. \/ Start(t, <<Calls("NotifyLoginResult", "failed")>>)
        \/ Start(t, <<Calls("NotifyKeepAliveResult", "failed")>>)
        \/ UNCHANGED todo
    BY <1>6 DEF OnConnectFail
  <2>2. retry_timer' = retry_timer
    BY <1>6 DEF OnConnectFail
  <2>3. TodoOK' /\ Unpending'
    BY <1>1, <1>3, <2>1, StartUnpending, TodoKept, TidyStarts, OpsAreApart
  <2>4. QueueOK' /\ request_queue' # <<>>
    BY <1>1, <1>3 DEF QueueOK
  <2>5. QED
    BY <1>1, <1>4, <2>2, <2>3, <2>4, Rests, OpsAreApart
<1>7. QED
  BY <1>5, <1>6

LEMMA RequestOk ==
  ASSUME IInv, NEW t \in IoThread, OnRequestOk(t)
  PROVE  IInv'
<1>1. /\ async["write"] > 0 /\ Follow("write", Head(request_queue))
      /\ UNCHANGED <<request_queue, retry_timer, retry_times, todo>>
  BY DEF OnRequestOk
<1>2. /\ ~retry_timer /\ Unpending /\ Head(request_queue) \in Method
      /\ request_queue \in Seq(Method) /\ request_queue # <<>>
      /\ retry_times \in Nat /\ retry_times <= kMaxRetryTimes
  BY <1>1, OneOp, OpsAreApart
<1>3. Head(request_queue) \in AsyncOp /\ Head(request_queue) # "write"
  BY <1>2, OpsAreApart
<1>4. async' = [p \in AsyncOp |-> IF p = Head(request_queue) THEN 1 ELSE 0]
  BY <1>1, <1>3, Follows, OpsAreApart
<1>5. TodoOK' /\ Unpending' /\ QueueOK'
  BY <1>1, <1>2, TodoKept DEF QueueOK
<1>6. QED
  BY <1>1, <1>2, <1>3, <1>4, <1>5, Working

LEMMA RequestFail ==
  ASSUME IInv, NEW t \in IoThread, OnRequestFail(t)
  PROVE  IInv'
<1>1. /\ Ready(t) /\ Complete("write")
      /\ UNCHANGED <<request_queue, retry_timer, retry_times>>
  BY DEF OnRequestFail
<1>2. async["write"] > 0
  BY <1>1 DEF Complete
<1>3. /\ ~retry_timer /\ Unpending
      /\ retry_times \in Nat /\ retry_times <= kMaxRetryTimes
  BY <1>2, OneOp, OpsAreApart
<1>4. Tidy(<<Calls("NotifyLoginResult", "failed"), Go("InvokeNextConnection")>>)
  <2>1. /\ Calls("NotifyLoginResult", "failed") \in Call
        /\ Calls("NotifyLoginResult", "failed").op = "NotifyLoginResult"
        /\ Go("InvokeNextConnection") \in Call
        /\ Go("InvokeNextConnection").op = "InvokeNextConnection"
    BY CallTypes, OpsAreApart DEF Ops
  <2>2. QED
    BY <2>1, TidyPairs
<1>5. \/ Start(t, <<Calls("NotifyLoginResult", "failed"),
                    Go("InvokeNextConnection")>>)
      \/ Start(t, <<Go("InvokeNextConnection")>>)
  BY DEF OnRequestFail
<1>6. TodoOK' /\ \A u \in IoThread : Pends(todo'[u]) => u = t
  BY <1>1, <1>3, <1>4, <1>5, StartPending, TidyStarts
<1>7. QED
  BY <1>1, <1>3, <1>6, CarriesOn, OpsAreApart

\* A response takes the front request off the queue.
LEMMA Answered ==
  ASSUME IInv, NEW o \in AsyncOp, Complete(o), retry_times' = 0,
         request_queue' = Tail(request_queue), retry_timer' = retry_timer,
         TodoOK', Unpending'
  PROVE  IInv'
<1>1. async[o] > 0
  BY DEF Complete
<1>2. Tail(request_queue) \in Seq(Method)
  BY <1>1, OneOp
<1>3. QueueOK'
  BY <1>2 DEF QueueOK
<1>4. retry_times' \in Nat /\ retry_times' <= kMaxRetryTimes
      /\ retry_times' <= kMaxRetryTimes + 1
  BY RetryAssumption
<1>5. QED
  BY <1>3, <1>4, Rests

LEMMA Responses ==
  ASSUME IInv, NEW t \in IoThread,
         OnLoginResponse(t) \/ OnKeepAliveResponse(t) \/ OnLogoutResponse(t)
  PROVE  IInv'
<1>1. CASE OnLoginResponse(t)
  <2>1. /\ Ready(t) /\ Complete("login") /\ retry_times' = 0
        /\ request_queue' = Tail(request_queue) /\ retry_timer' = retry_timer
        /\ \/ Start(t, <<Go("LoggedIn"), Calls("NotifyLoginResult", "ok")>>)
           \/ Start(t, <<Calls("NotifyLoginResult", "failed")>>)
    BY <1>1 DEF OnLoginResponse
  <2>2. async["login"] > 0
    BY <2>1 DEF Complete
  <2>3. Unpending
    BY <2>2, OneOp, OpsAreApart
  <2>4. /\ Tidy(<<Go("LoggedIn"), Calls("NotifyLoginResult", "ok")>>)
        /\ ~Pends(<<Go("LoggedIn"), Calls("NotifyLoginResult", "ok")>>)
    <3>1. /\ Go("LoggedIn") \in Call /\ Go("LoggedIn").op = "LoggedIn"
          /\ Calls("NotifyLoginResult", "ok") \in Call
          /\ Calls("NotifyLoginResult", "ok").op = "NotifyLoginResult"
      BY CallTypes, OpsAreApart DEF Ops
    <3>2. QED
      BY <3>1, TidyPairs
  <2>5. TodoOK' /\ Unpending'
    BY <2>1, <2>3, <2>4, StartUnpending, TidyStarts, OpsAreApart
  <2>6. QED
    BY <2>1, <2>5, Answered, OpsAreApart
<1>2. CASE OnKeepAliveResponse(t)
  <2>1. /\ Ready(t) /\ Complete("keepalive") /\ retry_times' = 0
        /\ request_queue' = Tail(request_queue) /\ retry_timer' = retry_timer
        /\ \/ UNCHANGED todo
           \/ Start(t, <<Calls("NotifyKeepAliveResult", "failed")>>)
    BY <1>2 DEF OnKeepAliveResponse
  <2>2. async["keepalive"] > 0
    BY <2>1 DEF Complete
  <2>3. Unpending
    BY <2>2, OneOp, OpsAreApart
  <2>4. TodoOK' /\ Unpending'
    BY <2>1, <2>3, StartUnpending, TodoKept, TidyStarts, OpsAreApart
  <2>5. QED
    BY <2>1, <2>4, Answered, OpsAreApart
<1>3. CASE OnLogoutResponse(t)
  <2>1. /\ Complete("logout") /\ retry_times' = 0
        /\ request_queue' = Tail(request_queue) /\ retry_timer' = retry_timer
        /\ UNCHANGED todo
    BY <1>3 DEF OnLogoutResponse
  <2>2. async["logout"] > 0
    BY <2>1 DEF Complete
  <2>3. Unpending
    BY <2>2, OneOp, OpsAreApart
  <2>4. QED
    BY <2>1, <2>3, TodoKept, Answered, OpsAreApart
<1>4. QED
  BY <1>1, <1>2, <1>3

LEMMA KeepAliveFail ==
  ASSUME IInv, NEW t \in IoThread, OnKeepAliveResponseFail(t)
  PROVE  IInv'
<1>1. /\ Complete("keepalive") /\ retry_times' = retry_times + 1
      /\ UNCHANGED <<request_queue, todo>>
  BY DEF OnKeepAliveResponseFail
<1>2. async["keepalive"] > 0
  BY <1>1 DEF Complete
<1>3. /\ Unpending /\ request_queue \in Seq(Method) /\ request_queue # <<>>
      /\ retry_times \in Nat /\ retry_times <= kMaxRetryTimes
  BY <1>2, OneOp, OpsAreApart
<1>4. /\ retry_times' \in Nat /\ retry_times' <= kMaxRetryTimes + 1
      /\ TodoOK' /\ Unpending' /\ QueueOK' /\ request_queue' # <<>>
  BY <1>1, <1>3, TodoKept, RetryAssumption DEF QueueOK
<1>5. CASE retry_times' <= kMaxRetryTimes
  BY <1>1, <1>4, <1>5, CarriesOn, OpsAreApart DEF OnKeepAliveResponseFail
<1>6. CASE ~(retry_times' <= kMaxRetryTimes)
  BY <1>1, <1>4, <1>6, Rests, OpsAreApart DEF OnKeepAliveResponseFail
<1>7. QED
  BY <1>5, <1>6

LEMMA Retries ==
  ASSUME IInv, NEW t \in IoThread, RetryTimer(t)
  PROVE  IInv'
<1>1. /\ Ready(t) /\ retry_timer /\ ~retry_timer'
      /\ Start(t, <<Go("InvokeNextConnection")>>)
      /\ UNCHANGED <<request_queue, async, retry_times>>
  BY DEF RetryTimer
<1>2. Active
  BY <1>1 DEF Active
<1>3. Idle /\ Unpending
  BY <1>1 DEF IInv, Single, Idle, Unpending
<1>4. /\ request_queue \in Seq(Method) /\ request_queue # <<>>
      /\ retry_times \in Nat /\ retry_times <= kMaxRetryTimes
  BY <1>2 DEF IInv, QueueOK, Queued, Counted
<1>5. TodoOK' /\ \A u \in IoThread : Pends(todo'[u]) => u = t
  BY <1>1, <1>3, StartPending, TidyStarts
<1>6. QueueOK' /\ AsyncOK' /\ Idle' /\ request_queue' # <<>>
  BY <1>1, <1>3, <1>4 DEF IInv, QueueOK, AsyncOK, Idle
<1>7. \A u, v \in IoThread : Pends(todo'[u]) /\ Pends(todo'[v]) => u = v
  BY <1>5
<1>8. retry_times' \in Nat /\ retry_times' <= kMaxRetryTimes
      /\ retry_times' <= kMaxRetryTimes + 1
  BY <1>1, <1>4, RetryAssumption
<1>9. QED
  BY <1>1, <1>5, <1>6, <1>7, <1>8, Waiting
-----------------------------------------------------------------------------
(* The invariant. *)

LEMMA InitIInv == Init => IInv
<1> SUFFICES ASSUME Init PROVE IInv
  OBVIOUS
<1>1. QueueOK /\ AsyncOK
  BY DEF Init, QueueOK, AsyncOK
<1>2. TodoOK
  BY TidyEmpty DEF Init, TodoOK
<1>3. ~Active
  BY TidyEmpty DEF Init, Active
<1>4. Single
  BY TidyEmpty DEF Init, Single
<1>5. Queued /\ Counted
  BY <1>3, RetryAssumption DEF Init, Queued, Counted
<1>6. AnswersFront
  BY OpsAreApart DEF Init, AnswersFront
<1>7. QED
  BY <1>1, <1>2, <1>4, <1>5, <1>6 DEF IInv

LEMMA NextIInv == IInv /\ [Next]_vars => IInv'
<1> SUFFICES ASSUME IInv, [Next]_vars PROVE IInv'
  OBVIOUS
<1>1. ASSUME NEW t \in IoThread, Completion(t) PROVE IInv'
  BY <1>1, ConnectOk, ConnectFail, RequestOk, RequestFail, Responses,
     KeepAliveFail, Retries DEF Completion
<1>2. ASSUME NEW t \in IoThread, Step(t) PROVE IInv'
  BY <1>2, Inline, Invokes, InvokesNext DEF Step
<1>3. ASSUME NEW t \in IoThread, Login(t) \/ SessionStop(t) \/ KeepAlive(t)
      PROVE  IInv'
  BY <1>3, Callers
<1>4. ASSUME UNCHANGED <<exchange, todo>> PROVE IInv'
  BY <1>4, SameExchange DEF IInv, TodoOK
<1>5. CASE SessionExpires
  BY <1>4, <1>5 DEF SessionExpires
<1>6. CASE UNCHANGED vars
  BY <1>4, <1>6 DEF vars
<1>7. QED
  BY <1>1, <1>2, <1>3, <1>5, <1>6 DEF Next

LEMMA IInvHolds == Spec => []IInv
BY InitIInv, NextIInv, PTL DEF Spec

LEMMA IInvSingle == IInv => SingleExchange
<1> SUFFICES ASSUME IInv PROVE SingleExchange
  OBVIOUS
<1>1. ASSUME NEW x \in Exchanges
      PROVE  \/ \E o \in AsyncOp : x = <<o, 1>> /\ async[o] = 1
             \/ x = <<"retry_timer", 1>> /\ retry_timer
             \/ \E t \in IoThread : x = <<t, Len(todo[t])>> /\ Pends(todo[t])
  <2>1. CASE x \in UNION {{o} \X (1..async[o]) : o \in AsyncOp}
    <3>1. PICK o \in AsyncOp : x \in {o} \X (1..async[o])
      BY <2>1
    <3>2. PICK i \in 1..async[o] : x = <<o, i>>
      BY <3>1
    <3>3. async[o] \in {0, 1}
      BY DEF IInv, Single
    <3>4. async[o] = 1 /\ i = 1
      BY <3>2, <3>3
    <3>5. QED
      BY <3>2, <3>4
  <2>2. CASE x \in {<<"retry_timer", i>> : i \in {j \in {1} : retry_timer}}
    BY <2>2
  <2>3. CASE x \in UNION {{t} \X {i \in DOMAIN todo[t] :
                                   todo[t][i].op = "InvokeNextConnection"} :
                           t \in IoThread}
    <3>1. PICK t \in IoThread :
            x \in {t} \X {i \in DOMAIN todo[t] :
                            todo[t][i].op = "InvokeNextConnection"}
      BY <2>3
    <3>2. PICK i \in DOMAIN todo[t] :
            x = <<t, i>> /\ todo[t][i].op = "InvokeNextConnection"
      BY <3>1
    <3>3. Tidy(todo[t])
      BY DEF IInv, TodoOK
    <3>4. i \in 1..Len(todo[t])
      BY <3>2, <3>3 DEF Tidy
    <3>5. i = Len(todo[t]) /\ Pends(todo[t])
      BY <3>2, <3>3, <3>4 DEF Tidy, Pends
    <3>6. QED
      BY <3>2, <3>5
  <2>4. QED
    BY <2>1, <2>2, <2>3 DEF Exchanges
<1>2. \A x, y \in Exchanges : x = y
  BY <1>1 DEF IInv, Single
<1>3. Exchanges # {} => Active
  BY <1>1 DEF Active
<1>4. QED
  BY <1>2, <1>3 DEF IInv, Queued, SingleExchange

\* However Login, KeepAlive and Logout arrive and however requests fail, one
\* exchange is under way at a time, for a request that is in the queue.
THEOREM SingleExchangeHolds == Spec => []SingleExchange
BY IInvHolds, IInvSingle, PTL

\* The response waited for answers the request in front of the queue.
THEOREM AnswersFrontHolds == Spec => []AnswersFront
<1>1. IInv => AnswersFront
  BY DEF IInv
<1>2. QED
  BY <1>1, IInvHolds, PTL

\* Failures are counted to one beyond the limit at most.
THEOREM RetryBoundHolds == Spec => []RetryBound
<1>1. IInv => RetryBound
  BY DEF IInv, Counted, RetryBound
<1>2. QED
  BY <1>1, IInvHolds, PTL
-----------------------------------------------------------------------------
(* The types. *)

StateOK == user_state \in UserState
TimersOK == retry_timer \in BOOLEAN /\ keep_alive_timer \in BOOLEAN
SessionOK == session \in {"new", "alive", "expired"}
ReportsOK == reports \in Seq(Report)
BoundsOK == stops \in 0..MaxStops /\ keepalives \in 0..MaxKeepAlives
            /\ write_errors \in 0..MaxWriteErrors

LEMMA NextState == StateOK /\ [Next]_vars => StateOK'
BY DEF StateOK, UserState, Next, Completion, Step, OnConnectOk, OnConnectFail, OnRequestOk, OnRequestFail,
     OnLoginResponse, OnKeepAliveResponseFail, OnKeepAliveResponse,
     OnLogoutResponse, RetryTimer, InvokeConnection, InvokeNextConnection,
     LoggedIn, Logout, NotifyLoginResult, NotifyKeepAliveResult, Login,
     SessionStop, KeepAlive, SessionExpires, exchange, bounds, vars

LEMMA NextTimers == TimersOK /\ [Next]_vars => TimersOK'
BY ZenonT(60) DEF TimersOK, InvokeNextKeepAlive, Next, Completion, Step, OnConnectOk, OnConnectFail, OnRequestOk, OnRequestFail,
     OnLoginResponse, OnKeepAliveResponseFail, OnKeepAliveResponse,
     OnLogoutResponse, RetryTimer, InvokeConnection, InvokeNextConnection,
     LoggedIn, Logout, NotifyLoginResult, NotifyKeepAliveResult, Login,
     SessionStop, KeepAlive, SessionExpires, exchange, bounds, vars

LEMMA NextSession == SessionOK /\ [Next]_vars => SessionOK'
BY DEF SessionOK, Next, Completion, Step, OnConnectOk, OnConnectFail, OnRequestOk, OnRequestFail,
     OnLoginResponse, OnKeepAliveResponseFail, OnKeepAliveResponse,
     OnLogoutResponse, RetryTimer, InvokeConnection, InvokeNextConnection,
     LoggedIn, Logout, NotifyLoginResult, NotifyKeepAliveResult, Login,
     SessionStop, KeepAlive, SessionExpires, exchange, bounds, vars

LEMMA NextReports == ReportsOK /\ [Next]_vars => ReportsOK'
<1>1. \A r \in Report : ReportsOK => Append(reports, r) \in Seq(Report)
  BY DEF ReportsOK
<1>2. "loginOk" \in Report /\ "loginFailed" \in Report
      /\ "keepAliveFailed" \in Report
  BY DEF Report
<1>3. [Next]_vars => \/ UNCHANGED reports
                     \/ \E r \in Report : reports' = Append(reports, r)
  BY <1>2 DEF Next, Completion, Step, OnConnectOk, OnConnectFail, OnRequestOk, OnRequestFail,
     OnLoginResponse, OnKeepAliveResponseFail, OnKeepAliveResponse,
     OnLogoutResponse, RetryTimer, InvokeConnection, InvokeNextConnection,
     LoggedIn, Logout, NotifyLoginResult, NotifyKeepAliveResult, Login,
     SessionStop, KeepAlive, SessionExpires, exchange, bounds, vars
<1>4. QED
  BY <1>1, <1>3 DEF ReportsOK

LEMMA NextBounds == BoundsOK /\ [Next]_vars => BoundsOK'
BY BoundAssumption DEF BoundsOK, Next, Completion, Step, OnConnectOk, OnConnectFail, OnRequestOk, OnRequestFail,
     OnLoginResponse, OnKeepAliveResponseFail, OnKeepAliveResponse,
     OnLogoutResponse, RetryTimer, InvokeConnection, InvokeNextConnection,
     LoggedIn, Logout, NotifyLoginResult, NotifyKeepAliveResult, Login,
     SessionStop, KeepAlive, SessionExpires, exchange, bounds, vars

\* Every variable keeps its type, for every number of threads and of retries.
THEOREM TypeCorrect == Spec => []TypeOK
<1> DEFINE Rest == StateOK /\ TimersOK /\ SessionOK /\ ReportsOK /\ BoundsOK
<1>1. Init => Rest
  <2>1. Init => StateOK /\ SessionOK
    BY DEF Init, StateOK, UserState, SessionOK
  <2>2. Init => TimersOK
    BY DEF Init, TimersOK
  <2>3. Init => ReportsOK
    BY DEF Init, ReportsOK
  <2>4. Init => BoundsOK
    BY BoundAssumption DEF Init, BoundsOK
  <2>5. QED
    BY <2>1, <2>2, <2>3, <2>4
<1>2. Rest /\ [Next]_vars => Rest'
  BY NextState, NextTimers, NextSession, NextReports, NextBounds
<1>3. Rest /\ IInv => TypeOK
  BY DEF StateOK, TimersOK, SessionOK, ReportsOK, BoundsOK, IInv, QueueOK,
     TodoOK, AsyncOK, Counted, TypeOK
<1>4. QED
  BY <1>1, <1>2, <1>3, IInvHolds, PTL DEF Spec

-----------------------------------------------------------------------------
(* The reports come in order, as long as a failed keep-alive is not reported *)
(* by one thread while another has yet to report the login: always on one io *)
(* thread.                                                                   *)

\* The stacks of calls that a thread may have to make.
Ask == <<Calls("InvokeConnection", "login")>>
AskOut == <<Calls("InvokeConnection", "logout")>>
AskOutAgain == <<Calls("InvokeConnection", "logout"), Go("InvokeNextConnection")>>
AskKeep == <<Calls("InvokeConnection", "keepalive")>>
Again == <<Go("InvokeNextConnection")>>
Out == <<Go("Logout")>>
OutAgain == <<Go("Logout"), Go("InvokeNextConnection")>>
Failure == <<Calls("NotifyLoginResult", "failed")>>
FailureAgain == <<Calls("NotifyLoginResult", "failed"), Go("InvokeNextConnection")>>
Answer == <<Go("LoggedIn"), Calls("NotifyLoginResult", "ok")>>
Success == <<Calls("NotifyLoginResult", "ok")>>
KeepFailure == <<Calls("NotifyKeepAliveResult", "failed")>>
Stacks ==
  {<<>>, Ask, AskOut, AskOutAgain, AskKeep, Again, Out, OutAgain, Failure,
   FailureAgain, Answer, Success, KeepFailure}
LoginStacks == {Ask, Answer, Success}
FailureStacks == {Failure, FailureAgain}
PendingStacks == {AskOutAgain, Again, OutAgain, FailureAgain}

Timely ==
  \A t, u \in IoThread :
    t # u /\ todo[t] # <<>> /\ Head(todo[t]).op = "NotifyKeepAliveResult" =>
      \A i \in 1..Len(todo[u]) : todo[u][i].op # "NotifyLoginResult"

In(x, q) == \E i \in 1..Len(q) : q[i] = x
LoginFirst(q) == \A i \in 1..Len(q) : q[i] = "login" => i = 1
OneInQueue(x, q) == \A i, j \in 1..Len(q) : q[i] = x /\ q[j] = x => i = j

Shaped == todo \in [IoThread -> Stacks]

\* Before the login is asked for, and until it is queued.
Fresh ==
  session = "new" =>
    /\ reports = <<>> /\ request_queue = <<>> /\ user_state = "None"
    /\ ~keep_alive_timer /\ \A t \in IoThread : todo[t] = <<>>
Asked ==
  \A t \in IoThread : todo[t] = Ask =>
    /\ reports = <<>> /\ request_queue = <<>> /\ user_state = "None"
    /\ ~keep_alive_timer /\ \A u \in IoThread : todo[u] \in {<<>>, Ask, Out}

\* The login is in one place: on its way to the queue, in front of it, on its
\* way to the session, or reported.
OneLogin ==
  /\ LoginFirst(request_queue)
  /\ \A t, u \in IoThread :
       todo[t] \in LoginStacks /\ todo[u] \in LoginStacks => t = u
  /\ \A t \in IoThread : todo[t] \in LoginStacks =>
       ~In("login", request_queue) /\ ~In("loginOk", reports)
  /\ ~(In("login", request_queue) /\ In("loginOk", reports))

\* Keep-alives begin when the login has succeeded, and there is one at a time.
Keeping ==
  \/ keep_alive_timer \/ In("keepalive", request_queue) \/ In("keepAliveFailed", reports)
  \/ \E t \in IoThread : todo[t] \in {AskKeep, KeepFailure}
Kept ==
  /\ Keeping =>
       /\ ~In("login", request_queue) /\ \A t \in IoThread : todo[t] # Answer
       /\ session = "alive" =>
            In("loginOk", reports) \/ \E t \in IoThread : todo[t] = Success
  /\ \A t \in IoThread : todo[t] = KeepFailure /\ session = "alive" =>
       In("loginOk", reports)
  /\ In("keepAliveFailed", reports) => In("loginOk", reports)
KeepQueued == Active /\ In("keepalive", request_queue)
OneKeepAlive ==
  /\ keep_alive_timer => ~KeepQueued /\ ~In("keepAliveFailed", reports)
  /\ KeepQueued => ~In("keepAliveFailed", reports)
  /\ \A t \in IoThread : todo[t] \in {AskKeep, KeepFailure} =>
       /\ ~keep_alive_timer /\ ~KeepQueued /\ ~In("keepAliveFailed", reports)
       /\ \A u \in IoThread : todo[u] \in {AskKeep, KeepFailure} => u = t
  /\ Active => OneInQueue("keepalive", request_queue)

\* A failed login is reported before its request is sent again, and never after
\* a success.
Failing ==
  \A t \in IoThread : todo[t] \in FailureStacks =>
    /\ ~In("loginOk", reports) /\ ~Keeping
    /\ \A u \in IoThread : todo[u] \notin LoginStacks
    /\ In("login", request_queue) /\ Active => todo[t] = FailureAgain

Ordered == Shaped /\ Fresh /\ Asked /\ OneLogin /\ Kept /\ OneKeepAlive /\ Failing

LEMMA StackParts ==
  /\ Stacks \subseteq Seq(Call)
  /\ <<>> \notin {Ask, AskOut, AskOutAgain, AskKeep, Again, Out, OutAgain, Failure,
                  FailureAgain, Answer, Success, KeepFailure}
  /\ Head(Ask) = Calls("InvokeConnection", "login") /\ Tail(Ask) = <<>>
  /\ Head(AskOut) = Calls("InvokeConnection", "logout") /\ Tail(AskOut) = <<>>
  /\ Head(AskOutAgain) = Calls("InvokeConnection", "logout") /\ Tail(AskOutAgain) = Again
  /\ Head(AskKeep) = Calls("InvokeConnection", "keepalive") /\ Tail(AskKeep) = <<>>
  /\ Head(Again) = Go("InvokeNextConnection") /\ Tail(Again) = <<>>
  /\ Head(Out) = Go("Logout") /\ Tail(Out) = <<>>
  /\ Head(OutAgain) = Go("Logout") /\ Tail(OutAgain) = Again
  /\ Head(Failure) = Calls("NotifyLoginResult", "failed") /\ Tail(Failure) = <<>>
  /\ Head(FailureAgain) = Calls("NotifyLoginResult", "failed") /\ Tail(FailureAgain) = Again
  /\ Head(Answer) = Go("LoggedIn") /\ Tail(Answer) = Success
  /\ Head(Success) = Calls("NotifyLoginResult", "ok") /\ Tail(Success) = <<>>
  /\ Head(KeepFailure) = Calls("NotifyKeepAliveResult", "failed") /\ Tail(KeepFailure) = <<>>
<1>1. \A c, d \in Call : /\ Head(<<c>>) = c /\ Tail(<<c>>) = <<>> /\ <<c>> # <<>>
                         /\ Head(<<c, d>>) = c /\ Tail(<<c, d>>) = <<d>> /\ <<c, d>> # <<>>
                         /\ <<c>> \in Seq(Call) /\ <<c, d>> \in Seq(Call)
  OBVIOUS
<1>2. /\ \A op \in Ops, a \in Method \cup Result : Calls(op, a) \in Call
      /\ \A op \in Ops : Go(op) \in Call
  BY DEF Calls, Go, Call
<1>3. /\ {"InvokeConnection", "InvokeNextConnection", "LoggedIn", "Logout",
          "NotifyLoginResult", "NotifyKeepAliveResult"} \subseteq Ops
      /\ {"login", "logout", "keepalive", "ok", "failed"} \subseteq Method \cup Result
  BY DEF Ops, Method, Result
<1>4. /\ Calls("InvokeConnection", "login") \in Call
      /\ Calls("InvokeConnection", "logout") \in Call
      /\ Calls("InvokeConnection", "keepalive") \in Call
      /\ Calls("NotifyLoginResult", "ok") \in Call
      /\ Calls("NotifyLoginResult", "failed") \in Call
      /\ Calls("NotifyKeepAliveResult", "failed") \in Call
      /\ Go("InvokeNextConnection") \in Call /\ Go("Logout") \in Call
      /\ Go("LoggedIn") \in Call
  BY <1>2, <1>3
<1>5. /\ Head(Ask) = Calls("InvokeConnection", "login") /\ Tail(Ask) = <<>>
      /\ Ask # <<>> /\ Ask \in Seq(Call)
      /\ Head(AskOut) = Calls("InvokeConnection", "logout") /\ Tail(AskOut) = <<>>
      /\ AskOut # <<>> /\ AskOut \in Seq(Call)
      /\ Head(AskKeep) = Calls("InvokeConnection", "keepalive") /\ Tail(AskKeep) = <<>>
      /\ AskKeep # <<>> /\ AskKeep \in Seq(Call)
      /\ Head(Again) = Go("InvokeNextConnection") /\ Tail(Again) = <<>>
      /\ Again # <<>> /\ Again \in Seq(Call)
      /\ Head(Out) = Go("Logout") /\ Tail(Out) = <<>>
      /\ Out # <<>> /\ Out \in Seq(Call)
      /\ Head(Failure) = Calls("NotifyLoginResult", "failed") /\ Tail(Failure) = <<>>
      /\ Failure # <<>> /\ Failure \in Seq(Call)
      /\ Head(Success) = Calls("NotifyLoginResult", "ok") /\ Tail(Success) = <<>>
      /\ Success # <<>> /\ Success \in Seq(Call)
      /\ Head(KeepFailure) = Calls("NotifyKeepAliveResult", "failed") /\ Tail(KeepFailure) = <<>>
      /\ KeepFailure # <<>> /\ KeepFailure \in Seq(Call)
  BY <1>1, <1>4 DEF Ask, AskOut, AskKeep, Again, Out, Failure, Success, KeepFailure
<1>6. /\ Head(AskOutAgain) = Calls("InvokeConnection", "logout") /\ Tail(AskOutAgain) = Again
      /\ AskOutAgain # <<>> /\ AskOutAgain \in Seq(Call)
      /\ Head(OutAgain) = Go("Logout") /\ Tail(OutAgain) = Again
      /\ OutAgain # <<>> /\ OutAgain \in Seq(Call)
      /\ Head(FailureAgain) = Calls("NotifyLoginResult", "failed") /\ Tail(FailureAgain) = Again
      /\ FailureAgain # <<>> /\ FailureAgain \in Seq(Call)
      /\ Head(Answer) = Go("LoggedIn") /\ Tail(Answer) = Success
      /\ Answer # <<>> /\ Answer \in Seq(Call)
  BY <1>1, <1>4 DEF AskOutAgain, OutAgain, FailureAgain, Answer, Again, Success
<1>7. <<>> \in Seq(Call)
  OBVIOUS
<1>8. QED
  BY <1>5, <1>6, <1>7 DEF Stacks

\* The parts of a call, whatever the stack.
LEMMA CallParts ==
  /\ \A op, a : Calls(op, a).op = op /\ Calls(op, a).arg = a
  /\ \A op : Go(op).op = op
BY DEF Calls, Go

LEMMA StackHeads ==
  /\ Head(Ask).op = "InvokeConnection" /\ Head(Ask).arg = "login"
  /\ Head(AskOut).op = "InvokeConnection" /\ Head(AskOut).arg = "logout"
  /\ Head(AskOutAgain).op = "InvokeConnection" /\ Head(AskOutAgain).arg = "logout"
  /\ Head(AskKeep).op = "InvokeConnection" /\ Head(AskKeep).arg = "keepalive"
  /\ Head(Again).op = "InvokeNextConnection"
  /\ Head(Out).op = "Logout" /\ Head(OutAgain).op = "Logout"
  /\ Head(Failure).op = "NotifyLoginResult" /\ Head(Failure).arg = "failed"
  /\ Head(FailureAgain).op = "NotifyLoginResult" /\ Head(FailureAgain).arg = "failed"
  /\ Head(Answer).op = "LoggedIn"
  /\ Head(Success).op = "NotifyLoginResult" /\ Head(Success).arg = "ok"
  /\ Head(KeepFailure).op = "NotifyKeepAliveResult"
BY StackParts, CallParts

\* No two of them are the same.
LEMMA StacksDiffer ==
  /\ <<>> \notin {Ask, AskOut, AskOutAgain, AskKeep, Again, Out, OutAgain, Failure,
                  FailureAgain, Answer, Success, KeepFailure}
  /\ Ask \notin {AskOut, AskOutAgain, AskKeep, Again, Out, OutAgain, Failure, FailureAgain,
                 Answer, Success, KeepFailure}
  /\ AskOut \notin {AskOutAgain, AskKeep, Again, Out, OutAgain, Failure, FailureAgain,
                    Answer, Success, KeepFailure}
  /\ AskOutAgain \notin {AskKeep, Again, Out, OutAgain, Failure, FailureAgain, Answer,
                         Success, KeepFailure}
  /\ AskKeep \notin {Again, Out, OutAgain, Failure, FailureAgain, Answer, Success,
                     KeepFailure}
  /\ Again \notin {Out, OutAgain, Failure, FailureAgain, Answer, Success, KeepFailure}
  /\ Out \notin {OutAgain, Failure, FailureAgain, Answer, Success, KeepFailure}
  /\ OutAgain \notin {Failure, FailureAgain, Answer, Success, KeepFailure}
  /\ Failure \notin {FailureAgain, Answer, Success, KeepFailure}
  /\ FailureAgain \notin {Answer, Success, KeepFailure}
  /\ Answer \notin {Success, KeepFailure}
  /\ Success # KeepFailure
<1>1. /\ Tail(AskOut) # Tail(AskOutAgain) /\ Tail(Out) # Tail(OutAgain)
      /\ Tail(Failure) # Tail(FailureAgain)
  BY StackParts
<1>2. <<>> \notin {Ask, AskOut, AskOutAgain, AskKeep, Again, Out, OutAgain, Failure,
                   FailureAgain, Answer, Success, KeepFailure}
  BY StackParts
<1>3. QED
  BY <1>1, <1>2, StackHeads

\* Which stack has an InvokeNextConnection in it.
LEMMA StacksPend == \A q \in Stacks : Pends(q) <=> q \in PendingStacks
<1>1. \A c, d \in Call :
        /\ Pends(<<c>>) <=> c.op = "InvokeNextConnection"
        /\ Pends(<<c, d>>) <=> c.op = "InvokeNextConnection" \/ d.op = "InvokeNextConnection"
        /\ ~Pends(<<>>)
  <2>1. ASSUME NEW c \in Call, NEW d \in Call
        PROVE  /\ Len(<<c>>) = 1 /\ <<c>>[1] = c /\ \A i \in 1..1 : i = 1
               /\ Len(<<c, d>>) = 2 /\ <<c, d>>[1] = c /\ <<c, d>>[2] = d
               /\ 1 \in 1..2 /\ 2 \in 1..2 /\ \A i \in 1..2 : i = 1 \/ i = 2
    OBVIOUS
  <2>2. ~Pends(<<>>)
    BY DEF Pends
  <2>3. ASSUME NEW c \in Call, NEW d \in Call
        PROVE  /\ Pends(<<c>>) <=> c.op = "InvokeNextConnection"
               /\ Pends(<<c, d>>) <=>
                    c.op = "InvokeNextConnection" \/ d.op = "InvokeNextConnection"
    <3>1. Pends(<<c>>) <=> c.op = "InvokeNextConnection"
      BY <2>1 DEF Pends
    <3>2. Pends(<<c, d>>) <=>
            c.op = "InvokeNextConnection" \/ d.op = "InvokeNextConnection"
      <4>1. ASSUME Pends(<<c, d>>)
            PROVE  c.op = "InvokeNextConnection" \/ d.op = "InvokeNextConnection"
        <5>1. PICK i \in 1..Len(<<c, d>>) : <<c, d>>[i].op = "InvokeNextConnection"
          BY <4>1 DEF Pends
        <5>2. i = 1 \/ i = 2
          BY <2>1
        <5>3. QED
          BY <2>1, <5>1, <5>2
      <4>2. ASSUME c.op = "InvokeNextConnection"
            PROVE  Pends(<<c, d>>)
        BY <2>1, <4>2 DEF Pends
      <4>3. ASSUME d.op = "InvokeNextConnection"
            PROVE  Pends(<<c, d>>)
        BY <2>1, <4>3 DEF Pends
      <4>4. QED
        BY <4>1, <4>2, <4>3
    <3>3. QED
      BY <3>1, <3>2
  <2>4. QED
    BY <2>2, <2>3
<1>2. /\ Calls("InvokeConnection", "login") \in Call
      /\ Calls("InvokeConnection", "logout") \in Call
      /\ Calls("InvokeConnection", "keepalive") \in Call
      /\ Calls("NotifyLoginResult", "ok") \in Call
      /\ Calls("NotifyLoginResult", "failed") \in Call
      /\ Calls("NotifyKeepAliveResult", "failed") \in Call
      /\ Go("InvokeNextConnection") \in Call /\ Go("Logout") \in Call
      /\ Go("LoggedIn") \in Call
  BY DEF Calls, Go, Call, Ops, Method, Result
<1>3. /\ Pends(Again) /\ Pends(AskOutAgain) /\ Pends(OutAgain) /\ Pends(FailureAgain)
  BY <1>1, <1>2, CallParts DEF Again, AskOutAgain, OutAgain, FailureAgain
<1>4. /\ ~Pends(Ask) /\ ~Pends(AskOut) /\ ~Pends(AskKeep) /\ ~Pends(Out)
      /\ ~Pends(Failure) /\ ~Pends(Answer) /\ ~Pends(Success) /\ ~Pends(KeepFailure)
  <2>1. /\ Calls("InvokeConnection", "login").op # "InvokeNextConnection"
        /\ Calls("InvokeConnection", "logout").op # "InvokeNextConnection"
        /\ Calls("InvokeConnection", "keepalive").op # "InvokeNextConnection"
        /\ Calls("NotifyLoginResult", "ok").op # "InvokeNextConnection"
        /\ Calls("NotifyLoginResult", "failed").op # "InvokeNextConnection"
        /\ Calls("NotifyKeepAliveResult", "failed").op # "InvokeNextConnection"
        /\ Go("Logout").op # "InvokeNextConnection"
        /\ Go("LoggedIn").op # "InvokeNextConnection"
    BY CallParts
  <2>2. ~Pends(Ask) /\ ~Pends(AskOut) /\ ~Pends(AskKeep) /\ ~Pends(Out)
    BY <1>1, <1>2, <2>1 DEF Ask, AskOut, AskKeep, Out
  <2>3. ~Pends(Failure) /\ ~Pends(Answer) /\ ~Pends(Success) /\ ~Pends(KeepFailure)
    BY <1>1, <1>2, <2>1 DEF Failure, Answer, Success, KeepFailure
  <2>4. QED
    BY <2>2, <2>3
<1>5. ~Pends(<<>>)
  BY <1>1, <1>2
<1>6. QED
  BY <1>3, <1>4, <1>5 DEF Stacks, PendingStacks

\* What is pushed onto what a call leaves.
LEMMA StacksPushed ==
  /\ \A q \in Stacks : <<>> \o q = q
  /\ \A c \in Call : <<c>> \o <<>> = <<c>>
  /\ <<Go("Logout")>> \o Again = OutAgain
  /\ <<Calls("InvokeConnection", "logout")>> \o Again = AskOutAgain
<1>1. \A q \in Stacks : <<>> \o q = q
  BY StackParts, ConcatEmptySeq
<1>2. ASSUME NEW c \in Call
      PROVE  <<c>> \o <<>> = <<c>>
  <2>1. <<c>> \in Seq(Call)
    OBVIOUS
  <2>2. QED
    BY <2>1, ConcatEmptySeq
<1>3. ASSUME NEW c \in Call, NEW d \in Call
      PROVE  <<c>> \o <<d>> = <<c, d>>
  <2>1. <<c>> \in Seq(Call) /\ <<d>> \in Seq(Call) /\ <<c, d>> \in Seq(Call)
    OBVIOUS
  <2>2. /\ <<c>> \o <<d>> \in Seq(Call) /\ Len(<<c>> \o <<d>>) = 2
        /\ (<<c>> \o <<d>>)[1] = c /\ (<<c>> \o <<d>>)[2] = d
    BY <2>1
  <2>3. \A i \in 1..2 : i = 1 \/ i = 2
    OBVIOUS
  <2>4. \A i \in 1..2 : (<<c>> \o <<d>>)[i] = <<c, d>>[i]
    BY <2>2, <2>3
  <2>5. QED
    BY <2>1, <2>2, <2>4, SeqEqual
<1>4. /\ Calls("InvokeConnection", "logout") \in Call
      /\ Go("InvokeNextConnection") \in Call /\ Go("Logout") \in Call
  BY DEF Calls, Go, Call, Ops, Method
<1>5. QED
  BY <1>1, <1>2, <1>3, <1>4 DEF Again, OutAgain, AskOutAgain

\* The calls, as moves from one stack to another.
Turn(t, p, q) == todo[t] = p /\ todo' = [todo EXCEPT ![t] = q]

LEMMA Turns ==
  ASSUME Shaped, NEW t \in IoThread
  PROVE  /\ InvokeConnection(t) =>
              \/ Turn(t, Ask, <<>>) /\ request_queue' = Append(request_queue, "login")
              \/ Turn(t, AskKeep, <<>>)
                 /\ request_queue' = Append(request_queue, "keepalive")
              \/ Turn(t, AskOut, <<>>) /\ request_queue' = Append(request_queue, "logout")
              \/ Turn(t, AskOutAgain, Again)
                 /\ request_queue' = Append(request_queue, "logout")
         /\ InvokeNextConnection(t) => Turn(t, Again, <<>>)
         /\ LoggedIn(t) => Turn(t, Answer, Success)
         /\ Logout(t) =>
              \/ Turn(t, Out, <<>>) \/ Turn(t, OutAgain, Again)
              \/ /\ user_state # "None"
                 /\ Turn(t, Out, AskOut) \/ Turn(t, OutAgain, AskOutAgain)
         /\ NotifyLoginResult(t) =>
              \/ /\ session = "alive"
                 /\ \/ Turn(t, Success, <<>>) /\ reports' = Append(reports, "loginOk")
                    \/ /\ Turn(t, Failure, Out) \/ Turn(t, FailureAgain, OutAgain)
                       /\ reports' = Append(reports, "loginFailed")
              \/ /\ session # "alive" /\ UNCHANGED reports
                 /\ \/ Turn(t, Success, <<>>) \/ Turn(t, Failure, <<>>)
                    \/ Turn(t, FailureAgain, Again)
         /\ NotifyKeepAliveResult(t) =>
              \/ /\ session = "alive" /\ Turn(t, KeepFailure, Out)
                 /\ reports' = Append(reports, "keepAliveFailed")
              \/ session # "alive" /\ UNCHANGED reports /\ Turn(t, KeepFailure, <<>>)
<1>1. todo[t] \in Stacks
  BY DEF Shaped
<1>2. <<>> \in Stacks /\ Again \in Stacks /\ Success \in Stacks
  BY DEF Stacks
<1>3. /\ At(t, "InvokeConnection") =>
           \/ todo[t] = Ask /\ Head(todo[t]).arg = "login"
           \/ todo[t] = AskKeep /\ Head(todo[t]).arg = "keepalive"
           \/ todo[t] \in {AskOut, AskOutAgain} /\ Head(todo[t]).arg = "logout"
      /\ At(t, "InvokeNextConnection") => todo[t] = Again
      /\ At(t, "LoggedIn") => todo[t] = Answer
      /\ At(t, "Logout") => todo[t] \in {Out, OutAgain}
      /\ At(t, "NotifyLoginResult") =>
           \/ todo[t] = Success /\ Head(todo[t]).arg = "ok"
           \/ todo[t] \in {Failure, FailureAgain} /\ Head(todo[t]).arg = "failed"
      /\ At(t, "NotifyKeepAliveResult") => todo[t] = KeepFailure
  BY <1>1, StackHeads DEF At, Stacks
<1>4. /\ Tail(Ask) = <<>> /\ Tail(AskKeep) = <<>> /\ Tail(AskOut) = <<>>
      /\ Tail(AskOutAgain) = Again /\ Tail(Again) = <<>> /\ Tail(Answer) = Success
      /\ Tail(Out) = <<>> /\ Tail(OutAgain) = Again /\ Tail(Success) = <<>>
      /\ Tail(Failure) = <<>> /\ Tail(FailureAgain) = Again /\ Tail(KeepFailure) = <<>>
  BY StackParts
<1>5. /\ <<>> \o <<>> = <<>> /\ <<>> \o Again = Again /\ <<>> \o Success = Success
      /\ <<Go("Logout")>> \o <<>> = Out
      /\ <<Calls("InvokeConnection", "logout")>> \o <<>> = AskOut
      /\ <<Go("Logout")>> \o Again = OutAgain
      /\ <<Calls("InvokeConnection", "logout")>> \o Again = AskOutAgain
  <2>1. Calls("InvokeConnection", "logout") \in Call /\ Go("Logout") \in Call
    BY DEF Calls, Go, Call, Ops, Method
  <2>2. QED
    BY <1>2, <2>1, StacksPushed DEF Out, AskOut
<1>6. InvokeConnection(t) =>
        \/ Turn(t, Ask, <<>>) /\ request_queue' = Append(request_queue, "login")
        \/ Turn(t, AskKeep, <<>>) /\ request_queue' = Append(request_queue, "keepalive")
        \/ Turn(t, AskOut, <<>>) /\ request_queue' = Append(request_queue, "logout")
        \/ Turn(t, AskOutAgain, Again) /\ request_queue' = Append(request_queue, "logout")
  BY <1>3, <1>4, <1>5 DEF InvokeConnection, Then, Turn
<1>7. /\ InvokeNextConnection(t) => Turn(t, Again, <<>>)
      /\ LoggedIn(t) => Turn(t, Answer, Success)
  BY <1>3, <1>4, <1>5 DEF InvokeNextConnection, LoggedIn, Then, Turn
<1>8. Logout(t) =>
        \/ Turn(t, Out, <<>>) \/ Turn(t, OutAgain, Again)
        \/ /\ user_state # "None"
           /\ Turn(t, Out, AskOut) \/ Turn(t, OutAgain, AskOutAgain)
  BY <1>3, <1>4, <1>5 DEF Logout, Then, Turn
<1>9. NotifyLoginResult(t) =>
        \/ /\ session = "alive"
           /\ \/ Turn(t, Success, <<>>) /\ reports' = Append(reports, "loginOk")
              \/ /\ Turn(t, Failure, Out) \/ Turn(t, FailureAgain, OutAgain)
                 /\ reports' = Append(reports, "loginFailed")
        \/ /\ session # "alive" /\ UNCHANGED reports
           /\ \/ Turn(t, Success, <<>>) \/ Turn(t, Failure, <<>>)
              \/ Turn(t, FailureAgain, Again)
  BY <1>3, <1>4, <1>5 DEF NotifyLoginResult, Then, Turn
<1>10. NotifyKeepAliveResult(t) =>
         \/ /\ session = "alive" /\ Turn(t, KeepFailure, Out)
            /\ reports' = Append(reports, "keepAliveFailed")
         \/ session # "alive" /\ UNCHANGED reports /\ Turn(t, KeepFailure, <<>>)
  BY <1>3, <1>4, <1>5 DEF NotifyKeepAliveResult, Then, Turn
<1>11. QED
  BY <1>6, <1>7, <1>8, <1>9, <1>10

\* Queues and reports.
LEMMA Queues ==
  /\ \A x : ~In(x, <<>>)
  /\ \A S : \A q \in Seq(S), y \in S : \A x :
       In(x, Append(q, y)) <=> In(x, q) \/ x = y
  /\ \A S : \A q \in Seq(S) : q # <<>> =>
       /\ In(Head(q), q)
       /\ \A x : /\ In(x, Tail(q)) => In(x, q)
                 /\ OneInQueue(x, q) => OneInQueue(x, Tail(q))
                 /\ OneInQueue(x, q) /\ Head(q) = x => ~In(x, Tail(q))
       /\ LoginFirst(q) => LoginFirst(Tail(q)) /\ ~In("login", Tail(q))
  /\ \A S : \A q \in Seq(S), y \in S :
       /\ LoginFirst(q) /\ (y = "login" => q = <<>>) => LoginFirst(Append(q, y))
       /\ \A x : OneInQueue(x, q) /\ (y = x => ~In(x, q)) => OneInQueue(x, Append(q, y))
       /\ \A x : q = <<>> => OneInQueue(x, Append(q, y))
<1>1. \A x : ~In(x, <<>>)
  BY DEF In
<1>2. ASSUME NEW S, NEW q \in Seq(S), NEW y \in S
      PROVE  /\ Append(q, y) \in Seq(S) /\ Len(Append(q, y)) = Len(q) + 1 /\ Len(q) \in Nat
             /\ \A i \in 1..Len(q) : i \in 1..(Len(q) + 1) /\ Append(q, y)[i] = q[i]
             /\ Len(q) + 1 \in 1..(Len(q) + 1) /\ Append(q, y)[Len(q) + 1] = y
             /\ \A i \in 1..(Len(q) + 1) : i \in 1..Len(q) \/ i = Len(q) + 1
             /\ q = <<>> <=> Len(q) = 0
  OBVIOUS
<1>3. ASSUME NEW S, NEW q \in Seq(S), NEW y \in S, NEW x
      PROVE  In(x, Append(q, y)) <=> In(x, q) \/ x = y
  BY <1>2 DEF In
<1>4. ASSUME NEW S, NEW q \in Seq(S), q # <<>>
      PROVE  /\ Head(q) = q[1] /\ 1 \in 1..Len(q) /\ Len(Tail(q)) = Len(q) - 1
             /\ Len(q) \in Nat \ {0}
             /\ \A i \in 1..Len(Tail(q)) :
                  i + 1 \in 1..Len(q) /\ Tail(q)[i] = q[i + 1] /\ i + 1 # 1
             /\ \A i, j \in 1..Len(Tail(q)) : i + 1 = j + 1 => i = j
  BY <1>4
<1>5. ASSUME NEW S, NEW q \in Seq(S), q # <<>>
      PROVE  /\ In(Head(q), q)
             /\ \A x : /\ In(x, Tail(q)) => In(x, q)
                       /\ OneInQueue(x, q) => OneInQueue(x, Tail(q))
                       /\ OneInQueue(x, q) /\ Head(q) = x => ~In(x, Tail(q))
             /\ LoginFirst(q) => LoginFirst(Tail(q)) /\ ~In("login", Tail(q))
  <2>1. In(Head(q), q)
    BY <1>4, <1>5 DEF In
  <2>2. \A x : In(x, Tail(q)) => In(x, q)
    BY <1>4, <1>5 DEF In
  <2>3. ASSUME NEW x, OneInQueue(x, q)
        PROVE  OneInQueue(x, Tail(q)) /\ (Head(q) = x => ~In(x, Tail(q)))
    BY <1>4, <1>5, <2>3 DEF In, OneInQueue
  <2>4. ASSUME LoginFirst(q)
        PROVE  LoginFirst(Tail(q)) /\ ~In("login", Tail(q))
    BY <1>4, <1>5, <2>4 DEF In, LoginFirst
  <2>5. QED
    BY <2>1, <2>2, <2>3, <2>4
<1>6. ASSUME NEW S, NEW q \in Seq(S), NEW y \in S
      PROVE  /\ LoginFirst(q) /\ (y = "login" => q = <<>>) => LoginFirst(Append(q, y))
             /\ \A x : OneInQueue(x, q) /\ (y = x => ~In(x, q)) => OneInQueue(x, Append(q, y))
             /\ \A x : q = <<>> => OneInQueue(x, Append(q, y))
  <2>1. LoginFirst(q) /\ (y = "login" => q = <<>>) => LoginFirst(Append(q, y))
    BY <1>2 DEF LoginFirst
  <2>2. ASSUME NEW x, OneInQueue(x, q), y = x => ~In(x, q)
        PROVE  OneInQueue(x, Append(q, y))
    BY <1>2, <2>2 DEF OneInQueue, In
  <2>3. ASSUME NEW x, q = <<>>
        PROVE  OneInQueue(x, Append(q, y))
    BY <1>2, <2>3 DEF OneInQueue
  <2>4. QED
    BY <2>1, <2>2, <2>3
<1>7. QED
  BY <1>1, <1>3, <1>5, <1>6

\* In a timely state no success waits to be reported beside a failed keep-alive.
LEMMA TimelyStacks ==
  ASSUME Timely', todo \in [IoThread -> Stacks],
         NEW t \in IoThread, todo[t] = <<>>, todo' = [todo EXCEPT ![t] = KeepFailure]
  PROVE  \A u \in IoThread : todo[u] # Success
<1>1. SUFFICES ASSUME NEW u \in IoThread, todo[u] = Success
               PROVE  FALSE
  OBVIOUS
<1>2. u # t /\ todo'[u] = Success /\ todo'[t] = KeepFailure
  BY <1>1, StacksDiffer
<1>3. KeepFailure # <<>> /\ Head(KeepFailure).op = "NotifyKeepAliveResult"
  BY StackHeads, StacksDiffer
<1>4. 1 \in 1..Len(Success) /\ Success[1].op = "NotifyLoginResult"
  BY CallParts DEF Success
<1>5. \A i \in 1..Len(todo'[u]) : todo'[u][i].op # "NotifyLoginResult"
  BY <1>2, <1>3 DEF Timely
<1>6. QED
  BY <1>2, <1>4, <1>5

-----------------------------------------------------------------------------
\* What the steps say of the exchange.
TypeIn == reports \in Seq(Report) /\ session \in {"new", "alive", "expired"}

LEMMA ActiveSame ==
  ASSUME Shaped, NEW t \in IoThread, NEW p, NEW q \in Stacks, Turn(t, p, q),
         q \in PendingStacks => p \in PendingStacks, UNCHANGED <<async, retry_timer>>
  PROVE  Active' => Active
<1>1. todo[t] \in Stacks /\ todo[t] = p /\ todo' = [todo EXCEPT ![t] = q]
  BY DEF Shaped, Turn
<1>2. Pends(q) => Pends(p)
  BY <1>1, StacksPend
<1>3. \A u \in IoThread : Pends(todo'[u]) => Pends(todo[u])
  BY <1>1, <1>2 DEF Shaped
<1>4. QED
  BY <1>3 DEF Active

\* The session goes.
LEMMA OrderedExpires ==
  ASSUME TypeIn, IInv, Ordered, SessionExpires
  PROVE  Ordered'
<1> USE DEF Ordered
<1>1. /\ session = "alive" /\ session' = "expired" /\ (Active' => Active)
      /\ UNCHANGED <<todo, request_queue, keep_alive_timer, reports, user_state>>
  BY DEF SessionExpires, Active, exchange
<1>2. Fresh'
  BY <1>1, StacksDiffer DEF Fresh
<1>3. Asked'
  BY <1>1, StacksDiffer DEF Fresh, Asked, OneLogin, LoginStacks
<1>4. OneLogin'
  BY <1>1, StacksDiffer DEF Fresh, Asked, OneLogin, LoginStacks, Kept, Keeping
<1>5. Kept'
  BY <1>1, StacksDiffer DEF Asked, OneLogin, LoginStacks, Kept, Keeping
<1>6. OneKeepAlive'
  BY <1>1, StacksDiffer DEF Asked, Kept, Keeping, OneKeepAlive, KeepQueued
<1>7. Failing'
  BY <1>1, StacksDiffer DEF Asked, OneLogin, Kept, Failing, FailureStacks, LoginStacks, Keeping
<1>8. Shaped'
  BY <1>1 DEF Shaped, Stacks
<1>9. QED
  BY <1>2, <1>3, <1>4, <1>5, <1>6, <1>7, <1>8

\* A step of the exchange that only goes on with it.
LEMMA OrderedInner ==
  ASSUME TypeIn, IInv, Ordered, Active, UNCHANGED <<todo, request_queue, keep_alive_timer, session, reports>>
  PROVE  Ordered'
<1> USE DEF Ordered
<1>1. /\ request_queue # <<>> /\ Active
      /\ UNCHANGED <<todo, request_queue, keep_alive_timer, session, reports>>
  BY DEF IInv, Queued
<1>2. Fresh'
  BY <1>1, StacksDiffer DEF Fresh
<1>3. Asked'
  BY <1>1, StacksDiffer DEF Fresh, Asked, OneLogin, LoginStacks
<1>4. OneLogin'
  BY <1>1, StacksDiffer DEF Fresh, Asked, OneLogin, LoginStacks, Kept, Keeping
<1>5. Kept'
  BY <1>1, StacksDiffer DEF Asked, OneLogin, LoginStacks, Kept, Keeping
<1>6. OneKeepAlive'
  BY <1>1, StacksDiffer DEF Asked, Kept, Keeping, OneKeepAlive, KeepQueued
<1>7. Failing'
  BY <1>1, StacksDiffer DEF Asked, OneLogin, Kept, Failing, FailureStacks, LoginStacks, Keeping
<1>8. Shaped'
  BY <1>1 DEF Shaped, Stacks
<1>9. QED
  BY <1>2, <1>3, <1>4, <1>5, <1>6, <1>7, <1>8

\* The front request is to be sent again.
LEMMA OrderedAgain ==
  ASSUME TypeIn, IInv, Ordered, Active,
         NEW t \in IoThread, Turn(t, <<>>, Again),
         UNCHANGED <<request_queue, keep_alive_timer, session, reports, user_state>>
  PROVE  Ordered'
<1> USE DEF Ordered
<1>1. /\ request_queue # <<>> /\ Active /\ todo[t] = <<>>
      /\ todo \in [IoThread -> Stacks] /\ todo' = [todo EXCEPT ![t] = Again]
      /\ UNCHANGED <<request_queue, keep_alive_timer, session, reports, user_state>>
  BY DEF IInv, Queued, Turn, Shaped
<1>2. Fresh'
  BY <1>1, StacksDiffer DEF Fresh
<1>3. Asked'
  BY <1>1, StacksDiffer DEF Fresh, Asked, OneLogin, LoginStacks
<1>4. OneLogin'
  BY <1>1, StacksDiffer DEF Fresh, Asked, OneLogin, LoginStacks, Kept, Keeping
<1>5. Kept'
  BY <1>1, StacksDiffer DEF Asked, OneLogin, LoginStacks, Kept, Keeping
<1>6. OneKeepAlive'
  BY <1>1, StacksDiffer DEF Asked, Kept, Keeping, OneKeepAlive, KeepQueued
<1>7. Failing'
  BY <1>1, StacksDiffer DEF Asked, OneLogin, Kept, Failing, FailureStacks, LoginStacks, Keeping
<1>8. Shaped'
  BY <1>1 DEF Shaped, Stacks
<1>9. QED
  BY <1>2, <1>3, <1>4, <1>5, <1>6, <1>7, <1>8

\* A failed login is to be reported.
LEMMA OrderedFailure ==
  ASSUME TypeIn, IInv, Ordered, Active, Head(request_queue) = "login",
         NEW t \in IoThread, NEW q \in FailureStacks, Turn(t, <<>>, q),
         q = FailureAgain \/ ~Active',
         UNCHANGED <<request_queue, keep_alive_timer, session, reports>>
  PROVE  Ordered'
<1> USE DEF Ordered
<1>1. /\ request_queue # <<>> /\ Active /\ todo[t] = <<>>
      /\ todo \in [IoThread -> Stacks] /\ todo' = [todo EXCEPT ![t] = q]
      /\ q \in {Failure, FailureAgain} /\ (q = FailureAgain \/ ~Active')
      /\ UNCHANGED <<request_queue, keep_alive_timer, session, reports>>
  BY DEF IInv, Queued, Turn, Shaped, FailureStacks
<1>2. In("login", request_queue)
  BY <1>1, Queues DEF IInv, QueueOK
<1>3. q \in Stacks /\ q \notin {<<>>, Ask, Answer, Success, AskKeep, KeepFailure, Out}
  <2>1. CASE q = Failure
    BY <2>1, StacksDiffer DEF Stacks
  <2>2. CASE q = FailureAgain
    BY <2>2, StacksDiffer DEF Stacks
  <2>3. QED
    BY <1>1, <2>1, <2>2
<1>4. Fresh'
  BY <1>1, <1>2, <1>3, StacksDiffer DEF Fresh
<1>5. Asked'
  BY <1>1, <1>2, <1>3, StacksDiffer DEF Fresh, Asked, OneLogin, LoginStacks
<1>6. OneLogin'
  BY <1>1, <1>2, <1>3, StacksDiffer DEF Fresh, Asked, OneLogin, LoginStacks, Kept, Keeping
<1>7. Kept'
  BY <1>1, <1>2, <1>3, StacksDiffer DEF Asked, OneLogin, LoginStacks, Kept, Keeping
<1>8. OneKeepAlive'
  BY <1>1, <1>2, <1>3, StacksDiffer DEF Asked, Kept, Keeping, OneKeepAlive, KeepQueued
<1>9. Failing'
  BY <1>1, <1>2, <1>3, StacksDiffer DEF Asked, OneLogin, Kept, Failing, FailureStacks, LoginStacks, Keeping
<1>10. Shaped'
  BY <1>1, <1>3 DEF Shaped
<1>11. QED
  BY <1>4, <1>5, <1>6, <1>7, <1>8, <1>9, <1>10

\* A keep-alive that could not be sent is to be reported.
LEMMA OrderedKeepFailure ==
  ASSUME TypeIn, IInv, Ordered, Timely',
         Active, ~Active', Head(request_queue) = "keepalive",
         NEW t \in IoThread, Turn(t, <<>>, KeepFailure),
         UNCHANGED <<request_queue, keep_alive_timer, session, reports>>
  PROVE  Ordered'
<1> USE DEF Ordered
<1>1. /\ request_queue # <<>> /\ Active /\ ~Active' /\ todo[t] = <<>>
      /\ todo \in [IoThread -> Stacks] /\ todo' = [todo EXCEPT ![t] = KeepFailure]
      /\ UNCHANGED <<request_queue, keep_alive_timer, session, reports>>
  BY DEF IInv, Queued, Turn, Shaped
<1>2. In("keepalive", request_queue)
  BY <1>1, Queues DEF IInv, QueueOK
<1>3. \A u \in IoThread : todo[u] # Success
  BY <1>1, TimelyStacks
<1>4. Fresh'
  BY <1>1, <1>2, <1>3, StacksDiffer DEF Fresh
<1>5. Asked'
  BY <1>1, <1>2, <1>3, StacksDiffer DEF Fresh, Asked, OneLogin, LoginStacks
<1>6. OneLogin'
  BY <1>1, <1>2, <1>3, StacksDiffer DEF Fresh, Asked, OneLogin, LoginStacks, Kept, Keeping
<1>7. Kept'
  BY <1>1, <1>2, <1>3, StacksDiffer DEF Asked, OneLogin, LoginStacks, Kept, Keeping
<1>8. OneKeepAlive'
  BY <1>1, <1>2, <1>3, StacksDiffer DEF Asked, Kept, Keeping, OneKeepAlive, KeepQueued
<1>9. Failing'
  BY <1>1, <1>2, <1>3, StacksDiffer DEF Asked, OneLogin, Kept, Failing, FailureStacks, LoginStacks, Keeping
<1>10. Shaped'
  BY <1>1, <1>2, <1>3 DEF Shaped, Stacks
<1>11. QED
  BY <1>4, <1>5, <1>6, <1>7, <1>8, <1>9, <1>10

-----------------------------------------------------------------------------
\* The login is asked for.
LEMMA OrderedLogin ==
  ASSUME TypeIn, IInv, Ordered, NEW t \in IoThread, Login(t)
  PROVE  Ordered'
<1> USE DEF Ordered
<1>1. /\ session = "new" /\ session' = "alive"
      /\ todo[t] = <<>> /\ todo \in [IoThread -> Stacks]
      /\ todo' = [todo EXCEPT ![t] = Ask]
      /\ UNCHANGED <<request_queue, keep_alive_timer, reports, user_state>>
  BY DEF Login, Ready, Start, exchange, Ask, Shaped
<1>2. /\ reports = <<>> /\ request_queue = <<>> /\ ~keep_alive_timer
      /\ user_state = "None" /\ \A u \in IoThread : todo[u] = <<>>
  BY <1>1 DEF Fresh
<1>3. \A x : ~In(x, reports) /\ ~In(x, request_queue)
  BY <1>2, Queues
<1>4. ~Active'
  BY <1>1, <1>2, ActiveSame, StacksDiffer DEF IInv, Queued, Turn, Login, exchange, Shaped, Stacks, PendingStacks
<1>5. Fresh'
  BY <1>1, <1>2, <1>3, <1>4, StacksDiffer DEF Fresh
<1>6. Asked'
  BY <1>1, <1>2, <1>3, <1>4, StacksDiffer DEF Fresh, Asked, OneLogin, LoginStacks
<1>7. OneLogin'
  BY <1>1, <1>2, <1>3, <1>4, StacksDiffer DEF Fresh, Asked, OneLogin, LoginStacks, Kept, Keeping
<1>8. Kept'
  BY <1>1, <1>2, <1>3, <1>4, StacksDiffer DEF Asked, OneLogin, LoginStacks, Kept, Keeping
<1>9. OneKeepAlive'
  BY <1>1, <1>2, <1>3, <1>4, StacksDiffer DEF Asked, Kept, Keeping, OneKeepAlive, KeepQueued
<1>10. Failing'
  BY <1>1, <1>2, <1>3, <1>4, StacksDiffer DEF Asked, OneLogin, Kept, Failing, FailureStacks, LoginStacks, Keeping
<1>11. Shaped'
  BY <1>1, <1>2, <1>3, <1>4 DEF Shaped, Stacks
<1>12. QED
  BY <1>5, <1>6, <1>7, <1>8, <1>9, <1>10, <1>11

\* The session stops.
LEMMA OrderedStop ==
  ASSUME TypeIn, IInv, Ordered, NEW t \in IoThread, SessionStop(t)
  PROVE  Ordered'
<1> USE DEF Ordered
<1>1. /\ session = "alive"
      /\ todo[t] = <<>> /\ todo \in [IoThread -> Stacks]
      /\ todo' = [todo EXCEPT ![t] = Out]
      /\ UNCHANGED <<request_queue, keep_alive_timer, reports, user_state, session>>
  BY DEF SessionStop, Ready, Start, exchange, Out, Shaped
<1>2. Active' => Active
  BY <1>1, ActiveSame, StacksDiffer DEF Turn, SessionStop, exchange, Shaped, Stacks, PendingStacks
<1>3. Fresh'
  BY <1>1, <1>2, StacksDiffer DEF Fresh
<1>4. Asked'
  BY <1>1, <1>2, StacksDiffer DEF Fresh, Asked, OneLogin, LoginStacks
<1>5. OneLogin'
  BY <1>1, <1>2, StacksDiffer DEF Fresh, Asked, OneLogin, LoginStacks, Kept, Keeping
<1>6. Kept'
  BY <1>1, <1>2, StacksDiffer DEF Asked, OneLogin, LoginStacks, Kept, Keeping
<1>7. OneKeepAlive'
  BY <1>1, <1>2, StacksDiffer DEF Asked, Kept, Keeping, OneKeepAlive, KeepQueued
<1>8. Failing'
  BY <1>1, <1>2, StacksDiffer DEF Asked, OneLogin, Kept, Failing, FailureStacks, LoginStacks, Keeping
<1>9. Shaped'
  BY <1>1, <1>2 DEF Shaped, Stacks
<1>10. QED
  BY <1>3, <1>4, <1>5, <1>6, <1>7, <1>8, <1>9

\* The keep-alive timer expires when there is no need to keep alive.
LEMMA OrderedTimer ==
  ASSUME TypeIn, IInv, Ordered, keep_alive_timer, ~keep_alive_timer',
         Active' => Active, UNCHANGED <<todo, request_queue, session, reports, user_state>>
  PROVE  Ordered'
<1> USE DEF Ordered
<1>1. /\ keep_alive_timer /\ ~keep_alive_timer' /\ (Active' => Active)
      /\ UNCHANGED <<todo, request_queue, session, reports, user_state>>
  OBVIOUS
<1>2. Fresh'
  BY <1>1, StacksDiffer DEF Fresh
<1>3. Asked'
  BY <1>1, StacksDiffer DEF Fresh, Asked, OneLogin, LoginStacks
<1>4. OneLogin'
  BY <1>1, StacksDiffer DEF Fresh, Asked, OneLogin, LoginStacks, Kept, Keeping
<1>5. Kept'
  BY <1>1, StacksDiffer DEF Asked, OneLogin, LoginStacks, Kept, Keeping
<1>6. OneKeepAlive'
  BY <1>1, StacksDiffer DEF Asked, Kept, Keeping, OneKeepAlive, KeepQueued
<1>7. Failing'
  BY <1>1, StacksDiffer DEF Asked, OneLogin, Kept, Failing, FailureStacks, LoginStacks, Keeping
<1>8. Shaped'
  BY <1>1 DEF Shaped, Stacks
<1>9. QED
  BY <1>2, <1>3, <1>4, <1>5, <1>6, <1>7, <1>8

\* The keep-alive timer expires, and a keep-alive is to be sent.
LEMMA OrderedKeepAlive ==
  ASSUME TypeIn, IInv, Ordered, keep_alive_timer, ~keep_alive_timer',
         Active' => Active, NEW t \in IoThread, Turn(t, <<>>, AskKeep),
         UNCHANGED <<request_queue, session, reports, user_state>>
  PROVE  Ordered'
<1> USE DEF Ordered
<1>1. /\ keep_alive_timer /\ ~keep_alive_timer' /\ (Active' => Active)
      /\ todo[t] = <<>> /\ todo \in [IoThread -> Stacks]
      /\ todo' = [todo EXCEPT ![t] = AskKeep]
      /\ UNCHANGED <<request_queue, session, reports, user_state>>
  BY DEF Turn, Shaped
<1>2. Fresh'
  BY <1>1, StacksDiffer DEF Fresh
<1>3. Asked'
  BY <1>1, StacksDiffer DEF Fresh, Asked, OneLogin, LoginStacks
<1>4. OneLogin'
  BY <1>1, StacksDiffer DEF Fresh, Asked, OneLogin, LoginStacks, Kept, Keeping
<1>5. Kept'
  BY <1>1, StacksDiffer DEF Asked, OneLogin, LoginStacks, Kept, Keeping
<1>6. OneKeepAlive'
  BY <1>1, StacksDiffer DEF Asked, Kept, Keeping, OneKeepAlive, KeepQueued
<1>7. Failing'
  BY <1>1, StacksDiffer DEF Asked, OneLogin, Kept, Failing, FailureStacks, LoginStacks, Keeping
<1>8. Shaped'
  BY <1>1 DEF Shaped, Stacks
<1>9. QED
  BY <1>2, <1>3, <1>4, <1>5, <1>6, <1>7, <1>8

\* The login has succeeded.
LEMMA OrderedAnswer ==
  ASSUME TypeIn, IInv, Ordered, Active, ~Active', request_queue' = Tail(request_queue),
         Head(request_queue) = "login", 
         \A u \in IoThread : ~Pends(todo[u]), NEW t \in IoThread, Turn(t, <<>>, Answer),
         UNCHANGED <<keep_alive_timer, session, reports, user_state>>
  PROVE  Ordered'
<1> USE DEF Ordered
<1>1. /\ request_queue # <<>> /\ Active /\ ~Active' /\ request_queue' = Tail(request_queue)
      /\ Head(request_queue) = "login"
      /\ todo[t] = <<>> /\ todo \in [IoThread -> Stacks]
      /\ todo' = [todo EXCEPT ![t] = Answer]
      /\ UNCHANGED <<keep_alive_timer, session, reports, user_state>>
  BY DEF Turn, Shaped, IInv, Queued
<1>2. /\ In("keepalive", request_queue') => In("keepalive", request_queue)
      /\ In("login", request_queue') => In("login", request_queue)
      /\ OneInQueue("keepalive", request_queue) => OneInQueue("keepalive", request_queue')
      /\ LoginFirst(request_queue') /\ ~In("login", request_queue')
  BY <1>1, Queues DEF IInv, QueueOK, OneLogin
<1>3. In("login", request_queue)
  BY <1>1, Queues DEF IInv, QueueOK
<1>4. \A u \in IoThread : todo[u] # FailureAgain
  BY StacksPend DEF Stacks, PendingStacks
<1>5. \A u \in IoThread : todo[u] \notin FailureStacks
  BY <1>1, <1>3, <1>4 DEF Failing, FailureStacks
<1>6. ~Keeping
  BY <1>3 DEF Kept
<1>7. ~Keeping'
  BY <1>1, <1>2, <1>6, StacksDiffer DEF Keeping
<1>8. Fresh'
  BY <1>1, <1>2, <1>3, <1>4, <1>5, <1>6, <1>7, StacksDiffer DEF Fresh
<1>9. Asked'
  BY <1>1, <1>2, <1>3, <1>4, <1>5, <1>6, <1>7, StacksDiffer DEF Fresh, Asked, OneLogin, LoginStacks
<1>10. OneLogin'
  BY <1>1, <1>2, <1>3, <1>4, <1>5, <1>6, <1>7, StacksDiffer DEF Fresh, Asked, OneLogin, LoginStacks, Kept, Keeping
<1>11. Kept'
  BY <1>1, <1>7, StacksDiffer DEF Kept, Keeping
<1>12. OneKeepAlive'
  BY <1>1, <1>2, <1>3, <1>4, <1>5, <1>6, <1>7, StacksDiffer DEF Asked, Kept, Keeping, OneKeepAlive, KeepQueued
<1>13. Failing'
  BY <1>1, <1>2, <1>3, <1>5, <1>7, StacksDiffer DEF Failing, OneLogin, FailureStacks, LoginStacks
<1>14. Shaped'
  BY <1>1, <1>2, <1>3, <1>4, <1>5, <1>6, <1>7 DEF Shaped, Stacks
<1>15. QED
  BY <1>8, <1>9, <1>10, <1>11, <1>12, <1>13, <1>14

\* The login has failed.
LEMMA OrderedRefused ==
  ASSUME TypeIn, IInv, Ordered, Active, ~Active', request_queue' = Tail(request_queue),
         Head(request_queue) = "login", 
         \A u \in IoThread : ~Pends(todo[u]), NEW t \in IoThread, Turn(t, <<>>, Failure),
         UNCHANGED <<keep_alive_timer, session, reports, user_state>>
  PROVE  Ordered'
<1> USE DEF Ordered
<1>1. /\ request_queue # <<>> /\ Active /\ ~Active' /\ request_queue' = Tail(request_queue)
      /\ Head(request_queue) = "login"
      /\ todo[t] = <<>> /\ todo \in [IoThread -> Stacks]
      /\ todo' = [todo EXCEPT ![t] = Failure]
      /\ UNCHANGED <<keep_alive_timer, session, reports, user_state>>
  BY DEF Turn, Shaped, IInv, Queued
<1>2. /\ In("keepalive", request_queue') => In("keepalive", request_queue)
      /\ In("login", request_queue') => In("login", request_queue)
      /\ OneInQueue("keepalive", request_queue) => OneInQueue("keepalive", request_queue')
      /\ LoginFirst(request_queue') /\ ~In("login", request_queue')
  BY <1>1, Queues DEF IInv, QueueOK, OneLogin
<1>3. In("login", request_queue)
  BY <1>1, Queues DEF IInv, QueueOK
<1>4. \A u \in IoThread : todo[u] # FailureAgain
  BY StacksPend DEF Stacks, PendingStacks
<1>5. \A u \in IoThread : todo[u] \notin FailureStacks
  BY <1>1, <1>3, <1>4 DEF Failing, FailureStacks
<1>6. ~Keeping
  BY <1>3 DEF Kept
<1>7. ~Keeping'
  BY <1>1, <1>2, <1>6, StacksDiffer DEF Keeping
<1>8. Fresh'
  BY <1>1, <1>2, <1>3, <1>4, <1>5, <1>6, <1>7, StacksDiffer DEF Fresh
<1>9. Asked'
  BY <1>1, <1>2, <1>3, <1>4, <1>5, <1>6, <1>7, StacksDiffer DEF Fresh, Asked, OneLogin, LoginStacks
<1>10. OneLogin'
  BY <1>1, <1>2, <1>3, <1>4, <1>5, <1>6, <1>7, StacksDiffer DEF Fresh, Asked, OneLogin, LoginStacks, Kept, Keeping
<1>11. Kept'
  BY <1>1, <1>7, StacksDiffer DEF Kept, Keeping
<1>12. OneKeepAlive'
  BY <1>1, <1>2, <1>3, <1>4, <1>5, <1>6, <1>7, StacksDiffer DEF Asked, Kept, Keeping, OneKeepAlive, KeepQueued
<1>13. Failing'
  BY <1>1, <1>2, <1>3, <1>5, <1>7, StacksDiffer DEF Failing, OneLogin, FailureStacks, LoginStacks
<1>14. Shaped'
  BY <1>1, <1>2, <1>3, <1>4, <1>5, <1>6, <1>7 DEF Shaped, Stacks
<1>15. QED
  BY <1>8, <1>9, <1>10, <1>11, <1>12, <1>13, <1>14

\* A keep-alive is answered, and the next one may be due.
LEMMA OrderedKept ==
  ASSUME TypeIn, IInv, Ordered, Active, ~Active', request_queue' = Tail(request_queue),
         Head(request_queue) = "keepalive", 
         keep_alive_timer' \in {keep_alive_timer, TRUE},
         UNCHANGED <<todo, session, reports, user_state>>
  PROVE  Ordered'
<1> USE DEF Ordered
<1>1. /\ request_queue # <<>> /\ Active /\ ~Active' /\ request_queue' = Tail(request_queue)
      /\ Head(request_queue) = "keepalive"
      /\ keep_alive_timer' \in {keep_alive_timer, TRUE}
      /\ UNCHANGED <<todo, session, reports, user_state>>
  BY DEF IInv, Queued
<1>2. /\ In("keepalive", request_queue') => In("keepalive", request_queue)
      /\ In("login", request_queue') => In("login", request_queue)
      /\ OneInQueue("keepalive", request_queue) => OneInQueue("keepalive", request_queue')
      /\ LoginFirst(request_queue') /\ ~In("login", request_queue')
  BY <1>1, Queues DEF IInv, QueueOK, OneLogin
<1>3. In("keepalive", request_queue)
  BY <1>1, Queues DEF IInv, QueueOK
<1>4. Fresh'
  BY <1>1, <1>2, <1>3, StacksDiffer DEF Fresh
<1>5. Asked'
  BY <1>1, <1>2, <1>3, StacksDiffer DEF Fresh, Asked, OneLogin, LoginStacks
<1>6. OneLogin'
  BY <1>1, <1>2, <1>3, StacksDiffer DEF Fresh, Asked, OneLogin, LoginStacks, Kept, Keeping
<1>7. Kept'
  BY <1>1, <1>2, <1>3, StacksDiffer DEF Asked, OneLogin, LoginStacks, Kept, Keeping
<1>8. OneKeepAlive'
  BY <1>1, <1>2, <1>3, StacksDiffer DEF Asked, Kept, Keeping, OneKeepAlive, KeepQueued
<1>9. Failing'
  BY <1>1, <1>2, <1>3, StacksDiffer DEF Asked, OneLogin, Kept, Failing, FailureStacks, LoginStacks, Keeping
<1>10. Shaped'
  BY <1>1, <1>2, <1>3 DEF Shaped, Stacks
<1>11. QED
  BY <1>4, <1>5, <1>6, <1>7, <1>8, <1>9, <1>10

\* The session is no longer kept alive.
LEMMA OrderedLost ==
  ASSUME TypeIn, IInv, Ordered, Active, ~Active', request_queue' = Tail(request_queue),
         Head(request_queue) = "keepalive", Timely',
         NEW t \in IoThread, Turn(t, <<>>, KeepFailure),
         UNCHANGED <<keep_alive_timer, session, reports, user_state>>
  PROVE  Ordered'
<1> USE DEF Ordered
<1>1. /\ request_queue # <<>> /\ Active /\ ~Active' /\ request_queue' = Tail(request_queue)
      /\ Head(request_queue) = "keepalive"
      /\ todo[t] = <<>> /\ todo \in [IoThread -> Stacks]
      /\ todo' = [todo EXCEPT ![t] = KeepFailure]
      /\ UNCHANGED <<keep_alive_timer, session, reports, user_state>>
  BY DEF Turn, Shaped, IInv, Queued
<1>2. /\ In("keepalive", request_queue') => In("keepalive", request_queue)
      /\ In("login", request_queue') => In("login", request_queue)
      /\ OneInQueue("keepalive", request_queue) => OneInQueue("keepalive", request_queue')
      /\ LoginFirst(request_queue') /\ ~In("login", request_queue')
  BY <1>1, Queues DEF IInv, QueueOK, OneLogin
<1>3. In("keepalive", request_queue)
  BY <1>1, Queues DEF IInv, QueueOK
<1>4. \A u \in IoThread : todo[u] # Success
  BY <1>1, TimelyStacks
<1>5. Fresh'
  BY <1>1, <1>2, <1>3, <1>4, StacksDiffer DEF Fresh
<1>6. Asked'
  BY <1>1, <1>2, <1>3, <1>4, StacksDiffer DEF Fresh, Asked, OneLogin, LoginStacks
<1>7. OneLogin'
  BY <1>1, <1>2, <1>3, <1>4, StacksDiffer DEF Fresh, Asked, OneLogin, LoginStacks, Kept, Keeping
<1>8. Kept'
  BY <1>1, <1>2, <1>3, <1>4, StacksDiffer DEF Asked, OneLogin, LoginStacks, Kept, Keeping
<1>9. OneKeepAlive'
  BY <1>1, <1>2, <1>3, <1>4, StacksDiffer DEF Asked, Kept, Keeping, OneKeepAlive, KeepQueued
<1>10. Failing'
  BY <1>1, <1>2, <1>3, <1>4, StacksDiffer DEF Asked, OneLogin, Kept, Failing, FailureStacks, LoginStacks, Keeping
<1>11. Shaped'
  BY <1>1, <1>2, <1>3, <1>4 DEF Shaped, Stacks
<1>12. QED
  BY <1>5, <1>6, <1>7, <1>8, <1>9, <1>10, <1>11

\* A logout is answered.
LEMMA OrderedLoggedOut ==
  ASSUME TypeIn, IInv, Ordered, Active, ~Active', request_queue' = Tail(request_queue),
         Head(request_queue) = "logout", 
         UNCHANGED <<todo, keep_alive_timer, session, reports>>
  PROVE  Ordered'
<1> USE DEF Ordered
<1>1. /\ request_queue # <<>> /\ Active /\ ~Active' /\ request_queue' = Tail(request_queue)
      /\ Head(request_queue) = "logout"
      /\ UNCHANGED <<todo, keep_alive_timer, session, reports>>
  BY DEF IInv, Queued
<1>2. /\ In("keepalive", request_queue') => In("keepalive", request_queue)
      /\ In("login", request_queue') => In("login", request_queue)
      /\ OneInQueue("keepalive", request_queue) => OneInQueue("keepalive", request_queue')
      /\ LoginFirst(request_queue') /\ ~In("login", request_queue')
  BY <1>1, Queues DEF IInv, QueueOK, OneLogin
<1>3. Fresh'
  BY <1>1, <1>2, StacksDiffer DEF Fresh
<1>4. Asked'
  BY <1>1, <1>2, StacksDiffer DEF Fresh, Asked, OneLogin, LoginStacks
<1>5. OneLogin'
  BY <1>1, <1>2, StacksDiffer DEF Fresh, Asked, OneLogin, LoginStacks, Kept, Keeping
<1>6. Kept'
  BY <1>1, <1>2, StacksDiffer DEF Asked, OneLogin, LoginStacks, Kept, Keeping
<1>7. OneKeepAlive'
  BY <1>1, <1>2, StacksDiffer DEF Asked, Kept, Keeping, OneKeepAlive, KeepQueued
<1>8. Failing'
  BY <1>1, <1>2, StacksDiffer DEF Asked, OneLogin, Kept, Failing, FailureStacks, LoginStacks, Keeping
<1>9. Shaped'
  BY <1>1, <1>2 DEF Shaped, Stacks
<1>10. QED
  BY <1>3, <1>4, <1>5, <1>6, <1>7, <1>8, <1>9

\* The login is queued.
LEMMA OrderedAsk ==
  ASSUME TypeIn, IInv, Ordered, NEW t \in IoThread, Turn(t, Ask, <<>>),
         request_queue' = Append(request_queue, "login"),
         Active' => Active \/ request_queue = <<>>,
         UNCHANGED <<keep_alive_timer, session, reports, user_state>>
  PROVE  Ordered'
<1> USE DEF Ordered
<1>1. /\ request_queue' = Append(request_queue, "login")
      /\ todo[t] = Ask /\ todo \in [IoThread -> Stacks]
      /\ todo' = [todo EXCEPT ![t] = <<>>]
      /\ Active' => Active \/ request_queue = <<>>
      /\ UNCHANGED <<keep_alive_timer, session, reports, user_state>>
  BY DEF Turn, Shaped
<1>2. /\ "login" \in Method /\ request_queue \in Seq(Method)
      /\ ~In("keepalive", request_queue) => OneInQueue("keepalive", request_queue)
  BY DEF Method, IInv, QueueOK, In, OneInQueue
<1>3. /\ In("login", request_queue')
      /\ In("keepalive", request_queue') <=> In("keepalive", request_queue)
      /\ OneInQueue("keepalive", request_queue) =>
            OneInQueue("keepalive", request_queue')
      /\ request_queue = <<>> =>
           /\ ~In("login", request_queue)
           /\ ~In("keepalive", request_queue)
           /\ OneInQueue("keepalive", request_queue')
      /\ LoginFirst(request_queue')
  BY <1>1, <1>2, Queues DEF OneLogin, Asked
<1>4. /\ reports = <<>> /\ request_queue = <<>> /\ ~keep_alive_timer
      /\ \A u \in IoThread : todo[u] \in {<<>>, Ask, Out}
  BY <1>1 DEF Asked
<1>5. /\ ~In("loginOk", reports) /\ ~In("keepAliveFailed", reports)
      /\ ~In("keepalive", request_queue) /\ ~In("login", request_queue)
  BY <1>4, Queues
<1>6. Fresh'
  BY <1>1, <1>2, <1>3, <1>4, <1>5, StacksDiffer DEF Fresh
<1>7. Asked'
  BY <1>1, <1>2, <1>3, <1>4, <1>5, StacksDiffer DEF Fresh, Asked, OneLogin, LoginStacks
<1>8. OneLogin'
  BY <1>1, <1>2, <1>3, <1>4, <1>5, StacksDiffer DEF Fresh, Asked, OneLogin, LoginStacks, Kept, Keeping
<1>9. Kept'
  BY <1>1, <1>2, <1>3, <1>4, <1>5, StacksDiffer DEF Asked, OneLogin, LoginStacks, Kept, Keeping
<1>10. OneKeepAlive'
  BY <1>1, <1>2, <1>3, <1>4, <1>5, StacksDiffer DEF Asked, Kept, Keeping, OneKeepAlive, KeepQueued
<1>11. Failing'
  BY <1>1, <1>2, <1>3, <1>4, <1>5, StacksDiffer DEF Asked, OneLogin, Kept, Failing, FailureStacks, LoginStacks, Keeping
<1>12. Shaped'
  BY <1>1, <1>2, <1>3, <1>4, <1>5 DEF Shaped, Stacks
<1>13. QED
  BY <1>6, <1>7, <1>8, <1>9, <1>10, <1>11, <1>12

\* A keep-alive is queued.
LEMMA OrderedAskKeep ==
  ASSUME TypeIn, IInv, Ordered, NEW t \in IoThread, Turn(t, AskKeep, <<>>),
         request_queue' = Append(request_queue, "keepalive"),
         Active' => Active \/ request_queue = <<>>,
         UNCHANGED <<keep_alive_timer, session, reports, user_state>>
  PROVE  Ordered'
<1> USE DEF Ordered
<1>1. /\ request_queue' = Append(request_queue, "keepalive")
      /\ todo[t] = AskKeep /\ todo \in [IoThread -> Stacks]
      /\ todo' = [todo EXCEPT ![t] = <<>>]
      /\ Active' => Active \/ request_queue = <<>>
      /\ UNCHANGED <<keep_alive_timer, session, reports, user_state>>
  BY DEF Turn, Shaped
<1>2. /\ "keepalive" \in Method /\ request_queue \in Seq(Method)
      /\ ~In("keepalive", request_queue) => OneInQueue("keepalive", request_queue)
  BY DEF Method, IInv, QueueOK, In, OneInQueue
<1>3. /\ In("login", request_queue') <=> In("login", request_queue)
      /\ In("keepalive", request_queue')
      /\ ~In("keepalive", request_queue) =>
            OneInQueue("keepalive", request_queue')
      /\ request_queue = <<>> =>
           /\ ~In("login", request_queue)
           /\ ~In("keepalive", request_queue)
           /\ OneInQueue("keepalive", request_queue')
      /\ LoginFirst(request_queue')
  BY <1>1, <1>2, Queues DEF OneLogin
<1>4. Fresh'
  BY <1>1, <1>2, <1>3, StacksDiffer DEF Fresh
<1>5. Asked'
  BY <1>1, <1>2, <1>3, StacksDiffer DEF Fresh, Asked, OneLogin, LoginStacks
<1>6. OneLogin'
  BY <1>1, <1>2, <1>3, StacksDiffer DEF Fresh, Asked, OneLogin, LoginStacks, Kept, Keeping
<1>7. Kept'
  BY <1>1, <1>2, <1>3, StacksDiffer DEF Asked, OneLogin, LoginStacks, Kept, Keeping
<1>8. OneKeepAlive'
  BY <1>1, <1>2, <1>3, StacksDiffer DEF Asked, Kept, Keeping, OneKeepAlive, KeepQueued
<1>9. Failing'
  BY <1>1, <1>2, <1>3, StacksDiffer DEF Asked, OneLogin, Kept, Failing, FailureStacks, LoginStacks, Keeping
<1>10. Shaped'
  BY <1>1, <1>2, <1>3 DEF Shaped, Stacks
<1>11. QED
  BY <1>4, <1>5, <1>6, <1>7, <1>8, <1>9, <1>10

\* A logout is queued.
LEMMA OrderedAskOut ==
  ASSUME TypeIn, IInv, Ordered, NEW t \in IoThread, Turn(t, AskOut, <<>>),
         request_queue' = Append(request_queue, "logout"),
         Active' => Active \/ request_queue = <<>>,
         UNCHANGED <<keep_alive_timer, session, reports, user_state>>
  PROVE  Ordered'
<1> USE DEF Ordered
<1>1. /\ request_queue' = Append(request_queue, "logout")
      /\ todo[t] = AskOut /\ todo \in [IoThread -> Stacks]
      /\ todo' = [todo EXCEPT ![t] = <<>>]
      /\ Active' => Active \/ request_queue = <<>>
      /\ UNCHANGED <<keep_alive_timer, session, reports, user_state>>
  BY DEF Turn, Shaped
<1>2. /\ "logout" \in Method /\ request_queue \in Seq(Method)
      /\ ~In("keepalive", request_queue) => OneInQueue("keepalive", request_queue)
  BY DEF Method, IInv, QueueOK, In, OneInQueue
<1>3. /\ In("login", request_queue') <=> In("login", request_queue)
      /\ In("keepalive", request_queue') <=> In("keepalive", request_queue)
      /\ OneInQueue("keepalive", request_queue) =>
            OneInQueue("keepalive", request_queue')
      /\ request_queue = <<>> =>
           /\ ~In("login", request_queue)
           /\ ~In("keepalive", request_queue)
           /\ OneInQueue("keepalive", request_queue')
      /\ LoginFirst(request_queue')
  BY <1>1, <1>2, Queues DEF OneLogin
<1>4. Fresh'
  BY <1>1, <1>2, <1>3, StacksDiffer DEF Fresh
<1>5. Asked'
  BY <1>1, <1>2, <1>3, StacksDiffer DEF Fresh, Asked, OneLogin, LoginStacks
<1>6. OneLogin'
  BY <1>1, <1>2, <1>3, StacksDiffer DEF Fresh, Asked, OneLogin, LoginStacks, Kept, Keeping
<1>7. Kept'
  BY <1>1, <1>2, <1>3, StacksDiffer DEF Asked, OneLogin, LoginStacks, Kept, Keeping
<1>8. OneKeepAlive'
  BY <1>1, <1>2, <1>3, StacksDiffer DEF Asked, Kept, Keeping, OneKeepAlive, KeepQueued
<1>9. Failing'
  BY <1>1, <1>2, <1>3, StacksDiffer DEF Asked, OneLogin, Kept, Failing, FailureStacks, LoginStacks, Keeping
<1>10. Shaped'
  BY <1>1, <1>2, <1>3 DEF Shaped, Stacks
<1>11. QED
  BY <1>4, <1>5, <1>6, <1>7, <1>8, <1>9, <1>10

LEMMA OrderedAskOutAgain ==
  ASSUME TypeIn, IInv, Ordered, NEW t \in IoThread, Turn(t, AskOutAgain, Again),
         request_queue' = Append(request_queue, "logout"),
         Active' => Active \/ request_queue = <<>>,
         UNCHANGED <<keep_alive_timer, session, reports, user_state>>
  PROVE  Ordered'
<1> USE DEF Ordered
<1>1. /\ request_queue' = Append(request_queue, "logout")
      /\ todo[t] = AskOutAgain /\ todo \in [IoThread -> Stacks]
      /\ todo' = [todo EXCEPT ![t] = Again]
      /\ Active' => Active \/ request_queue = <<>>
      /\ UNCHANGED <<keep_alive_timer, session, reports, user_state>>
  BY DEF Turn, Shaped
<1>2. /\ "logout" \in Method /\ request_queue \in Seq(Method)
      /\ ~In("keepalive", request_queue) => OneInQueue("keepalive", request_queue)
  BY DEF Method, IInv, QueueOK, In, OneInQueue
<1>3. /\ In("login", request_queue') <=> In("login", request_queue)
      /\ In("keepalive", request_queue') <=> In("keepalive", request_queue)
      /\ OneInQueue("keepalive", request_queue) =>
            OneInQueue("keepalive", request_queue')
      /\ request_queue = <<>> =>
           /\ ~In("login", request_queue)
           /\ ~In("keepalive", request_queue)
           /\ OneInQueue("keepalive", request_queue')
      /\ LoginFirst(request_queue')
  BY <1>1, <1>2, Queues DEF OneLogin
<1>4. Fresh'
  BY <1>1, <1>2, <1>3, StacksDiffer DEF Fresh
<1>5. Asked'
  BY <1>1, <1>2, <1>3, StacksDiffer DEF Fresh, Asked, OneLogin, LoginStacks
<1>6. OneLogin'
  BY <1>1, <1>2, <1>3, StacksDiffer DEF Fresh, Asked, OneLogin, LoginStacks, Kept, Keeping
<1>7. Kept'
  BY <1>1, <1>2, <1>3, StacksDiffer DEF Asked, OneLogin, LoginStacks, Kept, Keeping
<1>8. OneKeepAlive'
  BY <1>1, <1>2, <1>3, StacksDiffer DEF Asked, Kept, Keeping, OneKeepAlive, KeepQueued
<1>9. Failing'
  BY <1>1, <1>2, <1>3, StacksDiffer DEF Asked, OneLogin, Kept, Failing, FailureStacks, LoginStacks, Keeping
<1>10. Shaped'
  BY <1>1, <1>2, <1>3 DEF Shaped, Stacks
<1>11. QED
  BY <1>4, <1>5, <1>6, <1>7, <1>8, <1>9, <1>10

\* The next exchange begins.
LEMMA OrderedNext ==
  ASSUME TypeIn, IInv, Ordered, NEW t \in IoThread, Turn(t, Again, <<>>), Active,
         UNCHANGED <<request_queue, keep_alive_timer, session, reports, user_state>>
  PROVE  Ordered'
<1> USE DEF Ordered
<1>1. /\ todo[t] = Again /\ todo \in [IoThread -> Stacks]
      /\ todo' = [todo EXCEPT ![t] = <<>>]
      /\ Active /\ UNCHANGED <<request_queue, keep_alive_timer, session, reports, user_state>>
  BY DEF Turn, Shaped
<1>2. Fresh'
  BY <1>1, StacksDiffer DEF Fresh
<1>3. Asked'
  BY <1>1, StacksDiffer DEF Fresh, Asked, OneLogin, LoginStacks
<1>4. OneLogin'
  BY <1>1, StacksDiffer DEF Fresh, Asked, OneLogin, LoginStacks, Kept, Keeping
<1>5. Kept'
  BY <1>1, StacksDiffer DEF Asked, OneLogin, LoginStacks, Kept, Keeping
<1>6. OneKeepAlive'
  BY <1>1, StacksDiffer DEF Asked, Kept, Keeping, OneKeepAlive, KeepQueued
<1>7. Failing'
  BY <1>1, StacksDiffer DEF Asked, OneLogin, Kept, Failing, FailureStacks, LoginStacks, Keeping
<1>8. Shaped'
  BY <1>1 DEF Shaped, Stacks
<1>9. QED
  BY <1>2, <1>3, <1>4, <1>5, <1>6, <1>7, <1>8

\* The user is logged in; keep-alives may begin.
LEMMA OrderedLoggedIn ==
  ASSUME TypeIn, IInv, Ordered, NEW t \in IoThread, Turn(t, Answer, Success),
         keep_alive_timer' \in {keep_alive_timer, TRUE}, Active' => Active,
         UNCHANGED <<request_queue, session, reports>>
  PROVE  Ordered'
<1> USE DEF Ordered
<1>1. /\ todo[t] = Answer /\ todo \in [IoThread -> Stacks]
      /\ todo' = [todo EXCEPT ![t] = Success]
      /\ keep_alive_timer' \in {keep_alive_timer, TRUE} /\ (Active' => Active)
      /\ UNCHANGED <<request_queue, session, reports>>
  BY DEF Turn, Shaped
<1>2. ~Keeping
  BY <1>1 DEF Kept
<1>3. \A u \in IoThread : todo[u] \notin {Ask, Failure, FailureAgain} /\ (todo[u] = Answer => u = t)
  BY <1>1, StacksDiffer DEF OneLogin, LoginStacks, Failing, FailureStacks
<1>4. Fresh'
  BY <1>1, <1>2, <1>3, StacksDiffer DEF Fresh
<1>5. Asked'
  BY <1>1, <1>2, <1>3, StacksDiffer DEF Fresh, Asked, OneLogin, LoginStacks
<1>6. OneLogin'
  BY <1>1, <1>2, <1>3, StacksDiffer DEF Fresh, Asked, OneLogin, LoginStacks, Kept, Keeping
<1>7. Kept'
  BY <1>1, <1>2, <1>3, StacksDiffer DEF Asked, OneLogin, LoginStacks, Kept, Keeping
<1>8. OneKeepAlive'
  BY <1>1, <1>2, <1>3, StacksDiffer DEF Asked, Kept, Keeping, OneKeepAlive, KeepQueued
<1>9. Failing'
  BY <1>1, <1>2, <1>3, StacksDiffer DEF Asked, OneLogin, Kept, Failing, FailureStacks, LoginStacks, Keeping
<1>10. Shaped'
  BY <1>1, <1>2, <1>3 DEF Shaped, Stacks
<1>11. QED
  BY <1>4, <1>5, <1>6, <1>7, <1>8, <1>9, <1>10

\* Logout finds nobody logged in.
LEMMA OrderedOut ==
  ASSUME TypeIn, IInv, Ordered, NEW t \in IoThread, Turn(t, Out, <<>>), Active' => Active,
         UNCHANGED <<request_queue, keep_alive_timer, session, reports, user_state>>
  PROVE  Ordered'
<1> USE DEF Ordered
<1>1. /\ todo[t] = Out /\ todo \in [IoThread -> Stacks]
      /\ todo' = [todo EXCEPT ![t] = <<>>]
      /\ Active' => Active
      /\ UNCHANGED <<request_queue, keep_alive_timer, session, reports, user_state>>
  BY DEF Turn, Shaped
<1>2. Fresh'
  BY <1>1, StacksDiffer DEF Fresh
<1>3. Asked'
  BY <1>1, StacksDiffer DEF Fresh, Asked, OneLogin, LoginStacks
<1>4. OneLogin'
  BY <1>1, StacksDiffer DEF Fresh, Asked, OneLogin, LoginStacks, Kept, Keeping
<1>5. Kept'
  BY <1>1, StacksDiffer DEF Asked, OneLogin, LoginStacks, Kept, Keeping
<1>6. OneKeepAlive'
  BY <1>1, StacksDiffer DEF Asked, Kept, Keeping, OneKeepAlive, KeepQueued
<1>7. Failing'
  BY <1>1, StacksDiffer DEF Asked, OneLogin, Kept, Failing, FailureStacks, LoginStacks, Keeping
<1>8. Shaped'
  BY <1>1 DEF Shaped, Stacks
<1>9. QED
  BY <1>2, <1>3, <1>4, <1>5, <1>6, <1>7, <1>8

LEMMA OrderedOutAgain ==
  ASSUME TypeIn, IInv, Ordered, NEW t \in IoThread, Turn(t, OutAgain, Again), Active' => Active,
         UNCHANGED <<request_queue, keep_alive_timer, session, reports, user_state>>
  PROVE  Ordered'
<1> USE DEF Ordered
<1>1. /\ todo[t] = OutAgain /\ todo \in [IoThread -> Stacks]
      /\ todo' = [todo EXCEPT ![t] = Again]
      /\ Active' => Active
      /\ UNCHANGED <<request_queue, keep_alive_timer, session, reports, user_state>>
  BY DEF Turn, Shaped
<1>2. Fresh'
  BY <1>1, StacksDiffer DEF Fresh
<1>3. Asked'
  BY <1>1, StacksDiffer DEF Fresh, Asked, OneLogin, LoginStacks
<1>4. OneLogin'
  BY <1>1, StacksDiffer DEF Fresh, Asked, OneLogin, LoginStacks, Kept, Keeping
<1>5. Kept'
  BY <1>1, StacksDiffer DEF Asked, OneLogin, LoginStacks, Kept, Keeping
<1>6. OneKeepAlive'
  BY <1>1, StacksDiffer DEF Asked, Kept, Keeping, OneKeepAlive, KeepQueued
<1>7. Failing'
  BY <1>1, StacksDiffer DEF Asked, OneLogin, Kept, Failing, FailureStacks, LoginStacks, Keeping
<1>8. Shaped'
  BY <1>1 DEF Shaped, Stacks
<1>9. QED
  BY <1>2, <1>3, <1>4, <1>5, <1>6, <1>7, <1>8

\* Logout asks for the logout.
LEMMA OrderedAsksOut ==
  ASSUME TypeIn, IInv, Ordered, user_state # "None", NEW t \in IoThread, Turn(t, Out, AskOut), Active' => Active,
         UNCHANGED <<request_queue, keep_alive_timer, session, reports, user_state>>
  PROVE  Ordered'
<1> USE DEF Ordered
<1>1. /\ user_state # "None"
      /\ todo[t] = Out /\ todo \in [IoThread -> Stacks]
      /\ todo' = [todo EXCEPT ![t] = AskOut]
      /\ Active' => Active
      /\ UNCHANGED <<request_queue, keep_alive_timer, session, reports, user_state>>
  BY DEF Turn, Shaped
<1>2. Fresh'
  BY <1>1, StacksDiffer DEF Fresh
<1>3. Asked'
  BY <1>1, StacksDiffer DEF Fresh, Asked, OneLogin, LoginStacks
<1>4. OneLogin'
  BY <1>1, StacksDiffer DEF Fresh, Asked, OneLogin, LoginStacks, Kept, Keeping
<1>5. Kept'
  BY <1>1, StacksDiffer DEF Asked, OneLogin, LoginStacks, Kept, Keeping
<1>6. OneKeepAlive'
  BY <1>1, StacksDiffer DEF Asked, Kept, Keeping, OneKeepAlive, KeepQueued
<1>7. Failing'
  BY <1>1, StacksDiffer DEF Asked, OneLogin, Kept, Failing, FailureStacks, LoginStacks, Keeping
<1>8. Shaped'
  BY <1>1 DEF Shaped, Stacks
<1>9. QED
  BY <1>2, <1>3, <1>4, <1>5, <1>6, <1>7, <1>8

LEMMA OrderedAsksOutAgain ==
  ASSUME TypeIn, IInv, Ordered, user_state # "None", NEW t \in IoThread, Turn(t, OutAgain, AskOutAgain), Active' => Active,
         UNCHANGED <<request_queue, keep_alive_timer, session, reports, user_state>>
  PROVE  Ordered'
<1> USE DEF Ordered
<1>1. /\ user_state # "None"
      /\ todo[t] = OutAgain /\ todo \in [IoThread -> Stacks]
      /\ todo' = [todo EXCEPT ![t] = AskOutAgain]
      /\ Active' => Active
      /\ UNCHANGED <<request_queue, keep_alive_timer, session, reports, user_state>>
  BY DEF Turn, Shaped
<1>2. Fresh'
  BY <1>1, StacksDiffer DEF Fresh
<1>3. Asked'
  BY <1>1, StacksDiffer DEF Fresh, Asked, OneLogin, LoginStacks
<1>4. OneLogin'
  BY <1>1, StacksDiffer DEF Fresh, Asked, OneLogin, LoginStacks, Kept, Keeping
<1>5. Kept'
  BY <1>1, StacksDiffer DEF Asked, OneLogin, LoginStacks, Kept, Keeping
<1>6. OneKeepAlive'
  BY <1>1, StacksDiffer DEF Asked, Kept, Keeping, OneKeepAlive, KeepQueued
<1>7. Failing'
  BY <1>1, StacksDiffer DEF Asked, OneLogin, Kept, Failing, FailureStacks, LoginStacks, Keeping
<1>8. Shaped'
  BY <1>1 DEF Shaped, Stacks
<1>9. QED
  BY <1>2, <1>3, <1>4, <1>5, <1>6, <1>7, <1>8

\* The session is told.
LEMMA OrderedTellOk ==
  ASSUME TypeIn, IInv, Ordered, NEW t \in IoThread, Turn(t, Success, <<>>), Active' => Active,
         session = "alive", reports' = Append(reports, "loginOk"),
         UNCHANGED <<request_queue, keep_alive_timer, session, user_state>>
  PROVE  Ordered'
<1> USE DEF Ordered
<1>1. /\ todo[t] = Success /\ todo \in [IoThread -> Stacks]
      /\ todo' = [todo EXCEPT ![t] = <<>>]
      /\ Active' => Active
      /\ session = "alive" /\ reports' = Append(reports, "loginOk")
      /\ UNCHANGED <<request_queue, keep_alive_timer, session, user_state>>
  BY DEF Turn, Shaped
<1>2. \A x : In(x, reports') <=> In(x, reports) \/ x = "loginOk"
  BY <1>1, Queues DEF TypeIn, Report
<1>3. Fresh'
  BY <1>1, <1>2, StacksDiffer DEF Fresh
<1>4. Asked'
  BY <1>1, <1>2, StacksDiffer DEF Fresh, Asked, OneLogin, LoginStacks
<1>5. OneLogin'
  BY <1>1, <1>2, StacksDiffer DEF Fresh, Asked, OneLogin, LoginStacks, Kept, Keeping
<1>6. Kept'
  BY <1>1, <1>2, StacksDiffer DEF Asked, OneLogin, LoginStacks, Kept, Keeping
<1>7. OneKeepAlive'
  BY <1>1, <1>2, StacksDiffer DEF Asked, Kept, Keeping, OneKeepAlive, KeepQueued
<1>8. Failing'
  BY <1>1, <1>2, StacksDiffer DEF Asked, OneLogin, Kept, Failing, FailureStacks, LoginStacks, Keeping
<1>9. Shaped'
  BY <1>1, <1>2 DEF Shaped, Stacks
<1>10. QED
  BY <1>3, <1>4, <1>5, <1>6, <1>7, <1>8, <1>9

LEMMA OrderedTellFailed ==
  ASSUME TypeIn, IInv, Ordered, NEW t \in IoThread, Turn(t, Failure, Out), Active' => Active,
         session = "alive", reports' = Append(reports, "loginFailed"),
         UNCHANGED <<request_queue, keep_alive_timer, session, user_state>>
  PROVE  Ordered'
<1> USE DEF Ordered
<1>1. /\ todo[t] = Failure /\ todo \in [IoThread -> Stacks]
      /\ todo' = [todo EXCEPT ![t] = Out]
      /\ Active' => Active
      /\ session = "alive" /\ reports' = Append(reports, "loginFailed")
      /\ UNCHANGED <<request_queue, keep_alive_timer, session, user_state>>
  BY DEF Turn, Shaped
<1>2. \A x : In(x, reports') <=> In(x, reports) \/ x = "loginFailed"
  BY <1>1, Queues DEF TypeIn, Report
<1>3. Fresh'
  BY <1>1, <1>2, StacksDiffer DEF Fresh
<1>4. Asked'
  BY <1>1, <1>2, StacksDiffer DEF Fresh, Asked, OneLogin, LoginStacks
<1>5. OneLogin'
  BY <1>1, <1>2, StacksDiffer DEF Fresh, Asked, OneLogin, LoginStacks, Kept, Keeping
<1>6. Kept'
  BY <1>1, <1>2, StacksDiffer DEF Asked, OneLogin, LoginStacks, Kept, Keeping
<1>7. OneKeepAlive'
  BY <1>1, <1>2, StacksDiffer DEF Asked, Kept, Keeping, OneKeepAlive, KeepQueued
<1>8. Failing'
  BY <1>1, <1>2, StacksDiffer DEF Asked, OneLogin, Kept, Failing, FailureStacks, LoginStacks, Keeping
<1>9. Shaped'
  BY <1>1, <1>2 DEF Shaped, Stacks
<1>10. QED
  BY <1>3, <1>4, <1>5, <1>6, <1>7, <1>8, <1>9

LEMMA OrderedTellFailedAgain ==
  ASSUME TypeIn, IInv, Ordered, NEW t \in IoThread, Turn(t, FailureAgain, OutAgain), Active' => Active,
         session = "alive", reports' = Append(reports, "loginFailed"),
         UNCHANGED <<request_queue, keep_alive_timer, session, user_state>>
  PROVE  Ordered'
<1> USE DEF Ordered
<1>1. /\ todo[t] = FailureAgain /\ todo \in [IoThread -> Stacks]
      /\ todo' = [todo EXCEPT ![t] = OutAgain]
      /\ Active' => Active
      /\ session = "alive" /\ reports' = Append(reports, "loginFailed")
      /\ UNCHANGED <<request_queue, keep_alive_timer, session, user_state>>
  BY DEF Turn, Shaped
<1>2. \A x : In(x, reports') <=> In(x, reports) \/ x = "loginFailed"
  BY <1>1, Queues DEF TypeIn, Report
<1>3. Fresh'
  BY <1>1, <1>2, StacksDiffer DEF Fresh
<1>4. Asked'
  BY <1>1, <1>2, StacksDiffer DEF Fresh, Asked, OneLogin, LoginStacks
<1>5. OneLogin'
  BY <1>1, <1>2, StacksDiffer DEF Fresh, Asked, OneLogin, LoginStacks, Kept, Keeping
<1>6. Kept'
  BY <1>1, <1>2, StacksDiffer DEF Asked, OneLogin, LoginStacks, Kept, Keeping
<1>7. OneKeepAlive'
  BY <1>1, <1>2, StacksDiffer DEF Asked, Kept, Keeping, OneKeepAlive, KeepQueued
<1>8. Failing'
  BY <1>1, <1>2, StacksDiffer DEF Asked, OneLogin, Kept, Failing, FailureStacks, LoginStacks, Keeping
<1>9. Shaped'
  BY <1>1, <1>2 DEF Shaped, Stacks
<1>10. QED
  BY <1>3, <1>4, <1>5, <1>6, <1>7, <1>8, <1>9

LEMMA OrderedTellLost ==
  ASSUME TypeIn, IInv, Ordered, NEW t \in IoThread, Turn(t, KeepFailure, Out), Active' => Active,
         session = "alive", reports' = Append(reports, "keepAliveFailed"),
         UNCHANGED <<request_queue, keep_alive_timer, session, user_state>>
  PROVE  Ordered'
<1> USE DEF Ordered
<1>1. /\ todo[t] = KeepFailure /\ todo \in [IoThread -> Stacks]
      /\ todo' = [todo EXCEPT ![t] = Out]
      /\ Active' => Active
      /\ session = "alive" /\ reports' = Append(reports, "keepAliveFailed")
      /\ UNCHANGED <<request_queue, keep_alive_timer, session, user_state>>
  BY DEF Turn, Shaped
<1>2. \A x : In(x, reports') <=> In(x, reports) \/ x = "keepAliveFailed"
  BY <1>1, Queues DEF TypeIn, Report
<1>3. Fresh'
  BY <1>1, <1>2, StacksDiffer DEF Fresh
<1>4. Asked'
  BY <1>1, <1>2, StacksDiffer DEF Fresh, Asked, OneLogin, LoginStacks
<1>5. OneLogin'
  BY <1>1, <1>2, StacksDiffer DEF Fresh, Asked, OneLogin, LoginStacks, Kept, Keeping
<1>6. Kept'
  BY <1>1, <1>2, StacksDiffer DEF Asked, OneLogin, LoginStacks, Kept, Keeping
<1>7. OneKeepAlive'
  BY <1>1, <1>2, StacksDiffer DEF Asked, Kept, Keeping, OneKeepAlive, KeepQueued
<1>8. Failing'
  BY <1>1, <1>2, StacksDiffer DEF Asked, OneLogin, Kept, Failing, FailureStacks, LoginStacks, Keeping
<1>9. Shaped'
  BY <1>1, <1>2 DEF Shaped, Stacks
<1>10. QED
  BY <1>3, <1>4, <1>5, <1>6, <1>7, <1>8, <1>9

\* The session has gone.
LEMMA OrderedForgetOk ==
  ASSUME TypeIn, IInv, Ordered, NEW t \in IoThread, Turn(t, Success, <<>>), Active' => Active,
         session # "alive", UNCHANGED <<request_queue, keep_alive_timer, session, reports, user_state>>
  PROVE  Ordered'
<1> USE DEF Ordered
<1>1. /\ todo[t] = Success /\ todo \in [IoThread -> Stacks]
      /\ todo' = [todo EXCEPT ![t] = <<>>]
      /\ Active' => Active
      /\ session # "alive" /\ UNCHANGED <<request_queue, keep_alive_timer, session, reports, user_state>>
  BY DEF Turn, Shaped
<1>2. Fresh'
  BY <1>1, StacksDiffer DEF Fresh
<1>3. Asked'
  BY <1>1, StacksDiffer DEF Fresh, Asked, OneLogin, LoginStacks
<1>4. OneLogin'
  BY <1>1, StacksDiffer DEF Fresh, Asked, OneLogin, LoginStacks, Kept, Keeping
<1>5. Kept'
  BY <1>1, StacksDiffer DEF Asked, OneLogin, LoginStacks, Kept, Keeping
<1>6. OneKeepAlive'
  BY <1>1, StacksDiffer DEF Asked, Kept, Keeping, OneKeepAlive, KeepQueued
<1>7. Failing'
  BY <1>1, StacksDiffer DEF Asked, OneLogin, Kept, Failing, FailureStacks, LoginStacks, Keeping
<1>8. Shaped'
  BY <1>1 DEF Shaped, Stacks
<1>9. QED
  BY <1>2, <1>3, <1>4, <1>5, <1>6, <1>7, <1>8

LEMMA OrderedForgetFailed ==
  ASSUME TypeIn, IInv, Ordered, NEW t \in IoThread, Turn(t, Failure, <<>>), Active' => Active,
         session # "alive", UNCHANGED <<request_queue, keep_alive_timer, session, reports, user_state>>
  PROVE  Ordered'
<1> USE DEF Ordered
<1>1. /\ todo[t] = Failure /\ todo \in [IoThread -> Stacks]
      /\ todo' = [todo EXCEPT ![t] = <<>>]
      /\ Active' => Active
      /\ session # "alive" /\ UNCHANGED <<request_queue, keep_alive_timer, session, reports, user_state>>
  BY DEF Turn, Shaped
<1>2. Fresh'
  BY <1>1, StacksDiffer DEF Fresh
<1>3. Asked'
  BY <1>1, StacksDiffer DEF Fresh, Asked, OneLogin, LoginStacks
<1>4. OneLogin'
  BY <1>1, StacksDiffer DEF Fresh, Asked, OneLogin, LoginStacks, Kept, Keeping
<1>5. Kept'
  BY <1>1, StacksDiffer DEF Asked, OneLogin, LoginStacks, Kept, Keeping
<1>6. OneKeepAlive'
  BY <1>1, StacksDiffer DEF Asked, Kept, Keeping, OneKeepAlive, KeepQueued
<1>7. Failing'
  BY <1>1, StacksDiffer DEF Asked, OneLogin, Kept, Failing, FailureStacks, LoginStacks, Keeping
<1>8. Shaped'
  BY <1>1 DEF Shaped, Stacks
<1>9. QED
  BY <1>2, <1>3, <1>4, <1>5, <1>6, <1>7, <1>8

LEMMA OrderedForgetFailedAgain ==
  ASSUME TypeIn, IInv, Ordered, NEW t \in IoThread, Turn(t, FailureAgain, Again), Active' => Active,
         session # "alive", UNCHANGED <<request_queue, keep_alive_timer, session, reports, user_state>>
  PROVE  Ordered'
<1> USE DEF Ordered
<1>1. /\ todo[t] = FailureAgain /\ todo \in [IoThread -> Stacks]
      /\ todo' = [todo EXCEPT ![t] = Again]
      /\ Active' => Active
      /\ session # "alive" /\ UNCHANGED <<request_queue, keep_alive_timer, session, reports, user_state>>
  BY DEF Turn, Shaped
<1>2. Fresh'
  BY <1>1, StacksDiffer DEF Fresh
<1>3. Asked'
  BY <1>1, StacksDiffer DEF Fresh, Asked, OneLogin, LoginStacks
<1>4. OneLogin'
  BY <1>1, StacksDiffer DEF Fresh, Asked, OneLogin, LoginStacks, Kept, Keeping
<1>5. Kept'
  BY <1>1, StacksDiffer DEF Asked, OneLogin, LoginStacks, Kept, Keeping
<1>6. OneKeepAlive'
  BY <1>1, StacksDiffer DEF Asked, Kept, Keeping, OneKeepAlive, KeepQueued
<1>7. Failing'
  BY <1>1, StacksDiffer DEF Asked, OneLogin, Kept, Failing, FailureStacks, LoginStacks, Keeping
<1>8. Shaped'
  BY <1>1 DEF Shaped, Stacks
<1>9. QED
  BY <1>2, <1>3, <1>4, <1>5, <1>6, <1>7, <1>8

LEMMA OrderedForgetLost ==
  ASSUME TypeIn, IInv, Ordered, NEW t \in IoThread, Turn(t, KeepFailure, <<>>), Active' => Active,
         session # "alive", UNCHANGED <<request_queue, keep_alive_timer, session, reports, user_state>>
  PROVE  Ordered'
<1> USE DEF Ordered
<1>1. /\ todo[t] = KeepFailure /\ todo \in [IoThread -> Stacks]
      /\ todo' = [todo EXCEPT ![t] = <<>>]
      /\ Active' => Active
      /\ session # "alive" /\ UNCHANGED <<request_queue, keep_alive_timer, session, reports, user_state>>
  BY DEF Turn, Shaped
<1>2. Fresh'
  BY <1>1, StacksDiffer DEF Fresh
<1>3. Asked'
  BY <1>1, StacksDiffer DEF Fresh, Asked, OneLogin, LoginStacks
<1>4. OneLogin'
  BY <1>1, StacksDiffer DEF Fresh, Asked, OneLogin, LoginStacks, Kept, Keeping
<1>5. Kept'
  BY <1>1, StacksDiffer DEF Asked, OneLogin, LoginStacks, Kept, Keeping
<1>6. OneKeepAlive'
  BY <1>1, StacksDiffer DEF Asked, Kept, Keeping, OneKeepAlive, KeepQueued
<1>7. Failing'
  BY <1>1, StacksDiffer DEF Asked, OneLogin, Kept, Failing, FailureStacks, LoginStacks, Keeping
<1>8. Shaped'
  BY <1>1 DEF Shaped, Stacks
<1>9. QED
  BY <1>2, <1>3, <1>4, <1>5, <1>6, <1>7, <1>8

-----------------------------------------------------------------------------
(* The steps, by the moves they make. *)

LEMMA OpActive ==
  ASSUME IInv, NEW o \in AsyncOp, async[o] > 0
  PROVE  Active /\ request_queue # <<>> /\ \A u \in IoThread : ~Pends(todo[u])
BY OneOp DEF Active, Unpending

\* An operation completes and nothing carries on.
LEMMA OpDone ==
  ASSUME IInv, Shaped, NEW o \in AsyncOp, Complete(o),
         NEW t \in IoThread, NEW q \in Stacks, q \notin PendingStacks,
         Turn(t, <<>>, q) \/ UNCHANGED todo, UNCHANGED retry_timer
  PROVE  ~Active'
<1>1. /\ Idle' /\ async[o] > 0
  BY Completes
<1>2. ~retry_timer' /\ \A u \in IoThread : ~Pends(todo[u])
  BY <1>1, OneOp DEF Unpending
<1>3. ~Pends(q)
  BY StacksPend
<1>4. \A u \in IoThread : ~Pends(todo'[u])
  <2>1. CASE UNCHANGED todo
    BY <1>2, <2>1
  <2>2. CASE Turn(t, <<>>, q)
    BY <1>2, <1>3, <2>2 DEF Turn, Shaped
  <2>3. QED
    BY <2>1, <2>2
<1>5. \A p \in AsyncOp : async'[p] = 0
  BY <1>1 DEF Idle
<1>6. QED
  BY <1>2, <1>4, <1>5 DEF Active

LEMMA Given ==
  ASSUME NEW t \in IoThread, Ready(t), NEW q, Start(t, q)
  PROVE  Turn(t, <<>>, q)
BY DEF Ready, Start, Turn

\* What the exchange does that leaves the queue alone.
LEMMA OrderedExchange ==
  ASSUME TypeIn, IInv, Ordered, Timely', NEW t \in IoThread,
         \/ OnConnectOk(t) \/ OnConnectFail(t) \/ OnRequestOk(t) \/ OnRequestFail(t)
         \/ OnKeepAliveResponseFail(t) \/ RetryTimer(t)
  PROVE  Ordered'
<1>1. CASE OnConnectOk(t)
  <2>1. Active /\ UNCHANGED <<todo, request_queue, keep_alive_timer, session, reports>>
    BY <1>1, OpActive, OpsAreApart DEF OnConnectOk
  <2>2. QED
    BY <2>1, OrderedInner
<1>2. CASE OnConnectFail(t)
  <2>1. /\ Complete("connect") /\ Ready(t) /\ "connect" \in AsyncOp /\ Shaped
        /\ UNCHANGED <<request_queue, keep_alive_timer, session, reports>>
    BY <1>2, OpsAreApart DEF OnConnectFail, Ordered
  <2>2. Active
    BY <2>1, OpActive DEF Complete
  <2>3. CASE UNCHANGED todo
    BY <2>1, <2>2, <2>3, OrderedInner
  <2>4. CASE /\ Head(request_queue) = "login" /\ UNCHANGED retry_timer
             /\ Start(t, Failure)
    <3>1. Turn(t, <<>>, Failure)
      BY <2>1, <2>4, Given
    <3>2. Failure \in Stacks /\ Failure \notin PendingStacks /\ Failure \in FailureStacks
      BY StacksDiffer DEF Stacks, PendingStacks, FailureStacks
    <3>3. ~Active'
      BY <2>1, <2>4, <3>1, <3>2, OpDone
    <3>4. QED
      BY <2>1, <2>2, <2>4, <3>1, <3>2, <3>3, OrderedFailure
  <2>5. CASE /\ Head(request_queue) = "keepalive" /\ UNCHANGED retry_timer
             /\ Start(t, KeepFailure)
    <3>1. Turn(t, <<>>, KeepFailure)
      BY <2>1, <2>5, Given
    <3>2. KeepFailure \in Stacks /\ KeepFailure \notin PendingStacks
      BY StacksDiffer DEF Stacks, PendingStacks
    <3>3. ~Active'
      BY <2>1, <2>5, <3>1, <3>2, OpDone
    <3>4. QED
      BY <2>1, <2>2, <2>5, <3>1, <3>3, OrderedKeepFailure
  <2>6. QED
    BY <1>2, <2>3, <2>4, <2>5 DEF OnConnectFail, Failure, KeepFailure
<1>3. CASE OnRequestOk(t)
  <2>1. Active /\ UNCHANGED <<todo, request_queue, keep_alive_timer, session, reports>>
    BY <1>3, OpActive, OpsAreApart DEF OnRequestOk
  <2>2. QED
    BY <2>1, OrderedInner
<1>4. CASE OnRequestFail(t)
  <2>1. /\ async["write"] > 0 /\ Ready(t) /\ "write" \in AsyncOp
        /\ UNCHANGED <<request_queue, keep_alive_timer, session, reports, user_state>>
    BY <1>4, OpsAreApart DEF OnRequestFail, Complete
  <2>2. Active
    BY <2>1, OpActive
  <2>3. CASE Head(request_queue) = "login"
    <3>1. Start(t, FailureAgain)
      BY <1>4, <2>3 DEF OnRequestFail, FailureAgain
    <3>2. Turn(t, <<>>, FailureAgain) /\ FailureAgain \in FailureStacks
      BY <2>1, <3>1, Given DEF FailureStacks
    <3>3. QED
      BY <2>1, <2>2, <2>3, <3>2, OrderedFailure
  <2>4. CASE Head(request_queue) # "login"
    <3>1. Start(t, Again)
      BY <1>4, <2>4 DEF OnRequestFail, Again
    <3>2. Turn(t, <<>>, Again)
      BY <2>1, <3>1, Given
    <3>3. QED
      BY <2>1, <2>2, <3>2, OrderedAgain
  <2>5. QED
    BY <2>3, <2>4
<1>5. CASE OnKeepAliveResponseFail(t)
  <2>1. Active /\ UNCHANGED <<todo, request_queue, keep_alive_timer, session, reports>>
    BY <1>5, OpActive, OpsAreApart DEF OnKeepAliveResponseFail, Complete
  <2>2. QED
    BY <2>1, OrderedInner
<1>6. CASE RetryTimer(t)
  <2>1. /\ Ready(t) /\ Start(t, Again) /\ retry_timer
        /\ UNCHANGED <<request_queue, keep_alive_timer, session, reports, user_state>>
    BY <1>6 DEF RetryTimer, Again
  <2>2. Active /\ Turn(t, <<>>, Again)
    BY <2>1, Given DEF Active
  <2>3. QED
    BY <2>1, <2>2, OrderedAgain
<1>7. QED
  BY <1>1, <1>2, <1>3, <1>4, <1>5, <1>6

\* The responses, which take the front request off the queue.
LEMMA OrderedResponse ==
  ASSUME TypeIn, IInv, Ordered, Timely', NEW t \in IoThread,
         OnLoginResponse(t) \/ OnKeepAliveResponse(t) \/ OnLogoutResponse(t)
  PROVE  Ordered'
<1>1. ASSUME NEW m \in Method, Complete(m)
      PROVE  /\ m \in AsyncOp /\ Active /\ Head(request_queue) = m
             /\ \A u \in IoThread : ~Pends(todo[u])
  <2>1. m \in AsyncOp /\ async[m] > 0
    BY <1>1, OpsAreApart DEF Complete
  <2>2. QED
    BY <2>1, OpActive DEF IInv, AnswersFront
<1>2. Shaped
  BY DEF Ordered
<1>3. CASE OnLoginResponse(t)
  <2>1. /\ Complete("login") /\ "login" \in Method /\ Ready(t)
        /\ request_queue' = Tail(request_queue) /\ UNCHANGED retry_timer
        /\ UNCHANGED <<keep_alive_timer, session, reports, user_state>>
        /\ Start(t, Answer) \/ Start(t, Failure)
    BY <1>3, OpsAreApart DEF OnLoginResponse, Answer, Failure
  <2>2. /\ Active /\ Head(request_queue) = "login" /\ "login" \in AsyncOp
        /\ \A u \in IoThread : ~Pends(todo[u])
    BY <1>1, <2>1
  <2>3. {Answer, Failure} \subseteq Stacks \ PendingStacks
    BY StacksDiffer DEF Stacks, PendingStacks
  <2>4. CASE Start(t, Answer)
    <3>1. Turn(t, <<>>, Answer)
      BY <2>1, <2>4, Given
    <3>2. ~Active'
      BY <1>2, <2>1, <2>2, <2>3, <3>1, OpDone
    <3>3. QED
      BY <2>1, <2>2, <3>1, <3>2, OrderedAnswer
  <2>5. CASE Start(t, Failure)
    <3>1. Turn(t, <<>>, Failure)
      BY <2>1, <2>5, Given
    <3>2. ~Active'
      BY <1>2, <2>1, <2>2, <2>3, <3>1, OpDone
    <3>3. QED
      BY <2>1, <2>2, <3>1, <3>2, OrderedRefused
  <2>6. QED
    BY <2>1, <2>4, <2>5
<1>4. CASE OnKeepAliveResponse(t)
  <2>1. /\ Complete("keepalive") /\ "keepalive" \in Method /\ Ready(t)
        /\ request_queue' = Tail(request_queue) /\ UNCHANGED retry_timer
        /\ UNCHANGED <<session, reports, user_state>>
        /\ \/ keep_alive_timer' \in {keep_alive_timer, TRUE} /\ UNCHANGED todo
           \/ Start(t, KeepFailure) /\ UNCHANGED keep_alive_timer
    BY <1>4, OpsAreApart DEF OnKeepAliveResponse, KeepFailure, InvokeNextKeepAlive
  <2>2. Active /\ Head(request_queue) = "keepalive" /\ "keepalive" \in AsyncOp
    BY <1>1, <2>1
  <2>3. KeepFailure \in Stacks \ PendingStacks
    BY StacksDiffer DEF Stacks, PendingStacks
  <2>4. CASE keep_alive_timer' \in {keep_alive_timer, TRUE} /\ UNCHANGED todo
    <3>1. ~Active'
      BY <1>2, <2>1, <2>2, <2>3, <2>4, OpDone
    <3>2. QED
      BY <2>1, <2>2, <2>4, <3>1, OrderedKept
  <2>5. CASE Start(t, KeepFailure) /\ UNCHANGED keep_alive_timer
    <3>1. Turn(t, <<>>, KeepFailure)
      BY <2>1, <2>5, Given
    <3>2. ~Active'
      BY <1>2, <2>1, <2>2, <2>3, <3>1, OpDone
    <3>3. QED
      BY <2>1, <2>2, <2>5, <3>1, <3>2, OrderedLost
  <2>6. QED
    BY <2>1, <2>4, <2>5
<1>5. CASE OnLogoutResponse(t)
  <2>1. /\ Complete("logout") /\ "logout" \in Method
        /\ request_queue' = Tail(request_queue) /\ UNCHANGED retry_timer
        /\ UNCHANGED <<todo, keep_alive_timer, session, reports>>
    BY <1>5, OpsAreApart DEF OnLogoutResponse
  <2>2. Active /\ Head(request_queue) = "logout" /\ "logout" \in AsyncOp
    BY <1>1, <2>1
  <2>3. <<>> \in Stacks \ PendingStacks
    BY StacksDiffer DEF Stacks, PendingStacks
  <2>4. ~Active'
    BY <1>2, <2>1, <2>2, <2>3, OpDone
  <2>5. QED
    BY <2>1, <2>2, <2>4, OrderedLoggedOut
<1>6. QED
  BY <1>3, <1>4, <1>5

\* A call that leaves the operations alone begins nothing.
LEMMA ActiveTurns ==
  ASSUME Shaped, NEW t \in IoThread, UNCHANGED <<async, retry_timer>>,
         \/ \E p : \E q \in {<<>>, Ask, AskOut, AskKeep, Out, Success} : Turn(t, p, q)
         \/ \E p, q \in {Again, OutAgain, AskOutAgain, FailureAgain} : Turn(t, p, q)
  PROVE  Active' => Active
<1>1. /\ {<<>>, Ask, AskOut, AskKeep, Out, Success} \subseteq Stacks
      /\ \A q \in {<<>>, Ask, AskOut, AskKeep, Out, Success} : q \notin PendingStacks
  BY StacksDiffer DEF Stacks, PendingStacks
<1>2. {Again, OutAgain, AskOutAgain, FailureAgain} \subseteq Stacks \cap PendingStacks
  BY DEF Stacks, PendingStacks
<1>3. CASE \E p : \E q \in {<<>>, Ask, AskOut, AskKeep, Out, Success} : Turn(t, p, q)
  <2>1. PICK p : \E q \in {<<>>, Ask, AskOut, AskKeep, Out, Success} : Turn(t, p, q)
    BY <1>3
  <2>2. PICK q \in {<<>>, Ask, AskOut, AskKeep, Out, Success} : Turn(t, p, q)
    BY <2>1
  <2>3. q \in Stacks /\ q \notin PendingStacks
    BY <1>1, <2>2
  <2>4. QED
    BY <2>2, <2>3, ActiveSame
<1>4. CASE \E p, q \in {Again, OutAgain, AskOutAgain, FailureAgain} : Turn(t, p, q)
  <2>1. PICK p, q \in {Again, OutAgain, AskOutAgain, FailureAgain} : Turn(t, p, q)
    BY <1>4
  <2>2. q \in Stacks /\ p \in PendingStacks
    BY <1>2, <2>1
  <2>3. QED
    BY <2>1, <2>2, ActiveSame
<1>5. QED
  BY <1>3, <1>4

\* The calls from outside.
LEMMA OrderedCall ==
  ASSUME TypeIn, IInv, Ordered, NEW t \in IoThread,
         Login(t) \/ SessionStop(t) \/ KeepAlive(t)
  PROVE  Ordered'
<1>1. CASE KeepAlive(t)
  <2>1. /\ Ready(t) /\ keep_alive_timer /\ ~keep_alive_timer' /\ Shaped
        /\ UNCHANGED <<request_queue, session, reports, user_state, async, retry_timer>>
        /\ Start(t, <<>>) \/ Start(t, AskKeep)
    BY <1>1 DEF KeepAlive, exchange, AskKeep, Ordered
  <2>2. CASE Start(t, <<>>)
    <3>1. UNCHANGED todo
      BY <2>1, <2>2 DEF Start, Ready, Shaped
    <3>2. Active' => Active
      BY <2>1, <3>1 DEF Active
    <3>3. QED
      BY <2>1, <3>1, <3>2, OrderedTimer
  <2>3. CASE Start(t, AskKeep)
    <3>1. Turn(t, <<>>, AskKeep)
      BY <2>1, <2>3, Given
    <3>2. Active' => Active
      BY <2>1, <3>1, ActiveTurns
    <3>3. QED
      BY <2>1, <3>1, <3>2, OrderedKeepAlive
  <2>4. QED
    BY <2>1, <2>2, <2>3
<1>2. QED
  BY <1>1, OrderedLogin, OrderedStop

\* The calls a thread has to make.
LEMMA OrderedRequests ==
  ASSUME TypeIn, IInv, Ordered, NEW t \in IoThread,
         InvokeConnection(t) \/ InvokeNextConnection(t)
  PROVE  Ordered'
<1>1. Shaped
  BY DEF Ordered
<1>2. CASE InvokeConnection(t)
  <2>1. /\ UNCHANGED <<keep_alive_timer, session, reports, user_state, retry_timer>>
        /\ request_queue # <<>> => UNCHANGED async
    BY <1>2 DEF InvokeConnection
  <2>2. \/ Turn(t, Ask, <<>>) /\ request_queue' = Append(request_queue, "login")
        \/ Turn(t, AskKeep, <<>>) /\ request_queue' = Append(request_queue, "keepalive")
        \/ Turn(t, AskOut, <<>>) /\ request_queue' = Append(request_queue, "logout")
        \/ Turn(t, AskOutAgain, Again) /\ request_queue' = Append(request_queue, "logout")
    BY <1>1, <1>2, Turns
  <2>3. Active' => Active \/ request_queue = <<>>
    BY <1>1, <2>1, <2>2, ActiveTurns
  <2>4. QED
    BY <2>1, <2>2, <2>3, OrderedAsk, OrderedAskKeep, OrderedAskOut, OrderedAskOutAgain
<1>3. CASE InvokeNextConnection(t)
  <2>1. /\ UNCHANGED <<request_queue, keep_alive_timer, session, reports, user_state>>
        /\ Turn(t, Again, <<>>)
    BY <1>1, <1>3, Turns DEF InvokeNextConnection
  <2>2. Active
    BY <2>1, StacksPend DEF Turn, Active, Stacks, PendingStacks
  <2>3. QED
    BY <2>1, <2>2, OrderedNext
<1>4. QED
  BY <1>2, <1>3

LEMMA OrderedUser ==
  ASSUME TypeIn, IInv, Ordered, NEW t \in IoThread, LoggedIn(t) \/ Logout(t)
  PROVE  Ordered'
<1>1. Shaped
  BY DEF Ordered
<1>2. CASE LoggedIn(t)
  <2>1. /\ UNCHANGED <<request_queue, session, reports, async, retry_timer>>
        /\ keep_alive_timer' \in {keep_alive_timer, TRUE} /\ Turn(t, Answer, Success)
    BY <1>1, <1>2, Turns DEF LoggedIn, exchange, InvokeNextKeepAlive
  <2>2. Active' => Active
    BY <1>1, <2>1, ActiveTurns
  <2>3. QED
    BY <2>1, <2>2, OrderedLoggedIn
<1>3. CASE Logout(t)
  <2>1. /\ UNCHANGED <<request_queue, keep_alive_timer, session, reports, user_state>>
        /\ UNCHANGED <<async, retry_timer>>
    BY <1>3 DEF Logout, exchange
  <2>2. \/ Turn(t, Out, <<>>) \/ Turn(t, OutAgain, Again)
        \/ user_state # "None" /\ (Turn(t, Out, AskOut) \/ Turn(t, OutAgain, AskOutAgain))
    BY <1>1, <1>3, Turns
  <2>3. Active' => Active
    BY <1>1, <2>1, <2>2, ActiveTurns
  <2>4. QED
    BY <2>1, <2>2, <2>3, OrderedOut, OrderedOutAgain, OrderedAsksOut, OrderedAsksOutAgain
<1>4. QED
  BY <1>2, <1>3

LEMMA OrderedReports ==
  ASSUME TypeIn, IInv, Ordered, NEW t \in IoThread,
         NotifyLoginResult(t) \/ NotifyKeepAliveResult(t)
  PROVE  Ordered'
<1>1. /\ Shaped /\ UNCHANGED <<request_queue, keep_alive_timer, session, user_state>>
      /\ UNCHANGED <<async, retry_timer>>
  BY DEF Ordered, NotifyLoginResult, NotifyKeepAliveResult, exchange
<1>2. CASE NotifyLoginResult(t)
  <2>1. \/ /\ session = "alive"
           /\ \/ Turn(t, Success, <<>>) /\ reports' = Append(reports, "loginOk")
              \/ /\ Turn(t, Failure, Out) \/ Turn(t, FailureAgain, OutAgain)
                 /\ reports' = Append(reports, "loginFailed")
        \/ /\ session # "alive" /\ UNCHANGED reports
           /\ \/ Turn(t, Success, <<>>) \/ Turn(t, Failure, <<>>)
              \/ Turn(t, FailureAgain, Again)
    BY <1>1, <1>2, Turns
  <2>2. Active' => Active
    BY <1>1, <2>1, ActiveTurns
  <2>3. QED
    BY <1>1, <2>1, <2>2, OrderedTellOk, OrderedTellFailed, OrderedTellFailedAgain,
       OrderedForgetOk, OrderedForgetFailed, OrderedForgetFailedAgain
<1>3. CASE NotifyKeepAliveResult(t)
  <2>1. \/ /\ session = "alive" /\ Turn(t, KeepFailure, Out)
           /\ reports' = Append(reports, "keepAliveFailed")
        \/ session # "alive" /\ UNCHANGED reports /\ Turn(t, KeepFailure, <<>>)
    BY <1>1, <1>3, Turns
  <2>2. Active' => Active
    BY <1>1, <2>1, ActiveTurns
  <2>3. QED
    BY <1>1, <2>1, <2>2, OrderedTellLost, OrderedForgetLost
<1>4. QED
  BY <1>2, <1>3

\* The invariant is kept by every step that ends in a timely state.
LEMMA NextOrdered == TypeIn /\ IInv /\ Ordered /\ Timely' /\ [Next]_vars => Ordered'
<1> SUFFICES ASSUME TypeIn, IInv, Ordered, Timely', [Next]_vars
             PROVE  Ordered'
  OBVIOUS
<1>1. ASSUME NEW t \in IoThread, Completion(t)
      PROVE  Ordered'
  BY <1>1, OrderedExchange, OrderedResponse DEF Completion
<1>2. ASSUME NEW t \in IoThread, Step(t)
      PROVE  Ordered'
  BY <1>2, OrderedRequests, OrderedUser, OrderedReports DEF Step
<1>3. ASSUME NEW t \in IoThread, Login(t) \/ SessionStop(t) \/ KeepAlive(t)
      PROVE  Ordered'
  BY <1>3, OrderedCall
<1>4. CASE SessionExpires
  BY <1>4, OrderedExpires
<1>5. CASE UNCHANGED vars
  <2>1. UNCHANGED <<todo, request_queue, keep_alive_timer, session, reports, user_state,
                    async, retry_timer>>
    BY <1>5 DEF vars, exchange
  <2>2. Active' <=> Active
    BY <2>1 DEF Active
  <2>3. QED
    BY <2>1, <2>2 DEF Ordered, Shaped, Fresh, Asked, OneLogin, Keeping, Kept, KeepQueued,
       OneKeepAlive, Failing
<1>6. QED
  BY <1>1, <1>2, <1>3, <1>4, <1>5 DEF Next

LEMMA InitOrdered == Init => Ordered
<1> SUFFICES ASSUME Init PROVE Ordered
  OBVIOUS
<1>1. /\ session = "new" /\ reports = <<>> /\ request_queue = <<>> /\ user_state = "None"
      /\ ~keep_alive_timer /\ todo = [t \in IoThread |-> <<>>]
  BY DEF Init
<1>2. \A x : ~In(x, reports) /\ ~In(x, request_queue)
  BY <1>1, Queues
<1>3. LoginFirst(request_queue) /\ OneInQueue("keepalive", request_queue)
  BY <1>2 DEF In, LoginFirst, OneInQueue
<1>4. \A t \in IoThread : todo[t] = <<>>
  BY <1>1
<1>5. Shaped /\ Fresh /\ Asked
  BY <1>1, <1>4, StacksDiffer DEF Shaped, Stacks, Fresh, Asked
<1>6. OneLogin
  BY <1>2, <1>3, <1>4, StacksDiffer DEF OneLogin, LoginStacks
<1>7. Kept /\ OneKeepAlive /\ Failing
  BY <1>1, <1>2, <1>3, <1>4, StacksDiffer DEF Keeping, Kept, KeepQueued, OneKeepAlive,
     Failing, FailureStacks
<1>8. QED
  BY <1>5, <1>6, <1>7 DEF Ordered

-----------------------------------------------------------------------------
(* The refinement. *)

LEMMA RangeIn ==
  ASSUME NEW S, NEW q \in Seq(S), NEW x
  PROVE  x \in Range(q) <=> In(x, q)
BY DEF Range, In

LEMMA AskedFirst ==
  ASSUME TypeIn, Ordered
  PROVE  LoginSoFar =
           IF session = "new" THEN "none"
           ELSE IF In("keepAliveFailed", reports) THEN "over"
           ELSE IF In("loginOk", reports) THEN "loggedin" ELSE "inflight"
<1>1. /\ "keepAliveFailed" \in Range(reports) <=> In("keepAliveFailed", reports)
      /\ "loginOk" \in Range(reports) <=> In("loginOk", reports)
  BY RangeIn DEF TypeIn
<1>2. session = "new" => ~In("keepAliveFailed", reports) /\ ~In("loginOk", reports)
  BY Queues DEF Ordered, Fresh
<1>3. QED
  BY <1>1, <1>2 DEF LoginSoFar

LEMMA AskedNext ==
  ASSUME TypeIn', Ordered'
  PROVE  LoginSoFar' =
           IF session' = "new" THEN "none"
           ELSE IF In("keepAliveFailed", reports') THEN "over"
           ELSE IF In("loginOk", reports') THEN "loggedin" ELSE "inflight"
<1>1. /\ "keepAliveFailed" \in Range(reports') <=> In("keepAliveFailed", reports')
      /\ "loginOk" \in Range(reports') <=> In("loginOk", reports')
  BY RangeIn DEF TypeIn
<1>2. session' = "new" => ~In("keepAliveFailed", reports') /\ ~In("loginOk", reports')
  BY Queues DEF Ordered, Fresh
<1>3. QED
  BY <1>1, <1>2 DEF LoginSoFar

LEMMA ReportsUnchanged ==
  ASSUME UNCHANGED <<session, reports>>
  PROVE  UNCHANGED <<LoginSoFar, reports>>
BY DEF LoginSoFar

LEMMA ReportsStart == Init => Contract!Init
<1>1. Range(<<>>) = {}
  BY DEF Range
<1>2. QED
  BY <1>1 DEF Init, Contract!Init, LoginSoFar

\* A login that is asked for: nothing has been reported.
LEMMA ReportsLogin ==
  ASSUME TypeIn, TypeIn', Ordered, Ordered', NEW t \in IoThread, Login(t)
  PROVE  Contract!Next
<1>1. session = "new" /\ session' = "alive" /\ reports = <<>> /\ UNCHANGED reports
  BY DEF Login, Ordered, Fresh
<1>2. \A x : ~In(x, reports) /\ ~In(x, reports')
  BY <1>1, Queues
<1>3. LoginSoFar = "none" /\ LoginSoFar' = "inflight"
  BY <1>1, <1>2, AskedFirst, AskedNext
<1>4. Contract!Login
  BY <1>1, <1>3 DEF Contract!Login
<1>5. QED
  BY <1>4 DEF Contract!Next

\* A success is reported once, a failure only before it.
LEMMA ReportsLoginResult ==
  ASSUME TypeIn, TypeIn', Ordered, Ordered', NEW t \in IoThread, NotifyLoginResult(t)
  PROVE  Contract!Next \/ UNCHANGED <<LoginSoFar, reports>>
<1>1. /\ Shaped /\ Kept /\ UNCHANGED session
      /\ \A u \in IoThread :
           /\ todo[u] = Success => ~In("loginOk", reports)
           /\ todo[u] \in {Failure, FailureAgain} => ~In("loginOk", reports)
  BY DEF Ordered, OneLogin, LoginStacks, Failing, FailureStacks, NotifyLoginResult
<1>2. In("keepAliveFailed", reports) => In("loginOk", reports)
  BY <1>1 DEF Kept
<1>3. \/ session = "alive" /\ todo[t] = Success /\ reports' = Append(reports, "loginOk")
      \/ /\ session = "alive" /\ todo[t] \in {Failure, FailureAgain}
         /\ reports' = Append(reports, "loginFailed")
      \/ UNCHANGED reports
  BY <1>1, Turns DEF Turn
<1>4. CASE session = "alive" /\ todo[t] = Success /\ reports' = Append(reports, "loginOk")
  <2>1. In("loginOk", reports') /\ ~In("keepAliveFailed", reports')
    BY <1>1, <1>2, <1>4, Queues DEF TypeIn, Report
  <2>2. LoginSoFar = "inflight" /\ LoginSoFar' = "loggedin"
    BY <1>1, <1>2, <1>4, <2>1, AskedFirst, AskedNext
  <2>3. Contract!LoginOk
    BY <1>4, <2>2 DEF Contract!LoginOk, Contract!Told
  <2>4. QED
    BY <2>3 DEF Contract!Next
<1>5. CASE /\ session = "alive" /\ todo[t] \in {Failure, FailureAgain}
           /\ reports' = Append(reports, "loginFailed")
  <2>1. ~In("loginOk", reports') /\ ~In("keepAliveFailed", reports')
    BY <1>1, <1>2, <1>5, Queues DEF TypeIn, Report
  <2>2. LoginSoFar = "inflight" /\ LoginSoFar' = "inflight"
    BY <1>1, <1>2, <1>5, <2>1, AskedFirst, AskedNext
  <2>3. Contract!LoginFailed
    BY <1>5, <2>2 DEF Contract!LoginFailed, Contract!Told
  <2>4. QED
    BY <2>3 DEF Contract!Next
<1>6. QED
  BY <1>1, <1>3, <1>4, <1>5, ReportsUnchanged

\* A failed keep-alive is reported once, after the success.
LEMMA ReportsKeepAliveResult ==
  ASSUME TypeIn, TypeIn', Ordered, Ordered', NEW t \in IoThread,
         NotifyKeepAliveResult(t)
  PROVE  Contract!Next \/ UNCHANGED <<LoginSoFar, reports>>
<1>1. /\ Shaped /\ Kept /\ OneKeepAlive /\ UNCHANGED session
  BY DEF Ordered, NotifyKeepAliveResult
<1>2. \/ /\ session = "alive" /\ todo[t] = KeepFailure
         /\ reports' = Append(reports, "keepAliveFailed")
      \/ UNCHANGED reports
  BY <1>1, Turns DEF Turn
<1>3. CASE /\ session = "alive" /\ todo[t] = KeepFailure
           /\ reports' = Append(reports, "keepAliveFailed")
  <2>1. In("loginOk", reports) /\ ~In("keepAliveFailed", reports)
    BY <1>1, <1>3 DEF Kept, OneKeepAlive
  <2>2. In("keepAliveFailed", reports')
    BY <1>3, Queues DEF TypeIn, Report
  <2>3. LoginSoFar = "loggedin" /\ LoginSoFar' = "over"
    BY <1>1, <1>3, <2>1, <2>2, AskedFirst, AskedNext
  <2>4. Contract!KeepAliveFailed
    BY <1>3, <2>3 DEF Contract!KeepAliveFailed, Contract!Told
  <2>5. QED
    BY <2>4 DEF Contract!Next
<1>4. QED
  BY <1>1, <1>2, <1>3, ReportsUnchanged

LEMMA ReportsStep ==
  TypeIn /\ TypeIn' /\ Ordered /\ Ordered' /\ [Next]_vars =>
    Contract!Next \/ UNCHANGED <<LoginSoFar, reports>>
<1> SUFFICES ASSUME TypeIn, TypeIn', Ordered, Ordered', [Next]_vars
             PROVE  Contract!Next \/ UNCHANGED <<LoginSoFar, reports>>
  OBVIOUS
<1>1. ASSUME NEW t \in IoThread, Completion(t)
      PROVE  UNCHANGED <<LoginSoFar, reports>>
  BY <1>1, ReportsUnchanged DEF Completion, OnConnectOk, OnConnectFail, OnRequestOk,
     OnRequestFail, OnLoginResponse, OnKeepAliveResponseFail, OnKeepAliveResponse,
     OnLogoutResponse, RetryTimer
<1>2. ASSUME NEW t \in IoThread, Step(t)
      PROVE  Contract!Next \/ UNCHANGED <<LoginSoFar, reports>>
  BY <1>2, ReportsUnchanged, ReportsLoginResult, ReportsKeepAliveResult
     DEF Step, InvokeConnection, InvokeNextConnection, LoggedIn, Logout
<1>3. ASSUME NEW t \in IoThread, Login(t) \/ SessionStop(t) \/ KeepAlive(t)
      PROVE  Contract!Next \/ UNCHANGED <<LoginSoFar, reports>>
  BY <1>3, ReportsUnchanged, ReportsLogin DEF SessionStop, KeepAlive
<1>4. CASE SessionExpires
  BY <1>4 DEF SessionExpires, LoginSoFar
<1>5. CASE UNCHANGED vars
  BY <1>5, ReportsUnchanged DEF vars
<1>6. QED
  BY <1>1, <1>2, <1>3, <1>4, <1>5 DEF Next

\* What a session is told keeps the promise of LoginReports: nothing before the
\* login began, failures first, at most one success, and at most one failed
\* keep-alive, last.  On several io threads, provided that none reports a failed
\* keep-alive while another has a login result still to report.
THEOREM ReportsInOrderHolds == Spec => ([]Timely => ReportsInOrder)
<1>1. TypeOK => TypeIn
  BY DEF TypeOK, TypeIn
<1>2. Spec => []TypeIn
  BY <1>1, TypeCorrect, PTL
<1>3. Spec => ([]Timely => []Ordered)
  BY <1>2, IInvHolds, InitOrdered, NextOrdered, PTL DEF Spec
<1>4. TypeIn /\ TypeIn' /\ Ordered /\ Ordered' /\ [Next]_vars =>
        [Contract!Next]_<<LoginSoFar, reports>>
  BY ReportsStep
<1>5. QED
  BY <1>2, <1>3, <1>4, ReportsStart, PTL DEF Spec, ReportsInOrder, Contract!Spec

-----------------------------------------------------------------------------
(* A login is under way until it is reported on, on any number of threads.   *)

TellStacks == {Ask, Failure, FailureAgain, Answer, Success}
Carried == Active /\ Head(request_queue) = "login"

\* While the login is still to be queued, other threads only stop the session.
Alone ==
  \A t \in IoThread : todo[t] = Ask =>
    /\ request_queue = <<>> /\ user_state = "None" /\ ~keep_alive_timer
    /\ \A u \in IoThread \ {t} : todo[u] \in {<<>>, Out}
New ==
  session = "new" =>
    /\ request_queue = <<>> /\ user_state = "None" /\ ~keep_alive_timer
    /\ \A t \in IoThread : todo[t] = <<>>
UnderWay ==
  session = "alive" /\ reports = <<>> =>
    (\E t \in IoThread : todo[t] \in TellStacks) \/ Carried
Started == Shaped /\ New /\ Alone /\ UnderWay

\* A step that gives one thread other calls keeps it, when it does not forget
\* about the login.
LEMMA UnderWayTurn ==
  ASSUME Shaped, UnderWay, NEW t \in IoThread, NEW p, NEW q, Turn(t, p, q),
         p \in TellStacks => q \in TellStacks \/ Carried' \/ session' # "alive",
         Carried => q \in TellStacks \/ Carried',
         session' = "alive" => session = "alive",
         reports' = <<>> => reports = <<>>
  PROVE  UnderWay'
<1>1. todo[t] = p /\ todo'[t] = q /\ \A u \in IoThread \ {t} : todo'[u] = todo[u]
  BY DEF Turn, Shaped
<1>2. QED
  BY <1>1 DEF UnderWay

LEMMA UnderWaySame ==
  ASSUME UnderWay, UNCHANGED todo, Carried => Carried',
         session' = "alive" => session = "alive",
         reports' = <<>> => reports = <<>>
  PROVE  UnderWay'
BY DEF UnderWay

\* An exchange that a step leaves alone goes on.
LEMMA ActiveKept ==
  ASSUME Shaped, UNCHANGED <<async, retry_timer>>,
         \/ UNCHANGED todo
         \/ \E t \in IoThread : \E p \in Stacks, q \in Stacks :
              Turn(t, p, q) /\ (p \in PendingStacks => q \in PendingStacks)
  PROVE  Active => Active'
<1>1. \A u \in IoThread : Pends(todo[u]) => Pends(todo'[u])
  <2>1. CASE UNCHANGED todo
    BY <2>1
  <2>2. ASSUME NEW t \in IoThread, NEW p \in Stacks, NEW q \in Stacks, Turn(t, p, q),
               p \in PendingStacks => q \in PendingStacks
        PROVE  \A u \in IoThread : Pends(todo[u]) => Pends(todo'[u])
    BY <2>2, StacksPend DEF Turn, Shaped
  <2>3. QED
    BY <2>1, <2>2
<1>2. QED
  BY <1>1 DEF Active

\* Before the login is queued hardly anything can happen.
LEMMA EarlySteps ==
  ASSUME IInv, Shaped, New, Alone, [Next]_vars,
         session = "new" \/ \E t \in IoThread : todo[t] = Ask
  PROVE  \/ \E t \in IoThread :
              \/ Login(t) \/ SessionStop(t) \/ Logout(t)
              \/ InvokeConnection(t) /\ todo[t] = Ask
         \/ SessionExpires \/ UNCHANGED vars
<1>1. /\ request_queue = <<>> /\ ~keep_alive_timer
      /\ \A u \in IoThread : todo[u] \in {<<>>, Ask, Out}
  BY DEF New, Alone
<1>2. ~Active
  BY <1>1 DEF IInv, Queued
<1>3. \A o \in AsyncOp : async[o] = 0
  BY <1>2 DEF Active, IInv, Single
<1>4. ~retry_timer
  BY <1>2 DEF Active
<1>5. \A t \in IoThread : ~Completion(t)
  BY <1>3, <1>4, OpsAreApart DEF Completion, OnConnectOk, OnConnectFail, OnRequestOk,
     OnRequestFail, OnLoginResponse, OnKeepAliveResponseFail, OnKeepAliveResponse,
     OnLogoutResponse, RetryTimer, Complete
<1>6. \A t \in IoThread : ~KeepAlive(t)
  BY <1>1 DEF KeepAlive
<1>7. ASSUME NEW t \in IoThread, Step(t)
      PROVE  Logout(t) \/ (InvokeConnection(t) /\ todo[t] = Ask)
  <2>1. ~InvokeNextConnection(t) /\ ~LoggedIn(t)
    BY <1>1, StacksDiffer, Turns DEF Turn
  <2>2. ~NotifyLoginResult(t) /\ ~NotifyKeepAliveResult(t)
    BY <1>1, StacksDiffer, Turns DEF Turn
  <2>3. InvokeConnection(t) => todo[t] = Ask
    BY <1>1, StacksDiffer, Turns DEF Turn
  <2>4. QED
    BY <1>7, <2>1, <2>2, <2>3 DEF Step
<1>8. QED
  BY <1>5, <1>6, <1>7 DEF Next

\* Only Login gives a thread the login to queue.
LEMMA NewAsk ==
  ASSUME NEW t \in IoThread, NEW p, NEW q, Turn(t, p, q), Shaped, q # Ask, Alone,
         \A u \in IoThread : todo[u] # Ask
  PROVE  Alone'
BY DEF Turn, Shaped, Alone

\* Every step gives at most one thread other calls, the login only Login.
LEMMA StepTurns ==
  ASSUME Shaped, [Next]_vars
  PROVE  UNCHANGED todo \/ \E t \in IoThread : \E p \in Stacks, q \in Stacks :
                             Turn(t, p, q) /\ (q = Ask => Login(t))
<1>0. /\ {<<>>, AskOut, AskOutAgain, AskKeep, Again, Out, OutAgain, Failure, FailureAgain,
          Answer, Success, KeepFailure} \subseteq Stacks \ {Ask}
      /\ Ask \in Stacks
  BY StacksDiffer DEF Stacks
<1>1. ASSUME NEW t \in IoThread, Step(t)
      PROVE  \E p \in Stacks, q \in Stacks \ {Ask} : Turn(t, p, q)
  <2>1. CASE InvokeConnection(t)
    <3>1. \/ Turn(t, Ask, <<>>) \/ Turn(t, AskKeep, <<>>) \/ Turn(t, AskOut, <<>>)
          \/ Turn(t, AskOutAgain, Again)
      BY <2>1, Turns
    <3>2. QED
      BY <1>0, <3>1
  <2>2. CASE InvokeNextConnection(t) \/ LoggedIn(t)
    <3>1. Turn(t, Again, <<>>) \/ Turn(t, Answer, Success)
      BY <2>2, Turns
    <3>2. QED
      BY <1>0, <3>1
  <2>3. CASE Logout(t)
    <3>1. \/ Turn(t, Out, <<>>) \/ Turn(t, OutAgain, Again)
          \/ Turn(t, Out, AskOut) \/ Turn(t, OutAgain, AskOutAgain)
      BY <2>3, Turns
    <3>2. QED
      BY <1>0, <3>1
  <2>4. CASE NotifyLoginResult(t) \/ NotifyKeepAliveResult(t)
    <3>1. \/ Turn(t, Success, <<>>) \/ Turn(t, Failure, Out)
          \/ Turn(t, FailureAgain, OutAgain) \/ Turn(t, Failure, <<>>)
          \/ Turn(t, FailureAgain, Again) \/ Turn(t, KeepFailure, Out)
          \/ Turn(t, KeepFailure, <<>>)
      BY <2>4, Turns
    <3>2. QED
      BY <1>0, <3>1
  <2>5. QED
    BY <1>1, <2>1, <2>2, <2>3, <2>4 DEF Step
<1>2. ASSUME NEW t \in IoThread, Completion(t)
      PROVE  UNCHANGED todo \/ \E q \in Stacks \ {Ask} : Turn(t, <<>>, q)
  <2>1. /\ Ready(t)
        /\ \/ UNCHANGED todo \/ Start(t, Failure) \/ Start(t, KeepFailure)
           \/ Start(t, FailureAgain) \/ Start(t, Again) \/ Start(t, Answer)
    BY <1>2 DEF Completion, OnConnectOk, OnConnectFail, OnRequestOk, OnRequestFail,
       OnLoginResponse, OnKeepAliveResponseFail, OnKeepAliveResponse,
       OnLogoutResponse, RetryTimer, Failure, KeepFailure, FailureAgain, Again, Answer
  <2>2. QED
    BY <1>0, <2>1, Given
<1>3. ASSUME NEW t \in IoThread, SessionStop(t) \/ KeepAlive(t)
      PROVE  \E q \in Stacks \ {Ask} : Turn(t, <<>>, q)
  <2>1. Ready(t) /\ (Start(t, Out) \/ Start(t, <<>>) \/ Start(t, AskKeep))
    BY <1>3 DEF SessionStop, KeepAlive, Out, AskKeep
  <2>2. QED
    BY <1>0, <2>1, Given
<1>4. ASSUME NEW t \in IoThread, Login(t)
      PROVE  Turn(t, <<>>, Ask)
  BY <1>4, Given DEF Login, Ask
<1>5. SessionExpires \/ UNCHANGED vars => UNCHANGED todo
  BY DEF SessionExpires, vars
<1>6. QED
  BY <1>0, <1>1, <1>2, <1>3, <1>4, <1>5 DEF Next

LEMMA StartedFirst ==
  ASSUME IInv, Started, [Next]_vars
  PROVE  Shaped' /\ New' /\ Alone'
<1> USE DEF Started
<1>1. Shaped'
  <2>1. CASE UNCHANGED todo
    BY <2>1 DEF Shaped
  <2>2. ASSUME NEW t \in IoThread, NEW p \in Stacks, NEW q \in Stacks, Turn(t, p, q)
        PROVE  Shaped'
    BY <2>2 DEF Shaped, Turn
  <2>3. QED
    BY <2>1, <2>2, StepTurns
<1>2. New'
  <2>1. SUFFICES ASSUME session' = "new"
                 PROVE  UNCHANGED <<session, request_queue, user_state, keep_alive_timer, todo>>
    BY DEF New
  <2>2. CASE session = "new"
    <3>1. \A t \in IoThread : todo[t] = <<>>
      BY <2>2 DEF New
    <3>2. \A t \in IoThread : ~Logout(t) /\ ~SessionStop(t) /\ ~InvokeConnection(t)
      BY <2>2, <3>1 DEF Logout, SessionStop, InvokeConnection, At
    <3>3. \A t \in IoThread : ~Login(t)
      BY <2>1 DEF Login
    <3>4. ~SessionExpires
      BY <2>2 DEF SessionExpires
    <3>5. UNCHANGED vars
      BY <2>2, <3>2, <3>3, <3>4, EarlySteps
    <3>6. QED
      BY <3>5 DEF vars, exchange
  <2>3. CASE session # "new"
    <3>1. \A t \in IoThread : ~Login(t)
      BY <2>3 DEF Login
    <3>2. ASSUME NEW t \in IoThread, Completion(t) \/ Step(t) \/ SessionStop(t) \/ KeepAlive(t)
          PROVE  UNCHANGED session
      BY <3>2 DEF Completion, Step, OnConnectOk, OnConnectFail, OnRequestOk,
         OnRequestFail, OnLoginResponse, OnKeepAliveResponseFail, OnKeepAliveResponse,
         OnLogoutResponse, RetryTimer, InvokeConnection, InvokeNextConnection, LoggedIn,
         Logout, NotifyLoginResult, NotifyKeepAliveResult, SessionStop, KeepAlive
    <3>3. SessionExpires => session' = "expired"
      BY DEF SessionExpires
    <3>4. UNCHANGED vars => UNCHANGED session
      BY DEF vars
    <3>5. QED
      BY <2>1, <2>3, <3>1, <3>2, <3>3, <3>4 DEF Next
  <2>4. QED
    BY <2>2, <2>3
<1>3. Alone'
  <2>1. ASSUME NEW t \in IoThread, Login(t)
        PROVE  Alone'
    <3>1. /\ request_queue = <<>> /\ user_state = "None" /\ ~keep_alive_timer
          /\ \A u \in IoThread : todo[u] = <<>>
          /\ UNCHANGED <<request_queue, user_state, keep_alive_timer>>
      BY <2>1 DEF Login, New, exchange
    <3>2. \A u \in IoThread \ {t} : todo'[u] = <<>>
      BY <2>1, <3>1 DEF Login, Start, Shaped
    <3>3. QED
      BY <3>1, <3>2, StacksDiffer DEF Alone
  <2>2. ASSUME \A t \in IoThread : ~Login(t), \A u \in IoThread : todo[u] # Ask
        PROVE  Alone'
    <3>1. CASE UNCHANGED todo
      BY <2>2, <3>1 DEF Alone
    <3>2. ASSUME NEW t \in IoThread, NEW p \in Stacks, NEW q \in Stacks, Turn(t, p, q), q # Ask
          PROVE  Alone'
      BY <2>2, <3>2, NewAsk
    <3>3. QED
      BY <2>2, <3>1, <3>2, StepTurns
  <2>3. ASSUME \A t \in IoThread : ~Login(t), NEW a \in IoThread, todo[a] = Ask
        PROVE  Alone'
    <3>1. /\ request_queue = <<>> /\ user_state = "None" /\ ~keep_alive_timer
          /\ \A u \in IoThread \ {a} : todo[u] \in {<<>>, Out}
      BY <2>3 DEF Alone
    <3>2. CASE SessionExpires \/ UNCHANGED vars
      BY <3>2 DEF SessionExpires, vars, exchange, Alone
    <3>3. ASSUME NEW t \in IoThread, SessionStop(t)
          PROVE  Alone'
      <4>1. /\ Turn(t, <<>>, Out)
            /\ UNCHANGED <<request_queue, user_state, keep_alive_timer>>
        BY <3>3, Given DEF SessionStop, Out, exchange
      <4>2. t # a
        BY <2>3, <4>1, StacksDiffer DEF Turn
      <4>3. QED
        BY <2>3, <3>1, <4>1, <4>2, StacksDiffer DEF Alone, Turn, Shaped
    <3>4. ASSUME NEW t \in IoThread, Logout(t)
          PROVE  Alone'
      <4>1. UNCHANGED <<request_queue, user_state, keep_alive_timer>>
        BY <3>4 DEF Logout, exchange
      <4>2. Turn(t, Out, <<>>) \/ Turn(t, OutAgain, Again)
        BY <3>1, <3>4, Turns
      <4>3. t # a /\ Turn(t, Out, <<>>)
        BY <2>3, <3>1, <4>2, StacksDiffer DEF Turn
      <4>4. QED
        BY <2>3, <3>1, <4>1, <4>3, StacksDiffer DEF Alone, Turn, Shaped
    <3>5. ASSUME NEW t \in IoThread, InvokeConnection(t), todo[t] = Ask
          PROVE  Alone'
      <4>1. t = a /\ Turn(t, Ask, <<>>)
        BY <2>3, <3>1, <3>5, StacksDiffer, Turns DEF Turn
      <4>2. \A u \in IoThread : todo'[u] # Ask
        BY <3>1, <4>1, StacksDiffer DEF Turn, Shaped
      <4>3. QED
        BY <4>2 DEF Alone
    <3>6. QED
      BY <2>3, <3>2, <3>3, <3>4, <3>5, EarlySteps
  <2>4. QED
    BY <2>1, <2>2, <2>3
<1>4. QED
  BY <1>1, <1>2, <1>3

\* What serves the request in front leaves it there, and the login with it, or
\* reports on it.
LEMMA UnderWayExchange ==
  ASSUME IInv, Shaped, UnderWay, NEW t \in IoThread,
         \/ OnConnectOk(t) \/ OnConnectFail(t) \/ OnRequestOk(t) \/ OnRequestFail(t)
         \/ RetryTimer(t)
  PROVE  UnderWay'
<1>1. CASE OnConnectOk(t)
  <2>1. /\ async["connect"] > 0 /\ Follow("connect", "write")
        /\ UNCHANGED <<todo, session, reports, request_queue>>
    BY <1>1 DEF OnConnectOk
  <2>2. async'["write"] = 1
    BY <2>1, Follows, OpsAreApart
  <2>3. Active'
    BY <2>2, OpsAreApart DEF Active
  <2>4. QED
    BY <2>1, <2>3, UnderWaySame DEF Carried
<1>2. CASE OnConnectFail(t)
  <2>1. UNCHANGED <<session, reports, request_queue>>
    BY <1>2 DEF OnConnectFail
  <2>2. CASE retry_timer' = TRUE /\ UNCHANGED todo
    <3>1. Active'
      BY <2>2 DEF Active
    <3>2. QED
      BY <2>1, <2>2, <3>1, UnderWaySame DEF Carried
  <2>3. CASE Head(request_queue) = "login" /\ Ready(t) /\ Start(t, Failure)
    <3>1. Turn(t, <<>>, Failure) /\ Failure \in TellStacks /\ <<>> \notin TellStacks
      BY <2>3, Given, StacksDiffer DEF TellStacks
    <3>2. QED
      BY <2>1, <3>1, UnderWayTurn
  <2>4. CASE Head(request_queue) # "login" /\ Ready(t) /\ Start(t, KeepFailure)
    <3>1. Turn(t, <<>>, KeepFailure) /\ <<>> \notin TellStacks /\ ~Carried
      BY <2>4, Given, StacksDiffer DEF TellStacks, Carried
    <3>2. QED
      BY <2>1, <3>1, UnderWayTurn
  <2>5. CASE Head(request_queue) # "login" /\ UNCHANGED todo
    BY <2>1, <2>5, UnderWaySame DEF Carried
  <2>6. \/ retry_timer' = TRUE /\ UNCHANGED todo
        \/ Head(request_queue) = "login" /\ Ready(t) /\ Start(t, Failure)
        \/ Head(request_queue) # "login" /\ Ready(t) /\ Start(t, KeepFailure)
        \/ Head(request_queue) # "login" /\ UNCHANGED todo
    BY <1>2 DEF OnConnectFail, Failure, KeepFailure
  <2>7. QED
    BY <2>2, <2>3, <2>4, <2>5, <2>6
<1>3. CASE OnRequestOk(t)
  <2>1. /\ async["write"] > 0 /\ Follow("write", Head(request_queue))
        /\ UNCHANGED <<todo, session, reports, request_queue>>
    BY <1>3 DEF OnRequestOk
  <2>2. Head(request_queue) \in Method
    BY <2>1, OneOp, OpsAreApart
  <2>3. async'[Head(request_queue)] = 1 /\ Head(request_queue) \in AsyncOp
    BY <2>1, <2>2, Follows, OpsAreApart
  <2>4. Active'
    BY <2>3 DEF Active
  <2>5. QED
    BY <2>1, <2>4, UnderWaySame DEF Carried
<1>4. CASE OnRequestFail(t)
  <2>1. /\ UNCHANGED <<session, reports, request_queue>>
        /\ \/ Head(request_queue) = "login" /\ Turn(t, <<>>, FailureAgain)
           \/ Head(request_queue) # "login" /\ Turn(t, <<>>, Again)
    BY <1>4, Given DEF OnRequestFail, FailureAgain, Again
  <2>2. <<>> \notin TellStacks /\ FailureAgain \in TellStacks
    BY StacksDiffer DEF TellStacks
  <2>3. CASE Head(request_queue) = "login" /\ Turn(t, <<>>, FailureAgain)
    BY <2>1, <2>2, <2>3, UnderWayTurn
  <2>4. CASE Head(request_queue) # "login" /\ Turn(t, <<>>, Again)
    <3>1. ~Carried
      BY <2>4 DEF Carried
    <3>2. QED
      BY <2>1, <2>2, <2>4, <3>1, UnderWayTurn
  <2>5. QED
    BY <2>1, <2>3, <2>4
<1>5. CASE RetryTimer(t)
  <2>1. Turn(t, <<>>, Again) /\ UNCHANGED <<session, reports, request_queue>>
    BY <1>5, Given DEF RetryTimer, Again
  <2>2. Pends(Again)
    BY StacksPend DEF Stacks, PendingStacks
  <2>3. todo'[t] = Again
    BY <2>1 DEF Turn, Shaped
  <2>4. Active'
    BY <2>2, <2>3 DEF Active
  <2>5. <<>> \notin TellStacks
    BY StacksDiffer DEF TellStacks
  <2>6. QED
    BY <2>1, <2>4, <2>5, UnderWayTurn DEF Carried
<1>6. QED
  BY <1>1, <1>2, <1>3, <1>4, <1>5

\* A response removes the login it answers and has it reported; another
\* response answers another request, and the login has been reported before.
LEMMA UnderWayResponse ==
  ASSUME IInv, Shaped, UnderWay, NEW t \in IoThread,
         \/ OnLoginResponse(t) \/ OnKeepAliveResponseFail(t) \/ OnKeepAliveResponse(t)
         \/ OnLogoutResponse(t)
  PROVE  UnderWay'
<1> <<>> \notin TellStacks /\ Failure \in TellStacks /\ Answer \in TellStacks
  BY StacksDiffer DEF TellStacks
<1>1. CASE OnLoginResponse(t)
  <2>1. /\ UNCHANGED <<session, reports>>
        /\ Turn(t, <<>>, Answer) \/ Turn(t, <<>>, Failure)
    BY <1>1, Given DEF OnLoginResponse, Answer, Failure
  <2>2. QED
    BY <2>1, UnderWayTurn
<1>2. CASE \/ OnKeepAliveResponseFail(t) \/ OnKeepAliveResponse(t) \/ OnLogoutResponse(t)
  <2>1. async["keepalive"] > 0 \/ async["logout"] > 0
    BY <1>2 DEF OnKeepAliveResponseFail, OnKeepAliveResponse, OnLogoutResponse, Complete
  <2>2. ~Carried
    BY <2>1, OpsAreApart DEF IInv, AnswersFront, Carried
  <2>3. /\ UNCHANGED <<session, reports>>
        /\ UNCHANGED todo \/ Turn(t, <<>>, KeepFailure)
    BY <1>2, Given DEF OnKeepAliveResponseFail, OnKeepAliveResponse, OnLogoutResponse,
       KeepFailure
  <2>4. QED
    BY <2>2, <2>3, UnderWayTurn, UnderWaySame
<1>3. QED
  BY <1>1, <1>2

\* A queued request waits behind the login, and the login is queued first.
LEMMA UnderWayInvoke ==
  ASSUME IInv, Started, NEW t \in IoThread, InvokeConnection(t)
  PROVE  UnderWay'
<1> USE DEF Started
<1>1. /\ UNCHANGED <<session, reports, retry_timer>>
      /\ IF request_queue = <<>> THEN Begin("connect") ELSE UNCHANGED async
  BY DEF InvokeConnection
<1>2. /\ <<>> \notin TellStacks /\ AskKeep \notin TellStacks /\ AskOut \notin TellStacks
      /\ AskOutAgain \notin TellStacks
  BY StacksDiffer DEF TellStacks
<1>3. Carried => request_queue # <<>>
  BY DEF IInv, Queued, Carried
<1>4. CASE Turn(t, Ask, <<>>) /\ request_queue' = Append(request_queue, "login")
  <2>1. todo[t] = Ask
    BY <1>4 DEF Turn
  <2>2. request_queue = <<>>
    BY <2>1 DEF Alone
  <2>3. request_queue' = <<"login">>
    BY <1>4, <2>2
  <2>4. ~Active
    BY <2>2 DEF IInv, Queued
  <2>5. Idle
    BY <2>4 DEF Active, Idle, IInv, Single
  <2>6. async'["connect"] = 1
    BY <1>1, <2>2, <2>5, Begins, OpsAreApart
  <2>7. Carried'
    BY <2>3, <2>6, OpsAreApart DEF Active, Carried
  <2>8. QED
    BY <1>1, <1>4, <2>7, UnderWayTurn
<1>5. ASSUME NEW p \in Stacks, NEW q \in Stacks, Turn(t, p, q), p \notin TellStacks,
             NEW m \in Method, request_queue' = Append(request_queue, m),
             p \in PendingStacks => q \in PendingStacks
      PROVE  UnderWay'
  <2>1. CASE request_queue = <<>>
    BY <1>1, <1>3, <1>5, <2>1, UnderWayTurn
  <2>2. CASE request_queue # <<>>
    <3>1. Active => Active'
      BY <1>1, <1>5, <2>2, ActiveKept
    <3>2. Head(request_queue') = Head(request_queue)
      BY <1>5, <2>2 DEF IInv, QueueOK
    <3>3. QED
      BY <1>1, <1>5, <3>1, <3>2, UnderWayTurn DEF Carried
  <2>3. QED
    BY <2>1, <2>2
<1>6. /\ {<<>>, AskKeep, AskOut, AskOutAgain, Again} \subseteq Stacks
      /\ AskKeep \notin PendingStacks /\ AskOut \notin PendingStacks
      /\ Again \in PendingStacks
  BY StacksDiffer DEF Stacks, PendingStacks
<1>7. QED
  BY <1>2, <1>4, <1>5, <1>6, Turns, OpsAreApart

\* The other calls keep it, or report.
LEMMA UnderWaySteps ==
  ASSUME IInv, Started, TypeIn, NEW t \in IoThread,
         \/ InvokeNextConnection(t) \/ LoggedIn(t) \/ Logout(t)
         \/ NotifyLoginResult(t) \/ NotifyKeepAliveResult(t)
  PROVE  UnderWay'
<1> USE DEF Started
<1>1. /\ <<>> \notin TellStacks /\ Again \notin TellStacks /\ Out \notin TellStacks
      /\ OutAgain \notin TellStacks /\ AskOut \notin TellStacks
      /\ AskOutAgain \notin TellStacks /\ KeepFailure \notin TellStacks
      /\ Success \in TellStacks
  BY StacksDiffer DEF TellStacks
<1>2. CASE InvokeNextConnection(t)
  <2>1. /\ UNCHANGED <<session, reports, request_queue>> /\ Turn(t, Again, <<>>)
        /\ IF request_queue # <<>> THEN Begin("connect") ELSE UNCHANGED async
    BY <1>2, Turns DEF InvokeNextConnection
  <2>2. Pends(todo[t])
    BY <2>1, StacksPend DEF Turn, Stacks, PendingStacks
  <2>3. Idle /\ request_queue # <<>>
    BY <2>2 DEF IInv, Single, Queued, Active, Idle
  <2>4. async'["connect"] = 1
    BY <2>1, <2>3, Begins, OpsAreApart
  <2>5. Active'
    BY <2>4, OpsAreApart DEF Active
  <2>6. QED
    BY <1>1, <2>1, <2>5, UnderWayTurn DEF Carried
<1>3. CASE LoggedIn(t)
  <2>1. UNCHANGED <<session, reports>> /\ Turn(t, Answer, Success)
    BY <1>3, Turns DEF LoggedIn
  <2>2. QED
    BY <1>1, <2>1, UnderWayTurn
<1>4. CASE Logout(t)
  <2>1. UNCHANGED <<session, reports, request_queue, async, retry_timer>>
    BY <1>4 DEF Logout, exchange
  <2>2. ASSUME NEW p \in Stacks, NEW q \in Stacks, Turn(t, p, q), p \notin TellStacks,
               p \in PendingStacks => q \in PendingStacks
        PROVE  UnderWay'
    <3>1. Active => Active'
      BY <2>1, <2>2, ActiveKept
    <3>2. QED
      BY <2>1, <2>2, <3>1, UnderWayTurn DEF Carried
  <2>3. /\ {<<>>, Out, OutAgain, Again, AskOut, AskOutAgain} \subseteq Stacks
        /\ Out \notin PendingStacks
        /\ {OutAgain, Again, AskOutAgain} \subseteq PendingStacks
    BY StacksDiffer DEF Stacks, PendingStacks
  <2>4. QED
    BY <1>1, <1>4, <2>2, <2>3, Turns
<1>5. CASE NotifyLoginResult(t) \/ NotifyKeepAliveResult(t)
  <2>1. UNCHANGED session
    BY <1>5 DEF NotifyLoginResult, NotifyKeepAliveResult
  <2>2. CASE session = "alive"
    <3>1. \E r \in Report : reports' = Append(reports, r)
      BY <1>5, <2>2 DEF NotifyLoginResult, NotifyKeepAliveResult, Report
    <3>2. reports' # <<>>
      BY <3>1 DEF TypeIn
    <3>3. QED
      BY <3>2 DEF UnderWay
  <2>3. QED
    BY <2>1, <2>2 DEF UnderWay
<1>6. QED
  BY <1>2, <1>3, <1>4, <1>5

LEMMA StartedNext ==
  TypeIn /\ IInv /\ Started /\ [Next]_vars => Started'
<1> SUFFICES ASSUME TypeIn, IInv, Started, [Next]_vars
             PROVE  Started'
  OBVIOUS
<1> USE DEF Started
<1>1. ASSUME NEW t \in IoThread, Completion(t)
      PROVE  UnderWay'
  BY <1>1, UnderWayExchange, UnderWayResponse DEF Completion
<1>2. ASSUME NEW t \in IoThread, Step(t)
      PROVE  UnderWay'
  BY <1>2, UnderWayInvoke, UnderWaySteps DEF Step
<1>3. ASSUME NEW t \in IoThread, Login(t)
      PROVE  UnderWay'
  <2>1. Turn(t, <<>>, Ask)
    BY <1>3, Given DEF Login, Ask
  <2>2. todo'[t] \in TellStacks
    BY <2>1 DEF Turn, Shaped, TellStacks
  <2>3. QED
    BY <2>2 DEF UnderWay
<1>4. ASSUME NEW t \in IoThread, SessionStop(t) \/ KeepAlive(t)
      PROVE  UnderWay'
  <2>1. /\ UNCHANGED <<session, reports, request_queue, async, retry_timer>>
        /\ \/ Turn(t, <<>>, Out) \/ Turn(t, <<>>, <<>>) \/ Turn(t, <<>>, AskKeep)
    BY <1>4, Given DEF SessionStop, KeepAlive, exchange, Out, AskKeep
  <2>2. /\ {<<>>, Out, AskKeep} \subseteq Stacks
        /\ <<>> \notin PendingStacks /\ <<>> \notin TellStacks
    BY StacksDiffer DEF Stacks, PendingStacks, TellStacks
  <2>3. ASSUME NEW q \in Stacks, Turn(t, <<>>, q)
        PROVE  UnderWay'
    <3>1. Active => Active'
      BY <2>1, <2>2, <2>3, ActiveKept
    <3>2. QED
      BY <2>1, <2>2, <2>3, <3>1, UnderWayTurn DEF Carried
  <2>4. QED
    BY <2>1, <2>2, <2>3
<1>5. ASSUME SessionExpires
      PROVE  UnderWay'
  <2>1. session' = "expired"
    BY <1>5 DEF SessionExpires
  <2>2. QED
    BY <2>1 DEF UnderWay
<1>6. ASSUME UNCHANGED vars
      PROVE  UnderWay'
  <2>1. UNCHANGED <<todo, session, reports, request_queue, async, retry_timer>>
    BY <1>6 DEF vars, exchange
  <2>2. Active => Active'
    BY <2>1, ActiveKept
  <2>3. QED
    BY <2>1, <2>2, UnderWaySame DEF Carried
<1>7. QED
  BY <1>1, <1>2, <1>3, <1>4, <1>5, <1>6, StartedFirst DEF Next

LEMMA StartedInit == Init => Started
<1> SUFFICES ASSUME Init PROVE Started
  OBVIOUS
<1>1. \A t \in IoThread : todo[t] = <<>>
  BY DEF Init
<1>2. Shaped
  BY StacksDiffer DEF Init, Shaped, Stacks
<1>3. New /\ UnderWay
  BY <1>1 DEF Init, New, UnderWay
<1>4. Alone
  BY <1>1, StacksDiffer DEF Alone
<1>5. QED
  BY <1>2, <1>3, <1>4 DEF Started

LEMMA ActiveIsExchange ==
  ASSUME IInv, Active
  PROVE  Exchanges # {}
<1>1. ASSUME NEW o \in AsyncOp, async[o] = 1
      PROVE  Exchanges # {}
  <2>1. <<o, 1>> \in {o} \X (1..async[o])
    BY <1>1
  <2>2. <<o, 1>> \in UNION {{p} \X (1..async[p]) : p \in AsyncOp}
    BY <2>1
  <2>3. QED
    BY <2>2 DEF Exchanges
<1>2. ASSUME retry_timer
      PROVE  Exchanges # {}
  <2>1. <<"retry_timer", 1>> \in {<<"retry_timer", i>> : i \in {j \in {1} : retry_timer}}
    BY <1>2
  <2>2. QED
    BY <2>1 DEF Exchanges
<1>3. ASSUME NEW t \in IoThread, Pends(todo[t])
      PROVE  Exchanges # {}
  <2>1. PICK i \in 1..Len(todo[t]) : todo[t][i].op = "InvokeNextConnection"
    BY <1>3 DEF Pends
  <2>2. DOMAIN todo[t] = 1..Len(todo[t])
    BY DEF IInv, TodoOK
  <2>3. <<t, i>> \in {t} \X {j \in DOMAIN todo[t] : todo[t][j].op = "InvokeNextConnection"}
    BY <2>1, <2>2
  <2>4. <<t, i>> \in UNION {{u} \X {j \in DOMAIN todo[u] :
                                       todo[u][j].op = "InvokeNextConnection"} :
                             u \in IoThread}
    BY <2>3
  <2>5. QED
    BY <2>4 DEF Exchanges
<1>4. QED
  BY <1>1, <1>2, <1>3 DEF Active

\* Until the session is told anything, its login is about to be queued or to be
\* reported on, or an exchange has it in front: it never gets lost, on any
\* number of io threads.
THEOREM LoginIsUnderWayHolds == Spec => []LoginIsUnderWay
<1>1. TypeOK => TypeIn
  BY DEF TypeOK, TypeIn
<1>2. IInv /\ Started => LoginIsUnderWay
  <2> SUFFICES ASSUME IInv, Started, session = "alive", reports = <<>>
               PROVE  \/ \E t \in IoThread : \E i \in DOMAIN todo[t] :
                           \/ todo[t][i].op = "NotifyLoginResult"
                           \/ todo[t][i] = Calls("InvokeConnection", "login")
                      \/ Exchanges # {} /\ Head(request_queue) = "login"
    BY DEF LoginIsUnderWay
  <2>1. ASSUME NEW t \in IoThread, todo[t] \in TellStacks
        PROVE  \E i \in DOMAIN todo[t] :
                 \/ todo[t][i].op = "NotifyLoginResult"
                 \/ todo[t][i] = Calls("InvokeConnection", "login")
    <3>1. CASE todo[t] = Ask
      <4>1. 1 \in DOMAIN todo[t] /\ todo[t][1] = Calls("InvokeConnection", "login")
        BY <3>1 DEF Ask
      <4>2. QED
        BY <4>1
    <3>2. CASE todo[t] \in {Failure, FailureAgain, Success}
      <4>1. 1 \in DOMAIN todo[t] /\ todo[t][1].op = "NotifyLoginResult"
        BY <3>2 DEF Failure, FailureAgain, Success, Calls
      <4>2. QED
        BY <4>1
    <3>3. CASE todo[t] = Answer
      <4>1. 2 \in DOMAIN todo[t] /\ todo[t][2].op = "NotifyLoginResult"
        BY <3>3 DEF Answer, Calls
      <4>2. QED
        BY <4>1
    <3>4. QED
      BY <2>1, <3>1, <3>2, <3>3 DEF TellStacks
  <2>2. (\E t \in IoThread : todo[t] \in TellStacks) \/ Carried
    BY DEF Started, UnderWay
  <2>3. QED
    BY <2>1, <2>2, ActiveIsExchange DEF Carried
<1>3. QED
  BY <1>1, <1>2, TypeCorrect, IInvHolds, StartedInit, StartedNext, PTL DEF Spec
=============================================================================
