------------------------- MODULE VirtualHidProofs -------------------------
(* Proofs about VirtualHid, for every set of sessions and keys, every number *)
(* of keys in a report, of reads outstanding and of keys replayed.           *)
EXTENDS VirtualHid, FiniteSetTheorems, FunctionTheorems,
        SequenceTheorems, TLAPS

\* The reads in a queue; those and the ones the driver keeps are always as many.
ReadsAt(q) == {i \in 1..Len(q) : q[i] = Read}
Conserved == Cardinality(ReadsAt(queue)) + report_queue = Reads

\* The parts of TypeOK.
CallsOK ==
  /\ life \in [Session -> {"new", "login", "ready", "free", "gone"}]
  /\ keyboard_replay \in [Session -> {"uninitialised", "kNone", "kCgvhid"}]
  /\ call \in [Session -> [Handler -> Where]]
CodesOK ==
  /\ keyboard_state \in [Session -> SUBSET Code]
  /\ control_report \in [Session -> SUBSET Code]
  /\ held \in [Session -> SUBSET Code]
  /\ host \subseteq Code
FlagsOK ==
  /\ closed \in [Session -> BOOLEAN] /\ control \in [Session -> BOOLEAN]
  /\ crowded \in BOOLEAN /\ failed \in BOOLEAN /\ early \in BOOLEAN
QueueOK == queue \in Seq(Writes \cup {Read})
ServingOK ==
  serving \in {Nothing} \cup
    [write : Writes, stage : {"report", "message"}, sent : BOOLEAN]
ReplaysOK == replays \in 0..MaxReplays
Roomy ==
  \A s \in Session :
    /\ IsFiniteSet(keyboard_state[s] \cap Key)
    /\ Cardinality(keyboard_state[s] \cap Key) <= KEYBD_MAX_KEY_COUNT
ReadsOK == report_queue \in Nat /\ Conserved

Parts == CallsOK /\ CodesOK /\ FlagsOK /\ QueueOK /\ ServingOK /\ ReplaysOK

\* One step of a session; one of the driver's.
SessionStep(s) ==
  \/ OnLogin(s) \/ Initialize(s) \/ OpenControl(s) \/ OpenMessage(s)
  \/ KeyboardReset(s) \/ ReplayKeyboard(s) \/ ReplayKeyboardVk(s)
  \/ Close(s) \/ Destroy(s)
  \/ \E h \in Handler :
       KeyboardUpdate(s, h) \/ WriteFileFail(s, h) \/ WriteFile(s, h)
DriverStep == DispatchRead \/ DispatchWrite \/ SendReport \/ SendMessage

LEMMA NextSteps == Next <=> (\E s \in Session : SessionStep(s)) \/ DriverStep
BY DEF Next, SessionStep, DriverStep
-----------------------------------------------------------------------------
(* Reads in a queue. *)

LEMMA ReadsFinite ==
  ASSUME NEW S, NEW q \in Seq(S)
  PROVE  IsFiniteSet(ReadsAt(q)) /\ Cardinality(ReadsAt(q)) \in Nat
<1>1. Len(q) \in Nat
  OBVIOUS
<1>2. IsFiniteSet(1..Len(q))
  BY <1>1, FS_Interval
<1>3. ReadsAt(q) \in SUBSET (1..Len(q))
  BY DEF ReadsAt
<1>4. IsFiniteSet(ReadsAt(q))
  BY <1>2, <1>3, FS_Subset
<1>5. QED
  BY <1>4, FS_CardinalityType

LEMMA ReadsAppend ==
  ASSUME NEW S, NEW q \in Seq(S), NEW e \in S
  PROVE  Cardinality(ReadsAt(Append(q, e))) =
           Cardinality(ReadsAt(q)) + (IF e = Read THEN 1 ELSE 0)
<1>1. /\ Len(Append(q, e)) = Len(q) + 1 /\ Len(q) \in Nat
      /\ \A i \in 1..Len(q) : Append(q, e)[i] = q[i]
      /\ Append(q, e)[Len(q) + 1] = e
  OBVIOUS
<1>2. Len(q) + 1 \notin ReadsAt(q)
  BY <1>1 DEF ReadsAt
<1>3. CASE e = Read
  <2>1. ReadsAt(Append(q, e)) = ReadsAt(q) \cup {Len(q) + 1}
    BY <1>1, <1>3 DEF ReadsAt
  <2>2. QED
    BY <1>2, <1>3, <2>1, ReadsFinite, FS_AddElement
<1>4. CASE e # Read
  <2>1. ReadsAt(Append(q, e)) = ReadsAt(q)
    BY <1>1, <1>4 DEF ReadsAt
  <2>2. QED
    BY <1>4, <2>1, ReadsFinite
<1>5. QED
  BY <1>3, <1>4

LEMMA ReadsTail ==
  ASSUME NEW S, NEW q \in Seq(S), q # <<>>
  PROVE  Cardinality(ReadsAt(q)) =
           Cardinality(ReadsAt(Tail(q))) + (IF Head(q) = Read THEN 1 ELSE 0)
<1>1. /\ Len(q) \in Nat \ {0} /\ Tail(q) \in Seq(S) /\ Len(Tail(q)) = Len(q) - 1
      /\ \A i \in 1..(Len(q) - 1) : Tail(q)[i] = q[i + 1]
      /\ Head(q) = q[1]
  OBVIOUS
<1> DEFINE later == ReadsAt(q) \ {1}
           f == [i \in ReadsAt(Tail(q)) |-> i + 1]
<1>2. f \in Bijection(ReadsAt(Tail(q)), later)
  <2>1. \A i \in ReadsAt(Tail(q)) : i + 1 \in later
    BY <1>1 DEF ReadsAt
  <2>2. \A j \in later : j - 1 \in ReadsAt(Tail(q)) /\ (j - 1) + 1 = j
    BY <1>1 DEF ReadsAt
  <2>3. \A i, j \in ReadsAt(Tail(q)) : i + 1 = j + 1 => i = j
    BY DEF ReadsAt
  <2>4. \A j \in later : \E i \in ReadsAt(Tail(q)) : f[i] = j
    BY <2>2
  <2>5. QED
    BY <2>1, <2>3, <2>4, Fun_IsBij
<1>3. Cardinality(later) = Cardinality(ReadsAt(Tail(q)))
  <2>1. IsFiniteSet(ReadsAt(Tail(q)))
    BY <1>1, ReadsFinite
  <2>2. ExistsBijection(ReadsAt(Tail(q)), later)
    BY <1>2, Fun_ExistsBij
  <2>3. QED
    BY <2>1, <2>2, FS_Bijection
<1>4. IsFiniteSet(ReadsAt(q))
  BY ReadsFinite
<1>5. Cardinality(later) =
        IF 1 \in ReadsAt(q) THEN Cardinality(ReadsAt(q)) - 1 ELSE Cardinality(ReadsAt(q))
  BY <1>4, FS_RemoveElement
<1>6. 1 \in ReadsAt(q) <=> Head(q) = Read
  BY <1>1 DEF ReadsAt
<1>7. Cardinality(ReadsAt(q)) \in Nat /\ Cardinality(ReadsAt(Tail(q))) \in Nat
  BY <1>1, ReadsFinite
<1>8. QED
  BY <1>3, <1>5, <1>6, <1>7
-----------------------------------------------------------------------------
(* Type correctness: the sessions' calls and codes. *)

LEMMA ReplayIsCode ==
  ASSUME NEW s \in Session, ReplayKeyboard(s) \/ ReplayKeyboardVk(s)
  PROVE  \E c \in Code \cup {KEY_NONE}, pressed \in BOOLEAN : ReplayCode(s, c, pressed)
BY KeyAssumption DEF ReplayKeyboard, ReplayKeyboardVk

LEMMA ReturnCalls ==
  ASSUME CallsOK, NEW s \in Session, NEW h \in Handler, NEW ok \in BOOLEAN,
         Return(s, h, ok)
  PROVE  CallsOK'
<1>1. call' \in [Session -> [Handler -> Where]]
  BY DEF CallsOK, Return, Goto, Where
<1>2. life' \in [Session -> {"new", "login", "ready", "free", "gone"}]
  BY DEF CallsOK, Return
<1>3. keyboard_replay' \in [Session -> {"uninitialised", "kNone", "kCgvhid"}]
  <2>1. \/ keyboard_replay' = keyboard_replay
        \/ keyboard_replay' = [keyboard_replay EXCEPT ![s] = keyboard_replay[s]]
        \/ keyboard_replay' = [keyboard_replay EXCEPT ![s] = "kNone"]
    BY DEF Return
  <2>2. QED
    BY <2>1 DEF CallsOK
<1>4. QED
  BY <1>1, <1>2, <1>3 DEF CallsOK

LEMMA CallsSession ==
  ASSUME CallsOK, NEW s \in Session, SessionStep(s)
  PROVE  CallsOK'
<1> USE DEF CallsOK, Where, Handler, Goto
<1>1. CASE OnLogin(s)
  BY <1>1 DEF OnLogin
<1>2. CASE Initialize(s)
  BY <1>2 DEF Initialize
<1>3. CASE OpenControl(s) \/ OpenMessage(s)
  BY <1>3 DEF OpenControl, OpenMessage
<1>4. CASE KeyboardReset(s)
  BY <1>4 DEF KeyboardReset
<1>5. CASE ReplayKeyboard(s) \/ ReplayKeyboardVk(s)
  <2>1. PICK c, pressed : ReplayCode(s, c, pressed)
    BY <1>5, ReplayIsCode
  <2>2. UNCHANGED <<life, keyboard_replay>>
    BY <2>1 DEF ReplayCode
  <2>3. call' = call \/ call' = [call EXCEPT ![s]["replay"] = "update"]
    BY <2>1 DEF ReplayCode, KeyboardPress, KeyboardRelease, SetState
  <2>4. QED
    BY <2>2, <2>3
<1>6. CASE Close(s)
  BY <1>6 DEF Close
<1>7. CASE Destroy(s)
  <2>1. /\ keyboard_replay' = keyboard_replay
        /\ life' \in {[life EXCEPT ![s] = "free"], [life EXCEPT ![s] = "gone"]}
        /\ call' \in {call, [call EXCEPT ![s]["control"] = "reset"]}
    BY <1>7 DEF Destroy
  <2>2. QED
    BY <2>1
<1>8. ASSUME NEW h \in Handler,
             KeyboardUpdate(s, h) \/ WriteFileFail(s, h) \/ WriteFile(s, h)
      PROVE  CallsOK'
  <2>1. CASE WriteFileFail(s, h)
    BY <2>1, ReturnCalls DEF WriteFileFail
  <2>2. CASE WriteFile(s, h)
    BY <2>2 DEF WriteFile
  <2>3. CASE KeyboardUpdate(s, h)
    BY <2>3 DEF KeyboardUpdate
  <2>4. QED
    BY <1>8, <2>1, <2>2, <2>3
<1>9. QED
  BY <1>1, <1>2, <1>3, <1>4, <1>5, <1>6, <1>7, <1>8 DEF SessionStep

LEMMA CodesSession ==
  ASSUME CodesOK, NEW s \in Session, SessionStep(s)
  PROVE  CodesOK'
<1> USE DEF CodesOK
<1>1. CASE OnLogin(s) \/ Initialize(s) \/ OpenControl(s) \/ OpenMessage(s)
            \/ Close(s) \/ Destroy(s)
  BY <1>1 DEF OnLogin, Initialize, OpenControl, OpenMessage, Close, Destroy
<1>2. CASE KeyboardReset(s)
  BY <1>2 DEF KeyboardReset
<1>3. CASE ReplayKeyboard(s) \/ ReplayKeyboardVk(s)
  <2>1. PICK c \in Code \cup {KEY_NONE}, pressed \in BOOLEAN : ReplayCode(s, c, pressed)
    BY <1>3, ReplayIsCode
  <2>2. held' \in [Session -> SUBSET Code]
    BY <2>1 DEF ReplayCode, Hold
  <2>3. host' \subseteq Code
    BY <2>1 DEF ReplayCode
  <2>4. /\ UNCHANGED control_report
        /\ \/ UNCHANGED keyboard_state
           \/ \E codes \in SUBSET Code :
                keyboard_state' = [keyboard_state EXCEPT ![s] = codes]
    <3>1. keyboard_state[s] \cup ({c} \ {KEY_NONE}) \in SUBSET Code
      BY <2>1
    <3>2. keyboard_state[s] \ {c} \in SUBSET Code
      OBVIOUS
    <3>3. QED
      BY <2>1, <3>1, <3>2
         DEF ReplayCode, KeyboardPress, KeyboardRelease, SetState
  <2>5. QED
    BY <2>2, <2>3, <2>4
<1>4. ASSUME NEW h \in Handler, WriteFileFail(s, h) \/ WriteFile(s, h)
      PROVE  CodesOK'
  BY <1>4 DEF WriteFileFail, WriteFile
<1>5. ASSUME NEW h \in Handler, KeyboardUpdate(s, h)
      PROVE  CodesOK'
  BY <1>5 DEF KeyboardUpdate
<1>6. QED
  BY <1>1, <1>2, <1>3, <1>4, <1>5 DEF SessionStep

LEMMA FlagsSession ==
  ASSUME FlagsOK, NEW s \in Session, SessionStep(s)
  PROVE  FlagsOK'
BY DEF FlagsOK, SessionStep, OnLogin, Initialize, OpenControl, OpenMessage,
       KeyboardReset, KeyboardUpdate, ReplayKeyboard, ReplayKeyboardVk, ReplayCode,
       Close, Destroy, WriteFileFail, WriteFile, history

LEMMA ReplaysSession ==
  ASSUME ReplaysOK, NEW s \in Session, SessionStep(s)
  PROVE  ReplaysOK'
<1>1. replays' = replays \/ (replays < MaxReplays /\ replays' = replays + 1)
  BY DEF SessionStep, OnLogin, Initialize, OpenControl, OpenMessage, KeyboardReset,
         KeyboardUpdate, ReplayKeyboard, ReplayKeyboardVk, ReplayCode, Close,
         Destroy, WriteFileFail, WriteFile, history
<1>2. QED
  BY <1>1, CountAssumption DEF ReplaysOK

\* A session's step appends a write to the queue or leaves the driver alone.
LEMMA QueueSession ==
  ASSUME CodesOK, QueueOK, NEW s \in Session, SessionStep(s)
  PROVE  /\ UNCHANGED <<report_queue, serving>>
         /\ queue' = queue \/ \E w \in Writes : queue' = Append(queue, w)
<1>1. ASSUME NEW h \in Handler, WriteFile(s, h)
      PROVE  \E w \in Writes : queue' = Append(queue, w)
  <2>1. WriteOf(s, h, control_report[s]) \in Writes
    BY DEF WriteOf, Writes, CodesOK
  <2>2. QED
    BY <1>1, <2>1 DEF WriteFile
<1>2. ASSUME NEW h \in Handler, WriteFile(s, h)
      PROVE  UNCHANGED <<report_queue, serving>>
  BY <1>2 DEF WriteFile
<1>3. CASE ~ \E h \in Handler : WriteFile(s, h)
  BY <1>3 DEF SessionStep, OnLogin, Initialize, OpenControl, OpenMessage,
         KeyboardReset, KeyboardUpdate, ReplayKeyboard, ReplayKeyboardVk, ReplayCode,
         Close, Destroy, WriteFileFail, driver
<1>4. QED
  BY <1>1, <1>2, <1>3

\* A new code finds a free place, and a session's set of keys stays finite.
LEMMA RoomySession ==
  ASSUME CodesOK, Roomy, NEW s \in Session, SessionStep(s)
  PROVE  Roomy'
<1> DEFINE keys(r) == keyboard_state[r] \cap Key
<1> SUFFICES ASSUME NEW r \in Session
             PROVE  /\ IsFiniteSet(keyboard_state'[r] \cap Key)
                    /\ Cardinality(keyboard_state'[r] \cap Key) <= KEYBD_MAX_KEY_COUNT
  BY DEF Roomy
<1>1. /\ IsFiniteSet(keys(r)) /\ Cardinality(keys(r)) \in Nat
      /\ Cardinality(keys(r)) <= KEYBD_MAX_KEY_COUNT
  BY FS_CardinalityType DEF Roomy
<1>2. CASE keyboard_state'[r] = keyboard_state[r]
  BY <1>1, <1>2
<1>3. CASE keyboard_state'[r] = {}
  BY <1>3, FS_EmptySet, CountAssumption
<1>4. ASSUME NEW c \in Code \cup {KEY_NONE}, PressReports(r, c),
             keyboard_state'[r] = keyboard_state[r] \cup ({c} \ {KEY_NONE})
      PROVE  /\ IsFiniteSet(keyboard_state'[r] \cap Key)
             /\ Cardinality(keyboard_state'[r] \cap Key) <= KEYBD_MAX_KEY_COUNT
  <2>1. CASE c \in Modifier \cup keyboard_state[r] \cup {KEY_NONE}
    <3>1. keyboard_state'[r] \cap Key = keys(r)
      BY <1>4, <2>1, KeyAssumption DEF Code
    <3>2. QED
      BY <1>1, <3>1
  <2>2. CASE c \notin Modifier \cup keyboard_state[r] \cup {KEY_NONE}
    <3>1. keyboard_state'[r] \cap Key = keys(r) \cup {c} /\ c \notin keys(r)
      BY <1>4, <2>2 DEF Code
    <3>2. Cardinality(keys(r)) < KEYBD_MAX_KEY_COUNT
      BY <1>4, <2>2 DEF PressReports, Fits
    <3>3. /\ IsFiniteSet(keys(r) \cup {c})
          /\ Cardinality(keys(r) \cup {c}) = Cardinality(keys(r)) + 1
      BY <1>1, <3>1, FS_AddElement
    <3>4. QED
      BY <1>1, <3>1, <3>2, <3>3, CountAssumption
  <2>3. QED
    BY <2>1, <2>2
<1>5. ASSUME NEW c, keyboard_state'[r] = keyboard_state[r] \ {c}
      PROVE  /\ IsFiniteSet(keyboard_state'[r] \cap Key)
             /\ Cardinality(keyboard_state'[r] \cap Key) <= KEYBD_MAX_KEY_COUNT
  <2>1. keyboard_state'[r] \cap Key = keys(r) \ {c}
    BY <1>5
  <2>2. /\ IsFiniteSet(keys(r) \ {c})
        /\ Cardinality(keys(r) \ {c}) <= Cardinality(keys(r))
        /\ Cardinality(keys(r) \ {c}) \in Nat
    BY <1>1, FS_Subset, FS_CardinalityType
  <2>3. QED
    BY <1>1, <2>1, <2>2, CountAssumption
<1>6. ASSUME ReplayKeyboard(s) \/ ReplayKeyboardVk(s)
      PROVE  \/ keyboard_state'[r] = keyboard_state[r]
             \/ \E c \in Code \cup {KEY_NONE} :
                  \/ /\ PressReports(r, c)
                     /\ keyboard_state'[r] = keyboard_state[r] \cup ({c} \ {KEY_NONE})
                  \/ keyboard_state'[r] = keyboard_state[r] \ {c}
  <2>1. PICK c \in Code \cup {KEY_NONE}, pressed \in BOOLEAN : ReplayCode(s, c, pressed)
    BY <1>6, ReplayIsCode
  <2>2. \/ keyboard_state' = keyboard_state
        \/ PressReports(s, c) /\ keyboard_state' =
             [keyboard_state EXCEPT ![s] = keyboard_state[s] \cup ({c} \ {KEY_NONE})]
        \/ keyboard_state' = [keyboard_state EXCEPT ![s] = keyboard_state[s] \ {c}]
    BY <2>1 DEF ReplayCode, KeyboardPress, KeyboardRelease, SetState
  <2>3. CASE r = s
    BY <2>2, <2>3 DEF CodesOK
  <2>4. CASE r # s
    BY <2>2, <2>4 DEF CodesOK
  <2>5. QED
    BY <2>3, <2>4
<1>7. CASE KeyboardReset(s)
  BY <1>2, <1>3, <1>7 DEF KeyboardReset, CodesOK
<1>8. CASE \/ OnLogin(s) \/ Initialize(s) \/ OpenControl(s) \/ OpenMessage(s)
           \/ Close(s) \/ Destroy(s)
           \/ \E h \in Handler :
                KeyboardUpdate(s, h) \/ WriteFileFail(s, h) \/ WriteFile(s, h)
  BY <1>2, <1>8 DEF OnLogin, Initialize, OpenControl, OpenMessage, KeyboardUpdate,
                    Close, Destroy, WriteFileFail, WriteFile
<1>9. QED
  BY <1>2, <1>4, <1>5, <1>6, <1>7, <1>8 DEF SessionStep
-----------------------------------------------------------------------------
(* Type correctness: the driver. *)

LEMMA PartsDriver ==
  ASSUME Parts, DriverStep
  PROVE  Parts'
<1> USE DEF Parts
<1>1. CASE DispatchRead
  <2>1. QueueOK'
    BY <1>1 DEF DispatchRead, QueueOK
  <2>2. QED
    BY <1>1, <2>1 DEF DispatchRead, CallsOK, CodesOK, FlagsOK, ServingOK, ReplaysOK,
                      client, history
<1>2. CASE DispatchWrite
  <2>1. Head(queue) \in Writes /\ QueueOK'
    BY <1>2 DEF DispatchWrite, QueueOK
  <2>2. ServingOK'
    BY <1>2, <2>1 DEF DispatchWrite, ServingOK
  <2>3. QED
    BY <1>2, <2>1, <2>2 DEF DispatchWrite, CallsOK, CodesOK, FlagsOK, ReplaysOK,
                            client, history
<1>3. CASE SendReport
  <2>1. serving \in [write : Writes, stage : {"report", "message"}, sent : BOOLEAN]
    BY <1>3 DEF SendReport, ServingOK
  <2>2. QueueOK'
    BY <1>3 DEF SendReport, SendSubReport, QueueOK
  <2>3. ServingOK'
    BY <1>3, <2>1 DEF SendReport, ServingOK
  <2>4. CodesOK'
    BY <1>3, <2>1 DEF SendReport, CodesOK, client, Writes
  <2>5. QED
    BY <1>3, <2>2, <2>3, <2>4 DEF SendReport, CallsOK, FlagsOK, ReplaysOK, client,
                                  history
<1>4. CASE SendMessage
  <2>1. serving \in [write : Writes, stage : {"report", "message"}, sent : BOOLEAN]
    BY <1>4 DEF SendMessage, ServingOK
  <2>2. serving.write.session \in Session /\ serving.write.handler \in Handler
    BY <2>1 DEF Writes
  <2>3. CallsOK'
    BY <1>4, <2>2, ReturnCalls DEF SendMessage
  <2>4. QueueOK'
    BY <1>4 DEF SendMessage, SendSubReport, QueueOK
  <2>5. FlagsOK'
    BY <1>4 DEF SendMessage, FlagsOK
  <2>6. CodesOK' /\ ServingOK' /\ ReplaysOK'
    BY <1>4 DEF SendMessage, CodesOK, ServingOK, ReplaysOK
  <2>7. QED
    BY <2>3, <2>4, <2>5, <2>6
<1>5. QED
  BY <1>1, <1>2, <1>3, <1>4 DEF DriverStep

LEMMA RoomyDriver ==
  ASSUME Roomy, DriverStep
  PROVE  Roomy'
<1>1. keyboard_state' = keyboard_state
  BY DEF DriverStep, DispatchRead, DispatchWrite, SendReport, SendMessage, client
<1>2. QED
  BY <1>1 DEF Roomy

LEMMA ReadsDriver ==
  ASSUME QueueOK, ReadsOK, DriverStep
  PROVE  ReadsOK'
<1> USE DEF ReadsOK, Conserved, QueueOK
<1>1. Cardinality(ReadsAt(queue)) \in Nat
  BY ReadsFinite
<1>2. CASE DispatchRead
  <2>1. queue # <<>> /\ Head(queue) = Read /\ queue' = Tail(queue)
        /\ report_queue' = report_queue + 1
    BY <1>2 DEF DispatchRead
  <2>2. Tail(queue) \in Seq(Writes \cup {Read})
    BY <2>1
  <2>3. Cardinality(ReadsAt(queue)) = Cardinality(ReadsAt(Tail(queue))) + 1
    BY <2>1, ReadsTail
  <2>4. Cardinality(ReadsAt(Tail(queue))) \in Nat
    BY <2>2, ReadsFinite
  <2>5. QED
    BY <2>1, <2>3, <2>4
<1>3. CASE DispatchWrite
  <2>1. queue # <<>> /\ Head(queue) # Read /\ queue' = Tail(queue)
        /\ report_queue' = report_queue
    BY <1>3 DEF DispatchWrite
  <2>2. Tail(queue) \in Seq(Writes \cup {Read})
    BY <2>1
  <2>3. Cardinality(ReadsAt(queue)) = Cardinality(ReadsAt(Tail(queue))) + 0
    BY <2>1, ReadsTail
  <2>4. Cardinality(ReadsAt(Tail(queue))) \in Nat
    BY <2>2, ReadsFinite
  <2>5. QED
    BY <2>1, <2>3, <2>4
<1>4. CASE SendReport \/ SendMessage
  <2>1. SendSubReport
    BY <1>4 DEF SendReport, SendMessage
  <2>2. Cardinality(ReadsAt(Append(queue, Read))) = Cardinality(ReadsAt(queue)) + 1
    BY ReadsAppend
  <2>3. CASE report_queue = 0
    BY <2>1, <2>3 DEF SendSubReport
  <2>4. CASE report_queue # 0
    <3>1. queue' = Append(queue, Read) /\ report_queue' = report_queue - 1
      BY <2>1, <2>4 DEF SendSubReport
    <3>2. Cardinality(ReadsAt(queue')) = Cardinality(ReadsAt(queue)) + 1
      BY <2>2, <3>1
    <3>3. report_queue' \in Nat
      BY <2>4, <3>1
    <3>4. QED
      BY <1>1, <3>1, <3>2, <3>3
  <2>5. QED
    BY <2>3, <2>4
<1>5. QED
  BY <1>2, <1>3, <1>4 DEF DriverStep

LEMMA ReadsSession ==
  ASSUME QueueOK, CodesOK, ReadsOK, NEW s \in Session, SessionStep(s)
  PROVE  ReadsOK'
<1> USE DEF ReadsOK, Conserved
<1>1. report_queue' = report_queue
  BY QueueSession
<1>2. CASE queue' = queue
  BY <1>1, <1>2
<1>3. ASSUME NEW w \in Writes, queue' = Append(queue, w)
      PROVE  ReadsOK'
  <2>1. w # Read
    BY DEF Writes, Read
  <2>2. Cardinality(ReadsAt(queue')) = Cardinality(ReadsAt(queue)) + 0
    BY <1>3, <2>1, ReadsAppend DEF QueueOK
  <2>3. Cardinality(ReadsAt(queue)) \in Nat
    BY ReadsFinite DEF QueueOK
  <2>4. QED
    BY <1>1, <2>2, <2>3
<1>4. QED
  BY <1>2, <1>3, QueueSession

LEMMA PartsInit == Init => Parts
<1> SUFFICES ASSUME Init
             PROVE  Parts
  OBVIOUS
<1>1. FlagsOK
  BY DEF Init, FlagsOK
<1>2. CallsOK
  BY DEF Init, CallsOK, Handler, Where
<1>3. CodesOK /\ QueueOK
  BY DEF Init, CodesOK, QueueOK
<1>4. ServingOK
  BY DEF Init, ServingOK
<1>5. ReplaysOK
  BY CountAssumption DEF Init, ReplaysOK
<1>6. QED
  BY <1>1, <1>2, <1>3, <1>4, <1>5 DEF Parts

LEMMA CountsInit == Init => Roomy /\ ReadsOK
<1> SUFFICES ASSUME Init
             PROVE  Roomy /\ ReadsOK
  OBVIOUS
<1>1. \A s \in Session : keyboard_state[s] \cap Key = {}
  BY DEF Init
<1>2. Roomy
  BY <1>1, FS_EmptySet, CountAssumption DEF Roomy
<1>3. ReadsAt(queue) = {} /\ report_queue = Reads
  BY DEF Init, ReadsAt
<1>4. ReadsOK
  BY <1>3, FS_EmptySet, CountAssumption DEF ReadsOK, Conserved
<1>5. QED
  BY <1>2, <1>4

IInv == Parts /\ Roomy /\ ReadsOK

LEMMA IInvNext == IInv /\ [Next]_vars => IInv'
<1> SUFFICES ASSUME Parts, Roomy, ReadsOK, [Next]_vars
             PROVE  Parts' /\ Roomy' /\ ReadsOK'
  BY DEF IInv
<1>1. CASE UNCHANGED vars
  <2>1. FlagsOK'
    BY <1>1 DEF vars, client, driver, history, Parts, FlagsOK
  <2>2. CallsOK' /\ CodesOK' /\ QueueOK' /\ ServingOK' /\ ReplaysOK'
    BY <1>1 DEF vars, client, driver, history, Parts, CallsOK, CodesOK, QueueOK,
                ServingOK, ReplaysOK
  <2>3. Roomy' /\ ReadsOK'
    BY <1>1 DEF vars, client, driver, Roomy, ReadsOK, Conserved
  <2>4. QED
    BY <2>1, <2>2, <2>3 DEF Parts
<1>2. ASSUME NEW s \in Session, SessionStep(s)
      PROVE  Parts' /\ Roomy' /\ ReadsOK'
  <2>1. CallsOK' /\ CodesOK' /\ FlagsOK' /\ ReplaysOK'
    BY <1>2, CallsSession, CodesSession, FlagsSession, ReplaysSession DEF Parts
  <2>2. QueueOK' /\ ServingOK'
    <3>1. /\ serving' = serving
          /\ queue' = queue \/ \E w \in Writes : queue' = Append(queue, w)
      BY <1>2, QueueSession DEF Parts
    <3>2. QueueOK'
      BY <3>1 DEF QueueOK, Parts
    <3>3. QED
      BY <3>1, <3>2 DEF ServingOK, Parts
  <2>3. Roomy' /\ ReadsOK'
    BY <1>2, RoomySession, ReadsSession DEF Parts
  <2>4. QED
    BY <2>1, <2>2, <2>3 DEF Parts
<1>3. CASE DriverStep
  BY <1>3, PartsDriver, RoomyDriver, ReadsDriver DEF Parts
<1>4. QED
  BY <1>1, <1>2, <1>3, NextSteps

LEMMA IInvAlways == Spec => []IInv
<1>1. Init => IInv
  BY PartsInit, CountsInit DEF IInv
<1>2. QED
  BY <1>1, IInvNext, PTL DEF Spec

\* For every number of sessions, keys and reads: a report never holds more keys
\* than it has room for (CgvhidClient::KeyboardPress), and the driver neither
\* invents nor loses a read (device.cpp).
THEOREM TypeCorrect == Spec => []TypeOK
<1>1. IInv => TypeOK
  <2> SUFFICES ASSUME IInv
               PROVE  TypeOK
    OBVIOUS
  <2>1. report_queue \in 0..Reads
    <3>1. Cardinality(ReadsAt(queue)) \in Nat
      BY ReadsFinite DEF IInv, Parts, QueueOK
    <3>2. QED
      BY <3>1, CountAssumption DEF IInv, ReadsOK, Conserved
  <2>2. \A s \in Session : Cardinality(keyboard_state[s] \cap Key) <= KEYBD_MAX_KEY_COUNT
    BY DEF IInv, Roomy
  <2>3. QED
    BY <2>1, <2>2 DEF IInv, Parts, CallsOK, CodesOK, FlagsOK, QueueOK, ServingOK,
                      ReplaysOK, TypeOK
<1>2. QED
  BY <1>1, IInvAlways, PTL
-----------------------------------------------------------------------------
(* What becomes of a write. *)

Message == serving # Nothing /\ serving.stage = "message"

\* A report that found no read leaves none for the message.
Delivered == Message => serving.sent \/ report_queue = 0

LEMMA DeliveredNext == IInv /\ Delivered /\ [Next]_vars => Delivered'
<1> SUFFICES ASSUME Parts, Delivered, [Next]_vars
             PROVE  Delivered'
  BY DEF IInv
<1>1. CASE UNCHANGED <<serving, report_queue>>
  BY <1>1 DEF Delivered, Message
<1>2. CASE SendReport
  <2>1. serving \in [write : Writes, stage : {"report", "message"}, sent : BOOLEAN]
    BY <1>2 DEF SendReport, ServingOK, Parts
  <2>2. serving' = [serving EXCEPT !.stage = "message", !.sent = report_queue # 0]
    BY <1>2 DEF SendReport
  <2>3. CASE report_queue = 0
    BY <1>2, <2>3 DEF SendReport, SendSubReport, Delivered
  <2>4. CASE report_queue # 0
    BY <2>1, <2>2, <2>4 DEF Delivered
  <2>5. QED
    BY <2>3, <2>4
<1>3. CASE DispatchRead \/ SendMessage
  BY <1>3 DEF DispatchRead, SendMessage, Delivered, Message
<1>4. CASE DispatchWrite
  BY <1>4 DEF DispatchWrite, Delivered, Message
<1>5. ASSUME NEW s \in Session, SessionStep(s)
      PROVE  Delivered'
  BY <1>1, <1>5, QueueSession DEF Parts
<1>6. QED
  BY <1>1, <1>2, <1>3, <1>4, <1>5, NextSteps DEF DriverStep, vars, driver

\* For every number of reads and of sessions, a write whose message finds a read
\* has found one for its report, although the status of the report is thrown away
\* (device.cpp: the write returns what became of the message).
THEOREM SuccessMeansDeliveredHolds == Spec => []SuccessMeansDelivered
<1>1. Init => Delivered
  BY DEF Init, Delivered, Message
<1>2. Delivered => SuccessMeansDelivered
  BY DEF Delivered, Message, SuccessMeansDelivered
<1>3. QED
  BY <1>1, <1>2, DeliveredNext, IInvAlways, PTL DEF Spec

\* As long as no two writes have met: where the reads are.
OnlyReads(n) == \A i \in 1..n : queue[i] = Read
Before ==
  \/ OnlyReads(Len(queue)) /\ report_queue + Len(queue) = Reads
  \/ /\ Len(queue) # 0 /\ queue[Len(queue)] # Read
     /\ OnlyReads(Len(queue) - 1) /\ report_queue + Len(queue) = Reads + 1
During ==
  IF serving.stage = "report" THEN queue = <<>> /\ report_queue = Reads
  ELSE queue = <<Read>> /\ report_queue = Reads - 1
Alone ==
  ~crowded => ~failed /\ (IF serving = Nothing THEN Before ELSE During)

LEMMA AloneInit == Init => Alone
<1> SUFFICES ASSUME Init
             PROVE  Alone
  OBVIOUS
<1>1. queue = <<>> /\ report_queue = Reads
  BY DEF Init
<1>2. Before
  BY <1>1, CountAssumption DEF Before, OnlyReads
<1>3. QED
  BY <1>2 DEF Init, Alone

\* A session's write that meets no other comes after reads only.
LEMMA AloneWrite ==
  ASSUME Parts, Alone, ReadsOK, NEW s \in Session, NEW h \in Handler, WriteFile(s, h)
  PROVE  Alone'
<1> SUFFICES ASSUME ~crowded'
             PROVE  ~failed' /\ serving' = Nothing /\ Before'
  BY DEF Alone
<1>1. ~crowded /\ serving = Nothing /\ ~Waits
  BY DEF WriteFile
<1>2. ~failed' /\ serving' = Nothing /\ report_queue' = report_queue
  BY <1>1 DEF WriteFile, Alone
<1>3. queue \in Seq(Writes \cup {Read})
  BY DEF Parts, QueueOK
<1>4. OnlyReads(Len(queue)) /\ report_queue + Len(queue) = Reads
  BY <1>1, <1>3 DEF Alone, Before, Waits
<1>5. PICK w \in Writes : queue' = Append(queue, w)
  BY DEF WriteFile, WriteOf, Writes, Parts, CodesOK
<1>6. w # Read
  BY DEF Writes, Read
<1>7. /\ Len(queue') = Len(queue) + 1 /\ queue'[Len(queue')] = w
      /\ \A i \in 1..Len(queue) : queue'[i] = queue[i]
  BY <1>3, <1>5
<1>8. \A i \in 1..(Len(queue') - 1) : queue'[i] = Read
  BY <1>3, <1>4, <1>7 DEF OnlyReads
<1>9. report_queue' + Len(queue') = Reads + 1 /\ Len(queue') # 0
  BY <1>2, <1>3, <1>4, <1>7, CountAssumption DEF ReadsOK
<1>10. QED
  BY <1>2, <1>6, <1>7, <1>8, <1>9 DEF Before, OnlyReads

LEMMA AloneDispatchRead ==
  ASSUME Parts, Alone, ReadsOK, DispatchRead
  PROVE  Alone'
<1> SUFFICES ASSUME ~crowded'
             PROVE  ~failed' /\ serving' = Nothing /\ Before'
  BY DEF Alone
<1>1. /\ ~failed' /\ serving = Nothing /\ serving' = Nothing /\ Before
      /\ queue # <<>> /\ Head(queue) = Read
      /\ queue' = Tail(queue) /\ report_queue' = report_queue + 1
  BY DEF DispatchRead, Alone, history
<1>2. queue \in Seq(Writes \cup {Read})
  BY DEF Parts, QueueOK
<1>3. /\ Len(queue) \in Nat \ {0} /\ Len(queue') = Len(queue) - 1
      /\ \A i \in 1..Len(queue') : queue'[i] = queue[i + 1]
      /\ queue[1] = Read
  BY <1>1, <1>2
<1>4. CASE OnlyReads(Len(queue)) /\ report_queue + Len(queue) = Reads
  <2>1. \A i \in 1..Len(queue') : queue'[i] = Read
    BY <1>3, <1>4 DEF OnlyReads
  <2>2. report_queue' + Len(queue') = Reads
    BY <1>1, <1>3, <1>4, CountAssumption DEF ReadsOK
  <2>3. QED
    BY <1>1, <2>1, <2>2 DEF Before, OnlyReads
<1>5. CASE /\ Len(queue) # 0 /\ queue[Len(queue)] # Read
           /\ OnlyReads(Len(queue) - 1) /\ report_queue + Len(queue) = Reads + 1
  <2>1. Len(queue') # 0
    BY <1>3, <1>5
  <2>2. queue'[Len(queue')] # Read
    BY <1>3, <1>5, <2>1
  <2>3. \A i \in 1..(Len(queue') - 1) : queue'[i] = Read
    BY <1>3, <1>5 DEF OnlyReads
  <2>4. report_queue' + Len(queue') = Reads + 1
    BY <1>1, <1>3, <1>5, CountAssumption DEF ReadsOK
  <2>5. QED
    BY <1>1, <2>1, <2>2, <2>3, <2>4 DEF Before, OnlyReads
<1>6. QED
  BY <1>1, <1>4, <1>5 DEF Before

\* The write that is dispatched leaves an empty queue, and finds all reads.
LEMMA AloneDispatchWrite ==
  ASSUME Parts, Alone, ReadsOK, DispatchWrite
  PROVE  Alone'
<1> SUFFICES ASSUME ~crowded'
             PROVE  ~failed' /\ serving' # Nothing /\ During'
  BY DEF Alone
<1>1. /\ ~failed' /\ serving = Nothing /\ Before
      /\ queue # <<>> /\ Head(queue) # Read
      /\ queue' = Tail(queue) /\ report_queue' = report_queue
  BY DEF DispatchWrite, Alone, history
<1>2. serving' # Nothing /\ serving'.stage = "report"
  BY DEF DispatchWrite, Nothing
<1>3. queue \in Seq(Writes \cup {Read})
  BY DEF Parts, QueueOK
<1>4. Len(queue) \in Nat \ {0} /\ queue[1] # Read
  BY <1>1, <1>3
<1>5. Len(queue) = 1 /\ report_queue = Reads
  <2>1. ~OnlyReads(Len(queue))
    BY <1>4 DEF OnlyReads
  <2>2. OnlyReads(Len(queue) - 1) /\ report_queue + Len(queue) = Reads + 1
    BY <1>1, <2>1 DEF Before
  <2>3. Len(queue) = 1
    <3>1. 1 \notin 1..(Len(queue) - 1)
      BY <1>4, <2>2 DEF OnlyReads
    <3>2. \A n \in Nat \ {0} : 1 \notin 1..(n - 1) => n = 1
      OBVIOUS
    <3>3. QED
      BY <1>4, <3>1, <3>2
  <2>4. report_queue \in Nat
    BY DEF ReadsOK
  <2>5. QED
    BY <2>2, <2>3, <2>4, CountAssumption
<1>6. Tail(queue) = <<>>
  <2>1. Tail(queue) \in Seq(Writes \cup {Read}) /\ Len(Tail(queue)) = 0
    BY <1>1, <1>3, <1>5
  <2>2. QED
    BY <2>1, EmptySeq
<1>7. QED
  BY <1>1, <1>2, <1>5, <1>6 DEF During

\* Two reads are enough for the two sub-reports, and come back after them.
LEMMA AloneSend ==
  ASSUME Reads >= 2, Parts, Alone, ReadsOK, SendReport \/ SendMessage
  PROVE  Alone'
<1> SUFFICES ASSUME ~crowded'
             PROVE  ~failed' /\ (IF serving' = Nothing THEN Before' ELSE During')
  BY DEF Alone
<1>1. ~crowded /\ ~failed /\ serving # Nothing /\ During
  BY DEF SendReport, SendMessage, Alone, history
<1>2. serving \in [write : Writes, stage : {"report", "message"}, sent : BOOLEAN]
  BY <1>1 DEF Parts, ServingOK
<1>3. CASE SendReport
  <2>1. serving.stage = "report" /\ queue = <<>> /\ report_queue = Reads
    BY <1>1, <1>3 DEF During, SendReport
  <2>2. queue' = <<Read>> /\ report_queue' = Reads - 1
    BY <1>3, <2>1, CountAssumption DEF SendReport, SendSubReport
  <2>3. serving' # Nothing /\ serving'.stage = "message"
    BY <1>2, <1>3 DEF SendReport, Nothing
  <2>4. ~failed'
    BY <1>1, <1>3 DEF SendReport, history
  <2>5. QED
    BY <2>2, <2>3, <2>4 DEF During
<1>4. CASE SendMessage
  <2>1. queue = <<Read>> /\ report_queue = Reads - 1
    BY <1>1, <1>4 DEF During, SendMessage
  <2>2. report_queue # 0
    BY <2>1, CountAssumption
  <2>3. queue' = <<Read, Read>> /\ report_queue' = Reads - 2
    BY <1>4, <2>1, <2>2, CountAssumption DEF SendMessage, SendSubReport
  <2>4. serving' = Nothing /\ ~failed'
    BY <1>1, <1>4, <2>2 DEF SendMessage
  <2>5. Before'
    BY <2>3, CountAssumption DEF Before, OnlyReads
  <2>6. QED
    BY <2>4, <2>5
<1>5. QED
  BY <1>3, <1>4

LEMMA AloneNext ==
  ASSUME Reads >= 2
  PROVE  IInv /\ Alone /\ [Next]_vars => Alone'
<1> SUFFICES ASSUME Parts, ReadsOK, Alone, [Next]_vars
             PROVE  Alone'
  BY DEF IInv
<1>1. CASE UNCHANGED <<queue, report_queue, serving, crowded, failed>>
  BY <1>1 DEF Alone, Before, During, OnlyReads
<1>2. ASSUME NEW s \in Session, SessionStep(s)
      PROVE  Alone'
  <2>1. CASE \E h \in Handler : WriteFile(s, h)
    BY <2>1, AloneWrite
  <2>2. CASE ~ \E h \in Handler : WriteFile(s, h)
    BY <1>1, <1>2, <2>2
       DEF SessionStep, OnLogin, Initialize, OpenControl, OpenMessage, KeyboardReset,
           KeyboardUpdate, ReplayKeyboard, ReplayKeyboardVk, ReplayCode, Close, Destroy,
           WriteFileFail, driver, history
  <2>3. QED
    BY <2>1, <2>2
<1>3. CASE DriverStep
  BY <1>3, AloneDispatchRead, AloneDispatchWrite, AloneSend DEF DriverStep
<1>4. QED
  BY <1>1, <1>2, <1>3, NextSteps DEF vars, driver, history

\* For every number of sessions and keys: if the class driver keeps two reads or
\* more outstanding, no write fails before two writes have met (device.cpp).
THEOREM NothingFailsAloneHolds == Reads >= 2 => (Spec => []NothingFailsAlone)
<1> SUFFICES ASSUME Reads >= 2
             PROVE  Spec => []NothingFailsAlone
  OBVIOUS
<1>1. IInv /\ Alone /\ [Next]_vars => Alone'
  BY AloneNext
<1>2. IInv /\ Alone => NothingFailsAlone
  BY DEF Alone, NothingFailsAlone, IInv, Parts, FlagsOK
<1>3. QED
  BY <1>1, <1>2, AloneInit, IInvAlways, PTL DEF Spec
-----------------------------------------------------------------------------
(* No key stays pressed that nobody holds. *)

\* A write that has not returned has its handler waiting for it, and it alone.
Waiting(w) == call[w.session][w.handler] = "wait"
SameCall(v, w) == v.session = w.session /\ v.handler = w.handler
Pending ==
  /\ \A i \in 1..Len(queue) : queue[i] # Read => Waiting(queue[i])
  /\ serving # Nothing => Waiting(serving.write)
  /\ \A i, j \in 1..Len(queue) :
       queue[i] # Read /\ queue[j] # Read /\ SameCall(queue[i], queue[j]) => i = j
  /\ serving # Nothing =>
       \A i \in 1..Len(queue) : queue[i] # Read => ~SameCall(queue[i], serving.write)

\* The way to replay is set before the device is opened; Initialize and the destructor
\* open and reset it.
Opening(s) == control[s] \/ call[s]["control"] \in {"open", "message"}
Resetting(s) == life[s] = "free" /\ call[s]["control"] = "reset"
SetUp(s) ==
  /\ keyboard_replay[s] = "uninitialised" =>
       /\ ~Opening(s) /\ life[s] # "ready"
       /\ call[s]["control"] = "none" \/ life[s] = "free"
  /\ call[s]["control"] # "none" => life[s] \in {"login", "free"}

\* If no key is replayed before that is done, nothing else goes on while it is, and
\* a report that is not about to be filled says what its keyboard's state says.
Filled(s) ==
  /\ life[s] = "ready" \/ call[s]["replay"] = "none"
  /\ call[s]["control"] = "update" => keyboard_state[s] = {}
  /\ control_report[s] = keyboard_state[s] \/ \E h \in Handler : call[s][h] = "update"

\* Of the keys pressed the client holds all, until the destructor resets them.
HeldBy(s) ==
  /\ SetUp(s) /\ (~early => Filled(s))
  /\ keyboard_state[s] \cap Disabled = {}
  /\ keyboard_replay[s] = "uninitialised" /\ ~early => keyboard_state[s] = {}
  /\ Opening(s) /\ ~failed => keyboard_replay[s] = "kCgvhid"
  /\ Opening(s) /\ ~failed /\ ~early =>
       keyboard_state[s] \subseteq held[s] \/ Resetting(s)
AllHeld == \A s \in Session : HeldBy(s)

\* What one session does leaves the others' state alone.
LEMMA OthersKeep ==
  ASSUME Parts, NEW s \in Session, NEW r \in Session, r # s, SessionStep(s)
  PROVE  /\ life'[r] = life[r] /\ keyboard_replay'[r] = keyboard_replay[r]
         /\ control'[r] = control[r] /\ keyboard_state'[r] = keyboard_state[r]
         /\ control_report'[r] = control_report[r] /\ held'[r] = held[r]
         /\ call'[r] = call[r]
<1> USE DEF Parts, CallsOK, CodesOK, FlagsOK
<1>1. CASE OnLogin(s) \/ Initialize(s) \/ OpenControl(s) \/ OpenMessage(s)
            \/ Close(s) \/ Destroy(s)
  BY <1>1 DEF OnLogin, Initialize, OpenControl, OpenMessage, Close, Destroy, Goto
<1>2. CASE KeyboardReset(s)
  BY <1>2 DEF KeyboardReset, Goto
<1>3. CASE ReplayKeyboard(s) \/ ReplayKeyboardVk(s)
  <2>1. PICK c \in Code \cup {KEY_NONE}, pressed \in BOOLEAN : ReplayCode(s, c, pressed)
    BY <1>3, ReplayIsCode
  <2>2. /\ UNCHANGED <<life, keyboard_replay, control, control_report>>
        /\ Hold(s, c, pressed)
        /\ \/ UNCHANGED <<keyboard_state, call>>
           \/ KeyboardPress(s, c) \/ KeyboardRelease(s, c)
    BY <2>1 DEF ReplayCode
  <2>3. held'[r] = held[r]
    BY <2>2 DEF Hold
  <2>4. keyboard_state'[r] = keyboard_state[r] /\ call'[r] = call[r]
    BY <2>2 DEF KeyboardPress, KeyboardRelease, SetState, Goto
  <2>5. QED
    BY <2>2, <2>3, <2>4
<1>4. ASSUME NEW h \in Handler, WriteFileFail(s, h) \/ WriteFile(s, h)
      PROVE  /\ life'[r] = life[r] /\ keyboard_replay'[r] = keyboard_replay[r]
             /\ UNCHANGED <<control, keyboard_state, control_report, held>>
             /\ call'[r] = call[r]
  BY <1>4 DEF WriteFileFail, WriteFile, Return, Goto
<1>5. ASSUME NEW h \in Handler, KeyboardUpdate(s, h)
      PROVE  /\ UNCHANGED <<life, keyboard_replay, control, keyboard_state, held>>
             /\ control_report'[r] = control_report[r] /\ call'[r] = call[r]
  BY <1>5 DEF KeyboardUpdate, Goto
<1>6. QED
  BY <1>1, <1>2, <1>3, <1>4, <1>5 DEF SessionStep

LEMMA FlagsGrow ==
  ASSUME Parts, NEW s \in Session, SessionStep(s)
  PROVE  failed' = failed /\ (early => early')
<1>1. CASE ReplayKeyboard(s) \/ ReplayKeyboardVk(s)
  BY <1>1, ReplayIsCode DEF ReplayCode
<1>2. ASSUME NEW h \in Handler, WriteFileFail(s, h) \/ WriteFile(s, h)
      PROVE  failed' = failed /\ early' = early
  BY <1>2 DEF WriteFileFail, WriteFile, history
<1>3. CASE \/ OnLogin(s) \/ Initialize(s) \/ OpenControl(s) \/ OpenMessage(s)
           \/ KeyboardReset(s) \/ Close(s) \/ Destroy(s)
           \/ \E h \in Handler : KeyboardUpdate(s, h)
  BY <1>3 DEF OnLogin, Initialize, OpenControl, OpenMessage, KeyboardReset,
              KeyboardUpdate, Close, Destroy, history
<1>4. QED
  BY <1>1, <1>2, <1>3 DEF SessionStep

\* A key is replayed by the way that is set, or before one is set.
LEMMA HeldReplay ==
  ASSUME Parts, NEW s \in Session, HeldBy(s),
         NEW c \in Code \cup {KEY_NONE}, NEW pressed \in BOOLEAN, ReplayCode(s, c, pressed)
  PROVE  HeldBy(s)'
<1> USE KeyAssumption DEF Parts, CallsOK, CodesOK, FlagsOK
<1>1. /\ UNCHANGED <<life, keyboard_replay, control, control_report, failed>>
      /\ early' = (early \/ life[s] = "login") /\ life[s] \in {"login", "ready"}
      /\ call[s]["replay"] = "none" /\ Hold(s, c, pressed)
  BY DEF ReplayCode
<1>2. \/ c \in Disabled /\ UNCHANGED <<keyboard_state, call>>
      \/ keyboard_replay[s] # "kCgvhid" /\ UNCHANGED <<keyboard_state, call>>
      \/ c \notin Disabled /\ (IF pressed THEN KeyboardPress(s, c) ELSE KeyboardRelease(s, c))
  BY DEF ReplayCode, Way
<1>3. held'[s] = IF pressed THEN held[s] \cup ({c} \ {KEY_NONE}) ELSE held[s] \ {c}
  BY <1>1 DEF Hold
<1>4. CASE UNCHANGED <<keyboard_state, call>>
  <2>1. Opening(s) /\ ~failed => c \notin keyboard_state[s]  \/ pressed
    <3>1. CASE c \in Disabled
      BY <3>1 DEF HeldBy
    <3>2. CASE keyboard_replay[s] # "kCgvhid"
      BY <3>2 DEF HeldBy
    <3>3. CASE ~pressed /\ KeyboardRelease(s, c)
      <4>1. CASE ReleaseReports(s, c)
        <5>1. keyboard_state'[s] = keyboard_state[s] \ {c}
          BY <3>3, <4>1 DEF KeyboardRelease, SetState
        <5>2. QED
          BY <1>4, <5>1
      <4>2. CASE ~ReleaseReports(s, c)
        BY <4>2 DEF ReleaseReports
      <4>3. QED
        BY <4>1, <4>2
    <3>4. QED
      BY <1>2, <3>1, <3>2, <3>3
  <2>2. SetUp(s)' /\ (~early' => Filled(s)')
    BY <1>1, <1>4 DEF HeldBy, SetUp, Filled, Opening
  <2>3. QED
    BY <1>1, <1>3, <1>4, <2>1, <2>2 DEF HeldBy, Opening, Resetting
<1>5. CASE c \notin Disabled /\ ~UNCHANGED <<keyboard_state, call>>
  <2>1. /\ keyboard_state'[s] = IF pressed THEN keyboard_state[s] \cup ({c} \ {KEY_NONE})
                                ELSE keyboard_state[s] \ {c}
        /\ call'[s]["control"] = call[s]["control"] /\ call'[s]["replay"] = "update"
    <3>1. \/ pressed /\ SetState(s, keyboard_state[s] \cup ({c} \ {KEY_NONE}))
          \/ ~pressed /\ SetState(s, keyboard_state[s] \ {c})
      BY <1>2, <1>5 DEF KeyboardPress, KeyboardRelease
    <3>2. PICK codes : /\ codes = IF pressed THEN keyboard_state[s] \cup ({c} \ {KEY_NONE})
                                 ELSE keyboard_state[s] \ {c}
                       /\ SetState(s, codes)
      BY <3>1
    <3>3. /\ keyboard_state' = [keyboard_state EXCEPT ![s] = codes]
          /\ call' = [call EXCEPT ![s]["replay"] = "update"]
      BY <3>2 DEF SetState, Goto
    <3>4. keyboard_state'[s] = codes
      BY <3>3
    <3>5. call'[s]["control"] = call[s]["control"] /\ call'[s]["replay"] = "update"
      BY <3>3 DEF Handler
    <3>6. QED
      BY <3>2, <3>4, <3>5
  <2>2. SetUp(s)'
    BY <1>1, <2>1 DEF HeldBy, SetUp, Opening
  <2>3. ~early' => Filled(s)'
    BY <1>1, <2>1 DEF HeldBy, SetUp, Filled, Handler
  <2>4. keyboard_replay'[s] = "uninitialised" => early'
    BY <1>1 DEF HeldBy, SetUp
  <2>5. QED
    BY <1>1, <1>3, <1>5, <2>1, <2>2, <2>3, <2>4 DEF HeldBy, Opening, Resetting
<1>6. QED
  BY <1>2, <1>4, <1>5

LEMMA HeldSession ==
  ASSUME Parts, AllHeld, NEW s \in Session, SessionStep(s)
  PROVE  AllHeld'
<1> USE DEF Parts, CallsOK, CodesOK, FlagsOK
<1>1. ASSUME NEW r \in Session, r # s
      PROVE  HeldBy(r)'
  <2>1. HeldBy(r)
    BY DEF AllHeld
  <2>2. QED
    BY <1>1, <2>1, OthersKeep, FlagsGrow
       DEF HeldBy, SetUp, Filled, Opening, Resetting
<1>2. HeldBy(s)'
  <2> USE DEF HeldBy, SetUp, Filled, Opening, Resetting, Goto, Handler, history
  <2>1. HeldBy(s)
    BY DEF AllHeld
  <2>2. CASE OnLogin(s) \/ Close(s)
    BY <2>1, <2>2 DEF OnLogin, Close
  <2>3. CASE Initialize(s)
    BY <2>1, <2>3 DEF Initialize
  <2>4. CASE OpenControl(s)
    BY <2>1, <2>4 DEF OpenControl
  <2>5. CASE OpenMessage(s)
    BY <2>1, <2>5 DEF OpenMessage
  <2>6. CASE KeyboardReset(s)
    BY <2>1, <2>6 DEF KeyboardReset
  <2>7. CASE ReplayKeyboard(s) \/ ReplayKeyboardVk(s)
    BY <2>1, <2>7, ReplayIsCode, HeldReplay
  <2>8. CASE Destroy(s)
    BY <2>1, <2>8 DEF Destroy, Way, Idle
  <2>9. ASSUME NEW h \in Handler, KeyboardUpdate(s, h)
        PROVE  HeldBy(s)'
    BY <2>1, <2>9 DEF KeyboardUpdate
  <2>10. ASSUME NEW h \in Handler, WriteFileFail(s, h)
        PROVE  HeldBy(s)'
    BY <2>1, <2>10 DEF WriteFileFail, Return
  <2>11. ASSUME NEW h \in Handler, WriteFile(s, h)
        PROVE  HeldBy(s)'
    BY <2>1, <2>11 DEF WriteFile
  <2>12. QED
    BY <2>2, <2>3, <2>4, <2>5, <2>6, <2>7, <2>8, <2>9, <2>10, <2>11 DEF SessionStep
<1>3. QED
  BY <1>1, <1>2 DEF AllHeld

LEMMA WaitKept ==
  ASSUME Parts, AllHeld, NEW s \in Session, SessionStep(s),
         NEW r \in Session, NEW g \in Handler, call[r][g] = "wait"
  PROVE  call'[r][g] = "wait"
<1> USE DEF Parts, CallsOK, CodesOK, FlagsOK, Handler, Goto
<1>1. CASE r # s
  BY <1>1, OthersKeep
<1>2. CASE r = s
  <2>1. CASE OnLogin(s) \/ Close(s)
    BY <1>2, <2>1 DEF OnLogin, Close
  <2>2. CASE Initialize(s)
    <3>1. call[s]["control"] = "none"
      BY <2>2 DEF Initialize, AllHeld, HeldBy, SetUp
    <3>2. QED
      BY <1>2, <2>2, <3>1 DEF Initialize
  <2>3. CASE OpenControl(s) \/ OpenMessage(s) \/ KeyboardReset(s)
    BY <1>2, <2>3 DEF OpenControl, OpenMessage, KeyboardReset
  <2>4. CASE ReplayKeyboard(s) \/ ReplayKeyboardVk(s)
    <3>1. PICK c \in Code \cup {KEY_NONE}, pressed \in BOOLEAN : ReplayCode(s, c, pressed)
      BY <2>4, ReplayIsCode
    <3>2. /\ call[s]["replay"] = "none"
          /\ call' \in {call, [call EXCEPT ![s]["replay"] = "update"]}
      BY <3>1 DEF ReplayCode, KeyboardPress, KeyboardRelease, SetState
    <3>3. QED
      BY <1>2, <3>2
  <2>5. CASE Destroy(s)
    BY <1>2, <2>5 DEF Destroy, Idle
  <2>6. ASSUME NEW h \in Handler,
               KeyboardUpdate(s, h) \/ WriteFileFail(s, h) \/ WriteFile(s, h)
        PROVE  call'[r][g] = "wait"
    BY <1>2, <2>6 DEF KeyboardUpdate, WriteFileFail, WriteFile, Return
  <2>7. QED
    BY <2>1, <2>2, <2>3, <2>4, <2>5, <2>6 DEF SessionStep
<1>3. QED
  BY <1>1, <1>2

LEMMA WriteTypes ==
  ASSUME Parts
  PROVE  /\ Len(queue) \in Nat
         /\ \A i \in 1..Len(queue) : queue[i] # Read =>
              queue[i] \in Writes /\ queue[i].session \in Session /\ queue[i].handler \in Handler
         /\ serving # Nothing =>
              /\ serving.write \in Writes /\ serving.write.session \in Session
              /\ serving.write.handler \in Handler
              /\ serving \in [write : Writes, stage : {"report", "message"}, sent : BOOLEAN]
<1>1. queue \in Seq(Writes \cup {Read})
  BY DEF Parts, QueueOK
<1>2. \A i \in 1..Len(queue) : queue[i] # Read => queue[i] \in Writes
  BY <1>1
<1>3. \A w \in Writes : w.session \in Session /\ w.handler \in Handler
  BY DEF Writes
<1>4. serving # Nothing =>
        serving \in [write : Writes, stage : {"report", "message"}, sent : BOOLEAN]
  BY DEF Parts, ServingOK
<1>5. QED
  BY <1>1, <1>2, <1>3, <1>4

LEMMA WriteIsWrite ==
  ASSUME Parts, NEW s \in Session, NEW h \in Handler, WriteFile(s, h)
  PROVE  /\ Len(queue') = Len(queue) + 1
         /\ \A i \in 1..Len(queue) : queue'[i] = queue[i]
         /\ queue'[Len(queue')] = WriteOf(s, h, control_report[s])
         /\ queue'[Len(queue')] # Read
<1>1. queue \in Seq(Writes \cup {Read}) /\ WriteOf(s, h, control_report[s]) \in Writes
  BY DEF Parts, QueueOK, CodesOK, Writes, WriteOf
<1>2. queue' = Append(queue, WriteOf(s, h, control_report[s]))
  BY DEF WriteFile
<1>3. WriteOf(s, h, control_report[s]) # Read
  BY DEF WriteOf, Read
<1>4. QED
  BY <1>1, <1>2, <1>3

LEMMA PendingSession ==
  ASSUME Parts, AllHeld, Pending, NEW s \in Session, SessionStep(s)
  PROVE  Pending'
<1> DEFINE Kept(w) == call'[w.session][w.handler] = "wait"
<1>1. \A r \in Session, g \in Handler : call[r][g] = "wait" => call'[r][g] = "wait"
  BY WaitKept
<1>2. \A i \in 1..Len(queue) : queue[i] # Read => Kept(queue[i])
  BY <1>1, WriteTypes DEF Pending, Waiting
<1>3. UNCHANGED serving /\ (serving # Nothing => Kept(serving.write))
  BY <1>1, WriteTypes, QueueSession DEF Pending, Waiting, Parts
<1>4. CASE queue' = queue
  BY <1>2, <1>3, <1>4 DEF Pending, Waiting, SameCall
<1>5. ASSUME NEW h \in Handler, WriteFile(s, h)
      PROVE  Pending'
  <2> DEFINE n == Len(queue)
  <2>1. /\ Len(queue') = n + 1 /\ n \in Nat
        /\ \A i \in 1..n : queue'[i] = queue[i]
        /\ queue'[n + 1].session = s /\ queue'[n + 1].handler = h
    <3>1. /\ Len(queue') = n + 1 /\ \A i \in 1..n : queue'[i] = queue[i]
          /\ queue'[Len(queue')] = WriteOf(s, h, control_report[s])
      BY <1>5, WriteIsWrite
    <3>2. n \in Nat
      BY WriteTypes
    <3>3. queue'[n + 1] = WriteOf(s, h, control_report[s])
      BY <3>1
    <3>4. QED
      BY <3>1, <3>2, <3>3 DEF WriteOf
  <2>2. call[s][h] = "write" /\ call' = [call EXCEPT ![s][h] = "wait"]
    BY <1>5 DEF WriteFile, Goto
  <2>3. Kept(queue'[n + 1])
    BY <2>1, <2>2 DEF Parts, CallsOK
  <2>4. \A i \in 1..n : queue[i] # Read => ~SameCall(queue[i], queue'[n + 1])
    BY <2>1, <2>2 DEF Pending, Waiting, SameCall
  <2>5. serving # Nothing => ~SameCall(queue'[n + 1], serving.write)
    BY <2>1, <2>2 DEF Pending, Waiting, SameCall
  <2>6. \A i \in 1..Len(queue') : i \in 1..n \/ i = n + 1
    BY <2>1
  <2>7. \A i \in 1..Len(queue') : queue'[i] # Read => Kept(queue'[i])
    BY <1>2, <2>1, <2>3, <2>6
  <2>8. \A i, j \in 1..Len(queue') :
          queue'[i] # Read /\ queue'[j] # Read /\ SameCall(queue'[i], queue'[j]) => i = j
    BY <2>1, <2>4, <2>6 DEF Pending, SameCall
  <2>9. serving' # Nothing =>
          \A i \in 1..Len(queue') : queue'[i] # Read => ~SameCall(queue'[i], serving'.write)
    BY <1>3, <2>1, <2>5, <2>6 DEF Pending
  <2>10. QED
    BY <1>3, <2>7, <2>8, <2>9 DEF Pending, Waiting, SameCall
<1>6. CASE ~ \E h \in Handler : WriteFile(s, h)
  <2>1. queue' = queue
    BY <1>6
       DEF SessionStep, OnLogin, Initialize, OpenControl, OpenMessage, KeyboardReset,
           KeyboardUpdate, ReplayKeyboard, ReplayKeyboardVk, ReplayCode, Close, Destroy,
           WriteFileFail, driver
  <2>2. QED
    BY <1>4, <2>1
<1>7. QED
  BY <1>5, <1>6

\* Where the elements of the queue are after a step of the driver.
LEMMA QueueShift ==
  ASSUME Parts, DispatchRead \/ DispatchWrite
  PROVE  /\ Len(queue) \in Nat \ {0} /\ Len(queue') = Len(queue) - 1
         /\ \A i \in 1..Len(queue') : queue'[i] = queue[i + 1]
         /\ Head(queue) = queue[1]
<1>1. queue \in Seq(Writes \cup {Read}) /\ queue # <<>> /\ queue' = Tail(queue)
  BY DEF Parts, QueueOK, DispatchRead, DispatchWrite
<1>2. QED
  BY <1>1

LEMMA QueueGrows ==
  ASSUME Parts, SendSubReport
  PROVE  /\ Len(queue) \in Nat /\ Len(queue') \in {Len(queue), Len(queue) + 1}
         /\ \A i \in 1..Len(queue) : queue'[i] = queue[i]
         /\ \A i \in 1..Len(queue') : queue'[i] # Read => i \in 1..Len(queue)
<1>1. queue \in Seq(Writes \cup {Read}) /\ (queue' = queue \/ queue' = Append(queue, Read))
  BY DEF Parts, QueueOK, SendSubReport
<1>2. CASE queue' = queue
  BY <1>1, <1>2
<1>3. CASE queue' = Append(queue, Read)
  <2>1. /\ Len(queue') = Len(queue) + 1 /\ Len(queue) \in Nat
        /\ \A i \in 1..Len(queue) : queue'[i] = queue[i]
        /\ queue'[Len(queue) + 1] = Read
    BY <1>1, <1>3
  <2>2. QED
    BY <2>1
<1>4. QED
  BY <1>1, <1>2, <1>3

LEMMA PendingShift ==
  ASSUME Parts, Pending, DispatchRead \/ DispatchWrite
  PROVE  /\ \A i \in 1..Len(queue') : queue'[i] # Read => Waiting(queue'[i])
         /\ \A i, j \in 1..Len(queue') :
              queue'[i] # Read /\ queue'[j] # Read /\ SameCall(queue'[i], queue'[j]) => i = j
<1>1. \A i \in 1..Len(queue') :
        i \in Nat /\ i + 1 \in 1..Len(queue) /\ queue'[i] = queue[i + 1]
  BY QueueShift
<1>2. ASSUME NEW i \in 1..Len(queue'), queue'[i] # Read
      PROVE  Waiting(queue'[i])
  <2>1. i + 1 \in 1..Len(queue) /\ queue'[i] = queue[i + 1] /\ queue[i + 1] # Read
    BY <1>1, <1>2
  <2>2. Waiting(queue[i + 1])
    BY <2>1 DEF Pending
  <2>3. QED
    BY <2>1, <2>2
<1>3. ASSUME NEW i \in 1..Len(queue'), NEW j \in 1..Len(queue'), queue'[i] # Read,
             queue'[j] # Read, SameCall(queue'[i], queue'[j])
      PROVE  i = j
  <2>1. /\ i \in Nat /\ i + 1 \in 1..Len(queue) /\ queue[i + 1] # Read
        /\ j \in Nat /\ j + 1 \in 1..Len(queue) /\ queue[j + 1] # Read
        /\ SameCall(queue[i + 1], queue[j + 1])
    BY <1>1, <1>3
  <2>2. i + 1 = j + 1
    BY <2>1 DEF Pending
  <2>3. QED
    BY <2>1, <2>2
<1>4. QED
  BY <1>2, <1>3

LEMMA PendingDriver ==
  ASSUME Parts, Pending, DriverStep
  PROVE  Pending'
<1>1. CASE DispatchRead
  <2>1. serving = Nothing /\ serving' = Nothing /\ UNCHANGED call
    BY <1>1 DEF DispatchRead, client
  <2>2. QED
    BY <1>1, <2>1, PendingShift DEF Pending, Waiting, SameCall
<1>2. CASE DispatchWrite
  <2>1. /\ serving'.write = queue[1] /\ queue[1] # Read /\ UNCHANGED call
    BY <1>2, QueueShift DEF DispatchWrite, client
  <2>2. Waiting(queue[1])
    BY <1>2, <2>1, QueueShift DEF Pending
  <2>3. \A i \in 1..Len(queue') : queue'[i] # Read => ~SameCall(queue'[i], queue[1])
    BY <1>2, <2>1, QueueShift DEF Pending
  <2>4. /\ \A i \in 1..Len(queue') : queue'[i] # Read => Waiting(queue'[i])
        /\ \A i, j \in 1..Len(queue') :
             queue'[i] # Read /\ queue'[j] # Read /\ SameCall(queue'[i], queue'[j]) => i = j
    BY <1>2, PendingShift
  <2>5. QED
    BY <2>1, <2>2, <2>3, <2>4 DEF Pending, Waiting, SameCall
<1>3. CASE SendReport
  <2>1. serving'.write = serving.write /\ serving # Nothing /\ UNCHANGED call
    BY <1>3, WriteTypes DEF SendReport, client
  <2>2. QED
    BY <1>3, <2>1, QueueGrows DEF SendReport, Pending, Waiting, SameCall
<1>4. CASE SendMessage
  <2>1. /\ serving' = Nothing /\ serving # Nothing
        /\ call' = [call EXCEPT ![serving.write.session][serving.write.handler] = "none"]
    BY <1>4 DEF SendMessage, Return, Goto
  <2>2. \A i \in 1..Len(queue) : queue[i] # Read =>
          call'[queue[i].session][queue[i].handler] = "wait"
    BY <2>1, WriteTypes DEF Pending, Waiting, SameCall, Parts, CallsOK
  <2>3. QED
    BY <1>4, <2>1, <2>2, QueueGrows DEF SendMessage, Pending, Waiting, SameCall
<1>5. QED
  BY <1>1, <1>2, <1>3, <1>4 DEF DriverStep

LEMMA HeldDriver ==
  ASSUME Parts, AllHeld, Pending, DriverStep
  PROVE  AllHeld'
<1>1. CASE DispatchRead \/ DispatchWrite \/ SendReport
  <2>1. UNCHANGED <<life, keyboard_replay, control, keyboard_state, control_report, call,
                    held, failed, early>>
    BY <1>1 DEF DispatchRead, DispatchWrite, SendReport, client, history
  <2>2. QED
    BY <2>1 DEF AllHeld, HeldBy, SetUp, Filled, Opening, Resetting
<1>2. CASE SendMessage
  <2> USE DEF Parts, CallsOK, FlagsOK, Handler
  <2>1. PICK s \in Session, h \in Handler :
          s = serving.write.session /\ h = serving.write.handler
    BY <1>2, WriteTypes DEF SendMessage
  <2>2. /\ UNCHANGED <<control, keyboard_state, control_report, held, early>>
        /\ failed' = (failed \/ report_queue = 0)
        /\ call' = [call EXCEPT ![s][h] = "none"]
    BY <1>2, <2>1 DEF SendMessage, Return, Goto
  <2>3. Return(s, h, report_queue # 0) /\ call[s][h] = "wait"
    BY <1>2, <2>1 DEF SendMessage, Pending, Waiting
  <2>4. ASSUME NEW r \in Session, r # s
        PROVE  HeldBy(r)'
    <3>1. life'[r] = life[r] /\ keyboard_replay'[r] = keyboard_replay[r] /\ call'[r] = call[r]
      BY <2>1, <2>2, <2>3, <2>4 DEF Return
    <3>2. QED
      BY <2>2, <3>1 DEF AllHeld, HeldBy, SetUp, Filled, Opening, Resetting
  <2>5. HeldBy(s)'
    <3>1. HeldBy(s)
      BY <2>1 DEF AllHeld
    <3>2. /\ keyboard_replay'[s] = "uninitialised" => keyboard_replay[s] = "uninitialised"
          /\ ~failed' => keyboard_replay'[s] = keyboard_replay[s]
          /\ Opening(s)' => Opening(s)
      <4>1. \/ keyboard_replay'[s] = keyboard_replay[s]
            \/ keyboard_replay'[s] = "kNone" /\ report_queue = 0
        BY <2>1, <2>2, <2>3 DEF Return
      <4>2. Opening(s)' => Opening(s)
        BY <2>1, <2>2 DEF Opening
      <4>3. QED
        BY <2>2, <4>1, <4>2
    <3>3. Resetting(s) => Resetting(s)'
      BY <2>1, <2>2, <2>3 DEF Return, Resetting
    <3>4. SetUp(s)'
      BY <2>1, <2>2, <2>3, <3>1, <3>2 DEF Return, HeldBy, SetUp
    <3>5. ~early' => Filled(s)'
      BY <2>1, <2>2, <2>3, <3>1 DEF Return, HeldBy, SetUp, Filled
    <3>6. QED
      BY <2>1, <2>2, <3>1, <3>2, <3>3, <3>4, <3>5 DEF HeldBy
  <2>6. QED
    BY <2>4, <2>5 DEF AllHeld
<1>3. QED
  BY <1>1, <1>2 DEF DriverStep

\* The device is open for good.  The codes are those of the session's keyboard, or
\* the session is going to write, or has a write in the queue after the n-th place, which will say something newer.
Opened(s) == control[s] /\ call[s]["control"] \notin {"open", "message"}
AtWrite(s) == Opened(s) /\ \E h \in Handler : call[s][h] \in {"update", "write"}
Followed(s, codes, n) ==
  \/ codes = keyboard_state[s]
  \/ AtWrite(s)
  \/ \E j \in (n + 1)..Len(queue) : queue[j] # Read /\ queue[j].session = s

\* As long as every report was delivered, the host's keyboard is one session's or
\* will be.
Sound == ~failed /\ ~early /\ (Message => serving.sent)
Undelivered(s) ==
  serving # Nothing /\ serving.stage = "report" /\ serving.write.session = s
Carried ==
  /\ \A i \in 1..Len(queue) :
       queue[i] # Read =>
         Opened(queue[i].session) /\ Followed(queue[i].session, queue[i].codes, i)
  /\ serving # Nothing =>
       Opened(serving.write.session) /\ Followed(serving.write.session, serving.write.codes, 0)
  /\ host = {} \/ \E s \in Session : Opened(s) /\ (Followed(s, host, 0) \/ Undelivered(s))

\* A loss is remembered.
LEMMA SoundBefore ==
  ASSUME Parts, Delivered, Sound',
         (\E s \in Session : SessionStep(s)) \/ DriverStep
  PROVE  Sound
<1>1. CASE \E s \in Session : SessionStep(s)
  <2>1. UNCHANGED serving
    BY <1>1, QueueSession DEF Parts
  <2>2. QED
    BY <1>1, <2>1, FlagsGrow DEF Sound, Message
<1>2. CASE DispatchRead \/ DispatchWrite \/ SendReport
  BY <1>2 DEF DispatchRead, DispatchWrite, SendReport, Sound, Message, history
<1>3. CASE SendMessage
  BY <1>3 DEF SendMessage, Sound, Message, Delivered
<1>4. QED
  BY <1>1, <1>2, <1>3 DEF DriverStep

\* What happens to the queue in a session's step.
LEMMA QueueKept ==
  ASSUME Parts, NEW s \in Session, SessionStep(s)
  PROVE  /\ Len(queue) \in Nat
         /\ \A i \in 1..Len(queue) : queue'[i] = queue[i]
         /\ \/ Len(queue') = Len(queue)
            \/ /\ Len(queue') = Len(queue) + 1
               /\ \E h \in Handler :
                    /\ WriteFile(s, h)
                    /\ queue'[Len(queue')] = WriteOf(s, h, control_report[s])
                    /\ queue'[Len(queue')] # Read
<1>1. CASE \E h \in Handler : WriteFile(s, h)
  BY <1>1, WriteIsWrite, WriteTypes
<1>2. CASE ~ \E h \in Handler : WriteFile(s, h)
  <2>1. queue' = queue
    BY <1>2
       DEF SessionStep, OnLogin, Initialize, OpenControl, OpenMessage, KeyboardReset,
           KeyboardUpdate, ReplayKeyboard, ReplayKeyboardVk, ReplayCode, Close, Destroy,
           WriteFileFail, driver
  <2>2. QED
    BY <2>1, WriteTypes
<1>3. QED
  BY <1>1, <1>2

LEMMA FollowedSession ==
  ASSUME Parts, AllHeld, NEW s \in Session, SessionStep(s), NEW r \in Session, Opened(r),
         NEW codes, NEW n \in 0..Len(queue), Followed(r, codes, n)
  PROVE  Opened(r)' /\ Followed(r, codes, n)'
<1> USE DEF Parts, CallsOK, CodesOK, FlagsOK, Handler, Goto, Opened
<1>1. (\E j \in (n + 1)..Len(queue) : queue[j] # Read /\ queue[j].session = r) =>
        \E j \in (n + 1)..Len(queue') : queue'[j] # Read /\ queue'[j].session = r
  <2>1. SUFFICES ASSUME NEW j \in (n + 1)..Len(queue), queue[j] # Read, queue[j].session = r
                 PROVE  j \in (n + 1)..Len(queue') /\ queue'[j] = queue[j]
    BY <2>1
  <2>2. QED
    BY <2>1, QueueKept
<1>2. CASE r # s
  BY <1>1, <1>2, OthersKeep DEF Followed, AtWrite
<1>3. CASE r = s
  <2>1. keyboard_replay[s] # "uninitialised"
    BY <1>3 DEF AllHeld, HeldBy, SetUp, Opening
  <2>2. CASE OnLogin(s) \/ Close(s) \/ Initialize(s) \/ OpenControl(s) \/ OpenMessage(s)
    BY <1>1, <1>3, <2>1, <2>2
       DEF OnLogin, Close, Initialize, OpenControl, OpenMessage, Followed, AtWrite
  <2>3. CASE KeyboardReset(s)
    BY <1>3, <2>3 DEF KeyboardReset, Followed, AtWrite
  <2>4. CASE ReplayKeyboard(s) \/ ReplayKeyboardVk(s)
    <3>1. PICK c \in Code \cup {KEY_NONE}, pressed \in BOOLEAN : ReplayCode(s, c, pressed)
      BY <2>4, ReplayIsCode
    <3>2. /\ control' = control
          /\ \/ UNCHANGED <<keyboard_state, call>>
             \/ call' = [call EXCEPT ![s]["replay"] = "update"]
      BY <3>1 DEF ReplayCode, KeyboardPress, KeyboardRelease, SetState
    <3>3. QED
      BY <1>1, <1>3, <3>2 DEF Followed, AtWrite
  <2>5. CASE Destroy(s)
    <3>1. ~AtWrite(s) /\ UNCHANGED <<control, keyboard_state>> /\ Opened(s)'
      BY <1>3, <2>5 DEF Destroy, Idle, AtWrite
    <3>2. QED
      BY <1>1, <1>3, <3>1 DEF Followed
  <2>6. ASSUME NEW h \in Handler, WriteFileFail(s, h)
        PROVE  Opened(r)' /\ Followed(r, codes, n)'
    BY <1>3, <2>6 DEF WriteFileFail
  <2>7. ASSUME NEW h \in Handler, WriteFile(s, h)
        PROVE  Opened(r)' /\ Followed(r, codes, n)'
    <3>1. /\ Len(queue') = Len(queue) + 1 /\ Len(queue) \in Nat
          /\ queue'[Len(queue')] # Read /\ queue'[Len(queue')] = WriteOf(s, h, control_report[s])
      BY <2>7, WriteIsWrite, WriteTypes
    <3>2. Len(queue') \in (n + 1)..Len(queue') /\ queue'[Len(queue')].session = s
      BY <3>1 DEF WriteOf
    <3>3. control' = control /\ call' = [call EXCEPT ![s][h] = "wait"]
      BY <2>7 DEF WriteFile
    <3>4. Opened(r)'
      BY <1>3, <3>3
    <3>5. QED
      BY <1>3, <3>1, <3>2, <3>4 DEF Followed
  <2>8. ASSUME NEW h \in Handler, KeyboardUpdate(s, h)
        PROVE  Opened(r)' /\ Followed(r, codes, n)'
    BY <1>3, <2>8 DEF KeyboardUpdate, Followed, AtWrite
  <2>9. QED
    BY <2>2, <2>3, <2>4, <2>5, <2>6, <2>7, <2>8 DEF SessionStep
<1>4. QED
  BY <1>2, <1>3

\* The other way to replay is taken before the keyboard's is set.
LEMMA HostSession ==
  ASSUME Parts, AllHeld, ~early', NEW s \in Session, SessionStep(s)
  PROVE  host' = host
<1>1. CASE ReplayKeyboard(s) \/ ReplayKeyboardVk(s)
  <2>1. PICK c \in Code \cup {KEY_NONE}, pressed \in BOOLEAN : ReplayCode(s, c, pressed)
    BY <1>1, ReplayIsCode
  <2>2. keyboard_replay[s] \in {"kNone", "kCgvhid"}
    <3>1. life[s] = "ready"
      BY <2>1 DEF ReplayCode, Parts, FlagsOK
    <3>2. QED
      BY <3>1 DEF AllHeld, HeldBy, SetUp, Parts, CallsOK
  <2>3. QED
    BY <2>1, <2>2 DEF ReplayCode, Way
<1>2. CASE ~(ReplayKeyboard(s) \/ ReplayKeyboardVk(s))
  BY <1>2
     DEF SessionStep, OnLogin, Initialize, OpenControl, OpenMessage, KeyboardReset,
         KeyboardUpdate, Close, Destroy, WriteFileFail, WriteFile
<1>3. QED
  BY <1>1, <1>2

\* What is written is what the keyboard's state says, to a device open for good.
LEMMA WriteSaysState ==
  ASSUME Parts, AllHeld, ~early, NEW s \in Session, NEW h \in Handler, WriteFile(s, h)
  PROVE  Opened(s) /\ control_report[s] = keyboard_state[s]
<1>1. control[s] /\ call[s][h] = "write" /\ SetUp(s) /\ Filled(s)
  BY DEF WriteFile, AllHeld, HeldBy
<1>2. \A g \in Handler : g # h => call[s][g] = "none"
  BY <1>1 DEF SetUp, Filled, Handler
<1>3. call[s]["control"] \notin {"open", "message"}
  BY <1>1, <1>2 DEF Handler
<1>4. ~ \E g \in Handler : call[s][g] = "update"
  BY <1>1, <1>2
<1>5. QED
  BY <1>1, <1>3, <1>4 DEF Opened, Filled

LEMMA CarriedSession ==
  ASSUME Parts, AllHeld, Pending, Carried, ~early, ~early',
         NEW s \in Session, SessionStep(s)
  PROVE  Carried'
<1>1. \A r \in Session, n \in 0..Len(queue) : \A codes :
        Opened(r) /\ Followed(r, codes, n) => Opened(r)' /\ Followed(r, codes, n)'
  BY FollowedSession
<1>2. UNCHANGED <<serving, host>>
  BY HostSession, QueueSession DEF Parts
<1>3. ASSUME NEW i \in 1..Len(queue'), queue'[i] # Read
      PROVE  Opened(queue[i].session)' /\ Followed(queue[i].session, queue[i].codes, i)'
  <2>1. CASE i \in 1..Len(queue)
    <3>1. /\ queue'[i] = queue[i] /\ queue[i].session \in Session /\ i \in 0..Len(queue)
          /\ Opened(queue[i].session)
          /\ Followed(queue[i].session, queue[i].codes, i)
      BY <1>3, <2>1, QueueKept, WriteTypes DEF Carried
    <3>2. PICK r, codes : r \in Session /\ r = queue[i].session /\ codes = queue[i].codes
      BY <3>1
    <3>3. Opened(r)' /\ Followed(r, codes, i)'
      BY <1>1, <3>1, <3>2
    <3>4. QED
      BY <3>1, <3>2, <3>3 DEF Followed, AtWrite, Opened
  <2>2. CASE i \notin 1..Len(queue)
    <3>1. PICK h \in Handler :
            WriteFile(s, h) /\ queue'[i] = WriteOf(s, h, control_report[s])
      BY <2>2, QueueKept
    <3>2. /\ queue'[i].session = s /\ queue'[i].codes = keyboard_state[s]
          /\ keyboard_state' = keyboard_state
      BY <3>1, WriteSaysState DEF WriteOf, WriteFile
    <3>3. Opened(s)'
      BY <3>1, WriteSaysState DEF WriteFile, Goto, Opened, Parts, CallsOK, Handler
    <3>4. QED
      BY <3>2, <3>3 DEF Followed, Opened
  <2>3. QED
    BY <2>1, <2>2
<1>4. ASSUME serving # Nothing
      PROVE  /\ Opened(serving.write.session)'
             /\ Followed(serving.write.session, serving.write.codes, 0)'
  <2>1. PICK r, codes :
          r \in Session /\ r = serving.write.session /\ codes = serving.write.codes
    BY <1>4, WriteTypes
  <2>2. Opened(r) /\ Followed(r, codes, 0) /\ 0 \in 0..Len(queue)
    BY <1>4, <2>1, WriteTypes DEF Carried
  <2>3. Opened(r)' /\ Followed(r, codes, 0)'
    BY <1>1, <2>1, <2>2
  <2>4. QED
    BY <1>2, <2>1, <2>3 DEF Followed, AtWrite, Opened
<1>5. ASSUME host # {}
      PROVE  \E r \in Session : Opened(r)' /\ (Followed(r, host, 0)' \/ Undelivered(r)')
  <2>1. PICK r \in Session : Opened(r) /\ (Followed(r, host, 0) \/ Undelivered(r))
    BY <1>5 DEF Carried
  <2>2. Opened(r)'
    <3>1. PICK codes : codes = keyboard_state[r]
      OBVIOUS
    <3>2. Followed(r, codes, 0) /\ 0 \in 0..Len(queue)
      BY <3>1, WriteTypes DEF Followed
    <3>3. QED
      BY <1>1, <2>1, <3>2
  <2>3. PICK codes : codes = host
    OBVIOUS
  <2>4. CASE Followed(r, host, 0)
    <3>1. Followed(r, codes, 0)'
      BY <1>1, <2>1, <2>3, <2>4, WriteTypes
    <3>2. QED
      BY <1>2, <2>2, <2>3, <3>1 DEF Followed, AtWrite, Opened
  <2>5. CASE Undelivered(r)
    BY <1>2, <2>2, <2>5 DEF Undelivered
  <2>6. QED
    BY <2>1, <2>4, <2>5
<1>6. QED
  BY <1>2, <1>3, <1>4, <1>5 DEF Carried

\* The driver's steps move the queue's elements by one place, or by none.
LEMMA FollowedShift ==
  ASSUME Parts, DispatchRead \/ DispatchWrite, NEW r, NEW codes, NEW n \in Nat,
         Followed(r, codes, n + 1)
  PROVE  Followed(r, codes, n)'
<1>1. UNCHANGED <<control, call, keyboard_state>>
  BY DEF DispatchRead, DispatchWrite, client
<1>2. ASSUME NEW j \in (n + 2)..Len(queue), queue[j] # Read, queue[j].session = r
      PROVE  Followed(r, codes, n)'
  <2>1. j - 1 \in (n + 1)..Len(queue') /\ queue'[j - 1] = queue[j]
    <3>1. j - 1 \in 1..Len(queue') /\ j - 1 >= n + 1 /\ (j - 1) + 1 = j
      BY QueueShift
    <3>2. queue'[j - 1] = queue[(j - 1) + 1]
      BY <3>1, QueueShift
    <3>3. QED
      BY <3>1, <3>2
  <2>2. QED
    BY <1>2, <2>1 DEF Followed
<1>3. n + 1 + 1 = n + 2
  OBVIOUS
<1>4. QED
  BY <1>1, <1>2, <1>3 DEF Followed, AtWrite, Opened

LEMMA FollowedSend ==
  ASSUME Parts, Pending, SendReport \/ SendMessage, NEW r \in Session, NEW codes,
         NEW n \in Nat, Opened(r), Followed(r, codes, n)
  PROVE  Opened(r)' /\ Followed(r, codes, n)'
<1>1. SendSubReport /\ UNCHANGED <<control, keyboard_state>>
  BY DEF SendReport, SendMessage, client
<1>2. Opened(r)' /\ (AtWrite(r) => AtWrite(r)')
  <2>1. CASE SendReport
    BY <2>1 DEF SendReport, client, AtWrite, Opened
  <2>2. CASE SendMessage
    <3>1. /\ call[serving.write.session][serving.write.handler] = "wait"
          /\ call' = [call EXCEPT ![serving.write.session][serving.write.handler] = "none"]
          /\ serving.write.session \in Session /\ serving.write.handler \in Handler
      BY <2>2, WriteTypes DEF SendMessage, Return, Goto, Pending, Waiting
    <3>2. Opened(r)'
      BY <1>1, <3>1 DEF Opened, Parts, CallsOK, Handler
    <3>3. QED
      BY <3>1, <3>2 DEF AtWrite, Parts, CallsOK
  <2>3. QED
    BY <2>1, <2>2
<1>3. ASSUME NEW j \in (n + 1)..Len(queue), queue[j] # Read, queue[j].session = r
      PROVE  Followed(r, codes, n)'
  <2>1. j \in (n + 1)..Len(queue') /\ queue'[j] = queue[j]
    BY <1>1, QueueGrows
  <2>2. QED
    BY <1>3, <2>1 DEF Followed
<1>4. QED
  BY <1>1, <1>2, <1>3 DEF Followed

LEMMA CarriedDispatch ==
  ASSUME Parts, Carried, DispatchRead \/ DispatchWrite
  PROVE  Carried'
<1>1. UNCHANGED <<control, call, host>> /\ serving = Nothing
  BY DEF DispatchRead, DispatchWrite, client
<1>2. ASSUME NEW i \in 1..Len(queue'), queue'[i] # Read
      PROVE  Opened(queue[i].session)' /\ Followed(queue[i].session, queue[i].codes, i)'
  <2>1. i \in Nat /\ i + 1 \in 1..Len(queue) /\ queue'[i] = queue[i + 1]
    BY QueueShift
  <2>2. PICK r, codes : r = queue[i + 1].session /\ codes = queue[i + 1].codes
    OBVIOUS
  <2>3. Opened(r) /\ Followed(r, codes, i + 1)
    BY <1>2, <2>1, <2>2 DEF Carried
  <2>4. Followed(r, codes, i)'
    BY <2>1, <2>3, FollowedShift
  <2>5. QED
    BY <1>1, <2>1, <2>2, <2>3, <2>4 DEF Followed, AtWrite, Opened
<1>3. ASSUME DispatchWrite
      PROVE  /\ Opened(serving.write.session)'
             /\ Followed(serving.write.session, serving.write.codes, 0)'
  <2>1. serving'.write = queue[1] /\ queue[1] # Read /\ 1 \in 1..Len(queue)
    BY <1>3, QueueShift DEF DispatchWrite
  <2>2. PICK r, codes : r = queue[1].session /\ codes = queue[1].codes
    OBVIOUS
  <2>3. Opened(r) /\ Followed(r, codes, 0 + 1)
    BY <2>1, <2>2 DEF Carried
  <2>4. Followed(r, codes, 0)'
    BY <2>3, FollowedShift
  <2>5. QED
    BY <1>1, <2>1, <2>2, <2>3, <2>4 DEF Followed, AtWrite, Opened
<1>4. ASSUME host # {}
      PROVE  \E r \in Session : Opened(r)' /\ (Followed(r, host, 0)' \/ Undelivered(r)')
  <2>1. PICK r \in Session : Opened(r) /\ Followed(r, host, 0)
    BY <1>1, <1>4 DEF Carried, Undelivered
  <2>2. PICK codes : codes = host
    OBVIOUS
  <2>3. CASE Followed(r, codes, 0 + 1)
    <3>1. Followed(r, codes, 0)'
      BY <2>3, FollowedShift
    <3>2. QED
      BY <1>1, <2>1, <2>2, <3>1 DEF Followed, AtWrite, Opened
  <2>4. CASE ~Followed(r, codes, 0 + 1)
    <3>1. queue[1] # Read /\ queue[1].session = r
      BY <2>1, <2>2, <2>4 DEF Followed
    <3>2. DispatchWrite /\ serving' = [write |-> queue[1], stage |-> "report", sent |-> FALSE]
      BY <3>1, QueueShift DEF DispatchRead, DispatchWrite
    <3>3. Undelivered(r)'
      BY <3>1, <3>2 DEF Undelivered, Nothing
    <3>4. QED
      BY <1>1, <2>1, <3>3 DEF Opened
  <2>5. QED
    BY <2>3, <2>4
<1>5. CASE DispatchRead
  BY <1>1, <1>2, <1>4, <1>5 DEF Carried, DispatchRead
<1>6. CASE DispatchWrite
  BY <1>1, <1>2, <1>3, <1>4, <1>6 DEF Carried
<1>7. QED
  BY <1>5, <1>6

LEMMA CarriedSend ==
  ASSUME Parts, Pending, Carried, Sound', SendReport \/ SendMessage
  PROVE  Carried'
<1>1. SendSubReport /\ serving # Nothing
  BY DEF SendReport, SendMessage
<1>2. ASSUME NEW i \in 1..Len(queue'), queue'[i] # Read
      PROVE  Opened(queue[i].session)' /\ Followed(queue[i].session, queue[i].codes, i)'
  <2>1. i \in Nat /\ i \in 1..Len(queue) /\ queue'[i] = queue[i]
    BY <1>1, <1>2, QueueGrows
  <2>2. PICK r, codes : r \in Session /\ r = queue[i].session /\ codes = queue[i].codes
    BY <1>2, <2>1, WriteTypes
  <2>3. Opened(r) /\ Followed(r, codes, i)
    BY <1>2, <2>1, <2>2 DEF Carried
  <2>4. Opened(r)' /\ Followed(r, codes, i)'
    BY <2>1, <2>2, <2>3, FollowedSend
  <2>5. QED
    BY <2>1, <2>2, <2>4 DEF Followed, AtWrite, Opened
<1>3. PICK r, codes :
        r \in Session /\ r = serving.write.session /\ codes = serving.write.codes
  BY <1>1, WriteTypes
<1>4. Opened(r)' /\ Followed(r, codes, 0)'
  BY <1>1, <1>3, FollowedSend DEF Carried
<1>5. CASE SendReport
  <2>1. serving'.write = serving.write /\ serving'.sent = (report_queue # 0)
        /\ serving' # Nothing /\ serving'.stage = "message"
    BY <1>1, <1>5, WriteTypes DEF SendReport, Nothing
  <2>2. host' = codes
    BY <1>3, <1>5, <2>1 DEF SendReport, Sound, Message
  <2>3. /\ Opened(serving.write.session)'
        /\ Followed(serving.write.session, serving.write.codes, 0)' /\ Followed(r, host, 0)'
    BY <1>3, <1>4, <2>1, <2>2 DEF Followed, AtWrite, Opened
  <2>4. QED
    BY <1>1, <1>2, <1>3, <1>4, <2>3 DEF Carried
<1>6. CASE SendMessage
  <2>1. host' = host /\ serving' = Nothing /\ ~ \E q \in Session : Undelivered(q)
    BY <1>6 DEF SendMessage, Undelivered
  <2>2. host = {} \/ \E q \in Session : Opened(q)' /\ Followed(q, host, 0)'
    <3>1. SUFFICES ASSUME host # {}
                   PROVE  \E q \in Session : Opened(q)' /\ Followed(q, host, 0)'
      OBVIOUS
    <3>2. PICK q, keys : q \in Session /\ keys = host /\ Opened(q) /\ Followed(q, keys, 0)
      BY <2>1, <3>1 DEF Carried
    <3>3. Opened(q)' /\ Followed(q, keys, 0)'
      BY <3>2, FollowedSend
    <3>4. QED
      BY <2>1, <3>2, <3>3 DEF Followed, AtWrite
  <2>3. QED
    BY <1>2, <2>1, <2>2 DEF Carried
<1>7. QED
  BY <1>5, <1>6

Traced == AllHeld /\ Pending /\ Delivered /\ (Sound => Carried)

LEMMA TracedInit == Init => Traced
<1> SUFFICES ASSUME Init
             PROVE  Traced
  OBVIOUS
<1>1. queue = <<>> /\ Len(queue) = 0 /\ serving = Nothing /\ host = {}
  BY DEF Init
<1>2. AllHeld
  BY DEF Init, AllHeld, HeldBy, SetUp, Filled, Opening, Handler
<1>3. QED
  BY <1>1, <1>2 DEF Traced, Pending, Delivered, Message, Carried

LEMMA TracedNext == IInv /\ Traced /\ [Next]_vars => Traced'
<1> SUFFICES ASSUME IInv, Traced, [Next]_vars
             PROVE  Traced'
  OBVIOUS
<1> USE DEF Traced
<1>1. Parts /\ Delivered'
  BY DeliveredNext DEF IInv
<1>2. ASSUME NEW s \in Session, SessionStep(s)
      PROVE  Traced'
  <2>1. AllHeld' /\ Pending'
    BY <1>1, <1>2, HeldSession, PendingSession
  <2>2. Sound' => Carried'
    BY <1>1, <1>2, SoundBefore, CarriedSession DEF Sound
  <2>3. QED
    BY <1>1, <2>1, <2>2
<1>3. CASE DriverStep
  <2>1. AllHeld' /\ Pending'
    BY <1>1, <1>3, HeldDriver, PendingDriver
  <2>2. Sound' => Carried'
    BY <1>1, <1>3, SoundBefore, CarriedDispatch, CarriedSend DEF DriverStep
  <2>3. QED
    BY <1>1, <2>1, <2>2
<1>4. CASE UNCHANGED vars
  <2>1. AllHeld'
    BY <1>4 DEF vars, client, history, AllHeld, HeldBy, SetUp, Filled, Opening, Resetting
  <2>2. Pending'
    BY <1>4 DEF vars, client, driver, Pending, Waiting, SameCall
  <2>3. Sound => Carried
    OBVIOUS
  <2>4. Sound' => Carried'
    BY <1>4, <2>3
       DEF vars, client, driver, history, Sound, Message, Carried, Followed, AtWrite,
           Opened, Undelivered
  <2>5. QED
    BY <1>1, <2>1, <2>2, <2>4
<1>5. QED
  BY <1>2, <1>3, <1>4, NextSteps

\* When no call is under way, every write has returned, and the host's keyboard is
\* some session's, none of whose keys is pressed unless its client holds it.
LEMMA TracedQuiet == IInv /\ Traced => NoStuckKey
<1> SUFFICES ASSUME Parts, Traced, Quiet, ~failed, ~early, host # {}
             PROVE  host \subseteq UNION {held[s] : s \in Session}
  BY DEF NoStuckKey, IInv
<1> USE DEF Traced
<1>1. \A s \in Session : life[s] # "free" /\ \A h \in Handler : call[s][h] = "none"
  BY DEF Quiet, Idle
<1>2. serving = Nothing /\ \A i \in 1..Len(queue) : queue[i] = Read
  BY <1>1, WriteTypes DEF Pending, Waiting
<1>3. Carried
  BY <1>2 DEF Sound, Message
<1>4. PICK s \in Session : Opened(s) /\ Followed(s, host, 0)
  BY <1>2, <1>3 DEF Carried, Undelivered
<1>5. host = keyboard_state[s]
  BY <1>1, <1>2, <1>4, WriteTypes DEF Followed, AtWrite
<1>6. keyboard_state[s] \subseteq held[s]
  BY <1>1, <1>4 DEF AllHeld, HeldBy, Opened, Opening, Resetting
<1>7. QED
  BY <1>5, <1>6

\* For any sessions, key codes and numbers of reads and replays: when nothing is under
\* way and no report was lost, the host's keyboard holds only keys that a client holds.
THEOREM NoStuckKeyHolds == Spec => []NoStuckKey
<1>1. IInv /\ Traced /\ [Next]_vars => Traced'
  BY TracedNext
<1>2. QED
  BY <1>1, TracedInit, TracedQuiet, IInvAlways, PTL DEF Spec
=============================================================================
