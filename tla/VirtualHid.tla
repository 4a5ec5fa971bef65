----------------------------- MODULE VirtualHid -----------------------------
(***************************************************************************)
(* From a client's key to the host's keyboard: the sessions' GameControl   *)
(* (game_control.cpp, game_control_cgvhid.cpp), each with a CgvhidClient   *)
(* of its own (cgvhid_client.cpp, cgvhid.cpp), the one virtual device's    *)
(* driver (cgvhid/cgvhid/device.cpp) and, as far as it matters, the class  *)
(* driver above it, which keeps reads outstanding (external).              *)
(*                                                                         *)
(* Of one session two handlers may run at the same time: OnLogin, which    *)
(* calls GameControl::Initialize, and OnRead, which calls Replay as soon   *)
(* as session_state_ says kAuthorized, which is before that.  The          *)
(* destructor runs when no handler is left.                                *)
(*                                                                         *)
(* The keyboard is replayed through the virtual device and the mouse is    *)
(* not, so that the keyboard's reports are the only ones written.          *)
(***************************************************************************)
EXTENDS Naturals, Sequences, FiniteSets

CONSTANTS
  Session,             \* the sessions
  Modifier,            \* key codes with a bit of their own in a report
  Key,                 \* the other key codes
  KEY_NONE,            \* the code of no key
  Vk,                  \* virtual keys: what a client may send besides codes
  VkToScancode,        \* CgvhidClient::VkToScancode
  KEYBD_MAX_KEY_COUNT, \* keys a report has room for
  Disabled,            \* GameControl::disable_keys_
  Reads,               \* reads the class driver keeps outstanding
  MaxReplays           \* bound: keys pressed or released

Code == Modifier \cup Key

ASSUME KeyAssumption ==
  /\ Modifier \cap Key = {} /\ KEY_NONE \notin Code /\ Disabled \subseteq Code
  /\ VkToScancode \in [Vk -> Code \cup {KEY_NONE}]
ASSUME CountAssumption ==
  KEYBD_MAX_KEY_COUNT \in Nat \ {0} /\ Reads \in Nat \ {0}
  /\ MaxReplays \in Nat

VARIABLES
  \* Each session.
  life,            \* new, then OnLogin, ready, its destructor, gone
  closed,          \* no more packets are read
  keyboard_replay, \* GameControl::keyboard_replay_, at first uninitialised
  control,         \* Cgvhid::control_ is open
  keyboard_state,  \* CgvhidClient::keyboard_state_: the codes held
  control_report,  \* Cgvhid::control_report_: the codes in it
  call,            \* where its two possible handlers are in a call
  held,            \* the keys the client has pressed and not released
  \* The driver.
  queue,           \* its default queue
  report_queue,    \* how many reads wait in its report_queue
  serving,         \* the write it is serving
  \* The host.
  host,            \* the codes held on its keyboard
  \* History.
  crowded,         \* two writes were waiting or served at the same time
  failed,          \* a write to the open device has failed
  early,           \* keys were replayed before Initialize had returned
  replays          \* keys pressed or released so far

client == <<life, closed, keyboard_replay, control, keyboard_state,
            control_report, call, held>>
driver == <<queue, report_queue, serving>>
history == <<crowded, failed, early, replays>>
vars == <<client, driver, host, history>>
-----------------------------------------------------------------------------
Handler == {"control", "replay"}
Where == {"none", "open", "message", "reset", "update", "write", "wait"}
Read == [op |-> "read"]
WriteOf(s, h, codes) == [op |-> "write", session |-> s, handler |-> h,
                         codes |-> codes]
Writes == [op : {"write"}, session : Session, handler : Handler,
           codes : SUBSET Code]
Nothing == [op |-> "nothing"]

TypeOK ==
  /\ life \in [Session -> {"new", "login", "ready", "free", "gone"}]
  /\ closed \in [Session -> BOOLEAN]
  /\ keyboard_replay \in [Session -> {"uninitialised", "kNone", "kCgvhid"}]
  /\ control \in [Session -> BOOLEAN]
  /\ keyboard_state \in [Session -> SUBSET Code]
  /\ \A s \in Session :
       Cardinality(keyboard_state[s] \cap Key) <= KEYBD_MAX_KEY_COUNT
  /\ control_report \in [Session -> SUBSET Code]
  /\ call \in [Session -> [Handler -> Where]]
  /\ held \in [Session -> SUBSET Code]
  /\ queue \in Seq(Writes \cup {Read})
  /\ report_queue \in 0..Reads
  /\ serving \in {Nothing} \cup
       [write : Writes, stage : {"report", "message"}, sent : BOOLEAN]
  /\ host \subseteq Code
  /\ crowded \in BOOLEAN /\ failed \in BOOLEAN /\ early \in BOOLEAN
  /\ replays \in 0..MaxReplays

Init ==
  /\ life = [s \in Session |-> "new"] /\ closed = [s \in Session |-> FALSE]
  /\ keyboard_replay = [s \in Session |-> "uninitialised"]
  /\ control = [s \in Session |-> FALSE]
  /\ keyboard_state = [s \in Session |-> {}]
  /\ control_report = [s \in Session |-> {}]
  /\ call = [s \in Session |-> [h \in Handler |-> "none"]]
  /\ held = [s \in Session |-> {}]
  /\ queue = <<>> /\ report_queue = Reads /\ serving = Nothing
  /\ host = {}
  /\ crowded = FALSE /\ failed = FALSE /\ early = FALSE /\ replays = 0
-----------------------------------------------------------------------------
(* The calls of a session. *)

Goto(s, h, where) == call' = [call EXCEPT ![s][h] = where]
Idle(s) == \A h \in Handler : call[s][h] = "none"

\* OnLogin sets kAuthorized; Initialize takes the way to replay, then opens.
OnLogin(s) ==
  /\ life[s] = "new" /\ life' = [life EXCEPT ![s] = "login"]
  /\ UNCHANGED <<closed, keyboard_replay, control, keyboard_state,
                 control_report, call, held, driver, host, history>>

Initialize(s) ==
  /\ life[s] = "login" /\ keyboard_replay[s] = "uninitialised"
  /\ keyboard_replay' = [keyboard_replay EXCEPT ![s] = "kCgvhid"]
  /\ Goto(s, "control", "open")
  /\ UNCHANGED <<life, closed, control, keyboard_state, control_report, held,
                 driver, host, history>>

\* Cgvhid::Initialize opens the control device, or does not find it...
OpenControl(s) ==
  /\ call[s]["control"] = "open"
  /\ \/ control' = [control EXCEPT ![s] = TRUE] /\ Goto(s, "control", "message")
     \/ UNCHANGED control /\ Goto(s, "control", "reset")
  /\ UNCHANGED <<life, closed, keyboard_replay, keyboard_state,
                 control_report, held, driver, host, history>>

\* ... and then the message device.  If that is not found the control device
\* stays open; if its buffers cannot be set, Free() closes both.  Nobody looks at
\* what Initialize returns.
OpenMessage(s) ==
  /\ call[s]["control"] = "message"
  /\ \E open \in BOOLEAN : control' = [control EXCEPT ![s] = open]
  /\ Goto(s, "control", "reset")
  /\ UNCHANGED <<life, closed, keyboard_replay, keyboard_state,
                 control_report, held, driver, host, history>>

\* CgvhidClient::KeyboardReset: the state is changed, then the report.
KeyboardReset(s) ==
  /\ call[s]["control"] = "reset"
  /\ keyboard_state' = [keyboard_state EXCEPT ![s] = {}]
  /\ Goto(s, "control", "update")
  /\ UNCHANGED <<life, closed, keyboard_replay, control, control_report, held,
                 driver, host, history>>

\* Cgvhid::KeyboardUpdate fills the session's one report, of which WriteFile
\* takes what is in it by then: a replay with the state, a reset with zeros.
KeyboardUpdate(s, h) ==
  /\ call[s][h] = "update"
  /\ control_report' = [control_report EXCEPT
       ![s] = IF h = "replay" THEN keyboard_state[s] ELSE {}]
  /\ Goto(s, h, "write")
  /\ UNCHANGED <<life, closed, keyboard_replay, control, keyboard_state, held,
                 driver, host, history>>

\* KeyboardPress: a code that is not there yet needs a free place; no key is
\* found where a place is free.
Fits(s) == Cardinality(keyboard_state[s] \cap Key) < KEYBD_MAX_KEY_COUNT
\* Mutant of PressReports: a place is found where there is none.
PressReportsAlways(s, c) == TRUE

PressReports(s, c) == c \in Modifier \cup keyboard_state[s] \/ Fits(s)
ReleaseReports(s, c) ==
  c \in Modifier \cup keyboard_state[s] \/ (c = KEY_NONE /\ Fits(s))

SetState(s, codes) ==
  /\ keyboard_state' = [keyboard_state EXCEPT ![s] = codes]
  /\ Goto(s, "replay", "update")

KeyboardPress(s, c) ==
  IF PressReports(s, c)
  THEN SetState(s, keyboard_state[s] \cup ({c} \ {KEY_NONE}))
  ELSE UNCHANGED <<keyboard_state, call>>

KeyboardRelease(s, c) ==
  IF ReleaseReports(s, c)
  THEN SetState(s, keyboard_state[s] \ {c})
  ELSE UNCHANGED <<keyboard_state, call>>

\* The keys as the client has them.
Hold(s, c, pressed) ==
  held' = [held EXCEPT ![s] = IF pressed THEN @ \cup ({c} \ {KEY_NONE})
                              ELSE @ \ {c}]

\* What an uninitialised keyboard_replay_ may be.
Way(s) == IF keyboard_replay[s] = "uninitialised"
          THEN {"kNone", "kCgvhid", "kSendInput"} ELSE {keyboard_replay[s]}

\* Replay of a key press or release that arrives as code c.
ReplayCode(s, c, pressed) ==
  /\ life[s] \in {"login", "ready"} /\ ~closed[s]
  /\ call[s]["replay"] = "none"
  /\ replays < MaxReplays /\ replays' = replays + 1
  /\ Hold(s, c, pressed)
  /\ early' = (early \/ life[s] = "login")
  /\ \E way \in Way(s) :
       \/ /\ way = "kNone" \/ c \in Disabled
          /\ UNCHANGED <<keyboard_state, call, host>>
       \/ /\ way = "kCgvhid" /\ c \notin Disabled
          /\ IF pressed THEN KeyboardPress(s, c) ELSE KeyboardRelease(s, c)
          /\ UNCHANGED host
       \/ /\ way = "kSendInput" /\ c \notin Disabled
          /\ host' = IF pressed THEN host \cup ({c} \ {KEY_NONE}) ELSE host \ {c}
          /\ UNCHANGED <<keyboard_state, call>>
  /\ UNCHANGED <<life, closed, keyboard_replay, control, control_report, driver,
                 crowded, failed>>

\* A code that is none is refused, of a virtual key it is not.
ReplayKeyboard(s) == \E c \in Code, pressed \in BOOLEAN : ReplayCode(s, c, pressed)
ReplayKeyboardVk(s) ==
  \E v \in Vk, pressed \in BOOLEAN : ReplayCode(s, VkToScancode[v], pressed)

\* The call of handler h returns; only Initialize looks at the error.
Return(s, h, ok) ==
  /\ Goto(s, h, "none")
  /\ IF h = "replay" THEN UNCHANGED <<life, keyboard_replay>>
     ELSE IF life[s] = "free"
          THEN life' = [life EXCEPT ![s] = "gone"] /\ UNCHANGED keyboard_replay
          ELSE /\ life' = [life EXCEPT ![s] = "ready"]
               /\ keyboard_replay' = [keyboard_replay EXCEPT
                    ![s] = IF ok THEN @ ELSE "kNone"]

\* WriteFile without a device fails at once; else it waits for the driver.
WriteFileFail(s, h) ==
  /\ call[s][h] = "write" /\ ~control[s]
  /\ Return(s, h, FALSE)
  /\ UNCHANGED <<closed, control, keyboard_state, control_report, held, driver,
                 host, history>>

Waits == \E i \in 1..Len(queue) : queue[i] # Read
WriteFile(s, h) ==
  /\ call[s][h] = "write" /\ control[s]
  /\ queue' = Append(queue, WriteOf(s, h, control_report[s]))
  /\ crowded' = (crowded \/ serving # Nothing \/ Waits)
  /\ Goto(s, h, "wait")
  /\ UNCHANGED <<life, closed, keyboard_replay, control, keyboard_state,
                 control_report, held, report_queue, serving, host, failed,
                 early, replays>>

Close(s) ==
  /\ ~closed[s] /\ closed' = [closed EXCEPT ![s] = TRUE]
  /\ UNCHANGED <<life, keyboard_replay, control, keyboard_state,
                 control_report, call, held, driver, host, history>>

\* Mutant of Destroy: the keyboard is left as it is.
DestroyWithoutReset(s) ==
  /\ closed[s] /\ Idle(s) /\ life[s] \in {"new", "ready"}
  /\ held' = [held EXCEPT ![s] = {}]
  /\ life' = [life EXCEPT ![s] = "gone"]
  /\ UNCHANGED <<closed, keyboard_replay, control, keyboard_state,
                 control_report, call, driver, host, history>>

\* ~GameControl; before Initialize there is no device to reset.
Destroy(s) ==
  /\ closed[s] /\ Idle(s) /\ life[s] \in {"new", "ready"}
  /\ held' = [held EXCEPT ![s] = {}]
  /\ \E way \in Way(s) :
       IF way = "kCgvhid"
       THEN life' = [life EXCEPT ![s] = "free"] /\ Goto(s, "control", "reset")
       ELSE life' = [life EXCEPT ![s] = "gone"] /\ UNCHANGED call
  /\ UNCHANGED <<closed, keyboard_replay, control, keyboard_state,
                 control_report, driver, host, history>>
-----------------------------------------------------------------------------
(* The driver: requests are dispatched one at a time. *)

\* Mutant of DispatchRead: reads are dispatched while a write is served.
DispatchReadAnytime ==
  /\ queue # <<>> /\ Head(queue) = Read
  /\ queue' = Tail(queue) /\ report_queue' = report_queue + 1
  /\ UNCHANGED <<client, serving, host, history>>

\* A read is forwarded to the manual queue and stays there.
DispatchRead ==
  /\ serving = Nothing /\ queue # <<>> /\ Head(queue) = Read
  /\ queue' = Tail(queue) /\ report_queue' = report_queue + 1
  /\ UNCHANGED <<client, serving, host, history>>

DispatchWrite ==
  /\ serving = Nothing /\ queue # <<>> /\ Head(queue) # Read
  /\ queue' = Tail(queue)
  /\ serving' = [write |-> Head(queue), stage |-> "report", sent |-> FALSE]
  /\ UNCHANGED <<client, report_queue, host, history>>

\* Mutant of SendSubReport: the read is taken but not completed.
SendSubReportKeeping ==
  IF report_queue = 0 THEN UNCHANGED <<queue, report_queue>>
  ELSE report_queue' = report_queue - 1 /\ queue' = queue

\* A read is completed, if there is one; the class driver sends another.
SendSubReport ==
  IF report_queue = 0 THEN UNCHANGED <<queue, report_queue>>
  ELSE report_queue' = report_queue - 1 /\ queue' = Append(queue, Read)

\* IoctlWriteReport: first the report that was written; the host's keyboard
\* is what it says.
SendReport ==
  /\ serving # Nothing /\ serving.stage = "report"
  /\ SendSubReport
  /\ serving' = [serving EXCEPT !.stage = "message", !.sent = report_queue # 0]
  /\ host' = IF report_queue # 0 THEN serving.write.codes ELSE host
  /\ UNCHANGED <<client, history>>

\* Then a message; the write succeeds if that does.
SendMessage ==
  /\ serving # Nothing /\ serving.stage = "message"
  /\ SendSubReport
  /\ serving' = Nothing
  /\ Return(serving.write.session, serving.write.handler, report_queue # 0)
  /\ failed' = (failed \/ report_queue = 0)
  /\ UNCHANGED <<closed, control, keyboard_state, control_report, held, host,
                 crowded, early, replays>>
-----------------------------------------------------------------------------
Next ==
  \/ \E s \in Session :
       \/ OnLogin(s) \/ Initialize(s) \/ OpenControl(s) \/ OpenMessage(s)
       \/ ReplayKeyboard(s) \/ ReplayKeyboardVk(s) \/ KeyboardReset(s)
       \/ Close(s) \/ Destroy(s)
       \/ \E h \in Handler :
            KeyboardUpdate(s, h) \/ WriteFileFail(s, h) \/ WriteFile(s, h)
  \/ DispatchRead \/ DispatchWrite \/ SendReport \/ SendMessage

Spec == Init /\ [][Next]_vars
-----------------------------------------------------------------------------
(* Properties *)

\* A write that succeeds has delivered its report, although what it returns is
\* what became of the message after it: no read goes between the two.
SuccessMeansDelivered ==
  serving # Nothing /\ serving.stage = "message" /\ report_queue # 0 =>
    serving.sent

\* As long as no two writes meet, none fails: the reads a write has used up
\* are back before the next is dispatched.  A failed reset would switch the
\* session's keyboard off for good, and nobody looks at the other failures.
NothingFailsAlone == failed => crowded

\* When everything is done and no report was lost, the host's keyboard holds no
\* key that no client holds: nothing stays pressed after a client that leaves,
\* drops its seventh key, or shares the device with another client.  It is so as
\* long as no key is replayed before the session's Initialize has returned: one
\* that is may be written to a device that Free() then closes for good, or by a
\* way of replay that was never set.
Quiet == \A s \in Session : Idle(s) /\ life[s] \in {"new", "ready", "gone"}
NoStuckKey ==
  Quiet /\ ~failed /\ ~early => host \subseteq UNION {held[s] : s \in Session}
=============================================================================
