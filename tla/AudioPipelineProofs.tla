------------------------ MODULE AudioPipelineProofs ------------------------
(* Proofs about AudioPipeline, for every number of runs and every FIFO.    *)
EXTENDS AudioPipeline, TLAPS

\* What TypeOK depends on: SoundCapturer::Stop() is called while there is a call
\* left to make, and a packet is only stored where there is room.
Bounded ==
  /\ pc[Enc] \in CapturerStopping => stops_left > 0
  /\ cap = "store" => fifo < MaxFifo

\* What RunsBeginClean depends on: outside of its wait and of Stop() the
\* encoding thread has no capture thread and no FIFO, and it frees the FIFO
\* after it has joined the thread.
Owned ==
  ~ended =>
    /\ pc[Enc] \in {"none", "open", "run", "start", "free", "exited"} =>
         cap = "none" /\ fifo = NoFifo
    /\ pc[Enc] = "release" => cap = "none"
    /\ pc[Enc] \in {"none", "open", "exited"} => ~codec
    /\ cap = "open" => fifo = NoFifo
-----------------------------------------------------------------------------
(* Type correctness. *)

LEMMA BoundedInit == Init => Places /\ Bounded
BY BoundAssumption
   DEF Init, Places, Bounded, NoFifo, Io, Enc, Caller, IoState, EncState,
       CapState, CapturerStopping

\* SoundCapturer::Stop(), whoever calls it.
LEMMA BoundedCapturer ==
  ASSUME Places, Bounded, NEW p \in Caller, Capturer(p)
  PROVE  Places' /\ Bounded'
<1> USE BoundAssumption
    DEF Places, Bounded, events, buffer, NoFifo, Io, Enc, Caller, IoState,
        EncState, CapState, CapturerStopping, At, Goto
<1>1. CASE CapturerSignal(p)
  BY <1>1 DEF CapturerSignal
<1>2. CASE CapturerTest(p)
  BY <1>2 DEF CapturerTest
<1>3. CASE CapturerJoin(p)
  BY <1>3 DEF CapturerJoin, Terminate
<1>4. CASE CapturerRelease(p)
  BY <1>4 DEF CapturerRelease
<1>5. QED
  BY <1>1, <1>2, <1>3, <1>4 DEF Capturer

\* The io thread.
LEMMA BoundedIo ==
  ASSUME Places, Bounded, Run \/ Stop \/ StopSignal \/ StopJoin \/ StopFree
  PROVE  Places' /\ Bounded'
<1> USE BoundAssumption
    DEF Places, Bounded, events, buffer, NoFifo, Io, Enc, Caller, IoState,
        EncState, CapState, CapturerStopping, At, Goto
<1>1. CASE Run
  BY <1>1 DEF Run
<1>2. CASE Stop
  BY <1>2 DEF Stop
<1>3. CASE StopSignal
  BY <1>3 DEF StopSignal
<1>4. CASE StopJoin
  BY <1>4 DEF StopJoin
<1>5. CASE StopFree
  BY <1>5 DEF StopFree
<1>6. QED
  BY <1>1, <1>2, <1>3, <1>4, <1>5

\* The encoding thread, outside of SoundCapturer::Stop().
EncOwnStep ==
  \/ EncoderOpen \/ CapturerRun \/ CapturerStart \/ EncoderWait
  \/ EncoderFail \/ ReadFrame \/ ReadFrameFail \/ EncoderFree

LEMMA BoundedEnc ==
  ASSUME Places, Bounded, EncOwnStep
  PROVE  Places' /\ Bounded'
<1> USE BoundAssumption
    DEF Places, Bounded, events, buffer, NoFifo, Io, Enc, Caller, IoState,
        EncState, CapState, CapturerStopping, At, Goto
<1>1. CASE EncoderOpen
  BY <1>1 DEF EncoderOpen
<1>2. CASE CapturerRun
  BY <1>2 DEF CapturerRun
<1>3. CASE CapturerStart
  BY <1>3 DEF CapturerStart
<1>4. CASE EncoderWait
  BY <1>4 DEF EncoderWait
<1>5. CASE EncoderFail
  BY <1>5 DEF EncoderFail
<1>6. CASE ReadFrame
  BY <1>6 DEF ReadFrame, Terminate
<1>7. CASE ReadFrameFail
  BY <1>7 DEF ReadFrameFail
<1>8. CASE EncoderFree
  BY <1>8 DEF EncoderFree
<1>9. QED
  BY <1>1, <1>2, <1>3, <1>4, <1>5, <1>6, <1>7, <1>8 DEF EncOwnStep

\* The capture thread, which leaves the callers' places alone.
CaptureStep == CapStep \/ CapturePacket \/ CaptureWait \/ CaptureFail \/ StoreFail

LEMMA BoundedCapture ==
  ASSUME Places, Bounded, CaptureStep
  PROVE  Places' /\ Bounded'
<1> USE BoundAssumption
    DEF Places, Bounded, events, buffer, NoFifo, Io, Enc, Caller, CapState, Cap
<1>1. CASE CaptureOpen
  BY <1>1 DEF CaptureOpen, Terminate
<1>2. CASE CaptureFail
  BY <1>2 DEF CaptureFail
<1>3. CASE CaptureStart
  BY <1>3 DEF CaptureStart
<1>4. CASE CapturePacket
  BY <1>4 DEF CapturePacket
<1>5. CASE Store
  BY <1>5 DEF Store, Terminate
<1>6. CASE StoreFail
  BY <1>6 DEF StoreFail
<1>7. CASE CaptureSignal
  BY <1>7 DEF CaptureSignal
<1>8. CASE CaptureWait \/ CapturePeriod \/ CaptureStop
  BY <1>8 DEF CaptureWait, CapturePeriod, CaptureStop
<1>9. QED
  BY <1>1, <1>2, <1>3, <1>4, <1>5, <1>6, <1>7, <1>8 DEF CaptureStep, CapStep

\* The steps of Next by the thread that takes them.
LEMMA StepsByThread ==
  Next =>
    \/ \E p \in Caller : Capturer(p)
    \/ Run \/ Stop \/ StopSignal \/ StopJoin \/ StopFree
    \/ EncOwnStep
    \/ CaptureStep
    \/ Ended
BY DEF Next, IoStep, EncStep, Failure, EncOwnStep, CaptureStep, Caller

LEMMA BoundedNext == Places /\ Bounded /\ [Next]_vars => Places' /\ Bounded'
<1>1. ASSUME Places, Bounded, UNCHANGED vars
      PROVE  Places' /\ Bounded'
  BY <1>1 DEF Places, Bounded, vars, events, buffer
<1>2. QED
  BY <1>1, StepsByThread, BoundedCapturer, BoundedIo, BoundedEnc, BoundedCapture
     DEF Ended

\* The events and the other flags.
LEMMA FlagsInit == Init => Flags
BY Zenon DEF Init, Flags

LEMMA FlagsNext == Flags /\ [Next]_vars => Flags'
<1> USE DEF Flags, events, buffer, At, Goto, Cap, Terminate
<1>1. ASSUME Flags, NEW p \in Caller, Capturer(p)
      PROVE  Flags'
  BY <1>1, Zenon
     DEF Capturer, CapturerSignal, CapturerTest, CapturerJoin, CapturerRelease
<1>2. ASSUME Flags, Run \/ Stop \/ StopSignal \/ StopJoin \/ StopFree
      PROVE  Flags'
  BY <1>2, Zenon DEF Run, Stop, StopSignal, StopJoin, StopFree
<1>3. ASSUME Flags, EncOwnStep
      PROVE  Flags'
  BY <1>3, Zenon
     DEF EncOwnStep, EncoderOpen, CapturerRun, CapturerStart, EncoderWait,
         EncoderFail, ReadFrame, ReadFrameFail, EncoderFree
<1>4. ASSUME Flags, CaptureStep
      PROVE  Flags'
  BY <1>4, Zenon
     DEF CaptureStep, CapStep, CaptureOpen, CaptureFail, CaptureStart,
         CapturePacket, Store, StoreFail, CaptureSignal, CaptureWait,
         CapturePeriod, CaptureStop
<1>5. ASSUME Flags, UNCHANGED vars
      PROVE  Flags'
  BY <1>5, Zenon DEF vars
<1>6. QED
  BY <1>1, <1>2, <1>3, <1>4, <1>5, StepsByThread DEF Ended

\* Every variable of the audio pipeline keeps its type: the encoder never makes
\* more calls of SoundCapturer::Stop() than it has left, and the FIFO keeps
\* within its bound.
THEOREM TypeCorrect == Spec => []TypeOK
<1>1. Spec => [](Places /\ Bounded)
  BY BoundedInit, BoundedNext, PTL DEF Spec
<1>2. Spec => []Flags
  BY FlagsInit, FlagsNext, PTL DEF Spec
<1>3. QED
  BY <1>1, <1>2, PTL DEF TypeOK
-----------------------------------------------------------------------------
(* What a run leaves to the next one. *)

LEMMA OwnedInit == Init => Owned
BY DEF Init, Owned, Io, Enc, Caller

LEMMA OwnedCapturer ==
  ASSUME Places, Owned, NEW p \in Caller, Capturer(p)
  PROVE  Owned'
<1> USE DEF Places, Owned, events, buffer, Io, Enc, Caller, At, Goto
<1>1. CASE CapturerSignal(p)
  BY <1>1 DEF CapturerSignal
<1>2. CASE CapturerTest(p)
  BY <1>2 DEF CapturerTest
<1>3. CASE CapturerJoin(p)
  BY <1>3 DEF CapturerJoin, Terminate
<1>4. CASE CapturerRelease(p)
  BY <1>4 DEF CapturerRelease
<1>5. QED
  BY <1>1, <1>2, <1>3, <1>4 DEF Capturer

LEMMA OwnedIo ==
  ASSUME Places, Owned, Run \/ Stop \/ StopSignal \/ StopJoin \/ StopFree
  PROVE  Owned'
<1> USE DEF Places, Owned, events, buffer, Io, Enc, Caller, At, Goto
<1>1. CASE Run
  BY <1>1 DEF Run
<1>2. CASE Stop
  BY <1>2 DEF Stop
<1>3. CASE StopSignal
  BY <1>3 DEF StopSignal
<1>4. CASE StopJoin
  BY <1>4 DEF StopJoin
<1>5. CASE StopFree
  BY <1>5 DEF StopFree
<1>6. QED
  BY <1>1, <1>2, <1>3, <1>4, <1>5

LEMMA OwnedEnc ==
  ASSUME Places, Owned, EncOwnStep
  PROVE  Owned'
<1> USE DEF Places, Owned, events, buffer, Io, Enc, Caller, At, Goto
<1>1. CASE EncoderOpen
  BY <1>1 DEF EncoderOpen
<1>2. CASE CapturerRun
  BY <1>2 DEF CapturerRun
<1>3. CASE CapturerStart
  BY <1>3 DEF CapturerStart
<1>4. CASE EncoderWait
  BY <1>4 DEF EncoderWait
<1>5. CASE EncoderFail
  BY <1>5 DEF EncoderFail
<1>6. CASE ReadFrame
  <2>1. /\ pc[Enc] = "read" /\ pc'[Enc] \in {"read", "wait"}
        /\ cap' = cap /\ codec' = codec
    BY <1>6 DEF ReadFrame
  <2>2. cap = "open" => fifo' = fifo \/ ended'
    BY <1>6 DEF ReadFrame, NoFifo, Terminate
  <2>3. ended' \/ ~ended
    BY <1>6 DEF ReadFrame
  <2>4. QED
    BY <2>1, <2>2, <2>3
<1>7. CASE ReadFrameFail
  BY <1>7 DEF ReadFrameFail
<1>8. CASE EncoderFree
  BY <1>8 DEF EncoderFree
<1>9. QED
  BY <1>1, <1>2, <1>3, <1>4, <1>5, <1>6, <1>7, <1>8 DEF EncOwnStep

\* While the capture thread takes a step there is one.
LEMMA OwnedCapture ==
  ASSUME Places, Owned, CaptureStep
  PROVE  Owned'
<1> USE DEF Places, Owned, events, buffer, Io, Enc, Caller, Cap
<1>1. CASE CaptureOpen
  BY <1>1 DEF CaptureOpen, Terminate
<1>2. CASE CaptureFail
  BY <1>2 DEF CaptureFail
<1>3. CASE CaptureStart
  BY <1>3 DEF CaptureStart
<1>4. CASE CapturePacket
  BY <1>4 DEF CapturePacket
<1>5. CASE Store
  BY <1>5 DEF Store, Terminate
<1>6. CASE StoreFail
  BY <1>6 DEF StoreFail
<1>7. CASE CaptureSignal
  BY <1>7 DEF CaptureSignal
<1>8. CASE CaptureWait \/ CapturePeriod \/ CaptureStop
  BY <1>8 DEF CaptureWait, CapturePeriod, CaptureStop
<1>9. QED
  BY <1>1, <1>2, <1>3, <1>4, <1>5, <1>6, <1>7, <1>8 DEF CaptureStep, CapStep

LEMMA OwnedNext == Places /\ Owned /\ [Next]_vars => Owned'
<1>1. ASSUME Owned, UNCHANGED vars
      PROVE  Owned'
  BY <1>1 DEF Owned, vars, events, buffer
<1>2. QED
  BY <1>1, StepsByThread, OwnedCapturer, OwnedIo, OwnedEnc, OwnedCapture
     DEF Ended

\* However a run ended, and whoever of the two stoppers joined the capture
\* thread and freed the FIFO, the next run begins without a capture thread, a
\* codec or a FIFO.
THEOREM RunsBeginCleanHolds == Spec => []RunsBeginClean
<1>1. Spec => [](Places /\ Owned)
  <2>1. Spec => [](Places /\ Bounded)
    BY BoundedInit, BoundedNext, PTL DEF Spec
  <2>2. QED
    BY <2>1, OwnedInit, OwnedNext, PTL DEF Spec
<1>2. Owned => RunsBeginClean
  BY DEF Owned, RunsBeginClean
<1>3. QED
  BY <1>1, <1>2, PTL
-----------------------------------------------------------------------------
(* No frame waits unannounced. *)

LEMMA AnnouncedInit == Init => FramesAreAnnounced
BY DEF Init, FramesAreAnnounced, At, Io, Enc, Caller

LEMMA AnnouncedCapturer ==
  ASSUME Places, FramesAreAnnounced, NEW p \in Caller, Capturer(p)
  PROVE  FramesAreAnnounced'
<1> USE DEF Places, FramesAreAnnounced, events, buffer, NoFifo, Io, Enc, Caller,
            At, Goto
<1>1. CASE CapturerSignal(p)
  BY <1>1 DEF CapturerSignal
<1>2. CASE CapturerTest(p)
  BY <1>2 DEF CapturerTest
<1>3. CASE CapturerJoin(p)
  BY <1>3 DEF CapturerJoin, Terminate
<1>4. CASE CapturerRelease(p)
  BY <1>4 DEF CapturerRelease
<1>5. QED
  BY <1>1, <1>2, <1>3, <1>4 DEF Capturer

LEMMA AnnouncedIo ==
  ASSUME Places, FramesAreAnnounced, Run \/ Stop \/ StopSignal \/ StopJoin \/ StopFree
  PROVE  FramesAreAnnounced'
<1> USE DEF Places, FramesAreAnnounced, events, buffer, Io, Enc, Caller, At, Goto
<1>1. CASE Run
  BY <1>1 DEF Run
<1>2. CASE Stop
  BY <1>2 DEF Stop
<1>3. CASE StopSignal
  BY <1>3 DEF StopSignal
<1>4. CASE StopJoin
  BY <1>4 DEF StopJoin
<1>5. CASE StopFree
  BY <1>5 DEF StopFree
<1>6. QED
  BY <1>1, <1>2, <1>3, <1>4, <1>5

\* The encoder comes to its wait with an empty FIFO, with none, or on a failure.
LEMMA AnnouncedEnc ==
  ASSUME Places, Owned, FramesAreAnnounced, EncOwnStep
  PROVE  FramesAreAnnounced'
<1> USE DEF Places, FramesAreAnnounced, events, buffer, NoFifo, Io, Enc, Caller,
            At, Goto
<1>1. CASE EncoderOpen
  BY <1>1 DEF EncoderOpen
<1>2. CASE CapturerRun
  BY <1>2 DEF CapturerRun, Owned
<1>3. CASE CapturerStart
  BY <1>3 DEF CapturerStart, Owned
<1>4. CASE EncoderWait
  BY <1>4 DEF EncoderWait
<1>5. CASE EncoderFail
  BY <1>5 DEF EncoderFail
<1>6. CASE ReadFrame
  BY <1>6 DEF ReadFrame, Terminate
<1>7. CASE ReadFrameFail
  BY <1>7 DEF ReadFrameFail
<1>8. CASE EncoderFree
  BY <1>8 DEF EncoderFree
<1>9. QED
  BY <1>1, <1>2, <1>3, <1>4, <1>5, <1>6, <1>7, <1>8 DEF EncOwnStep

LEMMA AnnouncedCapture ==
  ASSUME Places, FramesAreAnnounced, CaptureStep
  PROVE  FramesAreAnnounced'
<1> USE DEF Places, FramesAreAnnounced, events, buffer, NoFifo, Io, Enc, Caller,
            At, Cap
<1>1. CASE CaptureOpen
  BY <1>1 DEF CaptureOpen, Terminate
<1>2. CASE CaptureFail
  BY <1>2 DEF CaptureFail
<1>3. CASE CaptureStart
  BY <1>3 DEF CaptureStart
<1>4. CASE CapturePacket
  BY <1>4 DEF CapturePacket
<1>5. CASE Store
  BY <1>5 DEF Store, Terminate
<1>6. CASE StoreFail
  BY <1>6 DEF StoreFail
<1>7. CASE CaptureSignal
  BY <1>7 DEF CaptureSignal
<1>8. CASE CaptureWait \/ CapturePeriod \/ CaptureStop
  BY <1>8 DEF CaptureWait, CapturePeriod, CaptureStop
<1>9. QED
  BY <1>1, <1>2, <1>3, <1>4, <1>5, <1>6, <1>7, <1>8 DEF CaptureStep, CapStep

LEMMA AnnouncedNext ==
  Places /\ Owned /\ FramesAreAnnounced /\ [Next]_vars => FramesAreAnnounced'
<1>1. ASSUME FramesAreAnnounced, UNCHANGED vars
      PROVE  FramesAreAnnounced'
  BY <1>1 DEF FramesAreAnnounced, At, vars, events, buffer
<1>2. QED
  BY <1>1, StepsByThread, AnnouncedCapturer, AnnouncedIo, AnnouncedEnc,
     AnnouncedCapture DEF Ended

\* The auto-reset event never loses a frame, however long the FIFO is: while the
\* encoder waits with a whole frame in the FIFO it has been told of it, is about
\* to be, is to stop, or FFmpeg has failed.
THEOREM FramesAreAnnouncedHolds == Spec => []FramesAreAnnounced
<1>1. Spec => [](Places /\ Owned)
  <2>1. Spec => [](Places /\ Bounded)
    BY BoundedInit, BoundedNext, PTL DEF Spec
  <2>2. QED
    BY <2>1, OwnedInit, OwnedNext, PTL DEF Spec
<1>2. QED
  BY <1>1, AnnouncedInit, AnnouncedNext, PTL DEF Spec
=============================================================================
