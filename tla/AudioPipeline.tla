--------------------------- MODULE AudioPipeline ---------------------------
(***************************************************************************)
(* The audio path of the engine: the encoding thread (audio_encoder.cpp),  *)
(* the capture thread it starts (sound_capturer.cpp) and the FIFO between  *)
(* them (audio_resampler.cpp), against the io thread that runs and stops   *)
(* the encoder for the service.                                            *)
(*                                                                         *)
(* Both the io thread and the encoding thread call SoundCapturer::Stop();  *)
(* pc says where each of them is.  A step is what happens between two      *)
(* accesses to what the threads share.                                     *)
(***************************************************************************)
EXTENDS Integers

CONSTANTS
  MaxRuns, \* bound: calls of AudioEncoder::Run
  MaxFifo  \* bound: frames the FIFO holds before the device falls silent

ASSUME BoundAssumption == MaxRuns \in Nat /\ MaxFifo \in Nat \ {0}

VARIABLES
  pc,         \* where the io thread and the encoding thread are
  stops_left, \* SoundCapturer::Stop() calls the encoding thread has to make
  cap,        \* the capture thread
  cap_stop,   \* SoundCapturer::stop_event_ (manual reset)
  enc_stop,   \* AudioEncoder::stop_event_ (manual reset)
  ready,      \* shared_frame_ready_event_ (auto reset)
  fifo,       \* whole frames in AudioResampler::fifo_, or NoFifo: nullptr
  failed,     \* an FFmpeg call failed since ready was last set
  codec,      \* codec_context_ and format_context_ exist
  runs,       \* calls of Run so far
  ended       \* the process has been terminated

events == <<cap_stop, enc_stop, ready>>
buffer == <<fifo, failed>>
vars == <<pc, stops_left, cap, events, buffer, codec, runs, ended>>
-----------------------------------------------------------------------------
NoFifo == -1
Io == "io"
Enc == "encoder"
Caller == {Io, Enc}

\* "signal" to "release" are the steps of SoundCapturer::Stop().
CapturerStopping == {"signal", "test", "join", "release"}
IoState == {"idle", "stop", "joining", "free"} \cup CapturerStopping
EncState == {"none", "open", "run", "start", "wait", "read", "free", "exited"}
              \cup CapturerStopping
CapState == {"none", "open", "check", "capture", "store", "stored", "wait",
             "exited"}

\* Every variable has its type, and the FIFO's length its bound.
Places ==
  /\ pc \in [Caller -> IoState \cup EncState]
  /\ pc[Io] \in IoState /\ pc[Enc] \in EncState
  /\ stops_left \in 0..2
  /\ cap \in CapState
  /\ fifo \in {NoFifo} \cup 0..MaxFifo
  /\ runs \in 0..MaxRuns
Flags ==
  /\ cap_stop \in BOOLEAN /\ enc_stop \in BOOLEAN /\ ready \in BOOLEAN
  /\ failed \in BOOLEAN /\ codec \in BOOLEAN /\ ended \in BOOLEAN
TypeOK == Places /\ Flags

Init ==
  /\ pc = [p \in Caller |-> IF p = Io THEN "idle" ELSE "none"]
  /\ stops_left = 0
  /\ cap = "none"
  /\ cap_stop = FALSE /\ enc_stop = FALSE /\ ready = FALSE
  /\ fifo = NoFifo
  /\ failed = FALSE
  /\ codec = FALSE
  /\ runs = 0
  /\ ended = FALSE
-----------------------------------------------------------------------------
At(p, label) == ~ended /\ pc[p] = label
Goto(p, label) == pc' = [pc EXCEPT ![p] = label]

\* std::terminate, a failed assertion or a null pointer followed.
Terminate == ended' = TRUE
-----------------------------------------------------------------------------
\* SoundCapturer::Stop(), called by p.

\* Mutant: the capture thread is not told.
CapturerSignalOmitted(p) ==
  /\ At(p, "signal")
  /\ Goto(p, "test")
  /\ UNCHANGED <<stops_left, cap, events, buffer, codec, runs, ended>>

CapturerSignal(p) ==
  /\ At(p, "signal")
  /\ cap_stop' = TRUE
  /\ Goto(p, "test")
  /\ UNCHANGED <<stops_left, cap, enc_stop, ready, buffer, codec, runs, ended>>

CapturerTest(p) ==
  /\ At(p, "test")
  /\ Goto(p, IF cap = "none" THEN "release" ELSE "join")
  /\ UNCHANGED <<stops_left, cap, events, buffer, codec, runs, ended>>

\* thread_.join().  Of two callers one may find the thread already joined,
\* which throws where nothing catches; or both return.
CapturerJoin(p) ==
  /\ At(p, "join")
  /\ \/ /\ cap = "exited"
        /\ cap' = "none"
        /\ \/ Goto(p, "release")
           \/ pc' = [q \in Caller |-> IF pc[q] = "join" THEN "release"
                                      ELSE pc[q]]
        /\ UNCHANGED ended
     \/ /\ cap = "none"
        /\ Terminate
        /\ UNCHANGED <<pc, cap>>
  /\ UNCHANGED <<stops_left, events, buffer, codec, runs>>

\* Mutant: the resampler is not freed.
CapturerReleaseKeeping(p) ==
  /\ At(p, "release")
  /\ \/ p = Io /\ Goto(Io, "stop") /\ UNCHANGED stops_left
     \/ /\ p = Enc
        /\ stops_left' = stops_left - 1
        /\ Goto(Enc, IF stops_left = 1 THEN "free" ELSE "signal")
  /\ UNCHANGED <<cap, events, buffer, codec, runs, ended>>

\* Mutant: the encoding thread stops the capturer once too often.
CapturerReleaseAgain(p) ==
  /\ At(p, "release")
  /\ fifo' = NoFifo
  /\ \/ p = Io /\ Goto(Io, "stop") /\ UNCHANGED stops_left
     \/ /\ p = Enc
        /\ stops_left' = stops_left - 1
        /\ Goto(Enc, IF stops_left = 0 THEN "free" ELSE "signal")
  /\ UNCHANGED <<cap, events, failed, codec, runs, ended>>

\* The event's handle, the mapping and the resampler are freed.
CapturerRelease(p) ==
  /\ At(p, "release")
  /\ fifo' = NoFifo
  /\ \/ p = Io /\ Goto(Io, "stop") /\ UNCHANGED stops_left
     \/ /\ p = Enc
        /\ stops_left' = stops_left - 1
        /\ Goto(Enc, IF stops_left = 1 THEN "free" ELSE "signal")
  /\ UNCHANGED <<cap, events, failed, codec, runs, ended>>
-----------------------------------------------------------------------------
\* The io thread.

Run ==
  /\ At(Io, "idle") /\ pc[Enc] = "none" /\ runs < MaxRuns
  /\ runs' = runs + 1
  /\ enc_stop' = FALSE
  /\ Goto(Enc, "open")
  /\ UNCHANGED <<stops_left, cap, cap_stop, ready, buffer, codec, ended>>

\* AudioEncoder::Stop: Free(true) begins with the capturer.
Stop ==
  /\ At(Io, "idle")
  /\ Goto(Io, "signal")
  /\ UNCHANGED <<stops_left, cap, events, buffer, codec, runs, ended>>

StopSignal ==
  /\ At(Io, "stop")
  /\ enc_stop' = TRUE
  /\ Goto(Io, "joining")
  /\ UNCHANGED <<stops_left, cap, cap_stop, ready, buffer, codec, runs, ended>>

StopJoin ==
  /\ At(Io, "joining") /\ pc[Enc] \in {"none", "exited"}
  /\ pc' = [pc EXCEPT ![Io] = "free", ![Enc] = "none"]
  /\ UNCHANGED <<stops_left, cap, events, buffer, codec, runs, ended>>

StopFree ==
  /\ At(Io, "free")
  /\ codec' = FALSE
  /\ Goto(Io, "idle")
  /\ UNCHANGED <<stops_left, cap, events, buffer, runs, ended>>
-----------------------------------------------------------------------------
\* The encoding thread.

\* The codec is opened and the frames' mapping created, or one of them fails
\* and Free(false) follows.
EncoderOpen ==
  /\ At(Enc, "open")
  /\ codec' = TRUE
  /\ \/ Goto(Enc, "run") /\ UNCHANGED stops_left
     \/ Goto(Enc, "signal") /\ stops_left' = 1
  /\ UNCHANGED <<cap, events, buffer, runs, ended>>

\* SoundCapturer::Run(): the capture thread, when there is none, starts after
\* its stop event has been reset.
CapturerRun ==
  /\ At(Enc, "run")
  /\ IF cap = "none"
     THEN cap_stop' = FALSE /\ Goto(Enc, "start")
     ELSE Goto(Enc, "wait") /\ UNCHANGED cap_stop
  /\ UNCHANGED <<stops_left, cap, enc_stop, ready, buffer, codec, runs, ended>>

CapturerStart ==
  /\ At(Enc, "start")
  /\ cap' = "open"
  /\ Goto(Enc, "wait")
  /\ UNCHANGED <<stops_left, events, buffer, codec, runs, ended>>

\* WaitForMultipleObjects: the stop event is looked at first.
EncoderWait ==
  /\ At(Enc, "wait")
  /\ \/ /\ enc_stop
        /\ Goto(Enc, "signal") /\ stops_left' = 2
        /\ UNCHANGED ready
     \/ /\ ~enc_stop /\ ready
        /\ ready' = FALSE
        /\ Goto(Enc, "read")
        /\ UNCHANGED stops_left
  /\ UNCHANGED <<cap, cap_stop, enc_stop, buffer, codec, runs, ended>>

\* The frame, the packet or the wait fails.
EncoderFail ==
  /\ At(Enc, "wait")
  /\ Goto(Enc, "signal") /\ stops_left' = 2
  /\ UNCHANGED <<cap, events, buffer, codec, runs, ended>>

\* Mutant: one frame is read for each time the encoder is told of one.
ReadFrameOnce ==
  /\ At(Enc, "read")
  /\ \/ fifo = NoFifo /\ Terminate /\ UNCHANGED <<pc, fifo>>
     \/ /\ fifo # NoFifo
        /\ fifo' = (IF fifo > 0 THEN fifo - 1 ELSE 0)
        /\ Goto(Enc, "wait") /\ UNCHANGED ended
  /\ UNCHANGED <<stops_left, cap, events, failed, codec, runs>>

\* ReadFrame is repeated until it has no whole frame.
ReadFrame ==
  /\ At(Enc, "read")
  /\ \/ fifo = NoFifo /\ Terminate /\ UNCHANGED <<pc, fifo>>
     \/ fifo = 0 /\ Goto(Enc, "wait") /\ UNCHANGED <<fifo, ended>>
     \/ fifo > 0 /\ fifo' = fifo - 1 /\ UNCHANGED <<pc, ended>>
  /\ UNCHANGED <<stops_left, cap, events, failed, codec, runs>>

\* av_audio_fifo_read gives less than a frame: the loop ends as well.
ReadFrameFail ==
  /\ At(Enc, "read") /\ fifo > 0
  /\ failed' = TRUE
  /\ Goto(Enc, "wait")
  /\ UNCHANGED <<stops_left, cap, events, fifo, codec, runs, ended>>

\* The rest of Free(false).
EncoderFree ==
  /\ At(Enc, "free")
  /\ enc_stop' = TRUE
  /\ codec' = FALSE
  /\ Goto(Enc, "exited")
  /\ UNCHANGED <<stops_left, cap, cap_stop, ready, buffer, runs, ended>>
-----------------------------------------------------------------------------
\* The capture thread.

Cap(from, to) == ~ended /\ cap = from /\ cap' = to

\* COM and the device are opened, and the resampler, which asserts that it has
\* no FIFO yet; a build without assertions makes another one.
CaptureOpen ==
  /\ Cap("open", "check")
  /\ \/ fifo' = 0 /\ UNCHANGED ended
     \/ fifo # NoFifo /\ Terminate /\ UNCHANGED fifo
  /\ UNCHANGED <<pc, stops_left, events, failed, codec, runs>>

\* An error ends the thread.
CaptureFail ==
  /\ \E from \in {"open", "check", "capture", "wait"} : Cap(from, "exited")
  /\ cap_stop' = TRUE
  /\ UNCHANGED <<pc, stops_left, enc_stop, ready, buffer, codec, runs, ended>>

\* The mapping has the expected format; capturing begins.
CaptureStart ==
  /\ Cap("check", "capture")
  /\ UNCHANGED <<pc, stops_left, events, buffer, codec, runs, ended>>

\* The device has a packet for Store...
CapturePacket ==
  /\ Cap("capture", "store") /\ fifo < MaxFifo
  /\ UNCHANGED <<pc, stops_left, events, buffer, codec, runs, ended>>

\* ... which asserts that there is a FIFO (without assertions it returns 0)
\* and adds the packet's samples.
Store ==
  /\ \/ /\ fifo = NoFifo /\ ~ended /\ cap = "store"
        /\ \/ Terminate /\ UNCHANGED cap
           \/ cap' = "capture" /\ UNCHANGED ended
        /\ UNCHANGED fifo
     \/ /\ fifo # NoFifo
        /\ fifo' \in {fifo, fifo + 1}
        /\ Cap("store", IF fifo' > 0 THEN "stored" ELSE "capture")
        /\ UNCHANGED ended
  /\ UNCHANGED <<pc, stops_left, events, failed, codec, runs>>

\* Some errors are met after the samples have been written, and then nobody
\* is told of them.
StoreFail ==
  /\ Cap("store", "capture") /\ fifo # NoFifo
  /\ fifo' \in {fifo, fifo + 1}
  /\ failed' = TRUE
  /\ UNCHANGED <<pc, stops_left, events, codec, runs, ended>>

\* A whole frame is there: the encoder is told.
CaptureSignal ==
  /\ Cap("stored", "capture")
  /\ ready' = TRUE
  /\ failed' = FALSE
  /\ UNCHANGED <<pc, stops_left, cap_stop, enc_stop, fifo, codec, runs, ended>>

\* No packet is left: the stop event is waited for until the next period.
CaptureWait ==
  /\ Cap("capture", "wait")
  /\ UNCHANGED <<pc, stops_left, events, buffer, codec, runs, ended>>

CapturePeriod ==
  /\ Cap("wait", "capture") /\ ~cap_stop
  /\ UNCHANGED <<pc, stops_left, events, buffer, codec, runs, ended>>

CaptureStop ==
  /\ Cap("wait", "exited") /\ cap_stop
  /\ UNCHANGED <<pc, stops_left, events, buffer, codec, runs, ended>>
-----------------------------------------------------------------------------
Capturer(p) ==
  CapturerSignal(p) \/ CapturerTest(p) \/ CapturerJoin(p) \/ CapturerRelease(p)

IoStep == Capturer(Io) \/ StopSignal \/ StopJoin \/ StopFree

EncStep ==
  \/ Capturer(Enc) \/ EncoderOpen \/ CapturerRun \/ CapturerStart \/ EncoderWait
  \/ ReadFrame \/ EncoderFree

CapStep ==
  CaptureOpen \/ CaptureStart \/ Store \/ CaptureSignal \/ CapturePeriod \/ CaptureStop

Failure == EncoderFail \/ ReadFrameFail \/ CaptureFail \/ StoreFail

\* The process has ended.
Ended == ended /\ UNCHANGED vars

Next ==
  \/ Run \/ Stop \/ IoStep \/ EncStep \/ CapStep
  \/ CapturePacket \/ CaptureWait \/ Failure \/ Ended

Spec == Init /\ [][Next]_vars

\* Threads that can go on do.  The device delivers in real time, so the
\* capture thread gets to its wait between packets, and then sees its stop
\* event; the FIFO is drained faster than it fills.
Fairness ==
  /\ WF_vars(IoStep)
  /\ SF_vars(EncStep)
  /\ WF_vars(CapStep)
  /\ SF_vars(CaptureWait)
FairSpec == Spec /\ Fairness
-----------------------------------------------------------------------------
(* Properties *)

\* A run begins with nothing left of the one before, however that ended: no
\* capture thread, no codec (AudioEncoder::AddStream asserts there is none) and,
\* until the resampler makes one (AudioResampler::Initialize), no FIFO.
RunsBeginClean ==
  /\ ~ended /\ pc[Enc] \in {"none", "open"} =>
       cap = "none" /\ fifo = NoFifo /\ ~codec
  /\ ~ended /\ cap = "open" => fifo = NoFifo

\* There is never a frame in the FIFO that nobody will tell the waiting
\* encoder of, although ready is an auto-reset event and says nothing of how
\* many frames there are; unless FFmpeg has failed.
FramesAreAnnounced ==
  At(Enc, "wait") /\ fifo > 0 =>
    ready \/ enc_stop \/ cap = "stored" \/ failed

\* A Stop() that finds the encoder capturing returns, although frames keep
\* coming, unless the process ends.  (One that comes while the capturer is
\* being started need not: CapturerRun resets the event it has just set.)
StopReturns ==
  (pc[Io] = "signal" /\ pc[Enc] \in {"wait", "read"}) ~> (pc[Io] = "idle" \/ ended)

\* assert(nullptr != fifo_) of AudioResampler::ReadFrame and of Store: frames
\* are read from, and samples stored in, a FIFO that exists.
FifoIsThere ==
  /\ At(Enc, "read") => fifo # NoFifo
  /\ ~ended /\ cap = "store" => fifo # NoFifo
=============================================================================
