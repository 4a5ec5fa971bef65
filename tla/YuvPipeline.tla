---------------------------- MODULE YuvPipeline ----------------------------
(***************************************************************************)
(* How pictures get as YUV data from an SDL program (video_source.cpp,     *)
(* sdl_hack.cpp) to the video encoder (video_encoder.cpp), and how the     *)
(* program learns whether anybody wants them.                              *)
(*                                                                         *)
(* Two slots lie one after the other in one named section of memory whose  *)
(* size follows the picture's.  A name stands for one section as long as   *)
(* anybody maps it: the program cannot have a larger one before the        *)
(* encoder has let go of the old one, and in a section that is kept the    *)
(* second slot moves with the size.                                        *)
(*                                                                         *)
(* A size stands for the picture and for the data of a slot, headers left  *)
(* out; a section, and a mapping of it, is measured by the slots it holds. *)
(***************************************************************************)
EXTENDS Naturals

CONSTANT Size  \* what the program's back buffer may measure

ASSUME SizeAssumption == Size \subseteq Nat \ {0}

VARIABLES
  \* Shared by the two processes.
  info,       \* SharedVideoFrameInfo: is the type set, and the size
  ready,      \* kSharedVideoFrameReadyEventName (auto reset)
  started,    \* kVideoStartedEventName (manual reset)
  stopped,    \* kVideoStoppedEventName (manual reset), the encoder's stop event
  section,    \* the named section: the size its slots are for, 0 for none
  data_size,  \* SharedVideoYuvFrames::data_size
  first,      \* the size of the picture in slot 0, 0 for none
  newer,      \* per place of slot 1: is the picture there newer than slot 0's
  \* The program.
  src,        \* where its rendering thread is in CopyTextureToSharedYuv
  size,       \* of the swap chain's buffers
  swap_new,   \* swap_ is not the swap chain
  width,      \* SdlHack::width_, height_
  turn,       \* frame_count_ % kNumberOfSharedFrames
  src_map,    \* shared_yuv_frames_: the size its mapping is for, 0 for none
  is_started, \* SdlHack::is_started_
  waiting,    \* where WaitingThread is
  src_stop,   \* SdlHack::stop_event_
  \* The engine.
  enc,        \* the encoding thread
  saved,      \* saved_frame_info_
  enc_map,    \* VideoEncoder::shared_yuv_frames_ is mapped, for size saved
  io,         \* the engine's io thread
  posted,     \* a RestartVideoEncoder handler waits for it
  \* History.
  returned    \* the size went back to saved before data_size did

shared == <<info, ready, started, stopped>>
memory == <<section, data_size, first, newer>>
source == <<src, size, swap_new, width, turn, src_map>>
switch == <<is_started, waiting, src_stop>>
reader == <<enc, saved, enc_map>>
control == <<io, posted>>
vars == <<shared, memory, source, switch, reader, control, returned>>
-----------------------------------------------------------------------------
SizeOrNone == Size \cup {0}

\* "junk": pixels of another picture lie where slot 1 has its timestamp.
Age == {"no", "yes", "junk"}

TypeOK ==
  /\ info \in [typed : BOOLEAN, size : SizeOrNone]
  /\ ready \in BOOLEAN /\ started \in BOOLEAN /\ stopped \in BOOLEAN
  /\ section \in SizeOrNone /\ data_size \in SizeOrNone
  /\ first \in SizeOrNone /\ newer \in [Size -> Age]
  /\ src \in {"idle", "type", "size", "resized", "surface", "create", "data",
              "pixels", "stamp"}
  /\ size \in Size /\ swap_new \in BOOLEAN
  /\ width \in SizeOrNone /\ turn \in {0, 1} /\ src_map \in SizeOrNone
  /\ is_started \in BOOLEAN /\ src_stop \in BOOLEAN
  /\ waiting \in {"start", "stop", "ended"}
  /\ enc \in {"none", "start", "first", "info", "open", "check", "encode",
              "wait", "look", "leave", "unmap", "exited", "fault"}
  /\ saved \in SizeOrNone /\ enc_map \in BOOLEAN
  /\ io \in {"rest", "stop", "restart", "run"}
  /\ posted \in BOOLEAN /\ returned \in BOOLEAN

Init ==
  /\ info = [typed |-> FALSE, size |-> 0]
  /\ ready = FALSE /\ started = FALSE /\ stopped = FALSE
  /\ section = 0 /\ data_size = 0 /\ first = 0 /\ newer = [p \in Size |-> "no"]
  /\ src = "idle" /\ size \in Size /\ swap_new = TRUE
  /\ width = 0 /\ turn = 0 /\ src_map = 0
  /\ is_started = FALSE /\ waiting = "start" /\ src_stop = FALSE
  /\ enc = "none" /\ saved = 0 /\ enc_map = FALSE
  /\ io = "rest" /\ posted = FALSE
  /\ returned = FALSE
-----------------------------------------------------------------------------
(* The program: its rendering thread. *)

\* The buffers get another size, of the same swap chain or of a new one.
Resize ==
  /\ src = "idle"
  /\ \E n \in Size : n # size /\ size' = n
  /\ swap_new' \in {swap_new, TRUE}
  /\ UNCHANGED <<shared, memory, src, width, turn, src_map, switch, reader,
                 control, returned>>

\* Refresh: the frame is copied if the encoder is started.  A new swap chain
\* is described anew, and without an event; of the old one only the size is.
Refresh ==
  /\ src = "idle" /\ is_started
  /\ swap_new' = FALSE
  /\ IF swap_new THEN src' = "type" /\ width' = size
     ELSE /\ src' = IF size # width THEN "resized" ELSE "surface"
          /\ width' = size
  /\ UNCHANGED <<shared, memory, size, turn, src_map, switch, reader, control,
                 returned>>

\* The back buffer cannot be had or copied; the swap chain is noted already.
CaptureFail ==
  /\ src = "idle" /\ is_started
  /\ swap_new' = FALSE
  /\ UNCHANGED <<shared, memory, src, size, width, turn, src_map, switch,
                 reader, control, returned>>

WriteType ==
  /\ src = "type" /\ src' = "size"
  /\ info' = [info EXCEPT !.typed = TRUE]
  /\ UNCHANGED <<ready, started, stopped, memory, size, swap_new, width, turn,
                 src_map, switch, reader, control, returned>>

\* History: an encoder that would look now finds the size it has saved,
\* while the slots still lie as they did for another.
Describe ==
  /\ info' = [info EXCEPT !.size = width]
  /\ returned' = (returned \/ (enc_map /\ width = saved /\ data_size # width))

WriteSize ==
  /\ src = "size" /\ src' = "surface"
  /\ Describe
  /\ UNCHANGED <<ready, started, stopped, memory, size, swap_new, width, turn,
                 src_map, switch, reader, control>>

\* svfi->width and height of a resized picture; the event is set at once (it
\* wakes nobody who could come between that and the writing of the size).
WriteResized ==
  /\ src = "resized" /\ src' = "surface"
  /\ Describe
  /\ ready' = TRUE
  /\ UNCHANGED <<started, stopped, memory, size, swap_new, width, turn,
                 src_map, switch, reader, control>>

\* A mapping nobody uses any more takes the section with it.
Released(a, b) == section' = IF a = 0 /\ ~b THEN 0 ELSE section

\* surface->Map, then the test of the mapping's size.
MapSurface ==
  /\ src = "surface"
  /\ IF src_map # 0 /\ width <= src_map
     THEN src' = "data" /\ UNCHANGED <<src_map, section>>
     ELSE src' = "create" /\ src_map' = 0 /\ Released(0, enc_map)
  /\ UNCHANGED <<shared, data_size, first, newer, size, swap_new, width, turn,
                 switch, reader, control, returned>>

\* It cannot be mapped; if the device is lost, SdlHack stops waiting.
MapSurfaceFail ==
  /\ src = "surface" /\ src' = "idle"
  /\ src_stop' \in {src_stop, TRUE}
  /\ UNCHANGED <<shared, memory, size, swap_new, width, turn, src_map,
                 is_started, waiting, reader, control, returned>>

\* MapSharedMem creates the section, or finds one of that name.
MapSharedMem ==
  /\ src = "create"
  /\ section = 0 \/ width <= section
  /\ src' = "data" /\ src_map' = width
  /\ IF section # 0 THEN UNCHANGED memory
     ELSE /\ section' = width /\ data_size' = 0 /\ first' = 0
          /\ newer' = [p \in Size |-> "no"]
  /\ UNCHANGED <<shared, size, swap_new, width, turn, switch, reader, control,
                 returned>>

\* Mutant of AlreadyExisted: the encoder is not woken.
AlreadyExistedQuietly ==
  /\ src = "create" /\ section # 0 /\ section < width
  /\ src' = "idle"
  /\ UNCHANGED <<shared, memory, size, swap_new, width, turn, src_map, switch,
                 reader, control, returned>>

\* The one it finds is too small: the encoder is woken to let it go.
AlreadyExisted ==
  /\ src = "create" /\ section # 0 /\ section < width
  /\ src' = "idle" /\ ready' = TRUE
  /\ UNCHANGED <<info, started, stopped, memory, size, swap_new, width, turn,
                 src_map, switch, reader, control, returned>>

MapSharedMemFail ==
  /\ src = "create" /\ section = 0
  /\ src' = "idle" /\ src_stop' = TRUE
  /\ UNCHANGED <<shared, memory, size, swap_new, width, turn, src_map,
                 is_started, waiting, reader, control, returned>>

WriteDataSize ==
  /\ src = "data" /\ src' = "pixels"
  /\ data_size' = width
  /\ UNCHANGED <<shared, section, first, newer, size, swap_new, width, turn,
                 src_map, switch, reader, control, returned>>

\* Where the slot of this turn begins, and what its pixels cover.
Begin == turn * width
Covers(p) == Begin < p /\ p < Begin + width

Convert ==
  /\ src = "pixels" /\ src' = "stamp"
  /\ newer' = [p \in Size |-> IF Covers(p) THEN "junk" ELSE newer[p]]
  /\ first' = IF turn = 0 THEN width ELSE first
  /\ UNCHANGED <<shared, section, data_size, size, swap_new, width, turn,
                 src_map, switch, reader, control, returned>>

\* Mutant of Stamp: the frames are counted without returning to the first slot.
StampOnward ==
  /\ src = "stamp" /\ src' = "idle"
  /\ newer' = [newer EXCEPT ![width] = "yes"]
  /\ turn' = turn + 1
  /\ ready' = TRUE
  /\ UNCHANGED <<info, started, stopped, section, data_size, first, size,
                 swap_new, width, src_map, switch, reader, control, returned>>

\* The timestamp, ++frame_count_ and the event.
Stamp ==
  /\ src = "stamp" /\ src' = "idle"
  /\ newer' = IF turn = 1 THEN [newer EXCEPT ![width] = "yes"]
              ELSE [p \in Size |-> IF newer[p] = "junk" THEN "junk" ELSE "no"]
  /\ turn' = 1 - turn
  /\ ready' = TRUE
  /\ UNCHANGED <<info, started, stopped, section, data_size, first, size,
                 swap_new, width, src_map, switch, reader, control, returned>>

\* The program ends, at any point, and is started again.
SourceRestart ==
  /\ src' = "idle" /\ swap_new' = TRUE /\ width' = 0 /\ turn' = 0
  /\ src_map' = 0 /\ Released(0, enc_map)
  /\ is_started' = FALSE /\ waiting' = "start" /\ src_stop' = FALSE
  /\ UNCHANGED <<shared, data_size, first, newer, size, reader, control,
                 returned>>
-----------------------------------------------------------------------------
(* The program: WaitingThread. *)

\* Once SdlHack is stopped it ends, and is_started_ stays what it was.
WaitingEnds ==
  /\ waiting # "ended" /\ src_stop
  /\ waiting' = "ended"
  /\ UNCHANGED <<shared, memory, source, is_started, src_stop, reader, control,
                 returned>>

EncoderStarted ==
  /\ waiting = "start" /\ ~src_stop /\ started
  /\ is_started' = TRUE /\ waiting' = "stop"
  /\ UNCHANGED <<shared, memory, source, src_stop, reader, control, returned>>

EncoderStopped ==
  /\ waiting = "stop" /\ ~src_stop /\ stopped
  /\ is_started' = FALSE /\ waiting' = "start"
  /\ UNCHANGED <<shared, memory, source, src_stop, reader, control, returned>>
-----------------------------------------------------------------------------
(* The engine: the encoding thread. *)

SetStarted ==
  /\ enc = "start" /\ enc' = "first"
  /\ started' = TRUE
  /\ UNCHANGED <<info, ready, stopped, memory, source, switch, saved, enc_map,
                 control, returned>>

\* WaitForMultipleObjects: of two set events the first, stop_event_, wins.
WaitFrame ==
  /\ enc \in {"first", "wait"}
  /\ IF stopped THEN enc' = "leave" /\ UNCHANGED ready
     ELSE /\ ready /\ ready' = FALSE
          /\ enc' = IF enc = "first" THEN "info" ELSE "look"
  /\ UNCHANGED <<info, started, stopped, memory, source, switch, saved,
                 enc_map, control, returned>>

ReadInfo ==
  /\ enc = "info"
  /\ saved' = info.size
  /\ enc' = IF info.typed THEN "open" ELSE "leave"
  /\ UNCHANGED <<shared, memory, source, switch, enc_map, control, returned>>

\* NotifyRestartVideoEncoder: the thread ends and leaves the rest, what it has
\* mapped too, to the io thread.
ExitForRestart == enc' = "exited" /\ posted' = TRUE

\* There is no section of that name, or one smaller than the size asks for.
OpenMapping ==
  /\ enc = "open"
  /\ IF section = 0 \/ section < saved
     THEN ExitForRestart /\ UNCHANGED enc_map
     ELSE enc' = "check" /\ enc_map' = TRUE /\ UNCHANGED posted
  /\ UNCHANGED <<shared, memory, source, switch, saved, io, returned>>

\* Mutant of CheckDataSize: only a size of 0 is refused.
CheckDataSizeNot ==
  /\ enc = "check"
  /\ IF saved = 0 THEN ExitForRestart ELSE enc' = "encode" /\ UNCHANGED posted
  /\ UNCHANGED <<shared, memory, source, switch, saved, enc_map, io, returned>>

\* data_size of no header matches, so a size of 0 is never accepted.
CheckDataSize ==
  /\ enc = "check"
  /\ IF saved = 0 \/ data_size # saved THEN ExitForRestart
     ELSE enc' = "encode" /\ UNCHANGED posted
  /\ UNCHANGED <<shared, memory, source, switch, saved, enc_map, io, returned>>

\* No codec, or no frame for it.
OpenFail ==
  /\ enc = "encode" /\ enc' = "leave"
  /\ UNCHANGED <<shared, memory, source, switch, saved, enc_map, control,
                 returned>>

\* Slot 1, where data_size says it is now, or slot 0; where there never was a
\* slot 1 the comparison may go either way.
Choice ==
  CASE data_size = 0 -> {0}
    [] data_size # 0 /\ newer[data_size] = "junk" -> {0, 1}
    [] data_size # 0 /\ newer[data_size] = "yes" -> {1}
    [] data_size # 0 /\ newer[data_size] = "no" -> {0}

\* Slot i ends within what the encoder has mapped; so does the timestamp of
\* slot 1, which is looked at first.
InView(i) == data_size <= 2 * saved /\ (i = 1 => data_size <= saved)

EncodeFrame ==
  /\ enc = "encode"
  /\ \E i \in Choice : enc' = IF InView(i) THEN "wait" ELSE "fault"
  /\ UNCHANGED <<shared, memory, source, switch, saved, enc_map, control,
                 returned>>

CheckInfo ==
  /\ enc = "look"
  /\ IF info.size # saved THEN ExitForRestart
     ELSE enc' = "encode" /\ UNCHANGED posted
  /\ UNCHANGED <<shared, memory, source, switch, saved, enc_map, io, returned>>

\* Mutant of FreeEvents: the started event stays set.
FreeEventsHalf == started' = started /\ stopped' = TRUE

FreeEvents == started' = FALSE /\ stopped' = TRUE

\* The mapping goes; saved_frame_info_ stays, but is written before it is read
\* again, and is forgotten here.
Unmap ==
  /\ enc_map' = FALSE /\ Released(src_map, FALSE)
  /\ saved' = 0 /\ returned' = FALSE

\* Free(false) by the thread itself.
FreeByEncoder ==
  /\ enc = "leave" /\ enc' = "unmap"
  /\ FreeEvents
  /\ UNCHANGED <<info, ready, memory, source, switch, saved, enc_map, control,
                 returned>>

UnmapByEncoder ==
  /\ enc = "unmap" /\ enc' = "exited"
  /\ Unmap
  /\ UNCHANGED <<shared, data_size, first, newer, source, switch, control>>

Encoder ==
  \/ SetStarted \/ WaitFrame \/ ReadInfo \/ OpenMapping \/ CheckDataSize
  \/ EncodeFrame \/ CheckInfo \/ FreeByEncoder \/ UnmapByEncoder
-----------------------------------------------------------------------------
(* The engine: the io thread. *)

\* EncoderStop, when the last client leaves or the engine stops: Free(true).
Stop ==
  /\ io = "rest" /\ enc \notin {"none", "fault"}
  /\ io' = "stop"
  /\ FreeEvents
  /\ UNCHANGED <<info, ready, memory, source, switch, reader, posted, returned>>

\* EncoderStop and EncoderRun.
RestartVideoEncoder ==
  /\ io = "rest" /\ posted /\ enc # "fault"
  /\ posted' = FALSE
  /\ io' = "restart"
  /\ FreeEvents
  /\ UNCHANGED <<info, ready, memory, source, switch, reader, returned>>

JoinAndUnmap ==
  /\ io \in {"stop", "restart"} /\ enc \in {"none", "exited"}
  /\ enc' = "none"
  /\ Unmap
  /\ io' = IF io = "restart" THEN "run" ELSE "rest"
  /\ UNCHANGED <<shared, data_size, first, newer, source, switch, posted>>

\* For a restart, or for the first client; before that a restart that its
\* Stop has overtaken is handled (what happens otherwise is in GameService).
Run ==
  /\ io = "run" \/ (io = "rest" /\ ~posted)
  /\ enc = "none" /\ enc' = "start"
  /\ stopped' = FALSE
  /\ io' = "rest"
  /\ UNCHANGED <<info, ready, started, memory, source, switch, saved, enc_map,
                 posted, returned>>
-----------------------------------------------------------------------------
Copying ==
  \/ WriteType \/ WriteSize \/ WriteResized \/ MapSurface \/ MapSharedMem
  \/ AlreadyExisted \/ WriteDataSize \/ Convert \/ Stamp

Waiting == WaitingEnds \/ EncoderStarted \/ EncoderStopped

\* What the program, its user, its device and the clients may do at any time.
Disturbance ==
  \/ Resize \/ CaptureFail \/ MapSurfaceFail \/ MapSharedMemFail
  \/ SourceRestart \/ OpenFail \/ Stop

Next ==
  \/ Refresh \/ Copying \/ Waiting \/ Encoder
  \/ RestartVideoEncoder \/ JoinAndUnmap \/ Run
  \/ Disturbance

Spec == Init /\ [][Next]_vars

\* Every thread goes on, and the io thread takes its handlers; the program's
\* loop refreshes whenever there is no input to handle (video_source.cpp).
\* No client has to come: only the Run that ends a restart is sure to follow.
Fairness ==
  /\ WF_vars(Refresh) /\ WF_vars(Copying) /\ WF_vars(Waiting)
  /\ WF_vars(Encoder) /\ WF_vars(RestartVideoEncoder) /\ WF_vars(JoinAndUnmap)
  /\ WF_vars(io = "run" /\ Run)

FairSpec == Spec /\ Fairness
-----------------------------------------------------------------------------
(* Properties *)

\* Whenever the encoder is about to read a slot, the slots lie as it has
\* checked when it began, or the size it will compare next has changed (or
\* has changed and come back unseen).  data_size is read again from shared
\* memory for every picture, and a slot beyond what is mapped ends the engine.
SlotsLieAsChecked ==
  enc = "encode" =>
    data_size = saved \/ info.size # saved \/ returned

\* A section that the encoder reads is at least as large as what it has mapped
\* of it, and is never replaced by another under its name.
NoSmallSection ==
  /\ src_map <= section
  /\ enc_map => saved <= section /\ section # 0

\* The encoder runs and stays: nobody has stopped it and it needs no restart.
Lasting == enc \in {"encode", "wait", "look"}

\* What the program does not know yet the events will tell it: an encoder that
\* runs has said so, or that it ends, and when there is none the program has been
\* told, or will find the event that tells it.
SwitchIsTold ==
  /\ enc \in {"first", "info", "open", "check"} \/ Lasting => started \/ stopped
  /\ enc = "none" /\ io = "rest" => ~started /\ (waiting = "stop" => stopped)

\* When the program's window and its clients are left alone, the program in the
\* end knows whether the encoder runs, although the encoder is stopped and
\* started again faster than WaitingThread can follow.
SwitchFollows ==
  <>[][~Disturbance]_vars =>
    <>[](\/ is_started = Lasting \/ enc = "fault" \/ waiting = "ended"
         \/ enc = "first" /\ is_started)

\* When they are left alone, the encoder in the end encodes pictures of the
\* size the program has, from slots that hold such pictures, unless it has
\* ended, or the program has been stopped by its device.
ResizeFollowed ==
  <>[][~Disturbance]_vars =>
    <>[](\/ enc \in {"none", "exited", "fault"} \/ src_stop
         \/ Lasting /\ saved = size /\ first = size /\ newer[size] # "junk")
=============================================================================
