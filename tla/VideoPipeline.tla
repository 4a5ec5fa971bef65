--------------------------- MODULE VideoPipeline ---------------------------
(***************************************************************************)
(* How pictures get from a Direct3D 11 game to the video encoder: the      *)
(* game's presenting thread with the hooks of capturetex in it             *)
(* (hook_dxgi.cpp, capture_dxgi_d3d11.cpp, capturetex.cpp), the engine's   *)
(* encoding thread (video_encoder.cpp), and what they share without a      *)
(* lock: a description of the picture, two slots that name the texture of  *)
(* the latest and the next picture, and an auto-reset event.  The game's    *)
(* graphics device executes its copies later than it is told to.           *)
(*                                                                         *)
(* A step is what a thread does between two accesses to what is shared.    *)
(***************************************************************************)
EXTENDS Integers

CONSTANTS
  Size,     \* what a back buffer may measure
  NoSize,   \* svfi->type is kNone: nothing was captured so far
  Torn,     \* svfi with the width of one size and the height of another
  Failures, \* which calls may fail
  MaxTicks, \* bound: pictures captured
  MaxPosted \* bound: RestartVideoEncoder handlers waiting for the io thread

ASSUME SizeAssumption == NoSize \notin Size /\ Torn \notin Size \cup {NoSize}
ASSUME FailuresAssumption ==
  Failures \subseteq {"capture", "share", "codec"}
ASSUME BoundAssumption == MaxTicks \in Nat /\ MaxPosted \in Nat \ {0}

VARIABLES
  \* Shared by the two processes.
  info,         \* SharedVideoFrameInfo: the size, once the type is set
  frames,       \* SharedVideoTextureFrames: texture id and timestamp per slot
  ready,        \* shared_frame_ready_event_ (auto reset)
  texture_size, \* of the textures by id; they outlive who created them
  picture,      \* of the textures by id: the tick of the latest copy into them
  shows,        \* of the textures by id: the tick of what they show
  queued,       \* by tick: the texture the device still has to copy into
  \* The game.
  src,          \* where its presenting thread is
  size,         \* of the swap chain's buffers
  initialized,  \* capture_d3d11::initialized_
  turn,         \* frame_count_ % kNumberOfSharedFrames
  shared,       \* shared_textures_: the texture whose handle a slot holds open
  texture_id,   \* the id the next texture gets
  tick,         \* QueryPerformanceCounter at the latest capture
  src_mapped,   \* shared_frames_ is mapped in the game
  event_open,   \* the game's shared_frame_ready_event_ is not null
  \* The engine.
  enc,          \* the encoding thread
  stop,         \* stop_event_ (manual reset)
  saved,        \* saved_frame_info_
  index,        \* the slot GetSharedTexture has chosen
  name,         \* the texture id in the name it is about to open
  cache,        \* VideoEncoder::shared_textures_: id noted, texture opened
  enc_mapped,   \* shared_texture_frames_ is mapped in the engine
  encoded,      \* the tick of the picture last encoded
  io,           \* the engine's io thread
  posted,       \* RestartVideoEncoder handlers
  \* History.
  overtaken,    \* the encoder has read a slot while the game wrote it
  undescribed,  \* a capture failed that should have written svfi
  early         \* the encoder sleeps on a picture the device had not copied yet

memory == <<info, frames, ready>>
gpu == <<texture_size, picture, shows, queued>>
mapped == <<src_mapped, event_open>>
source == <<src, size, initialized, turn, shared, texture_id, tick, mapped>>
reader == <<enc, saved, index, name, cache, enc_mapped, encoded>>
control == <<stop, io, posted>>
vars == <<memory, gpu, source, reader, control, overtaken, undescribed, early>>
-----------------------------------------------------------------------------
Slot == 0..1
NoTexture == 0
Texture == 1..MaxTicks
TextureOrNone == Texture \cup {NoTexture}
Measure == Size \cup {NoSize, Torn}

\* A mapping is created filled with zeros.
NoFrames == [i \in Slot |-> [id |-> NoTexture, timestamp |-> 0]]
NoShared == [i \in Slot |-> NoTexture]
NoCopies == [k \in 1..MaxTicks |-> NoTexture]
NoCache == [i \in Slot |-> [id |-> NoTexture, texture |-> NoTexture]]

SrcState == {"idle", "info", "size", "share", "label", "copy", "stamp", "signal"}
EncState == {"none", "first", "read", "open", "choose", "lookup", "note", "encode",
             "wait", "check", "exited"}
IoState == {"idle", "stop", "restart", "run"}

SharedOK ==
  /\ info \in Measure
  /\ frames \in [Slot -> [id : TextureOrNone, timestamp : 0..MaxTicks]]
  /\ texture_size \in [Texture -> Measure]
  /\ picture \in [Texture -> 0..MaxTicks]
DeviceOK ==
  /\ shows \in [Texture -> 0..MaxTicks]
  /\ queued \in [1..MaxTicks -> TextureOrNone]
SourceOK ==
  /\ src \in SrcState
  /\ size \in Size
  /\ turn \in Slot
  /\ shared \in [Slot -> TextureOrNone]
  /\ tick \in 0..MaxTicks
  /\ texture_id \in 1..tick + 1
EncoderOK ==
  /\ enc \in EncState
  /\ saved \in Measure
  /\ index \in Slot
  /\ name \in TextureOrNone
  /\ cache \in [Slot -> [id : TextureOrNone, texture : TextureOrNone]]
  /\ encoded \in 0..MaxTicks
  /\ io \in IoState
  /\ posted \in 0..MaxPosted
Flags ==
  /\ ready \in BOOLEAN /\ initialized \in BOOLEAN /\ src_mapped \in BOOLEAN
  /\ event_open \in BOOLEAN /\ stop \in BOOLEAN /\ enc_mapped \in BOOLEAN
  /\ overtaken \in BOOLEAN /\ undescribed \in BOOLEAN /\ early \in BOOLEAN

\* Every variable has its type, and the id of the next texture stays behind the
\* pictures captured (CreateSharedVideoTextureFrames, ShareTexture).
TypeOK == SharedOK /\ DeviceOK /\ SourceOK /\ EncoderOK /\ Flags

Init ==
  /\ info = NoSize /\ frames = NoFrames /\ ready = FALSE
  /\ texture_size = [t \in Texture |-> NoSize]
  /\ picture = [t \in Texture |-> 0] /\ shows = picture /\ queued = NoCopies
  /\ src = "idle" /\ size \in Size /\ initialized = FALSE /\ turn = 0
  /\ shared = NoShared /\ texture_id = 1 /\ tick = 0 /\ src_mapped = FALSE
  /\ event_open = FALSE
  /\ enc = "none" /\ stop = FALSE /\ saved = NoSize /\ index = 0
  /\ name = NoTexture /\ cache = NoCache /\ enc_mapped = FALSE /\ encoded = 0
  /\ io = "idle" /\ posted = 0
  /\ overtaken = FALSE /\ undescribed = FALSE /\ early = FALSE
-----------------------------------------------------------------------------
(* The game.                                                               *)

\* Mutant: a freed capture still counts as initialised.
FreeKeeping ==
  /\ src = "idle"
  /\ size' \in Size
  /\ shared' = NoShared
  /\ UNCHANGED <<memory, gpu, src, initialized, turn, texture_id, tick, mapped, reader,
                 control>>

\* capture_d3d11::Free(), from MyResizeBuffers or from MyPresent when the swap
\* chain is another one; the Reset() of the next MyPresent only repeats it.
Free ==
  /\ src = "idle"
  /\ size' \in Size
  /\ initialized' = FALSE
  /\ shared' = NoShared
  /\ UNCHANGED <<memory, gpu, src, turn, texture_id, tick, mapped, reader, control>>

\* Mutant: the first picture is shared before it is described.
CaptureFirstUnsized ==
  /\ src = "idle" /\ ~initialized /\ tick < MaxTicks
  /\ initialized' = TRUE
  /\ tick' = tick + 1
  /\ src' = "share"
  /\ UNCHANGED <<memory, gpu, size, turn, shared, texture_id, mapped, reader, control>>

\* capture_d3d11::Capture() up to the first thing it shares.  Once initialized_
\* is set the description is not written again, whatever fails after it.
CaptureFirst ==
  /\ src = "idle" /\ ~initialized /\ tick < MaxTicks
  /\ \/ /\ initialized' = TRUE
        /\ tick' = tick + 1
        /\ src' = "info"
     \/ /\ "capture" \in Failures
        /\ initialized' = TRUE
        /\ UNCHANGED <<tick, src>>
  /\ UNCHANGED <<memory, gpu, size, turn, shared, texture_id, mapped, reader, control>>

CaptureNext ==
  /\ src = "idle" /\ initialized /\ tick < MaxTicks
  /\ tick' = tick + 1
  /\ src' = "share"
  /\ UNCHANGED <<memory, gpu, size, initialized, turn, shared, texture_id, mapped,
                 reader, control>>

\* The fields of svfi are written one by one.
WriteInfo ==
  /\ src = "info"
  /\ info' = IF info = size THEN size ELSE Torn
  /\ src' = "size"
  /\ UNCHANGED <<frames, ready, gpu, size, initialized, turn, shared, texture_id, tick,
                 mapped, reader, control>>

WriteInfoSize ==
  /\ src = "size"
  /\ info' = size
  /\ src' = "share"
  /\ UNCHANGED <<frames, ready, gpu, size, initialized, turn, shared, texture_id, tick,
                 mapped, reader, control>>

\* CreateSharedVideoTextureFrames() and the first part of ShareTexture(): the
\* slot keeps its texture as long as the size fits; a new one has a new name,
\* and the handle that keeps the old name is closed.  The event is created along
\* with the mapping, and only then.
ShareTexture ==
  /\ src = "share"
  /\ src_mapped' = TRUE
  /\ event_open' = (event_open \/ ~src_mapped)
  /\ LET old == shared[turn] IN
       IF old # NoTexture /\ texture_size[old] = size
       THEN /\ src' = "copy"
            /\ UNCHANGED <<shared, texture_id, texture_size>>
       ELSE /\ src' = "label"
            /\ shared' = [shared EXCEPT ![turn] = texture_id]
            /\ texture_size' = [texture_size EXCEPT ![texture_id] = size]
            /\ texture_id' = texture_id + 1
  /\ UNCHANGED <<memory, picture, shows, queued, size, initialized, turn, tick, reader, control>>

\* Either function fails, before or after the mapping was made.  A mapping that
\* is there already is not made again, and the event neither: one that could not
\* be created stays null.
ShareTextureFail ==
  /\ src = "share"
  /\ "share" \in Failures
  /\ \/ UNCHANGED mapped
     \/ ~src_mapped /\ src_mapped' = TRUE /\ event_open' \in BOOLEAN
  /\ src' = "idle"
  /\ UNCHANGED <<memory, gpu, size, initialized, turn, shared, texture_id, tick, reader,
                 control>>

\* Mutant: the slot is labelled with the id of the next texture.
LabelFrameNext ==
  /\ src = "label"
  /\ frames' = [frames EXCEPT ![turn].id = texture_id]
  /\ src' = "copy"
  /\ UNCHANGED <<info, ready, gpu, size, initialized, turn, shared, texture_id, tick,
                 mapped, reader, control>>

LabelFrame ==
  /\ src = "label"
  /\ frames' = [frames EXCEPT ![turn].id = shared[turn]]
  /\ src' = "copy"
  /\ UNCHANGED <<info, ready, gpu, size, initialized, turn, shared, texture_id, tick,
                 mapped, reader, control>>

\* CopyResource() only tells the device to copy.
CopyTexture ==
  /\ src = "copy"
  /\ picture' = [picture EXCEPT ![shared[turn]] = tick]
  /\ queued' = [queued EXCEPT ![tick] = shared[turn]]
  /\ src' = "stamp"
  /\ UNCHANGED <<memory, texture_size, shows, size, initialized, turn, shared, texture_id, tick,
                 mapped, reader, control>>

StampFrame ==
  /\ src = "stamp"
  /\ frames' = [frames EXCEPT ![turn].timestamp = tick]
  /\ src' = "signal"
  /\ UNCHANGED <<info, ready, gpu, size, initialized, turn, shared, texture_id, tick,
                 mapped, reader, control>>

\* SetEvent() on a null handle wakes nobody.
SetSharedFrameReadyEvent ==
  /\ src = "signal"
  /\ turn' = 1 - turn
  /\ ready' = (ready \/ event_open)
  /\ src' = "idle"
  /\ UNCHANGED <<info, frames, gpu, size, initialized, shared, texture_id, tick,
                 mapped, reader, control>>

\* The game ends anywhere, and another one starts: with a process id of its own
\* in the names of its textures.  A mapping lives as long as someone maps it;
\* the engine always maps svfi and has the event open.  What the device has not
\* copied is lost.
GameRestart ==
  /\ src' = "idle" /\ size' \in Size /\ initialized' = FALSE /\ turn' = 0
  /\ shared' = NoShared /\ src_mapped' = FALSE /\ event_open' = FALSE
  /\ queued' = NoCopies
  /\ frames' = IF enc_mapped THEN frames ELSE NoFrames
  /\ UNCHANGED <<info, ready, texture_size, picture, shows, texture_id, tick, reader,
                 control>>

\* The game's device makes the copies in the order they were queued, at any time
\* after CopyResource: no Flush, query or keyed mutex makes the game wait for it.
DeviceCopy ==
  /\ \E k \in 1..MaxTicks :
       /\ queued[k] # NoTexture /\ \A j \in 1..k - 1 : queued[j] = NoTexture
       /\ shows' = [shows EXCEPT ![queued[k]] = k]
       /\ queued' = [queued EXCEPT ![k] = NoTexture]
  /\ UNCHANGED <<memory, texture_size, picture, source, reader, control>>

Source ==
  \/ Free \/ CaptureFirst \/ CaptureNext \/ WriteInfo \/ WriteInfoSize
  \/ ShareTexture \/ ShareTextureFail \/ LabelFrame \/ CopyTexture \/ StampFrame
  \/ SetSharedFrameReadyEvent \/ GameRestart
-----------------------------------------------------------------------------
(* The encoding thread.                                                    *)

\* Free(false), by the thread itself: what it holds is released.  The mapping
\* goes with the last who maps it.
FreeEncoder ==
  /\ cache' = NoCache
  /\ enc_mapped' = FALSE
  /\ frames' = IF src_mapped THEN frames ELSE NoFrames

\* The thread ends, stopped or by an error.
Exit ==
  /\ enc' = "exited"
  /\ stop' = TRUE
  /\ FreeEncoder
  /\ UNCHANGED <<info, saved, index, name, encoded, posted>>

\* The thread ends without Free: RestartVideoEncoder will stop the encoder.
ExitForRestart ==
  /\ posted < MaxPosted
  /\ enc' = "exited"
  /\ posted' = posted + 1
  /\ UNCHANGED <<memory, stop, saved, index, name, cache, enc_mapped, encoded>>

\* WaitForMultipleObjects looks at the stop event first.
Wait(from, to) ==
  /\ enc = from
  /\ \/ stop /\ Exit /\ UNCHANGED ready
     \/ /\ ~stop /\ ready
        /\ ready' = FALSE
        /\ enc' = to
        /\ UNCHANGED <<info, frames, stop, saved, index, name, cache, enc_mapped, encoded,
                       posted>>
  /\ UNCHANGED <<gpu, source, io>>

WaitFirstFrame == Wait("first", "read")
WaitFrame == Wait("wait", "check")

ReadInfo ==
  /\ enc = "read"
  /\ saved' = info
  /\ enc' = "open"
  /\ UNCHANGED <<memory, gpu, source, index, name, cache, enc_mapped, encoded, control>>

\* kNone ends the thread for good.
OpenNoSize ==
  /\ enc = "open" /\ saved = NoSize
  /\ Exit
  /\ UNCHANGED <<ready, gpu, source, io>>

OpenMapping ==
  /\ enc = "open" /\ saved # NoSize /\ src_mapped
  /\ \/ /\ enc_mapped' = TRUE
        /\ enc' = "choose"
        /\ UNCHANGED <<memory, stop, saved, index, name, cache, encoded, posted>>
     \/ /\ "codec" \in Failures
        /\ Exit
        /\ UNCHANGED ready
  /\ UNCHANGED <<gpu, source, io>>

OpenMappingFail ==
  /\ enc = "open" /\ saved # NoSize /\ ~src_mapped
  /\ ExitForRestart
  /\ UNCHANGED <<gpu, source, io>>

\* Mutant: the slots are taken in turn, as the game takes them.
ChooseSlotInTurn ==
  /\ enc = "choose"
  /\ index' = 1 - index
  /\ LET i == 1 - index IN
       IF cache[i].texture = NoTexture \/ cache[i].id # frames[i].id
       THEN enc' = "lookup" /\ name' = frames[i].id
       ELSE enc' = "encode" /\ UNCHANGED name
  /\ UNCHANGED <<memory, gpu, source, saved, cache, enc_mapped, encoded, control>>

\* GetSharedTexture(): the slot with the later timestamp; its texture is opened
\* only if the slot names another one than was noted.
ChooseSlot ==
  /\ enc = "choose"
  /\ LET i == IF frames[0].timestamp < frames[1].timestamp THEN 1 ELSE 0 IN
       /\ index' = i
       /\ IF cache[i].texture = NoTexture \/ cache[i].id # frames[i].id
          THEN enc' = "lookup" /\ name' = frames[i].id
          ELSE enc' = "encode" /\ UNCHANGED name
  /\ UNCHANGED <<memory, gpu, source, saved, cache, enc_mapped, encoded, control>>

\* Mutant: the id is noted although its texture could not be opened.
OpenTextureNoting ==
  /\ enc = "lookup"
  /\ \/ /\ name # NoTexture /\ \E i \in Slot : shared[i] = name
        /\ enc' = "note"
        /\ UNCHANGED cache
     \/ /\ \A i \in Slot : name = NoTexture \/ shared[i] # name
        /\ enc' = "wait"
        /\ cache' = [cache EXCEPT ![index].id = name]
  /\ UNCHANGED <<memory, gpu, source, saved, index, name, enc_mapped, encoded, control>>

\* OpenSharedResourceByName() finds the name while the game holds the handle.
\* If it fails the picture is skipped: the caller ignores the error.
OpenTexture ==
  /\ enc = "lookup"
  /\ \/ /\ name # NoTexture /\ \E i \in Slot : shared[i] = name
        /\ enc' = "note"
     \/ /\ \A i \in Slot : name = NoTexture \/ shared[i] # name
        /\ enc' = "wait"
  /\ UNCHANGED <<memory, gpu, source, saved, index, name, cache, enc_mapped, encoded,
                 control>>

\* The id is read from the slot once more.
NoteTexture ==
  /\ enc = "note"
  /\ cache' = [cache EXCEPT ![index] = [id |-> frames[index].id, texture |-> name]]
  /\ enc' = "encode"
  /\ UNCHANGED <<memory, gpu, source, saved, index, name, enc_mapped, encoded, control>>

\* Mutant: the event is reset once the picture is encoded, not by the wait.
EncodeFrameReset ==
  /\ enc = "encode"
  /\ encoded' = shows[cache[index].texture]
  /\ ready' = FALSE
  /\ enc' = "wait"
  /\ UNCHANGED <<info, frames, gpu, source, saved, index, name, cache, enc_mapped, control>>

\* CopyResource() and EncodeYuvFrame().
EncodeFrame ==
  /\ enc = "encode"
  /\ encoded' = shows[cache[index].texture]
  /\ enc' = "wait"
  /\ UNCHANGED <<memory, gpu, source, saved, index, name, cache, enc_mapped, control>>

CheckInfo ==
  /\ enc = "check" /\ info = saved
  /\ enc' = "choose"
  /\ UNCHANGED <<memory, gpu, source, saved, index, name, cache, enc_mapped, encoded,
                 control>>

CheckInfoChanged ==
  /\ enc = "check" /\ info # saved
  /\ ExitForRestart
  /\ UNCHANGED <<gpu, source, io>>

Encoder ==
  \/ WaitFirstFrame \/ ReadInfo \/ OpenNoSize \/ OpenMapping \/ OpenMappingFail
  \/ ChooseSlot \/ OpenTexture \/ NoteTexture \/ EncodeFrame \/ WaitFrame
  \/ CheckInfo \/ CheckInfoChanged
-----------------------------------------------------------------------------
(* The io thread: the service runs the encoder, stops it, or restarts it.  *)

\* Engine::EncoderStop: Free(true) up to the join.
Stop ==
  /\ io = "idle"
  /\ io' = "stop"
  /\ stop' = TRUE
  /\ UNCHANGED <<memory, gpu, source, reader, posted>>

RestartVideoEncoder ==
  /\ io = "idle" /\ posted > 0
  /\ posted' = posted - 1
  /\ io' = "restart"
  /\ stop' = TRUE
  /\ UNCHANGED <<memory, gpu, source, reader>>

\* The join, and the rest of Free(true).
Joined ==
  /\ io \in {"stop", "restart"} /\ enc \in {"none", "exited"}
  /\ enc' = "none"
  /\ FreeEncoder
  /\ io' = IF io = "restart" THEN "run" ELSE "idle"
  /\ UNCHANGED <<info, ready, gpu, source, saved, index, name, encoded, stop, posted>>

\* VideoEncoder::Run().  The service runs an encoder that has no thread (what
\* else may happen is in GameService), here only while few restarts wait.
Run ==
  /\ \/ io = "run"
     \/ io = "idle" /\ enc = "none" /\ posted < MaxPosted
  /\ io' = "idle"
  /\ stop' = FALSE
  /\ enc' = "first"
  /\ UNCHANGED <<memory, gpu, source, saved, index, name, cache, enc_mapped, encoded,
                 posted>>

Io == Stop \/ RestartVideoEncoder \/ Joined \/ Run
-----------------------------------------------------------------------------
\* The game writes the slot that the encoder reads.
Overtaking ==
  /\ src \in {"label", "copy", "stamp"}
  /\ enc \in {"lookup", "note", "encode"}
  /\ index = turn

\* The first capture fails once initialized_ is set; what was not written then is
\* written after the next Free() or by the next game.
Undescribing == ~initialized /\ initialized' /\ src' = "idle"
Describing == src = "size" /\ src' = "share"

\* The texture about to be encoded does not show the latest copy into it: the
\* device has not made it yet, or the game ended before it did.
Unfinished ==
  LET t == cache[index].texture IN
    enc = "encode" /\ shows[t] # picture[t]

Next ==
  /\ Source \/ DeviceCopy \/ Encoder \/ Io
  /\ overtaken' = (overtaken \/ Overtaking')
  /\ undescribed' = ((undescribed \/ Undescribing) /\ ~Describing)
  /\ early' = (enc' = "wait" /\ (early \/ Unfinished))

Spec == Init /\ [][Next]_vars
-----------------------------------------------------------------------------
(* Properties.                                                             *)

\* When the first frame wakes the encoder its size can be read: "wait for first
\* video frame, to retrieve size" (EncodingThread).
FirstFrameHasSize == enc = "read" => info # NoSize

\* Only a capture that fails at the wrong moment can break that; no failure to share,
\* no resize and no restart of either process does (Capture, SetSharedFrameReadyEvent).
SizeIsLostByCapture == enc = "read" /\ info = NoSize => undescribed

\* The slot with the latest picture, and whether the game still holds it: then
\* nothing was resized, and no game has ended, since it was published.
Latest == IF frames[0].timestamp < frames[1].timestamp THEN 1 ELSE 0
LatestIsHeld ==
  /\ frames[Latest].id # NoTexture
  /\ shared[Latest] = frames[Latest].id

\* Nobody has anything left to do until the game presents again, and the game has
\* its event.
AtRest ==
  /\ src = "idle" /\ LatestIsHeld /\ event_open
  /\ enc = "wait" /\ ~ready /\ ~stop

\* No change of size is missed: an encoder that sleeps was opened with the size
\* of the latest picture.  The description is written before the frame, and
\* compared after the event (Capture, EncodingThread).  A game that could not
\* create the event shares pictures of whatever size without waking anybody.
SizeFollowed ==
  AtRest /\ ~undescribed => saved = size /\ saved = texture_size[frames[Latest].id]

\* No picture is missed: an encoder that sleeps has encoded the latest one,
\* although the event does not count (SetSharedFrameReadyEvent, EncodeFrame); if
\* not, it was encoded before the device had copied it.
PictureFollowed ==
  AtRest /\ ~overtaken => encoded = frames[Latest].timestamp \/ early

\* What the encoder takes for the texture a slot names is that texture, and not
\* one it opened when the slot named another (GetSharedTexture, ShareTexture).
CacheIsCurrent ==
  ~overtaken =>
    \A i \in Slot :
      /\ cache[i].texture # NoTexture
      /\ cache[i].id = frames[i].id
      => cache[i].texture = frames[i].id

\* The encoder never goes back to an earlier picture, not across its restarts
\* and not across the game's, unless it is ahead of the device (EncodeFrame).
NeverBackwards == [][encoded' >= encoded \/ overtaken \/ Unfinished]_encoded
=============================================================================
