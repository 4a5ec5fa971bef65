------------------------ MODULE VideoPipelineProofs ------------------------
(* Proofs about VideoPipeline, for every number of pictures and every set of *)
(* sizes.                                                                   *)
EXTENDS VideoPipeline, TLAPS

\* What TypeOK depends on: the game makes no more textures than it captures
\* pictures, and the encoder encodes from a texture it has opened.
Named ==
  /\ src \in {"info", "size", "share"} => texture_id <= tick
  /\ enc = "note" => name # NoTexture
  /\ enc = "encode" => cache[index].texture # NoTexture

Laid == SharedOK /\ SourceOK /\ EncoderOK /\ Named
Places == SharedOK /\ SourceOK /\ EncoderOK /\ Named /\ DeviceOK

\* What SizeIsLostByCapture depends on: a game that counts as initialised has
\* described its picture, or is just going to, or has failed to.
Described == info # NoSize \/ undescribed
SizedFirst ==
  /\ initialized /\ src # "info" => Described
  /\ src # "idle" => initialized
  /\ ready => Described
  /\ enc = "read" => Described

\* What CacheIsCurrent depends on: unless it was overtaken, a slot names what the
\* encoder is opening, for as long as the encoder maps the slots.
Held ==
  /\ enc \in {"choose", "lookup", "note", "encode", "wait", "check"} => enc_mapped
  /\ Overtaking => overtaken
  /\ enc \in {"lookup", "note"} /\ ~overtaken => frames[index].id = name
  /\ ~overtaken =>
       \A i \in Slot : cache[i].texture # NoTexture => cache[i].id = cache[i].texture
-----------------------------------------------------------------------------
(* Type correctness. *)

\* What the game's device leaves alone, and a step of neither process.
Beside == UNCHANGED <<memory, texture_size, picture, source, reader, control>>

LEMMA LaidInit == Init => Laid
BY BoundAssumption
   DEF Init, Laid, SharedOK, SourceOK, EncoderOK, Named, Measure, NoFrames,
       NoShared, NoCache, NoTexture, Texture, TextureOrNone, Slot, SrcState,
       EncState, IoState

LEMMA BesideStep ==
  ASSUME DeviceCopy \/ UNCHANGED vars
  PROVE  Beside
BY DEF DeviceCopy, Beside, vars, gpu

LEMMA LaidBeside ==
  ASSUME Laid, Beside
  PROVE  Laid'
BY DEF Laid, SharedOK, SourceOK, EncoderOK, Named, Beside, memory, source, reader,
       control

\* The game.
LEMMA LaidSource ==
  ASSUME Laid, Source
  PROVE  Laid'
<1> USE BoundAssumption
    DEF Laid, SharedOK, SourceOK, EncoderOK, Named, memory, gpu, source, reader,
        control, Measure, Texture, TextureOrNone, NoTexture, Slot, SrcState
<1>1. CASE Free
  BY <1>1 DEF Free, NoShared
<1>2. CASE CaptureFirst
  BY <1>2, SMTT(30) DEF CaptureFirst
<1>3. CASE CaptureNext
  BY <1>3 DEF CaptureNext
<1>4. CASE WriteInfo \/ WriteInfoSize
  BY <1>4 DEF WriteInfo, WriteInfoSize
<1>5. CASE ShareTexture
  <2>1. texture_id \in Texture
    BY <1>5 DEF ShareTexture
  <2>2. size \in Measure
    OBVIOUS
  <2>3. CASE src' = "copy"
    BY <1>5, <2>3 DEF ShareTexture
  <2>4. CASE src' = "label"
    <3>1. /\ shared' = [shared EXCEPT ![turn] = texture_id]
          /\ texture_size' = [texture_size EXCEPT ![texture_id] = size]
          /\ texture_id' = texture_id + 1
      BY <1>5, <2>4 DEF ShareTexture
    <3>2. SharedOK'
      BY <1>5, <2>2, <3>1 DEF ShareTexture
    <3>3. SourceOK'
      BY <1>5, <2>1, <2>4, <3>1 DEF ShareTexture
    <3>4. EncoderOK' /\ Named'
      BY <1>5, <2>4, <3>1 DEF ShareTexture
    <3>5. QED
      BY <3>2, <3>3, <3>4
  <2>5. QED
    BY <1>5, <2>3, <2>4 DEF ShareTexture
<1>6. CASE ShareTextureFail
  BY <1>6 DEF ShareTextureFail
<1>7. CASE LabelFrame
  BY <1>7, ZenonT(60) DEF LabelFrame
<1>8. CASE CopyTexture
  BY <1>8 DEF CopyTexture
<1>9. CASE StampFrame
  BY <1>9, ZenonT(60) DEF StampFrame
<1>10. CASE SetSharedFrameReadyEvent
  BY <1>10 DEF SetSharedFrameReadyEvent
<1>11. CASE GameRestart
  BY <1>11 DEF GameRestart, NoShared, NoFrames
<1>12. QED
  BY <1>1, <1>2, <1>3, <1>4, <1>5, <1>6, <1>7, <1>8, <1>9, <1>10, <1>11 DEF Source

\* The encoding thread.
LEMMA LaidEncoder ==
  ASSUME Laid, Encoder, DeviceOK
  PROVE  Laid'
<1> USE BoundAssumption
    DEF Laid, SharedOK, SourceOK, EncoderOK, Named, memory, gpu, source, reader,
        control, Measure, TextureOrNone, NoTexture, Slot, EncState
<1>1. CASE WaitFirstFrame \/ WaitFrame
  BY <1>1 DEF WaitFirstFrame, WaitFrame, Wait, Exit, FreeEncoder, NoCache, NoFrames
<1>2. CASE ReadInfo
  BY <1>2 DEF ReadInfo
<1>3. CASE OpenNoSize
  BY <1>3 DEF OpenNoSize, Exit, FreeEncoder, NoCache, NoFrames
<1>4. CASE OpenMapping
  BY <1>4 DEF OpenMapping, Exit, FreeEncoder, NoCache, NoFrames
<1>5. CASE OpenMappingFail \/ CheckInfoChanged
  BY <1>5 DEF OpenMappingFail, CheckInfoChanged, ExitForRestart
<1>6. CASE ChooseSlot
  BY <1>6 DEF ChooseSlot
<1>7. CASE OpenTexture
  BY <1>7 DEF OpenTexture
<1>8. CASE NoteTexture
  BY <1>8 DEF NoteTexture
<1>9. CASE EncodeFrame
  <2>1. shows[cache[index].texture] \in 0..MaxTicks
    BY <1>9 DEF EncodeFrame, DeviceOK, Texture
  <2>2. QED
    BY <1>9, <2>1 DEF EncodeFrame
<1>10. CASE CheckInfo
  BY <1>10 DEF CheckInfo
<1>11. QED
  BY <1>1, <1>2, <1>3, <1>4, <1>5, <1>6, <1>7, <1>8, <1>9, <1>10 DEF Encoder

\* The io thread.
LEMMA LaidIo ==
  ASSUME Laid, Io
  PROVE  Laid'
<1> USE BoundAssumption
    DEF Laid, SharedOK, SourceOK, EncoderOK, Named, memory, gpu, source, reader,
        control, Measure, TextureOrNone, NoTexture, Slot, EncState, IoState
<1>1. CASE Stop
  BY <1>1 DEF Stop
<1>2. CASE RestartVideoEncoder
  BY <1>2 DEF RestartVideoEncoder
<1>3. CASE Joined
  BY <1>3 DEF Joined, FreeEncoder, NoCache, NoFrames
<1>4. CASE Run
  BY <1>4 DEF Run
<1>5. QED
  BY <1>1, <1>2, <1>3, <1>4 DEF Io

\* The device: it is told to copy into textures that were named.
LEMMA DeviceInit == Init => DeviceOK
BY BoundAssumption DEF Init, DeviceOK, NoCopies, Texture, TextureOrNone

LEMMA DeviceNext ==
  ASSUME Laid, DeviceOK, [Next]_vars
  PROVE  DeviceOK'
<1> USE BoundAssumption DEF DeviceOK
<1>1. CASE DeviceCopy
  <2>1. NoTexture \in TextureOrNone /\ 1..MaxTicks \subseteq 0..MaxTicks
    BY DEF TextureOrNone
  <2>2. QED
    BY <1>1, <2>1 DEF DeviceCopy
<1>2. CASE CopyTexture
  <2>1. shared[turn] \in TextureOrNone
    BY DEF Laid, SourceOK
  <2>2. shows' = shows /\ queued' = [queued EXCEPT ![tick] = shared[turn]]
    BY <1>2 DEF CopyTexture
  <2>3. QED
    BY <2>1, <2>2
<1>3. CASE GameRestart
  BY <1>3 DEF GameRestart, NoCopies, TextureOrNone
<1>4. CASE [Next]_vars /\ ~DeviceCopy /\ ~CopyTexture /\ ~GameRestart
  <2>1. UNCHANGED <<shows, queued>>
    BY <1>4
       DEF Next, Source, Free, CaptureFirst, CaptureNext, WriteInfo, WriteInfoSize,
           ShareTexture, ShareTextureFail, LabelFrame, StampFrame,
           SetSharedFrameReadyEvent, Encoder, WaitFirstFrame, WaitFrame, Wait, Exit,
           ExitForRestart, FreeEncoder, ReadInfo, OpenNoSize, OpenMapping,
           OpenMappingFail, ChooseSlot, OpenTexture, NoteTexture, EncodeFrame,
           CheckInfo, CheckInfoChanged, Io, Stop, RestartVideoEncoder, Joined, Run,
           gpu, vars
  <2>2. QED
    BY <2>1
<1>5. QED
  BY <1>1, <1>2, <1>3, <1>4

LEMMA PlacesInit == Init => Places
BY LaidInit, DeviceInit DEF Laid, Places

LEMMA PlacesNext == Places /\ [Next]_vars => Places'
<1>1. Places <=> Laid /\ DeviceOK
  BY DEF Laid, Places
<1>2. Laid /\ DeviceOK /\ Next => Laid'
  BY LaidSource, LaidBeside, BesideStep, LaidEncoder, LaidIo DEF Next
<1>3. Laid /\ UNCHANGED vars => Laid'
  BY LaidBeside, BesideStep
<1>4. (Laid /\ DeviceOK)' <=> Places'
  BY DEF Laid, Places
<1>5. QED
  BY <1>1, <1>2, <1>3, <1>4, DeviceNext

\* The flags.
LEMMA FlagsNext == Flags /\ [Next]_vars => Flags'
<1> USE DEF Flags, memory, source, mapped, reader, control
<1>1. ASSUME Flags, Source
      PROVE  (ready \in BOOLEAN /\ initialized \in BOOLEAN /\ src_mapped \in BOOLEAN
              /\ event_open \in BOOLEAN /\ stop \in BOOLEAN /\ enc_mapped \in BOOLEAN)'
  BY <1>1, Zenon
     DEF Source, Free, CaptureFirst, CaptureNext, WriteInfo, WriteInfoSize, ShareTexture,
         ShareTextureFail, LabelFrame, CopyTexture, StampFrame,
         SetSharedFrameReadyEvent, GameRestart
<1>2. ASSUME Flags, Encoder
      PROVE  (ready \in BOOLEAN /\ initialized \in BOOLEAN /\ src_mapped \in BOOLEAN
              /\ event_open \in BOOLEAN /\ stop \in BOOLEAN /\ enc_mapped \in BOOLEAN)'
  BY <1>2, Zenon
     DEF Encoder, WaitFirstFrame, WaitFrame, Wait, Exit, ExitForRestart, FreeEncoder,
         ReadInfo, OpenNoSize, OpenMapping, OpenMappingFail, ChooseSlot, OpenTexture,
         NoteTexture, EncodeFrame, CheckInfo, CheckInfoChanged
<1>3. ASSUME Flags, Io
      PROVE  (ready \in BOOLEAN /\ initialized \in BOOLEAN /\ src_mapped \in BOOLEAN
              /\ event_open \in BOOLEAN /\ stop \in BOOLEAN /\ enc_mapped \in BOOLEAN)'
  BY <1>3, Zenon DEF Io, Stop, RestartVideoEncoder, Joined, Run, FreeEncoder
<1>4. ASSUME Flags, UNCHANGED vars
      PROVE  Flags'
  BY <1>4, Zenon DEF vars
<1>5. ASSUME Flags, DeviceCopy
      PROVE  (ready \in BOOLEAN /\ initialized \in BOOLEAN /\ src_mapped \in BOOLEAN
              /\ event_open \in BOOLEAN /\ stop \in BOOLEAN /\ enc_mapped \in BOOLEAN)'
  BY <1>5, Zenon DEF DeviceCopy
<1>6. Next => (overtaken \in BOOLEAN /\ undescribed \in BOOLEAN /\ early \in BOOLEAN)'
  BY Zenon DEF Next
<1>7. QED
  BY <1>1, <1>2, <1>3, <1>4, <1>5, <1>6, Zenon DEF Next

\* Every variable keeps its type: the game never names more textures than it has
\* captured pictures (ShareTexture), the encoder never encodes from a slot whose
\* texture it has not opened (GetSharedTexture).
THEOREM TypeCorrect == Spec => []TypeOK
<1>1. Init => Places /\ Flags
  <2>1. Init => Flags
    BY Zenon DEF Init, Flags
  <2>2. QED
    BY <2>1, PlacesInit
<1>2. Places /\ Flags /\ [Next]_vars => Places' /\ Flags'
  BY PlacesNext, FlagsNext
<1>3. Places /\ Flags => TypeOK
  BY DEF Places, TypeOK
<1>4. QED
  BY <1>1, <1>2, <1>3, PTL DEF Spec
-----------------------------------------------------------------------------
(* The first frame has a size, unless a capture has failed. *)

\* What becomes of the history.
LostOrNot == undescribed' = ((undescribed \/ Undescribing) /\ ~Describing)

\* The game.  Where nothing is written, what was described stays described.
LEMMA SizedFirstSource ==
  ASSUME Places, SizedFirst, Source, LostOrNot
  PROVE  SizedFirst'
<1>1. size # NoSize /\ Torn # NoSize
  BY SizeAssumption DEF Places, SourceOK
<1>2. enc' = enc
  BY DEF Source, Free, CaptureFirst, CaptureNext, WriteInfo, WriteInfoSize, ShareTexture,
         ShareTextureFail, LabelFrame, CopyTexture, StampFrame,
         SetSharedFrameReadyEvent, GameRestart, reader
<1>3. CASE WriteInfo \/ WriteInfoSize
  <2>1. info' # NoSize
    BY <1>1, <1>3 DEF WriteInfo, WriteInfoSize
  <2>2. initialized' = initialized /\ ready' = ready /\ src # "idle"
    BY <1>3 DEF WriteInfo, WriteInfoSize
  <2>3. QED
    BY <1>2, <2>1, <2>2 DEF SizedFirst, Described
<1>4. CASE Source /\ ~(WriteInfo \/ WriteInfoSize)
  <2>1. info' = info
    BY <1>4
       DEF Source, Free, CaptureFirst, CaptureNext, ShareTexture, ShareTextureFail,
           LabelFrame, CopyTexture, StampFrame, SetSharedFrameReadyEvent, GameRestart,
           memory
  <2>2. ~Describing
    BY <1>4
       DEF Describing, Source, Free, CaptureFirst, CaptureNext, ShareTexture,
           ShareTextureFail, LabelFrame, CopyTexture, StampFrame,
           SetSharedFrameReadyEvent, GameRestart
  <2>3. Described => Described'
    BY <2>1, <2>2 DEF Described, LostOrNot
  <2>4. CASE Free \/ GameRestart
    <3>1. ~initialized' /\ ready' = ready /\ src' = "idle"
      BY <2>4 DEF Free, GameRestart, memory
    <3>2. QED
      BY <1>2, <2>3, <3>1 DEF SizedFirst
  <2>5. CASE CaptureFirst
    <3>1. ready' = ready /\ initialized'
      BY <2>5 DEF CaptureFirst, memory
    <3>2. src' = "info" \/ Undescribing
      BY <2>5 DEF CaptureFirst, Undescribing
    <3>3. Undescribing => Described'
      BY <2>2 DEF Described, LostOrNot
    <3>4. QED
      BY <1>2, <2>3, <3>1, <3>2, <3>3 DEF SizedFirst
  <2>6. CASE SetSharedFrameReadyEvent
    <3>1. initialized' = initialized /\ src = "signal" /\ src' = "idle"
      BY <2>6 DEF SetSharedFrameReadyEvent
    <3>2. QED
      BY <1>2, <2>3, <3>1 DEF SizedFirst
  <2>7. CASE \/ CaptureNext \/ ShareTexture \/ ShareTextureFail
             \/ LabelFrame \/ CopyTexture \/ StampFrame
    <3>1. initialized' = initialized /\ ready' = ready /\ (src # "idle" \/ initialized)
      BY <2>7
         DEF CaptureNext, ShareTexture, ShareTextureFail, LabelFrame, CopyTexture,
             StampFrame, memory
    <3>2. src # "info"
      BY <2>7
         DEF CaptureNext, ShareTexture, ShareTextureFail, LabelFrame, CopyTexture,
             StampFrame
    <3>3. QED
      BY <1>2, <2>3, <3>1, <3>2 DEF SizedFirst
  <2>8. QED
    BY <1>4, <2>4, <2>5, <2>6, <2>7 DEF Source
<1>5. QED
  BY <1>3, <1>4

\* The engine writes neither the description nor the event, but for the reset by
\* the wait.
LEMMA SizedFirstEngine ==
  ASSUME SizedFirst, Encoder \/ Io, LostOrNot
  PROVE  SizedFirst'
<1>1. UNCHANGED <<info, src, initialized>>
  BY DEF Encoder, WaitFirstFrame, WaitFrame, Wait, Exit, ExitForRestart, FreeEncoder,
         ReadInfo, OpenNoSize, OpenMapping, OpenMappingFail, ChooseSlot, OpenTexture,
         NoteTexture, EncodeFrame, CheckInfo, CheckInfoChanged,
         Io, Stop, RestartVideoEncoder, Joined, Run, memory, source
<1>2. Described => Described'
  BY <1>1 DEF Described, LostOrNot, Describing
<1>3. ready' => ready
  BY DEF Encoder, WaitFirstFrame, WaitFrame, Wait, Exit, ExitForRestart, FreeEncoder,
         ReadInfo, OpenNoSize, OpenMapping, OpenMappingFail, ChooseSlot, OpenTexture,
         NoteTexture, EncodeFrame, CheckInfo, CheckInfoChanged,
         Io, Stop, RestartVideoEncoder, Joined, Run, memory
<1>4. enc' = "read" => ready \/ enc = "read"
  BY DEF Encoder, WaitFirstFrame, WaitFrame, Wait, Exit, ExitForRestart, FreeEncoder,
         ReadInfo, OpenNoSize, OpenMapping, OpenMappingFail, ChooseSlot, OpenTexture,
         NoteTexture, EncodeFrame, CheckInfo, CheckInfoChanged,
         Io, Stop, RestartVideoEncoder, Joined, Run, reader
<1>5. QED
  BY <1>1, <1>2, <1>3, <1>4 DEF SizedFirst

\* The encoder never reads a description that has not been written, unless a capture
\* has failed to write it: neither a restart of the game nor a failed ShareTexture
\* lets the event come before it (Capture, EncodingThread).
THEOREM SizeIsLostByCaptureHolds == Spec => []SizeIsLostByCapture
<1>1. Init => Places /\ SizedFirst
  BY PlacesInit DEF Init, SizedFirst
<1>2. Places /\ SizedFirst /\ [Next]_vars => Places' /\ SizedFirst'
  <2>1. ASSUME SizedFirst, UNCHANGED vars \/ (DeviceCopy /\ LostOrNot)
        PROVE  SizedFirst'
    <3>1. UNCHANGED <<info, src, initialized, ready, enc>>
      BY <2>1, BesideStep DEF Beside, memory, source, reader
    <3>2. Described => Described'
      BY <2>1, <3>1 DEF Described, LostOrNot, Describing, vars
    <3>3. QED
      BY <2>1, <3>1, <3>2 DEF SizedFirst
  <2>2. QED
    BY <2>1, PlacesNext, SizedFirstSource, SizedFirstEngine DEF Next, LostOrNot
<1>3. SizedFirst => SizeIsLostByCapture
  BY DEF SizedFirst, Described, SizeIsLostByCapture
<1>4. QED
  BY <1>1, <1>2, <1>3, PTL DEF Spec
-----------------------------------------------------------------------------
(* The encoder's textures are those the slots name. *)

\* The game changes the name in a slot only where that is overtaking, or where the
\* encoder does not map the slots.
LEMMA HeldSource ==
  ASSUME Places, Held, Source, overtaken' = (overtaken \/ Overtaking')
  PROVE  Held'
<1>1. UNCHANGED <<enc, index, name, cache, enc_mapped>>
  BY DEF Source, Free, CaptureFirst, CaptureNext, WriteInfo, WriteInfoSize, ShareTexture,
         ShareTextureFail, LabelFrame, CopyTexture, StampFrame,
         SetSharedFrameReadyEvent, GameRestart, reader
<1>2. CASE LabelFrame \/ StampFrame
  <2>1. src \in {"label", "stamp"}
    BY <1>2 DEF LabelFrame, StampFrame
  <2>2. ASSUME enc \in {"lookup", "note"}, ~overtaken'
        PROVE  frames'[index].id = frames[index].id
    <3>1. index # turn
      BY <2>1, <2>2 DEF Held, Overtaking
    <3>2. QED
      BY <1>2, <3>1 DEF LabelFrame, StampFrame, Places, SharedOK, SourceOK, EncoderOK
  <2>3. QED
    BY <1>1, <2>2 DEF Held
<1>3. CASE GameRestart
  BY <1>1, <1>3 DEF GameRestart, Held
<1>4. CASE /\ Source
           /\ ~(LabelFrame \/ StampFrame \/ GameRestart)
  <2>1. UNCHANGED frames
    BY <1>4
       DEF Source, Free, CaptureFirst, CaptureNext, WriteInfo, WriteInfoSize,
           ShareTexture, ShareTextureFail, CopyTexture, SetSharedFrameReadyEvent, memory
  <2>2. QED
    BY <1>1, <2>1 DEF Held
<1>5. QED
  BY <1>2, <1>3, <1>4

\* The encoder notes what the slot names now for the texture it opened by the name
\* that was there before; only overtaking makes the two differ.
LEMMA HeldEncoder ==
  ASSUME Places, Held, Encoder, overtaken' = (overtaken \/ Overtaking')
  PROVE  Held'
<1> USE DEF Held, NoTexture, Slot
<1>1. CASE ChooseSlot
  BY <1>1 DEF ChooseSlot, memory, reader
<1>2. CASE OpenTexture
  BY <1>2 DEF OpenTexture, memory, reader
<1>3. CASE NoteTexture
  BY <1>3 DEF NoteTexture, memory, reader, Places, EncoderOK
<1>4. CASE EncodeFrame \/ ReadInfo \/ CheckInfo
  BY <1>4 DEF EncodeFrame, ReadInfo, CheckInfo, memory, reader
<1>5. CASE Exit
  <2>1. enc' = "exited" /\ cache' = NoCache
    BY <1>5 DEF Exit, FreeEncoder
  <2>2. \A i \in Slot : cache'[i].texture = NoTexture
    BY <2>1 DEF NoCache
  <2>3. QED
    BY <2>1, <2>2
<1>6. CASE (WaitFirstFrame \/ WaitFrame \/ OpenNoSize \/ OpenMapping) /\ ~Exit
  <2>1. CASE WaitFirstFrame \/ WaitFrame
    <3>1. UNCHANGED <<frames, index, name, cache, enc_mapped>>
      BY <1>6, <2>1 DEF WaitFirstFrame, WaitFrame, Wait
    <3>2. enc' = "read" \/ (enc' = "check" /\ enc = "wait")
      BY <1>6, <2>1 DEF WaitFirstFrame, WaitFrame, Wait
    <3>3. QED
      BY <3>1, <3>2
  <2>2. CASE OpenMapping
    <3>1. enc' = "choose" /\ enc_mapped' /\ cache' = cache
      BY <1>6, <2>2 DEF OpenMapping
    <3>2. QED
      BY <3>1
  <2>3. QED
    BY <1>6, <2>1, <2>2 DEF OpenNoSize
<1>7. CASE OpenMappingFail \/ CheckInfoChanged
  BY <1>7 DEF OpenMappingFail, CheckInfoChanged, ExitForRestart, memory
<1>8. QED
  BY <1>1, <1>2, <1>3, <1>4, <1>5, <1>6, <1>7 DEF Encoder

LEMMA HeldIo ==
  ASSUME Held, Io, overtaken' = (overtaken \/ Overtaking')
  PROVE  Held'
<1> USE DEF Held, NoTexture, Slot, memory, reader
<1>1. CASE Stop \/ RestartVideoEncoder
  BY <1>1 DEF Stop, RestartVideoEncoder
<1>2. CASE Joined
  BY <1>2 DEF Joined, FreeEncoder, NoCache
<1>3. CASE Run
  BY <1>3 DEF Run
<1>4. QED
  BY <1>1, <1>2, <1>3 DEF Io

LEMMA HeldBeside ==
  ASSUME Held, UNCHANGED vars \/ (DeviceCopy /\ overtaken' = (overtaken \/ Overtaking'))
  PROVE  Held' /\ (overtaken' <=> overtaken)
<1>1. UNCHANGED <<src, turn, frames, enc, index, name, cache, enc_mapped>>
  BY BesideStep DEF Beside, memory, source, reader
<1>2. Overtaking' <=> Overtaking
  BY <1>1 DEF Overtaking
<1>3. overtaken' <=> overtaken
  <2>1. CASE UNCHANGED vars
    BY <2>1 DEF vars
  <2>2. CASE overtaken' = (overtaken \/ Overtaking')
    BY <1>2, <2>2 DEF Held
  <2>3. QED
    BY <2>1, <2>2
<1>4. QED
  BY <1>1, <1>2, <1>3 DEF Held

\* Unless the game has overtaken the encoder, the texture the encoder keeps for a
\* slot is the one that slot names, through resizing and restarts of the game
\* (GetSharedTexture, ShareTexture).
THEOREM CacheIsCurrentHolds == Spec => []CacheIsCurrent
<1>1. Init => Places /\ Held
  BY PlacesInit DEF Init, Held, Overtaking, NoCache, NoTexture, Slot
<1>2. Places /\ Held /\ [Next]_vars => Places' /\ Held'
  <2>1. ASSUME Held, \/ UNCHANGED vars
                     \/ DeviceCopy /\ overtaken' = (overtaken \/ Overtaking')
        PROVE  Held'
    BY <2>1, HeldBeside
  <2>2. QED
    BY <2>1, PlacesNext, HeldSource, HeldEncoder, HeldIo DEF Next
<1>3. Held => CacheIsCurrent
  BY DEF Held, CacheIsCurrent
<1>4. QED
  BY <1>1, <1>2, <1>3, PTL DEF Spec
-----------------------------------------------------------------------------
(* No change of size is missed. *)

Empty == \A i \in Slot : shared[i] = NoTexture

\* What SizeFollowed depends on: the game holds textures of its present size only
\* and holds none while it writes the description, so that a description the
\* encoder has not seen is followed by the event, if the game has one.
Sized ==
  /\ \A i \in Slot : shared[i] # NoTexture =>
       /\ shared[i] < texture_id /\ texture_size[shared[i]] = size
       /\ initialized /\ src_mapped
  /\ src # "idle" => initialized
  /\ src \in {"info", "size"} => Empty
  /\ initialized /\ src \notin {"info", "size"} /\ ~undescribed => info = size
  /\ enc \in {"open", "choose", "lookup", "note", "encode", "wait"} /\ info # saved =>
       ready \/ ~event_open \/ Empty \/ src \in {"label", "copy", "stamp", "signal"}

LEMMA SizedSource ==
  ASSUME Places, Sized, Source, LostOrNot
  PROVE  Sized'
<1> USE DEF Sized, Empty, memory, gpu, mapped, reader, Slot, NoTexture
<1>1. UNCHANGED <<enc, saved>>
  BY DEF Source, Free, CaptureFirst, CaptureNext, WriteInfo, WriteInfoSize, ShareTexture,
         ShareTextureFail, LabelFrame, CopyTexture, StampFrame,
         SetSharedFrameReadyEvent, GameRestart
<1>2. CASE Free \/ GameRestart
  BY <1>1, <1>2 DEF Free, GameRestart, NoShared
<1>3. CASE CaptureFirst
  BY <1>1, <1>3 DEF CaptureFirst, LostOrNot, Undescribing, Describing
<1>4. CASE WriteInfo
  BY <1>1, <1>4 DEF WriteInfo, LostOrNot, Undescribing, Describing
<1>5. CASE WriteInfoSize
  BY <1>1, <1>5 DEF WriteInfoSize, LostOrNot, Undescribing, Describing
<1>6. CASE ShareTexture
  <2>1. /\ UNCHANGED <<info, size, initialized, ready>>
        /\ (undescribed' <=> undescribed)
    BY <1>6 DEF ShareTexture, LostOrNot, Undescribing, Describing
  <2>2. src = "share" /\ src' \in {"label", "copy"} /\ src_mapped'
    BY <1>6 DEF ShareTexture
  <2>3. CASE src' = "copy"
    <3>1. UNCHANGED <<shared, texture_id, texture_size>>
      BY <1>6, <2>3 DEF ShareTexture
    <3>2. QED
      BY <1>1, <2>1, <2>2, <3>1
  <2>4. CASE src' = "label"
    <3>1. /\ shared' = [shared EXCEPT ![turn] = texture_id]
          /\ texture_size' = [texture_size EXCEPT ![texture_id] = size]
          /\ texture_id' = texture_id + 1
      BY <1>6, <2>4 DEF ShareTexture
    <3>2. texture_id \in Texture
      BY <2>2, BoundAssumption DEF Places, Named, SourceOK, Texture
    <3>3. ASSUME NEW i \in Slot, shared'[i] # NoTexture
          PROVE  shared'[i] < texture_id' /\ texture_size'[shared'[i]] = size
      <4>1. CASE i = turn
        BY <3>1, <3>2, <4>1 DEF Places, SharedOK, SourceOK, Texture
      <4>2. CASE i # turn
        <5>1. shared'[i] = shared[i]
          BY <3>1, <4>2 DEF Places, SourceOK
        <5>2. shared[i] \in Texture /\ shared[i] < texture_id
          BY <3>3, <5>1 DEF Places, SourceOK, TextureOrNone
        <5>3. shared[i] # texture_id
          BY <3>2, <5>2 DEF Texture
        <5>4. texture_size'[shared[i]] = texture_size[shared[i]]
          BY <3>1, <5>2, <5>3 DEF Places, SharedOK
        <5>5. QED
          BY <3>1, <3>2, <3>3, <5>1, <5>2, <5>4 DEF Texture
      <4>3. QED
        BY <4>1, <4>2
    <3>4. QED
      BY <1>1, <2>1, <2>2, <2>4, <3>3
  <2>5. QED
    BY <2>2, <2>3, <2>4
<1>7. CASE CaptureNext \/ ShareTextureFail \/ LabelFrame \/ CopyTexture \/ StampFrame
  <2>1. /\ UNCHANGED <<info, ready, size, initialized, shared, texture_id, texture_size>>
        /\ (undescribed' <=> undescribed)
        /\ UNCHANGED mapped \/ (~src_mapped /\ src_mapped')
    BY <1>7 DEF CaptureNext, ShareTextureFail, LabelFrame, CopyTexture, StampFrame,
                LostOrNot, Undescribing, Describing
  <2>2. /\ src # "idle" \/ initialized
        /\ src \notin {"info", "size"} /\ src' \notin {"info", "size"}
        /\ src \in {"label", "copy", "stamp", "signal"}
             => src' \in {"label", "copy", "stamp", "signal"}
    BY <1>7 DEF CaptureNext, ShareTextureFail, LabelFrame, CopyTexture, StampFrame
  <2>3. QED
    BY <1>1, <2>1, <2>2
<1>8. CASE SetSharedFrameReadyEvent
  BY <1>1, <1>8 DEF SetSharedFrameReadyEvent, LostOrNot, Undescribing, Describing
<1>9. QED
  BY <1>2, <1>3, <1>4, <1>5, <1>6, <1>7, <1>8 DEF Source

LEMMA SizedEngine ==
  ASSUME Sized, Encoder \/ Io, LostOrNot
  PROVE  Sized'
<1>1. /\ UNCHANGED <<info, src, size, initialized, shared, texture_id, texture_size>>
      /\ UNCHANGED mapped
  BY DEF Encoder, WaitFirstFrame, WaitFrame, Wait, Exit, ExitForRestart, FreeEncoder,
         ReadInfo, OpenNoSize, OpenMapping, OpenMappingFail, ChooseSlot, OpenTexture,
         NoteTexture, EncodeFrame, CheckInfo, CheckInfoChanged,
         Io, Stop, RestartVideoEncoder, Joined, Run, memory, gpu, source, mapped
<1>0. undescribed' <=> undescribed
  BY <1>1 DEF LostOrNot, Undescribing, Describing
<1>2. enc' \in {"open", "choose", "lookup", "note", "encode", "wait"} /\ info # saved' =>
        /\ enc \in {"open", "choose", "lookup", "note", "encode", "wait"}
        /\ saved' = saved /\ ready' = ready
  BY DEF Encoder, WaitFirstFrame, WaitFrame, Wait, Exit, ExitForRestart, FreeEncoder,
         ReadInfo, OpenNoSize, OpenMapping, OpenMappingFail, ChooseSlot, OpenTexture,
         NoteTexture, EncodeFrame, CheckInfo, CheckInfoChanged,
         Io, Stop, RestartVideoEncoder, Joined, Run, memory, reader
<1>3. QED
  BY <1>0, <1>1, <1>2 DEF Sized, Empty, mapped

LEMMA SizedInvariant == Spec => [](Places /\ Sized)
<1>1. Init => Places /\ Sized
  BY PlacesInit DEF Init, Sized, Empty, NoShared
<1>2. Places /\ Sized /\ [Next]_vars => Places' /\ Sized'
  <2>1. ASSUME Sized, UNCHANGED vars \/ (DeviceCopy /\ LostOrNot)
        PROVE  Sized'
    <3>1. Beside
      BY <2>1, BesideStep
    <3>2. undescribed' <=> undescribed
      <4>1. ~Undescribing /\ ~Describing
        BY <3>1 DEF Undescribing, Describing, Beside, source
      <4>2. CASE UNCHANGED vars
        BY <4>2 DEF vars
      <4>3. CASE LostOrNot
        BY <4>1, <4>3 DEF LostOrNot
      <4>4. QED
        BY <2>1, <4>2, <4>3
    <3>3. QED
      BY <2>1, <3>1, <3>2 DEF Sized, Empty, Beside, memory, source, mapped, reader
  <2>2. QED
    BY <2>1, PlacesNext, SizedSource, SizedEngine DEF Next, LostOrNot
<1>3. QED
  BY <1>1, <1>2, PTL DEF Spec

\* An encoder that sleeps has been opened with the size of the latest picture,
\* whatever sizes the game has gone through and whoever has restarted, as long as
\* the game's event could be created (EncodingThread, Capture).
THEOREM SizeFollowedHolds == Spec => []SizeFollowed
<1>1. Places /\ Sized => SizeFollowed
  BY DEF Places, SharedOK, Sized, Empty, SizeFollowed, AtRest, LatestIsHeld, Latest, Slot
<1>2. QED
  BY <1>1, SizedInvariant, PTL
-----------------------------------------------------------------------------
(* No picture is missed. *)

Writing == src \in {"label", "copy", "stamp"}

\* A slot that holds a texture names it and says when it was written, except the
\* one being written; no two slots hold the same texture.
Stamped ==
  /\ \A i \in Slot : shared[i] # NoTexture => shared[i] < texture_id /\ src_mapped
  /\ \A i \in Slot : frames[i].id < texture_id
  /\ shared[0] = shared[1] => shared[0] = NoTexture
  /\ Writing => shared[turn] # NoTexture
  /\ src = "label" => frames[turn].id # shared[turn]
  /\ src = "stamp" => picture[shared[turn]] = tick
  /\ \A i \in Slot : shared[i] # NoTexture /\ ~(src = "label" /\ i = turn) =>
       frames[i].id = shared[i]
  /\ \A i \in Slot : shared[i] # NoTexture /\ ~(Writing /\ i = turn) =>
       picture[shared[i]] = frames[i].timestamp

\* Unless another event is coming, the encoder has encoded the latest picture, or
\* is about to.
Awake ==
  \/ ready \/ src \in {"copy", "stamp", "signal"}
  \/ overtaken \/ ~event_open \/ ~LatestIsHeld
Following ==
  /\ enc = "wait" => Awake \/ encoded = frames[Latest].timestamp \/ early
  /\ enc \in {"lookup", "note", "encode"} => Awake \/ index = Latest
  /\ enc = "encode" => Awake \/ cache[index].texture = frames[index].id

\* What becomes of the history.
History ==
  /\ overtaken' = (overtaken \/ Overtaking')
  /\ early' = (enc' = "wait" /\ (early \/ Unfinished))

LEMMA StampedSource ==
  ASSUME Places, Stamped, Source
  PROVE  Stamped'
<1> USE BoundAssumption
    DEF Places, SharedOK, SourceOK, Named, Stamped, Writing, memory, gpu, mapped, Slot,
        NoTexture, TextureOrNone
<1>1. CASE Free \/ GameRestart
  BY <1>1 DEF Free, GameRestart, NoShared, NoFrames
<1>2. CASE \/ CaptureFirst \/ CaptureNext \/ WriteInfo \/ WriteInfoSize
           \/ ShareTextureFail
  <2>1. /\ UNCHANGED <<frames, picture, turn, shared, texture_id>>
        /\ src \notin {"label", "copy", "stamp"} /\ src' \notin {"label", "copy", "stamp"}
    BY <1>2 DEF CaptureFirst, CaptureNext, WriteInfo, WriteInfoSize, ShareTextureFail
  <2>2. src_mapped => src_mapped'
    BY <1>2 DEF CaptureFirst, CaptureNext, WriteInfo, WriteInfoSize, ShareTextureFail
  <2>3. QED
    BY <2>1, <2>2
<1>3. CASE ShareTexture
  <2>1. CASE src' = "copy"
    BY <1>3, <2>1 DEF ShareTexture
  <2>2. CASE src' = "label"
    <3>1. /\ shared' = [shared EXCEPT ![turn] = texture_id]
          /\ texture_id' = texture_id + 1 /\ src_mapped'
          /\ UNCHANGED <<frames, picture, turn, tick>> /\ src = "share"
      BY <1>3, <2>2 DEF ShareTexture
    <3>2. texture_id \in Nat \ {0} /\ turn \in Slot /\ shared'[turn] = texture_id
      BY <3>1
    <3>3. \A i \in Slot : i # turn => shared'[i] = shared[i] /\ shared[i] < texture_id
      BY <3>1, <3>2
    <3>4. \A i \in Slot : frames[i].id < texture_id /\ frames[i].id \in Nat
      <4>1. \A i \in Slot : frames[i] \in [id : TextureOrNone, timestamp : 0..MaxTicks]
        OBVIOUS
      <4>2. \A i \in Slot : frames[i].id \in Nat
        BY <4>1 DEF Texture
      <4>3. QED
        BY <4>2
    <3>5. \A i \in Slot : shared'[i] # NoTexture => shared'[i] < texture_id' /\ src_mapped'
      <4>1. \A i \in Slot : shared[i] \in Nat
        BY DEF Texture
      <4>2. \A i \in Slot : shared'[i] < texture_id'
        BY <3>1, <3>2, <3>3, <4>1
      <4>3. QED
        BY <3>1, <4>2
    <3>6. /\ \A i \in Slot : frames'[i].id < texture_id'
          /\ shared'[0] = shared'[1] => shared'[0] = NoTexture
          /\ shared'[turn'] # NoTexture
          /\ frames'[turn'].id # shared'[turn']
      BY <3>1, <3>2, <3>3, <3>4
    <3>7. \A i \in Slot : shared'[i] # NoTexture /\ ~(src' = "label" /\ i = turn') =>
            frames'[i].id = shared'[i]
      BY <2>2, <3>1, <3>3
    <3>8. \A i \in Slot : shared'[i] # NoTexture /\ ~(Writing' /\ i = turn') =>
            picture'[shared'[i]] = frames'[i].timestamp
      BY <2>2, <3>1, <3>3
    <3>9. QED
      BY <2>2, <3>5, <3>6, <3>7, <3>8
  <2>3. QED
    BY <1>3, <2>1, <2>2 DEF ShareTexture
<1>4. CASE LabelFrame
  BY <1>4 DEF LabelFrame
<1>5. CASE CopyTexture
  BY <1>5 DEF CopyTexture
<1>6. CASE StampFrame
  BY <1>6 DEF StampFrame
<1>7. CASE SetSharedFrameReadyEvent
  BY <1>7 DEF SetSharedFrameReadyEvent
<1>8. QED
  BY <1>1, <1>2, <1>3, <1>4, <1>5, <1>6, <1>7 DEF Source

\* The engine may be the last to map the slots, and then the game holds no texture.
LEMMA StampedEngine ==
  ASSUME Places, Stamped, Encoder \/ Io
  PROVE  Stamped'
<1>1. /\ UNCHANGED <<src, turn, shared, texture_id, tick, src_mapped, picture>>
      /\ frames' \in {frames, IF src_mapped THEN frames ELSE NoFrames}
  BY DEF Encoder, WaitFirstFrame, WaitFrame, Wait, Exit, ExitForRestart, FreeEncoder,
         ReadInfo, OpenNoSize, OpenMapping, OpenMappingFail, ChooseSlot, OpenTexture,
         NoteTexture, EncodeFrame, CheckInfo, CheckInfoChanged,
         Io, Stop, RestartVideoEncoder, Joined, Run, memory, gpu, source, mapped
<1>2. CASE frames' = frames
  BY <1>1, <1>2 DEF Stamped, Writing
<1>3. CASE frames' = NoFrames /\ ~src_mapped
  <2>1. \A i \in Slot : shared[i] = NoTexture
    BY <1>3 DEF Stamped
  <2>2. \A i \in Slot : frames'[i].id < texture_id
    BY <1>3 DEF NoFrames, NoTexture, Places, SourceOK
  <2>3. turn \in Slot
    BY DEF Places, SourceOK
  <2>4. QED
    BY <1>1, <2>1, <2>2, <2>3 DEF Stamped, Writing
<1>4. QED
  BY <1>1, <1>2, <1>3 DEF Stamped

\* The game: what it writes is followed by the event.
LEMMA FollowingSource ==
  ASSUME Places, Stamped, Following, Source, History
  PROVE  Following'
<1>1. UNCHANGED <<enc, index, cache, encoded>>
  BY DEF Source, Free, CaptureFirst, CaptureNext, WriteInfo, WriteInfoSize, ShareTexture,
         ShareTextureFail, LabelFrame, CopyTexture, StampFrame,
         SetSharedFrameReadyEvent, GameRestart, reader
<1>0. enc = "wait" /\ early => early'
  BY <1>1 DEF History
<1>2. CASE Awake'
  BY <1>2 DEF Following
<1>3. CASE ~Awake'
  <2>0. overtaken' <=> overtaken
    BY <1>3 DEF Awake, History
  <2>1. UNCHANGED frames /\ ~Awake
    <3>1. CASE Free \/ GameRestart
      <4>1. ~LatestIsHeld'
        BY <3>1 DEF Free, GameRestart, NoShared, LatestIsHeld, Latest, Slot
      <4>2. QED
        BY <1>3, <4>1 DEF Awake
    <3>2. CASE \/ CaptureFirst \/ CaptureNext \/ WriteInfo \/ WriteInfoSize
               \/ ShareTextureFail
      <4>1. /\ UNCHANGED <<frames, ready, shared>>
            /\ src \notin {"copy", "stamp", "signal"}
            /\ UNCHANGED mapped \/ ~src_mapped
        BY <3>2 DEF CaptureFirst, CaptureNext, WriteInfo, WriteInfoSize,
                    ShareTextureFail, memory
      <4>2. LatestIsHeld /\ Latest \in Slot
        <5>1. LatestIsHeld' /\ Latest \in Slot
          BY <1>3 DEF Awake, Latest, Slot
        <5>2. Latest' = Latest
          BY <4>1 DEF Latest
        <5>3. QED
          BY <4>1, <5>1, <5>2 DEF LatestIsHeld
      <4>3. src_mapped
        BY <4>2 DEF LatestIsHeld, Stamped
      <4>4. QED
        BY <1>3, <2>0, <4>1, <4>2, <4>3 DEF Awake, mapped
    <3>3. CASE ShareTexture
      <4>1. src' = "label" /\ src = "share"
        BY <1>3, <3>3 DEF ShareTexture, Awake
      <4>2. /\ shared' = [shared EXCEPT ![turn] = texture_id]
            /\ UNCHANGED <<frames, ready>>
            /\ event_open' = (event_open \/ ~src_mapped)
        BY <3>3, <4>1 DEF ShareTexture, memory
      <4>3. LatestIsHeld' /\ Latest' = Latest /\ Latest \in Slot
        BY <1>3, <4>2 DEF Awake, Latest, Slot
      <4>4. Latest # turn
        BY <4>2, <4>3 DEF LatestIsHeld, Stamped, Places, SourceOK, SharedOK
      <4>5. LatestIsHeld
        BY <4>2, <4>3, <4>4 DEF LatestIsHeld, Places, SourceOK
      <4>6. src_mapped
        BY <4>3, <4>5 DEF LatestIsHeld, Stamped
      <4>7. QED
        BY <1>3, <2>0, <4>1, <4>2, <4>5, <4>6 DEF Awake
    <3>4. CASE \/ LabelFrame \/ CopyTexture \/ StampFrame \/ SetSharedFrameReadyEvent
      BY <1>3, <3>4 DEF LabelFrame, CopyTexture, StampFrame, SetSharedFrameReadyEvent,
                        Awake, mapped
    <3>5. QED
      BY <3>1, <3>2, <3>3, <3>4 DEF Source
  <2>2. Latest' = Latest
    BY <2>1 DEF Latest
  <2>3. QED
    BY <1>0, <1>1, <2>1, <2>2 DEF Following
<1>4. QED
  BY <1>2, <1>3

\* The encoder: it goes to sleep having encoded the slot it chose, or having found
\* that the game does not hold that slot's texture any more.
LEMMA FollowingEncoder ==
  ASSUME Places, Stamped, Held, Following, Encoder, History
  PROVE  Following'
<1>0. overtaken => overtaken'
  BY DEF History
<1>1. UNCHANGED <<src, shared, turn, picture, event_open>>
  BY DEF Encoder, WaitFirstFrame, WaitFrame, Wait, Exit, ExitForRestart, FreeEncoder,
         ReadInfo, OpenNoSize, OpenMapping, OpenMappingFail, ChooseSlot, OpenTexture,
         NoteTexture, EncodeFrame, CheckInfo, CheckInfoChanged, gpu, source, mapped
<1>2. CASE ChooseSlot \/ OpenTexture \/ NoteTexture \/ EncodeFrame
  <2>1. UNCHANGED <<frames, ready>>
    BY <1>2 DEF ChooseSlot, OpenTexture, NoteTexture, EncodeFrame, memory
  <2>2. Latest' = Latest /\ (LatestIsHeld' <=> LatestIsHeld) /\ (Awake => Awake')
    BY <1>0, <1>1, <2>1 DEF Latest, LatestIsHeld, Awake
  <2>3. CASE Awake'
    BY <2>3 DEF Following
  <2>4. CASE ~Awake'
    <3>1. /\ ~Awake /\ ~overtaken /\ LatestIsHeld /\ Latest \in Slot
          /\ src \notin {"copy", "stamp", "signal"}
      BY <2>2, <2>4 DEF Awake, Latest, Slot
    <3>2. CASE ChooseSlot
      <4>1. index' = Latest /\ cache' = cache /\ enc' \in {"lookup", "encode"}
        BY <3>2 DEF ChooseSlot, Latest
      <4>2. enc' = "encode" => cache[Latest].texture # NoTexture
                               /\ cache[Latest].id = frames[Latest].id
        BY <3>2 DEF ChooseSlot, Latest
      <4>3. enc' = "encode" => cache[Latest].texture = frames[Latest].id
        BY <3>1, <4>2 DEF Held
      <4>4. QED
        BY <2>1, <2>2, <4>1, <4>3 DEF Following
    <3>3. CASE OpenTexture
      <4>1. enc = "lookup" /\ index = Latest /\ index' = index
        BY <3>1, <3>3 DEF OpenTexture, Following
      <4>2. frames[Latest].id = name
        BY <3>1, <4>1 DEF Held
      <4>3. enc' = "note"
        BY <3>1, <3>3, <4>2 DEF OpenTexture, LatestIsHeld
      <4>4. QED
        BY <2>2, <4>1, <4>3 DEF Following
    <3>4. CASE NoteTexture
      <4>1. enc = "note" /\ enc' = "encode" /\ index = Latest /\ index' = index
        BY <3>1, <3>4 DEF NoteTexture, Following
      <4>2. frames[Latest].id = name
        BY <3>1, <4>1 DEF Held
      <4>3. cache'[Latest].texture = name
        BY <3>1, <3>4, <4>1 DEF NoteTexture, Places, EncoderOK
      <4>4. QED
        BY <2>1, <2>2, <4>1, <4>2, <4>3 DEF Following
    <3>5. CASE EncodeFrame
      <4>1. /\ enc' = "wait" /\ index = Latest
            /\ cache[index].texture = frames[index].id
            /\ encoded' = shows[cache[index].texture]
            /\ ~early' => shows[cache[index].texture] = picture[cache[index].texture]
        BY <3>1, <3>5 DEF EncodeFrame, Following, History, Unfinished
      <4>2. /\ ~early' => encoded' = picture[shared[Latest]]
            /\ shared[Latest] # NoTexture
        BY <3>1, <4>1 DEF LatestIsHeld
      <4>3. ~(Writing /\ Latest = turn)
        BY <3>1 DEF Writing, Stamped, LatestIsHeld
      <4>4. ~early' => encoded' = frames[Latest].timestamp
        BY <3>1, <4>2, <4>3 DEF Stamped
      <4>5. QED
        BY <2>1, <2>2, <4>1, <4>4 DEF Following
    <3>6. QED
      BY <1>2, <3>2, <3>3, <3>4, <3>5
  <2>5. QED
    BY <2>3, <2>4
<1>3. CASE Encoder /\ ~(ChooseSlot \/ OpenTexture \/ NoteTexture \/ EncodeFrame)
  <2>1. enc' \notin {"lookup", "note", "encode", "wait"}
    BY <1>3
       DEF Encoder, WaitFirstFrame, WaitFrame, Wait, Exit, ExitForRestart, ReadInfo,
           OpenNoSize, OpenMapping, OpenMappingFail, CheckInfo, CheckInfoChanged
  <2>2. QED
    BY <2>1 DEF Following
<1>4. QED
  BY <1>2, <1>3

LEMMA FollowingIo ==
  ASSUME Following, Io, History
  PROVE  Following'
<1>1. CASE Stop \/ RestartVideoEncoder
  <2>1. UNCHANGED <<frames, ready, src, shared, event_open, enc, index, cache, encoded>>
    BY <1>1 DEF Stop, RestartVideoEncoder, memory, source, mapped, reader
  <2>2. Latest' = Latest /\ (Awake => Awake') /\ (early /\ enc = "wait" => early')
    BY <2>1 DEF Awake, Latest, LatestIsHeld, History
  <2>3. QED
    BY <2>1, <2>2 DEF Following
<1>2. CASE Joined \/ Run
  BY <1>2 DEF Joined, Run, Following
<1>3. QED
  BY <1>1, <1>2 DEF Io

LEMMA FollowingBeside ==
  ASSUME Held, Following, UNCHANGED vars \/ (DeviceCopy /\ History)
  PROVE  Following'
<1>1. UNCHANGED <<frames, ready, src, shared, event_open, enc, index, cache, encoded>>
  BY BesideStep DEF Beside, memory, source, mapped, reader
<1>2. overtaken' <=> overtaken
  BY HeldBeside DEF History
<1>3. enc = "wait" /\ early => early'
  BY <1>1 DEF History, vars
<1>4. QED
  BY <1>1, <1>2, <1>3 DEF Following, Awake, LatestIsHeld, Latest

LEMMA StampedBeside ==
  ASSUME Stamped, Beside
  PROVE  Stamped'
BY DEF Stamped, Writing, Beside, memory, source, mapped

\* An encoder that sleeps while the game holds its latest picture has encoded it,
\* although the auto-reset event does not count pictures: unless the game overtook
\* the encoder in a slot, had no event, or was ahead of the device that copies the
\* pictures (SetSharedFrameReadyEvent, GetSharedTexture, EncodeFrame).
THEOREM PictureFollowedHolds == Spec => []PictureFollowed
<1> DEFINE IInv == Places /\ Held /\ Stamped /\ Following
<1>1. Init => IInv
  <2>1. Init => Held
    BY DEF Init, Held, Overtaking, NoCache, NoTexture, Slot
  <2>2. Init => Stamped /\ Following
    BY DEF Init, Stamped, Following, Writing, NoFrames, NoShared, NoTexture, Slot
  <2>3. QED
    BY <2>1, <2>2, PlacesInit
<1>2. IInv /\ [Next]_vars => IInv'
  <2>1. ASSUME Held, Stamped, Following, UNCHANGED vars \/ (DeviceCopy /\ History)
        PROVE  Held' /\ Stamped' /\ Following'
    BY <2>1, BesideStep, HeldBeside, StampedBeside, FollowingBeside DEF History
  <2>2. ASSUME IInv, Source \/ Encoder \/ Io, History
        PROVE  Held' /\ Stamped' /\ Following'
    BY <2>2, HeldSource, HeldEncoder, HeldIo, StampedSource, StampedEngine,
       FollowingSource, FollowingEncoder, FollowingIo DEF History
  <2>3. QED
    BY <2>1, <2>2, PlacesNext DEF Next, History
<1>3. IInv => PictureFollowed
  BY DEF Following, Awake, PictureFollowed, AtRest
<1>4. QED
  BY <1>1, <1>2, <1>3, PTL DEF Spec
-----------------------------------------------------------------------------
(* No picture is shown after a later one. *)

Time(i) == frames[i].timestamp

\* The slots' timestamps and ids, and that the game writes over the earlier of its
\* two pictures, although it does not count on in the slots of the game before it.
Ordered ==
  /\ \A i \in Slot : Time(i) <= tick
  /\ \A t \in Texture : picture[t] <= tick
  /\ src \in {"info", "size", "share", "label", "copy", "stamp"} =>
       \A i \in Slot : Time(i) < tick
  /\ src = "signal" => Time(turn) = tick /\ Time(1 - turn) < tick /\ src_mapped
  /\ frames[0].id = frames[1].id => frames[0].id = NoTexture
  /\ src = "label" => \A i \in Slot : frames[i].id # shared[turn]
  /\ \A i \in Slot : shared[i] # NoTexture /\ ~(Writing /\ i = turn) => Time(i) # 0
  /\ src \in {"idle", "info", "size", "share"} /\ shared[turn] # NoTexture =>
       Time(turn) < Time(1 - turn)

\* What the encoder has noted is not what the game names next.
Noted ==
  /\ \A i \in Slot : cache[i].id < texture_id
  /\ src = "label" => cache[turn].id # shared[turn]
  /\ encoded <= tick

\* A texture shows nothing later than the latest copy into it.
Copied ==
  /\ \A t \in Texture : shows[t] <= picture[t]
  /\ \A k \in 1..MaxTicks : queued[k] # NoTexture => k <= picture[queued[k]]

\* What NeverBackwards depends on: a texture that the encoder has for a slot shows
\* the slot's picture, or the other slot has a later one; and the slot it has
\* chosen is as late as what it has encoded, unless no texture can be in it.
Match(i) == cache[i].texture # NoTexture /\ cache[i].id = frames[i].id
Shown(i) == picture[cache[i].texture] = Time(i) \/ Time(i) < Time(1 - i)
Chosen ==
  /\ enc \in {"lookup", "note", "encode"} => Time(index) >= encoded \/ Time(index) = 0
  /\ enc = "note" => Time(index) # 0 /\ picture[name] = Time(index)
  /\ enc = "encode" =>
       /\ Time(index) # 0 /\ picture[cache[index].texture] = Time(index)
       /\ cache[index].texture = frames[index].id
Reached == (\A i \in Slot : Time(i) = 0) \/ (\E i \in Slot : encoded <= Time(i))
Matching ==
  /\ \A i \in Slot : Match(i) => Time(i) # 0 /\ Shown(i)
  /\ src = "copy" /\ Match(turn) => Time(turn) < Time(1 - turn)
Onward == ~overtaken => Matching /\ Chosen /\ Reached

LEMMA FrameTypes ==
  ASSUME Places
  PROVE  /\ \A i \in Slot : Time(i) \in Nat /\ frames[i].id \in Nat /\ shared[i] \in Nat
         /\ \A i \in Slot : cache[i].id \in Nat /\ cache[i].texture \in TextureOrNone
         /\ tick \in Nat /\ turn \in Slot /\ texture_id \in Nat \ {0}
         /\ encoded \in Nat /\ index \in Slot
         /\ \A t \in Texture : picture[t] \in Nat
<1>1. \A i \in Slot : frames[i] \in [id : TextureOrNone, timestamp : 0..MaxTicks]
  BY DEF Places, SharedOK
<1>2. \A i \in Slot : cache[i] \in [id : TextureOrNone, texture : TextureOrNone]
  BY DEF Places, EncoderOK
<1>3. TextureOrNone \subseteq Nat
  BY BoundAssumption DEF TextureOrNone, Texture, NoTexture
<1>4. /\ \A i \in Slot : Time(i) \in Nat /\ frames[i].id \in Nat
      /\ \A i \in Slot : cache[i].id \in Nat /\ cache[i].texture \in TextureOrNone
  <2>1. \A i \in Slot : Time(i) \in Nat /\ frames[i].id \in Nat
    <3>1. \A i \in Slot : frames[i].timestamp \in 0..MaxTicks /\ frames[i].id \in TextureOrNone
      BY <1>1
    <3>2. \A i \in Slot : frames[i].id \in Nat
      BY <1>3, <3>1
    <3>3. \A i \in Slot : frames[i].timestamp \in Nat
      BY <3>1, BoundAssumption
    <3>4. QED
      BY <3>2, <3>3 DEF Time
  <2>2. \A i \in Slot : cache[i].id \in TextureOrNone /\ cache[i].texture \in TextureOrNone
    BY <1>2
  <2>3. QED
    BY <1>3, <2>1, <2>2
<1>5. /\ tick \in Nat /\ turn \in Slot /\ encoded \in Nat /\ index \in Slot
      /\ \A t \in Texture : picture[t] \in Nat
  BY BoundAssumption DEF Places, SharedOK, SourceOK, EncoderOK
<1>6. texture_id \in Nat \ {0}
  BY <1>5 DEF Places, SourceOK
<1>7. \A i \in Slot : shared[i] \in Nat
  BY <1>3 DEF Places, SourceOK
<1>8. QED
  BY <1>4, <1>5, <1>6, <1>7

LEMMA ShowsTypes ==
  ASSUME Places
  PROVE  /\ \A t \in Texture : shows[t] \in Nat
         /\ \A k \in 1..MaxTicks : queued[k] # NoTexture => queued[k] \in Texture
BY BoundAssumption DEF Places, DeviceOK, TextureOrNone

LEMMA CopiedSource ==
  ASSUME Places, Ordered, Copied, Source
  PROVE  Copied'
<1>1. CASE CopyTexture
  <2>1. /\ picture' = [picture EXCEPT ![shared[turn]] = tick]
        /\ queued' = [queued EXCEPT ![tick] = shared[turn]]
        /\ shows' = shows
    BY <1>1 DEF CopyTexture
  <2>2. \A t \in Texture : picture[t] <= picture'[t] /\ picture'[t] \in Nat
    BY <2>1, FrameTypes DEF Places, SharedOK, Ordered
  <2>3. \A t \in Texture : shows[t] <= picture'[t]
    BY <2>2, FrameTypes, ShowsTypes DEF Copied
  <2>4. ASSUME NEW k \in 1..MaxTicks, queued'[k] # NoTexture
        PROVE  k <= picture'[queued'[k]]
    <3>1. CASE k = tick
      <4>1. queued'[k] = shared[turn]
        BY <2>1, <3>1 DEF Places, DeviceOK
      <4>2. shared[turn] \in Texture
        BY <2>4, <4>1, FrameTypes DEF Places, SourceOK, TextureOrNone
      <4>3. picture'[shared[turn]] = tick
        BY <2>1, <4>2 DEF Places, SharedOK
      <4>4. QED
        BY <3>1, <4>1, <4>3, FrameTypes
    <3>2. CASE k # tick
      <4>1. queued'[k] = queued[k]
        BY <2>1, <3>2 DEF Places, DeviceOK
      <4>2. queued[k] \in Texture
        BY <2>4, <4>1, ShowsTypes
      <4>3. k <= picture[queued[k]]
        BY <2>4, <4>1 DEF Copied
      <4>4. QED
        BY <2>2, <4>1, <4>2, <4>3, FrameTypes
    <3>3. QED
      BY <3>1, <3>2
  <2>5. QED
    BY <2>1, <2>3, <2>4 DEF Copied
<1>2. CASE GameRestart
  BY <1>2 DEF GameRestart, NoCopies, Copied
<1>3. CASE Source /\ ~CopyTexture /\ ~GameRestart
  <2>1. UNCHANGED <<picture, shows, queued>>
    BY <1>3
       DEF Source, Free, CaptureFirst, CaptureNext, WriteInfo, WriteInfoSize,
           ShareTexture, ShareTextureFail, LabelFrame, StampFrame,
           SetSharedFrameReadyEvent, gpu
  <2>2. QED
    BY <2>1 DEF Copied
<1>4. QED
  BY <1>1, <1>2, <1>3

LEMMA CopiedElse ==
  ASSUME Places, Copied, DeviceCopy \/ Encoder \/ Io \/ UNCHANGED vars
  PROVE  Copied'
<1>1. CASE DeviceCopy
  <2>1. PICK k \in 1..MaxTicks :
          /\ queued[k] # NoTexture
          /\ shows' = [shows EXCEPT ![queued[k]] = k]
          /\ queued' = [queued EXCEPT ![k] = NoTexture]
    BY <1>1 DEF DeviceCopy
  <2>2. picture' = picture
    BY <1>1 DEF DeviceCopy
  <2>3. \A t \in Texture : shows'[t] <= picture[t]
    <3>1. queued[k] \in Texture /\ k <= picture[queued[k]]
      BY <2>1, ShowsTypes DEF Copied
    <3>2. QED
      BY <2>1, <3>1 DEF Copied, Places, DeviceOK
  <2>4. \A j \in 1..MaxTicks : queued'[j] # NoTexture => queued'[j] = queued[j]
    BY <2>1 DEF Places, DeviceOK
  <2>5. QED
    BY <2>2, <2>3, <2>4 DEF Copied
<1>2. CASE Encoder \/ Io \/ UNCHANGED vars
  <2>1. UNCHANGED <<picture, shows, queued>>
    BY <1>2
       DEF Encoder, WaitFirstFrame, WaitFrame, Wait, Exit, ExitForRestart, FreeEncoder,
           ReadInfo, OpenNoSize, OpenMapping, OpenMappingFail, ChooseSlot, OpenTexture,
           NoteTexture, EncodeFrame, CheckInfo, CheckInfoChanged,
           Io, Stop, RestartVideoEncoder, Joined, Run, gpu, vars
  <2>2. QED
    BY <2>1 DEF Copied
<1>3. QED
  BY <1>1, <1>2

LEMMA OrderedSource ==
  ASSUME Places, Stamped, Ordered, Source
  PROVE  Ordered'
<1> USE FrameTypes, BoundAssumption DEF Slot, NoTexture, mapped
<1>1. CASE Free \/ GameRestart
  <2>1. /\ UNCHANGED <<picture, tick>> /\ src' = "idle" /\ shared' = NoShared
        /\ frames' \in {frames, NoFrames}
    BY <1>1 DEF Free, GameRestart, gpu, memory
  <2>2. turn' \in Slot
    BY <1>1 DEF Free, GameRestart
  <2>3. QED
    BY <2>1, <2>2 DEF Ordered, NoFrames, NoShared, Time, Writing
<1>2. CASE CaptureFirst \/ CaptureNext
  <2>1. /\ UNCHANGED <<picture, frames, turn, shared>> /\ src = "idle"
        /\ \/ src' = "idle" /\ tick' = tick
           \/ src' \in {"info", "share"} /\ tick' = tick + 1
    BY <1>2 DEF CaptureFirst, CaptureNext, gpu, memory
  <2>2. \A t \in Texture : picture[t] <= tick'
    BY <2>1 DEF Ordered
  <2>3. QED
    BY <2>1, <2>2 DEF Ordered, Time, Writing
<1>3. CASE WriteInfo \/ WriteInfoSize \/ ShareTextureFail
  <2>1. /\ UNCHANGED <<picture, frames, turn, shared, tick>>
        /\ src \in {"info", "size", "share"} /\ src' \in {"size", "share", "idle"}
    BY <1>3 DEF WriteInfo, WriteInfoSize, ShareTextureFail, gpu, memory
  <2>2. QED
    BY <2>1 DEF Ordered, Time, Writing
<1>4. CASE ShareTexture
  <2>1. UNCHANGED <<picture, frames, turn, tick>> /\ src = "share"
    BY <1>4 DEF ShareTexture, memory
  <2>2. CASE src' = "copy"
    BY <1>4, <2>1, <2>2 DEF ShareTexture, Ordered, Time, Writing
  <2>3. CASE src' = "label"
    <3>1. shared' = [shared EXCEPT ![turn] = texture_id]
      BY <1>4, <2>3 DEF ShareTexture
    <3>2. shared'[turn] = texture_id /\ (\A i \in Slot : i # turn => shared'[i] = shared[i])
      BY <3>1 DEF Places, SourceOK
    <3>3. \A i \in Slot : frames[i].id # texture_id
      BY DEF Stamped
    <3>4. QED
      BY <2>1, <2>3, <3>2, <3>3 DEF Ordered, Time, Writing
  <2>4. QED
    BY <1>4, <2>2, <2>3 DEF ShareTexture
<1>5. CASE LabelFrame
  <2>1. UNCHANGED <<picture, shared, turn, tick>> /\ src = "label" /\ src' = "copy"
    BY <1>5 DEF LabelFrame, gpu
  <2>2. /\ \A i \in Slot : Time(i)' = Time(i)
        /\ frames'[turn].id = shared[turn] /\ frames'[1 - turn].id = frames[1 - turn].id
    BY <1>5 DEF LabelFrame, Places, SharedOK, Time
  <2>3. frames'[0].id # frames'[1].id
    BY <2>1, <2>2 DEF Ordered
  <2>4. QED
    BY <2>1, <2>2, <2>3 DEF Ordered, Writing
<1>6. CASE CopyTexture
  <2>1. UNCHANGED <<frames, shared, turn, tick>> /\ src = "copy" /\ src' = "stamp"
    BY <1>6 DEF CopyTexture, memory
  <2>2. \A t \in Texture : picture'[t] <= tick
    BY <1>6 DEF CopyTexture, Ordered, Places, SharedOK
  <2>3. QED
    BY <2>1, <2>2 DEF Ordered, Time, Writing
<1>7. CASE StampFrame
  <2>1. /\ UNCHANGED <<picture, shared, turn, tick, src_mapped>>
        /\ src = "stamp" /\ src' = "signal" /\ src_mapped
    BY <1>7 DEF StampFrame, gpu, Stamped, Writing
  <2>2. /\ Time(turn)' = tick /\ Time(1 - turn)' = Time(1 - turn)
        /\ \A i \in Slot : frames'[i].id = frames[i].id
    BY <1>7, <2>1 DEF StampFrame, Places, SharedOK, Time
  <2>3. QED
    BY <2>1, <2>2 DEF Ordered, Writing
<1>8. CASE SetSharedFrameReadyEvent
  <2>1. /\ UNCHANGED <<picture, frames, shared, tick>> /\ turn' = 1 - turn
        /\ src = "signal" /\ src' = "idle"
    BY <1>8 DEF SetSharedFrameReadyEvent, gpu
  <2>2. QED
    BY <2>1 DEF Ordered, Time, Writing
<1>9. QED
  BY <1>1, <1>2, <1>3, <1>4, <1>5, <1>6, <1>7, <1>8 DEF Source

\* What the engine leaves alone; it clears the slots only where no game maps them.
LEMMA EngineFrames ==
  ASSUME Encoder \/ Io
  PROVE  /\ UNCHANGED <<src, turn, shared, texture_id, tick, picture>>
         /\ UNCHANGED src_mapped
         /\ frames' = frames \/ (frames' = NoFrames /\ ~src_mapped)
BY DEF Encoder, WaitFirstFrame, WaitFrame, Wait, Exit, ExitForRestart, FreeEncoder,
       ReadInfo, OpenNoSize, OpenMapping, OpenMappingFail, ChooseSlot, OpenTexture,
       NoteTexture, EncodeFrame, CheckInfo, CheckInfoChanged,
       Io, Stop, RestartVideoEncoder, Joined, Run, memory, gpu, source, mapped

LEMMA OrderedEngine ==
  ASSUME Places, Stamped, Ordered, Encoder \/ Io
  PROVE  Ordered'
<1>1. CASE frames' = frames
  BY <1>1, EngineFrames DEF Ordered, Time, Writing
<1>2. CASE frames' = NoFrames /\ ~src_mapped
  <2>1. \A i \in Slot : shared[i] = NoTexture
    BY <1>2 DEF Stamped
  <2>2. src \notin {"label", "copy", "stamp", "signal"}
    BY <1>2, <2>1, FrameTypes DEF Stamped, Writing, Ordered
  <2>3. QED
    BY <1>2, <2>1, <2>2, EngineFrames, FrameTypes
       DEF Ordered, Time, Writing, NoFrames, Slot, NoTexture
<1>3. QED
  BY <1>1, <1>2, EngineFrames

LEMMA NotedSource ==
  ASSUME Places, Noted, Source
  PROVE  Noted'
<1> USE FrameTypes DEF Slot
<1>1. UNCHANGED <<cache, encoded>>
  BY DEF Source, Free, CaptureFirst, CaptureNext, WriteInfo, WriteInfoSize, ShareTexture,
         ShareTextureFail, LabelFrame, CopyTexture, StampFrame,
         SetSharedFrameReadyEvent, GameRestart, reader
<1>2. CASE ShareTexture /\ src' = "label"
  <2>1. /\ shared' = [shared EXCEPT ![turn] = texture_id]
        /\ texture_id' = texture_id + 1 /\ UNCHANGED <<turn, tick>>
    BY <1>2 DEF ShareTexture
  <2>2. shared'[turn'] = texture_id
    BY <2>1 DEF Places, SourceOK
  <2>3. QED
    BY <1>1, <2>1, <2>2 DEF Noted
<1>3. CASE ~(ShareTexture /\ src' = "label")
  <2>1. texture_id' = texture_id /\ src' # "label"
    BY <1>3
       DEF Source, Free, CaptureFirst, CaptureNext, WriteInfo, WriteInfoSize,
           ShareTexture, ShareTextureFail, LabelFrame, CopyTexture, StampFrame,
           SetSharedFrameReadyEvent, GameRestart
  <2>2. tick' \in {tick, tick + 1}
    BY DEF Source, Free, CaptureFirst, CaptureNext, WriteInfo, WriteInfoSize,
           ShareTexture, ShareTextureFail, LabelFrame, CopyTexture, StampFrame,
           SetSharedFrameReadyEvent, GameRestart
  <2>3. encoded' <= tick'
    BY <1>1, <2>2 DEF Noted
  <2>4. QED
    BY <1>1, <2>1, <2>3 DEF Noted
<1>4. QED
  BY <1>2, <1>3

LEMMA NotedEngine ==
  ASSUME Places, Stamped, Ordered, Noted, Copied, Encoder \/ Io
  PROVE  Noted'
<1> USE FrameTypes DEF Slot
<1>1. CASE NoteTexture
  <2>1. /\ \A i \in Slot : i # index => cache'[i] = cache[i]
        /\ cache'[index].id = frames[index].id /\ encoded' = encoded
    BY <1>1 DEF NoteTexture, Places, EncoderOK
  <2>2. QED
    BY <2>1, EngineFrames DEF Noted, Stamped, Ordered
<1>2. CASE EncodeFrame
  <2>1. cache' = cache /\ encoded' = shows[cache[index].texture]
    BY <1>2 DEF EncodeFrame
  <2>2. cache[index].texture \in Texture
    BY <1>2 DEF EncodeFrame, Places, Named, TextureOrNone
  <2>3. encoded' <= tick
    BY <2>1, <2>2, ShowsTypes DEF Ordered, Copied
  <2>4. QED
    BY <2>1, <2>3, EngineFrames DEF Noted
<1>3. CASE ~NoteTexture /\ ~EncodeFrame
  <2>1. encoded' = encoded /\ cache' \in {cache, NoCache}
    BY <1>3
       DEF Encoder, WaitFirstFrame, WaitFrame, Wait, Exit, ExitForRestart, FreeEncoder,
           ReadInfo, OpenNoSize, OpenMapping, OpenMappingFail, ChooseSlot, OpenTexture,
           CheckInfo, CheckInfoChanged, Io, Stop, RestartVideoEncoder, Joined, Run, reader
  <2>2. src = "label" => shared[turn] # NoTexture
    BY DEF Stamped, Writing
  <2>3. QED
    BY <2>1, <2>2, EngineFrames DEF Noted, NoCache, NoTexture
<1>4. QED
  BY <1>1, <1>2, <1>3

\* The game, as long as it does not overtake.
LEMMA OnwardSource ==
  ASSUME Places, Held, Stamped, Ordered, Noted, Matching, Chosen, Reached, Source,
         ~overtaken, ~Overtaking'
  PROVE  Matching' /\ Chosen' /\ Reached'
<1> USE FrameTypes DEF Slot
<1>1. UNCHANGED <<enc, index, name, cache, enc_mapped, encoded>>
  BY DEF Source, Free, CaptureFirst, CaptureNext, WriteInfo, WriteInfoSize, ShareTexture,
         ShareTextureFail, LabelFrame, CopyTexture, StampFrame,
         SetSharedFrameReadyEvent, GameRestart, reader
<1>2. \A i \in Slot : Match(i) => cache[i].texture = frames[i].id
  BY DEF Held, Match
<1>3. enc \in {"note", "encode"} =>
        /\ enc = "note" => name = frames[index].id
        /\ enc = "encode" => cache[index].texture = frames[index].id
  BY DEF Held, Chosen
<1>4. CASE \/ CaptureFirst \/ CaptureNext \/ WriteInfo \/ WriteInfoSize
           \/ ShareTextureFail \/ SetSharedFrameReadyEvent \/ Free
  <2>1. UNCHANGED <<frames, picture>> /\ src' # "copy"
    BY <1>4 DEF CaptureFirst, CaptureNext, WriteInfo, WriteInfoSize, ShareTextureFail,
                SetSharedFrameReadyEvent, Free, gpu, memory
  <2>2. QED
    BY <1>1, <2>1 DEF Matching, Match, Shown, Chosen, Reached, Time
<1>5. CASE GameRestart
  <2>1. /\ src' = "idle" /\ picture' = picture
        /\ frames' = frames \/ (frames' = NoFrames /\ ~enc_mapped)
    BY <1>5 DEF GameRestart, gpu
  <2>2. CASE frames' = frames
    BY <1>1, <2>1, <2>2 DEF Matching, Match, Shown, Chosen, Reached, Time
  <2>3. CASE frames' = NoFrames /\ ~enc_mapped
    <3>1. enc \notin {"lookup", "note", "encode"}
      BY <2>3 DEF Held
    <3>2. \A i \in Slot : ~Match(i)'
      BY <1>1, <2>3 DEF Match, Held, NoFrames
    <3>3. \A i \in Slot : Time(i)' = 0
      BY <2>3 DEF NoFrames, Time
    <3>4. QED
      BY <1>1, <2>1, <3>1, <3>2, <3>3 DEF Matching, Chosen, Reached
  <2>4. QED
    BY <2>1, <2>2, <2>3
<1>6. CASE ShareTexture
  <2>1. UNCHANGED <<frames, picture, turn>> /\ src = "share"
    BY <1>6 DEF ShareTexture, memory
  <2>2. src' = "copy" => Time(turn) < Time(1 - turn)
    BY <1>6, <2>1 DEF ShareTexture, Ordered
  <2>3. QED
    BY <1>1, <2>1, <2>2 DEF Matching, Match, Shown, Chosen, Reached, Time
<1>7. CASE LabelFrame
  <2>1. /\ UNCHANGED <<picture, turn, shared>> /\ src = "label" /\ src' = "copy"
        /\ \A i \in Slot : Time(i)' = Time(i)
        /\ frames'[turn].id = shared[turn]
        /\ \A i \in Slot : i # turn => frames'[i].id = frames[i].id
    BY <1>7 DEF LabelFrame, Places, SharedOK, Time, gpu
  <2>2. ~Match(turn)'
    BY <1>1, <2>1 DEF Match, Noted
  <2>3. \A i \in Slot : Match(i)' => Match(i)
    BY <1>1, <2>1, <2>2 DEF Match
  <2>4. Matching'
    BY <1>1, <2>1, <2>2, <2>3 DEF Matching, Shown
  <2>5. enc = "encode" => index # turn
    BY <1>1, <2>1 DEF Overtaking
  <2>6. Chosen'
    BY <1>1, <2>1, <2>5 DEF Chosen
  <2>7. QED
    BY <1>1, <2>1, <2>4, <2>6 DEF Reached
<1>8. CASE CopyTexture
  <2>1. UNCHANGED <<frames, turn, shared>> /\ src = "copy" /\ src' = "stamp"
    BY <1>8 DEF CopyTexture, memory
  <2>2. \A t \in Texture : t # shared[turn] => picture'[t] = picture[t]
    BY <1>8 DEF CopyTexture, Places, SharedOK
  <2>3. \A i \in Slot : frames[i].id = NoTexture \/ i = turn \/ frames[i].id # shared[turn]
    BY <2>1 DEF Stamped, Writing, Ordered
  <2>4. \A i \in Slot : Match(i) /\ i # turn => picture'[cache[i].texture] = picture[cache[i].texture]
    BY <1>2, <2>2, <2>3 DEF Match, TextureOrNone
  <2>5. Matching'
    BY <1>1, <2>1, <2>4 DEF Matching, Match, Shown, Time
  <2>6. enc \in {"note", "encode"} => index # turn
    BY <1>1, <2>1 DEF Overtaking
  <2>7. enc = "note" => picture'[name] = picture[name]
    BY <1>3, <2>2, <2>3, <2>6 DEF Places, Named, EncoderOK, TextureOrNone
  <2>8. enc = "encode" => picture'[cache[index].texture] = picture[cache[index].texture]
    BY <1>3, <2>2, <2>3, <2>6 DEF Places, Named, TextureOrNone
  <2>9. QED
    BY <1>1, <2>1, <2>5, <2>7, <2>8 DEF Chosen, Reached, Time
<1>9. CASE StampFrame
  <2>1. /\ UNCHANGED <<picture, turn, shared>> /\ src = "stamp" /\ src' = "signal"
        /\ Time(turn)' = tick /\ Time(1 - turn)' = Time(1 - turn)
        /\ \A i \in Slot : i # turn => Time(i)' = Time(i)
        /\ \A i \in Slot : frames'[i].id = frames[i].id
    BY <1>9 DEF StampFrame, Places, SharedOK, Time, gpu
  <2>2. Time(1 - turn) < tick /\ tick # 0
    BY <2>1 DEF Ordered
  <2>3. Match(turn) => picture[cache[turn].texture] = tick
    BY <1>2, <2>1 DEF Stamped, Writing
  <2>4. \A i \in Slot : Match(i)' <=> Match(i)
    BY <1>1, <2>1 DEF Match
  <2>5. Matching'
    BY <1>1, <2>1, <2>2, <2>3, <2>4 DEF Matching, Shown
  <2>6. enc \in {"lookup", "note", "encode"} => index # turn
    <3>1. StampFrame => enc \notin {"lookup", "note", "encode"} \/ index # turn
      BY <2>1 DEF Held, Overtaking
    <3>2. QED
      BY <1>9, <3>1
  <2>7. Chosen'
    BY <1>1, <2>1, <2>6 DEF Chosen
  <2>8. Reached'
    BY <1>1, <2>1 DEF Reached, Noted
  <2>9. QED
    BY <2>5, <2>7, <2>8
<1>10. QED
  BY <1>4, <1>5, <1>6, <1>7, <1>8, <1>9 DEF Source

\* The encoder, as long as it is not overtaken.
LEMMA OnwardEncoder ==
  ASSUME Places, Held, Stamped, Ordered, Copied, Matching, Chosen, Reached, Encoder,
         ~overtaken
  PROVE  Matching' /\ Chosen' /\ Reached'
<1> USE FrameTypes DEF Slot
<1>1. UNCHANGED <<src, turn, shared, picture>> /\ ~Overtaking
  BY EngineFrames DEF Held
<1>2. CASE ChooseSlot
  <2>1. /\ UNCHANGED <<frames, cache, encoded>> /\ index' = Latest /\ Latest \in Slot
        /\ enc' = "lookup" \/ (enc' = "encode" /\ Match(index'))
    BY <1>2 DEF ChooseSlot, Latest, Match, memory
  <2>2. \A i \in Slot : Time(Latest) >= Time(i)
    BY DEF Latest, Time
  <2>3. Time(index') >= encoded \/ Time(index') = 0
    BY <2>1, <2>2 DEF Reached
  <2>4. Match(index') => /\ picture[cache[index'].texture] = Time(index')
                         /\ Time(index') # 0
                         /\ cache[index'].texture = frames[index'].id
    BY <2>1, <2>2 DEF Matching, Shown, Match, Held
  <2>5. Chosen'
    BY <1>1, <2>1, <2>3, <2>4 DEF Chosen, Time
  <2>6. QED
    BY <1>1, <2>1, <2>5 DEF Matching, Match, Shown, Reached, Time
<1>3. CASE OpenTexture
  <2>1. UNCHANGED <<frames, cache, encoded, index, name>> /\ enc = "lookup"
    BY <1>3 DEF OpenTexture, memory
  <2>2. ASSUME enc' = "note"
        PROVE  Time(index) # 0 /\ picture[name] = Time(index)
    <3>1. name # NoTexture /\ frames[index].id = name
      BY <1>3, <2>1, <2>2 DEF OpenTexture, Held
    <3>2. PICK j \in Slot : shared[j] = name
      BY <1>3, <2>1, <2>2 DEF OpenTexture
    <3>3. ~(src = "label" /\ j = turn)
      BY <3>1, <3>2 DEF Ordered
    <3>4. frames[j].id = name
      BY <3>1, <3>2, <3>3 DEF Stamped
    <3>5. j = index
      BY <3>1, <3>4 DEF Ordered
    <3>6. ~(Writing /\ index = turn)
      BY <1>1, <2>1 DEF Writing, Overtaking
    <3>7. QED
      BY <3>1, <3>2, <3>5, <3>6 DEF Stamped, Ordered, Time
  <2>3. enc' \in {"note", "wait"}
    BY <1>3 DEF OpenTexture
  <2>4. Chosen'
    BY <1>1, <2>1, <2>2, <2>3 DEF Chosen, Time
  <2>5. QED
    BY <1>1, <2>1, <2>4 DEF Matching, Match, Shown, Reached, Time
<1>4. CASE NoteTexture
  <2>1. /\ UNCHANGED <<frames, encoded, index>> /\ enc = "note" /\ enc' = "encode"
        /\ \A i \in Slot : i # index => cache'[i] = cache[i]
        /\ cache'[index].texture = name
    BY <1>4 DEF NoteTexture, Places, EncoderOK, memory
  <2>2. frames[index].id = name /\ Time(index) # 0 /\ picture[name] = Time(index)
    BY <2>1 DEF Held, Chosen
  <2>3. src = "copy" => index # turn
    BY <1>1, <2>1 DEF Overtaking
  <2>4. Matching'
    BY <1>1, <2>1, <2>2, <2>3 DEF Matching, Match, Shown, Time
  <2>5. Chosen'
    BY <1>1, <2>1, <2>2 DEF Chosen, Time
  <2>6. QED
    BY <2>1, <2>4, <2>5 DEF Reached, Time
<1>5. CASE EncodeFrame
  <2>1. /\ UNCHANGED <<frames, cache, index>> /\ enc = "encode" /\ enc' = "wait"
        /\ encoded' = shows[cache[index].texture]
    BY <1>5 DEF EncodeFrame, memory
  <2>0. cache[index].texture \in Texture
    BY <2>1 DEF Places, Named, TextureOrNone
  <2>2. encoded' <= Time(index)
    BY <2>0, <2>1, ShowsTypes DEF Chosen, Copied
  <2>3. Reached'
    BY <2>1, <2>2 DEF Reached, Time
  <2>4. QED
    BY <1>1, <2>1, <2>3 DEF Matching, Match, Shown, Chosen, Time
<1>6. CASE Encoder /\ ~(ChooseSlot \/ OpenTexture \/ NoteTexture \/ EncodeFrame)
  <2>1. /\ enc' \notin {"lookup", "note", "encode"} /\ encoded' = encoded
        /\ (UNCHANGED <<frames, cache>>) \/ cache' = NoCache
    BY <1>6
       DEF Encoder, WaitFirstFrame, WaitFrame, Wait, Exit, ExitForRestart, FreeEncoder,
           ReadInfo, OpenNoSize, OpenMapping, OpenMappingFail, CheckInfo,
           CheckInfoChanged, memory
  <2>2. Matching'
    BY <1>1, <2>1 DEF Matching, Match, Shown, Time, NoCache
  <2>3. Reached'
    BY <2>1, EngineFrames DEF Reached, Time, NoFrames
  <2>4. QED
    BY <2>1, <2>2, <2>3 DEF Chosen
<1>7. QED
  BY <1>2, <1>3, <1>4, <1>5, <1>6

LEMMA OnwardIo ==
  ASSUME Places, Held, Matching, Chosen, Reached, Io
  PROVE  Matching' /\ Chosen' /\ Reached'
<1> USE FrameTypes DEF Slot
<1>1. UNCHANGED <<src, turn, picture>>
  BY EngineFrames
<1>2. CASE Stop \/ RestartVideoEncoder
  BY <1>1, <1>2 DEF Stop, RestartVideoEncoder, memory, reader, Matching, Match, Shown,
                    Chosen, Reached, Time
<1>3. CASE Joined
  <2>1. /\ cache' = NoCache /\ enc' = "none" /\ encoded' = encoded
        /\ frames' \in {frames, NoFrames}
    BY <1>3 DEF Joined, FreeEncoder
  <2>2. Matching'
    BY <2>1, <1>1 DEF Matching, Match, NoCache
  <2>3. Reached'
    BY <2>1 DEF Reached, Time, NoFrames
  <2>4. QED
    BY <2>1, <2>2, <2>3 DEF Chosen
<1>4. CASE Run
  <2>1. UNCHANGED <<frames, cache, encoded>> /\ enc' = "first"
    BY <1>4 DEF Run, memory
  <2>2. QED
    BY <1>1, <2>1 DEF Matching, Match, Shown, Chosen, Reached, Time
<1>5. QED
  BY <1>2, <1>3, <1>4 DEF Io

\* Unless the game writes a slot while the encoder reads it, the encoder never shows
\* an earlier picture after a later one, however often either of them restarts and
\* whatever a game that ended has left in the slots, as long as the device has copied
\* what it was told to copy into that texture (GetSharedTexture, EncodeFrame).
THEOREM NeverBackwardsHolds == Spec => NeverBackwards
<1> DEFINE IInv == Places /\ Held /\ Stamped /\ Ordered /\ Noted /\ Copied /\ Onward
<1>1. Init => IInv
  <2>1. Init => Held
    BY DEF Init, Held, Overtaking, NoCache, NoTexture, Slot
  <2>2. Init => Stamped /\ Ordered
    BY DEF Init, Stamped, Ordered, Time, Writing, NoFrames, NoShared, NoTexture, Slot
  <2>3. Init => Noted /\ Onward
    BY DEF Init, Noted, Onward, Matching, Match, Chosen, Reached, Time, NoFrames, NoCache,
           NoTexture, Slot
  <2>4. Init => Copied
    BY DEF Init, Copied, NoCopies, NoTexture
  <2>5. QED
    BY <2>1, <2>2, <2>3, <2>4, PlacesInit
<1>2. IInv /\ [Next]_vars => IInv'
  <2>1. ASSUME IInv, \/ UNCHANGED vars
                     \/ DeviceCopy /\ overtaken' = (overtaken \/ Overtaking')
        PROVE  Held' /\ Stamped' /\ Ordered' /\ Noted' /\ Onward'
    <3>1. Beside
      BY <2>1, BesideStep
    <3>2. Held' /\ Stamped' /\ (overtaken' <=> overtaken)
      BY <2>1, <3>1, HeldBeside, StampedBeside
    <3>3. Ordered' /\ Noted'
      BY <2>1, <3>1 DEF Ordered, Noted, Writing, Time, Beside, memory, source, mapped,
                        reader
    <3>4. Onward'
      BY <2>1, <3>1, <3>2 DEF Onward, Matching, Match, Shown, Chosen, Reached, Time,
                              Beside, memory, source, reader
    <3>5. QED
      BY <3>2, <3>3, <3>4
  <2>2. ASSUME IInv, Source \/ Encoder \/ Io, overtaken' = (overtaken \/ Overtaking')
        PROVE  Held' /\ Stamped' /\ Ordered' /\ Noted' /\ Onward'
    <3>1. Held' /\ Stamped'
      BY <2>2, HeldSource, HeldEncoder, HeldIo, StampedSource, StampedEngine
    <3>2. Ordered' /\ Noted'
      BY <2>2, OrderedSource, OrderedEngine, NotedSource, NotedEngine
    <3>3. Onward'
      BY <2>2, OnwardSource, OnwardEncoder, OnwardIo DEF Onward
    <3>4. QED
      BY <3>1, <3>2, <3>3
  <2>3. ASSUME IInv, [Next]_vars
        PROVE  Copied'
    BY <2>3, CopiedSource, CopiedElse DEF Next
  <2>4. QED
    BY <2>1, <2>2, <2>3, PlacesNext DEF Next
<1>3. IInv /\ [Next]_vars => [encoded' >= encoded \/ overtaken \/ Unfinished]_encoded
  <2>1. ASSUME IInv, EncodeFrame, ~overtaken, ~Unfinished
        PROVE  encoded' >= encoded
    BY <2>1, FrameTypes DEF EncodeFrame, Onward, Chosen, Unfinished
  <2>2. [Next]_vars /\ ~EncodeFrame => encoded' = encoded
    BY DEF Next, Source, Free, CaptureFirst, CaptureNext, WriteInfo, WriteInfoSize,
           ShareTexture, ShareTextureFail, LabelFrame, CopyTexture, StampFrame,
           SetSharedFrameReadyEvent, GameRestart,
           Encoder, WaitFirstFrame, WaitFrame, Wait, Exit, ExitForRestart, FreeEncoder,
           ReadInfo, OpenNoSize, OpenMapping, OpenMappingFail, ChooseSlot, OpenTexture,
           NoteTexture, CheckInfo, CheckInfoChanged, DeviceCopy,
           Io, Stop, RestartVideoEncoder, Joined, Run, vars, reader
  <2>3. QED
    BY <2>1, <2>2
<1>4. QED
  BY <1>1, <1>2, <1>3, PTL DEF Spec, NeverBackwards
=============================================================================
