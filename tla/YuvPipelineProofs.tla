------------------------- MODULE YuvPipelineProofs -------------------------
(* Proofs about YuvPipeline, for every set of sizes. *)
EXTENDS YuvPipeline, TLAPS

\* The parts of TypeOK.
Flags ==
  /\ ready \in BOOLEAN /\ started \in BOOLEAN /\ stopped \in BOOLEAN
  /\ swap_new \in BOOLEAN /\ is_started \in BOOLEAN /\ src_stop \in BOOLEAN
  /\ enc_map \in BOOLEAN /\ posted \in BOOLEAN /\ returned \in BOOLEAN
InfoOK == info \in [typed : BOOLEAN, size : SizeOrNone]
Places ==
  /\ section \in SizeOrNone /\ data_size \in SizeOrNone
  /\ first \in SizeOrNone /\ newer \in [Size -> Age]
  /\ src \in {"idle", "type", "size", "resized", "surface", "create", "data",
              "pixels", "stamp"}
  /\ size \in Size /\ width \in SizeOrNone /\ turn \in {0, 1}
  /\ src_map \in SizeOrNone /\ saved \in SizeOrNone
  /\ waiting \in {"start", "stop", "ended"}
  /\ enc \in {"none", "start", "first", "info", "open", "check", "encode",
              "wait", "look", "leave", "unmap", "exited", "fault"}
  /\ io \in {"rest", "stop", "restart", "run"}

\* What NoSmallSection depends on: the encoder saves a size only while it maps
\* nothing, and encodes only what it maps.
Mapped ==
  /\ enc \in {"none", "start", "first", "info", "open"} => ~enc_map
  /\ enc = "check" \/ Lasting => enc_map

\* What SlotsLieAsChecked depends on: the program copies pictures of the size
\* that it has described last, and the encoder finds the slots as it checked
\* them for as long as it stays, not only when it encodes.
Described ==
  /\ src \in {"surface", "create", "data", "pixels", "stamp"} => width = info.size
  /\ src = "idle" => width \in {0, info.size}
  /\ src # "idle" => width # 0
Checked == Lasting => data_size = saved \/ info.size # saved \/ returned

IInv == NoSmallSection /\ Mapped /\ Described /\ Checked
-----------------------------------------------------------------------------
(* Type correctness. *)

LEMMA FlagsInit == Init => Flags
BY DEF Init, Flags

LEMMA InfoInit == Init => InfoOK
BY DEF Init, InfoOK, SizeOrNone

LEMMA PlacesInit == Init => Places
BY DEF Init, Places, SizeOrNone, Age

\* Flags: the program's rendering thread.
LEMMA FlagsCopying ==
  ASSUME Flags, Refresh \/ Copying
  PROVE  Flags'
<1> USE DEF Flags, shared, memory, source, switch, reader,
        control
<1>1. CASE Refresh
  BY <1>1 DEF Refresh
<1>2. CASE WriteType
  BY <1>2 DEF WriteType
<1>3. CASE WriteSize
  BY <1>3 DEF WriteSize, Describe
<1>4. CASE WriteResized
  BY <1>4 DEF WriteResized, Describe
<1>5. CASE MapSurface
  BY <1>5 DEF MapSurface, Released
<1>6. CASE MapSharedMem
  BY <1>6 DEF MapSharedMem
<1>7. CASE AlreadyExisted
  BY <1>7 DEF AlreadyExisted
<1>8. CASE WriteDataSize
  BY <1>8 DEF WriteDataSize
<1>9. CASE Convert
  BY <1>9 DEF Convert
<1>10. CASE Stamp
  BY <1>10 DEF Stamp
<1>11. QED
  BY <1>1, <1>2, <1>3, <1>4, <1>5, <1>6, <1>7, <1>8, <1>9, <1>10
     DEF Copying

\* Flags: WaitingThread, and what happens from outside.
LEMMA FlagsDisturbance ==
  ASSUME Flags, Waiting \/ Disturbance
  PROVE  Flags'
<1> USE DEF Flags, shared, memory, source, switch, reader,
        control
<1>1. CASE WaitingEnds
  BY <1>1 DEF WaitingEnds
<1>2. CASE EncoderStarted
  BY <1>2 DEF EncoderStarted
<1>3. CASE EncoderStopped
  BY <1>3 DEF EncoderStopped
<1>4. CASE Resize
  BY <1>4 DEF Resize
<1>5. CASE CaptureFail
  BY <1>5 DEF CaptureFail
<1>6. CASE MapSurfaceFail
  BY <1>6 DEF MapSurfaceFail
<1>7. CASE MapSharedMemFail
  BY <1>7 DEF MapSharedMemFail
<1>8. CASE SourceRestart
  BY <1>8 DEF SourceRestart, Released
<1>9. CASE OpenFail
  BY <1>9 DEF OpenFail
<1>10. CASE Stop
  BY <1>10 DEF Stop, FreeEvents
<1>11. QED
  BY <1>1, <1>2, <1>3, <1>4, <1>5, <1>6, <1>7, <1>8, <1>9, <1>10
     DEF Waiting, Disturbance

\* Flags: the engine.
LEMMA FlagsEngine ==
  ASSUME Flags, Encoder \/ RestartVideoEncoder \/ JoinAndUnmap \/ Run
  PROVE  Flags'
<1> USE DEF Flags, shared, memory, source, switch, reader,
        control
<1>1. CASE SetStarted
  BY <1>1 DEF SetStarted
<1>2. CASE WaitFrame
  BY <1>2 DEF WaitFrame
<1>3. CASE ReadInfo
  BY <1>3 DEF ReadInfo
<1>4. CASE OpenMapping
  BY <1>4 DEF OpenMapping, ExitForRestart
<1>5. CASE CheckDataSize
  BY <1>5 DEF CheckDataSize, ExitForRestart
<1>6. CASE EncodeFrame
  BY <1>6 DEF EncodeFrame
<1>7. CASE CheckInfo
  BY <1>7 DEF CheckInfo, ExitForRestart
<1>8. CASE FreeByEncoder
  BY <1>8 DEF FreeByEncoder, FreeEvents
<1>9. CASE UnmapByEncoder
  BY <1>9 DEF UnmapByEncoder, Unmap, Released
<1>10. CASE RestartVideoEncoder
  BY <1>10 DEF RestartVideoEncoder, FreeEvents
<1>11. CASE JoinAndUnmap
  BY <1>11 DEF JoinAndUnmap, Unmap, Released
<1>12. CASE Run
  BY <1>12 DEF Run
<1>13. QED
  BY <1>1, <1>2, <1>3, <1>4, <1>5, <1>6, <1>7, <1>8, <1>9, <1>10,
     <1>11, <1>12
     DEF Encoder

\* InfoOK: the program's rendering thread.
LEMMA InfoCopying ==
  ASSUME InfoOK, Places, Refresh \/ Copying
  PROVE  InfoOK'
<1> USE DEF InfoOK, Places, shared, source
<1>1. CASE Refresh
  BY <1>1 DEF Refresh
<1>2. CASE WriteType
  BY <1>2 DEF WriteType
<1>3. CASE WriteSize
  BY <1>3 DEF WriteSize, Describe
<1>4. CASE WriteResized
  BY <1>4 DEF WriteResized, Describe
<1>5. CASE MapSurface
  BY <1>5 DEF MapSurface, Released
<1>6. CASE MapSharedMem
  BY <1>6 DEF MapSharedMem
<1>7. CASE AlreadyExisted
  BY <1>7 DEF AlreadyExisted
<1>8. CASE WriteDataSize
  BY <1>8 DEF WriteDataSize
<1>9. CASE Convert
  BY <1>9 DEF Convert
<1>10. CASE Stamp
  BY <1>10 DEF Stamp
<1>11. QED
  BY <1>1, <1>2, <1>3, <1>4, <1>5, <1>6, <1>7, <1>8, <1>9, <1>10
     DEF Copying

\* InfoOK: WaitingThread, and what happens from outside.
LEMMA InfoDisturbance ==
  ASSUME InfoOK, Places, Waiting \/ Disturbance
  PROVE  InfoOK'
<1> USE DEF InfoOK, Places, shared, source
<1>1. CASE WaitingEnds
  BY <1>1 DEF WaitingEnds
<1>2. CASE EncoderStarted
  BY <1>2 DEF EncoderStarted
<1>3. CASE EncoderStopped
  BY <1>3 DEF EncoderStopped
<1>4. CASE Resize
  BY <1>4 DEF Resize
<1>5. CASE CaptureFail
  BY <1>5 DEF CaptureFail
<1>6. CASE MapSurfaceFail
  BY <1>6 DEF MapSurfaceFail
<1>7. CASE MapSharedMemFail
  BY <1>7 DEF MapSharedMemFail
<1>8. CASE SourceRestart
  BY <1>8 DEF SourceRestart, Released
<1>9. CASE OpenFail
  BY <1>9 DEF OpenFail
<1>10. CASE Stop
  BY <1>10 DEF Stop, FreeEvents
<1>11. QED
  BY <1>1, <1>2, <1>3, <1>4, <1>5, <1>6, <1>7, <1>8, <1>9, <1>10
     DEF Waiting, Disturbance

\* InfoOK: the engine.
LEMMA InfoEngine ==
  ASSUME InfoOK, Places, Encoder \/ RestartVideoEncoder \/ JoinAndUnmap \/ Run
  PROVE  InfoOK'
<1> USE DEF InfoOK, Places, shared, source
<1>1. CASE SetStarted
  BY <1>1 DEF SetStarted
<1>2. CASE WaitFrame
  BY <1>2 DEF WaitFrame
<1>3. CASE ReadInfo
  BY <1>3 DEF ReadInfo
<1>4. CASE OpenMapping
  BY <1>4 DEF OpenMapping, ExitForRestart
<1>5. CASE CheckDataSize
  BY <1>5 DEF CheckDataSize, ExitForRestart
<1>6. CASE EncodeFrame
  BY <1>6 DEF EncodeFrame
<1>7. CASE CheckInfo
  BY <1>7 DEF CheckInfo, ExitForRestart
<1>8. CASE FreeByEncoder
  BY <1>8 DEF FreeByEncoder, FreeEvents
<1>9. CASE UnmapByEncoder
  BY <1>9 DEF UnmapByEncoder, Unmap, Released
<1>10. CASE RestartVideoEncoder
  BY <1>10 DEF RestartVideoEncoder, FreeEvents
<1>11. CASE JoinAndUnmap
  BY <1>11 DEF JoinAndUnmap, Unmap, Released
<1>12. CASE Run
  BY <1>12 DEF Run
<1>13. QED
  BY <1>1, <1>2, <1>3, <1>4, <1>5, <1>6, <1>7, <1>8, <1>9, <1>10,
     <1>11, <1>12
     DEF Encoder

\* Places: the program's rendering thread.
LEMMA PlacesCopying ==
  ASSUME InfoOK, Places, Refresh \/ Copying
  PROVE  Places'
<1> USE SizeAssumption DEF InfoOK, Places, SizeOrNone, Age, shared, memory,
        source, switch, reader, control
<1>1. CASE Refresh
  BY <1>1 DEF Refresh
<1>2. CASE WriteType
  BY <1>2 DEF WriteType
<1>3. CASE WriteSize
  BY <1>3 DEF WriteSize, Describe
<1>4. CASE WriteResized
  BY <1>4 DEF WriteResized, Describe
<1>5. CASE MapSurface
  BY <1>5 DEF MapSurface, Released
<1>6. CASE MapSharedMem
  BY <1>6 DEF MapSharedMem
<1>7. CASE AlreadyExisted
  BY <1>7 DEF AlreadyExisted
<1>8. CASE WriteDataSize
  BY <1>8 DEF WriteDataSize
<1>9. CASE Convert
  BY <1>9 DEF Convert
<1>10. CASE Stamp
  <2>1. newer' \in [Size -> Age]
    BY <1>10 DEF Stamp
  <2>2. turn' \in {0, 1}
    BY <1>10 DEF Stamp
  <2>3. QED
    BY <1>10, <2>1, <2>2 DEF Stamp
<1>11. QED
  BY <1>1, <1>2, <1>3, <1>4, <1>5, <1>6, <1>7, <1>8, <1>9, <1>10
     DEF Copying

\* Places: WaitingThread, and what happens from outside.
LEMMA PlacesDisturbance ==
  ASSUME InfoOK, Places, Waiting \/ Disturbance
  PROVE  Places'
<1> USE SizeAssumption DEF InfoOK, Places, SizeOrNone, Age, shared, memory,
        source, switch, reader, control
<1>1. CASE WaitingEnds
  BY <1>1 DEF WaitingEnds
<1>2. CASE EncoderStarted
  BY <1>2 DEF EncoderStarted
<1>3. CASE EncoderStopped
  BY <1>3 DEF EncoderStopped
<1>4. CASE Resize
  BY <1>4 DEF Resize
<1>5. CASE CaptureFail
  BY <1>5 DEF CaptureFail
<1>6. CASE MapSurfaceFail
  BY <1>6 DEF MapSurfaceFail
<1>7. CASE MapSharedMemFail
  BY <1>7 DEF MapSharedMemFail
<1>8. CASE SourceRestart
  BY <1>8 DEF SourceRestart, Released
<1>9. CASE OpenFail
  BY <1>9 DEF OpenFail
<1>10. CASE Stop
  BY <1>10 DEF Stop, FreeEvents
<1>11. QED
  BY <1>1, <1>2, <1>3, <1>4, <1>5, <1>6, <1>7, <1>8, <1>9, <1>10
     DEF Waiting, Disturbance

\* Places: the engine.
LEMMA PlacesEngine ==
  ASSUME InfoOK, Places, Encoder \/ RestartVideoEncoder \/ JoinAndUnmap \/ Run
  PROVE  Places'
<1> USE SizeAssumption DEF InfoOK, Places, SizeOrNone, Age, shared, memory,
        source, switch, reader, control
<1>1. CASE SetStarted
  BY <1>1 DEF SetStarted
<1>2. CASE WaitFrame
  BY <1>2 DEF WaitFrame
<1>3. CASE ReadInfo
  BY <1>3 DEF ReadInfo
<1>4. CASE OpenMapping
  BY <1>4 DEF OpenMapping, ExitForRestart
<1>5. CASE CheckDataSize
  BY <1>5 DEF CheckDataSize, ExitForRestart
<1>6. CASE EncodeFrame
  BY <1>6 DEF EncodeFrame
<1>7. CASE CheckInfo
  BY <1>7 DEF CheckInfo, ExitForRestart
<1>8. CASE FreeByEncoder
  BY <1>8 DEF FreeByEncoder, FreeEvents
<1>9. CASE UnmapByEncoder
  BY <1>9 DEF UnmapByEncoder, Unmap, Released
<1>10. CASE RestartVideoEncoder
  BY <1>10 DEF RestartVideoEncoder, FreeEvents
<1>11. CASE JoinAndUnmap
  BY <1>11 DEF JoinAndUnmap, Unmap, Released
<1>12. CASE Run
  BY <1>12 DEF Run
<1>13. QED
  BY <1>1, <1>2, <1>3, <1>4, <1>5, <1>6, <1>7, <1>8, <1>9, <1>10,
     <1>11, <1>12
     DEF Encoder

LEMMA Parts == TypeOK <=> Flags /\ InfoOK /\ Places
<1>1. TypeOK => Flags /\ InfoOK
  BY DEF TypeOK, Flags, InfoOK
<1>2. TypeOK => Places
  BY DEF TypeOK, Places
<1>3. Flags /\ InfoOK /\ Places => TypeOK
  BY DEF TypeOK, Flags, InfoOK, Places
<1>4. QED
  BY <1>1, <1>2, <1>3

LEMMA TypeFirst == Init => TypeOK
BY Parts, FlagsInit, InfoInit, PlacesInit

LEMMA TypeNext == TypeOK /\ [Next]_vars => TypeOK'
<1> SUFFICES ASSUME Flags, InfoOK, Places, [Next]_vars
             PROVE  Flags' /\ InfoOK' /\ Places'
  BY Parts, PTL
<1>1. CASE UNCHANGED vars
  <2>1. Flags'
    BY <1>1 DEF vars, shared, memory, source, switch, reader, control, Flags
  <2>2. InfoOK' /\ Places'
    BY <1>1 DEF vars, shared, memory, source, switch, reader, control, InfoOK, Places
  <2>3. QED
    BY <2>1, <2>2
<1>2. CASE Refresh \/ Copying
  BY <1>2, FlagsCopying, InfoCopying, PlacesCopying
<1>3. CASE Waiting \/ Disturbance
  BY <1>3, FlagsDisturbance, InfoDisturbance, PlacesDisturbance
<1>4. CASE Encoder \/ RestartVideoEncoder \/ JoinAndUnmap \/ Run
  BY <1>4, FlagsEngine, InfoEngine, PlacesEngine
<1>5. QED
  BY <1>1, <1>2, <1>3, <1>4 DEF Next

\* Every variable keeps its type: the slot of a turn is one of the two, and what
\* lies where is known for every size (sdl_hack.cpp, video_encoder.cpp).
THEOREM TypeCorrect == Spec => []TypeOK
<1>1. QED
  BY TypeFirst, TypeNext, PTL DEF Spec
-----------------------------------------------------------------------------
(* The section and the slots in it. *)

LEMMA IInvInit == Init => IInv
BY DEF Init, IInv, NoSmallSection, Mapped, Described, Checked, Lasting

\* IInv: the program's rendering thread.
LEMMA IInvCopying ==
  ASSUME InfoOK, Places, IInv, Refresh \/ Copying
  PROVE  IInv'
<1> USE SizeAssumption DEF InfoOK, Places, SizeOrNone, IInv, NoSmallSection,
        Mapped, Described, Checked, Lasting, shared, memory, source, switch,
        reader, control
<1>1. CASE Refresh
  BY <1>1 DEF Refresh
<1>2. CASE WriteType
  BY <1>2 DEF WriteType
<1>3. CASE WriteSize
  BY <1>3 DEF WriteSize, Describe
<1>4. CASE WriteResized
  BY <1>4 DEF WriteResized, Describe
<1>5. CASE MapSurface
  BY <1>5 DEF MapSurface, Released
<1>6. CASE MapSharedMem
  BY <1>6 DEF MapSharedMem
<1>7. CASE AlreadyExisted
  BY <1>7 DEF AlreadyExisted
<1>8. CASE WriteDataSize
  BY <1>8 DEF WriteDataSize
<1>9. CASE Convert
  BY <1>9 DEF Convert
<1>10. CASE Stamp
  BY <1>10 DEF Stamp
<1>11. QED
  BY <1>1, <1>2, <1>3, <1>4, <1>5, <1>6, <1>7, <1>8, <1>9, <1>10
     DEF Copying

\* IInv: WaitingThread, and what happens from outside.
LEMMA IInvDisturbance ==
  ASSUME InfoOK, Places, IInv, Waiting \/ Disturbance
  PROVE  IInv'
<1> USE SizeAssumption DEF InfoOK, Places, SizeOrNone, IInv, NoSmallSection,
        Mapped, Described, Checked, Lasting, shared, memory, source, switch,
        reader, control
<1>1. CASE WaitingEnds
  BY <1>1 DEF WaitingEnds
<1>2. CASE EncoderStarted
  BY <1>2 DEF EncoderStarted
<1>3. CASE EncoderStopped
  BY <1>3 DEF EncoderStopped
<1>4. CASE Resize
  BY <1>4 DEF Resize
<1>5. CASE CaptureFail
  BY <1>5 DEF CaptureFail
<1>6. CASE MapSurfaceFail
  BY <1>6 DEF MapSurfaceFail
<1>7. CASE MapSharedMemFail
  BY <1>7 DEF MapSharedMemFail
<1>8. CASE SourceRestart
  BY <1>8 DEF SourceRestart, Released
<1>9. CASE OpenFail
  BY <1>9 DEF OpenFail
<1>10. CASE Stop
  BY <1>10 DEF Stop, FreeEvents
<1>11. QED
  BY <1>1, <1>2, <1>3, <1>4, <1>5, <1>6, <1>7, <1>8, <1>9, <1>10
     DEF Waiting, Disturbance

\* IInv: the engine.
LEMMA IInvEngine ==
  ASSUME InfoOK, Places, IInv, Encoder \/ RestartVideoEncoder \/ JoinAndUnmap \/ Run
  PROVE  IInv'
<1> USE SizeAssumption DEF InfoOK, Places, SizeOrNone, IInv, NoSmallSection,
        Mapped, Described, Checked, Lasting, shared, memory, source, switch,
        reader, control
<1>1. CASE SetStarted
  BY <1>1 DEF SetStarted
<1>2. CASE WaitFrame
  BY <1>2 DEF WaitFrame
<1>3. CASE ReadInfo
  BY <1>3 DEF ReadInfo
<1>4. CASE OpenMapping
  BY <1>4 DEF OpenMapping, ExitForRestart
<1>5. CASE CheckDataSize
  BY <1>5 DEF CheckDataSize, ExitForRestart
<1>6. CASE EncodeFrame
  BY <1>6 DEF EncodeFrame
<1>7. CASE CheckInfo
  BY <1>7 DEF CheckInfo, ExitForRestart
<1>8. CASE FreeByEncoder
  BY <1>8 DEF FreeByEncoder, FreeEvents
<1>9. CASE UnmapByEncoder
  BY <1>9 DEF UnmapByEncoder, Unmap, Released
<1>10. CASE RestartVideoEncoder
  BY <1>10 DEF RestartVideoEncoder, FreeEvents
<1>11. CASE JoinAndUnmap
  BY <1>11 DEF JoinAndUnmap, Unmap, Released
<1>12. CASE Run
  BY <1>12 DEF Run
<1>13. QED
  BY <1>1, <1>2, <1>3, <1>4, <1>5, <1>6, <1>7, <1>8, <1>9, <1>10,
     <1>11, <1>12
     DEF Encoder

LEMMA IInvNext == TypeOK /\ IInv /\ [Next]_vars => IInv'
<1> SUFFICES ASSUME InfoOK, Places, IInv, [Next]_vars
             PROVE  IInv'
  BY Parts
<1>1. CASE UNCHANGED vars
  BY <1>1 DEF vars, shared, memory, source, switch, reader, control, IInv,
              NoSmallSection, Mapped, Described, Checked, Lasting
<1>2. QED
  BY <1>1, IInvCopying, IInvDisturbance, IInvEngine DEF Next

LEMMA IInvAlways == Spec => []IInv
<1>1. QED
  BY IInvInit, IInvNext, TypeCorrect, PTL DEF Spec

\* Whatever resizes and restarts there are on both sides, the section that the
\* encoder reads is as large as what it has mapped of it
\* (SdlHack::CopyTextureToSharedYuv, VideoEncoder::EncodingThread).
THEOREM NoSmallSectionHolds == Spec => []NoSmallSection
<1>1. IInv => NoSmallSection
  BY DEF IInv
<1>2. QED
  BY <1>1, IInvAlways, PTL

\* For every set of sizes, the slots move under the encoder only when the size
\* that it compares before the next picture has changed, or has changed and come
\* back (VideoEncoder::EncodingThread, EncodeFrame).
THEOREM SlotsLieAsCheckedHolds == Spec => []SlotsLieAsChecked
<1>1. IInv => SlotsLieAsChecked
  BY DEF IInv, Checked, Lasting, SlotsLieAsChecked
<1>2. QED
  BY <1>1, IInvAlways, PTL

-----------------------------------------------------------------------------
(* The events that tell the program. *)

\* An encoder that is being stopped may still set the started event, but then
\* it finds its stop event, which stays set until it is run again, and resets the
\* other on its way out.
Stopping ==
  /\ io \in {"stop", "restart"} =>
       stopped /\ (started => enc \in {"first", "leave"})
  /\ io = "run" => enc = "none" /\ ~started /\ stopped
Told == SwitchIsTold /\ Stopping

\* Told: the program's rendering thread.
LEMMA ToldCopying ==
  ASSUME Flags, Places, Told, Refresh \/ Copying
  PROVE  Told'
<1> USE DEF Flags, Places, Told, SwitchIsTold, Stopping, Lasting, shared, memory,
        source, switch, reader, control
<1>1. CASE Refresh
  BY <1>1 DEF Refresh
<1>2. CASE WriteType
  BY <1>2 DEF WriteType
<1>3. CASE WriteSize
  BY <1>3 DEF WriteSize, Describe
<1>4. CASE WriteResized
  BY <1>4 DEF WriteResized, Describe
<1>5. CASE MapSurface
  BY <1>5 DEF MapSurface, Released
<1>6. CASE MapSharedMem
  BY <1>6 DEF MapSharedMem
<1>7. CASE AlreadyExisted
  BY <1>7 DEF AlreadyExisted
<1>8. CASE WriteDataSize
  BY <1>8 DEF WriteDataSize
<1>9. CASE Convert
  BY <1>9 DEF Convert
<1>10. CASE Stamp
  BY <1>10 DEF Stamp
<1>11. QED
  BY <1>1, <1>2, <1>3, <1>4, <1>5, <1>6, <1>7, <1>8, <1>9, <1>10
     DEF Copying

\* Told: WaitingThread, and what happens from outside.
LEMMA ToldDisturbance ==
  ASSUME Flags, Places, Told, Waiting \/ Disturbance
  PROVE  Told'
<1> USE DEF Flags, Places, Told, SwitchIsTold, Stopping, Lasting, shared, memory,
        source, switch, reader, control
<1>1. CASE WaitingEnds
  BY <1>1 DEF WaitingEnds
<1>2. CASE EncoderStarted
  BY <1>2 DEF EncoderStarted
<1>3. CASE EncoderStopped
  BY <1>3 DEF EncoderStopped
<1>4. CASE Resize
  BY <1>4 DEF Resize
<1>5. CASE CaptureFail
  BY <1>5 DEF CaptureFail
<1>6. CASE MapSurfaceFail
  BY <1>6 DEF MapSurfaceFail
<1>7. CASE MapSharedMemFail
  BY <1>7 DEF MapSharedMemFail
<1>8. CASE SourceRestart
  BY <1>8 DEF SourceRestart, Released
<1>9. CASE OpenFail
  BY <1>9 DEF OpenFail
<1>10. CASE Stop
  BY <1>10 DEF Stop, FreeEvents
<1>11. QED
  BY <1>1, <1>2, <1>3, <1>4, <1>5, <1>6, <1>7, <1>8, <1>9, <1>10
     DEF Waiting, Disturbance

\* Told: the engine.
LEMMA ToldEngine ==
  ASSUME Flags, Places, Told, Encoder \/ RestartVideoEncoder \/ JoinAndUnmap \/ Run
  PROVE  Told'
<1> USE DEF Flags, Places, Told, SwitchIsTold, Stopping, Lasting, shared, memory,
        source, switch, reader, control
<1>1. CASE SetStarted
  BY <1>1 DEF SetStarted
<1>2. CASE WaitFrame
  BY <1>2 DEF WaitFrame
<1>3. CASE ReadInfo
  BY <1>3 DEF ReadInfo
<1>4. CASE OpenMapping
  BY <1>4 DEF OpenMapping, ExitForRestart
<1>5. CASE CheckDataSize
  BY <1>5 DEF CheckDataSize, ExitForRestart
<1>6. CASE EncodeFrame
  BY <1>6 DEF EncodeFrame
<1>7. CASE CheckInfo
  BY <1>7 DEF CheckInfo, ExitForRestart
<1>8. CASE FreeByEncoder
  BY <1>8 DEF FreeByEncoder, FreeEvents
<1>9. CASE UnmapByEncoder
  BY <1>9 DEF UnmapByEncoder, Unmap, Released
<1>10. CASE RestartVideoEncoder
  BY <1>10 DEF RestartVideoEncoder, FreeEvents
<1>11. CASE JoinAndUnmap
  BY <1>11 DEF JoinAndUnmap, Unmap, Released
<1>12. CASE Run
  BY <1>12 DEF Run
<1>13. QED
  BY <1>1, <1>2, <1>3, <1>4, <1>5, <1>6, <1>7, <1>8, <1>9, <1>10,
     <1>11, <1>12
     DEF Encoder

LEMMA ToldNext == TypeOK /\ Told /\ [Next]_vars => Told'
<1> SUFFICES ASSUME Flags, Places, Told, [Next]_vars
             PROVE  Told'
  BY Parts
<1>1. CASE UNCHANGED vars
  BY <1>1 DEF vars, shared, memory, source, switch, reader, control, Told,
              SwitchIsTold, Stopping, Lasting
<1>2. QED
  BY <1>1, ToldCopying, ToldDisturbance, ToldEngine DEF Next

\* However fast the encoder is stopped, restarted and run again, and whenever the
\* program is restarted, the two manual-reset events never leave the program's
\* WaitingThread waiting for what has happened already (VideoEncoder::Free,
\* SdlHack::WaitingThread).
THEOREM SwitchIsToldHolds == Spec => []SwitchIsTold
<1>1. Init => Told
  BY DEF Init, Told, SwitchIsTold, Stopping, Lasting
<1>2. Told => SwitchIsTold
  BY DEF Told
<1>3. QED
  BY <1>1, <1>2, ToldNext, TypeCorrect, PTL DEF Spec
=============================================================================
