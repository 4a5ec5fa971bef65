# Verification of the Regame cloud gaming engine

This directory holds TLA+ models of the Regame engine (`src/`), the TLC
configurations that check them, and proofs about them for TLAPS. The program is a
set of Windows processes in C++: the engine `cge` serves a running game to its
clients, `cgh` is injected into the game and captures its pictures, `cgvhid` is a
driver for a virtual keyboard and mouse. The logic that is hard to get right is in
`cge`: sessions, logins, encoder threads, and what happens when they meet. Paths
below are relative to `src/src/`; a file without a directory is in `cge/cge/`.

## 1. Inventory

| Component | State | Operations | Status |
| --- | --- | --- | --- |
| Game service (`game_service.cpp`) | `sessions_`, `authorized_sessions_`, `session_mutex_`, the acceptor | Join, AddAuthorized, Leave, Send, OnAccept, Stop | `GameService` |
| Game session (`game_session.cpp`) | WebSocket, `session_state_`, write queue, its UserManager | OnAccept, OnRead, ServeClient, Write, OnWrite, OnLogin, OnKeepAlive, Stop, OnStop | `GameService`, without the queue's contents; its reading in `SessionReader` |
| Engine (`engine.cpp`, `cge.cpp`) | io threads, encoders, the signal handler | Run, Loop, EncoderRun, EncoderStop, NotifyRestartVideoEncoder, WritePacket, Stop | `GameService` |
| Video encoder (`video_encoder.cpp`) | thread, stop event, frames' mapping, opened textures, FFmpeg objects | Run, Stop, EncodingThread, EncodeFrame, GetSharedTexture, Free | its thread in `GameService`, its frames in `VideoPipeline` (textures) and `YuvPipeline` (YUV data) |
| Audio pipeline (`audio_encoder.cpp`, `sound_capturer.cpp`, `audio_resampler.cpp`) | two threads, three events, FIFO | Run, Stop, EncodingThread, Encode, Free; CaptureThread; Store, ReadFrame | `AudioPipeline` |
| User manager (`user_manager.cpp`) | request queue, one stream, two timers, user state | Login, Logout, KeepAlive, OnConnect, OnRequest, On...Response | `UserManager` |
| Packet parsing (`game_session.cpp`, ServeClient) | receive buffer, its parse state, one timer for all sessions | serve packets, or wait for the rest | `SessionReader` |
| Session write queue (`game_session.cpp`, `encoder.h`) | `write_queue_`, saved stream headers | Write, OnWrite | four states in `GameService` |
| Input replay (`game_control*.cpp`, `vigem_client.cpp`) | the backend chosen at start | Initialize, ReplayControl and one function per backend | `VirtualHid`, the keyboard through the virtual device |
| Texture capture (`cgh/capturetex/`) | `initialized_`, shared textures, frame and texture counts; the mappings and the event shared with the encoder | hooks of Present and ResizeBuffers, Capture, ShareTexture, Free; hook thread | `VideoPipeline`, without the hook thread |
| YUV capture (`cgh/captureyuv`, `cgh/d3d9yuv`) | the same with pictures in shared memory | | not modelled, obsoleted by capturetex |
| SDL frame source (`cge/sdl_hack`) | waiting thread, `is_started_`, section with two slots, or shared textures | Refresh, CopyTextureToSharedYuv, WaitingThread | `YuvPipeline`, the YUV mode |
| Virtual HID client (`cge/cgvhid_client`) | keyboard's state and report | Init, KeyboardKeyDown, KeyUp, Reset | `VirtualHid` |
| Virtual HID driver (`cgvhid/cgvhid/device.cpp`) | default queue, queue of waiting reads | read report, write report | `VirtualHid` |
| Injector, HID tools, names and logging, launcher, installers, vendored code | | | not modelled |

How they interact. Two io threads run one `io_context`, *without a strand*, so two
handlers of one session may run at once. A session that has shaken hands calls
`GameService::Join`; its reader hands a login packet to the `UserManager`, whose
report comes back as a call of `GameSession::OnLogin`, which calls
`AddAuthorized`. The first authorised session runs the encoders and the last one to
leave stops them, by joining their threads on the io thread. The encoder threads
call `GameService::Send`, which takes `session_mutex_` and writes to every
authorised session. A video encoder whose source changes posts its own restart to
the `io_context`. The audio encoder runs a capture thread of its own. A signal
stops the service on an io thread, and `main` then stops the encoders again. Every
session replays its client's keys through a handle of its own to the one virtual
device. The frame source, another process, learns by two events whether an encoder
runs, and hands it frames through named shared memory and a third event.

What is hard, and what would make each part correct:

* *Game service.* Decisions (limit, first, last) are made under the lock and acted
  on after it, by two threads that may run and stop an encoder at once. Correct if the
  limit holds, no session is forgotten in the registry, no restart is lost, a stop
  returns, an encoder has its codec, and no thread object is assigned over or joined
  twice; the last three hold only with exceptions (sections 3 and 5).
* *Session.* Reads, writes, the close and the login complete in any order, also
  after the stream has gone. Correct if every open stream has a reader and every
  lost one leads to Leave.
* *User manager.* One stream and one queue are shared by a login, keep-alives,
  logouts, retries and two timers, from two threads. Correct if there is one
  exchange at a time, an answer is taken for the request it answers, retries are
  bounded and the session hears of its login.
* *Audio.* Two threads stop the same capturer while a third fills and a fourth
  empties its FIFO. Correct if a run leaves nothing behind, no frame waits for
  somebody to announce it, a stop returns, and the FIFO is there when it is used.
* *Video and the capture hooks.* Two slots of shared memory, a description of the
  picture and an event are shared without a lock with another process, which may
  resize, fail or go away at any time, and whose graphics device copies pictures later
  than it is told to. Correct if no picture and no change of size is missed, pictures
  never go back, and a texture is never mistaken for another.
* *Packets.* They come in any pieces, and all sessions share one receive timer,
  which is looked at only when bytes arrive. Correct if nothing that has arrived is
  left unserved, nobody logs in twice, and exactly those who are slow are cut off.
* *Virtual keyboard.* Several sessions write to one device, whose driver puts each
  report into a read that must be waiting for it. Correct if a write that succeeds
  was delivered, none fails unless writes meet, and no key stays pressed.
* *YUV source.* The name of its memory stands for the old section, with the old size,
  as long as either process maps it, and the source is switched on and off by events.
  Correct if nobody reads beyond what is mapped, a picture that has grown gets
  through, and the switch comes to follow the encoder.

`PROJECT.json` lists every hazard at its line, with the properties that cover it or
the reason why none does.

## 2. Modules

| Module | What it is |
| --- | --- |
| `GameService` | registry, sessions, engine and encoder threads, composed: each is a part of the state the others' actions read |
| `GameServiceProofs` | type correctness, the client limit, restarts that are not lost |
| `NoOrphanProofs` | an open stream is read, and no dead session is forgotten |
| `SessionReader` | how the sessions read packets; `SessionReaderProofs` proves its properties |
| `UserManager` | the client of the user service; `UserManagerProofs` proves its invariants and that it implements `LoginReports` |
| `LoginReports` | abstract: what a session may be told about its login |
| `AudioPipeline` | audio encoder, capture thread and FIFO |
| `AudioPipelineProofs` | type correctness, that runs begin clean, that frames are announced |
| `VideoPipeline` | the game's presenting thread and the encoding thread, composed over what they share |
| `VideoPipelineProofs` | type correctness, sizes, pictures and opened textures |
| `YuvPipeline` | the SDL source, its waiting thread, the encoding thread and the section between them; `YuvPipelineProofs` proves its invariants |
| `VirtualHid` | sessions' virtual keyboards, driver and host; `VirtualHidProofs` proves what its writes guarantee |
| `MCGameService`, `MCSessionReader`, `MCVideoPipeline`, `MCVirtualHid` | symmetry and constants for TLC |

### GameService

Each thread of the `io_context` is a stack of calls, `todo[t]`: empty in
`io_context::run()`, where it may take any handler that is ready; otherwise it
executes the call at the head. What a handler does up to its next access to shared
state is one step, and the calls it goes on to make are pushed. So
`AddAuthorized` decides under the lock, and `EncoderRun` follows as calls of their
own, with anything of the other threads in between, as in the code.
`session_mutex` has an owner because the encoder threads hold it across a step
(`SendLock`, `SendPacket`).

| Model | Code |
| --- | --- |
| `sessions`, `authorized_sessions`, `session_mutex` | members of `GameService` |
| `conn[s]` | `ws_`: not accepted, in handshake, open, closing (an `async_close` is outstanding), closed |
| `reading[s]` | an `async_read` is outstanding; a completed one is still served when the stream closes (`HasRead`) |
| `writing[s]` | `write_queue_`: empty, a write under way, one that is bound to fail, one that failed and is never popped |
| `login[s]` | what the UserManager may still report; see `UserManager` |
| `thread[e]`, `stop_event[e]`, `codec_context` | the encoder's `std::thread` and what it is doing, its event, and whether it has a codec |
| `posted` | `RestartVideoEncoder` handlers not yet run |
| `phase` | running, stopping, ..., or terminated: `std::terminate`, `end()` dereferenced, or a frame encoded without a codec |

What two threads do to one encoder is split where they may meet: `Run()` takes back the
stop event (`EncoderRun`) and then starts the thread (`StartThread`); `Free(true)` sets
the event (`EncoderStop`), asks whether there is a thread (`JoinTest`), joins it
(`JoinThread`) and frees the codec (`FreeCodec`). `Encoders` are audio and video, in
the order Engine calls them, or video alone.

`GameService` relies on `UserManager` for one thing, the order of the reports.
That promise is `LoginReports`: it is stated once, its actions are guards of
`OnLoginOk`, `OnLoginFailed` and `OnKeepAliveFailed` over the same variable
`login`, and the run `reports` shows that `UserManager` implements it.

### SessionReader

A message is what one read delivers: the rest of a packet, or that and more
packets, the last of them perhaps in part. The buffer is the sequence of the
packets in it and the number of pieces its last one lacks; a head comes in two
pieces and a body in one, which is what the two tests of `ServeClient` tell apart.
One iteration of its loop is one step.

| Model | Code |
| --- | --- |
| `reader[s]` | an `async_read` is outstanding, `ServeClient` runs, or the reading has ended, by the timer or otherwise |
| `parse_state`, `read_buffer`, `missing` | `parse_state_`, `read_buffer_` |
| `first_byte` | the static variable of that name, in ticks since then |
| `session_state` | `session_state_`; `OnLogin` sets it from any thread, at any time |
| `since`, `overwritten`, `logins` | history: when the session's own packet began, whether another has set the timer since, how many logins there were |

### UserManager

`request_queue` holds the methods of the requests; `async` counts the outstanding
operations on the stream by kind (a count, so that two at once can be seen);
`todo` is as above. The reports run inline, and a failure leads, through
`GameSession::Stop`, to a `Logout` on the same stack. The HTTP response is reduced
to what the handlers decide: usable, and naming the session, or not. The timers
hold no reference to the object, hence the guard `Exists`.

### AudioPipeline

`pc` says where the io thread and the encoding thread are; both run
`SoundCapturer::Stop()`, which is four steps (`CapturerSignal`, `CapturerTest`,
`CapturerJoin`, `CapturerRelease`) with a caller as parameter. `stops_left` is how
often the encoding thread still calls it: twice when `Encode` has returned (its own
scope exit and `Free(false)`), once when it was never reached. `fifo` counts whole
frames or is `NoFifo`; `ready` is the auto-reset event. Events of the audio
encoder are looked at in the order of the `events` array. Assertions end the
process; where a build without them goes on, both outcomes are there. `failed`
remembers that an FFmpeg call failed after samples were stored, or while they were
read, so that nobody was told.

### VideoPipeline

Two processes and the io thread, each with a place (`src`, `enc`, `io`); a step is
what a thread does between two accesses to what is shared. The io thread is serial
here: what may go wrong when two handlers stop and run the encoder at once is in
`GameService`.

| Model | Code |
| --- | --- |
| `info` | `SharedVideoFrameInfo`: a size, none yet, or torn (some fields of one size, some of another) |
| `frames` | the two slots of `SharedVideoTextureFrames`: which texture, and when |
| `ready`, `stop` | `shared_frame_ready_event_` (auto reset), `stop_event_` (manual reset) |
| `texture_size`, `picture`, `shows` | the textures by id: `picture` is the tick of the latest copy into it that was asked for, `shows` that of the copy that was made |
| `queued` | the copies the game's device has been told to make (`CopyTexture`) and has not made (`DeviceCopy`) |
| `shared`, `turn`, `texture_id`, `initialized` | `shared_textures_`, `frame_count_ % 2`, `texture_id_`, `initialized_` of the game |
| `cache`, `saved` | `shared_textures_` and `saved_frame_info_` of the encoder; `cache` keeps apart the id noted and the texture really opened |
| `src_mapped`, `enc_mapped` | who maps the slots: the mapping, and what is in it, goes with the last of them |
| `event_open` | the game has the frame's event, which is created along with the mapping and only then |
| `overtaken`, `undescribed`, `early` | history: the game has written a slot between the encoder's choosing it and encoding from it; a capture has failed to write `info`; the encoder sleeps after encoding a texture whose latest copy the device had not made |

Texture ids are never used twice, as a new game has a process id of its own in its
textures' names; an instance id is therefore not needed. A texture can be opened by
name while the game holds its handle. `OpenTexture` failing skips the picture, as
`EncodingThread` ignores what `EncodeFrame` returns.

Nothing in the code keeps a source that is two frames ahead from writing the texture
being encoded, and then pictures may go back, or a texture be kept under the id of
another (`GetSharedTexture` reads the id from the slot again after it has opened the
texture). `PictureFollowed`, `CacheIsCurrent` and `NeverBackwards` say what holds
until that happens for the first time; the properties about sizes hold whoever
overtakes whom. `undescribed` remembers that a first capture failed after
`initialized_` was set (section 5); `SizeFollowed` excepts it.

`CopyResource` only tells the device to copy, and nothing makes the game wait for that
before it sets the timestamp and the event. `DeviceCopy` therefore makes the copies in
their order but at any later time, or never when the game ends. An encoder ahead of
the device (`Unfinished`) encodes an older picture, which may also be older than what it
has shown: `NeverBackwards` and, through `early`, `PictureFollowed` except exactly that.

When the event cannot be created after the mapping was made, it is never created again,
as the mapping is there; that game's frames wake nobody. `AtRest` therefore asks for
the event, and so the properties are about a game that has it.

### YuvPipeline

| Model | Code |
| --- | --- |
| `info`, `ready`, `started`, `stopped` | the description, the frame's event, and the two events that say whether an encoder runs; `stopped` is also the encoder's stop event |
| `section`, `src_map`, `enc_map` | the named section by the size its slots are for, and who maps it |
| `data_size`, `first`, `newer` | where the slots lie, and what is in them: `newer` says, for each place the second slot may have, whether what lies there has the later timestamp, or is no picture |
| `src`, `size`, `swap_new`, `width`, `turn` | the program's rendering thread in `CopyTextureToSharedYuv`; its swap chain, and what it remembers of it |
| `is_started`, `waiting`, `src_stop` | `WaitingThread` and what it switches |
| `enc`, `saved`, `io`, `posted` | as in `VideoPipeline` |
| `returned` | history: the size went back to what the encoder has noted before the slots did |

Mapping a size that the section has room for succeeds, whoever made the section. If it
has none, the encoder asks for its restart, and the source drops the picture and sets
the frame's event, so that the encoder finds the new size and lets go. `fault` is the
place of an encoder that has read beyond its mapping.

### VirtualHid

Two handlers of one session may run at once, `OnLogin` ("control", which calls
`GameControl::Initialize`) and `OnRead` ("replay"): `session_state_` is set before
the first of them has got that far. A write is a request in the driver's queue; the
driver serves one at a time, in two stages, the report and a message of its own, each
of which completes a read that waits in `report_queue`. The class driver above keeps
`Reads` reads outstanding; that it sends another for each completed one is external,
taken from how the driver uses it.

| Model | Code |
| --- | --- |
| `life`, `closed`, `call` | the session from before its login to its destructor, and where its handlers are |
| `keyboard_replay` | `keyboard_replay_`, which nobody initialises: a choice until `Initialize` |
| `control` | whether `control_` is open: from `OpenControl` on, unless `OpenMessage` finds that the buffers cannot be set and closes it again |
| `keyboard_state`, `control_report` | of `CgvhidClient` and `Cgvhid`: the codes in the state and in the one report, which are changed one after the other (`SetState` or `KeyboardReset`, then `KeyboardUpdate`), and by both handlers |
| `queue`, `report_queue`, `serving` | of the driver |
| `host` | the keys the host takes to be pressed |
| `held`, `crowded`, `failed`, `early`, `replays` | history: what the client holds, whether writes met or failed, whether a key was replayed before `Initialize` had returned |

## 3. What the runs check

Deadlock is checked in `AudioPipeline`, whose only rest is the end of the process
(`Ended`), in `VideoPipeline` and in `YuvPipeline`. In `UserManager`, `SessionReader`
and `VirtualHid` the clients may have nothing more to send, sessions may be gone and
bounds used up, so their runs do not check it. Those of `GameService` do not because the
program really can hang there: an io thread may join an encoder whose stop event another
has taken back, and, if it was the signal's, the process never ends.

| Run | Bounds | Shows |
| --- | --- | --- |
| `registry` | 2 sessions, 2 threads, limit 1, video, no frames | `TypeOK`; the limit holds although Join tests it long before AddAuthorized; every open stream is read; nobody disconnected is forgotten in the registry |
| `gone` | 1 session, 2 threads, video streams, 1 restart | a restart an encoder has ended for is not lost; a thread that joins the encoder gets on, unless its stop event was taken back; a session that has lost its connection leaves both sets for good, with an encoder writing to it as well |
| `codec` | as `gone` | violation, see section 5 |
| `exchange` | 2 threads, 2 retries, 2 stops, 2 keep-alives, 2 write errors | one exchange at a time; answers go to the front request; a login is under way until it is reported on, and is answered, if only by a failure |
| `reports` | 1 thread, 3 keep-alives | `UserManager` implements `LoginReports` |
| `audio` | 2 runs, 2 frames | runs begin clean; no frame waits for somebody to announce it; a stop of a capturing encoder returns |
| `audio_fifo` | 2 runs, 1 frame | violation, see section 5 |
| `video` | 2 sizes, 3 pictures, 1 waiting restart, all failures, sizes symmetric | the encoder is woken before there is a size only if a capture has failed; unless one has, an encoder that sleeps was opened with the size of the latest picture; an encoder that sleeps has encoded the latest picture; the texture it has for a slot is the one the slot names; it never goes back to an earlier picture; each with the exceptions of section 2 |
| `video_first` | 2 pictures, captures fail | violation, see section 5 |
| `yuv` | 2 sizes | the slots lie where the encoder has checked when it begins to read one; what the program does not know of the encoder, the events will tell it; when programs and clients are left alone, the switch follows the encoder and a picture that has grown is encoded |
| `hid` | 2 sessions, 2 keys, reports with room for 1, 2 reads, 2 replays | a write that succeeds was delivered; only writes that meet fail; no key stays pressed that nobody holds |
| `session` | 2 sessions, 2 packets each, a limit of 1 tick | nothing that has arrived is left unserved; a session logs in once; whoever is timed out was slow, and who was slow gets nothing more served unless another has set the timer since |

Why the bounds are enough. Two sessions are the least that compete for a place, and that
lets one leave while another logs in, and the limit is 1 so that they compete. Two
threads are what `Engine::Run` has. Frames and restarts are left out of `registry`,
where they are only one more reason for a write to fail, and put back in `gone`, where
one session is enough for its own late login to run the encoder that its leaving stops.
Video is the only encoder of these runs: audio's calls come before video's and have the
same form, audio never restarts, and the proofs of section 4 are for both. Each bound of
`UserManager` is one more than what its branches tell apart: the last retry and the one
after, a logout queued behind a keep-alive and behind a logout. Two audio runs are what
it takes for one to find what another left; two frames, for one event to stand for more
than one. Three pictures fill both slots and come back to the first one, so that a slot
is used again with the same texture or another; `MaxTicks = 4` was also checked once,
with captures that do not fail (14 million states), and is too slow for every day. One
restart can be waiting, as the thread that posts it ends with it. `YuvPipeline` needs no
bound: its variables are finite, and two sizes are what it takes to grow and to shrink.
Two packets are the least of which one can be whole while the next is not. In `hid`, two
sessions are what it takes for writes to meet and for one to release another's key; room
for one key is what a second overflows; two replays are a press and a release, or two
presses the second of which is dropped (that the release of a dropped key is harmless
too takes a third, and is left to the theorem); two reads are the fewest with which a single
write does not fail (the class driver keeps more); there are no modifiers, as they
differ only in having no limit.

`reports` is checked on one thread: on two, a failed keep-alive could be reported
before the login's success if the keep-alive interval passed while a handler is
between two statements. Only the interval excludes that, and the model has no
time. Section 4 states the condition under which it holds for any number of threads. TLC
has checked that statement once on two threads, with the condition as a state
constraint (97 thousand states).

`RestartIsServed`, `NoOrphan`, `LoginIsUnderWay` and `SwitchIsTold` say what liveness
(`GoneForGood`, `LoginAnswered`, `SwitchFollows`) owes to the code rather than to
fairness: at any time there is something that will bring about what is waited for.
They need no fairness, so they can be proved.

Fairness. In `GameService` a thread makes the calls it has to make, encoder threads
go on, and of each session the completion of a failed read, a failed write or a close
is served although others arrive (an `io_context` serves them in order); strong, because
the thread or the lock may be taken in between. Nothing is assumed of clients, of the
frame source or of errors. In `UserManager` an operation begun on the stream
completes: the code sets no timeout, so this is what it relies on. In
`AudioPipeline` threads that can go on do; the encoding thread's steps and the
capture thread's reaching its wait are strongly fair, because the device delivers in
real time and the capture thread finds it empty between packets. Errors,
`Run` and `Stop` have no fairness. In `YuvPipeline` every thread goes on and the io
thread takes its handlers (weak fairness), and the program's loop refreshes whenever
it has no input to handle; a `Run` is sure to come only when it ends a restart, not
for a new client. Resizes, failures, restarts of the program and leaving clients
(`Disturbance`) may happen for ever: `SwitchFollows` and `ResizeFollowed` say what
holds once they have ceased. `VideoPipeline` has invariants that
speak of an encoder at rest (`AtRest`) instead of liveness properties, and no fairness.

Every property has a mutant: a definition named in `PROJECT.json` that changes one
action as a plausible bug would, and with which TLC finds the property violated.

## 4. What is proved

For every value of the constants that satisfies the modules' assumptions:

* `GameServiceProofs!TypeCorrect`: `TypeOK` of `GameService`. It is inductive; the
  work is in the stacks of calls, for which two lemmas say that what `Then` and
  `Start` leave is again a stack of calls. Assumed: `SessionAssumption`,
  `LimitAssumption`, `EncodersAssumption`, `StreamingAssumption`, `ThreadAssumption`.
* `GameServiceProofs!ClientLimitHolds`: `ClientLimit`. The set of sessions is
  finite, so `authorized_sessions` is, and only `AddAuthorized` enlarges it, by one
  and below the limit, in one step under the lock.
* `GameServiceProofs!RestartIsServedHolds`: `RestartIsServed`, on any number of threads
  that run and stop the encoders in any order. It is inductive with `TypeOK`. A thread
  that ends for a restart posts it in the same step; the handler that takes it out begins
  with `EncoderStop`; and after an `EncoderStop` the event is set until an `EncoderRun`
  takes it back, which has its `StartThread` still to come (`ComingStart`,
  `ComingThen`). `StartThread` finds a thread that has not been joined, which ends the
  process, or starts one.
* `NoOrphanProofs!OpenIsReadHolds`, `!NoOrphanHolds`: both say of each session that
  something is left to do for it, and follow from an invariant about one session,
  `Good(r)`, of three parts. `Attended` and `Kept` are the two properties, for one
  session. `Fresh` is what they need: `AddAuthorized` waits at most once, and alone on
  its stack (`Once`), and until it has run the session is not among the authorised ones
  and nothing is written to it (`Unwritten`). Without it a late authorisation could
  follow the last handler that would call `Leave`. Actions of other sessions are dealt
  with once, by lemmas about what they leave alone.
* `SessionReaderProofs`: `TypeCorrect`; `LoginOnceHolds`, as a session that has
  created a `UserManager` is no longer `kNone` (`Marked`), whoever reports on it;
  `NoFalseTimeoutHolds` and `SlowIsNoticedHolds`, from how `first_byte`, `since` and
  `overwritten` are tied while a packet is begun (`Timed`); `NothingLeftBehindHolds`,
  as a session goes back to reading only with an empty buffer or one packet that
  lacks a piece, and how much of it is there is what `parse_state` says. Assumed:
  `LimitAssumption`, `BoundAssumption`.
* `UserManagerProofs`: `TypeCorrect`, `SingleExchangeHolds`, `AnswersFrontHolds` and
  `RetryBoundHolds`, for any number of threads, from one invariant `IInv`. Its core
  is `Single`: operations outstanding and calls that will begin one are never more
  than one together, counted over all stacks. For that the stacks have to be
  `Tidy` (`InvokeNextConnection` is always the last call of one), and an exchange under
  way has its request in the queue (`Queued`), so that whoever finds the queue empty
  is alone. Assumed: `RetryAssumption`, `BoundAssumption`.
* `UserManagerProofs!ReportsInOrderHolds`: the refinement of `LoginReports`, step by
  step, for any number of threads, as long as none reports a failed keep-alive while
  another has a login result still to report (`Timely`); on one thread, that of the run,
  it is always so. The login and the reports are steps of `LoginReports`, the rest
  stutters.
  The invariant is `Ordered`: there is one login, queued first, answered once
  (`OneLogin`), and failures are reported while it is in the queue (`Failing`); a
  keep-alive is sent only after the success is at least about to be reported (`Kept`),
  and there is one of them at a time, from its timer to its report (`OneKeepAlive`).
* `UserManagerProofs!LoginIsUnderWayHolds`: on any number of threads and without
  that condition. The login is carried by a call on some stack or by the exchange that
  has it in front of the queue (`UnderWay`), and every handler hands it on. What has to
  be known besides is that the queue is empty, with no exchange and nobody else about to
  begin one, when the login is queued (`Alone`), so that it comes in front and connects.
* `AudioPipelineProofs!TypeCorrect`: `TypeOK` of `AudioPipeline`, strengthened by
  `Bounded`: calls of `SoundCapturer::Stop()` are made only while some are left,
  and a packet is stored only where there is room. The events are proved apart
  (`Flags`), the rest is `Places`. Assumed: `BoundAssumption`.
* `AudioPipelineProofs!RunsBeginCleanHolds`: `RunsBeginClean`, from `Owned`. The
  property speaks of the moment before a run; what makes it inductive is what is
  true on every way there: outside of its wait and of `Stop()` the encoding thread
  has neither capture thread nor FIFO, and it frees the FIFO only after the thread
  was joined, whoever joined it. That a capture thread which has not opened the
  device finds no FIFO is part of it, and needs the encoding thread's place when it
  starts that thread.
* `AudioPipelineProofs!FramesAreAnnouncedHolds`: the encoding thread comes to its
  wait only with nothing left to read, or with the failure noted; what is stored after
  that is followed by the event. That it has a capture thread only there is `Owned`.
* `VideoPipelineProofs!TypeCorrect`: `TypeOK` of `VideoPipeline`, strengthened by
  `Named`: no more textures than pictures, and the encoder encodes only from a slot
  whose texture it has opened. Assumed: `SizeAssumption`, `FailuresAssumption`,
  `BoundAssumption`.
* `VideoPipelineProofs!SizeIsLostByCaptureHolds`: the event is only set by a capture
  that has come past the description, or that follows one which has failed to write
  it (`SizedFirst`), and neither process ever takes a description back.
* `VideoPipelineProofs!CacheIsCurrentHolds`: by `Held`, an encoder that looks at the
  slots maps them, so the end of the game does not clear them; the game writes the
  name in a slot the encoder is reading only when it overtakes; so what
  `NoteTexture` reads again is the name of the texture it has opened.
* `VideoPipelineProofs!SizeFollowedHolds`: by `Sized`, the textures the game holds are
  of its present size, it holds none while it writes the description, and so a
  description the encoder has not seen is followed by the event, if the game has one.
* `VideoPipelineProofs!PictureFollowedHolds`: by `Stamped`, a slot that is not
  being written names the texture in it and has its picture's timestamp; by
  `Following`, unless another event is set or on its way (`Awake`), the encoder has
  encoded the latest picture, was ahead of the device (`early`), or is about to. That
  it finds in the slot what it has chosen needs `Held`.
* `VideoPipelineProofs!NeverBackwardsHolds`: what was encoded was in one of the
  two slots, and the game writes over the earlier of its two pictures (`Ordered`). So
  the slot chosen is as late as what was encoded, and a texture the encoder keeps for a
  slot has been given that slot's picture, or the other slot is later (`Onward`). What
  it shows is not later than that (`Copied`), and the same unless the device is behind
  (`Unfinished`). `Noted` says which names the encoder may have noted of each slot.
* `YuvPipelineProofs`: `TypeCorrect`; `NoSmallSectionHolds`, as the encoder
  notes a size only while it maps nothing and encodes only what it maps (`Mapped`);
  `SlotsLieAsCheckedHolds`, as the program copies pictures of the size it has described
  last (`Described`), and what the encoder has checked holds for as long as it stays,
  not only when it encodes (`Checked`). Assumed: `SizeAssumption`, so for any sizes.
  `SwitchIsToldHolds`, from `Told`, which adds what is true while the encoder is
  being stopped (`Stopping`): its stop event stays set until it is run again, and if the
  other event is set as well the encoder is on its way out, where it resets it.
* `VirtualHidProofs`: `TypeCorrect`, where the room in a report needs `Roomy`;
  `SuccessMeansDeliveredHolds`, as a report that finds no read leaves
  none for the message after it (`Delivered`), because the driver dispatches nothing
  while it serves a write; `NothingFailsAloneHolds`, for two
  reads or more, as the reads in the queue and those that wait are always `Reads`
  together (`Conserved`), and a write that has not met another finds them where it needs
  them (`Before`, `During`, `Alone`). Assumed: `KeyAssumption`, `CountAssumption`.
* `VirtualHidProofs!NoStuckKeyHolds`, for any `Reads`, from three facts. A write that
  has not returned has its handler waiting for it, and no other write has (`Pending`).
  A session's state holds nothing its client does not, unless its destructor is about
  to reset it (`HeldBy`); for that the way to replay is set before the device is opened
  (`SetUp`), and, where no key was replayed before `Initialize` returned, the report
  says what the state says unless it is about to be filled (`Filled`). And each write on
  its way, and the host's keyboard, says what its session's state says, or that session
  has a newer write to come (`Carried`, `AtWrite`), through a device that is open for
  good (`Opened`), as long as every report was delivered (`Sound`; `Delivered` says a
  loss shows in the end). When all is quiet nothing is to come, and the host's keyboard
  is some session's state.

Model-checked only: the liveness properties (`LoginAnswered`, `GoneForGood`,
`EncoderStopReturns`, `StopReturns`, `SwitchFollows`, `ResizeFollowed`), as fairness
and `ENABLED` are beyond the prover. Every invariant and the refinement that a
passing run checks is stated by a theorem; one of them, `ReportsInOrder`, under a
condition on how threads may overlap. Proved without a run are
`RetryBound` and `NoSmallSection`.

## 5. Where the code disagrees with itself

* `audio_fifo`: `AudioResampler::ReadFrame` asserts `nullptr != fifo_`
  (`audio_resampler.cpp:216`) and uses it, and so does `Store` (`:91`). `Free(true)` on
  the io thread frees the FIFO (`audio_encoder.cpp:152`) before it sets the encoder's
  stop event (`:158`); a frame announced just before wakes the encoder in between. The
  ready event survives a run: one left set wakes the next run's encoder before its
  capture thread has made a FIFO. And the io thread's `SoundCapturer::Stop()` may find
  no thread to join, the encoding thread's `Run()` start one, and `Stop()` free the
  FIFO under it.
* `codec`: `VideoEncoder::EncodeFrame` asserts `nullptr != codec_context_`
  (`video_encoder.cpp:529`) and uses it. `AddAuthorized` and `Leave` run and stop the
  encoders after they have released the lock, on two threads: `Free(true)` sets the stop
  event and finds no thread to join (`:265`), `Run()` takes the event back and starts
  the thread (`:82`), the thread opens its codec, and `Free` goes on to free it (`:279`).
  One client is enough, whose login is answered while it leaves. The same can meet
  `AddStream`, which asserts that there is no codec yet (`:297`).
* `video_first`: `EncodingThread` waits "for first video frame, to retrieve size"
  (`video_encoder.cpp:120`), but that frame may come without one: `Capture` sets
  `initialized_` before it tries `CaptureTexture`
  (`cgh/capturetex/capture_dxgi_d3d11.cpp:136`), and when that fails it will not
  write the description again. The next picture is shared, the encoder finds `kNone`
  and ends for good (`video_encoder.cpp:142`).

Behaviours the models have and no statement of the code forbids are hazards in
`PROJECT.json`. On two io threads an encoder may be stopped for the client that has just
come, or its thread object assigned over. A join may be of a thread whose stop event
`Run()` has taken back, and then hangs: `EncoderStopReturns` excuses it, and
`SoundCapturer::Run` can do the same to the capturer's `Stop()`. A posted restart may
start an encoder nobody asked for. `StopAll` may take `begin()` of a set that has become
empty. A game whose event could not be created wakes nobody, an encoder may be ahead of
the game's device, and a key replayed before `Initialize` has returned may stay pressed.

## 6. Abstractions, and what is not modelled

Packets have no contents; a `Send` writes the packets of one frame together. A
write queue is four states. The stream's own timeouts are `Disconnect`. The
command line, logging, the choice of codec, FFmpeg's and COM's objects, and formats
are left out. The shared_ptr that keeps a session alive is derived (`Alive`).
Data races on plain members (`request_queue_` in the pops, `thread_` in
`joinable()`, handles closed twice) are atomic steps, with the outcomes of a
second `join()` as alternatives. `GameService` treats the audio encoder as one
thread; `AudioPipeline` has its capture thread. `VideoPipeline` has a Direct3D 11
game whose swap chain is presented and resized by one thread; the `Reset()` of the
Present after a resize repeats the `Free()` of the resize and is left out, as are
formats, the staging texture (made with the size the encoder was opened with), and
failures of Direct3D in the encoder other than not finding a texture. A copy that the
game's device is making while the encoder reads the texture is atomic: a picture torn
between two is not modelled, one that comes too late is. The encoder's own copy is made
before it reads, as it maps the staging texture and so waits for it.
Sizes are values that can be told apart; a description that is being written is
`Torn` as long as it is not all of one size.

In `SessionReader`, sizes are such that adding a head to them does not overflow, a
`kPing` is a `kControl`, and `first_byte`, which two threads may write at once, is
atomic. In `VirtualHid` the bytes of a keyboard's state, and those of a report, are
written at once, each in a step of its own, and a handle that `Free()` closes is not
waited for by a write under way. The keyboard alone is replayed through the device; the mouse's
report has the same form. `VkToScancode` is a constant: the table in
`cgvhid_client.cpp` begins with the entry of 0x01 but is indexed from 0, so 0x00 to
0x18 get their successors' codes and 0xFF is read beyond its end; the properties hold
whatever it contains. In `YuvPipeline` the headers of section and slots have no size.

Not modelled:

* The strings of the write queue and the stream headers put before them. The headers are
  copied by `Write` and cleared by `Free` without a lock; what a `std::string` holds
  then is undefined, and a model would have to choose it.
* Mouse, gamepad, window messages and `SendInput`: conversions that keep no state.
* `captureyuv` and `d3d9yuv`, which their README calls obsolete, and the mode of
  `sdl_hack` with a shared texture, a copy of `capturetex`. Direct3D 12, which differs
  in what `Free` releases. The installation of hooks, and the search for devices.
* Injector, HID tools, launcher and installers: short sequential programs. Names and
  logging.
* Vendored code, which is most of the tree by lines (EasyHook, FreeRDP, and the
  headers of gsl, yuv and SDL). The program's own code is a small part of it.

## 7. What may follow

`GoneForGood`, `EncoderStopReturns` and `StopReturns` have no proved counterpart for
each moment of the way yet, as `LoginIsUnderWay` is for `LoginAnswered`: for the first,
that a session which has left both sets cannot come back; for the others, that the
thread joined has a way to its stop event while that is set. `ResizeFollowed` rests on
an event that is set, or about to be, whenever the size in the description is not the
one the encoder has. The condition `Timely` could be weakened to the interleavings that
do harm. A model of Direct3D 12 would share most of `VideoPipeline`.
