# A verification development for AdTerminalSystem

AdTerminalSystem is the Android application of an advertising terminal in an
elevator: it polls a server for a media strategy, downloads the videos and
images the strategy names, plays them, and pushes the picture of a USB camera
over RTMP. This directory holds TLA+ models of its core, the TLC runs that
check them on small instances, and theorems about them checked by TLAPS.

Status: the download component, the update of the media strategy with the players it
feeds, the pushed RTMP stream and the played RTMP stream are modelled and checked, and
what matters most about each is proved. The other components are inventoried below and follow in the
order of the plan.

Paths are relative to `src/app/src/main/java/com/bupt/adsystem/` unless they
start with `src/`; the native files (`.cc`) are in `src/anyrtc/jni/AnyCore/`.

## Inventory

| Component | State | Operations | Talks to |
|---|---|---|---|
| Download service (`downloadtask/DownloadService`, `DownloadTask`, `db/ThreadDAOImpl`) | list of tasks, pause flags, executor queue, main message queue, `thread_info` table, files | `download`, `pause`, `onLowMemory`, `MSG_INIT`, `MSG_DOWNLOADING`, `MSG_DOWNLOAD_FINISHED`, init and download threads | callers by `OnDownload`, itself by broadcast |
| Download manager (`downloadtask/DownloadManager`) | service reference, waiting list, semaphore | `startDownload`, `pauseDownload`, `onServiceConnected`, `MSG_BIND_SUC` | download service |
| Strategy update (`RemoteServer/ServerRequest`, `MediaUpdateReceiver`, `MediaStrategyMgr`, `AdMediaInfo`) | current strategy and its saved XML, counters of each update | poll every 10 s, diff, start downloads, apply, delete old files | download manager, players |
| Players (`Utils/NewVideoMgr`, `NewImageMgr`, `RemoteServer/LocalMediaFile`, `view/MainActivity`) | playlist and its index, pending messages, view | play, next, completion, error, missing file, strategy change, camera button | strategy, files |
| RTMP push (`anyrtmpush.cc`, `anyrtmpstreamer.cc`, `avcodec.cc`, `RtmpHosterImpl.cc`) | connection state, frame queue, retry count, encoder locks | connect, send, disconnect and retry, start and stop | RTMP server, encoders |
| RTMP pull and player (`anyrtmpull.cc`, `anyrtmplayer.cc`, `plybuffer.cc`, `plydecoder.cc`, `RtmpGuesterImpl.cc`) | connection state, retry count, play buffer, decoder and renderer | start, stop, connect, read, cache, decode, tick | RTMP server, audio device |
| USB camera (`Camera/`) | device and preview state | attach, connect, preview, stop | USB library |
| Legacy control (`RemoteServer/MessageDispatcher`, `AlarmUtil`, ..., `Utils/FileListMgr`, `AdVideoCtrl`) | predecessor of strategy and players | not started by `MainActivity` | download manager |
| Sensor drivers (`src/sensordriver`) | file descriptors, RC522 registers | open, read, close | `/dev` |

Vendored code (WebRTC, librtmp, libuvccamera, usbCameraCommon, com.serenegiant)
is left aside. The repository's tests are the two empty templates of Android
Studio, so its code and comments are the only statement of what it should do.

What makes each component correct:

- Download service: no file is told finished with a hole in it; a requested
  file arrives; a listed task is being worked on; completion removes the task
  that completed.
- Download manager: a request made before the binding is neither lost nor
  handed over twice; the main thread never blocks.
- Strategy update: a strategy is applied only when its files are there, and
  eventually is; a file of the current strategy is never deleted; what is saved
  can be played after a restart.
- Players: the playing never stops by itself, a missing file does not stop the rest, every
  medium has its turn, and pictures keep their pace.
- RTMP push: a stopped stream ends, a lost one is reported, the threads do not wait
  for each other in a circle, a server gets a key frame first, nobody is inside the
  streamer when it is deleted.
- RTMP pull and player: a started play lives until it is refused or stopped, a
  stopped one ends, what is received is played, nobody uses a deleted decoder.

The hard behaviours, with their lines, are the `hazards` of `PROJECT.json`.

## Modules

| Module | What it is |
|---|---|
| `DownloadService` | the service, its tasks, threads, messages, table and files |
| `FloatProgress` | the float arithmetic of the progress: an algorithm over integers |
| `Downloads` | abstract: what the download component promises its callers |
| `DownloadLife` | abstract: the life of one download, as whoever started it sees it |
| `DownloadManager` | the manager composed with the service on one main thread |
| `DownloadService_proofs` | theorems about `DownloadService` and their proofs |
| `DownloadTally_proofs` | what counting shows, on the lemmas of `DownloadService_proofs`: no listed task is left behind, and every download lives as `DownloadLife` says |
| `DownloadManager_proofs` | theorems about `DownloadManager`, on the lemmas of `DownloadService_proofs` |
| `ManagerService_proofs` | manager and service refine the service alone, and what follows from it |
| `MediaUpdate` | server, polls, receivers, downloads as their callers see them, strategy shown and saved |
| `MediaUpdate_proofs` | theorems about `MediaUpdate` |
| `Players` | the video or the image player composed with `MediaUpdate` |
| `Players_proofs` | theorems about `Players`, on those of `MediaUpdate_proofs` |
| `RtmpPush` | hoster, streamer, push thread, encoders |
| `StreamEvents` | abstract: the callbacks of a pushed stream |
| `RtmpPush_proofs` | theorems about `RtmpPush` |
| `PlayBuffer` | the play buffer: an algorithm over time and two queues |
| `RtmpPlayer` | guester, player, pull thread, decoder and audio track around a `PlayBuffer` |
| `PlayEvents` | abstract: the callbacks of a play |
| `RtmpPlayer_proofs` | theorems about `RtmpPlayer` and `PlayBuffer` |
| `MCService`, `MCManager`, `MCUpdate`, `MCPush`, `MCPlay` | instances for TLC |

### DownloadService

`taskList` is `mListTask`, `isPause` the flag of every `DownloadTask`, `pool` the
queue of the executor and `worker` its threads, `looper` the message queue of the
main thread (the handlers of manager, service and tasks share it), `broadcasts`
the `ACTION_FINISHED` intents under way. `saved` is `thread_info.finished` of
each url (tasks are created with one thread, `DownloadService.java:82`, so a url
has one row), and `have` the blocks of each file with the right bytes.
`finishedCalls` counts `onDownloadFinished`.

A task is named by the `TaskInfo` it was made from. One action is one handler of
the main thread, or what a thread does between two points at which others can see
it: `InitDone` (the init thread ends in `MSG_INIT`), `Connect` (the answer to the
range), `Read` (write a block, perhaps notify, look at `isPause`), `SaveProgress`
(the row of a paused thread, a step of its own because main may restart the task
before it), `EndOfStream`, `Fail` (an exception or a refused status). `isPause` is a plain
field written by main and read by the threads, so a pause may be seen late or never
(`Seen`); that a restart clears it is taken to be seen at once.

`Notify` is `notifyProgress`, of which only the value 100 changes any state. The code
computes `(int) (((float) finished / (float) length) * 100)` (`DownloadTask.java:328`), and
a float has 24 significant bits. `Bytes` says how many bytes the first `n` blocks of a
file have, a block being what one read returns, or several in a row;
`FloatProgress` has the two casts, the division, the product and the cast back, each rounded to
the nearest float, of two the even one. `Says100` needs only the casts: of two floats the smaller
is at most 1 - 2^-24 times the larger, and a hundred times the rounded quotient is cut off
to 99. `ProgressAssumption` of `MCService` compares `Says100` with the whole expression
for floats of seven bits and all files up to 300 bytes.

The conversion is no identity. Up to 2^24 bytes (`SmallFile`) it is exact. In a video of
100,000,000 bytes floats are eight apart, so when four bytes are missing both casts give the same
float: a periodic notification after that read, or that of a pause, says 100, and
`onDownloadFinished` is called, the end broadcast and the row deleted before the file is whole.
`service_safety` runs with this file (`Video`). What holds for every size is
`FinishedFileIsThere`: the file has no hole, and lacks at most one byte in 2^23 at its end.
What needs a `SmallFile` says so: `FinishedFileIsWhole`, `KeepsPromise`, `LivesAsPromised`.

Abstracted: file paths and names, the bytes of a block (right or wrong), the
progress values below 100, `finished` beyond 2^31 bytes, which only repeated
200 replies to ranges could reach, the init request's own failures (they are `Fail`), the
shared database handle (operations are atomic), and `onDestroy`, which the
application cannot reach while the manager is bound. Each url has a file of its
own and its content does not change while the model runs. A null `OnDownload`
(nobody in the repository passes one) is left out.

The hazards of an instance are the set `Hazards`: `failure`, `pause` (low memory
or `pauseDownload`), `duplicate` (a url asked for again while it is being
initialised) and `full` (a 200 to a range). `Kill` clears memory and keeps the
table and the files.

What becomes of one request, as long as nothing is paused, is `DownloadLife`: it
waits, is listed and runs, and is told finished once, or once more, since the loop that
reads the last block and the end of the stream can both notify 100; the second time may come
before or after the first `MSG_DOWNLOAD_FINISHED` has taken a task off the list.
`LoadOf` reads where a request is off the queues and threads, and `LivesAsPromised` says that
every step of the service is one of `DownloadLife` for every request of a `SmallFile`. Of a
larger file every read of the last few bytes may say 100 as well.

### DownloadManager

It extends the service with `mService` (`bound`), the callbacks `bindService`
still owes (`connections`), `mListTask` (`waiting`), the semaphore (`permits`) and
what the main thread does (`mainThread`). `HandleBindSuc`, `HandOver` and
`Release` are the loop of `MSG_BIND_SUC`; the pool goes on between them and no other
handler does. A main thread that waits for the semaphore is `blocked`, and no
handler of manager or service runs again. `destroy()` has no caller.

The composition is tied to the service by refinement: with `urlOf` cut down to
the requests the service has seen (`serviceUrls`) and `looper` to its messages
(`serviceMessages`), every step of manager and service is a step of
`DownloadService!Spec` (`UsesTheService`). What is shown of the service thus holds under
the real manager; the theorems that say so are in `ManagerService_proofs`. `Without`, which
leaves `MSG_BIND_SUC` out of the queue, counts the places that are kept instead of using the
library's `SelectSeq`, which is recursive and so opaque to the prover.

### MediaUpdate

A strategy is the set of its media ids, `FileOf` gives each id its file. `container`
is `adMediaInfo.videoContainer`, which the players play, `saved` the text under
`KEY_XML_TEXT`, `disk` the files that are there in full. `newMedia`, `total`,
`finished` and `deleteSet` are the fields of each `MediaUpdateReceiver`. Videos and
images go through the same code with counters and containers of their own, so one
of the two is modelled.

Every handler is on the main thread. `Poll` is an answer of the web service, which
makes a receiver whether or not anything has changed (`ServerRequest.java:106-118`);
`Process` the arrival of its strategy, with the diff, the starts and the save;
`Tell` is `onDownloadFinished`, which counts, applies the strategy, or finds an id to
delete that the container no longer has (`Count`, `Apply`, `NullPointer`).
The diff is taken from the strategy shown when the answer comes, the ids to delete are
looked up in the one shown when the last file comes: `oldMediaInfo` is the manager's
own object, and `changeVideoContainer` writes into it.

Of the download service there is what a receiver can see: a start is dropped, with
its callback, when the url is listed (`DownloadService.java:192-198`); it is listed only
after the init thread has run; a finished download is told and then taken off the list,
perhaps told twice, the second time before it is taken off (`again`) or after (`late`); a
failed one stays listed (`wedged`). This is `DownloadLife`, which `DownloadService`
implements for every request of a file of at most 2^24 bytes, and `LoadsLive` says that the downloads of the update keep to
it: `MediaUpdate` takes the service for no other than it is for such files. That a larger one
may be told before its last few bytes are written, and more than twice, is left to
`DownloadService`. The findings say how the
second completion and the wedged task come about. What the downloads of one url do to each
other is kept to what the list decides: that the second `MSG_DOWNLOAD_FINISHED` of one download
can take another task of its url off the list (`service_wrong_removal`) is left out.
Paused downloads and an unbound service are left out, as is an
answer that is not XML: `parseXmlFromText` returns null and the handler throws.

The hazards: `overlap` (the server changes its strategy during an update), `queued` (a
strategy arrives while downloads wait for a thread), `twice`, `fail`, `kill`,
`renamed` (a file comes back under another id) and `removal` (a strategy that only
removes). Each behaviour chooses one set of `HazardSets` at its beginning. A property
that a hazard breaks names it: every such exclusion was checked to be necessary,
by dropping it and letting TLC find the counterexample. The properties thus say
what the code does and does not survive:

- `PlaylistWhole`: everything played is on the disk; not when updates overlap (one
  deletes a file of the other), a completion counts twice, the process is killed
  between save and download, or a file is renamed.
- `NoNullPointer`: needs overlapping updates, double completions or downloads that
  wait in the pool while the next poll starts them again.
- `RestartShowsTheSame`, `UpdateIsApplied`: not after overlaps and failures, nor for
  a strategy that only removes media.
- `NeverDeletesShown`: no update deletes a file of the strategy it shows, whatever
  overlaps; only a renamed file is lost.

### Players

It extends `MediaUpdate` by one player: `list`, `position`, the file the view was given
last (`uri`), whether the `VideoView` plays it (`view`), whether the camera has its place
(`camera`), and `messages`, how many `MSG_PLAY_VIDEO` or `MSG_SWITCH_IMAGE` are in the
queue, due or waiting five seconds. `MediaUpdate` follows one of the two kinds of media,
so a behaviour has the player of that kind, or none (`video`, `image` among its hazards);
`videoDownloadFinished` allows for the last (`MediaUpdateReceiver.java:165`). The
strategy is replaced and the player told in one handler, so `TellPlayer` is `Tell` of the
update together with `UpdateWhenStrategyChanged` when it applies the strategy.

`PlayVideo`, `MissVideo` and `FindNothing` are the three ways through the handler
of the video player. `getVideoByOrder` has moved on by the time a file is found missing,
so the message that is sent again is for the next file. A file that has come in part may
be there or not, so `MissVideo` and `PlayVideo` are both possible of a file that is not on the
disk in full; `EndVideo` is its completion or its error. `SwitchImage` is the whole
handler of the image player. `StartLists` are the lists a constructor may find: the
strategy, the media of an interval that holds now, or the local files
(`/adVideo/`, `/adImage/`; downloads go to another directory). A `HashMap` gives its keys
in an order of its own, here `SetToSeq`.

Of the `VideoView` (external) the model has this: a video that is given to it replaces the
one that plays, which then does not complete; without its surface (`GONE`) it
releases its player, and when it is visible again it opens what it was given last. A
message is handled while the camera is shown all the same, and makes the view visible.

### RtmpPush

Five threads: the application's (`at["exec"]`), the worker thread of `AnyRtmpCore`
(`at["core"]`), which handles the two messages, the push thread (`push`), the
audio record thread (`audio`) and the video encoder's (`video`). `StopStream` runs on
two of them: for `MSG_STOP_RTMP`, and in the hoster's destructor. The locks are
`cs_av_rtmp_` (`csAv`), the AAC encoder's (held while `audio` is not `"idle"`) and
`cs_rtmp_` (held by the push thread from `Reset` to its callback). Steps end where
another thread can see a difference: `Run` reads the status (`Poll`), calls
srs_librtmp, and stores the result without looking (`Succeed`, `Reset`), which is how
`RS_STM_Closed` is lost.

Abstracted: the list of encoded units is the first unit queued since it was emptied
(`first`), a frame is one unit, and how an answer comes about is left open. Bit rate
control, video modes and statistics change no state the properties tell apart.
A send that fails leaks its unit (`anyrtmpush.cc:496-509`), which no variable shows.
`Close` of the Java object first invokes `SetVideoCapturer(NULL)` on the worker
thread (`jRTMPHosterImpl.cc`), so `Clear` waits for that thread to be between messages.

The hazards: `quickstop` (a stop before the delayed start was handled), `restart` (a
start before the last stop was handled), `clear` (deletion with messages pending),
`nosocket` (`srs_rtmp_create` returns NULL) and `nocamera`. The model shows that
`quickstop` leaves a stream running, and that `restart` closes a circle of locks, in
which the application, the worker thread and the record thread stay for good
(`LockCycle`; the liveness properties except it by name, so they hold right up to it).

### RtmpPlayer and PlayBuffer

`PlayBuffer` is `PlyBuffer`: timestamps of the queued packets, `PS_Fast`,
`PS_Normal`, `PS_Cache`, and the wait, which `Pause` takes from `cache_delta_` and
then doubles. `DoDecode` is one action with its three states. Times are counted from
now (`Elapse`), so that they stay bounded. `RtmpPlayer` extends it by the
application (`exec`), the player's thread with its messages and ticks (`msgs`, `ticks`,
`player`), the pull thread (`pull`) and the audio track (`audioAt`). `decoder` is
`"freed"` while a decoder draws on a renderer that was deleted. A failed read sets the
packet's type to 0 (`srs_librtmp.cpp:33043-33048`), so `DoReadData` treats it as a
packet without interest. A message posted after `Quit` is dropped, as WebRTC's queue
does. `SetCacheSize` has no caller.

`PlayEvents` says what `CallDisconnect` (`anyrtmpull.cc:423-442`) is written for: attempts are made
again after a refusal and after a loss, and when they are used up the play is told refused if
it was never connected and lost if it was. The player keeps to it, and takes only some of its
steps: `DoReadData` ignores a failed read, so no loss is noticed while a stream plays, no
attempt follows and `TellLost` never comes (a hazard without a property: nothing in
the repository says that every loss is told).

The hazards: `restart`, `refuse` (a call of the connection fails), `nosocket`,
`silent` (the server stops sending) and `nosound`.

## Runs

| Run | Instance | Shows |
|---|---|---|
| `service_safety` | 2 requests of 1 url, a video of 100 MB in 3 blocks, 2 threads, failure, pause, duplicate, 1 kill | `TypeOK`, `FinishedFileIsThere` |
| `service_delivery` | 2 requests, 2 urls, 2 threads, pause, duplicate, fair | `KeepsPromise` (implements `Downloads`), `RequestedFileArrives` |
| `service_wedge_free` | 3 requests of 1 url, 2 threads, duplicate, full, 1 kill | `NoWedgedTask` while nothing is paused and nothing fails; `LivesAsPromised` (every request implements `DownloadLife`), which the theorem also states with failures |
| `service_wrong_removal` | 2 requests of 1 url, no hazard | **violated**: `RemovesCompletedTask` |
| `service_wedged` | 3 requests of 1 url, 2 threads, pause | **violated**: `NoWedgedTask` |
| `service_full_reply` | 2 requests of 1 url, pause, full | **violated**: `FinishedFileIsWhole` |
| `manager_safety` | 2 requests, 2 urls, 1 thread, failure, pause, duplicate, 1 kill | `ManagerTypeOK`, `NothingForgotten`, `UsesTheService` |
| `manager_delivery` | 2 requests, 2 urls, 1 thread, pause, fair | `SemaphoreFree`, `WaitingIsHandedOver`, `StartedDownloadArrives` |
| `manager_blocked` | 2 requests of 1 url, duplicate, fair | **violated**: `WaitingIsHandedOver` |
| `update_strategy` | 4 ids of 3 files, a local file, 4 strategies, 2 receivers, 2 changes, 11 sets of hazards, fair | `PlayersTypeOK`, `PlaylistWhole`, `NoNullPointer`, `RestartShowsTheSame`, `PlayerGoesOn`, `NeverDeletesShown`, `UpdateIsApplied`, `FilesTakeTurns` |
| `push_stream` | 1 reconnection, 1 delayed start, 6 sets of hazards, fair | `TypeOK`, `KeyFirst`, `EncodersFollowConnection`, `LockCycleOnlyOnRestart`, `NobodyInsideDeleted`, `TellsAsPromised` (implements `StreamEvents`), `StopCompletes`, `StreamIsReported`, `StoppedStreamEnds` |
| `play_stream` | 1 retry, waits up to 4 deltas, queues of 4, 2 messages, 2 ticks, 5 sets of hazards, fair | `PlayTypeOK`, `CacheBounded`, `StartedPlayIsAlive`, `AudioOutsideDeleted`, `FreedRenderOnlyUntilStop`, `OutcomeAsPromised` (implements `PlayEvents`), `PausesGrow`, `PlayStopCompletes`, `StoppedPlayEnds`, `PlayIsReported`, `StreamIsPlayed` |

Four runs disagree with what the source says of itself:

- `service_wrong_removal`. One download is told finished twice (the periodic
  notification and the last one can both be 100) and broadcasts twice. The second
  `MSG_DOWNLOAD_FINISHED` removes the first task of the url it finds, which may
  be a newer one that has not completed (`DownloadService.java:87`).
- `service_wedged`. A row may come to hold the full length: a pause at the last
  block, or a paused thread that saves after the restart. The thread resumed from it
  asks for an empty range, is refused and ends silently; the task stays listed and
  not paused, so `download` returns for its url ever after
  (`DownloadService.java:196`). A failed connection leads to the same state, and so
  does a kill that leaves such a row behind.
- `service_full_reply`. A 200 is accepted as the answer to a range
  (`DownloadTask.java:246`) and its body written from the resume position, so a
  broken file is told finished (`OnDownload.java:20`).
- `manager_blocked`. A url listed twice before the binding returns with the permit
  (`DownloadManager.java:119`), the next acquire blocks the main thread, and the
  list is not handed over (`DownloadManager.java:88`).

No run checks for deadlock: the system rests when every request is served, when the
server does not change, or when hoster and guester are deleted; that the threads do not
wait for each other is `LockCycleOnlyOnRestart`, `StopCompletes` and `PlayStopCompletes`.

**Bounds.** Two threads are what a restart needs to race the thread it replaces;
three requests of one url are a first task, its duplicate and a later one, enough
for every confusion of tasks by url. `Length = 2` has a first, an inner and a last
position for a pause. `service_safety` has `Length = 3` and two requests: `Video` is a block of
99,600,000 bytes, of which the progress says 99, one that lacks four bytes, of which it says 100,
and the last four bytes. The other runs have files of full reads below 2^24 bytes. `MaxKills = 1` is one crash with everything before and after it;
the proofs cover any number. Two urls show that one url's progress does not affect
another's. The service runs without fairness use symmetry of requests, urls and
threads, all of which are only compared; the runs with liveness properties do not.

`update_strategy`: two receivers are what an overlap needs, and two changes let the
server go from a strategy to another and back or on to a third; the four strategies
add, exchange, only remove, and rename. Hazards come one at a time, and `kill`
with `overlap` and with the players, so that each property is seen to hold under everything it does not
exclude. The video player runs with kills, so that files of its list are missing, and with
the camera; the image player with kills. `FilesTakeTurns` watches the file that two
strategies share. `MaxMessages = 1` shows the camera with no message or one
ahead, so that a message may find the camera there and a second one follow it; without that
bound every camera in front of a pending message could add one more. `push_stream`: one reconnection has a first attempt, a last one and the giving
up; one delayed start at a time is enough for it to be overtaken. `MCPush` gives the
hazards that do not concern the camera to streams with only sound, which keeps the
states down and loses no order of the messages. `play_stream`: the largest wait is two
doublings away, so a wait is doubled, halved and doubled again; four packets hold a
span larger than a wait minus `PLY_RED_TIME`. The life cycle is examined with a server
that sends nothing and the buffer with one that refuses nothing, because the two meet
only where the decoder is made and deleted. In the code `MAX_RETRY_TIME` is 3 and the
largest delta 16 s: the proofs hold for all of them.

**Fairness.** `FairSpec` assumes that the looper goes on dispatching, the system
delivers the broadcasts, and each thread of the pool goes on: what Android and the
executor guarantee, and what a server that keeps sending justifies for reads.
`ManagerFairSpec` adds that the system connects a bound service. Requests, pauses,
failures, low memory and kills are never assumed to happen. The liveness runs have
no failures: a failed thread is never retried (a hazard above), so a file would
not arrive.

`PlayersSpec` adds that the main looper dispatches a player's messages, delays end, and a
video that plays ends, by completion or with an error. `FilesTakeTurns` holds although a
missing file and a strategy change can leave two messages at work: each time one of
them cuts a video short, the cut video's message is gone, so there are only as many cuts as
there were messages too many, and the server changes its strategy finitely often.

`MediaUpdate!Spec`: the timer polls, answers come, the download service goes on with
what it has started; server, failures and kills are free. `RtmpPush!Spec`: a thread
that can again and again obtain the lock it waits for does obtain it (strong
fairness; the record thread is outside of its lock for most of every 10 ms), and the
calls of srs_librtmp return, since they carry socket timeouts
(`srs_librtmp.cpp:32656-32680`). `RtmpPlayer!Spec`: the same, and a server that is
neither silent nor without sound goes on sending pictures and sound; ticks do not
keep the player's thread from its messages, which it takes in the order they fall due.
Nothing is assumed of the application, the microphone and the camera.

## Proofs

`DownloadService_proofs` proves, for all sets of requests, urls and threads, every
length, any number of kills:

- `TypeCorrect`: `Spec => []TypeOK`. `TypeOK` is not inductive, because `downlaod`
  reads the table at the task's url; `Typed` adds `UrlsKnown`: whatever is listed,
  queued, running or under way has a url.
- `ServiceStaysBehind`: when `"full" \notin Hazards`, `Spec => []ServiceInv`, for files of
  every size. `ServiceInv` is inductive: every row and every queued or running thread is
  behind blocks on the disk (`ProgressOnDisk`), and a progress of 100 is in the queue
  (`ProgressOnDisk`), or was told (`ToldWhenSaid`), only when blocks are there of which the
  float division says 100 (`Said100`). A block is written before the progress moves over it, blocks are never taken away, so a stale row or
  a second thread of the same url can only be too far back. Each action has a
  lemma; `Stays` and `FrameService` carry over what an action does not disturb.
- `FinishedFilesAreThere`: under the same assumption, for every size up to 2^31 - 1 bytes,
  `Spec => []FinishedFileIsThere`. `FloatNear`: a number beyond 2^24 is rounded by half the
  gap between two floats at most, and the gap is at most one part in 2^23 of the number;
  `SaysNearlyAll` follows. The same gap bounds both casts, since `finished` is below the length.
- `FinishedFilesAreWhole`: for a `SmallFile` besides, `Spec => []FinishedFileIsWhole`:
  the casts are the identity up to 2^24 (`FloatExact`), so 100 is said of all the
  blocks only (`SmallIsExact`).
- `ServiceKeepsPromise`: for a `SmallFile`, when ranges are honoured, the service implements
  `Downloads`. `Request` is `Ask`, the `Read` that writes the last missing block is
  `BecomeWhole`, `HandleDownloading` is `TellFinished`, everything else stutters.

The assumption on ranges is needed: `service_full_reply` is its counterexample, and the
video of `service_safety` that of `FinishedFileIsWhole` without `SmallFile`. The
constants are assumed as `DownloadService` states (a positive length, a number of bytes that grows
with the blocks and fits into an int, a finite pool, `NoUrl` and `NoTask` outside their
sets).

`DownloadTally_proofs` proves two theorems. `NothingWedged`: when neither failures nor pauses are among
the hazards, `Spec => []NoWedgedTask`, with duplicate requests, 200 replies and any number
of kills. A second task of a url may be taken off the list by the end of the first, so
the proof counts: the listed tasks of a url are never more than the download threads
queued and running for it, its progress and end messages, and its broadcasts
together (`TallyInv`). Each handler moves one from a count into the next, and only
`HandleFinished` takes a broadcast away, with a task if there is one. `NoPauses` says that
without pauses no row is ever above 0, so every thread reads on to its end; with
them `service_wedged` is the counterexample.

`NothingWedged` holds for files of every size: an early progress of 100 only adds messages
to what is coming.

`LivesThroughout`: when nothing is paused and the file is a `SmallFile`,
`Spec => LivesAsPromised`, with failures, duplicate
requests, 200 replies and kills. It counts for each `TaskInfo` its init threads with
`MSG_INIT`, the threads that have blocks to read, those that have read the last, the progress
of 100 on its way, and the broadcasts with the messages they become. Each action changes these
counts in one of nine ways (`Still`, `Begins`, `Lists`, `Reads`, `Ends`, `Breaks`, `Tells`,
`Removes`, `Dies`), which is what the lemma of the action shows. `Owed` is inductive under
them (`OwedStep`): there is one thread at most, nothing is told while it waits or has blocks to
read, once at most before its end, twice in all, and it is not more often taken off than told.
Under `Owed` each of the nine is a step of `DownloadLife` or a stutter (`PhaseStep`).

`DownloadManager_proofs` proves of manager and service together:

- `ManagerTypeCorrect`: `ManagerSpec => []ManagerTypeOK`. `ManagerTyped` adds to
  `Typed` that whatever waits in the manager's list has a url, so that `HandOver` can
  pass it to `download`, and that the list is handed on with the permit taken, so that
  `Release` cannot make two permits. The steps of the service are covered by the lemmas
  of `DownloadService_proofs`.
- `NoRequestForgotten`: `ManagerSpec => []NothingForgotten`, with every hazard. The
  heart is `SentStays`: everyone else appends behind `MSG_BIND_SUC`, and every other
  handler takes another message off the queue.
- `MainThreadNeverBlocks`: when `"duplicate" \notin Hazards`, `ManagerSpec =>
  []SemaphoreFree`. `manager_blocked` is the counterexample without the assumption.

`ManagerService_proofs` proves of the two, with every hazard unless stated:

- `ManagerUsesTheService`: `ManagerSpec => UsesTheService`. Handing a request on must look to
  the service like a caller making it at that moment, and a kill like one that never made
  it. For that the service must not know a task that waits: `WaitInv` says that no list,
  queue, thread, message or broadcast names it (`Unknown`), that two waiting requests
  have two urls (`OneRequestEach`, the url test of `startDownload`) and, when callers do not ask
  twice, that nothing is being initialised whose url waits (`NotStarted`, which carries
  the guard of `Request` from `startDownload` to the moment the request is handed on).
  No step but `download` makes the service know another task (`NoNewNames`). Each action
  then has a lemma that maps it: `HandOver` and `StartDownloadBound` are `Request`,
  `ManagerKill` is `Kill`, what concerns the manager alone stutters.
- The queue is mapped by `Without`. Its laws for `Append` and `Tail` are proved without
  induction: in a finite set of numbers every member has its own place and every place up to
  the cardinality is taken (`PlaceGrows`, `EveryPlaceTaken`), because an injection between
  finite sets of one cardinality is a bijection.
- `ManagedFilesAreThere`, `ManagedFilesAreWhole`, `ManagerWedgesNothing`, `ManagerKeepsPromise`,
  `ManagedDownloadsLive`: `FinishedFileIsThere`, `FinishedFileIsWhole`, `NoWedgedTask`, the promise of `Downloads`
  and the life of every request that was handed on (`DownloadLife`), under the conditions of the theorems about
  the service, for manager and service together. `Checked` instantiates the service's
  theorems with the mapping; `Unknown` takes their statements back to the manager's variables.

`MediaUpdate_proofs` proves, for every set of ids, strategies and receivers:

- `PlayedFilesAreThere`: `Spec => []PlaylistWhole`. `WholeInv` speaks of a behaviour
  without overlap, double completions, kill and renamed files (`Calm`): all receivers under way
  have the server's strategy, what each has counted are different files on the disk
  (`Sound`), and one that may be the first to apply it waits for as many as are
  new (`First`), so that with the last callback all of them are on the disk
  (`SoundTold`, `AllHaveCome`).
  Failures and waiting downloads are allowed: a file that is not told delays, and no more.
- `ShownFilesAreKept`: `Spec => NeverDeletesShown`, with overlaps and kills.
  `DeleteInv`: what a receiver is to delete its own strategy does not have.
- `UpdateTypeCorrect`: besides types, `finished <= total`. It follows from what is counted:
  the files told to a receiver and those begun for it never exceed its total (`CountInv`).
- `IdsToDeleteAreFound`: `Spec => []NoNullPointer`. `OneInv`: at most one receiver can
  still come to its end (`Alone`), because a file that is listed is not started again,
  and a receiver whose start was dropped stays short of its total (`Short`) for ever.
- `SavedIsShown`: `Spec => []RestartShowsTheSame`. `SavedInv`: as long as the strategy shown
  is not the saved one, some receiver carries the saved one and has files enough
  under way to complete its count (`Carrier`).

- `UpdateLoadsLive`: `Spec => LoadsLive`. Every download of a receiver lives as `DownloadLife`
  says, and a receiver counts only when one of its downloads tells (`LifeStep`); with
  `LivesThroughout` both sides of what the update takes the service for are proved.

`Players_proofs` proves, for all media, lists, local files and bounds:

- `PlayersUseTheUpdate`: `PlayersSpec => Spec`. The player only reads what the update writes
  (`UpdateTakesTheStep`), so every theorem about `MediaUpdate` holds of the composition.
- `PlayingGoesOn`: `PlayersSpec => []PlayerGoesOn`. It is not inductive, because the camera
  takes the video off the view: `GoesOnInv` adds that as long as no file was ever given to the
  view, which `restartVideoPlay` could open again, a message is there; and that an image
  player has exactly one.
- `PlayersTypeCorrect`: `PlayersSpec => []PlayersTypeOK`; that a list is a sequence of files rests
  on a lemma about `SetToSeq` (`SetToSeqSeq`).
- `ListedFilesAreThere`: under the conditions of `PlaylistWhole` every file on the list is on the
  disk or local, which is what the message "This Video Should Exists!"
  (`NewVideoMgr.java:68`) asks for. `ListInv`: the list names only files of the strategy shown,
  because both are replaced in one step; the rest is `PlayedFilesAreThere`.

`RtmpPush_proofs`, for every `MAX_RETRY_TIME` and choice of hazards:

- `StreamTellsAsPromised`: `RtmpPush` implements `StreamEvents`: reconnections are announced
  in order up to `MAX_RETRY_TIME`, a failure only after the last, nothing after it.
  `EventInv`: between `Reset` and the callback `retrys_` is one ahead of what was announced.
- `DeadlockNeedsRestart`, `DeletedStreamerIsLeft`: who holds `cs_av_rtmp_`, the encoder's lock and
  `cs_rtmp_` at each step of `StopStream`, `CallDisconnect` and the encoders (`LockInv`), and
  which messages can be pending beside a stopped stream (`MessageInv`).
- `KeyFrameComesFirst`: `KeyInv` follows `got_key_frame_`, the list, and the encoder
  thread that has passed the test and not yet queued its unit.
- `EncodersMatchConnection`: `EncoderInv`, which names the callbacks in which
  encoders and connection may differ.
- `PushTypeCorrect`: the type invariant.

`RtmpPlayer_proofs`, for every constant of the buffer and `MAX_RETRY_TIME`:

- `WaitIsBounded`, `NoPauseShrinks`: `BufferInv` bounds `cache_delta_` and the wait, and ties
  `playing_` to the status; a pause takes the delta, which only grows.
- `PlayTellsAsPromised`: `RtmpPlayer` implements `PlayEvents`: a play is told ok, or refused
  after `MAX_RETRY_TIME + 1` attempts, never both. `OutcomeInv` counts the attempts by the
  connection's retries.
- `FreedRenderIsStopped`: `RenderInv`, a freed renderer has a `PLY_STOP` ahead.
- `StartedPlayGoesOn`: `AloneInv` says of a caller that waits for its stops that a
  started play has its `PLY_START` ahead, its connection and one tick, or its refusal
  (`Waiting`, `Going`, `Refused`).
- `AudioStaysOutside`: `AudioInv`, the audio thread is inside the decoder only while the track
  is on, and `PLY_STOP` comes after it was stopped. It needs that nothing is refused:
  a refused play deletes its decoder while the track goes on.
- `PlayTypeCorrect`: the type invariant of player and buffer.

Model-checked only: the liveness properties (`RequestedFileArrives`, `WaitingIsHandedOver`,
`StopCompletes`, `UpdateIsApplied` and the others under a fair specification), which are
outside of the prover's reach. Every safety property of a passing run, and every refinement, is
stated by a theorem.

## Plan

Done: the download core, the strategy update with its players, the pushed stream and the
played stream. Left, in this order:

1. `MediaUpdate` over `DownloadService` itself: `DownloadLife` ties the two for each download,
   and what downloads of one url do to each other is still stated twice.
2. Of the download service: the shared database handle, the pool stalled by silent servers;
   and what the update makes of a file beyond 2^24 bytes that is told early or often.
3. Request codes of `AlarmUtil`, camera life cycle, RC522 registers, as far as they
   hold behaviour worth checking.

## Not modelled

The components with status `not_modelled` in `PROJECT.json`, with the reason there.
Layout, wording and logging are never modelled, nor are decoding, encoding and
resampling of sound and pictures.

By lines the repository is almost entirely third-party C and C++ (WebRTC, librtmp of
SRS, libyuv, x264, libusb, libjpeg-turbo, FAAC and FAAD). Its own native code, in
`src/anyrtc/jni` and `src/sensordriver`, is about four thousand lines, and the
application itself is Java. The models cover the application's own code and describe
the libraries by how it uses them, so the share of all C and C++ lines they stand for
is small and will stay so.

Each property of a passing run has a mutant (`PROJECT.json`, `mutants`): a
definition named `...Without...`, `...Early` and the like, commented as mutant, which
replaces the one after it and makes the property fail.
