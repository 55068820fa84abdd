--------------------------- MODULE DownloadService ---------------------------
(***************************************************************************)
(* The download service of the terminal: DownloadService.java, the         *)
(* DownloadTask objects it creates, their DownloadThreads and InitThreads, *)
(* the thread_info table and the files on the SD card.                     *)
(*                                                                         *)
(* Three kinds of actors interleave: the main thread, which runs the       *)
(* handlers one at a time in the order of its message queue; the threads   *)
(* of the fixed pool; and the system, which delivers broadcasts and calls  *)
(* onLowMemory.  The process may be killed at any point and start again;   *)
(* the table and the files are what survives.                              *)
(*                                                                         *)
(* Abstractions.  A file is a row of Length blocks, a block being what one *)
(* read() returns, or several in a row; its content is the set of blocks   *)
(* that hold the right bytes.  Each URL has its own file name and serves   *)
(* the same content as long as the model runs.  Progress messages below    *)
(* 100 change no state and are left out; whether a progress says 100 is    *)
(* decided by the bytes and the float arithmetic of the code.              *)
(***************************************************************************)
EXTENDS Integers, Sequences, SequencesExt, FloatProgress

CONSTANTS
    TaskInfos,      \* the TaskInfo objects the callers may create
    Urls,           \* the URLs they may ask for
    Workers,        \* the threads of the pool, one per CPU core
    Length,         \* the length of a file, in blocks
    Bytes,          \* how many bytes the first n blocks of a file have
    Hazards,        \* what may happen to the service, see HazardKinds
    MaxKills,       \* bound: how often the process is killed
    NoUrl,          \* the url of a TaskInfo not yet created
    NoTask          \* the task of an idle thread

ASSUME LengthAssumption == Length \in Nat \ {0}
ASSUME BytesAssumption ==
    /\ Bytes \in [0..Length -> Nat] /\ Bytes[Length] <= 2147483647
    /\ \A n \in 0..Length : \A m \in 0..(n - 1) : Bytes[m] < Bytes[n]

(* "failure"   a connection or a read fails                                  *)
(* "pause"     the system is low on memory, or a caller pauses a download    *)
(* "duplicate" a caller asks again for a url that is still being initialised *)
(* "full"      the server ignores the Range header and answers 200           *)
HazardKinds == {"failure", "pause", "duplicate", "full"}

ASSUME HazardsAssumption == Hazards \subseteq HazardKinds
ASSUME WorkersAssumption == IsFiniteSet(Workers)
ASSUME NoUrlAssumption == NoUrl \notin Urls
ASSUME NoTaskAssumption == NoTask \notin TaskInfos
ASSUME KillAssumption == MaxKills \in Nat

VARIABLES
    urlOf,          \* the url of every TaskInfo, NoUrl before it is created
    taskList,       \* DownloadService.mListTask; a task is named by its TaskInfo
    isPause,        \* DownloadTask.isPause, written by main and read by threads
    pool,           \* the Runnables the executor has queued
    worker,         \* what every thread of the pool is running
    looper,         \* the message queue of the main thread
    broadcasts,     \* the ACTION_FINISHED broadcasts the system has to deliver
    saved,          \* thread_info.finished of every URL, NoRow if it has no row
    have,           \* the blocks of every file that hold the right bytes
    finishedCalls,  \* how often each TaskInfo's onDownloadFinished was called
    kills           \* how often the process was killed

vars == <<urlOf, taskList, isPause, pool, worker, looper, broadcasts, saved,
          have, finishedCalls, kills>>

-----------------------------------------------------------------------------
Blocks == 1..Length
NoRow  == -1

(* A thread of the pool: the Runnable it runs and how far it got.  InitThread  *)
(* is at "init"; a DownloadThread connects, reads up to block `last`, and when *)
(* it sees isPause goes on to "save".  `finished` is threadInfo.finished.      *)
Thread == [pc : {"init", "connect", "read", "save"}, task : TaskInfos,
           finished : Nat, last : Nat]
Idle == [pc |-> "idle", task |-> NoTask, finished |-> 0, last |-> 0]
InitThread(t) == [pc |-> "init", task |-> t, finished |-> 0, last |-> 0]
DownloadThread(t, n) == [pc |-> "connect", task |-> t, finished |-> n, last |-> 0]

(* Messages name their task; MSG_DOWNLOAD_FINISHED stands for the task's url.  *)
BindSuc == [what |-> "MSG_BIND_SUC", task |-> NoTask]
Message == [what : {"MSG_INIT", "MSG_DOWNLOADING", "MSG_DOWNLOAD_FINISHED"},
            task : TaskInfos]

TypeOK ==
    /\ urlOf \in [TaskInfos -> Urls \cup {NoUrl}]
    /\ taskList \in Seq(TaskInfos)
    /\ isPause \in [TaskInfos -> BOOLEAN]
    /\ pool \in Seq(Thread)
    /\ worker \in [Workers -> Thread \cup {Idle}]
    /\ looper \in Seq(Message \cup {BindSuc})
    /\ broadcasts \in Seq(TaskInfos)
    /\ saved \in [Urls -> Nat \cup {NoRow}]
    /\ have \in [Urls -> SUBSET Blocks]
    /\ finishedCalls \in [TaskInfos -> Nat]
    /\ kills \in Nat

Init ==
    /\ taskList = <<>>
    /\ isPause = [t \in TaskInfos |-> FALSE]
    /\ pool = <<>>
    /\ worker = [w \in Workers |-> Idle]
    /\ looper = <<>>
    /\ broadcasts = <<>>
    /\ urlOf = [t \in TaskInfos |-> NoUrl]
    /\ saved = [u \in Urls |-> NoRow]
    /\ have = [u \in Urls |-> {}]
    /\ finishedCalls = [t \in TaskInfos |-> 0]
    /\ kills = 0

-----------------------------------------------------------------------------
(* Main thread: tasks.                                                      *)

(* The search loops of download, pause and MSG_DOWNLOAD_FINISHED stop at the *)
(* first task with the url.                                                  *)
IsFirst(i, u) ==
    /\ i \in DOMAIN taskList
    /\ urlOf[taskList[i]] = u
    /\ \A j \in 1..(i - 1) : urlOf[taskList[j]] # u

NotListed(u) == \A i \in DOMAIN taskList : urlOf[taskList[i]] # u

(* Mutant: a url without a row is resumed, not inserted. *)
DownlaodWithoutRow(t, u) ==
    /\ saved' = saved
    /\ pool' = Append(pool, DownloadThread(t, saved'[u]))

(* DownloadTask.downlaod: resume from the url's row, or insert one at 0. *)
Downlaod(t, u) ==
    /\ saved' = IF saved[u] = NoRow THEN [saved EXCEPT ![u] = 0] ELSE saved
    /\ pool' = Append(pool, DownloadThread(t, saved'[u]))

(* Mutant: the pause flag is cleared and no thread is started. *)
RestartWithoutThread(t, u) ==
    /\ isPause' = [isPause EXCEPT ![t] = FALSE]
    /\ UNCHANGED <<saved, pool>>

(* DownloadTask.restart *)
Restart(t, u) ==
    /\ isPause' = [isPause EXCEPT ![t] = FALSE]
    /\ Downlaod(t, u)

(* DownloadService.download for the TaskInfo t of url u. *)
Download(t, u) ==
    /\ \/ \E i \in DOMAIN taskList :
            /\ IsFirst(i, u)
            /\ IF isPause[taskList[i]]
               THEN Restart(taskList[i], u)
               ELSE UNCHANGED <<isPause, pool, saved>>
       \/ /\ NotListed(u)
          /\ pool' = Append(pool, InitThread(t))
          /\ UNCHANGED <<isPause, saved>>
    /\ UNCHANGED <<taskList, worker, looper, broadcasts, have, finishedCalls, kills>>

(* An InitThread of url u is queued or runs, or its MSG_INIT is not handled. *)
Initialising(u) ==
    \/ \E i \in DOMAIN pool : pool[i].pc = "init" /\ urlOf[pool[i].task] = u
    \/ \E w \in Workers : worker[w].pc = "init" /\ urlOf[worker[w].task] = u
    \/ \E i \in DOMAIN looper : looper[i].what = "MSG_INIT" /\ urlOf[looper[i].task] = u

(* A caller creates a TaskInfo and the manager, being bound, passes it on.   *)
(* The service does not look at requests that are being initialised.         *)
Request(t, u) ==
    /\ urlOf[t] = NoUrl
    /\ "duplicate" \in Hazards \/ ~Initialising(u)
    /\ urlOf' = [urlOf EXCEPT ![t] = u]
    /\ Download(t, u)

(* DownloadService.pause *)
Pause(u) ==
    /\ "pause" \in Hazards
    /\ \E i \in DOMAIN taskList :
        /\ IsFirst(i, u)
        /\ isPause' = [isPause EXCEPT ![taskList[i]] = TRUE]
    /\ UNCHANGED <<urlOf, taskList, pool, worker, looper, broadcasts, saved, have,
                   finishedCalls, kills>>

(* DownloadService.onLowMemory: pause every listed task. *)
OnLowMemory ==
    /\ "pause" \in Hazards
    /\ taskList # <<>>
    /\ isPause' = [t \in TaskInfos |-> isPause[t] \/ Contains(taskList, t)]
    /\ UNCHANGED <<urlOf, taskList, pool, worker, looper, broadcasts, saved, have,
                   finishedCalls, kills>>

-----------------------------------------------------------------------------
(* Main thread: messages.                                                   *)

Received(what) ==
    /\ looper # <<>>
    /\ Head(looper).what = what

(* MSG_INIT: create the task, list it, start it. *)
HandleInit ==
    /\ Received("MSG_INIT")
    /\ LET t == Head(looper).task IN
        /\ taskList' = Append(taskList, t)
        /\ Downlaod(t, urlOf[t])
    /\ looper' = Tail(looper)
    /\ UNCHANGED <<urlOf, isPause, worker, broadcasts, have, finishedCalls, kills>>

(* MSG_DOWNLOADING with progress 100: call back, broadcast, drop the row. *)
HandleDownloading ==
    /\ Received("MSG_DOWNLOADING")
    /\ LET t == Head(looper).task IN
        /\ finishedCalls' = [finishedCalls EXCEPT ![t] = @ + 1]
        /\ broadcasts' = Append(broadcasts, t)
        /\ saved' = [saved EXCEPT ![urlOf[t]] = NoRow]
    /\ looper' = Tail(looper)
    /\ UNCHANGED <<urlOf, taskList, isPause, pool, worker, have, kills>>

(* DownloadFinishedReceiver.onReceive, run on the main thread when the      *)
(* system delivers the broadcast.                                           *)
OnReceive ==
    /\ broadcasts # <<>>
    /\ broadcasts' = Tail(broadcasts)
    /\ looper' = Append(looper, [what |-> "MSG_DOWNLOAD_FINISHED", task |-> Head(broadcasts)])
    /\ UNCHANGED <<urlOf, taskList, isPause, pool, worker, saved, have, finishedCalls, kills>>

(* Mutant: no listed url is ever found equal, as with == on strings. *)
HandleFinishedFindsNothing ==
    /\ Received("MSG_DOWNLOAD_FINISHED")
    /\ looper' = Tail(looper)
    /\ UNCHANGED <<urlOf, taskList, isPause, pool, worker, broadcasts, saved, have,
                   finishedCalls, kills>>

(* MSG_DOWNLOAD_FINISHED: remove the first task with the url. *)
HandleFinished ==
    /\ Received("MSG_DOWNLOAD_FINISHED")
    /\ LET u == urlOf[Head(looper).task] IN
        \/ \E i \in DOMAIN taskList :
            /\ IsFirst(i, u)
            /\ taskList' = RemoveAt(taskList, i)
        \/ NotListed(u) /\ UNCHANGED taskList
    /\ looper' = Tail(looper)
    /\ UNCHANGED <<urlOf, isPause, pool, worker, broadcasts, saved, have, finishedCalls, kills>>

-----------------------------------------------------------------------------
(* Threads of the pool.                                                     *)

(* What a step of a thread leaves alone: only main writes these. *)
mainOwned == <<urlOf, taskList, isPause, broadcasts, finishedCalls, kills>>

(* An idle thread takes the Runnable that has waited longest. *)
Take(w) ==
    /\ worker[w] = Idle
    /\ pool # <<>>
    /\ worker' = [worker EXCEPT ![w] = Head(pool)]
    /\ pool' = Tail(pool)
    /\ UNCHANGED <<looper, saved, have, mainOwned>>

At(w, pc) == worker[w].pc = pc

Exit(w) == worker' = [worker EXCEPT ![w] = Idle]

(* Mutant: the file is created anew, and what it held is lost. *)
InitDoneTruncates(w) ==
    /\ At(w, "init")
    /\ looper' = Append(looper, [what |-> "MSG_INIT", task |-> worker[w].task])
    /\ have' = [have EXCEPT ![urlOf[worker[w].task]] = {}]
    /\ Exit(w)
    /\ UNCHANGED <<pool, saved, mainOwned>>

(* InitThread.run on an HTTP 200 with a length: size the file, report. *)
InitDone(w) ==
    /\ At(w, "init")
    /\ looper' = Append(looper, [what |-> "MSG_INIT", task |-> worker[w].task])
    /\ Exit(w)
    /\ UNCHANGED <<pool, saved, have, mainOwned>>

(* An exception or a status the code does not accept ends the thread; no     *)
(* message tells anyone.                                                     *)
Fail(w) ==
    /\ "failure" \in Hazards
    /\ worker[w] # Idle /\ ~At(w, "save")
    /\ Exit(w)
    /\ UNCHANGED <<pool, looper, saved, have, mainOwned>>

(* DownloadThread.run sends its Range request.  A 206 brings the rest of the *)
(* file, a 200 all of it, written from block `finished` on all the same.  A  *)
(* range that starts at the end of the file is answered 416 and the thread   *)
(* ends.                                                                     *)
Connect(w) ==
    /\ At(w, "connect")
    /\ LET n == worker[w].finished IN
        \/ /\ n < Length
           /\ worker' = [worker EXCEPT ![w].pc = "read", ![w].last = Length]
        \/ /\ n >= Length
           /\ Exit(w)
        \/ /\ "full" \in Hazards
           /\ worker' = [worker EXCEPT ![w].pc = "read", ![w].last = n + Length]
    /\ UNCHANGED <<pool, looper, saved, have, mainOwned>>

Exact == 16777216      \* 2^24: a Java float holds every int up to here

(* Mutant: the progress is rounded, not cut off. *)
Says100Rounded(n) == n >= Length \/ Bytes[n] >= Bytes[Length] - Bytes[Length] \div 200

(* The progress of `finished` = n says 100.  A float that is smaller than     *)
(* another is at most 1 - 2^-24 times it, and a hundred times that is cut off *)
(* to 99 (see FloatProgress!Progress), so the two floats decide.  After a     *)
(* full reply `finished` may be more than the length.                         *)
Says100(n) == n >= Length \/ Float(Bytes[n], Exact) >= Float(Bytes[Length], Exact)

(* notifyProgress: 100 is the only value whose message changes any state. *)
Notify(queue, t, n) ==
    IF Says100(n) THEN Append(queue, [what |-> "MSG_DOWNLOADING", task |-> t])
                  ELSE queue

(* isPause is a plain field: a thread may see main's pause late, or not at    *)
(* all.                                                                      *)
Seen(t) == IF isPause[t] THEN BOOLEAN ELSE {FALSE}

(* One turn of the read loop: write a block, tell the progress if two        *)
(* seconds have passed, then look at isPause.                                *)
Read(w) ==
    /\ At(w, "read")
    /\ worker[w].finished < worker[w].last
    /\ LET t == worker[w].task
           u == urlOf[t]
           n == worker[w].finished + 1
       IN
        /\ have' = [have EXCEPT ![u] =
                      IF worker[w].last = Length THEN @ \cup {n} ELSE @ \ {n}]
        /\ \E periodic \in BOOLEAN, paused \in Seen(t) :
            LET queue == IF periodic THEN Notify(looper, t, n) ELSE looper IN
            /\ looper' = IF paused THEN Notify(queue, t, n) ELSE queue
            /\ worker' = [worker EXCEPT ![w].finished = n,
                                        ![w].pc = IF paused THEN "save" ELSE "read"]
    /\ UNCHANGED <<pool, saved, mainOwned>>

(* The paused thread updates the url's row, if it still exists, and returns. *)
SaveProgress(w) ==
    /\ At(w, "save")
    /\ LET u == urlOf[worker[w].task] IN
        saved' = IF saved[u] = NoRow THEN saved
                 ELSE [saved EXCEPT ![u] = worker[w].finished]
    /\ Exit(w)
    /\ UNCHANGED <<pool, looper, have, mainOwned>>

(* Mutant: the end is broadcast beside the last notification. *)
EndOfStreamTwice(w) ==
    /\ At(w, "read")
    /\ worker[w].finished = worker[w].last
    /\ looper' = Notify(Notify(looper, worker[w].task, worker[w].finished),
                        worker[w].task, worker[w].finished)
    /\ Exit(w)
    /\ UNCHANGED <<pool, saved, have, mainOwned>>

(* End of the stream: the last notification. *)
EndOfStream(w) ==
    /\ At(w, "read")
    /\ worker[w].finished = worker[w].last
    /\ looper' = Notify(looper, worker[w].task, worker[w].finished)
    /\ Exit(w)
    /\ UNCHANGED <<pool, saved, have, mainOwned>>

-----------------------------------------------------------------------------
(* The process is killed and started again: its memory, queues and threads   *)
(* are gone; the table and the files stay.                                   *)
ClearProcess ==
    /\ taskList' = <<>>
    /\ isPause' = [t \in TaskInfos |-> FALSE]
    /\ pool' = <<>>
    /\ worker' = [w \in Workers |-> Idle]
    /\ looper' = <<>>
    /\ broadcasts' = <<>>

Kill ==
    /\ kills < MaxKills
    /\ kills' = kills + 1
    /\ ClearProcess
    /\ UNCHANGED <<urlOf, saved, have, finishedCalls>>

HandleMessage == HandleInit \/ HandleDownloading \/ HandleFinished

WorkerStep(w) ==
    \/ Take(w)
    \/ InitDone(w)
    \/ Connect(w)
    \/ Read(w)
    \/ SaveProgress(w)
    \/ EndOfStream(w)

Environment ==
    \/ \E t \in TaskInfos, u \in Urls : Request(t, u)
    \/ \E u \in Urls : Pause(u)
    \/ OnLowMemory
    \/ \E w \in Workers : Fail(w)
    \/ Kill

Next == HandleMessage \/ OnReceive \/ (\E w \in Workers : WorkerStep(w)) \/ Environment

Spec == Init /\ [][Next]_vars

(* The looper, the delivery of broadcasts and the threads of the pool keep   *)
(* running: requests, pauses, failures and kills need not happen.            *)
Fairness ==
    /\ WF_vars(HandleMessage)
    /\ WF_vars(OnReceive)
    /\ \A w \in Workers : WF_vars(WorkerStep(w))

FairSpec == Spec /\ Fairness

-----------------------------------------------------------------------------
(* Properties.                                                              *)

Whole(u) == have[u] = Blocks
KnownUrl(t) == urlOf[t] \in Urls

(* Up to Exact bytes the progress is exact: below the end it says 99 at most. *)
SmallFile == Bytes[Length] <= Exact

(* onDownloadFinished is called only for a file that is on the disk in full: *)
(* no interleaving of pauses, restarts, duplicate tasks of one url and kills *)
(* makes DownloadTask.dispatchMessage report a file with a hole in it.  So it *)
(* is for a SmallFile.                                                       *)
FinishedFileIsWhole ==
    \A t \in TaskInfos : finishedCalls[t] > 0 => KnownUrl(t) /\ Whole(urlOf[t])

(* The first n blocks are on the disk. *)
Behind(u, n) == \A b \in Blocks : b <= n => b \in have[u]

(* A file of any size that was told finished has all its bytes but the last   *)
(* ones, of which at most one in 2^23 is missing: the float division of       *)
(* notifyProgress (DownloadTask.java:328) may tell a file too early, never    *)
(* much too early, and no pause, restart, duplicate task or kill adds a hole. *)
Lacking(n) == Bytes[Length] - Bytes[n]

FinishedFileIsThere ==
    \A t \in TaskInfos : finishedCalls[t] > 0 =>
        /\ KnownUrl(t)
        /\ \E n \in 0..Length : /\ Lacking(n) <= Bytes[Length] \div 8388608
                               /\ Behind(urlOf[t], n)

(* The inductive invariant behind both.  Every url in use is known; whatever  *)
(* resumes (a row, a queued or running thread) starts behind blocks that are  *)
(* on the disk; and a progress of 100 is under way, or was told, only when    *)
(* the blocks that say 100 were there.                                        *)
Said100(u) == \E n \in 0..Length : Says100(n) /\ Behind(u, n)

UrlsKnown ==
    /\ \A i \in DOMAIN taskList : KnownUrl(taskList[i])
    /\ \A i \in DOMAIN pool : KnownUrl(pool[i].task)
    /\ \A w \in Workers : worker[w] # Idle => KnownUrl(worker[w].task)
    /\ \A i \in DOMAIN looper : looper[i] # BindSuc => KnownUrl(looper[i].task)
    /\ \A i \in DOMAIN broadcasts : KnownUrl(broadcasts[i])

ThreadBehind(th) ==
    /\ Behind(urlOf[th.task], th.finished)
    /\ th.pc = "read" => th.last = Length

ProgressOnDisk ==
    /\ \A u \in Urls : Behind(u, saved[u])
    /\ \A i \in DOMAIN pool : ThreadBehind(pool[i])
    /\ \A w \in Workers : worker[w] # Idle => ThreadBehind(worker[w])
    /\ \A i \in DOMAIN looper :
          looper[i].what = "MSG_DOWNLOADING" => Said100(urlOf[looper[i].task])

ToldWhenSaid ==
    \A t \in TaskInfos : finishedCalls[t] > 0 => KnownUrl(t) /\ Said100(urlOf[t])

ServiceInv == TypeOK /\ UrlsKnown /\ ProgressOnDisk /\ ToldWhenSaid

(* A task that download() finds in the list and not paused keeps its url from *)
(* being downloaded (DownloadService.download returns), so something must     *)
(* still be coming for it: a thread, or a message or broadcast that will take *)
(* a task of this url off the list.                                           *)
HasThread(u) ==
    \/ \E i \in DOMAIN pool : urlOf[pool[i].task] = u
    \/ \E w \in Workers : worker[w] # Idle /\ urlOf[worker[w].task] = u

Ending(u) ==
    \/ \E i \in DOMAIN looper :
          /\ looper[i].what \in {"MSG_DOWNLOADING", "MSG_DOWNLOAD_FINISHED"}
          /\ urlOf[looper[i].task] = u
    \/ \E i \in DOMAIN broadcasts : urlOf[broadcasts[i]] = u

NoWedgedTask ==
    \A i \in DOMAIN taskList :
        LET t == taskList[i] IN isPause[t] \/ HasThread(urlOf[t]) \/ Ending(urlOf[t])

(* A requested file is eventually on the disk in full, unless its task has    *)
(* been paused: restarts that race the thread they stop, and duplicate tasks, *)
(* delay it and never lose it.                                                *)
PausedTask(u) == \E i \in DOMAIN taskList : urlOf[taskList[i]] = u /\ isPause[taskList[i]]

RequestedFileArrives ==
    \A t \in TaskInfos, u \in Urls : urlOf[t] = u ~> (Whole(u) \/ PausedTask(u))

(* DownloadService.java:87 says that completion deletes the corresponding     *)
(* task: the task MSG_DOWNLOAD_FINISHED takes off the list has completed.     *)
RemovesCompletedTask ==
    [][kills' = kills =>
        \A t \in TaskInfos : Contains(taskList, t) /\ ~Contains(taskList', t)
                               => finishedCalls[t] > 0]_vars

-----------------------------------------------------------------------------
(* What has become of the download of a TaskInfo, as long as nothing is       *)
(* paused: its InitThread or MSG_INIT is under way, it runs or a progress of  *)
(* 100 is still to be told, or it was told.  By what it has been told it is   *)
(* listed until the first MSG_DOWNLOAD_FINISHED that stands for it.           *)
Waiting(t) ==
    \/ \E i \in DOMAIN pool : pool[i].pc = "init" /\ pool[i].task = t
    \/ \E w \in Workers : worker[w].pc = "init" /\ worker[w].task = t
    \/ \E i \in DOMAIN looper : looper[i].what = "MSG_INIT" /\ looper[i].task = t

ToBeTold(t) ==
    \/ \E i \in DOMAIN pool : pool[i].task = t
    \/ \E w \in Workers : worker[w].task = t
    \/ \E i \in DOMAIN looper : looper[i].what = "MSG_DOWNLOADING" /\ looper[i].task = t

Announced(t) == {i \in DOMAIN broadcasts : broadcasts[i] = t}
Removals(t)  == {i \in DOMAIN looper :
                    looper[i].what = "MSG_DOWNLOAD_FINISHED" /\ looper[i].task = t}
NotRemoved(t) == finishedCalls[t] = Cardinality(Announced(t)) + Cardinality(Removals(t))

LoadOf(t) ==
    CASE Waiting(t) -> "queued"
      [] ~Waiting(t) /\ finishedCalls[t] = 0 -> IF ToBeTold(t) THEN "running" ELSE "none"
      [] ~Waiting(t) /\ finishedCalls[t] = 1 /\ NotRemoved(t) -> "told"
      [] ~Waiting(t) /\ finishedCalls[t] = 1 /\ ~NotRemoved(t) ->
              IF ToBeTold(t) THEN "late" ELSE "none"
      [] OTHER -> IF NotRemoved(t) THEN "again" ELSE "none"

(* Without pauses every download of a SmallFile lives as DownloadLife says,   *)
(* and onDownloadFinished is called when it tells, so twice at most.  Beyond  *)
(* Exact bytes every read of the last few bytes may tell.                     *)
Life(t) == INSTANCE DownloadLife WITH load <- LoadOf(t)

LivesAsPromised ==
    /\ \A t \in TaskInfos : Life(t)!Init
    /\ [][\A t \in TaskInfos :
            /\ [Life(t)!Next]_(LoadOf(t))
            /\ finishedCalls'[t] # finishedCalls[t] =>
                  finishedCalls'[t] = finishedCalls[t] + 1 /\ Life(t)!Tell]_vars

(* The service keeps the promise of Downloads when the server honours ranges  *)
(* and the file is a SmallFile.                                               *)
Promise == INSTANCE Downloads WITH whole <- {u \in Urls : Whole(u)}

KeepsPromise == Promise!Spec

=============================================================================
