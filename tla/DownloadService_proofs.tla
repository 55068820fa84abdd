------------------------ MODULE DownloadService_proofs ------------------------
(***************************************************************************)
(* What holds of the download service for every set of requests, urls and  *)
(* threads, every file length and any number of kills.                     *)
(***************************************************************************)
EXTENDS DownloadService, SequenceTheorems, TLAPS

-----------------------------------------------------------------------------
(* Sequences: what the queue operations of the looper, the pool and the task *)
(* list keep.                                                                *)

LEMMA AppendElements ==
    ASSUME NEW S, NEW s \in Seq(S), NEW e \in S
    PROVE  /\ Append(s, e) \in Seq(S)
           /\ \A i \in DOMAIN Append(s, e) :
                 \/ i \in DOMAIN s /\ Append(s, e)[i] = s[i]
                 \/ Append(s, e)[i] = e
  OBVIOUS

LEMMA TailElements ==
    ASSUME NEW S, NEW s \in Seq(S), s # <<>>
    PROVE  /\ Tail(s) \in Seq(S)
           /\ Head(s) \in S
           /\ 1 \in DOMAIN s
           /\ Head(s) = s[1]
           /\ \A i \in DOMAIN Tail(s) : i + 1 \in DOMAIN s /\ Tail(s)[i] = s[i + 1]
  OBVIOUS

LEMMA RemoveAtElements ==
    ASSUME NEW S, NEW s \in Seq(S), NEW i \in DOMAIN s
    PROVE  /\ RemoveAt(s, i) \in Seq(S)
           /\ \A j \in DOMAIN RemoveAt(s, i) :
                 \E k \in DOMAIN s : RemoveAt(s, i)[j] = s[k]
<1> DEFINE before == SubSeq(s, 1, i - 1)
           after == SubSeq(s, i + 1, Len(s))
<1>1. i \in 1..Len(s) /\ Len(s) \in Nat
  OBVIOUS
<1>2. /\ before \in Seq(S)
      /\ Len(before) = i - 1
      /\ \A j \in 1..(i - 1) : before[j] = s[j]
  BY <1>1, SubSeqProperties, 1 + (i - 1) - 1 = i - 1
<1>3. /\ after \in Seq(S)
      /\ Len(after) = Len(s) - i
      /\ \A j \in 1..(Len(s) - i) : after[j] = s[i + j]
  <2>1. CASE i = Len(s)
    BY <1>1, <2>1, SubSeqProperties
  <2>2. CASE i < Len(s)
    BY <1>1, <2>2, SubSeqProperties
  <2>3. QED
    BY <1>1, <2>1, <2>2
<1>4. RemoveAt(s, i) = before \o after
  BY DEF RemoveAt
<1> HIDE DEF before, after
<1>5. /\ before \o after \in Seq(S)
      /\ Len(before \o after) = Len(before) + Len(after)
      /\ \A j \in 1..(Len(before) + Len(after)) :
            (before \o after)[j] = IF j <= Len(before) THEN before[j]
                                   ELSE after[j - Len(before)]
  BY <1>2, <1>3, ConcatProperties
<1>6. ASSUME NEW j \in 1..(Len(before) + Len(after))
      PROVE  \E k \in 1..Len(s) : (before \o after)[j] = s[k]
  <2>1. j \in 1..(Len(s) - 1) /\ j \in Int /\ i \in Int /\ Len(s) \in Int
    BY <1>1, <1>2, <1>3
  <2>2. CASE j <= i - 1
    <3>1. j \in 1..(i - 1) /\ (before \o after)[j] = before[j]
      BY <1>2, <1>5, <2>1, <2>2
    <3>2. QED
      BY <1>2, <2>1, <3>1
  <2>3. CASE j > i - 1
    <3>1. (before \o after)[j] = after[j - (i - 1)]
      BY <1>2, <1>5, <2>1, <2>3
    <3>2. j - (i - 1) \in 1..(Len(s) - i)
      BY <2>1, <2>3
    <3>3. j + 1 = i + (j - (i - 1)) /\ j + 1 \in 1..Len(s)
      BY <1>1, <2>1, <3>2
    <3>4. QED
      BY <1>3, <3>1, <3>2, <3>3
  <2>4. QED
    BY <2>1, <2>2, <2>3
<1>7. /\ DOMAIN s = 1..Len(s)
      /\ DOMAIN (before \o after) = 1..(Len(before) + Len(after))
  BY <1>1, <1>5
<1>8. QED
  BY <1>4, <1>5, <1>6, <1>7

-----------------------------------------------------------------------------
(* Types.  TypeOK alone is not inductive: the table is read at the url of a  *)
(* task, so every task that is queued anywhere must have one.                *)
Typed == TypeOK /\ UrlsKnown

LEMMA InitTyped == Init => Typed
  BY LengthAssumption DEF Init, Typed, TypeOK, UrlsKnown, Idle, Thread, Message, Blocks, NoRow

LEMMA TypedElements ==
    ASSUME Typed
    PROVE  /\ \A i \in DOMAIN taskList : taskList[i] \in TaskInfos /\ KnownUrl(taskList[i])
           /\ \A i \in DOMAIN pool :
                 pool[i] \in Thread /\ pool[i].task \in TaskInfos /\ KnownUrl(pool[i].task)
           /\ \A w \in Workers : worker[w] # Idle =>
                 worker[w] \in Thread /\ worker[w].task \in TaskInfos /\ KnownUrl(worker[w].task)
           /\ \A i \in DOMAIN looper : looper[i] # BindSuc =>
                 looper[i] \in Message /\ looper[i].task \in TaskInfos /\ KnownUrl(looper[i].task)
           /\ \A i \in DOMAIN broadcasts :
                 broadcasts[i] \in TaskInfos /\ KnownUrl(broadcasts[i])
<1>1. \A i \in DOMAIN taskList : taskList[i] \in TaskInfos /\ KnownUrl(taskList[i])
  <2>1. taskList \in Seq(TaskInfos)
    BY DEF Typed, TypeOK
  <2>2. QED
    BY <2>1 DEF Typed, UrlsKnown
<1>2. \A i \in DOMAIN pool : pool[i] \in Thread /\ KnownUrl(pool[i].task)
  <2>1. pool \in Seq(Thread)
    BY DEF Typed, TypeOK
  <2>2. QED
    BY <2>1 DEF Typed, UrlsKnown
<1>3. \A w \in Workers : worker[w] # Idle =>
          worker[w] \in Thread /\ KnownUrl(worker[w].task)
  <2>1. worker \in [Workers -> Thread \cup {Idle}]
    BY DEF Typed, TypeOK
  <2>2. QED
    BY <2>1 DEF Typed, UrlsKnown
<1>4. \A i \in DOMAIN looper : looper[i] # BindSuc =>
          looper[i] \in Message /\ KnownUrl(looper[i].task)
  <2>1. looper \in Seq(Message \cup {BindSuc})
    BY DEF Typed, TypeOK
  <2>2. QED
    BY <2>1 DEF Typed, UrlsKnown
<1>5. \A i \in DOMAIN broadcasts : broadcasts[i] \in TaskInfos /\ KnownUrl(broadcasts[i])
  <2>1. broadcasts \in Seq(TaskInfos)
    BY DEF Typed, TypeOK
  <2>2. QED
    BY <2>1 DEF Typed, UrlsKnown
<1>6. /\ \A th \in Thread : th.task \in TaskInfos
      /\ \A m \in Message : m.task \in TaskInfos
  BY DEF Thread, Message
<1>7. QED
  BY <1>1, <1>2, <1>3, <1>4, <1>5, <1>6

(* A step gives no url to a task that has another one. *)
UrlsStay == \A t \in TaskInfos : KnownUrl(t) => urlOf'[t] = urlOf[t]

PoolTyped ==
    /\ isPause \in [TaskInfos -> BOOLEAN]
    /\ saved \in [Urls -> Nat \cup {NoRow}]
    /\ pool \in Seq(Thread)
    /\ \A i \in DOMAIN pool : KnownUrl(pool[i].task)

LEMMA EnqueueTyped ==
    ASSUME Typed, UrlsStay, NEW th \in Thread, urlOf'[th.task] \in Urls,
           pool' = Append(pool, th)
    PROVE  pool' \in Seq(Thread) /\ \A i \in DOMAIN pool' : KnownUrl(pool[i].task)'
<1>1. /\ pool \in Seq(Thread)
      /\ \A i \in DOMAIN pool : pool[i] \in Thread /\ KnownUrl(pool[i].task)
  BY TypedElements DEF Typed, TypeOK
<1>2. \A x \in Thread : KnownUrl(x.task) => urlOf'[x.task] \in Urls
  BY DEF UrlsStay, KnownUrl, Thread
<1>3. /\ pool' \in Seq(Thread)
      /\ \A i \in DOMAIN pool' :
            \/ i \in DOMAIN pool /\ pool'[i] = pool[i]
            \/ pool'[i] = th
  BY <1>1, AppendElements
<1>4. QED
  BY <1>1, <1>2, <1>3 DEF KnownUrl

LEMMA DownlaodTyped ==
    ASSUME Typed, UrlsStay, NEW t \in TaskInfos, KnownUrl(t), Downlaod(t, urlOf[t]),
           isPause' \in [TaskInfos -> BOOLEAN]
    PROVE  PoolTyped'
<1> DEFINE th == DownloadThread(t, saved'[urlOf[t]])
<1>1. /\ saved' \in [Urls -> Nat \cup {NoRow}]
      /\ saved'[urlOf[t]] \in Nat
      /\ pool' = Append(pool, th)
  BY DEF Typed, TypeOK, KnownUrl, Downlaod, NoRow
<1>2. th \in Thread /\ th.task = t
  BY <1>1 DEF Thread, DownloadThread
<1>3. urlOf'[th.task] \in Urls
  BY <1>2 DEF UrlsStay, KnownUrl
<1> HIDE DEF th
<1>4. QED
  BY <1>1, <1>2, <1>3, EnqueueTyped DEF PoolTyped

LEMMA DownloadTyped ==
    ASSUME Typed, UrlsStay, NEW t \in TaskInfos, NEW u \in Urls, Download(t, u),
           urlOf' \in [TaskInfos -> Urls \cup {NoUrl}], urlOf'[t] = u
    PROVE  Typed'
<1>1. UNCHANGED <<taskList, worker, looper, broadcasts, have, finishedCalls, kills>>
  BY DEF Download
<1>2. PoolTyped'
  <2>1. ASSUME NEW i \in DOMAIN taskList, IsFirst(i, u), isPause[taskList[i]],
               Restart(taskList[i], u)
        PROVE  PoolTyped'
    <3>1. taskList[i] \in TaskInfos /\ urlOf[taskList[i]] = u
      BY <2>1 DEF Typed, TypeOK, IsFirst
    <3>2. isPause' \in [TaskInfos -> BOOLEAN]
      BY <2>1 DEF Restart, Typed, TypeOK
    <3>3. QED
      BY <2>1, <3>1, <3>2, DownlaodTyped DEF Restart, KnownUrl
  <2>2. CASE UNCHANGED <<isPause, pool, saved>>
    BY <2>2, TypedElements DEF Typed, TypeOK, PoolTyped, UrlsStay, KnownUrl
  <2>3. CASE pool' = Append(pool, InitThread(t)) /\ UNCHANGED <<isPause, saved>>
    <3>1. InitThread(t) \in Thread /\ InitThread(t).task = t
      BY DEF InitThread, Thread
    <3>2. QED
      BY <2>3, <3>1, EnqueueTyped DEF Typed, TypeOK, PoolTyped
  <2>4. QED
    BY <2>1, <2>2, <2>3 DEF Download
<1>3. QED
  BY <1>1, <1>2 DEF PoolTyped, UrlsStay, Typed, TypeOK, UrlsKnown, KnownUrl, Thread, Message

(* What a message put at the end of the looper's queue, and a message taken  *)
(* from its head, leave typed.                                               *)
LooperTyped ==
    /\ looper \in Seq(Message \cup {BindSuc})
    /\ \A i \in DOMAIN looper : looper[i] # BindSuc => KnownUrl(looper[i].task)

LEMMA SendTyped ==
    ASSUME Typed, UNCHANGED urlOf, NEW m \in Message, KnownUrl(m.task),
           looper' = Append(looper, m)
    PROVE  LooperTyped'
<1>1. looper \in Seq(Message \cup {BindSuc})
  BY DEF Typed, TypeOK
<1>2. /\ looper' \in Seq(Message \cup {BindSuc})
      /\ \A i \in DOMAIN looper' :
            \/ i \in DOMAIN looper /\ looper'[i] = looper[i]
            \/ looper'[i] = m
  BY <1>1, AppendElements
<1>3. QED
  BY <1>2, TypedElements DEF LooperTyped, KnownUrl

LEMMA ReceiveTyped ==
    ASSUME Typed, NEW what, what # "MSG_BIND_SUC", Received(what),
           looper' = Tail(looper), UNCHANGED urlOf
    PROVE  /\ LooperTyped'
           /\ 1 \in DOMAIN looper /\ looper[1] = Head(looper)
           /\ Head(looper) \in Message
           /\ Head(looper).task \in TaskInfos
           /\ KnownUrl(Head(looper).task)
<1>1. looper \in Seq(Message \cup {BindSuc}) /\ looper # <<>>
  BY DEF Typed, TypeOK, Received
<1>2. /\ looper' \in Seq(Message \cup {BindSuc})
      /\ 1 \in DOMAIN looper
      /\ Head(looper) = looper[1]
      /\ \A i \in DOMAIN looper' : i + 1 \in DOMAIN looper /\ looper'[i] = looper[i + 1]
  BY <1>1, TailElements
<1>3. Head(looper) # BindSuc
  BY DEF Received, BindSuc
<1>4. QED
  BY <1>2, <1>3, TypedElements DEF LooperTyped, KnownUrl

LEMMA HandleInitTyped == Typed /\ HandleInit => Typed'
<1> SUFFICES ASSUME Typed, HandleInit PROVE Typed'
  OBVIOUS
<1> DEFINE t == Head(looper).task
<1>1. UNCHANGED <<urlOf, isPause, worker, broadcasts, have, finishedCalls, kills>>
  BY DEF HandleInit
<1>2. LooperTyped' /\ t \in TaskInfos /\ KnownUrl(t)
  BY <1>1, ReceiveTyped DEF HandleInit
<1>3. PoolTyped'
  BY <1>1, <1>2, DownlaodTyped DEF HandleInit, UrlsStay, Typed, TypeOK
<1>4. taskList' \in Seq(TaskInfos) /\ \A i \in DOMAIN taskList' : KnownUrl(taskList'[i])
  <2>1. taskList \in Seq(TaskInfos) /\ taskList' = Append(taskList, t)
    BY DEF Typed, TypeOK, HandleInit
  <2>2. QED
    BY <1>2, <2>1, AppendElements, TypedElements
<1>5. QED
  BY <1>1, <1>2, <1>3, <1>4 DEF Typed, TypeOK, UrlsKnown, LooperTyped, PoolTyped, KnownUrl

LEMMA HandleDownloadingTyped == Typed /\ HandleDownloading => Typed'
<1> SUFFICES ASSUME Typed, HandleDownloading PROVE Typed'
  OBVIOUS
<1> DEFINE t == Head(looper).task
<1>1. UNCHANGED <<urlOf, taskList, isPause, pool, worker, have, kills>>
  BY DEF HandleDownloading
<1>2. LooperTyped' /\ t \in TaskInfos /\ KnownUrl(t)
  BY <1>1, ReceiveTyped DEF HandleDownloading
<1>3. broadcasts' \in Seq(TaskInfos) /\ \A i \in DOMAIN broadcasts' : KnownUrl(broadcasts'[i])
  <2>1. broadcasts \in Seq(TaskInfos) /\ broadcasts' = Append(broadcasts, t)
    BY DEF Typed, TypeOK, HandleDownloading
  <2>2. QED
    BY <1>2, <2>1, AppendElements, TypedElements
<1>4. /\ finishedCalls' \in [TaskInfos -> Nat]
      /\ saved' \in [Urls -> Nat \cup {NoRow}]
  <2>1. /\ finishedCalls \in [TaskInfos -> Nat]
        /\ saved \in [Urls -> Nat \cup {NoRow}]
        /\ finishedCalls' = [finishedCalls EXCEPT ![t] = @ + 1]
        /\ saved' = [saved EXCEPT ![urlOf[t]] = NoRow]
    BY DEF Typed, TypeOK, HandleDownloading
  <2>2. QED
    BY <1>2, <2>1 DEF KnownUrl
<1>5. QED
  BY <1>1, <1>2, <1>3, <1>4 DEF Typed, TypeOK, UrlsKnown, LooperTyped, KnownUrl

LEMMA OnReceiveTyped == Typed /\ OnReceive => Typed'
<1> SUFFICES ASSUME Typed, OnReceive PROVE Typed'
  OBVIOUS
<1> DEFINE m == [what |-> "MSG_DOWNLOAD_FINISHED", task |-> Head(broadcasts)]
<1>1. UNCHANGED <<urlOf, taskList, isPause, pool, worker, saved, have, finishedCalls, kills>>
  BY DEF OnReceive
<1>2. /\ broadcasts' \in Seq(TaskInfos)
      /\ Head(broadcasts) \in TaskInfos /\ KnownUrl(Head(broadcasts))
      /\ \A i \in DOMAIN broadcasts' : KnownUrl(broadcasts'[i])
  <2>1. broadcasts \in Seq(TaskInfos) /\ broadcasts # <<>> /\ broadcasts' = Tail(broadcasts)
    BY DEF Typed, TypeOK, OnReceive
  <2>2. QED
    BY <2>1, TailElements, TypedElements
<1>3. LooperTyped'
  <2>1. m \in Message /\ KnownUrl(m.task) /\ looper' = Append(looper, m)
    BY <1>2 DEF Message, OnReceive
  <2>2. QED
    BY <1>1, <2>1, SendTyped
<1>4. QED
  BY <1>1, <1>2, <1>3 DEF Typed, TypeOK, UrlsKnown, LooperTyped, KnownUrl

LEMMA HandleFinishedTyped == Typed /\ HandleFinished => Typed'
<1> SUFFICES ASSUME Typed, HandleFinished PROVE Typed'
  OBVIOUS
<1>1. UNCHANGED <<urlOf, isPause, pool, worker, broadcasts, saved, have, finishedCalls, kills>>
  BY DEF HandleFinished
<1>2. LooperTyped'
  BY <1>1, ReceiveTyped DEF HandleFinished
<1>3. taskList' \in Seq(TaskInfos) /\ \A i \in DOMAIN taskList' : KnownUrl(taskList'[i])
  <2>1. taskList \in Seq(TaskInfos)
    BY DEF Typed, TypeOK
  <2>2. \/ \E i \in DOMAIN taskList : taskList' = RemoveAt(taskList, i)
        \/ taskList' = taskList
    BY DEF HandleFinished, IsFirst
  <2>3. QED
    BY <2>1, <2>2, RemoveAtElements, TypedElements
<1>4. QED
  BY <1>1, <1>2, <1>3 DEF Typed, TypeOK, UrlsKnown, LooperTyped, KnownUrl

(* What a step of a thread does to the threads. *)
WorkersTyped ==
    /\ worker \in [Workers -> Thread \cup {Idle}]
    /\ \A w \in Workers : worker[w] # Idle => KnownUrl(worker[w].task)

LEMMA ThreadStepTyped ==
    ASSUME Typed, UNCHANGED urlOf, NEW w \in Workers, NEW th,
           \/ th = Idle
           \/ th \in Thread /\ KnownUrl(th.task),
           worker' = [worker EXCEPT ![w] = th]
    PROVE  WorkersTyped'
<1>1. worker \in [Workers -> Thread \cup {Idle}]
  BY DEF Typed, TypeOK
<1>2. QED
  BY <1>1, TypedElements DEF WorkersTyped, KnownUrl

LEMMA TakeTyped == ASSUME Typed, NEW w \in Workers, Take(w) PROVE Typed'
<1>1. UNCHANGED <<looper, saved, have, mainOwned>>
  BY DEF Take
<1>2. pool \in Seq(Thread) /\ pool # <<>> /\ pool' = Tail(pool)
  BY DEF Take, Typed, TypeOK
<1>3. /\ pool' \in Seq(Thread)
      /\ \A i \in DOMAIN pool' : KnownUrl(pool'[i].task)
      /\ Head(pool) \in Thread /\ KnownUrl(Head(pool).task)
  BY <1>2, TailElements, TypedElements
<1>4. WorkersTyped'
  BY <1>1, <1>3, ThreadStepTyped DEF Take, mainOwned
<1>5. QED
  BY <1>1, <1>3, <1>4 DEF Typed, TypeOK, UrlsKnown, WorkersTyped, KnownUrl, mainOwned

LEMMA ExitTyped ==
    ASSUME Typed, NEW w \in Workers, Exit(w), UNCHANGED urlOf
    PROVE  WorkersTyped'
  BY ThreadStepTyped DEF Exit

(* A thread that is somewhere runs something. *)
LEMMA AtTyped ==
    ASSUME Typed, NEW w \in Workers, worker[w].pc # "idle"
    PROVE  /\ worker[w] \in Thread
           /\ worker[w].task \in TaskInfos
           /\ KnownUrl(worker[w].task)
<1>1. worker[w] # Idle
  BY DEF Idle
<1>2. QED
  BY <1>1, TypedElements

LEMMA InitDoneTyped == ASSUME Typed, NEW w \in Workers, InitDone(w) PROVE Typed'
<1> DEFINE m == [what |-> "MSG_INIT", task |-> worker[w].task]
<1>1. UNCHANGED <<pool, saved, have, mainOwned>>
  BY DEF InitDone
<1>2. m \in Message /\ KnownUrl(m.task) /\ looper' = Append(looper, m)
  BY AtTyped DEF InitDone, At, Message
<1> HIDE DEF m
<1>3. LooperTyped' /\ WorkersTyped'
  BY <1>1, <1>2, SendTyped, ExitTyped DEF InitDone, mainOwned
<1>4. QED
  BY <1>1, <1>3 DEF Typed, TypeOK, UrlsKnown, LooperTyped, WorkersTyped, KnownUrl, mainOwned

LEMMA FailTyped == ASSUME Typed, NEW w \in Workers, Fail(w) PROVE Typed'
<1>1. UNCHANGED <<pool, looper, saved, have, mainOwned>> /\ WorkersTyped'
  BY ExitTyped DEF Fail, mainOwned
<1>2. QED
  BY <1>1 DEF Typed, TypeOK, UrlsKnown, WorkersTyped, KnownUrl, mainOwned

LEMMA ConnectTyped == ASSUME Typed, NEW w \in Workers, Connect(w) PROVE Typed'
<1>1. UNCHANGED <<pool, looper, saved, have, mainOwned>>
  BY DEF Connect
<1>2. worker[w] \in Thread /\ KnownUrl(worker[w].task) /\ worker \in [Workers -> Thread \cup {Idle}]
  BY AtTyped DEF Connect, At, Typed, TypeOK
<1>3. WorkersTyped'
  <2>1. CASE Exit(w)
    BY <1>1, <2>1, ExitTyped DEF mainOwned
  <2>2. ASSUME NEW n \in Nat,
               worker' = [worker EXCEPT ![w].pc = "read", ![w].last = n]
        PROVE  WorkersTyped'
    <3> DEFINE th == [worker[w] EXCEPT !.pc = "read", !.last = n]
    <3>1. th \in Thread /\ th.task = worker[w].task
      BY <1>2, <2>2 DEF Thread
    <3>2. worker' = [worker EXCEPT ![w] = th]
      BY <1>2, <2>2
    <3> HIDE DEF th
    <3>3. QED
      BY <1>1, <1>2, <3>1, <3>2, ThreadStepTyped DEF mainOwned
  <2>3. Length \in Nat /\ worker[w].finished + Length \in Nat
    BY <1>2, LengthAssumption DEF Thread
  <2>4. QED
    BY <2>1, <2>2, <2>3 DEF Connect
<1>4. QED
  BY <1>1, <1>3 DEF Typed, TypeOK, UrlsKnown, WorkersTyped, KnownUrl, mainOwned

QueueTyped(queue) ==
    /\ queue \in Seq(Message \cup {BindSuc})
    /\ \A i \in DOMAIN queue : queue[i] # BindSuc => KnownUrl(queue[i].task)

LEMMA NotifyTyped ==
    ASSUME NEW queue, QueueTyped(queue), NEW t \in TaskInfos, KnownUrl(t), NEW n
    PROVE  QueueTyped(Notify(queue, t, n))
<1> DEFINE m == [what |-> "MSG_DOWNLOADING", task |-> t]
<1>1. m \in Message /\ m.task = t
  BY DEF Message
<1> HIDE DEF m
<1>2. QueueTyped(Append(queue, m))
  <2>1. queue \in Seq(Message \cup {BindSuc})
    BY DEF QueueTyped
  <2>2. QED
    BY <1>1, <2>1, AppendElements DEF QueueTyped
<1>3. Notify(queue, t, n) \in {queue, Append(queue, m)}
  BY DEF Notify, m
<1>4. QED
  BY <1>2, <1>3

LEMMA LooperQueueTyped ==
    ASSUME Typed
    PROVE  QueueTyped(looper) /\ (UNCHANGED urlOf /\ QueueTyped(looper') => LooperTyped')
  BY DEF Typed, TypeOK, UrlsKnown, QueueTyped, LooperTyped, KnownUrl

LEMMA ReadTyped == ASSUME Typed, NEW w \in Workers, Read(w) PROVE Typed'
<1> DEFINE t == worker[w].task
           n == worker[w].finished + 1
<1>0. PICK periodic \in BOOLEAN, paused \in BOOLEAN :
          LET queue == IF periodic THEN Notify(looper, t, n) ELSE looper IN
          /\ looper' = IF paused THEN Notify(queue, t, n) ELSE queue
          /\ worker' = [worker EXCEPT ![w].finished = n,
                                      ![w].pc = IF paused THEN "save" ELSE "read"]
  BY DEF Read, Seen
<1> DEFINE pc == IF paused THEN "save" ELSE "read"
           th == [worker[w] EXCEPT !.finished = n, !.pc = pc]
           queue == IF periodic THEN Notify(looper, t, n) ELSE looper
<1>1. UNCHANGED <<pool, saved, mainOwned>> /\ At(w, "read")
  BY DEF Read
<1>2. /\ worker[w] \in Thread /\ t \in TaskInfos /\ KnownUrl(t)
      /\ worker \in [Workers -> Thread \cup {Idle}]
  BY <1>1, AtTyped DEF At, Typed, TypeOK
<1>3. WorkersTyped'
  <2>1. n \in Nat /\ pc \in {"save", "read"}
    BY <1>2 DEF Thread
  <2>2. th \in Thread /\ th.task = t
    <3> HIDE DEF n, pc
    <3>1. QED
      BY <1>2, <2>1 DEF Thread
  <2>3. worker' = [worker EXCEPT ![w] = th]
    BY <1>0, <1>2
  <2> HIDE DEF th
  <2>4. QED
    BY <1>1, <1>2, <2>2, <2>3, ThreadStepTyped DEF mainOwned
<1>4. LooperTyped'
  <2>1. looper' = IF paused THEN Notify(queue, t, n) ELSE queue
    BY <1>0
  <2> HIDE DEF t, n
  <2>2. QueueTyped(queue)
    BY <1>2, LooperQueueTyped, NotifyTyped
  <2> HIDE DEF queue
  <2>3. QueueTyped(looper')
    BY <1>2, <2>1, <2>2, NotifyTyped
  <2>4. QED
    BY <1>1, <2>3, LooperQueueTyped DEF mainOwned
<1>5. have' \in [Urls -> SUBSET Blocks]
  <2>1. have \in [Urls -> SUBSET Blocks] /\ worker[w].finished \in Nat /\ worker[w].last \in Nat
    BY <1>2 DEF Typed, TypeOK, Thread
  <2>2. worker[w].last = Length => n \in Blocks
    BY <2>1 DEF Read, Blocks
  <2>3. QED
    BY <2>1, <2>2 DEF Read
<1>6. QED
  BY <1>1, <1>3, <1>4, <1>5 DEF Typed, TypeOK, UrlsKnown, LooperTyped, WorkersTyped, KnownUrl, mainOwned

LEMMA SaveProgressTyped == ASSUME Typed, NEW w \in Workers, SaveProgress(w) PROVE Typed'
<1>1. UNCHANGED <<pool, looper, have, mainOwned>> /\ WorkersTyped'
  BY ExitTyped DEF SaveProgress, mainOwned
<1>2. saved' \in [Urls -> Nat \cup {NoRow}]
  <2>1. worker[w].finished \in Nat
    BY AtTyped DEF SaveProgress, At, Thread
  <2>2. saved \in [Urls -> Nat \cup {NoRow}]
    BY DEF Typed, TypeOK
  <2>3. QED
    BY <2>1, <2>2 DEF SaveProgress
<1>3. QED
  BY <1>1, <1>2 DEF Typed, TypeOK, UrlsKnown, WorkersTyped, KnownUrl, mainOwned

LEMMA EndOfStreamTyped == ASSUME Typed, NEW w \in Workers, EndOfStream(w) PROVE Typed'
<1>1. UNCHANGED <<pool, saved, have, mainOwned>> /\ WorkersTyped'
  BY ExitTyped DEF EndOfStream, mainOwned
<1>2. LooperTyped'
  <2>1. worker[w].task \in TaskInfos /\ KnownUrl(worker[w].task)
    BY AtTyped DEF EndOfStream, At
  <2>2. QueueTyped(looper')
    BY <2>1, LooperQueueTyped, NotifyTyped DEF EndOfStream
  <2>3. QED
    BY <1>1, <2>2, LooperQueueTyped DEF mainOwned
<1>3. QED
  BY <1>1, <1>2 DEF Typed, TypeOK, UrlsKnown, LooperTyped, WorkersTyped, KnownUrl, mainOwned

LEMMA RequestTyped ==
    ASSUME Typed, NEW t \in TaskInfos, NEW u \in Urls, Request(t, u) PROVE Typed'
<1>1. urlOf \in [TaskInfos -> Urls \cup {NoUrl}]
  BY DEF Typed, TypeOK
<1>2. /\ urlOf' \in [TaskInfos -> Urls \cup {NoUrl}]
      /\ urlOf'[t] = u
      /\ UrlsStay
  BY <1>1, NoUrlAssumption DEF Request, UrlsStay, KnownUrl
<1>3. QED
  BY <1>2, DownloadTyped DEF Request

LEMMA PauseTyped ==
    ASSUME Typed, OnLowMemory \/ \E u \in Urls : Pause(u) PROVE Typed'
<1>1. UNCHANGED <<urlOf, taskList, pool, worker, looper, broadcasts, saved, have,
                  finishedCalls, kills>>
  BY DEF OnLowMemory, Pause
<1>2. isPause' \in [TaskInfos -> BOOLEAN]
  <2>1. isPause \in [TaskInfos -> BOOLEAN]
    BY DEF Typed, TypeOK
  <2>2. CASE OnLowMemory
    <3>1. \A t \in TaskInfos : (isPause[t] \/ Contains(taskList, t)) \in BOOLEAN
      BY <2>1
    <3>2. QED
      BY <2>2, <3>1 DEF OnLowMemory
  <2>3. CASE \E u \in Urls : Pause(u)
    BY <2>1, <2>3 DEF Pause
  <2>4. QED
    BY <2>2, <2>3
<1>3. QED
  BY <1>1, <1>2 DEF Typed, TypeOK, UrlsKnown, KnownUrl

LEMMA KillTyped == ASSUME Typed, Kill PROVE Typed'
  BY DEF Kill, ClearProcess, Typed, TypeOK, UrlsKnown, KnownUrl

(* Every step of the service keeps the types, one action at a time. *)
LEMMA TypedNext == Typed /\ [Next]_vars => Typed'
<1> SUFFICES ASSUME Typed, [Next]_vars PROVE Typed'
  OBVIOUS
<1>1. CASE HandleMessage
  BY <1>1, HandleInitTyped, HandleDownloadingTyped, HandleFinishedTyped DEF HandleMessage
<1>2. CASE OnReceive
  BY <1>2, OnReceiveTyped
<1>3. ASSUME NEW w \in Workers, WorkerStep(w)
      PROVE  Typed'
  BY <1>3, TakeTyped, InitDoneTyped, ConnectTyped, ReadTyped, SaveProgressTyped,
     EndOfStreamTyped DEF WorkerStep
<1>4. CASE Environment
  BY <1>4, RequestTyped, PauseTyped, FailTyped, KillTyped DEF Environment
<1>5. CASE UNCHANGED vars
  BY <1>5 DEF vars, Typed, TypeOK, UrlsKnown, KnownUrl
<1>6. QED
  BY <1>1, <1>2, <1>3, <1>4, <1>5 DEF Next

(* The service keeps its types, however its threads, its handlers and the    *)
(* system interleave, and with every hazard.                                 *)
THEOREM TypeCorrect == Spec => []TypeOK
<1>1. Init => Typed
  BY InitTyped
<1>2. Typed /\ [Next]_vars => Typed'
  BY TypedNext
<1>3. Typed => TypeOK
  BY DEF Typed
<1>4. QED
  BY <1>1, <1>2, <1>3, PTL DEF Spec

-----------------------------------------------------------------------------
(* Progress.  As long as the server answers a range with that range, blocks  *)
(* once on the disk stay there, so it is enough to look at what each step    *)
(* newly queues, saves or writes.                                            *)
RangesHonoured == "full" \notin Hazards

RowsBehind == \A u \in Urls : Behind(u, saved[u])
PoolBehind == \A i \in DOMAIN pool : ThreadBehind(pool[i])
WorkersBehind == \A w \in Workers : worker[w] # Idle => ThreadBehind(worker[w])
MessagesTrue(queue) ==
    \A i \in DOMAIN queue :
        queue[i].what = "MSG_DOWNLOADING" => Said100(urlOf[queue[i].task])

BlocksStay == \A u \in Urls : have[u] \subseteq have'[u]

LEMMA Parts ==
    /\ ServiceInv => Typed
    /\ ServiceInv <=> /\ Typed /\ RowsBehind /\ PoolBehind /\ WorkersBehind
                      /\ MessagesTrue(looper) /\ ToldWhenSaid
  BY DEF ServiceInv, Typed, ProgressOnDisk, RowsBehind, PoolBehind, WorkersBehind,
         MessagesTrue

LEMMA Assemble ==
    ASSUME Typed', RowsBehind', PoolBehind', WorkersBehind', MessagesTrue(looper)',
           ToldWhenSaid'
    PROVE  ServiceInv'
  BY DEF ServiceInv, Typed, ProgressOnDisk, RowsBehind, PoolBehind, WorkersBehind,
         MessagesTrue

LEMMA InitService == Init => ServiceInv
<1> SUFFICES ASSUME Init PROVE ServiceInv
  OBVIOUS
<1>1. Typed
  BY InitTyped
<1>2. \A u \in Urls : Behind(u, saved[u])
  BY LengthAssumption DEF Init, Behind, Blocks, NoRow
<1>3. QED
  BY <1>1, <1>2, Parts
     DEF Init, RowsBehind, PoolBehind, WorkersBehind, MessagesTrue, ToldWhenSaid

(* What held of a url, a thread or a finished request goes on holding. *)
LEMMA Stays ==
    ASSUME ServiceInv, Typed', UrlsStay, BlocksStay
    PROVE  /\ \A u \in Urls, n \in Int : Behind(u, n) => Behind(u, n)'
           /\ \A u \in Urls : Said100(u) => Said100(u)'
           /\ \A th \in Thread :
                 KnownUrl(th.task) /\ ThreadBehind(th) => ThreadBehind(th)'
           /\ \A t \in TaskInfos :
                 KnownUrl(t) /\ Said100(urlOf[t]) => KnownUrl(t)' /\ Said100(urlOf[t])'
<1>1. \A u \in Urls, n \in Int : Behind(u, n) => Behind(u, n)'
  BY DEF BlocksStay, Behind, Blocks
<1>2. \A u \in Urls : Said100(u) => Said100(u)'
  <2>1. have' \in [Urls -> SUBSET Blocks]
    BY DEF Typed, TypeOK
  <2>2. QED
    BY <2>1 DEF BlocksStay, Said100, Behind
<1>3. \A th \in Thread : KnownUrl(th.task) /\ ThreadBehind(th) => ThreadBehind(th)'
  <2>1. ASSUME NEW th \in Thread, KnownUrl(th.task), ThreadBehind(th)
        PROVE  ThreadBehind(th)'
    <3>1. th.task \in TaskInfos /\ th.finished \in Int
      BY DEF Thread
    <3>2. urlOf'[th.task] = urlOf[th.task]
      BY <2>1, <3>1 DEF UrlsStay
    <3>3. Behind(urlOf[th.task], th.finished)'
      BY <1>1, <2>1, <3>1, <3>2 DEF KnownUrl, ThreadBehind, Behind
    <3>4. QED
      BY <2>1, <3>3 DEF ThreadBehind
  <2>2. QED
    BY <2>1
<1>4. \A t \in TaskInfos :
          KnownUrl(t) /\ Said100(urlOf[t]) => KnownUrl(t)' /\ Said100(urlOf[t])'
  BY <1>2 DEF UrlsStay, KnownUrl, Said100, Behind
<1>5. QED
  BY <1>1, <1>2, <1>3, <1>4

(* So a step that leaves a part of the state alone keeps what holds of it. *)
LEMMA FrameService ==
    ASSUME ServiceInv, Typed', UrlsStay, BlocksStay
    PROVE  /\ UNCHANGED saved => RowsBehind'
           /\ UNCHANGED pool => PoolBehind'
           /\ UNCHANGED worker => WorkersBehind'
           /\ UNCHANGED looper => MessagesTrue(looper)'
           /\ UNCHANGED finishedCalls => ToldWhenSaid'
<1>1. Typed /\ RowsBehind /\ PoolBehind /\ WorkersBehind /\ MessagesTrue(looper)
      /\ ToldWhenSaid
  BY Parts
<1>2. UNCHANGED saved => RowsBehind'
  <2>1. \A u \in Urls : saved[u] \in Int
    BY <1>1 DEF Typed, TypeOK, NoRow
  <2>2. QED
    BY <1>1, <2>1, Stays DEF RowsBehind, Behind
<1>3. UNCHANGED pool => PoolBehind'
  BY <1>1, Stays, TypedElements DEF PoolBehind, ThreadBehind, Behind
<1>4. UNCHANGED worker => WorkersBehind'
  BY <1>1, Stays, TypedElements DEF WorkersBehind, ThreadBehind, Behind
<1>5. UNCHANGED looper => MessagesTrue(looper)'
  <2>1. \A i \in DOMAIN looper : looper[i].what = "MSG_DOWNLOADING" => looper[i] # BindSuc
    BY DEF BindSuc
  <2>2. QED
    BY <1>1, <2>1, Stays, TypedElements DEF MessagesTrue, Said100, Behind
<1>6. UNCHANGED finishedCalls => ToldWhenSaid'
  BY <1>1, Stays DEF ToldWhenSaid, KnownUrl, Said100, Behind
<1>7. QED
  BY <1>2, <1>3, <1>4, <1>5, <1>6

(* A resumed task starts behind the blocks its url's row vouches for. *)
LEMMA DownlaodBehind ==
    ASSUME ServiceInv, Typed', UrlsStay, BlocksStay, NEW t \in TaskInfos, KnownUrl(t),
           Downlaod(t, urlOf[t])
    PROVE  RowsBehind' /\ PoolBehind'
<1> DEFINE u == urlOf[t]
<1>1. Typed /\ RowsBehind /\ PoolBehind
  BY Parts
<1>2. saved \in [Urls -> Nat \cup {NoRow}] /\ u \in Urls /\ pool \in Seq(Thread)
  BY <1>1 DEF Typed, TypeOK, KnownUrl
<1>3. \A x \in Urls : Behind(x, saved'[x]) /\ saved'[x] \in Int
  <2>1. \A x \in Urls : Behind(x, 0)
    BY LengthAssumption DEF Behind, Blocks
  <2>2. saved' = IF saved[u] = NoRow THEN [saved EXCEPT ![u] = 0] ELSE saved
    BY DEF Downlaod
  <2>3. QED
    BY <1>1, <1>2, <2>1, <2>2 DEF RowsBehind, NoRow
<1>4. RowsBehind'
  BY <1>3, Stays DEF RowsBehind, Behind
<1>5. PICK n \in Nat : n = saved'[u]
  BY <1>2 DEF Downlaod, NoRow
<1> DEFINE th == DownloadThread(t, n)
<1>6. th \in Thread /\ th.task = t /\ ThreadBehind(th)
  BY <1>2, <1>3, <1>5 DEF DownloadThread, Thread, ThreadBehind
<1>7. ThreadBehind(th)' /\ pool' = Append(pool, th)
  BY <1>5, <1>6, Stays DEF Downlaod
<1> HIDE DEF th
<1>8. PoolBehind'
  <2>1. \A i \in DOMAIN pool : \A x : x = pool[i] => ThreadBehind(x)'
    BY <1>1, Stays, TypedElements DEF PoolBehind, ThreadBehind, Behind
  <2>2. \A i \in DOMAIN pool' : (i \in DOMAIN pool /\ pool'[i] = pool[i]) \/ pool'[i] = th
    BY <1>2, <1>6, <1>7, AppendElements
  <2>3. QED
    BY <1>7, <2>1, <2>2 DEF PoolBehind, ThreadBehind, Behind
<1>9. QED
  BY <1>4, <1>8

LEMMA InitThreadBehind ==
    ASSUME ServiceInv, Typed', UrlsStay, BlocksStay, NEW t \in TaskInfos,
           pool' = Append(pool, InitThread(t))
    PROVE  PoolBehind'
<1> DEFINE th == InitThread(t)
<1>1. Typed /\ PoolBehind
  BY Parts
<1>2. th \in Thread /\ ThreadBehind(th)'
  BY LengthAssumption DEF InitThread, Thread, ThreadBehind, Behind, Blocks
<1> HIDE DEF th
<1>3. pool \in Seq(Thread) /\ pool' = Append(pool, th)
  BY <1>1 DEF Typed, TypeOK, th
<1>4. \A i \in DOMAIN pool : \A x : x = pool[i] => ThreadBehind(x)'
  BY <1>1, Stays, TypedElements DEF PoolBehind, ThreadBehind, Behind
<1>5. \A i \in DOMAIN pool' : (i \in DOMAIN pool /\ pool'[i] = pool[i]) \/ pool'[i] = th
  BY <1>2, <1>3, AppendElements
<1>6. QED
  BY <1>2, <1>4, <1>5 DEF PoolBehind, ThreadBehind, Behind

LEMMA MessagesStay ==
    ASSUME ServiceInv, Typed', UrlsStay, BlocksStay
    PROVE  \A i \in DOMAIN looper : looper[i].what = "MSG_DOWNLOADING" =>
               \A t : t = looper[i].task => Said100(urlOf[t])'
<1>1. Typed /\ MessagesTrue(looper)
  BY Parts
<1>2. \A i \in DOMAIN looper : looper[i].what = "MSG_DOWNLOADING" => looper[i] # BindSuc
  BY DEF BindSuc
<1>3. QED
  BY <1>1, <1>2, Stays, TypedElements DEF MessagesTrue, Said100, Behind

(* The queue keeps telling the truth when a message is taken from it, and     *)
(* when one is put on it that is no progress of 100 or a true one.            *)
LEMMA TailTrue ==
    ASSUME ServiceInv, Typed', UrlsStay, BlocksStay, looper # <<>>, looper' = Tail(looper)
    PROVE  MessagesTrue(looper)'
<1>1. Typed /\ MessagesTrue(looper)
  BY Parts
<1>2. looper \in Seq(Message \cup {BindSuc})
  BY <1>1 DEF Typed, TypeOK
<1>3. \A i \in DOMAIN looper' : i + 1 \in DOMAIN looper /\ looper'[i] = looper[i + 1]
  BY <1>2, TailElements
<1>4. \A i \in DOMAIN looper : looper[i].what = "MSG_DOWNLOADING" =>
          \A t : t = looper[i].task => Said100(urlOf[t])'
  BY <1>1, MessagesStay
<1>5. QED
  BY <1>3, <1>4 DEF MessagesTrue, Said100, Behind

LEMMA AppendTrue ==
    ASSUME ServiceInv, Typed', UrlsStay, BlocksStay, NEW m \in Message,
           m.what # "MSG_DOWNLOADING", looper' = Append(looper, m)
    PROVE  MessagesTrue(looper)'
<1>1. Typed /\ MessagesTrue(looper)
  BY Parts
<1>2. looper \in Seq(Message \cup {BindSuc})
  BY <1>1 DEF Typed, TypeOK
<1>3. \A i \in DOMAIN looper' : (i \in DOMAIN looper /\ looper'[i] = looper[i]) \/ looper'[i] = m
  BY <1>2, AppendElements
<1>4. \A i \in DOMAIN looper : looper[i].what = "MSG_DOWNLOADING" =>
          \A t : t = looper[i].task => Said100(urlOf[t])'
  BY <1>1, MessagesStay
<1>5. QED
  BY <1>3, <1>4 DEF MessagesTrue, Said100, Behind

LEMMA RequestBehind ==
    ASSUME ServiceInv, NEW t \in TaskInfos, NEW u \in Urls, Request(t, u)
    PROVE  ServiceInv'
<1>1. Typed /\ UNCHANGED <<taskList, worker, looper, broadcasts, have, finishedCalls, kills>>
  BY Parts DEF Request, Download
<1>2. Typed'
  BY <1>1, RequestTyped
<1>3. UrlsStay /\ BlocksStay
  BY <1>1, NoUrlAssumption DEF UrlsStay, BlocksStay, Request, KnownUrl, Typed, TypeOK
<1>4. RowsBehind' /\ PoolBehind'
  <2>1. ASSUME NEW i \in DOMAIN taskList, IsFirst(i, u), Restart(taskList[i], u)
        PROVE  RowsBehind' /\ PoolBehind'
    <3>1. taskList[i] \in TaskInfos /\ urlOf[taskList[i]] = u
      BY <1>1, <2>1, TypedElements DEF IsFirst
    <3>2. QED
      BY <1>2, <1>3, <2>1, <3>1, DownlaodBehind DEF Restart, KnownUrl
  <2>2. CASE UNCHANGED <<isPause, pool, saved>>
    BY <1>2, <1>3, <2>2, FrameService
  <2>3. CASE pool' = Append(pool, InitThread(t)) /\ UNCHANGED <<isPause, saved>>
    BY <1>2, <1>3, <2>3, FrameService, InitThreadBehind
  <2>4. QED
    BY <2>1, <2>2, <2>3 DEF Request, Download
<1>5. QED
  BY <1>1, <1>2, <1>3, <1>4, FrameService, Assemble

LEMMA HandleInitBehind == ServiceInv /\ HandleInit => ServiceInv'
<1> SUFFICES ASSUME ServiceInv, HandleInit PROVE ServiceInv'
  OBVIOUS
<1> DEFINE t == Head(looper).task
<1>1. Typed /\ UNCHANGED <<urlOf, isPause, worker, broadcasts, have, finishedCalls, kills>>
  BY Parts DEF HandleInit
<1>2. Typed' /\ UrlsStay /\ BlocksStay
  BY <1>1, HandleInitTyped DEF UrlsStay, BlocksStay
<1>3. t \in TaskInfos /\ KnownUrl(t)
  BY <1>1, ReceiveTyped DEF HandleInit
<1>4. RowsBehind' /\ PoolBehind'
  BY <1>2, <1>3, DownlaodBehind DEF HandleInit
<1>5. MessagesTrue(looper)'
  BY <1>1, <1>2, TailTrue DEF HandleInit, Received
<1>6. QED
  BY <1>1, <1>2, <1>4, <1>5, FrameService, Assemble

(* The callback is the step that needs the truth of the message it handles. *)
LEMMA HandleDownloadingBehind == ServiceInv /\ HandleDownloading => ServiceInv'
<1> SUFFICES ASSUME ServiceInv, HandleDownloading PROVE ServiceInv'
  OBVIOUS
<1> DEFINE t == Head(looper).task
<1>1. /\ Typed /\ RowsBehind /\ MessagesTrue(looper) /\ ToldWhenSaid
      /\ UNCHANGED <<urlOf, taskList, isPause, pool, worker, have, kills>>
  BY Parts DEF HandleDownloading
<1>2. Typed' /\ UrlsStay /\ BlocksStay
  BY <1>1, HandleDownloadingTyped DEF UrlsStay, BlocksStay
<1>3. /\ t \in TaskInfos /\ KnownUrl(t)
      /\ 1 \in DOMAIN looper /\ looper[1] = Head(looper)
      /\ looper # <<>> /\ looper' = Tail(looper)
  BY <1>1, ReceiveTyped DEF HandleDownloading, Received
<1>4. Said100(urlOf[t])
  BY <1>1, <1>3 DEF MessagesTrue, HandleDownloading, Received
<1>5. ToldWhenSaid'
  <2>1. \A x \in TaskInfos : finishedCalls'[x] > 0 => x = t \/ finishedCalls[x] > 0
    BY <1>1 DEF HandleDownloading, Typed, TypeOK
  <2>2. QED
    BY <1>1, <1>3, <1>4, <2>1 DEF ToldWhenSaid, KnownUrl, Said100, Behind
<1>6. RowsBehind'
  <2>1. saved \in [Urls -> Nat \cup {NoRow}] /\ saved' = [saved EXCEPT ![urlOf[t]] = NoRow]
    BY <1>1 DEF HandleDownloading, Typed, TypeOK
  <2>2. \A u \in Urls : Behind(u, NoRow)
    BY LengthAssumption DEF Behind, Blocks, NoRow
  <2>3. QED
    BY <1>1, <2>1, <2>2 DEF RowsBehind, Behind
<1>7. MessagesTrue(looper)'
  BY <1>2, <1>3, TailTrue
<1>8. QED
  BY <1>1, <1>2, <1>5, <1>6, <1>7, FrameService, Assemble

(* Steps that write neither the files nor what vouches for them. *)
LEMMA OtherMainBehind ==
    ASSUME ServiceInv,
           OnReceive \/ HandleFinished \/ OnLowMemory \/ \E u \in Urls : Pause(u)
    PROVE  ServiceInv'
<1>1. Typed
  BY Parts
<1>2. Typed'
  BY <1>1, OnReceiveTyped, HandleFinishedTyped, PauseTyped
<1>3. UNCHANGED <<urlOf, pool, worker, saved, have, finishedCalls>>
  BY DEF OnReceive, HandleFinished, OnLowMemory, Pause
<1>4. UrlsStay /\ BlocksStay
  BY <1>3 DEF UrlsStay, BlocksStay
<1>5. MessagesTrue(looper)'
  <2>1. CASE UNCHANGED looper
    BY <1>2, <1>4, <2>1, FrameService
  <2>2. CASE HandleFinished
    BY <1>2, <1>4, <2>2, TailTrue DEF HandleFinished, Received
  <2>3. CASE OnReceive
    <3>1. PICK m : m = [what |-> "MSG_DOWNLOAD_FINISHED", task |-> Head(broadcasts)]
      OBVIOUS
    <3>2. looper' = Append(looper, m) /\ m.what # "MSG_DOWNLOADING"
      BY <2>3, <3>1 DEF OnReceive
    <3>3. m \in Message
      <4>1. broadcasts \in Seq(TaskInfos) /\ broadcasts # <<>>
        BY <1>1, <2>3 DEF Typed, TypeOK, OnReceive
      <4>2. QED
        BY <3>1, <4>1, TailElements DEF Message
    <3>4. QED
      BY <1>2, <1>4, <3>2, <3>3, AppendTrue
  <2>4. QED
    BY <2>1, <2>2, <2>3 DEF OnLowMemory, Pause
<1>6. QED
  BY <1>2, <1>3, <1>4, <1>5, FrameService, Assemble

LEMMA KillBehind == ServiceInv /\ Kill => ServiceInv'
<1> SUFFICES ASSUME ServiceInv, Kill PROVE ServiceInv'
  OBVIOUS
<1>1. Typed /\ Typed' /\ UNCHANGED <<urlOf, saved, have, finishedCalls>>
  BY Parts, KillTyped DEF Kill
<1>2. UrlsStay /\ BlocksStay
  BY <1>1 DEF UrlsStay, BlocksStay
<1>3. PoolBehind' /\ WorkersBehind' /\ MessagesTrue(looper)'
  BY DEF Kill, ClearProcess, PoolBehind, WorkersBehind, MessagesTrue
<1>4. QED
  BY <1>1, <1>2, <1>3, FrameService, Assemble

(* What a thread is left with after its step must be behind its file, too. *)
LEMMA ThreadStepBehind ==
    ASSUME ServiceInv, Typed', UrlsStay, BlocksStay, NEW w \in Workers, NEW th,
           th = Idle \/ ThreadBehind(th)', worker' = [worker EXCEPT ![w] = th]
    PROVE  WorkersBehind'
<1>1. Typed /\ WorkersBehind
  BY Parts
<1>2. \A x \in Workers : worker[x] # Idle => \A y : y = worker[x] => ThreadBehind(y)'
  BY <1>1, Stays, TypedElements DEF WorkersBehind
<1>3. worker \in [Workers -> Thread \cup {Idle}]
  BY <1>1 DEF Typed, TypeOK
<1>4. QED
  BY <1>2, <1>3 DEF WorkersBehind, ThreadBehind, Behind

LEMMA ExitBehind ==
    ASSUME ServiceInv, Typed', UrlsStay, BlocksStay, NEW w \in Workers, Exit(w)
    PROVE  WorkersBehind'
  BY ThreadStepBehind DEF Exit

LEMMA AtBehind ==
    ASSUME ServiceInv, NEW w \in Workers, worker[w].pc # "idle"
    PROVE  ThreadBehind(worker[w])
  BY Parts DEF WorkersBehind, Idle

LEMMA TakeBehind == ASSUME ServiceInv, NEW w \in Workers, Take(w) PROVE ServiceInv'
<1>1. Typed /\ Typed' /\ PoolBehind /\ UNCHANGED <<looper, saved, have, mainOwned>>
  BY Parts, TakeTyped DEF Take
<1>2. UrlsStay /\ BlocksStay
  BY <1>1 DEF UrlsStay, BlocksStay, mainOwned
<1>3. pool \in Seq(Thread) /\ pool # <<>> /\ pool' = Tail(pool)
  BY <1>1 DEF Take, Typed, TypeOK
<1>4. /\ 1 \in DOMAIN pool /\ Head(pool) = pool[1]
      /\ \A i \in DOMAIN pool' : i + 1 \in DOMAIN pool /\ pool'[i] = pool[i + 1]
  BY <1>3, TailElements
<1>5. \A i \in DOMAIN pool : \A x : x = pool[i] => ThreadBehind(x)'
  BY <1>1, <1>2, Stays, TypedElements DEF PoolBehind
<1>6. PoolBehind'
  BY <1>4, <1>5 DEF PoolBehind, ThreadBehind, Behind
<1>7. WorkersBehind'
  <2>1. PICK th : th = Head(pool)
    OBVIOUS
  <2>2. ThreadBehind(th)' /\ worker' = [worker EXCEPT ![w] = th]
    BY <1>4, <1>5, <2>1 DEF Take
  <2>3. QED
    BY <1>1, <1>2, <2>2, ThreadStepBehind
<1>8. QED
  BY <1>1, <1>2, <1>6, <1>7, FrameService, Assemble DEF mainOwned

LEMMA InitDoneBehind == ASSUME ServiceInv, NEW w \in Workers, InitDone(w) PROVE ServiceInv'
<1>1. Typed /\ Typed' /\ UNCHANGED <<pool, saved, have, mainOwned>> /\ Exit(w)
  BY Parts, InitDoneTyped DEF InitDone
<1>2. UrlsStay /\ BlocksStay
  BY <1>1 DEF UrlsStay, BlocksStay, mainOwned
<1>3. PICK m : m = [what |-> "MSG_INIT", task |-> worker[w].task]
  OBVIOUS
<1>4. m \in Message /\ m.what # "MSG_DOWNLOADING" /\ looper' = Append(looper, m)
  BY <1>1, <1>3, AtTyped DEF InitDone, At, Message
<1>5. MessagesTrue(looper)' /\ WorkersBehind'
  BY <1>1, <1>2, <1>4, AppendTrue, ExitBehind
<1>6. QED
  BY <1>1, <1>2, <1>5, FrameService, Assemble DEF mainOwned

LEMMA FailBehind == ASSUME ServiceInv, NEW w \in Workers, Fail(w) PROVE ServiceInv'
<1>1. Typed' /\ UNCHANGED <<pool, looper, saved, have, mainOwned>> /\ Exit(w)
  BY Parts, FailTyped DEF Fail
<1>2. UrlsStay /\ BlocksStay
  BY <1>1 DEF UrlsStay, BlocksStay, mainOwned
<1>3. QED
  BY <1>1, <1>2, ExitBehind, FrameService, Assemble DEF mainOwned

LEMMA SaveProgressBehind ==
    ASSUME ServiceInv, NEW w \in Workers, SaveProgress(w) PROVE ServiceInv'
<1>1. Typed /\ Typed' /\ UNCHANGED <<pool, looper, have, mainOwned>> /\ Exit(w)
  BY Parts, SaveProgressTyped DEF SaveProgress
<1>2. UrlsStay /\ BlocksStay
  BY <1>1 DEF UrlsStay, BlocksStay, mainOwned
<1>3. RowsBehind'
  <2>1. Behind(urlOf[worker[w].task], worker[w].finished) /\ RowsBehind
    BY AtBehind, Parts DEF ThreadBehind, SaveProgress, At
  <2>2. saved \in [Urls -> Nat \cup {NoRow}]
    BY <1>1 DEF Typed, TypeOK
  <2>3. QED
    BY <1>1, <2>1, <2>2 DEF SaveProgress, RowsBehind, Behind
<1>4. QED
  BY <1>1, <1>2, <1>3, ExitBehind, FrameService, Assemble DEF mainOwned

(* The server's answer to the range: the one step that needs RangesHonoured. *)
LEMMA ConnectBehind ==
    ASSUME ServiceInv, RangesHonoured, NEW w \in Workers, Connect(w) PROVE ServiceInv'
<1>1. Typed /\ Typed' /\ UNCHANGED <<pool, looper, saved, have, mainOwned>>
  BY Parts, ConnectTyped DEF Connect
<1>2. UrlsStay /\ BlocksStay
  BY <1>1 DEF UrlsStay, BlocksStay, mainOwned
<1>3. WorkersBehind'
  <2>1. CASE Exit(w)
    BY <1>1, <1>2, <2>1, ExitBehind
  <2>2. CASE worker' = [worker EXCEPT ![w].pc = "read", ![w].last = Length]
    <3>1. PICK th : th = [worker[w] EXCEPT !.pc = "read", !.last = Length]
      OBVIOUS
    <3>2. /\ worker[w] \in Thread /\ KnownUrl(worker[w].task) /\ ThreadBehind(worker[w])
          /\ worker \in [Workers -> Thread \cup {Idle}]
      BY <1>1, AtTyped, AtBehind DEF Connect, At, Typed, TypeOK
    <3>3. th \in Thread /\ KnownUrl(th.task) /\ ThreadBehind(th)
      BY <3>1, <3>2, LengthAssumption DEF Thread, ThreadBehind
    <3>4. worker' = [worker EXCEPT ![w] = th]
      BY <2>2, <3>1, <3>2
    <3>5. QED
      BY <1>1, <1>2, <3>3, <3>4, Stays, ThreadStepBehind
  <2>3. QED
    BY <2>1, <2>2 DEF Connect, RangesHonoured
<1>4. QED
  BY <1>1, <1>2, <1>3, FrameService, Assemble DEF mainOwned

(* A notification is true when the file has every block up to its progress. *)
LEMMA NotifyTrue ==
    ASSUME NEW queue \in Seq(Message \cup {BindSuc}), MessagesTrue(queue)',
           NEW t \in TaskInfos, NEW n \in Nat, Says100(n) => Said100(urlOf[t])'
    PROVE  MessagesTrue(Notify(queue, t, n))'
<1> DEFINE m == [what |-> "MSG_DOWNLOADING", task |-> t]
<1>1. m \in Message \cup {BindSuc} /\ m.task = t
  BY DEF Message
<1>2. CASE Says100(n)
  <2>1. Notify(queue, t, n) = Append(queue, m)
    BY <1>2 DEF Notify
  <2> HIDE DEF m
  <2>2. \A i \in DOMAIN Append(queue, m) :
            \/ i \in DOMAIN queue /\ Append(queue, m)[i] = queue[i]
            \/ Append(queue, m)[i] = m
    BY <1>1, AppendElements
  <2>3. QED
    BY <1>1, <1>2, <2>1, <2>2 DEF MessagesTrue, Said100, Behind
<1>3. CASE ~Says100(n)
  BY <1>3 DEF Notify, MessagesTrue, Said100, Behind
<1>4. QED
  BY <1>2, <1>3

LEMMA LooperStays ==
    ASSUME ServiceInv, Typed', UrlsStay, BlocksStay, NEW queue, queue = looper
    PROVE  MessagesTrue(queue)'
  BY MessagesStay DEF MessagesTrue, Said100, Behind

(* Blocks that say 100 and are on the disk are what Said100 asks for; those   *)
(* that a full reply has counted beyond the end add nothing.                  *)
LEMMA BehindSays ==
    ASSUME NEW u \in Urls, NEW n \in Nat, Behind(u, n), Says100(n)
    PROVE  Said100(u)
<1>1. CASE n <= Length
  BY <1>1, LengthAssumption DEF Said100
<1>2. CASE n > Length
  <2>1. Says100(Length)
    BY LengthAssumption DEF Says100
  <2>2. Behind(u, Length)
    BY <1>2, LengthAssumption DEF Behind, Blocks
  <2>3. QED
    BY <2>1, <2>2, LengthAssumption DEF Said100
<1>3. QED
  BY <1>1, <1>2, LengthAssumption

LEMMA EndOfStreamBehind ==
    ASSUME ServiceInv, NEW w \in Workers, EndOfStream(w) PROVE ServiceInv'
<1>1. Typed /\ Typed' /\ UNCHANGED <<pool, saved, have, mainOwned>> /\ Exit(w)
  BY Parts, EndOfStreamTyped DEF EndOfStream
<1>2. UrlsStay /\ BlocksStay
  BY <1>1 DEF UrlsStay, BlocksStay, mainOwned
<1>3. PICK t, n, queue : t = worker[w].task /\ n = worker[w].finished /\ queue = looper
  OBVIOUS
<1>4. t \in TaskInfos /\ KnownUrl(t) /\ n \in Nat /\ Behind(urlOf[t], n)
  BY <1>1, <1>3, AtTyped, AtBehind DEF EndOfStream, At, Thread, ThreadBehind
<1>5. Says100(n) => Said100(urlOf[t])'
  BY <1>1, <1>2, <1>4, BehindSays, Stays DEF KnownUrl
<1>6. queue \in Seq(Message \cup {BindSuc}) /\ MessagesTrue(queue)'
  BY <1>1, <1>2, <1>3, LooperStays DEF Typed, TypeOK
<1>7. MessagesTrue(Notify(queue, t, n))' /\ looper' = Notify(queue, t, n)
  BY <1>3, <1>4, <1>5, <1>6, NotifyTrue DEF EndOfStream
<1>8. MessagesTrue(looper)'
  BY <1>7 DEF MessagesTrue
<1>9. QED
  BY <1>1, <1>2, <1>8, ExitBehind, FrameService, Assemble DEF mainOwned

(* A block is written before the progress moves over it. *)
LEMMA ReadBehind == ASSUME ServiceInv, NEW w \in Workers, Read(w) PROVE ServiceInv'
<1>1. /\ Typed /\ Typed' /\ UNCHANGED <<pool, saved, mainOwned>>
      /\ At(w, "read") /\ worker[w].finished < worker[w].last
  BY Parts, ReadTyped DEF Read
<1>2. PICK t, k, u, n, queue : /\ t = worker[w].task /\ u = urlOf[t]
                               /\ k = worker[w].finished /\ n = k + 1
                               /\ queue = looper
  OBVIOUS
<1>3. /\ worker[w] \in Thread /\ t \in TaskInfos /\ u \in Urls /\ k \in Nat /\ n \in Nat
      /\ Behind(u, k) /\ worker[w].last = Length /\ n \in Blocks
  <2>1. worker[w] \in Thread /\ t \in TaskInfos /\ u \in Urls /\ ThreadBehind(worker[w])
    BY <1>1, <1>2, AtTyped, AtBehind DEF At, KnownUrl
  <2>2. k \in Nat /\ n \in Nat /\ Behind(u, k) /\ worker[w].last = Length
    BY <1>1, <1>2, <2>1 DEF Thread, ThreadBehind, At
  <2>3. QED
    BY <1>1, <1>2, <2>1, <2>2, LengthAssumption DEF Blocks
<1>4. have \in [Urls -> SUBSET Blocks] /\ have' = [have EXCEPT ![u] = @ \cup {n}]
  BY <1>1, <1>2, <1>3 DEF Read, Typed, TypeOK
<1>5. UrlsStay /\ BlocksStay
  BY <1>1, <1>3, <1>4 DEF UrlsStay, BlocksStay, mainOwned
<1>6. Behind(u, n)'
  BY <1>2, <1>3, <1>4 DEF Behind, Blocks
<1>7. Says100(n) => Said100(u)'
  BY <1>3, <1>6 DEF Said100, Blocks
<1>8. u = urlOf'[t] /\ UNCHANGED <<urlOf, finishedCalls>>
  BY <1>1, <1>2 DEF mainOwned
<1>9. PICK periodic \in BOOLEAN, paused \in BOOLEAN :
          LET q == IF periodic THEN Notify(looper, t, n) ELSE looper IN
          /\ looper' = IF paused THEN Notify(q, t, n) ELSE q
          /\ worker' = [worker EXCEPT ![w].finished = n,
                                      ![w].pc = IF paused THEN "save" ELSE "read"]
  BY <1>2 DEF Read, Seen
<1>10. WorkersBehind'
  <2>1. PICK th : th = [worker[w] EXCEPT !.finished = n,
                                         !.pc = IF paused THEN "save" ELSE "read"]
    OBVIOUS
  <2>2. th.task = t /\ th.finished = n /\ th.last = Length
    BY <1>2, <1>3, <2>1 DEF Thread
  <2>3. worker' = [worker EXCEPT ![w] = th]
    BY <1>1, <1>9, <2>1 DEF Typed, TypeOK
  <2>4. ThreadBehind(th)'
    BY <1>6, <1>8, <2>2 DEF ThreadBehind, Behind
  <2>5. QED
    BY <1>1, <1>5, <2>3, <2>4, ThreadStepBehind
<1>11. MessagesTrue(looper)'
  <2>1. PICK q : q = IF periodic THEN Notify(queue, t, n) ELSE queue
    OBVIOUS
  <2>2. queue \in Seq(Message \cup {BindSuc}) /\ MessagesTrue(queue)' /\ QueueTyped(queue)
    BY <1>1, <1>2, <1>5, LooperStays, LooperQueueTyped DEF Typed, TypeOK
  <2>3. Says100(n) => Said100(urlOf[t])'
    BY <1>7, <1>8 DEF Said100, Behind
  <2>4. q \in Seq(Message \cup {BindSuc}) /\ MessagesTrue(q)'
    <3>1. KnownUrl(t)
      BY <1>2, <1>3 DEF KnownUrl
    <3>2. QueueTyped(Notify(queue, t, n)) /\ MessagesTrue(Notify(queue, t, n))'
      BY <1>3, <2>2, <2>3, <3>1, NotifyTyped, NotifyTrue
    <3>3. QED
      BY <2>1, <2>2, <3>2 DEF QueueTyped, MessagesTrue
  <2>5. MessagesTrue(Notify(q, t, n))'
    BY <1>3, <2>3, <2>4, NotifyTrue
  <2>6. looper' \in {q, Notify(q, t, n)}
    BY <1>2, <1>9, <2>1
  <2>7. QED
    BY <2>4, <2>5, <2>6 DEF MessagesTrue
<1>12. QED
  BY <1>1, <1>5, <1>8, <1>10, <1>11, FrameService, Assemble

(* Every step keeps the strengthened invariant. *)
LEMMA ServiceNext == RangesHonoured /\ ServiceInv /\ [Next]_vars => ServiceInv'
<1> SUFFICES ASSUME RangesHonoured, ServiceInv, [Next]_vars PROVE ServiceInv'
  OBVIOUS
<1>1. CASE HandleMessage
  BY <1>1, HandleInitBehind, HandleDownloadingBehind, OtherMainBehind DEF HandleMessage
<1>2. CASE OnReceive
  BY <1>2, OtherMainBehind
<1>3. ASSUME NEW w \in Workers, WorkerStep(w)
      PROVE  ServiceInv'
  BY <1>3, TakeBehind, InitDoneBehind, ConnectBehind, ReadBehind, SaveProgressBehind,
     EndOfStreamBehind DEF WorkerStep
<1>4. CASE Environment
  BY <1>4, RequestBehind, OtherMainBehind, FailBehind, KillBehind DEF Environment
<1>5. CASE UNCHANGED vars
  <2>1. Typed /\ Typed'
    BY <1>5, TypedNext, Parts
  <2>2. UrlsStay /\ BlocksStay
    BY <1>5 DEF vars, UrlsStay, BlocksStay
  <2>3. QED
    BY <1>5, <2>1, <2>2, FrameService, Assemble DEF vars
<1>6. QED
  BY <1>1, <1>2, <1>3, <1>4, <1>5 DEF Next

(* When the server honours ranges, whatever resumes (a row, a queued or a     *)
(* running thread) starts behind blocks that are on the disk, and a progress  *)
(* of 100 is under way only when the blocks that say 100 are there.           *)
THEOREM ServiceStaysBehind == RangesHonoured => (Spec => []ServiceInv)
<1> SUFFICES ASSUME RangesHonoured PROVE Spec => []ServiceInv
  OBVIOUS
<1>1. Init => ServiceInv
  BY InitService
<1>2. ServiceInv /\ [Next]_vars => ServiceInv'
  BY ServiceNext
<1>3. QED
  BY <1>1, <1>2, PTL DEF Spec

-----------------------------------------------------------------------------
(* What a progress of 100 says about the bytes.                              *)

LEMMA FloatExact ==
    ASSUME NEW x \in Nat, x <= Exact
    PROVE  Float(x, Exact) = x
  BY DEF Float

LEMMA BytesGrow ==
    /\ \A n \in 0..Length : Bytes[n] \in Nat /\ Bytes[n] <= 2147483647
    /\ \A n \in Nat : n < Length => n \in 0..Length /\ Bytes[n] < Bytes[Length]
    /\ Length \in 0..Length
  BY BytesAssumption, LengthAssumption, SMT

(* Up to 2^24 bytes it says that all of them are there. *)
LEMMA SmallIsExact ==
    ASSUME SmallFile, NEW n \in Nat
    PROVE  Says100(n) <=> n >= Length
<1>1. ASSUME n < Length PROVE ~Says100(n)
  <2>1. PICK a, b : a = Bytes[n] /\ b = Bytes[Length]
    BY SMT
  <2>2. a \in Nat /\ b \in Nat /\ a < b /\ b <= Exact /\ a <= Exact
    BY <1>1, <2>1, BytesGrow, SMT DEF SmallFile, Exact
  <2>3. Float(a, Exact) = a /\ Float(b, Exact) = b
    BY <2>2, FloatExact
  <2>4. QED
    BY <1>1, <2>1, <2>2, <2>3, LengthAssumption DEF Says100
<1>2. QED
  BY <1>1, LengthAssumption DEF Says100

Gaps == {2, 4, 8, 16, 32, 64, 128}

(* A number is rounded by half the gap between two floats at most, and that   *)
(* gap is less than a part in 2^23 of the number.                             *)
LEMMA NearestNear ==
    ASSUME NEW x \in Nat, NEW g \in Gaps
    PROVE  /\ Nearest(x, g) * g \in Nat
           /\ 2 * (Nearest(x, g) * g) <= 2 * x + g
           /\ 2 * (Nearest(x, g) * g) >= 2 * x - g
<1>1. PICK q, r : q = x \div g /\ r = x % g
  OBVIOUS
<1>2. Nearest(x, g) \in {q, q + 1} /\ (Nearest(x, g) = q => 2 * r <= g)
      /\ (Nearest(x, g) = q + 1 => 2 * r >= g)
  <2>1. q \in Nat /\ r \in Nat
    BY <1>1 DEF Gaps
  <2>2. QED
    BY <1>1, <2>1 DEF Nearest, Gaps
<1>3. CASE g = 2
  BY <1>1, <1>2, <1>3
<1>4. CASE g = 4
  BY <1>1, <1>2, <1>4
<1>5. CASE g = 8
  BY <1>1, <1>2, <1>5
<1>6. CASE g = 16
  BY <1>1, <1>2, <1>6
<1>7. CASE g = 32
  BY <1>1, <1>2, <1>7
<1>8. CASE g = 64
  BY <1>1, <1>2, <1>8
<1>9. CASE g = 128
  BY <1>1, <1>2, <1>9
<1>10. QED
  BY <1>3, <1>4, <1>5, <1>6, <1>7, <1>8, <1>9 DEF Gaps

LEMMA FloatNear ==
    ASSUME NEW x \in Nat, x <= 2147483647, x > Exact
    PROVE  \E g \in Gaps : /\ 8388608 * g <= x /\ x < 16777216 * g
                           /\ Float(x, Exact) \in Nat
                           /\ 2 * Float(x, Exact) <= 2 * x + g
                           /\ 2 * Float(x, Exact) >= 2 * x - g
<1> DEFINE Fits(g) == (x \div g) \in (Exact \div 2)..(Exact - 1)
<1>1. \A g \in Gaps : Fits(g) <=> 8388608 * g <= x /\ x < 16777216 * g
  <2>1. PICK lo, hi : lo = Exact \div 2 /\ hi = Exact - 1
    BY SMT
  <2>2. /\ lo \in Int /\ 2 * lo = 16777216
        /\ hi \in Int /\ hi + 1 = 16777216
    BY <2>1, SMT DEF Exact
  <2>3. \A g \in Gaps : Fits(g) <=> lo <= x \div g /\ x \div g <= hi
    BY <2>1, <2>2, SMT DEF Gaps
  <2>4. QED
    BY <2>2, <2>3, SMT DEF Gaps
<1>2. \E g \in Gaps : 8388608 * g <= x /\ x < 16777216 * g
  BY SMT DEF Gaps, Exact
<1>3. PICK g : g = CHOOSE h \in Gaps : Fits(h)
  BY SMT
<1>4. g \in Gaps /\ Fits(g)
  BY <1>1, <1>2, <1>3, SMT
<1>5. Float(x, Exact) = Nearest(x, g) * g
  <2>1. ~(x <= Exact)
    BY SMT DEF Exact
  <2>2. QED
    BY <1>3, <2>1, SMT DEF Float, Gaps
<1>6. QED
  BY <1>1, <1>4, <1>5, NearestNear, SMT

(* Whatever the size, it says that not more than one byte in 2^23 is missing. *)
LEMMA SaysNearlyAll ==
    ASSUME NEW n \in 0..Length, Says100(n)
    PROVE  Lacking(n) <= Bytes[Length] \div 8388608
<1>1. PICK a, b : a = Bytes[n] /\ b = Bytes[Length]
  BY SMT
<1>2. /\ a \in Nat /\ a <= 2147483647
      /\ b \in Nat /\ b <= 2147483647
  BY <1>1, BytesGrow, SMT
<1>3. CASE n = Length
  BY <1>1, <1>2, <1>3, SMT DEF Lacking
<1>4. CASE n < Length
  <2>1. a < b /\ Float(a, Exact) >= Float(b, Exact)
    BY <1>1, <1>4, BytesGrow, LengthAssumption, SMT DEF Says100
  <2>2. b > Exact
    <3>1. SUFFICES ASSUME b <= Exact PROVE FALSE
      BY <1>2, SMT DEF Exact
    <3>2. a \in Nat /\ b \in Nat /\ a <= Exact
      BY <1>2, <2>1, <3>1, SMT DEF Exact
    <3>3. QED
      BY <2>1, <3>1, <3>2, FloatExact, SMT
  <2>3. PICK g \in Gaps : /\ 8388608 * g <= b /\ b < 16777216 * g
                          /\ Float(b, Exact) \in Nat
                          /\ 2 * Float(b, Exact) >= 2 * b - g
    BY <1>2, <2>2, FloatNear, SMT
  <2>4. b - a <= g
    <3>1. CASE a <= Exact
      <4>1. a \in Nat /\ Float(a, Exact) = a
        BY <1>2, <3>1, FloatExact, SMT
      <4>2. QED
        BY <1>2, <2>1, <2>3, <4>1, SMT DEF Gaps
    <3>2. CASE a > Exact
      <4>1. PICK h \in Gaps : /\ 8388608 * h <= a /\ Float(a, Exact) \in Nat
                              /\ 2 * Float(a, Exact) <= 2 * a + h
        BY <1>2, <3>2, FloatNear, SMT
      <4>2. h <= g
        BY <1>2, <2>1, <2>3, <4>1, SMT DEF Gaps
      <4>3. QED
        BY <1>2, <2>1, <2>3, <4>1, <4>2, SMT DEF Gaps
    <3>3. QED
      BY <1>2, <3>1, <3>2, SMT DEF Exact
  <2>5. g <= b \div 8388608
    BY <1>2, <2>3, SMT DEF Gaps
  <2>6. QED
    BY <1>1, <1>2, <2>4, <2>5, SMT DEF Lacking, Gaps
<1>5. QED
  BY <1>3, <1>4, LengthAssumption, SMT

LEMMA SmallIsWhole ==
    ASSUME SmallFile, Typed, NEW u \in Urls, Said100(u)
    PROVE  Whole(u)
<1>1. PICK n \in 0..Length : Says100(n) /\ Behind(u, n)
  BY DEF Said100
<1>2. n >= Length
  BY <1>1, SmallIsExact, LengthAssumption
<1>3. \A b \in Blocks : b <= n
  BY <1>2, LengthAssumption DEF Blocks
<1>4. have[u] \subseteq Blocks
  BY DEF Typed, TypeOK
<1>5. QED
  BY <1>1, <1>3, <1>4 DEF Behind, Whole

(* When the server honours ranges, a file of any size that is told finished   *)
(* is on the disk but for one byte in 2^23 at its end: failures, pauses,      *)
(* restarts that race the thread they replace, duplicate tasks of a url and   *)
(* any number of kills leave no hole in it, and the float division of         *)
(* notifyProgress runs ahead of the file by no more than that.                *)
THEOREM FinishedFilesAreThere == RangesHonoured => (Spec => []FinishedFileIsThere)
<1> SUFFICES ASSUME RangesHonoured PROVE Spec => []FinishedFileIsThere
  BY SMT
<1>1. ServiceInv => FinishedFileIsThere
  <2>1. \A u : Said100(u) => \E n \in 0..Length :
                /\ Lacking(n) <= Bytes[Length] \div 8388608
                /\ Behind(u, n)
    BY SaysNearlyAll, SMT DEF Said100
  <2>2. QED
    BY <2>1, SMT DEF ServiceInv, ToldWhenSaid, FinishedFileIsThere
<1>2. Spec => []ServiceInv
  BY ServiceStaysBehind
<1>3. QED
  BY <1>1, <1>2, PTL

(* When the server honours ranges and the file has at most 2^24 bytes,        *)
(* onDownloadFinished is called only for a file that is on the disk in full.  *)
(* Beyond that size the float division of notifyProgress tells it too early.  *)
THEOREM FinishedFilesAreWhole ==
    RangesHonoured /\ SmallFile => (Spec => []FinishedFileIsWhole)
<1> SUFFICES ASSUME RangesHonoured, SmallFile PROVE Spec => []FinishedFileIsWhole
  OBVIOUS
<1>1. ServiceInv => FinishedFileIsWhole
  BY SmallIsWhole, Parts DEF ServiceInv, ToldWhenSaid, FinishedFileIsWhole, KnownUrl
<1>2. Spec => []ServiceInv
  BY ServiceStaysBehind
<1>3. QED
  BY <1>1, <1>2, PTL

-----------------------------------------------------------------------------
(* Refinement: what the service does is what Downloads promises.             *)

LEMMA RequestAsks ==
    ASSUME NEW t \in TaskInfos, NEW u \in Urls, Request(t, u)
    PROVE  Promise!Ask(t, u)
<1>1. UNCHANGED <<have, finishedCalls>>
  BY DEF Request, Download
<1>2. QED
  BY <1>1 DEF Request, Promise!Ask, Whole

LEMMA HandleDownloadingTells ==
    ASSUME SmallFile, ServiceInv, HandleDownloading
    PROVE  \E t \in TaskInfos : Promise!TellFinished(t)
<1> DEFINE t == Head(looper).task
<1>1. Typed /\ MessagesTrue(looper) /\ UNCHANGED <<urlOf, have>>
  BY Parts DEF HandleDownloading
<1>2. t \in TaskInfos /\ KnownUrl(t) /\ 1 \in DOMAIN looper /\ looper[1] = Head(looper)
  BY <1>1, ReceiveTyped DEF HandleDownloading
<1>3. Whole(urlOf[t])
  <2>1. Said100(urlOf[t])
    BY <1>1, <1>2 DEF MessagesTrue, HandleDownloading, Received
  <2>2. QED
    BY <1>1, <1>2, <2>1, SmallIsWhole DEF KnownUrl
<1>4. Promise!TellFinished(t)
  BY <1>1, <1>2, <1>3 DEF Promise!TellFinished, HandleDownloading, KnownUrl, Whole
<1>5. QED
  BY <1>2, <1>4

LEMMA ReadFills ==
    ASSUME ServiceInv, NEW w \in Workers, Read(w)
    PROVE  \/ \E u \in Urls : Promise!BecomeWhole(u)
           \/ UNCHANGED Promise!abstractVars
<1>0. PICK u : u = urlOf[worker[w].task]
  OBVIOUS
<1>1. Typed /\ UNCHANGED <<urlOf, finishedCalls>> /\ u \in Urls /\ worker[w].last = Length
  BY <1>0, Parts, AtTyped, AtBehind DEF Read, At, mainOwned, KnownUrl, ThreadBehind
<1>2. have \in [Urls -> SUBSET Blocks]
      /\ have' = [have EXCEPT ![u] = @ \cup {worker[w].finished + 1}]
  BY <1>0, <1>1 DEF Read, Typed, TypeOK
<1>3. Typed'
  BY <1>1, ReadTyped
<1>4. have'[u] \in SUBSET Blocks
  BY <1>1, <1>3 DEF Typed, TypeOK
<1>5. \A x \in Urls : x # u => (Whole(x)' <=> Whole(x))
  BY <1>1, <1>2 DEF Whole
<1>6. Whole(u) => Whole(u)'
  <2>1. have'[u] = have[u] \cup {worker[w].finished + 1}
    BY <1>1, <1>2
  <2>2. QED
    BY <1>1, <1>4, <2>1 DEF Whole
<1>7. CASE Whole(u)' /\ ~Whole(u)
  <2>1. {x \in Urls : Whole(x)}' = {x \in Urls : Whole(x)} \cup {u}
    BY <1>1, <1>5, <1>7 DEF Whole
  <2>2. Promise!BecomeWhole(u)
    BY <1>1, <2>1 DEF Promise!BecomeWhole
  <2>3. QED
    BY <1>1, <2>2
<1>8. CASE Whole(u)' <=> Whole(u)
  <2>1. {x \in Urls : Whole(x)}' = {x \in Urls : Whole(x)}
    BY <1>1, <1>5, <1>8 DEF Whole
  <2>2. QED
    BY <1>1, <2>1 DEF Promise!abstractVars
<1>9. QED
  BY <1>6, <1>7, <1>8

LEMMA OtherStepsStutter ==
    ASSUME UNCHANGED <<urlOf, have, finishedCalls>>
    PROVE  UNCHANGED Promise!abstractVars
  BY DEF Promise!abstractVars, Whole

LEMMA StepRefines ==
    RangesHonoured /\ SmallFile /\ ServiceInv /\ [Next]_vars
        => [Promise!Next]_(Promise!abstractVars)
<1> SUFFICES ASSUME RangesHonoured, SmallFile, ServiceInv, [Next]_vars
             PROVE  Promise!Next \/ UNCHANGED Promise!abstractVars
  OBVIOUS
<1>1. CASE HandleMessage
  <2>1. CASE HandleDownloading
    BY <2>1, HandleDownloadingTells DEF Promise!Next
  <2>2. CASE HandleInit \/ HandleFinished
    BY <2>2, OtherStepsStutter DEF HandleInit, HandleFinished
  <2>3. QED
    BY <1>1, <2>1, <2>2 DEF HandleMessage
<1>2. CASE OnReceive
  BY <1>2, OtherStepsStutter DEF OnReceive
<1>3. ASSUME NEW w \in Workers, WorkerStep(w)
      PROVE  Promise!Next \/ UNCHANGED Promise!abstractVars
  <2>1. CASE Read(w)
    BY <2>1, ReadFills DEF Promise!Next
  <2>2. CASE Take(w) \/ InitDone(w) \/ Connect(w) \/ SaveProgress(w) \/ EndOfStream(w)
    BY <2>2, OtherStepsStutter
       DEF Take, InitDone, Connect, SaveProgress, EndOfStream, mainOwned
  <2>3. QED
    BY <1>3, <2>1, <2>2 DEF WorkerStep
<1>4. CASE Environment
  <2>1. ASSUME NEW t \in TaskInfos, NEW u \in Urls, Request(t, u)
        PROVE  Promise!Next
    BY <2>1, RequestAsks DEF Promise!Next
  <2>2. CASE OnLowMemory \/ Kill \/ \E u \in Urls : Pause(u)
    BY <2>2, OtherStepsStutter DEF OnLowMemory, Kill, Pause
  <2>3. CASE \E w \in Workers : Fail(w)
    BY <2>3, OtherStepsStutter DEF Fail, mainOwned
  <2>4. QED
    BY <1>4, <2>1, <2>2, <2>3 DEF Environment
<1>5. CASE UNCHANGED vars
  BY <1>5, OtherStepsStutter DEF vars
<1>6. QED
  BY <1>1, <1>2, <1>3, <1>4, <1>5 DEF Next

LEMMA InitRefines == Init => Promise!Init
<1> SUFFICES ASSUME Init PROVE Promise!Init
  OBVIOUS
<1>1. \A u \in Urls : ~Whole(u)
  BY LengthAssumption DEF Init, Whole, Blocks
<1>2. QED
  BY <1>1 DEF Init, Promise!Init

(* When the server honours ranges and the file has at most 2^24 bytes, the    *)
(* service with its threads, messages and table implements Downloads:         *)
(* requests are told "finished" only for whole files, and a file once whole   *)
(* stays so, whatever the threads of later requests and restarts write into   *)
(* it.                                                                        *)
THEOREM ServiceKeepsPromise == RangesHonoured /\ SmallFile => (Spec => KeepsPromise)
<1> SUFFICES ASSUME RangesHonoured, SmallFile PROVE Spec => KeepsPromise
  OBVIOUS
<1>1. Init => ServiceInv /\ Promise!Init
  BY InitService, InitRefines
<1>2. ServiceInv /\ [Next]_vars => ServiceInv'
  BY ServiceNext
<1>3. ServiceInv /\ [Next]_vars => [Promise!Next]_(Promise!abstractVars)
  BY StepRefines
<1>4. QED
  BY <1>1, <1>2, <1>3, PTL DEF Spec, KeepsPromise, Promise!Spec

=============================================================================
