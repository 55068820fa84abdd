------------------------ MODULE DownloadManager_proofs ------------------------
(***************************************************************************)
(* What holds of the download manager and the service it binds, for every  *)
(* set of requests, urls and threads and any number of kills.              *)
(***************************************************************************)
EXTENDS DownloadManager, DownloadService_proofs

-----------------------------------------------------------------------------
(* Types.  The handlers and threads of the service keep theirs, as proved in *)
(* DownloadService_proofs; what waits in the manager's list has a url, so it *)
(* can be handed on.                                                         *)
ManagerTyped ==
    /\ Typed
    /\ bound \in BOOLEAN
    /\ connections \in Nat
    /\ waiting \in Seq(TaskInfos)
    /\ \A i \in DOMAIN waiting : KnownUrl(waiting[i])
    /\ permits \in {0, 1}
    /\ mainThread \in {"idle", "draining", "blocked"}
    /\ mainThread = "draining" => permits = 0

LEMMA WaitingElements ==
    ASSUME ManagerTyped
    PROVE  \A i \in DOMAIN waiting : waiting[i] \in TaskInfos /\ KnownUrl(waiting[i])
<1>1. waiting \in Seq(TaskInfos)
  BY DEF ManagerTyped
<1>2. QED
  BY <1>1 DEF ManagerTyped

(* A step that gives urls only to tasks without one. *)
LEMMA OnlyUrlsTyped ==
    ASSUME Typed, UrlsStay, urlOf' \in [TaskInfos -> Urls \cup {NoUrl}],
           UNCHANGED <<taskList, isPause, pool, worker, looper, broadcasts, saved, have,
                       finishedCalls, kills>>
    PROVE  Typed'
<1>1. TypeOK'
  BY DEF Typed, TypeOK
<1>2. \A t \in TaskInfos : KnownUrl(t) => KnownUrl(t)'
  BY DEF UrlsStay, KnownUrl
<1>3. UrlsKnown'
  BY <1>2, TypedElements DEF UrlsKnown, KnownUrl
<1>4. QED
  BY <1>1, <1>3 DEF Typed

LEMMA StartDownloadTyped ==
    ASSUME ManagerTyped, NEW t \in TaskInfos, NEW u \in Urls, StartDownload(t, u)
    PROVE  ManagerTyped'
<1>1. Typed /\ urlOf \in [TaskInfos -> Urls \cup {NoUrl}] /\ urlOf[t] = NoUrl
      /\ waiting \in Seq(TaskInfos) /\ mainThread = "idle"
  BY DEF ManagerTyped, Typed, TypeOK, StartDownload
<1>2. CASE urlOf' = [urlOf EXCEPT ![t] = u]
  <2>1. urlOf' \in [TaskInfos -> Urls \cup {NoUrl}] /\ urlOf'[t] = u /\ UrlsStay
    BY <1>1, <1>2, NoUrlAssumption DEF UrlsStay, KnownUrl
  <2>2. \A i \in DOMAIN waiting : urlOf'[waiting[i]] \in Urls
    BY <2>1, WaitingElements DEF UrlsStay, KnownUrl
  <2>3. CASE StartDownloadBound(t, u)
    <3>1. Typed'
      BY <1>1, <2>1, <2>3, DownloadTyped DEF StartDownloadBound
    <3>2. QED
      BY <2>2, <2>3, <3>1 DEF StartDownloadBound, ManagerTyped, managerOwned, KnownUrl
  <2>4. CASE StartDownloadUnbound(t, u)
    <3>1. Typed'
      BY <1>1, <2>1, <2>4, OnlyUrlsTyped DEF StartDownloadUnbound
    <3>2. waiting' \in {waiting, Append(waiting, t)} /\ connections' = connections + 1
          /\ bound' = bound /\ permits' \in {0, permits} /\ mainThread' \in {"idle", "blocked"}
      BY <1>1, <2>4 DEF StartDownloadUnbound
    <3>3. waiting' \in Seq(TaskInfos) /\ \A i \in DOMAIN waiting' : urlOf'[waiting'[i]] \in Urls
      BY <1>1, <2>1, <2>2, <3>2, AppendElements
    <3>4. QED
      BY <3>1, <3>2, <3>3 DEF ManagerTyped, KnownUrl
  <2>5. QED
    BY <2>3, <2>4 DEF StartDownload
<1>3. CASE UNCHANGED urlOf /\ StartDownloadUnbound(t, u) /\ UNCHANGED waiting
  <2>1. Typed'
    BY <1>1, <1>3, OnlyUrlsTyped DEF StartDownloadUnbound, UrlsStay
  <2>2. connections' = connections + 1 /\ bound' = bound /\ permits' \in {0, permits}
        /\ mainThread' \in {"idle", "blocked"}
    BY <1>1, <1>3 DEF StartDownloadUnbound
  <2>3. QED
    BY <1>3, <2>1, <2>2 DEF ManagerTyped, KnownUrl
<1>4. QED
  BY <1>2, <1>3 DEF StartDownload, StartDownloadBound, StartDownloadUnbound

LEMMA OnServiceConnectedTyped ==
    ASSUME ManagerTyped, OnServiceConnected PROVE ManagerTyped'
<1>1. LooperTyped'
  <2>1. looper \in Seq(Message \cup {BindSuc}) /\ looper' = Append(looper, BindSuc)
        /\ Typed /\ UNCHANGED urlOf
    BY DEF ManagerTyped, Typed, TypeOK, OnServiceConnected
  <2>2. /\ looper' \in Seq(Message \cup {BindSuc})
        /\ \A i \in DOMAIN looper' :
              \/ i \in DOMAIN looper /\ looper'[i] = looper[i]
              \/ looper'[i] = BindSuc
    BY <2>1, AppendElements
  <2>3. QED
    BY <2>1, <2>2, TypedElements DEF LooperTyped, KnownUrl
<1>2. Typed'
  BY <1>1 DEF ManagerTyped, OnServiceConnected, Typed, TypeOK, UrlsKnown, LooperTyped, KnownUrl
<1>3. bound' \in BOOLEAN /\ connections' \in Nat
  BY DEF ManagerTyped, OnServiceConnected
<1>4. QED
  BY <1>2, <1>3 DEF ManagerTyped, OnServiceConnected, KnownUrl

LEMMA HandleBindSucTyped == ASSUME ManagerTyped, HandleBindSuc PROVE ManagerTyped'
<1>1. LooperTyped'
  <2>1. looper \in Seq(Message \cup {BindSuc}) /\ looper # <<>> /\ looper' = Tail(looper)
        /\ Typed /\ UNCHANGED urlOf
    BY DEF ManagerTyped, Typed, TypeOK, HandleBindSuc, Received
  <2>2. QED
    BY <2>1, TailElements, TypedElements DEF LooperTyped, KnownUrl
<1>2. Typed'
  BY <1>1 DEF ManagerTyped, HandleBindSuc, Typed, TypeOK, UrlsKnown, LooperTyped, KnownUrl
<1>3. permits' \in {0, 1} /\ mainThread' \in {"draining", "blocked"}
      /\ (mainThread' = "draining" => permits' = 0)
  BY DEF ManagerTyped, HandleBindSuc
<1>4. QED
  BY <1>2, <1>3 DEF ManagerTyped, HandleBindSuc, KnownUrl

LEMMA FrontElements ==
    ASSUME NEW S, NEW s \in Seq(S), s # <<>>
    PROVE  /\ Front(s) \in Seq(S)
           /\ \A i \in DOMAIN Front(s) : i \in DOMAIN s /\ Front(s)[i] = s[i]
           /\ Len(s) \in DOMAIN s /\ Last(s) = s[Len(s)]
<1>1. PICK n : n = Len(s) - 1
  OBVIOUS
<1>2. n \in Nat /\ 1 \in Int /\ n - 1 + 1 = n /\ DOMAIN s = 1..(n + 1) /\ Len(s) = n + 1
  BY <1>1
<1>3. \A i \in 1..n : i \in DOMAIN s /\ s[i] \in S
  BY <1>2
<1>4. /\ SubSeq(s, 1, n) \in Seq(S)
      /\ Len(SubSeq(s, 1, n)) = n
      /\ \A i \in 1..n : SubSeq(s, 1, n)[i] = s[i]
  BY <1>2, <1>3, SubSeqProperties
<1>5. Front(s) = SubSeq(s, 1, n) /\ Last(s) = s[Len(s)]
  BY <1>1 DEF Front, Last
<1>6. QED
  BY <1>2, <1>3, <1>4, <1>5

LEMMA HandOverTyped == ASSUME ManagerTyped, HandOver PROVE ManagerTyped'
<1>1. /\ waiting \in Seq(TaskInfos) /\ waiting # <<>> /\ waiting' = Front(waiting)
      /\ Typed /\ UNCHANGED <<bound, connections, permits, mainThread, urlOf>>
  BY DEF ManagerTyped, HandOver
<1>2. PICK t : t = Last(waiting)
  OBVIOUS
<1>3. t \in TaskInfos /\ KnownUrl(t)
  BY <1>1, <1>2, FrontElements, WaitingElements
<1>4. Typed'
  BY <1>1, <1>2, <1>3, DownloadTyped DEF HandOver, UrlsStay, KnownUrl, Typed, TypeOK
<1>5. waiting' \in Seq(TaskInfos) /\ \A i \in DOMAIN waiting' : KnownUrl(waiting'[i])
  BY <1>1, FrontElements, WaitingElements
<1>6. QED
  BY <1>1, <1>4, <1>5 DEF ManagerTyped, KnownUrl

LEMMA ReleaseTyped == ASSUME ManagerTyped, Release PROVE ManagerTyped'
<1>1. Typed'
  BY DEF ManagerTyped, Release, vars, Typed, TypeOK, UrlsKnown, KnownUrl
<1>2. permits' = 1 /\ mainThread' = "idle"
  BY DEF ManagerTyped, Release
<1>3. QED
  BY <1>1, <1>2 DEF ManagerTyped, Release, vars, KnownUrl

(* What the list holds has a url; the empty list does. *)
ListTyped == waiting \in Seq(TaskInfos) /\ \A i \in DOMAIN waiting : KnownUrl(waiting[i])

LEMMA EmptyList == waiting = <<>> => ListTyped
  BY DEF ListTyped

LEMMA ManagerKillTyped == ASSUME ManagerTyped, ManagerKill PROVE ManagerTyped'
<1>1. urlOf' \in [TaskInfos -> Urls \cup {NoUrl}]
  BY DEF ManagerTyped, Typed, TypeOK, ManagerKill
<1>2. Typed'
  BY <1>1 DEF ManagerTyped, ManagerKill, ClearProcess, Typed, TypeOK, UrlsKnown
<1>3. waiting' = <<>>
  BY DEF ManagerKill
<1>4. ListTyped'
  BY <1>3 DEF ListTyped
<1>5. bound' \in BOOLEAN /\ connections' \in Nat /\ permits' \in {0, 1} /\ mainThread' = "idle"
  BY DEF ManagerKill
<1>6. QED
  BY <1>2, <1>4, <1>5 DEF ManagerTyped, ListTyped

(* A step of the service leaves the manager's own state alone. *)
LEMMA ServiceStepTyped ==
    ASSUME ManagerTyped, UNCHANGED managerOwned, UNCHANGED urlOf, Typed'
    PROVE  ManagerTyped'
  BY DEF ManagerTyped, managerOwned, KnownUrl

LEMMA ManagerTypedInit == ManagerInit => ManagerTyped
<1> SUFFICES ASSUME ManagerInit PROVE ManagerTyped
  OBVIOUS
<1>1. Typed
  BY InitTyped DEF ManagerInit
<1>2. ListTyped
  BY EmptyList DEF ManagerInit
<1>3. bound \in BOOLEAN /\ connections \in Nat /\ permits \in {0, 1} /\ mainThread = "idle"
  BY DEF ManagerInit
<1>4. QED
  BY <1>1, <1>2, <1>3 DEF ManagerTyped, ListTyped

(* The steps of the handlers and the threads of the service. *)
LEMMA ServiceMainTyped == ASSUME ManagerTyped, ServiceMainStep PROVE ManagerTyped'
<1>1. Typed /\ UNCHANGED managerOwned /\ UNCHANGED urlOf
  BY DEF ManagerTyped, ServiceMainStep, HandleMessage, HandleInit, HandleDownloading,
         HandleFinished, OnReceive
<1>2. Typed'
  BY <1>1, HandleInitTyped, HandleDownloadingTyped, HandleFinishedTyped, OnReceiveTyped
     DEF ServiceMainStep, HandleMessage
<1>3. QED
  BY <1>1, <1>2, ServiceStepTyped

LEMMA ThreadTyped ==
    ASSUME ManagerTyped, NEW w \in Workers, WorkerStep(w) \/ Fail(w), UNCHANGED managerOwned
    PROVE  ManagerTyped'
<1>1. Typed
  BY DEF ManagerTyped
<1>2. Typed'
  BY <1>1, TakeTyped, InitDoneTyped, ConnectTyped, ReadTyped, SaveProgressTyped,
     EndOfStreamTyped, FailTyped DEF WorkerStep
<1>3. UNCHANGED mainOwned
  BY DEF WorkerStep, Take, InitDone, Connect, Read, SaveProgress, EndOfStream, Fail
<1>4. UNCHANGED urlOf
  BY <1>3 DEF mainOwned
<1>5. QED
  BY <1>2, <1>4, ServiceStepTyped

LEMMA ManagerPauseTyped ==
    ASSUME ManagerTyped, UNCHANGED managerOwned, OnLowMemory \/ \E u \in Urls : Pause(u)
    PROVE  ManagerTyped'
<1>1. Typed' /\ UNCHANGED urlOf
  BY PauseTyped DEF ManagerTyped, OnLowMemory, Pause
<1>2. QED
  BY <1>1, ServiceStepTyped

LEMMA ManagerTypedNext == ManagerTyped /\ [ManagerNext]_allVars => ManagerTyped'
<1> SUFFICES ASSUME ManagerTyped, [ManagerNext]_allVars PROVE ManagerTyped'
  OBVIOUS
<1>1. CASE ManagerStep
  BY <1>1, OnServiceConnectedTyped, HandleBindSucTyped, HandOverTyped, ReleaseTyped
     DEF ManagerStep
<1>2. CASE ServiceMainStep
  BY <1>2, ServiceMainTyped
<1>3. CASE \E w \in Workers : WorkerStep(w) /\ UNCHANGED managerOwned
  BY <1>3, ThreadTyped
<1>4. CASE ManagerEnvironment
  <2>1. CASE \E t \in TaskInfos, u \in Urls : StartDownload(t, u)
    BY <2>1, StartDownloadTyped
  <2>2. CASE (\E u \in Urls : PauseDownload(u)) \/ (OnLowMemory /\ UNCHANGED managerOwned)
    BY <2>2, ManagerPauseTyped DEF PauseDownload
  <2>3. CASE \E w \in Workers : Fail(w) /\ UNCHANGED managerOwned
    BY <2>3, ThreadTyped
  <2>4. CASE ManagerKill
    BY <2>4, ManagerKillTyped
  <2>5. QED
    BY <1>4, <2>1, <2>2, <2>3, <2>4 DEF ManagerEnvironment
<1>5. CASE UNCHANGED allVars
  <2>1. UNCHANGED vars /\ UNCHANGED managerOwned
    BY <1>5 DEF allVars
  <2>2. Typed' /\ UNCHANGED urlOf
    BY <2>1, TypedNext DEF ManagerTyped, vars
  <2>3. QED
    BY <2>1, <2>2, ServiceStepTyped
<1>6. QED
  BY <1>1, <1>2, <1>3, <1>4, <1>5 DEF ManagerNext

(* Manager and service keep their types in every interleaving of the main    *)
(* thread's handlers, the threads of the pool, the system and kills.         *)
THEOREM ManagerTypeCorrect == ManagerSpec => []ManagerTypeOK
<1>1. ManagerInit => ManagerTyped
  BY ManagerTypedInit
<1>2. ManagerTyped /\ [ManagerNext]_allVars => ManagerTyped'
  BY ManagerTypedNext
<1>3. ManagerTyped => ManagerTypeOK
  BY DEF ManagerTyped, Typed, ManagerTypeOK
<1>4. QED
  BY <1>1, <1>2, <1>3, PTL DEF ManagerSpec

-----------------------------------------------------------------------------
(* The message of the connection stays in the main thread's queue until      *)
(* MSG_BIND_SUC is handled: whoever else sends puts his message behind it,   *)
(* and every other handler takes another message.                            *)
LEMMA SentStays ==
    ASSUME NEW S, NEW s \in Seq(S), NEW e, NEW m \in S, Contains(s, e)
    PROVE  /\ Contains(Append(s, m), e)
           /\ s # <<>> /\ Head(s) # e => Contains(Tail(s), e)
<1>1. PICK i \in 1..Len(s) : s[i] = e
  BY DEF Contains
<1>2. Contains(Append(s, m), e)
  <2>1. i \in 1..Len(Append(s, m)) /\ Append(s, m)[i] = e
    BY <1>1
  <2>2. QED
    BY <2>1 DEF Contains
<1>3. ASSUME s # <<>>, Head(s) # e PROVE Contains(Tail(s), e)
  <2>1. i # 1
    BY <1>1, <1>3
  <2>2. i - 1 \in 1..Len(Tail(s)) /\ Tail(s)[i - 1] = s[i]
    BY <1>1, <1>3, <2>1
  <2>3. QED
    BY <1>1, <2>2 DEF Contains
<1>4. QED
  BY <1>2, <1>3

LEMMA ServiceKeepsBindSuc ==
    ASSUME ManagerTyped, Contains(looper, BindSuc),
           HandleMessage \/ OnReceive \/ \E w \in Workers : WorkerStep(w) \/ Fail(w)
    PROVE  Contains(looper, BindSuc)'
<1>1. Typed /\ looper \in Seq(Message \cup {BindSuc})
  BY DEF ManagerTyped, Typed, TypeOK
<1>2. \A m \in Message : Contains(Append(looper, m), BindSuc)
  BY <1>1, SentStays
<1>3. CASE HandleMessage
  <2>1. /\ looper' = Tail(looper) /\ looper # <<>>
        /\ Head(looper).what \in {"MSG_INIT", "MSG_DOWNLOADING", "MSG_DOWNLOAD_FINISHED"}
    BY <1>3 DEF HandleMessage, HandleInit, HandleDownloading, HandleFinished, Received
  <2>2. Head(looper) # BindSuc
    BY <2>1 DEF BindSuc
  <2>3. BindSuc \in Message \cup {BindSuc}
    OBVIOUS
  <2>4. Contains(Tail(looper), BindSuc)
    BY <1>1, <2>1, <2>2, <2>3, SentStays
  <2>5. QED
    BY <2>1, <2>4 DEF Contains, BindSuc
<1>4. CASE OnReceive
  <2>1. broadcasts \in Seq(TaskInfos) /\ broadcasts # <<>>
    BY <1>1, <1>4 DEF Typed, TypeOK, OnReceive
  <2>2. [what |-> "MSG_DOWNLOAD_FINISHED", task |-> Head(broadcasts)] \in Message
    BY <2>1, TailElements DEF Message
  <2>3. QED
    BY <1>2, <1>4, <2>2 DEF OnReceive, Contains, BindSuc
<1>5. ASSUME NEW w \in Workers, WorkerStep(w) \/ Fail(w)
      PROVE  Contains(looper, BindSuc)'
  <2>1. CASE Take(w) \/ Connect(w) \/ SaveProgress(w) \/ Fail(w)
    <3>1. looper' = looper
      BY <2>1 DEF Take, Connect, SaveProgress, Fail
    <3>2. QED
      BY <3>1 DEF Contains, BindSuc
  <2>2. CASE InitDone(w)
    <3>1. [what |-> "MSG_INIT", task |-> worker[w].task] \in Message
      BY <1>1, <2>2, AtTyped DEF InitDone, At, Message
    <3>2. QED
      BY <1>2, <2>2, <3>1 DEF InitDone, Contains, BindSuc
  <2>3. ASSUME NEW queue \in Seq(Message \cup {BindSuc}), Contains(queue, BindSuc),
               NEW t \in TaskInfos, NEW n
        PROVE  /\ Notify(queue, t, n) \in Seq(Message \cup {BindSuc})
               /\ Contains(Notify(queue, t, n), BindSuc)
    <3>1. PICK m : m = [what |-> "MSG_DOWNLOADING", task |-> t]
      OBVIOUS
    <3>2. m \in Message
      BY <3>1 DEF Message
    <3>3. Append(queue, m) \in Seq(Message \cup {BindSuc}) /\ Contains(Append(queue, m), BindSuc)
      BY <2>3, <3>2, SentStays
    <3>4. QED
      BY <2>3, <3>1, <3>3 DEF Notify
  <2>4. CASE Read(w)
    <3>1. worker[w].task \in TaskInfos
      BY <1>1, <2>4, AtTyped DEF Read, At
    <3>2. PICK t : t = worker[w].task
      OBVIOUS
    <3>3. PICK n : n = worker[w].finished + 1
      OBVIOUS
    <3>4. PICK queue :
            /\ queue = looper \/ queue = Notify(looper, t, n)
            /\ looper' = queue \/ looper' = Notify(queue, t, n)
      BY <2>4, <3>2, <3>3 DEF Read, Seen
    <3>5. queue \in Seq(Message \cup {BindSuc}) /\ Contains(queue, BindSuc)
      BY <1>1, <2>3, <3>1, <3>2, <3>4
    <3>6. \E q \in Seq(Message \cup {BindSuc}) : looper' = q /\ Contains(q, BindSuc)
      BY <2>3, <3>1, <3>2, <3>4, <3>5
    <3>7. QED
      BY <3>6 DEF Contains, BindSuc
  <2>5. CASE EndOfStream(w)
    <3>1. worker[w].task \in TaskInfos
      BY <1>1, <2>5, AtTyped DEF EndOfStream, At
    <3>2. QED
      BY <1>1, <2>3, <2>5, <3>1 DEF EndOfStream, Contains, BindSuc
  <2>6. QED
    BY <1>5, <2>1, <2>2, <2>4, <2>5 DEF WorkerStep
<1>6. QED
  BY <1>3, <1>4, <1>5

LEMMA StartDownloadForgetsNothing ==
    ASSUME ManagerTyped, NothingForgotten, NEW t \in TaskInfos, NEW u \in Urls,
           StartDownload(t, u)
    PROVE  NothingForgotten'
<1>1. connections \in Nat
  BY DEF ManagerTyped
<1>2. CASE StartDownloadUnbound(t, u)
  BY <1>1, <1>2 DEF StartDownloadUnbound, NothingForgotten
<1>3. CASE StartDownloadBound(t, u)
  <2>1. UNCHANGED looper /\ UNCHANGED managerOwned
    BY <1>3 DEF StartDownloadBound, Download
  <2>2. QED
    BY <2>1 DEF managerOwned, NothingForgotten, Contains, BindSuc
<1>4. QED
  BY <1>2, <1>3 DEF StartDownload

LEMMA ConnectedForgetsNothing ==
    ASSUME ManagerTyped, OnServiceConnected PROVE NothingForgotten'
<1>1. looper \in Seq(Message \cup {BindSuc}) /\ looper' = Append(looper, BindSuc)
  BY DEF ManagerTyped, Typed, TypeOK, OnServiceConnected
<1>2. Len(looper') \in 1..Len(looper') /\ looper'[Len(looper')] = BindSuc
  BY <1>1
<1>3. QED
  BY <1>2 DEF NothingForgotten, Contains, BindSuc

LEMMA ForgetsNothingNext ==
    ManagerTyped /\ NothingForgotten /\ [ManagerNext]_allVars => NothingForgotten'
<1> SUFFICES ASSUME ManagerTyped, NothingForgotten, [ManagerNext]_allVars
             PROVE  NothingForgotten'
  OBVIOUS
<1>1. CASE OnServiceConnected
  BY <1>1, ConnectedForgetsNothing
<1>2. CASE HandleBindSuc
  BY <1>2 DEF HandleBindSuc, NothingForgotten
<1>3. CASE HandOver \/ Release
  BY <1>3 DEF HandOver, Release, NothingForgotten
<1>4. ASSUME UNCHANGED managerOwned,
             HandleMessage \/ OnReceive \/ \E w \in Workers : WorkerStep(w) \/ Fail(w)
      PROVE  NothingForgotten'
  BY <1>4, ServiceKeepsBindSuc DEF managerOwned, NothingForgotten
<1>5. ASSUME NEW t \in TaskInfos, NEW u \in Urls, StartDownload(t, u)
      PROVE  NothingForgotten'
  BY <1>5, StartDownloadForgetsNothing
<1>6. ASSUME UNCHANGED managerOwned, UNCHANGED looper
      PROVE  NothingForgotten'
  BY <1>6 DEF managerOwned, NothingForgotten, Contains, BindSuc
<1>7. CASE (\E u \in Urls : PauseDownload(u)) \/ (OnLowMemory /\ UNCHANGED managerOwned)
  BY <1>6, <1>7 DEF PauseDownload, Pause, OnLowMemory
<1>8. CASE ManagerKill
  BY <1>8 DEF ManagerKill, NothingForgotten
<1>9. CASE UNCHANGED allVars
  BY <1>6, <1>9 DEF allVars, vars
<1>10. CASE ManagerStep
  BY <1>1, <1>2, <1>3, <1>10 DEF ManagerStep
<1>11. CASE ServiceMainStep
  BY <1>4, <1>11 DEF ServiceMainStep
<1>12. CASE \E w \in Workers : WorkerStep(w) /\ UNCHANGED managerOwned
  BY <1>4, <1>12
<1>13. CASE ManagerEnvironment
  BY <1>4, <1>5, <1>7, <1>8, <1>13 DEF ManagerEnvironment
<1>14. QED
  BY <1>9, <1>10, <1>11, <1>12, <1>13 DEF ManagerNext

(* A request in the manager's list is never forgotten, however startDownload, *)
(* the connections of the service and the threads of the pool interleave:     *)
(* a connection, its message or the handler of the message is still to come,  *)
(* or the main thread is blocked.                                             *)
THEOREM NoRequestForgotten == ManagerSpec => []NothingForgotten
<1>1. ManagerInit => ManagerTyped /\ NothingForgotten
  BY ManagerTypedInit DEF ManagerInit, NothingForgotten
<1>2. ManagerTyped /\ NothingForgotten /\ [ManagerNext]_allVars
        => ManagerTyped' /\ NothingForgotten'
  BY ManagerTypedNext, ForgetsNothingNext
<1>3. QED
  BY <1>1, <1>2, PTL DEF ManagerSpec

-----------------------------------------------------------------------------
(* Only a second request for a url in the list leaves the semaphore taken.   *)
LEMMA SemaphoreFreeNext ==
    "duplicate" \notin Hazards =>
        (ManagerTyped /\ SemaphoreFree /\ [ManagerNext]_allVars => SemaphoreFree')
<1> SUFFICES ASSUME "duplicate" \notin Hazards, ManagerTyped, SemaphoreFree,
                    [ManagerNext]_allVars
             PROVE  SemaphoreFree'
  OBVIOUS
<1>1. permits \in {0, 1}
  BY DEF ManagerTyped
<1>2. ASSUME UNCHANGED managerOwned PROVE SemaphoreFree'
  BY <1>2 DEF managerOwned, SemaphoreFree
<1>3. CASE OnServiceConnected \/ HandOver
  BY <1>3 DEF OnServiceConnected, HandOver, SemaphoreFree
<1>4. CASE HandleBindSuc
  BY <1>1, <1>4 DEF HandleBindSuc, SemaphoreFree
<1>5. CASE Release
  BY <1>1, <1>5 DEF Release, SemaphoreFree
<1>6. ASSUME NEW t \in TaskInfos, NEW u \in Urls, StartDownload(t, u)
      PROVE  SemaphoreFree'
  <2>1. CASE StartDownloadBound(t, u)
    BY <1>2, <2>1 DEF StartDownloadBound
  <2>2. CASE StartDownloadUnbound(t, u)
    <3>1. /\ permits # 0
          /\ \A i \in DOMAIN waiting : urlOf[waiting[i]] # u
      BY <1>6 DEF StartDownload, SemaphoreFree
    <3>2. UNCHANGED <<permits, mainThread>>
      BY <2>2, <3>1 DEF StartDownloadUnbound
    <3>3. QED
      BY <3>2 DEF SemaphoreFree
  <2>3. QED
    BY <1>6, <2>1, <2>2 DEF StartDownload
<1>7. CASE ManagerKill
  BY <1>7 DEF ManagerKill, SemaphoreFree
<1>8. CASE ManagerStep
  BY <1>3, <1>4, <1>5, <1>8 DEF ManagerStep
<1>9. CASE ManagerEnvironment
  BY <1>2, <1>6, <1>7, <1>9 DEF ManagerEnvironment, PauseDownload
<1>10. QED
  BY <1>2, <1>8, <1>9 DEF ManagerNext, ServiceMainStep, allVars

(* As long as no caller asks again for a url that waits or is initialised,   *)
(* the main thread never waits for the semaphore, in startDownload or in     *)
(* MSG_BIND_SUC, and gives every permit back.                                *)
THEOREM MainThreadNeverBlocks ==
    "duplicate" \notin Hazards => (ManagerSpec => []SemaphoreFree)
<1> SUFFICES ASSUME "duplicate" \notin Hazards PROVE ManagerSpec => []SemaphoreFree
  OBVIOUS
<1>1. ManagerInit => ManagerTyped /\ SemaphoreFree
  BY ManagerTypedInit DEF ManagerInit, SemaphoreFree
<1>2. ManagerTyped /\ SemaphoreFree /\ [ManagerNext]_allVars
        => ManagerTyped' /\ SemaphoreFree'
  BY ManagerTypedNext, SemaphoreFreeNext
<1>3. QED
  BY <1>1, <1>2, PTL DEF ManagerSpec

=============================================================================
