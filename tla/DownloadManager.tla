--------------------------- MODULE DownloadManager ---------------------------
(***************************************************************************)
(* The download manager, DownloadManager.java, composed with the service   *)
(* it binds.  Callers hand over their requests before the service is       *)
(* bound; the manager keeps them in its own list, guarded by a semaphore,  *)
(* and hands them on when MSG_BIND_SUC is handled.                         *)
(*                                                                         *)
(* Manager and service share the main thread and its message queue: a      *)
(* handler of the one runs only when no handler of the other does, and a   *)
(* main thread that waits for the semaphore runs no handler at all.  Only  *)
(* the threads of the pool go on.                                          *)
(***************************************************************************)
EXTENDS DownloadService

VARIABLES
    bound,          \* mService is set
    connections,    \* onServiceConnected callbacks the system still owes
    waiting,        \* DownloadManager.mListTask
    permits,        \* the permits of mSemaphList
    mainThread      \* what the main thread is doing between two handlers

managerOwned == <<bound, connections, waiting, permits, mainThread>>

allVars == <<vars, managerOwned>>

ManagerTypeOK ==
    /\ TypeOK
    /\ bound \in BOOLEAN
    /\ connections \in Nat
    /\ waiting \in Seq(TaskInfos)
    /\ permits \in {0, 1}
    /\ mainThread \in {"idle", "draining", "blocked"}

ManagerInit ==
    /\ Init
    /\ bound = FALSE
    /\ connections = 0
    /\ waiting = <<>>
    /\ permits = 1
    /\ mainThread = "idle"

-----------------------------------------------------------------------------
(* startDownload before the service is bound: bind it, once for every call,  *)
(* then list the request.  For a url that is listed already the TaskInfo is  *)
(* dropped, and the permit is not given back.                                *)
StartDownloadUnbound(t, u) ==
    /\ ~bound
    /\ connections' = connections + 1      \* bindService
    /\ \/ /\ permits = 0
          /\ mainThread' = "blocked"
          /\ UNCHANGED <<urlOf, waiting, permits>>
       \/ /\ permits = 1
          /\ \E i \in DOMAIN waiting : urlOf[waiting[i]] = u
          /\ permits' = 0
          /\ UNCHANGED <<urlOf, waiting, mainThread>>
       \/ /\ permits = 1
          /\ \A i \in DOMAIN waiting : urlOf[waiting[i]] # u
          /\ waiting' = Append(waiting, t)
          /\ urlOf' = [urlOf EXCEPT ![t] = u]
          /\ UNCHANGED <<permits, mainThread>>
    /\ UNCHANGED <<bound, taskList, isPause, pool, worker, looper, broadcasts, saved,
                   have, finishedCalls, kills>>

(* startDownload once the service is bound. *)
StartDownloadBound(t, u) ==
    /\ bound
    /\ urlOf' = [urlOf EXCEPT ![t] = u]
    /\ Download(t, u)
    /\ UNCHANGED managerOwned

(* A url is asked for again while its first request waits or is initialised  *)
(* only under the hazard "duplicate".                                        *)
StartDownload(t, u) ==
    /\ mainThread = "idle"
    /\ urlOf[t] = NoUrl
    /\ \/ "duplicate" \in Hazards
       \/ /\ ~Initialising(u)
          /\ \A i \in DOMAIN waiting : urlOf[waiting[i]] # u
    /\ StartDownloadUnbound(t, u) \/ StartDownloadBound(t, u)

(* pauseDownload: before the service is bound it does nothing. *)
PauseDownload(u) ==
    /\ mainThread = "idle"
    /\ bound
    /\ Pause(u)
    /\ UNCHANGED managerOwned

(* Mutant: the list is not looked at once the service is there. *)
OnServiceConnectedSilent ==
    /\ mainThread = "idle"
    /\ connections > 0
    /\ connections' = connections - 1
    /\ bound' = TRUE
    /\ UNCHANGED <<waiting, permits, mainThread, vars>>

(* onServiceConnected, one callback for every bindService. *)
OnServiceConnected ==
    /\ mainThread = "idle"
    /\ connections > 0
    /\ connections' = connections - 1
    /\ bound' = TRUE
    /\ looper' = Append(looper, BindSuc)
    /\ UNCHANGED <<waiting, permits, mainThread, urlOf, taskList, isPause, pool, worker,
                   broadcasts, saved, have, finishedCalls, kills>>

(* Mutant: the list is handed on without the semaphore, which is given back. *)
HandleBindSucWithoutAcquire ==
    /\ mainThread = "idle"
    /\ Received("MSG_BIND_SUC")
    /\ looper' = Tail(looper)
    /\ mainThread' = "draining"
    /\ UNCHANGED <<bound, connections, waiting, permits, urlOf, taskList, isPause, pool,
                   worker, broadcasts, saved, have, finishedCalls, kills>>

(* MSG_BIND_SUC: take the semaphore, hand on the list from its end, give the *)
(* semaphore back.  The threads of the pool run meanwhile.                   *)
HandleBindSuc ==
    /\ mainThread = "idle"
    /\ Received("MSG_BIND_SUC")
    /\ looper' = Tail(looper)
    /\ IF permits = 1 THEN permits' = 0 /\ mainThread' = "draining"
                      ELSE mainThread' = "blocked" /\ UNCHANGED permits
    /\ UNCHANGED <<bound, connections, waiting, urlOf, taskList, isPause, pool, worker,
                   broadcasts, saved, have, finishedCalls, kills>>

(* Mutants: a request is handed on and stays listed; a request is taken off  *)
(* the list and handed to nobody.                                            *)
HandOverKeeping ==
    /\ mainThread = "draining"
    /\ waiting # <<>>
    /\ LET t == Last(waiting) IN Download(t, urlOf[t])
    /\ UNCHANGED <<managerOwned, urlOf>>

HandOverDropping ==
    /\ mainThread = "draining"
    /\ waiting # <<>>
    /\ waiting' = Front(waiting)
    /\ UNCHANGED <<bound, connections, permits, mainThread, vars>>

HandOver ==
    /\ mainThread = "draining"
    /\ waiting # <<>>
    /\ LET t == Last(waiting) IN Download(t, urlOf[t])
    /\ waiting' = Front(waiting)
    /\ UNCHANGED <<bound, connections, permits, mainThread, urlOf>>

(* Mutants: the permit is not given back; the loop ends after one request. *)
ReleaseNothing ==
    /\ mainThread = "draining"
    /\ waiting = <<>>
    /\ mainThread' = "idle"
    /\ UNCHANGED <<bound, connections, waiting, permits, vars>>

ReleaseEarly ==
    /\ mainThread = "draining"
    /\ permits' = permits + 1
    /\ mainThread' = "idle"
    /\ UNCHANGED <<bound, connections, waiting, vars>>

Release ==
    /\ mainThread = "draining"
    /\ waiting = <<>>
    /\ permits' = permits + 1
    /\ mainThread' = "idle"
    /\ UNCHANGED <<bound, connections, waiting, vars>>

(* The process is killed: the manager forgets everything, the requests it    *)
(* had not handed on included.                                               *)
ManagerKill ==
    /\ kills < MaxKills
    /\ kills' = kills + 1
    /\ bound' = FALSE
    /\ connections' = 0
    /\ waiting' = <<>>
    /\ permits' = 1
    /\ mainThread' = "idle"
    /\ urlOf' = [t \in TaskInfos |-> IF Contains(waiting, t) THEN NoUrl ELSE urlOf[t]]
    /\ ClearProcess
    /\ UNCHANGED <<saved, have, finishedCalls>>

ManagerStep == OnServiceConnected \/ HandleBindSuc \/ HandOver \/ Release

ServiceMainStep ==
    /\ mainThread = "idle"
    /\ HandleMessage \/ OnReceive
    /\ UNCHANGED managerOwned

ManagerEnvironment ==
    \/ \E t \in TaskInfos, u \in Urls : StartDownload(t, u)
    \/ \E u \in Urls : PauseDownload(u)
    \/ mainThread = "idle" /\ OnLowMemory /\ UNCHANGED managerOwned
    \/ \E w \in Workers : Fail(w) /\ UNCHANGED managerOwned
    \/ ManagerKill

ManagerNext ==
    \/ ManagerStep
    \/ ServiceMainStep
    \/ \E w \in Workers : WorkerStep(w) /\ UNCHANGED managerOwned
    \/ ManagerEnvironment

ManagerSpec == ManagerInit /\ [][ManagerNext]_allVars

(* The system connects the service, the main thread runs its handlers and the *)
(* threads of the pool run: requests, pauses, failures and kills need not     *)
(* happen.                                                                    *)
ManagerFairness ==
    /\ WF_allVars(ManagerStep)
    /\ WF_allVars(mainThread = "idle" /\ HandleMessage /\ UNCHANGED managerOwned)
    /\ WF_allVars(mainThread = "idle" /\ OnReceive /\ UNCHANGED managerOwned)
    /\ \A w \in Workers : WF_allVars(WorkerStep(w) /\ UNCHANGED managerOwned)

ManagerFairSpec == ManagerSpec /\ ManagerFairness

-----------------------------------------------------------------------------
(* Properties.                                                              *)

(* A request in the manager's list is never forgotten: as long as the main    *)
(* thread is not stuck in startDownload or in MSG_BIND_SUC, a connection or   *)
(* its message is still to come, or the list is being handed on.              *)
NothingForgotten ==
    waiting # <<>> =>
        \/ connections > 0
        \/ Contains(looper, BindSuc)
        \/ mainThread \in {"draining", "blocked"}

(* The main thread never waits for the semaphore, and between two handlers   *)
(* the semaphore is free.                                                    *)
SemaphoreFree ==
    /\ mainThread # "blocked"
    /\ permits = 0 <=> mainThread = "draining"

(* DownloadManager.java:88: the requests of the list are executed and removed *)
(* once the service is bound.                                                 *)
WaitingIsHandedOver ==
    \A t \in TaskInfos : Contains(waiting, t) ~> ~Contains(waiting, t)

(* A file asked for through the manager is eventually on the disk in full,    *)
(* unless its task has been paused.                                           *)
StartedDownloadArrives ==
    \A t \in TaskInfos, u \in Urls : urlOf[t] = u ~> (Whole(u) \/ PausedTask(u))

(* What the service knows of the two: the urls of the requests that do not    *)
(* wait, and every message but MSG_BIND_SUC, in their order.                  *)
Without(s, e) ==
    LET kept     == {i \in DOMAIN s : s[i] # e}
        place(i) == Cardinality({j \in kept : j <= i})
    IN  [k \in 1..Cardinality(kept) |-> s[CHOOSE i \in kept : place(i) = k]]

serviceUrls == [t \in TaskInfos |-> IF Contains(waiting, t) THEN NoUrl ELSE urlOf[t]]
serviceMessages == Without(looper, BindSuc)

(* The manager uses the service as DownloadService.tla assumes its callers    *)
(* do: without the requests and messages that only the manager knows, every   *)
(* step of the two together is a step of the service.                         *)
Service == INSTANCE DownloadService WITH urlOf <- serviceUrls, looper <- serviceMessages

UsesTheService == Service!Spec

=============================================================================
