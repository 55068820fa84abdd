----------------------------- MODULE MediaUpdate -----------------------------
(***************************************************************************)
(* The update of the media strategy: ServerRequest polls the server every  *)
(* ten seconds, each answer makes a MediaUpdateReceiver, which fetches the *)
(* strategy, downloads the files that are new in it, and when it has       *)
(* counted as many finished downloads as it asked for puts the strategy    *)
(* into MediaStrategyMgr, tells the player and deletes the old files.      *)
(*                                                                         *)
(* A strategy is the set of its media ids; FileOf names their files.  The  *)
(* videos and the images of a strategy are handled by the same code, each  *)
(* with counters and containers of its own; one of the two is modelled.    *)
(* Every handler runs on the main thread.  Of the download service a       *)
(* caller sees what is here: a start for a url that is listed is dropped,  *)
(* a download is listed only some time after it was started, and told      *)
(* before it is taken off the list.  It is told with its file on the disk, *)
(* twice at most: what DownloadService does for files of at most 2^24      *)
(* bytes, of which its progress is exact.                                  *)
(***************************************************************************)
EXTENDS FiniteSets, Naturals

CONSTANTS
    Ids,            \* media ids
    Files,
    FileOf,         \* filename of each id
    Renamed,        \* ids under which a file of another id comes back
    Strategies,     \* what the server may publish
    MaxReceivers,   \* bound: so many receivers are under way at a time
    MaxChanges,     \* bound: the server changes its strategy so often
    HazardSets      \* what may happen; one of these sets is chosen initially

(* "overlap"  the server changes its strategy while an update is under way   *)
(* "queued"   a strategy arrives while downloads wait for a thread           *)
(* "twice"    the service tells twice that a download is finished            *)
(* "fail"     a strategy is not fetched, or a download fails                 *)
(* "kill"     the process is killed                                          *)
(* "renamed"  a file comes back under another id                             *)
(* "removal"  a strategy removes media and adds none                         *)
(* and who shows the media (module Players):                                 *)
(* "video"    a video player is registered, "image" an image player;         *)
(*            otherwise nobody is (MediaUpdateReceiver.java:165)             *)
(* "camera"   the camera takes the place of the video now and then           *)
HazardKinds == {"overlap", "queued", "twice", "fail", "kill", "renamed", "removal",
                "video", "image", "camera"}

ASSUME FinitenessAssumption == IsFiniteSet(Ids)
ASSUME FileOfAssumption ==
    /\ FileOf \in [Ids -> Files]
    /\ Renamed \subseteq Ids
    /\ \A i, j \in Ids \ Renamed : FileOf[i] = FileOf[j] => i = j
ASSUME StrategiesAssumption ==
    /\ Strategies \subseteq SUBSET Ids
    /\ \A s \in Strategies : \A i, j \in s : FileOf[i] = FileOf[j] => i = j
ASSUME HazardSetsAssumption == HazardSets \subseteq SUBSET HazardKinds
ASSUME BoundsAssumption == MaxReceivers \in Nat /\ MaxChanges \in Nat

VARIABLES
    hazards,        \* the hazards of this behaviour
    server,         \* the strategy that the server publishes
    changes,        \* how often it has changed it
    process,        \* whether the application runs
    container,      \* adMediaInfo.videoContainer, whose files are played
    saved,          \* the strategy under KEY_XML_TEXT
    disk,           \* the files that are there in full
    fetching,       \* the receivers whose strategy is being fetched
    newMedia,       \* newMediaInfo of each receiver
    total,          \* mTotalVideoTaskNum
    finished,       \* mFinishedVideoNum
    deleteSet,      \* videoDeleteSet
    load,           \* what became of each download a receiver started
    wedged          \* files whose failed download stays listed

serverVars   == <<server, changes>>
receiverVars == <<fetching, newMedia, total, finished, deleteSet>>
vars == <<hazards, serverVars, process, container, saved, disk, receiverVars,
          load, wedged>>

-----------------------------------------------------------------------------
Receivers == 1 .. MaxReceivers

FilesOf(ids) == {FileOf[i] : i \in ids}

(* A download waits for a thread, is listed and running, runs into a file    *)
(* that was deleted under it, has been told, once or again, is off the list   *)
(* but will be told again, or is off the list.                               *)
Listing   == {"running", "unlinked", "told", "again"}
Active    == Listing \cup {"queued", "late"}
Loads     == Active \cup {"none", "done"}
Listed(f) == f \in wedged \/ \E r \in Receivers : load[r][f] \in Listing

UnderWay(r) == r \in fetching \/ \E f \in Files : load[r][f] \in Active
Quiet == \A r \in Receivers : ~UnderWay(r)

UpdateTypeOK ==
    /\ hazards \in HazardSets
    /\ server \in Strategies /\ changes \in 0 .. MaxChanges
    /\ process \in {"up", "killed", "crashed"}
    /\ container \subseteq Ids /\ saved \subseteq Ids /\ disk \subseteq Files
    /\ fetching \subseteq Receivers
    /\ newMedia \in [Receivers -> SUBSET Ids]
    /\ total \in [Receivers -> 0 .. Cardinality(Ids)]
    /\ finished \in [Receivers -> Nat]
    /\ \A r \in Receivers : "twice" \notin hazards => finished[r] <= total[r]
    /\ deleteSet \in [Receivers -> SUBSET Ids]
    /\ load \in [Receivers -> [Files -> Loads]]
    /\ wedged \subseteq Files

Publishable(s) == s \cap Renamed # {} => "renamed" \in hazards

(* A new terminal: MediaStrategyMgr finds nothing saved. *)
Init ==
    /\ hazards \in HazardSets
    /\ server \in Strategies /\ Publishable(server) /\ changes = 0
    /\ process = "up" /\ container = {} /\ saved = {} /\ disk = {}
    /\ fetching = {}
    /\ newMedia = [r \in Receivers |-> {}]
    /\ total = [r \in Receivers |-> 0] /\ finished = [r \in Receivers |-> 0]
    /\ deleteSet = [r \in Receivers |-> {}]
    /\ load = [r \in Receivers |-> [f \in Files |-> "none"]]
    /\ wedged = {}

-----------------------------------------------------------------------------
(* The server.                                                              *)

Removes(s) == s # container /\ s \subseteq container

Publish(s) ==
    /\ changes < MaxChanges /\ s # server
    /\ Publishable(s)
    /\ Quiet \/ "overlap" \in hazards
    /\ Removes(s) => "removal" \in hazards
    /\ server' = s /\ changes' = changes + 1
    /\ UNCHANGED <<hazards, process, container, saved, disk, receiverVars, load, wedged>>

-----------------------------------------------------------------------------
(* Polling, and the receiver that every answer makes, also when nothing has  *)
(* changed.  Receivers are numbered in the order of the free places.         *)
Poll(r) ==
    /\ process = "up" /\ ~UnderWay(r)
    /\ \A q \in 1 .. r - 1 : UnderWay(q)
    /\ fetching' = fetching \cup {r}
    /\ newMedia' = [newMedia EXCEPT ![r] = server]
    /\ UNCHANGED <<hazards, serverVars, process, container, saved, disk, total,
                   finished, deleteSet, load, wedged>>

(* A receiver that gets no strategy is forgotten. *)
FetchFails(r) ==
    /\ "fail" \in hazards
    /\ r \in fetching
    /\ fetching' = fetching \ {r}
    /\ newMedia' = [newMedia EXCEPT ![r] = {}]
    /\ total' = [total EXCEPT ![r] = 0] /\ finished' = [finished EXCEPT ![r] = 0]
    /\ deleteSet' = [deleteSet EXCEPT ![r] = {}]
    /\ load' = [load EXCEPT ![r] = [f \in Files |-> "none"]]
    /\ UNCHANGED <<hazards, serverVars, process, container, saved, disk, wedged>>

Adds(r) == newMedia[r] \ container

(* Mutant: everything old is deleted. *)
DeletesAll(r) == container

Deletes(r) == container \ newMedia[r]

(* Mutant: the service starts a url again that is listed. *)
StartDownloadsAgain(r) ==
    load' = [load EXCEPT ![r] = [f \in Files |->
                IF f \in FilesOf(Adds(r)) THEN "queued" ELSE "none"]]

(* startDownload of every file that is new. *)
StartDownloads(r) ==
    load' = [load EXCEPT ![r] = [f \in Files |->
                IF f \in FilesOf(Adds(r)) /\ ~Listed(f) THEN "queued" ELSE "none"]]

SomeQueued(files) == \E r \in Receivers, f \in files : load[r][f] = "queued"

(* Mutants: the count goes on; the strategy is not saved. *)
ProcessKeepingCount(r) ==
    /\ r \in fetching
    /\ SomeQueued(FilesOf(Adds(r))) => "queued" \in hazards
    /\ fetching' = fetching \ {r}
    /\ total' = [total EXCEPT ![r] = Cardinality(Adds(r))]
    /\ deleteSet' = [deleteSet EXCEPT ![r] = Deletes(r)]
    /\ StartDownloads(r)
    /\ saved' = newMedia[r]
    /\ UNCHANGED <<hazards, serverVars, process, container, disk, newMedia, finished, wedged>>

ProcessWithoutSave(r) ==
    /\ r \in fetching
    /\ SomeQueued(FilesOf(Adds(r))) => "queued" \in hazards
    /\ fetching' = fetching \ {r}
    /\ total' = [total EXCEPT ![r] = Cardinality(Adds(r))]
    /\ finished' = [finished EXCEPT ![r] = 0]
    /\ deleteSet' = [deleteSet EXCEPT ![r] = Deletes(r)]
    /\ StartDownloads(r)
    /\ UNCHANGED <<hazards, serverVars, process, container, saved, disk, newMedia, wedged>>

(* The strategy has come: process, then savaXmlMediaStrategy. *)
Process(r) ==
    /\ r \in fetching
    /\ SomeQueued(FilesOf(Adds(r))) => "queued" \in hazards
    /\ fetching' = fetching \ {r}
    /\ total' = [total EXCEPT ![r] = Cardinality(Adds(r))]
    /\ finished' = [finished EXCEPT ![r] = 0]
    /\ deleteSet' = [deleteSet EXCEPT ![r] = Deletes(r)]
    /\ StartDownloads(r)
    /\ saved' = newMedia[r]
    /\ UNCHANGED <<hazards, serverVars, process, container, disk, newMedia, wedged>>

-----------------------------------------------------------------------------
(* The downloads.                                                           *)

(* MSG_INIT lists the task, whatever is listed already. *)
List(r, f) ==
    /\ load[r][f] = "queued"
    /\ load' = [load EXCEPT ![r][f] = "running"]
    /\ UNCHANGED <<hazards, serverVars, process, container, saved, disk, receiverVars, wedged>>

(* A download that fails before it is listed or when it is off the list is   *)
(* forgotten, another one stays listed for good.                             *)
Fail(r, f) ==
    /\ "fail" \in hazards
    /\ load[r][f] \in Active \ {"told", "again"}
    /\ wedged' = IF load[r][f] \in Listing THEN wedged \cup {f} ELSE wedged
    /\ load' = [load EXCEPT ![r][f] = "none"]
    /\ UNCHANGED <<hazards, serverVars, process, container, saved, disk, receiverVars>>

(* The process ends; what it shows when it runs again is what was saved. *)
Die(how) ==
    /\ process' = how
    /\ container' = saved
    /\ fetching' = {}
    /\ newMedia' = [r \in Receivers |-> {}]
    /\ total' = [r \in Receivers |-> 0]
    /\ finished' = [r \in Receivers |-> 0]
    /\ deleteSet' = [r \in Receivers |-> {}]
    /\ load' = [r \in Receivers |-> [f \in Files |-> "none"]]
    /\ wedged' = {}

(* Mutants: one file too early; never. *)
EnoughEarly(r, n) == n + 1 >= total[r]
EnoughNever(r, n) == n > total[r]

(* Only the count tells whether all files have come. *)
Enough(r, n) == n >= total[r]

AfterTold == [l \in Loads |-> CASE l = "told" -> "again" [] l = "late" -> "done" [] OTHER -> "told"]

Told(r, f) == [load EXCEPT ![r][f] = AfterTold[@]]

Written(r, f) == IF load[r][f] = "running" THEN disk \cup {f} ELSE disk

(* onDownloadFinished, when more are to come. *)
Count(r, f) ==
    /\ ~Enough(r, finished[r] + 1)
    /\ finished' = [finished EXCEPT ![r] = @ + 1]
    /\ disk' = Written(r, f) /\ load' = Told(r, f)
    /\ UNCHANGED <<process, container, fetching, newMedia, total, deleteSet, wedged>>

(* A file that is deleted while its download runs may be lost to it. *)
Unlink(now, files, unlinked) ==
    [r \in Receivers |-> [f \in Files |->
        IF unlinked /\ f \in files /\ now[r][f] = "running" THEN "unlinked" ELSE now[r][f]]]

(* videoDownloadFinished: the strategy is replaced and what it no longer     *)
(* names deleted.  The files are looked up in the container that is replaced,*)
(* which need not be the one they were taken from.                           *)
Apply(r, f) ==
    /\ Enough(r, finished[r] + 1) /\ deleteSet[r] \subseteq container
    /\ finished' = [finished EXCEPT ![r] = @ + 1]
    /\ container' = newMedia[r]
    /\ disk' = Written(r, f) \ FilesOf(deleteSet[r])
    /\ \E unlinked \in BOOLEAN :
           load' = Unlink(Told(r, f), FilesOf(deleteSet[r]), unlinked)
    /\ UNCHANGED <<process, fetching, newMedia, total, deleteSet, wedged>>

(* An id that is not found there is a NullPointerException. *)
NullPointer(r, f) ==
    /\ Enough(r, finished[r] + 1) /\ ~(deleteSet[r] \subseteq container)
    /\ \E gone \in SUBSET (deleteSet[r] \cap container) :
           disk' = Written(r, f) \ FilesOf(gone)
    /\ Die("crashed")

Tell(r, f) ==
    /\ \/ load[r][f] \in {"running", "unlinked", "late"}
       \/ load[r][f] = "told" /\ "twice" \in hazards
    /\ Count(r, f) \/ Apply(r, f) \/ NullPointer(r, f)
    /\ UNCHANGED <<hazards, serverVars, saved>>

(* MSG_DOWNLOAD_FINISHED takes the task off the list; the thread that told a  *)
(* progress of 100 in its loop may only then come to tell it at its end.      *)
Unlist(r, f) ==
    /\ load[r][f] \in {"told", "again"}
    /\ \/ load' = [load EXCEPT ![r][f] = "done"]
       \/ /\ load[r][f] = "told" /\ "twice" \in hazards
          /\ load' = [load EXCEPT ![r][f] = "late"]
    /\ UNCHANGED <<hazards, serverVars, process, container, saved, disk, receiverVars, wedged>>

-----------------------------------------------------------------------------
Kill ==
    /\ "kill" \in hazards
    /\ process = "up"
    /\ Die("killed")
    /\ UNCHANGED <<hazards, serverVars, saved, disk>>

(* MediaStrategyMgr parses what was saved. *)
Restart ==
    /\ process # "up"
    /\ process' = "up"
    /\ UNCHANGED <<hazards, serverVars, container, saved, disk, receiverVars, load, wedged>>

Download(r, f) == List(r, f) \/ Tell(r, f) \/ Unlist(r, f)

Next ==
    \/ \E s \in Strategies : Publish(s)
    \/ \E r \in Receivers : Poll(r) \/ Process(r) \/ FetchFails(r)
    \/ \E r \in Receivers, f \in Files : Download(r, f) \/ Fail(r, f)
    \/ Kill \/ Restart

(* The timer goes on, answers come and downloads go on; the server need not  *)
(* change and the process need not be restarted.                             *)
Fairness ==
    /\ WF_vars(\E r \in Receivers : Poll(r))
    /\ \A r \in Receivers : WF_vars(Process(r))
    /\ \A r \in Receivers, f \in Files : WF_vars(Download(r, f))

Spec == Init /\ [][Next]_vars /\ Fairness

-----------------------------------------------------------------------------
(* Properties.                                                              *)

(* Every file that is played is on the disk in full ("This Video Should       *)
(* Exists!", NewVideoMgr.java:68): a strategy is shown only when its new      *)
(* files have come, and the old ones are still there.                         *)
PlaylistWhole ==
    hazards \cap {"overlap", "twice", "kill", "renamed"} = {} =>
        FilesOf(container) \subseteq disk

(* The ids to delete are found in the container (MediaUpdateReceiver.java:173),*)
(* unless an update is applied after another one.                              *)
NoNullPointer ==
    process = "crashed" => hazards \cap {"overlap", "twice", "queued"} # {}

(* When no update is under way, a restart shows what is shown: the strategy   *)
(* that was saved before its files had come has been applied.                 *)
RestartShowsTheSame ==
    Quiet /\ hazards \cap {"overlap", "fail", "removal"} = {} => container = saved

(* No update deletes a file of the strategy that it shows, however many       *)
(* updates overlap, unless the file has changed its id.                       *)
NeverDeletesShown ==
    [][process' = "up" /\ "renamed" \notin hazards =>
            FilesOf(container') \cap (disk \ disk') = {}]_vars

(* The downloads the update starts are no others than the service makes of   *)
(* them, and what its receivers count is what is told.                        *)
LoadOf(r, f) == CASE load[r][f] = "unlinked" -> "running"
                  [] load[r][f] = "done" -> "none"
                  [] OTHER -> load[r][f]

Life(r, f) == INSTANCE DownloadLife WITH load <- LoadOf(r, f)

LoadsLive ==
    /\ \A r \in Receivers, f \in Files : Life(r, f)!Init
    /\ [][\A r \in Receivers :
            /\ \A f \in Files : [Life(r, f)!Next]_(LoadOf(r, f))
            /\ finished'[r] > finished[r] => \E f \in Files : Life(r, f)!Tell]_vars

(* What the server publishes is shown in the end, unless it goes on changing  *)
(* it, a download fails or media are only removed.                            *)
UpdateIsApplied ==
    container # server /\ hazards \cap {"overlap", "fail", "removal"} = {}
        ~> container = server \/ process # "up"

=============================================================================
