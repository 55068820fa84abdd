------------------------------ MODULE Players -------------------------------
(***************************************************************************)
(* NewVideoMgr and NewImageMgr: a player walks through the list of the      *)
(* files of the strategy, driven by messages to itself.  A video posts the  *)
(* next MSG_PLAY_VIDEO when it ends, a picture its MSG_SWITCH_IMAGE every   *)
(* five seconds, a file that is missing a message to try the next one; a    *)
(* strategy that is applied replaces the list and posts a message too.      *)
(*                                                                         *)
(* The player reads what MediaUpdate writes: a strategy is applied in the   *)
(* same handler that replaces the list, and the files of the list come and  *)
(* go on the disk.  MediaUpdate follows one of the two kinds of media; which *)
(* one, and so which player, is part of the choice of hazards.              *)
(***************************************************************************)
EXTENDS MediaUpdate, SequencesExt

NoFile == "none"

CONSTANTS
    Local,          \* files that somebody copied to the terminal
    Watched,        \* the files whose turns are followed
    MaxMessages     \* bound: the camera is not shown with more messages than these

ASSUME LocalAssumption ==
    /\ IsFiniteSet(Local) /\ Local \cap Files = {}
    /\ NoFile \notin Files \cup Local
ASSUME WatchedAssumption == Watched \subseteq Files
ASSUME PlayerAssumption == \A h \in HazardSets : ~({"video", "image"} \subseteq h)

VARIABLES
    list,           \* mVideoList or mImageList
    position,       \* mPosition or mCurrentImageId
    messages,       \* how many messages to itself are due, or will be in five seconds
    uri,            \* the file that the view was given last
    view,           \* whether the VideoView plays it
    camera          \* stopVideoPlay was called, and restartVideoPlay not yet

playerVars == <<list, position, messages, uri, view, camera>>
allVars    == <<vars, playerVars>>

Video == "video" \in hazards
Image == "image" \in hazards

PlayersTypeOK ==
    /\ UpdateTypeOK
    /\ list \in Seq(Files \cup Local) /\ position \in Nat
    /\ messages \in Nat
    /\ uri \in Files \cup Local \cup {NoFile}
    /\ view \in {"idle", "playing"}
    /\ camera \in BOOLEAN

-----------------------------------------------------------------------------
(* The list.  A HashMap gives its keys in an order that only it knows.        *)
PlaylistOf(ids) ==
    LET order == SetToSeq(ids) IN [i \in DOMAIN order |-> FileOf[order[i]]]

(* scanFile finds whatever was copied to a directory of its own; downloads go *)
(* to another one.                                                           *)
LocalLists == {SetToSeq(files) : files \in SUBSET Local}

(* getImageList: the strategy, or what is there when it names nothing.        *)
ImageLists == IF container = {} THEN LocalLists ELSE {PlaylistOf(container)}

(* getVideoListWithIntervalCheck: the whole strategy when it has no intervals, *)
(* else the media of an interval that holds now, else what is there.          *)
VideoLists == LocalLists \cup {PlaylistOf(ids) : ids \in SUBSET container \ {{}}}

-----------------------------------------------------------------------------
(* The constructor: what there is to show, and a first message. *)
StartLists == IF Video THEN VideoLists ELSE IF Image THEN ImageLists ELSE {<<>>}

PlayersInit ==
    /\ Init
    /\ list \in StartLists /\ position = 0
    /\ messages = IF Video \/ Image THEN 1 ELSE 0
    /\ uri = NoFile /\ view = "idle" /\ camera = FALSE

PlayerDies ==
    /\ list' = <<>> /\ position' = 0 /\ messages' = 0
    /\ uri' = NoFile /\ view' = "idle" /\ camera' = FALSE

(* The application runs again: container is what was saved. *)
StartPlayer ==
    /\ list' \in StartLists
    /\ messages' = IF Video \/ Image THEN 1 ELSE 0
    /\ UNCHANGED <<position, uri, view, camera>>

(* updateWhenStrategyChanged: the video player always posts a message, the   *)
(* image player unless one is there.  The strategy has at least the medium   *)
(* whose download made it complete.                                          *)
UpdateWhenStrategyChanged(ids) ==
    /\ list' = IF Video \/ Image THEN PlaylistOf(ids) ELSE list
    /\ messages' = IF Video \/ (Image /\ messages = 0) THEN messages + 1 ELSE messages
    /\ UNCHANGED <<position, uri, view, camera>>

(* Mutant: the list is wrapped around one file too early. *)
FollowingEarly == IF position + 2 < Len(list) THEN position + 1 ELSE 0

(* getVideoByOrder and getImageByOrder. *)
Following == IF position + 1 < Len(list) THEN position + 1 ELSE 0

-----------------------------------------------------------------------------
(* MSG_PLAY_VIDEO.                                                           *)

(* With nothing to play the message is the last one. *)
FindNothing ==
    /\ Video /\ messages > 0 /\ list = <<>>
    /\ messages' = messages - 1
    /\ UNCHANGED <<vars, list, position, uri, view, camera>>

(* The video replaces the one that plays, which then never completes.        *)
PlayVideo ==
    /\ Video /\ messages > 0 /\ list # <<>>
    /\ messages' = messages - 1
    /\ position' = Following
    /\ uri' = list[Following + 1] /\ view' = "playing"
    /\ UNCHANGED <<vars, list, camera>>

(* Mutant: a missing file ends the playing. *)
MissVideoSilently ==
    /\ Video /\ messages > 0 /\ list # <<>>
    /\ list[Following + 1] \notin disk \cup Local
    /\ position' = Following
    /\ messages' = messages - 1
    /\ UNCHANGED <<vars, list, uri, view, camera>>

(* A file that is not there in full may not be there at all: the message is   *)
(* sent again with a delay, and will be for the next file.                   *)
MissVideo ==
    /\ Video /\ messages > 0 /\ list # <<>>
    /\ list[Following + 1] \notin disk \cup Local
    /\ position' = Following
    /\ UNCHANGED <<vars, list, messages, uri, view, camera>>

(* onCompletion and onError: a video ends, one that is there in part with an *)
(* error.                                                                    *)
EndVideo ==
    /\ view = "playing"
    /\ view' = "idle" /\ messages' = messages + 1
    /\ UNCHANGED <<vars, list, position, uri, camera>>

-----------------------------------------------------------------------------
(* MSG_SWITCH_IMAGE: a picture is shown, or missing, or there is none; in    *)
(* each case the next message comes in five seconds.                         *)
SwitchImage ==
    /\ Image /\ messages > 0
    /\ \/ list = <<>> /\ UNCHANGED <<position, uri>>
       \/ /\ list # <<>> /\ position' = Following
          /\ \/ uri' = list[Following + 1]
             \/ list[Following + 1] \notin disk \cup Local /\ uri' = uri
    /\ UNCHANGED <<vars, list, messages, view, camera>>

-----------------------------------------------------------------------------
(* The button for the camera.  A view without a surface releases its player, *)
(* and opens what it was given last when it is visible again; messages to    *)
(* the player are handled all the same.                                      *)
StopVideoPlay ==
    /\ Video /\ "camera" \in hazards /\ process = "up" /\ ~camera
    /\ messages <= MaxMessages
    /\ camera' = TRUE /\ view' = "idle"
    /\ UNCHANGED <<vars, list, position, messages, uri>>

RestartVideoPlay ==
    /\ camera
    /\ camera' = FALSE
    /\ view' = IF uri = NoFile THEN view ELSE "playing"
    /\ UNCHANGED <<vars, list, position, messages, uri>>

-----------------------------------------------------------------------------
(* The strategy update with its player.                                      *)
Applies(r) == process' = "up" /\ Enough(r, finished[r] + 1)

UpdateStep ==
    \/ \E s \in Strategies : Publish(s)
    \/ \E r \in Receivers : Poll(r) \/ Process(r) \/ FetchFails(r)
    \/ \E r \in Receivers, f \in Files : List(r, f) \/ Unlist(r, f) \/ Fail(r, f)

TellPlayer(r, f) ==
    /\ Tell(r, f)
    /\ \/ Applies(r) /\ UpdateWhenStrategyChanged(newMedia[r])
       \/ process' # "up" /\ PlayerDies
       \/ process' = "up" /\ ~Applies(r) /\ UNCHANGED playerVars

HandleMessage == FindNothing \/ PlayVideo \/ MissVideo \/ SwitchImage

PlayerStep == HandleMessage \/ EndVideo \/ StopVideoPlay \/ RestartVideoPlay

PlayersNext ==
    \/ UpdateStep /\ UNCHANGED playerVars
    \/ \E r \in Receivers, f \in Files : TellPlayer(r, f)
    \/ Kill /\ PlayerDies
    \/ Restart /\ StartPlayer
    \/ PlayerStep

(* The looper dispatches the messages, delays end, and so do videos. *)
PlayerFairness ==
    /\ WF_allVars(HandleMessage)
    /\ WF_allVars(EndVideo)

PlayersSpec ==
    PlayersInit /\ [][PlayersNext]_allVars /\ Fairness /\ PlayerFairness

-----------------------------------------------------------------------------
(* Properties.                                                              *)

(* The playing never stops by itself: as long as there is a list, a video    *)
(* plays or a message is on its way that starts the next one, whatever was   *)
(* missing, applied or killed, and whenever the camera was shown.  Pictures  *)
(* have exactly one message, or they would change too fast.                  *)
PlayerGoesOn ==
    process = "up" =>
        /\ Video /\ list # <<>> /\ ~camera => view = "playing" \/ messages > 0
        /\ Image => messages = 1

(* A video that stays on the list and on the disk is played to its end again *)
(* and again, and a picture shown: no file that is missing or broken, and no *)
(* message too many, keeps the others from their turn.                       *)
Ready(f)     == process = "up" /\ ~camera /\ f \in disk /\ f \in Range(list)
TakesTurn(f) == (EndVideo /\ uri = f) \/ (SwitchImage /\ uri' = f)

FilesTakeTurns ==
    \A f \in Watched : Video \/ Image =>
        (<>[]Ready(f) => []<><<TakesTurn(f)>>_allVars)

=============================================================================
