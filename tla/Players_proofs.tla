--------------------------- MODULE Players_proofs ---------------------------
(***************************************************************************)
(* What holds of the players for all media, lists and local files.          *)
(***************************************************************************)
EXTENDS Players, MediaUpdate_proofs

-----------------------------------------------------------------------------
(* The players only read what the update writes: without its player, every   *)
(* behaviour is one of MediaUpdate, of which all its theorems hold.          *)
LEMMA UpdateTakesTheStep == ASSUME [PlayersNext]_allVars PROVE [Next]_vars
<1>1. CASE UpdateStep
  BY <1>1 DEF UpdateStep, Next, Download
<1>2. ASSUME NEW r \in Receivers, NEW f \in Files, TellPlayer(r, f) PROVE Next
  BY <1>2 DEF TellPlayer, Next, Download
<1>3. CASE PlayerStep
  BY <1>3 DEF PlayerStep, HandleMessage, FindNothing, PlayVideo, MissVideo, EndVideo,
              SwitchImage, StopVideoPlay, RestartVideoPlay
<1>4. CASE UNCHANGED allVars
  BY <1>4 DEF allVars
<1>5. QED
  BY <1>1, <1>2, <1>3, <1>4 DEF PlayersNext, Next

THEOREM PlayersUseTheUpdate == PlayersSpec => Spec
<1>1. PlayersInit => Init
  BY DEF PlayersInit
<1>2. [PlayersNext]_allVars => [Next]_vars
  BY UpdateTakesTheStep
<1>3. QED
  BY <1>1, <1>2, PTL DEF PlayersSpec, Spec

-----------------------------------------------------------------------------
(* The lists.                                                               *)
LEMMA SetToSeqSeq ==
    ASSUME NEW S, IsFiniteSet(S)
    PROVE  SetToSeq(S) \in [1 .. Cardinality(S) -> S] /\ Cardinality(S) \in Nat
<1>1. Cardinality(S) \in Nat /\ ExistsBijection(1 .. Cardinality(S), S)
  BY FS_CardinalityType
<1>2. \E f \in [1 .. Cardinality(S) -> S] : IsInjective(f)
  BY <1>1 DEF ExistsBijection, Bijection, Injection
<1>3. QED
  BY <1>1, <1>2 DEF SetToSeq

LEMMA PlaylistSeq == ASSUME NEW ids \in SUBSET Ids PROVE PlaylistOf(ids) \in Seq(Files)
<1>1. SetToSeq(ids) \in [1 .. Cardinality(ids) -> ids] /\ Cardinality(ids) \in Nat
  BY CountNat, SetToSeqSeq
<1>2. PlaylistOf(ids) \in [1 .. Cardinality(ids) -> Files]
  BY <1>1, FileOfAssumption DEF PlaylistOf
<1>3. QED
  BY <1>1, <1>2

LEMMA LocalSeq == LocalLists \subseteq Seq(Local)
<1>1. ASSUME NEW files \in SUBSET Local PROVE SetToSeq(files) \in Seq(Local)
  <2>1. IsFiniteSet(files)
    BY LocalAssumption, FS_Subset
  <2>2. SetToSeq(files) \in [1 .. Cardinality(files) -> files] /\ Cardinality(files) \in Nat
    BY <2>1, SetToSeqSeq
  <2>3. QED
    BY <2>2
<1>2. QED
  BY <1>1 DEF LocalLists

Lists == Seq(Files \cup Local)

LEMMA StartSeq == ASSUME container \subseteq Ids PROVE StartLists \subseteq Lists
<1>1. LocalLists \subseteq Lists
  <2>1. Seq(Local) \subseteq Lists
    BY DEF Lists
  <2>2. QED
    BY <2>1, LocalSeq
<1>2. \A ids \in SUBSET container : PlaylistOf(ids) \in Lists
  <2>1. \A ids \in SUBSET container : PlaylistOf(ids) \in Seq(Files)
    BY PlaylistSeq
  <2>2. Seq(Files) \subseteq Lists
    BY DEF Lists
  <2>3. QED
    BY <2>1, <2>2
<1>3. VideoLists \subseteq Lists
  BY <1>1, <1>2 DEF VideoLists
<1>4. ImageLists \subseteq Lists
  BY <1>1, <1>2 DEF ImageLists
<1>5. <<>> \in Lists
  BY DEF Lists
<1>6. QED
  BY <1>3, <1>4, <1>5 DEF StartLists

LEMMA FollowingListed ==
    ASSUME list \in Lists, position \in Nat, list # <<>>
    PROVE  Following \in Nat /\ list[Following + 1] \in Files \cup Local
<1>1. Len(list) \in Nat /\ Len(list) > 0
  BY DEF Lists
<1>2. Following \in Nat /\ Following + 1 \in 1 .. Len(list)
  BY <1>1 DEF Following
<1>3. QED
  BY <1>2 DEF Lists

-----------------------------------------------------------------------------
(* Types.                                                                   *)
PlayersTyped ==
    /\ hazards \in HazardSets
    /\ list \in Lists /\ position \in Nat
    /\ messages \in Nat
    /\ uri \in Files \cup Local \cup {NoFile}
    /\ view \in {"idle", "playing"}
    /\ camera \in BOOLEAN

LEMMA PlayersTypedInit == PlayersInit => PlayersTyped
<1> SUFFICES ASSUME PlayersInit PROVE PlayersTyped
  OBVIOUS
<1>1. StartLists \subseteq Lists
  BY StartSeq DEF PlayersInit, Init
<1>2. hazards \in HazardSets
  BY DEF PlayersInit, Init
<1>3. QED
  BY <1>1, <1>2 DEF PlayersInit, PlayersTyped

LEMMA PlayersTypedDie ==
    ASSUME PlayersTyped, PlayerDies, UNCHANGED hazards
    PROVE  PlayersTyped'
<1>1. <<>> \in Lists
  BY DEF Lists
<1>2. QED
  BY <1>1 DEF PlayerDies, PlayersTyped

LEMMA PlayersTypedTell ==
    ASSUME Typed, PlayersTyped, NEW r \in Receivers, NEW f \in Files, TellPlayer(r, f)
    PROVE  PlayersTyped'
<1>1. hazards' = hazards
  BY DEF TellPlayer, Tell
<1>2. CASE UpdateWhenStrategyChanged(newMedia[r])
  <2>1. PlaylistOf(newMedia[r]) \in Seq(Files)
    BY PlaylistSeq DEF Typed
  <2>2. PlaylistOf(newMedia[r]) \in Lists
    BY <2>1 DEF Lists
  <2>3. list' \in Lists /\ messages' \in Nat
    BY <1>2, <2>2 DEF UpdateWhenStrategyChanged, PlayersTyped
  <2>4. QED
    BY <1>1, <1>2, <2>3 DEF UpdateWhenStrategyChanged, PlayersTyped
<1>3. CASE PlayerDies
  BY <1>1, <1>3, PlayersTypedDie
<1>4. CASE UNCHANGED playerVars
  BY <1>1, <1>4 DEF playerVars, PlayersTyped
<1>5. QED
  BY <1>2, <1>3, <1>4 DEF TellPlayer

LEMMA PlayersTypedStep ==
    ASSUME Typed, PlayersTyped, [PlayersNext]_allVars
    PROVE  PlayersTyped'
<1>1. hazards' = hazards
  BY UpdateTakesTheStep, HazardsStay
<1>2. CASE UNCHANGED playerVars
  BY <1>1, <1>2 DEF playerVars, PlayersTyped
<1>3. CASE Kill /\ PlayerDies
  BY <1>1, <1>3, PlayersTypedDie
<1>4. CASE Restart /\ StartPlayer
  <2>1. StartLists' = StartLists
    BY <1>1, <1>4 DEF Restart, StartLists, VideoLists, ImageLists, Video, Image
  <2>2. StartLists' \subseteq Lists
    BY <2>1, StartSeq DEF Typed
  <2>3. QED
    BY <1>1, <1>4, <2>1, <2>2 DEF StartPlayer, PlayersTyped
<1>5. CASE HandleMessage
  <2>1. list' = list /\ view' \in {"idle", "playing"} /\ camera' = camera
    BY <1>5 DEF HandleMessage, FindNothing, PlayVideo, MissVideo, SwitchImage, PlayersTyped
  <2>2. messages' \in Nat
    BY <1>5 DEF HandleMessage, FindNothing, PlayVideo, MissVideo, SwitchImage, PlayersTyped
  <2>3. position' \in Nat /\ uri' \in Files \cup Local \cup {NoFile}
    BY <1>5, FollowingListed
    DEF HandleMessage, FindNothing, PlayVideo, MissVideo, SwitchImage, PlayersTyped
  <2>4. QED
    BY <1>1, <2>1, <2>2, <2>3 DEF PlayersTyped
<1>6. CASE EndVideo \/ StopVideoPlay \/ RestartVideoPlay
  <2>1. UNCHANGED <<list, position, uri>> /\ messages' \in Nat
    BY <1>6 DEF EndVideo, StopVideoPlay, RestartVideoPlay, PlayersTyped
  <2>2. view' \in {"idle", "playing"}
    BY <1>6 DEF EndVideo, StopVideoPlay, RestartVideoPlay, PlayersTyped
  <2>3. camera' \in BOOLEAN
    BY <1>6, Zenon DEF EndVideo, StopVideoPlay, RestartVideoPlay, PlayersTyped
  <2>4. QED
    BY <1>1, <2>1, <2>2, <2>3 DEF PlayersTyped
<1>7. CASE UNCHANGED allVars
  BY <1>2, <1>7 DEF allVars
<1>8. QED
  BY <1>2, <1>3, <1>4, <1>5, <1>6, <1>7, PlayersTypedTell DEF PlayersNext, PlayerStep

(* The update and its player keep their types, whatever the lists are.       *)
THEOREM PlayersTypeCorrect == PlayersSpec => []PlayersTypeOK
<1>1. PlayersInit => Typed /\ PlayersTyped
  BY TypedInit, PlayersTypedInit DEF PlayersInit
<1>2. Typed /\ PlayersTyped /\ [PlayersNext]_allVars => (Typed /\ PlayersTyped)'
  BY UpdateTakesTheStep, TypedStep, PlayersTypedStep
<1>3. PlayersTyped /\ UpdateTypeOK => PlayersTypeOK
  BY DEF PlayersTyped, PlayersTypeOK, Lists
<1>4. QED
  BY <1>1, <1>2, <1>3, PlayersUseTheUpdate, UpdateTypeCorrect, PTL DEF PlayersSpec

-----------------------------------------------------------------------------
(* The playing goes on.  What could end it is a message that is the last one *)
(* although there is a list, or a camera that goes away with nothing to open *)
(* again; so until a file was given to the view there is a message, and an   *)
(* image player never has a second one.                                      *)
GoesOnInv ==
    /\ process # "up" => list = <<>> /\ messages = 0 /\ uri = NoFile /\ view = "idle" /\ ~camera
    /\ process = "up" =>
          /\ Video /\ list # <<>> /\ ~camera => view = "playing" \/ messages > 0
          /\ Video /\ list # <<>> /\ uri = NoFile => messages > 0
          /\ Image => messages = 1 /\ view = "idle"
    /\ camera \/ view = "playing" => Video

LEMMA OnePlayer == ASSUME PlayersTyped PROVE ~(Video /\ Image)
BY PlayerAssumption DEF PlayersTyped, Video, Image

LEMMA GoesOnInit == PlayersInit => GoesOnInv
BY DEF PlayersInit, Init, GoesOnInv

LEMMA GoesOnDies ==
    ASSUME PlayerDies, process' # "up"
    PROVE  GoesOnInv'
BY DEF PlayerDies, GoesOnInv

LEMMA GoesOnTell ==
    ASSUME Typed, PlayersTyped, GoesOnInv, NEW r \in Receivers, NEW f \in Files, TellPlayer(r, f)
    PROVE  GoesOnInv'
<1>1. hazards' = hazards /\ (process' = "up" => process = "up")
  BY DEF TellPlayer, Tell, Count, Apply, NullPointer, Die
<1>2. CASE Applies(r) /\ UpdateWhenStrategyChanged(newMedia[r])
  <2>1. process' = "up" /\ UNCHANGED <<uri, view, camera>>
    BY <1>2 DEF Applies, UpdateWhenStrategyChanged
  <2>2. Video => messages' > 0
    BY <1>2 DEF UpdateWhenStrategyChanged, PlayersTyped
  <2>3. Image => messages' = 1
    BY <1>2, OnePlayer DEF UpdateWhenStrategyChanged, GoesOnInv
  <2>4. QED
    BY <1>1, <2>1, <2>2, <2>3 DEF GoesOnInv, Video, Image
<1>3. CASE process' # "up" /\ PlayerDies
  BY <1>3, GoesOnDies
<1>4. CASE process' = "up" /\ UNCHANGED playerVars
  BY <1>1, <1>4 DEF playerVars, GoesOnInv, Video, Image
<1>5. QED
  BY <1>2, <1>3, <1>4 DEF TellPlayer

LEMMA GoesOnMessage ==
    ASSUME PlayersTyped, GoesOnInv, process = "up", HandleMessage
    PROVE  GoesOnInv'
<1>1. hazards' = hazards /\ process' = process /\ list' = list /\ camera' = camera
  BY DEF HandleMessage, FindNothing, PlayVideo, MissVideo, SwitchImage, vars
<1>2. CASE FindNothing
  BY <1>1, <1>2, OnePlayer DEF FindNothing, GoesOnInv, Video, Image
<1>3. CASE PlayVideo
  <2>1. uri' # NoFile
    BY <1>3, FollowingListed, LocalAssumption DEF PlayVideo, PlayersTyped
  <2>2. QED
    BY <1>1, <1>3, <2>1, OnePlayer DEF PlayVideo, GoesOnInv, Video, Image
<1>4. CASE MissVideo
  BY <1>1, <1>4, OnePlayer DEF MissVideo, GoesOnInv, Video, Image
<1>5. CASE SwitchImage
  BY <1>1, <1>5, OnePlayer DEF SwitchImage, GoesOnInv, Video, Image
<1>6. QED
  BY <1>2, <1>3, <1>4, <1>5 DEF HandleMessage

LEMMA GoesOnView ==
    ASSUME PlayersTyped, GoesOnInv, EndVideo \/ StopVideoPlay \/ RestartVideoPlay
    PROVE  GoesOnInv'
<1>1. hazards' = hazards /\ process' = process /\ list' = list /\ uri' = uri
  BY DEF EndVideo, StopVideoPlay, RestartVideoPlay, vars
<1>2. process = "up" /\ Video /\ ~Image
  BY OnePlayer DEF EndVideo, StopVideoPlay, RestartVideoPlay, GoesOnInv
<1>3. CASE EndVideo
  BY <1>1, <1>2, <1>3 DEF EndVideo, GoesOnInv, PlayersTyped, Video, Image
<1>4. CASE StopVideoPlay
  BY <1>1, <1>2, <1>4 DEF StopVideoPlay, GoesOnInv, Video, Image
<1>5. CASE RestartVideoPlay
  BY <1>1, <1>2, <1>5 DEF RestartVideoPlay, GoesOnInv, Video, Image
<1>6. QED
  BY <1>3, <1>4, <1>5

LEMMA GoesOnStep ==
    ASSUME Typed, PlayersTyped, GoesOnInv, [PlayersNext]_allVars
    PROVE  GoesOnInv'
<1>1. hazards' = hazards
  BY UpdateTakesTheStep, HazardsStay
<1>2. CASE UpdateStep /\ UNCHANGED playerVars
  <2>1. process' = process
    BY <1>2 DEF UpdateStep, Publish, Poll, Process, FetchFails, List, Unlist, Fail
  <2>2. QED
    BY <1>1, <1>2, <2>1 DEF playerVars, GoesOnInv, Video, Image
<1>3. CASE Kill /\ PlayerDies
  BY <1>3, GoesOnDies DEF Kill, Die
<1>4. CASE Restart /\ StartPlayer
  BY <1>1, <1>4, OnePlayer DEF Restart, StartPlayer, GoesOnInv, Video, Image
<1>5. CASE UNCHANGED allVars
  BY <1>5 DEF allVars, vars, playerVars, GoesOnInv, Video, Image
<1>6. CASE HandleMessage
  <2>1. process = "up"
    BY <1>6 DEF HandleMessage, FindNothing, PlayVideo, MissVideo, SwitchImage, GoesOnInv
  <2>2. QED
    BY <1>6, <2>1, GoesOnMessage
<1>7. QED
  BY <1>2, <1>3, <1>4, <1>5, <1>6, GoesOnTell, GoesOnView DEF PlayersNext, PlayerStep

(* The playing never stops by itself, and pictures have one message.         *)
THEOREM PlayingGoesOn == PlayersSpec => []PlayerGoesOn
<1>1. PlayersInit => Typed /\ PlayersTyped /\ GoesOnInv
  BY TypedInit, PlayersTypedInit, GoesOnInit DEF PlayersInit
<1>2. Typed /\ PlayersTyped /\ GoesOnInv /\ [PlayersNext]_allVars =>
        (Typed /\ PlayersTyped /\ GoesOnInv)'
  BY UpdateTakesTheStep, TypedStep, PlayersTypedStep, GoesOnStep
<1>3. GoesOnInv => PlayerGoesOn
  BY DEF GoesOnInv, PlayerGoesOn
<1>4. QED
  BY <1>1, <1>2, <1>3, PTL DEF PlayersSpec

-----------------------------------------------------------------------------
(* What is on the list is there: the list is replaced in the step that       *)
(* replaces the strategy, so it names files of the strategy that is shown.   *)
ListInv ==
    /\ Range(list) \subseteq FilesOf(container) \cup Local
    /\ Video \/ Image \/ list = <<>>

LEMMA PlaylistFiles ==
    ASSUME NEW ids \in SUBSET Ids
    PROVE  Range(PlaylistOf(ids)) \subseteq FilesOf(ids)
<1>1. SetToSeq(ids) \in [1 .. Cardinality(ids) -> ids]
  BY CountNat, SetToSeqSeq
<1>2. QED
  BY <1>1 DEF PlaylistOf, Range, FilesOf

LEMMA StartFiles ==
    ASSUME container \subseteq Ids, NEW files \in StartLists
    PROVE  Range(files) \subseteq FilesOf(container) \cup Local
<1>1. ASSUME files \in LocalLists PROVE Range(files) \subseteq Local
  <2>1. PICK copied \in SUBSET Local : files = SetToSeq(copied)
    BY <1>1 DEF LocalLists
  <2>2. IsFiniteSet(copied)
    BY LocalAssumption, FS_Subset
  <2>3. files \in [1 .. Cardinality(copied) -> copied]
    BY <2>1, <2>2, SetToSeqSeq
  <2>4. QED
    BY <2>3 DEF Range
<1>2. ASSUME NEW ids \in SUBSET container, files = PlaylistOf(ids)
      PROVE  Range(files) \subseteq FilesOf(container)
  BY <1>2, PlaylistFiles DEF FilesOf
<1>3. Range(<<>>) = {}
  BY DEF Range
<1>4. files \in LocalLists \/ files = <<>> \/ \E ids \in SUBSET container : files = PlaylistOf(ids)
  BY DEF StartLists, VideoLists, ImageLists
<1>5. QED
  BY <1>1, <1>2, <1>3, <1>4

LEMMA ListInvInit == PlayersInit => ListInv
<1> SUFFICES ASSUME PlayersInit PROVE ListInv
  OBVIOUS
<1>1. container \subseteq Ids /\ list \in StartLists
  BY DEF PlayersInit, Init
<1>2. QED
  BY <1>1, StartFiles DEF ListInv, StartLists

LEMMA ListInvTell ==
    ASSUME Typed, ListInv, NEW r \in Receivers, NEW f \in Files, TellPlayer(r, f)
    PROVE  ListInv'
<1>1. hazards' = hazards
  BY DEF TellPlayer, Tell
<1>2. CASE Applies(r) /\ UpdateWhenStrategyChanged(newMedia[r])
  <2>1. container' = newMedia[r]
    BY <1>2 DEF TellPlayer, Tell, Applies, Count, Apply, NullPointer, Die
  <2>2. CASE Video \/ Image
    <3>1. list' = PlaylistOf(newMedia[r])
      BY <1>2, <2>2 DEF UpdateWhenStrategyChanged
    <3>2. Range(PlaylistOf(newMedia[r])) \subseteq FilesOf(newMedia[r])
      BY PlaylistFiles DEF Typed
    <3>3. QED
      BY <1>1, <2>1, <2>2, <3>1, <3>2 DEF ListInv, FilesOf, Video, Image, Range
  <2>3. CASE ~(Video \/ Image)
    <3>1. list' = <<>>
      BY <1>2, <2>3 DEF UpdateWhenStrategyChanged, ListInv
    <3>2. QED
      BY <3>1 DEF ListInv, Range
  <2>4. QED
    BY <2>2, <2>3
<1>3. CASE PlayerDies
  BY <1>3 DEF PlayerDies, ListInv, Range
<1>4. CASE process' = "up" /\ ~Applies(r) /\ UNCHANGED playerVars
  <2>1. container' = container
    BY <1>4 DEF TellPlayer, Tell, Applies, Count, Apply, NullPointer, Die
  <2>2. QED
    BY <1>1, <1>4, <2>1 DEF playerVars, ListInv, FilesOf, Range, Video, Image
<1>5. QED
  BY <1>2, <1>3, <1>4 DEF TellPlayer

LEMMA ListInvStep == ASSUME Typed, ListInv, [PlayersNext]_allVars PROVE ListInv'
<1>1. hazards' = hazards
  BY UpdateTakesTheStep, HazardsStay
<1>2. CASE UNCHANGED <<container, list>>
  BY <1>1, <1>2 DEF ListInv, FilesOf, Range, Video, Image
<1>3. CASE UpdateStep /\ UNCHANGED playerVars
  <2>1. container' = container
    BY <1>3 DEF UpdateStep, Publish, Poll, Process, FetchFails, List, Unlist, Fail
  <2>2. QED
    BY <1>2, <1>3, <2>1 DEF playerVars
<1>4. CASE Kill /\ PlayerDies
  BY <1>4 DEF PlayerDies, ListInv, Range
<1>5. CASE Restart /\ StartPlayer
  <2>1. container' = container
    BY <1>5 DEF Restart
  <2>2. StartLists' = StartLists
    BY <1>1, <2>1 DEF StartLists, VideoLists, ImageLists, Video, Image
  <2>3. list' \in StartLists
    BY <1>5, <2>2 DEF StartPlayer
  <2>4. Range(list') \subseteq FilesOf(container) \cup Local
    BY <2>3, StartFiles DEF Typed
  <2>5. Video \/ Image \/ list' = <<>>
    BY <2>3 DEF StartLists
  <2>6. QED
    BY <1>1, <2>1, <2>4, <2>5 DEF ListInv, FilesOf, Range, Video, Image
<1>6. CASE PlayerStep \/ UNCHANGED allVars
  BY <1>2, <1>6 DEF PlayerStep, HandleMessage, FindNothing, PlayVideo, MissVideo, EndVideo,
                    SwitchImage, StopVideoPlay, RestartVideoPlay, allVars, vars, playerVars
<1>7. QED
  BY <1>3, <1>4, <1>5, <1>6, ListInvTell DEF PlayersNext

(* "This Video Should Exists!" (NewVideoMgr.java:68): every file on the list  *)
(* of a player is on the disk in full, or was copied there by hand, unless    *)
(* updates overlap, the service tells twice, the process is killed or a file  *)
(* changes its id.                                                            *)
ListedFilesExist ==
    hazards \cap {"overlap", "twice", "kill", "renamed"} = {} =>
        Range(list) \subseteq disk \cup Local

THEOREM ListedFilesAreThere == PlayersSpec => []ListedFilesExist
<1>1. PlayersInit => Typed /\ ListInv
  BY TypedInit, ListInvInit DEF PlayersInit
<1>2. Typed /\ ListInv /\ [PlayersNext]_allVars => (Typed /\ ListInv)'
  BY UpdateTakesTheStep, TypedStep, ListInvStep
<1>3. ListInv /\ PlaylistWhole => ListedFilesExist
  BY DEF ListInv, PlaylistWhole, ListedFilesExist
<1>4. QED
  BY <1>1, <1>2, <1>3, PlayersUseTheUpdate, PlayedFilesAreThere, PTL DEF PlayersSpec

=============================================================================
