----------------------------- MODULE RtmpPlayer -----------------------------
(***************************************************************************)
(* Playing a live stream: RtmpGuesterImpl, the AnyRtmplayerImpl it owns,   *)
(* and the AnyRtmpPull and the PlyDecoder with its play buffer that live   *)
(* from PLY_START to PLY_STOP.                                             *)
(*                                                                         *)
(* Five threads interleave: the caller's executor (exec), the thread of    *)
(* AnyRtmplayerImpl (player), which handles the messages, the thread of    *)
(* AnyRtmpPull (pull), the audio track (audioAt) and the thread of         *)
(* PlyDecoder (DecodeTick).  rtmp_pull_, ply_decoder_ and the      *)
(* video renderer are read by threads that do not own them, without a lock.*)
(*                                                                         *)
(* The calls of srs_librtmp answer success or failure: they carry socket   *)
(* timeouts.  Of what arrives only sound and pictures are told apart.      *)
(***************************************************************************)
EXTENDS PlayBuffer, Sequences

CONSTANTS
    MaxRetry,       \* MAX_RETRY_TIME
    MaxPending,     \* bound: no start while so many messages wait
    MaxTicks,       \* bound: no start while so many ticks go round
    HazardSets      \* what may happen; one of these sets is chosen initially

(* "restart"    StartRtmpPlay before the last PLY_STOP was handled           *)
(* "refuse"     the server may refuse a handshake, a connect or a play       *)
(* "nosocket"   srs_rtmp_create may find no socket and return NULL           *)
(* "silent"     nothing need arrive, or every read fails                     *)
(* "nosound"    the stream has no sound                                      *)
HazardKinds == {"restart", "refuse", "nosocket", "silent", "nosound"}

ASSUME RetryAssumption == MaxRetry \in Nat \ {0}
ASSUME BoundsAssumption == MaxPending \in Nat /\ MaxTicks \in Nat
ASSUME HazardSetsAssumption == HazardSets \subseteq SUBSET HazardKinds

VARIABLES
    hazards,        \* the hazards of this behaviour
    exec,           \* where the caller's executor is
    started,        \* av_rtmp_started_; the audio track plays while it holds
    msgs,           \* PLY_START and PLY_STOP posted to the player
    ticks,          \* how many PLY_TICK are posted
    player,         \* where the player's thread is
    pull,           \* where the pull thread is, "none" if there is no object
    running,        \* AnyRtmpPull.running_
    status,         \* AnyRtmpPull.rtmp_status_
    rtmp,           \* AnyRtmpPull.rtmp_: "none" is NULL, "shut" is disconnected
    retry,          \* AnyRtmpPull.retry_ct_
    connected,      \* AnyRtmpPull.connected_
    decoder,        \* ply_decoder_, "none" if NULL, else its renderer
    audioAt,        \* where the audio track is in GetNeedPlayAudio
    told            \* what the application was last told of this play

callVars   == <<exec, started>>
postVars   == <<msgs, ticks>>
pullVars   == <<pull, running, status, rtmp, retry, connected>>
vars == <<hazards, callVars, postVars, player, pullVars, decoder, audioAt,
          told, bufVars>>

-----------------------------------------------------------------------------
Messages  == {"PLY_START", "PLY_STOP"}
Statuses  == {"Init", "Handshaked", "Connected", "Played", "Closed"}
Blocking  == {"handshake", "connect", "play"}
PullSteps == Blocking \cup
    {"poll", "connected", "lost", "reset", "stopPlay", "tellClosed", "exited"}
StopSteps == {"closing", "joining", "deleting"}

PlayTypeOK ==
    /\ BufferTypeOK
    /\ hazards \in HazardSets
    /\ exec \in {"idle", "stopping", "quitting", "gone"} /\ started \in BOOLEAN
    /\ msgs \in Seq(Messages) /\ ticks \in Nat
    /\ player \in StopSteps \cup {"idle", "tick"}
    /\ pull \in PullSteps \cup {"none"}
    /\ running \in BOOLEAN /\ status \in Statuses
    /\ rtmp \in {"none", "open", "shut"}
    /\ retry \in 0 .. MaxRetry + 1 /\ connected \in BOOLEAN
    /\ decoder \in {"none", "shown", "freed"}
    /\ audioAt \in {"out", "in", "taking"}
    /\ told \in {"nothing", "ok", "refused", "lost"}

Init ==
    /\ BufferInit
    /\ hazards \in HazardSets
    /\ exec = "idle" /\ started = FALSE
    /\ msgs = <<>> /\ ticks = 0 /\ player = "idle"
    /\ pull = "none" /\ running = FALSE /\ status = "Closed" /\ rtmp = "none"
    /\ retry = 0 /\ connected = FALSE
    /\ decoder = "none"
    /\ audioAt = "out" /\ told = "nothing"

-----------------------------------------------------------------------------
(* The caller.                                                              *)

Pending(m) == \E i \in DOMAIN msgs : msgs[i] = m
StopPending == player \in StopSteps \/ Pending("PLY_STOP")
TicksAlive == ticks > 0 \/ player = "tick"

(* A message posted to a thread that was told to quit is dropped. *)
Post(m) == msgs' = IF exec = "quitting" THEN msgs ELSE Append(msgs, m)

(* StopPlay *)
StopPlay == ticks' = 0 /\ Post("PLY_STOP")

(* Mutant: the first tick is not posted. *)
StartRtmpPlayWithoutTick ==
    /\ exec = "idle" /\ ~started
    /\ Len(msgs) < MaxPending /\ ticks < MaxTicks
    /\ StopPending => "restart" \in hazards
    /\ started' = TRUE
    /\ Post("PLY_START")
    /\ UNCHANGED <<hazards, exec, ticks, player, pullVars, decoder, audioAt,
                   told, bufVars>>

StartRtmpPlay ==
    /\ exec = "idle" /\ ~started
    /\ Len(msgs) < MaxPending /\ ticks < MaxTicks
    /\ StopPending => "restart" \in hazards
    /\ started' = TRUE
    /\ Post("PLY_START") /\ ticks' = ticks + 1
    /\ UNCHANGED <<hazards, exec, player, pullVars, decoder, audioAt, told, bufVars>>

CallStop ==
    /\ exec = "idle" /\ started
    /\ exec' = "stopping"
    /\ UNCHANGED <<hazards, started, postVars, player, pullVars, decoder,
                   audioAt, told, bufVars>>

(* The renderer of a decoder that was made for this play is freed under it. *)
FreeRender == decoder' = IF decoder = "none" THEN "none" ELSE "freed"

(* Mutant: StopAudioTrack does not wait for the track. *)
StopRtmpPlayWithoutJoin ==
    /\ exec = "stopping"
    /\ exec' = "idle" /\ started' = FALSE
    /\ StopPlay /\ FreeRender
    /\ UNCHANGED <<hazards, player, pullVars, audioAt, told, bufVars>>

(* Mutant: the player is not told to stop. *)
StopRtmpPlayWithoutPost ==
    /\ exec = "stopping" /\ audioAt = "out"
    /\ exec' = "idle" /\ started' = FALSE
    /\ ticks' = 0 /\ FreeRender
    /\ UNCHANGED <<hazards, msgs, player, pullVars, audioAt,
                   told, bufVars>>

(* StopAudioTrack lets the audio track call back no more and joins it. *)
StopRtmpPlay ==
    /\ exec = "stopping" /\ audioAt = "out"
    /\ exec' = "idle" /\ started' = FALSE
    /\ StopPlay /\ FreeRender
    /\ UNCHANGED <<hazards, player, pullVars, audioAt, told, bufVars>>

(* The destructor stops the play once more; the thread that quits still      *)
(* handles what was posted before.                                           *)
Clear ==
    /\ exec = "idle" /\ ~started
    /\ exec' = "quitting"
    /\ StopPlay
    /\ UNCHANGED <<hazards, started, player, pullVars, decoder, audioAt, told, bufVars>>

Destroy ==
    /\ exec = "quitting" /\ player = "idle" /\ msgs = <<>>
    /\ exec' = "gone"
    /\ UNCHANGED <<hazards, started, postVars, player, pullVars, decoder,
                   audioAt, told, bufVars>>

-----------------------------------------------------------------------------
(* The thread of AnyRtmplayerImpl.                                          *)

(* Mutant: the connection is given up without a word. *)
CreatedNothing == {"none"}

(* srs_rtmp_create *)
Created == IF "nosocket" \in hazards THEN {"open", "none"} ELSE {"open"}

(* The constructor of AnyRtmpPull, which starts its thread. *)
NewPull ==
    /\ pull' = "poll" /\ running' = TRUE /\ status' = "Init"
    /\ rtmp' \in Created
    /\ retry' = 0 /\ connected' = FALSE
    /\ told' = "nothing"

(* The renderer is the one set by the last StartRtmpPlay, which               *)
(* StopRtmpPlay may have freed since.                                        *)
HandleStart ==
    /\ player = "idle" /\ msgs # <<>> /\ Head(msgs) = "PLY_START"
    /\ msgs' = Tail(msgs)
    /\ IF decoder = "none"
       THEN decoder' = (IF started THEN "shown" ELSE "freed") /\ NewBuffer
       ELSE UNCHANGED <<decoder, bufVars>>
    /\ \/ pull = "none" /\ NewPull
       \/ pull # "none" /\ UNCHANGED <<pullVars, told>>
    /\ UNCHANGED <<hazards, callVars, ticks, player, audioAt>>

HandleStop ==
    /\ player = "idle" /\ msgs # <<>> /\ Head(msgs) = "PLY_STOP"
    /\ msgs' = Tail(msgs)
    /\ IF pull = "none"
       THEN player' = "deleting" /\ UNCHANGED <<running, status>>
       ELSE player' = "closing" /\ running' = FALSE /\ status' = "Closed"
    /\ UNCHANGED <<hazards, callVars, ticks, pull, rtmp, retry, connected,
                   decoder, audioAt, told, bufVars>>

HoldsCsRtmp == pull \in {"reset", "stopPlay", "tellClosed"}

(* The destructor of AnyRtmpPull. *)
Disconnect ==
    /\ player = "closing" /\ ~HoldsCsRtmp
    /\ player' = "joining"
    /\ rtmp' = IF rtmp = "open" THEN "shut" ELSE rtmp
    /\ UNCHANGED <<hazards, callVars, postVars, pull, running, status, retry,
                   connected, decoder, audioAt, told, bufVars>>

Join ==
    /\ player = "joining" /\ pull = "exited"
    /\ player' = "deleting"
    /\ pull' = "none" /\ running' = FALSE /\ status' = "Closed" /\ rtmp' = "none"
    /\ retry' = 0 /\ connected' = FALSE
    /\ UNCHANGED <<hazards, callVars, postVars, decoder, audioAt, told, bufVars>>

(* Mutant: only the connection is deleted. *)
KeepDecoder ==
    /\ player = "deleting"
    /\ player' = "idle"
    /\ UNCHANGED <<hazards, callVars, postVars, pullVars, decoder, audioAt, told, bufVars>>

(* The destructor of PlyDecoder joins its thread, which returns from Decode. *)
DeleteDecoder ==
    /\ player = "deleting"
    /\ player' = "idle"
    /\ decoder' = "none" /\ NewBuffer
    /\ UNCHANGED <<hazards, callVars, postVars, pullVars, audioAt, told>>

(* The application is told the cache time; then the tick is posted again,    *)
(* even if StopPlay has cleared the queue in between.                        *)
HandleTick ==
    /\ player = "idle" /\ ticks > 0
    /\ player' = "tick" /\ ticks' = ticks - 1
    /\ UNCHANGED <<hazards, callVars, msgs, pullVars, decoder, audioAt, told, bufVars>>

Repost ==
    /\ player = "tick"
    /\ player' = "idle"
    /\ ticks' = IF exec = "quitting" THEN ticks ELSE ticks + 1
    /\ UNCHANGED <<hazards, callVars, msgs, pullVars, decoder, audioAt, told, bufVars>>

-----------------------------------------------------------------------------
(* The pull thread.                                                         *)

CallOf == [Init |-> "handshake", Handshaked |-> "connect", Connected |-> "play"]

(* Mutant: running_ is looked at only while there is a connection. *)
PollWithoutConnection ==
    /\ pull = "poll"
    /\ pull' = IF rtmp = "none" THEN "poll"
               ELSE IF ~running THEN "exited"
               ELSE IF status \notin DOMAIN CallOf THEN "poll"
               ELSE CallOf[status]
    /\ UNCHANGED <<hazards, callVars, postVars, player, running, status, rtmp,
                   retry, connected, decoder, audioAt, told, bufVars>>

Poll ==
    /\ pull = "poll"
    /\ pull' = IF ~running THEN "exited"
               ELSE IF rtmp = "none" \/ status \notin DOMAIN CallOf THEN "poll"
               ELSE CallOf[status]
    /\ UNCHANGED <<hazards, callVars, postVars, player, running, status, rtmp,
                   retry, connected, decoder, audioAt, told, bufVars>>

(* The status is written without a look at what it was. *)
Succeed ==
    /\ pull \in Blocking
    /\ CASE pull = "handshake" -> status' = "Handshaked" /\ pull' = "poll"
         [] pull = "connect"   -> status' = "Connected" /\ pull' = "poll"
         [] pull = "play"      -> status' = "Played" /\ pull' = "connected"
    /\ UNCHANGED <<hazards, callVars, postVars, player, running, rtmp, retry,
                   connected, decoder, audioAt, told, bufVars>>

(* CallConnect *)
CallConnect ==
    /\ pull = "connected"
    /\ pull' = "poll"
    /\ retry' = 0 /\ connected' = TRUE /\ told' = "ok"
    /\ UNCHANGED <<hazards, callVars, postVars, player, running, status, rtmp,
                   decoder, audioAt, bufVars>>

Fail ==
    /\ pull \in Blocking
    /\ "refuse" \in hazards \/ rtmp # "open"
    /\ pull' = "lost"
    /\ UNCHANGED <<hazards, callVars, postVars, player, running, status, rtmp,
                   retry, connected, decoder, audioAt, told, bufVars>>

(* CallDisconnect: the connection is dropped and the status looked at ... *)
DropConnection ==
    /\ pull = "lost"
    /\ rtmp' = "none"
    /\ pull' = IF status # "Closed" THEN "reset" ELSE "poll"
    /\ UNCHANGED <<hazards, callVars, postVars, player, running, status, retry,
                   connected, decoder, audioAt, told, bufVars>>

(* Mutants: one attempt more than may be made, one less. *)
MayRetryOnceMore(n) == n <= MaxRetry + 1
MayRetryBefore(n) == n < MaxRetry

MayRetry(n) == n <= MaxRetry

(* ... then written, RS_PLY_Closed being lost, and a new one created. *)
Reset ==
    /\ pull = "reset"
    /\ status' = "Init" /\ retry' = retry + 1
    /\ IF MayRetry(retry')
       THEN rtmp' \in Created /\ pull' = "poll"
       ELSE UNCHANGED rtmp /\ pull' = "stopPlay"
    /\ UNCHANGED <<hazards, callVars, postVars, player, running, connected,
                   decoder, audioAt, told, bufVars>>

(* OnRtmpullFailed and OnRtmpullDisconnect stop the play, whichever it is ... *)
StopFailedPlay ==
    /\ pull = "stopPlay"
    /\ pull' = "tellClosed"
    /\ StopPlay
    /\ UNCHANGED <<hazards, callVars, player, running, status, rtmp, retry,
                   connected, decoder, audioAt, told, bufVars>>

(* ... and tell the code, after the 0 that StopPlay has told. *)
TellClosed ==
    /\ pull = "tellClosed"
    /\ pull' = "poll"
    /\ told' = IF connected THEN "lost" ELSE "refused"
    /\ UNCHANGED <<hazards, callVars, postVars, player, running, status, rtmp,
                   retry, connected, decoder, audioAt, bufVars>>

(* DoReadData.  The result of a failed read is thrown away: it looks like a   *)
(* packet without a type, so it and what is neither sound nor picture change  *)
(* nothing, and CallDisconnect is not called.                                *)
Reading == pull = "poll" /\ running /\ status = "Played" /\ rtmp # "none"

ReadVideo ==
    /\ Reading /\ rtmp = "open" /\ "silent" \notin hazards
    /\ CacheH264Data
    /\ UNCHANGED <<hazards, callVars, postVars, player, pullVars, decoder, audioAt, told>>

ReadAudio ==
    /\ Reading /\ rtmp = "open" /\ {"silent", "nosound"} \cap hazards = {}
    /\ CachePcmData
    /\ UNCHANGED <<hazards, callVars, postVars, player, pullVars, decoder, audioAt, told>>

-----------------------------------------------------------------------------
(* The decoder's thread and the audio track.                                *)

(* What is due goes to the decoder, which draws on the renderer. *)
DecodeTick ==
    /\ decoder # "none" /\ DoDecode
    /\ UNCHANGED <<hazards, callVars, postVars, player, pullVars, decoder,
                   audioAt, told>>

Time ==
    /\ Elapse
    /\ UNCHANGED <<hazards, callVars, postVars, player, pullVars, decoder,
                   audioAt, told>>

(* GetNeedPlayAudio finds ply_decoder_ set and looks at playing_ ... *)
EnterAudio ==
    /\ audioAt = "out" /\ started /\ exec # "stopping" /\ decoder # "none"
    /\ audioAt' = IF playing THEN "taking" ELSE "in"
    /\ UNCHANGED <<hazards, callVars, postVars, player, pullVars, decoder,
                   told, bufVars>>

(* ... and then takes a packet, if the object is still there. *)
LeaveAudio ==
    /\ audioAt # "out"
    /\ audioAt' = "out"
    /\ IF audioAt = "taking" /\ decoder # "none" THEN GetPlayAudio
                                                 ELSE UNCHANGED bufVars
    /\ UNCHANGED <<hazards, callVars, postVars, player, pullVars, decoder, told>>

-----------------------------------------------------------------------------
Caller == StartRtmpPlay \/ CallStop \/ Clear
Executor == StopRtmpPlay \/ Destroy
Messaging == HandleStart \/ HandleStop \/ Disconnect \/ Join \/ DeleteDecoder
Ticking == HandleTick \/ Repost
PullThread ==
    \/ Poll \/ Succeed \/ CallConnect \/ Fail \/ DropConnection \/ Reset
    \/ StopFailedPlay \/ TellClosed \/ ReadVideo \/ ReadAudio

Next ==
    \/ Caller \/ Executor \/ Messaging \/ Ticking \/ PullThread
    \/ DecodeTick \/ Time \/ EnterAudio \/ LeaveAudio

(* Every thread runs.  The player's thread takes its messages in the order    *)
(* they fall due, so ticks do not keep it from the others.  A server that is  *)
(* neither silent nor without sound goes on sending both media.               *)
Fairness ==
    /\ WF_vars(Executor) /\ SF_vars(Messaging) /\ WF_vars(Repost)
    /\ WF_vars(PullThread) /\ WF_vars(ReadVideo) /\ WF_vars(ReadAudio)
    /\ WF_vars(DecodeTick) /\ WF_vars(LeaveAudio) /\ WF_vars(Time)

Spec == Init /\ [][Next]_vars /\ Fairness

-----------------------------------------------------------------------------
(* A play that the caller started, and whose messages are handled, has its    *)
(* connection and its tick unless it was refused.  A refused play that is     *)
(* stopped late takes the next one with it: only when the caller starts again *)
(* before PLY_STOP was handled (anyrtmplayer.cc:77, 130).                     *)
StartedPlayIsAlive ==
    started /\ exec = "idle" /\ told # "refused" /\ "restart" \notin hazards =>
        /\ msgs = <<>> /\ player \notin StopSteps => pull # "none"
        /\ TicksAlive \/ pull = "tellClosed"

(* The audio track is never inside a deleted decoder, unless a refused play   *)
(* is stopped under it or a play is started while the last one is being       *)
(* stopped (anyrtmplayer.cc:104, 158).                                        *)
AudioOutsideDeleted ==
    audioAt # "out" /\ decoder = "none" => hazards \cap {"refuse", "restart"} # {}

(* A renderer that was freed is drawn on only until the PLY_STOP posted       *)
(* before it was freed has been handled (RtmpGuesterImpl.cc:77).              *)
FreedRenderOnlyUntilStop == decoder = "freed" => StopPending

(* CallDisconnect counts the attempts of a play and tells its end as          *)
(* PlayEvents says: refused if it was never connected, lost if it was, and    *)
(* either only when MAX_RETRY_TIME attempts were made again, however stops,   *)
(* starts and the destructor of AnyRtmpPull come in between                   *)
(* (anyrtmpull.cc:423-442).  It does not say that every loss is noticed.      *)
Events == INSTANCE PlayEvents
    WITH live <- pull # "none", outcome <- told, tries <- retry
OutcomeAsPromised == Events!Spec

(* A pause is never shorter than the one before (plybuffer.cc:206).           *)
PausesGrow == [][decoder # "none" /\ decoder' # "none" => cacheTime' >= cacheTime]_vars

(* StopRtmpPlay, PLY_STOP and the destructor come to an end, whatever the     *)
(* pull thread is doing.                                                      *)
PlayStopCompletes ==
    /\ player \in StopSteps ~> player \notin StopSteps
    /\ exec \in {"stopping", "quitting"} ~> exec \in {"idle", "gone"}

(* A stopped play ends, also when start and stop overtake the messages.       *)
StoppedPlayEnds == ~started ~> (pull = "none" /\ decoder = "none") \/ started

(* A play is reported ok or refused as long as sockets can be had.            *)
PlayIsReported ==
    pull # "none" /\ told = "nothing" /\ "nosocket" \notin hazards
        ~> pull = "none" \/ told # "nothing"

(* A connected stream that goes on sending is played, and played again after  *)
(* every pause (plybuffer.cc:141, 222).                                       *)
StreamIsPlayed ==
    status = "Played" /\ hazards \cap {"silent"} = {}
        ~> playing \/ ~running

=============================================================================
