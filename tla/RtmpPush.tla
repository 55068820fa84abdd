------------------------------ MODULE RtmpPush ------------------------------
(***************************************************************************)
(* Pushing a live stream over RTMP: RtmpHosterImpl, the AnyRtmpStreamer it *)
(* owns, the AnyRtmpPush that lives from MSG_START_RTMP to MSG_STOP_RTMP,  *)
(* and the audio and video encoders.                                       *)
(*                                                                         *)
(* Five threads interleave: the caller's executor ("exec"), which starts   *)
(* and stops the stream and at last destroys the hoster; the worker thread *)
(* of AnyRtmpCore ("core"), which handles the two messages; the thread of  *)
(* AnyRtmpPush; the audio record thread; the thread of V_H264Encoder.      *)
(* They share cs_av_rtmp_ (csAv), the audio encoder's buffer_critsect_     *)
(* (held exactly while `audio` is not "idle") and cs_rtmp_ (held by the    *)
(* push thread from "reset" to the end of the callback).                   *)
(*                                                                         *)
(* Abstractions.  Of the list of encoded units only the first one queued   *)
(* since it was emptied is kept; which are still unsent is left open.  An  *)
(* encoded frame is one unit, a key frame (SPS, PPS and IDR) or a delta.   *)
(* The calls of srs_librtmp answer success or failure: they carry socket   *)
(* timeouts.                                                               *)
(***************************************************************************)
EXTENDS Naturals, Sequences

CONSTANTS
    MaxRetry,       \* MAX_RETRY_TIME
    MaxDelayed,     \* bound: no start while so many are delayed
    HazardSets      \* what may happen; one of these sets is chosen initially

(* "quickstop"  StopRtmpStream while MSG_START_RTMP is still delayed         *)
(* "restart"    StartRtmpStream before the last MSG_STOP_RTMP was handled    *)
(* "clear"      the hoster is destroyed with messages pending                *)
(* "nosocket"   srs_rtmp_create may find no socket and return NULL           *)
(* "nocamera"   no video capturer was set: the stream has only sound         *)
HazardKinds == {"quickstop", "restart", "clear", "nosocket", "nocamera"}

ASSUME RetryAssumption == MaxRetry \in Nat \ {0}
ASSUME DelayedAssumption == MaxDelayed \in Nat
ASSUME HazardSetsAssumption == HazardSets \subseteq SUBSET HazardKinds

VARIABLES
    hazards,        \* the hazards of this behaviour
    started,        \* av_rtmp_started_; audio and frames flow while it holds
    msgs,           \* the message queue of AnyRtmpCore
    delayed,        \* how many MSG_START_RTMP wait for their 500 ms
    at,             \* where "exec" and "core" are
    csAv,           \* who holds cs_av_rtmp_
    push,           \* where the push thread is, "none" if there is no object
    running,        \* AnyRtmpPush.running_
    status,         \* AnyRtmpPush.rtmp_status_
    rtmp,           \* AnyRtmpPush.rtmp_: "none" is NULL, "shut" is disconnected
    retrys,         \* AnyRtmpPush.retrys_
    needKey,        \* AnyRtmpPush.need_keyframe_
    audio,          \* where the audio record thread is in A_AACEncoder.OnData
    aacOn,          \* A_AACEncoder.encoded_
    video,          \* where the thread of V_H264Encoder is
    vOn,            \* V_H264Encoder.encoded_
    vNeedKey,       \* V_H264Encoder.need_keyframe_
    frame,          \* whether a captured frame waits in render_buffers_
    told,           \* the last callback the application got from this stream
    times,          \* the number of the last OnRtmpStreamReconnecting
    first           \* lst_enc_data_: the first unit queued since it was emptied,
                    \* "late" if a unit had passed the key frame test by then

hosterVars  == <<started, msgs, delayed>>
pushVars    == <<push, running, status, rtmp, retrys, needKey>>
audioVars   == <<audio, aacOn>>
videoVars   == <<video, vOn, vNeedKey, frame>>
toldVars    == <<told, times>>
vars == <<hazards, hosterVars, at, csAv, pushVars, first, audioVars,
          videoVars, toldVars>>

-----------------------------------------------------------------------------
Messages  == {"MSG_START_RTMP", "MSG_STOP_RTMP"}
Statuses  == {"Init", "Handshaked", "Connected", "Published", "Closed"}
Blocking  == {"handshake", "connect", "publish"}
PushSteps == Blocking \cup
    {"poll", "send", "clear", "startVideo", "startAudio", "lost", "reset",
     "stopVideo", "stopAudio", "exited"}
StopSteps == {"acquire", "closing", "joining", "stopVideo", "stopAudio"}

TypeOK ==
    /\ hazards \in HazardSets
    /\ started \in BOOLEAN /\ msgs \in Seq(Messages)
    /\ delayed \in Nat
    /\ at \in [{"exec", "core"} -> StopSteps \cup {"idle", "stopping", "destroy", "gone"}]
    /\ csAv \in {"free", "exec", "core", "audio", "video"}
    /\ push \in PushSteps \cup {"none"}
    /\ running \in BOOLEAN /\ status \in Statuses
    /\ rtmp \in {"none", "open", "shut"}
    /\ retrys \in Nat /\ needKey \in BOOLEAN
    /\ audio \in {"idle", "encoded", "passed"} /\ aacOn \in BOOLEAN
    /\ video \in {"idle", "key", "delta", "keyPassed", "deltaPassed"}
    /\ vOn \in BOOLEAN /\ vNeedKey \in BOOLEAN /\ frame \in BOOLEAN
    /\ told \in {"nothing", "ok", "reconnecting", "failed"} /\ times \in Nat
    /\ first \in {"none", "late", "aac", "key", "delta"}

Init ==
    /\ hazards \in HazardSets
    /\ started = FALSE /\ msgs = <<>> /\ delayed = 0
    /\ at = [t \in {"exec", "core"} |-> "idle"]
    /\ csAv = "free"
    /\ push = "none" /\ running = FALSE /\ status = "Closed" /\ rtmp = "none"
    /\ retrys = 0 /\ needKey = TRUE
    /\ first = "none"
    /\ audio = "idle" /\ aacOn = FALSE
    /\ video = "idle" /\ vOn = FALSE /\ vNeedKey = TRUE /\ frame = FALSE
    /\ told = "nothing" /\ times = 0

-----------------------------------------------------------------------------
(* The caller.                                                              *)

StopPending == at["core"] # "idle" \/ \E i \in DOMAIN msgs : msgs[i] = "MSG_STOP_RTMP"
camera == "nocamera" \notin hazards
Quiet == at["core"] = "idle" /\ msgs = <<>> /\ delayed = 0

StartRtmpStream ==
    /\ at["exec"] = "idle" /\ ~started
    /\ delayed < MaxDelayed
    /\ StopPending => "restart" \in hazards
    /\ started' = TRUE /\ delayed' = delayed + 1
    /\ UNCHANGED <<hazards, msgs, at, csAv, pushVars, first, audioVars,
                   videoVars, toldVars>>

CallStop ==
    /\ at["exec"] = "idle" /\ started
    /\ (delayed > 0 \/ \E i \in DOMAIN msgs : msgs[i] = "MSG_START_RTMP")
           => "quickstop" \in hazards
    /\ at' = [at EXCEPT !["exec"] = "stopping"]
    /\ UNCHANGED <<hazards, hosterVars, csAv, pushVars, first, audioVars,
                   videoVars, toldVars>>

(* Mutant: StopAudioRecord does not wait for the record thread. *)
StopRtmpStreamWithoutJoin ==
    /\ at["exec"] = "stopping"
    /\ started' = FALSE
    /\ msgs' = Append(msgs, "MSG_STOP_RTMP")
    /\ at' = [at EXCEPT !["exec"] = "idle"]
    /\ UNCHANGED <<hazards, delayed, csAv, pushVars, first, audioVars, videoVars,
                   toldVars>>

(* StopAudioRecord takes cs_audio_record_, which the record thread holds for *)
(* as long as it is in OnData, and then joins that thread.                   *)
StopRtmpStream ==
    /\ at["exec"] = "stopping" /\ audio = "idle"
    /\ started' = FALSE
    /\ msgs' = Append(msgs, "MSG_STOP_RTMP")
    /\ at' = [at EXCEPT !["exec"] = "idle"]
    /\ UNCHANGED <<hazards, delayed, csAv, pushVars, first,
                   audioVars, videoVars, toldVars>>

(* Close first invokes SetVideoCapturer(NULL) on the worker thread, which    *)
(* answers between two messages; the destructor then stops the stream.       *)
Clear ==
    /\ at["exec"] = "idle" /\ ~started
    /\ at["core"] = "idle"
    /\ ~Quiet => "clear" \in hazards
    /\ at' = [at EXCEPT !["exec"] = "acquire"]
    /\ UNCHANGED <<hazards, hosterVars, csAv, pushVars, first, audioVars,
                   videoVars, toldVars>>

-----------------------------------------------------------------------------
(* The worker thread.                                                       *)

(* Mutant: a delayed message is delivered again and again. *)
DueWithoutTest ==
    /\ Len(msgs) < 2
    /\ delayed' = delayed - 1 /\ msgs' = Append(msgs, "MSG_START_RTMP")
    /\ UNCHANGED <<hazards, started, at, csAv, pushVars, first, audioVars,
                   videoVars, toldVars>>

Due ==
    /\ delayed > 0
    /\ delayed' = delayed - 1 /\ msgs' = Append(msgs, "MSG_START_RTMP")
    /\ UNCHANGED <<hazards, started, at, csAv, pushVars, first,
                   audioVars, videoVars, toldVars>>

(* Mutant: the connection is given up without a word. *)
CreatedNothing == {"none"}

(* srs_rtmp_create *)
Created == IF "nosocket" \in hazards THEN {"open", "none"} ELSE {"open"}

(* The constructor of AnyRtmpPush, which starts its thread. *)
NewPush ==
    /\ push = "none"
    /\ push' = "poll" /\ running' = TRUE /\ status' = "Init"
    /\ rtmp' \in Created
    /\ retrys' = 0 /\ needKey' = TRUE
    /\ first' = "none"
    /\ told' = "nothing" /\ times' = 0

HandleStart ==
    /\ at["core"] = "idle" /\ msgs # <<>> /\ Head(msgs) = "MSG_START_RTMP"
    /\ csAv = "free"
    /\ msgs' = Tail(msgs)
    /\ \/ NewPush
       \/ push # "none" /\ UNCHANGED <<pushVars, first, toldVars>>
    /\ UNCHANGED <<hazards, started, delayed, at, csAv, audioVars, videoVars>>

(* Mutant: MSG_STOP_RTMP is dropped. *)
HandleStopIgnored ==
    /\ at["core"] = "idle" /\ msgs # <<>> /\ Head(msgs) = "MSG_STOP_RTMP"
    /\ msgs' = Tail(msgs)
    /\ UNCHANGED <<hazards, started, delayed, at, csAv, pushVars, first,
                   audioVars, videoVars, toldVars>>

HandleStop ==
    /\ at["core"] = "idle" /\ msgs # <<>> /\ Head(msgs) = "MSG_STOP_RTMP"
    /\ msgs' = Tail(msgs)
    /\ at' = [at EXCEPT !["core"] = "acquire"]
    /\ UNCHANGED <<hazards, started, delayed, csAv, pushVars, first,
                   audioVars, videoVars, toldVars>>

-----------------------------------------------------------------------------
(* StopStream, run by "core" for MSG_STOP_RTMP and by "exec" in Clear.       *)

AcquireRtmp(t) ==
    /\ at[t] = "acquire" /\ csAv = "free"
    /\ IF push = "none"
       THEN /\ at' = [at EXCEPT ![t] = "stopVideo"]
            /\ UNCHANGED <<csAv, running, status>>
       ELSE /\ at' = [at EXCEPT ![t] = "closing"]
            /\ csAv' = t /\ running' = FALSE /\ status' = "Closed"
    /\ UNCHANGED <<hazards, hosterVars, push, rtmp, retrys, needKey, first,
                   audioVars, videoVars, toldVars>>

HoldsCsRtmp == push \in {"reset", "stopVideo", "stopAudio"}

Disconnect(t) ==
    /\ at[t] = "closing" /\ ~HoldsCsRtmp
    /\ at' = [at EXCEPT ![t] = "joining"]
    /\ rtmp' = IF rtmp = "open" THEN "shut" ELSE rtmp
    /\ UNCHANGED <<hazards, hosterVars, csAv, push, running, status, retrys,
                   needKey, first, audioVars, videoVars, toldVars>>

(* Thread::Stop joins the push thread; then its object is freed. *)
NoPush ==
    /\ push' = "none" /\ running' = FALSE /\ status' = "Closed" /\ rtmp' = "none"
    /\ retrys' = 0 /\ needKey' = TRUE
    /\ first' = "none"
    /\ told' = "nothing" /\ times' = 0

Join(t) ==
    /\ at[t] = "joining" /\ push = "exited"
    /\ at' = [at EXCEPT ![t] = "stopVideo"]
    /\ csAv' = "free"
    /\ NoPush
    /\ UNCHANGED <<hazards, hosterVars, audioVars, videoVars>>

StopVideoEncoder(t) ==
    /\ at[t] = "stopVideo"
    /\ at' = [at EXCEPT ![t] = "stopAudio"]
    /\ vOn' = FALSE
    /\ UNCHANGED <<hazards, hosterVars, csAv, pushVars, first, audioVars,
                   video, vNeedKey, frame, toldVars>>

StopAudioEncoder(t) ==
    /\ at[t] = "stopAudio" /\ audio = "idle"
    /\ at' = [at EXCEPT ![t] = IF t = "exec" THEN "destroy" ELSE "idle"]
    /\ aacOn' = FALSE
    /\ UNCHANGED <<hazards, hosterVars, csAv, pushVars, first, audio,
                   videoVars, toldVars>>

(* Mutant: the video encoder does not join its thread. *)
DestroyWithoutJoin ==
    /\ at["exec"] = "destroy"
    /\ at' = [at EXCEPT !["exec"] = "gone"]
    /\ msgs' = <<>> /\ delayed' = 0 /\ frame' = FALSE
    /\ UNCHANGED <<hazards, started, csAv, pushVars, first, audioVars, video, vOn,
                   vNeedKey, toldVars>>

(* The streamer is deleted: V_H264Encoder joins its thread.  The messages of *)
(* the hoster go with it.                                                    *)
Destroy ==
    /\ at["exec"] = "destroy" /\ video = "idle"
    /\ at' = [at EXCEPT !["exec"] = "gone"]
    /\ msgs' = <<>> /\ delayed' = 0 /\ frame' = FALSE
    /\ UNCHANGED <<hazards, started, csAv, pushVars, first,
                   audioVars, video, vOn, vNeedKey, toldVars>>

-----------------------------------------------------------------------------
(* The push thread.                                                         *)

CallOf == [Init |-> "handshake", Handshaked |-> "connect",
           Connected |-> "publish", Published |-> "send"]

(* Mutant: running_ is looked at only while there is a connection. *)
PollWithoutConnection ==
    /\ push = "poll"
    /\ push' = IF rtmp = "none" THEN "poll"
               ELSE IF ~running THEN "exited"
               ELSE IF status = "Closed" THEN "poll"
               ELSE CallOf[status]
    /\ UNCHANGED <<hazards, hosterVars, at, csAv, running, status, rtmp, retrys,
                   needKey, first, audioVars, videoVars, toldVars>>

Poll ==
    /\ push = "poll"
    /\ push' = IF ~running THEN "exited"
               ELSE IF rtmp = "none" \/ status = "Closed" THEN "poll"
               ELSE CallOf[status]
    /\ UNCHANGED <<hazards, hosterVars, at, csAv, running, status, rtmp, retrys,
                   needKey, first, audioVars, videoVars, toldVars>>

(* The status is written without a look at what it was: RS_STM_Closed, set by *)
(* the destructor during the call, is lost.                                   *)
Succeed ==
    /\ push \in Blocking
    /\ CASE push = "handshake" -> status' = "Handshaked" /\ push' = "poll"
         [] push = "connect"   -> status' = "Connected" /\ push' = "poll"
         [] push = "publish"   -> status' = "Published" /\ push' = "clear"
    /\ IF push = "publish" THEN needKey' = TRUE /\ retrys' = 0
                           ELSE UNCHANGED <<needKey, retrys>>
    /\ UNCHANGED <<hazards, hosterVars, at, csAv, running, rtmp, first,
                   audioVars, videoVars, toldVars>>

Fail ==
    /\ push \in Blocking \/ (push = "send" /\ first # "none")
    /\ push' = "lost" /\ needKey' = TRUE
    /\ UNCHANGED <<hazards, hosterVars, at, csAv, running, status, rtmp, retrys,
                   first, audioVars, videoVars, toldVars>>

DoSendData ==
    /\ push = "send"
    /\ push' = "poll"
    /\ UNCHANGED <<hazards, hosterVars, at, csAv, running, status, rtmp, retrys,
                   needKey, first, audioVars, videoVars, toldVars>>

(* CallConnect: the list is emptied ... *)
ClearList ==
    /\ push = "clear"
    /\ push' = "startVideo"
    /\ first' = IF ~needKey \/ audio = "passed" \/ video \in {"keyPassed", "deltaPassed"}
                THEN "late" ELSE "none"
    /\ UNCHANGED <<hazards, hosterVars, at, csAv, running, status, rtmp, retrys,
                   needKey, audioVars, videoVars, toldVars>>

(* ... and OnRtmpConnected starts the encoders before it tells the hoster. *)
StartVideoEncoder ==
    /\ push = "startVideo"
    /\ push' = "startAudio"
    /\ vOn' = TRUE /\ vNeedKey' = TRUE
    /\ UNCHANGED <<hazards, hosterVars, at, csAv, running, status, rtmp, retrys,
                   needKey, first, audioVars, video, frame, toldVars>>

StartAudioEncoder ==
    /\ push = "startAudio" /\ audio = "idle"
    /\ push' = "poll"
    /\ aacOn' = TRUE
    /\ told' = "ok" /\ times' = 0
    /\ UNCHANGED <<hazards, hosterVars, at, csAv, running, status, rtmp, retrys,
                   needKey, first, audio, videoVars>>

(* CallDisconnect: the connection is dropped and the status looked at ... *)
DropConnection ==
    /\ push = "lost"
    /\ rtmp' = "none"
    /\ push' = IF status # "Closed" THEN "reset" ELSE "poll"
    /\ UNCHANGED <<hazards, hosterVars, at, csAv, running, status, retrys,
                   needKey, first, audioVars, videoVars, toldVars>>

(* Mutant: the last attempt is neither made nor announced. *)
MayRetryBefore(n) == n < MaxRetry

MayRetry(n) == n <= MaxRetry

(* ... then written, RS_STM_Closed again being lost, and a new one created. *)
Reset ==
    /\ push = "reset"
    /\ push' = "stopVideo"
    /\ status' = "Init" /\ retrys' = retrys + 1
    /\ IF MayRetry(retrys') THEN rtmp' \in Created ELSE UNCHANGED rtmp
    /\ UNCHANGED <<hazards, hosterVars, at, csAv, running, needKey, first,
                   audioVars, videoVars, toldVars>>

(* OnRtmpReconnecting and OnRtmpDisconnect stop the encoders, then tell. *)
LossStopsVideo ==
    /\ push = "stopVideo"
    /\ push' = "stopAudio"
    /\ vOn' = FALSE
    /\ UNCHANGED <<hazards, hosterVars, at, csAv, running, status, rtmp, retrys,
                   needKey, first, audioVars, video, vNeedKey, frame, toldVars>>

(* Mutant: the audio encoder goes on while the stream reconnects. *)
LossLeavesAudio ==
    /\ push = "stopAudio" /\ audio = "idle"
    /\ push' = "poll"
    /\ IF MayRetry(retrys) THEN told' = "reconnecting" /\ times' = retrys
                           ELSE told' = "failed" /\ UNCHANGED times
    /\ UNCHANGED <<hazards, hosterVars, at, csAv, running, status, rtmp, retrys,
                   needKey, first, audioVars, videoVars>>

LossStopsAudio ==
    /\ push = "stopAudio" /\ audio = "idle"
    /\ push' = "poll"
    /\ aacOn' = FALSE
    /\ IF MayRetry(retrys) THEN told' = "reconnecting" /\ times' = retrys
                             ELSE told' = "failed" /\ UNCHANGED times
    /\ UNCHANGED <<hazards, hosterVars, at, csAv, running, status, rtmp, retrys,
                   needKey, first, audio, videoVars>>

-----------------------------------------------------------------------------
(* Encoders.  A unit is queued at the end of the list under its own lock.   *)

Queue(unit) == first' = IF first = "none" THEN unit ELSE first

(* Mutant: only a stream without a camera waits for the key frame. *)
DropsSoundWithoutCamera == needKey /\ ~camera

(* SetAacData *)
DropsSound == needKey /\ camera

(* A_AACEncoder.OnData encodes and hands on with its lock held. *)
EncodeAudio ==
    /\ audio = "idle" /\ started /\ aacOn
    /\ audio' = "encoded"
    /\ UNCHANGED <<hazards, hosterVars, at, csAv, pushVars, first, aacOn,
                   videoVars, toldVars>>

OnAACData ==
    /\ audio = "encoded" /\ csAv = "free"
    /\ IF push = "none" \/ DropsSound
       THEN audio' = "idle" /\ UNCHANGED csAv
       ELSE audio' = "passed" /\ csAv' = "audio"
    /\ UNCHANGED <<hazards, hosterVars, at, pushVars, first, aacOn,
                   videoVars, toldVars>>

QueueAudio ==
    /\ audio = "passed"
    /\ audio' = "idle" /\ csAv' = "free"
    /\ Queue("aac")
    /\ UNCHANGED <<hazards, hosterVars, at, pushVars, aacOn, videoVars, toldVars>>

OnFrame ==
    /\ camera /\ started /\ vOn /\ ~frame
    /\ frame' = TRUE
    /\ UNCHANGED <<hazards, hosterVars, at, csAv, pushVars, first, audioVars,
                   video, vOn, vNeedKey, toldVars>>

(* Without a request the encoder still makes a key frame every three seconds. *)
EncodeVideo ==
    /\ video = "idle" /\ frame
    /\ frame' = FALSE /\ vNeedKey' = FALSE
    /\ video' \in IF vNeedKey THEN {"key"} ELSE {"key", "delta"}
    /\ UNCHANGED <<hazards, hosterVars, at, csAv, pushVars, first, audioVars,
                   vOn, toldVars>>

(* H.264 rate control may drop the frame it was given. *)
DropVideo ==
    /\ video = "idle" /\ frame
    /\ frame' = FALSE /\ vNeedKey' = FALSE
    /\ UNCHANGED <<hazards, hosterVars, at, csAv, pushVars, first, audioVars,
                   video, vOn, toldVars>>

OnH264Data ==
    /\ video \in {"key", "delta"} /\ csAv = "free"
    /\ IF push = "none" \/ (video = "delta" /\ needKey)
       THEN video' = "idle" /\ UNCHANGED <<csAv, needKey>>
       ELSE /\ csAv' = "video"
            /\ IF video = "key" THEN video' = "keyPassed" /\ needKey' = FALSE
                                ELSE video' = "deltaPassed" /\ UNCHANGED needKey
    /\ UNCHANGED <<hazards, hosterVars, at, push, running, status, rtmp, retrys,
                   first, audioVars, vOn, vNeedKey, frame, toldVars>>

GotH264Nal ==
    /\ video \in {"keyPassed", "deltaPassed"}
    /\ video' = "idle" /\ csAv' = "free"
    /\ Queue(IF video = "keyPassed" THEN "key" ELSE "delta")
    /\ UNCHANGED <<hazards, hosterVars, at, pushVars, audioVars, vOn, vNeedKey,
                   frame, toldVars>>

-----------------------------------------------------------------------------
StopStream(t) ==
    \/ AcquireRtmp(t) \/ Disconnect(t) \/ Join(t)
    \/ StopVideoEncoder(t) \/ StopAudioEncoder(t)

Executor == StopRtmpStream \/ StopStream("exec") \/ Destroy
Worker == HandleStart \/ HandleStop \/ StopStream("core")
PushThread ==
    \/ Poll \/ Succeed \/ Fail \/ DoSendData
    \/ ClearList \/ StartVideoEncoder \/ StartAudioEncoder
    \/ DropConnection \/ Reset \/ LossStopsVideo \/ LossStopsAudio
RecordThread == OnAACData \/ QueueAudio
VideoThread == EncodeVideo \/ DropVideo \/ OnH264Data \/ GotH264Nal

Environment == StartRtmpStream \/ CallStop \/ Clear \/ EncodeAudio \/ OnFrame

Next == Environment \/ Due \/ Executor \/ Worker \/ PushThread \/ RecordThread \/ VideoThread

(* Every thread runs, and obtains in the end a lock that is released again    *)
(* and again: the record thread leaves its lock for most of every 10 ms.      *)
(* Nothing is assumed of the environment: the caller, the microphone and the  *)
(* camera may stop at any point.                                              *)
Fairness ==
    /\ WF_vars(Due)
    /\ SF_vars(Executor) /\ SF_vars(Worker) /\ SF_vars(PushThread)
    /\ SF_vars(RecordThread) /\ SF_vars(VideoThread)

Spec == Init /\ [][Next]_vars /\ Fairness

-----------------------------------------------------------------------------
(* The three locks in a circle: core holds csAv and joins the push thread,   *)
(* which wants the audio encoder's lock, whose holder wants csAv.            *)
LockCycle ==
    /\ csAv \in {"core", "exec"}
    /\ push \in {"startAudio", "stopAudio"}
    /\ audio = "encoded"

(* The deadlock needs sound: the caller must have started recording again    *)
(* before the worker thread stopped the last stream (anyrtmpstreamer.cc:130, *)
(* avcodec.cc:139).                                                          *)
LockCycleOnlyOnRestart == LockCycle => "restart" \in hazards

(* What a server gets first on every connection is the key frame that         *)
(* need_keyframe_ waits for, never sound or a delta frame                     *)
(* (anyrtmpush.cc:131-211), unless an encoder thread was past that test when  *)
(* CallConnect emptied the list.                                              *)
KeyFirst == camera => first \in {"none", "key", "late"}

(* The encoders run exactly while the stream is published, as seen whenever   *)
(* the push thread is between two callbacks; without a stream they are off.   *)
EncodersFollowConnection ==
    at["exec"] \in {"idle", "stopping"} =>
        /\ push \in Blocking \cup {"poll", "send"} /\ running
              => (aacOn <=> status = "Published") /\ (vOn <=> status = "Published")
        /\ push = "none" /\ at["core"] = "idle" => ~aacOn /\ ~vOn

(* No thread is inside the streamer when it has been deleted; the worker      *)
(* thread and the push thread only if messages were pending at Clear          *)
(* (RtmpHosterImpl.cc:57).                                                    *)
NobodyInsideDeleted ==
    at["exec"] = "gone" =>
        /\ audio = "idle" /\ video = "idle"
        /\ "clear" \in hazards \/ (push = "none" /\ at["core"] = "idle")

(* The callbacks the application gets are those StreamEvents allows.          *)
Events == INSTANCE StreamEvents WITH live <- push # "none"
TellsAsPromised == Events!Spec

(* StopRtmpStream, MSG_STOP_RTMP and Clear come to an end, whatever the push  *)
(* thread is doing, unless the locks are in a circle.                         *)
StopCompletes ==
    \A t \in {"exec", "core"} :
        at[t] \notin {"idle", "gone"} ~> at[t] \in {"idle", "gone"} \/ LockCycle

(* A stream that was started or lost is reported connected or failed, however *)
(* the server behaves, as long as sockets can be had.                         *)
StreamIsReported ==
    push # "none" /\ told \in {"nothing", "reconnecting"} /\ "nosocket" \notin hazards
        ~> push = "none" \/ told \in {"ok", "failed"} \/ LockCycle

(* A stopped stream ends, unless it was stopped before it had begun: then     *)
(* MSG_STOP_RTMP overtakes the delayed MSG_START_RTMP.                        *)
StoppedStreamEnds ==
    ~started /\ "quickstop" \notin hazards ~> push = "none" \/ started \/ LockCycle

=============================================================================
