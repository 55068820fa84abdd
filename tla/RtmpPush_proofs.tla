--------------------------- MODULE RtmpPush_proofs ---------------------------
(***************************************************************************)
(* What holds of a pushed stream for every number of reconnections and     *)
(* every choice of hazards.                                                *)
(***************************************************************************)
EXTENDS RtmpPush, TLAPS

-----------------------------------------------------------------------------
(* Callbacks.  The number a reconnection is announced with is `retrys`,      *)
(* which runs ahead of what was told between Reset and the callback and is   *)
(* behind it from a publication to its callback; a failed stream has no      *)
(* connection any more, and a stream that was told ok does not publish again.*)
Connected == {"clear", "startVideo", "startAudio"}
Losing    == {"stopVideo", "stopAudio"}

EventInv ==
    /\ push \in PushSteps \cup {"none"} /\ status \in Statuses
    /\ retrys \in Nat /\ times \in 0..MaxRetry
    /\ told \in {"nothing", "ok", "reconnecting", "failed"}
    /\ push = "none" => told = "nothing"
    /\ told \in {"nothing", "ok"} => times = 0
    /\ told = "failed" => push \in {"poll", "exited"} /\ rtmp = "none"
    /\ told = "ok" => push \notin Blocking \cup Connected
    /\ told = "ok" /\ push \in {"poll", "send"} => status \in {"Published", "Closed"}
    /\ push \in Connected => retrys = 0 /\ status \in {"Published", "Closed"}
    /\ push \in Losing => retrys = times + 1
    /\ push = "reset" \/ (push \in Losing /\ retrys > MaxRetry) => rtmp = "none"
    /\ push \notin Connected \cup Losing \cup {"none"} /\ told # "failed" => retrys = times

eventInvVars == <<push, status, rtmp, retrys, told, times>>

LEMMA EventInvInit == Init => EventInv
BY RetryAssumption DEF Init, EventInv, PushSteps, Blocking, Statuses, Connected, Losing

LEMMA EventInvStutter ==
    ASSUME EventInv, UNCHANGED eventInvVars
    PROVE  EventInv'
BY DEF EventInv, eventInvVars

(* The worker thread and the caller. *)
LEMMA EventInvHoster ==
    ASSUME EventInv,
           Executor \/ Worker \/ Environment \/ Due \/ RecordThread \/ VideoThread
    PROVE  EventInv'
<1> USE RetryAssumption DEF PushSteps, Blocking, Statuses, Connected, Losing
<1>1. CASE HandleStart
  BY <1>1 DEF HandleStart, NewPush, EventInv, pushVars, toldVars
<1>2. ASSUME NEW t \in {"exec", "core"}, StopStream(t) PROVE EventInv'
  <2>1. CASE AcquireRtmp(t)
    BY <2>1 DEF AcquireRtmp, EventInv, toldVars
  <2>2. CASE Disconnect(t)
    BY <2>2 DEF Disconnect, EventInv, toldVars
  <2>3. CASE Join(t)
    BY <2>3 DEF Join, NoPush, EventInv
  <2>4. CASE StopVideoEncoder(t) \/ StopAudioEncoder(t)
    BY <2>4, EventInvStutter
    DEF StopVideoEncoder, StopAudioEncoder, eventInvVars, pushVars, toldVars
  <2>5. QED
    BY <1>2, <2>1, <2>2, <2>3, <2>4 DEF StopStream
<1>3. CASE HandleStop \/ StopRtmpStream \/ Destroy \/ Due \/ Environment
  BY <1>3, EventInvStutter
  DEF HandleStop, StopRtmpStream, Destroy, Due, Environment, StartRtmpStream, CallStop,
      Clear, EncodeAudio, OnFrame, eventInvVars, pushVars, toldVars
<1>4. CASE RecordThread \/ VideoThread
  BY <1>4, EventInvStutter
  DEF RecordThread, OnAACData, QueueAudio, VideoThread, EncodeVideo, DropVideo,
      OnH264Data, GotH264Nal, eventInvVars, pushVars, toldVars
<1>5. QED
  BY <1>1, <1>2, <1>3, <1>4 DEF Executor, Worker

LEMMA EventInvPush ==
    ASSUME EventInv, PushThread
    PROVE  EventInv'
<1> USE RetryAssumption DEF PushSteps, Blocking, Statuses, Connected, Losing
<1>1. CASE Poll
  BY <1>1 DEF Poll, EventInv, CallOf, toldVars
<1>2. CASE Succeed
  <2>1. CASE push = "publish"
    BY <1>2, <2>1 DEF Succeed, EventInv, toldVars
  <2>2. CASE push \in {"handshake", "connect"}
    BY <1>2, <2>2 DEF Succeed, EventInv, toldVars
  <2>3. QED
    BY <1>2, <2>1, <2>2 DEF Succeed
<1>3. CASE Fail \/ DoSendData
  BY <1>3 DEF Fail, DoSendData, EventInv, toldVars
<1>4. CASE ClearList \/ StartVideoEncoder
  BY <1>4 DEF ClearList, StartVideoEncoder, EventInv, toldVars
<1>5. CASE StartAudioEncoder
  BY <1>5 DEF StartAudioEncoder, EventInv
<1>6. CASE DropConnection
  BY <1>6 DEF DropConnection, EventInv, toldVars
<1>7. CASE Reset
  BY <1>7 DEF Reset, MayRetry, EventInv, toldVars
<1>8. CASE LossStopsVideo
  BY <1>8 DEF LossStopsVideo, EventInv, toldVars
<1>9. CASE LossStopsAudio
  BY <1>9 DEF LossStopsAudio, MayRetry, EventInv
<1>10. QED
  BY <1>1, <1>2, <1>3, <1>4, <1>5, <1>6, <1>7, <1>8, <1>9 DEF PushThread

LEMMA EventInvNext == EventInv /\ [Next]_vars => EventInv'
<1> SUFFICES ASSUME EventInv, [Next]_vars PROVE EventInv'
  OBVIOUS
<1>1. CASE UNCHANGED vars
  BY <1>1, EventInvStutter DEF vars, pushVars, toldVars, eventInvVars
<1>2. QED
  BY <1>1, EventInvHoster, EventInvPush DEF Next

(* Every step of the detailed system is a step of StreamEvents or a stutter. *)
LEMMA EventsInit == Init => Events!Init
BY DEF Init, Events!Init

LEMMA EventsStutter ==
    ASSUME UNCHANGED <<push, told, times>>
    PROVE  UNCHANGED Events!eventVars
BY DEF Events!eventVars

LEMMA EventsHoster ==
    ASSUME EventInv,
           Executor \/ Worker \/ Environment \/ Due \/ RecordThread \/ VideoThread
    PROVE  Events!Next \/ UNCHANGED Events!eventVars
<1>1. CASE HandleStart
  <2>1. CASE NewPush
    <3>1. Events!Begin
      BY <2>1 DEF NewPush, EventInv, Events!Begin
    <3>2. QED
      BY <3>1 DEF Events!Next
  <2>2. QED
    BY <1>1, <2>1, EventsStutter DEF HandleStart, pushVars, toldVars
<1>2. ASSUME NEW t \in {"exec", "core"}, StopStream(t)
      PROVE  Events!Next \/ UNCHANGED Events!eventVars
  <2>1. CASE Join(t)
    <3>1. Events!End
      BY <2>1 DEF Join, NoPush, Events!End
    <3>2. QED
      BY <3>1 DEF Events!Next
  <2>2. CASE AcquireRtmp(t) \/ Disconnect(t) \/ StopVideoEncoder(t) \/ StopAudioEncoder(t)
    BY <2>2, EventsStutter
    DEF AcquireRtmp, Disconnect, StopVideoEncoder, StopAudioEncoder, pushVars, toldVars
  <2>3. QED
    BY <1>2, <2>1, <2>2 DEF StopStream
<1>3. CASE HandleStop \/ StopRtmpStream \/ Destroy \/ Due
  BY <1>3, EventsStutter
  DEF HandleStop, StopRtmpStream, Destroy, Due, pushVars, toldVars
<1>4. CASE Environment
  BY <1>4, EventsStutter
  DEF Environment, StartRtmpStream, CallStop, Clear, EncodeAudio, OnFrame, pushVars, toldVars
<1>5. CASE RecordThread \/ VideoThread
  BY <1>5, EventsStutter
  DEF RecordThread, OnAACData, QueueAudio, VideoThread, EncodeVideo, DropVideo,
      OnH264Data, GotH264Nal, pushVars, toldVars
<1>6. QED
  BY <1>1, <1>2, <1>3, <1>4, <1>5 DEF Executor, Worker

LEMMA PushGoesOn ==
    ASSUME EventInv, Poll \/ Succeed \/ Fail \/ DoSendData
    PROVE  push # "none" /\ push' # "none"
<1>1. CASE Poll
  <2>1. push' \in {"poll", "exited", CallOf[status]} /\ push = "poll"
    BY <1>1 DEF Poll
  <2>2. status # "Closed" => CallOf[status] # "none"
    BY DEF CallOf, EventInv, Statuses
  <2>3. status = "Closed" => push' # "none"
    BY <1>1 DEF Poll
  <2>4. QED
    BY <2>1, <2>2, <2>3
<1>2. CASE Succeed
  BY <1>2 DEF Succeed, Blocking
<1>3. CASE Fail \/ DoSendData
  BY <1>3 DEF Fail, DoSendData, Blocking
<1>4. QED
  BY <1>1, <1>2, <1>3

LEMMA EventsPush ==
    ASSUME EventInv, PushThread
    PROVE  Events!Next \/ UNCHANGED Events!eventVars
<1>1. CASE StartAudioEncoder
  <2>1. Events!TellOk
    BY <1>1 DEF StartAudioEncoder, EventInv, Connected, Events!TellOk
  <2>2. QED
    BY <2>1 DEF Events!Next
<1>2. CASE LossStopsAudio
  <2>1. push \in Losing /\ retrys = times + 1 /\ told # "failed"
    BY <1>2 DEF LossStopsAudio, EventInv, Losing
  <2>2. CASE MayRetry(retrys)
    <3>1. Events!TellReconnecting
      BY <1>2, <2>1, <2>2, RetryAssumption
      DEF LossStopsAudio, MayRetry, EventInv, Losing, Events!TellReconnecting
    <3>2. QED
      BY <3>1 DEF Events!Next
  <2>3. CASE ~MayRetry(retrys)
    <3>1. times = MaxRetry /\ told = "reconnecting"
      BY <2>1, <2>3, RetryAssumption DEF MayRetry, EventInv
    <3>2. Events!TellFailed
      BY <1>2, <2>1, <2>3, <3>1 DEF LossStopsAudio, Losing, Events!TellFailed
    <3>3. QED
      BY <3>2 DEF Events!Next
  <2>4. QED
    BY <2>2, <2>3
<1>3. CASE Poll \/ Succeed \/ Fail \/ DoSendData
  <2>1. push # "none" /\ push' # "none" /\ UNCHANGED toldVars
    BY <1>3, PushGoesOn DEF Poll, Succeed, Fail, DoSendData
  <2>2. QED
    BY <2>1 DEF toldVars, Events!eventVars
<1>4. CASE ClearList \/ StartVideoEncoder \/ DropConnection \/ Reset \/ LossStopsVideo
  <2>1. push # "none" /\ push' # "none" /\ UNCHANGED toldVars
    BY <1>4 DEF ClearList, StartVideoEncoder, DropConnection, Reset, LossStopsVideo
  <2>2. QED
    BY <2>1 DEF toldVars, Events!eventVars
<1>5. QED
  BY <1>1, <1>2, <1>3, <1>4 DEF PushThread

LEMMA EventsNext == EventInv /\ [Next]_vars => [Events!Next]_Events!eventVars
<1> SUFFICES ASSUME EventInv, [Next]_vars
             PROVE  Events!Next \/ UNCHANGED Events!eventVars
  OBVIOUS
<1>1. CASE UNCHANGED vars
  BY <1>1, EventsStutter DEF vars, pushVars, toldVars
<1>2. QED
  BY <1>1, EventsHoster, EventsPush DEF Next

(* The application is told what StreamEvents promises, in that order, for    *)
(* every MAX_RETRY_TIME above 0: reconnections counted from 1 to the limit,  *)
(* a failure only after the last of them, nothing after a failure.           *)
THEOREM StreamTellsAsPromised == Spec => TellsAsPromised
<1>1. Spec => []EventInv
  BY EventInvInit, EventInvNext, PTL DEF Spec
<1>2. QED
  BY <1>1, EventsInit, EventsNext, PTL DEF Spec, TellsAsPromised, Events!Spec

-----------------------------------------------------------------------------
(* Locks.  A lock names a thread exactly while that thread is between taking *)
(* and releasing it; only a started stream is recorded, and the caller that  *)
(* closes it does not start it.                                              *)
Places == StopSteps \cup {"idle", "stopping", "destroy", "gone"}

LockInv ==
    /\ at \in [{"exec", "core"} -> Places]
    /\ \A t \in {"exec", "core"} : csAv = t <=> at[t] \in {"closing", "joining"}
    /\ csAv = "audio" <=> audio = "passed"
    /\ csAv = "video" <=> video \in {"keyPassed", "deltaPassed"}
    /\ audio # "idle" => started
    /\ started => at["exec"] \in {"idle", "stopping"}
    /\ at["exec"] = "gone" => video = "idle" /\ ~frame

lockInvVars == <<at, csAv, audio, video, started, frame>>

LEMMA LockInvInit == Init => LockInv
BY DEF Init, LockInv, Places, StopSteps

LEMMA LockInvStutter == ASSUME LockInv, UNCHANGED lockInvVars PROVE LockInv'
BY DEF LockInv, lockInvVars

LEMMA LockInvStop ==
    ASSUME LockInv, NEW t \in {"exec", "core"}, StopStream(t)
    PROVE  LockInv'
<1> USE DEF Places, StopSteps
<1>1. CASE AcquireRtmp(t)
  BY <1>1 DEF AcquireRtmp, LockInv, hosterVars, audioVars, videoVars
<1>2. CASE Disconnect(t)
  BY <1>2 DEF Disconnect, LockInv, hosterVars, audioVars, videoVars
<1>3. CASE Join(t)
  BY <1>3 DEF Join, LockInv, hosterVars, audioVars, videoVars
<1>4. CASE StopVideoEncoder(t)
  BY <1>4 DEF StopVideoEncoder, LockInv, hosterVars, audioVars
<1>5. CASE StopAudioEncoder(t)
  BY <1>5 DEF StopAudioEncoder, LockInv, hosterVars, videoVars
<1>6. QED
  BY <1>1, <1>2, <1>3, <1>4, <1>5 DEF StopStream

LEMMA LockInvNext == LockInv /\ [Next]_vars => LockInv'
<1> SUFFICES ASSUME LockInv, [Next]_vars PROVE LockInv'
  OBVIOUS
<1> USE DEF Places, StopSteps
<1>1. CASE UNCHANGED vars
  BY <1>1, LockInvStutter DEF vars, hosterVars, audioVars, videoVars, lockInvVars
<1>2. CASE StartRtmpStream \/ CallStop \/ Clear
  BY <1>2 DEF StartRtmpStream, CallStop, Clear, LockInv, hosterVars, audioVars, videoVars
<1>3. CASE EncodeAudio \/ OnFrame
  BY <1>3 DEF EncodeAudio, OnFrame, LockInv, hosterVars, audioVars, videoVars
<1>4. CASE Due \/ HandleStart \/ HandleStop
  BY <1>4 DEF Due, HandleStart, HandleStop, LockInv, audioVars, videoVars
<1>5. CASE StopRtmpStream \/ Destroy
  BY <1>5 DEF StopRtmpStream, Destroy, LockInv, audioVars, videoVars
<1>6. CASE PushThread
  <2>1. CASE Poll \/ Succeed \/ Fail \/ DoSendData \/ ClearList \/ DropConnection \/ Reset
    BY <1>6, <2>1, LockInvStutter
    DEF Poll, Succeed, Fail, DoSendData, ClearList, DropConnection, Reset, lockInvVars,
        hosterVars, audioVars, videoVars
  <2>2. CASE StartVideoEncoder \/ StartAudioEncoder \/ LossStopsVideo \/ LossStopsAudio
    BY <1>6, <2>2, LockInvStutter
    DEF StartVideoEncoder, StartAudioEncoder, LossStopsVideo, LossStopsAudio, lockInvVars,
        hosterVars, audioVars, videoVars
  <2>3. QED
    BY <1>6, <2>1, <2>2 DEF PushThread
<1>7. CASE RecordThread
  BY <1>7 DEF RecordThread, OnAACData, QueueAudio, LockInv, hosterVars, videoVars
<1>8. CASE VideoThread
  BY <1>8
  DEF VideoThread, EncodeVideo, DropVideo, OnH264Data, GotH264Nal, LockInv, hosterVars,
      audioVars
<1>9. QED
  BY <1>1, <1>2, <1>3, <1>4, <1>5, <1>6, <1>7, <1>8, LockInvStop
  DEF Next, Environment, Executor, Worker

-----------------------------------------------------------------------------
(* Messages.  Unless the caller starts again too early, no stop is pending   *)
(* while a stream is started; unless it destroys the hoster too early, the   *)
(* worker thread has nothing left to do when the destructor runs.            *)
NoStop(s) == \A i \in DOMAIN s : s[i] # "MSG_STOP_RTMP"

Destroying == at["exec"] \in StopSteps \cup {"destroy", "gone"}
Closed == at["exec"] \in {"stopVideo", "stopAudio", "destroy", "gone"}

MessageInv ==
    /\ msgs \in Seq(Messages)
    /\ started /\ "restart" \notin hazards => at["core"] = "idle" /\ NoStop(msgs)
    /\ Destroying /\ "clear" \notin hazards => Quiet
    /\ Closed /\ "clear" \notin hazards => push = "none"

LEMMA NoStopSteps ==
    ASSUME NEW s \in Seq(Messages)
    PROVE  /\ NoStop(s) => NoStop(Append(s, "MSG_START_RTMP"))
           /\ NoStop(s) /\ s # <<>> => NoStop(Tail(s)) /\ Head(s) # "MSG_STOP_RTMP"
           /\ Append(s, "MSG_START_RTMP") \in Seq(Messages)
           /\ Append(s, "MSG_STOP_RTMP") \in Seq(Messages)
           /\ s # <<>> => Tail(s) \in Seq(Messages)
BY DEF NoStop, Messages

LEMMA NoStopPending == StopPending <=> at["core"] # "idle" \/ ~NoStop(msgs)
BY DEF StopPending, NoStop

LEMMA MessageInvInit == Init => MessageInv
BY DEF Init, MessageInv, Destroying, Closed, StopSteps, NoStop

LEMMA MessageInvStutter ==
    ASSUME MessageInv, UNCHANGED <<hazards, hosterVars, at>>, push = "none" => push' = "none"
    PROVE  MessageInv'
BY DEF MessageInv, hosterVars, NoStop, Quiet, Destroying, Closed

LEMMA MessageInvStop ==
    ASSUME MessageInv, LockInv, NEW t \in {"exec", "core"}, StopStream(t)
    PROVE  MessageInv'
<1> USE DEF Places, StopSteps
<1>1. at[t] \in StopSteps /\ at' \in [{"exec", "core"} -> Places]
      /\ \A o \in {"exec", "core"} : o # t => at'[o] = at[o]
  BY DEF StopStream, AcquireRtmp, Disconnect, Join, StopVideoEncoder, StopAudioEncoder, LockInv
<1>2. UNCHANGED <<hazards, hosterVars>> /\ (push = "none" => push' = "none")
  BY DEF StopStream, AcquireRtmp, Disconnect, Join, StopVideoEncoder, StopAudioEncoder,
         NoPush, pushVars
<1>3. CASE t = "exec"
  <2>1. Destroying /\ ~started
    BY <1>1, <1>3 DEF Destroying, LockInv
  <2>2. (Closed)' => Closed \/ push' = "none"
    BY <1>1, <1>3
    DEF StopStream, AcquireRtmp, Disconnect, Join, StopVideoEncoder, StopAudioEncoder,
        Closed, LockInv, NoPush
  <2>3. QED
    BY <1>1, <1>2, <1>3, <2>1, <2>2 DEF MessageInv, hosterVars, Quiet, NoStop
<1>4. CASE t = "core"
  BY <1>1, <1>2, <1>4 DEF MessageInv, hosterVars, Quiet, NoStop, Destroying, Closed
<1>5. QED
  BY <1>3, <1>4

LEMMA MessageInvNext == LockInv /\ MessageInv /\ [Next]_vars => MessageInv'
<1> SUFFICES ASSUME LockInv, MessageInv, [Next]_vars PROVE MessageInv'
  OBVIOUS
<1> USE DEF StopSteps
<1>1. CASE UNCHANGED vars
  BY <1>1, MessageInvStutter DEF vars, pushVars
<1>2. CASE StartRtmpStream
  BY <1>2, NoStopPending
  DEF StartRtmpStream, MessageInv, LockInv, Destroying, Closed, pushVars, Quiet, NoStop
<1>3. CASE CallStop
  BY <1>3 DEF CallStop, MessageInv, LockInv, Destroying, Closed, hosterVars, pushVars
<1>4. CASE Clear
  <2>1. ~started /\ at' = [at EXCEPT !["exec"] = "acquire"]
        /\ UNCHANGED <<hazards, hosterVars>> /\ ("clear" \in hazards \/ Quiet)
    BY <1>4 DEF Clear
  <2>2. at'["core"] = at["core"] /\ at'["exec"] = "acquire"
    BY <2>1 DEF LockInv
  <2>3. QED
    BY <2>1, <2>2 DEF MessageInv, Destroying, Closed, Quiet, hosterVars
<1>5. CASE EncodeAudio \/ OnFrame
  BY <1>5, MessageInvStutter DEF EncodeAudio, OnFrame, pushVars
<1>6. CASE Due
  BY <1>6, NoStopSteps DEF Due, MessageInv, Quiet, Destroying, Closed, pushVars
<1>7. CASE HandleStart
  <2>1. ~Quiet /\ msgs # <<>> /\ msgs' = Tail(msgs) /\ UNCHANGED <<hazards, started, at>>
    BY <1>7 DEF HandleStart, Quiet
  <2>2. Closed => Destroying
    BY DEF Closed, Destroying
  <2>3. QED
    BY <2>1, <2>2, NoStopSteps DEF MessageInv, Destroying, Closed
<1>8. CASE HandleStop
  <2>1. ~Quiet /\ msgs # <<>> /\ msgs' = Tail(msgs) /\ Head(msgs) = "MSG_STOP_RTMP"
        /\ UNCHANGED <<hazards, started>> /\ at' = [at EXCEPT !["core"] = "acquire"]
    BY <1>8 DEF HandleStop, Quiet
  <2>2. at'["exec"] = at["exec"]
    BY <2>1 DEF LockInv
  <2>3. Closed => Destroying
    BY DEF Closed, Destroying
  <2>4. QED
    BY <2>1, <2>2, <2>3, NoStopSteps DEF MessageInv, Destroying, Closed
<1>9. CASE StopRtmpStream
  <2>1. ~started' /\ msgs' = Append(msgs, "MSG_STOP_RTMP")
        /\ at' = [at EXCEPT !["exec"] = "idle"]
    BY <1>9 DEF StopRtmpStream
  <2>2. at'["exec"] = "idle"
    BY <2>1 DEF LockInv
  <2>3. QED
    BY <2>1, <2>2, NoStopSteps DEF MessageInv, Destroying, Closed
<1>10. CASE Destroy
  <2>1. at["exec"] = "destroy" /\ UNCHANGED <<hazards, started, push>> /\ msgs' = <<>> /\ delayed' = 0
        /\ at' = [at EXCEPT !["exec"] = "gone"]
    BY <1>10 DEF Destroy, pushVars
  <2>2. at'["exec"] = "gone" /\ at'["core"] = at["core"] /\ ~started /\ Destroying /\ Closed
    BY <2>1 DEF LockInv, Destroying, Closed
  <2>3. msgs' \in Seq(Messages)
    BY <2>1
  <2>4. QED
    BY <2>1, <2>2, <2>3 DEF MessageInv, Quiet
<1>11. CASE PushThread
  <2>1. UNCHANGED <<hazards, hosterVars, at>>
    <3>1. CASE Poll \/ Succeed \/ Fail \/ DoSendData \/ ClearList \/ DropConnection \/ Reset
      BY <3>1 DEF Poll, Succeed, Fail, DoSendData, ClearList, DropConnection, Reset
    <3>2. CASE StartVideoEncoder \/ StartAudioEncoder \/ LossStopsVideo \/ LossStopsAudio
      BY <3>2 DEF StartVideoEncoder, StartAudioEncoder, LossStopsVideo, LossStopsAudio
    <3>3. QED
      BY <1>11, <3>1, <3>2 DEF PushThread
  <2>2. push # "none"
    BY <1>11
    DEF PushThread, Poll, Succeed, Fail, DoSendData, ClearList, DropConnection, Reset,
        StartVideoEncoder, StartAudioEncoder, LossStopsVideo, LossStopsAudio, Blocking
  <2>3. QED
    BY <2>1, <2>2, MessageInvStutter
<1>12. CASE RecordThread
  BY <1>12, MessageInvStutter DEF RecordThread, OnAACData, QueueAudio, pushVars
<1>13. CASE VideoThread
  BY <1>13, MessageInvStutter
  DEF VideoThread, EncodeVideo, DropVideo, OnH264Data, GotH264Nal, pushVars
<1>14. QED
  BY <1>1, <1>2, <1>3, <1>4, <1>5, <1>6, <1>7, <1>8, <1>9, <1>10, <1>11, <1>12, <1>13,
     MessageInvStop
  DEF Next, Environment, Executor, Worker

LEMMA LocksAndMessages == Spec => [](LockInv /\ MessageInv)
BY LockInvInit, LockInvNext, MessageInvInit, MessageInvNext, PTL DEF Spec

(* The circle of the three locks needs a stream that is recorded again while *)
(* its stop is pending: a caller that waits for the stop cannot deadlock.    *)
THEOREM DeadlockNeedsRestart == Spec => []LockCycleOnlyOnRestart
<1>1. LockInv /\ MessageInv => LockCycleOnlyOnRestart
  <2> SUFFICES ASSUME LockInv, MessageInv, LockCycle PROVE "restart" \in hazards
    BY DEF LockCycleOnlyOnRestart
  <2>1. started /\ at["exec"] \in {"idle", "stopping"}
    BY DEF LockCycle, LockInv
  <2>2. at["core"] \in {"closing", "joining"}
    BY <2>1 DEF LockCycle, LockInv
  <2>3. QED
    BY <2>1, <2>2 DEF MessageInv
<1>2. QED
  BY <1>1, LocksAndMessages, PTL

(* When the streamer is deleted no encoder thread is inside it; the worker   *)
(* and the push thread are not either if nothing was pending at Clear.       *)
THEOREM DeletedStreamerIsLeft == Spec => []NobodyInsideDeleted
<1>1. LockInv /\ MessageInv => NobodyInsideDeleted
  BY DEF LockInv, MessageInv, NobodyInsideDeleted, Destroying, Closed, Quiet
<1>2. QED
  BY <1>1, LocksAndMessages, PTL

-----------------------------------------------------------------------------
(* Key frames.  While nothing is queued since the list was emptied, either a *)
(* key frame is still wanted or it is just being queued; who is past the     *)
(* test for it holds csAv, and so the two encoders do not overtake each other*)
KeyInv ==
    /\ first \in {"none", "key", "late"}
    /\ push # "none" /\ first = "none" => needKey \/ video = "keyPassed"
    /\ audio = "passed" \/ video = "deltaPassed" => first # "none"
    /\ audio = "passed" \/ video \in {"keyPassed", "deltaPassed"} => push # "none"

LEMMA KeyInvInit == Init => KeyInv
BY DEF Init, KeyInv

LEMMA KeyInvNext == camera => (EventInv /\ LockInv /\ KeyInv /\ [Next]_vars => KeyInv')
<1> SUFFICES ASSUME camera, EventInv, LockInv, KeyInv, [Next]_vars PROVE KeyInv'
  OBVIOUS
<1>1. CASE UNCHANGED vars
  BY <1>1 DEF vars, pushVars, audioVars, videoVars, KeyInv
<1>2. CASE StartRtmpStream \/ CallStop \/ Clear \/ EncodeAudio
  BY <1>2 DEF StartRtmpStream, CallStop, Clear, EncodeAudio, pushVars, audioVars, videoVars, KeyInv
<1>3. CASE OnFrame \/ Due \/ HandleStop \/ StopRtmpStream \/ Destroy
  BY <1>3
  DEF OnFrame, Due, HandleStop, StopRtmpStream, Destroy, pushVars, audioVars, videoVars, KeyInv
<1>4. CASE HandleStart
  BY <1>4 DEF HandleStart, NewPush, pushVars, audioVars, videoVars, KeyInv, LockInv
<1>5. ASSUME NEW t \in {"exec", "core"}, StopStream(t) PROVE KeyInv'
  <2>1. CASE Join(t)
    BY <2>1 DEF Join, NoPush, audioVars, videoVars, KeyInv, LockInv
  <2>2. CASE AcquireRtmp(t) \/ Disconnect(t) \/ StopVideoEncoder(t) \/ StopAudioEncoder(t)
    BY <2>2
    DEF AcquireRtmp, Disconnect, StopVideoEncoder, StopAudioEncoder, pushVars, audioVars,
        videoVars, KeyInv
  <2>3. QED
    BY <1>5, <2>1, <2>2 DEF StopStream
<1>6. CASE PushThread
  <2>1. CASE Poll \/ Succeed \/ Fail \/ DoSendData
    <3>1. /\ push # "none" /\ push' # "none"
          /\ UNCHANGED <<first, audio, video>>
          /\ needKey' = TRUE \/ needKey' = needKey
      BY <2>1, PushGoesOn DEF Poll, Succeed, Fail, DoSendData, audioVars, videoVars
    <3>2. QED
      BY <3>1 DEF KeyInv
  <2>2. CASE ClearList
    BY <2>2 DEF ClearList, audioVars, videoVars, KeyInv
  <2>3. CASE StartVideoEncoder \/ StartAudioEncoder \/ DropConnection
    BY <2>3 DEF StartVideoEncoder, StartAudioEncoder, DropConnection, audioVars, videoVars, KeyInv
  <2>4. CASE Reset \/ LossStopsVideo \/ LossStopsAudio
    BY <2>4 DEF Reset, LossStopsVideo, LossStopsAudio, audioVars, videoVars, KeyInv
  <2>5. QED
    BY <1>6, <2>1, <2>2, <2>3, <2>4 DEF PushThread
<1>7. CASE RecordThread
  BY <1>7
  DEF RecordThread, OnAACData, QueueAudio, Queue, DropsSound, pushVars, videoVars, KeyInv, LockInv
<1>8. CASE VideoThread
  BY <1>8
  DEF VideoThread, EncodeVideo, DropVideo, OnH264Data, GotH264Nal, Queue, pushVars, audioVars,
      KeyInv, LockInv
<1>9. QED
  BY <1>1, <1>2, <1>3, <1>4, <1>5, <1>6, <1>7, <1>8 DEF Next, Environment, Executor, Worker

LEMMA CameraStays == [Next]_vars => UNCHANGED hazards
<1> SUFFICES ASSUME [Next]_vars PROVE UNCHANGED hazards
  OBVIOUS
<1>1. CASE PushThread
  BY <1>1
  DEF PushThread, Poll, Succeed, Fail, DoSendData, ClearList, StartVideoEncoder,
      StartAudioEncoder, DropConnection, Reset, LossStopsVideo, LossStopsAudio
<1>2. CASE Executor \/ Worker
  BY <1>2
  DEF Executor, Worker, StopRtmpStream, Destroy, HandleStart, HandleStop, StopStream,
      AcquireRtmp, Disconnect, Join, StopVideoEncoder, StopAudioEncoder
<1>3. CASE Environment \/ Due
  BY <1>3 DEF Environment, StartRtmpStream, CallStop, Clear, EncodeAudio, OnFrame, Due
<1>4. CASE RecordThread \/ VideoThread
  BY <1>4
  DEF RecordThread, OnAACData, QueueAudio, VideoThread, EncodeVideo, DropVideo, OnH264Data,
      GotH264Nal
<1>5. QED
  BY <1>1, <1>2, <1>3, <1>4 DEF Next, vars

(* With a camera, what is queued first after every connection is a key frame,*)
(* unless an encoder thread was already past the test when the list was      *)
(* emptied; sound and delta frames wait for it.                              *)
THEOREM KeyFrameComesFirst == Spec => []KeyFirst
<1> DEFINE Inv == EventInv /\ LockInv /\ (camera => KeyInv)
<1>1. Init => Inv
  BY EventInvInit, LockInvInit, KeyInvInit
<1>2. Inv /\ [Next]_vars => Inv'
  BY EventInvNext, LockInvNext, KeyInvNext, CameraStays DEF camera
<1>3. Inv => KeyFirst
  BY DEF KeyFirst, KeyInv
<1> HIDE DEF Inv
<1>4. QED
  BY <1>1, <1>2, <1>3, PTL DEF Spec

-----------------------------------------------------------------------------
(* Types.  What the other invariants do not speak of.                        *)
PushTyped ==
    /\ hazards \in HazardSets /\ delayed \in Nat
    /\ csAv \in {"free", "exec", "core", "audio", "video"}
    /\ rtmp \in {"none", "open", "shut"}
    /\ audio \in {"idle", "encoded", "passed"}
    /\ video \in {"idle", "key", "delta", "keyPassed", "deltaPassed"}
    /\ first \in {"none", "late", "aac", "key", "delta"}

Flags ==
    /\ started \in BOOLEAN /\ running \in BOOLEAN /\ needKey \in BOOLEAN
    /\ aacOn \in BOOLEAN /\ vOn \in BOOLEAN /\ vNeedKey \in BOOLEAN /\ frame \in BOOLEAN

LEMMA PushTypedStop ==
    ASSUME PushTyped, NEW t \in {"exec", "core"}, StopStream(t)
    PROVE  PushTyped'
BY DEF StopStream, AcquireRtmp, Disconnect, Join, NoPush, StopVideoEncoder, StopAudioEncoder,
       hosterVars, audioVars, videoVars, pushVars, PushTyped

LEMMA PushTypedStep == ASSUME PushTyped, [Next]_vars PROVE PushTyped'
<1> USE DEF PushTyped, hosterVars, audioVars, videoVars, pushVars
<1>1. CASE Environment \/ Due \/ UNCHANGED vars
  BY <1>1
  DEF Environment, StartRtmpStream, CallStop, Clear, EncodeAudio, OnFrame, Due, vars
<1>2. CASE StopRtmpStream \/ Destroy \/ HandleStop
  BY <1>2 DEF StopRtmpStream, Destroy, HandleStop
<1>3. CASE HandleStart
  BY <1>3 DEF HandleStart, NewPush, Created
<1>4. CASE Poll \/ Succeed \/ Fail \/ DoSendData \/ ClearList
  BY <1>4 DEF Poll, Succeed, Fail, DoSendData, ClearList
<1>5. CASE StartVideoEncoder \/ StartAudioEncoder \/ DropConnection
  BY <1>5 DEF StartVideoEncoder, StartAudioEncoder, DropConnection
<1>6. CASE Reset \/ LossStopsVideo \/ LossStopsAudio
  BY <1>6 DEF Reset, Created, LossStopsVideo, LossStopsAudio
<1>7. CASE RecordThread
  BY <1>7 DEF RecordThread, OnAACData, QueueAudio, Queue
<1>8. CASE VideoThread
  BY <1>8 DEF VideoThread, EncodeVideo, DropVideo, OnH264Data, GotH264Nal, Queue
<1>9. QED
  BY <1>1, <1>2, <1>3, <1>4, <1>5, <1>6, <1>7, <1>8, PushTypedStop
  DEF Next, Executor, Worker, PushThread

(* A flag is left alone or set. *)
Kept(x, y) == y = x \/ y = TRUE \/ y = FALSE

FlagsKept ==
    /\ Kept(started, started') /\ Kept(running, running') /\ Kept(needKey, needKey')
    /\ Kept(aacOn, aacOn') /\ Kept(vOn, vOn') /\ Kept(vNeedKey, vNeedKey')
    /\ Kept(frame, frame')

LEMMA FlagsKeptStep == ASSUME [Next]_vars PROVE FlagsKept
<1> USE DEF FlagsKept, Kept, hosterVars, audioVars, videoVars, pushVars
<1>1. CASE Environment \/ Due \/ UNCHANGED vars
  BY <1>1
  DEF Environment, StartRtmpStream, CallStop, Clear, EncodeAudio, OnFrame, Due, vars
<1>2. CASE StopRtmpStream \/ Destroy \/ HandleStop \/ HandleStart
  BY <1>2 DEF StopRtmpStream, Destroy, HandleStop, HandleStart, NewPush
<1>3. ASSUME NEW t \in {"exec", "core"}, StopStream(t) PROVE FlagsKept
  BY <1>3
  DEF StopStream, AcquireRtmp, Disconnect, Join, NoPush, StopVideoEncoder, StopAudioEncoder
<1>4. CASE Poll \/ Succeed \/ Fail \/ DoSendData \/ ClearList
  BY <1>4 DEF Poll, Succeed, Fail, DoSendData, ClearList
<1>5. CASE StartVideoEncoder \/ StartAudioEncoder \/ DropConnection
  BY <1>5 DEF StartVideoEncoder, StartAudioEncoder, DropConnection
<1>6. CASE Reset \/ LossStopsVideo \/ LossStopsAudio
  BY <1>6 DEF Reset, LossStopsVideo, LossStopsAudio
<1>7. CASE RecordThread \/ VideoThread
  BY <1>7
  DEF RecordThread, OnAACData, QueueAudio, VideoThread, EncodeVideo, DropVideo, OnH264Data,
      GotH264Nal
<1>8. QED
  BY <1>1, <1>2, <1>3, <1>4, <1>5, <1>6, <1>7 DEF Next, Executor, Worker, PushThread

LEMMA FlagsStep == ASSUME Flags, [Next]_vars PROVE Flags'
<1>1. \A x \in BOOLEAN : \A y : Kept(x, y) => y \in BOOLEAN
  BY Zenon DEF Kept
<1>2. QED
  BY <1>1, FlagsKeptStep, Zenon DEF Flags, FlagsKept

(* Every variable of hoster, connection and encoders keeps its type.         *)
THEOREM PushTypeCorrect == Spec => []TypeOK
<1> DEFINE Inv == PushTyped /\ Flags /\ EventInv
<1>1. Init => Inv
  <2>1. Init => PushTyped
    BY DEF Init, PushTyped
  <2>2. Init => Flags
    BY Zenon DEF Init, Flags
  <2>3. QED
    BY <2>1, <2>2, EventInvInit
<1>2. Inv /\ [Next]_vars => Inv'
  BY PushTypedStep, FlagsStep, EventInvNext
<1>3. Inv /\ LockInv /\ MessageInv => TypeOK
  <2> SUFFICES ASSUME PushTyped, Flags, EventInv, LockInv, MessageInv PROVE TypeOK
    OBVIOUS
  <2>1. times \in Nat
    BY RetryAssumption DEF EventInv
  <2>2. QED
    BY <2>1 DEF TypeOK, PushTyped, Flags, EventInv, LockInv, MessageInv, Places
<1> HIDE DEF Inv
<1>4. QED
  BY <1>1, <1>2, <1>3, LocksAndMessages, PTL DEF Spec

-----------------------------------------------------------------------------
(* Encoders.  As long as the connection is not being closed, only the push   *)
(* thread turns them on and off; when it has ended, the worker thread turns  *)
(* them off before it takes the next message.                                *)
Encoders(on) == aacOn = on /\ vOn = on
Opening == {"Init", "Handshaked", "Connected"}

EncoderInv ==
    at["exec"] \in {"idle", "stopping"} =>
        /\ running => push # "none" /\ at["core"] \in {"idle", "acquire"} /\ status # "Closed"
        /\ running /\ push \in Blocking => status \in Opening /\ Encoders(FALSE)
        /\ running /\ push = "send" => status = "Published"
        /\ running /\ push \in {"poll", "send"} =>
              IF status = "Published" THEN Encoders(TRUE) ELSE Encoders(FALSE)
        /\ running /\ push \in Connected => status = "Published"
        /\ running /\ push = "startAudio" => vOn = TRUE
        /\ running /\ push \in Losing => status = "Init"
        /\ running /\ push = "stopAudio" => vOn = FALSE
        /\ at["core"] \in {"stopVideo", "stopAudio"} => push = "none"
        /\ push = "none" /\ at["core"] = "stopAudio" => vOn = FALSE
        /\ push = "none" /\ at["core"] \in {"idle", "acquire"} => Encoders(FALSE)

encoderVars == <<at, push, running, status, aacOn, vOn>>

LEMMA EncoderInvInit == Init => EncoderInv
BY DEF Init, EncoderInv, Encoders, Blocking

LEMMA EncoderInvStutter == ASSUME EncoderInv, UNCHANGED encoderVars PROVE EncoderInv'
BY DEF EncoderInv, encoderVars, Encoders

(* The destructor of the hoster never comes back. *)
LEMMA EncoderInvExec ==
    ASSUME LockInv, StopStream("exec")
    PROVE  EncoderInv'
<1>1. at'["exec"] \notin {"idle", "stopping"}
  BY DEF StopStream, AcquireRtmp, Disconnect, Join, StopVideoEncoder, StopAudioEncoder,
         LockInv, Places, StopSteps
<1>2. QED
  BY <1>1 DEF EncoderInv

LEMMA EncoderInvCore ==
    ASSUME LockInv, EncoderInv, StopStream("core")
    PROVE  EncoderInv'
<1> USE DEF EncoderInv, Encoders, Blocking, Connected, Losing, Opening
<1>1. \A w : [at EXCEPT !["core"] = w]["core"] = w
             /\ [at EXCEPT !["core"] = w]["exec"] = at["exec"]
  BY DEF LockInv
<1>2. CASE AcquireRtmp("core")
  <2>1. UNCHANGED <<push, aacOn, vOn>>
    BY <1>2 DEF AcquireRtmp, audioVars, videoVars
  <2>2. CASE push = "none"
    <3>1. at' = [at EXCEPT !["core"] = "stopVideo"] /\ UNCHANGED <<running, status>>
      BY <1>2, <2>2 DEF AcquireRtmp
    <3>2. at["core"] = "acquire" /\ at'["core"] = "stopVideo" /\ at'["exec"] = at["exec"]
      BY <1>1, <1>2, <3>1 DEF AcquireRtmp
    <3>3. QED
      BY <2>1, <2>2, <3>1, <3>2
  <2>3. CASE push # "none"
    <3>1. at' = [at EXCEPT !["core"] = "closing"] /\ running' = FALSE
      BY <1>2, <2>3 DEF AcquireRtmp
    <3>2. at'["core"] = "closing" /\ at'["exec"] = at["exec"]
      BY <1>1, <3>1
    <3>3. QED
      BY <2>1, <2>3, <3>1, <3>2
  <2>4. QED
    BY <2>2, <2>3
<1>3. CASE Disconnect("core")
  BY <1>1, <1>3 DEF Disconnect, audioVars, videoVars
<1>4. CASE Join("core")
  BY <1>1, <1>4 DEF Join, NoPush, audioVars, videoVars
<1>5. CASE StopVideoEncoder("core")
  BY <1>1, <1>5 DEF StopVideoEncoder, audioVars, pushVars
<1>6. CASE StopAudioEncoder("core")
  BY <1>1, <1>6 DEF StopAudioEncoder, videoVars, pushVars
<1>7. QED
  BY <1>2, <1>3, <1>4, <1>5, <1>6 DEF StopStream

LEMMA EncoderInvPush ==
    ASSUME EventInv, EncoderInv, PushThread
    PROVE  EncoderInv'
<1> USE DEF EncoderInv, Encoders, Blocking, Connected, Losing, Opening
<1>1. CASE Poll
  <2>1. UNCHANGED <<at, running, status, aacOn, vOn>> /\ push = "poll"
    BY <1>1 DEF Poll, audioVars, videoVars
  <2>2. push' \in {"poll", "exited"} \/ (status # "Closed" /\ push' = CallOf[status])
    BY <1>1 DEF Poll
  <2>3. status \in Opening => CallOf[status] \in Blocking
    BY DEF CallOf
  <2>4. status = "Published" => CallOf[status] = "send"
    BY DEF CallOf
  <2>5. running => push' # "exited"
    BY <1>1, <2>2, <2>3, <2>4 DEF Poll, EventInv, Statuses
  <2>6. QED
    BY <2>1, <2>2, <2>3, <2>4, <2>5 DEF EventInv, Statuses
<1>2. CASE Succeed
  BY <1>2 DEF Succeed, audioVars, videoVars
<1>3. CASE Fail \/ DoSendData
  BY <1>3 DEF Fail, DoSendData, audioVars, videoVars
<1>4. CASE ClearList
  BY <1>4 DEF ClearList, audioVars, videoVars
<1>5. CASE StartVideoEncoder
  BY <1>5 DEF StartVideoEncoder, audioVars
<1>6. CASE StartAudioEncoder
  BY <1>6 DEF StartAudioEncoder, videoVars
<1>7. CASE DropConnection
  BY <1>7 DEF DropConnection, audioVars, videoVars
<1>8. CASE Reset
  BY <1>8 DEF Reset, audioVars, videoVars
<1>9. CASE LossStopsVideo
  BY <1>9 DEF LossStopsVideo, audioVars
<1>10. CASE LossStopsAudio
  BY <1>10 DEF LossStopsAudio, videoVars
<1>11. QED
  BY <1>1, <1>2, <1>3, <1>4, <1>5, <1>6, <1>7, <1>8, <1>9, <1>10 DEF PushThread

LEMMA EncoderInvStep ==
    ASSUME EventInv, LockInv, EncoderInv, [Next]_vars
    PROVE  EncoderInv'
<1>1. \A w : [at EXCEPT !["exec"] = w]["exec"] = w
             /\ [at EXCEPT !["exec"] = w]["core"] = at["core"]
             /\ [at EXCEPT !["core"] = w]["core"] = w
             /\ [at EXCEPT !["core"] = w]["exec"] = at["exec"]
  BY DEF LockInv
<1>2. CASE StartRtmpStream \/ EncodeAudio \/ OnFrame \/ Due \/ UNCHANGED vars
  BY <1>2, EncoderInvStutter
  DEF StartRtmpStream, EncodeAudio, OnFrame, Due, vars, pushVars, audioVars, videoVars,
      encoderVars
<1>3. CASE RecordThread \/ VideoThread
  <2>1. CASE RecordThread
    BY <2>1, EncoderInvStutter
    DEF RecordThread, OnAACData, QueueAudio, pushVars, videoVars, encoderVars
  <2>2. CASE VideoThread
    BY <2>2, EncoderInvStutter
    DEF VideoThread, EncodeVideo, DropVideo, OnH264Data, GotH264Nal, pushVars, audioVars,
        encoderVars
  <2>3. QED
    BY <1>3, <2>1, <2>2
<1>4. CASE CallStop \/ Clear \/ StopRtmpStream \/ Destroy
  <2>1. UNCHANGED <<push, running, status, aacOn, vOn>>
    BY <1>4 DEF CallStop, Clear, StopRtmpStream, Destroy, pushVars, audioVars, videoVars
  <2>2. at'["core"] = at["core"]
        /\ (at'["exec"] \in {"idle", "stopping"} => at["exec"] \in {"idle", "stopping"})
    BY <1>1, <1>4 DEF CallStop, Clear, StopRtmpStream, Destroy
  <2>3. QED
    BY <2>1, <2>2 DEF EncoderInv, Encoders
<1>5. CASE HandleStop
  BY <1>1, <1>5 DEF HandleStop, pushVars, audioVars, videoVars, EncoderInv, Encoders
<1>6. CASE HandleStart
  <2>1. UNCHANGED <<at, aacOn, vOn>> /\ at["core"] = "idle"
    BY <1>6 DEF HandleStart, audioVars, videoVars
  <2>2. CASE NewPush
    BY <2>1, <2>2 DEF NewPush, EncoderInv, Encoders, Blocking, Connected, Losing
  <2>3. CASE UNCHANGED pushVars
    BY <2>1, <2>3, EncoderInvStutter DEF pushVars, encoderVars
  <2>4. QED
    BY <1>6, <2>2, <2>3 DEF HandleStart
<1>7. QED
  BY <1>2, <1>3, <1>4, <1>5, <1>6, EncoderInvExec, EncoderInvCore, EncoderInvPush
  DEF Next, Environment, Executor, Worker

(* The encoders run exactly while the stream is published, whenever the push *)
(* thread is between two callbacks, and are off without a stream.            *)
THEOREM EncodersMatchConnection == Spec => []EncodersFollowConnection
<1> DEFINE Inv == EventInv /\ LockInv /\ EncoderInv
<1>1. Init => Inv
  BY EventInvInit, LockInvInit, EncoderInvInit
<1>2. Inv /\ [Next]_vars => Inv'
  BY EventInvNext, LockInvNext, EncoderInvStep
<1>3. Inv => EncodersFollowConnection
  BY DEF EncoderInv, Encoders, EncodersFollowConnection, Blocking, Opening
<1> HIDE DEF Inv
<1>4. QED
  BY <1>1, <1>2, <1>3, PTL DEF Spec

=============================================================================
