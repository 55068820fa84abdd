-------------------------- MODULE RtmpPlayer_proofs --------------------------
(***************************************************************************)
(* What holds of a played stream for every number of attempts, every       *)
(* buffer time and every choice of hazards.                                *)
(***************************************************************************)
EXTENDS RtmpPlayer, TLAPS

-----------------------------------------------------------------------------
(* The play buffer.  While it waits, cache_time_ is the delay from before    *)
(* the doubling; while it plays, the delay of the next pause is at least it. *)
BufferInv ==
    /\ CacheBounded
    /\ plyStatus \in {"PS_Fast", "PS_Normal", "PS_Cache"}
    /\ delta \in Deltas /\ delta <= MaxCache
    /\ cacheTime \in Nat
    /\ plyStatus # "PS_Cache" => cacheTime <= delta * Second
    /\ plyStatus = "PS_Cache" => delta \in {2, 4, 8, 16} /\ cacheTime = (delta \div 2) * Second

delayVars == <<plyStatus, playing, delta, cacheTime>>

LEMMA BufferInvNew == NewBuffer => BufferInv'
BY TimesAssumption, MaxCacheAssumption DEF NewBuffer, BufferInv, CacheBounded, Deltas

LEMMA BufferInvInit == Init => BufferInv
BY TimesAssumption, MaxCacheAssumption
DEF Init, BufferInit, BufferInv, CacheBounded, Deltas

LEMMA BufferInvStutter == ASSUME BufferInv, UNCHANGED delayVars PROVE BufferInv'
BY DEF BufferInv, CacheBounded, delayVars

LEMMA PauseGrows ==
    ASSUME BufferInv, plyStatus = "PS_Normal", Pause
    PROVE  BufferInv' /\ cacheTime' >= cacheTime
<1> USE TimesAssumption, MaxCacheAssumption DEF Deltas
<1>1. delta \in {1, 2, 4, 8} /\ delta < MaxCache /\ delta' = delta * 2
  BY DEF BufferInv, CacheBounded, Pause, Doubled
<1>2. cacheTime' = delta * Second /\ cacheTime' >= cacheTime
  BY DEF BufferInv, Pause
<1>3. delta' \in {2, 4, 8, 16} /\ delta' <= MaxCache /\ delta' \div 2 = delta
  BY <1>1
<1>4. cacheTime' \in Nat /\ cacheTime' < MaxCache * Second
  BY <1>1, <1>2
<1>5. plyStatus' = "PS_Cache" /\ playing' = FALSE
  BY DEF Pause
<1>6. QED
  BY <1>1, <1>2, <1>3, <1>4, <1>5 DEF BufferInv, CacheBounded

LEMMA BufferInvDecode ==
    ASSUME BufferInv, DoDecode
    PROVE  BufferInv' /\ cacheTime' >= cacheTime
<1> USE TimesAssumption, MaxCacheAssumption DEF Deltas
<1>1. CASE DecodeFast
  BY <1>1 DEF DecodeFast, BufferInv, CacheBounded
<1>2. CASE DecodeNormal
  <2>1. CASE Buffered <= Red
    BY <1>2, <2>1, PauseGrows DEF DecodeNormal
  <2>2. CASE ~(Buffered <= Red)
    <3>1. UNCHANGED delayVars
      BY <1>2, <2>2 DEF DecodeNormal, delayVars
    <3>2. QED
      BY <3>1, BufferInvStutter DEF BufferInv, delayVars
  <2>3. QED
    BY <2>1, <2>2
<1>3. CASE WaitLonger
  BY <1>3, BufferInvStutter DEF WaitLonger, delayVars, BufferInv
<1>4. CASE Resume
  BY <1>4 DEF Resume, BufferInv, CacheBounded
<1>5. QED
  BY <1>1, <1>2, <1>3, <1>4 DEF DoDecode

LEMMA BufferInvStep ==
    ASSUME BufferInv, [Next]_vars
    PROVE  BufferInv' /\ (decoder # "none" /\ decoder' # "none" => cacheTime' >= cacheTime)
<1>1. cacheTime \in Nat
  BY DEF BufferInv
<1>2. CASE DecodeTick
  BY <1>2, BufferInvDecode DEF DecodeTick
<1>3. CASE NewBuffer /\ (decoder = "none" \/ decoder' = "none")
  BY <1>3, BufferInvNew
<1>4. CASE UNCHANGED delayVars
  BY <1>1, <1>4, BufferInvStutter DEF delayVars
<1>5. CASE HandleStart
  BY <1>3, <1>4, <1>5 DEF HandleStart, bufVars, delayVars
<1>6. CASE DeleteDecoder
  BY <1>3, <1>6 DEF DeleteDecoder
<1>7. CASE Caller \/ Executor \/ Ticking \/ HandleStop \/ Disconnect \/ Join
  BY <1>4, <1>7
  DEF Caller, StartRtmpPlay, CallStop, Clear, Executor, StopRtmpPlay, Destroy, Ticking,
      HandleTick, Repost, HandleStop, Disconnect, Join, bufVars, delayVars
<1>8. CASE PullThread
  <2>1. CASE ReadVideo \/ ReadAudio
    BY <1>4, <2>1 DEF ReadVideo, ReadAudio, CacheH264Data, CachePcmData, delayVars
  <2>2. CASE Poll \/ Succeed \/ CallConnect \/ Fail
    BY <1>4, <2>2 DEF Poll, Succeed, CallConnect, Fail, bufVars, delayVars
  <2>3. CASE DropConnection \/ Reset \/ StopFailedPlay \/ TellClosed
    BY <1>4, <2>3
    DEF DropConnection, Reset, StopFailedPlay, TellClosed, bufVars, delayVars
  <2>4. QED
    BY <1>8, <2>1, <2>2, <2>3 DEF PullThread
<1>9. CASE Time \/ EnterAudio \/ LeaveAudio \/ UNCHANGED vars
  BY <1>4, <1>9
  DEF Time, Elapse, EnterAudio, LeaveAudio, GetPlayAudio, vars, bufVars, delayVars
<1>10. QED
  BY <1>2, <1>5, <1>6, <1>7, <1>8, <1>9 DEF Next, Messaging

(* The wait for more stays below PLY_MAX_CACHE, and playing_ agrees with the *)
(* status of the buffer.                                                     *)
THEOREM WaitIsBounded == Spec => []CacheBounded
<1>1. BufferInv /\ [Next]_vars => BufferInv'
  BY BufferInvStep
<1>2. BufferInv => CacheBounded
  BY DEF BufferInv
<1>3. QED
  BY BufferInvInit, <1>1, <1>2, PTL DEF Spec

(* No pause of one play is shorter than the pause before it.                 *)
THEOREM NoPauseShrinks == Spec => PausesGrow
<1>1. BufferInv /\ [Next]_vars => BufferInv'
  BY BufferInvStep
<1>2. BufferInv /\ [Next]_vars =>
        [decoder # "none" /\ decoder' # "none" => cacheTime' >= cacheTime]_vars
  BY BufferInvStep
<1>3. QED
  BY BufferInvInit, <1>1, <1>2, PTL DEF Spec, PausesGrow

-----------------------------------------------------------------------------
(* What the application is told.  A play has an open outcome whenever its    *)
(* connection is still being made; the last attempt is made with retry_ct_   *)
(* at the limit, and whoever gives up has no connection left.                *)
Attempting == Blocking \cup {"connected", "lost", "reset"}
GivingUp   == {"stopPlay", "tellClosed"}
Opening    == {"Init", "Handshaked", "Connected"}

OutcomeInv ==
    /\ pull \in PullSteps \cup {"none"} /\ status \in Statuses
    /\ retry \in 0 .. MaxRetry + 1 /\ connected \in BOOLEAN
    /\ rtmp \in {"none", "open", "shut"}
    /\ told \in {"nothing", "ok", "refused"}
    /\ pull = "none" => retry = 0
    /\ pull \in Attempting => told = "nothing" /\ retry <= MaxRetry /\ ~connected
    /\ pull = "connected" => status \in {"Played", "Closed"}
    /\ pull \in GivingUp => told = "nothing" /\ retry = MaxRetry + 1 /\ ~connected
    /\ pull \in GivingUp \cup {"reset"} => rtmp = "none"
    /\ pull = "poll" /\ rtmp # "none" /\ status \in Opening
          => told = "nothing" /\ retry <= MaxRetry /\ ~connected

outcomeVars == <<pullVars, told>>

LEMMA NoRetryYet == 0 \in 0 .. MaxRetry + 1 /\ 0 <= MaxRetry
BY RetryAssumption

LEMMA OutcomeInvInit == Init => OutcomeInv
BY NoRetryYet
DEF Init, OutcomeInv, PullSteps, Blocking, Statuses, Attempting, GivingUp, Opening

LEMMA OutcomeInvStutter == ASSUME OutcomeInv, UNCHANGED outcomeVars PROVE OutcomeInv'
BY DEF OutcomeInv, outcomeVars, pullVars

(* Every step keeps the invariant and is one that PlayEvents allows. *)
Allowed == OutcomeInv' /\ (Events!Next \/ UNCHANGED Events!eventVars)

LEMMA AllowedStutter == ASSUME OutcomeInv, UNCHANGED outcomeVars PROVE Allowed
BY OutcomeInvStutter DEF Allowed, outcomeVars, pullVars, Events!eventVars

LEMMA AllowedStart == ASSUME OutcomeInv, HandleStart PROVE Allowed
<1>1. CASE pull = "none" /\ NewPull
  <2>1. OutcomeInv'
    <3>1. rtmp' \in {"open", "none"}
      BY <1>1 DEF NewPull, Created
    <3>2. QED
      BY <1>1, <3>1, NoRetryYet
      DEF NewPull, OutcomeInv, PullSteps, Blocking, Statuses, Attempting, GivingUp, Opening
  <2>2. Events!Begin
    BY <1>1 DEF NewPull, Events!Begin
  <2>3. QED
    BY <2>1, <2>2 DEF Allowed, Events!Next
<1>2. CASE UNCHANGED <<pullVars, told>>
  BY <1>2, AllowedStutter DEF outcomeVars
<1>3. QED
  BY <1>1, <1>2 DEF HandleStart

LEMMA AllowedStop == ASSUME OutcomeInv, HandleStop \/ Disconnect \/ Join PROVE Allowed
<1> USE DEF PullSteps, Blocking, Statuses, Attempting, GivingUp, Opening
<1>1. CASE HandleStop
  <2>1. OutcomeInv'
    BY <1>1 DEF HandleStop, OutcomeInv
  <2>2. QED
    BY <1>1, <2>1 DEF HandleStop, Allowed, Events!eventVars
<1>2. CASE Disconnect
  <2>1. OutcomeInv'
    BY <1>2 DEF Disconnect, OutcomeInv
  <2>2. QED
    BY <1>2, <2>1 DEF Disconnect, Allowed, Events!eventVars
<1>3. CASE Join
  <2>1. OutcomeInv'
    BY <1>3, NoRetryYet DEF Join, OutcomeInv
  <2>2. Events!End
    BY <1>3 DEF Join, Events!End
  <2>3. QED
    BY <2>1, <2>2 DEF Allowed, Events!Next
<1>4. QED
  BY <1>1, <1>2, <1>3

LEMMA PollGoesOn ==
    ASSUME OutcomeInv, Poll
    PROVE  /\ pull' \in {"poll", "exited"} \/ (pull' \in Blocking /\ pull' = CallOf[status]
                 /\ rtmp # "none" /\ status \in Opening)
           /\ pull = "poll"
<1>1. status \in DOMAIN CallOf => CallOf[status] \in Blocking /\ status \in Opening
  BY DEF CallOf, Blocking, Opening
<1>2. QED
  BY <1>1 DEF Poll

LEMMA AllowedPoll == ASSUME OutcomeInv, Poll PROVE Allowed
<1>1. UNCHANGED <<running, status, rtmp, retry, connected, told>>
  BY DEF Poll
<1>2. OutcomeInv'
  <2>1. CASE pull' \in {"poll", "exited"}
    BY <1>1, <2>1, PollGoesOn
    DEF OutcomeInv, PullSteps, Blocking, Attempting, GivingUp, Opening
  <2>2. CASE pull' \in Blocking /\ rtmp # "none" /\ status \in Opening
    BY <1>1, <2>2, PollGoesOn
    DEF OutcomeInv, PullSteps, Blocking, Attempting, GivingUp, Opening
  <2>3. QED
    BY <2>1, <2>2, PollGoesOn
<1>3. pull # "none" /\ pull' # "none"
  BY PollGoesOn DEF Blocking
<1>4. QED
  BY <1>1, <1>2, <1>3 DEF Allowed, Events!eventVars

LEMMA AllowedPull == ASSUME OutcomeInv, PullThread PROVE Allowed
<1> USE RetryAssumption DEF PullSteps, Blocking, Statuses, Attempting, GivingUp, Opening
<1>1. CASE Succeed
  <2>1. CASE pull = "play"
    <3>1. OutcomeInv'
      BY <1>1, <2>1 DEF Succeed, OutcomeInv
    <3>2. QED
      BY <1>1, <2>1, <3>1 DEF Succeed, Allowed, Events!eventVars
  <2>2. CASE pull \in {"handshake", "connect"}
    <3>1. OutcomeInv'
      BY <1>1, <2>2 DEF Succeed, OutcomeInv
    <3>2. QED
      BY <1>1, <2>2, <3>1 DEF Succeed, Allowed, Events!eventVars
  <2>3. QED
    BY <1>1, <2>1, <2>2 DEF Succeed
<1>2. CASE CallConnect
  <2>1. OutcomeInv'
    BY <1>2 DEF CallConnect, OutcomeInv
  <2>2. Events!TellOk
    BY <1>2 DEF CallConnect, OutcomeInv, Events!TellOk, Events!Trying
  <2>3. QED
    BY <2>1, <2>2 DEF Allowed, Events!Next
<1>3. CASE Fail \/ DropConnection
  <2>1. OutcomeInv'
    BY <1>3 DEF Fail, DropConnection, OutcomeInv
  <2>2. QED
    BY <1>3, <2>1 DEF Fail, DropConnection, Allowed, Events!eventVars
<1>4. CASE Reset
  <2>1. OutcomeInv'
    <3>1. CASE MayRetry(retry')
      BY <1>4, <3>1 DEF Reset, MayRetry, Created, OutcomeInv
    <3>2. CASE ~MayRetry(retry')
      BY <1>4, <3>2 DEF Reset, MayRetry, OutcomeInv
    <3>3. QED
      BY <3>1, <3>2
  <2>2. Events!AttemptFails
    BY <1>4 DEF Reset, OutcomeInv, Events!AttemptFails, Events!Trying
  <2>3. QED
    BY <2>1, <2>2 DEF Allowed, Events!Next
<1>5. CASE StopFailedPlay
  <2>1. OutcomeInv'
    BY <1>5 DEF StopFailedPlay, OutcomeInv
  <2>2. QED
    BY <1>5, <2>1 DEF StopFailedPlay, Allowed, Events!eventVars
<1>6. CASE TellClosed
  <2>1. OutcomeInv'
    BY <1>6 DEF TellClosed, OutcomeInv
  <2>2. Events!TellRefused
    BY <1>6 DEF TellClosed, OutcomeInv, Events!TellRefused, Events!GivenUp
  <2>3. QED
    BY <2>1, <2>2 DEF Allowed, Events!Next
<1>7. CASE ReadVideo \/ ReadAudio
  BY <1>7, AllowedStutter DEF ReadVideo, ReadAudio, outcomeVars
<1>8. QED
  BY <1>1, <1>2, <1>3, <1>4, <1>5, <1>6, <1>7, AllowedPoll DEF PullThread

LEMMA AllowedNext == OutcomeInv /\ [Next]_vars => Allowed
<1> SUFFICES ASSUME OutcomeInv, [Next]_vars PROVE Allowed
  OBVIOUS
<1>1. CASE Caller \/ Executor \/ Ticking
  BY <1>1, AllowedStutter
  DEF Caller, StartRtmpPlay, CallStop, Clear, Executor, StopRtmpPlay, Destroy, Ticking,
      HandleTick, Repost, outcomeVars
<1>2. CASE DeleteDecoder \/ DecodeTick \/ Time \/ EnterAudio \/ LeaveAudio \/ UNCHANGED vars
  BY <1>2, AllowedStutter
  DEF DeleteDecoder, DecodeTick, Time, EnterAudio, LeaveAudio, vars, outcomeVars
<1>3. QED
  BY <1>1, <1>2, AllowedStart, AllowedStop, AllowedPull DEF Next, Messaging

(* The application is told of a play what PlayEvents says: ok, or refused,   *)
(* which it is only after MAX_RETRY_TIME + 1 attempts.                       *)
THEOREM PlayTellsAsPromised == Spec => OutcomeAsPromised
<1>1. OutcomeInv /\ [Next]_vars => OutcomeInv'
  BY AllowedNext DEF Allowed
<1>2. OutcomeInv /\ [Next]_vars => [Events!Next]_Events!eventVars
  BY AllowedNext DEF Allowed
<1>3. Init => Events!Init
  BY DEF Init, Events!Init
<1>4. QED
  BY OutcomeInvInit, <1>1, <1>2, <1>3, PTL DEF Spec, OutcomeAsPromised, Events!Spec

-----------------------------------------------------------------------------
(* Messages.  While no play is started the last message that waits is a      *)
(* PLY_STOP, so whoever makes a decoder then has its end ahead of it.        *)
NoStop(s)  == \A i \in DOMAIN s : s[i] # "PLY_STOP"
EndsInStop(s) == s # <<>> => s[Len(s)] = "PLY_STOP"

LEMMA Posted ==
    ASSUME NEW s \in Seq(Messages)
    PROVE  /\ Append(s, "PLY_STOP") \in Seq(Messages)
           /\ Append(s, "PLY_START") \in Seq(Messages)
           /\ EndsInStop(Append(s, "PLY_STOP")) /\ ~NoStop(Append(s, "PLY_STOP"))
           /\ NoStop(s) <=> NoStop(Append(s, "PLY_START"))
<1>1. DEFINE stop == Append(s, "PLY_STOP")
<1>2. DEFINE start == Append(s, "PLY_START")
<1>3. stop \in Seq(Messages) /\ start \in Seq(Messages)
  BY DEF Messages
<1>4. Len(stop) = Len(s) + 1 /\ stop[Len(s) + 1] = "PLY_STOP" /\ DOMAIN stop = 1 .. Len(s) + 1
  OBVIOUS
<1>5. \A i \in 1 .. Len(s) : stop[i] = s[i] /\ start[i] = s[i]
  OBVIOUS
<1>6. Len(s) \in Nat /\ DOMAIN s = 1 .. Len(s) /\ DOMAIN start = 1 .. Len(s) + 1
  OBVIOUS
<1>7. start[Len(s) + 1] = "PLY_START"
  OBVIOUS
<1>8. EndsInStop(stop) /\ ~NoStop(stop)
  BY <1>4, <1>6 DEF EndsInStop, NoStop
<1>9. NoStop(s) <=> NoStop(start)
  BY <1>5, <1>6, <1>7 DEF NoStop
<1>10. QED
  BY <1>3, <1>8, <1>9

LEMMA Taken ==
    ASSUME NEW s \in Seq(Messages), s # <<>>
    PROVE  /\ Tail(s) \in Seq(Messages) /\ Head(s) = s[1] /\ 1 \in DOMAIN s
           /\ EndsInStop(s) => EndsInStop(Tail(s))
           /\ Head(s) = "PLY_START" => (NoStop(Tail(s)) <=> NoStop(s))
           /\ Head(s) = "PLY_START" /\ EndsInStop(s) => ~NoStop(Tail(s))
<1>1. Len(s) \in Nat \ {0} /\ DOMAIN s = 1 .. Len(s)
  OBVIOUS
<1>2. Tail(s) \in Seq(Messages) /\ Head(s) = s[1] /\ Len(Tail(s)) = Len(s) - 1
  OBVIOUS
<1>3. DOMAIN Tail(s) = 1 .. Len(s) - 1 /\ \A i \in 1 .. Len(s) - 1 : Tail(s)[i] = s[i + 1]
  BY <1>1
<1>4. \A i \in 2 .. Len(s) : i - 1 \in 1 .. Len(s) - 1 /\ s[i] = Tail(s)[i - 1]
  BY <1>1, <1>3
<1>5. EndsInStop(s) => EndsInStop(Tail(s))
  BY <1>1, <1>2, <1>3 DEF EndsInStop
<1>6. NoStop(s) => NoStop(Tail(s))
  BY <1>1, <1>3 DEF NoStop
<1>7. ASSUME Head(s) = "PLY_START", NoStop(Tail(s)) PROVE NoStop(s)
  <2> SUFFICES ASSUME NEW i \in 1 .. Len(s) PROVE s[i] # "PLY_STOP"
    BY <1>1 DEF NoStop
  <2>1. CASE i = 1
    BY <2>1, <1>2, <1>7
  <2>2. CASE i # 1
    <3>1. i \in 2 .. Len(s)
      BY <2>2, <1>1
    <3>2. i - 1 \in DOMAIN Tail(s) /\ s[i] = Tail(s)[i - 1]
      BY <3>1, <1>3, <1>4
    <3>3. QED
      BY <3>2, <1>7 DEF NoStop
  <2>3. QED
    BY <2>1, <2>2
<1>8. Head(s) = "PLY_START" /\ EndsInStop(s) => ~NoStop(s)
  BY <1>1, <1>2 DEF NoStop, EndsInStop
<1>9. QED
  BY <1>1, <1>2, <1>5, <1>6, <1>7, <1>8

LEMMA StopPendingDef == StopPending <=> player \in StopSteps \/ ~NoStop(msgs)
BY DEF StopPending, Pending, NoStop

StopAhead == player \in StopSteps \/ ~NoStop(msgs)

RenderInv ==
    /\ msgs \in Seq(Messages)
    /\ ~started => EndsInStop(msgs)
    /\ exec = "quitting" => ~started
    /\ decoder \in {"none", "shown", "freed"}
    /\ decoder = "freed" => StopAhead

renderVars == <<started, exec, msgs, player, decoder>>

LEMMA RenderInvInit == Init => RenderInv
BY DEF Init, RenderInv, EndsInStop

LEMMA RenderInvStutter == ASSUME RenderInv, UNCHANGED renderVars PROVE RenderInv'
BY DEF RenderInv, renderVars, StopAhead, EndsInStop, NoStop

LEMMA PostStop ==
    ASSUME RenderInv, Post("PLY_STOP"), UNCHANGED player
    PROVE  /\ exec = "quitting" => msgs' = msgs
           /\ exec # "quitting" => EndsInStop(msgs') /\ ~NoStop(msgs')
           /\ msgs' \in Seq(Messages)
           /\ StopAhead => StopAhead'
BY Posted DEF RenderInv, Post, StopAhead, NoStop

LEMMA RenderInvCaller == ASSUME RenderInv, Caller \/ Executor PROVE RenderInv'
<1>1. CASE StartRtmpPlay
  <2>1. msgs' = Append(msgs, "PLY_START")
    BY <1>1 DEF StartRtmpPlay, Post
  <2>2. msgs' \in Seq(Messages) /\ (NoStop(msgs) <=> NoStop(msgs'))
    BY <2>1, Posted DEF RenderInv
  <2>3. QED
    BY <1>1, <2>2 DEF StartRtmpPlay, RenderInv, StopAhead, NoStop
<1>2. CASE StopRtmpPlay \/ Clear
  <2>1. exec # "quitting" /\ Post("PLY_STOP") /\ UNCHANGED player
    BY <1>2 DEF StopRtmpPlay, Clear, StopPlay
  <2>2. msgs' \in Seq(Messages) /\ EndsInStop(msgs') /\ ~NoStop(msgs')
    BY <2>1, PostStop
  <2>3. ~started' /\ decoder' \in {"none", "shown", "freed"}
    BY <1>2 DEF StopRtmpPlay, Clear, FreeRender, RenderInv
  <2>4. QED
    BY <2>2, <2>3 DEF RenderInv, StopAhead, EndsInStop, NoStop
<1>3. CASE CallStop \/ Destroy
  BY <1>3 DEF CallStop, Destroy, postVars, RenderInv, StopAhead, EndsInStop, NoStop
<1>4. QED
  BY <1>1, <1>2, <1>3 DEF Caller, Executor

LEMMA RenderInvPlayer == ASSUME RenderInv, Messaging \/ Ticking PROVE RenderInv'
<1> USE DEF StopSteps
<1>1. CASE HandleStart
  <2>1. /\ msgs' = Tail(msgs) /\ msgs # <<>> /\ Head(msgs) = "PLY_START"
        /\ player = "idle" /\ UNCHANGED <<player, started, exec>>
    BY <1>1 DEF HandleStart, callVars
  <2>2. /\ msgs' \in Seq(Messages)
        /\ EndsInStop(msgs) => EndsInStop(msgs') /\ ~NoStop(msgs')
        /\ NoStop(msgs') <=> NoStop(msgs)
    BY <2>1, Taken DEF RenderInv
  <2>3. decoder' = decoder \/ decoder' = (IF started THEN "shown" ELSE "freed")
    BY <1>1 DEF HandleStart
  <2>4. decoder' \in {"none", "shown", "freed"}
    BY <2>3 DEF RenderInv
  <2>5. decoder' = "freed" => ~NoStop(msgs')
    BY <2>1, <2>2, <2>3 DEF RenderInv, StopAhead
  <2>6. QED
    BY <2>1, <2>2, <2>4, <2>5 DEF RenderInv, StopAhead, EndsInStop, NoStop
<1>2. CASE HandleStop
  <2>1. msgs' = Tail(msgs) /\ msgs # <<>> /\ UNCHANGED <<started, exec, decoder>>
    BY <1>2 DEF HandleStop, callVars
  <2>2. msgs' \in Seq(Messages) /\ (EndsInStop(msgs) => EndsInStop(msgs'))
    BY <2>1, Taken DEF RenderInv
  <2>3. player' \in StopSteps
    BY <1>2 DEF HandleStop
  <2>4. QED
    BY <2>1, <2>2, <2>3 DEF RenderInv, StopAhead, EndsInStop
<1>3. CASE Disconnect \/ Join
  BY <1>3
  DEF Disconnect, Join, callVars, postVars, RenderInv, StopAhead, EndsInStop, NoStop
<1>4. CASE DeleteDecoder
  BY <1>4 DEF DeleteDecoder, callVars, postVars, RenderInv, EndsInStop
<1>5. CASE Ticking
  BY <1>5
  DEF Ticking, HandleTick, Repost, callVars, RenderInv, StopAhead, EndsInStop, NoStop
<1>6. QED
  BY <1>1, <1>2, <1>3, <1>4, <1>5 DEF Messaging

LEMMA RenderInvStep == ASSUME RenderInv, [Next]_vars PROVE RenderInv'
<1>1. CASE StopFailedPlay
  <2>1. Post("PLY_STOP") /\ UNCHANGED <<started, exec, player, decoder>>
    BY <1>1 DEF StopFailedPlay, StopPlay, callVars
  <2>2. /\ msgs' \in Seq(Messages) /\ (StopAhead => StopAhead')
        /\ EndsInStop(msgs') \/ msgs' = msgs
    BY <2>1, PostStop
  <2>3. QED
    BY <2>1, <2>2 DEF RenderInv, EndsInStop
<1>2. CASE PullThread /\ ~StopFailedPlay
  <2>1. UNCHANGED renderVars
    <3>1. CASE Poll \/ Succeed \/ CallConnect \/ Fail
      BY <3>1 DEF Poll, Succeed, CallConnect, Fail, callVars, postVars, renderVars
    <3>2. CASE DropConnection \/ Reset \/ TellClosed \/ ReadVideo \/ ReadAudio
      BY <3>2
      DEF DropConnection, Reset, TellClosed, ReadVideo, ReadAudio, callVars, postVars,
          renderVars
    <3>3. QED
      BY <1>2, <3>1, <3>2 DEF PullThread
  <2>2. QED
    BY <2>1, RenderInvStutter
<1>3. CASE DecodeTick \/ Time \/ EnterAudio \/ LeaveAudio \/ UNCHANGED vars
  BY <1>3, RenderInvStutter
  DEF DecodeTick, Time, EnterAudio, LeaveAudio, vars, callVars, postVars, renderVars
<1>4. QED
  BY <1>1, <1>2, <1>3, RenderInvCaller, RenderInvPlayer DEF Next

(* Only while a PLY_STOP is ahead is there a decoder that draws on a         *)
(* renderer StopRtmpPlay has freed.                                          *)
THEOREM FreedRenderIsStopped == Spec => []FreedRenderOnlyUntilStop
<1>1. RenderInv /\ [Next]_vars => RenderInv'
  BY RenderInvStep
<1>2. RenderInv => FreedRenderOnlyUntilStop
  BY StopPendingDef DEF RenderInv, StopAhead, FreedRenderOnlyUntilStop
<1>3. QED
  BY RenderInvInit, <1>1, <1>2, PTL DEF Spec

-----------------------------------------------------------------------------
(* Types.  What the other invariants do not speak of.                        *)
PlayTyped ==
    /\ playing \in BOOLEAN /\ gotAudio \in BOOLEAN
    /\ clock \in Nat /\ audio \in Nat /\ video \in Nat /\ timer \in Nat
    /\ hazards \in HazardSets
    /\ exec \in {"idle", "stopping", "quitting", "gone"} /\ started \in BOOLEAN
    /\ ticks \in Nat /\ player \in StopSteps \cup {"idle", "tick"}
    /\ running \in BOOLEAN /\ audioAt \in {"out", "in", "taking"}

LEMMA PlayTypedNew ==
    NewBuffer => /\ playing' \in BOOLEAN /\ gotAudio' \in BOOLEAN
                 /\ clock' \in Nat /\ audio' \in Nat /\ video' \in Nat /\ timer' \in Nat
<1>1. NewBuffer => playing' \in BOOLEAN /\ gotAudio' \in BOOLEAN
  BY Zenon DEF NewBuffer
<1>2. NewBuffer => clock' \in Nat /\ audio' \in Nat /\ video' \in Nat /\ timer' \in Nat
  BY DEF NewBuffer
<1>3. QED
  BY <1>1, <1>2

LEMMA PlayTypedDecode ==
    ASSUME PlayTyped, BufferInv, DoDecode
    PROVE  /\ playing' \in BOOLEAN /\ gotAudio' \in BOOLEAN
           /\ clock' \in Nat /\ audio' \in Nat /\ video' \in Nat /\ timer' \in Nat
<1> USE DEF PlayTyped, BufferInv
<1>1. gotAudio' = gotAudio /\ (playing' = playing \/ playing' = TRUE \/ playing' = FALSE)
  BY DEF DoDecode, DecodeFast, DecodeNormal, Pause, WaitLonger, Resume
<1>2. delta * Second \in Nat /\ 4 * Red + 1 \in Nat
  BY TimesAssumption DEF Deltas
<1>3. clock' \in {clock, 4 * Red + 1} /\ video' \in {video, video - 1} /\ audio' = audio
  BY DEF DoDecode, DecodeFast, LastGap, DecodeNormal, WaitLonger, Resume
<1>4. video' \in Nat
  BY DEF DoDecode, DecodeFast, DecodeNormal, WaitLonger, Resume
<1>5. timer' \in {timer, cacheTime, delta * Second}
  BY DEF DoDecode, DecodeFast, DecodeNormal, Pause, WaitLonger, Resume
<1>6. playing' \in BOOLEAN /\ gotAudio' \in BOOLEAN
  BY <1>1, Zenon
<1>7. QED
  BY <1>2, <1>3, <1>4, <1>5, <1>6

LEMMA PlayTypedStep == ASSUME PlayTyped, BufferInv, [Next]_vars PROVE PlayTyped'
<1> USE DEF PlayTyped, StopSteps
<1>1. CASE Caller \/ Executor
  <2> USE DEF Caller, StartRtmpPlay, CallStop, Clear, StopPlay, Executor, StopRtmpPlay,
              Destroy, pullVars, postVars, bufVars
  <2>1. UNCHANGED <<playing, gotAudio, clock, audio, video, timer, hazards, player, running,
                    audioAt>>
    BY <1>1
  <2>2. ticks' \in {0, ticks, ticks + 1}
    BY <1>1
  <2>3. exec' \in {"idle", "stopping", "quitting", "gone"}
    BY <1>1
  <2>4. started' = started \/ started' = TRUE \/ started' = FALSE
    BY <1>1
  <2>5. started' \in BOOLEAN
    BY <2>4, Zenon
  <2>6. QED
    BY <2>1, <2>2, <2>3, <2>5
<1>2. CASE HandleStart
  <2>1. NewPull => running' = TRUE
    BY DEF NewPull
  <2>2. NewBuffer \/ UNCHANGED bufVars
    BY <1>2 DEF HandleStart
  <2>3. QED
    BY <1>2, <2>1, <2>2, PlayTypedNew DEF HandleStart, callVars, pullVars, bufVars
<1>3. CASE HandleStop \/ Disconnect \/ Join
  BY <1>3 DEF HandleStop, Disconnect, Join, callVars, postVars, bufVars
<1>4. CASE DeleteDecoder
  BY <1>4, PlayTypedNew DEF DeleteDecoder, callVars, postVars, pullVars
<1>5. CASE Ticking
  BY <1>5 DEF Ticking, HandleTick, Repost, callVars, pullVars, bufVars
<1>6. CASE Poll \/ Succeed \/ CallConnect \/ Fail \/ DropConnection \/ Reset
  BY <1>6
  DEF Poll, Succeed, CallConnect, Fail, DropConnection, Reset, callVars, postVars, bufVars
<1>7. CASE StopFailedPlay \/ TellClosed
  BY <1>7 DEF StopFailedPlay, StopPlay, TellClosed, callVars, postVars, bufVars
<1>8. CASE ReadVideo \/ ReadAudio
  <2>1. /\ clock' \in {clock, 1} /\ audio' \in {audio, audio + 1}
        /\ video' \in {video, video + 1} /\ timer' = timer /\ playing' = playing
        /\ gotAudio' = gotAudio \/ gotAudio' = TRUE
    BY <1>8 DEF ReadVideo, ReadAudio, CacheH264Data, CachePcmData
  <2>2. clock' \in Nat /\ audio' \in Nat /\ video' \in Nat /\ timer' \in Nat
    BY <2>1
  <2>3. playing' \in BOOLEAN /\ gotAudio' \in BOOLEAN
    BY <2>1, Zenon
  <2>4. QED
    BY <1>8, <2>2, <2>3 DEF ReadVideo, ReadAudio, callVars, postVars, pullVars
<1>9. CASE DecodeTick
  BY <1>9, PlayTypedDecode DEF DecodeTick, callVars, postVars, pullVars
<1>10. CASE Time
  BY <1>10 DEF Time, Elapse, callVars, postVars, pullVars
<1>11. CASE EnterAudio \/ LeaveAudio
  BY <1>11 DEF EnterAudio, LeaveAudio, GetPlayAudio, callVars, postVars, pullVars, bufVars
<1>12. CASE UNCHANGED vars
  BY <1>12 DEF vars, callVars, postVars, pullVars, bufVars
<1>13. QED
  BY <1>1, <1>2, <1>3, <1>4, <1>5, <1>6, <1>7, <1>8, <1>9, <1>10, <1>11, <1>12
  DEF Next, Messaging, PullThread

(* Every variable of player, connection and play buffer keeps its type.      *)
THEOREM PlayTypeCorrect == Spec => []PlayTypeOK
<1>1. Init => PlayTyped /\ BufferInv /\ OutcomeInv /\ RenderInv
  <2>1. Init => PlayTyped
    <3> SUFFICES ASSUME Init PROVE PlayTyped
      OBVIOUS
    <3>1. playing = FALSE /\ gotAudio = FALSE /\ clock = 0 /\ audio = 0 /\ video = 0 /\ timer = 0
      BY DEF Init, BufferInit
    <3>2. hazards \in HazardSets /\ exec = "idle" /\ started = FALSE
      BY DEF Init
    <3>3. ticks = 0 /\ player = "idle" /\ running = FALSE /\ audioAt = "out"
      BY DEF Init
    <3>4. QED
      BY <3>1, <3>2, <3>3 DEF PlayTyped
  <2>2. QED
    BY <2>1, BufferInvInit, OutcomeInvInit, RenderInvInit
<1>2. PlayTyped /\ BufferInv /\ OutcomeInv /\ RenderInv /\ [Next]_vars
        => (PlayTyped /\ BufferInv /\ OutcomeInv /\ RenderInv)'
  <2>1. OutcomeInv /\ [Next]_vars => OutcomeInv'
    BY AllowedNext DEF Allowed
  <2>2. QED
    BY <2>1, PlayTypedStep, BufferInvStep, RenderInvStep
<1>3. PlayTyped /\ BufferInv /\ OutcomeInv /\ RenderInv => PlayTypeOK
  <2> SUFFICES ASSUME PlayTyped, BufferInv, OutcomeInv, RenderInv PROVE PlayTypeOK
    OBVIOUS
  <2>1. BufferTypeOK
    BY DEF BufferTypeOK, PlayTyped, BufferInv
  <2>2. told \in {"nothing", "ok", "refused", "lost"}
    BY DEF OutcomeInv
  <2>3. QED
    BY <2>1, <2>2 DEF PlayTypeOK, PlayTyped, OutcomeInv, RenderInv
<1>4. QED
  BY <1>1, <1>2, <1>3, PTL DEF Spec

-----------------------------------------------------------------------------
(* Plays one after the other.  Without a restart a started play is waiting   *)
(* for its PLY_START, is going on, or has been refused; a stopped one has    *)
(* its PLY_STOP ahead.                                                       *)
Waiting == msgs = <<"PLY_START">> /\ pull = "none" /\ player \notin StopSteps /\ TicksAlive
Going   == msgs = <<>> /\ pull # "none" /\ player \notin StopSteps /\ TicksAlive
Refused == msgs \in {<<>>, <<"PLY_STOP">>} /\ (pull = "tellClosed" \/ told = "refused")

AloneInv ==
    /\ ticks \in Nat
    /\ player = "deleting" => pull = "none"
    /\ started => exec \in {"idle", "stopping"} /\ (Waiting \/ Going \/ Refused)
    /\ ~started => pull = "none" \/ StopAhead

aloneVars == <<ticks, player, pull, started, exec, msgs, told>>

Alone == "restart" \notin hazards

LEMMA AloneInvInit == Init => AloneInv
BY DEF Init, AloneInv, StopSteps

LEMMA AloneInvStutter == ASSUME AloneInv, UNCHANGED aloneVars PROVE AloneInv'
BY DEF AloneInv, aloneVars, Waiting, Going, Refused, TicksAlive, StopAhead, NoStop

LEMMA AloneInvCaller ==
    ASSUME Alone, RenderInv, AloneInv, Caller \/ Executor
    PROVE  AloneInv'
<1>1. CASE StartRtmpPlay
  <2>1. ~StopPending /\ ~started /\ exec = "idle"
    BY <1>1 DEF StartRtmpPlay, Alone
  <2>2. player \notin StopSteps /\ NoStop(msgs) /\ pull = "none"
    BY <2>1, StopPendingDef DEF AloneInv, StopAhead
  <2>3. msgs = <<>>
    <3>1. Len(msgs) \in DOMAIN msgs \/ msgs = <<>>
      BY DEF RenderInv
    <3>2. QED
      BY <2>1, <2>2, <3>1 DEF RenderInv, EndsInStop, NoStop
  <2>4. msgs' = <<"PLY_START">> /\ ticks' = ticks + 1
    BY <1>1, <2>1, <2>3 DEF StartRtmpPlay, Post
  <2>5. Waiting'
    BY <1>1, <2>2, <2>4 DEF StartRtmpPlay, Waiting, TicksAlive, pullVars, AloneInv
  <2>6. QED
    BY <1>1, <2>2, <2>4, <2>5 DEF StartRtmpPlay, AloneInv, pullVars
<1>2. CASE StopRtmpPlay \/ Clear
  <2>1. exec # "quitting" /\ Post("PLY_STOP") /\ UNCHANGED <<player, pull>>
    BY <1>2 DEF StopRtmpPlay, Clear, StopPlay, pullVars
  <2>2. ~NoStop(msgs') /\ ~started' /\ ticks' = 0
    BY <1>2, <2>1, PostStop DEF StopRtmpPlay, Clear, StopPlay
  <2>3. QED
    BY <2>1, <2>2 DEF AloneInv, StopAhead
<1>3. CASE CallStop
  <2>1. exec' = "stopping" /\ UNCHANGED <<ticks, player, pull, started, msgs, told>>
    BY <1>3 DEF CallStop, postVars, pullVars
  <2>2. QED
    BY <2>1
    DEF AloneInv, Waiting, Going, Refused, TicksAlive, StopAhead, NoStop
<1>4. CASE Destroy
  <2>1. ~started /\ UNCHANGED <<ticks, player, pull, started, msgs, told>>
    BY <1>4 DEF Destroy, postVars, pullVars, AloneInv
  <2>2. QED
    BY <2>1 DEF AloneInv, StopAhead, NoStop
<1>5. QED
  BY <1>1, <1>2, <1>3, <1>4 DEF Caller, Executor

LEMMA AloneInvPlayer ==
    ASSUME OutcomeInv, RenderInv, AloneInv, Messaging \/ Ticking
    PROVE  AloneInv'
<1>1. CASE HandleStart
  <2>1. /\ msgs' = Tail(msgs) /\ msgs # <<>> /\ Head(msgs) = "PLY_START" /\ player = "idle"
        /\ UNCHANGED <<started, exec, ticks, player>>
        /\ pull' # "none"
    BY <1>1 DEF HandleStart, NewPull, callVars, pullVars
  <2>2. CASE started
    <3>1. msgs = <<"PLY_START">> /\ TicksAlive
      BY <2>1, <2>2 DEF AloneInv, Waiting, Going, Refused
    <3>2. msgs' = <<>>
      BY <2>1, <3>1
    <3>3. Going'
      BY <2>1, <3>1, <3>2 DEF Going, TicksAlive, StopSteps
    <3>4. QED
      BY <2>1, <2>2, <3>3 DEF AloneInv
  <2>3. CASE ~started
    <3>1. ~NoStop(msgs')
      BY <2>1, <2>3, Taken DEF RenderInv
    <3>2. QED
      BY <2>1, <2>3, <3>1 DEF AloneInv, StopAhead
  <2>4. QED
    BY <2>2, <2>3 DEF AloneInv
<1>2. CASE HandleStop
  <2>1. /\ msgs' = Tail(msgs) /\ msgs # <<>> /\ Head(msgs) = "PLY_STOP" /\ player = "idle"
        /\ UNCHANGED <<started, exec, ticks, pull, told>>
        /\ player' \in StopSteps
        /\ player' = "deleting" => pull = "none"
    BY <1>2 DEF HandleStop, callVars, StopSteps
  <2>2. started => Refused'
    <3>1. started => Refused /\ msgs = <<"PLY_STOP">>
      BY <2>1 DEF AloneInv, Waiting, Going, Refused
    <3>2. ASSUME started PROVE msgs' = <<>>
      <4>1. msgs = <<"PLY_STOP">>
        BY <3>1, <3>2
      <4>2. QED
        BY <2>1, <4>1
    <3>3. QED
      BY <2>1, <3>1, <3>2 DEF Refused
  <2>3. QED
    BY <2>1, <2>2 DEF AloneInv, StopAhead
<1>3. CASE Disconnect
  <2>1. player = "closing" /\ player' = "joining" /\ UNCHANGED <<ticks, pull, started, exec, msgs, told>>
    BY <1>3 DEF Disconnect, callVars, postVars
  <2>2. started => Refused /\ Refused'
    BY <2>1 DEF AloneInv, Waiting, Going, Refused, StopSteps
  <2>3. QED
    BY <2>1, <2>2 DEF AloneInv, StopAhead, StopSteps
<1>4. CASE Join
  <2>1. player = "joining" /\ player' = "deleting" /\ pull = "exited" /\ pull' = "none"
        /\ UNCHANGED <<ticks, started, exec, msgs, told>>
    BY <1>4 DEF Join, callVars, postVars
  <2>2. started => Refused'
    BY <2>1 DEF AloneInv, Waiting, Going, Refused, StopSteps
  <2>3. QED
    BY <2>1, <2>2 DEF AloneInv
<1>5. CASE DeleteDecoder
  <2>1. player = "deleting" /\ player' = "idle" /\ pull = "none"
        /\ UNCHANGED <<pull, ticks, started, exec, msgs, told>>
    BY <1>5 DEF DeleteDecoder, callVars, postVars, pullVars, AloneInv
  <2>2. started => Refused'
    BY <2>1 DEF AloneInv, Waiting, Going, Refused, StopSteps
  <2>3. QED
    BY <2>1, <2>2 DEF AloneInv
<1>6. CASE Ticking
  <2>1. /\ UNCHANGED <<pull, started, exec, msgs, told>>
        /\ player \in {"idle", "tick"} /\ player' \in {"idle", "tick"}
    BY <1>6 DEF Ticking, HandleTick, Repost, callVars, pullVars
  <2>2. ticks' \in Nat /\ (started => TicksAlive')
    BY <1>6 DEF Ticking, HandleTick, Repost, AloneInv, TicksAlive
  <2>3. QED
    BY <2>1, <2>2 DEF AloneInv, Waiting, Going, Refused, StopAhead, StopSteps, NoStop
<1>7. QED
  BY <1>1, <1>2, <1>3, <1>4, <1>5, <1>6 DEF Messaging

LEMMA AloneInvPull ==
    ASSUME OutcomeInv, RenderInv, AloneInv, PullThread
    PROVE  AloneInv'
<1> USE DEF Attempting, GivingUp, Blocking
<1>1. CASE StopFailedPlay
  <2>1. /\ pull = "stopPlay" /\ pull' = "tellClosed" /\ ticks' = 0
        /\ Post("PLY_STOP") /\ UNCHANGED <<started, exec, player, told>>
    BY <1>1 DEF StopFailedPlay, StopPlay, callVars
  <2>2. told = "nothing"
    BY <2>1 DEF OutcomeInv
  <2>3. CASE started
    <3>1. msgs = <<>> /\ exec # "quitting"
      BY <2>1, <2>2, <2>3 DEF AloneInv, Waiting, Going, Refused
    <3>2. msgs' = <<"PLY_STOP">>
      BY <2>1, <3>1 DEF Post
    <3>3. QED
      BY <2>1, <2>3, <3>2 DEF AloneInv, Refused
  <2>4. CASE ~started
    <3>1. StopAhead'
      BY <2>1, <2>4, PostStop DEF AloneInv
    <3>2. QED
      BY <2>1, <2>4, <3>1 DEF AloneInv
  <2>5. QED
    BY <2>3, <2>4 DEF AloneInv
<1>2. CASE PullThread /\ ~StopFailedPlay
  <2>1. UNCHANGED <<ticks, player, started, exec, msgs>>
    <3>1. CASE Poll \/ Succeed \/ CallConnect \/ Fail
      BY <3>1 DEF Poll, Succeed, CallConnect, Fail, callVars, postVars
    <3>2. CASE DropConnection \/ Reset \/ TellClosed \/ ReadVideo \/ ReadAudio
      BY <3>2 DEF DropConnection, Reset, TellClosed, ReadVideo, ReadAudio, callVars, postVars
    <3>3. QED
      BY <1>2, <3>1, <3>2 DEF PullThread
  <2>2. pull # "none" /\ pull' # "none"
    <3>1. CASE Poll
      BY <3>1, PollGoesOn
    <3>2. CASE Succeed \/ CallConnect \/ Fail
      BY <3>2 DEF Succeed, CallConnect, Fail
    <3>3. CASE DropConnection \/ Reset \/ TellClosed \/ ReadVideo \/ ReadAudio
      BY <3>3 DEF DropConnection, Reset, TellClosed, ReadVideo, ReadAudio, Reading, pullVars
    <3>4. QED
      BY <1>2, <3>1, <3>2, <3>3 DEF PullThread
  <2>3. Refused => Refused'
    <3>1. CASE TellClosed
      <4>1. told' = "refused"
        BY <3>1 DEF TellClosed, OutcomeInv
      <4>2. QED
        BY <2>1, <4>1 DEF Refused
    <3>2. CASE told = "refused" /\ pull # "tellClosed" /\ told' = told
      BY <2>1, <3>2 DEF Refused
    <3>3. CASE CallConnect
      BY <3>3 DEF CallConnect, OutcomeInv, Refused
    <3>4. CASE Poll \/ Succeed \/ Fail
      BY <3>2, <3>4 DEF Poll, Succeed, Fail, OutcomeInv, Refused
    <3>5. CASE DropConnection \/ Reset \/ ReadVideo \/ ReadAudio
      BY <3>2, <3>5 DEF DropConnection, Reset, ReadVideo, ReadAudio, Reading, Refused
    <3>6. QED
      BY <1>2, <3>1, <3>3, <3>4, <3>5 DEF PullThread
  <2>4. QED
    BY <2>1, <2>2, <2>3
    DEF AloneInv, Waiting, Going, TicksAlive, StopAhead, NoStop
<1>3. QED
  BY <1>1, <1>2

LEMMA AloneInvStep ==
    ASSUME Alone, OutcomeInv, RenderInv, AloneInv, [Next]_vars
    PROVE  AloneInv'
<1>1. CASE DecodeTick \/ Time \/ EnterAudio \/ LeaveAudio \/ UNCHANGED vars
  BY <1>1, AloneInvStutter
  DEF DecodeTick, Time, EnterAudio, LeaveAudio, vars, callVars, postVars, pullVars, aloneVars
<1>2. QED
  BY <1>1, AloneInvCaller, AloneInvPlayer, AloneInvPull DEF Next

LEMMA HazardsStay == [Next]_vars => UNCHANGED hazards
<1> SUFFICES ASSUME [Next]_vars PROVE UNCHANGED hazards
  OBVIOUS
<1>1. CASE Caller \/ Executor \/ Messaging \/ Ticking
  BY <1>1
  DEF Caller, StartRtmpPlay, CallStop, Clear, Executor, StopRtmpPlay, Destroy, Messaging,
      HandleStart, HandleStop, Disconnect, Join, DeleteDecoder, Ticking, HandleTick, Repost
<1>2. CASE PullThread
  BY <1>2
  DEF PullThread, Poll, Succeed, CallConnect, Fail, DropConnection, Reset, StopFailedPlay,
      TellClosed, ReadVideo, ReadAudio
<1>3. CASE DecodeTick \/ Time \/ EnterAudio \/ LeaveAudio \/ UNCHANGED vars
  BY <1>3 DEF DecodeTick, Time, EnterAudio, LeaveAudio, vars
<1>4. QED
  BY <1>1, <1>2, <1>3 DEF Next

PlayInv == OutcomeInv /\ RenderInv /\ (Alone => AloneInv)

LEMMA PlayInvHolds == Spec => []PlayInv
<1>1. Init => PlayInv
  BY OutcomeInvInit, RenderInvInit, AloneInvInit DEF PlayInv
<1>2. PlayInv /\ [Next]_vars => PlayInv'
  <2> SUFFICES ASSUME PlayInv, [Next]_vars PROVE PlayInv'
    OBVIOUS
  <2>1. OutcomeInv'
    BY AllowedNext DEF Allowed, PlayInv
  <2>2. RenderInv'
    BY RenderInvStep DEF PlayInv
  <2>3. Alone' => AloneInv'
    BY HazardsStay, AloneInvStep DEF PlayInv, Alone
  <2>4. QED
    BY <2>1, <2>2, <2>3 DEF PlayInv
<1>3. QED
  BY <1>1, <1>2, PTL DEF Spec

(* A started play has its connection and its tick unless it was refused or   *)
(* the caller had started again before the last PLY_STOP was handled.        *)
THEOREM StartedPlayGoesOn == Spec => []StartedPlayIsAlive
<1>1. PlayInv => StartedPlayIsAlive
  BY DEF PlayInv, StartedPlayIsAlive, Alone, AloneInv, Waiting, Going, Refused
<1>2. QED
  BY <1>1, PlayInvHolds, PTL

-----------------------------------------------------------------------------
(* A server that refuses nothing.  An attempt can then fail only once the    *)
(* destructor has shut the connection, and there is no second one.           *)
NothingRefused == "refuse" \notin hazards

FirstTryInv ==
    /\ running => pull \notin {"none", "lost", "reset"} /\ rtmp # "shut" /\ retry = 0
    /\ running /\ pull \in Blocking => rtmp = "open"
    /\ pull \in Attempting => retry = 0
    /\ pull \notin GivingUp /\ told # "refused"
    /\ player \in {"closing", "joining"} => ~running

firstTryVars == <<running, pull, rtmp, retry, told, player>>

LEMMA FirstTryInit == Init => FirstTryInv
BY DEF Init, FirstTryInv, Attempting, Blocking, GivingUp

LEMMA FirstTryStutter == ASSUME FirstTryInv, UNCHANGED firstTryVars PROVE FirstTryInv'
BY DEF FirstTryInv, firstTryVars

LEMMA FirstTryPlayer ==
    ASSUME FirstTryInv, Messaging \/ Ticking
    PROVE  FirstTryInv'
<1> USE DEF Attempting, Blocking, GivingUp
<1>1. CASE HandleStart
  <2>1. CASE NewPull
    <3>1. rtmp' \in {"open", "none"} /\ pull' = "poll" /\ retry' = 0 /\ told' = "nothing"
      BY <2>1 DEF NewPull, Created
    <3>2. player' = "idle"
      BY <1>1 DEF HandleStart
    <3>3. QED
      BY <3>1, <3>2 DEF FirstTryInv
  <2>2. CASE UNCHANGED <<pullVars, told>>
    BY <1>1, <2>2, FirstTryStutter DEF HandleStart, pullVars, firstTryVars
  <2>3. QED
    BY <1>1, <2>1, <2>2 DEF HandleStart
<1>2. CASE HandleStop
  BY <1>2 DEF HandleStop, FirstTryInv
<1>3. CASE Disconnect
  BY <1>3 DEF Disconnect, FirstTryInv
<1>4. CASE Join
  BY <1>4 DEF Join, FirstTryInv
<1>5. CASE DeleteDecoder \/ Ticking
  BY <1>5 DEF DeleteDecoder, Ticking, HandleTick, Repost, pullVars, FirstTryInv
<1>6. QED
  BY <1>1, <1>2, <1>3, <1>4, <1>5 DEF Messaging

LEMMA FirstTryPull ==
    ASSUME NothingRefused, OutcomeInv, FirstTryInv, PullThread
    PROVE  FirstTryInv'
<1> USE DEF Attempting, Blocking, GivingUp
<1>1. CASE Poll
  <2>1. running \/ pull' \in {"exited"}
    BY <1>1 DEF Poll
  <2>2. UNCHANGED <<player, running, rtmp, retry, told>> /\ pull = "poll"
    BY <1>1 DEF Poll
  <2>3. CASE pull' \in {"poll", "exited"}
    BY <2>2, <2>3 DEF FirstTryInv
  <2>4. CASE pull' \in Blocking /\ rtmp # "none"
    <3>1. running /\ rtmp = "open"
      BY <2>1, <2>4 DEF FirstTryInv, OutcomeInv
    <3>2. QED
      BY <2>2, <2>4, <3>1 DEF FirstTryInv
  <2>5. QED
    BY <1>1, <2>3, <2>4, PollGoesOn
<1>2. CASE Succeed
  BY <1>2 DEF Succeed, FirstTryInv
<1>3. CASE CallConnect
  BY <1>3 DEF CallConnect, FirstTryInv
<1>4. CASE Fail
  BY <1>4 DEF Fail, FirstTryInv, NothingRefused
<1>5. CASE DropConnection
  BY <1>5 DEF DropConnection, FirstTryInv
<1>6. CASE Reset
  <2>1. retry' = 1 /\ MayRetry(retry')
    BY <1>6, RetryAssumption DEF Reset, MayRetry, FirstTryInv
  <2>2. QED
    BY <1>6, <2>1 DEF Reset, FirstTryInv
<1>7. CASE StopFailedPlay \/ TellClosed
  BY <1>7 DEF StopFailedPlay, TellClosed, FirstTryInv
<1>8. CASE ReadVideo \/ ReadAudio
  BY <1>8, FirstTryStutter DEF ReadVideo, ReadAudio, pullVars, firstTryVars
<1>9. QED
  BY <1>1, <1>2, <1>3, <1>4, <1>5, <1>6, <1>7, <1>8 DEF PullThread

LEMMA FirstTryStep ==
    ASSUME NothingRefused, OutcomeInv, FirstTryInv, [Next]_vars
    PROVE  FirstTryInv'
<1>1. CASE Caller \/ Executor
  BY <1>1, FirstTryStutter
  DEF Caller, StartRtmpPlay, CallStop, Clear, Executor, StopRtmpPlay, Destroy,
      pullVars, firstTryVars
<1>2. CASE DecodeTick \/ Time \/ EnterAudio \/ LeaveAudio \/ UNCHANGED vars
  BY <1>2, FirstTryStutter
  DEF DecodeTick, Time, EnterAudio, LeaveAudio, vars, pullVars, firstTryVars
<1>3. QED
  BY <1>1, <1>2, FirstTryPlayer, FirstTryPull DEF Next

-----------------------------------------------------------------------------
(* The audio track.  It is inside the decoder only while a play is started,  *)
(* and a started play that nobody refuses has no PLY_STOP ahead of it.       *)
AudioInv ==
    /\ ~started => audioAt = "out"
    /\ audioAt # "out" => decoder # "none"

LEMMA AudioInvStep ==
    ASSUME Alone, NothingRefused, AloneInv, FirstTryInv, AudioInv, [Next]_vars
    PROVE  AudioInv'
<1>1. started => player \notin StopSteps
  BY DEF AloneInv, FirstTryInv, GivingUp, Waiting, Going, Refused
<1>2. CASE DeleteDecoder
  <2>1. ~started /\ UNCHANGED <<started, audioAt>>
    BY <1>1, <1>2 DEF DeleteDecoder, StopSteps, callVars
  <2>2. QED
    BY <2>1 DEF AudioInv
<1>3. CASE HandleStart
  BY <1>3 DEF HandleStart, callVars, AudioInv
<1>4. CASE Caller \/ Executor
  BY <1>4
  DEF Caller, StartRtmpPlay, CallStop, Clear, Executor, StopRtmpPlay, FreeRender, Destroy,
      AudioInv
<1>5. CASE EnterAudio \/ LeaveAudio
  BY <1>5 DEF EnterAudio, LeaveAudio, callVars, AudioInv
<1>6. CASE HandleStop \/ Disconnect \/ Join \/ Ticking
  BY <1>6
  DEF HandleStop, Disconnect, Join, Ticking, HandleTick, Repost, callVars, AudioInv
<1>7. CASE PullThread
  BY <1>7
  DEF PullThread, Poll, Succeed, CallConnect, Fail, DropConnection, Reset, StopFailedPlay,
      TellClosed, ReadVideo, ReadAudio, callVars, AudioInv
<1>8. CASE DecodeTick \/ Time \/ UNCHANGED vars
  BY <1>8 DEF DecodeTick, Time, vars, callVars, AudioInv
<1>9. QED
  BY <1>2, <1>3, <1>4, <1>5, <1>6, <1>7, <1>8 DEF Next, Messaging

CalmInv == NothingRefused => FirstTryInv /\ (Alone => AudioInv)

(* The audio track never takes sound out of a decoder that was deleted under *)
(* it, unless a play is refused or started again too early.                  *)
THEOREM AudioStaysOutside == Spec => []AudioOutsideDeleted
<1>1. Init => CalmInv
  BY FirstTryInit DEF Init, CalmInv, AudioInv
<1>2. PlayInv /\ CalmInv /\ [Next]_vars => CalmInv'
  <2> SUFFICES ASSUME PlayInv, CalmInv, [Next]_vars, NothingRefused'
               PROVE  FirstTryInv' /\ (Alone' => AudioInv')
    BY DEF CalmInv
  <2>1. NothingRefused /\ (Alone' => Alone)
    BY HazardsStay DEF NothingRefused, Alone
  <2>2. FirstTryInv'
    BY <2>1, FirstTryStep DEF PlayInv, CalmInv
  <2>3. Alone' => AudioInv'
    BY <2>1, AudioInvStep DEF PlayInv, CalmInv
  <2>4. QED
    BY <2>2, <2>3
<1>3. CalmInv => AudioOutsideDeleted
  BY DEF CalmInv, NothingRefused, Alone, AudioInv, AudioOutsideDeleted
<1>4. QED
  BY <1>1, <1>2, <1>3, PlayInvHolds, PTL DEF Spec

=============================================================================
