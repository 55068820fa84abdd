----------------------------- MODULE PlayBuffer -----------------------------
(***************************************************************************)
(* The play buffer of the RTMP player: PlyBuffer, and the flag playing_ of *)
(* the PlyDecoder that owns it.  The pull thread puts sound and pictures   *)
(* in; DoDecode, every 5 ms on the decoder's thread, decides when to start *)
(* (PS_Fast), to play (PS_Normal) and to wait for more (PS_Cache); the     *)
(* audio track takes sound out while playing_ holds.                       *)
(*                                                                         *)
(* Time is counted in units; a packet is what arrives of one medium in one *)
(* unit, so a list of n packets spans n - 1 units between the _dts of its  *)
(* front and its back.  Which frame is due is left open.                   *)
(***************************************************************************)
EXTENDS Naturals

CONSTANTS
    Red,            \* PLY_RED_TIME, 250 ms
    MaxDelay,       \* PLY_MAX_DELAY, 1 s
    Second,         \* the 1000 ms that cache_delta_ multiplies
    MaxCache,       \* PLY_MAX_CACHE
    MaxPackets      \* bound: a list that is full gets no packet

ASSUME TimesAssumption ==
    Red \in Nat \ {0} /\ MaxDelay \in Nat \ {0} /\ Second \in Nat /\ Second > Red
ASSUME MaxCacheAssumption == MaxCache \in {2, 4, 8, 16}
ASSUME PacketsAssumption == MaxPackets \in Nat

VARIABLES
    plyStatus,      \* ply_status_
    playing,        \* PlyDecoder.playing_
    gotAudio,       \* got_audio_
    clock,          \* 0 while sys_fast_video_time_ is 0, then 1 + the time since
    audio,          \* lst_audio_buffer_, its length
    video,          \* lst_video_buffer_, its length
    delta,          \* cache_delta_
    cacheTime,      \* cache_time_
    timer           \* the time to rtmp_cache_time_

bufVars == <<plyStatus, playing, gotAudio, clock, audio, video, delta, cacheTime, timer>>

-----------------------------------------------------------------------------
Span(packets) == IF packets = 0 THEN 0 ELSE packets - 1

(* media_buf_time *)
Buffered == IF gotAudio THEN Span(audio) ELSE Span(video)

Deltas == {1, 2, 4, 8, 16}
LastGap == 4 * Red      \* no later gap is told apart

BufferTypeOK ==
    /\ plyStatus \in {"PS_Fast", "PS_Normal", "PS_Cache"}
    /\ playing \in BOOLEAN /\ gotAudio \in BOOLEAN
    /\ clock \in Nat /\ audio \in Nat /\ video \in Nat
    /\ delta \in Deltas /\ cacheTime \in Nat /\ timer \in Nat

BufferInit ==
    /\ plyStatus = "PS_Fast" /\ playing = FALSE /\ gotAudio = FALSE
    /\ clock = 0 /\ audio = 0 /\ video = 0
    /\ delta = 1 /\ cacheTime = Second /\ timer = 0

(* A new PlyDecoder has a new PlyBuffer. *)
NewBuffer ==
    /\ plyStatus' = "PS_Fast" /\ playing' = FALSE /\ gotAudio' = FALSE
    /\ clock' = 0 /\ audio' = 0 /\ video' = 0
    /\ delta' = 1 /\ cacheTime' = Second /\ timer' = 0

-----------------------------------------------------------------------------
CacheH264Data ==
    /\ video < MaxPackets
    /\ video' = video + 1
    /\ clock' = IF clock = 0 THEN 1 ELSE clock
    /\ UNCHANGED <<plyStatus, playing, gotAudio, audio, delta, cacheTime, timer>>

(* Sound alone starts the clock when it spans PLY_MAX_DELAY. *)
CachePcmData ==
    /\ audio < MaxPackets
    /\ audio' = audio + 1 /\ gotAudio' = TRUE
    /\ clock' = IF clock = 0 /\ Span(audio') >= MaxDelay THEN 1 ELSE clock
    /\ UNCHANGED <<plyStatus, playing, video, delta, cacheTime, timer>>

GetPlayAudio ==
    /\ audio' = IF audio > 0 THEN audio - 1 ELSE audio
    /\ UNCHANGED <<plyStatus, playing, gotAudio, clock, video, delta, cacheTime, timer>>

(* Time goes on; how it relates to what arrives is left open. *)
Elapse ==
    /\ clock \in 1 .. LastGap \/ timer > 0
    /\ clock' = IF clock \in 1 .. LastGap THEN clock + 1 ELSE clock
    /\ timer' = IF timer > 0 THEN timer - 1 ELSE timer
    /\ UNCHANGED <<plyStatus, playing, gotAudio, audio, video, delta, cacheTime>>

-----------------------------------------------------------------------------
(* DoDecode.                                                                *)

(* Mutant: only sound starts the play. *)
MayStartWithSound == clock > Red /\ Span(audio) > Red

(* With any sound in the list pictures alone never start the play. *)
MayStart ==
    /\ clock > Red
    /\ IF audio > 0 THEN Span(audio) > Red ELSE clock > LastGap /\ video > 0

(* The clock is not looked at again once PS_Fast is left. *)
DecodeFast ==
    /\ plyStatus = "PS_Fast" /\ MayStart
    /\ plyStatus' = "PS_Normal" /\ playing' = TRUE /\ clock' = LastGap + 1
    /\ UNCHANGED <<gotAudio, audio, video, delta, cacheTime, timer>>

Doubled(d) == IF d < MaxCache THEN d * 2 ELSE d

(* Mutant: the wait starts over at every pause. *)
PauseFromTheStart ==
    /\ plyStatus' = "PS_Cache" /\ playing' = FALSE
    /\ cacheTime' = delta * Second /\ delta' = IF delta = 1 THEN 2 ELSE 1
    /\ timer' = cacheTime'

Pause ==
    /\ plyStatus' = "PS_Cache" /\ playing' = FALSE
    /\ cacheTime' = delta * Second /\ delta' = Doubled(delta)
    /\ timer' = cacheTime'

(* A frame that is due goes to the decoder before the buffer is looked at. *)
DecodeNormal ==
    /\ plyStatus = "PS_Normal"
    /\ video' \in {video} \cup (IF video > 0 THEN {video - 1} ELSE {})
    /\ IF Buffered <= Red
       THEN Pause
       ELSE UNCHANGED <<plyStatus, playing, cacheTime, delta, timer>>
    /\ UNCHANGED <<gotAudio, clock, audio>>

WaitLonger ==
    /\ plyStatus = "PS_Cache" /\ timer = 0 /\ Buffered < cacheTime - Red
    /\ timer' = cacheTime
    /\ UNCHANGED <<plyStatus, playing, gotAudio, clock, audio, video, delta, cacheTime>>

(* Mutant: the longest delay is kept. *)
ResumeWithoutHalving ==
    /\ plyStatus = "PS_Cache" /\ timer = 0 /\ Buffered >= cacheTime - Red
    /\ plyStatus' = "PS_Normal" /\ playing' = TRUE
    /\ UNCHANGED <<gotAudio, clock, audio, video, delta, cacheTime, timer>>

Resume ==
    /\ plyStatus = "PS_Cache" /\ timer = 0 /\ Buffered >= cacheTime - Red
    /\ plyStatus' = "PS_Normal" /\ playing' = TRUE
    /\ delta' = IF delta = MaxCache THEN delta \div 2 ELSE delta
    /\ UNCHANGED <<gotAudio, clock, audio, video, cacheTime, timer>>

DoDecode == DecodeFast \/ DecodeNormal \/ WaitLonger \/ Resume

-----------------------------------------------------------------------------
(* PLY_MAX_CACHE bounds the wait from above but is never waited: a pause      *)
(* takes the delta from before it is doubled, and playing never begins again  *)
(* with the largest one (plybuffer.cc:206, 231).  playing_ and the status     *)
(* agree whenever DoDecode has returned.                                      *)
CacheBounded ==
    /\ cacheTime < MaxCache * Second
    /\ plyStatus # "PS_Cache" => delta < MaxCache
    /\ playing <=> plyStatus = "PS_Normal"

=============================================================================
