------------------------ MODULE DownloadTally_proofs ------------------------
(***************************************************************************)
(* What counting says of the download service.  No task is left on the     *)
(* list for good, as long as nothing fails and nothing is paused: the      *)
(* tasks of a url that are listed are never more than the threads,         *)
(* messages and broadcasts that will still take one of them off.  And      *)
(* every download lives as DownloadLife says, as long as nothing is        *)
(* paused: the threads, messages and broadcasts of a TaskInfo are counted. *)
(***************************************************************************)
EXTENDS DownloadService_proofs, FiniteSetTheorems

-----------------------------------------------------------------------------
(* Counting the elements of a sequence.                                      *)
Places(s, S) == {i \in DOMAIN s : s[i] \in S}
One(b)       == IF b THEN 1 ELSE 0

(* The threads that run an element of a set. *)
Running(f, S) == {w \in Workers : f[w] \in S}

LEMMA PlacesFinite ==
    ASSUME NEW S, NEW T, NEW s \in Seq(T)
    PROVE  IsFiniteSet(Places(s, S)) /\ Cardinality(Places(s, S)) \in Nat
<1>1. Len(s) \in Nat /\ DOMAIN s = 1 .. Len(s)
  OBVIOUS
<1>2. IsFiniteSet(1 .. Len(s))
  BY <1>1, FS_Interval
<1>3. Places(s, S) \in SUBSET (1 .. Len(s))
  BY <1>1 DEF Places
<1>4. QED
  BY <1>2, <1>3, FS_Subset, FS_CardinalityType

LEMMA PlacesAppend ==
    ASSUME NEW S, NEW T, NEW s \in Seq(T), NEW e \in T
    PROVE  Cardinality(Places(Append(s, e), S)) = Cardinality(Places(s, S)) + One(e \in S)
<1>1. /\ Len(s) \in Nat /\ DOMAIN s = 1 .. Len(s)
      /\ DOMAIN Append(s, e) = 1 .. Len(s) + 1 /\ Append(s, e)[Len(s) + 1] = e
      /\ \A i \in 1 .. Len(s) : Append(s, e)[i] = s[i]
  OBVIOUS
<1>2. IsFiniteSet(Places(s, S)) /\ Len(s) + 1 \notin Places(s, S)
  <2>1. IsFiniteSet(Places(s, S))
    BY PlacesFinite
  <2>2. ~(Len(s) + 1 \in 1 .. Len(s))
    BY <1>1
  <2>3. QED
    BY <1>1, <2>1, <2>2 DEF Places
<1>3. CASE e \in S
  <2>1. Places(Append(s, e), S) = Places(s, S) \cup {Len(s) + 1}
    BY <1>1, <1>3 DEF Places
  <2>2. QED
    BY <1>2, <1>3, <2>1, FS_AddElement DEF One
<1>4. CASE e \notin S
  <2>1. Places(Append(s, e), S) = Places(s, S)
    BY <1>1, <1>4 DEF Places
  <2>2. Cardinality(Places(s, S)) \in Nat
    BY PlacesFinite
  <2>3. QED
    BY <1>4, <2>1, <2>2 DEF One
<1>5. QED
  BY <1>3, <1>4

(* An element is taken out, and those behind it move up. *)
LEMMA PlacesWithout ==
    ASSUME NEW S, NEW T, NEW s \in Seq(T), NEW i \in 1 .. Len(s), NEW z \in Seq(T),
           Len(z) = Len(s) - 1,
           \A j \in 1 .. Len(z) : z[j] = IF j < i THEN s[j] ELSE s[j + 1]
    PROVE  Cardinality(Places(s, S)) = Cardinality(Places(z, S)) + One(s[i] \in S)
<1>1. /\ Len(s) \in Nat /\ Len(z) \in Nat /\ DOMAIN s = 1 .. Len(s) /\ DOMAIN z = 1 .. Len(z)
      /\ i \in Nat
  OBVIOUS
<1>2. DEFINE up == [j \in Places(z, S) |-> IF j < i THEN j ELSE j + 1]
<1>3. \A j \in Places(z, S) : j \in 1 .. Len(z) /\ j \in Int
  BY <1>1 DEF Places
<1>4. \A j \in Places(z, S) : up[j] \in Places(s, S) \ {i}
  <2> SUFFICES ASSUME NEW j \in Places(z, S) PROVE up[j] \in Places(s, S) \ {i}
    OBVIOUS
  <2>1. j \in 1 .. Len(z) /\ z[j] \in S
    BY <1>1 DEF Places
  <2>2. CASE j < i
    <3>1. s[j] \in S /\ j \in 1 .. Len(s)
      BY <1>1, <2>1, <2>2
    <3>2. QED
      BY <1>1, <2>2, <3>1 DEF Places
  <2>3. CASE ~(j < i)
    <3>1. s[j + 1] \in S /\ j + 1 \in 1 .. Len(s) /\ j + 1 # i
      BY <1>1, <2>1, <2>3
    <3>2. QED
      BY <1>1, <2>3, <3>1 DEF Places
  <2>4. QED
    BY <2>2, <2>3
<1>5. \A k \in Places(s, S) \ {i} : \E j \in Places(z, S) : up[j] = k
  <2> SUFFICES ASSUME NEW k \in Places(s, S) \ {i} PROVE \E j \in Places(z, S) : up[j] = k
    OBVIOUS
  <2>1. k \in 1 .. Len(s) /\ s[k] \in S /\ k # i
    BY <1>1 DEF Places
  <2>2. CASE k < i
    <3>1. k \in Places(z, S)
      BY <1>1, <2>1, <2>2 DEF Places
    <3>2. QED
      BY <2>2, <3>1
  <2>3. CASE k > i
    <3>1. k - 1 \in 1 .. Len(z) /\ ~(k - 1 < i) /\ (k - 1) + 1 = k
      BY <1>1, <2>1, <2>3
    <3>2. k - 1 \in Places(z, S)
      BY <1>1, <2>1, <3>1 DEF Places
    <3>3. up[k - 1] = k
      BY <3>1, <3>2
    <3>4. QED
      BY <3>2, <3>3
  <2>4. QED
    BY <1>1, <2>1, <2>2, <2>3
<1>6. \A j, k \in Places(z, S) : up[j] = up[k] => j = k
  BY <1>1, <1>3
<1>7. up \in Bijection(Places(z, S), Places(s, S) \ {i})
  BY <1>4, <1>5, <1>6 DEF Bijection, Injection, IsInjective, Surjection
<1>8. Cardinality(Places(s, S) \ {i}) = Cardinality(Places(z, S))
  BY <1>7, PlacesFinite, FS_Bijection DEF ExistsBijection
<1>9. i \in Places(s, S) <=> s[i] \in S
  BY <1>1 DEF Places
<1>10. /\ IsFiniteSet(Places(s, S)) /\ Cardinality(Places(s, S)) \in Nat
       /\ Cardinality(Places(z, S)) \in Nat
  BY PlacesFinite
<1>11. Cardinality(Places(s, S) \ {i})
          = IF i \in Places(s, S) THEN Cardinality(Places(s, S)) - 1
                                  ELSE Cardinality(Places(s, S))
  BY <1>10, FS_RemoveElement
<1> HIDE DEF up
<1>12. QED
  BY <1>8, <1>9, <1>10, <1>11 DEF One

LEMMA PlacesTail ==
    ASSUME NEW S, NEW T, NEW s \in Seq(T), s # <<>>
    PROVE  Cardinality(Places(s, S)) = Cardinality(Places(Tail(s), S)) + One(Head(s) \in S)
<1>1. /\ Tail(s) \in Seq(T) /\ Len(Tail(s)) = Len(s) - 1 /\ Len(s) \in Nat /\ Len(s) >= 1
      /\ Head(s) = s[1]
  OBVIOUS
<1>2. \A j \in 1 .. Len(Tail(s)) : Tail(s)[j] = IF j < 1 THEN s[j] ELSE s[j + 1]
  BY <1>1
<1>3. 1 \in 1 .. Len(s)
  BY <1>1
<1>4. QED
  BY <1>1, <1>2, <1>3, PlacesWithout

LEMMA PlacesRemoveAt ==
    ASSUME NEW S, NEW T, NEW s \in Seq(T), NEW i \in DOMAIN s
    PROVE  Cardinality(Places(s, S)) = Cardinality(Places(RemoveAt(s, i), S)) + One(s[i] \in S)
<1> DEFINE before == SubSeq(s, 1, i - 1)
           after == SubSeq(s, i + 1, Len(s))
<1>1. i \in 1 .. Len(s) /\ Len(s) \in Nat
  OBVIOUS
<1>2. /\ before \in Seq(T)
      /\ Len(before) = i - 1
      /\ \A j \in 1 .. i - 1 : before[j] = s[j]
  BY <1>1, SubSeqProperties, 1 + (i - 1) - 1 = i - 1
<1>3. /\ after \in Seq(T)
      /\ Len(after) = Len(s) - i
      /\ \A j \in 1 .. Len(s) - i : after[j] = s[i + j]
  <2>1. CASE i = Len(s)
    BY <1>1, <2>1, SubSeqProperties
  <2>2. CASE i < Len(s)
    BY <1>1, <2>2, SubSeqProperties
  <2>3. QED
    BY <1>1, <2>1, <2>2
<1>4. RemoveAt(s, i) = before \o after
  BY DEF RemoveAt
<1> HIDE DEF before, after
<1>5. /\ before \o after \in Seq(T)
      /\ Len(before \o after) = Len(before) + Len(after)
      /\ \A j \in 1 .. Len(before) + Len(after) :
            (before \o after)[j] = IF j <= Len(before) THEN before[j]
                                   ELSE after[j - Len(before)]
  BY <1>2, <1>3, ConcatProperties
<1>6. Len(before \o after) = Len(s) - 1
  BY <1>1, <1>2, <1>3, <1>5
<1>7. ASSUME NEW j \in 1 .. Len(before \o after)
      PROVE  (before \o after)[j] = IF j < i THEN s[j] ELSE s[j + 1]
  <2>1. j \in Int /\ i \in Int /\ j >= 1 /\ j <= Len(s) - 1 /\ Len(s) \in Int
    BY <1>1, <1>6
  <2>2. CASE j < i
    <3>1. j \in 1 .. i - 1 /\ j <= Len(before)
      BY <1>2, <2>1, <2>2
    <3>2. QED
      BY <1>2, <1>5, <1>7, <2>2, <3>1
  <2>3. CASE ~(j < i)
    <3>1. ~(j <= Len(before)) /\ j - Len(before) \in 1 .. Len(s) - i
      BY <1>2, <2>1, <2>3
    <3>2. i + (j - Len(before)) = j + 1
      BY <1>2, <2>1
    <3>3. QED
      BY <1>3, <1>5, <1>7, <2>3, <3>1, <3>2
  <2>4. QED
    BY <2>2, <2>3
<1>8. QED
  BY <1>1, <1>4, <1>5, <1>6, <1>7, PlacesWithout

LEMMA RunningChanges ==
    ASSUME NEW S, NEW g, NEW h, NEW w \in Workers, \A v \in Workers \ {w} : h[v] = g[v]
    PROVE  Cardinality(Running(h, S)) + One(g[w] \in S)
              = Cardinality(Running(g, S)) + One(h[w] \in S)
<1> DEFINE H == Running(h, S)
           G == Running(g, S)
<1>1. /\ H \ {w} = G \ {w} /\ H \in SUBSET Workers /\ G \in SUBSET Workers
      /\ w \in H <=> h[w] \in S
      /\ w \in G <=> g[w] \in S
  BY DEF Running
<1> HIDE DEF H, G
<1>2. /\ IsFiniteSet(H) /\ IsFiniteSet(G)
      /\ Cardinality(H) \in Nat /\ Cardinality(G) \in Nat
  <2>1. IsFiniteSet(H) /\ IsFiniteSet(G)
    BY <1>1, WorkersAssumption, FS_Subset
  <2>2. QED
    BY <2>1, FS_CardinalityType
<1>3. /\ Cardinality(H \ {w}) = IF w \in H THEN Cardinality(H) - 1 ELSE Cardinality(H)
      /\ Cardinality(G \ {w}) = IF w \in G THEN Cardinality(G) - 1 ELSE Cardinality(G)
  BY <1>2, FS_RemoveElement
<1>4. Cardinality(H) = Cardinality(H \ {w}) + One(h[w] \in S)
  BY <1>1, <1>2, <1>3 DEF One
<1>5. Cardinality(G) = Cardinality(G \ {w}) + One(g[w] \in S)
  BY <1>1, <1>2, <1>3 DEF One
<1>6. One(h[w] \in S) \in Nat /\ One(g[w] \in S) \in Nat
  BY DEF One
<1>7. Cardinality(G \ {w}) \in Nat /\ Cardinality(H \ {w}) = Cardinality(G \ {w})
  BY <1>1, <1>2, FS_RemoveElement, FS_CardinalityType
<1>8. Cardinality(H) + One(g[w] \in S) = Cardinality(G) + One(h[w] \in S)
  BY <1>4, <1>5, <1>6, <1>7
<1>9. QED
  BY <1>8 DEF H, G

-----------------------------------------------------------------------------
(* Without pauses no thread is paused and no row but of a fresh download is  *)
(* there, so that every thread reads its file to the end.                    *)
Undisturbed == "failure" \notin Hazards /\ "pause" \notin Hazards

ReadsOn(th) ==
    /\ th.pc \in {"init", "connect", "read"}
    /\ th.pc = "connect" => th.finished = 0
    /\ th.pc = "read" => th.last >= Length

NoPauses ==
    /\ \A t \in TaskInfos : isPause[t] = FALSE
    /\ \A u \in Urls : saved[u] \in {NoRow, 0}
    /\ \A i \in DOMAIN pool : ReadsOn(pool[i])
    /\ \A w \in Workers : worker[w] = Idle \/ ReadsOn(worker[w])

(* The tasks of a url, the threads that download for them and what says that *)
(* such a thread has come to the end.                                        *)
TasksOf(u)   == {t \in TaskInfos : urlOf[t] = u}
LoadersOf(u) == [pc : {"connect", "read"}, task : TasksOf(u), finished : Nat, last : Nat]
EndsOf(u)    == [what : {"MSG_DOWNLOADING", "MSG_DOWNLOAD_FINISHED"}, task : TasksOf(u)]

ListedOf(u)    == Cardinality(Places(taskList, TasksOf(u)))
QueuedOf(u)    == Cardinality(Places(pool, LoadersOf(u)))
RunningOf(u)   == Cardinality(Running(worker, LoadersOf(u)))
EndingOf(u)    == Cardinality(Places(looper, EndsOf(u)))
AnnouncedOf(u) == Cardinality(Places(broadcasts, TasksOf(u)))

Matched(u) == ListedOf(u) <= QueuedOf(u) + RunningOf(u) + EndingOf(u) + AnnouncedOf(u)
TallyInv   == \A u \in Urls : Matched(u)

LEMMA TallyNat ==
    ASSUME Typed, NEW u
    PROVE  /\ ListedOf(u) \in Nat /\ QueuedOf(u) \in Nat /\ RunningOf(u) \in Nat
           /\ EndingOf(u) \in Nat /\ AnnouncedOf(u) \in Nat
<1>1. /\ taskList \in Seq(TaskInfos) /\ pool \in Seq(Thread)
      /\ looper \in Seq(Message \cup {BindSuc}) /\ broadcasts \in Seq(TaskInfos)
  BY DEF Typed, TypeOK
<1>2. ListedOf(u) \in Nat /\ QueuedOf(u) \in Nat
  BY <1>1, PlacesFinite DEF ListedOf, QueuedOf
<1>3. EndingOf(u) \in Nat /\ AnnouncedOf(u) \in Nat
  BY <1>1, PlacesFinite DEF EndingOf, AnnouncedOf
<1>4. IsFiniteSet(Running(worker, LoadersOf(u)))
  BY WorkersAssumption, FS_Subset DEF Running
<1>5. RunningOf(u) \in Nat
  BY <1>4, FS_CardinalityType DEF RunningOf
<1>6. QED
  BY <1>2, <1>3, <1>5

LEMMA SetsStay ==
    ASSUME UNCHANGED urlOf, NEW u
    PROVE  TasksOf(u)' = TasksOf(u) /\ LoadersOf(u)' = LoadersOf(u) /\ EndsOf(u)' = EndsOf(u)
BY DEF TasksOf, LoadersOf, EndsOf

(* What is counted stays when its queue does. *)
LEMMA TallyStays ==
    ASSUME UNCHANGED urlOf, NEW u
    PROVE  /\ UNCHANGED taskList => ListedOf(u)' = ListedOf(u)
           /\ UNCHANGED pool => QueuedOf(u)' = QueuedOf(u)
           /\ UNCHANGED worker => RunningOf(u)' = RunningOf(u)
           /\ UNCHANGED looper => EndingOf(u)' = EndingOf(u)
           /\ UNCHANGED broadcasts => AnnouncedOf(u)' = AnnouncedOf(u)
<1>1. UNCHANGED taskList => ListedOf(u)' = ListedOf(u)
  BY SetsStay DEF ListedOf, Places
<1>2. UNCHANGED pool => QueuedOf(u)' = QueuedOf(u)
  BY SetsStay DEF QueuedOf, Places
<1>3. UNCHANGED worker => RunningOf(u)' = RunningOf(u)
  BY SetsStay DEF RunningOf, Running
<1>4. UNCHANGED looper => EndingOf(u)' = EndingOf(u)
  BY SetsStay DEF EndingOf, Places
<1>5. UNCHANGED broadcasts => AnnouncedOf(u)' = AnnouncedOf(u)
  BY SetsStay DEF AnnouncedOf, Places
<1>6. QED
  BY <1>1, <1>2, <1>3, <1>4, <1>5

(* A message is handled, and what it was among the ends goes. *)
LEMMA EndingTail ==
    ASSUME Typed, UNCHANGED urlOf, looper # <<>>, looper' = Tail(looper), NEW u
    PROVE  /\ EndingOf(u) = EndingOf(u)' + One(Head(looper) \in EndsOf(u))
           /\ EndingOf(u)' \in Nat
<1>1. looper \in Seq(Message \cup {BindSuc}) /\ Tail(looper) \in Seq(Message \cup {BindSuc})
  BY DEF Typed, TypeOK
<1>2. EndingOf(u)' = Cardinality(Places(Tail(looper), EndsOf(u)))
  BY SetsStay DEF EndingOf
<1>3. EndingOf(u) = EndingOf(u)' + One(Head(looper) \in EndsOf(u))
  BY <1>1, <1>2, PlacesTail DEF EndingOf
<1>4. EndingOf(u)' \in Nat
  BY <1>1, <1>2, PlacesFinite
<1>5. QED
  BY <1>3, <1>4

LEMMA EndingAppend ==
    ASSUME Typed, UNCHANGED urlOf, NEW m \in Message, looper' = Append(looper, m), NEW u
    PROVE  EndingOf(u)' = EndingOf(u) + One(m \in EndsOf(u))
<1>1. looper \in Seq(Message \cup {BindSuc}) /\ m \in Message \cup {BindSuc}
  BY DEF Typed, TypeOK
<1>2. EndingOf(u)' = Cardinality(Places(Append(looper, m), EndsOf(u)))
  BY SetsStay DEF EndingOf
<1>3. QED
  BY <1>1, <1>2, PlacesAppend DEF EndingOf

(* A thread changes, the others do not. *)
LEMMA RunningAt ==
    ASSUME Typed, UNCHANGED urlOf, NEW w \in Workers, NEW x,
           worker' = [worker EXCEPT ![w] = x], NEW u
    PROVE  RunningOf(u)' + One(worker[w] \in LoadersOf(u)) = RunningOf(u) + One(x \in LoadersOf(u))
<1>1. worker \in [Workers -> Thread \cup {Idle}]
  BY DEF Typed, TypeOK
<1>2. worker'[w] = x /\ \A v \in Workers \ {w} : worker'[v] = worker[v]
  BY <1>1
<1>3. RunningOf(u)' = Cardinality(Running(worker', LoadersOf(u)))
  BY SetsStay DEF RunningOf, Running
<1>4. Cardinality(Running(worker', LoadersOf(u))) + One(worker[w] \in LoadersOf(u))
        = Cardinality(Running(worker, LoadersOf(u))) + One(worker'[w] \in LoadersOf(u))
  <2>1. ASSUME NEW S, NEW g, NEW h, \A v \in Workers \ {w} : h[v] = g[v]
        PROVE  Cardinality(Running(h, S)) + One(g[w] \in S)
                  = Cardinality(Running(g, S)) + One(h[w] \in S)
    BY <2>1, RunningChanges
  <2>2. \A S, g, h : (\A v \in Workers \ {w} : h[v] = g[v]) =>
            Cardinality(Running(h, S)) + One(g[w] \in S)
                  = Cardinality(Running(g, S)) + One(h[w] \in S)
    BY <2>1
  <2>3. QED
    BY <1>2, <2>2
<1>5. RunningOf(u) = Cardinality(Running(worker, LoadersOf(u)))
  BY DEF RunningOf
<1>6. worker'[w] = x
  BY <1>2
<1>7. QED
  BY <1>3, <1>4, <1>5, <1>6

LEMMA LoaderIff ==
    ASSUME NEW th \in Thread, NEW u
    PROVE  th \in LoadersOf(u) <=> th.pc \in {"connect", "read"} /\ urlOf[th.task] = u
BY DEF LoadersOf, Thread, TasksOf

LEMMA EndIff ==
    ASSUME NEW m \in Message, NEW u
    PROVE  m \in EndsOf(u) <=>
              m.what \in {"MSG_DOWNLOADING", "MSG_DOWNLOAD_FINISHED"} /\ urlOf[m.task] = u
BY DEF EndsOf, Message, TasksOf

LEMMA IdleLoads == \A u : Idle \notin LoadersOf(u)
BY DEF Idle, LoadersOf

LEMMA OneNat == \A b : One(b) \in {0, 1} /\ (b = TRUE => One(b) = 1) /\ (b = FALSE => One(b) = 0)
BY DEF One

-----------------------------------------------------------------------------
(* The main thread.                                                          *)

(* downlaod without a pause: a thread for the task, from the start. *)
LEMMA FreshThread ==
    ASSUME Typed, NoPauses, UNCHANGED urlOf, NEW t \in TaskInfos, KnownUrl(t),
           Downlaod(t, urlOf[t])
    PROVE  /\ \A u \in Urls : saved'[u] \in {NoRow, 0}
           /\ \A i \in DOMAIN pool' : ReadsOn(pool'[i])
           /\ \A u : QueuedOf(u)' = QueuedOf(u) + One(urlOf[t] = u)
<1>1. DownloadThread(t, 0) \in Thread /\ pool \in Seq(Thread)
  BY DEF DownloadThread, Thread, Typed, TypeOK
<1>2. /\ pool' = Append(pool, DownloadThread(t, 0))
      /\ \A u \in Urls : saved'[u] \in {NoRow, 0}
  BY DEF Downlaod, NoPauses, KnownUrl, NoRow, Typed, TypeOK
<1>3. ReadsOn(DownloadThread(t, 0))
  BY DEF DownloadThread, ReadsOn
<1>4. \A i \in DOMAIN pool' : ReadsOn(pool'[i])
  <2>1. \A i \in DOMAIN pool' :
          (i \in DOMAIN pool /\ pool'[i] = pool[i]) \/ pool'[i] = DownloadThread(t, 0)
    BY <1>1, <1>2, AppendElements
  <2>2. QED
    BY <1>3, <2>1 DEF NoPauses
<1>5. ASSUME NEW u PROVE QueuedOf(u)' = QueuedOf(u) + One(urlOf[t] = u)
  <2>1. DownloadThread(t, 0) \in LoadersOf(u) <=> urlOf[t] = u
    BY DEF DownloadThread, LoadersOf, TasksOf
  <2>2. QueuedOf(u)' = Cardinality(Places(Append(pool, DownloadThread(t, 0)), LoadersOf(u)))
    BY <1>2, SetsStay DEF QueuedOf
  <2>3. QueuedOf(u)' = QueuedOf(u) + One(DownloadThread(t, 0) \in LoadersOf(u))
    BY <1>1, <2>2, PlacesAppend DEF QueuedOf
  <2>4. QED
    BY <2>1, <2>3
<1>6. QED
  BY <1>2, <1>4, <1>5

LEMMA InitTally ==
    ASSUME Typed, NoPauses, TallyInv, HandleInit
    PROVE  NoPauses' /\ TallyInv'
<1> DEFINE t == Head(looper).task
<1>1. /\ UNCHANGED <<urlOf, isPause, worker, broadcasts>>
      /\ looper # <<>> /\ looper' = Tail(looper)
      /\ Downlaod(t, urlOf[t]) /\ taskList' = Append(taskList, t)
  BY DEF HandleInit, Received
<1>2. Head(looper) \in Message /\ t \in TaskInfos /\ KnownUrl(t) /\ Head(looper).what = "MSG_INIT"
  BY <1>1, ReceiveTyped DEF HandleInit, Received
<1>3. /\ \A u \in Urls : saved'[u] \in {NoRow, 0}
      /\ \A i \in DOMAIN pool' : ReadsOn(pool'[i])
      /\ \A u : QueuedOf(u)' = QueuedOf(u) + One(urlOf[t] = u)
  BY <1>1, <1>2, FreshThread
<1> HIDE DEF t
<1>4. NoPauses'
  BY <1>1, <1>3 DEF NoPauses, ReadsOn
<1>5. ASSUME NEW u \in Urls PROVE Matched(u)'
  <2>1. ListedOf(u)' = ListedOf(u) + One(urlOf[t] = u)
    <3>1. t \in TasksOf(u) <=> urlOf[t] = u
      BY <1>2 DEF TasksOf
    <3>2. taskList \in Seq(TaskInfos)
      BY DEF Typed, TypeOK
    <3>3. ListedOf(u)' = Cardinality(Places(Append(taskList, t), TasksOf(u)))
      BY <1>1, SetsStay DEF ListedOf
    <3>4. ListedOf(u)' = ListedOf(u) + One(t \in TasksOf(u))
      BY <1>2, <3>2, <3>3, PlacesAppend DEF ListedOf
    <3>5. QED
      BY <3>1, <3>4
  <2>2. EndingOf(u)' = EndingOf(u)
    <3>1. ~(Head(looper) \in EndsOf(u))
      BY <1>2, EndIff
    <3>2. One(Head(looper) \in EndsOf(u)) = 0
      BY <3>1 DEF One
    <3>3. EndingOf(u) = EndingOf(u)' + One(Head(looper) \in EndsOf(u)) /\ EndingOf(u)' \in Nat
      BY <1>1, EndingTail
    <3>4. QED
      BY <3>2, <3>3
  <2>3. RunningOf(u)' = RunningOf(u) /\ AnnouncedOf(u)' = AnnouncedOf(u)
    BY <1>1, TallyStays
  <2>4. QED
    BY <1>3, <2>1, <2>2, <2>3, TallyNat, OneNat DEF TallyInv, Matched
<1>6. QED
  BY <1>4, <1>5 DEF TallyInv

LEMMA DownloadingTally ==
    ASSUME Typed, NoPauses, TallyInv, HandleDownloading
    PROVE  NoPauses' /\ TallyInv'
<1> DEFINE t == Head(looper).task
<1>1. /\ UNCHANGED <<urlOf, taskList, isPause, pool, worker>>
      /\ looper # <<>> /\ looper' = Tail(looper)
      /\ broadcasts' = Append(broadcasts, t)
      /\ saved' = [saved EXCEPT ![urlOf[t]] = NoRow]
  BY DEF HandleDownloading, Received
<1>2. /\ Head(looper) \in Message /\ t \in TaskInfos /\ KnownUrl(t)
      /\ Head(looper).what = "MSG_DOWNLOADING"
  BY <1>1, ReceiveTyped DEF HandleDownloading, Received
<1>3. NoPauses'
  BY <1>1 DEF NoPauses, ReadsOn, Typed, TypeOK
<1>4. ASSUME NEW u \in Urls PROVE Matched(u)'
  <2>1. AnnouncedOf(u)' = AnnouncedOf(u) + One(urlOf[t] = u)
    <3>1. t \in TasksOf(u) <=> urlOf[t] = u
      BY <1>2 DEF TasksOf
    <3>2. broadcasts \in Seq(TaskInfos)
      BY DEF Typed, TypeOK
    <3>3. AnnouncedOf(u)' = Cardinality(Places(Append(broadcasts, t), TasksOf(u)))
      BY <1>1, SetsStay DEF AnnouncedOf
    <3>4. AnnouncedOf(u)' = AnnouncedOf(u) + One(t \in TasksOf(u))
      BY <1>2, <3>2, <3>3, PlacesAppend DEF AnnouncedOf
    <3>5. QED
      BY <3>1, <3>4
  <2>2. EndingOf(u) = EndingOf(u)' + One(urlOf[t] = u) /\ EndingOf(u)' \in Nat
    <3>1. Head(looper) \in EndsOf(u) <=> urlOf[t] = u
      BY <1>2, EndIff
    <3>2. QED
      BY <1>1, <3>1, EndingTail
  <2>3. /\ ListedOf(u)' = ListedOf(u) /\ RunningOf(u)' = RunningOf(u)
        /\ QueuedOf(u)' = QueuedOf(u)
    BY <1>1, TallyStays
  <2>4. QED
    BY <2>1, <2>2, <2>3, TallyNat, OneNat DEF TallyInv, Matched
<1>5. QED
  BY <1>3, <1>4 DEF TallyInv

LEMMA FinishedTally ==
    ASSUME Typed, NoPauses, TallyInv, HandleFinished
    PROVE  NoPauses' /\ TallyInv'
<1> DEFINE t == Head(looper).task
<1>1. /\ UNCHANGED <<urlOf, isPause, pool, worker, broadcasts, saved>>
      /\ looper # <<>> /\ looper' = Tail(looper)
      /\ \/ \E i \in DOMAIN taskList : IsFirst(i, urlOf[t]) /\ taskList' = RemoveAt(taskList, i)
         \/ NotListed(urlOf[t]) /\ UNCHANGED taskList
  BY DEF HandleFinished, Received, IsFirst
<1>2. /\ Head(looper) \in Message /\ t \in TaskInfos /\ KnownUrl(t)
      /\ Head(looper).what = "MSG_DOWNLOAD_FINISHED"
  BY <1>1, ReceiveTyped DEF HandleFinished, Received
<1>3. NoPauses'
  BY <1>1 DEF NoPauses, ReadsOn
<1>4. ASSUME NEW u \in Urls PROVE Matched(u)'
  <2>1. EndingOf(u) = EndingOf(u)' + One(urlOf[t] = u) /\ EndingOf(u)' \in Nat
    <3>1. Head(looper) \in EndsOf(u) <=> urlOf[t] = u
      BY <1>2, EndIff
    <3>2. QED
      BY <1>1, <3>1, EndingTail
  <2>2. /\ AnnouncedOf(u)' = AnnouncedOf(u) /\ RunningOf(u)' = RunningOf(u)
        /\ QueuedOf(u)' = QueuedOf(u)
    BY <1>1, TallyStays
  <2>3. taskList \in Seq(TaskInfos)
    BY DEF Typed, TypeOK
  <2>4. CASE \E i \in DOMAIN taskList :
                IsFirst(i, urlOf[t]) /\ taskList' = RemoveAt(taskList, i)
    <3>1. PICK i \in DOMAIN taskList : IsFirst(i, urlOf[t]) /\ taskList' = RemoveAt(taskList, i)
      BY <2>4
    <3>2. taskList[i] \in TasksOf(u) <=> urlOf[t] = u
      BY <2>3, <3>1 DEF IsFirst, TasksOf
    <3>3. ListedOf(u)' = Cardinality(Places(RemoveAt(taskList, i), TasksOf(u)))
      BY <1>1, <3>1, SetsStay DEF ListedOf
    <3>4. ListedOf(u) = Cardinality(Places(RemoveAt(taskList, i), TasksOf(u)))
                          + One(taskList[i] \in TasksOf(u))
      BY <2>3, PlacesRemoveAt DEF ListedOf
    <3>5. RemoveAt(taskList, i) \in Seq(TaskInfos)
      BY <2>3, RemoveAtElements
    <3>6. ListedOf(u)' \in Nat
      BY <3>3, <3>5, PlacesFinite
    <3>7. ListedOf(u) = ListedOf(u)' + One(urlOf[t] = u)
      BY <3>2, <3>3, <3>4
    <3>8. QED
      BY <2>1, <2>2, <3>6, <3>7, TallyNat, OneNat DEF TallyInv, Matched
  <2>5. CASE NotListed(urlOf[t]) /\ UNCHANGED taskList
    <3>1. ListedOf(u)' = ListedOf(u)
      BY <1>1, <2>5, TallyStays
    <3>2. CASE urlOf[t] = u
      <4>1. Places(taskList, TasksOf(u)) = {}
        BY <2>5, <3>2 DEF Places, TasksOf, NotListed
      <4>2. ListedOf(u) = 0
        BY <4>1, FS_EmptySet DEF ListedOf
      <4>3. QED
        BY <2>1, <2>2, <3>1, <4>2, TallyNat DEF Matched
    <3>3. CASE urlOf[t] # u
      <4>1. One(urlOf[t] = u) = 0
        BY <3>3 DEF One
      <4>2. QED
        BY <2>1, <2>2, <3>1, <4>1, TallyNat DEF TallyInv, Matched
    <3>4. QED
      BY <3>2, <3>3
  <2>6. QED
    BY <1>1, <2>4, <2>5
<1>5. QED
  BY <1>3, <1>4 DEF TallyInv

LEMMA ReceiveTally ==
    ASSUME Typed, NoPauses, TallyInv, OnReceive
    PROVE  NoPauses' /\ TallyInv'
<1> DEFINE t == Head(broadcasts)
           m == [what |-> "MSG_DOWNLOAD_FINISHED", task |-> t]
<1>1. /\ UNCHANGED <<urlOf, taskList, isPause, pool, worker, saved>>
      /\ broadcasts # <<>> /\ broadcasts' = Tail(broadcasts) /\ looper' = Append(looper, m)
  BY DEF OnReceive
<1>2. broadcasts \in Seq(TaskInfos) /\ t \in TaskInfos /\ Tail(broadcasts) \in Seq(TaskInfos)
  BY <1>1, TailElements DEF Typed, TypeOK
<1>3. m \in Message
  BY <1>2 DEF Message
<1>4. NoPauses'
  BY <1>1 DEF NoPauses, ReadsOn
<1>5. ASSUME NEW u \in Urls PROVE Matched(u)'
  <2>1. EndingOf(u)' = EndingOf(u) + One(urlOf[t] = u)
    <3>1. m \in EndsOf(u) <=> urlOf[t] = u
      BY <1>3, EndIff
    <3>2. EndingOf(u)' = EndingOf(u) + One(m \in EndsOf(u))
      BY <1>1, <1>3, EndingAppend
    <3>3. QED
      BY <3>1, <3>2
  <2>2. AnnouncedOf(u) = AnnouncedOf(u)' + One(urlOf[t] = u) /\ AnnouncedOf(u)' \in Nat
    <3>1. t \in TasksOf(u) <=> urlOf[t] = u
      BY <1>2 DEF TasksOf
    <3>2. AnnouncedOf(u)' = Cardinality(Places(Tail(broadcasts), TasksOf(u)))
      BY <1>1, SetsStay DEF AnnouncedOf
    <3>3. AnnouncedOf(u) = Cardinality(Places(Tail(broadcasts), TasksOf(u)))
                             + One(t \in TasksOf(u))
      BY <1>1, <1>2, PlacesTail DEF AnnouncedOf
    <3>4. AnnouncedOf(u)' \in Nat
      BY <1>2, <3>2, PlacesFinite
    <3>5. QED
      BY <3>1, <3>2, <3>3, <3>4
  <2>3. /\ ListedOf(u)' = ListedOf(u) /\ RunningOf(u)' = RunningOf(u)
        /\ QueuedOf(u)' = QueuedOf(u)
    BY <1>1, TallyStays
  <2>4. QED
    BY <2>1, <2>2, <2>3, TallyNat, OneNat DEF TallyInv, Matched
<1>6. QED
  BY <1>4, <1>5 DEF TallyInv

-----------------------------------------------------------------------------
(* The threads.  One that stops downloading has told that it is at the end.  *)

(* A thread changes and reports, or does not. *)
LEMMA ThreadTally ==
    ASSUME Typed, NoPauses, TallyInv, NEW w \in Workers, NEW x,
           UNCHANGED <<urlOf, taskList, isPause, pool, broadcasts, saved>>,
           worker' = [worker EXCEPT ![w] = x], x = Idle \/ ReadsOn(x),
           looper' = looper \/ \E m \in Message : looper' = Append(looper, m),
           \A u \in Urls : worker[w] \in LoadersOf(u) =>
               \/ x \in LoadersOf(u)
               \/ \E m \in Message : looper' = Append(looper, m) /\ m \in EndsOf(u)
    PROVE  NoPauses' /\ TallyInv'
<1>1. worker \in [Workers -> Thread \cup {Idle}]
  BY DEF Typed, TypeOK
<1>2. NoPauses'
  BY <1>1 DEF NoPauses, ReadsOn
<1>3. ASSUME NEW u \in Urls PROVE Matched(u)'
  <2>1. RunningOf(u)' + One(worker[w] \in LoadersOf(u)) = RunningOf(u) + One(x \in LoadersOf(u))
    BY RunningAt
  <2>2. EndingOf(u)' = EndingOf(u) \/ EndingOf(u)' = EndingOf(u) + 1
    <3>1. CASE looper' = looper
      BY <3>1, TallyStays
    <3>2. ASSUME NEW m \in Message, looper' = Append(looper, m)
          PROVE  EndingOf(u)' = EndingOf(u) \/ EndingOf(u)' = EndingOf(u) + 1
      <4>1. EndingOf(u)' = EndingOf(u) + One(m \in EndsOf(u))
        BY <3>2, EndingAppend
      <4>2. EndingOf(u) \in Nat
        BY TallyNat
      <4>3. QED
        BY <4>1, <4>2, OneNat
    <3>3. QED
      BY <3>1, <3>2
  <2>3. /\ ListedOf(u)' = ListedOf(u) /\ QueuedOf(u)' = QueuedOf(u)
        /\ AnnouncedOf(u)' = AnnouncedOf(u)
    BY TallyStays
  <2>4. /\ ListedOf(u) \in Nat /\ QueuedOf(u) \in Nat /\ RunningOf(u) \in Nat
        /\ EndingOf(u) \in Nat /\ AnnouncedOf(u) \in Nat
    BY TallyNat
  <2>5. IsFiniteSet(Running(worker', LoadersOf(u)))
    BY WorkersAssumption, FS_Subset DEF Running
  <2>6. RunningOf(u)' \in Nat
    <3>1. RunningOf(u)' = Cardinality(Running(worker', LoadersOf(u)))
      BY SetsStay DEF RunningOf, Running
    <3>2. QED
      BY <2>5, <3>1, FS_CardinalityType
  <2>7. CASE worker[w] \notin LoadersOf(u) \/ x \in LoadersOf(u)
    <3>1. RunningOf(u)' >= RunningOf(u)
      <4>1. One(worker[w] \in LoadersOf(u)) <= One(x \in LoadersOf(u))
        BY <2>7 DEF One
      <4>2. /\ One(worker[w] \in LoadersOf(u)) \in Nat
            /\ One(x \in LoadersOf(u)) \in Nat
        BY DEF One
      <4>3. QED
        BY <2>1, <2>4, <2>6, <4>1, <4>2
    <3>2. QED
      BY <2>2, <2>3, <2>4, <2>6, <3>1 DEF TallyInv, Matched
  <2>8. CASE worker[w] \in LoadersOf(u) /\ x \notin LoadersOf(u)
    <3>1. PICK m \in Message : looper' = Append(looper, m) /\ m \in EndsOf(u)
      BY <2>8
    <3>2. EndingOf(u)' = EndingOf(u) + 1
      <4>1. EndingOf(u)' = EndingOf(u) + One(m \in EndsOf(u))
        BY <3>1, EndingAppend
      <4>2. One(m \in EndsOf(u)) = 1
        BY <3>1 DEF One
      <4>3. QED
        BY <4>1, <4>2
    <3>3. RunningOf(u)' + 1 = RunningOf(u)
      <4>1. One(worker[w] \in LoadersOf(u)) = 1 /\ One(x \in LoadersOf(u)) = 0
        BY <2>8 DEF One
      <4>2. QED
        BY <2>1, <2>4, <4>1
    <3>4. QED
      BY <2>3, <2>4, <2>6, <3>2, <3>3 DEF TallyInv, Matched
  <2>9. QED
    BY <2>7, <2>8
<1>4. QED
  BY <1>2, <1>3 DEF TallyInv

LEMMA NotifyTells ==
    ASSUME Typed, NEW t \in TaskInfos, NEW n
    PROVE  LET m == [what |-> "MSG_DOWNLOADING", task |-> t] IN
           /\ m \in Message /\ \A u : m \in EndsOf(u) <=> urlOf[t] = u
           /\ Notify(looper, t, n) = looper \/ Notify(looper, t, n) = Append(looper, m)
           /\ n >= Length => Notify(looper, t, n) = Append(looper, m)
<1>1. [what |-> "MSG_DOWNLOADING", task |-> t] \in Message
  BY DEF Message
<1>2. \A u : [what |-> "MSG_DOWNLOADING", task |-> t] \in EndsOf(u) <=> urlOf[t] = u
  BY DEF EndsOf, TasksOf
<1>3. QED
  BY <1>1, <1>2 DEF Notify, Says100

LEMMA RunningThread ==
    ASSUME Typed, NoPauses, NEW w \in Workers, NEW pc, pc # "idle", At(w, pc)
    PROVE  /\ worker[w] \in Thread /\ worker[w] # Idle /\ ReadsOn(worker[w])
           /\ worker[w].task \in TaskInfos /\ worker[w].finished \in Nat /\ worker[w].last \in Nat
<1>1. worker[w] # Idle
  BY DEF At, Idle
<1>2. worker[w] \in Thread
  BY <1>1 DEF Typed, TypeOK
<1>3. QED
  BY <1>1, <1>2 DEF NoPauses, Thread

LEMMA InitDoneTally ==
    ASSUME Typed, NoPauses, TallyInv, NEW w \in Workers, InitDone(w)
    PROVE  NoPauses' /\ TallyInv'
<1>1. worker[w] \in Thread /\ worker[w].task \in TaskInfos /\ worker[w].pc = "init"
  BY RunningThread DEF InitDone, At
<1>2. [what |-> "MSG_INIT", task |-> worker[w].task] \in Message
  BY <1>1 DEF Message
<1>3. \A u \in Urls : worker[w] \notin LoadersOf(u)
  BY <1>1, LoaderIff
<1>4. /\ worker' = [worker EXCEPT ![w] = Idle]
      /\ UNCHANGED <<urlOf, taskList, isPause, pool, broadcasts, saved>>
      /\ looper' = Append(looper, [what |-> "MSG_INIT", task |-> worker[w].task])
  BY DEF InitDone, Exit, mainOwned
<1>5. \E m \in Message : looper' = Append(looper, m)
  BY <1>2, <1>4
<1>6. QED
  BY <1>3, <1>4, <1>5, ThreadTally

LEMMA ConnectTally ==
    ASSUME Typed, NoPauses, TallyInv, NEW w \in Workers, Connect(w)
    PROVE  NoPauses' /\ TallyInv'
<1>1. /\ worker[w] \in Thread /\ worker[w].pc = "connect" /\ worker[w].finished = 0
      /\ worker[w].task \in TaskInfos
  BY RunningThread DEF Connect, At, ReadsOn
<1>2. UNCHANGED <<urlOf, taskList, isPause, pool, broadcasts, saved, looper>>
  BY DEF Connect, mainOwned
<1>3. PICK n \in Nat : n >= Length /\ worker' = [worker EXCEPT ![w].pc = "read", ![w].last = n]
  BY <1>1, LengthAssumption DEF Connect
<1>4. DEFINE x == [worker[w] EXCEPT !.pc = "read", !.last = n]
<1>5. worker' = [worker EXCEPT ![w] = x]
  BY <1>3 DEF Typed, TypeOK
<1>6. x \in Thread /\ x.pc = "read" /\ x.task = worker[w].task /\ x.last = n
  BY <1>1 DEF Thread
<1>7. ReadsOn(x)
  BY <1>3, <1>6 DEF ReadsOn
<1> HIDE DEF x
<1>8. \A u \in Urls : worker[w] \in LoadersOf(u) => x \in LoadersOf(u)
  <2>1. \A u : worker[w] \in LoadersOf(u) => urlOf[worker[w].task] = u
    BY <1>1, LoaderIff
  <2>2. \A u : urlOf[worker[w].task] = u => x \in LoadersOf(u)
    BY <1>6, LoaderIff
  <2>3. QED
    BY <2>1, <2>2
<1>9. QED
  BY <1>2, <1>5, <1>7, <1>8, ThreadTally

LEMMA ReadTally ==
    ASSUME Typed, NoPauses, TallyInv, NEW w \in Workers, Read(w)
    PROVE  NoPauses' /\ TallyInv'
<1> DEFINE t == worker[w].task
           n == worker[w].finished + 1
           x == [worker[w] EXCEPT !.finished = n]
<1>1. /\ worker[w] \in Thread /\ worker[w].pc = "read" /\ worker[w].last >= Length
      /\ t \in TaskInfos /\ n \in Nat
  BY RunningThread DEF Read, At, ReadsOn
<1>2. UNCHANGED <<urlOf, taskList, isPause, pool, broadcasts, saved>>
  BY DEF Read, mainOwned
<1>3. Seen(t) = {FALSE}
  BY <1>1 DEF Seen, NoPauses
<1>4. /\ looper' = looper \/ looper' = Notify(looper, t, n)
      /\ worker' = [worker EXCEPT ![w].finished = n, ![w].pc = "read"]
  BY <1>3 DEF Read
<1>5. worker' = [worker EXCEPT ![w] = x]
  BY <1>1, <1>4 DEF Typed, TypeOK, Thread
<1>6. x \in Thread /\ x.pc = "read" /\ x.task = t /\ x.last = worker[w].last
  BY <1>1 DEF Thread
<1>7. ReadsOn(x)
  BY <1>1, <1>6 DEF ReadsOn
<1> HIDE DEF x
<1>8. \A u \in Urls : worker[w] \in LoadersOf(u) => x \in LoadersOf(u)
  <2>1. \A u : worker[w] \in LoadersOf(u) => urlOf[worker[w].task] = u
    BY <1>1, LoaderIff
  <2>2. \A u : urlOf[worker[w].task] = u => x \in LoadersOf(u)
    BY <1>6, LoaderIff
  <2>3. QED
    BY <2>1, <2>2
<1>9. looper' = looper \/ \E m \in Message : looper' = Append(looper, m)
  <2> DEFINE m == [what |-> "MSG_DOWNLOADING", task |-> t]
  <2>1. m \in Message /\ (Notify(looper, t, n) = looper \/ Notify(looper, t, n) = Append(looper, m))
    BY <1>1, NotifyTells
  <2> HIDE DEF m
  <2>2. QED
    BY <1>4, <2>1
<1>10. QED
  BY <1>2, <1>5, <1>7, <1>8, <1>9, ThreadTally

LEMMA EndTally ==
    ASSUME Typed, NoPauses, TallyInv, NEW w \in Workers, EndOfStream(w)
    PROVE  NoPauses' /\ TallyInv'
<1> DEFINE t == worker[w].task
           m == [what |-> "MSG_DOWNLOADING", task |-> t]
<1>1. /\ worker[w] \in Thread /\ t \in TaskInfos
      /\ worker[w].finished >= Length
  BY RunningThread DEF EndOfStream, At, ReadsOn
<1>2. /\ UNCHANGED <<urlOf, taskList, isPause, pool, broadcasts, saved>>
      /\ looper' = Notify(looper, t, worker[w].finished)
      /\ worker' = [worker EXCEPT ![w] = Idle]
  BY DEF EndOfStream, Exit, mainOwned
<1>3. m \in Message /\ looper' = Append(looper, m) /\ \A u : m \in EndsOf(u) <=> urlOf[t] = u
  BY <1>1, <1>2, NotifyTells
<1>4. \A u \in Urls : worker[w] \in LoadersOf(u) => m \in EndsOf(u)
  BY <1>1, <1>3, LoaderIff
<1> HIDE DEF m
<1>5. QED
  BY <1>2, <1>3, <1>4, ThreadTally

(* A thread takes what the pool has queued. *)
LEMMA TakeTally ==
    ASSUME Typed, NoPauses, TallyInv, NEW w \in Workers, Take(w)
    PROVE  NoPauses' /\ TallyInv'
<1> DEFINE x == Head(pool)
<1>1. /\ UNCHANGED <<urlOf, taskList, isPause, looper, broadcasts, saved>>
      /\ worker[w] = Idle /\ pool # <<>> /\ pool' = Tail(pool)
      /\ worker' = [worker EXCEPT ![w] = x]
  BY DEF Take, mainOwned
<1>2. /\ pool \in Seq(Thread) /\ Tail(pool) \in Seq(Thread) /\ x \in Thread
      /\ 1 \in DOMAIN pool /\ x = pool[1]
      /\ \A i \in DOMAIN Tail(pool) : i + 1 \in DOMAIN pool /\ Tail(pool)[i] = pool[i + 1]
  BY <1>1, TailElements DEF Typed, TypeOK
<1> HIDE DEF x
<1>3. NoPauses'
  <2>1. ReadsOn(x) /\ \A i \in DOMAIN pool' : ReadsOn(pool'[i])
    BY <1>1, <1>2 DEF NoPauses
  <2>2. \A v \in Workers : worker'[v] = Idle \/ ReadsOn(worker'[v])
    BY <1>1, <2>1 DEF NoPauses, Typed, TypeOK
  <2>3. QED
    BY <1>1, <2>1, <2>2 DEF NoPauses, ReadsOn
<1>4. ASSUME NEW u \in Urls PROVE Matched(u)'
  <2>1. RunningOf(u)' = RunningOf(u) + One(x \in LoadersOf(u))
    <3>1. RunningOf(u)' + One(worker[w] \in LoadersOf(u)) = RunningOf(u) + One(x \in LoadersOf(u))
      BY <1>1, RunningAt
    <3>2. One(worker[w] \in LoadersOf(u)) = 0
      BY <1>1, IdleLoads DEF One
    <3>3. IsFiniteSet(Running(worker', LoadersOf(u)))
      BY WorkersAssumption, FS_Subset DEF Running
    <3>4. RunningOf(u)' = Cardinality(Running(worker', LoadersOf(u)))
      <4>1. UNCHANGED urlOf
        BY <1>1
      <4>2. QED
        BY <4>1, SetsStay DEF RunningOf, Running
    <3>5. RunningOf(u)' \in Nat
      BY <3>3, <3>4, FS_CardinalityType
    <3>6. QED
      BY <3>1, <3>2, <3>5
  <2>2. QueuedOf(u) = QueuedOf(u)' + One(x \in LoadersOf(u)) /\ QueuedOf(u)' \in Nat
    <3>1. QueuedOf(u)' = Cardinality(Places(Tail(pool), LoadersOf(u)))
      BY <1>1, SetsStay DEF QueuedOf
    <3>2. QueuedOf(u) = Cardinality(Places(Tail(pool), LoadersOf(u)))
                          + One(x \in LoadersOf(u))
      BY <1>1, <1>2, PlacesTail DEF QueuedOf, x
    <3>3. QueuedOf(u)' \in Nat
      BY <1>2, <3>1, PlacesFinite
    <3>4. QED
      BY <3>1, <3>2, <3>3
  <2>3. /\ ListedOf(u)' = ListedOf(u) /\ EndingOf(u)' = EndingOf(u)
        /\ AnnouncedOf(u)' = AnnouncedOf(u)
    BY <1>1, TallyStays
  <2>4. One(x \in LoadersOf(u)) \in Nat
    BY DEF One
  <2>5. QED
    BY <2>1, <2>2, <2>3, <2>4, TallyNat DEF TallyInv, Matched
<1>5. QED
  BY <1>3, <1>4 DEF TallyInv

-----------------------------------------------------------------------------
(* Requests and kills.                                                       *)

LEMMA RequestTally ==
    ASSUME Typed, NoPauses, TallyInv, NEW t \in TaskInfos, NEW u0 \in Urls, Request(t, u0)
    PROVE  NoPauses' /\ TallyInv'
<1>1. /\ urlOf[t] = NoUrl /\ urlOf' = [urlOf EXCEPT ![t] = u0]
      /\ UNCHANGED <<taskList, worker, looper, broadcasts>>
  BY DEF Request, Download
<1>2. /\ UNCHANGED <<isPause, saved>>
      /\ pool' = pool \/ pool' = Append(pool, InitThread(t))
  <2>1. ASSUME NEW i \in DOMAIN taskList, isPause[taskList[i]]
        PROVE  FALSE
    BY <2>1 DEF NoPauses, Typed, TypeOK
  <2>2. QED
    BY <2>1 DEF Request, Download
<1>3. pool \in Seq(Thread) /\ InitThread(t) \in Thread /\ InitThread(t).pc = "init"
  BY DEF Typed, TypeOK, InitThread, Thread
<1>4. NoPauses'
  <2>1. \A i \in DOMAIN pool' : (i \in DOMAIN pool /\ pool'[i] = pool[i]) \/ pool'[i] = InitThread(t)
    BY <1>2, <1>3, AppendElements
  <2>2. ReadsOn(InitThread(t))
    BY DEF InitThread, ReadsOn
  <2>3. \A i \in DOMAIN pool' : ReadsOn(pool'[i])
    BY <2>1, <2>2 DEF NoPauses
  <2>4. QED
    BY <1>1, <1>2, <2>3 DEF NoPauses, ReadsOn
<1>5. ASSUME NEW u \in Urls PROVE Matched(u)'
  <2>1. TasksOf(u)' = IF u = u0 THEN TasksOf(u) \cup {t} ELSE TasksOf(u)
    BY <1>1, NoUrlAssumption DEF TasksOf, Typed, TypeOK
  <2>2. ~KnownUrl(t)
    BY <1>1, NoUrlAssumption DEF KnownUrl
  <2>3. \A q \in TaskInfos : KnownUrl(q) => (q \in TasksOf(u)' <=> q \in TasksOf(u))
    BY <2>1, <2>2
  <2>4. \A th \in Thread : KnownUrl(th.task) => (th \in LoadersOf(u)' <=> th \in LoadersOf(u))
    BY <2>3 DEF LoadersOf, Thread
  <2>5. \A m \in Message : KnownUrl(m.task) => (m \in EndsOf(u)' <=> m \in EndsOf(u))
    BY <2>3 DEF EndsOf, Message
  <2>6. Places(taskList, TasksOf(u))' = Places(taskList, TasksOf(u))
    BY <1>1, <2>3, TypedElements DEF Places
  <2>7. Places(broadcasts, TasksOf(u))' = Places(broadcasts, TasksOf(u))
    BY <1>1, <2>3, TypedElements DEF Places
  <2>8. Places(looper, EndsOf(u))' = Places(looper, EndsOf(u))
    <3>1. BindSuc \notin EndsOf(u) /\ BindSuc \notin EndsOf(u)'
      BY DEF BindSuc, EndsOf
    <3>2. QED
      BY <1>1, <2>5, <3>1, TypedElements DEF Places
  <2>9. Running(worker, LoadersOf(u))' = Running(worker, LoadersOf(u))
    <3>1. Idle \notin LoadersOf(u) /\ Idle \notin LoadersOf(u)'
      BY DEF Idle, LoadersOf
    <3>2. QED
      BY <1>1, <2>4, <3>1, TypedElements DEF Running
  <2>10. Places(pool, LoadersOf(u))' = Places(pool, LoadersOf(u))
    <3>1. InitThread(t) \notin LoadersOf(u)'
      BY <1>3 DEF LoadersOf
    <3>2. \A i \in DOMAIN pool : pool[i] \in LoadersOf(u)' <=> pool[i] \in LoadersOf(u)
      BY <2>4, TypedElements
    <3>3. CASE pool' = pool
      BY <3>2, <3>3 DEF Places
    <3>4. CASE pool' = Append(pool, InitThread(t))
      <4>1. /\ DOMAIN pool \subseteq DOMAIN pool'
            /\ \A i \in DOMAIN pool : pool'[i] = pool[i]
            /\ \A i \in DOMAIN pool' : i \in DOMAIN pool \/ pool'[i] = InitThread(t)
        BY <1>3, <3>4
      <4>2. QED
        BY <3>1, <3>2, <4>1 DEF Places
    <3>5. QED
      BY <1>2, <3>3, <3>4
  <2>11. /\ ListedOf(u)' = ListedOf(u) /\ QueuedOf(u)' = QueuedOf(u)
         /\ RunningOf(u)' = RunningOf(u) /\ EndingOf(u)' = EndingOf(u)
         /\ AnnouncedOf(u)' = AnnouncedOf(u)
    BY <2>6, <2>7, <2>8, <2>9, <2>10
    DEF ListedOf, QueuedOf, RunningOf, EndingOf, AnnouncedOf
  <2>12. QED
    BY <2>11 DEF TallyInv, Matched
<1>6. QED
  BY <1>4, <1>5 DEF TallyInv

LEMMA KillTally ==
    ASSUME Typed, NoPauses, Kill, Typed'
    PROVE  NoPauses' /\ TallyInv'
<1>1. /\ taskList' = <<>> /\ pool' = <<>> /\ worker' = [w \in Workers |-> Idle]
      /\ isPause' = [t \in TaskInfos |-> FALSE] /\ looper' = <<>> /\ broadcasts' = <<>>
      /\ UNCHANGED saved
  BY DEF Kill, ClearProcess
<1>2. NoPauses'
  BY <1>1 DEF NoPauses
<1>3. ASSUME NEW u \in Urls PROVE Matched(u)'
  <2>1. /\ Places(taskList, TasksOf(u))' = {} /\ Places(pool, LoadersOf(u))' = {}
        /\ Places(looper, EndsOf(u))' = {} /\ Places(broadcasts, TasksOf(u))' = {}
    BY <1>1 DEF Places
  <2>2. Running(worker, LoadersOf(u))' = {}
    BY <1>1 DEF Running, Idle, LoadersOf
  <2>3. /\ ListedOf(u)' = 0 /\ QueuedOf(u)' = 0 /\ RunningOf(u)' = 0 /\ EndingOf(u)' = 0
        /\ AnnouncedOf(u)' = 0
    BY <2>1, <2>2, FS_EmptySet DEF ListedOf, QueuedOf, RunningOf, EndingOf, AnnouncedOf
  <2>4. QED
    BY <2>3 DEF Matched
<1>4. QED
  BY <1>2, <1>3 DEF TallyInv

-----------------------------------------------------------------------------
LEMMA InitTallied == Init => NoPauses /\ TallyInv
<1> SUFFICES ASSUME Init PROVE NoPauses /\ TallyInv
  OBVIOUS
<1>1. NoPauses
  BY DEF Init, NoPauses
<1>2. ASSUME NEW u \in Urls PROVE Matched(u)
  <2>1. /\ Places(taskList, TasksOf(u)) = {} /\ Places(pool, LoadersOf(u)) = {}
        /\ Places(looper, EndsOf(u)) = {} /\ Places(broadcasts, TasksOf(u)) = {}
    BY DEF Init, Places
  <2>2. Running(worker, LoadersOf(u)) = {}
    BY DEF Init, Running, Idle, LoadersOf
  <2>3. /\ ListedOf(u) = 0 /\ QueuedOf(u) = 0 /\ RunningOf(u) = 0 /\ EndingOf(u) = 0
        /\ AnnouncedOf(u) = 0
    BY <2>1, <2>2, FS_EmptySet DEF ListedOf, QueuedOf, RunningOf, EndingOf, AnnouncedOf
  <2>4. QED
    BY <2>3 DEF Matched
<1>3. QED
  BY <1>1, <1>2 DEF TallyInv

LEMMA TallyNext ==
    ASSUME Undisturbed, Typed, NoPauses, TallyInv, [Next]_vars
    PROVE  NoPauses' /\ TallyInv'
<1>1. CASE HandleMessage \/ OnReceive
  BY <1>1, InitTally, DownloadingTally, FinishedTally, ReceiveTally DEF HandleMessage
<1>2. ASSUME NEW w \in Workers, WorkerStep(w) PROVE NoPauses' /\ TallyInv'
  <2>1. ~SaveProgress(w)
    <3>1. ASSUME At(w, "save") PROVE FALSE
      <4>1. ReadsOn(worker[w]) /\ worker[w].pc = "save"
        BY <3>1, RunningThread DEF At
      <4>2. QED
        BY <4>1 DEF ReadsOn
    <3>2. QED
      BY <3>1 DEF SaveProgress
  <2>2. QED
    BY <1>2, <2>1, TakeTally, InitDoneTally, ConnectTally, ReadTally, EndTally DEF WorkerStep
<1>3. CASE Environment
  <2>1. /\ \A u \in Urls : ~Pause(u)
        /\ ~OnLowMemory /\ \A w \in Workers : ~Fail(w)
    BY DEF Undisturbed, Pause, OnLowMemory, Fail
  <2>2. Typed'
    BY <1>3, TypedNext DEF Next
  <2>3. QED
    BY <1>3, <2>1, <2>2, RequestTally, KillTally DEF Environment
<1>4. CASE UNCHANGED vars
  <2>1. NoPauses'
    BY <1>4 DEF vars, NoPauses, ReadsOn
  <2>2. UNCHANGED <<urlOf, taskList, pool, worker, looper, broadcasts>>
    BY <1>4 DEF vars
  <2>3. \A u \in Urls : Matched(u)'
    BY <2>2, TallyStays DEF TallyInv, Matched
  <2>4. QED
    BY <2>1, <2>3 DEF TallyInv
<1>5. QED
  BY <1>1, <1>2, <1>3, <1>4 DEF Next

(* A listed task of a matched url has something coming for it. *)
LEMMA MatchedNotWedged == Typed /\ NoPauses /\ TallyInv => NoWedgedTask
<1> SUFFICES ASSUME Typed, NoPauses, TallyInv, NEW i \in DOMAIN taskList
             PROVE  HasThread(urlOf[taskList[i]]) \/ Ending(urlOf[taskList[i]])
  BY DEF NoWedgedTask
<1> DEFINE u == urlOf[taskList[i]]
<1>1. taskList[i] \in TaskInfos /\ u \in Urls
  BY TypedElements DEF KnownUrl
<1>2. Places(taskList, TasksOf(u)) # {}
  BY <1>1 DEF Places, TasksOf
<1> HIDE DEF u
<1>3. ListedOf(u) # 0
  <2>1. IsFiniteSet(Places(taskList, TasksOf(u)))
    BY PlacesFinite DEF Typed, TypeOK
  <2>2. QED
    BY <1>2, <2>1, FS_EmptySet DEF ListedOf
<1>4. QueuedOf(u) # 0 \/ RunningOf(u) # 0 \/ EndingOf(u) # 0 \/ AnnouncedOf(u) # 0
  BY <1>1, <1>3, TallyNat DEF TallyInv, Matched
<1>5. \/ Places(pool, LoadersOf(u)) # {} \/ Running(worker, LoadersOf(u)) # {}
      \/ Places(looper, EndsOf(u)) # {} \/ Places(broadcasts, TasksOf(u)) # {}
  BY <1>4, FS_EmptySet DEF QueuedOf, RunningOf, EndingOf, AnnouncedOf
<1>6. Places(pool, LoadersOf(u)) # {} => HasThread(u)
  BY DEF Places, LoadersOf, TasksOf, HasThread
<1>7. Running(worker, LoadersOf(u)) # {} => HasThread(u)
  BY IdleLoads DEF Running, LoadersOf, TasksOf, HasThread
<1>8. Places(looper, EndsOf(u)) # {} => Ending(u)
  BY DEF Places, EndsOf, TasksOf, Ending
<1>9. Places(broadcasts, TasksOf(u)) # {} => Ending(u)
  BY DEF Places, TasksOf, Ending
<1>10. QED
  BY <1>5, <1>6, <1>7, <1>8, <1>9 DEF u

(* As long as nothing fails and nothing is paused, something is still coming *)
(* for every listed task: also when requests of a url are duplicated, servers *)
(* ignore ranges, and the process is killed.                                 *)
THEOREM NothingWedged == Undisturbed => (Spec => []NoWedgedTask)
<1> SUFFICES ASSUME Undisturbed PROVE Spec => []NoWedgedTask
  OBVIOUS
<1>1. Init => Typed /\ NoPauses /\ TallyInv
  BY InitTyped, InitTallied
<1>2. Typed /\ NoPauses /\ TallyInv /\ [Next]_vars => (Typed /\ NoPauses /\ TallyInv)'
  BY TypedNext, TallyNext
<1>3. Typed /\ NoPauses /\ TallyInv => NoWedgedTask
  BY MatchedNotWedged
<1>4. QED
  BY <1>1, <1>2, <1>3, PTL DEF Spec

-----------------------------------------------------------------------------
(* The life of a download that is not paused, whatever fails.  Without        *)
(* pauses every thread starts a file from its beginning and reads it to its   *)
(* end.                                                                       *)
Unpaused == "pause" \notin Hazards

StillOn(th) ==
    /\ th.pc \in {"init", "connect", "read"}
    /\ th.pc # "read" => th.finished = 0
    /\ th.pc = "read" => th.last = Length /\ th.finished <= Length

NothingPaused ==
    /\ \A t \in TaskInfos : isPause[t] = FALSE
    /\ \A u \in Urls : saved[u] \in {NoRow, 0}
    /\ \A i \in DOMAIN pool : StillOn(pool[i])
    /\ \A w \in Workers : worker[w] # Idle => StillOn(worker[w])

(* The threads of a task by how far they are, and what is told of it.        *)
Inits(t) == {th \in Thread : th.task = t /\ th.pc = "init"}
Loads(t) == {th \in Thread :
                /\ th.task = t
                /\ th.pc = "connect" \/ (th.pc = "read" /\ th.finished < Length)}
AtEnd(t) == {th \in Thread : th.task = t /\ th.pc = "read" /\ th.finished >= Length}

Threads(S)    == Cardinality(Places(pool, S)) + Cardinality(Running(worker, S))
Said(what, t) == Cardinality(Places(looper, {[what |-> what, task |-> t]}))

InitsOf(t)   == Threads(Inits(t)) + Said("MSG_INIT", t)
LoadsOf(t)   == Threads(Loads(t))
AtEndOf(t)   == Threads(AtEnd(t))
ToTellOf(t)  == Said("MSG_DOWNLOADING", t)
RemovesOf(t) == Cardinality(Places(broadcasts, {t})) + Said("MSG_DOWNLOAD_FINISHED", t)

LEMMA ThreadsNat == ASSUME Typed, NEW S PROVE Threads(S) \in Nat
<1>1. Cardinality(Places(pool, S)) \in Nat
  BY PlacesFinite DEF Typed, TypeOK
<1>2. IsFiniteSet(Running(worker, S))
  BY WorkersAssumption, FS_Subset DEF Running
<1>3. QED
  BY <1>1, <1>2, FS_CardinalityType DEF Threads

LEMMA SaidNat == ASSUME Typed, NEW what, NEW t PROVE Said(what, t) \in Nat
BY PlacesFinite DEF Said, Typed, TypeOK

LEMMA CountsNat ==
    ASSUME Typed, NEW t
    PROVE  /\ InitsOf(t) \in Nat /\ LoadsOf(t) \in Nat /\ AtEndOf(t) \in Nat
           /\ ToTellOf(t) \in Nat /\ RemovesOf(t) \in Nat
<1>1. Cardinality(Places(broadcasts, {t})) \in Nat
  BY PlacesFinite DEF Typed, TypeOK
<1>2. QED
  BY <1>1, ThreadsNat, SaidNat DEF InitsOf, LoadsOf, AtEndOf, ToTellOf, RemovesOf

LEMMA RunningMoves ==
    ASSUME Typed, NEW w \in Workers, NEW x, worker' = [worker EXCEPT ![w] = x], NEW S
    PROVE  /\ Cardinality(Running(worker, S))' + One(worker[w] \in S)
                = Cardinality(Running(worker, S)) + One(x \in S)
           /\ Cardinality(Running(worker, S)) \in Nat /\ Cardinality(Running(worker, S))' \in Nat
<1>1. worker' [w] = x /\ \A v \in Workers \ {w} : worker'[v] = worker[v]
  BY DEF Typed, TypeOK
<1>2. \A g, h : (\A v \in Workers \ {w} : h[v] = g[v]) =>
          Cardinality(Running(h, S)) + One(g[w] \in S) = Cardinality(Running(g, S)) + One(h[w] \in S)
  <2>1. ASSUME NEW g, NEW h, \A v \in Workers \ {w} : h[v] = g[v]
        PROVE  Cardinality(Running(h, S)) + One(g[w] \in S) = Cardinality(Running(g, S)) + One(h[w] \in S)
    BY <2>1, RunningChanges
  <2>2. QED
    BY <2>1
<1>3. Cardinality(Running(worker', S)) + One(worker[w] \in S)
        = Cardinality(Running(worker, S)) + One(worker'[w] \in S)
  BY <1>1, <1>2
<1>4. Running(worker, S)' = Running(worker', S)
  BY DEF Running
<1>5. IsFiniteSet(Running(worker, S)) /\ IsFiniteSet(Running(worker', S))
  BY WorkersAssumption, FS_Subset DEF Running
<1>6. QED
  BY <1>1, <1>3, <1>4, <1>5, FS_CardinalityType

LEMMA ThreadMoves ==
    ASSUME Typed, NEW w \in Workers, NEW x, worker' = [worker EXCEPT ![w] = x], UNCHANGED pool,
           NEW S
    PROVE  /\ Threads(S)' + One(worker[w] \in S) = Threads(S) + One(x \in S)
           /\ Threads(S) \in Nat /\ Threads(S)' \in Nat
<1>1. Places(pool, S)' = Places(pool, S)
  BY DEF Places
<1>2. Cardinality(Places(pool, S)) \in Nat
  BY PlacesFinite DEF Typed, TypeOK
<1>3. /\ Cardinality(Running(worker, S))' + One(worker[w] \in S)
           = Cardinality(Running(worker, S)) + One(x \in S)
      /\ Cardinality(Running(worker, S)) \in Nat /\ Cardinality(Running(worker, S))' \in Nat
  BY RunningMoves
<1>4. One(worker[w] \in S) \in Nat /\ One(x \in S) \in Nat
  BY DEF One
<1>5. QED
  BY <1>1, <1>2, <1>3, <1>4 DEF Threads

LEMMA ThreadQueued ==
    ASSUME Typed, NEW th \in Thread, pool' = Append(pool, th), UNCHANGED worker, NEW S
    PROVE  Threads(S)' = Threads(S) + One(th \in S)
<1>1. Cardinality(Places(pool, S))' = Cardinality(Places(Append(pool, th), S))
  BY DEF Places
<1>2. pool \in Seq(Thread)
  BY DEF Typed, TypeOK
<1>3. Cardinality(Places(pool, S))' = Cardinality(Places(pool, S)) + One(th \in S)
  BY <1>1, <1>2, PlacesAppend
<1>4. Running(worker, S)' = Running(worker, S)
  BY DEF Running
<1>5. Cardinality(Places(pool, S)) \in Nat /\ Cardinality(Running(worker, S)) \in Nat
  <2>1. IsFiniteSet(Running(worker, S))
    BY WorkersAssumption, FS_Subset DEF Running
  <2>2. QED
    BY <1>2, <2>1, PlacesFinite, FS_CardinalityType
<1>6. QED
  BY <1>3, <1>4, <1>5, OneNat DEF Threads

LEMMA ThreadTaken ==
    ASSUME Typed, NEW w \in Workers, Take(w), NEW S, Idle \notin S
    PROVE  Threads(S)' = Threads(S)
<1> DEFINE x == Head(pool)
<1>1. worker[w] = Idle /\ pool # <<>> /\ pool' = Tail(pool) /\ worker' = [worker EXCEPT ![w] = x]
  BY DEF Take
<1>2. pool \in Seq(Thread) /\ Tail(pool) \in Seq(Thread)
  BY <1>1 DEF Typed, TypeOK
<1>3. Cardinality(Places(pool, S)) = Cardinality(Places(Tail(pool), S)) + One(x \in S)
  BY <1>1, <1>2, PlacesTail
<1> HIDE DEF x
<1>4. Cardinality(Places(pool, S))' = Cardinality(Places(Tail(pool), S))
  BY <1>1 DEF Places
<1>5. Cardinality(Places(Tail(pool), S)) \in Nat
  BY <1>2, PlacesFinite
<1>6. Cardinality(Running(worker, S))' + One(worker[w] \in S)
        = Cardinality(Running(worker, S)) + One(x \in S)
      /\ Cardinality(Running(worker, S)) \in Nat /\ Cardinality(Running(worker, S))' \in Nat
  BY <1>1, RunningMoves
<1>7. One(worker[w] \in S) = 0
  BY <1>1 DEF One
<1>8. QED
  BY <1>3, <1>4, <1>5, <1>6, <1>7, OneNat DEF Threads

LEMMA Sends ==
    ASSUME Typed, NEW m \in Message, looper' = Append(looper, m), NEW what, NEW t
    PROVE  Said(what, t)' = Said(what, t) + One(m.what = what /\ m.task = t)
<1>1. looper \in Seq(Message \cup {BindSuc}) /\ m \in Message \cup {BindSuc}
  BY DEF Typed, TypeOK
<1>2. Cardinality(Places(looper, {[what |-> what, task |-> t]}))'
        = Cardinality(Places(Append(looper, m), {[what |-> what, task |-> t]}))
  BY DEF Places
<1>3. m \in {[what |-> what, task |-> t]} <=> m.what = what /\ m.task = t
  BY DEF Message
<1>4. One(m \in {[what |-> what, task |-> t]}) = One(m.what = what /\ m.task = t)
  BY <1>3 DEF One
<1>5. QED
  BY <1>1, <1>2, <1>4, PlacesAppend DEF Said

LEMMA Receives ==
    ASSUME Typed, looper # <<>>, Head(looper) \in Message, looper' = Tail(looper), NEW what, NEW t
    PROVE  /\ Said(what, t) = Said(what, t)' + One(Head(looper).what = what /\ Head(looper).task = t)
           /\ Said(what, t)' \in Nat
<1> DEFINE m == Head(looper)
<1>1. looper \in Seq(Message \cup {BindSuc}) /\ Tail(looper) \in Seq(Message \cup {BindSuc})
  BY DEF Typed, TypeOK
<1>2. Said(what, t)' = Cardinality(Places(Tail(looper), {[what |-> what, task |-> t]}))
  BY DEF Places, Said
<1>3. m \in {[what |-> what, task |-> t]} <=> m.what = what /\ m.task = t
  BY DEF Message
<1>4. One(m \in {[what |-> what, task |-> t]}) = One(m.what = what /\ m.task = t)
  BY <1>3 DEF One
<1>5. Said(what, t) = Said(what, t)' + One(m \in {[what |-> what, task |-> t]})
  BY <1>1, <1>2, PlacesTail DEF Said
<1>6. Said(what, t)' \in Nat
  BY <1>1, <1>2, PlacesFinite
<1>7. QED
  BY <1>4, <1>5, <1>6

LEMMA KindOf ==
    ASSUME NEW th \in Thread, NEW t
    PROVE  /\ th \in Inits(t) <=> th.task = t /\ th.pc = "init"
           /\ th \in Loads(t) <=> th.task = t /\ (th.pc = "connect" \/ (th.pc = "read" /\ th.finished < Length))
           /\ th \in AtEnd(t) <=> th.task = t /\ th.pc = "read" /\ th.finished >= Length
BY DEF Inits, Loads, AtEnd

LEMMA IdleNoKind == \A t : Idle \notin Inits(t) /\ Idle \notin Loads(t) /\ Idle \notin AtEnd(t)
BY DEF Idle, Inits, Loads, AtEnd

(* What a download is owed.  As long as it waits or has not read its last     *)
(* block nothing was told; then it is told once by the loop and once by the   *)
(* end of the thread; and it is not more often taken off than it was told.    *)
Owed(t) ==
    /\ InitsOf(t) + LoadsOf(t) + AtEndOf(t) <= 1
    /\ InitsOf(t) + LoadsOf(t) = 1 => ToTellOf(t) + finishedCalls[t] = 0
    /\ AtEndOf(t) = 1 => ToTellOf(t) + finishedCalls[t] <= 1
    /\ ToTellOf(t) + finishedCalls[t] <= 2
    /\ RemovesOf(t) <= finishedCalls[t]
    /\ urlOf[t] = NoUrl =>
          /\ InitsOf(t) = 0 /\ LoadsOf(t) = 0 /\ AtEndOf(t) = 0
          /\ ToTellOf(t) = 0 /\ finishedCalls[t] = 0

OwedInv == \A t \in TaskInfos : Owed(t)

Phase(t) ==
    CASE InitsOf(t) # 0 -> "queued"
      [] InitsOf(t) = 0 /\ finishedCalls[t] = 0 ->
              IF LoadsOf(t) + AtEndOf(t) + ToTellOf(t) # 0 THEN "running" ELSE "none"
      [] InitsOf(t) = 0 /\ finishedCalls[t] = 1 /\ finishedCalls[t] = RemovesOf(t) -> "told"
      [] InitsOf(t) = 0 /\ finishedCalls[t] = 1 /\ finishedCalls[t] # RemovesOf(t) ->
              IF LoadsOf(t) + AtEndOf(t) + ToTellOf(t) # 0 THEN "late" ELSE "none"
      [] OTHER -> IF finishedCalls[t] = RemovesOf(t) THEN "again" ELSE "none"

(* What a step does to a task. *)
Still(t) ==
    /\ UNCHANGED <<InitsOf(t), LoadsOf(t), AtEndOf(t), ToTellOf(t), finishedCalls[t], RemovesOf(t)>>
    /\ urlOf[t] # NoUrl => urlOf'[t] # NoUrl

Begins(t) ==
    /\ urlOf[t] = NoUrl /\ urlOf'[t] # NoUrl
    /\ InitsOf(t)' = InitsOf(t) + 1
    /\ UNCHANGED <<LoadsOf(t), AtEndOf(t), ToTellOf(t), finishedCalls[t], RemovesOf(t)>>

Lists(t) ==
    /\ InitsOf(t) = InitsOf(t)' + 1 /\ LoadsOf(t)' = LoadsOf(t) + 1
    /\ UNCHANGED <<AtEndOf(t), ToTellOf(t), finishedCalls[t], RemovesOf(t), urlOf[t]>>

Reads(t) ==
    /\ LoadsOf(t) = LoadsOf(t)' + 1 /\ AtEndOf(t)' = AtEndOf(t) + 1
    /\ ToTellOf(t)' \in {ToTellOf(t), ToTellOf(t) + 1}
    /\ UNCHANGED <<InitsOf(t), finishedCalls[t], RemovesOf(t), urlOf[t]>>

Ends(t) ==
    /\ AtEndOf(t) = AtEndOf(t)' + 1 /\ ToTellOf(t)' = ToTellOf(t) + 1
    /\ UNCHANGED <<InitsOf(t), LoadsOf(t), finishedCalls[t], RemovesOf(t), urlOf[t]>>

Breaks(t) ==
    /\ InitsOf(t)' + LoadsOf(t)' + AtEndOf(t)' + 1 = InitsOf(t) + LoadsOf(t) + AtEndOf(t)
    /\ UNCHANGED <<ToTellOf(t), finishedCalls[t], RemovesOf(t), urlOf[t]>>

Tells(t) ==
    /\ ToTellOf(t) = ToTellOf(t)' + 1
    /\ finishedCalls'[t] = finishedCalls[t] + 1 /\ RemovesOf(t)' = RemovesOf(t) + 1
    /\ UNCHANGED <<InitsOf(t), LoadsOf(t), AtEndOf(t), urlOf[t]>>

Removes(t) ==
    /\ RemovesOf(t) = RemovesOf(t)' + 1
    /\ UNCHANGED <<InitsOf(t), LoadsOf(t), AtEndOf(t), ToTellOf(t), finishedCalls[t], urlOf[t]>>

Dies(t) ==
    /\ InitsOf(t)' = 0 /\ LoadsOf(t)' = 0 /\ AtEndOf(t)' = 0 /\ ToTellOf(t)' = 0 /\ RemovesOf(t)' = 0
    /\ UNCHANGED <<finishedCalls[t], urlOf[t]>>

Moves(t) ==
    \/ Still(t) \/ Begins(t) \/ Lists(t) \/ Reads(t) \/ Ends(t) \/ Breaks(t) \/ Tells(t)
    \/ Removes(t) \/ Dies(t)

CountsTyped(t) ==
    /\ InitsOf(t) \in Nat /\ LoadsOf(t) \in Nat /\ AtEndOf(t) \in Nat /\ ToTellOf(t) \in Nat
    /\ RemovesOf(t) \in Nat /\ finishedCalls[t] \in Nat

LEMMA OwedStep ==
    ASSUME NEW t, CountsTyped(t), CountsTyped(t)', Owed(t), Moves(t)
    PROVE  Owed(t)'
<1>1. CASE Still(t)
  BY <1>1 DEF Still, Owed, CountsTyped
<1>2. CASE Begins(t)
  BY <1>2 DEF Begins, Owed, CountsTyped
<1>3. CASE Lists(t)
  BY <1>3 DEF Lists, Owed, CountsTyped
<1>4. CASE Reads(t)
  BY <1>4 DEF Reads, Owed, CountsTyped
<1>5. CASE Ends(t)
  BY <1>5 DEF Ends, Owed, CountsTyped
<1>6. CASE Breaks(t)
  BY <1>6 DEF Breaks, Owed, CountsTyped
<1>7. CASE Tells(t)
  BY <1>7 DEF Tells, Owed, CountsTyped
<1>8. CASE Removes(t)
  BY <1>8 DEF Removes, Owed, CountsTyped
<1>9. CASE Dies(t)
  BY <1>9 DEF Dies, Owed, CountsTyped
<1>10. QED
  BY <1>1, <1>2, <1>3, <1>4, <1>5, <1>6, <1>7, <1>8, <1>9 DEF Moves

LEMMA PhaseStep ==
    ASSUME NEW t, CountsTyped(t), CountsTyped(t)', Owed(t), Moves(t),
           LoadOf(t) = Phase(t), LoadOf(t)' = Phase(t)'
    PROVE  /\ [Life(t)!Next]_(LoadOf(t))
           /\ finishedCalls'[t] # finishedCalls[t] =>
                  finishedCalls'[t] = finishedCalls[t] + 1 /\ Life(t)!Tell
<1>1. CASE Still(t)
  BY <1>1 DEF Still, Phase
<1>2. CASE Begins(t)
  <2>1. Phase(t) = "none" /\ Phase(t)' = "queued"
    BY <1>2 DEF Begins, Owed, CountsTyped, Phase
  <2>2. QED
    BY <1>2, <2>1 DEF Begins, Life!Next, Life!Start
<1>3. CASE Lists(t)
  <2>1. Phase(t) = "queued" /\ Phase(t)' = "running"
    BY <1>3 DEF Lists, Owed, CountsTyped, Phase
  <2>2. QED
    BY <1>3, <2>1 DEF Lists, Life!Next, Life!Listed
<1>4. CASE Reads(t)
  <2>1. Phase(t)' = Phase(t)
    BY <1>4 DEF Reads, Owed, CountsTyped, Phase
  <2>2. QED
    BY <1>4, <2>1 DEF Reads
<1>5. CASE Ends(t)
  <2>1. Phase(t)' = Phase(t)
    BY <1>5 DEF Ends, Owed, CountsTyped, Phase
  <2>2. QED
    BY <1>5, <2>1 DEF Ends
<1>6. CASE Breaks(t)
  <2>1. Phase(t)' = Phase(t) \/ (Phase(t) \in {"queued", "running", "late"} /\ Phase(t)' = "none")
    <3>1. InitsOf(t)' = 0 /\ LoadsOf(t)' = 0 /\ AtEndOf(t)' = 0
      BY <1>6 DEF Breaks, Owed, CountsTyped
    <3>2. UNCHANGED <<ToTellOf(t), finishedCalls[t], RemovesOf(t)>>
      BY <1>6 DEF Breaks
    <3>3. CASE InitsOf(t) = 1
      BY <3>1, <3>2, <3>3 DEF Owed, CountsTyped, Phase
    <3>4. CASE LoadsOf(t) = 1 \/ AtEndOf(t) = 1
      BY <3>1, <3>2, <3>4 DEF Owed, CountsTyped, Phase
    <3>5. QED
      BY <1>6, <3>3, <3>4 DEF Breaks, Owed, CountsTyped
  <2>2. QED
    BY <1>6, <2>1 DEF Breaks, Life!Next, Life!Fail
<1>7. CASE Tells(t)
  <2>1. \/ Phase(t) = "running" /\ Phase(t)' = "told"
        \/ Phase(t) = "told" /\ Phase(t)' = "again"
        \/ Phase(t) = "late" /\ Phase(t)' = "none"
    BY <1>7 DEF Tells, Owed, CountsTyped, Phase
  <2>2. QED
    BY <1>7, <2>1 DEF Tells, Life!Next, Life!Tell, Life!TellAgain
<1>8. CASE Removes(t)
  <2>1. \/ Phase(t) = "told" /\ Phase(t)' \in {"none", "late"}
        \/ Phase(t) = "again" /\ Phase(t)' = "none"
        \/ Phase(t)' = Phase(t)
    BY <1>8 DEF Removes, Owed, CountsTyped, Phase
  <2>2. QED
    BY <1>8, <2>1 DEF Removes, Life!Next, Life!Unlist
<1>9. CASE Dies(t)
  <2>1. Phase(t)' = "none"
    BY <1>9 DEF Dies, Owed, CountsTyped, Phase
  <2>2. QED
    BY <1>9, <2>1 DEF Dies, Life!Next, Life!Die
<1>10. QED
  BY <1>1, <1>2, <1>3, <1>4, <1>5, <1>6, <1>7, <1>8, <1>9 DEF Moves

(* What the counts say of the phase. *)
LEMMA PlacesSome ==
    ASSUME NEW T, NEW s \in Seq(T), NEW S
    PROVE  Cardinality(Places(s, S)) # 0 <=> \E i \in DOMAIN s : s[i] \in S
<1>1. IsFiniteSet(Places(s, S))
  BY PlacesFinite
<1>2. Cardinality(Places(s, S)) = 0 <=> Places(s, S) = {}
  BY <1>1, FS_EmptySet
<1>3. QED
  BY <1>2 DEF Places

LEMMA ThreadsSome ==
    ASSUME Typed, NEW S
    PROVE  Threads(S) # 0 <=> \/ \E i \in DOMAIN pool : pool[i] \in S
                              \/ \E w \in Workers : worker[w] \in S
<1>1. Cardinality(Places(pool, S)) # 0 <=> \E i \in DOMAIN pool : pool[i] \in S
  BY PlacesSome DEF Typed, TypeOK
<1>2. IsFiniteSet(Running(worker, S))
  BY WorkersAssumption, FS_Subset DEF Running
<1>3. Cardinality(Running(worker, S)) # 0 <=> \E w \in Workers : worker[w] \in S
  BY <1>2, FS_EmptySet DEF Running
<1>4. Cardinality(Places(pool, S)) \in Nat /\ Cardinality(Running(worker, S)) \in Nat
  BY <1>2, PlacesFinite, FS_CardinalityType DEF Typed, TypeOK
<1>5. QED
  BY <1>1, <1>3, <1>4 DEF Threads

LEMMA SaidSome ==
    ASSUME Typed, NEW what, NEW t
    PROVE  /\ Said(what, t) # 0 <=> \E i \in DOMAIN looper : looper[i] = [what |-> what, task |-> t]
<1>1. looper \in Seq(Message \cup {BindSuc})
  BY DEF Typed, TypeOK
<1>2. Said(what, t) # 0 <=> \E i \in DOMAIN looper : looper[i] \in {[what |-> what, task |-> t]}
  BY <1>1, PlacesSome DEF Said
<1>3. QED
  BY <1>2

(* A message that says what of t. *)
LEMMA MessageIs ==
    ASSUME Typed, NEW i \in DOMAIN looper, NEW what, NEW t \in TaskInfos
    PROVE  looper[i] = [what |-> what, task |-> t] <=> looper[i].what = what /\ looper[i].task = t
<1>1. looper[i] \in Message \cup {BindSuc}
  BY DEF Typed, TypeOK
<1>2. QED
  BY <1>1, NoTaskAssumption DEF Message, BindSuc

LEMMA CountsAre ==
    ASSUME Typed, NothingPaused, NEW t \in TaskInfos
    PROVE  /\ Waiting(t) <=> InitsOf(t) # 0
           /\ ~Waiting(t) => (ToBeTold(t) <=> LoadsOf(t) + AtEndOf(t) + ToTellOf(t) # 0)
           /\ RemovesOf(t) = Cardinality(Announced(t)) + Cardinality(Removals(t))
<1>1. \A i \in DOMAIN pool : pool[i] \in Thread /\ StillOn(pool[i])
  BY TypedElements DEF NothingPaused
<1>2. \A w \in Workers : worker[w] = Idle \/ (worker[w] \in Thread /\ StillOn(worker[w]))
  BY TypedElements DEF NothingPaused
<1>3. /\ Threads(Inits(t)) # 0 <=>
            \/ \E i \in DOMAIN pool : pool[i] \in Inits(t)
            \/ \E w \in Workers : worker[w] \in Inits(t)
      /\ LoadsOf(t) # 0 <=>
            \/ \E i \in DOMAIN pool : pool[i] \in Loads(t)
            \/ \E w \in Workers : worker[w] \in Loads(t)
      /\ AtEndOf(t) # 0 <=>
            \/ \E i \in DOMAIN pool : pool[i] \in AtEnd(t)
            \/ \E w \in Workers : worker[w] \in AtEnd(t)
  BY ThreadsSome DEF LoadsOf, AtEndOf
<1>4. \A i \in DOMAIN pool :
        /\ pool[i] \in Inits(t) <=> pool[i].task = t /\ pool[i].pc = "init"
        /\ pool[i].task = t <=> pool[i] \in Inits(t) \/ pool[i] \in Loads(t) \/ pool[i] \in AtEnd(t)
  BY <1>1, LengthAssumption DEF Inits, Loads, AtEnd, StillOn, Thread
<1>5. \A w \in Workers :
        /\ worker[w] \in Inits(t) <=> worker[w].task = t /\ worker[w].pc = "init"
        /\ worker[w].task = t <=>
              worker[w] \in Inits(t) \/ worker[w] \in Loads(t) \/ worker[w] \in AtEnd(t)
  BY <1>2, LengthAssumption, NoTaskAssumption DEF Inits, Loads, AtEnd, StillOn, Thread, Idle
<1>6. \A what : Said(what, t) # 0 <=>
            \E i \in DOMAIN looper : looper[i].what = what /\ looper[i].task = t
  BY SaidSome, MessageIs
<1>7. /\ Threads(Inits(t)) \in Nat /\ LoadsOf(t) \in Nat /\ AtEndOf(t) \in Nat
      /\ \A what : Said(what, t) \in Nat
  BY ThreadsNat, SaidNat DEF LoadsOf, AtEndOf
<1>8. Waiting(t) <=> InitsOf(t) # 0
  <2>1. InitsOf(t) # 0 <=> Threads(Inits(t)) # 0 \/ Said("MSG_INIT", t) # 0
    BY <1>7 DEF InitsOf
  <2>2. QED
    BY <1>3, <1>4, <1>5, <1>6, <2>1 DEF Waiting
<1>9. ASSUME ~Waiting(t)
      PROVE  ToBeTold(t) <=> LoadsOf(t) + AtEndOf(t) + ToTellOf(t) # 0
  <2>1. Threads(Inits(t)) = 0
    BY <1>3, <1>4, <1>5, <1>9 DEF Waiting
  <2>2. LoadsOf(t) + AtEndOf(t) + ToTellOf(t) # 0 <=>
            LoadsOf(t) # 0 \/ AtEndOf(t) # 0 \/ Said("MSG_DOWNLOADING", t) # 0
    BY <1>7 DEF ToTellOf
  <2>3. QED
    BY <1>3, <1>4, <1>5, <1>6, <2>1, <2>2 DEF ToBeTold
<1>10. Announced(t) = Places(broadcasts, {t})
  BY DEF Announced, Places
<1>11. Removals(t) = Places(looper, {[what |-> "MSG_DOWNLOAD_FINISHED", task |-> t]})
  BY MessageIs DEF Removals, Places
<1>12. QED
  BY <1>8, <1>9, <1>10, <1>11 DEF RemovesOf, Said

LEMMA PhaseIs == Typed /\ NothingPaused => \A t \in TaskInfos : LoadOf(t) = Phase(t)
<1> SUFFICES ASSUME Typed, NothingPaused, NEW t \in TaskInfos PROVE LoadOf(t) = Phase(t)
  OBVIOUS
<1>1. /\ Waiting(t) <=> InitsOf(t) # 0
      /\ ~Waiting(t) => (ToBeTold(t) <=> LoadsOf(t) + AtEndOf(t) + ToTellOf(t) # 0)
      /\ NotRemoved(t) <=> finishedCalls[t] = RemovesOf(t)
  BY CountsAre DEF NotRemoved
<1>2. CASE Waiting(t)
  BY <1>1, <1>2 DEF LoadOf, Phase
<1>3. CASE ~Waiting(t)
  BY <1>1, <1>3 DEF LoadOf, Phase
<1>4. QED
  BY <1>2, <1>3

(* The main thread. *)
LEMMA CountsStay ==
    ASSUME NEW t
    PROVE  /\ UNCHANGED <<pool, worker>> => \A S : Threads(S)' = Threads(S)
           /\ UNCHANGED looper => \A what : Said(what, t)' = Said(what, t)
           /\ UNCHANGED broadcasts =>
                 Cardinality(Places(broadcasts, {t}))' = Cardinality(Places(broadcasts, {t}))
BY DEF Threads, Said, Places, Running

LEMMA FreshStart ==
    ASSUME Typed, NothingPaused, NEW t \in TaskInfos, KnownUrl(t), Downlaod(t, urlOf[t])
    PROVE  /\ \A u \in Urls : saved'[u] \in {NoRow, 0}
           /\ DownloadThread(t, 0) \in Thread /\ pool' = Append(pool, DownloadThread(t, 0))
           /\ \A i \in DOMAIN pool' : StillOn(pool'[i])
<1>1. DownloadThread(t, 0) \in Thread /\ pool \in Seq(Thread)
  BY DEF DownloadThread, Thread, Typed, TypeOK
<1>2. /\ pool' = Append(pool, DownloadThread(t, 0))
      /\ \A u \in Urls : saved'[u] \in {NoRow, 0}
  BY DEF Downlaod, NothingPaused, KnownUrl, NoRow, Typed, TypeOK
<1>3. StillOn(DownloadThread(t, 0))
  BY DEF DownloadThread, StillOn
<1>4. \A i \in DOMAIN pool' :
        (i \in DOMAIN pool /\ pool'[i] = pool[i]) \/ pool'[i] = DownloadThread(t, 0)
  BY <1>1, <1>2, AppendElements
<1>5. QED
  BY <1>1, <1>2, <1>3, <1>4 DEF NothingPaused

LEMMA InitLife ==
    ASSUME Typed, NothingPaused, HandleInit
    PROVE  NothingPaused' /\ \A t \in TaskInfos : Moves(t)
<1> DEFINE q == Head(looper).task
           th == DownloadThread(q, 0)
<1>1. /\ UNCHANGED <<urlOf, isPause, worker, broadcasts, finishedCalls>>
      /\ looper # <<>> /\ looper' = Tail(looper) /\ Downlaod(q, urlOf[q])
  BY DEF HandleInit, Received
<1>2. Head(looper) \in Message /\ q \in TaskInfos /\ KnownUrl(q) /\ Head(looper).what = "MSG_INIT"
  BY <1>1, ReceiveTyped DEF HandleInit, Received
<1>3. /\ \A u \in Urls : saved'[u] \in {NoRow, 0}
      /\ th \in Thread /\ pool' = Append(pool, th)
      /\ \A i \in DOMAIN pool' : StillOn(pool'[i])
  BY <1>1, <1>2, FreshStart
<1>4. NothingPaused'
  BY <1>1, <1>3 DEF NothingPaused, StillOn
<1>5. th.task = q /\ th.pc = "connect"
  BY DEF DownloadThread
<1> HIDE DEF th
<1>6. ASSUME NEW t \in TaskInfos PROVE Moves(t)
  <2>1. \A S : Threads(S)' = Threads(S) + One(th \in S)
    BY <1>1, <1>3, ThreadQueued
  <2>2. /\ th \notin Inits(t) /\ th \notin AtEnd(t)
        /\ th \in Loads(t) <=> q = t
    BY <1>3, <1>5, KindOf
  <2>3. \A what : Said(what, t) = Said(what, t)' + One(Head(looper).what = what /\ q = t)
                  /\ Said(what, t)' \in Nat
    BY <1>1, <1>2, Receives
  <2>4. /\ Said("MSG_INIT", t) = Said("MSG_INIT", t)' + One(q = t)
        /\ Said("MSG_DOWNLOADING", t)' = Said("MSG_DOWNLOADING", t)
        /\ Said("MSG_DOWNLOAD_FINISHED", t)' = Said("MSG_DOWNLOAD_FINISHED", t)
    BY <1>2, <2>3 DEF One
  <2>5. Threads(Inits(t)) \in Nat /\ Threads(AtEnd(t)) \in Nat /\ Threads(Loads(t)) \in Nat
    BY ThreadsNat
  <2>6. /\ Threads(Inits(t))' = Threads(Inits(t)) /\ Threads(AtEnd(t))' = Threads(AtEnd(t))
        /\ Threads(Loads(t))' = Threads(Loads(t)) + One(q = t)
    BY <2>1, <2>2, <2>5 DEF One
  <2>7. Cardinality(Places(broadcasts, {t}))' = Cardinality(Places(broadcasts, {t}))
    BY <1>1, CountsStay
  <2>8. /\ InitsOf(t) = InitsOf(t)' + One(q = t) /\ LoadsOf(t)' = LoadsOf(t) + One(q = t)
        /\ UNCHANGED <<AtEndOf(t), ToTellOf(t), finishedCalls[t], RemovesOf(t), urlOf[t]>>
        /\ InitsOf(t)' \in Nat /\ LoadsOf(t) \in Nat
    BY <1>1, <2>3, <2>4, <2>5, <2>6, <2>7, OneNat
    DEF InitsOf, LoadsOf, AtEndOf, ToTellOf, RemovesOf
  <2>9. CASE q = t
    <3>1. Lists(t)
      BY <2>8, <2>9 DEF Lists, One
    <3>2. QED
      BY <3>1 DEF Moves
  <2>10. CASE q # t
    <3>1. Still(t)
      BY <2>8, <2>10 DEF Still, One
    <3>2. QED
      BY <3>1 DEF Moves
  <2>11. QED
    BY <2>9, <2>10
<1>7. QED
  BY <1>4, <1>6

LEMMA DownloadingLife ==
    ASSUME Typed, NothingPaused, HandleDownloading
    PROVE  NothingPaused' /\ \A t \in TaskInfos : Moves(t)
<1> DEFINE q == Head(looper).task
<1>1. /\ UNCHANGED <<urlOf, isPause, pool, worker>>
      /\ looper # <<>> /\ looper' = Tail(looper) /\ broadcasts' = Append(broadcasts, q)
      /\ saved' = [saved EXCEPT ![urlOf[q]] = NoRow]
      /\ finishedCalls' = [finishedCalls EXCEPT ![q] = @ + 1]
  BY DEF HandleDownloading, Received
<1>2. /\ Head(looper) \in Message /\ q \in TaskInfos /\ KnownUrl(q)
      /\ Head(looper).what = "MSG_DOWNLOADING"
  BY <1>1, ReceiveTyped DEF HandleDownloading, Received
<1>3. NothingPaused'
  BY <1>1 DEF NothingPaused, StillOn, Typed, TypeOK
<1>4. ASSUME NEW t \in TaskInfos PROVE Moves(t)
  <2>1. \A S : Threads(S)' = Threads(S)
    BY <1>1, CountsStay
  <2>2. \A what : Said(what, t) = Said(what, t)' + One(Head(looper).what = what /\ q = t)
                  /\ Said(what, t)' \in Nat
    BY <1>1, <1>2, Receives
  <2>3. /\ Said("MSG_DOWNLOADING", t) = Said("MSG_DOWNLOADING", t)' + One(q = t)
        /\ Said("MSG_INIT", t)' = Said("MSG_INIT", t)
        /\ Said("MSG_DOWNLOAD_FINISHED", t)' = Said("MSG_DOWNLOAD_FINISHED", t)
    BY <1>2, <2>2 DEF One
  <2>4. /\ Cardinality(Places(broadcasts, {t}))'
              = Cardinality(Places(broadcasts, {t})) + One(q = t)
        /\ Cardinality(Places(broadcasts, {t})) \in Nat
    <3>1. broadcasts \in Seq(TaskInfos)
      BY DEF Typed, TypeOK
    <3>2. Cardinality(Places(Append(broadcasts, q), {t}))
            = Cardinality(Places(broadcasts, {t})) + One(q \in {t})
      BY <1>2, <3>1, PlacesAppend
    <3>3. Places(broadcasts, {t})' = Places(Append(broadcasts, q), {t})
      BY <1>1 DEF Places
    <3>4. One(q \in {t}) = One(q = t)
      BY DEF One
    <3>5. QED
      BY <3>1, <3>2, <3>3, <3>4, PlacesFinite
  <2>5. finishedCalls'[t] = finishedCalls[t] + One(q = t)
    BY <1>1, <1>2 DEF Typed, TypeOK, One
  <2>6. /\ ToTellOf(t) = ToTellOf(t)' + One(q = t) /\ RemovesOf(t)' = RemovesOf(t) + One(q = t)
        /\ UNCHANGED <<InitsOf(t), LoadsOf(t), AtEndOf(t), urlOf[t]>>
        /\ ToTellOf(t)' \in Nat /\ RemovesOf(t) \in Nat /\ finishedCalls[t] \in Nat
    <3>1. finishedCalls[t] \in Nat
      BY DEF Typed, TypeOK
    <3>2. QED
      BY <1>1, <2>1, <2>2, <2>3, <2>4, <3>1, OneNat
      DEF InitsOf, LoadsOf, AtEndOf, ToTellOf, RemovesOf
  <2>7. CASE q = t
    <3>1. Tells(t)
      BY <2>5, <2>6, <2>7 DEF Tells, One
    <3>2. QED
      BY <3>1 DEF Moves
  <2>8. CASE q # t
    <3>1. Still(t)
      BY <2>5, <2>6, <2>8 DEF Still, One
    <3>2. QED
      BY <3>1 DEF Moves
  <2>9. QED
    BY <2>7, <2>8
<1>5. QED
  BY <1>3, <1>4

LEMMA FinishedLife ==
    ASSUME Typed, NothingPaused, HandleFinished
    PROVE  NothingPaused' /\ \A t \in TaskInfos : Moves(t)
<1> DEFINE q == Head(looper).task
<1>1. /\ UNCHANGED <<urlOf, isPause, pool, worker, broadcasts, saved, finishedCalls>>
      /\ looper # <<>> /\ looper' = Tail(looper)
  BY DEF HandleFinished, Received
<1>2. /\ Head(looper) \in Message /\ q \in TaskInfos
      /\ Head(looper).what = "MSG_DOWNLOAD_FINISHED"
  BY <1>1, ReceiveTyped DEF HandleFinished, Received
<1>3. NothingPaused'
  BY <1>1 DEF NothingPaused, StillOn
<1>4. ASSUME NEW t \in TaskInfos PROVE Moves(t)
  <2>1. \A S : Threads(S)' = Threads(S)
    BY <1>1, CountsStay
  <2>2. \A what : Said(what, t) = Said(what, t)' + One(Head(looper).what = what /\ q = t)
                  /\ Said(what, t)' \in Nat
    BY <1>1, <1>2, Receives
  <2>3. /\ Said("MSG_DOWNLOAD_FINISHED", t) = Said("MSG_DOWNLOAD_FINISHED", t)' + One(q = t)
        /\ Said("MSG_INIT", t)' = Said("MSG_INIT", t)
        /\ Said("MSG_DOWNLOADING", t)' = Said("MSG_DOWNLOADING", t)
    BY <1>2, <2>2 DEF One
  <2>4. /\ Cardinality(Places(broadcasts, {t}))' = Cardinality(Places(broadcasts, {t}))
        /\ Cardinality(Places(broadcasts, {t})) \in Nat
    BY <1>1, CountsStay, PlacesFinite DEF Typed, TypeOK
  <2>5. /\ RemovesOf(t) = RemovesOf(t)' + One(q = t) /\ RemovesOf(t)' \in Nat
        /\ UNCHANGED <<InitsOf(t), LoadsOf(t), AtEndOf(t), ToTellOf(t), finishedCalls[t], urlOf[t]>>
    BY <1>1, <2>1, <2>2, <2>3, <2>4, OneNat DEF InitsOf, LoadsOf, AtEndOf, ToTellOf, RemovesOf
  <2>6. CASE q = t
    <3>1. Removes(t)
      BY <2>5, <2>6 DEF Removes, One
    <3>2. QED
      BY <3>1 DEF Moves
  <2>7. CASE q # t
    <3>1. Still(t)
      BY <2>5, <2>7 DEF Still, One
    <3>2. QED
      BY <3>1 DEF Moves
  <2>8. QED
    BY <2>6, <2>7
<1>5. QED
  BY <1>3, <1>4

LEMMA ReceiveLife ==
    ASSUME Typed, NothingPaused, OnReceive
    PROVE  NothingPaused' /\ \A t \in TaskInfos : Moves(t)
<1> DEFINE q == Head(broadcasts)
           m == [what |-> "MSG_DOWNLOAD_FINISHED", task |-> q]
<1>1. /\ UNCHANGED <<urlOf, isPause, pool, worker, saved, finishedCalls>>
      /\ broadcasts # <<>> /\ broadcasts' = Tail(broadcasts) /\ looper' = Append(looper, m)
  BY DEF OnReceive
<1>2. broadcasts \in Seq(TaskInfos) /\ q \in TaskInfos /\ Tail(broadcasts) \in Seq(TaskInfos)
  BY <1>1, TailElements DEF Typed, TypeOK
<1>3. m \in Message /\ m.what = "MSG_DOWNLOAD_FINISHED" /\ m.task = q
  BY <1>2 DEF Message
<1>4. NothingPaused'
  BY <1>1 DEF NothingPaused, StillOn
<1>5. ASSUME NEW t \in TaskInfos PROVE Still(t)
  <2>1. \A S : Threads(S)' = Threads(S)
    BY <1>1, CountsStay
  <2>2. \A what : Said(what, t)' = Said(what, t) + One(m.what = what /\ m.task = t)
                  /\ Said(what, t) \in Nat
    BY <1>1, <1>3, Sends, SaidNat
  <2>3. /\ Said("MSG_DOWNLOAD_FINISHED", t)' = Said("MSG_DOWNLOAD_FINISHED", t) + One(q = t)
        /\ Said("MSG_INIT", t)' = Said("MSG_INIT", t)
        /\ Said("MSG_DOWNLOADING", t)' = Said("MSG_DOWNLOADING", t)
    BY <1>3, <2>2 DEF One
  <2>4. /\ Cardinality(Places(broadcasts, {t}))
              = Cardinality(Places(broadcasts, {t}))' + One(q = t)
        /\ Cardinality(Places(broadcasts, {t}))' \in Nat
    <3>1. Cardinality(Places(broadcasts, {t}))
            = Cardinality(Places(Tail(broadcasts), {t})) + One(q \in {t})
      BY <1>1, <1>2, PlacesTail
    <3>2. Places(broadcasts, {t})' = Places(Tail(broadcasts), {t})
      BY <1>1 DEF Places
    <3>3. One(q \in {t}) = One(q = t)
      BY DEF One
    <3>4. QED
      BY <1>2, <3>1, <3>2, <3>3, PlacesFinite
  <2>5. QED
    BY <1>1, <2>1, <2>2, <2>3, <2>4, OneNat DEF Still, InitsOf, LoadsOf, AtEndOf, ToTellOf, RemovesOf
<1>6. QED
  BY <1>4, <1>5 DEF Moves

(* The threads.  What a step of one changes of the counts. *)
LEMMA WorkerCounts ==
    ASSUME Typed, NEW w \in Workers, NEW x, worker' = [worker EXCEPT ![w] = x],
           UNCHANGED <<pool, broadcasts>>, NEW t
    PROVE  /\ Threads(Inits(t))' + One(worker[w] \in Inits(t)) = Threads(Inits(t)) + One(x \in Inits(t))
           /\ LoadsOf(t)' + One(worker[w] \in Loads(t)) = LoadsOf(t) + One(x \in Loads(t))
           /\ AtEndOf(t)' + One(worker[w] \in AtEnd(t)) = AtEndOf(t) + One(x \in AtEnd(t))
           /\ Threads(Inits(t)) \in Nat /\ LoadsOf(t) \in Nat /\ AtEndOf(t) \in Nat
           /\ Threads(Inits(t))' \in Nat /\ LoadsOf(t)' \in Nat /\ AtEndOf(t)' \in Nat
           /\ Cardinality(Places(broadcasts, {t}))' = Cardinality(Places(broadcasts, {t}))
           /\ Cardinality(Places(broadcasts, {t})) \in Nat
<1>1. \A S : /\ Threads(S)' + One(worker[w] \in S) = Threads(S) + One(x \in S)
             /\ Threads(S) \in Nat /\ Threads(S)' \in Nat
  BY ThreadMoves
<1>2. Cardinality(Places(broadcasts, {t}))' = Cardinality(Places(broadcasts, {t}))
  BY CountsStay
<1>3. Cardinality(Places(broadcasts, {t})) \in Nat
  BY PlacesFinite DEF Typed, TypeOK
<1>4. QED
  BY <1>1, <1>2, <1>3 DEF LoadsOf, AtEndOf

LEMMA WorkerUnpaused ==
    ASSUME Typed, NothingPaused, NEW w \in Workers, NEW x, worker' = [worker EXCEPT ![w] = x],
           x = Idle \/ StillOn(x), UNCHANGED <<isPause, saved, pool>>
    PROVE  NothingPaused'
<1>1. worker \in [Workers -> Thread \cup {Idle}]
  BY DEF Typed, TypeOK
<1>2. \A v \in Workers : worker'[v] # Idle => StillOn(worker'[v])
  BY <1>1 DEF NothingPaused
<1>3. QED
  BY <1>2 DEF NothingPaused, StillOn

LEMMA BusyThread ==
    ASSUME Typed, NothingPaused, NEW w \in Workers, worker[w] # Idle
    PROVE  /\ worker[w] \in Thread /\ StillOn(worker[w]) /\ worker[w].task \in TaskInfos
           /\ worker[w].finished \in Nat /\ worker[w].last \in Nat
BY DEF Typed, TypeOK, NothingPaused, Thread

LEMMA AtBusy == ASSUME NEW w, NEW pc, pc # "idle", At(w, pc) PROVE worker[w] # Idle
BY DEF At, Idle

LEMMA TakeLife ==
    ASSUME Typed, NothingPaused, NEW w \in Workers, Take(w)
    PROVE  NothingPaused' /\ \A t \in TaskInfos : Moves(t)
<1> DEFINE x == Head(pool)
<1>1. /\ UNCHANGED <<urlOf, isPause, looper, broadcasts, saved, finishedCalls>>
      /\ pool # <<>> /\ pool' = Tail(pool) /\ worker' = [worker EXCEPT ![w] = x]
  BY DEF Take, mainOwned
<1>2. /\ 1 \in DOMAIN pool /\ x = pool[1]
      /\ \A i \in DOMAIN Tail(pool) : i + 1 \in DOMAIN pool /\ Tail(pool)[i] = pool[i + 1]
  BY <1>1, TailElements DEF Typed, TypeOK
<1> HIDE DEF x
<1>3. StillOn(x) /\ \A i \in DOMAIN pool' : StillOn(pool'[i])
  BY <1>1, <1>2 DEF NothingPaused
<1>4. \A v \in Workers : worker'[v] # Idle => StillOn(worker'[v])
  BY <1>1, <1>3 DEF NothingPaused, Typed, TypeOK
<1>5. NothingPaused'
  BY <1>1, <1>3, <1>4 DEF NothingPaused, StillOn
<1>6. ASSUME NEW t \in TaskInfos PROVE Still(t)
  <2>1. \A S : Idle \notin S => Threads(S)' = Threads(S)
    BY ThreadTaken
  <2>2. UNCHANGED <<Threads(Inits(t)), LoadsOf(t), AtEndOf(t)>>
    BY <2>1, IdleNoKind DEF LoadsOf, AtEndOf
  <2>3. /\ \A what : Said(what, t)' = Said(what, t)
        /\ Cardinality(Places(broadcasts, {t}))' = Cardinality(Places(broadcasts, {t}))
    BY <1>1, CountsStay
  <2>4. QED
    BY <1>1, <2>2, <2>3 DEF Still, InitsOf, ToTellOf, RemovesOf
<1>7. QED
  BY <1>5, <1>6 DEF Moves

LEMMA InitDoneLife ==
    ASSUME Typed, NothingPaused, NEW w \in Workers, InitDone(w)
    PROVE  NothingPaused' /\ \A t \in TaskInfos : Moves(t)
<1> DEFINE q == worker[w].task
           m == [what |-> "MSG_INIT", task |-> q]
<1>1. /\ UNCHANGED <<urlOf, isPause, pool, broadcasts, saved, finishedCalls>>
      /\ worker' = [worker EXCEPT ![w] = Idle] /\ looper' = Append(looper, m)
      /\ worker[w].pc = "init"
  BY DEF InitDone, Exit, At, mainOwned
<1>2. worker[w] \in Thread /\ q \in TaskInfos
  BY AtBusy, BusyThread DEF InitDone
<1>3. m \in Message /\ m.what = "MSG_INIT" /\ m.task = q
  BY <1>2 DEF Message
<1>4. NothingPaused'
  BY <1>1, WorkerUnpaused
<1>5. ASSUME NEW t \in TaskInfos PROVE Still(t)
  <2>1. /\ Threads(Inits(t))' + One(worker[w] \in Inits(t)) = Threads(Inits(t)) + One(Idle \in Inits(t))
        /\ LoadsOf(t)' + One(worker[w] \in Loads(t)) = LoadsOf(t) + One(Idle \in Loads(t))
        /\ AtEndOf(t)' + One(worker[w] \in AtEnd(t)) = AtEndOf(t) + One(Idle \in AtEnd(t))
        /\ Threads(Inits(t)) \in Nat /\ LoadsOf(t) \in Nat /\ AtEndOf(t) \in Nat
        /\ Threads(Inits(t))' \in Nat /\ LoadsOf(t)' \in Nat /\ AtEndOf(t)' \in Nat
        /\ Cardinality(Places(broadcasts, {t}))' = Cardinality(Places(broadcasts, {t}))
        /\ Cardinality(Places(broadcasts, {t})) \in Nat
    <3>1. UNCHANGED <<pool, broadcasts>>
      BY <1>1
    <3>2. QED
      BY <1>1, <3>1, WorkerCounts
  <2>2. /\ worker[w] \in Inits(t) <=> q = t
        /\ worker[w] \notin Loads(t) /\ worker[w] \notin AtEnd(t)
    BY <1>1, <1>2, KindOf
  <2>4. /\ Threads(Inits(t))' + One(q = t) = Threads(Inits(t))
        /\ LoadsOf(t)' = LoadsOf(t) /\ AtEndOf(t)' = AtEndOf(t)
    BY <2>1, <2>2, IdleNoKind DEF One
  <2>5. \A what : Said(what, t)' = Said(what, t) + One(m.what = what /\ m.task = t)
                  /\ Said(what, t) \in Nat
    BY <1>1, <1>3, Sends, SaidNat
  <2>6. /\ Said("MSG_INIT", t)' = Said("MSG_INIT", t) + One(q = t)
        /\ Said("MSG_DOWNLOAD_FINISHED", t)' = Said("MSG_DOWNLOAD_FINISHED", t)
        /\ Said("MSG_DOWNLOADING", t)' = Said("MSG_DOWNLOADING", t)
    BY <1>3, <2>5 DEF One
  <2>7. QED
    BY <1>1, <2>1, <2>4, <2>5, <2>6, OneNat DEF Still, InitsOf, ToTellOf, RemovesOf
<1>6. QED
  BY <1>4, <1>5 DEF Moves

(* A thread changes and is of the same kind. *)
LEMMA ThreadStill ==
    ASSUME Typed, NEW w \in Workers, NEW x, worker' = [worker EXCEPT ![w] = x],
           UNCHANGED <<urlOf, pool, broadcasts, looper, finishedCalls>>, NEW t,
           worker[w] \in Inits(t) <=> x \in Inits(t), worker[w] \in Loads(t) <=> x \in Loads(t),
           worker[w] \in AtEnd(t) <=> x \in AtEnd(t)
    PROVE  Still(t)
<1>1. /\ Threads(Inits(t))' + One(worker[w] \in Inits(t)) = Threads(Inits(t)) + One(x \in Inits(t))
      /\ LoadsOf(t)' + One(worker[w] \in Loads(t)) = LoadsOf(t) + One(x \in Loads(t))
      /\ AtEndOf(t)' + One(worker[w] \in AtEnd(t)) = AtEndOf(t) + One(x \in AtEnd(t))
      /\ Threads(Inits(t)) \in Nat /\ LoadsOf(t) \in Nat /\ AtEndOf(t) \in Nat
      /\ Threads(Inits(t))' \in Nat /\ LoadsOf(t)' \in Nat /\ AtEndOf(t)' \in Nat
      /\ Cardinality(Places(broadcasts, {t}))' = Cardinality(Places(broadcasts, {t}))
      /\ Cardinality(Places(broadcasts, {t})) \in Nat
  <2>1. UNCHANGED <<pool, broadcasts>>
    OBVIOUS
  <2>2. QED
    BY <2>1, WorkerCounts
<1>2. UNCHANGED <<Threads(Inits(t)), LoadsOf(t), AtEndOf(t)>>
  BY <1>1 DEF One
<1>3. \A what : Said(what, t)' = Said(what, t)
  BY CountsStay
<1>4. QED
  BY <1>1, <1>2, <1>3 DEF Still, InitsOf, ToTellOf, RemovesOf

(* A progress of 100 is sent, or not. *)
LEMMA Telling ==
    ASSUME Typed, NEW q \in TaskInfos, NEW t,
           \/ UNCHANGED looper
           \/ looper' = Append(looper, [what |-> "MSG_DOWNLOADING", task |-> q])
    PROVE  /\ UNCHANGED <<Said("MSG_INIT", t), Said("MSG_DOWNLOAD_FINISHED", t)>>
           /\ ToTellOf(t)' \in {ToTellOf(t), ToTellOf(t) + One(q = t)}
           /\ looper' = Append(looper, [what |-> "MSG_DOWNLOADING", task |-> q]) =>
                 ToTellOf(t)' = ToTellOf(t) + One(q = t)
           /\ ToTellOf(t) \in Nat
<1> DEFINE m == [what |-> "MSG_DOWNLOADING", task |-> q]
<1>1. m \in Message /\ m.what = "MSG_DOWNLOADING" /\ m.task = q
  BY DEF Message
<1> HIDE DEF m
<1>2. CASE looper' = Append(looper, m)
  <2>1. \A what : /\ Said(what, t)' = Said(what, t) + One(m.what = what /\ m.task = t)
                  /\ Said(what, t) \in Nat
    BY <1>1, <1>2, Sends, SaidNat
  <2>2. QED
    BY <1>1, <2>1 DEF One, ToTellOf
<1>3. CASE UNCHANGED looper /\ looper' # Append(looper, m)
  <2>1. \A what : Said(what, t)' = Said(what, t) /\ Said(what, t) \in Nat
    BY <1>3, CountsStay, SaidNat
  <2>2. QED
    BY <1>3, <2>1 DEF ToTellOf, m
<1>4. QED
  BY <1>2, <1>3 DEF m

LEMMA ConnectLife ==
    ASSUME Typed, NothingPaused, NEW w \in Workers, Connect(w)
    PROVE  NothingPaused' /\ \A t \in TaskInfos : Moves(t)
<1> DEFINE x == [worker[w] EXCEPT !.pc = "read", !.last = Length]
<1>1. /\ UNCHANGED <<urlOf, isPause, pool, looper, broadcasts, saved, finishedCalls>>
      /\ worker[w].pc = "connect"
  BY DEF Connect, At, mainOwned
<1>2. worker[w] \in Thread /\ worker[w].finished = 0
  BY <1>1, AtBusy, BusyThread DEF Connect, StillOn
<1>3. worker' = [worker EXCEPT ![w] = x]
  <2>1. worker' = [worker EXCEPT ![w].pc = "read", ![w].last = Length]
    BY <1>2, LengthAssumption DEF Connect
  <2>2. QED
    BY <1>2, <2>1 DEF Typed, TypeOK, Thread
<1>4. x \in Thread /\ x.pc = "read" /\ x.task = worker[w].task /\ x.finished = 0 /\ x.last = Length
  BY <1>2, LengthAssumption DEF Thread
<1> HIDE DEF x
<1>5. StillOn(x)
  BY <1>4, LengthAssumption DEF StillOn
<1>6. NothingPaused'
  BY <1>1, <1>3, <1>5, WorkerUnpaused
<1>7. ASSUME NEW t \in TaskInfos PROVE Still(t)
  <2>1. /\ worker[w] \in Inits(t) <=> x \in Inits(t)
        /\ worker[w] \in Loads(t) <=> x \in Loads(t)
        /\ worker[w] \in AtEnd(t) <=> x \in AtEnd(t)
    BY <1>1, <1>2, <1>4, LengthAssumption DEF Inits, Loads, AtEnd
  <2>2. UNCHANGED <<urlOf, pool, broadcasts, looper, finishedCalls>>
    BY <1>1
  <2>3. QED
    BY <1>3, <2>1, <2>2, ThreadStill
<1>8. QED
  BY <1>6, <1>7 DEF Moves

LEMMA ReadLife ==
    ASSUME SmallFile, Typed, NothingPaused, NEW w \in Workers, Read(w)
    PROVE  NothingPaused' /\ \A t \in TaskInfos : Moves(t)
<1> DEFINE q == worker[w].task
           n == worker[w].finished + 1
           x == [worker[w] EXCEPT !.finished = n]
<1>1. /\ UNCHANGED <<urlOf, isPause, pool, broadcasts, saved, finishedCalls>>
      /\ worker[w].pc = "read"
  BY DEF Read, At, mainOwned
<1>2. /\ worker[w] \in Thread /\ q \in TaskInfos /\ worker[w].finished \in Nat
      /\ worker[w].last = Length /\ worker[w].finished < Length
  BY <1>1, AtBusy, BusyThread DEF Read, StillOn
<1>3. Seen(q) = {FALSE}
  BY <1>2 DEF Seen, NothingPaused
<1>4. /\ UNCHANGED looper \/ looper' = Notify(looper, q, n)
      /\ worker' = [worker EXCEPT ![w].finished = n, ![w].pc = "read"]
  BY <1>3 DEF Read
<1>5. worker' = [worker EXCEPT ![w] = x]
  BY <1>1, <1>2, <1>4 DEF Typed, TypeOK, Thread
<1>6. x \in Thread /\ x.pc = "read" /\ x.task = q /\ x.finished = n /\ x.last = Length
  BY <1>1, <1>2 DEF Thread
<1>7. n \in Nat /\ n <= Length
  BY <1>2, LengthAssumption
<1> HIDE DEF x
<1>8. StillOn(x)
  BY <1>6, <1>7 DEF StillOn
<1>9. NothingPaused'
  BY <1>1, <1>5, <1>8, WorkerUnpaused
<1>10. ASSUME NEW t \in TaskInfos PROVE Moves(t)
  <2>1. /\ worker[w] \notin Inits(t) /\ worker[w] \notin AtEnd(t)
        /\ worker[w] \in Loads(t) <=> q = t
        /\ x \notin Inits(t)
        /\ x \in Loads(t) <=> q = t /\ n < Length
        /\ x \in AtEnd(t) <=> q = t /\ n >= Length
    BY <1>1, <1>2, <1>6, <1>7, LengthAssumption DEF Inits, Loads, AtEnd
  <2>2. CASE n < Length
    <3>1. UNCHANGED <<urlOf, pool, broadcasts, looper, finishedCalls>>
      <4>1. ~Says100(n)
        BY <1>7, <2>2, SmallIsExact, LengthAssumption
      <4>2. QED
        BY <1>1, <1>4, <4>1 DEF Notify
    <3>2. ~(n >= Length)
      BY <1>7, <2>2, LengthAssumption
    <3>3. Still(t)
      BY <1>5, <2>1, <2>2, <3>1, <3>2, ThreadStill
    <3>4. QED
      BY <3>3 DEF Moves
  <2>3. CASE ~(n < Length)
    <3>1. /\ Threads(Inits(t))' + One(worker[w] \in Inits(t)) = Threads(Inits(t)) + One(x \in Inits(t))
          /\ LoadsOf(t)' + One(worker[w] \in Loads(t)) = LoadsOf(t) + One(x \in Loads(t))
          /\ AtEndOf(t)' + One(worker[w] \in AtEnd(t)) = AtEndOf(t) + One(x \in AtEnd(t))
          /\ Threads(Inits(t)) \in Nat /\ LoadsOf(t) \in Nat /\ AtEndOf(t) \in Nat
          /\ Threads(Inits(t))' \in Nat /\ LoadsOf(t)' \in Nat /\ AtEndOf(t)' \in Nat
          /\ Cardinality(Places(broadcasts, {t}))' = Cardinality(Places(broadcasts, {t}))
          /\ Cardinality(Places(broadcasts, {t})) \in Nat
      <4>1. UNCHANGED <<pool, broadcasts>>
        BY <1>1
      <4>2. QED
        BY <1>5, <4>1, WorkerCounts
    <3>2. n >= Length
      BY <1>7, <2>3, LengthAssumption
    <3>3. /\ UNCHANGED Threads(Inits(t))
          /\ LoadsOf(t) = LoadsOf(t)' + One(q = t) /\ AtEndOf(t)' = AtEndOf(t) + One(q = t)
      BY <2>1, <2>3, <3>1, <3>2 DEF One
    <3>4. /\ UNCHANGED <<Said("MSG_INIT", t), Said("MSG_DOWNLOAD_FINISHED", t)>>
          /\ ToTellOf(t)' \in {ToTellOf(t), ToTellOf(t) + One(q = t)} /\ ToTellOf(t) \in Nat
      <4>1. \/ UNCHANGED looper
            \/ looper' = Append(looper, [what |-> "MSG_DOWNLOADING", task |-> q])
        BY <1>4, <3>2 DEF Notify
      <4>2. QED
        BY <1>2, <4>1, Telling
    <3>5. UNCHANGED <<InitsOf(t), RemovesOf(t), finishedCalls[t], urlOf[t]>>
      BY <1>1, <3>1, <3>3, <3>4 DEF InitsOf, RemovesOf
    <3>6. CASE q = t
      <4>1. Reads(t)
        BY <3>3, <3>4, <3>5, <3>6 DEF Reads, One
      <4>2. QED
        BY <4>1 DEF Moves
    <3>7. CASE q # t
      <4>1. Still(t)
        BY <3>1, <3>3, <3>4, <3>5, <3>7 DEF Still, One
      <4>2. QED
        BY <4>1 DEF Moves
    <3>8. QED
      BY <3>6, <3>7
  <2>4. QED
    BY <2>2, <2>3
<1>11. QED
  BY <1>9, <1>10

LEMMA EndLife ==
    ASSUME Typed, NothingPaused, NEW w \in Workers, EndOfStream(w)
    PROVE  NothingPaused' /\ \A t \in TaskInfos : Moves(t)
<1> DEFINE q == worker[w].task
<1>1. /\ UNCHANGED <<urlOf, isPause, pool, broadcasts, saved, finishedCalls>>
      /\ worker' = [worker EXCEPT ![w] = Idle]
      /\ worker[w].pc = "read"
  BY DEF EndOfStream, Exit, At, mainOwned
<1>2. worker[w] \in Thread /\ q \in TaskInfos /\ worker[w].finished = Length
  BY <1>1, AtBusy, BusyThread DEF EndOfStream, StillOn
<1>3. looper' = Append(looper, [what |-> "MSG_DOWNLOADING", task |-> q])
  BY <1>2, LengthAssumption DEF EndOfStream, Notify, Says100
<1>4. NothingPaused'
  BY <1>1, WorkerUnpaused
<1>5. ASSUME NEW t \in TaskInfos PROVE Moves(t)
  <2>1. /\ Threads(Inits(t))' + One(worker[w] \in Inits(t)) = Threads(Inits(t)) + One(Idle \in Inits(t))
        /\ LoadsOf(t)' + One(worker[w] \in Loads(t)) = LoadsOf(t) + One(Idle \in Loads(t))
        /\ AtEndOf(t)' + One(worker[w] \in AtEnd(t)) = AtEndOf(t) + One(Idle \in AtEnd(t))
        /\ Threads(Inits(t)) \in Nat /\ LoadsOf(t) \in Nat /\ AtEndOf(t) \in Nat
        /\ Threads(Inits(t))' \in Nat /\ LoadsOf(t)' \in Nat /\ AtEndOf(t)' \in Nat
        /\ Cardinality(Places(broadcasts, {t}))' = Cardinality(Places(broadcasts, {t}))
        /\ Cardinality(Places(broadcasts, {t})) \in Nat
    <3>1. UNCHANGED <<pool, broadcasts>>
      BY <1>1
    <3>2. QED
      BY <1>1, <3>1, WorkerCounts
  <2>2. /\ worker[w] \notin Inits(t) /\ worker[w] \notin Loads(t)
        /\ worker[w] \in AtEnd(t) <=> q = t
    BY <1>1, <1>2, LengthAssumption DEF Inits, Loads, AtEnd
  <2>3. /\ UNCHANGED <<Threads(Inits(t)), LoadsOf(t)>>
        /\ AtEndOf(t) = AtEndOf(t)' + One(q = t)
    BY <2>1, <2>2, IdleNoKind DEF One
  <2>4. /\ UNCHANGED <<Said("MSG_INIT", t), Said("MSG_DOWNLOAD_FINISHED", t)>>
        /\ ToTellOf(t)' = ToTellOf(t) + One(q = t) /\ ToTellOf(t) \in Nat
    BY <1>2, <1>3, Telling
  <2>5. UNCHANGED <<InitsOf(t), RemovesOf(t), finishedCalls[t], urlOf[t]>>
    BY <1>1, <2>1, <2>3, <2>4 DEF InitsOf, RemovesOf
  <2>6. CASE q = t
    <3>1. Ends(t)
      BY <2>3, <2>4, <2>5, <2>6 DEF Ends, One
    <3>2. QED
      BY <3>1 DEF Moves
  <2>7. CASE q # t
    <3>1. Still(t)
      BY <2>1, <2>3, <2>4, <2>5, <2>7 DEF Still, One
    <3>2. QED
      BY <3>1 DEF Moves
  <2>8. QED
    BY <2>6, <2>7
<1>6. QED
  BY <1>4, <1>5

LEMMA FailLife ==
    ASSUME Typed, NothingPaused, NEW w \in Workers, Fail(w)
    PROVE  NothingPaused' /\ \A t \in TaskInfos : Moves(t)
<1> DEFINE q == worker[w].task
<1>1. /\ UNCHANGED <<urlOf, isPause, pool, looper, broadcasts, saved, finishedCalls>>
      /\ worker' = [worker EXCEPT ![w] = Idle]
      /\ worker[w] # Idle
  BY DEF Fail, Exit, mainOwned
<1>2. worker[w] \in Thread /\ q \in TaskInfos /\ StillOn(worker[w])
  BY <1>1, BusyThread
<1>3. NothingPaused'
  BY <1>1, WorkerUnpaused
<1>4. ASSUME NEW t \in TaskInfos PROVE Moves(t)
  <2>1. /\ Threads(Inits(t))' + One(worker[w] \in Inits(t)) = Threads(Inits(t)) + One(Idle \in Inits(t))
        /\ LoadsOf(t)' + One(worker[w] \in Loads(t)) = LoadsOf(t) + One(Idle \in Loads(t))
        /\ AtEndOf(t)' + One(worker[w] \in AtEnd(t)) = AtEndOf(t) + One(Idle \in AtEnd(t))
        /\ Threads(Inits(t)) \in Nat /\ LoadsOf(t) \in Nat /\ AtEndOf(t) \in Nat
        /\ Threads(Inits(t))' \in Nat /\ LoadsOf(t)' \in Nat /\ AtEndOf(t)' \in Nat
        /\ Cardinality(Places(broadcasts, {t}))' = Cardinality(Places(broadcasts, {t}))
        /\ Cardinality(Places(broadcasts, {t})) \in Nat
    <3>1. UNCHANGED <<pool, broadcasts>>
      BY <1>1
    <3>2. QED
      BY <1>1, <3>1, WorkerCounts
  <2>2. \A what : Said(what, t)' = Said(what, t) /\ Said(what, t) \in Nat
    BY <1>1, CountsStay, SaidNat
  <2>3. UNCHANGED <<ToTellOf(t), finishedCalls[t], RemovesOf(t), urlOf[t]>>
    BY <1>1, <2>1, <2>2 DEF ToTellOf, RemovesOf
  <2>4. CASE q = t
    <3>1. /\ worker[w] \in Inits(t) => worker[w] \notin Loads(t) /\ worker[w] \notin AtEnd(t)
          /\ worker[w] \in Loads(t) => worker[w] \notin AtEnd(t)
          /\ worker[w] \in Inits(t) \/ worker[w] \in Loads(t) \/ worker[w] \in AtEnd(t)
      BY <1>2, <2>4, LengthAssumption DEF Inits, Loads, AtEnd, StillOn, Thread
    <3>2. One(worker[w] \in Inits(t)) + One(worker[w] \in Loads(t)) + One(worker[w] \in AtEnd(t)) = 1
      BY <3>1 DEF One
    <3>3. /\ One(worker[w] \in Inits(t)) \in Nat /\ One(worker[w] \in Loads(t)) \in Nat
          /\ One(worker[w] \in AtEnd(t)) \in Nat
          /\ One(Idle \in Inits(t)) = 0 /\ One(Idle \in Loads(t)) = 0 /\ One(Idle \in AtEnd(t)) = 0
      BY IdleNoKind DEF One
    <3>4. InitsOf(t)' + LoadsOf(t)' + AtEndOf(t)' + 1 = InitsOf(t) + LoadsOf(t) + AtEndOf(t)
      BY <2>1, <2>2, <3>2, <3>3 DEF InitsOf
    <3>5. QED
      BY <2>3, <3>4 DEF Breaks, Moves
  <2>5. CASE q # t
    <3>1. worker[w] \notin Inits(t) /\ worker[w] \notin Loads(t) /\ worker[w] \notin AtEnd(t)
      BY <2>5 DEF Inits, Loads, AtEnd
    <3>2. UNCHANGED <<urlOf, pool, broadcasts, looper, finishedCalls>>
      BY <1>1
    <3>3. Still(t)
      BY <1>1, <3>1, <3>2, IdleNoKind, ThreadStill
    <3>4. QED
      BY <3>3 DEF Moves
  <2>6. QED
    BY <2>4, <2>5
<1>5. QED
  BY <1>3, <1>4

LEMMA RequestLife ==
    ASSUME Typed, NothingPaused, NEW q \in TaskInfos, NEW u0 \in Urls, Request(q, u0)
    PROVE  NothingPaused' /\ \A t \in TaskInfos : Moves(t)
<1> DEFINE th == InitThread(q)
<1>1. /\ urlOf[q] = NoUrl /\ urlOf' = [urlOf EXCEPT ![q] = u0]
      /\ UNCHANGED <<worker, looper, broadcasts, finishedCalls>>
  BY DEF Request, Download
<1>2. /\ UNCHANGED <<isPause, saved>>
      /\ pool' = pool \/ pool' = Append(pool, th)
  <2>1. ASSUME NEW i \in DOMAIN taskList, isPause[taskList[i]]
        PROVE  FALSE
    BY <2>1 DEF NothingPaused, Typed, TypeOK
  <2>2. QED
    BY <2>1 DEF Request, Download
<1>3. pool \in Seq(Thread) /\ th \in Thread /\ th.pc = "init" /\ th.task = q /\ StillOn(th)
  BY DEF Typed, TypeOK, InitThread, Thread, StillOn
<1> HIDE DEF th
<1>4. NothingPaused'
  <2>1. \A i \in DOMAIN pool' : (i \in DOMAIN pool /\ pool'[i] = pool[i]) \/ pool'[i] = th
    BY <1>2, <1>3, AppendElements
  <2>2. \A i \in DOMAIN pool' : StillOn(pool'[i])
    BY <1>3, <2>1 DEF NothingPaused
  <2>3. QED
    BY <1>1, <1>2, <2>2 DEF NothingPaused, StillOn
<1>5. ASSUME NEW t \in TaskInfos PROVE Moves(t)
  <2>1. /\ \A what : Said(what, t)' = Said(what, t) /\ Said(what, t) \in Nat
        /\ Cardinality(Places(broadcasts, {t}))' = Cardinality(Places(broadcasts, {t}))
    BY <1>1, CountsStay, SaidNat
  <2>2. UNCHANGED <<ToTellOf(t), RemovesOf(t), finishedCalls[t]>>
    BY <1>1, <2>1 DEF ToTellOf, RemovesOf
  <2>3. /\ urlOf'[q] # NoUrl
        /\ urlOf[t] # NoUrl => urlOf'[t] # NoUrl
    BY <1>1, NoUrlAssumption DEF Typed, TypeOK
  <2>4. CASE pool' = pool
    <3>1. UNCHANGED <<pool, worker>>
      BY <1>1, <2>4
    <3>2. \A S : Threads(S)' = Threads(S)
      BY <3>1, CountsStay
    <3>3. Still(t)
      BY <2>1, <2>2, <2>3, <3>2 DEF Still, InitsOf, LoadsOf, AtEndOf
    <3>4. QED
      BY <3>3 DEF Moves
  <2>5. CASE pool' = Append(pool, th)
    <3>1. \A S : Threads(S)' = Threads(S) + One(th \in S)
      BY <1>1, <1>3, <2>5, ThreadQueued
    <3>2. /\ th \in Inits(t) <=> q = t
          /\ th \notin Loads(t) /\ th \notin AtEnd(t)
      BY <1>3 DEF Inits, Loads, AtEnd
    <3>3. Threads(Inits(t)) \in Nat /\ Threads(AtEnd(t)) \in Nat /\ Threads(Loads(t)) \in Nat
      BY ThreadsNat
    <3>4. /\ Threads(Inits(t))' = Threads(Inits(t)) + One(q = t)
          /\ UNCHANGED <<LoadsOf(t), AtEndOf(t)>>
      BY <3>1, <3>2, <3>3 DEF One, LoadsOf, AtEndOf
    <3>5. CASE q = t
      <4>1. InitsOf(t)' = InitsOf(t) + 1
        BY <2>1, <3>3, <3>4, <3>5 DEF InitsOf, One
      <4>2. Begins(t)
        BY <1>1, <2>2, <2>3, <3>4, <3>5, <4>1 DEF Begins
      <4>3. QED
        BY <4>2 DEF Moves
    <3>6. CASE q # t
      <4>1. InitsOf(t)' = InitsOf(t)
        BY <2>1, <3>3, <3>4, <3>6 DEF InitsOf, One
      <4>2. Still(t)
        BY <2>2, <2>3, <3>4, <4>1 DEF Still
      <4>3. QED
        BY <4>2 DEF Moves
    <3>7. QED
      BY <3>5, <3>6
  <2>6. QED
    BY <1>2, <2>4, <2>5
<1>6. QED
  BY <1>4, <1>5

(* Nothing is there, at the start and when the process is killed. *)
LEMMA EmptyCounts ==
    pool = <<>> /\ worker = [w \in Workers |-> Idle] /\ looper = <<>> /\ broadcasts = <<>> =>
        \A t : /\ InitsOf(t) = 0 /\ LoadsOf(t) = 0 /\ AtEndOf(t) = 0
              /\ ToTellOf(t) = 0 /\ RemovesOf(t) = 0
<1> SUFFICES ASSUME pool = <<>>, worker = [w \in Workers |-> Idle], looper = <<>>,
                    broadcasts = <<>>, NEW t
             PROVE  /\ InitsOf(t) = 0 /\ LoadsOf(t) = 0 /\ AtEndOf(t) = 0
                    /\ ToTellOf(t) = 0 /\ RemovesOf(t) = 0
  OBVIOUS
<1>1. \A S : Places(pool, S) = {} /\ Places(looper, S) = {} /\ Places(broadcasts, S) = {}
  BY DEF Places
<1>2. \A S : Idle \notin S => Running(worker, S) = {}
  BY DEF Running
<1>3. \A S : Idle \notin S => Threads(S) = 0
  <2>1. Cardinality({}) = 0
    BY FS_EmptySet
  <2>2. ASSUME NEW S, Idle \notin S PROVE Threads(S) = 0
    <3>1. Places(pool, S) = {} /\ Running(worker, S) = {}
      BY <1>1, <1>2, <2>2
    <3>2. Cardinality(Places(pool, S)) = 0 /\ Cardinality(Running(worker, S)) = 0
      BY <2>1, <3>1
    <3>3. QED
      BY <3>2 DEF Threads
  <2>3. QED
    BY <2>2
<1>4. \A what : Said(what, t) = 0
  BY <1>1, FS_EmptySet DEF Said
<1>5. Cardinality(Places(broadcasts, {t})) = 0
  BY <1>1, FS_EmptySet
<1>6. QED
  BY <1>3, <1>4, <1>5, IdleNoKind DEF InitsOf, LoadsOf, AtEndOf, ToTellOf, RemovesOf

LEMMA KillLife ==
    ASSUME Typed, NothingPaused, Kill
    PROVE  NothingPaused' /\ \A t \in TaskInfos : Moves(t)
<1>1. /\ pool' = <<>> /\ worker' = [w \in Workers |-> Idle] /\ looper' = <<>> /\ broadcasts' = <<>>
      /\ isPause' = [t \in TaskInfos |-> FALSE]
      /\ UNCHANGED <<saved, finishedCalls, urlOf>>
  BY DEF Kill, ClearProcess
<1>2. NothingPaused'
  BY <1>1 DEF NothingPaused
<1>3. \A t : /\ InitsOf(t)' = 0 /\ LoadsOf(t)' = 0 /\ AtEndOf(t)' = 0
            /\ ToTellOf(t)' = 0 /\ RemovesOf(t)' = 0
  <2>1. (pool = <<>> /\ worker = [w \in Workers |-> Idle] /\ looper = <<>> /\ broadcasts = <<>> =>
           \A t : /\ InitsOf(t) = 0 /\ LoadsOf(t) = 0 /\ AtEndOf(t) = 0
                 /\ ToTellOf(t) = 0 /\ RemovesOf(t) = 0)'
    BY EmptyCounts, PTL
  <2>2. QED
    BY <1>1, <2>1
<1>4. QED
  BY <1>1, <1>2, <1>3 DEF Dies, Moves

LEMMA InitAlive == Init => NothingPaused /\ OwedInv
<1> SUFFICES ASSUME Init PROVE NothingPaused /\ OwedInv
  OBVIOUS
<1>1. NothingPaused
  BY DEF Init, NothingPaused
<1>2. \A t : /\ InitsOf(t) = 0 /\ LoadsOf(t) = 0 /\ AtEndOf(t) = 0
            /\ ToTellOf(t) = 0 /\ RemovesOf(t) = 0
  BY EmptyCounts DEF Init
<1>3. \A t \in TaskInfos : finishedCalls[t] = 0
  BY DEF Init
<1>4. QED
  BY <1>1, <1>2, <1>3 DEF OwedInv, Owed

LEMMA LifeMoves ==
    ASSUME Unpaused, SmallFile, Typed, NothingPaused, [Next]_vars
    PROVE  NothingPaused' /\ \A t \in TaskInfos : Moves(t)
<1>1. CASE HandleMessage \/ OnReceive
  BY <1>1, InitLife, DownloadingLife, FinishedLife, ReceiveLife DEF HandleMessage
<1>2. ASSUME NEW w \in Workers, WorkerStep(w)
      PROVE  NothingPaused' /\ \A t \in TaskInfos : Moves(t)
  <2>1. ~SaveProgress(w)
    <3>1. ASSUME At(w, "save") PROVE FALSE
      <4>1. StillOn(worker[w]) /\ worker[w].pc = "save"
        BY <3>1, AtBusy, BusyThread DEF At
      <4>2. QED
        BY <4>1 DEF StillOn
    <3>2. QED
      BY <3>1 DEF SaveProgress
  <2>2. QED
    BY <1>2, <2>1, TakeLife, InitDoneLife, ConnectLife, ReadLife, EndLife DEF WorkerStep
<1>3. CASE Environment
  <2>1. \A u \in Urls : ~Pause(u)
    BY DEF Unpaused, Pause
  <2>2. ~OnLowMemory
    BY DEF Unpaused, OnLowMemory
  <2>3. QED
    BY <1>3, <2>1, <2>2, RequestLife, FailLife, KillLife DEF Environment
<1>4. CASE UNCHANGED vars
  <2>1. UNCHANGED <<urlOf, isPause, pool, worker, looper, broadcasts, saved, finishedCalls>>
    BY <1>4 DEF vars
  <2>2. NothingPaused'
    BY <2>1 DEF NothingPaused, StillOn
  <2>3. ASSUME NEW t \in TaskInfos PROVE Still(t)
    <3>1. UNCHANGED <<pool, worker>>
      BY <2>1
    <3>2. \A S : Threads(S)' = Threads(S)
      BY <3>1, CountsStay
    <3>3. /\ \A what : Said(what, t)' = Said(what, t)
          /\ Cardinality(Places(broadcasts, {t}))' = Cardinality(Places(broadcasts, {t}))
      BY <2>1, CountsStay
    <3>4. QED
      BY <2>1, <3>2, <3>3 DEF Still, InitsOf, LoadsOf, AtEndOf, ToTellOf, RemovesOf
  <2>4. QED
    BY <2>2, <2>3 DEF Moves
<1>5. QED
  BY <1>1, <1>2, <1>3, <1>4 DEF Next

LEMMA AllCounted == Typed => \A t \in TaskInfos : CountsTyped(t)
<1> SUFFICES ASSUME Typed, NEW t \in TaskInfos PROVE CountsTyped(t)
  OBVIOUS
<1>1. finishedCalls[t] \in Nat
  BY DEF Typed, TypeOK
<1>2. QED
  BY <1>1, CountsNat DEF CountsTyped

(* The invariant: what is counted is typed, nothing is paused, and no         *)
(* download is owed more than its two tellings and as many removals.          *)
LifeInv == Typed /\ NothingPaused /\ OwedInv

LEMMA LifeNext ==
    ASSUME Unpaused, SmallFile, LifeInv, [Next]_vars
    PROVE  LifeInv'
<1>1. Typed' /\ NothingPaused' /\ \A t \in TaskInfos : Moves(t)
  BY TypedNext, LifeMoves DEF LifeInv
<1>2. \A t \in TaskInfos : CountsTyped(t) /\ CountsTyped(t)'
  <2>1. (Typed => \A t \in TaskInfos : CountsTyped(t))'
    BY AllCounted, PTL
  <2>2. QED
    BY <1>1, <2>1, AllCounted DEF LifeInv
<1>3. ASSUME NEW t \in TaskInfos PROVE Owed(t)'
  BY <1>1, <1>2, OwedStep DEF LifeInv, OwedInv
<1>4. QED
  BY <1>1, <1>3 DEF LifeInv, OwedInv

LEMMA LifeKept ==
    ASSUME Unpaused, SmallFile, LifeInv, LifeInv', [Next]_vars
    PROVE  [\A t \in TaskInfos :
              /\ [Life(t)!Next]_(LoadOf(t))
              /\ finishedCalls'[t] # finishedCalls[t] =>
                    finishedCalls'[t] = finishedCalls[t] + 1 /\ Life(t)!Tell]_vars
<1>1. \A t \in TaskInfos : Moves(t)
  BY LifeMoves DEF LifeInv
<1>2. \A t \in TaskInfos : CountsTyped(t) /\ CountsTyped(t)'
  <2>1. (Typed => \A t \in TaskInfos : CountsTyped(t))'
    BY AllCounted, PTL
  <2>2. QED
    BY <2>1, AllCounted DEF LifeInv
<1>3. \A t \in TaskInfos : LoadOf(t) = Phase(t) /\ LoadOf(t)' = Phase(t)'
  <2>1. (Typed /\ NothingPaused => \A t \in TaskInfos : LoadOf(t) = Phase(t))'
    BY PhaseIs, PTL
  <2>2. QED
    BY <2>1, PhaseIs DEF LifeInv
<1>4. ASSUME NEW t \in TaskInfos
      PROVE  /\ [Life(t)!Next]_(LoadOf(t))
             /\ finishedCalls'[t] # finishedCalls[t] =>
                   finishedCalls'[t] = finishedCalls[t] + 1 /\ Life(t)!Tell
  BY <1>1, <1>2, <1>3, PhaseStep DEF LifeInv, OwedInv
<1>5. QED
  BY <1>4

LEMMA InitLives == Init => \A t \in TaskInfos : Life(t)!Init
<1> SUFFICES ASSUME Init, NEW t \in TaskInfos PROVE LoadOf(t) = "none"
  BY DEF Life!Init
<1>1. Phase(t) = "none"
  <2>1. InitsOf(t) = 0 /\ LoadsOf(t) = 0 /\ AtEndOf(t) = 0 /\ ToTellOf(t) = 0 /\ RemovesOf(t) = 0
    BY EmptyCounts DEF Init
  <2>2. finishedCalls[t] = 0
    BY DEF Init
  <2>3. QED
    BY <2>1, <2>2 DEF Phase
<1>2. QED
  BY <1>1, InitTyped, InitAlive, PhaseIs

(* Without pauses every download of a file of at most 2^24 bytes lives as     *)
(* DownloadLife says, whatever fails, whatever the server answers and         *)
(* whenever the process is killed: it is told of twice at most, and once a    *)
(* failure has ended it, no more.  A larger file may be told of oftener: the  *)
(* float division of notifyProgress gives 100 for its last few bytes too.     *)
THEOREM LivesThroughout == Unpaused /\ SmallFile => (Spec => LivesAsPromised)
<1> SUFFICES ASSUME Unpaused, SmallFile PROVE Spec => LivesAsPromised
  OBVIOUS
<1>1. Init => LifeInv
  BY InitTyped, InitAlive DEF LifeInv
<1>2. LifeInv /\ [Next]_vars => LifeInv'
  BY LifeNext
<1>3. LifeInv /\ LifeInv' /\ [Next]_vars =>
        [\A t \in TaskInfos :
              /\ [Life(t)!Next]_(LoadOf(t))
              /\ finishedCalls'[t] # finishedCalls[t] =>
                    finishedCalls'[t] = finishedCalls[t] + 1 /\ Life(t)!Tell]_vars
  BY LifeKept
<1>4. QED
  BY <1>1, <1>2, <1>3, InitLives, PTL DEF Spec, LivesAsPromised

=============================================================================
