-------------------------- MODULE MediaUpdate_proofs --------------------------
(***************************************************************************)
(* What holds of the strategy update for all media, strategies and numbers *)
(* of receivers.                                                           *)
(***************************************************************************)
EXTENDS MediaUpdate, FiniteSetTheorems, TLAPS

-----------------------------------------------------------------------------
(* Types, without the bounds that UpdateTypeOK adds.                         *)
Typed ==
    /\ hazards \subseteq HazardKinds
    /\ server \subseteq Ids /\ container \subseteq Ids /\ saved \subseteq Ids
    /\ disk \subseteq Files
    /\ newMedia \in [Receivers -> SUBSET Ids]
    /\ deleteSet \in [Receivers -> SUBSET Ids]
    /\ total \in [Receivers -> Nat] /\ finished \in [Receivers -> Nat]
    /\ load \in [Receivers -> [Files -> Loads]]

LEMMA TypedInit == Init => Typed
<1> SUFFICES ASSUME Init PROVE Typed
  OBVIOUS
<1>1. hazards \subseteq HazardKinds /\ server \subseteq Ids
  BY HazardSetsAssumption, StrategiesAssumption DEF Init
<1>2. load \in [Receivers -> [Files -> Loads]]
  BY DEF Init, Loads
<1>3. QED
  BY <1>1, <1>2 DEF Init, Typed

LEMMA FilesKnown == ASSUME NEW ids \in SUBSET Ids PROVE FilesOf(ids) \subseteq Files
BY FileOfAssumption DEF FilesOf

LEMMA CountNat == ASSUME NEW ids \in SUBSET Ids PROVE IsFiniteSet(ids) /\ Cardinality(ids) \in Nat
BY FinitenessAssumption, FS_Subset, FS_CardinalityType

LEMMA TypedDie ==
    ASSUME Typed, NEW how, Die(how)
    PROVE  /\ container' \subseteq Ids
           /\ newMedia' \in [Receivers -> SUBSET Ids]
           /\ deleteSet' \in [Receivers -> SUBSET Ids]
           /\ total' \in [Receivers -> Nat] /\ finished' \in [Receivers -> Nat]
           /\ load' \in [Receivers -> [Files -> Loads]]
BY DEF Typed, Die, Loads

LEMMA AfterTelling ==
    ASSUME Typed, NEW r \in Receivers, NEW f \in Files
    PROVE  /\ AfterTold[load[r][f]] \in {"told", "again", "done"}
           /\ load[r][f] # "late" => AfterTold[load[r][f]] # "done"
<1>1. load[r][f] \in Loads
  BY DEF Typed
<1>2. QED
  BY <1>1 DEF AfterTold

LEMMA TypedLoad ==
    ASSUME Typed, NEW r \in Receivers, NEW f \in Files
    PROVE  /\ Told(r, f) \in [Receivers -> [Files -> Loads]]
           /\ Written(r, f) \subseteq Files
           /\ \A w \in Loads : [load EXCEPT ![r][f] = w] \in [Receivers -> [Files -> Loads]]
           /\ \A files, unlinked : Unlink(Told(r, f), files, unlinked)
                    \in [Receivers -> [Files -> Loads]]
<1>1. Told(r, f) \in [Receivers -> [Files -> Loads]]
  <2>1. AfterTold[load[r][f]] \in Loads
    BY AfterTelling DEF Loads, Active, Listing
  <2>2. QED
    BY <2>1 DEF Told, Typed
<1>2. \A files, unlinked : Unlink(Told(r, f), files, unlinked) \in [Receivers -> [Files -> Loads]]
  BY <1>1 DEF Unlink, Loads, Active, Listing
<1>3. \A w \in Loads : [load EXCEPT ![r][f] = w] \in [Receivers -> [Files -> Loads]]
  BY DEF Typed
<1>4. Written(r, f) \subseteq Files
  BY DEF Written, Typed
<1>5. QED
  BY <1>1, <1>2, <1>3, <1>4

LEMMA TypedTell ==
    ASSUME Typed, NEW r \in Receivers, NEW f \in Files, Tell(r, f)
    PROVE  Typed'
<1>1. UNCHANGED <<hazards, server, saved>>
  BY DEF Tell, serverVars
<1>2. finished[r] + 1 \in Nat
  BY DEF Typed
<1>3. CASE Count(r, f)
  BY <1>1, <1>2, <1>3, TypedLoad DEF Count, Typed
<1>4. CASE Apply(r, f)
  <2>1. container' \subseteq Ids
    BY <1>4 DEF Apply, Typed
  <2>2. disk' \subseteq Files /\ load' \in [Receivers -> [Files -> Loads]]
    BY <1>4, TypedLoad DEF Apply
  <2>3. finished' \in [Receivers -> Nat]
    BY <1>2, <1>4 DEF Apply, Typed
  <2>4. QED
    BY <1>1, <1>4, <2>1, <2>2, <2>3 DEF Apply, Typed
<1>5. CASE NullPointer(r, f)
  <2>1. Die("crashed") /\ disk' \subseteq Files
    BY <1>5, TypedLoad DEF NullPointer
  <2>2. QED
    BY <1>1, <2>1, TypedDie DEF Typed
<1>6. QED
  BY <1>3, <1>4, <1>5 DEF Tell

LEMMA TypedStep == ASSUME Typed, [Next]_vars PROVE Typed'
<1>1. ASSUME NEW s \in Strategies, Publish(s) PROVE Typed'
  BY <1>1, StrategiesAssumption DEF Publish, receiverVars, Typed
<1>2. ASSUME NEW r \in Receivers, Poll(r) PROVE Typed'
  BY <1>2 DEF Poll, serverVars, Typed
<1>3. ASSUME NEW r \in Receivers, Process(r) PROVE Typed'
  <2>1. Adds(r) \in SUBSET Ids /\ Deletes(r) \in SUBSET Ids /\ newMedia[r] \in SUBSET Ids
    BY DEF Adds, Deletes, Typed
  <2>2. Cardinality(Adds(r)) \in Nat
    BY <2>1, CountNat
  <2>3. load' \in [Receivers -> [Files -> Loads]]
    BY <1>3 DEF Process, StartDownloads, Loads, Active, Typed
  <2>4. total' \in [Receivers -> Nat] /\ finished' \in [Receivers -> Nat]
    BY <1>3, <2>2 DEF Process, Typed
  <2>5. deleteSet' \in [Receivers -> SUBSET Ids]
    BY <1>3, <2>1 DEF Process, Typed
  <2>6. QED
    BY <1>3, <2>1, <2>3, <2>4, <2>5 DEF Process, serverVars, Typed
<1>4. ASSUME NEW r \in Receivers, FetchFails(r) PROVE Typed'
  <2>1. load' \in [Receivers -> [Files -> Loads]]
    BY <1>4 DEF FetchFails, Loads, Typed
  <2>2. QED
    BY <1>4, <2>1 DEF FetchFails, serverVars, Typed
<1>5. ASSUME NEW r \in Receivers, NEW f \in Files, List(r, f) \/ Unlist(r, f) \/ Fail(r, f)
      PROVE  Typed'
  <2>1. load' \in [Receivers -> [Files -> Loads]]
    <3>1. \E w \in Loads : load' = [load EXCEPT ![r][f] = w]
      BY <1>5 DEF List, Unlist, Fail, Loads, Active, Listing
    <3>2. QED
      BY <3>1, TypedLoad
  <2>2. QED
    BY <1>5, <2>1 DEF List, Unlist, Fail, serverVars, receiverVars, Typed
<1>6. CASE Kill
  <2>1. Die("killed") /\ UNCHANGED <<hazards, serverVars, saved, disk>>
    BY <1>6 DEF Kill
  <2>2. QED
    BY <2>1, TypedDie DEF serverVars, Typed
<1>7. CASE Restart \/ UNCHANGED vars
  BY <1>7 DEF Restart, vars, serverVars, receiverVars, Typed
<1>8. QED
  BY <1>1, <1>2, <1>3, <1>4, <1>5, <1>6, <1>7, TypedTell DEF Next, Download

-----------------------------------------------------------------------------
(* What an update deletes is not in its strategy, and as long as no file     *)
(* changes its id every file has one.                                        *)
Loading(r) == \E f \in Files : load[r][f] \in Active

DeleteInv ==
    /\ \A r \in Receivers :
          Loading(r) => r \notin fetching /\ deleteSet[r] \cap newMedia[r] = {}
    /\ "renamed" \notin hazards =>
          /\ (server \cup container \cup saved) \cap Renamed = {}
          /\ \A r \in Receivers :
                newMedia[r] \cap Renamed = {} /\ deleteSet[r] \cap Renamed = {}

LEMMA DeleteInvInit == Init => DeleteInv
<1> SUFFICES ASSUME Init PROVE DeleteInv
  OBVIOUS
<1>1. \A r \in Receivers : ~Loading(r)
  BY DEF Init, Loading, Active, Listing
<1>2. "renamed" \notin hazards => server \cap Renamed = {}
  BY DEF Init, Publishable
<1>3. QED
  BY <1>1, <1>2 DEF Init, DeleteInv

(* No download becomes active but by Process. *)
LEMMA ActiveBefore ==
    ASSUME Typed, NEW r \in Receivers, NEW f \in Files, Download(r, f) \/ Fail(r, f),
           NEW q \in Receivers, Loading(q)'
    PROVE  Loading(q)
<1>1. PICK g \in Files : load'[q][g] \in Active
  BY DEF Loading
<1>2. load[q][g] \in Active
  <2>1. ASSUME load' = [load EXCEPT ![r][f] = load'[r][f]], load[r][f] \in Active
        PROVE  load[q][g] \in Active
    BY <1>1, <2>1 DEF Typed
  <2>2. CASE List(r, f) \/ Unlist(r, f) \/ Fail(r, f)
    <3>1. load[r][f] \in Active
      BY <2>2 DEF List, Unlist, Fail, Active, Listing
    <3>2. load' = [load EXCEPT ![r][f] = load'[r][f]]
      BY <2>2 DEF List, Unlist, Fail, Typed
    <3>3. QED
      BY <2>1, <3>1, <3>2
  <2>3. CASE Tell(r, f)
    <3>1. load[r][f] \in Active
      BY <2>3 DEF Tell, Active, Listing
    <3>2. Told(r, f)[q][g] \in Active => load[q][g] \in Active
      BY <3>1 DEF Told, Typed
    <3>3. CASE Count(r, f)
      BY <1>1, <3>2, <3>3 DEF Count
    <3>4. CASE Apply(r, f)
      <4>1. load'[q][g] = Told(r, f)[q][g] \/ Told(r, f)[q][g] = "running"
        BY <3>4 DEF Apply, Unlink
      <4>2. QED
        BY <1>1, <3>2, <4>1 DEF Active, Listing
    <3>5. CASE NullPointer(r, f)
      BY <1>1, <3>5 DEF NullPointer, Die, Active, Listing
    <3>6. QED
      BY <2>3, <3>3, <3>4, <3>5 DEF Tell
  <2>4. QED
    BY <2>2, <2>3 DEF Download
<1>3. QED
  BY <1>2 DEF Loading

LEMMA DeleteInvDie ==
    ASSUME Typed, DeleteInv, NEW how, Die(how), UNCHANGED <<hazards, server, saved>>
    PROVE  DeleteInv'
BY DEF DeleteInv, Die, Loading, Active, Listing

LEMMA DeleteInvDownload ==
    ASSUME Typed, DeleteInv, NEW r \in Receivers, NEW f \in Files, Download(r, f) \/ Fail(r, f)
    PROVE  DeleteInv'
<1>1. CASE UNCHANGED <<hazards, server, saved, fetching, newMedia, deleteSet>>
           /\ (container' = container \/ container' = newMedia[r])
  <2>1. \A q \in Receivers : Loading(q)' => Loading(q)
    BY ActiveBefore
  <2>2. QED
    BY <1>1, <2>1 DEF DeleteInv
<1>2. CASE List(r, f) \/ Unlist(r, f) \/ Fail(r, f)
  BY <1>1, <1>2 DEF List, Unlist, Fail, serverVars, receiverVars
<1>3. CASE Tell(r, f)
  <2>1. CASE Count(r, f) \/ Apply(r, f)
    BY <1>1, <1>3, <2>1 DEF Tell, Count, Apply, serverVars
  <2>2. CASE NullPointer(r, f)
    BY <1>3, <2>2, DeleteInvDie DEF Tell, NullPointer, serverVars
  <2>3. QED
    BY <1>3, <2>1, <2>2 DEF Tell
<1>4. QED
  BY <1>2, <1>3 DEF Download

LEMMA DeleteInvStep == ASSUME Typed, DeleteInv, [Next]_vars PROVE DeleteInv'
<1>1. ASSUME NEW s \in Strategies, Publish(s) PROVE DeleteInv'
  BY <1>1 DEF Publish, Publishable, receiverVars, DeleteInv, Loading
<1>2. ASSUME NEW r \in Receivers, Poll(r) PROVE DeleteInv'
  <2>1. ~Loading(r) /\ (\A q \in Receivers : Loading(q)' <=> Loading(q))
    BY <1>2 DEF Poll, UnderWay, Loading, Active
  <2>2. \A q \in Receivers : q # r => newMedia'[q] = newMedia[q]
    BY <1>2 DEF Poll, Typed
  <2>3. newMedia'[r] = server
    BY <1>2 DEF Poll, Typed
  <2>4. QED
    BY <1>2, <2>1, <2>2, <2>3 DEF Poll, serverVars, DeleteInv
<1>3. ASSUME NEW r \in Receivers, Process(r) PROVE DeleteInv'
  <2>1. \A q \in Receivers : q # r => (Loading(q)' <=> Loading(q)) /\ deleteSet'[q] = deleteSet[q]
    BY <1>3 DEF Process, StartDownloads, Loading, Typed
  <2>2. deleteSet'[r] = container \ newMedia[r]
    BY <1>3 DEF Process, Deletes, Typed
  <2>3. QED
    BY <1>3, <2>1, <2>2 DEF Process, serverVars, DeleteInv
<1>4. ASSUME NEW r \in Receivers, FetchFails(r) PROVE DeleteInv'
  <2>1. \A q \in Receivers :
          q # r => (Loading(q)' <=> Loading(q)) /\ deleteSet'[q] = deleteSet[q]
                   /\ newMedia'[q] = newMedia[q]
    BY <1>4 DEF FetchFails, Loading, Typed
  <2>2. ~Loading(r)'
    BY <1>4 DEF FetchFails, Loading, Active, Listing, Typed
  <2>3. newMedia'[r] = {} /\ deleteSet'[r] = {}
    BY <1>4 DEF FetchFails, Typed
  <2>4. QED
    BY <1>4, <2>1, <2>2, <2>3 DEF FetchFails, serverVars, DeleteInv
<1>5. CASE Kill
  BY <1>5, DeleteInvDie DEF Kill, serverVars
<1>6. CASE Restart \/ UNCHANGED vars
  BY <1>6 DEF Restart, vars, serverVars, receiverVars, DeleteInv, Loading
<1>7. QED
  BY <1>1, <1>2, <1>3, <1>4, <1>5, <1>6, DeleteInvDownload DEF Next

(* An update that is applied takes no file of its own strategy. *)
LEMMA ApplyKeepsShown ==
    ASSUME Typed, DeleteInv, NEW r \in Receivers, NEW f \in Files, Tell(r, f), Apply(r, f),
           "renamed" \notin hazards
    PROVE  FilesOf(container') \cap (disk \ disk') = {}
<1>1. Loading(r)
  BY DEF Tell, Loading, Active, Listing
<1>2. deleteSet[r] \cap newMedia[r] = {} /\ container' = newMedia[r]
  BY <1>1 DEF DeleteInv, Apply
<1>3. newMedia[r] \subseteq Ids \ Renamed /\ deleteSet[r] \subseteq Ids \ Renamed
  BY DEF DeleteInv, Typed
<1>4. FilesOf(newMedia[r]) \cap FilesOf(deleteSet[r]) = {}
  BY <1>2, <1>3, FileOfAssumption DEF FilesOf
<1>5. disk \ disk' \subseteq FilesOf(deleteSet[r])
  BY DEF Apply, Written
<1>6. QED
  BY <1>2, <1>4, <1>5

LEMMA ShownStays ==
    ASSUME Typed, DeleteInv, Next, process' = "up", "renamed" \notin hazards
    PROVE  FilesOf(container') \cap (disk \ disk') = {}
<1>1. CASE disk \subseteq disk'
  BY <1>1
<1>2. ASSUME NEW r \in Receivers, NEW f \in Files, Tell(r, f)
      PROVE  FilesOf(container') \cap (disk \ disk') = {}
  <2>1. CASE Count(r, f)
    BY <1>1, <2>1 DEF Count, Written
  <2>2. CASE Apply(r, f)
    BY <1>2, <2>2, ApplyKeepsShown
  <2>3. ~NullPointer(r, f)
    BY DEF NullPointer, Die
  <2>4. QED
    BY <1>2, <2>1, <2>2, <2>3 DEF Tell
<1>3. CASE disk' = disk
  BY <1>3
<1>4. ASSUME NEW r \in Receivers, NEW f \in Files, List(r, f) \/ Unlist(r, f) \/ Fail(r, f)
      PROVE  disk' = disk
  BY <1>4 DEF List, Unlist, Fail
<1>5. ASSUME NEW r \in Receivers, Poll(r) \/ Process(r) \/ FetchFails(r) PROVE disk' = disk
  BY <1>5 DEF Poll, Process, FetchFails
<1>6. ASSUME NEW s \in Strategies, Publish(s) PROVE disk' = disk
  BY <1>6 DEF Publish
<1>7. Kill \/ Restart => disk' = disk
  BY DEF Kill, Restart
<1>8. QED
  BY <1>2, <1>3, <1>4, <1>5, <1>6, <1>7 DEF Next, Download

(* However many updates overlap, what one of them shows it has not deleted.  *)
THEOREM ShownFilesAreKept == Spec => NeverDeletesShown
<1>1. Init => Typed /\ DeleteInv
  BY TypedInit, DeleteInvInit
<1>2. Typed /\ DeleteInv /\ [Next]_vars => (Typed /\ DeleteInv)'
  BY TypedStep, DeleteInvStep
<1>3. Typed /\ DeleteInv /\ [Next]_vars =>
        [process' = "up" /\ "renamed" \notin hazards =>
            FilesOf(container') \cap (disk \ disk') = {}]_vars
  BY ShownStays
<1>4. QED
  BY <1>1, <1>2, <1>3, PTL DEF Spec, NeverDeletesShown

-----------------------------------------------------------------------------
(* What is played is there.  When the server keeps to a strategy until its   *)
(* update has ended, all receivers have the same strategy, and what a        *)
(* receiver has counted are different files, all of them new in it.          *)
ToldSet(r) == {f \in Files : load[r][f] \in {"told", "again", "done"}}

Calm == hazards \cap {"overlap", "twice", "kill", "renamed"} = {}

(* A receiver that may be the first to apply the strategy. *)
First(r) ==
    /\ total[r] = Cardinality(server \ container)
    /\ deleteSet[r] = container \ server
    /\ \A f \in Files : load[r][f] # "none" => f \in FilesOf(server \ container)

Sound(r) ==
    /\ saved = server
    /\ \A f \in Files : load[r][f] \notin {"unlinked", "again", "late"}
    /\ \A f \in Files : load[r][f] # "none" => f \in FilesOf(server)
    /\ ToldSet(r) \subseteq disk
    /\ finished[r] = Cardinality(ToldSet(r))
    /\ container = server \/ First(r)

WholeInv ==
    Calm =>
        /\ FilesOf(container) \subseteq disk
        /\ \A r \in Receivers : r \in fetching \/ Loading(r) => newMedia[r] = server
        /\ \A r \in Receivers : Loading(r) => Sound(r)

LEMMA WholeInvInit == Init => WholeInv
BY DEF Init, WholeInv, FilesOf, Loading, Active, Listing

LEMMA FilesCount ==
    ASSUME NEW ids \in SUBSET Ids
    PROVE  /\ IsFiniteSet(FilesOf(ids))
           /\ Cardinality(FilesOf(ids)) \in Nat /\ Cardinality(ids) \in Nat
           /\ Cardinality(FilesOf(ids)) <= Cardinality(ids)
<1>1. IsFiniteSet(ids) /\ Cardinality(ids) \in Nat
  BY CountNat
<1>2. DEFINE name == [i \in ids |-> FileOf[i]]
<1>3. name \in Surjection(ids, FilesOf(ids))
  BY DEF FilesOf, Surjection
<1>4. IsFiniteSet(FilesOf(ids)) /\ Cardinality(FilesOf(ids)) <= Cardinality(ids)
  BY <1>1, <1>3, FS_Surjection
<1>5. QED
  BY <1>1, <1>4, FS_CardinalityType

(* A step that changes one download only, and does not tell it. *)
LEMMA SoundLoad ==
    ASSUME Typed, NEW r \in Receivers, NEW f \in Files, NEW w \in {"running", "done", "none"},
           load' = [load EXCEPT ![r][f] = w], w = "done" <=> load[r][f] \in {"told", "again"},
           load[r][f] \in Active,
           UNCHANGED <<server, saved, container, disk, finished, total, deleteSet>>,
           NEW q \in Receivers, Sound(q)
    PROVE  Sound(q)'
<1>1. \A g \in Files : load'[q][g] = load[q][g] \/ (q = r /\ g = f /\ load'[q][g] = w)
  BY DEF Typed
<1>2. ToldSet(q)' = ToldSet(q)
  <2>1. CASE q = r
    <3>1. load'[r][f] = w /\ \A g \in Files : g # f => load'[r][g] = load[r][g]
      BY DEF Typed
    <3>2. load[r][f] \in {"told", "again", "done"} <=> w \in {"told", "again", "done"}
      BY DEF Active, Listing
    <3>3. QED
      BY <2>1, <3>1, <3>2 DEF ToldSet
  <2>2. CASE q # r
    BY <2>2, <1>1 DEF ToldSet
  <2>3. QED
    BY <2>1, <2>2
<1>3. load[r][f] # "none"
  BY DEF Active, Listing
<1>4. \A g \in Files : load'[q][g] # "none" => load[q][g] # "none"
  BY <1>1, <1>3
<1>5. \A g \in Files : load'[q][g] \notin {"unlinked", "again", "late"}
  BY <1>1 DEF Sound
<1>6. First(q) => First(q)'
  BY <1>4 DEF First
<1>7. QED
  BY <1>2, <1>4, <1>5, <1>6 DEF Sound

(* A step that leaves the downloads of a receiver alone. *)
LEMMA SoundStays ==
    ASSUME NEW q \in Receivers, Sound(q), load'[q] = load[q], total'[q] = total[q],
           finished'[q] = finished[q], deleteSet'[q] = deleteSet[q],
           UNCHANGED <<server, container, disk>>, saved' = server
    PROVE  Sound(q)'
BY DEF Sound, First, ToldSet

(* A download that is told is counted, and counted once. *)
LEMMA SoundTold ==
    ASSUME Typed, Calm, NEW r \in Receivers, NEW f \in Files, Tell(r, f), Sound(r)
    PROVE  /\ load[r][f] = "running" /\ Written(r, f) = disk \cup {f}
           /\ f \in FilesOf(server) /\ f \notin ToldSet(r)
           /\ IsFiniteSet(ToldSet(r)) /\ finished[r] \in Nat
           /\ Cardinality(ToldSet(r) \cup {f}) = finished[r] + 1
           /\ ToldSet(r) \cup {f} \subseteq disk \cup {f}
           /\ First(r) => ToldSet(r) \cup {f} \subseteq FilesOf(server \ container)
<1>1. load[r][f] = "running"
  BY DEF Tell, Sound, Calm
<1>2. f \in FilesOf(server) /\ f \notin ToldSet(r)
  BY <1>1 DEF Sound, ToldSet
<1>3. ToldSet(r) \subseteq FilesOf(server)
  BY DEF Sound, ToldSet
<1>4. IsFiniteSet(ToldSet(r))
  BY <1>3, FilesCount, FS_Subset DEF Typed
<1>5. Cardinality(ToldSet(r) \cup {f}) = finished[r] + 1
  BY <1>2, <1>4, FS_AddElement DEF Sound
<1>6. First(r) => ToldSet(r) \cup {f} \subseteq FilesOf(server \ container)
  BY <1>1 DEF First, ToldSet
<1>7. QED
  BY <1>1, <1>2, <1>4, <1>5, <1>6 DEF Sound, Written, Typed

(* What Count and Apply leave behind of a sound receiver. *)
LEMMA SoundAfterTold ==
    ASSUME Typed, Calm, NEW r \in Receivers, NEW f \in Files, Tell(r, f), Sound(r),
           load' = Told(r, f), finished' = [finished EXCEPT ![r] = @ + 1],
           UNCHANGED <<server, saved, total, deleteSet>>,
           NEW q \in Receivers, Sound(q), FilesOf(server) \subseteq disk' \/ disk' = disk \cup {f},
           container' = server \/ container' = container
    PROVE  Sound(q)'
<1>1. /\ load'[r][f] = "told"
      /\ \A g \in Files : g # f => load'[r][g] = load[r][g]
      /\ q # r => load'[q] = load[q] /\ finished'[q] = finished[q]
      /\ finished'[r] = finished[r] + 1
  <2>1. load[r][f] = "running" /\ finished[r] \in Nat
    BY SoundTold
  <2>2. load' = [load EXCEPT ![r][f] = "told"]
    <3>1. AfterTold[load[r][f]] = "told"
      BY <2>1 DEF AfterTold, Loads, Active, Listing
    <3>2. QED
      BY <3>1 DEF Told
  <2>3. QED
    BY <2>1, <2>2 DEF Typed
<1>2. CASE q = r
  <2>1. ToldSet(r)' = ToldSet(r) \cup {f}
    BY <1>1 DEF ToldSet
  <2>2. ToldSet(r)' \subseteq disk'
    <3>1. ToldSet(r)' \subseteq FilesOf(server)
      BY <2>1, SoundTold DEF Sound, ToldSet
    <3>2. QED
      BY <2>1, <3>1, SoundTold
  <2>3. finished'[r] = Cardinality(ToldSet(r)')
    BY <1>1, <2>1, SoundTold
  <2>4. \A g \in Files : load'[r][g] \notin {"unlinked", "again", "late"}
    BY <1>1 DEF Sound
  <2>5. \A g \in Files : load'[r][g] # "none" => load[r][g] # "none"
    BY <1>1, SoundTold
  <2>6. server' = server /\ saved' = saved /\ total' = total /\ deleteSet' = deleteSet
    OBVIOUS
  <2>7. container' = container /\ First(r) => First(r)'
    BY <2>5, <2>6 DEF First
  <2>8. container' = server' \/ First(r)'
    BY <2>6, <2>7 DEF Sound
  <2>9. saved' = server' /\ \A g \in Files : load'[r][g] # "none" => g \in FilesOf(server')
    BY <2>5, <2>6 DEF Sound
  <2>10. QED
    BY <1>2, <2>2, <2>3, <2>4, <2>8, <2>9 DEF Sound
<1>3. CASE q # r
  <2>1. ToldSet(q)' = ToldSet(q)
    BY <1>1, <1>3 DEF ToldSet
  <2>2. ToldSet(q)' \subseteq disk'
    BY <2>1 DEF Sound, ToldSet
  <2>3. container' = server \/ First(q)'
    BY <1>1, <1>3 DEF Sound, First
  <2>4. QED
    BY <1>1, <1>3, <2>1, <2>2, <2>3 DEF Sound
<1>4. QED
  BY <1>2, <1>3

(* When the count is reached every file of the strategy has come. *)
LEMMA AllHaveCome ==
    ASSUME Typed, Calm, FilesOf(container) \subseteq disk,
           NEW r \in Receivers, NEW f \in Files, Tell(r, f), Sound(r),
           Enough(r, finished[r] + 1)
    PROVE  FilesOf(server) \subseteq disk \cup {f}
<1>1. CASE container = server
  BY <1>1
<1>2. CASE First(r)
  <2>1. DEFINE new == server \ container
  <2>2. DEFINE told == ToldSet(r) \cup {f}
  <2>3. /\ IsFiniteSet(FilesOf(new)) /\ Cardinality(FilesOf(new)) \in Nat
        /\ Cardinality(FilesOf(new)) <= Cardinality(new) /\ Cardinality(new) \in Nat
    BY FilesCount DEF Typed
  <2>4. told \subseteq FilesOf(new) /\ told \subseteq disk \cup {f}
    BY <1>2, SoundTold
  <2>5. Cardinality(told) = finished[r] + 1 /\ finished[r] \in Nat
    BY SoundTold
  <2>6. Cardinality(told) <= Cardinality(FilesOf(new))
    BY <2>3, <2>4, FS_Subset
  <2>7. Cardinality(told) >= Cardinality(new)
    BY <1>2, <2>5 DEF First, Enough
  <2>8. Cardinality(FilesOf(new)) = Cardinality(told)
    BY <2>3, <2>5, <2>6, <2>7
  <2>9. FilesOf(new) = told
    BY <2>3, <2>4, <2>8, FS_Subset
  <2>10. FilesOf(server) \subseteq FilesOf(new) \cup FilesOf(container)
    BY DEF FilesOf
  <2>11. QED
    BY <2>4, <2>9, <2>10
<1>3. QED
  BY <1>1, <1>2 DEF Sound

LEMMA WholeInvTell ==
    ASSUME Typed, DeleteInv, WholeInv, Calm, NEW r \in Receivers, NEW f \in Files, Tell(r, f)
    PROVE  WholeInv'
<1>1. Loading(r)
  BY DEF Tell, Loading, Active, Listing
<1>2. Sound(r) /\ newMedia[r] = server /\ FilesOf(container) \subseteq disk
  BY <1>1 DEF WholeInv
<1>3. UNCHANGED <<hazards, server, changes, saved>>
  BY DEF Tell, serverVars
<1>4. \A q \in Receivers : Loading(q)' => Loading(q)
  BY ActiveBefore DEF Download
<1>5. \A q \in Receivers : Loading(q)' => Sound(q)
  BY <1>4 DEF WholeInv
<1>6. Written(r, f) = disk \cup {f}
  BY <1>2, SoundTold
<1>7. deleteSet[r] \cap server = {}
  BY <1>1, <1>2 DEF DeleteInv
<1>8. CASE Count(r, f)
  <2>1. /\ disk' = disk \cup {f} /\ load' = Told(r, f)
        /\ finished' = [finished EXCEPT ![r] = @ + 1]
        /\ UNCHANGED <<container, fetching, newMedia, total, deleteSet>>
    BY <1>6, <1>8 DEF Count
  <2>2. \A q \in Receivers : Loading(q)' => Sound(q)'
    BY <1>2, <1>3, <1>5, <2>1, SoundAfterTold
  <2>3. QED
    BY <1>2, <1>3, <1>4, <2>1, <2>2 DEF WholeInv
<1>9. CASE Apply(r, f)
  <2>1. FilesOf(server) \subseteq disk \cup {f}
    BY <1>2, <1>9, AllHaveCome DEF Apply
  <2>2. FilesOf(server) \cap FilesOf(deleteSet[r]) = {}
    <3>1. "renamed" \notin hazards
      BY DEF Calm
    <3>2. server \subseteq Ids \ Renamed /\ deleteSet[r] \subseteq Ids \ Renamed
      BY <3>1 DEF DeleteInv, Typed
    <3>3. QED
      BY <1>7, <3>2, FileOfAssumption DEF FilesOf
  <2>3. disk' = (disk \cup {f}) \ FilesOf(deleteSet[r])
    BY <1>6, <1>9 DEF Apply
  <2>4. FilesOf(server) \subseteq disk'
    BY <2>1, <2>2, <2>3
  <2>5. load' = Told(r, f)
    <3>1. PICK unlinked \in BOOLEAN :
            load' = Unlink(Told(r, f), FilesOf(deleteSet[r]), unlinked)
      BY <1>9 DEF Apply
    <3>2. ASSUME NEW q \in Receivers, NEW g \in Files, g \in FilesOf(deleteSet[r]),
                 Told(r, f)[q][g] = "running"
          PROVE  FALSE
      <4>1. load[q][g] = "running"
        <5>1. AfterTold[load[r][f]] \in {"told", "again", "done"}
          BY AfterTelling
        <5>2. QED
          BY <3>2, <5>1 DEF Told, Typed
      <4>2. Sound(q)
        BY <4>1 DEF WholeInv, Loading, Active, Listing
      <4>3. g \in FilesOf(server)
        BY <4>1, <4>2 DEF Sound
      <4>4. QED
        BY <2>2, <3>2, <4>3
    <3>3. Told(r, f) \in [Receivers -> [Files -> Loads]]
      BY TypedLoad
    <3>4. QED
      BY <3>1, <3>2, <3>3 DEF Unlink
  <2>6. /\ finished' = [finished EXCEPT ![r] = @ + 1] /\ container' = server
        /\ UNCHANGED <<fetching, newMedia, total, deleteSet>>
    BY <1>2, <1>9 DEF Apply
  <2>7. \A q \in Receivers : Loading(q)' => Sound(q)'
    BY <1>2, <1>3, <1>5, <2>4, <2>5, <2>6, SoundAfterTold
  <2>8. QED
    BY <1>3, <1>4, <2>4, <2>6, <2>7 DEF WholeInv
<1>10. CASE NullPointer(r, f)
  <2>1. container = server
    BY <1>2, <1>10 DEF NullPointer, Sound, First
  <2>2. container' = server /\ disk \subseteq disk'
    <3>1. container' = saved
      BY <1>10 DEF NullPointer, Die
    <3>2. \E gone \in SUBSET {} : disk' = (disk \cup {f}) \ FilesOf(gone)
      BY <1>6, <1>7, <1>10, <2>1 DEF NullPointer
    <3>3. disk' = disk \cup {f}
      BY <3>2 DEF FilesOf
    <3>4. QED
      BY <1>2, <3>1, <3>3 DEF Sound
  <2>3. \A q \in Receivers : ~Loading(q)' /\ q \notin fetching'
    BY <1>10 DEF NullPointer, Die, Loading, Active, Listing
  <2>4. QED
    BY <1>2, <2>1, <2>2, <2>3 DEF WholeInv
<1>11. QED
  BY <1>8, <1>9, <1>10 DEF Tell

LEMMA WholeInvProcess ==
    ASSUME Typed, WholeInv, Calm, NEW r \in Receivers, Process(r)
    PROVE  WholeInv'
<1>1. newMedia[r] = server /\ FilesOf(container) \subseteq disk
  BY DEF Process, WholeInv
<1>2. /\ UNCHANGED <<hazards, server, container, disk, newMedia>>
      /\ saved' = server /\ fetching' = fetching \ {r}
  BY <1>1 DEF Process, serverVars
<1>3. ASSUME NEW q \in Receivers, q # r
      PROVE  /\ load'[q] = load[q] /\ total'[q] = total[q]
             /\ finished'[q] = finished[q] /\ deleteSet'[q] = deleteSet[q]
  BY <1>3 DEF Process, StartDownloads, Typed
<1>4. ASSUME NEW q \in Receivers, q # r
      PROVE  Loading(q)' => Loading(q) /\ Sound(q)'
  <2>1. Loading(q)' => Loading(q)
    BY <1>3, <1>4 DEF Loading
  <2>2. Sound(q) => Sound(q)'
    BY <1>2, <1>3, <1>4, SoundStays
  <2>3. QED
    BY <2>1, <2>2 DEF WholeInv
<1>5. Sound(r)'
  <2>1. /\ \A g \in Files : load'[r][g] \in {"none", "queued"}
        /\ \A g \in Files : load'[r][g] # "none" => g \in FilesOf(server \ container)
    BY <1>1 DEF Process, StartDownloads, Adds, Typed
  <2>2. ToldSet(r)' = {} /\ finished'[r] = 0
    BY <2>1 DEF ToldSet, Process, Typed
  <2>3. total'[r] = Cardinality(server \ container) /\ deleteSet'[r] = container \ server
    BY <1>1 DEF Process, Adds, Deletes, Typed
  <2>4. FilesOf(server \ container) \subseteq FilesOf(server)
    BY DEF FilesOf
  <2>5. First(r)'
    BY <1>2, <2>1, <2>3 DEF First
  <2>6. finished'[r] = Cardinality(ToldSet(r)')
    BY <2>2, FS_EmptySet
  <2>7. QED
    BY <1>2, <2>1, <2>2, <2>4, <2>5, <2>6 DEF Sound
<1>6. QED
  BY <1>1, <1>2, <1>4, <1>5 DEF WholeInv

LEMMA WholeInvStep == ASSUME Typed, DeleteInv, WholeInv, [Next]_vars PROVE WholeInv'
<1>1. hazards' = hazards
  BY DEF Next, vars, Publish, Poll, Process, FetchFails, Download, List, Tell, Unlist, Fail,
         Kill, Restart
<1>2. CASE ~Calm
  BY <1>1, <1>2 DEF WholeInv, Calm
<1>3. CASE Calm
  <2> USE <1>3
  <2>1. ASSUME NEW s \in Strategies, Publish(s) PROVE WholeInv'
    <3>1. \A r \in Receivers : r \notin fetching /\ ~Loading(r)
      BY <2>1 DEF Publish, Calm, Quiet, UnderWay, Loading, Active
    <3>2. QED
      BY <2>1, <3>1 DEF Publish, receiverVars, WholeInv, Loading
  <2>2. ASSUME NEW r \in Receivers, Poll(r) PROVE WholeInv'
    <3>1. /\ UNCHANGED <<server, container, saved, disk, total, finished, deleteSet, load>>
          /\ fetching' = fetching \cup {r}
          /\ newMedia' = [newMedia EXCEPT ![r] = server]
      BY <2>2 DEF Poll, serverVars
    <3>2. \A q \in Receivers : Loading(q)' => Loading(q) /\ Sound(q)'
      BY <3>1, SoundStays DEF WholeInv, Loading, Sound
    <3>3. QED
      BY <3>1, <3>2 DEF WholeInv, Typed
  <2>3. ASSUME NEW r \in Receivers, FetchFails(r) PROVE WholeInv'
    <3>1. UNCHANGED <<server, container, saved, disk>> /\ fetching' = fetching \ {r}
      BY <2>3 DEF FetchFails, serverVars
    <3>2. ~Loading(r)'
      BY <2>3 DEF FetchFails, Loading, Active, Listing, Typed
    <3>3. ASSUME NEW q \in Receivers, q # r
          PROVE  /\ load'[q] = load[q] /\ total'[q] = total[q] /\ newMedia'[q] = newMedia[q]
                 /\ finished'[q] = finished[q] /\ deleteSet'[q] = deleteSet[q]
      BY <2>3, <3>3 DEF FetchFails, Typed
    <3>4. ASSUME NEW q \in Receivers, Loading(q)'
          PROVE  q # r /\ Loading(q) /\ Sound(q)'
      <4>1. q # r
        BY <3>2, <3>4
      <4>2. Loading(q)
        BY <3>3, <3>4, <4>1 DEF Loading
      <4>3. Sound(q)
        BY <4>2 DEF WholeInv
      <4>4. QED
        BY <3>1, <3>3, <4>1, <4>2, <4>3, SoundStays DEF Sound
    <3>5. QED
      BY <3>1, <3>3, <3>4 DEF WholeInv
  <2>4. ASSUME NEW r \in Receivers, NEW f \in Files, List(r, f) \/ Unlist(r, f) \/ Fail(r, f)
        PROVE  WholeInv'
    <3>1. UNCHANGED <<server, saved, container, disk, fetching, newMedia, finished, total,
                      deleteSet>>
      BY <2>4 DEF List, Unlist, Fail, serverVars, receiverVars
    <3>2. PICK w \in {"running", "done", "none"} :
            load' = [load EXCEPT ![r][f] = w] /\ (w = "done" <=> load[r][f] \in {"told", "again"})
      BY <2>4 DEF List, Unlist, Fail, Calm
    <3>3. load[r][f] \in Active
      BY <2>4 DEF List, Unlist, Fail, Active, Listing
    <3>4. \A q \in Receivers : Loading(q)' => Loading(q)
      BY <2>4, ActiveBefore DEF Download
    <3>5. \A q \in Receivers : Loading(q)' => Sound(q)'
      <4> SUFFICES ASSUME NEW q \in Receivers, Loading(q)' PROVE Sound(q)'
        OBVIOUS
      <4>1. Sound(q)
        BY <3>4 DEF WholeInv
      <4>2. QED
        BY <3>1, <3>2, <3>3, <4>1, SoundLoad
    <3>6. QED
      BY <3>1, <3>4, <3>5 DEF WholeInv
  <2>5. ~Kill
    BY DEF Kill, Calm
  <2>6. CASE Restart \/ UNCHANGED vars
    <3>1. UNCHANGED <<server, container, saved, disk, fetching, newMedia, total, finished,
                      deleteSet, load>>
      BY <2>6 DEF Restart, vars, serverVars, receiverVars
    <3>2. \A q \in Receivers : Loading(q)' => Loading(q) /\ Sound(q)'
      BY <3>1, SoundStays DEF WholeInv, Loading, Sound
    <3>3. QED
      BY <3>1, <3>2 DEF WholeInv
  <2>7. QED
    BY <2>1, <2>2, <2>3, <2>4, <2>5, <2>6, WholeInvTell, WholeInvProcess DEF Next, Download
<1>4. QED
  BY <1>2, <1>3

(* With one update at a time, downloads told once, no kill and no change of  *)
(* ids, what is played is on the disk, also when downloads fail or wait.     *)
THEOREM PlayedFilesAreThere == Spec => []PlaylistWhole
<1>1. Init => Typed /\ DeleteInv /\ WholeInv
  BY TypedInit, DeleteInvInit, WholeInvInit
<1>2. Typed /\ DeleteInv /\ WholeInv /\ [Next]_vars => (Typed /\ DeleteInv /\ WholeInv)'
  BY TypedStep, DeleteInvStep, WholeInvStep
<1>3. WholeInv => PlaylistWhole
  BY DEF WholeInv, Calm, PlaylistWhole
<1>4. QED
  BY <1>1, <1>2, <1>3, PTL DEF Spec

-----------------------------------------------------------------------------
(* Counting.  What a receiver has counted are the files it was told of, as   *)
(* long as none is told twice, and it starts no more than it waits for.      *)
Started(r)   == {f \in Files : load[r][f] # "none"}
Remaining(r) == {f \in Files : load[r][f] \in {"queued", "running", "unlinked"}}
Late(r)      == {f \in Files : load[r][f] = "late"}

(* A download that is left alone may still lose its file. *)
Same(q, g) ==
    load'[q][g] = load[q][g] \/ (load[q][g] = "running" /\ load'[q][g] = "unlinked")
OnlyAt(r, f) == \A q \in Receivers, g \in Files : q # r \/ g # f => Same(q, g)

LEMMA SetsElsewhere ==
    ASSUME NEW q \in Receivers, \A g \in Files : Same(q, g)
    PROVE  Started(q)' = Started(q) /\ ToldSet(q)' = ToldSet(q) /\ Remaining(q)' = Remaining(q)
BY DEF Same, Started, ToldSet, Remaining

LEMMA SetsAt ==
    ASSUME NEW r \in Receivers, NEW f \in Files, OnlyAt(r, f)
    PROVE  /\ Started(r)' = IF load'[r][f] = "none" THEN Started(r) \ {f} ELSE Started(r) \cup {f}
           /\ ToldSet(r)' = IF load'[r][f] \in {"told", "again", "done"}
                            THEN ToldSet(r) \cup {f} ELSE ToldSet(r) \ {f}
           /\ Remaining(r)' = IF load'[r][f] \in {"queued", "running", "unlinked"}
                              THEN Remaining(r) \cup {f} ELSE Remaining(r) \ {f}
<1>1. \A g \in Files \ {f} : Same(r, g)
  BY DEF OnlyAt
<1>2. QED
  BY <1>1 DEF Same, Started, ToldSet, Remaining

LEMMA DownloadMoves ==
    ASSUME Typed, NEW r \in Receivers, NEW f \in Files
    PROVE  /\ List(r, f) => OnlyAt(r, f) /\ load[r][f] = "queued" /\ load'[r][f] = "running"
           /\ Unlist(r, f) => OnlyAt(r, f) /\ load[r][f] \in {"told", "again"}
                              /\ load'[r][f] \in {"done", "late"}
                              /\ (load'[r][f] = "late" => "twice" \in hazards)
           /\ Fail(r, f) => OnlyAt(r, f) /\ f \in Remaining(r) \cup Late(r)
                            /\ load'[r][f] = "none"
           /\ Tell(r, f) /\ (Count(r, f) \/ Apply(r, f)) =>
                 OnlyAt(r, f) /\ load[r][f] \in {"running", "unlinked", "told", "late"}
                 /\ load'[r][f] \in {"told", "again", "done"}
                 /\ (load[r][f] # "late" => load'[r][f] \in {"told", "again"})
<1>1. \A w : load' = [load EXCEPT ![r][f] = w] => OnlyAt(r, f) /\ load'[r][f] = w
  BY DEF Typed, OnlyAt, Same
<1>2. /\ Told(r, f)[r][f] \in {"told", "again", "done"}
      /\ load[r][f] # "late" => Told(r, f)[r][f] # "done"
      /\ \A q \in Receivers, g \in Files : q # r \/ g # f => Told(r, f)[q][g] = load[q][g]
  BY AfterTelling DEF Told, Typed
<1>3. List(r, f) => OnlyAt(r, f) /\ load[r][f] = "queued" /\ load'[r][f] = "running"
  BY <1>1 DEF List
<1>4. Unlist(r, f) => OnlyAt(r, f) /\ load[r][f] \in {"told", "again"}
                      /\ load'[r][f] \in {"done", "late"}
                      /\ (load'[r][f] = "late" => "twice" \in hazards)
  BY <1>1 DEF Unlist
<1>5. Fail(r, f) => OnlyAt(r, f) /\ f \in Remaining(r) \cup Late(r) /\ load'[r][f] = "none"
  BY <1>1 DEF Fail, Remaining, Late, Active, Listing
<1>6. Tell(r, f) => load[r][f] \in {"running", "unlinked", "told", "late"}
  BY DEF Tell
<1>7. Count(r, f) => OnlyAt(r, f) /\ load'[r][f] = Told(r, f)[r][f]
  BY <1>2 DEF Count, OnlyAt, Same
<1>8. ASSUME Apply(r, f) PROVE OnlyAt(r, f) /\ load'[r][f] = Told(r, f)[r][f]
  <2>1. PICK unlinked \in BOOLEAN : load' = Unlink(Told(r, f), FilesOf(deleteSet[r]), unlinked)
    BY <1>8 DEF Apply
  <2>2. \A q \in Receivers, g \in Files :
          load'[q][g] = Told(r, f)[q][g]
          \/ (Told(r, f)[q][g] = "running" /\ load'[q][g] = "unlinked")
    BY <2>1 DEF Unlink
  <2>3. QED
    BY <1>2, <2>2 DEF OnlyAt, Same
<1>9. QED
  BY <1>2, <1>3, <1>4, <1>5, <1>6, <1>7, <1>8

(* The files a receiver was told of, and counted, are among those it began, *)
(* which are files of as many new media as it waits for.                     *)
Begun(r)   == \E ids \in SUBSET Ids : total[r] = Cardinality(ids) /\ Started(r) \subseteq FilesOf(ids)
Counted(r) ==
    /\ finished[r] = Cardinality(ToldSet(r)) /\ Begun(r)
    /\ \A f \in Files : load[r][f] # "late"
CountInv   == "twice" \notin hazards => \A r \in Receivers : Counted(r)

LEMMA CountBound ==
    ASSUME NEW r \in Receivers, Counted(r)
    PROVE  /\ IsFiniteSet(Started(r)) /\ IsFiniteSet(ToldSet(r))
           /\ Cardinality(Started(r)) \in Nat /\ total[r] \in Nat
           /\ finished[r] <= Cardinality(Started(r)) /\ Cardinality(Started(r)) <= total[r]
<1>1. PICK ids \in SUBSET Ids : total[r] = Cardinality(ids) /\ Started(r) \subseteq FilesOf(ids)
  BY DEF Counted, Begun
<1>2. /\ IsFiniteSet(FilesOf(ids)) /\ Cardinality(FilesOf(ids)) \in Nat
      /\ Cardinality(ids) \in Nat /\ Cardinality(FilesOf(ids)) <= Cardinality(ids)
  BY FilesCount
<1>3. IsFiniteSet(Started(r)) /\ Cardinality(Started(r)) <= Cardinality(FilesOf(ids))
  BY <1>1, <1>2, FS_Subset
<1>4. ToldSet(r) \subseteq Started(r)
  BY DEF ToldSet, Started
<1>5. IsFiniteSet(ToldSet(r)) /\ Cardinality(ToldSet(r)) <= Cardinality(Started(r))
  BY <1>3, <1>4, FS_Subset
<1>6. Cardinality(Started(r)) \in Nat /\ Cardinality(ToldSet(r)) \in Nat
  BY <1>3, <1>5, FS_CardinalityType
<1>7. QED
  BY <1>1, <1>2, <1>3, <1>5, <1>6 DEF Counted

LEMMA CountedFresh ==
    ASSUME NEW r \in Receivers, Started(r) = {}, total[r] = 0, finished[r] = 0
    PROVE  Counted(r)
<1>1. ToldSet(r) = {}
  BY DEF ToldSet, Started
<1>2. Cardinality({}) = 0
  BY FS_EmptySet
<1>3. {} \in SUBSET Ids /\ Started(r) \subseteq FilesOf({})
  OBVIOUS
<1>4. \A f \in Files : load[r][f] # "late"
  BY DEF Started
<1>5. QED
  BY <1>1, <1>2, <1>3, <1>4 DEF Counted, Begun

LEMMA CountInvInit == Init => CountInv
<1> SUFFICES ASSUME Init, NEW r \in Receivers PROVE Counted(r)
  BY DEF CountInv
<1>1. Started(r) = {} /\ total[r] = 0 /\ finished[r] = 0
  BY DEF Init, Started
<1>2. QED
  BY <1>1, CountedFresh

LEMMA CountedStays ==
    ASSUME NEW q \in Receivers, Counted(q), Started(q)' \subseteq Started(q),
           ToldSet(q)' = ToldSet(q), finished'[q] = finished[q], total'[q] = total[q],
           \A g \in Files : load'[q][g] # "late"
    PROVE  Counted(q)'
BY DEF Counted, Begun

LEMMA CountedDownload ==
    ASSUME Typed, "twice" \notin hazards, \A q \in Receivers : Counted(q),
           NEW r \in Receivers, NEW f \in Files,
           List(r, f) \/ Unlist(r, f) \/ Fail(r, f) \/ (Tell(r, f) /\ (Count(r, f) \/ Apply(r, f))),
           NEW q \in Receivers
    PROVE  Counted(q)'
<1>1. OnlyAt(r, f)
  BY DownloadMoves
<1>2. total' = total
  BY DEF List, Unlist, Fail, Count, Apply, receiverVars
<1>3. finished'[q] = finished[q] \/ (q = r /\ Tell(r, f) /\ finished'[r] = finished[r] + 1)
  BY DEF List, Unlist, Fail, Count, Apply, receiverVars, Typed
<1>4. \A g \in Files : load'[q][g] # "late"
  <2>1. load[r][f] # "late" /\ load'[r][f] # "late"
    BY DownloadMoves DEF Counted
  <2>2. \A g \in Files : load[q][g] # "late"
    BY DEF Counted
  <2>3. QED
    BY <1>1, <2>1, <2>2 DEF OnlyAt, Same
<1>5. CASE q # r
  <2>1. \A g \in Files : Same(q, g)
    BY <1>1, <1>5 DEF OnlyAt
  <2>2. QED
    BY <1>2, <1>3, <1>5, <1>4, <2>1, SetsElsewhere, CountedStays
<1>6. CASE q = r /\ (List(r, f) \/ Unlist(r, f) \/ Fail(r, f))
  <2>1. finished'[r] = finished[r]
    BY <1>6 DEF List, Unlist, Fail, receiverVars
  <2>2. load[r][f] # "late" /\ load'[r][f] # "late"
    BY <1>6, <1>4 DEF Counted
  <2>3. ToldSet(r)' = ToldSet(r)
    BY <1>1, <1>6, <2>2, SetsAt, DownloadMoves DEF ToldSet, Remaining, Late
  <2>4. Started(r)' \subseteq Started(r)
    BY <1>1, <1>6, SetsAt, DownloadMoves DEF Started
  <2>5. QED
    BY <1>2, <1>6, <1>4, <2>1, <2>3, <2>4, CountedStays
<1>7. CASE q = r /\ Tell(r, f) /\ (Count(r, f) \/ Apply(r, f))
  <2>1. load[r][f] \in {"running", "unlinked"} /\ load'[r][f] \in {"told", "again"}
    BY <1>7, DownloadMoves DEF Tell, Counted
  <2>2. f \notin ToldSet(r) /\ f \in Started(r)
    BY <2>1 DEF ToldSet, Started
  <2>3. ToldSet(r)' = ToldSet(r) \cup {f} /\ Started(r)' = Started(r)
    <3>1. ToldSet(r)' = ToldSet(r) \cup {f} /\ Started(r)' = Started(r) \cup {f}
      BY <1>1, <2>1, SetsAt
    <3>2. QED
      BY <2>2, <3>1
  <2>4. Cardinality(ToldSet(r) \cup {f}) = finished[r] + 1
    BY <2>2, CountBound, FS_AddElement DEF Counted
  <2>5. finished'[r] = finished[r] + 1
    BY <1>7 DEF Count, Apply, Typed
  <2>6. QED
    BY <1>2, <1>7, <1>4, <2>3, <2>4, <2>5 DEF Counted, Begun
<1>8. QED
  BY <1>5, <1>6, <1>7

LEMMA CountedDie == ASSUME NEW how, Die(how), NEW r \in Receivers PROVE Counted(r)'
<1>1. Started(r)' = {} /\ ToldSet(r)' = {} /\ total'[r] = 0 /\ finished'[r] = 0
  BY DEF Die, Started, ToldSet
<1>2. Cardinality({}) = 0
  BY FS_EmptySet
<1>3. {} \in SUBSET Ids /\ {} \subseteq FilesOf({})
  OBVIOUS
<1>4. \A f \in Files : load'[r][f] # "late"
  BY DEF Die
<1>5. QED
  BY <1>1, <1>2, <1>3, <1>4 DEF Counted, Begun

LEMMA CountInvStep == ASSUME Typed, CountInv, [Next]_vars PROVE CountInv'
<1>1. hazards' = hazards
  BY DEF Next, vars, Publish, Poll, Process, FetchFails, Download, List, Tell, Unlist, Fail,
         Kill, Restart
<1> SUFFICES ASSUME "twice" \notin hazards, NEW q \in Receivers PROVE Counted(q)'
  BY <1>1 DEF CountInv
<1>2. Counted(q)
  BY DEF CountInv
<1>3. CASE load' = load /\ total' = total /\ finished' = finished
  BY <1>2, <1>3 DEF Counted, Begun, Started, ToldSet
<1>4. ASSUME NEW r \in Receivers, Process(r) PROVE Counted(q)'
  <2>1. CASE q # r
    <3>1. load'[q] = load[q] /\ total'[q] = total[q] /\ finished'[q] = finished[q]
      BY <1>4, <2>1 DEF Process, StartDownloads, Typed
    <3>2. QED
      BY <1>2, <3>1 DEF Counted, Begun, Started, ToldSet
  <2>2. CASE q = r
    <3>1. \A g \in Files : load'[r][g] =
              IF g \in FilesOf(Adds(r)) /\ ~Listed(g) THEN "queued" ELSE "none"
      BY <1>4 DEF Process, StartDownloads, Typed
    <3>2. Started(r)' \subseteq FilesOf(Adds(r)) /\ ToldSet(r)' = {}
      BY <3>1 DEF Started, ToldSet
    <3>3. total'[r] = Cardinality(Adds(r)) /\ finished'[r] = 0
      BY <1>4 DEF Process, Typed
    <3>4. Adds(r) \in SUBSET Ids /\ Cardinality({}) = 0
      BY FS_EmptySet DEF Adds, Typed
    <3>5. \A g \in Files : load'[r][g] # "late"
      BY <3>1
    <3>6. QED
      BY <2>2, <3>2, <3>3, <3>4, <3>5 DEF Counted, Begun
  <2>3. QED
    BY <2>1, <2>2
<1>5. ASSUME NEW r \in Receivers, FetchFails(r) PROVE Counted(q)'
  <2>1. CASE q # r
    <3>1. load'[q] = load[q] /\ total'[q] = total[q] /\ finished'[q] = finished[q]
      BY <1>5, <2>1 DEF FetchFails, Typed
    <3>2. QED
      BY <1>2, <3>1 DEF Counted, Begun, Started, ToldSet
  <2>2. CASE q = r
    <3>1. Started(r)' = {} /\ ToldSet(r)' = {} /\ total'[r] = 0 /\ finished'[r] = 0
      BY <1>5 DEF FetchFails, Started, ToldSet, Typed
    <3>2. {} \in SUBSET Ids /\ Cardinality({}) = 0 /\ {} \subseteq FilesOf({})
      BY FS_EmptySet
    <3>3. \A g \in Files : load'[r][g] # "late"
      BY <3>1 DEF Started
    <3>4. QED
      BY <2>2, <3>1, <3>2, <3>3 DEF Counted, Begun
  <2>3. QED
    BY <2>1, <2>2
<1>6. ASSUME NEW r \in Receivers, NEW f \in Files, Download(r, f) \/ Fail(r, f)
      PROVE  Counted(q)'
  <2>1. CASE Tell(r, f) /\ NullPointer(r, f)
    BY <2>1, CountedDie DEF NullPointer
  <2>2. QED
    BY <1>6, <2>1, CountedDownload DEF CountInv, Download, Tell
<1>7. CASE Kill
  BY <1>7, CountedDie DEF Kill
<1>8. CASE Restart \/ UNCHANGED vars
  BY <1>3, <1>8 DEF Restart, vars, receiverVars
<1>9. ASSUME NEW s \in Strategies, Publish(s) PROVE Counted(q)'
  BY <1>3, <1>9 DEF Publish, receiverVars
<1>10. ASSUME NEW r \in Receivers, Poll(r) PROVE Counted(q)'
  BY <1>3, <1>10 DEF Poll
<1>11. QED
  BY <1>4, <1>5, <1>6, <1>7, <1>8, <1>9, <1>10 DEF Next

-----------------------------------------------------------------------------
(* Types with the bounds that UpdateTypeOK adds.                             *)
Bounded ==
    /\ hazards \in HazardSets /\ server \in Strategies /\ changes \in 0 .. MaxChanges
    /\ process \in {"up", "killed", "crashed"}
    /\ fetching \subseteq Receivers /\ wedged \subseteq Files
    /\ total \in [Receivers -> 0 .. Cardinality(Ids)]

LEMMA BoundedInit == Init => Bounded
<1>1. 0 \in 0 .. Cardinality(Ids) /\ 0 \in 0 .. MaxChanges
  BY CountNat, BoundsAssumption
<1>2. QED
  BY <1>1 DEF Init, Bounded

LEMMA BoundedDie ==
    ASSUME NEW how \in {"killed", "crashed"}, Die(how)
    PROVE  /\ process' \in {"killed", "crashed"} /\ fetching' = {} /\ wedged' = {}
           /\ total' \in [Receivers -> 0 .. Cardinality(Ids)]
<1>1. 0 \in 0 .. Cardinality(Ids)
  BY CountNat
<1>2. QED
  BY <1>1 DEF Die

LEMMA BoundedStep == ASSUME Typed, Bounded, [Next]_vars PROVE Bounded'
<1>1. ASSUME NEW s \in Strategies, Publish(s) PROVE Bounded'
  BY <1>1, BoundsAssumption DEF Publish, receiverVars, Bounded
<1>2. ASSUME NEW r \in Receivers, Poll(r) PROVE Bounded'
  BY <1>2 DEF Poll, serverVars, Bounded
<1>3. ASSUME NEW r \in Receivers, Process(r) PROVE Bounded'
  <2>1. Cardinality(Adds(r)) \in 0 .. Cardinality(Ids)
    <3>1. Adds(r) \in SUBSET Ids
      BY DEF Adds, Typed
    <3>2. Cardinality(Adds(r)) <= Cardinality(Ids)
      BY <3>1, FinitenessAssumption, FS_Subset
    <3>3. QED
      BY <3>1, <3>2, CountNat
  <2>2. QED
    BY <1>3, <2>1 DEF Process, serverVars, Bounded
<1>4. ASSUME NEW r \in Receivers, FetchFails(r) PROVE Bounded'
  <2>1. 0 \in 0 .. Cardinality(Ids)
    BY CountNat
  <2>2. QED
    BY <1>4, <2>1 DEF FetchFails, serverVars, Bounded
<1>5. ASSUME NEW r \in Receivers, NEW f \in Files, List(r, f) \/ Unlist(r, f) \/ Fail(r, f)
      PROVE  Bounded'
  BY <1>5 DEF List, Unlist, Fail, serverVars, receiverVars, Bounded
<1>6. ASSUME NEW r \in Receivers, NEW f \in Files, Tell(r, f) PROVE Bounded'
  <2>1. CASE Count(r, f) \/ Apply(r, f)
    BY <1>6, <2>1 DEF Tell, Count, Apply, serverVars, Bounded
  <2>2. CASE NullPointer(r, f)
    BY <1>6, <2>2, BoundedDie DEF Tell, NullPointer, serverVars, Bounded
  <2>3. QED
    BY <1>6, <2>1, <2>2 DEF Tell
<1>7. CASE Kill
  BY <1>7, BoundedDie DEF Kill, serverVars, Bounded
<1>8. CASE Restart \/ UNCHANGED vars
  BY <1>8 DEF Restart, vars, serverVars, receiverVars, Bounded
<1>9. QED
  BY <1>1, <1>2, <1>3, <1>4, <1>5, <1>6, <1>7, <1>8 DEF Next, Download

(* Every variable keeps its type; unless the service tells twice, a receiver *)
(* never counts more downloads than it waits for.                            *)
THEOREM UpdateTypeCorrect == Spec => []UpdateTypeOK
<1>1. Init => Typed /\ CountInv /\ Bounded
  BY TypedInit, CountInvInit, BoundedInit
<1>2. Typed /\ CountInv /\ Bounded /\ [Next]_vars => (Typed /\ CountInv /\ Bounded)'
  BY TypedStep, CountInvStep, BoundedStep
<1>3. Typed /\ CountInv /\ Bounded => UpdateTypeOK
  <2> SUFFICES ASSUME Typed, CountInv, Bounded PROVE UpdateTypeOK
    OBVIOUS
  <2>1. ASSUME NEW r \in Receivers, "twice" \notin hazards PROVE finished[r] <= total[r]
    BY <2>1, CountBound DEF CountInv, Typed
  <2>2. QED
    BY <2>1 DEF UpdateTypeOK, Typed, Bounded
<1>4. QED
  BY <1>1, <1>2, <1>3, PTL DEF Spec

-----------------------------------------------------------------------------
(* The ids to delete.  Of several receivers with the same strategy, all but  *)
(* one start fewer downloads than they wait for, because a file that is      *)
(* listed is not started again; so only one of them ever applies it.         *)
Alone    == hazards \cap {"overlap", "twice", "queued"} = {}
Short(r) == Cardinality(Started(r)) < total[r]

OneInv ==
    Alone =>
        /\ process # "crashed"
        /\ \A r \in Receivers : r \in fetching \/ Loading(r) => newMedia[r] = server
        /\ \A r \in Receivers : Loading(r) =>
              /\ container = server \/ First(r)
              /\ deleteSet[r] \subseteq container \/ Short(r) \/ Remaining(r) = {}
        /\ \A r, q \in Receivers : r # q /\ Loading(r) /\ Loading(q) => Short(r) \/ Short(q)

LEMMA OneInvInit == Init => OneInv
BY DEF Init, OneInv, Loading, Active, Listing

(* Whoever reaches the count was told of everything it started. *)
LEMMA LastOne ==
    ASSUME Typed, NEW r \in Receivers, NEW f \in Files, Counted(r),
           f \in Remaining(r), Enough(r, finished[r] + 1)
    PROVE  ~Short(r) /\ ToldSet(r) \cup {f} = Started(r)
<1>1. f \notin ToldSet(r) /\ ToldSet(r) \cup {f} \subseteq Started(r)
  BY DEF ToldSet, Started, Remaining
<1>2. /\ IsFiniteSet(ToldSet(r)) /\ IsFiniteSet(Started(r))
      /\ Cardinality(Started(r)) \in Nat /\ Cardinality(Started(r)) <= total[r] /\ total[r] \in Nat
  BY CountBound
<1>3. Cardinality(ToldSet(r) \cup {f}) = finished[r] + 1 /\ finished[r] \in Nat
  BY <1>1, <1>2, FS_AddElement DEF Counted, Typed
<1>4. Cardinality(ToldSet(r) \cup {f}) >= total[r]
  BY <1>3 DEF Enough
<1>5. Cardinality(ToldSet(r) \cup {f}) <= Cardinality(Started(r))
  BY <1>1, <1>2, FS_Subset
<1>6. Cardinality(ToldSet(r) \cup {f}) = Cardinality(Started(r))
  BY <1>2, <1>3, <1>4, <1>5
<1>7. QED
  BY <1>1, <1>2, <1>4, <1>6, FS_Subset DEF Short

LEMMA ShortStays ==
    ASSUME NEW q \in Receivers, Counted(q), Short(q), Started(q)' \subseteq Started(q),
           total'[q] = total[q]
    PROVE  Short(q)'
<1>1. IsFiniteSet(Started(q)) /\ Cardinality(Started(q)) \in Nat /\ total[q] \in Nat
  BY CountBound
<1>2. IsFiniteSet(Started(q)') /\ Cardinality(Started(q)') <= Cardinality(Started(q))
  BY <1>1, FS_Subset
<1>3. Cardinality(Started(q)') \in Nat
  BY <1>2, FS_CardinalityType
<1>4. QED
  BY <1>1, <1>2, <1>3 DEF Short

(* What the downloads of a step start and leave. *)
LEMMA OnlyLess ==
    ASSUME Typed, NEW r \in Receivers, NEW f \in Files,
           List(r, f) \/ Unlist(r, f) \/ Fail(r, f) \/ (Tell(r, f) /\ (Count(r, f) \/ Apply(r, f))),
           NEW q \in Receivers
    PROVE  Started(q)' \subseteq Started(q) /\ Remaining(q)' \subseteq Remaining(q)
<1>1. OnlyAt(r, f)
  BY DownloadMoves
<1>2. CASE q # r
  <2>1. \A g \in Files : Same(q, g)
    BY <1>1, <1>2 DEF OnlyAt
  <2>2. QED
    BY <2>1, SetsElsewhere
<1>3. CASE q = r
  <2>1. load[r][f] # "none"
    BY DownloadMoves DEF Remaining, Late
  <2>2. f \in Started(r)
    BY <2>1 DEF Started
  <2>3. Started(r)' \subseteq Started(r)
    BY <1>1, <2>2, SetsAt
  <2>4. load'[r][f] = "running" => f \in Remaining(r)
    BY DownloadMoves DEF Remaining
  <2>5. load'[r][f] \in {"running", "done", "late", "none", "told", "again"}
    BY DownloadMoves
  <2>6. Remaining(r)' \subseteq Remaining(r)
    BY <1>1, <2>4, <2>5, SetsAt
  <2>7. QED
    BY <1>3, <2>3, <2>6
<1>4. QED
  BY <1>2, <1>3

LEMMA OneInvDownload ==
    ASSUME Typed, CountInv, OneInv, Alone, NEW r \in Receivers, NEW f \in Files,
           Download(r, f) \/ Fail(r, f)
    PROVE  OneInv'
<1>1. \A q \in Receivers : Counted(q)
  BY DEF CountInv, Alone
<1>2. \A q \in Receivers : Loading(q)' => Loading(q)
  BY ActiveBefore
<1>3. CASE Tell(r, f) /\ Enough(r, finished[r] + 1)
  <2>1. f \in Remaining(r) /\ Loading(r)
    BY <1>1, <1>3 DEF Tell, Remaining, Loading, Active, Listing, Alone, Counted
  <2>2. ~Short(r) /\ ToldSet(r) \cup {f} = Started(r)
    BY <1>1, <1>3, <2>1, LastOne
  <2>3. deleteSet[r] \subseteq container
    BY <2>1, <2>2 DEF OneInv
  <2>4. Apply(r, f)
    BY <1>3, <2>3 DEF Tell, Count, NullPointer
  <2>5. \A q \in Receivers : Started(q)' \subseteq Started(q) /\ Remaining(q)' \subseteq Remaining(q)
    BY <1>3, <2>4, OnlyLess
  <2>6. Remaining(r)' = {}
    <3>1. f \notin Remaining(r)'
      BY <1>3, <2>4, DownloadMoves DEF Remaining
    <3>2. \A g \in Remaining(r) : g \in Started(r) /\ g \notin ToldSet(r)
      BY DEF Remaining, Started, ToldSet
    <3>3. QED
      BY <2>2, <2>5, <3>1, <3>2
  <2>7. /\ UNCHANGED <<hazards, server, process, fetching, newMedia, total, deleteSet>>
        /\ container' = server
    BY <1>3, <2>1, <2>4 DEF Tell, Apply, serverVars, OneInv
  <2>8. \A q \in Receivers : q # r /\ Loading(q)' => Short(q)'
    BY <1>1, <1>2, <2>1, <2>2, <2>5, <2>7, ShortStays DEF OneInv
  <2>9. QED
    BY <1>2, <2>6, <2>7, <2>8 DEF OneInv
<1>4. CASE List(r, f) \/ Unlist(r, f) \/ Fail(r, f) \/ (Tell(r, f) /\ Count(r, f))
  <2>1. UNCHANGED <<hazards, server, process, container, fetching, newMedia, total, deleteSet>>
    BY <1>4 DEF List, Unlist, Fail, Tell, Count, serverVars, receiverVars
  <2>2. \A q \in Receivers : Started(q)' \subseteq Started(q) /\ Remaining(q)' \subseteq Remaining(q)
    BY <1>4, OnlyLess
  <2>3. \A q \in Receivers : Short(q) => Short(q)'
    BY <1>1, <2>1, <2>2, ShortStays
  <2>4. \A q \in Receivers : First(q) => First(q)'
    BY <2>1, <2>2 DEF First, Started
  <2>5. \A q \in Receivers : Remaining(q) = {} => Remaining(q)' = {}
    BY <2>2
  <2>6. QED
    BY <1>2, <2>1, <2>3, <2>4, <2>5 DEF OneInv
<1>5. Tell(r, f) /\ ~Enough(r, finished[r] + 1) => Count(r, f)
  BY DEF Tell, Apply, NullPointer
<1>6. QED
  BY <1>3, <1>4, <1>5 DEF Download

LEMMA OneInvProcess ==
    ASSUME Typed, CountInv, OneInv, Alone, NEW r \in Receivers, Process(r)
    PROVE  OneInv'
<1>1. newMedia[r] = server
  BY DEF Process, OneInv
<1>2. /\ UNCHANGED <<hazards, server, process, container, newMedia>>
      /\ fetching' = fetching \ {r}
  BY DEF Process, serverVars
<1>3. ASSUME NEW q \in Receivers, q # r
      PROVE  load'[q] = load[q] /\ total'[q] = total[q] /\ deleteSet'[q] = deleteSet[q]
  BY <1>3 DEF Process, StartDownloads, Typed
<1>4. /\ \A g \in Files : load'[r][g] =
            IF g \in FilesOf(server \ container) /\ ~Listed(g) THEN "queued" ELSE "none"
      /\ total'[r] = Cardinality(server \ container) /\ deleteSet'[r] = container \ server
  BY <1>1 DEF Process, StartDownloads, Adds, Deletes, Typed
<1>5. First(r)'
  BY <1>2, <1>4 DEF First
<1>6. ASSUME NEW q \in Receivers, q # r
      PROVE  /\ Loading(q)' <=> Loading(q)
             /\ First(q)' <=> First(q)
             /\ Short(q)' <=> Short(q)
             /\ Remaining(q)' = Remaining(q)
  BY <1>2, <1>3, <1>6 DEF Loading, First, Short, Started, Remaining
<1>7. ASSUME NEW q \in Receivers, q # r, Loading(q), Loading(r)'
      PROVE  Short(r)'
  <2>1. PICK g \in Files : load[q][g] \in Active
    BY <1>7 DEF Loading
  <2>2. FilesOf(server \ container) # {}
    BY <1>4, <1>7 DEF Loading, Active, Listing
  <2>3. container # server
    BY <2>2 DEF FilesOf
  <2>4. g \in FilesOf(server \ container)
    BY <1>7, <2>1, <2>3 DEF OneInv, First, Active, Listing
  <2>5. load[q][g] # "queued" /\ load[q][g] # "late"
    BY <1>1, <2>4 DEF Process, SomeQueued, Adds, Alone, CountInv, Counted
  <2>6. Listed(g)
    BY <2>1, <2>5 DEF Listed, Active
  <2>7. Started(r)' \subseteq FilesOf(server \ container) \ {g}
    BY <1>4, <2>6 DEF Started
  <2>8. /\ IsFiniteSet(FilesOf(server \ container)) /\ Cardinality(server \ container) \in Nat
        /\ Cardinality(FilesOf(server \ container)) \in Nat
        /\ Cardinality(FilesOf(server \ container)) <= Cardinality(server \ container)
    BY FilesCount DEF Typed
  <2>9. /\ IsFiniteSet(FilesOf(server \ container) \ {g})
        /\ Cardinality(FilesOf(server \ container) \ {g})
              = Cardinality(FilesOf(server \ container)) - 1
    BY <2>4, <2>8, FS_RemoveElement
  <2>10. IsFiniteSet(Started(r)')
         /\ Cardinality(Started(r)') <= Cardinality(FilesOf(server \ container) \ {g})
    BY <2>7, <2>9, FS_Subset
  <2>11. Cardinality(Started(r)') \in Nat
    BY <2>10, FS_CardinalityType
  <2>12. Cardinality(Started(r)') < Cardinality(server \ container)
    BY <2>8, <2>9, <2>10, <2>11
  <2>13. QED
    BY <1>4, <2>12 DEF Short
<1>8. \A q \in Receivers : Loading(q)' =>
          /\ container' = server' \/ First(q)'
          /\ deleteSet'[q] \subseteq container' \/ Short(q)' \/ Remaining(q)' = {}
  <2>1. deleteSet'[r] \subseteq container'
    BY <1>2, <1>4
  <2>2. QED
    BY <1>2, <1>3, <1>5, <1>6, <2>1 DEF OneInv
<1>9. \A p, q \in Receivers : p # q /\ Loading(p)' /\ Loading(q)' => Short(p)' \/ Short(q)'
  BY <1>6, <1>7 DEF OneInv
<1>10. \A q \in Receivers : q \in fetching' \/ Loading(q)' => newMedia'[q] = server'
  BY <1>1, <1>2, <1>6 DEF OneInv
<1>11. QED
  BY <1>2, <1>8, <1>9, <1>10 DEF OneInv

LEMMA HazardsStay == [Next]_vars => UNCHANGED hazards
BY DEF Next, vars, Publish, Poll, Process, FetchFails, Download, List, Tell, Unlist, Fail,
       Kill, Restart

LEMMA OneInvStep == ASSUME Typed, CountInv, OneInv, [Next]_vars PROVE OneInv'
<1>1. CASE ~Alone
  BY <1>1, HazardsStay DEF OneInv, Alone
<1>2. CASE Alone
  <2> USE <1>2
  <2>1. ASSUME NEW s \in Strategies, Publish(s) PROVE OneInv'
    <3>1. \A r \in Receivers : r \notin fetching /\ ~Loading(r)
      BY <2>1 DEF Publish, Alone, Quiet, UnderWay, Loading, Active
    <3>2. QED
      BY <2>1, <3>1 DEF Publish, receiverVars, OneInv, Loading
  <2>2. ASSUME NEW r \in Receivers, Poll(r) PROVE OneInv'
    <3>1. /\ UNCHANGED <<hazards, server, container, process, total, deleteSet, load>>
          /\ newMedia' = [newMedia EXCEPT ![r] = server] /\ fetching' = fetching \cup {r}
      BY <2>2 DEF Poll, serverVars
    <3>2. ~Loading(r) /\ \A q \in Receivers : Loading(q)' <=> Loading(q)
      BY <2>2, <3>1 DEF Poll, UnderWay, Loading, Active
    <3>3. \A q \in fetching' : q \in Receivers => newMedia'[q] = server
      BY <3>1 DEF OneInv, Typed
    <3>4. \A q \in Receivers : q # r => newMedia'[q] = newMedia[q]
      BY <3>1 DEF Typed
    <3>5. QED
      BY <3>1, <3>2, <3>3, <3>4 DEF OneInv, First, Short, Started, Remaining
  <2>3. ASSUME NEW r \in Receivers, FetchFails(r) PROVE OneInv'
    <3>1. UNCHANGED <<hazards, server, container, process>> /\ fetching' = fetching \ {r}
      BY <2>3 DEF FetchFails, serverVars
    <3>2. ~Loading(r)'
      BY <2>3 DEF FetchFails, Loading, Active, Listing, Typed
    <3>3. ASSUME NEW q \in Receivers, q # r
          PROVE  /\ load'[q] = load[q] /\ total'[q] = total[q] /\ newMedia'[q] = newMedia[q]
                 /\ deleteSet'[q] = deleteSet[q]
      BY <2>3, <3>3 DEF FetchFails, Typed
    <3>4. \A q \in Receivers : Loading(q)' => Loading(q) /\ q # r
      BY <3>2, <3>3 DEF Loading
    <3>5. ASSUME NEW q \in Receivers, q # r
          PROVE  /\ First(q)' <=> First(q)
                 /\ Short(q)' <=> Short(q)
                 /\ Remaining(q)' = Remaining(q)
      BY <3>1, <3>3, <3>5 DEF First, Short, Started, Remaining
    <3>6. \A q \in Receivers : q \in fetching' \/ Loading(q)' => newMedia'[q] = server'
      BY <3>1, <3>3, <3>4 DEF OneInv
    <3>7. \A q \in Receivers : Loading(q)' =>
              /\ container' = server' \/ First(q)'
              /\ deleteSet'[q] \subseteq container' \/ Short(q)' \/ Remaining(q)' = {}
      BY <3>1, <3>3, <3>4, <3>5 DEF OneInv
    <3>8. \A p, q \in Receivers : p # q /\ Loading(p)' /\ Loading(q)' =>
              Short(p)' \/ Short(q)'
      BY <3>4, <3>5 DEF OneInv
    <3>9. QED
      BY <3>1, <3>6, <3>7, <3>8 DEF OneInv
  <2>4. CASE Kill
    <3>1. \A q \in Receivers : ~Loading(q)'
      BY <2>4 DEF Kill, Die, Loading, Active, Listing
    <3>2. UNCHANGED hazards /\ process' = "killed" /\ fetching' = {}
      BY <2>4 DEF Kill, Die
    <3>3. \A q \in Receivers : ~(q \in fetching' \/ Loading(q)')
      BY <3>1, <3>2
    <3>4. process' # "crashed"
      BY <3>2
    <3>5. QED
      BY <3>1, <3>3, <3>4, Zenon DEF OneInv
  <2>5. CASE Restart \/ UNCHANGED vars
    <3>1. /\ UNCHANGED <<hazards, server, container, fetching, newMedia, total, deleteSet, load>>
          /\ process' = process \/ process' = "up"
      BY <2>5 DEF Restart, vars, serverVars, receiverVars
    <3>2. ASSUME NEW q \in Receivers
          PROVE  /\ Loading(q)' <=> Loading(q)
                 /\ First(q)' <=> First(q)
                 /\ Short(q)' <=> Short(q)
                 /\ Remaining(q)' = Remaining(q)
      BY <3>1 DEF Loading, First, Short, Started, Remaining
    <3>3. QED
      BY <3>1, <3>2 DEF OneInv
  <2>6. QED
    BY <2>1, <2>2, <2>3, <2>4, <2>5, OneInvProcess, OneInvDownload DEF Next
<1>3. QED
  BY <1>1, <1>2

(* An id to delete is always found, unless updates overlap, the service      *)
(* tells twice, or downloads wait for a thread when a strategy arrives.      *)
THEOREM IdsToDeleteAreFound == Spec => []NoNullPointer
<1>1. Init => Typed /\ CountInv /\ OneInv
  BY TypedInit, CountInvInit, OneInvInit
<1>2. Typed /\ CountInv /\ OneInv /\ [Next]_vars => (Typed /\ CountInv /\ OneInv)'
  BY TypedStep, CountInvStep, OneInvStep
<1>3. OneInv => NoNullPointer
  BY DEF OneInv, Alone, NoNullPointer
<1>4. QED
  BY <1>1, <1>2, <1>3, PTL DEF Spec

-----------------------------------------------------------------------------
(* What a restart shows.  As long as the strategy that was saved is not yet  *)
(* shown, some receiver still waits for files, and what has yet to come is   *)
(* enough for its count.                                                     *)
Steady == hazards \cap {"overlap", "fail", "removal"} = {}

Carrier(r) ==
    /\ finished[r] < total[r] /\ IsFiniteSet(Remaining(r))
    /\ total[r] <= finished[r] + Cardinality(Remaining(r))

SavedInv ==
    Steady =>
        /\ wedged = {} /\ server \in Strategies /\ ~Removes(server)
        /\ \A r \in Receivers : r \in fetching \/ Loading(r) => newMedia[r] = server
        /\ \A r \in Receivers : Loading(r) => saved = server
        /\ container = saved \/ (saved = server /\ \E r \in Receivers : Carrier(r))

LEMMA SavedInvInit == Init => SavedInv
BY DEF Init, SavedInv, Removes, Loading, Active, Listing

LEMMA CarrierWaits ==
    ASSUME Typed, NEW r \in Receivers, Carrier(r)
    PROVE  Loading(r) /\ UnderWay(r)
<1>1. Remaining(r) # {}
  BY FS_EmptySet DEF Carrier, Typed
<1>2. PICK f \in Files : load[r][f] \in {"queued", "running", "unlinked"}
  BY <1>1 DEF Remaining
<1>3. QED
  BY <1>2 DEF Loading, Active, UnderWay, Listing

LEMMA CarrierStays ==
    ASSUME NEW q \in Receivers, Carrier(q), Remaining(q)' = Remaining(q),
           total'[q] = total[q], finished'[q] = finished[q]
    PROVE  Carrier(q)'
BY DEF Carrier

(* As many files are started as media are new, when none of them is listed. *)
LEMMA NoneLess ==
    ASSUME NEW s \in Strategies, NEW ids \in SUBSET s
    PROVE  /\ IsFiniteSet(FilesOf(ids)) /\ Cardinality(FilesOf(ids)) = Cardinality(ids)
           /\ Cardinality(ids) \in Nat /\ (ids # {} => Cardinality(ids) > 0)
<1>1. ids \in SUBSET Ids
  BY StrategiesAssumption
<1>2. IsFiniteSet(ids) /\ Cardinality(ids) \in Nat
  BY <1>1, CountNat
<1>3. DEFINE name == [i \in ids |-> FileOf[i]]
<1>4. name \in Surjection(ids, FilesOf(ids))
  BY DEF FilesOf, Surjection
<1>5. \A i, j \in ids : name[i] = name[j] => i = j
  <2>1. \A i, j \in s : FileOf[i] = FileOf[j] => i = j
    BY StrategiesAssumption
  <2>2. QED
    BY <2>1
<1>6. name \in Injection(ids, FilesOf(ids))
  BY <1>4, <1>5 DEF Injection, IsInjective, Surjection
<1>7. IsFiniteSet(FilesOf(ids)) /\ Cardinality(FilesOf(ids)) = Cardinality(ids)
  BY <1>2, <1>4, <1>6, FS_Surjection
<1>8. ids # {} => Cardinality(ids) > 0
  BY <1>2, FS_EmptySet
<1>9. QED
  BY <1>2, <1>7, <1>8

LEMMA SavedInvDie ==
    ASSUME SavedInv, Steady, NEW how, Die(how), UNCHANGED <<hazards, server, saved>>
    PROVE  SavedInv'
<1>1. \A r \in Receivers : ~Loading(r)' /\ r \notin fetching'
  BY DEF Die, Loading, Active, Listing
<1>2. container' = saved' /\ wedged' = {}
  BY DEF Die
<1>3. ~Removes(server)'
  BY <1>2 DEF SavedInv, Removes
<1>4. QED
  BY <1>1, <1>2, <1>3 DEF SavedInv

LEMMA SavedInvDownload ==
    ASSUME Typed, SavedInv, Steady, NEW r \in Receivers, NEW f \in Files, Download(r, f)
    PROVE  SavedInv'
<1>1. \A q \in Receivers : Loading(q)' => Loading(q)
  BY ActiveBefore
<1>2. CASE Tell(r, f) /\ NullPointer(r, f)
  BY <1>2, SavedInvDie DEF Tell, NullPointer, serverVars
<1>3. CASE Tell(r, f) /\ Apply(r, f)
  <2>1. Loading(r)
    BY <1>3 DEF Tell, Loading, Active, Listing
  <2>2. UNCHANGED <<hazards, server, saved, wedged, fetching, newMedia>> /\ container' = server
    BY <1>3, <2>1 DEF Tell, Apply, serverVars, SavedInv
  <2>3. saved = server
    BY <2>1 DEF SavedInv
  <2>4. ~Removes(server)'
    BY <2>2 DEF Removes
  <2>5. QED
    BY <1>1, <2>2, <2>3, <2>4 DEF SavedInv
<1>4. CASE List(r, f) \/ Unlist(r, f) \/ (Tell(r, f) /\ Count(r, f))
  <2>1. UNCHANGED <<hazards, server, saved, wedged, container, fetching, newMedia, total>>
    BY <1>4 DEF List, Unlist, Tell, Count, serverVars, receiverVars
  <2>2. OnlyAt(r, f)
    BY <1>4, DownloadMoves
  <2>3. ASSUME NEW q \in Receivers, Carrier(q), q # r PROVE Carrier(q)'
    <3>1. \A g \in Files : Same(q, g)
      BY <2>2, <2>3 DEF OnlyAt
    <3>2. finished'[q] = finished[q]
      BY <1>4, <2>3 DEF List, Unlist, Count, receiverVars, Typed
    <3>3. QED
      BY <2>1, <2>3, <3>1, <3>2, SetsElsewhere, CarrierStays
  <2>4. ASSUME Carrier(r), List(r, f) \/ Unlist(r, f) PROVE Carrier(r)'
    <3>1. Remaining(r)' = Remaining(r)
      BY <2>2, <2>4, SetsAt, DownloadMoves DEF Remaining
    <3>2. finished' = finished
      BY <2>4 DEF List, Unlist, receiverVars
    <3>3. QED
      BY <2>1, <2>4, <3>1, <3>2, CarrierStays
  <2>5. ASSUME Carrier(r), Tell(r, f), Count(r, f) PROVE Carrier(r)'
    <3>1. Remaining(r)' = Remaining(r) \ {f}
      BY <2>2, <2>5, SetsAt, DownloadMoves
    <3>2. /\ IsFiniteSet(Remaining(r)) /\ Cardinality(Remaining(r)) \in Nat
          /\ total[r] \in Nat /\ finished[r] \in Nat
      BY <2>5, FS_CardinalityType DEF Carrier, Typed
    <3>3. /\ IsFiniteSet(Remaining(r)')
          /\ Cardinality(Remaining(r)') \in Nat
          /\ Cardinality(Remaining(r)') >= Cardinality(Remaining(r)) - 1
      <4>1. /\ IsFiniteSet(Remaining(r) \ {f})
            /\ Cardinality(Remaining(r) \ {f}) =
                  IF f \in Remaining(r) THEN Cardinality(Remaining(r)) - 1
                                        ELSE Cardinality(Remaining(r))
        BY <3>2, FS_RemoveElement
      <4>2. Cardinality(Remaining(r) \ {f}) \in Nat
        BY <4>1, FS_CardinalityType
      <4>3. Cardinality(Remaining(r) \ {f}) >= Cardinality(Remaining(r)) - 1
        BY <3>2, <4>1
      <4>4. QED
        BY <3>1, <4>1, <4>2, <4>3
    <3>4. finished'[r] = finished[r] + 1 /\ finished[r] + 1 < total[r]
      BY <2>5, <3>2 DEF Count, Enough, Typed
    <3>5. total'[r] = total[r]
      BY <2>1
    <3>6. QED
      BY <2>5, <3>2, <3>3, <3>4, <3>5 DEF Carrier
  <2>6. \A q \in Receivers : Carrier(q) => Carrier(q)'
    BY <1>4, <2>3, <2>4, <2>5
  <2>7. ~Removes(server)'
    BY <2>1 DEF Removes, SavedInv
  <2>8. QED
    BY <1>1, <2>1, <2>6, <2>7 DEF SavedInv
<1>5. QED
  BY <1>2, <1>3, <1>4 DEF Download, Tell

LEMMA SavedInvProcess ==
    ASSUME Typed, DeleteInv, SavedInv, Steady, NEW r \in Receivers, Process(r)
    PROVE  SavedInv'
<1>1. newMedia[r] = server /\ ~Loading(r)
  BY DEF Process, SavedInv, DeleteInv
<1>2. /\ UNCHANGED <<hazards, server, container, newMedia, wedged>>
      /\ fetching' = fetching \ {r} /\ saved' = server
  BY <1>1 DEF Process, serverVars
<1>3. ASSUME NEW q \in Receivers, q # r
      PROVE  /\ Loading(q)' <=> Loading(q)
             /\ Carrier(q) => Carrier(q)'
  <2>1. load'[q] = load[q] /\ total'[q] = total[q] /\ finished'[q] = finished[q]
    BY <1>3 DEF Process, StartDownloads, Typed
  <2>2. QED
    BY <2>1 DEF Loading, Remaining, Carrier
<1>4. \A q \in Receivers : Loading(q)' => newMedia'[q] = server
  BY <1>1, <1>2, <1>3 DEF SavedInv
<1>5. \A q \in Receivers : q \in fetching' => newMedia'[q] = server
  BY <1>2 DEF SavedInv
<1>6. container = server \/ \E q \in Receivers : Carrier(q)'
  <2> SUFFICES ASSUME container # server PROVE \E q \in Receivers : Carrier(q)'
    OBVIOUS
  <2>1. CASE \E q \in Receivers : Carrier(q)
    <3>1. PICK q \in Receivers : Carrier(q)
      BY <2>1
    <3>2. q # r
      BY <1>1, <3>1, CarrierWaits
    <3>3. QED
      BY <1>3, <3>1, <3>2
  <2>2. CASE ~\E q \in Receivers : Carrier(q)
    <3>1. saved # server
      BY <2>2 DEF SavedInv
    <3>2. \A q \in Receivers : ~Loading(q)
      BY <3>1 DEF SavedInv
    <3>3. \A f \in Files : ~Listed(f)
      BY <3>2 DEF Listed, Loading, Active, SavedInv
    <3>4. Adds(r) = server \ container /\ server \ container \in SUBSET server
      BY <1>1 DEF Adds
    <3>5. server \ container # {}
      BY DEF SavedInv, Removes
    <3>6. /\ IsFiniteSet(FilesOf(server \ container))
          /\ Cardinality(FilesOf(server \ container)) = Cardinality(server \ container)
          /\ Cardinality(server \ container) \in Nat
          /\ Cardinality(server \ container) > 0
      BY <3>4, <3>5, NoneLess DEF SavedInv
    <3>7. FilesOf(server \ container) \subseteq Files
      BY FilesKnown DEF Typed
    <3>8. \A f \in Files : load'[r][f] =
              IF f \in FilesOf(server \ container) THEN "queued" ELSE "none"
      BY <3>3, <3>4 DEF Process, StartDownloads, Typed
    <3>9. Remaining(r)' = FilesOf(server \ container)
      BY <3>7, <3>8 DEF Remaining
    <3>10. total'[r] = Cardinality(server \ container) /\ finished'[r] = 0
      BY <3>4 DEF Process, Typed
    <3>11. Carrier(r)'
      BY <3>6, <3>9, <3>10 DEF Carrier
    <3>12. QED
      BY <3>11
  <2>3. QED
    BY <2>1, <2>2
<1>7. ~Removes(server)'
  BY <1>2 DEF SavedInv, Removes
<1>8. wedged' = {} /\ server' \in Strategies
  BY <1>2 DEF SavedInv
<1>9. QED
  BY <1>2, <1>4, <1>5, <1>6, <1>7, <1>8 DEF SavedInv

LEMMA SavedInvStep ==
    ASSUME Typed, DeleteInv, SavedInv, [Next]_vars
    PROVE  SavedInv'
<1>1. CASE ~Steady
  BY <1>1, HazardsStay DEF SavedInv, Steady
<1>2. CASE Steady
  <2> USE <1>2
  <2>1. ASSUME NEW s \in Strategies, Publish(s) PROVE SavedInv'
    <3>1. /\ UNCHANGED <<hazards, container, saved, load, fetching, newMedia, wedged>>
          /\ server' = s
      BY <2>1 DEF Publish, receiverVars
    <3>2. \A r \in Receivers : r \notin fetching /\ ~Loading(r)
      BY <2>1 DEF Publish, Steady, Quiet, UnderWay, Loading, Active
    <3>3. container = saved
      BY <3>2, CarrierWaits DEF SavedInv
    <3>4. ~Removes(server)'
      BY <2>1, <3>1 DEF Publish, Steady, Removes
    <3>5. \A r \in Receivers : r \notin fetching' /\ ~Loading(r)'
      BY <3>1, <3>2 DEF Loading
    <3>6. QED
      BY <2>1, <3>1, <3>3, <3>4, <3>5 DEF SavedInv
  <2>2. ASSUME NEW r \in Receivers, Poll(r) PROVE SavedInv'
    <3>1. /\ UNCHANGED <<hazards, server, container, saved, total, finished, load, wedged>>
          /\ fetching' = fetching \cup {r}
      BY <2>2 DEF Poll, serverVars
    <3>2. \A q \in Receivers : newMedia'[q] = IF q = r THEN server ELSE newMedia[q]
      BY <2>2 DEF Poll, Typed
    <3>3. \A q \in Receivers : (Loading(q)' <=> Loading(q)) /\ (Carrier(q) => Carrier(q)')
      BY <3>1 DEF Loading, Carrier, Remaining
    <3>4. ~Removes(server)'
      BY <3>1 DEF SavedInv, Removes
    <3>5. \A q \in Receivers : q \in fetching' \/ Loading(q)' => newMedia'[q] = server
      BY <3>1, <3>2, <3>3 DEF SavedInv
    <3>6. QED
      BY <3>1, <3>3, <3>4, <3>5 DEF SavedInv
  <2>3. \A r \in Receivers : ~FetchFails(r) /\ \A f \in Files : ~Fail(r, f)
    BY DEF FetchFails, Fail, Steady
  <2>4. CASE Kill
    BY <2>4, SavedInvDie DEF Kill, serverVars
  <2>5. CASE Restart \/ UNCHANGED vars
    <3>1. UNCHANGED <<hazards, server, container, saved, fetching, newMedia, total, finished,
                      load, wedged>>
      BY <2>5 DEF Restart, vars, serverVars, receiverVars
    <3>2. \A q \in Receivers : (Loading(q)' <=> Loading(q)) /\ (Carrier(q) => Carrier(q)')
      BY <3>1 DEF Loading, Carrier, Remaining
    <3>3. ~Removes(server)'
      BY <3>1 DEF SavedInv, Removes
    <3>4. QED
      BY <3>1, <3>2, <3>3 DEF SavedInv
  <2>6. QED
    BY <2>1, <2>2, <2>3, <2>4, <2>5, SavedInvProcess, SavedInvDownload DEF Next
<1>3. QED
  BY <1>1, <1>2

(* When no update is under way, a restart shows what is shown, unless        *)
(* updates overlap, fail or only remove media.                               *)
THEOREM SavedIsShown == Spec => []RestartShowsTheSame
<1>1. Init => Typed /\ DeleteInv /\ SavedInv
  BY TypedInit, DeleteInvInit, SavedInvInit
<1>2. Typed /\ DeleteInv /\ SavedInv /\ [Next]_vars => (Typed /\ DeleteInv /\ SavedInv)'
  BY TypedStep, DeleteInvStep, SavedInvStep
<1>3. Typed /\ SavedInv => RestartShowsTheSame
  BY CarrierWaits DEF SavedInv, Steady, RestartShowsTheSame, Quiet
<1>4. QED
  BY <1>1, <1>2, <1>3, PTL DEF Spec

-----------------------------------------------------------------------------
(* The lives of the downloads.  A receiver whose downloads are started or     *)
(* forgotten has none under way, or has them killed.                          *)
LEMMA LifeStill ==
    ASSUME NEW r \in Receivers, NEW f \in Files,
           load'[r][f] = load[r][f]
           \/ (load[r][f] = "running" /\ load'[r][f] = "unlinked") \/ load'[r][f] = "none"
    PROVE  [Life(r, f)!Next]_(LoadOf(r, f))
BY DEF LoadOf, Life!Next, Life!Die

(* Only counting adds to a count. *)
LEMMA CountGrows ==
    ASSUME Typed, NEW r \in Receivers, Next, finished'[r] > finished[r]
    PROVE  \E f \in Files : Tell(r, f) /\ (Count(r, f) \/ Apply(r, f))
<1>1. finished[r] \in Nat
  BY DEF Typed
<1>2. finished'[r] # finished[r] /\ finished'[r] # 0
  BY <1>1
<1>3. ~\E s \in Strategies : Publish(s)
  BY <1>2 DEF Publish, receiverVars
<1>4. ~\E q \in Receivers : Poll(q) \/ Process(q) \/ FetchFails(q)
  BY <1>2 DEF Poll, Process, FetchFails, Typed
<1>5. ~Kill /\ ~Restart
  BY <1>2 DEF Kill, Die, Restart, receiverVars
<1>6. PICK q \in Receivers, f \in Files : Download(q, f) \/ Fail(q, f)
  BY <1>3, <1>4, <1>5 DEF Next
<1>7. Tell(q, f) /\ ~NullPointer(q, f)
  BY <1>2, <1>6 DEF Download, List, Unlist, Fail, NullPointer, Die, receiverVars
<1>8. q = r
  BY <1>2, <1>7 DEF Tell, Count, Apply, Typed
<1>9. QED
  BY <1>7, <1>8 DEF Tell

LEMMA LifeDownload ==
    ASSUME Typed, NEW r \in Receivers, NEW f \in Files
    PROVE  /\ List(r, f) => Life(r, f)!Listed
           /\ Unlist(r, f) => Life(r, f)!Unlist
           /\ Fail(r, f) => Life(r, f)!Fail
           /\ Tell(r, f) /\ (Count(r, f) \/ Apply(r, f)) => Life(r, f)!Tell
<1>1. \A w : load' = [load EXCEPT ![r][f] = w] => load'[r][f] = w
  BY DEF Typed
<1>2. List(r, f) => Life(r, f)!Listed
  BY <1>1 DEF List, LoadOf, Life!Listed
<1>3. Unlist(r, f) => Life(r, f)!Unlist
  BY <1>1 DEF Unlist, LoadOf, Life!Unlist
<1>4. Fail(r, f) => Life(r, f)!Fail
  BY <1>1 DEF Fail, LoadOf, Active, Listing, Life!Fail
<1>5. ASSUME Tell(r, f), Count(r, f) \/ Apply(r, f) PROVE Life(r, f)!Tell
  <2>1. load'[r][f] = AfterTold[load[r][f]]
    <3>1. Told(r, f)[r][f] = AfterTold[load[r][f]]
      BY DEF Told, Typed
    <3>2. AfterTold[load[r][f]] # "running"
      BY AfterTelling
    <3>3. QED
      BY <1>5, <3>1, <3>2 DEF Count, Apply, Unlink
  <2>2. load[r][f] \in {"running", "unlinked", "told", "late"}
    BY <1>5 DEF Tell
  <2>3. AfterTold[load[r][f]] = CASE load[r][f] = "told" -> "again"
                                  [] load[r][f] = "late" -> "done"
                                  [] OTHER -> "told"
    BY <2>2 DEF AfterTold, Loads, Active, Listing
  <2>4. QED
    BY <2>1, <2>2, <2>3 DEF LoadOf, Life!Tell, Life!TellAgain
<1>6. QED
  BY <1>2, <1>3, <1>4, <1>5

(* A download of the update is started, listed, told and taken off the list  *)
(* as one of the service is.                                                 *)
LEMMA LifeStep ==
    ASSUME Typed, DeleteInv, [Next]_vars, NEW r \in Receivers, NEW f \in Files
    PROVE  [Life(r, f)!Next]_(LoadOf(r, f))
<1>1. CASE UNCHANGED load
  BY <1>1, LifeStill
<1>2. ASSUME NEW q \in Receivers, Process(q) PROVE [Life(r, f)!Next]_(LoadOf(r, f))
  <2>1. CASE q # r
    <3>1. load'[r] = load[r]
      BY <1>2, <2>1 DEF Process, StartDownloads, Typed
    <3>2. QED
      BY <3>1, LifeStill
  <2>2. CASE q = r
    <3>1. load[r][f] \notin Active /\ load[r][f] \in Loads
      BY <1>2, <2>2 DEF Process, DeleteInv, Loading, Typed
    <3>2. LoadOf(r, f) = "none"
      BY <3>1 DEF LoadOf, Loads, Active, Listing
    <3>3. load'[r][f] \in {"none", "queued"}
      BY <1>2, <2>2 DEF Process, StartDownloads, Typed
    <3>4. LoadOf(r, f)' = load'[r][f]
      BY <3>3 DEF LoadOf
    <3>5. QED
      BY <3>2, <3>3, <3>4 DEF Life!Next, Life!Start
  <2>3. QED
    BY <2>1, <2>2
<1>3. ASSUME NEW q \in Receivers, FetchFails(q) PROVE [Life(r, f)!Next]_(LoadOf(r, f))
  <2>1. load'[r][f] = load[r][f] \/ load'[r][f] = "none"
    BY <1>3 DEF FetchFails, Typed
  <2>2. QED
    BY <2>1, LifeStill
<1>4. ASSUME NEW q \in Receivers, NEW g \in Files, Download(q, g) \/ Fail(q, g)
      PROVE  [Life(r, f)!Next]_(LoadOf(r, f))
  <2>1. CASE Tell(q, g) /\ NullPointer(q, g)
    BY <2>1, LifeStill DEF NullPointer, Die
  <2>2. CASE List(q, g) \/ Unlist(q, g) \/ Fail(q, g)
             \/ (Tell(q, g) /\ (Count(q, g) \/ Apply(q, g)))
    <3>1. CASE q # r \/ g # f
      <4>1. Same(r, f)
        BY <2>2, <3>1, DownloadMoves DEF OnlyAt
      <4>2. QED
        BY <4>1, LifeStill DEF Same
    <3>2. CASE q = r /\ g = f
      BY <2>2, <3>2, LifeDownload DEF Life!Next
    <3>3. QED
      BY <3>1, <3>2
  <2>3. QED
    BY <1>4, <2>1, <2>2 DEF Download, Tell
<1>5. CASE Kill
  BY <1>5, LifeStill DEF Kill, Die
<1>6. CASE Restart \/ UNCHANGED vars
  BY <1>1, <1>6 DEF Restart, vars
<1>7. ASSUME NEW s \in Strategies, Publish(s) PROVE UNCHANGED load
  BY <1>7 DEF Publish
<1>8. ASSUME NEW q \in Receivers, Poll(q) PROVE UNCHANGED load
  BY <1>8 DEF Poll
<1>9. QED
  BY <1>1, <1>2, <1>3, <1>4, <1>5, <1>6, <1>7, <1>8 DEF Next

(* The downloads of an update are no others than those the service makes:    *)
(* each of them lives as DownloadLife says, and what a receiver counts is a  *)
(* download that is told.                                                    *)
THEOREM UpdateLoadsLive == Spec => LoadsLive
<1>1. Init => \A r \in Receivers, f \in Files : Life(r, f)!Init
  BY DEF Init, LoadOf, Life!Init
<1>2. Init => Typed /\ DeleteInv
  BY TypedInit, DeleteInvInit
<1>3. Typed /\ DeleteInv /\ [Next]_vars => (Typed /\ DeleteInv)'
  BY TypedStep, DeleteInvStep
<1>4. Typed /\ DeleteInv /\ [Next]_vars =>
        [\A r \in Receivers :
            /\ \A f \in Files : [Life(r, f)!Next]_(LoadOf(r, f))
            /\ finished'[r] > finished[r] => \E f \in Files : Life(r, f)!Tell]_vars
  <2> SUFFICES ASSUME Typed, DeleteInv, Next, NEW r \in Receivers
               PROVE  /\ \A f \in Files : [Life(r, f)!Next]_(LoadOf(r, f))
                      /\ finished'[r] > finished[r] => \E f \in Files : Life(r, f)!Tell
    OBVIOUS
  <2>1. \A f \in Files : [Life(r, f)!Next]_(LoadOf(r, f))
    BY LifeStep
  <2>2. finished'[r] > finished[r] => \E f \in Files : Life(r, f)!Tell
    BY CountGrows, LifeDownload
  <2>3. QED
    BY <2>1, <2>2
<1>5. QED
  BY <1>1, <1>2, <1>3, <1>4, PTL DEF Spec, LoadsLive

=============================================================================
