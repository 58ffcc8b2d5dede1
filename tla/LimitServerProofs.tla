-------------------------- MODULE LimitServerProofs --------------------------
(***************************************************************************)
(* Proofs about LimitServer, for any number of concurrent PUT handlers:    *)
(* the types; that the registry's file survives a crash at any moment with *)
(* every acknowledged PUT in it, as long as the last Save to replace it    *)
(* met no other; and that the registry and the backend agree on every key  *)
(* whose PUTs did not meet.                                                *)
(***************************************************************************)
EXTENDS LimitServer, FiniteSetTheorems, TLAPS

Step == {"idle", "apply", "put", "snap", "open", "write", "rename", "remove"}

\* A limit state as nextState makes it: a pending decrease is a decrease.
Sound(s) == s.status = "decreasing" => s.pending \in 1 .. s.capacity - 1
SoundStates(m) == m \in States /\ \A k \in Key : m[k] # None => Sound(m[k])

\* What a handler at a PUT works on.
Work == [key : Key, cap : Capacity, ver : Ver, next : {s \in LimitState : Sound(s)}]

\* A snapshot that some Save may have taken by now.
Taken == {s \in Snapshot : SoundStates(s.states) /\ \A k \in Key : s.ver[k] <= puts}

\* The PUTs begun whose update the registry has not got yet.
Coming == {p \in Handler : pc[p] \in {"apply", "put"}}
-----------------------------------------------------------------------------
(* The inductive invariant for any number of handlers.  Every update of    *)
(* the registry was begun as a PUT of its own: that bounds ver.            *)

\* A handler at a PUT has one to work on, and a Save past its open has the
\* snapshot and the file.
AtWork(p) ==
  /\ pc[p] # "idle" => work[p] \in Work
  /\ pc[p] \in {"open", "write", "rename", "remove"} => snap[p] # None
  /\ pc[p] \in {"write", "rename", "remove"} => fd[p] # None

Typed ==
  /\ SoundStates(backend) /\ SoundStates(registry)
  /\ pc \in [Handler -> Step]
  /\ DOMAIN work = Handler
  /\ snap \in [Handler -> Taken \cup {None}]
  /\ fd \in [Handler -> Inode \cup {None}]
  /\ tmp \in Inode \cup {None} /\ path \in Inode \cup {None}
  /\ disk \in [Inode -> Taken \cup {Empty, Torn}]
  /\ mode \in {"up", "down", "failed"} /\ puts \in 0 .. MaxPuts
  /\ ver \in [Key -> Ver] /\ acked \in [Key -> Ver]
  /\ \A p \in Handler : AtWork(p)
  /\ mode # "up" => \A p \in Handler : pc[p] = "idle"
  /\ \A k \in Key : ver[k] + Cardinality(Coming) <= puts
-----------------------------------------------------------------------------
(* The rest of the inductive invariant.                                    *)

MetTyped == clash \subseteq Key /\ lapped \subseteq Handler /\ crossed \in BOOLEAN

\* A Save that met no other is the only one; and no Save writes to the file
\* under the registry's name, when the last to replace it met no other.
Apart ==
  /\ tmp # None => tmp # path
  /\ \A p \in Saving \ lapped : Saving = {p}
  /\ ~crossed => \A p \in Handler : pc[p] = "write" => fd[p] # path

\* What a Save that met no other has done to its file, step by step.
SaveInFile ==
  \A p \in Saving \ lapped :
    /\ pc[p] # "open" => tmp # None /\ fd[p] = tmp
    /\ pc[p] = "write" => disk[tmp] = Empty
    /\ pc[p] = "rename" => disk[tmp] = snap[p]
    /\ pc[p] # "remove" =>
         /\ work[p].ver <= snap[p].ver[work[p].key]
         /\ \A k \in Key : acked[k] <= snap[p].ver[k]

\* How far the backend and the registry have got with an update whose key
\* has no other.
UpdateInStep ==
  \A k \in Key \ clash :
    /\ \A p, q \in Updating(k) : p = q
    /\ (\A p \in Updating(k) : pc[p] = "apply") => registry[k] = backend[k]
    /\ \A p \in Updating(k) :
         /\ pc[p] = "apply" => work[p].next = NextState(registry[k], work[p].cap)
         /\ pc[p] = "put" => backend[k] = work[p].next

\* The file has what was acknowledged, and so has the registry.
AckedEverywhere ==
  /\ mode = "up" => \A k \in Key : acked[k] <= ver[k]
  /\ \A p \in Handler :
       pc[p] \notin {"idle", "apply", "put"} => work[p].ver <= ver[work[p].key]
  /\ ~crossed => \A k \in Key : acked[k] > 0 => path # None /\ disk[path].ver[k] >= acked[k]

KeepInv ==
  Typed /\ MetTyped /\ FileLoadable /\ Apart /\ SaveInFile /\ UpdateInStep /\ AckedEverywhere
-----------------------------------------------------------------------------
(* The operators.                                                          *)

\* The invariant includes the types.
LEMMA TypedGives == Typed /\ MetTyped => TypeOK
<1> SUFFICES ASSUME Typed, MetTyped PROVE TypeOK
  OBVIOUS
<1>1. \A m \in {backend, registry} :
        /\ m \in States
        /\ \A k \in Key : m[k] # None /\ m[k].status = "decreasing" =>
             m[k].pending \in 1 .. m[k].capacity - 1
  BY DEF Typed, SoundStates, Sound
<1>2. Taken \subseteq Snapshot
  BY DEF Taken
<1>3. snap \in [Handler -> Snapshot \cup {None}] /\ disk \in [Inode -> Snapshot \cup {Empty, Torn}]
  BY <1>2 DEF Typed
<1> QED
  BY <1>1, <1>3 DEF Typed, MetTyped, TypeOK, Step

\* nextState makes a sound state from a sound state.
LEMMA NextStateSound ==
  ASSUME NEW prev, prev # None => prev \in LimitState /\ Sound(prev), NEW cap \in Capacity
  PROVE  NextState(prev, cap) \in LimitState /\ Sound(NextState(prev, cap))
<1>1. cap \in Nat \ {0}
  BY LimitServerAssumption
<1>2. CASE prev = None \/ cap >= prev.capacity
  <2>1. NextState(prev, cap) = [capacity |-> cap, status |-> "active", pending |-> 0]
    BY <1>2 DEF NextState
  <2> QED
    BY <2>1 DEF LimitState, Sound
<1>3. CASE ~(prev = None \/ cap >= prev.capacity)
  <2>1. NextState(prev, cap) = [capacity |-> prev.capacity, status |-> "decreasing", pending |-> cap]
    BY <1>3 DEF NextState
  <2>2. prev.capacity \in Capacity /\ prev.capacity \in Nat /\ cap < prev.capacity
    <3>1. prev.capacity \in Capacity
      BY <1>3 DEF LimitState
    <3>2. prev.capacity \in Nat
      BY <3>1, LimitServerAssumption
    <3> QED
      BY <1>1, <1>3, <3>1, <3>2
  <2> QED
    BY <1>1, <2>1, <2>2 DEF LimitState, Sound
<1> QED
  BY <1>2, <1>3

\* Replacing one state by a sound one.
LEMMA ReplaceSound ==
  ASSUME NEW m, SoundStates(m), NEW k \in Key, NEW s \in LimitState, Sound(s)
  PROVE  SoundStates([m EXCEPT ![k] = s])
BY DEF SoundStates, States

\* An empty registry is sound.
LEMMA NoStatesSound == SoundStates(NoStates) /\ NoVer \in [Key -> Ver]
BY LimitServerAssumption DEF SoundStates, NoStates, NoVer, States, Ver

\* A PUT more is on its way, or one less.
LEMMA ComingCount ==
  /\ IsFiniteSet(Coming) /\ Cardinality(Coming) \in Nat
  /\ Coming' = Coming => Cardinality(Coming') = Cardinality(Coming)
  /\ \A p : p \notin Coming /\ Coming' = Coming \cup {p} =>
       Cardinality(Coming') = Cardinality(Coming) + 1
  /\ \A p \in Coming : Coming' = Coming \ {p} => Cardinality(Coming') = Cardinality(Coming) - 1
<1>1. IsFiniteSet(Coming)
  BY LimitServerAssumption, FS_Subset DEF Coming
<1> QED
  BY <1>1, FS_CardinalityType, FS_AddElement, FS_RemoveElement

\* What was a possible snapshot stays one.
LEMMA TakenGrows == puts \in Nat /\ puts' \in Nat /\ puts <= puts' => Taken \subseteq Taken'
BY DEF Taken, Snapshot, Ver
-----------------------------------------------------------------------------
(* Each action keeps the types.                                            *)

LEMMA InitTyped == Init => Typed
<1> SUFFICES ASSUME Init PROVE Typed
  OBVIOUS
<1>1. Cardinality(Coming) = 0
  <2>1. Coming = {}
    BY DEF Init, Coming
  <2> QED
    BY <2>1, FS_EmptySet
<1> QED
  BY <1>1, NoStatesSound, LimitServerAssumption
  DEF Init, Typed, AtWork, Step, NoVer, Ver

LEMMA PutBeginTyped ==
  ASSUME Typed, NEW h \in Handler, NEW k \in Key, NEW cap \in Capacity, PutBegin(h, k, cap)
  PROVE  Typed'
<1>1. Cardinality(Coming') = Cardinality(Coming) + 1
  <2>1. h \notin Coming /\ Coming' = Coming \cup {h}
    BY DEF Typed, PutBegin, Coming
  <2> QED
    BY <2>1, ComingCount
<1>2. NextState(registry[k], cap) \in {s \in LimitState : Sound(s)}
  BY NextStateSound DEF Typed, SoundStates, States
<1>3. work'[h] \in Work /\ DOMAIN work' = Handler
  BY <1>2, LimitServerAssumption DEF PutBegin, Typed, Work, Ver
<1>4. puts' \in 0 .. MaxPuts /\ puts' = puts + 1
  BY LimitServerAssumption DEF PutBegin, Typed
<1>5. Taken \subseteq Taken'
  BY <1>4, TakenGrows, LimitServerAssumption DEF Typed
<1>6. pc' \in [Handler -> Step] /\ \A p \in Handler : AtWork(p)'
  BY <1>3 DEF PutBegin, Typed, AtWork, Step
<1>7. snap' \in [Handler -> Taken' \cup {None}] /\ disk' \in [Inode -> Taken' \cup {Empty, Torn}]
  BY <1>5 DEF PutBegin, Typed, files
<1>8. \A j \in Key : ver'[j] + Cardinality(Coming') <= puts'
  BY <1>1, <1>4, ComingCount DEF PutBegin, Typed, memory, Ver
<1> QED
  BY <1>3, <1>4, <1>6, <1>7, <1>8 DEF Typed, PutBegin, memory, files

LEMMA PutApplyTyped ==
  ASSUME Typed, NEW h \in Handler, PutApply(h)
  PROVE  Typed'
<1>1. Cardinality(Coming') = Cardinality(Coming)
  <2>1. Coming' = Coming
    BY DEF Typed, PutApply, Coming
  <2> QED
    BY <2>1
<1>2. work[h] \in Work
  BY DEF Typed, PutApply, AtWork
<1>3. SoundStates(backend')
  <2>1. work[h].key \in Key /\ work[h].cap \in Capacity
    BY <1>2 DEF Work
  <2>2. NextState(backend[work[h].key], work[h].cap) \in LimitState
        /\ Sound(NextState(backend[work[h].key], work[h].cap))
    BY <2>1, NextStateSound DEF Typed, SoundStates, States
  <2> QED
    BY <2>1, <2>2, ReplaceSound DEF PutApply, Typed
<1>4. pc' \in [Handler -> Step] /\ \A p \in Handler : AtWork(p)'
  BY <1>2 DEF PutApply, Typed, AtWork, Step
<1>5. Taken' = Taken
  BY DEF PutApply, Taken
<1> QED
  BY <1>1, <1>3, <1>4, <1>5 DEF Typed, PutApply, files

LEMMA RegistryPutTyped ==
  ASSUME Typed, NEW p \in Handler, RegistryPut(p)
  PROVE  Typed'
<1>1. Cardinality(Coming') = Cardinality(Coming) - 1 /\ Cardinality(Coming) \in Nat
  <2>1. p \in Coming /\ Coming' = Coming \ {p}
    BY DEF Typed, RegistryPut, Coming
  <2> QED
    BY <2>1, ComingCount
<1>2. Cardinality(Coming) >= 1
  <2>1. Cardinality(Coming') \in Nat
    <3>1. IsFiniteSet(Coming')
      BY LimitServerAssumption, FS_Subset DEF Coming
    <3> QED
      BY <3>1, FS_CardinalityType
  <2> QED
    BY <1>1, <2>1
<1>3. work[p] \in Work
  BY DEF Typed, RegistryPut, AtWork
<1>4. SoundStates(registry')
  BY <1>3, ReplaceSound DEF RegistryPut, Typed, Work
<1>5. /\ ver' \in [Key -> Ver] /\ ver[work[p].key] + 1 \in Ver
      /\ \A k \in Key : ver'[k] + Cardinality(Coming') <= puts'
  <2>1. work[p].key \in Key /\ puts \in 0 .. MaxPuts
        /\ \A k \in Key : ver[k] \in 0 .. MaxPuts /\ ver[k] + 1 <= puts
    BY <1>1, <1>2, <1>3 DEF Typed, Work, Ver
  <2> QED
    BY <1>1, <2>1, LimitServerAssumption DEF RegistryPut, Typed, Ver
<1>6. work'[p] \in Work /\ DOMAIN work' = Handler
  BY <1>3, <1>5 DEF RegistryPut, Typed, Work
<1>7. pc' \in [Handler -> Step] /\ \A q \in Handler : AtWork(q)'
  BY <1>6 DEF RegistryPut, Typed, AtWork, Step
<1>8. Taken' = Taken
  BY DEF RegistryPut, Taken
<1> QED
  BY <1>4, <1>5, <1>6, <1>7, <1>8 DEF Typed, RegistryPut, files

\* No step after the registry's update changes which PUTs are coming.
LEMMA SameComing ==
  ASSUME Typed, NEW p \in Handler, pc[p] \notin {"apply", "put"},
         NEW s \in Step \ {"apply", "put"}, pc' = [pc EXCEPT ![p] = s]
  PROVE  Cardinality(Coming') = Cardinality(Coming) /\ pc' \in [Handler -> Step]
<1>1. Coming' = Coming
  BY DEF Typed, Coming
<1> QED
  BY <1>1 DEF Typed

LEMMA SaveSnapshotTyped ==
  ASSUME Typed, NEW p \in Handler, SaveSnapshot(p)
  PROVE  Typed'
<1>1. Cardinality(Coming') = Cardinality(Coming) /\ pc' \in [Handler -> Step]
  BY SameComing DEF SaveSnapshot, Step
<1>2. Taken' = Taken
  BY DEF SaveSnapshot, Taken
<1>3. [states |-> registry, ver |-> ver] \in Taken
  <2>1. Cardinality(Coming) \in Nat
    BY ComingCount
  <2>2. \A k \in Key : ver[k] <= puts
    BY <2>1, LimitServerAssumption DEF Typed, Ver
  <2> QED
    BY <2>2 DEF Taken, Snapshot, Typed, SoundStates
<1>4. snap' \in [Handler -> Taken' \cup {None}]
  BY <1>2, <1>3 DEF SaveSnapshot, Typed
<1>5. snap'[p] # None
  BY <1>3, LimitServerAssumption DEF SaveSnapshot, Typed, Taken
<1>6. \A q \in Handler : AtWork(q)'
  BY <1>5 DEF SaveSnapshot, Typed, AtWork
<1>7. mode' # "up" => \A q \in Handler : pc'[q] = "idle"
  BY DEF SaveSnapshot, Typed
<1> QED
  BY <1>1, <1>2, <1>4, <1>6, <1>7 DEF SaveSnapshot, Typed, memory, files

LEMMA SaveOpenTyped ==
  ASSUME Typed, NEW p \in Handler, SaveOpen(p)
  PROVE  Typed'
<1>1. Cardinality(Coming') = Cardinality(Coming) /\ pc' \in [Handler -> Step]
  BY SameComing DEF SaveOpen, Step
<1>2. Taken' = Taken
  BY DEF SaveOpen, Taken
<1>3. PICK i \in FileNamed(tmp) :
        /\ tmp' = i
        /\ disk' = [disk EXCEPT ![i] = Empty]
        /\ fd' = [fd EXCEPT ![p] = i]
  BY DEF SaveOpen
<1>4. i \in Inode /\ i # None
  BY <1>3, LimitServerAssumption DEF FileNamed, Typed
<1>5. /\ tmp' \in Inode \cup {None}
      /\ disk' \in [Inode -> Taken' \cup {Empty, Torn}]
      /\ fd' \in [Handler -> Inode \cup {None}]
  BY <1>2, <1>3, <1>4 DEF Typed
<1>6. \A q \in Handler : AtWork(q)'
  BY <1>3, <1>4 DEF SaveOpen, Typed, AtWork
<1>7. mode' # "up" => \A q \in Handler : pc'[q] = "idle"
  BY DEF SaveOpen, Typed
<1> QED
  BY <1>1, <1>2, <1>5, <1>6, <1>7 DEF SaveOpen, Typed, memory

LEMMA SaveWriteTyped ==
  ASSUME Typed, NEW p \in Handler, SaveWrite(p)
  PROVE  Typed'
<1>1. Cardinality(Coming') = Cardinality(Coming) /\ pc' \in [Handler -> Step]
  BY SameComing DEF SaveWrite, Step
<1>2. Taken' = Taken
  BY DEF SaveWrite, Taken
<1>3. snap[p] \in Taken /\ fd[p] \in Inode
  BY DEF SaveWrite, Typed, AtWork
<1>4. disk' \in [Inode -> Taken' \cup {Empty, Torn}]
  BY <1>2, <1>3 DEF SaveWrite, Typed
<1>5. \A q \in Handler : AtWork(q)'
  BY DEF SaveWrite, Typed, AtWork
<1>6. mode' # "up" => \A q \in Handler : pc'[q] = "idle"
  BY DEF SaveWrite, Typed
<1> QED
  BY <1>1, <1>2, <1>4, <1>5, <1>6 DEF SaveWrite, Typed, memory

\* The end of a PUT, answered ok or not.
LEMMA AnswerTyped ==
  ASSUME Typed, NEW p \in Handler, pc[p] \notin {"idle", "apply", "put"}, NEW ok \in BOOLEAN,
         Answer(p, ok), UNCHANGED <<mode, puts>>
  PROVE  /\ Cardinality(Coming') = Cardinality(Coming) /\ pc' \in [Handler -> Step]
         /\ Taken' = Taken
         /\ DOMAIN work' = Handler
         /\ snap' \in [Handler -> Taken' \cup {None}]
         /\ fd' \in [Handler -> Inode \cup {None}]
         /\ acked' \in [Key -> Ver]
         /\ \A q \in Handler : AtWork(q)'
         /\ mode' # "up" => \A q \in Handler : pc'[q] = "idle"
<1>1. Cardinality(Coming') = Cardinality(Coming) /\ pc' \in [Handler -> Step]
  BY SameComing DEF Answer, Step
<1>2. Taken' = Taken
  BY DEF Taken
<1>3. work[p] \in Work
  BY DEF Typed, AtWork
<1>4. acked' \in [Key -> Ver]
  BY <1>3 DEF Answer, Typed, Work
<1>5. DOMAIN work' = Handler /\ snap' \in [Handler -> Taken' \cup {None}]
      /\ fd' \in [Handler -> Inode \cup {None}]
  BY <1>2 DEF Answer, Typed
<1>6. \A q \in Handler : AtWork(q)'
  BY DEF Answer, Typed, AtWork
<1>7. mode' # "up" => \A q \in Handler : pc'[q] = "idle"
  BY DEF Answer, Typed
<1> QED
  BY <1>1, <1>2, <1>4, <1>5, <1>6, <1>7

LEMMA SaveRenameTyped ==
  ASSUME Typed, NEW p \in Handler, SaveRename(p)
  PROVE  Typed'
<1>1. /\ Answer(p, TRUE) /\ pc[p] = "rename" /\ path' = tmp /\ tmp' = None
      /\ UNCHANGED <<memory, disk, mode, puts>>
  BY DEF SaveRename
<1> QED
  BY <1>1, AnswerTyped DEF Typed, memory

LEMMA SaveRemoveTyped ==
  ASSUME Typed, NEW p \in Handler, SaveRemove(p)
  PROVE  Typed'
<1>1. /\ Answer(p, FALSE) /\ pc[p] = "remove" /\ tmp' = None
      /\ UNCHANGED <<memory, path, disk, mode, puts>>
  BY DEF SaveRemove
<1> QED
  BY <1>1, AnswerTyped DEF Typed, memory

LEMMA SaveFailsTyped ==
  ASSUME Typed, NEW p \in Handler, SaveFails(p)
  PROVE  Typed'
<1>1. CASE pc[p] = "open"
  <2>1. Answer(p, FALSE) /\ UNCHANGED <<memory, tmp, path, disk, mode, puts>>
    BY <1>1 DEF SaveFails
  <2> QED
    BY <1>1, <2>1, AnswerTyped DEF Typed, memory
<1>2. CASE pc[p] \in {"write", "rename"}
  <2>1. pc' = [pc EXCEPT ![p] = "remove"]
        /\ UNCHANGED <<memory, work, snap, fd, acked, tmp, path, mode, puts>>
    BY <1>2 DEF SaveFails
  <2>2. Cardinality(Coming') = Cardinality(Coming) /\ pc' \in [Handler -> Step]
    BY <1>2, <2>1, SameComing DEF Step
  <2>3. Taken' = Taken
    BY <2>1 DEF Taken
  <2>4. disk' \in [Inode -> Taken' \cup {Empty, Torn}]
    <3>1. fd[p] \in Inode
      BY <1>2 DEF Typed, AtWork
    <3> QED
      BY <1>2, <2>3, <3>1 DEF SaveFails, Typed
  <2>5. \A q \in Handler : AtWork(q)'
    BY <1>2, <2>1 DEF Typed, AtWork
  <2>6. mode' # "up" => \A q \in Handler : pc'[q] = "idle"
    BY <1>2, <2>1 DEF Typed
  <2> QED
    BY <2>1, <2>2, <2>3, <2>4, <2>5, <2>6 DEF Typed, memory
<1> QED
  BY <1>1, <1>2 DEF SaveFails

LEMMA CrashTyped == Typed /\ Crash => Typed'
<1> SUFFICES ASSUME Typed, Crash PROVE Typed'
  OBVIOUS
<1>1. Cardinality(Coming') = 0
  <2>1. Coming' = {}
    BY DEF Crash, Coming
  <2> QED
    BY <2>1, FS_EmptySet
<1>2. Taken' = Taken
  BY DEF Crash, Taken
<1> QED
  BY <1>1, <1>2, NoStatesSound, LimitServerAssumption
  DEF Crash, Typed, AtWork, Step, NoVer, Ver, files

LEMMA RestartTyped == Typed /\ Restart => Typed'
<1> SUFFICES ASSUME Typed, Restart PROVE Typed'
  OBVIOUS
<1>1. Cardinality(Coming') = 0 /\ Cardinality(Coming) = 0
  <2>1. Coming' = {} /\ Coming = {}
    BY DEF Restart, Typed, Coming
  <2> QED
    BY <2>1, FS_EmptySet
<1>2. Taken' = Taken
  BY DEF Restart, Taken
<1>3. mode' \in {"up", "failed"} /\ \A q \in Handler : pc'[q] = "idle" /\ AtWork(q)'
  BY DEF Restart, Typed, AtWork
<1>4. SoundStates(registry') /\ SoundStates(backend') /\ ver' \in [Key -> Ver]
      /\ \A k \in Key : ver'[k] <= puts
  <2>1. CASE mode' = "failed"
    BY <1>1, <2>1, LimitServerAssumption DEF Restart, Typed, memory, Ver
  <2>2. CASE mode' = "up" /\ path = None
    BY <2>2, NoStatesSound DEF Restart, Typed, NoVer
  <2>3. CASE mode' = "up" /\ path # None
    <3>1. disk[path] \in Taken
      BY <2>3 DEF Restart, Typed
    <3>2. registry' = disk[path].states /\ ver' = disk[path].ver /\ backend' = registry'
      BY <2>3 DEF Restart
    <3> QED
      BY <3>1, <3>2 DEF Taken, Snapshot
  <2> QED
    BY <1>3, <2>1, <2>2, <2>3
<1>5. UNCHANGED <<pc, work, snap, fd, tmp, path, disk, puts>>
  BY DEF Restart, files
<1>6. \A k \in Key : ver'[k] + Cardinality(Coming') <= puts'
  BY <1>1, <1>4, <1>5 DEF Ver
<1>7. acked' \in [Key -> Ver]
  BY <1>4 DEF Restart, Typed
<1> QED
  BY <1>2, <1>3, <1>4, <1>5, <1>6, <1>7 DEF Typed

LEMMA NextTyped == Typed /\ [Next]_vars => Typed'
<1> SUFFICES ASSUME Typed, [Next]_vars PROVE Typed'
  OBVIOUS
<1>1. CASE UNCHANGED vars
  BY <1>1 DEF Typed, vars, memory, files, AtWork, Taken, Coming
<1>2. CASE \E h \in Handler, k \in Key, cap \in Capacity : PutBegin(h, k, cap)
  BY <1>2, PutBeginTyped
<1>3. CASE \E h \in Handler : PutApply(h)
  BY <1>3, PutApplyTyped
<1>4. CASE \E h \in Handler : RegistryPut(h)
  BY <1>4, RegistryPutTyped
<1>5. CASE \E h \in Handler : Save(h)
  BY <1>5, SaveSnapshotTyped, SaveOpenTyped, SaveWriteTyped, SaveRenameTyped, SaveFailsTyped,
     SaveRemoveTyped DEF Save
<1>6. CASE Crash \/ Restart
  BY <1>6, CrashTyped, RestartTyped
<1> QED
  BY <1>1, <1>2, <1>3, <1>4, <1>5, <1>6 DEF Next

\* The history of what met what stays within its types.
LEMMA NextMet == Typed /\ MetTyped /\ [Next]_vars => MetTyped'
<1> SUFFICES ASSUME Typed, MetTyped, [Next]_vars PROVE MetTyped'
  OBVIOUS
<1>1. CASE UNCHANGED vars
  BY <1>1 DEF MetTyped, vars, met
<1>2. CASE \E h \in Handler, k \in Key, cap \in Capacity : PutBegin(h, k, cap)
  BY <1>2 DEF MetTyped, PutBegin
<1>3. CASE \E h \in Handler : PutApply(h) \/ RegistryPut(h)
  BY <1>3 DEF MetTyped, PutApply, RegistryPut, met
<1>4. ASSUME NEW h \in Handler, Save(h) PROVE MetTyped'
  <2>1. CASE SaveSnapshot(h)
    BY <2>1 DEF MetTyped, SaveSnapshot, Saving
  <2>2. CASE SaveOpen(h) \/ SaveWrite(h)
    BY <2>2 DEF MetTyped, SaveOpen, SaveWrite, met
  <2>3. CASE SaveRename(h)
    <3>1. crossed' = (h \in lapped) /\ lapped' = lapped \ {h} /\ clash' = clash
      BY <2>3 DEF SaveRename, Answer
    <3>2. crossed' \in BOOLEAN
      <4>1. (h \in lapped) \in BOOLEAN
        OBVIOUS
      <4> QED
        BY ONLY <3>1, <4>1
    <3> QED
      BY <3>1, <3>2 DEF MetTyped
  <2>4. CASE SaveFails(h) \/ SaveRemove(h)
    BY <2>4 DEF MetTyped, SaveFails, SaveRemove, Answer
  <2> QED
    BY <1>4, <2>1, <2>2, <2>3, <2>4 DEF Save
<1>5. CASE Crash \/ Restart
  BY <1>5 DEF MetTyped, Crash, Restart
<1> QED
  BY <1>1, <1>2, <1>3, <1>4, <1>5 DEF Next

\* However many PUT handlers run at once, and wherever a crash or a failing
\* disk stops them: the registry, the backend, every snapshot and every
\* readable file hold well-formed limit states, a pending decrease is one,
\* and no key has seen more updates than there were PUTs.
THEOREM TypeCorrect == Spec => []TypeOK
<1>1. Init => Typed /\ MetTyped
  BY InitTyped DEF Init, MetTyped
<1>2. Typed /\ MetTyped /\ [Next]_vars => Typed' /\ MetTyped'
  BY NextTyped, NextMet
<1>3. Typed /\ MetTyped => TypeOK
  BY TypedGives
<1> QED
  BY <1>1, <1>2, <1>3, PTL DEF Spec
-----------------------------------------------------------------------------
(* Each action keeps the rest of the invariant.                            *)

LEMMA InitKeeps == Init => KeepInv
<1> SUFFICES ASSUME Init PROVE KeepInv
  OBVIOUS
<1>1. Typed /\ MetTyped
  BY InitTyped DEF Init, MetTyped
<1>2. \A k \in Key : acked[k] = 0 /\ ver[k] = 0 /\ registry[k] = backend[k]
  BY DEF Init, NoVer, NoStates
<1>3. Saving = {} /\ \A k \in Key : Updating(k) = {}
  BY DEF Init, Saving, Updating
<1> QED
  BY <1>1, <1>2, <1>3
  DEF Init, KeepInv, FileLoadable, Apart, SaveInFile, UpdateInStep, AckedEverywhere

LEMMA PutBeginKeeps ==
  ASSUME KeepInv, NEW h \in Handler, NEW k \in Key, NEW cap \in Capacity, PutBegin(h, k, cap)
  PROVE  KeepInv'
<1>1. Typed /\ Typed' /\ MetTyped'
  BY PutBeginTyped, NextMet DEF KeepInv, Next
<1>2. /\ pc[h] = "idle" /\ pc' = [pc EXCEPT ![h] = "apply"] /\ pc \in [Handler -> Step]
      /\ work' = [work EXCEPT ![h] = work'[h]] /\ DOMAIN work = Handler
      /\ UNCHANGED <<backend, registry, ver, snap, fd, tmp, path, disk, mode, acked, lapped, crossed>>
  BY <1>1 DEF PutBegin, memory, files, Typed
<1>3. /\ work'[h].key = k /\ work'[h].cap = cap
      /\ work'[h].next = NextState(registry[k], cap)
  BY <1>1 DEF PutBegin, Typed
<1>4. Saving' = Saving /\ h \notin Saving
  BY <1>2 DEF Saving
<1>5. FileLoadable' /\ Apart' /\ SaveInFile'
  <2>1. FileLoadable'
    BY <1>2 DEF KeepInv, FileLoadable
  <2>2. Apart'
    BY <1>2, <1>4 DEF KeepInv, Apart
  <2>3. \A p \in Saving : pc'[p] = pc[p] /\ work'[p] = work[p]
    BY <1>2, <1>4 DEF Saving
  <2> QED
    BY <1>2, <1>4, <2>1, <2>2, <2>3 DEF KeepInv, SaveInFile
<1>6. UpdateInStep'
  <2> SUFFICES ASSUME NEW j \in Key \ clash'
               PROVE  /\ \A p, q \in Updating(j)' : p = q
                      /\ (\A p \in Updating(j)' : pc'[p] = "apply") => registry'[j] = backend'[j]
                      /\ \A p \in Updating(j)' :
                           /\ pc'[p] = "apply" => work'[p].next = NextState(registry'[j], work'[p].cap)
                           /\ pc'[p] = "put" => backend'[j] = work'[p].next
    BY DEF UpdateInStep
  <2>1. j \notin clash
    BY DEF PutBegin
  <2>2. \A p \in Updating(j) : p # h /\ pc'[p] = pc[p] /\ work'[p] = work[p]
    BY <1>2 DEF Updating
  <2>3. CASE j = k
    <3>1. Updating(k) = {}
      BY <2>3 DEF PutBegin
    <3>2. Updating(j)' = {h} /\ pc'[h] = "apply"
      BY <1>2, <1>3, <2>3, <3>1 DEF Updating
    <3>3. registry[j] = backend[j]
      BY <2>1, <2>3, <3>1 DEF KeepInv, UpdateInStep
    <3> QED
      BY <1>2, <1>3, <2>3, <3>2, <3>3
  <2>4. CASE j # k
    <3>1. Updating(j)' = Updating(j)
      BY <1>2, <1>3, <2>4 DEF Updating
    <3> QED
      BY <1>2, <2>1, <2>2, <3>1 DEF KeepInv, UpdateInStep
  <2> QED
    BY <2>3, <2>4
<1>7. AckedEverywhere'
  BY <1>2 DEF KeepInv, AckedEverywhere
<1> QED
  BY <1>1, <1>5, <1>6, <1>7 DEF KeepInv

LEMMA PutApplyKeeps ==
  ASSUME KeepInv, NEW h \in Handler, PutApply(h)
  PROVE  KeepInv'
<1>1. Typed /\ Typed' /\ MetTyped'
  BY PutApplyTyped, NextMet DEF KeepInv, Next
<1>2. /\ pc[h] = "apply" /\ pc' = [pc EXCEPT ![h] = "put"] /\ pc \in [Handler -> Step]
      /\ UNCHANGED <<registry, ver, work, snap, fd, tmp, path, disk, mode, acked, clash, lapped, crossed>>
  BY <1>1 DEF PutApply, files, met, Typed
<1>3. Saving' = Saving /\ h \notin Saving /\ \A k \in Key : Updating(k)' = Updating(k)
  BY <1>2 DEF Saving, Updating
<1>4. FileLoadable' /\ Apart' /\ SaveInFile'
  <2>1. FileLoadable'
    BY <1>2 DEF KeepInv, FileLoadable
  <2>2. Apart'
    BY <1>2, <1>3 DEF KeepInv, Apart
  <2>3. \A p \in Saving : pc'[p] = pc[p]
    BY <1>2, <1>3 DEF Saving
  <2> QED
    BY <1>2, <1>3, <2>1, <2>2, <2>3 DEF KeepInv, SaveInFile
<1>5. UpdateInStep'
  <2> SUFFICES ASSUME NEW j \in Key \ clash
               PROVE  /\ \A p, q \in Updating(j)' : p = q
                      /\ (\A p \in Updating(j)' : pc'[p] = "apply") => registry'[j] = backend'[j]
                      /\ \A p \in Updating(j)' :
                           /\ pc'[p] = "apply" => work'[p].next = NextState(registry'[j], work'[p].cap)
                           /\ pc'[p] = "put" => backend'[j] = work'[p].next
    BY <1>2 DEF UpdateInStep
  <2>1. work[h].key \in Key /\ DOMAIN backend = Key
    BY <1>1, <1>2 DEF Typed, AtWork, Work, SoundStates, States
  <2>2. CASE j = work[h].key
    <3>1. Updating(j) = {h}
      BY <1>2, <2>2 DEF KeepInv, UpdateInStep, Updating
    <3>2. registry[j] = backend[j] /\ work[h].next = NextState(registry[j], work[h].cap)
      BY <1>2, <3>1 DEF KeepInv, UpdateInStep
    <3>3. backend'[j] = NextState(backend[j], work[h].cap)
      BY <2>1, <2>2 DEF PutApply
    <3> QED
      BY <1>2, <1>3, <3>1, <3>2, <3>3
  <2>3. CASE j # work[h].key
    <3>1. backend'[j] = backend[j] /\ h \notin Updating(j)
      BY <2>1, <2>3 DEF PutApply, Updating
    <3>2. \A p \in Updating(j) : pc'[p] = pc[p]
      BY <1>2, <3>1 DEF Updating
    <3> QED
      BY <1>2, <1>3, <3>1, <3>2 DEF KeepInv, UpdateInStep
  <2> QED
    BY <2>2, <2>3
<1>6. AckedEverywhere'
  BY <1>2 DEF KeepInv, AckedEverywhere
<1> QED
  BY <1>1, <1>4, <1>5, <1>6 DEF KeepInv

LEMMA RegistryPutKeeps ==
  ASSUME KeepInv, NEW p \in Handler, RegistryPut(p)
  PROVE  KeepInv'
<1>1. Typed /\ Typed' /\ MetTyped'
  BY RegistryPutTyped, NextMet DEF KeepInv, Next
<1>2. /\ pc[p] = "put" /\ pc' = [pc EXCEPT ![p] = "snap"] /\ pc \in [Handler -> Step] /\ mode = "up"
      /\ work' = [work EXCEPT ![p] = work'[p]] /\ DOMAIN work = Handler
      /\ UNCHANGED <<backend, snap, fd, tmp, path, disk, mode, acked, clash, lapped, crossed>>
  BY <1>1 DEF RegistryPut, files, met, Typed
<1>3. /\ work[p].key \in Key /\ work'[p].key = work[p].key /\ work'[p].ver = ver'[work[p].key]
      /\ registry' = [registry EXCEPT ![work[p].key] = work[p].next] /\ DOMAIN registry = Key
  BY <1>1, <1>2 DEF RegistryPut, Typed, AtWork, Work, SoundStates, States
<1>4. \A k \in Key : ver[k] \in Nat /\ ver'[k] \in Nat /\ ver[k] <= ver'[k]
  BY <1>1, <1>3, LimitServerAssumption DEF RegistryPut, Typed, Ver
<1>5. Saving' = Saving /\ p \notin Saving
  BY <1>2 DEF Saving
<1>6. FileLoadable' /\ Apart' /\ SaveInFile'
  <2>1. FileLoadable'
    BY <1>2 DEF KeepInv, FileLoadable
  <2>2. Apart'
    BY <1>2, <1>5 DEF KeepInv, Apart
  <2>3. \A q \in Saving : pc'[q] = pc[q] /\ work'[q] = work[q]
    BY <1>2, <1>5 DEF Saving
  <2> QED
    BY <1>2, <1>5, <2>1, <2>2, <2>3 DEF KeepInv, SaveInFile
<1>7. UpdateInStep'
  <2> SUFFICES ASSUME NEW j \in Key \ clash
               PROVE  /\ \A q, r \in Updating(j)' : q = r
                      /\ (\A q \in Updating(j)' : pc'[q] = "apply") => registry'[j] = backend'[j]
                      /\ \A q \in Updating(j)' :
                           /\ pc'[q] = "apply" => work'[q].next = NextState(registry'[j], work'[q].cap)
                           /\ pc'[q] = "put" => backend'[j] = work'[q].next
    BY <1>2 DEF UpdateInStep
  <2>1. CASE j = work[p].key
    <3>1. Updating(j) = {p} /\ backend[j] = work[p].next
      BY <1>2, <2>1 DEF KeepInv, UpdateInStep, Updating
    <3>2. Updating(j)' = {}
      BY <1>2, <1>3, <3>1 DEF Updating
    <3> QED
      BY <1>2, <1>3, <2>1, <3>1, <3>2
  <2>2. CASE j # work[p].key
    <3>1. Updating(j)' = Updating(j) /\ p \notin Updating(j) /\ registry'[j] = registry[j]
      BY <1>2, <1>3, <2>2 DEF Updating
    <3>2. \A q \in Updating(j) : pc'[q] = pc[q] /\ work'[q] = work[q]
      BY <1>2, <3>1 DEF Updating
    <3> QED
      BY <1>2, <3>1, <3>2 DEF KeepInv, UpdateInStep
  <2> QED
    BY <2>1, <2>2
<1>8. AckedEverywhere'
  <2>1. \A k \in Key : acked[k] <= ver'[k]
    <3>1. \A k \in Key : acked[k] \in Nat /\ acked[k] <= ver[k]
      BY <1>1, <1>2 DEF KeepInv, AckedEverywhere, Typed, Ver
    <3> QED
      BY <1>4, <3>1
  <2>2. \A q \in Handler : pc'[q] \notin {"idle", "apply", "put"} => work'[q].ver <= ver'[work'[q].key]
    <3> SUFFICES ASSUME NEW q \in Handler, pc'[q] \notin {"idle", "apply", "put"}
                 PROVE  work'[q].ver <= ver'[work'[q].key]
      OBVIOUS
    <3>1. CASE q = p
      BY <1>3, <1>4, <3>1
    <3>2. CASE q # p
      <4>1. pc'[q] = pc[q] /\ work'[q] = work[q] /\ work[q].key \in Key /\ work[q].ver \in Nat
        BY <1>1, <1>2, <3>2 DEF Typed, AtWork, Work, Ver
      <4>2. work[q].ver <= ver[work[q].key]
        BY <4>1 DEF KeepInv, AckedEverywhere
      <4> QED
        BY <1>4, <4>1, <4>2
    <3> QED
      BY <3>1, <3>2
  <2> QED
    BY <1>2, <2>1, <2>2 DEF KeepInv, AckedEverywhere
<1> QED
  BY <1>1, <1>6, <1>7, <1>8 DEF KeepInv

\* No step of a Save is one of an update.
LEMMA SaveNotUpdate ==
  ASSUME KeepInv, NEW p \in Handler, pc[p] \notin {"idle", "apply", "put"},
         pc'[p] \notin {"apply", "put"},
         \A q \in Handler : q # p => pc'[q] = pc[q] /\ work'[q] = work[q],
         UNCHANGED <<backend, registry, clash>>
  PROVE  UpdateInStep'
<1> SUFFICES ASSUME NEW j \in Key \ clash
             PROVE  /\ \A q, r \in Updating(j)' : q = r
                    /\ (\A q \in Updating(j)' : pc'[q] = "apply") => registry'[j] = backend'[j]
                    /\ \A q \in Updating(j)' :
                         /\ pc'[q] = "apply" => work'[q].next = NextState(registry'[j], work'[q].cap)
                         /\ pc'[q] = "put" => backend'[j] = work'[q].next
  BY DEF UpdateInStep
<1>2. Updating(j)' = Updating(j) /\ p \notin Updating(j)
  BY DEF Updating
<1>3. \A q \in Updating(j) : pc'[q] = pc[q] /\ work'[q] = work[q]
  BY <1>2 DEF Updating
<1> QED
  BY <1>2, <1>3 DEF KeepInv, UpdateInStep

\* Its snapshot has every acknowledged update and its own.
LEMMA SaveSnapshotKeeps ==
  ASSUME KeepInv, NEW p \in Handler, SaveSnapshot(p)
  PROVE  KeepInv'
<1>1. Typed /\ Typed' /\ MetTyped /\ MetTyped'
  BY SaveSnapshotTyped, NextMet DEF KeepInv, Next, Save
<1>2. /\ pc[p] = "snap" /\ pc' = [pc EXCEPT ![p] = "open"] /\ pc \in [Handler -> Step] /\ mode = "up"
      /\ snap'[p] = [states |-> registry, ver |-> ver]
      /\ lapped' = IF Saving = {} THEN lapped ELSE lapped \cup Saving \cup {p}
      /\ UNCHANGED <<backend, registry, ver, work, fd, tmp, path, disk, mode, acked, clash, crossed>>
  BY <1>1 DEF SaveSnapshot, memory, files, Typed
<1>3. p \notin Saving /\ Saving' = Saving \cup {p} /\ lapped \subseteq lapped'
  BY <1>2 DEF Saving
<1>4. \A q \in Saving' \ lapped' : q = p /\ Saving' = {p}
  BY <1>2, <1>3
<1>5. FileLoadable' /\ Apart'
  BY <1>2, <1>3, <1>4 DEF KeepInv, FileLoadable, Apart
<1>6. SaveInFile'
  <2>1. work[p].ver <= ver[work[p].key] /\ \A k \in Key : acked[k] <= ver[k]
    BY <1>2 DEF KeepInv, AckedEverywhere
  <2> QED
    BY <1>2, <1>4, <2>1 DEF SaveInFile
<1>7. UpdateInStep'
  <2>1. pc'[p] \notin {"apply", "put"} /\ \A q \in Handler : q # p => pc'[q] = pc[q] /\ work'[q] = work[q]
    BY <1>2
  <2>2. pc[p] \notin {"idle", "apply", "put"}
    BY <1>2
  <2> QED
    BY <1>2, <2>1, <2>2, SaveNotUpdate
<1>8. AckedEverywhere'
  BY <1>2 DEF KeepInv, AckedEverywhere
<1> QED
  BY <1>1, <1>5, <1>6, <1>7, <1>8 DEF KeepInv

\* The temporary file is not the registry's, so emptying it loses nothing.
LEMMA SaveOpenKeeps ==
  ASSUME KeepInv, NEW p \in Handler, SaveOpen(p)
  PROVE  KeepInv'
<1>1. Typed /\ Typed' /\ MetTyped /\ MetTyped'
  BY SaveOpenTyped, NextMet DEF KeepInv, Next, Save
<1>2. /\ pc[p] = "open" /\ pc' = [pc EXCEPT ![p] = "write"] /\ pc \in [Handler -> Step]
      /\ UNCHANGED <<backend, registry, ver, work, snap, path, mode, acked, clash, lapped, crossed>>
  BY <1>1 DEF SaveOpen, memory, met, Typed
<1>3. PICK i \in FileNamed(tmp) :
        /\ tmp' = i
        /\ disk' = [disk EXCEPT ![i] = Empty]
        /\ fd' = [fd EXCEPT ![p] = i]
  BY DEF SaveOpen
<1>4. i \in Inode /\ i # None /\ i # path
  BY <1>1, <1>3, LimitServerAssumption DEF FileNamed, Typed, KeepInv, Apart
<1>5. disk'[i] = Empty /\ fd'[p] = i /\ (path # None => disk'[path] = disk[path])
      /\ \A q \in Handler : q # p => fd'[q] = fd[q]
  BY <1>1, <1>3, <1>4 DEF Typed
<1>6. Saving' = Saving
  BY <1>2 DEF Saving
<1>7. FileLoadable' /\ Apart'
  BY <1>2, <1>3, <1>4, <1>5, <1>6 DEF KeepInv, FileLoadable, Apart
<1>8. SaveInFile'
  <2> SUFFICES ASSUME NEW q \in Saving \ lapped
               PROVE  /\ pc'[q] # "open" => tmp' # None /\ fd'[q] = tmp'
                      /\ pc'[q] = "write" => disk'[tmp'] = Empty
                      /\ pc'[q] = "rename" => disk'[tmp'] = snap'[q]
                      /\ pc'[q] # "remove" =>
                           /\ work'[q].ver <= snap'[q].ver[work'[q].key]
                           /\ \A k \in Key : acked'[k] <= snap'[q].ver[k]
    BY <1>2, <1>6 DEF SaveInFile
  <2>1. q = p
    BY <1>2 DEF KeepInv, Apart, Saving
  <2> QED
    BY <1>2, <1>3, <1>4, <1>5, <2>1 DEF KeepInv, SaveInFile
<1>9. UpdateInStep'
  <2>1. pc'[p] \notin {"apply", "put"} /\ \A q \in Handler : q # p => pc'[q] = pc[q] /\ work'[q] = work[q]
    BY <1>2
  <2>2. pc[p] \notin {"idle", "apply", "put"}
    BY <1>2
  <2> QED
    BY <1>2, <2>1, <2>2, SaveNotUpdate
<1>10. AckedEverywhere'
  BY <1>2, <1>5 DEF KeepInv, AckedEverywhere
<1> QED
  BY <1>1, <1>7, <1>8, <1>9, <1>10 DEF KeepInv

\* A write to a file that is not the registry's, when no Saves have met.
LEMMA SaveWriteKeeps ==
  ASSUME KeepInv, NEW p \in Handler, SaveWrite(p)
  PROVE  KeepInv'
<1>1. Typed /\ Typed' /\ MetTyped /\ MetTyped'
  BY SaveWriteTyped, NextMet DEF KeepInv, Next, Save
<1>2. /\ pc[p] = "write" /\ pc' = [pc EXCEPT ![p] = "rename"] /\ pc \in [Handler -> Step]
      /\ UNCHANGED <<backend, registry, ver, work, snap, fd, tmp, path, mode, acked, clash, lapped, crossed>>
  BY <1>1 DEF SaveWrite, memory, met, Typed
<1>3. ~crossed => (path # None => disk'[path] = disk[path])
  <2>1. ~crossed => fd[p] # path
    BY <1>2 DEF KeepInv, Apart
  <2> QED
    BY <1>1, <2>1 DEF SaveWrite, Typed
<1>4. Saving' = Saving
  BY <1>2 DEF Saving
<1>5. FileLoadable' /\ Apart'
  BY <1>2, <1>3, <1>4 DEF KeepInv, FileLoadable, Apart
<1>6. SaveInFile'
  <2> SUFFICES ASSUME NEW q \in Saving \ lapped
               PROVE  /\ pc'[q] # "open" => tmp' # None /\ fd'[q] = tmp'
                      /\ pc'[q] = "write" => disk'[tmp'] = Empty
                      /\ pc'[q] = "rename" => disk'[tmp'] = snap'[q]
                      /\ pc'[q] # "remove" =>
                           /\ work'[q].ver <= snap'[q].ver[work'[q].key]
                           /\ \A k \in Key : acked'[k] <= snap'[q].ver[k]
    BY <1>2, <1>4 DEF SaveInFile
  <2>1. q = p
    BY <1>2 DEF KeepInv, Apart, Saving
  <2>2. tmp \in Inode /\ fd[p] = tmp /\ tmp # None /\ disk[tmp] = Empty
    BY <1>1, <1>2, <2>1 DEF KeepInv, SaveInFile, Typed
  <2>3. disk'[tmp] = snap[p]
    BY <1>1, <2>2 DEF SaveWrite, Typed
  <2> QED
    BY <1>2, <2>1, <2>2, <2>3 DEF KeepInv, SaveInFile
<1>7. UpdateInStep'
  <2>1. pc'[p] \notin {"apply", "put"} /\ \A q \in Handler : q # p => pc'[q] = pc[q] /\ work'[q] = work[q]
    BY <1>2
  <2>2. pc[p] \notin {"idle", "apply", "put"}
    BY <1>2
  <2> QED
    BY <1>2, <2>1, <2>2, SaveNotUpdate
<1>8. AckedEverywhere'
  BY <1>2, <1>3 DEF KeepInv, AckedEverywhere
<1> QED
  BY <1>1, <1>5, <1>6, <1>7, <1>8 DEF KeepInv

\* The end of a PUT leaves the other Saves as they are.
LEMMA AnswerKeeps ==
  ASSUME KeepInv, NEW p \in Saving, NEW ok \in BOOLEAN, Answer(p, ok),
         UNCHANGED <<backend, registry, ver, clash>>
  PROVE  /\ Saving' = Saving \ {p} /\ Saving' \ lapped' = {}
         /\ pc'[p] = "idle" /\ \A q \in Handler : q # p => pc'[q] = pc[q] /\ fd'[q] = fd[q] /\ work'[q] = work[q]
         /\ UpdateInStep'
<1>1. Typed /\ p \in Handler /\ pc[p] \notin {"idle", "apply", "put"}
  BY DEF KeepInv, Saving
<1>2. /\ pc' = [pc EXCEPT ![p] = "idle"] /\ pc \in [Handler -> Step]
      /\ lapped' = lapped \ {p}
  BY <1>1 DEF Answer, Typed
<1>3. pc'[p] = "idle" /\ \A q \in Handler : q # p => pc'[q] = pc[q] /\ fd'[q] = fd[q] /\ work'[q] = work[q]
  BY <1>1, <1>2 DEF Answer, Typed
<1>4. Saving' = Saving \ {p}
  BY <1>1, <1>2 DEF Saving
<1>5. Saving' \ lapped' = {}
  BY <1>2, <1>4 DEF KeepInv, Apart
<1>6. UpdateInStep'
  BY <1>1, <1>3, SaveNotUpdate
<1> QED
  BY <1>3, <1>4, <1>5, <1>6

\* A Save that met no other puts a file in place that has every acknowledged
\* update and the one acknowledged now.
LEMMA SaveRenameKeeps ==
  ASSUME KeepInv, NEW p \in Handler, SaveRename(p)
  PROVE  KeepInv'
<1>1. Typed /\ Typed' /\ MetTyped /\ MetTyped'
  BY SaveRenameTyped, NextMet DEF KeepInv, Next, Save
<1>2. /\ pc[p] = "rename" /\ mode = "up" /\ p \in Saving
      /\ path' = tmp /\ tmp' = None /\ tmp # None /\ Answer(p, TRUE)
      /\ UNCHANGED <<backend, registry, ver, disk, mode, clash>>
      /\ (~crossed' => p \notin lapped)
  BY <1>1 DEF SaveRename, memory, Typed, Saving
<1>3. /\ Saving' = Saving \ {p} /\ Saving' \ lapped' = {} /\ pc'[p] = "idle"
      /\ \A q \in Handler : q # p => pc'[q] = pc[q] /\ fd'[q] = fd[q] /\ work'[q] = work[q]
      /\ UpdateInStep'
  BY <1>2, AnswerKeeps
<1>4. work[p].key \in Key /\ work[p].ver <= ver[work[p].key] /\ work[p].ver \in Nat
  BY <1>1, <1>2 DEF KeepInv, AckedEverywhere, Typed, AtWork, Work, Ver
<1>5. \A k \in Key : acked'[k] = acked[k] \/ (k = work[p].key /\ acked'[k] = work[p].ver)
  BY <1>1, <1>2, <1>4 DEF Answer, Typed
<1>6. \A k \in Key : acked'[k] <= ver[k]
  <2>1. \A k \in Key : acked[k] <= ver[k]
    BY <1>2 DEF KeepInv, AckedEverywhere
  <2> QED
    BY <1>4, <1>5, <2>1
<1>7. ~crossed' => /\ p \in Saving \ lapped /\ Saving' = {} /\ disk[tmp] = snap[p] /\ snap[p] \in Snapshot
                   /\ \A k \in Key : acked'[k] <= snap[p].ver[k]
  <2> SUFFICES ASSUME ~crossed'
               PROVE  /\ p \in Saving \ lapped /\ Saving' = {} /\ disk[tmp] = snap[p] /\ snap[p] \in Snapshot
                      /\ \A k \in Key : acked'[k] <= snap[p].ver[k]
    OBVIOUS
  <2>1. p \in Saving \ lapped /\ Saving = {p}
    BY <1>2 DEF KeepInv, Apart
  <2>2. /\ disk[tmp] = snap[p] /\ work[p].ver <= snap[p].ver[work[p].key]
        /\ \A k \in Key : acked[k] <= snap[p].ver[k]
    BY <1>2, <2>1 DEF KeepInv, SaveInFile
  <2>3. snap[p] \in Snapshot
    BY <1>1, <1>2 DEF Typed, AtWork, Taken
  <2> QED
    BY <1>3, <1>5, <2>1, <2>2, <2>3
<1>8. FileLoadable' /\ Apart' /\ SaveInFile'
  <2>1. ~crossed' => \A q \in Handler : pc'[q] # "write"
    BY <1>7 DEF Saving
  <2> QED
    BY <1>2, <1>3, <1>7, <2>1 DEF FileLoadable, Apart, SaveInFile
<1>9. AckedEverywhere'
  <2>1. ~crossed' => \A k \in Key : acked'[k] > 0 => path' # None /\ disk'[path'].ver[k] >= acked'[k]
    <3>1. \A k \in Key : acked'[k] \in Nat /\ (snap[p] \in Snapshot => snap[p].ver[k] \in Nat)
      BY <1>1 DEF Typed, Ver, Snapshot
    <3> QED
      BY <1>2, <1>7, <3>1
  <2>2. \A q \in Handler :
          pc'[q] \notin {"idle", "apply", "put"} => work'[q].ver <= ver'[work'[q].key]
    BY <1>2, <1>3 DEF KeepInv, AckedEverywhere
  <2> QED
    BY <1>2, <1>6, <2>1, <2>2 DEF AckedEverywhere
<1> QED
  BY <1>1, <1>3, <1>8, <1>9 DEF KeepInv

\* A PUT that ends without a rename acknowledges nothing and leaves the
\* registry's file alone.
LEMMA FailedAnswerKeeps ==
  ASSUME KeepInv, Typed', MetTyped', NEW p \in Saving, Answer(p, FALSE), tmp' \in {tmp, None},
         UNCHANGED <<memory, path, disk, mode, clash, crossed>>
  PROVE  KeepInv'
<1>1. Typed /\ p \in Handler
  BY DEF KeepInv, Saving
<1>2. UNCHANGED <<backend, registry, ver, acked>>
  BY DEF memory, Answer
<1>3. /\ Saving' = Saving \ {p} /\ Saving' \ lapped' = {} /\ pc'[p] = "idle"
      /\ \A q \in Handler : q # p => pc'[q] = pc[q] /\ fd'[q] = fd[q] /\ work'[q] = work[q]
      /\ UpdateInStep'
  BY <1>2, AnswerKeeps
<1>4. FileLoadable' /\ Apart' /\ SaveInFile'
  BY <1>3 DEF KeepInv, FileLoadable, Apart, SaveInFile
<1>5. AckedEverywhere'
  BY <1>2, <1>3 DEF KeepInv, AckedEverywhere
<1> QED
  BY <1>3, <1>4, <1>5 DEF KeepInv

LEMMA SaveFailsKeeps ==
  ASSUME KeepInv, NEW p \in Handler, SaveFails(p)
  PROVE  KeepInv'
<1>1. Typed /\ Typed' /\ MetTyped /\ MetTyped' /\ p \in Saving
  BY SaveFailsTyped, NextMet DEF KeepInv, Next, Save, SaveFails, Saving
<1>2. CASE pc[p] = "open"
  <2>1. Answer(p, FALSE) /\ UNCHANGED <<memory, tmp, path, disk, mode, clash, crossed>>
    BY <1>2 DEF SaveFails
  <2> QED
    BY <1>1, <2>1, FailedAnswerKeeps
<1>3. CASE pc[p] \in {"write", "rename"}
  <2>1. /\ pc' = [pc EXCEPT ![p] = "remove"] /\ pc \in [Handler -> Step]
        /\ UNCHANGED <<backend, registry, ver, work, snap, fd, acked, tmp, path, mode, clash, lapped, crossed>>
    BY <1>1, <1>3 DEF SaveFails, Typed, memory
  <2>2. ~crossed => (path # None => disk'[path] = disk[path])
    <3>1. CASE pc[p] = "write"
      <4>1. (~crossed => fd[p] # path) /\ \E c : disk' = [disk EXCEPT ![fd[p]] = c]
        BY <3>1 DEF SaveFails, KeepInv, Apart
      <4> QED
        BY <1>1, <4>1 DEF Typed
    <3>2. CASE pc[p] # "write"
      BY <3>2 DEF SaveFails
    <3> QED
      BY <3>1, <3>2
  <2>3. Saving' = Saving
    BY <1>3, <2>1 DEF Saving
  <2>4. FileLoadable' /\ Apart'
    BY <2>1, <2>2, <2>3 DEF KeepInv, FileLoadable, Apart
  <2>5. SaveInFile'
    <3> SUFFICES ASSUME NEW q \in Saving \ lapped PROVE pc'[q] = "remove" /\ tmp # None /\ fd[q] = tmp
      BY <2>1, <2>3 DEF SaveInFile
    <3>1. q = p
      BY <1>1 DEF KeepInv, Apart
    <3> QED
      BY <1>3, <2>1, <3>1 DEF KeepInv, SaveInFile
  <2>6. UpdateInStep'
    <3>1. pc'[p] \notin {"apply", "put"} /\ \A q \in Handler : q # p => pc'[q] = pc[q] /\ work'[q] = work[q]
      BY <2>1
    <3>2. pc[p] \notin {"idle", "apply", "put"}
      BY <1>3
    <3> QED
      BY <2>1, <3>1, <3>2, SaveNotUpdate
  <2>7. AckedEverywhere'
    BY <1>3, <2>1, <2>2 DEF KeepInv, AckedEverywhere
  <2> QED
    BY <1>1, <2>4, <2>5, <2>6, <2>7 DEF KeepInv
<1> QED
  BY <1>2, <1>3 DEF SaveFails

LEMMA SaveRemoveKeeps ==
  ASSUME KeepInv, NEW p \in Handler, SaveRemove(p)
  PROVE  KeepInv'
<1>1. Typed' /\ MetTyped' /\ p \in Saving
  BY SaveRemoveTyped, NextMet DEF KeepInv, Next, Save, SaveRemove, Saving
<1>2. Answer(p, FALSE) /\ tmp' = None /\ UNCHANGED <<memory, path, disk, mode, clash, crossed>>
  BY DEF SaveRemove
<1> QED
  BY <1>1, <1>2, FailedAnswerKeeps

\* A crash keeps the files and what was acknowledged.
LEMMA CrashKeeps == KeepInv /\ Crash => KeepInv'
<1> SUFFICES ASSUME KeepInv, Crash PROVE KeepInv'
  OBVIOUS
<1>1. Typed' /\ MetTyped'
  BY CrashTyped, NextMet DEF KeepInv, Next
<1>2. /\ registry' = backend' /\ mode' = "down" /\ \A p \in Handler : pc'[p] = "idle"
      /\ UNCHANGED <<tmp, path, disk, acked, crossed>>
  BY DEF Crash, files
<1>3. Saving' = {} /\ \A k \in Key : Updating(k)' = {}
  BY <1>2 DEF Saving, Updating
<1>4. FileLoadable' /\ Apart' /\ SaveInFile' /\ UpdateInStep' /\ AckedEverywhere'
  BY <1>2, <1>3 DEF KeepInv, FileLoadable, Apart, SaveInFile, UpdateInStep, AckedEverywhere
<1> QED
  BY <1>1, <1>4 DEF KeepInv

\* A restart reads back what was acknowledged.
LEMMA RestartKeeps == KeepInv /\ Restart => KeepInv'
<1> SUFFICES ASSUME KeepInv, Restart PROVE KeepInv'
  OBVIOUS
<1>1. Typed /\ Typed' /\ MetTyped'
  BY RestartTyped, NextMet DEF KeepInv, Next
<1>2. /\ \A p \in Handler : pc'[p] = "idle"
      /\ UNCHANGED <<tmp, path, disk, clash>>
  BY <1>1 DEF Restart, Typed, files
<1>3. Saving' = {} /\ \A k \in Key : Updating(k)' = {}
  BY <1>2 DEF Saving, Updating
<1>4. CASE mode' = "failed"
  <2>1. crossed /\ UNCHANGED <<backend, registry, ver, acked, crossed>>
    BY <1>4, LimitServerAssumption DEF Restart, KeepInv, FileLoadable, memory
  <2>2. UpdateInStep'
    <3>1. \A k \in Key : Updating(k) = {}
      BY <1>1 DEF Restart, Typed, Updating
    <3> QED
      BY <1>2, <1>3, <2>1, <3>1 DEF KeepInv, UpdateInStep
  <2> QED
    BY <1>1, <1>2, <1>3, <1>4, <2>1, <2>2 DEF KeepInv, FileLoadable, Apart, SaveInFile, AckedEverywhere
<1>5. CASE mode' # "failed"
  <2>1. /\ ~(path # None /\ disk[path] \in {Empty, Torn})
        /\ mode' = "up" /\ backend' = registry' /\ ~crossed'
        /\ ver' = IF path = None THEN NoVer ELSE disk[path].ver
        /\ acked' = [k \in Key |-> IF crossed /\ acked[k] > ver'[k] THEN ver'[k] ELSE acked[k]]
    BY <1>5 DEF Restart
  <2>2. path # None => disk[path] \in Snapshot
    BY <1>1, <2>1 DEF Typed, Taken
  <2>3. \A k \in Key : acked'[k] <= ver'[k]
    <3>1. \A k \in Key : acked[k] \in Nat /\ ver'[k] \in Nat
      BY <1>1 DEF Typed, Ver
    <3>2. ~crossed => \A k \in Key : acked[k] <= ver'[k]
      <4>1. CASE path = None
        BY <2>1, <3>1, <4>1 DEF KeepInv, AckedEverywhere, NoVer
      <4>2. CASE path # None
        BY <2>1, <3>1, <4>2 DEF KeepInv, AckedEverywhere
      <4> QED
        BY <4>1, <4>2
    <3> QED
      BY <2>1, <3>1, <3>2
  <2>4. \A k \in Key : acked'[k] > 0 => path' # None /\ disk'[path'].ver[k] >= acked'[k]
    <3>1. \A k \in Key : acked'[k] \in Nat /\ ver'[k] \in Nat
      BY <1>1 DEF Typed, Ver
    <3> QED
      BY <1>2, <2>1, <2>3, <3>1 DEF NoVer
  <2>5. FileLoadable' /\ Apart' /\ SaveInFile' /\ UpdateInStep'
    BY <1>2, <1>3, <2>1, <2>2 DEF KeepInv, FileLoadable, Apart, SaveInFile, UpdateInStep
  <2> QED
    BY <1>1, <1>2, <2>1, <2>3, <2>4, <2>5 DEF KeepInv, AckedEverywhere
<1> QED
  BY <1>4, <1>5

LEMMA NextKeeps == KeepInv /\ [Next]_vars => KeepInv'
<1> SUFFICES ASSUME KeepInv, [Next]_vars PROVE KeepInv'
  OBVIOUS
<1>1. CASE UNCHANGED vars
  <2>1. Typed' /\ MetTyped'
    BY <1>1, NextTyped, NextMet DEF KeepInv
  <2> QED
    BY <1>1, <2>1 DEF KeepInv, vars, memory, files, met, FileLoadable, Apart, SaveInFile,
       UpdateInStep, AckedEverywhere, Saving, Updating
<1>2. CASE \E h \in Handler, k \in Key, cap \in Capacity : PutBegin(h, k, cap)
  BY <1>2, PutBeginKeeps
<1>3. CASE \E h \in Handler : PutApply(h)
  BY <1>3, PutApplyKeeps
<1>4. CASE \E h \in Handler : RegistryPut(h)
  BY <1>4, RegistryPutKeeps
<1>5. CASE \E h \in Handler : Save(h)
  BY <1>5, SaveSnapshotKeeps, SaveOpenKeeps, SaveWriteKeeps, SaveRenameKeeps, SaveFailsKeeps,
     SaveRemoveKeeps DEF Save
<1>6. CASE Crash \/ Restart
  BY <1>6, CrashKeeps, RestartKeeps
<1> QED
  BY <1>1, <1>2, <1>3, <1>4, <1>5, <1>6 DEF Next

\* What the invariant is for.
LEMMA KeepGives == KeepInv => FileLoadable /\ AckedDurable /\ InStep
<1> SUFFICES ASSUME KeepInv PROVE FileLoadable /\ AckedDurable /\ InStep
  OBVIOUS
<1>1. FileLoadable /\ AckedDurable
  BY DEF KeepInv, AckedEverywhere, AckedDurable
<1>2. InStep
  <2>1. TypeOK
    BY TypedGives DEF KeepInv
  <2> QED
    BY <2>1 DEF KeepInv, UpdateInStep, InStep
<1> QED
  BY <1>1, <1>2

\* Whatever number of PUT handlers run concurrently, and with a crash, a
\* restart or a failing open, write or rename at any of their steps: unless
\* the last Save to replace it met another, the file under the registry's
\* name is a complete registry and every PUT that was answered ok is in it,
\* or overtaken there by a later one of its key; and except between a PUT's
\* call of the backend and its update of the registry, the two agree on
\* every key whose PUTs did not meet there.
THEOREM RegistryDurable == Spec => [](FileLoadable /\ AckedDurable /\ InStep)
<1>1. Init => KeepInv
  BY InitKeeps
<1>2. KeepInv /\ [Next]_vars => KeepInv'
  BY NextKeeps
<1>3. KeepInv => FileLoadable /\ AckedDurable /\ InStep
  BY KeepGives
<1> QED
  BY <1>1, <1>2, <1>3, PTL DEF Spec
=============================================================================
