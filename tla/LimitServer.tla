----------------------------- MODULE LimitServer -----------------------------
(***************************************************************************)
(* The administration path of ratelimiterd: the PUT handler (internal/api/ *)
(* admin_put.go), the registry and its file (internal/registry), the       *)
(* backend's own copy of the limit states, and a crash and restart of the  *)
(* server, in memory mode.                                                 *)
(*                                                                         *)
(* Each handler is a goroutine.  The registry and the backend have locks   *)
(* of their own, so a PUT is a sequence of steps, and so is Save: it takes *)
(* a snapshot, opens the one temporary file, writes it and renames it.     *)
(* The data of a definition is its capacity.  ver is history: it counts    *)
(* the updates of a key in the registry, and a file remembers the ver of   *)
(* the registry it was written from.  net/http runs PUT handlers           *)
(* concurrently and no lock covers a whole PUT or a whole Save.  clash,    *)
(* lapped and crossed are history too: they say which PUTs and which Saves *)
(* met, and the properties hold apart from those.                          *)
(***************************************************************************)
EXTENDS Integers, FiniteSets

CONSTANTS
  Key, Handler,
  Capacity,     \* capacities that are PUT
  MaxPuts,      \* bounds the number of PUTs
  Inode,        \* bounds the files that exist at once
  Crashes,      \* TRUE: the server may crash
  DiskErrors,   \* TRUE: opening, writing or renaming a file may fail
  None, Empty, Torn   \* no entry; a truncated file; a mixture of two writes

LimitState ==
  [capacity : Capacity, status : {"active", "decreasing"}, pending : Capacity \cup {0}]
States == [Key -> LimitState \cup {None}]
Ver == 0 .. MaxPuts
Snapshot == [states : States, ver : [Key -> Ver]]

ASSUME LimitServerAssumption ==
  /\ Capacity \subseteq Nat \ {0}
  /\ MaxPuts \in Nat
  /\ IsFiniteSet(Handler)
  /\ None \notin LimitState \cup Inode \cup Snapshot
  /\ Empty \notin Snapshot /\ Torn \notin Snapshot /\ Empty # Torn

VARIABLES
  backend, registry,   \* key -> limit state
  ver,       \* history: key -> the updates of its registry entry
  pc,        \* where each goroutine is
  work,      \* the PUT or reconciliation it is at
  snap,      \* the snapshot its Save writes
  fd,        \* the file its Save has open
  tmp, path, \* the files under the two names
  disk,      \* the contents of a file
  mode,      \* "up", "down" or "failed" (the registry did not load)
  puts,      \* history: how many PUTs have been made
  acked,     \* history: key -> the ver of the latest PUT answered ok
  clash,     \* history: the keys with PUTs that met before the registry had the first
  lapped,    \* history: the Saves under way that met another
  crossed    \* history: the file's last replacement was a Save that met another

memory == <<backend, registry, ver>>
files == <<tmp, path, disk>>
met == <<clash, lapped, crossed>>
vars == <<memory, pc, work, snap, fd, files, mode, puts, acked, met>>

\* The handlers between reading a key's entry in the registry and replacing it.
Updating(k) == {p \in Handler : pc[p] \in {"apply", "put"} /\ work[p].key = k}

\* The handlers in a Save, past its snapshot.
Saving == {p \in Handler : pc[p] \in {"open", "write", "rename", "remove"}}
-----------------------------------------------------------------------------
(* The PUT handler.                                                        *)

\* nextState of the registry; ApplyDefinition of the backend decides alike.
NextState(prev, cap) ==
  IF prev = None \/ cap >= prev.capacity
  THEN [capacity |-> cap, status |-> "active", pending |-> 0]
  ELSE [capacity |-> prev.capacity, status |-> "decreasing", pending |-> cap]

PutBegin(h, k, cap) ==
  /\ mode = "up" /\ pc[h] = "idle" /\ puts < MaxPuts
  /\ puts' = puts + 1
  /\ work' = [work EXCEPT ![h] = [key |-> k, cap |-> cap, ver |-> 0,
                                  next |-> NextState(registry[k], cap)]]
  /\ pc' = [pc EXCEPT ![h] = "apply"]
  /\ clash' = IF Updating(k) = {} THEN clash ELSE clash \cup {k}
  /\ UNCHANGED <<memory, snap, fd, files, mode, acked, lapped, crossed>>

PutApply(h) ==
  /\ pc[h] = "apply"
  /\ backend' = [backend EXCEPT ![work[h].key] = NextState(@, work[h].cap)]
  /\ pc' = [pc EXCEPT ![h] = "put"]
  /\ UNCHANGED <<registry, ver, work, snap, fd, files, mode, puts, acked, met>>

\* MUTANT: an update that lowers the capacity reaches only the backend.
RegistryPutActiveOnly(p) ==
  /\ pc[p] = "put"
  /\ registry' = IF work[p].next.status = "active"
                 THEN [registry EXCEPT ![work[p].key] = work[p].next] ELSE registry
  /\ ver' = [ver EXCEPT ![work[p].key] = @ + 1]
  /\ work' = [work EXCEPT ![p] = [key |-> @.key, cap |-> @.cap, next |-> @.next,
                                  ver |-> ver[@.key] + 1]]
  /\ pc' = [pc EXCEPT ![p] = "snap"]
  /\ UNCHANGED <<backend, snap, fd, files, mode, puts, acked, met>>

RegistryPut(p) ==
  /\ pc[p] = "put"
  /\ registry' = [registry EXCEPT ![work[p].key] = work[p].next]
  /\ ver' = [ver EXCEPT ![work[p].key] = @ + 1]
  /\ work' = [work EXCEPT ![p] = [key |-> @.key, cap |-> @.cap, next |-> @.next,
                                  ver |-> ver[@.key] + 1]]
  /\ pc' = [pc EXCEPT ![p] = "snap"]
  /\ UNCHANGED <<backend, snap, fd, files, mode, puts, acked, met>>
-----------------------------------------------------------------------------
(* Save.                                                                   *)

SaveSnapshot(p) ==
  /\ pc[p] = "snap"
  /\ snap' = [snap EXCEPT ![p] = [states |-> registry, ver |-> ver]]
  /\ pc' = [pc EXCEPT ![p] = "open"]
  /\ lapped' = IF Saving = {} THEN lapped ELSE lapped \cup Saving \cup {p}
  /\ UNCHANGED <<memory, work, fd, files, mode, puts, acked, clash, crossed>>

\* The file under a name, or a new one.
FileNamed(name) ==
  IF name # None THEN {name} ELSE Inode \ ({tmp, path} \cup {fd[p] : p \in Handler})

\* MUTANT: the file is written under its own name.
SaveOpenInPlace(p) ==
  /\ pc[p] = "open"
  /\ \E i \in FileNamed(path) :
       /\ tmp' = i /\ path' = i
       /\ disk' = [disk EXCEPT ![i] = Empty]
       /\ fd' = [fd EXCEPT ![p] = i]
  /\ pc' = [pc EXCEPT ![p] = "write"]
  /\ UNCHANGED <<memory, work, snap, mode, puts, acked, met>>

\* O_CREATE|O_TRUNC: the file under the temporary name, emptied.
SaveOpen(p) ==
  /\ pc[p] = "open"
  /\ \E i \in FileNamed(tmp) :
       /\ tmp' = i
       /\ disk' = [disk EXCEPT ![i] = Empty]
       /\ fd' = [fd EXCEPT ![p] = i]
  /\ pc' = [pc EXCEPT ![p] = "write"]
  /\ UNCHANGED <<memory, work, snap, path, mode, puts, acked, met>>

\* Written from the start of the file: over another snapshot, the longer of
\* the two leaves its tail.
SaveWrite(p) ==
  /\ pc[p] = "write"
  /\ \E c \in {snap[p]} \cup (IF disk[fd[p]] \in {Empty, snap[p]} THEN {} ELSE {Torn}) :
       disk' = [disk EXCEPT ![fd[p]] = c]
  /\ pc' = [pc EXCEPT ![p] = "rename"]
  /\ UNCHANGED <<memory, work, snap, fd, tmp, path, mode, puts, acked, met>>

Answer(p, ok) ==
  /\ pc' = [pc EXCEPT ![p] = "idle"]
  /\ work' = [work EXCEPT ![p] = None]
  /\ snap' = [snap EXCEPT ![p] = None]
  /\ fd' = [fd EXCEPT ![p] = None]
  /\ acked' = IF ok /\ work[p].ver > acked[work[p].key]
              THEN [acked EXCEPT ![work[p].key] = work[p].ver] ELSE acked
  /\ lapped' = lapped \ {p}

SaveRename(p) ==
  /\ pc[p] = "rename" /\ tmp # None
  /\ path' = tmp
  /\ tmp' = None
  /\ Answer(p, TRUE)
  /\ crossed' = (p \in lapped)
  /\ UNCHANGED <<memory, disk, mode, puts, clash>>

\* Opening, writing or renaming fails; a rename also fails when another Save
\* has taken the temporary file away.  A failed write may have written a
\* part of the snapshot.
SaveFails(p) ==
  /\ pc[p] \in {"open", "write", "rename"}
  /\ DiskErrors \/ (pc[p] = "rename" /\ tmp = None)
  /\ IF pc[p] = "write"
     THEN \E c \in {disk[fd[p]], Torn} : disk' = [disk EXCEPT ![fd[p]] = c]
     ELSE UNCHANGED disk
  /\ IF pc[p] = "open"
     THEN Answer(p, FALSE)
     ELSE pc' = [pc EXCEPT ![p] = "remove"] /\ UNCHANGED <<work, snap, fd, acked, lapped>>
  /\ UNCHANGED <<memory, tmp, path, mode, puts, clash, crossed>>

\* MUTANT: an error of Save is only logged.
SaveRemoveSilently(p) ==
  /\ pc[p] = "remove"
  /\ tmp' = None
  /\ Answer(p, TRUE)
  /\ UNCHANGED <<memory, path, disk, mode, puts, clash, crossed>>

\* os.Remove of the temporary file, whoever's it is by now.  The handler
\* answers backend_error, with the backend and the registry already updated.
SaveRemove(p) ==
  /\ pc[p] = "remove"
  /\ tmp' = None
  /\ Answer(p, FALSE)
  /\ UNCHANGED <<memory, path, disk, mode, puts, clash, crossed>>

Save(p) ==
  \/ SaveSnapshot(p) \/ SaveOpen(p) \/ SaveWrite(p) \/ SaveRename(p)
  \/ SaveFails(p) \/ SaveRemove(p)
-----------------------------------------------------------------------------
(* Crash and restart.                                                      *)

NoStates == [k \in Key |-> None]
NoVer == [k \in Key |-> 0]

Crash ==
  /\ Crashes /\ mode = "up"
  /\ mode' = "down"
  /\ backend' = NoStates /\ registry' = NoStates /\ ver' = NoVer
  /\ pc' = [p \in Handler |-> "idle"]
  /\ work' = [p \in Handler |-> None]
  /\ snap' = [p \in Handler |-> None]
  /\ fd' = [p \in Handler |-> None]
  /\ clash' = {} /\ lapped' = {}
  /\ UNCHANGED <<files, puts, acked, crossed>>

\* Load, then ApplyState for every state; a file that does not parse ends
\* the start.  What Saves that met have lost is no longer acknowledged.
Restart ==
  /\ mode = "down"
  /\ IF path # None /\ disk[path] \in {Empty, Torn}
     THEN mode' = "failed" /\ UNCHANGED <<memory, acked, crossed>>
     ELSE /\ mode' = "up"
          /\ registry' = IF path = None THEN NoStates ELSE disk[path].states
          /\ ver' = IF path = None THEN NoVer ELSE disk[path].ver
          /\ backend' = registry'
          /\ acked' = [k \in Key |-> IF crossed /\ acked[k] > ver'[k] THEN ver'[k] ELSE acked[k]]
          /\ crossed' = FALSE
  /\ UNCHANGED <<pc, work, snap, fd, files, puts, clash, lapped>>

Init ==
  /\ backend = NoStates /\ registry = NoStates /\ ver = NoVer
  /\ pc = [p \in Handler |-> "idle"]
  /\ work = [p \in Handler |-> None] /\ snap = [p \in Handler |-> None]
  /\ fd = [p \in Handler |-> None]
  /\ tmp = None /\ path = None /\ disk = [i \in Inode |-> Empty]
  /\ mode = "up" /\ puts = 0
  /\ acked = NoVer
  /\ clash = {} /\ lapped = {} /\ crossed = FALSE

Next ==
  \/ \E h \in Handler, k \in Key, cap \in Capacity : PutBegin(h, k, cap)
  \/ \E h \in Handler : PutApply(h) \/ RegistryPut(h) \/ Save(h)
  \/ Crash \/ Restart

Spec == Init /\ [][Next]_vars
-----------------------------------------------------------------------------
(* Properties.                                                             *)

\* The types of the server's state; a pending decrease is a decrease, in the
\* backend and in the registry.
TypeOK ==
  /\ \A m \in {backend, registry} :
       /\ m \in States
       /\ \A k \in Key : m[k] # None /\ m[k].status = "decreasing" =>
            m[k].pending \in 1 .. m[k].capacity - 1
  /\ pc \in [Handler -> {"idle", "apply", "put", "snap", "open", "write", "rename", "remove"}]
  /\ snap \in [Handler -> Snapshot \cup {None}]
  /\ fd \in [Handler -> Inode \cup {None}]
  /\ tmp \in Inode \cup {None} /\ path \in Inode \cup {None}
  /\ disk \in [Inode -> Snapshot \cup {Empty, Torn}]
  /\ mode \in {"up", "down", "failed"} /\ puts \in 0 .. MaxPuts
  /\ ver \in [Key -> Ver] /\ acked \in [Key -> Ver]
  /\ clash \subseteq Key /\ lapped \subseteq Handler /\ crossed \in BOOLEAN

\* At every moment, and so after a crash at any moment, the file under the
\* registry's name is a complete registry, unless the last Save to replace
\* it had met another: the two write one temporary file.  A Save that meets
\* none makes it good again.
FileLoadable == ~crossed => (path # None => disk[path] \in Snapshot)

\* Whatever else is under way, what the registry reports of a key, and will
\* be loaded again, is what the backend enforces, except between a PUT's call
\* of the backend and its update of the registry.  Only a key with PUTs that
\* met there is excepted, until the next restart.
InStep ==
  /\ TypeOK
  /\ \A k \in Key \ clash :
       (\A p \in Updating(k) : pc[p] = "apply") => registry[k] = backend[k]

\* A PUT that was answered ok is in the file, or a later update of its key
\* is: no crash, failed Save or other update loses it, whatever Saves are
\* under way, unless the last to replace the file had met another.
AckedDurable ==
  ~crossed =>
    \A k \in Key : acked[k] > 0 =>
      path # None /\ (disk[path] \in Snapshot => disk[path].ver[k] >= acked[k])
=============================================================================
