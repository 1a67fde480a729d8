------------------------------- MODULE Storage -------------------------------
(***************************************************************************)
(* The resource store of core/src/cache.rs: the cache directory and the    *)
(* memory cache behind one mutex, the blocking closures that store() runs  *)
(* under it, the resident list, and the close() protocol.                  *)
(*                                                                         *)
(* A blocking closure, once spawned, is detached: dropping the future that *)
(* awaits it does not stop it. close() must therefore fence off closures   *)
(* it cannot wait for.                                                     *)
(***************************************************************************)
EXTENDS FiniteSets, Naturals

CONSTANTS
  Keys,         \* resource keys
  Versions,     \* distinguishable bodies the origin can serve
  Variants,     \* values of the Vary-selected request headers
  Writers,      \* tasks that call store(), one call at a time each
  DiskPermits,  \* permits of the disk semaphore (2 in the code)
  NoEntry,      \* "no file" / "no copy"
  NoWriter,     \* the storage mutex is free
  NoJob         \* the writer has no closure outstanding

ASSUME DiskPermitsAssumption == DiskPermits \in Nat \ {0}
ASSUME NoWriterAssumption == NoWriter \notin Writers

Entries == [version : Versions, variant : Variants]

ASSUME NoEntryIsNoEntry == NoEntry \notin Entries

INSTANCE MemoryContract

JobSteps == {"spawned", "entered", "persisted", "forgotten", "done"}

Jobs == [step : JobSteps, key : Keys, value : Entries \cup {NoEntry},
         admission : Admission, ok : BOOLEAN]

ASSUME NoJobAssumption == NoJob \notin Jobs

VARIABLES
  disk,       \* key -> the entry in <key>.gfc
  memory,     \* key -> the copy the memory cache holds
  residents,  \* the keys listed in memory-resident.json
  lock,       \* the writer whose closure is inside the storage mutex
  job,        \* writer -> its outstanding blocking closure
  stage,      \* progress of close()
  restorer    \* the restore_memory() task

storageVars == <<disk, memory, residents, lock, job, stage, restorer>>

Stages == {"open", "stopping", "saving", "locking", "closed"}

TypeOK ==
  /\ disk \in Memories
  /\ memory \in Memories
  /\ residents \subseteq Keys
  /\ lock \in Writers \cup {NoWriter}
  /\ job \in [Writers -> Jobs \cup {NoJob}]
  /\ stage \in Stages
  /\ restorer \in {"off", "restoring", "resting", "gone"}

Cancelled == stage # "open"

\* Closures holding a disk permit: it is dropped when the closure returns.
Active == {w \in Writers : job[w] # NoJob /\ job[w].step # "done"}

Init ==
  /\ disk = EmptyMemory
  /\ memory = EmptyMemory
  /\ residents = {}
  /\ lock = NoWriter
  /\ job = [w \in Writers |-> NoJob]
  /\ stage = "open"
  /\ restorer = "off"

-----------------------------------------------------------------------------
(* stored(): one critical section, so one action.                          *)

\* MemoryCache::put as the store calls it: a closed cache admits nothing.
Admit(k, e, a) ==
  IF stage = "closed" THEN {Without(memory, k)} ELSE AfterPut(memory, k, e, a)

\* Mutant: an entry is served to whoever asks for the URL.
MatchesAnything(e, variant) == TRUE

Matches(e, variant) == e.variant = variant

\* The memory copy of k answers: a copy of another variant answers "no".
FromMemory(k, variant, result) ==
  /\ memory[k] # NoEntry
  /\ result = IF Matches(memory[k], variant) THEN memory[k] ELSE NoEntry
  /\ UNCHANGED memory

\* No live copy (an idle one is removed by the look-up): read the file. The
\* identity check or the read may fail, which also answers "no".
FromDisk(k, variant, demand, result) ==
  /\ \/ result = NoEntry
     \/ result = disk[k] /\ disk[k] # NoEntry /\ Matches(disk[k], variant)
  /\ memory' \in IF demand /\ result # NoEntry
                   THEN Admit(k, result, "Demand")
                   ELSE {Without(memory, k)}

\* The look-up takes a disk permit and the mutex, and gives both back.
Stored(k, variant, demand, result) ==
  /\ lock = NoWriter /\ Cardinality(Active) < DiskPermits
  /\ \/ FromMemory(k, variant, result)
     \/ FromDisk(k, variant, demand, result)
  /\ UNCHANGED <<disk, residents, lock, job, stage, restorer>>

-----------------------------------------------------------------------------
(* store(): a closure in five steps. While it holds the mutex nobody else  *)
(* sees the state between the file and the memory copy.                    *)

\* A disk permit is taken and the closure spawned.
Spawn(w, k, value, admission) ==
  /\ job[w] = NoJob
  /\ Cardinality(Active) < DiskPermits
  /\ job' = [job EXCEPT ![w] = [step |-> "spawned", key |-> k, value |-> value,
                                admission |-> admission, ok |-> FALSE]]
  /\ UNCHANGED <<disk, memory, residents, lock, stage, restorer>>

\* w's closure as it is after reaching step s.
At(w, s, ok) ==
  [step |-> s, key |-> job[w].key, value |-> job[w].value,
   admission |-> job[w].admission, ok |-> ok]

Finish(w, ok) ==
  /\ job' = [job EXCEPT ![w] = At(w, "done", ok)]
  /\ lock' = NoWriter

\* Mutant: cancellation is tested before the closure is spawned, not inside.
AlwaysAdmitted == TRUE

Admitted == ~Cancelled

\* The mutex is taken and only then is cancellation tested.
Enter(w) ==
  /\ job[w] # NoJob /\ job[w].step = "spawned"
  /\ lock = NoWriter
  /\ Admitted
  /\ lock' = w
  /\ job' = [job EXCEPT ![w] = At(w, "entered", FALSE)]
  /\ UNCHANGED <<disk, memory, residents, stage, restorer>>

Refuse(w) ==
  /\ job[w] # NoJob /\ job[w].step = "spawned"
  /\ lock = NoWriter
  /\ Cancelled
  /\ Finish(w, FALSE)
  /\ UNCHANGED <<disk, memory, residents, stage, restorer>>

\* Mutant: the copy is cached although the file could not be written.
WriteFailsButCaches(w) ==
  /\ job[w] # NoJob /\ job[w].step = "entered"
  /\ memory' \in Admit(job[w].key, job[w].value, job[w].admission)
  /\ Finish(w, FALSE)
  /\ UNCHANGED <<disk, residents, stage, restorer>>

\* Mutant: the file is written in place, and a failure leaves none.
WriteFailsInPlace(w) ==
  /\ job[w] # NoJob /\ job[w].step = "entered"
  /\ disk' = Without(disk, job[w].key)
  /\ Finish(w, FALSE)
  /\ UNCHANGED <<memory, residents, stage, restorer>>

\* The identity check, the temporary file or the rename fails.
WriteFails(w) ==
  /\ job[w] # NoJob /\ job[w].step = "entered"
  /\ Finish(w, FALSE)
  /\ UNCHANGED <<disk, memory, residents, stage, restorer>>

\* Mutant: the temporary file is never renamed.
NotRenamed(k, e) == disk

Renamed(k, e) == [disk EXCEPT ![k] = e]

\* The temporary file is renamed over <key>.gfc.
Persist(w) ==
  /\ job[w] # NoJob /\ job[w].step = "entered" /\ job[w].value # NoEntry
  /\ disk' = Renamed(job[w].key, job[w].value)
  /\ job' = [job EXCEPT ![w] = At(w, "persisted", FALSE)]
  /\ UNCHANGED <<memory, residents, lock, stage, restorer>>

PutMemory(w) ==
  /\ job[w] # NoJob /\ job[w].step = "persisted"
  /\ memory' \in Admit(job[w].key, job[w].value, job[w].admission)
  /\ Finish(w, TRUE)
  /\ UNCHANGED <<disk, residents, stage, restorer>>

\* Deletion goes the other way: memory first, then the file.
ForgetMemory(w) ==
  /\ job[w] # NoJob /\ job[w].step = "entered" /\ job[w].value = NoEntry
  /\ memory' = Without(memory, job[w].key)
  /\ job' = [job EXCEPT ![w] = At(w, "forgotten", FALSE)]
  /\ UNCHANGED <<disk, residents, lock, stage, restorer>>

RemoveFile(w) ==
  /\ job[w] # NoJob /\ job[w].step = "forgotten"
  /\ \/ disk' = Without(disk, job[w].key) /\ Finish(w, TRUE)
     \/ UNCHANGED disk /\ Finish(w, FALSE)
  /\ UNCHANGED <<memory, residents, stage, restorer>>

\* The closure has returned: its owner takes the result, or, when the owner
\* was dropped, the runtime discards it.
Collect(w) ==
  /\ job[w] # NoJob /\ job[w].step = "done"
  /\ job' = [job EXCEPT ![w] = NoJob]
  /\ UNCHANGED <<disk, memory, residents, lock, stage, restorer>>

JobStep(w) ==
  Enter(w) \/ Refuse(w) \/ WriteFails(w) \/ Persist(w) \/ PutMemory(w)
           \/ ForgetMemory(w) \/ RemoveFile(w)

-----------------------------------------------------------------------------
(* restore_memory() and save_residents().                                  *)

StartRestore ==
  /\ stage = "open" /\ restorer = "off"
  /\ restorer' = "restoring"
  /\ UNCHANGED <<disk, memory, residents, lock, job, stage>>

\* One listed key. Cancellation is tested before the mutex is taken, so a
\* key may still be restored after close() has begun. The look-up that comes
\* first removes an idle copy.
Restore(k) ==
  /\ restorer = "restoring" /\ lock = NoWriter /\ k \in residents
  /\ memory' \in IF disk[k] = NoEntry
                   THEN {Without(memory, k)}
                   ELSE AfterRestore(Without(memory, k), k, disk[k])
  /\ UNCHANGED <<disk, residents, lock, job, stage, restorer>>

EndRestore ==
  /\ restorer = "restoring"
  /\ restorer' = "resting"
  /\ UNCHANGED <<disk, memory, residents, lock, job, stage>>

\* Idle copies are expired and the survivors listed, under the mutex; the
\* list is then renamed into place, or that fails and the old one stays. Nobody
\* else writes the list or reads it before a restart, so the rename may be
\* taken together with the listing.
SaveResidents ==
  /\ lock = NoWriter
  /\ memory' \in Shrunk(memory)
  /\ residents' \in {residents, Resident(memory')}
  /\ UNCHANGED <<disk, lock, job>>

SavePeriodically ==
  /\ restorer = "resting"
  /\ SaveResidents
  /\ UNCHANGED <<stage, restorer>>

StopRestorer ==
  /\ restorer = "resting" /\ Cancelled
  /\ restorer' = "gone"
  /\ UNCHANGED <<disk, memory, residents, lock, job, stage>>

-----------------------------------------------------------------------------
(* close().                                                                *)

Cancel ==
  /\ stage = "open"
  /\ stage' = "stopping"
  /\ UNCHANGED <<disk, memory, residents, lock, job, restorer>>

\* tasks.wait(): every tracked task has ended. Closures are not tracked.
TasksEnded ==
  /\ stage = "stopping" /\ restorer \in {"off", "gone"}
  /\ stage' = IF restorer = "off" THEN "locking" ELSE "saving"
  /\ UNCHANGED <<disk, memory, residents, lock, job, restorer>>

SaveFinally ==
  /\ stage = "saving"
  /\ SaveResidents
  /\ stage' = "locking"
  /\ UNCHANGED restorer

CloseMemory ==
  /\ stage = "locking" /\ lock = NoWriter
  /\ memory' = EmptyMemory
  /\ stage' = "closed"
  /\ UNCHANGED <<disk, residents, lock, job, restorer>>

CloseStep == TasksEnded \/ SaveFinally \/ CloseMemory

\* The process dies, or a new Cache is opened on the directory after close():
\* files stay, everything else starts over.
Restart ==
  /\ memory' = EmptyMemory
  /\ lock' = NoWriter
  /\ job' = [w \in Writers |-> NoJob]
  /\ stage' = "open"
  /\ restorer' = "off"
  /\ UNCHANGED <<disk, residents>>

RestorerStep ==
  (\E k \in Keys : Restore(k)) \/ EndRestore \/ SavePeriodically \/ StopRestorer

Next ==
  \/ \E k \in Keys, v \in Variants, d \in BOOLEAN, e \in Entries \cup {NoEntry} :
       Stored(k, v, d, e)
  \/ \E w \in Writers, k \in Keys, e \in Entries \cup {NoEntry}, a \in Admission :
       Spawn(w, k, e, a)
  \/ \E w \in Writers : JobStep(w) \/ Collect(w)
  \/ StartRestore \/ RestorerStep
  \/ Cancel \/ CloseStep
  \/ Restart

Spec == Init /\ [][Next]_storageVars

-----------------------------------------------------------------------------
(* Properties.                                                             *)

\* Memory and disk never disagree where anyone can see it: whenever the mutex
\* is free, a copy in memory is the entry of the file, whatever mixture of
\* stores, failed stores, deletions, look-ups, restores and crashes came before.
Coherent ==
  lock = NoWriter =>
    \A k \in Resident(memory) : memory[k] = disk[k]

\* The fence of close(): once it has returned nothing of this cache writes to
\* the directory or holds a resource, not even a detached closure that was
\* spawned before the cancellation and scheduled after it.
CloseFence ==
  [][stage = "closed" => UNCHANGED <<disk, memory, residents>>]_storageVars

\* A store that reports success is on disk when it reports.
ReportedIsOnDisk ==
  [][\A w \in Writers :
       job[w] # NoJob /\ job[w].step # "done" /\ job'[w] # NoJob /\ job'[w].ok
         => disk'[job[w].key] = job[w].value]_storageVars

\* What is on disk only gives way, in one step, to what a store of the same key
\* brings while it has the mutex: not to a failed write, a crash at any point, a
\* restart, close(), a restore or a look-up.
ReplacedByStoreAlone ==
  [][\A k \in Keys : disk'[k] # disk[k] =>
       /\ lock # NoWriter /\ job[lock] # NoJob
       /\ job[lock].key = k /\ job[lock].value = disk'[k]]_storageVars

\* What the caller was told is saved stays saved until the key is stored again.
AckedIsDurable == ReportedIsOnDisk /\ ReplacedByStoreAlone

=============================================================================
