---------------------------- MODULE StorageProofs ----------------------------
(***************************************************************************)
(* Proofs about Storage for every set of keys, bodies, variants and        *)
(* writers and every number of disk permits.                               *)
(***************************************************************************)
EXTENDS Storage, TLAPS

InMutex == {"entered", "persisted", "forgotten"}

\* The owner of the mutex is the one writer whose closure is inside.
MutexOwner ==
  \A w \in Writers :
    job[w] # NoJob => (job[w].step \in InMutex <=> lock = w)

OwnerHasJob == lock # NoWriter => job[lock] # NoJob

\* A closure that has renamed its file has its entry on disk; only between
\* that and the memory copy may the two disagree, and only on its key.
PersistedOnDisk ==
  \A w \in Writers :
    job[w] # NoJob /\ job[w].step = "persisted" =>
      /\ job[w].value # NoEntry
      /\ disk[job[w].key] = job[w].value

ForgottenFirst ==
  \A w \in Writers :
    job[w] # NoJob /\ job[w].step = "forgotten" =>
      /\ job[w].value = NoEntry
      /\ memory[job[w].key] = NoEntry

InFlux(k) ==
  /\ lock # NoWriter
  /\ job[lock].step = "persisted"
  /\ job[lock].key = k

CopiesAgree == \A k \in Keys : memory[k] = NoEntry \/ memory[k] = disk[k] \/ InFlux(k)

\* What close() has established when it moves on.
Fenced ==
  /\ stage \in {"saving", "locking", "closed"} => restorer \in {"off", "gone"}
  /\ stage = "closed" => lock = NoWriter /\ memory = EmptyMemory

IInv ==
  /\ TypeOK
  /\ MutexOwner
  /\ OwnerHasJob
  /\ PersistedOnDisk
  /\ ForgottenFirst
  /\ CopiesAgree
  /\ Fenced

-----------------------------------------------------------------------------
(* Lemmas about the memory contract.                                       *)

LEMMA EmptyMemoryType == EmptyMemory \in Memories
BY DEF EmptyMemory, Memories

LEMMA WithoutType ==
  ASSUME NEW m \in Memories, NEW k \in Keys
  PROVE  /\ Without(m, k) \in Memories
         /\ Without(m, k)[k] = NoEntry
         /\ \A j \in Keys : j # k => Without(m, k)[j] = m[j]
BY DEF Without, Memories

\* Admit keeps the type, leaves the key with the new entry or nothing, and
\* gives other keys nothing they did not have.
LEMMA AdmitResult ==
  ASSUME TypeOK, NEW k \in Keys, NEW e \in Entries, NEW a, NEW m \in Admit(k, e, a)
  PROVE  /\ m \in Memories
         /\ m[k] \in {e, NoEntry}
         /\ \A j \in Keys : j # k => m[j] \in {memory[j], NoEntry}
<1>1. CASE stage = "closed"
  BY <1>1, WithoutType DEF Admit, TypeOK
<1>2. CASE stage # "closed"
  BY <1>2 DEF Admit, AfterPut
<1>3. QED
  BY <1>1, <1>2

-----------------------------------------------------------------------------

LEMMA JobsAreRecords == NoJob \notin Jobs /\ NoWriter \notin Writers /\ NoEntry \notin Entries
BY NoJobAssumption, NoWriterAssumption, NoEntryIsNoEntry

LEMMA InitInv == Init => IInv
BY EmptyMemoryType, JobsAreRecords
   DEF Init, IInv, TypeOK, Stages, MutexOwner, OwnerHasJob, PersistedOnDisk, ForgottenFirst,
       CopiesAgree, Fenced, EmptyMemory

LEMMA StoredInv ==
  ASSUME IInv, NEW k \in Keys, NEW v \in Variants, NEW d \in BOOLEAN,
         NEW e \in Entries \cup {NoEntry}, Stored(k, v, d, e)
  PROVE  IInv'
<1> USE JobsAreRecords DEF IInv
<1>1. lock = NoWriter /\ UNCHANGED <<disk, residents, lock, job, stage, restorer>>
  BY DEF Stored
<1>2. /\ memory' \in Memories
      /\ memory'[k] \in {NoEntry, disk[k]}
      /\ \A j \in Keys : j # k => memory'[j] \in {memory[j], NoEntry}
  <2>1. CASE FromMemory(k, v, e)
    BY <1>1, <2>1 DEF FromMemory, TypeOK, CopiesAgree, InFlux
  <2>2. CASE FromDisk(k, v, d, e)
    <3>1. CASE memory' \in Admit(k, e, "Demand") /\ e # NoEntry
      BY <2>2, <3>1, AdmitResult DEF FromDisk
    <3>2. CASE memory' = Without(memory, k)
      BY <3>2, WithoutType DEF TypeOK
    <3>3. QED
      BY <2>2, <3>1, <3>2 DEF FromDisk
  <2>3. QED
    BY <2>1, <2>2 DEF Stored
<1>3. TypeOK'
  BY <1>1, <1>2 DEF TypeOK
<1>4. MutexOwner' /\ OwnerHasJob' /\ PersistedOnDisk'
  BY <1>1 DEF MutexOwner, OwnerHasJob, PersistedOnDisk
<1>5. ForgottenFirst'
  BY <1>1 DEF ForgottenFirst, MutexOwner, InMutex, TypeOK
<1>6. CopiesAgree'
  BY <1>1, <1>2 DEF CopiesAgree, InFlux
<1>7. Fenced'
  <2>1. ASSUME stage = "closed" PROVE memory' = EmptyMemory
    <3>1. \A j \in Keys : memory'[j] = NoEntry
      <4>1. memory = EmptyMemory
        BY <2>1 DEF Fenced
      <4>2. \A j \in Keys : memory[j] = NoEntry
        BY <4>1 DEF EmptyMemory
      <4>3. ~FromMemory(k, v, e)
        BY <4>2 DEF FromMemory
      <4>4. memory' = Without(memory, k)
        BY <2>1, <4>3 DEF Stored, FromDisk, Admit
      <4>5. QED
        BY <4>2, <4>4, WithoutType DEF TypeOK
    <3>2. QED
      BY <3>1, <1>2 DEF Memories, EmptyMemory
  <2>2. QED
    BY <1>1, <2>1 DEF Fenced
<1>8. QED
  BY <1>3, <1>4, <1>5, <1>6, <1>7

-----------------------------------------------------------------------------
(* Closures.  A closure that moves keeps its key, value and admission, and *)
(* no other writer's closure moves with it.                                *)

LEMMA JobMoves ==
  ASSUME TypeOK, NEW w \in Writers, job[w] # NoJob,
         NEW s \in JobSteps, NEW ok \in BOOLEAN,
         job' = [job EXCEPT ![w] = At(w, s, ok)]
  PROVE  /\ job' \in [Writers -> Jobs \cup {NoJob}]
         /\ job'[w] # NoJob
         /\ job'[w].step = s
         /\ job'[w].key = job[w].key
         /\ job'[w].value = job[w].value
         /\ job'[w].ok = ok
         /\ job[w].key \in Keys
         /\ job[w].value \in Entries \cup {NoEntry}
         /\ \A v \in Writers : v # w => job'[v] = job[v]
<1>1. job[w] \in Jobs
  BY DEF TypeOK
<1>2. At(w, s, ok) \in Jobs
  BY <1>1 DEF At, Jobs
<1>3. /\ At(w, s, ok).step = s
      /\ At(w, s, ok).key = job[w].key
      /\ At(w, s, ok).value = job[w].value
      /\ At(w, s, ok).ok = ok
  BY DEF At
<1>4. At(w, s, ok) # NoJob
  BY <1>2, NoJobAssumption
<1>5. job'[w] = At(w, s, ok)
  BY DEF TypeOK
<1>6. job[w].key \in Keys /\ job[w].value \in Entries \cup {NoEntry}
  BY <1>1 DEF Jobs
<1>7. job' \in [Writers -> Jobs \cup {NoJob}]
  BY <1>2 DEF TypeOK
<1>8. \A v \in Writers : v # w => job'[v] = job[v]
  BY DEF TypeOK
<1>9. QED
  BY <1>3, <1>4, <1>5, <1>6, <1>7, <1>8

LEMMA EnterInv ==
  ASSUME IInv, NEW w \in Writers, Enter(w)
  PROVE  IInv'
<1> USE JobsAreRecords DEF IInv, Enter, Admitted
<1>1. /\ job' \in [Writers -> Jobs \cup {NoJob}]
      /\ job'[w] # NoJob
      /\ job'[w].step = "entered"
      /\ job'[w].key = job[w].key
      /\ job'[w].value = job[w].value
      /\ job[w].key \in Keys
      /\ job[w].value \in Entries \cup {NoEntry}
      /\ \A v \in Writers : v # w => job'[v] = job[v]
  BY JobMoves DEF JobSteps
<1>2. TypeOK'
  BY <1>1 DEF TypeOK, Stages
<1>3. MutexOwner' /\ OwnerHasJob'
  BY <1>1 DEF TypeOK, MutexOwner, OwnerHasJob, InMutex
<1>4. PersistedOnDisk' /\ ForgottenFirst'
  BY <1>1 DEF TypeOK, Memories, MutexOwner, PersistedOnDisk, ForgottenFirst, InMutex
<1>5. CopiesAgree'
  BY <1>1 DEF TypeOK, Memories, MutexOwner, OwnerHasJob, PersistedOnDisk, ForgottenFirst, CopiesAgree, InFlux, InMutex
<1>6. Fenced'
  BY <1>1 DEF Fenced, Cancelled, MutexOwner, InMutex
<1>7. QED
  BY <1>2, <1>3, <1>4, <1>5, <1>6

LEMMA RefuseInv ==
  ASSUME IInv, NEW w \in Writers, Refuse(w)
  PROVE  IInv'
<1> USE JobsAreRecords DEF IInv, Refuse, Finish
<1>1. /\ job' \in [Writers -> Jobs \cup {NoJob}]
      /\ job'[w] # NoJob
      /\ job'[w].step = "done"
      /\ job'[w].key = job[w].key
      /\ job'[w].value = job[w].value
      /\ job[w].key \in Keys
      /\ job[w].value \in Entries \cup {NoEntry}
      /\ \A v \in Writers : v # w => job'[v] = job[v]
  BY JobMoves DEF JobSteps
<1>2. TypeOK'
  BY <1>1 DEF TypeOK, Stages
<1>3. MutexOwner' /\ OwnerHasJob'
  BY <1>1 DEF TypeOK, MutexOwner, OwnerHasJob, InMutex
<1>4. PersistedOnDisk' /\ ForgottenFirst'
  BY <1>1 DEF TypeOK, Memories, MutexOwner, PersistedOnDisk, ForgottenFirst, InMutex
<1>5. CopiesAgree'
  BY <1>1 DEF TypeOK, Memories, MutexOwner, OwnerHasJob, PersistedOnDisk, ForgottenFirst, CopiesAgree, InFlux, InMutex
<1>6. Fenced'
  BY <1>1 DEF Fenced, Cancelled, MutexOwner, InMutex
<1>7. QED
  BY <1>2, <1>3, <1>4, <1>5, <1>6

LEMMA WriteFailsInv ==
  ASSUME IInv, NEW w \in Writers, WriteFails(w)
  PROVE  IInv'
<1> USE JobsAreRecords DEF IInv, WriteFails, Finish
<1>1. /\ job' \in [Writers -> Jobs \cup {NoJob}]
      /\ job'[w] # NoJob
      /\ job'[w].step = "done"
      /\ job'[w].key = job[w].key
      /\ job'[w].value = job[w].value
      /\ job[w].key \in Keys
      /\ job[w].value \in Entries \cup {NoEntry}
      /\ \A v \in Writers : v # w => job'[v] = job[v]
  BY JobMoves DEF JobSteps
<1>2. TypeOK'
  BY <1>1 DEF TypeOK, Stages
<1>3. MutexOwner' /\ OwnerHasJob'
  BY <1>1 DEF TypeOK, MutexOwner, OwnerHasJob, InMutex
<1>4. PersistedOnDisk' /\ ForgottenFirst'
  BY <1>1 DEF TypeOK, Memories, MutexOwner, PersistedOnDisk, ForgottenFirst, InMutex
<1>5. CopiesAgree'
  BY <1>1 DEF TypeOK, Memories, MutexOwner, OwnerHasJob, PersistedOnDisk, ForgottenFirst, CopiesAgree, InFlux, InMutex
<1>6. Fenced'
  BY <1>1 DEF Fenced, Cancelled, MutexOwner, InMutex
<1>7. QED
  BY <1>2, <1>3, <1>4, <1>5, <1>6

LEMMA PersistInv ==
  ASSUME IInv, NEW w \in Writers, Persist(w)
  PROVE  IInv'
<1> USE JobsAreRecords DEF IInv, Persist, Renamed
<1>1. /\ job' \in [Writers -> Jobs \cup {NoJob}]
      /\ job'[w] # NoJob
      /\ job'[w].step = "persisted"
      /\ job'[w].key = job[w].key
      /\ job'[w].value = job[w].value
      /\ job[w].key \in Keys
      /\ job[w].value \in Entries \cup {NoEntry}
      /\ \A v \in Writers : v # w => job'[v] = job[v]
  BY JobMoves DEF JobSteps
<1>1a. /\ disk' \in Memories
       /\ disk'[job[w].key] = job[w].value
       /\ \A j \in Keys : j # job[w].key => disk'[j] = disk[j]
  BY <1>1 DEF TypeOK, Memories
<1>2. TypeOK'
  BY <1>1, <1>1a DEF TypeOK, Stages
<1>3. MutexOwner' /\ OwnerHasJob'
  BY <1>1 DEF TypeOK, MutexOwner, OwnerHasJob, InMutex
<1>4. PersistedOnDisk' /\ ForgottenFirst'
  BY <1>1, <1>1a DEF TypeOK, MutexOwner, PersistedOnDisk, ForgottenFirst, InMutex
<1>5. CopiesAgree'
  BY <1>1, <1>1a DEF TypeOK, MutexOwner, OwnerHasJob, PersistedOnDisk, ForgottenFirst, CopiesAgree, InFlux, InMutex
<1>6. Fenced'
  BY <1>1 DEF Fenced, Cancelled, MutexOwner, InMutex
<1>7. QED
  BY <1>2, <1>3, <1>4, <1>5, <1>6

LEMMA PutMemoryInv ==
  ASSUME IInv, NEW w \in Writers, PutMemory(w)
  PROVE  IInv'
<1> USE JobsAreRecords DEF IInv, PutMemory, Finish
<1>1. /\ job' \in [Writers -> Jobs \cup {NoJob}]
      /\ job'[w] # NoJob
      /\ job'[w].step = "done"
      /\ job'[w].key = job[w].key
      /\ job'[w].value = job[w].value
      /\ job[w].key \in Keys
      /\ job[w].value \in Entries \cup {NoEntry}
      /\ \A v \in Writers : v # w => job'[v] = job[v]
  BY JobMoves DEF JobSteps
<1>2. /\ memory' \in Memories
      /\ memory'[job[w].key] \in {job[w].value, NoEntry}
      /\ \A j \in Keys : j # job[w].key => memory'[j] \in {memory[j], NoEntry}
      /\ job[w].value = disk[job[w].key]
  BY <1>1, AdmitResult DEF PersistedOnDisk
<1>3. TypeOK'
  BY <1>1, <1>2 DEF TypeOK, Stages
<1>4. MutexOwner' /\ OwnerHasJob'
  BY <1>1, <1>2 DEF TypeOK, MutexOwner, OwnerHasJob, InMutex
<1>5. PersistedOnDisk' /\ ForgottenFirst'
  BY <1>1, <1>2 DEF TypeOK, Memories, MutexOwner, PersistedOnDisk, ForgottenFirst, InMutex
<1>6. CopiesAgree'
  BY <1>1, <1>2 DEF TypeOK, Memories, MutexOwner, OwnerHasJob, PersistedOnDisk, ForgottenFirst, CopiesAgree, InFlux, InMutex
<1>7. Fenced'
  BY <1>1, <1>2 DEF Fenced, Cancelled, MutexOwner, InMutex
<1>8. QED
  BY <1>3, <1>4, <1>5, <1>6, <1>7

LEMMA ForgetMemoryInv ==
  ASSUME IInv, NEW w \in Writers, ForgetMemory(w)
  PROVE  IInv'
<1> USE JobsAreRecords DEF IInv, ForgetMemory
<1>1. /\ job' \in [Writers -> Jobs \cup {NoJob}]
      /\ job'[w] # NoJob
      /\ job'[w].step = "forgotten"
      /\ job'[w].key = job[w].key
      /\ job'[w].value = job[w].value
      /\ job[w].key \in Keys
      /\ job[w].value \in Entries \cup {NoEntry}
      /\ \A v \in Writers : v # w => job'[v] = job[v]
  BY JobMoves DEF JobSteps
<1>2. /\ memory' \in Memories
      /\ memory'[job[w].key] = NoEntry
      /\ \A j \in Keys : j # job[w].key => memory'[j] = memory[j]
  BY <1>1, WithoutType DEF TypeOK
<1>3. TypeOK'
  BY <1>1, <1>2 DEF TypeOK, Stages
<1>4. MutexOwner' /\ OwnerHasJob'
  BY <1>1, <1>2 DEF TypeOK, MutexOwner, OwnerHasJob, InMutex
<1>5. PersistedOnDisk' /\ ForgottenFirst'
  BY <1>1, <1>2 DEF TypeOK, Memories, MutexOwner, PersistedOnDisk, ForgottenFirst, InMutex
<1>6. CopiesAgree'
  BY <1>1, <1>2 DEF TypeOK, Memories, MutexOwner, OwnerHasJob, PersistedOnDisk, ForgottenFirst, CopiesAgree, InFlux, InMutex
<1>7. Fenced'
  BY <1>1, <1>2 DEF Fenced, Cancelled, MutexOwner, InMutex
<1>8. QED
  BY <1>3, <1>4, <1>5, <1>6, <1>7

LEMMA RemoveFileInv ==
  ASSUME IInv, NEW w \in Writers, RemoveFile(w)
  PROVE  IInv'
<1> USE JobsAreRecords DEF IInv, RemoveFile, Finish
<1>1. /\ job' \in [Writers -> Jobs \cup {NoJob}]
      /\ job'[w] # NoJob
      /\ job'[w].step = "done"
      /\ job[w].key \in Keys
      /\ \A v \in Writers : v # w => job'[v] = job[v]
  <2>1. PICK ok \in BOOLEAN : job' = [job EXCEPT ![w] = At(w, "done", ok)]
    OBVIOUS
  <2>2. QED
    BY <2>1, JobMoves DEF JobSteps
<1>2. /\ disk' \in Memories
      /\ \A j \in Keys : j # job[w].key => disk'[j] = disk[j]
      /\ memory[job[w].key] = NoEntry
  <2>1. CASE disk' = Without(disk, job[w].key)
    BY <1>1, <2>1, WithoutType DEF TypeOK, ForgottenFirst
  <2>2. CASE UNCHANGED disk
    BY <1>1, <2>2 DEF TypeOK, ForgottenFirst
  <2>3. QED
    BY <2>1, <2>2
<1>3. TypeOK'
  BY <1>1, <1>2 DEF TypeOK, Stages
<1>4. MutexOwner' /\ OwnerHasJob'
  BY <1>1, <1>2 DEF TypeOK, MutexOwner, OwnerHasJob, InMutex
<1>5. PersistedOnDisk' /\ ForgottenFirst'
  BY <1>1, <1>2 DEF TypeOK, Memories, MutexOwner, PersistedOnDisk, ForgottenFirst, InMutex
<1>6. CopiesAgree'
  BY <1>1, <1>2 DEF TypeOK, Memories, MutexOwner, OwnerHasJob, PersistedOnDisk, ForgottenFirst, CopiesAgree, InFlux, InMutex
<1>7. Fenced'
  BY <1>1, <1>2 DEF Fenced, Cancelled, MutexOwner, InMutex
<1>8. QED
  BY <1>3, <1>4, <1>5, <1>6, <1>7

-----------------------------------------------------------------------------
(* The other actions.                                                      *)

\* A closure appears as "spawned" or disappears as "done": never in the mutex.
LEMMA SpawnOrCollectInv ==
  ASSUME IInv, NEW w \in Writers,
         UNCHANGED <<disk, memory, residents, lock, stage, restorer>>,
         job' \in [Writers -> Jobs \cup {NoJob}],
         \A v \in Writers : v # w => job'[v] = job[v],
         job[w] # NoJob => job[w].step = "done",
         job'[w] # NoJob => job'[w].step = "spawned"
  PROVE  IInv'
<1> USE JobsAreRecords DEF IInv
<1>1. TypeOK'
  BY DEF TypeOK
<1>2. MutexOwner' /\ OwnerHasJob'
  BY DEF TypeOK, MutexOwner, OwnerHasJob, InMutex
<1>3. PersistedOnDisk' /\ ForgottenFirst'
  BY DEF PersistedOnDisk, ForgottenFirst
<1>4. CopiesAgree'
  BY DEF TypeOK, MutexOwner, OwnerHasJob, CopiesAgree, InFlux, InMutex
<1>5. Fenced'
  BY DEF Fenced
<1>6. QED
  BY <1>1, <1>2, <1>3, <1>4, <1>5

LEMMA SpawnInv ==
  ASSUME IInv, NEW w \in Writers, NEW k \in Keys, NEW e \in Entries \cup {NoEntry},
         NEW a \in Admission, Spawn(w, k, e, a)
  PROVE  IInv'
<1> DEFINE J == [step |-> "spawned", key |-> k, value |-> e,
                 admission |-> a, ok |-> FALSE]
<1>1. J \in Jobs /\ J.step = "spawned"
  BY DEF Jobs, JobSteps
<1> HIDE DEF J
<1>2. job' = [job EXCEPT ![w] = J]
  BY DEF Spawn, J
<1>3. /\ job' \in [Writers -> Jobs \cup {NoJob}]
      /\ job'[w] = J
      /\ \A v \in Writers : v # w => job'[v] = job[v]
  BY <1>1, <1>2 DEF IInv, TypeOK
<1>4. QED
  BY <1>1, <1>3, SpawnOrCollectInv DEF Spawn

LEMMA CollectInv ==
  ASSUME IInv, NEW w \in Writers, Collect(w)
  PROVE  IInv'
<1>1. /\ job' \in [Writers -> Jobs \cup {NoJob}]
      /\ job'[w] = NoJob
      /\ \A v \in Writers : v # w => job'[v] = job[v]
  BY DEF Collect, IInv, TypeOK
<1>2. QED
  BY <1>1, SpawnOrCollectInv DEF Collect

\* A step that only removes copies, with the mutex free.
LEMMA ShrinkInv ==
  ASSUME IInv, lock = NoWriter, memory' \in Shrunk(memory),
         residents' \in {residents, Resident(memory')},
         UNCHANGED <<disk, lock, job>>,
         stage' \in Stages, restorer' \in {"off", "restoring", "resting", "gone"},
         Fenced'
  PROVE  IInv'
<1> USE JobsAreRecords DEF IInv
<1>1. TypeOK'
  BY DEF TypeOK, Shrunk, Resident
<1>2. MutexOwner' /\ OwnerHasJob' /\ PersistedOnDisk'
  BY DEF MutexOwner, OwnerHasJob, PersistedOnDisk
<1>3. ForgottenFirst'
  BY DEF ForgottenFirst, MutexOwner, InMutex
<1>4. CopiesAgree'
  BY DEF CopiesAgree, InFlux, Shrunk
<1>5. QED
  BY <1>1, <1>2, <1>3, <1>4

LEMMA ShrunkSelf == ASSUME NEW m \in Memories PROVE m \in Shrunk(m)
BY DEF Shrunk

LEMMA EmptyIsShrunk == ASSUME NEW m \in Memories PROVE EmptyMemory \in Shrunk(m)
BY EmptyMemoryType DEF Shrunk, EmptyMemory

\* Steps that move only close() or the restore task.
LEMMA ControlInv ==
  ASSUME IInv, StartRestore \/ EndRestore \/ StopRestorer \/ Cancel \/ TasksEnded
  PROVE  IInv'
<1> USE DEF IInv, StartRestore, EndRestore, StopRestorer, Cancel, TasksEnded
<1>1. UNCHANGED <<disk, memory, residents, lock, job>>
  OBVIOUS
<1>2. TypeOK'
  BY <1>1 DEF TypeOK, Stages
<1>3. Fenced'
  BY <1>1 DEF Fenced, Cancelled
<1>4. QED
  BY <1>1, <1>2, <1>3
     DEF MutexOwner, OwnerHasJob, PersistedOnDisk, ForgottenFirst, CopiesAgree, InFlux

LEMMA SaveInv ==
  ASSUME IInv, SavePeriodically \/ SaveFinally
  PROVE  IInv'
<1> USE DEF SavePeriodically, SaveFinally, SaveResidents
<1>1. stage' \in Stages /\ restorer' \in {"off", "restoring", "resting", "gone"}
  BY DEF IInv, TypeOK, Stages
<1>2. Fenced'
  BY DEF IInv, Fenced
<1>3. QED
  BY <1>1, <1>2, ShrinkInv

LEMMA CloseMemoryInv ==
  ASSUME IInv, CloseMemory
  PROVE  IInv'
<1>1. stage' \in Stages /\ restorer' \in {"off", "restoring", "resting", "gone"}
  BY DEF CloseMemory, IInv, TypeOK, Stages
<1>2. Fenced'
  BY DEF CloseMemory, IInv, Fenced
<1>3. memory' \in Shrunk(memory)
  BY EmptyIsShrunk DEF CloseMemory, IInv, TypeOK
<1>4. QED
  BY <1>1, <1>2, <1>3, ShrinkInv DEF CloseMemory

LEMMA RestoreInv ==
  ASSUME IInv, NEW k \in Keys, Restore(k)
  PROVE  IInv'
<1> USE JobsAreRecords DEF IInv, Restore
<1>1. /\ memory' \in Memories
      /\ memory'[k] \in {disk[k], NoEntry}
      /\ \A j \in Keys : j # k => memory'[j] \in {memory[j], NoEntry}
  <2>1. CASE disk[k] = NoEntry
    BY <2>1, WithoutType DEF TypeOK
  <2>2. CASE disk[k] # NoEntry
    BY <2>2, WithoutType DEF TypeOK, AfterRestore, AfterPut
  <2>3. QED
    BY <2>1, <2>2
<1>2. TypeOK'
  BY <1>1 DEF TypeOK
<1>3. MutexOwner' /\ OwnerHasJob' /\ PersistedOnDisk'
  BY DEF MutexOwner, OwnerHasJob, PersistedOnDisk
<1>4. ForgottenFirst'
  BY DEF ForgottenFirst, MutexOwner, InMutex
<1>5. CopiesAgree'
  BY <1>1 DEF CopiesAgree, InFlux
<1>6. Fenced'
  BY DEF Fenced
<1>7. QED
  BY <1>2, <1>3, <1>4, <1>5, <1>6

LEMMA RestartInv ==
  ASSUME IInv, Restart
  PROVE  IInv'
BY EmptyMemoryType, JobsAreRecords
   DEF Restart, IInv, TypeOK, Stages, MutexOwner, OwnerHasJob, PersistedOnDisk,
       ForgottenFirst, CopiesAgree, Fenced, EmptyMemory

-----------------------------------------------------------------------------
(* Theorems.                                                               *)

LEMMA StepInv == IInv /\ [Next]_storageVars => IInv'
<1> SUFFICES ASSUME IInv, [Next]_storageVars PROVE IInv'
  OBVIOUS
<1>1. CASE UNCHANGED storageVars
  BY <1>1 DEF storageVars, IInv, TypeOK, MutexOwner, OwnerHasJob, PersistedOnDisk,
     ForgottenFirst, CopiesAgree, InFlux, Fenced
<1>2. ASSUME NEW k \in Keys, NEW v \in Variants, NEW d \in BOOLEAN,
             NEW e \in Entries \cup {NoEntry}, Stored(k, v, d, e)
      PROVE  IInv'
  BY <1>2, StoredInv
<1>3. ASSUME NEW w \in Writers, NEW k \in Keys, NEW e \in Entries \cup {NoEntry},
             NEW a \in Admission, Spawn(w, k, e, a)
      PROVE  IInv'
  BY <1>3, SpawnInv
<1>4. ASSUME NEW w \in Writers, JobStep(w)
      PROVE  IInv'
  BY <1>4, EnterInv, RefuseInv, WriteFailsInv, PersistInv, PutMemoryInv, ForgetMemoryInv,
     RemoveFileInv DEF JobStep
<1>5. ASSUME NEW w \in Writers, Collect(w)
      PROVE  IInv'
  BY <1>5, CollectInv
<1>6. CASE StartRestore \/ RestorerStep
  BY <1>6, ControlInv, RestoreInv, SaveInv DEF RestorerStep
<1>7. CASE Cancel \/ CloseStep
  BY <1>7, ControlInv, SaveInv, CloseMemoryInv DEF CloseStep
<1>8. CASE Restart
  BY <1>8, RestartInv
<1>9. QED
  BY <1>1, <1>2, <1>3, <1>4, <1>5, <1>6, <1>7, <1>8 DEF Next

THEOREM Invariance == Spec => []IInv
BY InitInv, StepInv, PTL DEF Spec

\* The variables keep their types.
THEOREM TypeCorrect == Spec => []TypeOK
<1>1. IInv => TypeOK
  BY DEF IInv
<1>2. QED
  BY <1>1, Invariance, PTL

\* Memory and disk agree whenever the mutex is free.
THEOREM Coherence == Spec => []Coherent
<1>1. IInv => Coherent
  BY DEF IInv, CopiesAgree, InFlux, Coherent, Resident
<1>2. QED
  BY <1>1, Invariance, PTL

\* After close() has returned, nothing changes the directory or the memory.
THEOREM CloseIsAFence == Spec => CloseFence
<1>1. IInv /\ IInv' /\ [Next]_storageVars
        => [stage = "closed" => UNCHANGED <<disk, memory, residents>>]_storageVars
  <2> SUFFICES ASSUME IInv, IInv', Next, stage = "closed"
               PROVE  UNCHANGED <<disk, memory, residents>>
    BY DEF storageVars
  <2>1. memory = EmptyMemory /\ lock = NoWriter /\ restorer \in {"off", "gone"}
    BY DEF IInv, Fenced
  <2>2. \A w \in Writers : job[w] # NoJob => job[w].step \notin InMutex
    BY <2>1, NoWriterAssumption DEF IInv, MutexOwner
  <2>3. ASSUME stage' = "closed" PROVE UNCHANGED memory
    BY <2>1, <2>3 DEF IInv, Fenced
  <2>4. CASE Restart
    BY <2>1, <2>4 DEF Restart
  <2>5. CASE ~Restart
    <3>1. UNCHANGED <<disk, residents, stage>>
      BY <2>1, <2>2, <2>5
         DEF Next, Stored, Spawn, JobStep, Enter, Admitted, Refuse, WriteFails, Persist, PutMemory,
             ForgetMemory, RemoveFile, Collect, InMutex, StartRestore, RestorerStep, Restore,
             EndRestore, SavePeriodically, StopRestorer, Cancel, CloseStep, TasksEnded,
             SaveFinally, CloseMemory
    <3>2. QED
      BY <2>3, <3>1
  <2>6. QED
    BY <2>4, <2>5
<1>2. QED
  BY <1>1, Invariance, PTL DEF Spec, CloseFence

\* Only a closure that has returned reports success.
OkWhenDone == \A w \in Writers : job[w] # NoJob /\ job[w].ok => job[w].step = "done"

LEMMA OkInv == TypeOK /\ OkWhenDone /\ [Next]_storageVars => OkWhenDone'
<1> SUFFICES ASSUME TypeOK, OkWhenDone, [Next]_storageVars PROVE OkWhenDone'
  OBVIOUS
<1>1. CASE UNCHANGED job
  BY <1>1 DEF OkWhenDone
<1>2. ASSUME NEW w \in Writers, NEW s, NEW ok \in BOOLEAN, ok => s = "done",
             job' = [job EXCEPT ![w] = At(w, s, ok)]
      PROVE  OkWhenDone'
  BY <1>2 DEF OkWhenDone, TypeOK, At
<1>3. ASSUME NEW w \in Writers, JobStep(w) PROVE OkWhenDone'
  BY <1>2, <1>3 DEF JobStep, Enter, Refuse, WriteFails, Persist, PutMemory, ForgetMemory,
                    RemoveFile, Finish
<1>4. ASSUME NEW w \in Writers, NEW k, NEW e, NEW a, Spawn(w, k, e, a) PROVE OkWhenDone'
  BY <1>4 DEF OkWhenDone, TypeOK, Spawn
<1>5. ASSUME NEW w \in Writers, Collect(w) PROVE OkWhenDone'
  BY <1>5 DEF OkWhenDone, TypeOK, Collect
<1>6. CASE Restart
  BY <1>6 DEF OkWhenDone, Restart
<1>7. QED
  BY <1>1, <1>3, <1>4, <1>5, <1>6
     DEF Next, Stored, StartRestore, RestorerStep, Restore, EndRestore, SavePeriodically,
         SaveResidents, StopRestorer, Cancel, CloseStep, TasksEnded, SaveFinally, CloseMemory,
         storageVars

\* The steps that write the directory.
LEMMA DiskChanges ==
  ASSUME IInv, [Next]_storageVars, NEW k \in Keys, disk'[k] # disk[k]
  PROVE  /\ lock # NoWriter /\ job[lock] # NoJob
         /\ job[lock].key = k /\ job[lock].value = disk'[k]
<1>1. PICK w \in Writers : Persist(w) \/ RemoveFile(w)
  BY DEF Next, storageVars, Stored, Spawn, JobStep, Enter, Refuse, WriteFails, PutMemory,
         ForgetMemory, Collect, StartRestore, RestorerStep, Restore, EndRestore,
         SavePeriodically, SaveResidents, StopRestorer, Cancel, CloseStep, TasksEnded,
         SaveFinally, CloseMemory, Restart
<1>2. job[w] # NoJob /\ job[w].step \in InMutex
  BY <1>1 DEF Persist, RemoveFile, InMutex
<1>3. lock = w /\ lock # NoWriter
  BY <1>2, NoWriterAssumption DEF IInv, MutexOwner
<1>4. job[w].key = k /\ job[w].value = disk'[k]
  <2>1. CASE Persist(w)
    BY <2>1 DEF Persist, Renamed, IInv, TypeOK, Memories
  <2>2. CASE RemoveFile(w)
    <3>1. job[w].key \in Keys /\ job[w].value = NoEntry
      BY <1>2, <2>2 DEF RemoveFile, IInv, TypeOK, Jobs, ForgottenFirst
    <3>2. disk' = Without(disk, job[w].key)
      BY <2>2 DEF RemoveFile
    <3>3. QED
      BY <3>1, <3>2, WithoutType DEF IInv, TypeOK
  <2>3. QED
    BY <1>1, <2>1, <2>2
<1>5. QED
  BY <1>2, <1>3, <1>4

\* What a closure reports as stored is on disk when it reports it, and stays there,
\* whatever fails, ends, crashes or restarts, until a store of its key replaces it.
THEOREM Durability == Spec => AckedIsDurable
<1> DEFINE Durable ==
      \A w \in Writers :
        job[w] # NoJob /\ job[w].step # "done" /\ job'[w] # NoJob /\ job'[w].ok
          => disk'[job[w].key] = job[w].value
<1>1. Init => OkWhenDone
  BY DEF Init, OkWhenDone
<1>2. IInv /\ OkWhenDone /\ OkWhenDone' /\ [Next]_storageVars => [Durable]_storageVars
  <2> SUFFICES ASSUME IInv, OkWhenDone, OkWhenDone', Next,
                      NEW w \in Writers, job[w] # NoJob, job[w].step # "done",
                      job'[w] # NoJob, job'[w].ok
               PROVE  disk'[job[w].key] = job[w].value
    OBVIOUS
  <2>1. job'[w] # job[w]
    BY DEF OkWhenDone
  <2>2. PutMemory(w) \/ RemoveFile(w)
    <3>1. PICK v \in Writers : JobStep(v)
      BY <2>1 DEF Next, Stored, Spawn, Collect, StartRestore, RestorerStep, Restore, EndRestore,
                  SavePeriodically, SaveResidents, StopRestorer, Cancel, CloseStep, TasksEnded,
                  SaveFinally, CloseMemory, Restart, IInv, TypeOK
    <3>2. JobStep(w)
      <4>1. \E j : job' = [job EXCEPT ![v] = j]
        BY <3>1 DEF JobStep, Enter, Refuse, WriteFails, Persist, PutMemory, ForgetMemory,
                    RemoveFile, Finish
      <4>2. v = w
        BY <2>1, <4>1 DEF IInv, TypeOK
      <4>3. QED
        BY <3>1, <4>2
    <3>3. job'[w].step = "done"
      BY DEF OkWhenDone
    <3>4. ~Enter(w) /\ ~Persist(w) /\ ~ForgetMemory(w)
      BY <3>3 DEF Enter, Persist, ForgetMemory, At, IInv, TypeOK
    <3>5. ~Refuse(w) /\ ~WriteFails(w)
      BY DEF Refuse, WriteFails, Finish, At, IInv, TypeOK
    <3>6. QED
      BY <3>2, <3>4, <3>5 DEF JobStep
  <2>3. CASE PutMemory(w)
    BY <2>3 DEF PutMemory, IInv, PersistedOnDisk
  <2>4. CASE RemoveFile(w)
    <3>1. job[w].key \in Keys /\ job[w].value = NoEntry
      BY <2>4 DEF RemoveFile, IInv, TypeOK, Jobs, ForgottenFirst
    <3>2. disk' = Without(disk, job[w].key)
      BY <2>4 DEF RemoveFile, Finish, At, IInv, TypeOK
    <3>3. QED
      BY <3>1, <3>2, WithoutType DEF IInv, TypeOK
  <2>5. QED
    BY <2>2, <2>3, <2>4
<1>3. IInv => TypeOK
  BY DEF IInv
<1>4. Spec => ReportedIsOnDisk
  BY <1>1, <1>2, <1>3, OkInv, Invariance, PTL DEF Spec, ReportedIsOnDisk
<1>5. IInv /\ [Next]_storageVars =>
        (\A k \in Keys : disk'[k] # disk[k] =>
           /\ lock # NoWriter /\ job[lock] # NoJob
           /\ job[lock].key = k /\ job[lock].value = disk'[k])
  BY DiskChanges
<1>6. Spec => ReplacedByStoreAlone
  BY <1>5, Invariance, PTL DEF Spec, ReplacedByStoreAlone
<1>7. QED
  BY <1>4, <1>6 DEF AckedIsDurable

=============================================================================
