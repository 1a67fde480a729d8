---------------------------- MODULE ServiceProofs ----------------------------
(***************************************************************************)
(* Proofs about Service and the directories it owns, for any number of     *)
(* processes, paths and directories, and whatever somebody outside does.   *)
(* Only what is said of a migration, in the last two parts, needs a        *)
(* hypothesis about the outside.                                           *)
(***************************************************************************)
EXTENDS Service, TLAPS

\* Stages of a command in which the gateway does not run.
Resting == {"off", "openCache", "openLogs", "recoverCache", "recoverLogs", "exit",
            "copy", "publish", "undo"}

\* Whether the Directory value of kind k follows the settings of process i.
Opening(i, k) ==
  cmd[i].stage \in {"off", "openCache"} \/ (cmd[i].stage = "openLogs" /\ k = "logs")

PathsFollow(i) ==
  \A k \in Kinds : ~Opening(i, k) => dir[<<i, k>>].path = PathOf(settings[i], k)

\* The target of a change of directory is owned and, from the first copy on,
\* marked; without such a target the replacement slot is empty.
TargetOwned(i) ==
  /\ Migrating(i) => Held(Target(i)) /\ Target(i).path = cmd[i].path
  /\ cmd[i].stage \in {"copy", "publish"} => Target(i).inode \in marker
  /\ ~(Migrating(i) /\ cmd[i].moved) => ~Held(dir[<<i, "next">>])

\* A start has both directories before it makes use of them, and nothing that
\* lets them go happens before the gateway has stopped.
Preparing == {"open", "init", "status", "start", "export"}

StartOwns(i) ==
  /\ cmd[i].stage \in {"openCache", "openLogs", "prepare"} => cmd[i].op \in Preparing
  /\ cmd[i].stage \in Resting => ~session[i].running
  /\ cmd[i].stage = "ensureLogs" /\ cmd[i].op = "start" => Held(dir[<<i, "cache">>])
  /\ session[i].running \/ cmd[i].stage \in {"trace", "serve"} =>
       Held(dir[<<i, "cache">>]) /\ Held(dir[<<i, "logs">>])

PInv(i) == PathsFollow(i) /\ TargetOwned(i) /\ StartOwns(i)

IInv ==
  /\ TypeOK
  /\ OneOwner
  /\ settings = disk
  /\ StagingIsMarked
  /\ \A i \in Instances : PInv(i)

-----------------------------------------------------------------------------
(* Records and directories.                                                *)

LEMMA Apart == NoInode \notin Inodes /\ MaxLock \in Nat /\ MaxLock > 0
BY DirectoryAssumption

LEMMA BrokenType ==
  ASSUME NEW p \in Paths
  PROVE  Broken(p) \in Handle /\ ~Held(Broken(p)) /\ Broken(p).path = p
BY Apart DEF Broken, Handle, Held

LEMMA NothingType ==
  ASSUME NEW i \in Instances
  PROVE  Nothing(i) \in Handle /\ ~Held(Nothing(i))
<1>1. FirstSettings[i].cache \in Paths
  BY ServiceAssumption DEF Settings
<1>2. QED
  BY <1>1, BrokenType DEF Nothing

LEMMA PlaceType ==
  ASSUME at \in [Paths -> Inodes \cup {NoInode}], NEW p \in Paths
  PROVE  Place(p) \in Inodes \cup {NoInode}
<1>1. CASE at[p] # NoInode \/ ~\E n \in Inodes : Unused(n)
  BY <1>1 DEF Place
<1>2. CASE ~(at[p] # NoInode \/ ~\E n \in Inodes : Unused(n))
  <2>1. (CHOOSE n \in Inodes : Unused(n)) \in Inodes
    BY <1>2
  <2>2. QED
    BY <1>2, <2>1 DEF Place
<1>3. QED
  BY <1>1, <1>2

LEMMA LockType ==
  ASSUME TypeOK, NEW n \in Inodes
  PROVE  LockOf(n) \in 0..MaxLock
BY Apart DEF TypeOK, LockOf

LEMMA OpenTreeType ==
  ASSUME TypeOK, NEW p \in Paths, OpenTree(p)
  PROVE  /\ at' \in [Paths -> Inodes \cup {NoInode}]
         /\ lockFile' \in [Inodes -> 0..MaxLock]
<1>1. Place(p) \in Inodes \cup {NoInode}
  BY PlaceType DEF TypeOK
<1>2. CASE Place(p) = NoInode
  BY <1>2 DEF OpenTree, treeVars, TypeOK
<1>3. CASE Place(p) \in Inodes
  BY <1>3, LockType, Apart DEF OpenTree, TypeOK
<1>4. QED
  BY <1>1, <1>2, <1>3

\* What opening yields: the path that was asked for, and a directory that none
\* but the slots that are let go holds.
LEMMA OpenedResult ==
  ASSUME TypeOK, NEW p \in Paths, NEW mine
  PROVE  /\ Opened(p, mine) \in Handle
         /\ Opened(p, mine).path = p
         /\ Held(Opened(p, mine)) => InodeFree(Opened(p, mine).inode, mine)
<1>1. Place(p) \in Inodes \cup {NoInode}
  BY PlaceType DEF TypeOK
<1>2. CASE Place(p) # NoInode /\ CanOwn(Place(p), LockOf(Place(p)), mine)
  <2>1. Opened(p, mine) = [path |-> p, inode |-> Place(p), lock |-> LockOf(Place(p)),
                           error |-> FALSE]
    BY <1>2 DEF Opened
  <2>2. LockOf(Place(p)) \in 0..MaxLock
    BY <1>1, <1>2, LockType
  <2>3. Opened(p, mine) \in Handle /\ Opened(p, mine).path = p
    BY <1>1, <2>1, <2>2 DEF Handle
  <2>4. QED
    BY <1>2, <2>1, <2>3 DEF CanOwn
<1>3. CASE ~(Place(p) # NoInode /\ CanOwn(Place(p), LockOf(Place(p)), mine))
  <2>1. Opened(p, mine) = Broken(p)
    BY <1>3 DEF Opened
  <2>2. QED
    BY <2>1, BrokenType
<1>4. QED
  BY <1>2, <1>3

\* The more is let go, the more can be opened.
LEMMA OpenedMore ==
  ASSUME TypeOK, NEW p \in Paths, NEW mine, Held(Opened(p, {}))
  PROVE  Held(Opened(p, mine))
<1>1. Place(p) # NoInode /\ CanOwn(Place(p), LockOf(Place(p)), {})
  BY BrokenType DEF Opened
<1>2. CanOwn(Place(p), LockOf(Place(p)), mine)
  BY <1>1 DEF CanOwn, LockFileFree, InodeFree
<1>3. QED
  BY <1>1, <1>2 DEF Opened, Held

\* One slot changes hands.
LEMMA OwnerSet ==
  ASSUME dir \in [Slots -> Handle], OneOwner, NEW s \in Slots, NEW h \in Handle,
         dir' = [dir EXCEPT ![s] = h], Held(h) => InodeFree(h.inode, {s})
  PROVE  OneOwner'
BY DEF OneOwner, Held, InodeFree

LEMMA AcquireStep ==
  ASSUME TypeOK, OneOwner, NEW s \in Slots, NEW p \in Paths, Acquire(s, p)
  PROVE  /\ at' \in [Paths -> Inodes \cup {NoInode}]
         /\ lockFile' \in [Inodes -> 0..MaxLock]
         /\ dir' \in [Slots -> Handle]
         /\ dir'[s].path = p
         /\ Held(Opened(p, {s})) => Held(dir'[s])
         /\ \A t \in Slots : t # s => dir'[t] = dir[t]
         /\ OneOwner'
<1>1. Opened(p, {s}) \in Handle /\ Opened(p, {s}).path = p
  BY OpenedResult
<1>2. dir' = [dir EXCEPT ![s] = Opened(p, {s})]
  BY DEF Acquire
<1>3. dir \in [Slots -> Handle]
  BY DEF TypeOK
<1>4. OneOwner'
  BY <1>1, <1>2, <1>3, OpenedResult, OwnerSet
<1>5. QED
  BY <1>1, <1>2, <1>3, <1>4, OpenTreeType DEF Acquire

\* A Directory value that is checked keeps its path, and its locks if it has any.
LEMMA EnsureStep ==
  ASSUME TypeOK, OneOwner, NEW s \in Slots, Ensure(s)
  PROVE  /\ at' \in [Paths -> Inodes \cup {NoInode}]
         /\ lockFile' \in [Inodes -> 0..MaxLock]
         /\ dir' \in [Slots -> Handle]
         /\ dir'[s].path = dir[s].path
         /\ Held(dir[s]) \/ EnsureOK(s) => Held(dir'[s])
         /\ \A t \in Slots : t # s => dir'[t] = dir[t]
         /\ OneOwner'
<1>1. dir \in [Slots -> Handle] /\ dir[s].path \in Paths
  BY DEF TypeOK, Handle
<1>2. CASE Held(dir[s])
  <2>1. dir' = [dir EXCEPT ![s] = Flagged(dir[s], ~Check(dir[s]))] /\ UNCHANGED treeVars
    BY <1>1, <1>2 DEF Ensure
  <2>2. Check(dir[s]) \in BOOLEAN
    BY DEF Check, Held
  <2>3. /\ Flagged(dir[s], ~Check(dir[s])) \in Handle
        /\ Flagged(dir[s], ~Check(dir[s])).path = dir[s].path
        /\ Flagged(dir[s], ~Check(dir[s])).inode = dir[s].inode
    BY <1>1, <2>2 DEF Flagged, Handle
  <2>4. OneOwner'
    BY <1>1, <2>1, <2>3 DEF OneOwner, Held
  <2>5. QED
    BY <1>1, <1>2, <2>1, <2>3, <2>4 DEF treeVars, TypeOK, Held
<1>3. CASE ~Held(dir[s])
  <2>1. Acquire(s, dir[s].path)
    BY <1>3 DEF Ensure
  <2>2. EnsureOK(s) => Held(Opened(dir[s].path, {s}))
    BY <1>1, <1>3, OpenedMore DEF EnsureOK
  <2>3. QED
    BY <1>1, <1>3, <2>1, <2>2, AcquireStep
<1>4. QED
  BY <1>2, <1>3

LEMMA RecoverStep ==
  ASSUME TypeOK, OneOwner, NEW s \in Slots, Recover(s)
  PROVE  /\ at' \in [Paths -> Inodes \cup {NoInode}]
         /\ lockFile' \in [Inodes -> 0..MaxLock]
         /\ dir' \in [Slots -> Handle]
         /\ dir'[s].path = dir[s].path
         /\ \A t \in Slots : t # s => dir'[t] = dir[t]
         /\ OneOwner'
<1>1. dir \in [Slots -> Handle] /\ dir[s].path \in Paths
  BY DEF TypeOK, Handle
<1>2. CASE Held(dir[s]) /\ ~Check(dir[s])
  BY <1>1, <1>2, AcquireStep DEF Recover
<1>3. CASE ~(Held(dir[s]) /\ ~Check(dir[s]))
  BY <1>1, <1>3 DEF Recover, treeVars, TypeOK, OneOwner, Held
<1>4. QED
  BY <1>2, <1>3

-----------------------------------------------------------------------------
(* Commands.                                                               *)

LEMMA GotoStep ==
  ASSUME TypeOK, NEW i \in Instances, NEW s \in Stages, Goto(i, s)
  PROVE  /\ cmd' \in [Instances -> Command]
         /\ cmd'[i].stage = s
         /\ cmd'[i].op = cmd[i].op /\ cmd'[i].kind = cmd[i].kind
         /\ cmd'[i].path = cmd[i].path /\ cmd'[i].moved = cmd[i].moved
         /\ \A j \in Instances : j # i => cmd'[j] = cmd[j]
<1>1. cmd[i] \in Command
  BY DEF TypeOK
<1>2. Job(cmd[i], s, cmd[i].todo, cmd[i].copied) \in Command
  BY <1>1 DEF Job, Command
<1>3. QED
  BY <1>1, <1>2 DEF Goto, TypeOK, Job

LEMMA BeginStep ==
  ASSUME TypeOK, NEW i \in Instances, NEW op \in Ops, NEW s \in Stages, Begin(i, op, s)
  PROVE  /\ cmd' \in [Instances -> Command]
         /\ cmd'[i].stage = s
         /\ cmd'[i].op = op
         /\ \A j \in Instances : j # i => cmd'[j] = cmd[j]
<1>1. FirstSettings[i].cache \in Paths
  BY ServiceAssumption DEF Settings
<1>2. Quiet(i, op, s) \in Command
  BY <1>1 DEF Quiet, Command, Kinds
<1>3. QED
  BY <1>2 DEF Begin, TypeOK, Quiet

LEMMA ReturnStep ==
  ASSUME TypeOK, NEW i \in Instances, Return(i)
  PROVE  /\ cmd' \in [Instances -> Command]
         /\ cmd'[i].stage = "idle"
         /\ cmd'[i].op = "init"
         /\ \A j \in Instances : j # i => cmd'[j] = cmd[j]
BY BeginStep DEF Return, Ops, Stages

\* A process is not disturbed by what another does to its own slots.
LEMMA Undisturbed ==
  ASSUME NEW j \in Instances, PInv(j), cmd'[j] = cmd[j], session'[j] = session[j],
         settings'[j] = settings[j], marker \subseteq marker',
         \A k \in Kinds \cup {"next"} : dir'[<<j, k>>] = dir[<<j, k>>],
         cmd[j].kind \in Kinds
  PROVE  PInv(j)'
<1>1. Target(j)' = Target(j)
  BY DEF Target, TargetSlot
<1>2. PathsFollow(j)'
  BY DEF PInv, PathsFollow, Opening, Kinds
<1>3. TargetOwned(j)'
  BY <1>1 DEF PInv, TargetOwned, Migrating, Held
<1>4. StartOwns(j)'
  BY DEF PInv, StartOwns, Kinds, Held
<1>5. QED
  BY <1>2, <1>3, <1>4 DEF PInv

\* A step of process i that leaves the other processes alone: what is left to
\* show is about i.
LEMMA OwnStep ==
  ASSUME IInv, NEW i \in Instances, TypeOK', OneOwner', settings' = disk', StagingIsMarked',
         marker \subseteq marker',
         \A j \in Instances : j # i =>
           /\ cmd'[j] = cmd[j] /\ session'[j] = session[j] /\ settings'[j] = settings[j]
           /\ \A k \in Kinds \cup {"next"} : dir'[<<j, k>>] = dir[<<j, k>>],
         PInv(i)'
  PROVE  IInv'
<1>1. ASSUME NEW j \in Instances, j # i PROVE PInv(j)'
  <2>1. cmd[j].kind \in Kinds
    BY DEF IInv, TypeOK, Command
  <2>2. QED
    BY <1>1, <2>1, Undisturbed DEF IInv
<1>2. QED
  BY <1>1 DEF IInv

LEMMA SlotsAre ==
  /\ \A i \in Instances : \A k \in Kinds \cup {"next"} : <<i, k>> \in Slots
  /\ \A i \in Instances : \A j \in Instances : \A k, l \in Kinds \cup {"next"} :
       j # i => <<i, k>> # <<j, l>>
BY DEF Slots, Kinds

\* Stages that ask for nothing (but of `start'), and stages in which the paths are followed and no
\* change of directory is under way.
Calm == {"idle", "prepare", "ensureCache", "ensureLogs", "save", "halt", "clear"}
Settled == Stages \ {"off", "openCache", "openLogs", "copy", "publish", "undo"}

LEMMA CalmStep ==
  ASSUME IInv, NEW i \in Instances, cmd[i].stage \in Settled, cmd'[i].stage \in Calm,
         cmd'[i].stage = "prepare" => cmd'[i].op \in Preparing,
         cmd'[i].stage = "ensureLogs" => cmd'[i].op # "start",
         dir'[<<i, "next">>] = dir[<<i, "next">>],
         session'[i].running => session[i].running,
         \A k \in Kinds :
           /\ dir'[<<i, k>>].path = dir[<<i, k>>].path
           /\ Held(dir[<<i, k>>]) => Held(dir'[<<i, k>>])
           /\ PathOf(settings'[i], k) = PathOf(settings[i], k)
  PROVE  PInv(i)'
<1>1. PInv(i)
  BY DEF IInv
<1>2. PathsFollow(i)'
  BY <1>1 DEF PInv, PathsFollow, Opening, Calm, Settled
<1>3. TargetOwned(i)'
  BY <1>1 DEF PInv, TargetOwned, Migrating, Calm, Settled, Held
<1>4. StartOwns(i)'
  BY <1>1 DEF PInv, StartOwns, Calm, Resting, Kinds
<1>5. QED
  BY <1>2, <1>3, <1>4 DEF PInv

\* The same for a step that touches no Directory value and no settings.
LEMMA QuietStep ==
  ASSUME IInv, NEW i \in Instances, TypeOK',
         UNCHANGED <<dir, marker, staging, disk, settings>>,
         cmd[i].stage \in Settled, cmd'[i].stage \in Calm,
         cmd'[i].stage = "prepare" => cmd'[i].op \in Preparing,
         cmd'[i].stage = "ensureLogs" => cmd'[i].op # "start",
         session'[i].running => session[i].running,
         \A j \in Instances : j # i => cmd'[j] = cmd[j] /\ session'[j] = session[j]
  PROVE  IInv'
<1>1. PInv(i)'
  BY CalmStep DEF Held
<1>2. OneOwner' /\ settings' = disk' /\ StagingIsMarked' /\ marker \subseteq marker'
  BY DEF IInv, OneOwner, StagingIsMarked, Held
<1>3. QED
  BY <1>1, <1>2, OwnStep

-----------------------------------------------------------------------------
(* Opening a process, and the commands that only read or clean.            *)

LEMMA OpenInv ==
  ASSUME IInv, NEW i \in Instances, Open(i), outside' = outside
  PROVE  IInv'
<1>1. Begin(i, "open", "openCache") /\ cmd[i].stage = "off"
  BY DEF Open, InStage
<1>2. /\ cmd' \in [Instances -> Command] /\ cmd'[i].stage = "openCache"
      /\ cmd'[i].op = "open"
      /\ \A j \in Instances : j # i => cmd'[j] = cmd[j]
  BY <1>1, BeginStep DEF IInv, Ops, Stages
<1>3. settings' = settings
  BY DEF Open, IInv, TypeOK
<1>4. TypeOK' /\ OneOwner' /\ settings' = disk' /\ StagingIsMarked'
  BY <1>2, <1>3 DEF Open, IInv, TypeOK, treeVars, fileVars, OneOwner, Held, StagingIsMarked
<1>5. PInv(i)'
  BY <1>1, <1>2 DEF Open, IInv, PInv, PathsFollow, Opening, TargetOwned, Migrating, StartOwns,
                    Resting, Held, Preparing
<1>6. QED
  BY <1>2, <1>3, <1>4, <1>5, OwnStep DEF Open, fileVars

LEMMA OpenCacheInv ==
  ASSUME IInv, NEW i \in Instances, OpenCache(i), outside' = outside
  PROVE  IInv'
<1>1. Goto(i, "openLogs") /\ cmd[i].stage = "openCache"
  BY DEF OpenCache, InStage
<1>2. /\ cmd' \in [Instances -> Command] /\ cmd'[i].stage = "openLogs"
      /\ cmd'[i].op \in Preparing
      /\ \A j \in Instances : j # i => cmd'[j] = cmd[j]
  BY <1>1, GotoStep DEF IInv, PInv, StartOwns, Stages
<1>3. settings[i].cache \in Paths /\ <<i, "cache">> \in Slots
  BY SlotsAre DEF IInv, TypeOK, Settings, Kinds
<1>4. /\ at' \in [Paths -> Inodes \cup {NoInode}] /\ lockFile' \in [Inodes -> 0..MaxLock]
      /\ dir' \in [Slots -> Handle] /\ dir'[<<i, "cache">>].path = settings[i].cache
      /\ \A t \in Slots : t # <<i, "cache">> => dir'[t] = dir[t]
      /\ OneOwner'
  BY <1>3, AcquireStep DEF OpenCache, IInv
<1>5. TypeOK' /\ settings' = disk' /\ StagingIsMarked'
  BY <1>2, <1>4 DEF OpenCache, IInv, TypeOK, fileVars, StagingIsMarked
<1>6. dir'[<<i, "next">>] = dir[<<i, "next">>]
  BY <1>4, SlotsAre DEF Kinds
<1>7. PInv(i)'
  BY <1>1, <1>2, <1>4, <1>6
     DEF OpenCache, IInv, PInv, PathsFollow, Opening, TargetOwned, Migrating, StartOwns,
         Resting, Held, Kinds, PathOf
<1>8. \A j \in Instances : j # i =>
        \A k \in Kinds \cup {"next"} : dir'[<<j, k>>] = dir[<<j, k>>]
  BY <1>4, SlotsAre DEF Kinds
<1>9. QED
  BY <1>2, <1>4, <1>5, <1>7, <1>8, OwnStep DEF OpenCache, fileVars

LEMMA OpenLogsInv ==
  ASSUME IInv, NEW i \in Instances, OpenLogs(i), outside' = outside
  PROVE  IInv'
<1>1. Goto(i, "prepare") /\ cmd[i].stage = "openLogs"
  BY DEF OpenLogs, InStage
<1>2. /\ cmd' \in [Instances -> Command] /\ cmd'[i].stage = "prepare"
      /\ cmd'[i].op \in Preparing
      /\ \A j \in Instances : j # i => cmd'[j] = cmd[j]
  BY <1>1, GotoStep DEF IInv, PInv, StartOwns, Stages
<1>3. settings[i].logs \in Paths /\ <<i, "logs">> \in Slots
  BY SlotsAre DEF IInv, TypeOK, Settings, Kinds
<1>4. /\ at' \in [Paths -> Inodes \cup {NoInode}] /\ lockFile' \in [Inodes -> 0..MaxLock]
      /\ dir' \in [Slots -> Handle] /\ dir'[<<i, "logs">>].path = settings[i].logs
      /\ \A t \in Slots : t # <<i, "logs">> => dir'[t] = dir[t]
      /\ OneOwner'
  BY <1>3, AcquireStep DEF OpenLogs, IInv
<1>5. TypeOK' /\ settings' = disk' /\ StagingIsMarked'
  BY <1>2, <1>4 DEF OpenLogs, IInv, TypeOK, fileVars, StagingIsMarked
<1>6. dir'[<<i, "next">>] = dir[<<i, "next">>] /\ dir'[<<i, "cache">>] = dir[<<i, "cache">>]
  BY <1>4, SlotsAre DEF Kinds
<1>7. PInv(i)'
  BY <1>1, <1>2, <1>4, <1>6
     DEF OpenLogs, IInv, PInv, PathsFollow, Opening, TargetOwned, Migrating, StartOwns,
         Resting, Held, Kinds, PathOf
<1>8. \A j \in Instances : j # i =>
        \A k \in Kinds \cup {"next"} : dir'[<<j, k>>] = dir[<<j, k>>]
  BY <1>4, SlotsAre DEF Kinds
<1>9. QED
  BY <1>2, <1>4, <1>5, <1>7, <1>8, OwnStep DEF OpenLogs, fileVars

\* prepare_logs goes on to a stage that asks for nothing.
LEMMA AfterPrepareStep ==
  ASSUME TypeOK, NEW i \in Instances, NEW waiting \in BOOLEAN, AfterPrepare(i, waiting),
         cmd[i].op \in Preparing
  PROVE  /\ cmd' \in [Instances -> Command]
         /\ cmd'[i].stage \in {"idle", "ensureCache", "ensureLogs"}
         /\ cmd'[i].stage = "ensureLogs" => cmd'[i].op # "start"
         /\ \A j \in Instances : j # i => cmd'[j] = cmd[j]
<1>1. Return(i) \/ Goto(i, "ensureCache") \/ (Goto(i, "ensureLogs") /\ cmd[i].op = "export")
  BY DEF AfterPrepare, Preparing
<1>2. QED
  BY <1>1, ReturnStep, GotoStep DEF Stages

LEMMA PrepareLogsInv ==
  ASSUME IInv, NEW i \in Instances, PrepareLogs(i), outside' = outside
  PROVE  IInv'
<1> DEFINE s == <<i, "logs">>
<1>1. cmd[i].stage = "prepare" /\ cmd[i].op \in Preparing /\ s \in Slots
  BY SlotsAre DEF PrepareLogs, InStage, IInv, PInv, StartOwns, Kinds
<1>2. /\ at' \in [Paths -> Inodes \cup {NoInode}] /\ lockFile' \in [Inodes -> 0..MaxLock]
      /\ dir' \in [Slots -> Handle] /\ dir'[s].path = dir[s].path
      /\ Held(dir[s]) => Held(dir'[s])
      /\ \A t \in Slots : t # s => dir'[t] = dir[t]
      /\ OneOwner'
      /\ logs' \in [Inodes -> SUBSET (Instances \cup {Old})]
      /\ pending' \in [Instances -> BOOLEAN]
  <2>1. CASE ~pending[i]
    BY <1>1, <2>1 DEF PrepareLogs, IInv, TypeOK, treeVars, OneOwner, Held
  <2>2. CASE pending[i] /\ ~EnsureOK(s)
    BY <1>1, <2>2, EnsureStep DEF PrepareLogs, IInv, TypeOK
  <2>3. CASE pending[i] /\ EnsureOK(s)
    <3>1. Ensure(s) /\ CleanLogs(i, dir'[s].inode)
      BY <2>3 DEF PrepareLogs
    <3>2. /\ dir' \in [Slots -> Handle] /\ Held(dir'[s])
      BY <1>1, <2>3, <3>1, EnsureStep DEF IInv
    <3>3. dir'[s].inode \in Inodes
      BY <1>1, <3>2 DEF Held, Handle
    <3>4. /\ logs' \in [Inodes -> SUBSET (Instances \cup {Old})]
          /\ pending' \in [Instances -> BOOLEAN]
      <4> DEFINE n == dir'[s].inode
      <4>1. CASE settings[i].keep
        BY <3>1, <4>1 DEF CleanLogs, IInv, TypeOK
      <4>2. CASE ~settings[i].keep
        <5>1. PICK rest \in SUBSET logs[n], failed \in BOOLEAN :
                 /\ logs' = [logs EXCEPT ![n] = rest]
                 /\ pending' = [pending EXCEPT ![i] = failed]
          BY <3>1, <4>2 DEF CleanLogs
        <5>2. rest \in SUBSET (Instances \cup {Old})
          BY <3>3, <5>1 DEF IInv, TypeOK
        <5>3. QED
          BY <5>1, <5>2 DEF IInv, TypeOK
      <4>3. QED
        BY <4>1, <4>2
    <3>5. QED
      BY <1>1, <3>1, <3>4, EnsureStep DEF IInv
  <2>4. QED
    BY <2>1, <2>2, <2>3
<1>3. /\ cmd' \in [Instances -> Command]
      /\ cmd'[i].stage \in {"idle", "ensureCache", "ensureLogs"}
      /\ cmd'[i].stage = "ensureLogs" => cmd'[i].op # "start"
      /\ \A j \in Instances : j # i => cmd'[j] = cmd[j]
  BY <1>1, <1>2, AfterPrepareStep DEF PrepareLogs, IInv
<1>4. TypeOK' /\ settings' = disk' /\ StagingIsMarked'
  BY <1>2, <1>3 DEF PrepareLogs, IInv, TypeOK, StagingIsMarked
<1>5. /\ dir'[<<i, "next">>] = dir[<<i, "next">>] /\ dir'[<<i, "cache">>] = dir[<<i, "cache">>]
      /\ \A j \in Instances : j # i =>
           \A k \in Kinds \cup {"next"} : dir'[<<j, k>>] = dir[<<j, k>>]
  BY <1>2, SlotsAre DEF Kinds
<1>6. PInv(i)'
  BY <1>1, <1>2, <1>3, <1>5, CalmStep DEF PrepareLogs, Calm, Settled, Stages, Kinds
<1>7. QED
  BY <1>2, <1>3, <1>4, <1>5, <1>6, OwnStep DEF PrepareLogs

LEMMA RequestInv ==
  ASSUME IInv, NEW i \in Instances, Request(i), outside' = outside
  PROVE  IInv'
<1>1. PICK op \in {"init", "status", "start", "export"} : Begin(i, op, "prepare")
  BY DEF Request
<1>2. /\ cmd' \in [Instances -> Command] /\ cmd'[i].stage = "prepare"
      /\ cmd'[i].op \in Preparing
      /\ \A j \in Instances : j # i => cmd'[j] = cmd[j]
  BY <1>1, BeginStep DEF IInv, Ops, Stages, Preparing
<1>3. TypeOK'
  BY <1>2 DEF Request, IInv, TypeOK, treeVars, fileVars
<1>4. QED
  BY <1>2, <1>3, QuietStep DEF Request, InStage, fileVars, Calm, Settled, Stages

LEMMA EnsureCacheInv ==
  ASSUME IInv, NEW i \in Instances, EnsureCache(i), outside' = outside
  PROVE  IInv'
<1> DEFINE s == <<i, "cache">>
<1>1. cmd[i].stage = "ensureCache" /\ s \in Slots /\ Ensure(s)
  BY SlotsAre DEF EnsureCache, InStage, Kinds
<1>2. /\ at' \in [Paths -> Inodes \cup {NoInode}] /\ lockFile' \in [Inodes -> 0..MaxLock]
      /\ dir' \in [Slots -> Handle] /\ dir'[s].path = dir[s].path
      /\ Held(dir[s]) \/ EnsureOK(s) => Held(dir'[s])
      /\ \A t \in Slots : t # s => dir'[t] = dir[t]
      /\ OneOwner'
  BY <1>1, EnsureStep DEF IInv
<1>3. /\ cmd' \in [Instances -> Command] /\ cmd'[i].stage \in {"idle", "clear", "ensureLogs"}
      /\ cmd'[i].stage = "ensureLogs" /\ cmd'[i].op = "start" => EnsureOK(s)
      /\ \A j \in Instances : j # i => cmd'[j] = cmd[j]
  <2>1. CASE cmd[i].op # "status" /\ ~EnsureOK(s)
    BY <2>1, ReturnStep DEF EnsureCache, IInv
  <2>2. CASE ~(cmd[i].op # "status" /\ ~EnsureOK(s))
    BY <2>2, GotoStep DEF EnsureCache, IInv, Stages
  <2>3. QED
    BY <2>1, <2>2
<1>4. TypeOK' /\ settings' = disk' /\ StagingIsMarked'
  BY <1>2, <1>3 DEF EnsureCache, IInv, TypeOK, fileVars, StagingIsMarked
<1>5. /\ dir'[<<i, "next">>] = dir[<<i, "next">>] /\ dir'[<<i, "logs">>] = dir[<<i, "logs">>]
      /\ \A j \in Instances : j # i =>
           \A k \in Kinds \cup {"next"} : dir'[<<j, k>>] = dir[<<j, k>>]
  BY <1>2, SlotsAre DEF Kinds
<1>6. PInv(i)'
  <2>1. CASE cmd'[i].stage = "ensureLogs"
    BY <1>1, <1>2, <1>3, <1>5, <2>1
       DEF EnsureCache, IInv, PInv, PathsFollow, Opening, TargetOwned, Migrating, StartOwns,
           Resting, Kinds
  <2>2. CASE cmd'[i].stage # "ensureLogs"
    BY <1>1, <1>2, <1>3, <1>5, <2>2, CalmStep DEF EnsureCache, Calm, Settled, Stages, Kinds
  <2>3. QED
    BY <2>1, <2>2
<1>7. QED
  BY <1>2, <1>3, <1>4, <1>5, <1>6, OwnStep DEF EnsureCache, fileVars

LEMMA EnsureLogsInv ==
  ASSUME IInv, NEW i \in Instances, EnsureLogs(i), outside' = outside
  PROVE  IInv'
<1> DEFINE s == <<i, "logs">>
<1>1. cmd[i].stage = "ensureLogs" /\ s \in Slots /\ Ensure(s)
  BY SlotsAre DEF EnsureLogs, InStage, Kinds
<1>2. /\ at' \in [Paths -> Inodes \cup {NoInode}] /\ lockFile' \in [Inodes -> 0..MaxLock]
      /\ dir' \in [Slots -> Handle] /\ dir'[s].path = dir[s].path
      /\ Held(dir[s]) \/ EnsureOK(s) => Held(dir'[s])
      /\ \A t \in Slots : t # s => dir'[t] = dir[t]
      /\ OneOwner'
  BY <1>1, EnsureStep DEF IInv
<1>3. /\ cmd' \in [Instances -> Command] /\ cmd'[i].stage \in {"idle", "trace"}
      /\ cmd'[i].stage = "trace" => cmd[i].op = "start" /\ EnsureOK(s)
      /\ \A j \in Instances : j # i => cmd'[j] = cmd[j]
  <2>1. CASE cmd[i].op = "start" /\ EnsureOK(s)
    BY <2>1, GotoStep DEF EnsureLogs, IInv, Stages
  <2>2. CASE ~(cmd[i].op = "start" /\ EnsureOK(s))
    BY <2>2, ReturnStep DEF EnsureLogs, IInv
  <2>3. QED
    BY <2>1, <2>2
<1>4. TypeOK' /\ settings' = disk' /\ StagingIsMarked'
  BY <1>2, <1>3 DEF EnsureLogs, IInv, TypeOK, fileVars, StagingIsMarked
<1>5. /\ dir'[<<i, "next">>] = dir[<<i, "next">>] /\ dir'[<<i, "cache">>] = dir[<<i, "cache">>]
      /\ \A j \in Instances : j # i =>
           \A k \in Kinds \cup {"next"} : dir'[<<j, k>>] = dir[<<j, k>>]
  BY <1>2, SlotsAre DEF Kinds
<1>6. PInv(i)'
  <2>1. CASE cmd'[i].stage = "trace"
    BY <1>1, <1>2, <1>3, <1>5, <2>1
       DEF EnsureLogs, IInv, PInv, PathsFollow, Opening, TargetOwned, Migrating, StartOwns,
           Resting, Kinds
  <2>2. CASE cmd'[i].stage # "trace"
    BY <1>1, <1>2, <1>3, <1>5, <2>2, CalmStep DEF EnsureLogs, Calm, Settled, Stages, Kinds
  <2>3. QED
    BY <2>1, <2>2
<1>7. QED
  BY <1>2, <1>3, <1>4, <1>5, <1>6, OwnStep DEF EnsureLogs, fileVars

-----------------------------------------------------------------------------
(* Starting and stopping.                                                  *)

LEMMA StartTraceInv ==
  ASSUME IInv, NEW i \in Instances, StartTrace(i), outside' = outside
  PROVE  IInv'
<1> DEFINE p == dir[<<i, "logs">>].path
           n == Place(p)
<1>1. cmd[i].stage = "trace" /\ <<i, "logs">> \in Slots
  BY SlotsAre DEF StartTrace, InStage, Kinds
<1>2. p \in Paths /\ n \in Inodes \cup {NoInode}
  BY <1>1, PlaceType DEF IInv, TypeOK, Handle
<1>3. CASE Return(i) /\ UNCHANGED <<at, logs, session>>
  <2>1. /\ cmd' \in [Instances -> Command] /\ cmd'[i].stage = "idle"
        /\ \A j \in Instances : j # i => cmd'[j] = cmd[j]
    BY <1>3, ReturnStep DEF IInv
  <2>2. TypeOK'
    BY <1>3, <2>1 DEF StartTrace, IInv, TypeOK
  <2>3. QED
    BY <1>1, <1>3, <2>1, <2>2, QuietStep DEF StartTrace, Calm, Settled, Stages
<1>4. CASE ~(Return(i) /\ UNCHANGED <<at, logs, session>>)
  <2>1. /\ n # NoInode /\ Goto(i, "serve")
        /\ at' = [at EXCEPT ![p] = n]
        /\ logs' = [logs EXCEPT ![n] = logs[n] \cup {i}]
        /\ session' = [session EXCEPT ![i] = [running |-> FALSE, cache |-> NoInode,
                                              lock |-> 0, log |-> n]]
    BY <1>2, <1>4 DEF StartTrace, IInv, TypeOK
  <2>2. /\ cmd' \in [Instances -> Command] /\ cmd'[i].stage = "serve"
        /\ \A j \in Instances : j # i => cmd'[j] = cmd[j]
    BY <2>1, GotoStep DEF IInv, Stages
  <2>3. [running |-> FALSE, cache |-> NoInode, lock |-> 0, log |-> n] \in Session
    BY <1>2, Apart DEF Session
  <2>4. at' \in [Paths -> Inodes \cup {NoInode}]
        /\ logs' \in [Inodes -> SUBSET (Instances \cup {Old})]
        /\ session' \in [Instances -> Session]
    BY <1>2, <2>1, <2>3 DEF IInv, TypeOK
  <2>5. TypeOK'
    BY <2>2, <2>4 DEF StartTrace, IInv, TypeOK
  <2>6. OneOwner' /\ settings' = disk' /\ StagingIsMarked' /\ marker' = marker
    BY DEF StartTrace, IInv, OneOwner, StagingIsMarked, Held
  <2>7. PInv(i)'
    BY <1>1, <2>1, <2>2
       DEF StartTrace, IInv, TypeOK, PInv, PathsFollow, Opening, TargetOwned, Migrating, StartOwns,
           Resting, Held
  <2>8. QED
    BY <2>1, <2>2, <2>5, <2>6, <2>7, OwnStep DEF StartTrace, IInv, TypeOK
<1>5. QED
  BY <1>3, <1>4

LEMMA StoppedType == Stopped \in Session
BY Apart DEF Stopped, Session

LEMMA StartGatewayInv ==
  ASSUME IInv, NEW i \in Instances, StartGateway(i), outside' = outside
  PROVE  IInv'
<1> DEFINE p == dir[<<i, "cache">>].path
           n == Place(p)
<1>1. cmd[i].stage = "serve" /\ <<i, "cache">> \in Slots
  BY SlotsAre DEF StartGateway, InStage, Kinds
<1>2. p \in Paths /\ n \in Inodes \cup {NoInode}
  BY <1>1, PlaceType DEF IInv, TypeOK, Handle
<1>3. at' \in [Paths -> Inodes \cup {NoInode}]
  BY <1>2 DEF StartGateway, IInv, TypeOK
<1>4. CASE session' = [session EXCEPT ![i] = Stopped] /\ Return(i)
  <2>1. /\ cmd' \in [Instances -> Command] /\ cmd'[i].stage = "idle"
        /\ \A j \in Instances : j # i => cmd'[j] = cmd[j]
    BY <1>4, ReturnStep DEF IInv
  <2>2. TypeOK'
    BY <1>3, <1>4, <2>1, StoppedType DEF StartGateway, IInv, TypeOK, fileVars
  <2>3. ~session'[i].running /\ \A j \in Instances : j # i => session'[j] = session[j]
    BY <1>4 DEF Stopped, IInv, TypeOK
  <2>4. QED
    BY <1>1, <2>1, <2>2, <2>3, QuietStep DEF StartGateway, fileVars, Calm, Settled, Stages
<1>5. CASE ~(session' = [session EXCEPT ![i] = Stopped] /\ Return(i))
  <2> DEFINE x == [running |-> TRUE, cache |-> n, lock |-> lockFile[n], log |-> session[i].log]
  <2>1. n # NoInode /\ Goto(i, "save") /\ session' = [session EXCEPT ![i] = x]
    BY <1>5 DEF StartGateway, IInv, TypeOK
  <2>2. /\ cmd' \in [Instances -> Command] /\ cmd'[i].stage = "save"
        /\ \A j \in Instances : j # i => cmd'[j] = cmd[j]
    BY <2>1, GotoStep DEF IInv, Stages
  <2>3. x \in Session
    BY <1>2, <2>1 DEF Session, IInv, TypeOK
  <2>4. session' \in [Instances -> Session]
    BY <2>1, <2>3 DEF IInv, TypeOK
  <2>5. TypeOK'
    BY <1>3, <2>2, <2>4 DEF StartGateway, IInv, TypeOK, fileVars
  <2>6. OneOwner' /\ settings' = disk' /\ StagingIsMarked' /\ marker' = marker
    BY DEF StartGateway, IInv, OneOwner, StagingIsMarked, Held, fileVars
  <2>7. PInv(i)'
    BY <1>1, <2>2
       DEF StartGateway, IInv, PInv, PathsFollow, Opening, TargetOwned, Migrating, StartOwns,
           Resting, Held
  <2>8. QED
    BY <2>1, <2>2, <2>5, <2>6, <2>7, OwnStep DEF StartGateway, IInv, TypeOK
<1>6. QED
  BY <1>4, <1>5

LEMMA SaveStartInv ==
  ASSUME IInv, NEW i \in Instances, SaveStart(i), outside' = outside
  PROVE  IInv'
<1>1. cmd[i].stage = "save"
  BY DEF SaveStart, InStage
<1>2. /\ cmd' \in [Instances -> Command] /\ cmd'[i].stage \in {"idle", "halt"}
      /\ \A j \in Instances : j # i => cmd'[j] = cmd[j]
  BY ReturnStep, GotoStep DEF SaveStart, IInv, Stages
<1>3. settings' = settings /\ disk' = disk
  BY DEF SaveStart, Persist, IInv, TypeOK
<1>4. TypeOK'
  BY <1>2, <1>3 DEF SaveStart, IInv, TypeOK, treeVars, fileVars
<1>5. QED
  BY <1>1, <1>2, <1>3, <1>4, QuietStep DEF SaveStart, fileVars, Calm, Settled, Stages

LEMMA SaveSettingsInv ==
  ASSUME IInv, NEW i \in Instances, SaveSettings(i), outside' = outside
  PROVE  IInv'
<1>1. PICK keep \in Keeps : Persist(i, Kept(settings[i], keep))
  BY DEF SaveSettings
<1>2. Kept(settings[i], keep) \in Settings
  BY <1>1, ServiceAssumption DEF Kept, Settings, IInv, TypeOK
<1>3. /\ settings' \in [Instances -> Settings] /\ disk' = settings'
      /\ settings'[i] = Kept(settings[i], keep)
      /\ \A j \in Instances : j # i => settings'[j] = settings[j]
  BY <1>1, <1>2 DEF Persist, IInv, TypeOK
<1>4. \A k \in Kinds : PathOf(settings'[i], k) = PathOf(settings[i], k)
  BY <1>3 DEF PathOf, Kept
<1>5. TypeOK' /\ OneOwner' /\ StagingIsMarked'
  BY <1>3 DEF SaveSettings, IInv, TypeOK, treeVars, fileVars, OneOwner, Held, StagingIsMarked
<1>6. PInv(i)'
  BY <1>4, CalmStep DEF SaveSettings, InStage, Calm, Settled, Stages
<1>7. QED
  BY <1>3, <1>5, <1>6, OwnStep DEF SaveSettings, fileVars

LEMMA RequestStopInv ==
  ASSUME IInv, NEW i \in Instances, RequestStop(i), outside' = outside
  PROVE  IInv'
<1>1. PICK op \in {"stop", "close"} : Begin(i, op, "halt")
  BY DEF RequestStop
<1>2. /\ cmd' \in [Instances -> Command] /\ cmd'[i].stage = "halt"
      /\ \A j \in Instances : j # i => cmd'[j] = cmd[j]
  BY <1>1, BeginStep DEF IInv, Ops, Stages
<1>3. TypeOK'
  BY <1>2 DEF RequestStop, IInv, TypeOK, treeVars, fileVars
<1>4. QED
  BY <1>2, <1>3, QuietStep DEF RequestStop, InStage, fileVars, Calm, Settled, Stages

LEMMA HaltInv ==
  ASSUME IInv, NEW i \in Instances, Halt(i), outside' = outside
  PROVE  IInv'
<1>1. cmd[i].stage = "halt" /\ Goto(i, "recoverCache")
  BY DEF Halt, InStage
<1>2. /\ cmd' \in [Instances -> Command] /\ cmd'[i].stage = "recoverCache"
      /\ \A j \in Instances : j # i => cmd'[j] = cmd[j]
  BY <1>1, GotoStep DEF IInv, Stages
<1>3. /\ session' \in [Instances -> Session] /\ ~session'[i].running
      /\ \A j \in Instances : j # i => session'[j] = session[j]
  BY StoppedType DEF Halt, Stopped, IInv, TypeOK
<1>4. TypeOK' /\ OneOwner' /\ settings' = disk' /\ StagingIsMarked'
  BY <1>2, <1>3 DEF Halt, IInv, TypeOK, treeVars, fileVars, OneOwner, Held, StagingIsMarked
<1>5. PInv(i)'
  BY <1>1, <1>2, <1>3
     DEF Halt, IInv, PInv, PathsFollow, Opening, TargetOwned, Migrating, StartOwns, Resting, Held
<1>6. QED
  BY <1>2, <1>3, <1>4, <1>5, OwnStep DEF Halt, fileVars

\* Both directories are recovered alike, when nothing runs any more.
LEMMA RecoverInv ==
  ASSUME IInv, NEW i \in Instances, RecoverCache(i) \/ RecoverLogs(i), outside' = outside
  PROVE  IInv'
<1>1. PICK k \in Kinds :
         /\ Recover(<<i, k>>)
         /\ k = "cache" => cmd[i].stage = "recoverCache" /\ Goto(i, "recoverLogs")
         /\ k = "logs" => cmd[i].stage = "recoverLogs" /\ (Goto(i, "exit") \/ Return(i))
  BY DEF RecoverCache, RecoverLogs, InStage, Kinds
<1>2. <<i, k>> \in Slots
  BY <1>1, SlotsAre
<1>3. /\ at' \in [Paths -> Inodes \cup {NoInode}] /\ lockFile' \in [Inodes -> 0..MaxLock]
      /\ dir' \in [Slots -> Handle] /\ dir'[<<i, k>>].path = dir[<<i, k>>].path
      /\ \A t \in Slots : t # <<i, k>> => dir'[t] = dir[t]
      /\ OneOwner'
  BY <1>1, <1>2, RecoverStep DEF IInv
<1>4. /\ cmd' \in [Instances -> Command] /\ cmd'[i].stage \in {"recoverLogs", "exit", "idle"}
      /\ \A j \in Instances : j # i => cmd'[j] = cmd[j]
  BY <1>1, GotoStep, ReturnStep DEF IInv, Stages, Kinds
<1>5. UNCHANGED <<fileVars, disk, settings, pending, session>>
  BY DEF RecoverCache, RecoverLogs
<1>6. TypeOK' /\ settings' = disk' /\ StagingIsMarked'
  BY <1>3, <1>4, <1>5 DEF IInv, TypeOK, fileVars, StagingIsMarked
<1>7. /\ dir'[<<i, "next">>] = dir[<<i, "next">>]
      /\ \A l \in Kinds : dir'[<<i, l>>].path = dir[<<i, l>>].path
      /\ \A j \in Instances : j # i =>
           \A l \in Kinds \cup {"next"} : dir'[<<j, l>>] = dir[<<j, l>>]
  BY <1>3, SlotsAre DEF Kinds
<1>8. cmd[i].stage \in {"recoverCache", "recoverLogs"}
  BY <1>1 DEF Kinds
<1>9. ~session'[i].running
  BY <1>5, <1>8 DEF IInv, PInv, StartOwns, Resting
<1>10. PInv(i)'
  BY <1>4, <1>5, <1>7, <1>8, <1>9
     DEF IInv, PInv, PathsFollow, Opening, TargetOwned, Migrating, StartOwns, Held
<1>11. QED
  BY <1>3, <1>4, <1>5, <1>6, <1>7, <1>10, OwnStep DEF fileVars

\* A process that ends lets go of everything it holds.
LEMMA GoneInv ==
  ASSUME IInv, NEW i \in Instances, Gone(i), outside' = outside
  PROVE  IInv'
<1>1. /\ cmd' \in [Instances -> Command] /\ cmd'[i].stage = "off"
      /\ \A j \in Instances : j # i => cmd'[j] = cmd[j]
  BY BeginStep DEF Gone, IInv, Ops, Stages
<1>2. /\ dir' \in [Slots -> Handle]
      /\ \A s \in Slots : dir'[s] = IF s[1] = i THEN Nothing(i) ELSE dir[s]
  BY NothingType DEF Gone, IInv, TypeOK
<1>3. OneOwner'
  BY <1>2, NothingType DEF IInv, OneOwner, Held
<1>4. logs' \in [Inodes -> SUBSET (Instances \cup {Old})]
  BY DEF Gone, IInv, TypeOK
<1>5. /\ session' \in [Instances -> Session] /\ ~session'[i].running
      /\ \A j \in Instances : j # i => session'[j] = session[j]
  BY StoppedType DEF Gone, Stopped, IInv, TypeOK
<1>6. pending' \in [Instances -> BOOLEAN]
  BY DEF Gone, IInv, TypeOK
<1>7. TypeOK' /\ settings' = disk' /\ StagingIsMarked'
  BY <1>1, <1>2, <1>4, <1>5, <1>6 DEF Gone, IInv, TypeOK, treeVars, StagingIsMarked
<1>8. /\ ~Held(dir'[<<i, "next">>])
      /\ \A j \in Instances : j # i =>
           \A l \in Kinds \cup {"next"} : dir'[<<j, l>>] = dir[<<j, l>>]
  BY <1>2, NothingType, SlotsAre DEF Kinds
<1>9. PInv(i)'
  BY <1>1, <1>5, <1>8
     DEF PInv, PathsFollow, Opening, TargetOwned, Migrating, StartOwns, Held
<1>10. QED
  BY <1>1, <1>3, <1>5, <1>7, <1>8, <1>9, OwnStep DEF Gone

-----------------------------------------------------------------------------
(* Changing a directory.                                                   *)

Moving == {"copy", "publish", "undo"}

LEMMA JobStep ==
  ASSUME TypeOK, NEW i \in Instances, NEW s \in Stages,
         NEW todo \in SUBSET Names, NEW copied \in SUBSET Names,
         cmd' = [cmd EXCEPT ![i] = Job(cmd[i], s, todo, copied)]
  PROVE  /\ cmd' \in [Instances -> Command]
         /\ cmd'[i].stage = s
         /\ cmd'[i].op = cmd[i].op /\ cmd'[i].kind = cmd[i].kind
         /\ cmd'[i].path = cmd[i].path /\ cmd'[i].moved = cmd[i].moved
         /\ \A j \in Instances : j # i => cmd'[j] = cmd[j]
<1>1. cmd[i] \in Command
  BY DEF TypeOK
<1>2. Job(cmd[i], s, todo, copied) \in Command
  BY <1>1 DEF Job, Command
<1>3. QED
  BY <1>2 DEF TypeOK, Job

\* The directories a change works on are slots of its process.
LEMMA TargetType ==
  ASSUME IInv, NEW i \in Instances
  PROVE  /\ TargetSlot(i) \in Slots /\ Target(i) \in Handle
         /\ cmd[i].kind \in Kinds /\ <<i, cmd[i].kind>> \in Slots
         /\ cmd[i].stage \in Moving => Held(Target(i)) /\ Target(i).inode \in Inodes
<1>1. cmd[i].kind \in Kinds
  BY DEF IInv, TypeOK, Command
<1>2. TargetSlot(i) \in Slots /\ <<i, cmd[i].kind>> \in Slots
  BY <1>1, SlotsAre DEF TargetSlot
<1>3. Target(i) \in Handle
  BY <1>2 DEF Target, IInv, TypeOK
<1>4. cmd[i].stage \in Moving => Held(Target(i))
  BY DEF IInv, PInv, TargetOwned, Migrating, Moving
<1>5. QED
  BY <1>1, <1>2, <1>3, <1>4 DEF Held, Handle

\* The change goes on with the same target.
LEMMA StillMoving ==
  ASSUME IInv, NEW i \in Instances, TypeOK', StagingIsMarked',
         cmd[i].stage \in Moving, cmd'[i].stage \in Moving,
         cmd[i].stage = "undo" => cmd'[i].stage = "undo",
         cmd'[i].kind = cmd[i].kind, cmd'[i].path = cmd[i].path, cmd'[i].moved = cmd[i].moved,
         UNCHANGED <<dir, settings, disk, session, marker>>,
         \A j \in Instances : j # i => cmd'[j] = cmd[j]
  PROVE  IInv'
<1>1. Target(i)' = Target(i)
  BY DEF Target, TargetSlot
<1>2. OneOwner' /\ settings' = disk'
  BY DEF IInv, OneOwner, Held
<1>3. PInv(i)'
  BY <1>1 DEF IInv, PInv, PathsFollow, Opening, TargetOwned, Migrating, StartOwns, Resting,
              Moving, Held
<1>4. QED
  BY <1>2, <1>3, OwnStep

LEMMA StageCopyInv ==
  ASSUME IInv, NEW i \in Instances, StageCopy(i), outside' = outside
  PROVE  IInv'
<1>1. cmd[i].stage = "copy" /\ Target(i).inode \in marker
  BY DEF StageCopy, InStage, IInv, PInv, TargetOwned
<1>2. /\ cmd' \in [Instances -> Command] /\ cmd'[i].stage \in {"publish", "undo"}
      /\ cmd'[i].kind = cmd[i].kind /\ cmd'[i].path = cmd[i].path
      /\ cmd'[i].moved = cmd[i].moved
      /\ \A j \in Instances : j # i => cmd'[j] = cmd[j]
  BY GotoStep DEF StageCopy, IInv, Stages
<1>3. staging' \subseteq Inodes /\ staging' \subseteq marker
  BY <1>1 DEF StageCopy, IInv, TypeOK, StagingIsMarked
<1>4. TypeOK' /\ StagingIsMarked'
  BY <1>2, <1>3 DEF StageCopy, IInv, TypeOK, treeVars, StagingIsMarked
<1>5. QED
  BY <1>1, <1>2, <1>4, StillMoving DEF StageCopy, Moving

LEMMA PublishCopyInv ==
  ASSUME IInv, NEW i \in Instances, PublishCopy(i), outside' = outside
  PROVE  IInv'
<1> DEFINE h == Target(i)
<1>1. cmd[i].stage = "publish" /\ h.inode \in Inodes
  BY TargetType DEF PublishCopy, InStage, Moving
<1>2. /\ cmd' \in [Instances -> Command] /\ cmd'[i].stage \in {"copy", "undo"}
      /\ cmd'[i].kind = cmd[i].kind /\ cmd'[i].path = cmd[i].path
      /\ cmd'[i].moved = cmd[i].moved
      /\ \A j \in Instances : j # i => cmd'[j] = cmd[j]
      /\ gfc' \in [Inodes -> SUBSET Names]
  <2>1. CASE Goto(i, "undo") /\ UNCHANGED gfc
    BY <2>1, GotoStep DEF IInv, TypeOK, Stages
  <2>2. CASE ~(Goto(i, "undo") /\ UNCHANGED gfc)
    <3>1. PICK f \in cmd[i].todo \ gfc[h.inode] :
             /\ gfc' = [gfc EXCEPT ![h.inode] = gfc[h.inode] \cup {f}]
             /\ cmd' = [cmd EXCEPT ![i] = Job(cmd[i], "copy", cmd[i].todo \ {f},
                                              cmd[i].copied \cup {f})]
      BY <1>1, <2>2 DEF PublishCopy, IInv, TypeOK
    <3>2. cmd[i].todo \in SUBSET Names /\ cmd[i].copied \in SUBSET Names
      BY DEF IInv, TypeOK, Command
    <3>3. gfc' \in [Inodes -> SUBSET Names]
      BY <1>1, <3>1, <3>2 DEF IInv, TypeOK
    <3>4. cmd[i].todo \ {f} \in SUBSET Names /\ cmd[i].copied \cup {f} \in SUBSET Names
      BY <3>1, <3>2
    <3>5. QED
      BY <3>1, <3>3, <3>4, JobStep DEF IInv, Stages
  <2>3. QED
    BY <2>1, <2>2
<1>3. staging' \subseteq staging
  BY DEF PublishCopy
<1>4. TypeOK' /\ StagingIsMarked'
  BY <1>2, <1>3 DEF PublishCopy, IInv, TypeOK, treeVars, StagingIsMarked
<1>5. QED
  BY <1>1, <1>2, <1>4, StillMoving DEF PublishCopy, Moving

LEMMA CommitChangeInv ==
  ASSUME IInv, NEW i \in Instances, CommitChange(i), outside' = outside
  PROVE  IInv'
<1>1. cmd[i].stage = "copy"
  BY DEF CommitChange, InStage
<1>2. CASE Goto(i, "undo") /\ UNCHANGED <<dir, disk, settings>>
  <2>1. /\ cmd' \in [Instances -> Command] /\ cmd'[i].stage = "undo"
        /\ cmd'[i].kind = cmd[i].kind /\ cmd'[i].path = cmd[i].path
        /\ cmd'[i].moved = cmd[i].moved
        /\ \A j \in Instances : j # i => cmd'[j] = cmd[j]
    BY <1>2, GotoStep DEF IInv, Stages
  <2>2. TypeOK' /\ StagingIsMarked'
    BY <1>2, <2>1 DEF CommitChange, IInv, TypeOK, treeVars, fileVars, StagingIsMarked
  <2>3. QED
    BY <1>1, <1>2, <2>1, <2>2, StillMoving DEF CommitChange, fileVars, Moving
<1>3. CASE ~(Goto(i, "undo") /\ UNCHANGED <<dir, disk, settings>>)
  <2> DEFINE k == cmd[i].kind
             x == With(settings[i], k, cmd[i].path)
  <2>1. /\ Persist(i, x) /\ Return(i)
        /\ dir' = IF ~cmd[i].moved THEN dir
                  ELSE [dir EXCEPT ![<<i, k>>] = Target(i), ![<<i, "next">>] = Nothing(i)]
    BY <1>3 DEF CommitChange
  <2>2. /\ cmd' \in [Instances -> Command] /\ cmd'[i].stage = "idle" /\ cmd'[i].op = "init"
        /\ \A j \in Instances : j # i => cmd'[j] = cmd[j]
    BY <2>1, ReturnStep DEF IInv
  <2>3. cmd[i].path \in Paths /\ cmd[i].moved \in BOOLEAN /\ k \in Kinds
    BY DEF IInv, TypeOK, Command
  <2>4. x \in Settings
    BY <2>3 DEF With, Settings, IInv, TypeOK
  <2>5. /\ settings' \in [Instances -> Settings] /\ disk' = settings' /\ settings'[i] = x
        /\ \A j \in Instances : j # i => settings'[j] = settings[j]
    BY <2>1, <2>4 DEF Persist, IInv, TypeOK
  <2>6. PathOf(x, k) = cmd[i].path
        /\ \A l \in Kinds : l # k => PathOf(x, l) = PathOf(settings[i], l)
    BY <2>3 DEF PathOf, With, Kinds
  <2>7. Held(Target(i)) /\ Target(i).path = cmd[i].path
    BY <1>1 DEF IInv, PInv, TargetOwned, Migrating
  <2>8. /\ <<i, k>> \in Slots /\ <<i, "next">> \in Slots /\ <<i, k>> # <<i, "next">>
        /\ Target(i) \in Handle
    BY <2>3, TargetType, SlotsAre DEF Kinds
  <2>9. /\ dir' \in [Slots -> Handle]
        /\ \A s \in Slots : s # <<i, k>> /\ s # <<i, "next">> => dir'[s] = dir[s]
        /\ dir'[<<i, k>>] = Target(i)
        /\ ~Held(dir'[<<i, "next">>])
    <3>1. CASE cmd[i].moved
      BY <2>1, <2>8, <3>1, NothingType DEF IInv, TypeOK
    <3>2. CASE ~cmd[i].moved
      <4>1. Target(i) = dir[<<i, k>>]
        BY <3>2 DEF Target, TargetSlot
      <4>2. ~Held(dir[<<i, "next">>])
        BY <3>2 DEF IInv, PInv, TargetOwned
      <4>3. QED
        BY <2>1, <3>2, <4>1, <4>2 DEF IInv, TypeOK, Held
    <3>3. QED
      BY <3>1, <3>2
  <2>10. OneOwner'
    <3>1. CASE cmd[i].moved
      <4>1. Target(i) = dir[<<i, "next">>]
        BY <3>1 DEF Target, TargetSlot
      <4>2. QED
        BY <2>7, <2>8, <2>9, <4>1 DEF IInv, OneOwner, Held
    <3>2. CASE ~cmd[i].moved
      BY <2>1, <3>2 DEF IInv, OneOwner, Held
    <3>3. QED
      BY <3>1, <3>2
  <2>11. TypeOK' /\ StagingIsMarked'
    BY <2>2, <2>5, <2>9 DEF CommitChange, IInv, TypeOK, treeVars, fileVars, StagingIsMarked
  <2>12. /\ \A l \in Kinds : l # k => dir'[<<i, l>>] = dir[<<i, l>>]
         /\ \A j \in Instances : j # i =>
              \A l \in Kinds \cup {"next"} : dir'[<<j, l>>] = dir[<<j, l>>]
    BY <2>3, <2>8, <2>9, SlotsAre DEF Kinds
  <2>13. PathsFollow(i)'
    <3> SUFFICES ASSUME NEW l \in Kinds PROVE dir'[<<i, l>>].path = PathOf(settings'[i], l)
      BY DEF PathsFollow
    <3>1. CASE l = k
      BY <2>5, <2>6, <2>7, <2>9, <3>1
    <3>2. CASE l # k
      <4>1. dir[<<i, l>>].path = PathOf(settings[i], l)
        BY <1>1 DEF IInv, PInv, PathsFollow, Opening
      <4>2. QED
        BY <2>5, <2>6, <2>12, <3>2, <4>1
    <3>3. QED
      BY <3>1, <3>2
  <2>14. session'[i] = session[i] /\ ~session[i].running
    BY <1>1 DEF CommitChange, IInv, PInv, StartOwns, Resting
  <2>15. PInv(i)'
    BY <2>2, <2>9, <2>13, <2>14
       DEF PInv, TargetOwned, Migrating, StartOwns, Resting, Held
  <2>16. QED
    BY <2>2, <2>5, <2>10, <2>11, <2>12, <2>15, OwnStep DEF CommitChange, fileVars
<1>4. QED
  BY <1>2, <1>3

LEMMA UndoCopyInv ==
  ASSUME IInv, NEW i \in Instances, UndoCopy(i), outside' = outside
  PROVE  IInv'
<1> DEFINE h == Target(i)
<1>1. cmd[i].stage = "undo" /\ h.inode \in Inodes
  BY TargetType DEF UndoCopy, InStage, Moving
<1>2. CASE Release(i) /\ Return(i) /\ UNCHANGED gfc
  <2>1. /\ cmd' \in [Instances -> Command] /\ cmd'[i].stage = "idle" /\ cmd'[i].op = "init"
        /\ \A j \in Instances : j # i => cmd'[j] = cmd[j]
    BY <1>2, ReturnStep DEF IInv
  <2>2. /\ dir' \in [Slots -> Handle] /\ ~Held(dir'[<<i, "next">>])
        /\ \A s \in Slots : s # <<i, "next">> => dir'[s] = dir[s]
    BY <1>2, NothingType, SlotsAre DEF Release, IInv, TypeOK
  <2>3. OneOwner'
    BY <2>2 DEF IInv, OneOwner, Held
  <2>4. TypeOK' /\ settings' = disk' /\ StagingIsMarked'
    BY <1>2, <2>1, <2>2 DEF UndoCopy, IInv, TypeOK, treeVars, StagingIsMarked
  <2>5. /\ \A l \in Kinds : dir'[<<i, l>>] = dir[<<i, l>>]
        /\ \A j \in Instances : j # i =>
             \A l \in Kinds \cup {"next"} : dir'[<<j, l>>] = dir[<<j, l>>]
    BY <2>2, SlotsAre DEF Kinds
  <2>6. ~session[i].running /\ session'[i] = session[i] /\ settings'[i] = settings[i]
    BY <1>1 DEF UndoCopy, IInv, PInv, StartOwns, Resting
  <2>7. PInv(i)'
    BY <1>1, <2>1, <2>2, <2>5, <2>6
       DEF IInv, PInv, PathsFollow, Opening, TargetOwned, Migrating, StartOwns, Resting, Held
  <2>8. QED
    BY <2>1, <2>3, <2>4, <2>5, <2>7, OwnStep DEF UndoCopy
<1>3. CASE ~(Release(i) /\ Return(i) /\ UNCHANGED gfc)
  <2>1. PICK f \in cmd[i].copied :
           /\ gfc' = [gfc EXCEPT ![h.inode] = gfc[h.inode] \ {f}]
           /\ cmd' = [cmd EXCEPT ![i] = Job(cmd[i], "undo", cmd[i].todo, cmd[i].copied \ {f})]
           /\ UNCHANGED dir
    BY <1>1, <1>3 DEF UndoCopy, IInv, TypeOK
  <2>2. cmd[i].todo \in SUBSET Names /\ cmd[i].copied \ {f} \in SUBSET Names
    BY DEF IInv, TypeOK, Command
  <2>3. /\ cmd' \in [Instances -> Command] /\ cmd'[i].stage = "undo"
        /\ cmd'[i].kind = cmd[i].kind /\ cmd'[i].path = cmd[i].path
        /\ cmd'[i].moved = cmd[i].moved
        /\ \A j \in Instances : j # i => cmd'[j] = cmd[j]
    BY <2>1, <2>2, JobStep DEF IInv, Stages
  <2>4. gfc' \in [Inodes -> SUBSET Names]
    BY <1>1, <2>1 DEF IInv, TypeOK
  <2>5. TypeOK' /\ StagingIsMarked'
    BY <2>1, <2>3, <2>4 DEF UndoCopy, IInv, TypeOK, treeVars, StagingIsMarked
  <2>6. QED
    BY <1>1, <2>1, <2>3, <2>5, StillMoving DEF UndoCopy, Moving
<1>4. QED
  BY <1>2, <1>3

LEMMA ChangeDirectoryInv ==
  ASSUME IInv, NEW i \in Instances, NEW k \in Kinds, NEW p \in Paths, NEW migrate \in BOOLEAN,
         ChangeDirectory(i, k, p, migrate), outside' = outside
  PROVE  IInv'
<1> DEFINE own  == <<i, k>>
           same == SameDirectory(own, p)
           h    == IF same THEN dir[own] ELSE Opened(p, {<<i, "next">>})
           take == migrate /\ k = "cache" /\ dir[own].path # p
           refused == ~Held(h) \/ (h.inode \notin marker /\ ~Empty(h.inode))
           c    == [op |-> "directory", kind |-> k, path |-> p,
                    stage |-> IF take /\ (dir[own].error \/ ~Check(dir[own]))
                              THEN "undo" ELSE "copy",
                    migrate |-> take, moved |-> ~same,
                    todo |-> IF take /\ Held(dir[own]) THEN gfc[dir[own].inode] ELSE {},
                    copied |-> {}, before |-> gfc[h.inode]]
<1>1. /\ cmd[i].stage = "idle" /\ ~session[i].running
      /\ own \in Slots /\ <<i, "next">> \in Slots /\ own # <<i, "next">>
      /\ dir[own] \in Handle
  BY SlotsAre DEF ChangeDirectory, InStage, Kinds, IInv, TypeOK
<1>2. /\ at' \in [Paths -> Inodes \cup {NoInode}] /\ lockFile' \in [Inodes -> 0..MaxLock]
  BY OpenTreeType DEF ChangeDirectory, IInv, TypeOK, treeVars
<1>3. UNCHANGED <<gfc, staging, logs, disk, settings, pending, session>>
  BY DEF ChangeDirectory
<1>4. CASE refused
  <2>1. Return(i) /\ UNCHANGED <<dir, marker>>
    BY <1>4 DEF ChangeDirectory
  <2>2. /\ cmd' \in [Instances -> Command] /\ cmd'[i].stage = "idle"
        /\ \A j \in Instances : j # i => cmd'[j] = cmd[j]
    BY <2>1, ReturnStep DEF IInv
  <2>3. TypeOK'
    BY <1>2, <1>3, <2>1, <2>2 DEF ChangeDirectory, IInv, TypeOK
  <2>4. QED
    BY <1>1, <1>3, <2>1, <2>2, <2>3, QuietStep DEF Calm, Settled, Stages
<1>5. CASE /\ ~refused
           /\ Mark(h.inode)
           /\ dir' = IF same THEN dir ELSE [dir EXCEPT ![<<i, "next">>] = h]
           /\ cmd' = [cmd EXCEPT ![i] = c]
  <2>1. /\ marker' = marker \cup {h.inode}
        /\ dir' = IF same THEN dir ELSE [dir EXCEPT ![<<i, "next">>] = h]
        /\ cmd' = [cmd EXCEPT ![i] = c]
    BY <1>5 DEF Mark
  <2>2. h \in Handle /\ h.path = p /\ Held(h) /\ h.inode \in Inodes
    <3>1. h \in Handle /\ h.path = p
      BY <1>1, OpenedResult DEF SameDirectory, IInv
    <3>2. QED
      BY <1>5, <3>1 DEF Held, Handle
  <2>3. same \in BOOLEAN /\ take \in BOOLEAN
    BY DEF SameDirectory, Check, Held
  <2>4. c \in Command
    <3>1. gfc[h.inode] \in SUBSET Names
      BY <2>2 DEF IInv, TypeOK
    <3>2. (IF take /\ Held(dir[own]) THEN gfc[dir[own].inode] ELSE {}) \in SUBSET Names
      BY <1>1 DEF IInv, TypeOK, Held, Handle
    <3>3. "directory" \in Ops /\ {"undo", "copy"} \subseteq Stages
      BY DEF Ops, Stages
    <3>4. QED
      BY <2>3, <3>1, <3>2, <3>3 DEF Command
  <2>5. /\ cmd' \in [Instances -> Command]
        /\ cmd'[i].stage \in {"copy", "undo"} /\ cmd'[i].kind = k /\ cmd'[i].path = p
        /\ cmd'[i].moved = ~same
        /\ \A j \in Instances : j # i => cmd'[j] = cmd[j]
    BY <2>1, <2>4 DEF IInv, TypeOK
  <2>6. ~Held(dir[<<i, "next">>])
    BY <1>1 DEF IInv, PInv, TargetOwned, Migrating
  <2>7. /\ dir' \in [Slots -> Handle]
        /\ \A s \in Slots : s # <<i, "next">> => dir'[s] = dir[s]
        /\ same => dir' = dir
        /\ ~same => dir'[<<i, "next">>] = h
    BY <1>1, <2>1, <2>2 DEF IInv, TypeOK
  <2>8. OneOwner'
    <3>1. CASE same
      BY <2>7, <3>1 DEF IInv, OneOwner, Held
    <3>2. CASE ~same
      <4>1. InodeFree(h.inode, {<<i, "next">>})
        BY <2>2, <3>2, OpenedResult DEF IInv
      <4>2. dir' = [dir EXCEPT ![<<i, "next">>] = h] /\ dir \in [Slots -> Handle]
        BY <2>1, <3>2 DEF IInv, TypeOK
      <4>3. QED
        BY <1>1, <2>2, <4>1, <4>2, OwnerSet DEF IInv
    <3>3. QED
      BY <3>1, <3>2
  <2>9. TypeOK' /\ settings' = disk' /\ StagingIsMarked'
    BY <1>2, <1>3, <2>1, <2>2, <2>5, <2>7 DEF ChangeDirectory, IInv, TypeOK, StagingIsMarked
  <2>10. Target(i)' = h
    <3>1. CASE same
      BY <2>5, <2>7, <3>1 DEF Target, TargetSlot
    <3>2. CASE ~same
      BY <2>5, <2>7, <3>2 DEF Target, TargetSlot
    <3>3. QED
      BY <3>1, <3>2
  <2>11. TargetOwned(i)'
    <3>1. Held(Target(i)') /\ Target(i)'.path = cmd'[i].path /\ Target(i)'.inode \in marker'
      BY <2>1, <2>2, <2>5, <2>10
    <3>2. ~cmd'[i].moved => ~Held(dir'[<<i, "next">>])
      BY <2>3, <2>5, <2>6, <2>7
    <3>3. QED
      BY <2>5, <3>1, <3>2 DEF TargetOwned, Migrating, Held
  <2>12. /\ \A l \in Kinds : dir'[<<i, l>>] = dir[<<i, l>>]
         /\ \A j \in Instances : j # i =>
              \A l \in Kinds \cup {"next"} : dir'[<<j, l>>] = dir[<<j, l>>]
    BY <2>7, SlotsAre DEF Kinds
  <2>13. PathsFollow(i)' /\ StartOwns(i)'
    BY <1>1, <1>3, <2>5, <2>12 DEF IInv, PInv, PathsFollow, Opening, StartOwns, Resting
  <2>14. marker \subseteq marker'
    BY <2>1
  <2>15. QED
    BY <1>3, <2>5, <2>8, <2>9, <2>11, <2>12, <2>13, <2>14, OwnStep DEF PInv
<1>6. CASE /\ ~refused
           /\ marker' \in {marker, marker \cup {h.inode}}
           /\ Return(i) /\ UNCHANGED dir
  <2>1. /\ cmd' \in [Instances -> Command] /\ cmd'[i].stage = "idle"
        /\ \A j \in Instances : j # i => cmd'[j] = cmd[j]
    BY <1>6, ReturnStep DEF IInv
  <2>2. h \in Handle /\ Held(h)
    BY <1>1, <1>6, OpenedResult DEF SameDirectory, IInv
  <2>3. marker' \subseteq Inodes /\ marker \subseteq marker'
    BY <1>6, <2>2 DEF IInv, TypeOK, Held, Handle
  <2>4. TypeOK' /\ OneOwner' /\ settings' = disk' /\ StagingIsMarked'
    BY <1>2, <1>3, <1>6, <2>1, <2>3
       DEF ChangeDirectory, IInv, TypeOK, OneOwner, StagingIsMarked, Held
  <2>5. PInv(i)'
    BY <1>1, <1>3, <1>6, <2>1, CalmStep DEF Calm, Settled, Stages
  <2>6. QED
    BY <1>3, <1>6, <2>1, <2>3, <2>4, <2>5, OwnStep
<1>7. refused \/ (/\ ~refused
                  /\ \/ /\ Mark(h.inode)
                        /\ dir' = IF same THEN dir ELSE [dir EXCEPT ![<<i, "next">>] = h]
                        /\ cmd' = [cmd EXCEPT ![i] = c]
                     \/ /\ marker' \in {marker, marker \cup {h.inode}}
                        /\ Return(i) /\ UNCHANGED dir)
  BY DEF ChangeDirectory
<1>8. QED
  BY <1>4, <1>5, <1>6, <1>7

-----------------------------------------------------------------------------
(* Clearing, the running cache, and whoever is outside.                    *)

LEMMA ClearInv ==
  ASSUME IInv, NEW i \in Instances, RequestClear(i) \/ ClearFile(i), outside' = outside
  PROVE  IInv'
<1>1. UNCHANGED <<treeVars, dir, marker, staging, logs, disk, settings, pending, session>>
  BY DEF RequestClear, ClearFile, fileVars
<1>2. CASE RequestClear(i)
  <2>1. /\ cmd' \in [Instances -> Command] /\ cmd'[i].stage = "ensureCache"
        /\ \A j \in Instances : j # i => cmd'[j] = cmd[j]
    BY <1>2, BeginStep DEF RequestClear, IInv, Ops, Stages
  <2>2. TypeOK'
    BY <1>1, <1>2, <2>1 DEF RequestClear, IInv, TypeOK, treeVars, fileVars
  <2>3. QED
    BY <1>1, <1>2, <2>1, <2>2, QuietStep DEF RequestClear, InStage, Calm, Settled, Stages
<1>3. CASE ClearFile(i)
  <2> DEFINE h == dir[<<i, "cache">>]
  <2>1. h \in Handle
    BY SlotsAre DEF IInv, TypeOK, Kinds
  <2>2. /\ cmd' \in [Instances -> Command] /\ cmd'[i].stage \in {"clear", "idle"}
        /\ \A j \in Instances : j # i => cmd'[j] = cmd[j]
    BY <1>3, ReturnStep DEF ClearFile, InStage, IInv, TypeOK
  <2>3. gfc' \in [Inodes -> SUBSET Names]
    <3>1. CASE UNCHANGED gfc
      BY <3>1 DEF IInv, TypeOK
    <3>2. CASE gfc' # gfc
      <4>1. PICK f : gfc' = [gfc EXCEPT ![h.inode] = gfc[h.inode] \ {f}] /\ Check(h)
        BY <1>3, <2>1, <3>2 DEF ClearFile, IInv, TypeOK
      <4>2. h.inode \in Inodes
        BY <2>1, <4>1 DEF Check, Held, Handle
      <4>3. QED
        BY <4>1, <4>2 DEF IInv, TypeOK
    <3>3. QED
      BY <3>1, <3>2
  <2>4. TypeOK'
    BY <1>1, <1>3, <2>2, <2>3 DEF IInv, TypeOK, treeVars
  <2>5. QED
    BY <1>1, <1>3, <2>2, <2>4, QuietStep DEF ClearFile, InStage, Calm, Settled, Stages
<1>4. QED
  BY <1>2, <1>3

LEMMA Unmoved ==
  ASSUME IInv, TypeOK', UNCHANGED <<dir, marker, staging, disk, settings, session, cmd>>
  PROVE  IInv'
<1>1. ASSUME NEW j \in Instances PROVE PInv(j)'
  <2>1. cmd[j].kind \in Kinds
    BY DEF IInv, TypeOK, Command
  <2>2. QED
    BY <2>1, Undisturbed DEF IInv
<1>2. QED
  BY <1>1 DEF IInv, OneOwner, StagingIsMarked, Held

LEMMA StoreEntryInv ==
  ASSUME IInv, NEW i \in Instances, NEW f \in Names, StoreEntry(i, f), outside' = outside
  PROVE  IInv'
<1>1. gfc' = [gfc EXCEPT ![session[i].cache] = gfc[session[i].cache] \cup {f}]
  BY DEF StoreEntry, IInv, TypeOK
<1>2. gfc' \in [Inodes -> SUBSET Names]
  BY <1>1 DEF IInv, TypeOK
<1>3. TypeOK'
  BY <1>2 DEF StoreEntry, IInv, TypeOK, treeVars
<1>4. QED
  BY <1>3, Unmoved DEF StoreEntry

LEMMA OutsideInv ==
  ASSUME IInv, Outside
  PROVE  IInv'
<1>1. outside' \in 0..MaxOutside
  BY ServiceAssumption DEF Outside, IInv, TypeOK
<1>2. PICK p \in Shaken : ReplaceLock(p) \/ \E n \in Inodes \cup {NoInode} : Rename(p, n)
  BY DEF Outside
<1>3. CASE ReplaceLock(p)
  <2>1. lockFile' \in [Inodes -> 0..MaxLock]
    <3>1. lockFile' = [lockFile EXCEPT ![at[p]] = lockFile[at[p]] + 1]
          /\ lockFile[at[p]] \in 1..(MaxLock - 1)
      BY <1>3 DEF ReplaceLock, IInv, TypeOK
    <3>2. lockFile[at[p]] + 1 \in 0..MaxLock
      BY <3>1, Apart
    <3>3. QED
      BY <3>1, <3>2 DEF IInv, TypeOK
  <2>2. TypeOK'
    BY <1>1, <1>3, <2>1 DEF Outside, ReplaceLock, serviceVars, fileVars, IInv, TypeOK
  <2>3. QED
    BY <1>3, <2>2, Unmoved DEF Outside, ReplaceLock, serviceVars, fileVars
<1>4. CASE \E n \in Inodes \cup {NoInode} : Rename(p, n)
  <2>1. TypeOK'
    BY <1>1, <1>4 DEF Outside, Rename, serviceVars, fileVars, IInv, TypeOK
  <2>2. QED
    BY <1>4, <2>1, Unmoved DEF Outside, Rename, serviceVars, fileVars
<1>5. QED
  BY <1>2, <1>3, <1>4

-----------------------------------------------------------------------------
(* The theorems.                                                           *)

LEMMA InitInv == Init => IInv
<1> SUFFICES ASSUME Init PROVE IInv
  OBVIOUS
<1>1. \A s \in Slots : dir[s] = Nothing(s[1]) /\ s[1] \in Instances
  BY DEF Init, Slots
<1>2. dir \in [Slots -> Handle] /\ \A s \in Slots : ~Held(dir[s])
  BY <1>1, NothingType DEF Init
<1>3. cmd \in [Instances -> Command]
      /\ \A i \in Instances : cmd[i].stage = "off" /\ cmd[i].moved = FALSE
  <2>1. ASSUME NEW i \in Instances PROVE Quiet(i, "close", "off") \in Command
    <3>1. FirstSettings[i].cache \in Paths
      BY ServiceAssumption DEF Settings
    <3>2. QED
      BY <3>1 DEF Quiet, Command, Kinds, Ops, Stages
  <2>2. QED
    BY <2>1 DEF Init, Quiet
<1>4. session \in [Instances -> Session] /\ \A i \in Instances : ~session[i].running
  BY StoppedType DEF Init, Stopped
<1>5. TypeOK
  BY <1>2, <1>3, <1>4, Apart, ServiceAssumption DEF Init, TypeOK
<1>6. OneOwner /\ settings = disk /\ StagingIsMarked
  BY <1>2 DEF Init, OneOwner, StagingIsMarked
<1>7. ASSUME NEW i \in Instances PROVE PInv(i)
  BY <1>2, <1>3, <1>4, SlotsAre
     DEF PInv, PathsFollow, Opening, TargetOwned, Migrating, StartOwns
<1>8. QED
  BY <1>5, <1>6, <1>7 DEF IInv

LEMMA ProcessInv ==
  ASSUME IInv, NEW i \in Instances, Process(i), outside' = outside
  PROVE  IInv'
<1>1. CASE Open(i) \/ OpenCache(i) \/ OpenLogs(i) \/ PrepareLogs(i) \/ Request(i)
  BY <1>1, OpenInv, OpenCacheInv, OpenLogsInv, PrepareLogsInv, RequestInv
<1>2. CASE EnsureCache(i) \/ EnsureLogs(i) \/ Start(i) \/ SaveSettings(i)
  BY <1>2, EnsureCacheInv, EnsureLogsInv, StartTraceInv, StartGatewayInv, SaveStartInv,
     SaveSettingsInv DEF Start
<1>3. CASE Stop(i)
  BY <1>3, RequestStopInv, HaltInv, RecoverInv, GoneInv DEF Stop, Exit
<1>4. CASE Change(i)
  BY <1>4, ChangeDirectoryInv, StageCopyInv, PublishCopyInv, CommitChangeInv, UndoCopyInv DEF Change
<1>5. CASE RequestClear(i) \/ ClearFile(i) \/ \E f \in Names : StoreEntry(i, f)
  BY <1>5, ClearInv, StoreEntryInv
<1>6. QED
  BY <1>1, <1>2, <1>3, <1>4, <1>5 DEF Process

LEMMA NextInv == IInv /\ [Next]_vars => IInv'
<1> SUFFICES ASSUME IInv, [Next]_vars PROVE IInv'
  OBVIOUS
<1>1. CASE Outside
  BY <1>1, OutsideInv
<1>2. CASE \E i \in Instances : (Process(i) \/ Crash(i)) /\ outside' = outside
  BY <1>2, ProcessInv, GoneInv DEF Crash
<1>3. CASE UNCHANGED vars
  <2>1. TypeOK'
    BY <1>3 DEF vars, IInv, TypeOK
  <2>2. QED
    BY <1>3, <2>1, Unmoved DEF vars
<1>4. QED
  BY <1>1, <1>2, <1>3 DEF Next

LEMMA Inductive == Spec => []IInv
BY InitInv, NextInv, PTL DEF Spec

\* Two Directory values never hold the same directory (service.rs:589), for any
\* number of processes and whatever is renamed or replaced around them.
THEOREM OneOwnerAlways == Spec => []OneOwner
<1>1. IInv => OneOwner
  BY DEF IInv
<1>2. QED
  BY <1>1, Inductive, PTL

\* A running gateway never gives up the locks it was started with
\* (service.rs:39 against service.rs:88).
THEOREM RunningOwnsAlways == Spec => []RunningOwns
<1>1. IInv => RunningOwns
  BY DEF IInv, PInv, StartOwns, RunningOwns, Kinds
<1>2. QED
  BY <1>1, Inductive, PTL

\* Between two commands memory, settings.json and the owned directories agree
\* (service.rs:174, application/mod.rs:231), also after a failed change.
THEOREM SettingsAgreeAlways == Spec => []SettingsAgree
<1>1. IInv => SettingsAgree
  BY DEF IInv, PInv, PathsFollow, Opening, TargetOwned, Migrating, SettingsAgree, InStage
<1>2. QED
  BY <1>1, Inductive, PTL

\* A half copied file is only ever in a directory that is already marked
\* (service.rs:203 before directory.rs:99).
THEOREM StagingIsMarkedAlways == Spec => []StagingIsMarked
<1>1. IInv => StagingIsMarked
  BY DEF IInv
<1>2. QED
  BY <1>1, Inductive, PTL

-----------------------------------------------------------------------------
(* Moving a cache: the books of a migration.                               *)

\* A running cache works in no directory that another process holds.
SessionsApart ==
  \A i, j \in Instances : \A k \in Kinds \cup {"next"} :
    i # j /\ session[j].running /\ Held(dir[<<i, k>>]) =>
      session[j].cache # dir[<<i, k>>].inode

\* Copying moves names from the list to the target, and loses none.
NoneForgotten(i) ==
  cmd[i].stage \in {"copy", "publish"} /\ cmd[i].migrate =>
    /\ cmd[i].kind = "cache" /\ Held(Source(i))
    /\ gfc[Source(i).inode] \subseteq cmd[i].todo \cup cmd[i].copied

Accounted(i) ==
  Migrating(i) =>
    /\ gfc[Target(i).inode] = cmd[i].before \cup cmd[i].copied
    /\ cmd[i].before \cap cmd[i].copied = {}

AInv == \A i \in Instances : Accounted(i) /\ NoneForgotten(i)

AllKinds == Kinds \cup {"next"}

\* A process whose command and directories are left alone keeps its books, if
\* nobody touches the files of its directories.
LEMMA BooksUntouched ==
  ASSUME IInv, AInv, NEW j \in Instances, cmd'[j] = cmd[j],
         \A k \in AllKinds :
           /\ dir'[<<j, k>>] = dir[<<j, k>>]
           /\ Held(dir[<<j, k>>]) => gfc'[dir[<<j, k>>].inode] = gfc[dir[<<j, k>>].inode]
  PROVE  Accounted(j)' /\ NoneForgotten(j)'
<1>1. cmd[j].kind \in Kinds
  BY DEF IInv, TypeOK, Command
<1>2. Target(j)' = Target(j) /\ Source(j)' = Source(j)
  BY <1>1 DEF Target, TargetSlot, Source, AllKinds
<1>3. Accounted(j)'
  <2>1. Migrating(j) => gfc'[Target(j).inode] = gfc[Target(j).inode]
    BY <1>1 DEF IInv, PInv, TargetOwned, Target, TargetSlot, AllKinds
  <2>2. QED
    BY <1>2, <2>1 DEF AInv, Accounted, Migrating
<1>4. NoneForgotten(j)'
  <2>1. Held(Source(j)) => gfc'[Source(j).inode] = gfc[Source(j).inode]
    BY <1>1 DEF Source, AllKinds
  <2>2. QED
    BY <1>2, <2>1 DEF AInv, NoneForgotten, Held
<1>5. QED
  BY <1>3, <1>4

\* What a step of i does to a directory that i holds, or that its running cache
\* works in, is not done to the directories of others.
LEMMA ElsewhereUntouched ==
  ASSUME IInv, SessionsApart, NEW i \in Instances, NEW j \in Instances, j # i,
         NEW n, NEW x,
         \/ \E s \in AllKinds : Held(dir[<<i, s>>]) /\ n = dir[<<i, s>>].inode
         \/ session[i].running /\ n = session[i].cache,
         gfc' = [gfc EXCEPT ![n] = x]
  PROVE  \A k \in AllKinds :
           Held(dir[<<j, k>>]) => gfc'[dir[<<j, k>>].inode] = gfc[dir[<<j, k>>].inode]
<1> SUFFICES ASSUME NEW k \in AllKinds, Held(dir[<<j, k>>])
             PROVE  gfc'[dir[<<j, k>>].inode] = gfc[dir[<<j, k>>].inode]
  OBVIOUS
<1>1. n # dir[<<j, k>>].inode
  <2>1. CASE session[i].running /\ n = session[i].cache
    BY <2>1 DEF SessionsApart, AllKinds
  <2>2. ASSUME NEW s \in AllKinds, Held(dir[<<i, s>>]), n = dir[<<i, s>>].inode
        PROVE  n # dir[<<j, k>>].inode
    <3>1. <<i, s>> \in Slots /\ <<j, k>> \in Slots /\ <<i, s>> # <<j, k>>
      BY SlotsAre DEF AllKinds
    <3>2. QED
      BY <2>2, <3>1 DEF IInv, OneOwner
  <2>3. QED
    BY <2>1, <2>2
<1>2. dir[<<j, k>>] \in Handle
  BY SlotsAre DEF IInv, TypeOK, AllKinds
<1>3. dir[<<j, k>>].inode \in Inodes
  BY <1>2 DEF Held, Handle
<1>4. QED
  BY <1>1, <1>3 DEF IInv, TypeOK

\* A process only changes its own command and its own directories.
LEMMA OwnOnly ==
  ASSUME IInv, NEW i \in Instances, Process(i) \/ Crash(i), NEW j \in Instances, j # i
  PROVE  cmd'[j] = cmd[j] /\ \A k \in AllKinds : dir'[<<j, k>>] = dir[<<j, k>>]
<1>1. \A k, l \in AllKinds : <<j, k>> # <<i, l>>
  OBVIOUS
<1>2. /\ cmd \in [Instances -> Command] /\ dir \in [Slots -> Handle]
      /\ \A k \in AllKinds : <<j, k>> \in Slots /\ <<i, k>> \in Slots
  BY SlotsAre DEF IInv, TypeOK, AllKinds
<1>3. \A s : \A p : Acquire(s, p) => \A t \in Slots : t # s => dir'[t] = dir[t]
  BY <1>2 DEF Acquire
<1>4. \A s : Ensure(s) \/ Recover(s) => \A t \in Slots : t # s => dir'[t] = dir[t]
  BY <1>2, <1>3 DEF Ensure, Recover
<1> USE DEF AllKinds, Kinds
<1>5. \A k \in AllKinds : dir'[<<j, k>>] = dir[<<j, k>>]
  <2>1. CASE Open(i) \/ Request(i) \/ Start(i) \/ SaveSettings(i) \/ RequestStop(i) \/ Halt(i)
             \/ StageCopy(i) \/ PublishCopy(i) \/ RequestClear(i) \/ ClearFile(i)
             \/ \E f \in Names : StoreEntry(i, f)
    BY <2>1 DEF Open, Request, Start, StartTrace, StartGateway, SaveStart, SaveSettings,
         RequestStop, Halt, StageCopy, PublishCopy, RequestClear, ClearFile, StoreEntry
  <2>2. CASE OpenCache(i) \/ OpenLogs(i) \/ PrepareLogs(i) \/ EnsureCache(i) \/ EnsureLogs(i)
             \/ RecoverCache(i) \/ RecoverLogs(i)
    <3>1. dir' = dir \/ \E l \in AllKinds : \A t \in Slots : t # <<i, l>> => dir'[t] = dir[t]
      BY <1>3, <1>4, <2>2 DEF OpenCache, OpenLogs, PrepareLogs, EnsureCache, EnsureLogs,
           RecoverCache, RecoverLogs
    <3>2. QED
      BY <1>1, <1>2, <3>1
  <2>3. CASE Exit(i) \/ Crash(i)
    BY <1>2, <2>3 DEF Exit, Crash, Gone
  <2>4. CASE CommitChange(i)
    <3>1. cmd[i].kind \in AllKinds
      BY <1>2 DEF Command
    <3>2. QED
      BY <1>1, <1>2, <2>4, <3>1 DEF CommitChange
  <2>5. CASE UndoCopy(i)
    BY <1>1, <1>2, <2>5 DEF UndoCopy, Release
  <2>6. ASSUME NEW k \in Kinds, NEW p \in Paths, NEW migrate \in BOOLEAN,
               ChangeDirectory(i, k, p, migrate)
        PROVE  \A l \in AllKinds : dir'[<<j, l>>] = dir[<<j, l>>]
    <3>1. dir' = dir \/ \E h : dir' = [dir EXCEPT ![<<i, "next">>] = h]
      BY <2>6 DEF ChangeDirectory
    <3>2. QED
      BY <1>1, <1>2, <3>1
  <2>7. QED
    BY <2>1, <2>2, <2>3, <2>4, <2>5, <2>6 DEF Process, Stop, Change
<1>6. cmd'[j] = cmd[j]
  <2>1. \A op, s : Begin(i, op, s) => cmd'[j] = cmd[j]
    BY <1>2 DEF Begin
  <2>2. \A s : Goto(i, s) => cmd'[j] = cmd[j]
    BY <1>2 DEF Goto
  <2>3. Return(i) => cmd'[j] = cmd[j]
    BY <2>1 DEF Return
  <2>4. CASE Open(i) \/ OpenCache(i) \/ OpenLogs(i) \/ Request(i) \/ EnsureCache(i)
             \/ EnsureLogs(i) \/ Start(i) \/ SaveSettings(i) \/ Stop(i) \/ Crash(i)
    BY <2>1, <2>2, <2>3, <2>4 DEF Open, OpenCache, OpenLogs, Request, EnsureCache, EnsureLogs,
         Start, StartTrace, StartGateway, SaveStart, SaveSettings, Stop, RequestStop, Halt,
         RecoverCache, RecoverLogs, Exit, Crash, Gone
  <2>5. CASE PrepareLogs(i)
    <3>1. cmd[i].op \in Preparing
      BY <2>5 DEF PrepareLogs, InStage, IInv, PInv, StartOwns
    <3>2. QED
      BY <2>2, <2>3, <2>5, <3>1 DEF PrepareLogs, AfterPrepare, Preparing
  <2>6. CASE Change(i)
    <3>1. CASE StageCopy(i) \/ CommitChange(i)
      BY <2>2, <2>3, <3>1 DEF StageCopy, CommitChange
    <3>2. CASE PublishCopy(i)
      BY <1>2, <2>2, <3>2 DEF PublishCopy
    <3>3. CASE UndoCopy(i)
      BY <1>2, <2>3, <3>3 DEF UndoCopy
    <3>4. ASSUME NEW k \in Kinds, NEW p \in Paths, NEW migrate \in BOOLEAN,
                 ChangeDirectory(i, k, p, migrate)
          PROVE  cmd'[j] = cmd[j]
      BY <1>2, <2>3, <3>4 DEF ChangeDirectory
    <3>5. QED
      BY <2>6, <3>1, <3>2, <3>3, <3>4 DEF Change
  <2>7. CASE RequestClear(i) \/ ClearFile(i) \/ \E f \in Names : StoreEntry(i, f)
    BY <2>1, <2>3, <2>7 DEF RequestClear, ClearFile, StoreEntry
  <2>8. QED
    BY <2>4, <2>5, <2>6, <2>7 DEF Process
<1>7. QED
  BY <1>5, <1>6

\* Only a change of directory moves anything.
LEMMA NothingMoves ==
  ASSUME IInv, NEW i \in Instances, Process(i) \/ Crash(i), ~Change(i)
  PROVE  cmd'[i].stage \notin Moving
<1>1. \A op \in Ops, s \in Stages : Begin(i, op, s) => cmd'[i].stage = s
  BY BeginStep DEF IInv
<1>2. \A s \in Stages : Goto(i, s) => cmd'[i].stage = s
  BY GotoStep DEF IInv
<1>3. Return(i) => cmd'[i].stage = "idle"
  BY ReturnStep DEF IInv
<1> USE DEF Moving, Ops, Stages
<1>4. CASE Open(i) \/ OpenCache(i) \/ OpenLogs(i) \/ Request(i) \/ EnsureCache(i)
           \/ EnsureLogs(i) \/ Stop(i) \/ Crash(i) \/ RequestClear(i)
  BY <1>1, <1>2, <1>3, <1>4 DEF Open, OpenCache, OpenLogs, Request, EnsureCache, EnsureLogs,
       Stop, RequestStop, Halt, RecoverCache, RecoverLogs, Exit, Crash, Gone, RequestClear
<1>5. CASE Start(i)
  BY <1>2, <1>3, <1>5 DEF Start, StartTrace, StartGateway, SaveStart
<1>6. CASE PrepareLogs(i)
  <2>1. cmd[i].op \in Preparing
    BY <1>6 DEF PrepareLogs, InStage, IInv, PInv, StartOwns
  <2>2. QED
    BY <1>2, <1>3, <1>6, <2>1 DEF PrepareLogs, AfterPrepare, Preparing
<1>7. CASE SaveSettings(i) \/ ClearFile(i)
  BY <1>3, <1>7 DEF SaveSettings, ClearFile, InStage
<1>8. ASSUME NEW f \in Names, StoreEntry(i, f)
      PROVE  cmd'[i].stage \notin Moving
  BY <1>8 DEF StoreEntry, IInv, PInv, StartOwns, Resting
<1>9. QED
  BY <1>4, <1>5, <1>6, <1>7, <1>8 DEF Process

\* Only four steps change cache files, each in one directory of its process.
LEMMA FilesChange ==
  ASSUME IInv, NEW i \in Instances, Process(i) \/ Crash(i), gfc' # gfc
  PROVE  \E n, x :
           /\ gfc' = [gfc EXCEPT ![n] = x]
           /\ \/ \E s \in AllKinds : Held(dir[<<i, s>>]) /\ n = dir[<<i, s>>].inode
              \/ session[i].running /\ n = session[i].cache
<1>1. Target(i) \in {dir[<<i, s>>] : s \in AllKinds}
  <2>1. cmd[i].kind \in Kinds
    BY DEF IInv, TypeOK, Command
  <2>2. QED
    BY <2>1 DEF Target, TargetSlot, AllKinds
<1>2. CASE PublishCopy(i) \/ UndoCopy(i)
  <2>1. Held(Target(i))
    BY <1>2, TargetType DEF PublishCopy, UndoCopy, InStage, Moving
  <2>2. PICK x : gfc' = [gfc EXCEPT ![Target(i).inode] = x]
    BY <1>2 DEF PublishCopy, UndoCopy
  <2>3. PICK s \in AllKinds : Target(i) = dir[<<i, s>>]
    BY <1>1
  <2>4. gfc' = [gfc EXCEPT ![dir[<<i, s>>].inode] = x] /\ Held(dir[<<i, s>>])
    BY <2>1, <2>2, <2>3
  <2>5. QED
    BY <2>4
<1>3. CASE ClearFile(i)
  <2>1. Held(dir[<<i, "cache">>]) /\ \E x : gfc' = [gfc EXCEPT ![dir[<<i, "cache">>].inode] = x]
    BY <1>3 DEF ClearFile, Check
  <2>2. QED
    BY <2>1 DEF AllKinds, Kinds
<1>4. ASSUME NEW f \in Names, StoreEntry(i, f)
      PROVE  session[i].running /\ \E x : gfc' = [gfc EXCEPT ![session[i].cache] = x]
  BY <1>4 DEF StoreEntry
<1>5. ASSUME NEW k \in Kinds, NEW p \in Paths, NEW migrate \in BOOLEAN,
             ChangeDirectory(i, k, p, migrate)
      PROVE  gfc' = gfc
  BY <1>5 DEF ChangeDirectory
<1>6. CASE Open(i) \/ OpenCache(i) \/ OpenLogs(i) \/ PrepareLogs(i) \/ Request(i) \/ EnsureCache(i)
           \/ EnsureLogs(i) \/ Start(i) \/ SaveSettings(i) \/ Stop(i) \/ Crash(i)
           \/ StageCopy(i) \/ CommitChange(i) \/ RequestClear(i)
  BY <1>6 DEF Open, OpenCache, OpenLogs, PrepareLogs, Request, EnsureCache, EnsureLogs, Start,
       StartTrace, StartGateway, SaveStart, SaveSettings, Stop, RequestStop, Halt, RecoverCache,
       RecoverLogs, Exit, Crash, Gone, StageCopy, CommitChange, RequestClear, fileVars
<1>7. QED
  BY <1>2, <1>3, <1>4, <1>5, <1>6 DEF Process, Change

\* A command that goes to another stage keeps the rest of its job.
LEMMA ChangeTo ==
  ASSUME IInv, NEW i \in Instances
  PROVE  \A s \in Stages : Goto(i, s) =>
           /\ cmd'[i].stage = s /\ cmd'[i].todo = cmd[i].todo /\ cmd'[i].copied = cmd[i].copied
           /\ cmd'[i].kind = cmd[i].kind /\ cmd'[i].moved = cmd[i].moved
           /\ cmd'[i].migrate = cmd[i].migrate /\ cmd'[i].before = cmd[i].before
BY DEF IInv, TypeOK, Goto, Job

\* A change begins with nothing copied and the whole cache to copy.
LEMMA BooksOpened ==
  ASSUME IInv, NEW i \in Instances, NEW k \in Kinds, NEW p \in Paths, NEW migrate \in BOOLEAN,
         ChangeDirectory(i, k, p, migrate)
  PROVE  Accounted(i)' /\ NoneForgotten(i)'
<1> DEFINE own  == <<i, k>>
           same == SameDirectory(own, p)
           h    == IF same THEN dir[own] ELSE Opened(p, {<<i, "next">>})
           take == migrate /\ k = "cache" /\ dir[own].path # p
           c    == [op |-> "directory", kind |-> k, path |-> p,
                    stage |-> IF take /\ (dir[own].error \/ ~Check(dir[own]))
                              THEN "undo" ELSE "copy",
                    migrate |-> take, moved |-> ~same,
                    todo |-> IF take /\ Held(dir[own]) THEN gfc[dir[own].inode] ELSE {},
                    copied |-> {}, before |-> gfc[h.inode]]
<1>1. CASE Return(i)
  <2>1. cmd'[i].stage = "idle"
    BY <1>1, ReturnStep DEF IInv
  <2>2. QED
    BY <2>1 DEF Accounted, NoneForgotten, Migrating
<1>2. CASE ~Return(i)
  <2>1. /\ dir' = IF same THEN dir ELSE [dir EXCEPT ![<<i, "next">>] = h]
        /\ cmd' = [cmd EXCEPT ![i] = c]
        /\ gfc' = gfc
    BY <1>2 DEF ChangeDirectory
  <2>2. cmd'[i] = c
    BY <2>1 DEF IInv, TypeOK
  <2>3. /\ dir \in [Slots -> Handle] /\ own \in Slots /\ <<i, "next">> \in Slots
        /\ own # <<i, "next">>
    BY SlotsAre DEF IInv, TypeOK, Kinds
  <2>4. dir'[own] = dir[own] /\ (~same => dir'[<<i, "next">>] = h)
    BY <2>1, <2>3
  <2>5. /\ cmd'[i].kind = k /\ cmd'[i].moved = ~same /\ cmd'[i].before = gfc[h.inode]
        /\ cmd'[i].copied = {} /\ cmd'[i].migrate = take
        /\ cmd'[i].todo = IF take /\ Held(dir[own]) THEN gfc[dir[own].inode] ELSE {}
        /\ cmd'[i].stage = "copy" /\ take => Check(dir[own])
        /\ cmd'[i].stage \in {"copy", "undo"}
    BY <2>2
  <2>6. Target(i)' = h /\ Source(i)' = dir[own]
    <3>1. CASE same
      <4>1. dir'[own] = dir[own] /\ h = dir[own] /\ cmd'[i].moved = FALSE
        BY <2>4, <2>5, <3>1
      <4>2. TargetSlot(i)' = own
        BY <2>5, <4>1 DEF TargetSlot
      <4>3. QED
        BY <2>5, <4>1, <4>2 DEF Target, Source
    <3>2. CASE ~same
      BY <2>4, <2>5, <3>2 DEF Target, TargetSlot, Source
    <3>3. QED
      BY <3>1, <3>2
  <2>7. Accounted(i)'
    BY <2>1, <2>5, <2>6 DEF Accounted
  <2>8. NoneForgotten(i)'
    <3> SUFFICES ASSUME cmd'[i].stage \in {"copy", "publish"}, take
                 PROVE  /\ k = "cache" /\ Held(dir[own])
                        /\ gfc[dir[own].inode] \subseteq cmd'[i].todo \cup cmd'[i].copied
      BY <2>1, <2>5, <2>6 DEF NoneForgotten, Held
    <3>1. Check(dir[own])
      BY <2>5
    <3>2. QED
      BY <2>5, <3>1 DEF Check
  <2>9. QED
    BY <2>7, <2>8
<1>3. QED
  BY <1>1, <1>2

\* A name is published where it was new, and leaves the list.
LEMMA BooksPublished ==
  ASSUME IInv, AInv, NEW i \in Instances, PublishCopy(i)
  PROVE  Accounted(i)' /\ NoneForgotten(i)'
<1> DEFINE h == Target(i)
<1>1. /\ cmd[i].stage = "publish" /\ UNCHANGED dir /\ h.inode \in Inodes
      /\ Source(i) \in Handle
  BY TargetType DEF PublishCopy, InStage, Moving, IInv, TypeOK, Source
<1>2. /\ gfc[h.inode] = cmd[i].before \cup cmd[i].copied
      /\ cmd[i].before \cap cmd[i].copied = {}
  BY <1>1 DEF AInv, Accounted, Migrating
<1>3. CASE Goto(i, "undo") /\ UNCHANGED gfc
  <2>1. /\ cmd'[i].stage = "undo" /\ cmd'[i].copied = cmd[i].copied
        /\ cmd'[i].before = cmd[i].before
        /\ cmd'[i].kind = cmd[i].kind /\ cmd'[i].moved = cmd[i].moved
    BY <1>3, ChangeTo DEF Stages
  <2>2. Target(i)' = h
    BY <1>1, <2>1 DEF Target, TargetSlot
  <2>3. QED
    BY <1>2, <1>3, <2>1, <2>2 DEF Accounted, NoneForgotten
<1>4. CASE ~(Goto(i, "undo") /\ UNCHANGED gfc)
  <2>1. PICK f \in cmd[i].todo \ gfc[h.inode] :
          /\ gfc' = [gfc EXCEPT ![h.inode] = gfc[h.inode] \cup {f}]
          /\ cmd' = [cmd EXCEPT ![i] = Job(cmd[i], "copy", cmd[i].todo \ {f},
                                           cmd[i].copied \cup {f})]
    BY <1>1, <1>4 DEF PublishCopy, IInv, TypeOK
  <2>2. /\ cmd'[i].stage = "copy" /\ cmd'[i].copied = cmd[i].copied \cup {f}
        /\ cmd'[i].todo = cmd[i].todo \ {f}
        /\ cmd'[i].before = cmd[i].before /\ cmd'[i].migrate = cmd[i].migrate
        /\ cmd'[i].kind = cmd[i].kind /\ cmd'[i].moved = cmd[i].moved
    BY <2>1 DEF Job, IInv, TypeOK
  <2>3. Target(i)' = h /\ Source(i)' = Source(i)
    BY <1>1, <2>2 DEF Target, TargetSlot, Source
  <2>4. /\ gfc'[h.inode] = gfc[h.inode] \cup {f}
        /\ \A n \in Inodes : gfc'[n] \subseteq gfc[n] \cup {f}
    BY <1>1, <2>1 DEF IInv, TypeOK
  <2>5. Accounted(i)'
    <3>1. gfc'[h.inode] = cmd'[i].before \cup cmd'[i].copied
      BY <1>2, <2>2, <2>4
    <3>2. cmd'[i].before \cap cmd'[i].copied = {}
      BY <1>2, <2>1, <2>2
    <3>3. QED
      BY <2>3, <3>1, <3>2 DEF Accounted
  <2>6. NoneForgotten(i)'
    <3> SUFFICES ASSUME cmd[i].migrate
                 PROVE  /\ cmd[i].kind = "cache" /\ Held(Source(i))
                        /\ gfc'[Source(i).inode] \subseteq cmd'[i].todo \cup cmd'[i].copied
      BY <2>2, <2>3 DEF NoneForgotten, Held
    <3>1. /\ cmd[i].kind = "cache" /\ Held(Source(i))
          /\ gfc[Source(i).inode] \subseteq cmd[i].todo \cup cmd[i].copied
      BY <1>1 DEF AInv, NoneForgotten
    <3>2. Source(i).inode \in Inodes
      BY <1>1, <3>1 DEF Held, Handle
    <3>3. gfc'[Source(i).inode] \subseteq gfc[Source(i).inode] \cup {f}
      BY <2>4, <3>2
    <3>4. QED
      BY <2>2, <3>1, <3>3
  <2>7. QED
    BY <2>5, <2>6
<1>5. QED
  BY <1>3, <1>4

\* The other steps of a change.
LEMMA BooksClosed ==
  ASSUME IInv, AInv, NEW i \in Instances, StageCopy(i) \/ CommitChange(i) \/ UndoCopy(i)
  PROVE  Accounted(i)' /\ NoneForgotten(i)'
<1>1. CASE Return(i)
  <2>1. cmd'[i].stage = "idle"
    BY <1>1, ReturnStep DEF IInv
  <2>2. QED
    BY <2>1 DEF Accounted, NoneForgotten, Migrating
<1>2. ASSUME NEW s \in {"publish", "undo"}, Goto(i, s), cmd[i].stage = "copy",
             UNCHANGED <<dir, gfc>>
      PROVE  Accounted(i)' /\ NoneForgotten(i)'
  <2>1. /\ cmd'[i].stage = s /\ cmd'[i].copied = cmd[i].copied /\ cmd'[i].todo = cmd[i].todo
        /\ cmd'[i].before = cmd[i].before /\ cmd'[i].migrate = cmd[i].migrate
        /\ cmd'[i].kind = cmd[i].kind /\ cmd'[i].moved = cmd[i].moved
    BY <1>2, ChangeTo DEF Stages
  <2>2. Target(i)' = Target(i) /\ Source(i)' = Source(i)
    BY <1>2, <2>1 DEF Target, TargetSlot, Source
  <2>3. QED
    BY <1>2, <2>1, <2>2 DEF AInv, Accounted, NoneForgotten, Migrating, Held
<1>3. CASE UndoCopy(i) /\ ~Return(i)
  <2> DEFINE h == Target(i)
  <2>1. /\ cmd[i].stage = "undo" /\ UNCHANGED dir /\ h.inode \in Inodes
    BY <1>3, TargetType DEF UndoCopy, InStage, Moving
  <2>2. PICK f \in cmd[i].copied :
           /\ gfc' = [gfc EXCEPT ![h.inode] = gfc[h.inode] \ {f}]
           /\ cmd' = [cmd EXCEPT ![i] = Job(cmd[i], "undo", cmd[i].todo, cmd[i].copied \ {f})]
    BY <1>3, <2>1 DEF UndoCopy, IInv, TypeOK
  <2>3. /\ cmd'[i].stage = "undo" /\ cmd'[i].copied = cmd[i].copied \ {f}
        /\ cmd'[i].before = cmd[i].before
        /\ cmd'[i].kind = cmd[i].kind /\ cmd'[i].moved = cmd[i].moved
    BY <2>2 DEF Job, IInv, TypeOK
  <2>4. Target(i)' = h
    BY <2>1, <2>3 DEF Target, TargetSlot
  <2>5. gfc'[h.inode] = gfc[h.inode] \ {f}
    BY <2>1, <2>2 DEF IInv, TypeOK
  <2>6. /\ gfc[h.inode] = cmd[i].before \cup cmd[i].copied
        /\ cmd[i].before \cap cmd[i].copied = {}
    BY <2>1 DEF AInv, Accounted, Migrating
  <2>7. gfc'[h.inode] = cmd'[i].before \cup cmd'[i].copied
        /\ cmd'[i].before \cap cmd'[i].copied = {}
    BY <2>2, <2>3, <2>5, <2>6
  <2>8. QED
    BY <2>3, <2>4, <2>7 DEF Accounted, NoneForgotten
<1>4. CASE StageCopy(i)
  BY <1>2, <1>4 DEF StageCopy, InStage
<1>5. CASE CommitChange(i)
  BY <1>1, <1>2, <1>5 DEF CommitChange, InStage, fileVars
<1>6. QED
  BY <1>1, <1>3, <1>4, <1>5

LEMMA StepKeepsBooks == IInv /\ AInv /\ SessionsApart /\ [Next]_vars => AInv'
<1> SUFFICES ASSUME IInv, AInv, SessionsApart, [Next]_vars PROVE AInv'
  OBVIOUS
<1>1. CASE UNCHANGED <<dir, gfc, cmd>>
  BY <1>1, BooksUntouched DEF AInv
<1>2. CASE Outside \/ UNCHANGED vars
  BY <1>1, <1>2 DEF Outside, ReplaceLock, Rename, serviceVars, fileVars, vars
<1>3. ASSUME NEW i \in Instances, Process(i) \/ Crash(i) PROVE AInv'
  <2>1. ASSUME NEW j \in Instances, j # i PROVE Accounted(j)' /\ NoneForgotten(j)'
    <3>1. cmd'[j] = cmd[j] /\ \A k \in AllKinds : dir'[<<j, k>>] = dir[<<j, k>>]
      BY <1>3, <2>1, OwnOnly
    <3>2. \A k \in AllKinds :
            Held(dir[<<j, k>>]) => gfc'[dir[<<j, k>>].inode] = gfc[dir[<<j, k>>].inode]
      BY <1>3, <2>1, FilesChange, ElsewhereUntouched
    <3>3. QED
      BY <3>1, <3>2, BooksUntouched
  <2>2. Accounted(i)' /\ NoneForgotten(i)'
    <3>1. CASE ~Change(i)
      <4>1. cmd'[i].stage \notin Moving
        BY <1>3, <3>1, NothingMoves
      <4>2. QED
        BY <4>1 DEF Accounted, NoneForgotten, Migrating, Moving
    <3>2. CASE Change(i)
      BY <3>2, BooksOpened, BooksPublished, BooksClosed DEF Change
    <3>3. QED
      BY <3>1, <3>2
  <2>3. QED
    BY <2>1, <2>2 DEF AInv
<1>4. QED
  BY <1>2, <1>3 DEF Next

\* Nothing but the commit of a change puts another cache path into settings.json.
LEMMA CommitStep ==
  ASSUME IInv, AInv, [Next]_vars, NEW i \in Instances,
         cmd[i].migrate, disk'[i].cache # disk[i].cache
  PROVE  /\ cmd[i].todo = {}
         /\ gfc[Source(i).inode] \subseteq gfc'[dir'[<<i, "cache">>].inode]
<1>1. disk \in [Instances -> Settings] /\ settings = disk
  BY DEF IInv, TypeOK
<1>2. ~Outside /\ ~UNCHANGED vars
  BY DEF Outside, serviceVars, vars
<1>3. PICK j \in Instances : Process(j) \/ Crash(j)
  BY <1>2 DEF Next
<1>4. CASE CommitChange(j)
  <2>1. /\ cmd[j].stage = "copy" /\ cmd[j].todo = {} /\ gfc' = gfc
        /\ disk' = [disk EXCEPT ![j] = With(settings[j], cmd[j].kind, cmd[j].path)]
        /\ dir' = IF ~cmd[j].moved THEN dir
                  ELSE [dir EXCEPT ![<<j, cmd[j].kind>>] = Target(j),
                                   ![<<j, "next">>] = Nothing(j)]
    BY <1>2, <1>4 DEF CommitChange, InStage, Persist, fileVars
  <2>2. j = i
    BY <1>1, <2>1
  <2>3. cmd[i].kind = "cache" /\ gfc[Source(i).inode] \subseteq cmd[i].copied
    BY <2>1, <2>2 DEF AInv, NoneForgotten
  <2>4. gfc[Target(i).inode] = cmd[i].before \cup cmd[i].copied
    BY <2>1, <2>2 DEF AInv, Accounted, Migrating
  <2>5. dir'[<<i, "cache">>] = Target(i)
    <3>1. /\ dir \in [Slots -> Handle] /\ <<i, "cache">> \in Slots /\ <<i, "next">> \in Slots
          /\ <<i, "cache">> # <<i, "next">>
      BY SlotsAre DEF IInv, TypeOK, Kinds
    <3>2. CASE cmd[i].moved
      BY <2>1, <2>2, <2>3, <3>1, <3>2
    <3>3. CASE ~cmd[i].moved
      BY <2>1, <2>2, <2>3, <3>3 DEF Target, TargetSlot
    <3>4. QED
      BY <3>2, <3>3
  <2>6. QED
    BY <2>1, <2>2, <2>3, <2>4, <2>5
<1>5. CASE SaveStart(j)
  BY <1>1, <1>5 DEF SaveStart, Persist
<1>6. CASE SaveSettings(j)
  <2>1. PICK keep \in Keeps : disk' = [disk EXCEPT ![j] = Kept(settings[j], keep)]
    BY <1>6 DEF SaveSettings, Persist
  <2>2. QED
    BY <1>1, <2>1 DEF Kept
<1>7. ASSUME NEW k \in Kinds, NEW p \in Paths, NEW migrate \in BOOLEAN,
             ChangeDirectory(j, k, p, migrate)
      PROVE  disk' = disk
  BY <1>7 DEF ChangeDirectory
<1>8. CASE Open(j) \/ OpenCache(j) \/ OpenLogs(j) \/ PrepareLogs(j) \/ Request(j) \/ EnsureCache(j)
           \/ EnsureLogs(j) \/ StartTrace(j) \/ StartGateway(j) \/ Stop(j) \/ Crash(j)
           \/ StageCopy(j) \/ PublishCopy(j) \/ UndoCopy(j) \/ RequestClear(j) \/ ClearFile(j)
           \/ \E f \in Names : StoreEntry(j, f)
  BY <1>8 DEF Open, OpenCache, OpenLogs, PrepareLogs, Request, EnsureCache, EnsureLogs,
       StartTrace, StartGateway, Stop, RequestStop, Halt, RecoverCache, RecoverLogs, Exit,
       Crash, Gone, StageCopy, PublishCopy, UndoCopy, RequestClear, ClearFile, StoreEntry
<1>9. QED
  BY <1>3, <1>4, <1>5, <1>6, <1>7, <1>8 DEF Process, Start, Change

LEMMA Books == Spec /\ []SessionsApart => []AInv
<1>1. Init => AInv
  <2> SUFFICES ASSUME Init PROVE AInv
    OBVIOUS
  <2>1. \A i \in Instances : cmd[i].stage = "off"
    BY DEF Init, Quiet
  <2>2. QED
    BY <2>1 DEF AInv, Accounted, NoneForgotten, Migrating
<1>2. QED
  BY <1>1, StepKeepsBooks, Inductive, PTL DEF Spec

\* Safety: while a cache moves, its target holds exactly what it held before and
\* what was copied since, as long as no other process's running cache works in a
\* directory that is held.  The code does not ensure that by itself: a directory
\* replaced between the check and the opening by path breaks it.
THEOREM MigrationAccountedAlways == Spec /\ []SessionsApart => []MigrationAccounted
<1>1. AInv => MigrationAccounted
  BY DEF AInv, Accounted, MigrationAccounted
<1>2. QED
  BY <1>1, Books, PTL

\* Action property: on the same condition settings.json names the target of a
\* migration only when the whole of the old cache is in it.
THEOREM CommitIsCompleteAlways == Spec /\ []SessionsApart => CommitIsComplete
<1>1. IInv /\ AInv /\ [Next]_vars =>
        \A i \in Instances :
          cmd[i].migrate /\ disk'[i].cache # disk[i].cache =>
            /\ cmd[i].todo = {}
            /\ gfc[Source(i).inode] \subseteq gfc'[dir'[<<i, "cache">>].inode]
  BY CommitStep
<1>2. QED
  BY <1>1, Books, Inductive, PTL DEF Spec, CommitIsComplete

-----------------------------------------------------------------------------
(* Apart unless a directory is moved under a start.                        *)

\* From the check of its cache directory to the opening of the cache.
Starting(i) ==
  cmd[i].stage \in {"trace", "serve"} \/ (cmd[i].stage = "ensureLogs" /\ cmd[i].op = "start")

CachePath(i) == dir[<<i, "cache">>].path

\* Nobody outside moves the cache directory of a process that is starting, or puts
\* another in its place.  (At any other time, and elsewhere, they may.)
StartsUndisturbed ==
  [][\A i \in Instances : Starting(i) /\ Outside => at'[CachePath(i)] = at[CachePath(i)]]_vars

\* What a starting process holds is at its path still, and a running cache, which
\* was opened by path, is in the directory of its service.
Ready(i) ==
  Starting(i) => Held(dir[<<i, "cache">>]) /\ at[CachePath(i)] = dir[<<i, "cache">>].inode
AtHome(i) == session[i].running => session[i].cache = dir[<<i, "cache">>].inode
Undisputed == \A i \in Instances : Ready(i) /\ AtHome(i)

\* What a slot holds after a step it held before, or it is at its path now.
Stays(s) ==
  Held(dir'[s]) =>
    Held(dir[s]) /\ dir'[s].inode = dir[s].inode /\ dir'[s].path = dir[s].path
Lands(s) == Held(dir'[s]) => at'[dir'[s].path] = dir'[s].inode

LEMMA PlaceThere ==
  ASSUME NEW p \in Paths, at[p] # NoInode
  PROVE  Place(p) = at[p]
BY DEF Place

\* Processes make directories where there are none, and move none.
LEMMA TreeGrows ==
  ASSUME IInv, NEW i \in Instances, Process(i) \/ Crash(i)
  PROVE  \A p \in Paths : at[p] # NoInode => at'[p] = at[p]
<1>1. at \in [Paths -> Inodes \cup {NoInode}] /\ dir \in [Slots -> Handle]
  BY DEF IInv, TypeOK
<1>2. ASSUME NEW q \in Paths, at' = [at EXCEPT ![q] = Place(q)]
      PROVE  \A p \in Paths : at[p] # NoInode => at'[p] = at[p]
  BY <1>1, <1>2, PlaceThere
<1>3. \A q \in Paths : OpenTree(q) => at' = at \/ at' = [at EXCEPT ![q] = Place(q)]
  BY DEF OpenTree, treeVars
<1>4. \A s \in Slots : Ensure(s) \/ Recover(s) =>
        at' = at \/ \E q \in Paths : at' = [at EXCEPT ![q] = Place(q)]
  BY <1>1, <1>3 DEF Ensure, Recover, Acquire, treeVars, Handle
<1>5. \A k \in Kinds : <<i, k>> \in Slots /\ dir[<<i, k>>].path \in Paths
  BY <1>1, SlotsAre DEF Handle
<1>6. at' = at \/ \E q \in Paths : at' = [at EXCEPT ![q] = Place(q)]
  <2>1. CASE OpenCache(i) \/ OpenLogs(i)
    <3>1. settings[i].cache \in Paths /\ settings[i].logs \in Paths
      BY DEF IInv, TypeOK, Settings
    <3>2. QED
      BY <1>3, <2>1, <3>1 DEF OpenCache, OpenLogs, Acquire
  <2>2. CASE PrepareLogs(i) \/ EnsureCache(i) \/ EnsureLogs(i) \/ RecoverCache(i) \/ RecoverLogs(i)
    BY <1>4, <1>5, <2>2 DEF PrepareLogs, EnsureCache, EnsureLogs, RecoverCache, RecoverLogs,
         treeVars, Kinds
  <2>3. CASE StartTrace(i) \/ StartGateway(i)
    BY <1>5, <2>3 DEF StartTrace, StartGateway, Kinds
  <2>4. ASSUME NEW k \in Kinds, NEW p \in Paths, NEW migrate \in BOOLEAN,
               ChangeDirectory(i, k, p, migrate)
        PROVE  at' = at \/ \E q \in Paths : at' = [at EXCEPT ![q] = Place(q)]
    <3>1. UNCHANGED treeVars \/ OpenTree(p)
      BY <2>4 DEF ChangeDirectory
    <3>2. QED
      BY <1>3, <3>1 DEF treeVars
  <2>5. CASE Open(i) \/ Request(i) \/ SaveStart(i) \/ SaveSettings(i) \/ RequestStop(i) \/ Halt(i)
             \/ Exit(i) \/ Crash(i) \/ StageCopy(i) \/ PublishCopy(i) \/ CommitChange(i)
             \/ UndoCopy(i) \/ RequestClear(i) \/ ClearFile(i)
             \/ \E f \in Names : StoreEntry(i, f)
    BY <2>5 DEF Open, Request, SaveStart, SaveSettings, RequestStop, Halt, Exit, Crash, Gone,
         StageCopy, PublishCopy, CommitChange, UndoCopy, RequestClear, ClearFile, StoreEntry,
         treeVars
  <2>6. QED
    BY <2>1, <2>2, <2>3, <2>4, <2>5 DEF Process, Start, Stop, Change
<1>7. QED
  BY <1>2, <1>6

\* What is opened is what is at the path.
LEMMA OpenedLands ==
  ASSUME IInv, NEW p \in Paths, NEW mine, OpenTree(p), Held(Opened(p, mine))
  PROVE  at'[p] = Opened(p, mine).inode
<1>1. Place(p) # NoInode /\ Opened(p, mine).inode = Place(p)
  BY BrokenType DEF Opened
<1>2. QED
  BY <1>1 DEF OpenTree, IInv, TypeOK

LEMMA AcquireLands ==
  ASSUME IInv, NEW s \in Slots, NEW p \in Paths, Acquire(s, p)
  PROVE  /\ Lands(s)
         /\ \A t \in Slots : t # s => dir'[t] = dir[t]
<1>1. dir'[s] = Opened(p, {s}) /\ \A t \in Slots : t # s => dir'[t] = dir[t]
  BY DEF Acquire, IInv, TypeOK
<1>2. Opened(p, {s}).path = p
  BY OpenedResult DEF IInv
<1>3. QED
  BY <1>1, <1>2, OpenedLands DEF Acquire, Lands

LEMMA HandlesLand ==
  ASSUME IInv, NEW s \in Slots, Ensure(s) \/ Recover(s)
  PROVE  /\ Stays(s) \/ Lands(s)
         /\ Ensure(s) /\ Held(dir[s]) => dir'[s].inode = dir[s].inode
         /\ \A t \in Slots : t # s => dir'[t] = dir[t]
<1>1. dir \in [Slots -> Handle] /\ dir[s].path \in Paths
  BY DEF IInv, TypeOK, Handle
<1>2. CASE Acquire(s, dir[s].path) /\ ~(Ensure(s) /\ Held(dir[s]))
  BY <1>1, <1>2, AcquireLands
<1>3. CASE dir' = dir
  BY <1>3 DEF Stays
<1>4. CASE dir' = [dir EXCEPT ![s] = Flagged(dir[s], ~Check(dir[s]))]
  <2>1. dir'[s] = Flagged(dir[s], ~Check(dir[s])) /\ \A t \in Slots : t # s => dir'[t] = dir[t]
    BY <1>1, <1>4
  <2>2. dir'[s].inode = dir[s].inode /\ dir'[s].path = dir[s].path
    BY <2>1 DEF Flagged
  <2>3. QED
    BY <2>1, <2>2 DEF Stays, Held
<1>5. QED
  BY <1>1, <1>2, <1>3, <1>4 DEF Ensure, Recover

\* A process is starting because it was, or because its directory was just ensured.
LEMMA StartingSteps ==
  ASSUME IInv, NEW i \in Instances, Process(i) \/ Crash(i), Starting(i)'
  PROVE  \/ Starting(i) /\ dir'[<<i, "cache">>] = dir[<<i, "cache">>]
         \/ EnsureCache(i) /\ EnsureOK(<<i, "cache">>)
<1>1. /\ <<i, "cache">> \in Slots /\ <<i, "logs">> \in Slots
      /\ <<i, "cache">> # <<i, "logs">>
  BY SlotsAre DEF Kinds
<1>2. \A op \in Ops, s \in Stages : Begin(i, op, s) => cmd'[i].stage = s
  BY BeginStep DEF IInv
<1>3. \A s \in Stages : Goto(i, s) => cmd'[i].stage = s /\ cmd'[i].op = cmd[i].op
  BY GotoStep DEF IInv
<1>4. Return(i) => cmd'[i].stage = "idle"
  BY ReturnStep DEF IInv
<1>5. /\ cmd'[i].stage \in {"trace", "serve", "ensureLogs"}
      /\ cmd'[i].stage = "ensureLogs" => cmd'[i].op = "start"
  BY DEF Starting
<1> USE DEF Ops, Stages
<1>6. CASE PrepareLogs(i)
  <2>1. cmd[i].op \in Preparing
    BY <1>6 DEF PrepareLogs, InStage, IInv, PInv, StartOwns
  <2>2. Return(i) \/ Goto(i, "ensureCache") \/ (Goto(i, "ensureLogs") /\ cmd[i].op = "export")
    BY <1>6, <2>1 DEF PrepareLogs, AfterPrepare, Preparing
  <2>3. QED
    BY <1>3, <1>4, <1>5, <2>2
<1>7. CASE EnsureCache(i)
  <2>1. CASE EnsureOK(<<i, "cache">>)
    BY <1>7, <2>1
  <2>2. CASE ~EnsureOK(<<i, "cache">>)
    <3>1. Return(i) \/ (cmd[i].op = "status" /\ Goto(i, "ensureLogs"))
      BY <1>7, <2>2 DEF EnsureCache
    <3>2. QED
      BY <1>3, <1>4, <1>5, <3>1
  <2>3. QED
    BY <2>1, <2>2
<1>8. CASE EnsureLogs(i)
  <2>1. Return(i) \/ (cmd[i].op = "start" /\ Goto(i, "trace"))
    BY <1>8 DEF EnsureLogs
  <2>2. cmd[i].op = "start" /\ cmd[i].stage = "ensureLogs"
    BY <1>4, <1>5, <1>8, <2>1 DEF EnsureLogs, InStage
  <2>3. dir'[<<i, "cache">>] = dir[<<i, "cache">>]
    BY <1>1, <1>8, HandlesLand DEF EnsureLogs
  <2>4. QED
    BY <2>2, <2>3 DEF Starting
<1>9. CASE StartTrace(i)
  BY <1>9 DEF StartTrace, Starting, InStage
<1>10. CASE Change(i)
  <2>1. CASE StageCopy(i) \/ CommitChange(i)
    BY <1>3, <1>4, <1>5, <2>1 DEF StageCopy, CommitChange
  <2>2. CASE PublishCopy(i) \/ UndoCopy(i)
    BY <1>3, <1>4, <1>5, <2>2 DEF PublishCopy, UndoCopy, Job, IInv, TypeOK
  <2>3. ASSUME NEW k \in Kinds, NEW p \in Paths, NEW migrate \in BOOLEAN,
               ChangeDirectory(i, k, p, migrate)
        PROVE  FALSE
    <3>1. Return(i) \/ cmd'[i].stage \in {"copy", "undo"}
      BY <2>3 DEF ChangeDirectory, IInv, TypeOK
    <3>2. QED
      BY <1>4, <1>5, <3>1
  <2>4. QED
    BY <1>10, <2>1, <2>2, <2>3 DEF Change
<1>11. CASE SaveSettings(i) \/ ClearFile(i)
  BY <1>4, <1>5, <1>11 DEF SaveSettings, ClearFile, InStage
<1>12. ASSUME NEW f \in Names, StoreEntry(i, f)
       PROVE  Starting(i) /\ dir' = dir
  BY <1>5, <1>12 DEF StoreEntry, Starting
<1>13. CASE Open(i) \/ OpenCache(i) \/ OpenLogs(i) \/ Request(i) \/ StartGateway(i)
            \/ SaveStart(i) \/ RequestClear(i) \/ Crash(i)
  BY <1>2, <1>3, <1>4, <1>5, <1>13 DEF Open, OpenCache, OpenLogs, Request, StartGateway,
       SaveStart, RequestClear, Crash, Gone
<1>14. CASE Stop(i)
  BY <1>2, <1>3, <1>4, <1>5, <1>14 DEF Stop, RequestStop, Halt, RecoverCache, RecoverLogs,
       Exit, Gone
<1>15. QED
  BY <1>6, <1>7, <1>8, <1>9, <1>10, <1>11, <1>12, <1>13, <1>14 DEF Process, Start

\* A directory that was ensured is at its path.
LEMMA EnsuredIsThere ==
  ASSUME IInv, NEW s \in Slots, Ensure(s), EnsureOK(s)
  PROVE  Held(dir'[s]) /\ at'[dir'[s].path] = dir'[s].inode
<1>1. Held(dir'[s]) /\ dir'[s].path = dir[s].path
  BY EnsureStep DEF IInv
<1>2. CASE Held(dir[s])
  <2>1. at[dir[s].path] = dir[s].inode /\ at' = at
    BY <1>2 DEF EnsureOK, Ensure, Check, treeVars
  <2>2. QED
    BY <1>1, <1>2, <2>1, HandlesLand
<1>3. CASE ~Held(dir[s])
  BY <1>1, <1>3, HandlesLand DEF Stays, Lands
<1>4. QED
  BY <1>2, <1>3

\* While the gateway runs, the directory of its cache is not exchanged.
LEMMA RunningStays ==
  ASSUME IInv, NEW i \in Instances, Process(i), session[i].running, session'[i].running
  PROVE  dir'[<<i, "cache">>].inode = dir[<<i, "cache">>].inode
<1>1. /\ cmd[i].stage \notin Resting /\ Held(dir[<<i, "cache">>])
      /\ <<i, "cache">> \in Slots /\ <<i, "logs">> \in Slots /\ <<i, "next">> \in Slots
  BY SlotsAre DEF IInv, PInv, StartOwns, Kinds
<1>2. CASE PrepareLogs(i) \/ EnsureCache(i) \/ EnsureLogs(i)
  BY <1>1, <1>2, HandlesLand DEF PrepareLogs, EnsureCache, EnsureLogs
<1>3. CASE Change(i)
  <2>1. ~StageCopy(i) /\ ~PublishCopy(i) /\ ~CommitChange(i) /\ ~UndoCopy(i)
    BY <1>1 DEF StageCopy, PublishCopy, CommitChange, UndoCopy, InStage, Resting
  <2>2. QED
    BY <1>3, <2>1 DEF Change, ChangeDirectory
<1>4. ~OpenCache(i) /\ ~OpenLogs(i) /\ ~RecoverCache(i) /\ ~RecoverLogs(i) /\ ~Exit(i)
  BY <1>1 DEF OpenCache, OpenLogs, RecoverCache, RecoverLogs, Exit, InStage, Resting
<1>5. CASE Open(i) \/ Request(i) \/ Start(i) \/ SaveSettings(i) \/ RequestStop(i) \/ Halt(i)
           \/ RequestClear(i) \/ ClearFile(i) \/ \E f \in Names : StoreEntry(i, f)
  BY <1>5 DEF Open, Request, Start, StartTrace, StartGateway, SaveStart, SaveSettings,
       RequestStop, Halt, RequestClear, ClearFile, StoreEntry
<1>6. QED
  BY <1>2, <1>3, <1>4, <1>5 DEF Process, Stop

\* Only a start, a stop and the end of a process touch its session.
LEMMA SessionUntouched ==
  ASSUME NEW i \in Instances,
         \/ Open(i) \/ OpenCache(i) \/ OpenLogs(i) \/ PrepareLogs(i) \/ Request(i) \/ EnsureCache(i)
         \/ EnsureLogs(i) \/ SaveStart(i) \/ SaveSettings(i) \/ RequestStop(i)
         \/ RecoverCache(i) \/ RecoverLogs(i) \/ Change(i) \/ RequestClear(i) \/ ClearFile(i)
         \/ \E f \in Names : StoreEntry(i, f)
  PROVE  session' = session
<1>1. CASE Change(i)
  <2>1. ASSUME NEW k \in Kinds, NEW p \in Paths, NEW migrate \in BOOLEAN,
               ChangeDirectory(i, k, p, migrate)
        PROVE  session' = session
    BY <2>1 DEF ChangeDirectory
  <2>2. CASE StageCopy(i) \/ PublishCopy(i) \/ CommitChange(i) \/ UndoCopy(i)
    BY <2>2 DEF StageCopy, PublishCopy, CommitChange, UndoCopy
  <2>3. QED
    BY <1>1, <2>1, <2>2 DEF Change
<1>2. CASE Open(i) \/ OpenCache(i) \/ OpenLogs(i) \/ PrepareLogs(i) \/ Request(i)
  BY <1>2 DEF Open, OpenCache, OpenLogs, PrepareLogs, Request
<1>3. CASE EnsureCache(i) \/ EnsureLogs(i) \/ SaveStart(i) \/ SaveSettings(i) \/ RequestStop(i)
           \/ RecoverCache(i) \/ RecoverLogs(i)
  BY <1>3 DEF EnsureCache, EnsureLogs, SaveStart, SaveSettings, RequestStop, RecoverCache,
       RecoverLogs
<1>4. CASE RequestClear(i) \/ ClearFile(i) \/ \E f \in Names : StoreEntry(i, f)
  BY <1>4 DEF RequestClear, ClearFile, StoreEntry
<1>5. QED
  BY <1>1, <1>2, <1>3, <1>4

\* A session begins in the directory that its service holds, and is not moved.
LEMMA SessionSteps ==
  ASSUME IInv, NEW i \in Instances, Ready(i), Process(i) \/ Crash(i),
         session'[i].running
  PROVE  \/ session[i].running /\ session'[i].cache = session[i].cache /\ Process(i)
         \/ dir' = dir /\ session'[i].cache = dir[<<i, "cache">>].inode
<1>1. session \in [Instances -> Session] /\ <<i, "cache">> \in Slots
  BY SlotsAre DEF IInv, TypeOK, Kinds
<1>2. CASE StartTrace(i)
  BY <1>1, <1>2 DEF StartTrace, Process, Start
<1>3. CASE StartGateway(i)
  <2> DEFINE p == dir[<<i, "cache">>].path
  <2>1. Held(dir[<<i, "cache">>]) /\ p \in Paths
    BY <1>1, <1>3 DEF StartGateway, InStage, IInv, PInv, StartOwns, TypeOK, Handle
  <2>2. Place(p) = dir[<<i, "cache">>].inode
    BY <1>3, <2>1, PlaceThere DEF Ready, Starting, CachePath, StartGateway, InStage, Held
  <2>3. session'[i].cache = Place(p) /\ dir' = dir
    BY <1>1, <1>3 DEF StartGateway, Stopped
  <2>4. QED
    BY <2>2, <2>3
<1>4. CASE Halt(i) \/ Exit(i) \/ Crash(i)
  BY <1>1, <1>4 DEF Halt, Exit, Crash, Gone, Stopped
<1>5. CASE Open(i) \/ OpenCache(i) \/ OpenLogs(i) \/ PrepareLogs(i) \/ Request(i) \/ EnsureCache(i)
           \/ EnsureLogs(i) \/ SaveStart(i) \/ SaveSettings(i) \/ RequestStop(i)
           \/ RecoverCache(i) \/ RecoverLogs(i) \/ Change(i) \/ RequestClear(i) \/ ClearFile(i)
           \/ \E f \in Names : StoreEntry(i, f)
  <2>1. session' = session
    BY <1>5, SessionUntouched
  <2>2. Process(i)
    BY <1>5 DEF Process, Start, Stop
  <2>3. QED
    BY <2>1, <2>2
<1>6. QED
  BY <1>2, <1>3, <1>4, <1>5 DEF Process, Start, Stop

\* Others' sessions are left alone.
LEMMA SessionsOwn ==
  ASSUME IInv, NEW i \in Instances, Process(i) \/ Crash(i), NEW j \in Instances, j # i
  PROVE  session'[j] = session[j]
<1>1. session \in [Instances -> Session]
  BY DEF IInv, TypeOK
<1>2. CASE StartTrace(i) \/ StartGateway(i) \/ Halt(i) \/ Exit(i) \/ Crash(i)
  BY <1>1, <1>2 DEF StartTrace, StartGateway, Halt, Exit, Crash, Gone
<1>3. CASE Open(i) \/ OpenCache(i) \/ OpenLogs(i) \/ PrepareLogs(i) \/ Request(i) \/ EnsureCache(i)
           \/ EnsureLogs(i) \/ SaveStart(i) \/ SaveSettings(i) \/ RequestStop(i)
           \/ RecoverCache(i) \/ RecoverLogs(i) \/ Change(i) \/ RequestClear(i) \/ ClearFile(i)
           \/ \E f \in Names : StoreEntry(i, f)
  BY <1>3, SessionUntouched
<1>4. QED
  BY <1>2, <1>3 DEF Process, Start, Stop

LEMMA StepUndisputed ==
  ASSUME IInv, Undisputed, [Next]_vars,
         [\A i \in Instances : Starting(i) /\ Outside => at'[CachePath(i)] = at[CachePath(i)]]_vars
  PROVE  Undisputed'
<1>1. CASE UNCHANGED vars
  BY <1>1 DEF vars, Undisputed, Ready, Starting, CachePath, AtHome, Held
<1>2. CASE Outside /\ ~UNCHANGED vars
  <2>1. dir' = dir /\ session' = session /\ cmd' = cmd
    BY <1>2 DEF Outside, ReplaceLock, Rename, serviceVars
  <2>2. ASSUME NEW i \in Instances, Starting(i) PROVE at'[CachePath(i)] = at[CachePath(i)]
    BY <1>2, <2>2
  <2>3. QED
    BY <2>1, <2>2 DEF Undisputed, Ready, Starting, CachePath, AtHome, Held
<1>3. ASSUME NEW i \in Instances, Process(i) \/ Crash(i) PROVE Undisputed'
  <2>1. \A j \in Instances : CachePath(j) \in Paths
    BY SlotsAre DEF CachePath, IInv, TypeOK, Handle, Kinds
  <2>2. ASSUME NEW j \in Instances, j # i PROVE Ready(j)' /\ AtHome(j)'
    <3>1. /\ session'[j] = session[j] /\ cmd'[j] = cmd[j]
          /\ dir'[<<j, "cache">>] = dir[<<j, "cache">>]
      BY <1>3, <2>2, SessionsOwn, OwnOnly DEF AllKinds, Kinds
    <3>2. at[CachePath(j)] # NoInode => at'[CachePath(j)] = at[CachePath(j)]
      BY <1>3, <2>1, TreeGrows
    <3>3. QED
      BY <3>1, <3>2 DEF Undisputed, Ready, Starting, CachePath, AtHome, Held
  <2>3. Ready(i)'
    <3> SUFFICES ASSUME Starting(i)'
                 PROVE  /\ Held(dir'[<<i, "cache">>])
                        /\ at'[dir'[<<i, "cache">>].path] = dir'[<<i, "cache">>].inode
      BY DEF Ready, CachePath, Held
    <3>1. CASE Starting(i) /\ dir'[<<i, "cache">>] = dir[<<i, "cache">>]
      <4>1. Held(dir[<<i, "cache">>]) /\ at[CachePath(i)] = dir[<<i, "cache">>].inode
        BY <3>1 DEF Undisputed, Ready
      <4>2. at'[CachePath(i)] = at[CachePath(i)]
        BY <1>3, <2>1, <4>1, TreeGrows DEF Held
      <4>3. QED
        BY <3>1, <4>1, <4>2 DEF CachePath, Held
    <3>2. CASE EnsureCache(i) /\ EnsureOK(<<i, "cache">>)
      BY <3>2, EnsuredIsThere, SlotsAre DEF EnsureCache, Kinds
    <3>3. QED
      BY <1>3, <3>1, <3>2, StartingSteps
  <2>4. AtHome(i)'
    <3> SUFFICES ASSUME session'[i].running
                 PROVE  session'[i].cache = dir'[<<i, "cache">>].inode
      BY DEF AtHome
    <3>1. CASE session[i].running /\ session'[i].cache = session[i].cache /\ Process(i)
      BY <3>1, RunningStays DEF Undisputed, AtHome
    <3>2. CASE dir' = dir /\ session'[i].cache = dir[<<i, "cache">>].inode
      BY <3>2
    <3>3. QED
      BY <1>3, <3>1, <3>2, SessionSteps DEF Undisputed
  <2>5. QED
    BY <2>2, <2>3, <2>4 DEF Undisputed
<1>4. QED
  BY <1>1, <1>2, <1>3 DEF Next

LEMMA UndisputedApart == IInv /\ Undisputed => SessionsApart
<1> SUFFICES ASSUME IInv, Undisputed, NEW i \in Instances, NEW j \in Instances,
                    NEW k \in AllKinds, i # j, session[j].running, Held(dir[<<i, k>>])
             PROVE  session[j].cache # dir[<<i, k>>].inode
  BY DEF SessionsApart, AllKinds
<1>1. session[j].cache = dir[<<j, "cache">>].inode
  BY DEF Undisputed, AtHome
<1>2. <<i, k>> \in Slots /\ <<j, "cache">> \in Slots /\ <<i, k>> # <<j, "cache">>
  BY SlotsAre DEF AllKinds, Kinds
<1>3. QED
  BY <1>1, <1>2 DEF IInv, OneOwner

\* Safety: unless somebody outside moves the cache directory of a process between
\* the check and the opening by path of its start, a running cache works in no
\* directory that another process holds (service.rs:325 ensure, 350 open).
THEOREM ApartUndisturbed == Spec /\ StartsUndisturbed => []SessionsApart
<1>1. Init => Undisputed
  BY DEF Init, Stopped, Quiet, Undisputed, Ready, Starting, AtHome
<1>2. IInv /\ Undisputed /\ [Next]_vars
      /\ [\A i \in Instances : Starting(i) /\ Outside => at'[CachePath(i)] = at[CachePath(i)]]_vars
      => Undisputed'
  BY StepUndisputed
<1>3. QED
  BY <1>1, <1>2, UndisputedApart, Inductive, PTL DEF Spec, StartsUndisturbed

\* Safety: then a directory that a cache moves into is its process's alone, as
\* the comments of service.rs:21 and directory.rs:95 have it.
THEOREM MigrationAloneUndisturbed == Spec /\ StartsUndisturbed => []MigrationIsAlone
<1>1. IInv /\ SessionsApart => MigrationIsAlone
  <2> SUFFICES ASSUME IInv, SessionsApart, NEW i \in Instances, NEW j \in Instances,
                      i # j, Migrating(i), session[j].running
               PROVE  session[j].cache # Target(i).inode
    BY DEF MigrationIsAlone
  <2>1. Held(Target(i)) /\ cmd[i].kind \in Kinds
    BY TargetType DEF Migrating, Moving
  <2>2. QED
    BY <2>1 DEF SessionsApart, Target, TargetSlot
<1>2. QED
  BY <1>1, ApartUndisturbed, Inductive, PTL

\* Safety: then the books of a migration are true and a commit is complete, with
\* no condition on what the processes do.
THEOREM MigrationUndisturbed ==
  Spec /\ StartsUndisturbed => []MigrationAccounted /\ CommitIsComplete
BY ApartUndisturbed, MigrationAccountedAlways, CommitIsCompleteAlways, PTL
=============================================================================
