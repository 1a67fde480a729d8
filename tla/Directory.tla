------------------------------ MODULE Directory ------------------------------
(***************************************************************************)
(* Exclusive ownership of the cache and logs directories: `Directory' of   *)
(* core/src/service.rs over `Identity' and `DirectoryHandle' of            *)
(* core/src/directory.rs, as they behave on Unix.                          *)
(*                                                                         *)
(* A directory value holds two locks while it lives: one on the file       *)
(* .gbf-flash-cache.lock and one on the inode of the directory itself.     *)
(* Every file operation goes through the held inode and first checks that  *)
(* the path still names that inode and that the lock file in it is still   *)
(* the one that was locked.  Somebody outside may rename a directory or    *)
(* replace a lock file at any time.                                        *)
(***************************************************************************)
EXTENDS Naturals, FiniteSets

CONSTANTS Instances,   \* processes that use this library, each with its home
          Paths,       \* directory paths
          Inodes,      \* directories that may exist, at a path or moved away
          NoInode,     \* no directory is at this path, or nothing is held
          MaxLock,     \* bound: lock files one directory sees in its life
          Names,       \* cache files (*.gfc) that may exist
          Old          \* log files of sessions of processes that have ended

ASSUME DirectoryAssumption ==
    /\ NoInode \notin Inodes
    /\ MaxLock \in Nat \ {0}
    /\ Old \notin Instances

VARIABLES at,        \* [Paths -> Inodes \cup {NoInode}]: the file system tree
          lockFile,  \* [Inodes -> 0..MaxLock]: which lock file it contains
          dir,       \* [Slots -> Handle]: the Directory values of all processes
          gfc,       \* [Inodes -> SUBSET Names]: cache files in a directory
          marker,    \* SUBSET Inodes: directories with a .gbf-flash-cache file
          staging,   \* SUBSET Inodes: directories with a migration staging file
          logs       \* [Inodes -> SUBSET (Instances \cup {Old})]: *.jsonl files

fileVars == <<gfc, marker, staging, logs>>
treeVars == <<at, lockFile>>

\* `next' is the replacement that change_directory holds until it commits.
Slots == Instances \X {"cache", "logs", "next"}

Handle == [path: Paths, inode: Inodes \cup {NoInode}, lock: 0..MaxLock,
           error: BOOLEAN]

\* Directory::recoverable of a directory that could not be opened.
Broken(p) == [path |-> p, inode |-> NoInode, lock |-> 0, error |-> TRUE]

Flagged(h, bad) ==
    [path |-> h.path, inode |-> h.inode, lock |-> h.lock, error |-> bad]

Held(h) == h.inode # NoInode

\* Identity::check: the path names the held inode and the lock file is ours.
Check(h) ==
    /\ Held(h)
    /\ at[h.path] = h.inode
    /\ lockFile[h.inode] = h.lock

-----------------------------------------------------------------------------
\* Nobody but the slots `mine' locked this lock file of directory n ...
LockFileFree(n, l, mine) ==
    \A s \in Slots \ mine : ~(dir[s].inode = n /\ dir[s].lock = l)

\* ... and nobody but `mine' locked the directory inode.
InodeFree(n, mine) == \A s \in Slots \ mine : dir[s].inode # n

\* Mutant: the lock file alone is taken for ownership.
CanOwnByName(n, l, mine) == LockFileFree(n, l, mine)

CanOwn(n, l, mine) == LockFileFree(n, l, mine) /\ InodeFree(n, mine)

\* DirectoryHandle::entries finds nothing but the lock file.
Empty(n) == gfc[n] = {} /\ logs[n] = {} /\ n \notin marker \cup staging

Unused(n) ==
    /\ \A p \in Paths : at[p] # n
    /\ lockFile[n] = 0 /\ Empty(n)

\* create_dir_all makes a directory where there is none (or cannot).
Place(p) ==
    IF at[p] # NoInode \/ ~\E n \in Inodes : Unused(n) THEN at[p]
    ELSE CHOOSE n \in Inodes : Unused(n)

\* The lock file of n as Directory::open leaves it: created when absent.
LockOf(n) == IF lockFile[n] = 0 THEN 1 ELSE lockFile[n]

\* Directory::open for a caller that lets go of the slots `mine' first.
Opened(p, mine) ==
    LET n == Place(p) IN
    IF n # NoInode /\ CanOwn(n, LockOf(n), mine)
    THEN [path |-> p, inode |-> n, lock |-> LockOf(n), error |-> FALSE]
    ELSE Broken(p)

\* What opening leaves on disk, whether or not the locks were obtained.
OpenTree(p) ==
    LET n == Place(p) IN
    IF n = NoInode THEN UNCHANGED treeVars
    ELSE /\ at' = [at EXCEPT ![p] = n]
         /\ lockFile' = [lockFile EXCEPT ![n] = LockOf(n)]

\* Directory::recoverable and the opening half of recover_changed.
Acquire(s, p) ==
    /\ OpenTree(p)
    /\ dir' = [dir EXCEPT ![s] = Opened(p, {s})]

\* Directory::ensure: the recorded error follows the check, and only a value
\* that holds no lock is opened again.
EnsureOK(s) == IF Held(dir[s]) THEN Check(dir[s])
               ELSE Held(Opened(dir[s].path, {}))

\* Mutant: ensure lets a replaced directory go, as recover_changed does.
EnsureAfresh(s) ==
    IF Check(dir[s]) THEN UNCHANGED <<treeVars, dir>>
    ELSE Acquire(s, dir[s].path)

Ensure(s) ==
    IF Held(dir[s])
    THEN /\ dir' = [dir EXCEPT ![s] = Flagged(@, ~Check(@))]
         /\ UNCHANGED treeVars
    ELSE Acquire(s, dir[s].path)

\* Directory::recover_changed: a value whose directory was replaced lets its
\* locks go and takes what is at the path now.
Recover(s) ==
    IF Held(dir[s]) /\ ~Check(dir[s])
    THEN Acquire(s, dir[s].path)
    ELSE UNCHANGED <<treeVars, dir>>

\* Directory::replacement answers None: the path is the one already owned.
SameDirectory(s, p) == Check(dir[s]) /\ dir[s].path = p

-----------------------------------------------------------------------------
\* Somebody outside moves what is at path p away, and leaves nothing, a new
\* directory, or one that was moved away before.
Rename(p, n) ==
    /\ n \in {NoInode} \cup {m \in Inodes : \A q \in Paths : at[q] # m}
    /\ at[p] # n
    /\ at' = [at EXCEPT ![p] = n]
    /\ UNCHANGED <<lockFile, dir, fileVars>>

\* Somebody outside replaces the lock file of the directory at path p.
ReplaceLock(p) ==
    /\ at[p] # NoInode
    /\ lockFile[at[p]] \in 1..(MaxLock - 1)
    /\ lockFile' = [lockFile EXCEPT ![at[p]] = @ + 1]
    /\ UNCHANGED <<at, dir, fileVars>>

-----------------------------------------------------------------------------
\* Safety: a directory has one owner.  Two Directory values, of one process or
\* of two, never hold the same directory, whatever was renamed or replaced
\* around them (service.rs:589, replacing_lock_..._cannot_transfer_ownership).
OneOwner ==
    \A s, t \in Slots :
        s # t /\ Held(dir[s]) => dir[s].inode # dir[t].inode
=============================================================================
