------------------------------- MODULE Service -------------------------------
(***************************************************************************)
(* The service behind the user interface: `Service' of core/src/service.rs *)
(* inside `Service' of app/native/src/application/mod.rs, on top of the    *)
(* directories that module Directory describes.                            *)
(*                                                                         *)
(* A process runs one command at a time (the bridge holds a mutex), and    *)
(* cmd[i] is where its command stands.  Between two stages of a command    *)
(* other processes run, somebody outside replaces directories or lock      *)
(* files, and the process may be killed.  File contents and the fields of  *)
(* the settings that play no part here are abstracted away: a cache file   *)
(* is a name, and the settings are the two paths and the keepLogs switch.  *)
(***************************************************************************)
EXTENDS Directory

CONSTANTS Targets,      \* [{"cache", "logs"} -> SUBSET Paths]: user's choices
          FirstSettings,\* [Instances -> settings record] on first start
          FirstAt,      \* [Paths -> Inodes \cup {NoInode}]: tree at first start
          FirstFiles,   \* SUBSET [Inodes -> SUBSET Names]: files there by then
          Asks,         \* [Instances -> SUBSET Ops]: commands its user gives
          Keeps,        \* SUBSET BOOLEAN: values its user gives keepLogs
          Shaken,       \* SUBSET Paths: where somebody outside interferes
          MaxOutside    \* bound: interferences from outside

VARIABLES disk,      \* [Instances -> Settings]: settings.json
          settings,  \* [Instances -> Settings]: the settings in memory
          pending,   \* [Instances -> BOOLEAN]: logs_cleanup_pending
          session,   \* [Instances -> Session]: what a running gateway uses
          cmd,       \* [Instances -> Command]: where the command stands
          outside    \* 0..MaxOutside: interferences so far

vars == <<at, lockFile, dir, gfc, marker, staging, logs, disk, settings,
          pending, session, cmd, outside>>

Kinds == {"cache", "logs"}
Settings == [cache: Paths, logs: Paths, keep: BOOLEAN]

ASSUME ServiceAssumption ==
    /\ FirstSettings \in [Instances -> Settings]
    /\ FirstAt \in [Paths -> Inodes \cup {NoInode}]
    /\ FirstFiles \subseteq [Inodes -> SUBSET Names]
    /\ Keeps \subseteq BOOLEAN
    /\ MaxOutside \in Nat

PathOf(x, k) == IF k = "cache" THEN x.cache ELSE x.logs
With(x, k, p) == [cache |-> IF k = "cache" THEN p ELSE x.cache,
                  logs  |-> IF k = "logs" THEN p ELSE x.logs,
                  keep  |-> x.keep]

\* No Directory value: the path is of no meaning then.
Nothing(i) == Broken(FirstSettings[i].cache)

\* gateway, cache and trace are set and taken together: `running'; the directory
\* and lock file that the cache identified, and where the trace file was made.
Session == [running: BOOLEAN, cache: Inodes \cup {NoInode},
            lock: 0..MaxLock, log: Inodes \cup {NoInode}]
Stopped == [running |-> FALSE, cache |-> NoInode, lock |-> 0,
            log |-> NoInode]

Stages == {"off", "openCache", "openLogs", "idle", "prepare", "ensureCache",
           "ensureLogs", "trace", "serve", "save", "halt", "recoverCache",
           "recoverLogs", "exit", "copy", "publish", "undo", "clear"}
Ops == {"open", "init", "status", "start", "export", "stop", "close",
        "directory", "clear", "settings"}
\* The command's stage; for a change of directory its kind and path, whether
\* it migrates, whether the replacement slot is in use, the names still to
\* copy, those copied, and the target's files when the command began.
Command == [op: Ops, stage: Stages, kind: Kinds, path: Paths,
            migrate: BOOLEAN, moved: BOOLEAN, todo: SUBSET Names,
            copied: SUBSET Names, before: SUBSET Names]

Job(c, s, todo, copied) ==
    [op |-> c.op, stage |-> s, kind |-> c.kind, path |-> c.path,
     migrate |-> c.migrate, moved |-> c.moved, todo |-> todo,
     copied |-> copied, before |-> c.before]
Quiet(i, op, s) ==
    [op |-> op, stage |-> s, kind |-> "cache", path |-> FirstSettings[i].cache,
     migrate |-> FALSE, moved |-> FALSE, todo |-> {}, copied |-> {},
     before |-> {}]

InStage(i, s) == cmd[i].stage = s
Goto(i, s) == cmd' = [cmd EXCEPT ![i] = Job(@, s, @.todo, @.copied)]
Begin(i, op, s) == cmd' = [cmd EXCEPT ![i] = Quiet(i, op, s)]
Return(i) == Begin(i, "init", "idle")

Init ==
    /\ at = FirstAt
    /\ lockFile = [n \in Inodes |-> 0]
    /\ dir = [s \in Slots |-> Nothing(s[1])]
    /\ gfc \in FirstFiles
    /\ marker = {} /\ staging = {}
    /\ logs = [n \in Inodes |-> {}]
    /\ disk = FirstSettings /\ settings = FirstSettings
    /\ pending = [i \in Instances |-> TRUE]
    /\ session = [i \in Instances |-> Stopped]
    /\ cmd = [i \in Instances |-> Quiet(i, "close", "off")]
    /\ outside = 0

-----------------------------------------------------------------------------
\* Opening the process: read the settings, own the two directories, clean up.

Open(i) ==
    /\ InStage(i, "off")
    /\ settings' = [settings EXCEPT ![i] = disk[i]]
    /\ Begin(i, "open", "openCache")
    /\ UNCHANGED <<treeVars, dir, fileVars, disk, pending, session>>

OpenCache(i) ==
    /\ InStage(i, "openCache")
    /\ Acquire(<<i, "cache">>, settings[i].cache)
    /\ Goto(i, "openLogs")
    /\ UNCHANGED <<fileVars, disk, settings, pending, session>>

OpenLogs(i) ==
    /\ InStage(i, "openLogs")
    /\ Acquire(<<i, "logs">>, settings[i].logs)
    /\ Goto(i, "prepare")
    /\ UNCHANGED <<fileVars, disk, settings, pending, session>>

\* clean_logs removes the *.jsonl files unless they are kept, and may fail
\* after some of them.
CleanLogs(i, n) ==
    \/ /\ settings[i].keep
       /\ pending' = [pending EXCEPT ![i] = FALSE]
       /\ UNCHANGED logs
    \/ /\ ~settings[i].keep
       /\ \E rest \in SUBSET logs[n], failed \in BOOLEAN :
            /\ rest # {} => failed
            /\ logs' = [logs EXCEPT ![n] = rest]
            /\ pending' = [pending EXCEPT ![i] = failed]

\* Where a command goes when prepare_logs has returned.
AfterPrepare(i, waiting) ==
    CASE cmd[i].op \in {"open", "init"} -> Return(i)
      [] cmd[i].op = "status" -> Goto(i, "ensureCache")
      [] cmd[i].op = "start" -> IF waiting \/ session[i].running
                                THEN Return(i) ELSE Goto(i, "ensureCache")
      [] cmd[i].op = "export" -> IF waiting \/ session[i].running
                                 THEN Return(i) ELSE Goto(i, "ensureLogs")

\* prepare_logs: the deferred clean-up is tried again while it is pending.
PrepareLogs(i) ==
    LET s == <<i, "logs">> IN
    /\ InStage(i, "prepare")
    /\ IF ~pending[i]
       THEN UNCHANGED <<treeVars, dir, logs, pending>>
       ELSE /\ Ensure(s)
            /\ IF EnsureOK(s) THEN CleanLogs(i, dir'[s].inode)
               ELSE UNCHANGED <<logs, pending>>
    /\ AfterPrepare(i, pending'[i])
    /\ UNCHANGED <<gfc, marker, staging, disk, settings, session>>

\* Commands that begin with prepare_logs.  (`init' changes nothing after it, and
\* `export' copies the log files once the logs directory is ensured.)
Request(i) ==
    /\ InStage(i, "idle")
    /\ \E op \in {"init", "status", "start", "export"} \cap Asks[i] :
         Begin(i, op, "prepare")
    /\ UNCHANGED <<treeVars, dir, fileVars, disk, settings, pending, session>>

EnsureCache(i) ==
    LET s == <<i, "cache">> IN
    /\ InStage(i, "ensureCache")
    /\ Ensure(s)
    /\ IF cmd[i].op # "status" /\ ~EnsureOK(s) THEN Return(i)
       ELSE Goto(i, IF cmd[i].op = "clear" THEN "clear" ELSE "ensureLogs")
    /\ UNCHANGED <<fileVars, disk, settings, pending, session>>

EnsureLogs(i) ==
    LET s == <<i, "logs">> IN
    /\ InStage(i, "ensureLogs")
    /\ Ensure(s)
    /\ IF cmd[i].op = "start" /\ EnsureOK(s) THEN Goto(i, "trace") ELSE Return(i)
    /\ UNCHANGED <<fileVars, disk, settings, pending, session>>

-----------------------------------------------------------------------------
\* Starting and stopping the gateway.

\* The arguments, the proxy and the CA are checked, then a log file of its own
\* is created at the path of the logs directory, which is made when missing.
StartTrace(i) ==
    LET p == dir[<<i, "logs">>].path
        n == Place(p) IN
    /\ InStage(i, "trace")
    /\ \/ /\ n # NoInode
          /\ at' = [at EXCEPT ![p] = n]
          /\ logs' = [logs EXCEPT ![n] = @ \cup {i}]
          /\ session' = [session EXCEPT ![i] = [running |-> FALSE,
                            cache |-> NoInode, lock |-> 0, log |-> n]]
          /\ Goto(i, "serve")
       \/ /\ Return(i)
          /\ UNCHANGED <<at, logs, session>>
    /\ UNCHANGED <<lockFile, dir, gfc, marker, staging, disk, settings, pending>>

\* The cache is opened by path and the gateway listens; when either fails the
\* engine and the trace are closed and nothing is left running.
StartGateway(i) ==
    LET p == dir[<<i, "cache">>].path
        n == Place(p) IN
    /\ InStage(i, "serve")
    /\ at' = [at EXCEPT ![p] = n]
    /\ \/ /\ n # NoInode
          /\ session' = [session EXCEPT ![i] = [running |-> TRUE, cache |-> n,
                            lock |-> lockFile[n], log |-> @.log]]
          /\ Goto(i, "save")
       \/ /\ session' = [session EXCEPT ![i] = Stopped]
          /\ Return(i)
    /\ UNCHANGED <<lockFile, dir, fileVars, disk, settings, pending>>

\* save: settings.json is replaced as a whole, or not at all.
Persist(i, x) ==
    /\ disk' = [disk EXCEPT ![i] = x]
    /\ settings' = [settings EXCEPT ![i] = x]

Kept(x, keep) == [cache |-> x.cache, logs |-> x.logs, keep |-> keep]

\* `start' saves its arguments last, and stops again when that fails.
SaveStart(i) ==
    /\ InStage(i, "save")
    /\ \/ /\ Persist(i, settings[i])
          /\ Return(i)
       \/ /\ Goto(i, "halt")
          /\ UNCHANGED <<disk, settings>>
    /\ UNCHANGED <<treeVars, dir, fileVars, pending, session>>

SaveSettings(i) ==
    /\ InStage(i, "idle") /\ "settings" \in Asks[i]
    /\ \E keep \in Keeps : Persist(i, Kept(settings[i], keep))
    /\ UNCHANGED <<treeVars, dir, fileVars, pending, session, cmd>>

RequestStop(i) ==
    /\ InStage(i, "idle")
    /\ \E op \in {"stop", "close"} \cap Asks[i] : Begin(i, op, "halt")
    /\ UNCHANGED <<treeVars, dir, fileVars, disk, settings, pending, session>>

\* stop: the gateway is closed, then the cache and the trace.
Halt(i) ==
    /\ InStage(i, "halt")
    /\ session' = [session EXCEPT ![i] = Stopped]
    /\ Goto(i, "recoverCache")
    /\ UNCHANGED <<treeVars, dir, fileVars, disk, settings, pending>>

RecoverCache(i) ==
    /\ InStage(i, "recoverCache")
    /\ Recover(<<i, "cache">>)
    /\ Goto(i, "recoverLogs")
    /\ UNCHANGED <<fileVars, disk, settings, pending, session>>

RecoverLogs(i) ==
    /\ InStage(i, "recoverLogs")
    /\ Recover(<<i, "logs">>)
    /\ IF cmd[i].op = "close" THEN Goto(i, "exit") ELSE Return(i)
    /\ UNCHANGED <<fileVars, disk, settings, pending, session>>

\* The process ends: its locks are released and its memory is gone.
Gone(i) ==
    /\ dir' = [s \in Slots |-> IF s[1] = i THEN Nothing(i) ELSE dir[s]]
    /\ logs' = [n \in Inodes |-> IF i \in logs[n]
                                 THEN (logs[n] \ {i}) \cup {Old} ELSE logs[n]]
    /\ session' = [session EXCEPT ![i] = Stopped]
    /\ pending' = [pending EXCEPT ![i] = TRUE]
    /\ Begin(i, "close", "off")
    /\ UNCHANGED <<treeVars, gfc, marker, staging, disk, settings>>

Exit(i) == InStage(i, "exit") /\ Gone(i)

\* The process is killed, or the machine stops, at any point of a command.
Crash(i) == ~InStage(i, "off") /\ Gone(i)

-----------------------------------------------------------------------------
\* Changing a directory, with or without taking the cache along.

\* The slot of the target: the replacement, or the directory itself when the
\* user chose the one in use; and the handle of the directory in use.
TargetSlot(i) == <<i, IF cmd[i].moved THEN "next" ELSE cmd[i].kind>>
Target(i) == dir[TargetSlot(i)]
Source(i) == dir[<<i, cmd[i].kind>>]
Release(i) == dir' = [dir EXCEPT ![<<i, "next">>] = Nothing(i)]

\* Mutant: the target is not marked before anything is copied into it.
MarkLater(n) == UNCHANGED marker
Mark(n) == marker' = marker \cup {n}

\* change_directory up to the copying: own the target as well, refuse one that
\* holds anything without our marker, mark it, and list what is to be copied.
ChangeDirectory(i, k, p, migrate) ==
    LET own  == <<i, k>>
        same == SameDirectory(own, p)
        h    == IF same THEN dir[own] ELSE Opened(p, {<<i, "next">>})
        take == migrate /\ k = "cache" /\ dir[own].path # p IN
    /\ InStage(i, "idle") /\ "directory" \in Asks[i]
    /\ ~session[i].running
    /\ p \in Targets[k]
    /\ IF same THEN UNCHANGED treeVars ELSE OpenTree(p)
    /\ IF ~Held(h) \/ (h.inode \notin marker /\ ~Empty(h.inode))
       THEN /\ Return(i)
            /\ UNCHANGED <<dir, marker>>
       ELSE \/ /\ Mark(h.inode)
               /\ dir' = IF same THEN dir ELSE [dir EXCEPT ![<<i, "next">>] = h]
               /\ cmd' = [cmd EXCEPT ![i] =
                    [op |-> "directory", kind |-> k, path |-> p,
                     stage |-> IF take /\ (dir[own].error \/ ~Check(dir[own]))
                               THEN "undo" ELSE "copy",
                     migrate |-> take, moved |-> ~same,
                     todo |-> IF take /\ Held(dir[own]) THEN gfc[dir[own].inode]
                              ELSE {},
                     copied |-> {}, before |-> gfc[h.inode]]]
            \/ \* the marker cannot be created, or only be created
               /\ h.inode \notin marker
               /\ marker' \in {marker, marker \cup {h.inode}}
               /\ Return(i)
               /\ UNCHANGED dir
    /\ UNCHANGED <<gfc, staging, logs, disk, settings, pending, session>>

\* copy_new: what an interrupted copy left is removed, a staging file is
\* created and the source is read into it.  When a step of that fails, what is
\* there is removed again, unless that fails too.
StageCopy(i) ==
    /\ InStage(i, "copy") /\ cmd[i].todo # {}
    /\ \/ /\ Check(Target(i)) /\ Check(Source(i))
          /\ staging' = staging \cup {Target(i).inode}
          /\ Goto(i, "publish")
       \/ /\ Goto(i, "undo")
          /\ \/ UNCHANGED staging
             \/ /\ Check(Target(i))
                /\ staging' \in {staging \cup {Target(i).inode},
                                staging \ {Target(i).inode}}
    /\ UNCHANGED <<treeVars, dir, gfc, marker, logs, disk, settings, pending,
                   session>>

\* Mutant: a name that is taken is written over.
PublishOver(i) ==
    LET h == Target(i) IN
    /\ InStage(i, "publish")
    /\ Check(h) /\ Check(Source(i))
    /\ \E f \in cmd[i].todo :
         /\ gfc' = [gfc EXCEPT ![h.inode] = @ \cup {f}]
         /\ cmd' = [cmd EXCEPT ![i] = Job(@, "copy", @.todo \ {f},
                                          @.copied \cup {f})]
    /\ staging' = staging \ {h.inode}
    /\ UNCHANGED <<treeVars, dir, marker, logs, disk, settings, pending, session>>

\* Mutant: a file that cannot be published is passed over.
PublishSkipping(i) ==
    LET h == Target(i) IN
    /\ InStage(i, "publish")
    /\ \E f \in cmd[i].todo :
         \E done \in SUBSET ({f} \ gfc[h.inode]) :
           /\ gfc' = [gfc EXCEPT ![h.inode] = @ \cup done]
           /\ cmd' = [cmd EXCEPT ![i] = Job(@, "copy", @.todo \ {f},
                                            @.copied \cup done)]
    /\ staging' = staging \ {h.inode}
    /\ UNCHANGED <<treeVars, dir, marker, logs, disk, settings, pending, session>>

\* copy_new: the finished copy gets its name, which must be new, after both
\* directories were checked again.  The staging name is removed in any case, but
\* nobody looks whether it was: the two names stay when that fails, as when the
\* process dies between the link and the removal.
PublishCopy(i) ==
    LET h == Target(i) IN
    /\ InStage(i, "publish")
    /\ \/ /\ Check(h) /\ Check(Source(i))
          /\ \E f \in cmd[i].todo \ gfc[h.inode] :
               /\ gfc' = [gfc EXCEPT ![h.inode] = @ \cup {f}]
               /\ cmd' = [cmd EXCEPT ![i] = Job(@, "copy", @.todo \ {f},
                                                @.copied \cup {f})]
       \/ /\ Goto(i, "undo")
          /\ UNCHANGED gfc
    /\ \/ UNCHANGED staging
       \/ Check(h) /\ staging' = staging \ {h.inode}
    /\ UNCHANGED <<treeVars, dir, marker, logs, disk, settings, pending, session>>

\* Mutant: the directory is changed although its path could not be saved.
CommitUnsaved(i) ==
    /\ InStage(i, "copy") /\ cmd[i].todo = {}
    /\ Check(Target(i))
    /\ \/ Persist(i, With(settings[i], cmd[i].kind, cmd[i].path))
       \/ UNCHANGED <<disk, settings>>
    /\ dir' = IF ~cmd[i].moved THEN dir
              ELSE [dir EXCEPT ![<<i, cmd[i].kind>>] = Target(i),
                               ![<<i, "next">>] = Nothing(i)]
    /\ Return(i)
    /\ UNCHANGED <<treeVars, fileVars, pending, session>>

\* Both directories are checked a last time and the settings name the target;
\* only then is the old directory let go.
CommitChange(i) ==
    /\ InStage(i, "copy") /\ cmd[i].todo = {}
    /\ \/ /\ Check(Target(i)) /\ (cmd[i].migrate => Check(Source(i)))
          /\ Persist(i, With(settings[i], cmd[i].kind, cmd[i].path))
          /\ dir' = IF ~cmd[i].moved THEN dir
                    ELSE [dir EXCEPT ![<<i, cmd[i].kind>>] = Target(i),
                                     ![<<i, "next">>] = Nothing(i)]
          /\ Return(i)
       \/ /\ Goto(i, "undo")
          /\ UNCHANGED <<dir, disk, settings>>
    /\ UNCHANGED <<treeVars, fileVars, pending, session>>

\* The files copied so far are removed, until one cannot be.
UndoCopy(i) ==
    /\ InStage(i, "undo")
    /\ \/ /\ Check(Target(i))
          /\ \E f \in cmd[i].copied :
               /\ gfc' = [gfc EXCEPT ![Target(i).inode] = @ \ {f}]
               /\ cmd' = [cmd EXCEPT ![i] = Job(@, "undo", @.todo,
                                                @.copied \ {f})]
          /\ UNCHANGED dir
       \/ /\ Release(i)
          /\ Return(i)
          /\ UNCHANGED gfc
    /\ UNCHANGED <<treeVars, marker, staging, logs, disk, settings, pending,
                   session>>

\* clear: refused while running; each removal checks the directory again.
RequestClear(i) ==
    /\ InStage(i, "idle") /\ "clear" \in Asks[i]
    /\ ~session[i].running
    /\ Begin(i, "clear", "ensureCache")
    /\ UNCHANGED <<treeVars, dir, fileVars, disk, settings, pending, session>>

ClearFile(i) ==
    LET h == dir[<<i, "cache">>] IN
    /\ InStage(i, "clear")
    /\ \/ /\ Check(h)
          /\ \E f \in gfc[h.inode] : gfc' = [gfc EXCEPT ![h.inode] = @ \ {f}]
          /\ UNCHANGED cmd
       \/ /\ Return(i)
          /\ UNCHANGED gfc
    /\ UNCHANGED <<treeVars, dir, marker, staging, logs, disk, settings, pending,
                   session>>

\* A running cache writes an entry: it checks the identity it took at start.
StoreEntry(i, f) ==
    LET x == session[i] IN
    /\ x.running
    /\ at[dir[<<i, "cache">>].path] = x.cache
    /\ x.lock = 0 \/ lockFile[x.cache] = x.lock
    /\ f \notin gfc[x.cache]
    /\ gfc' = [gfc EXCEPT ![x.cache] = @ \cup {f}]
    /\ UNCHANGED <<treeVars, dir, marker, staging, logs, disk, settings, pending,
                   session, cmd>>

-----------------------------------------------------------------------------
serviceVars == <<disk, settings, pending, session, cmd>>

Start(i) == StartTrace(i) \/ StartGateway(i) \/ SaveStart(i)
Stop(i) == RequestStop(i) \/ Halt(i) \/ RecoverCache(i) \/ RecoverLogs(i)
           \/ Exit(i)
Change(i) ==
    \/ \E k \in Kinds, p \in Paths, migrate \in BOOLEAN :
         ChangeDirectory(i, k, p, migrate)
    \/ StageCopy(i) \/ PublishCopy(i) \/ CommitChange(i) \/ UndoCopy(i)
Process(i) ==
    \/ Open(i) \/ OpenCache(i) \/ OpenLogs(i) \/ PrepareLogs(i) \/ Request(i)
    \/ EnsureCache(i) \/ EnsureLogs(i) \/ Start(i) \/ SaveSettings(i) \/ Stop(i)
    \/ Change(i) \/ RequestClear(i) \/ ClearFile(i)
    \/ \E f \in Names : StoreEntry(i, f)
Outside ==
    /\ \E p \in Shaken : ReplaceLock(p) \/ \E n \in Inodes \cup {NoInode} : Rename(p, n)
    /\ outside < MaxOutside /\ outside' = outside + 1
    /\ UNCHANGED serviceVars

Next ==
    \/ Outside
    \/ /\ \E i \in Instances : Process(i) \/ Crash(i)
       /\ UNCHANGED outside

Spec == Init /\ [][Next]_vars

-----------------------------------------------------------------------------
TypeOK ==
    /\ at \in [Paths -> Inodes \cup {NoInode}]
    /\ lockFile \in [Inodes -> 0..MaxLock]
    /\ dir \in [Slots -> Handle]
    /\ gfc \in [Inodes -> SUBSET Names]
    /\ marker \subseteq Inodes /\ staging \subseteq Inodes
    /\ logs \in [Inodes -> SUBSET (Instances \cup {Old})]
    /\ disk \in [Instances -> Settings] /\ settings \in [Instances -> Settings]
    /\ pending \in [Instances -> BOOLEAN]
    /\ session \in [Instances -> Session]
    /\ cmd \in [Instances -> Command]
    /\ outside \in 0..MaxOutside

\* Safety: a running gateway never gives its locks up.  Even when its directory
\* or lock file is replaced under it, `status' only reports that; the locks go
\* when it stops (service.rs:39 ensure against service.rs:88 recover_changed).
\* (With the types.)
RunningOwns ==
    /\ TypeOK
    /\ \A i \in Instances, k \in Kinds :
         session[i].running => Held(dir[<<i, k>>])

\* Safety: between two commands the paths in memory, those in settings.json and
\* the directories owned agree, and no replacement is held back, however the
\* last change of directory ended (service.rs:174, application/mod.rs:231).
SettingsAgree ==
    \A i \in Instances : InStage(i, "idle") =>
        /\ settings[i] = disk[i]
        /\ \A k \in Kinds : dir[<<i, k>>].path = PathOf(settings[i], k)
        /\ ~Held(dir[<<i, "next">>])

Migrating(i) == cmd[i].stage \in {"copy", "publish", "undo"}

\* Safety: while a cache moves, its target holds exactly what it held before and
\* what was copied since, two disjoint sets: so the rollback can remove no file
\* that was the user's and forget none of its own (service.rs:221, 232).
MigrationAccounted ==
    \A i \in Instances : Migrating(i) =>
        /\ gfc[Target(i).inode] = cmd[i].before \cup cmd[i].copied
        /\ cmd[i].before \cap cmd[i].copied = {}

\* Safety, as the comments of the code have it: a directory that a cache moves
\* into is its process's alone, so no other process's running cache works in it
\* (service.rs:21 "migration also need exclusive ownership", directory.rs:95).
MigrationIsAlone ==
    \A i, j \in Instances : i # j /\ Migrating(i) /\ session[j].running =>
        session[j].cache # Target(i).inode

\* Action property: settings.json names the target of a migration only when
\* every file of the old cache is in it, and the old cache is still whole
\* (service.rs:203-230).
CommitIsComplete ==
    [][\A i \in Instances :
        cmd[i].migrate /\ disk'[i].cache # disk[i].cache =>
            /\ cmd[i].todo = {}
            /\ gfc[Source(i).inode] \subseteq gfc'[dir'[<<i, "cache">>].inode]]_vars

\* Safety: a half copied file is only ever left in a directory that is already
\* marked, so the next try is not refused for it (service.rs:203 before
\* directory.rs:99, "retry safely replaces it").
StagingIsMarked == staging \subseteq marker

=============================================================================
