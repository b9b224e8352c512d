----------------------------- MODULE WatchDaemon -----------------------------
(***************************************************************************)
(* mw notes watch (crates/mw/src/main.rs): watchers that poll the notes    *)
(* directory and refresh the database (NotesProjection), and the commands  *)
(* that start and stop them through a pid file.                            *)
(*                                                                         *)
(* A watcher is a process of NotesProjection; Proc are the pids the system *)
(* gives out, smallest first, each of them once.  A command works in steps *)
(* too: the pid file, and kill -0, are read in one step and acted upon in  *)
(* a later one.                                                            *)
(***************************************************************************)
EXTENDS NotesProjection

CONSTANTS
    Command,      \* invocations of mw notes watch that can overlap
    Formatting,   \* the watchers that are given --format
    ShortLived,   \* whether a file may come and go between two polls
    Alone         \* whether a foreground watcher is left alone

ASSUME ProcAssumption == Proc \subseteq Nat \ {0}
ASSUME FlagsAssumption ==
    Formatting \subseteq Proc /\ ShortLived \in BOOLEAN /\ Alone \in BOOLEAN

VARIABLES
    alive,       \* the watchers that run
    background,  \* the pids that were spawned as daemons
    spawned,     \* the pids given out so far
    ended,       \* pid -> the watchers that had ended when it started
    snap,        \* pid -> markdown_snapshot, as far as it was taken
    previous,    \* pid -> the snapshot before
    pidFile,     \* watch.pid; 0 if there is none
    cmd          \* command -> where it is, what it does and the pid it read

rowVars == <<notes, lastId, outbox, registry>>
watchVars == <<snap, previous>>
controlVars == <<alive, background, spawned, ended, pidFile, cmd>>
vars == <<userVars, dbVars, proc, watchVars, controlVars>>

NoFile == [size |-> 0, mtime |-> 0]
NoSnapshot == [p \in Path |-> NoFile]
Untaken == <<>>

Stat(p) ==
    IF disk[p].text = NoText THEN NoFile
    ELSE [size |-> Size[disk[p].text], mtime |-> disk[p].mtime]

Finished == [pc |-> "idle", kind |-> "stop", pid |-> 0]

-----------------------------------------------------------------------------
WatchInit ==
    /\ Init
    /\ alive = {}
    /\ background = {}
    /\ spawned = {}
    /\ ended = [w \in Proc |-> {}]
    /\ snap = [w \in Proc |-> NoSnapshot]
    /\ previous = [w \in Proc |-> Untaken]
    /\ pidFile = 0
    /\ cmd = [c \in Command |-> Finished]

(***************************************************************************)
(* A watcher goes to sleep; the snapshot it took is the one before the     *)
(* next.                                                                   *)
(***************************************************************************)
Sleep(w, taken) ==
    /\ proc' = [proc EXCEPT ![w].pc = "sleep"]
    /\ previous' = [previous EXCEPT ![w] = taken]
    /\ snap' = [snap EXCEPT ![w] = NoSnapshot]

(***************************************************************************)
(* A watcher ends: what it has written stays, the rest is gone.  A         *)
(* deletion it was about to queue is queued by nobody, for the note is     *)
(* gone and is not pruned again.                                           *)
(***************************************************************************)
Ends(w) ==
    /\ alive' = alive \ {w}
    /\ untold' = IF At(w, "queue") THEN untold \cup {NextFile(w)} ELSE untold
    /\ proc' = [proc EXCEPT ![w] = Idle]
    /\ previous' = [previous EXCEPT ![w] = Untaken]
    /\ snap' = [snap EXCEPT ![w] = NoSnapshot]

(***************************************************************************)
(* markdown_snapshot: the files are listed, and then each is stat'ed.      *)
(***************************************************************************)
StartSnapshot(w) ==
    proc' = [proc EXCEPT ![w].pc = "stat", ![w].files = Files]

Wake(w) ==
    /\ At(w, "sleep")
    /\ StartSnapshot(w)
    /\ UNCHANGED <<userVars, dbVars, watchVars, controlVars>>

StatNote(w) ==
    LET p == NextFile(w) IN
    /\ At(w, "stat") /\ proc[w].files # {}
    /\ disk[p].text # NoText
    /\ snap' = [snap EXCEPT ![w][p] = Stat(p)]
    /\ proc' = [proc EXCEPT ![w].files = @ \ {p}]
    /\ UNCHANGED <<userVars, dbVars, previous, controlVars>>

(***************************************************************************)
(* A listed file is gone: the scan is given up until the next poll; the    *)
(* first one ends the watcher.                                             *)
(***************************************************************************)
StatFails(w) ==
    /\ At(w, "stat") /\ proc[w].files # {}
    /\ disk[NextFile(w)].text = NoText
    /\ IF previous[w] = Untaken THEN Ends(w)
       ELSE /\ proc' = [proc EXCEPT ![w].pc = "sleep", ![w].files = {}]
            /\ snap' = [snap EXCEPT ![w] = NoSnapshot]
            /\ UNCHANGED <<alive, previous, untold>>
    /\ UNCHANGED <<userVars, rowVars, background, spawned, ended, pidFile, cmd>>

(***************************************************************************)
(* The first snapshot is only remembered.  A later one that differs from   *)
(* the one before starts a refresh, and is remembered when that has ended, *)
(* well or not.                                                            *)
(***************************************************************************)
EndSnapshot(w) ==
    /\ At(w, "stat") /\ proc[w].files = {}
    /\ IF previous[w] \in {Untaken, snap[w]}
       THEN Sleep(w, snap[w])
       ELSE BeginRefresh(w, w \in Formatting) /\ UNCHANGED watchVars
    /\ UNCHANGED <<userVars, dbVars, controlVars>>

\* slips
SnapshotAfterRefresh(w) ==
    /\ At(w, "done")
    /\ Sleep(w, [p \in Path |-> Stat(p)])
    /\ UNCHANGED <<userVars, dbVars, controlVars>>

RememberIfRefreshed(w) ==
    /\ At(w, "done")
    /\ Sleep(w, IF proc[w].ok THEN snap[w] ELSE previous[w])
    /\ UNCHANGED <<userVars, dbVars, controlVars>>

EndRefresh(w) ==
    /\ At(w, "done")
    /\ Sleep(w, snap[w])
    /\ UNCHANGED <<userVars, dbVars, controlVars>>

Refresh(w) == RefreshStep(w) /\ UNCHANGED <<watchVars, controlVars>>

WatcherStep(w) ==
    /\ w \in alive
    /\ \/ Wake(w)
       \/ StatNote(w)
       \/ StatFails(w)
       \/ EndSnapshot(w)
       \/ Refresh(w)
       \/ EndRefresh(w)

(***************************************************************************)
(* A new process gets the next pid and lists the directory.                *)
(***************************************************************************)
Launch(w) ==
    /\ w \notin spawned
    /\ \A v \in Proc \ spawned : w <= v
    /\ StartSnapshot(w)
    /\ alive' = alive \cup {w}
    /\ spawned' = spawned \cup {w}
    /\ ended' = [ended EXCEPT ![w] = spawned \ alive]

(***************************************************************************)
(* A watcher is interrupted, or the system goes down.                      *)
(***************************************************************************)
Die(w) ==
    /\ w \in alive
    /\ Ends(w)
    /\ UNCHANGED <<userVars, rowVars, background, spawned, ended, pidFile, cmd>>

-----------------------------------------------------------------------------
Goto(c, pc) == cmd' = [cmd EXCEPT ![c].pc = pc]

Exit(c) == cmd' = [cmd EXCEPT ![c] = Finished]

(***************************************************************************)
(* notes_watch_command: --stop, --restart and --fg stop the daemon first.  *)
(***************************************************************************)
Invoke(c, kind) ==
    /\ cmd[c].pc = "idle"
    /\ Alone => alive \subseteq background
    /\ cmd' = [cmd EXCEPT ![c] =
          [Finished EXCEPT !.kind = kind,
                           !.pc = IF kind = "start" THEN "start" ELSE "stop"]]
    /\ UNCHANGED <<userVars, dbVars, proc, watchVars, alive, background,
                   spawned, ended, pidFile>>

(***************************************************************************)
(* What follows once the daemon is stopped.                                *)
(***************************************************************************)
AfterStop(c) ==
    CASE cmd[c].kind = "stop" -> Exit(c)
      [] cmd[c].kind = "restart" -> Goto(c, "start")
      [] cmd[c].kind = "fg" -> Goto(c, "fg")

(***************************************************************************)
(* stop_notes_watch_daemon: read the pid, kill it if it runs, remove the   *)
(* file.  A kill that comes too late is an error, which leaves the file.   *)
(***************************************************************************)
\* slips
ReadToStopInverted(c) ==
    /\ cmd[c].pc = "stop"
    /\ IF pidFile = 0 THEN AfterStop(c)
       ELSE cmd' = [cmd EXCEPT ![c].pid = pidFile,
                        ![c].pc = IF pidFile \in alive THEN "remove" ELSE "kill"]
    /\ UNCHANGED <<userVars, dbVars, proc, watchVars, alive, background,
                   spawned, ended, pidFile>>

ReadToStop(c) ==
    /\ cmd[c].pc = "stop"
    /\ IF pidFile = 0 THEN AfterStop(c)
       ELSE cmd' = [cmd EXCEPT ![c].pid = pidFile,
                        ![c].pc = IF pidFile \in alive THEN "kill" ELSE "remove"]
    /\ UNCHANGED <<userVars, dbVars, proc, watchVars, alive, background,
                   spawned, ended, pidFile>>

Kill(c) ==
    /\ cmd[c].pc = "kill"
    /\ IF cmd[c].pid \in alive
       THEN Ends(cmd[c].pid) /\ Goto(c, "remove")
       ELSE Exit(c) /\ UNCHANGED <<alive, proc, watchVars, untold>>
    /\ UNCHANGED <<userVars, rowVars, background, spawned, ended, pidFile>>

RemovePid(c) ==
    /\ cmd[c].pc = "remove"
    /\ pidFile' = 0
    /\ AfterStop(c)
    /\ UNCHANGED <<userVars, dbVars, proc, watchVars, alive, background,
                   spawned, ended>>

(***************************************************************************)
(* --fg: the command itself becomes a watcher, and writes no pid file.     *)
(***************************************************************************)
RunForeground(c) ==
    /\ cmd[c].pc = "fg"
    /\ \E w \in Proc : Launch(w)
    /\ Exit(c)
    /\ UNCHANGED <<userVars, dbVars, watchVars, background, pidFile>>

(***************************************************************************)
(* spawn_notes_watch_daemon: give up if the pid file names a process that  *)
(* runs; otherwise remove the file, spawn a watcher and write its pid.     *)
(***************************************************************************)
\* slips
ReadToStartUnchecked(c) ==
    /\ cmd[c].pc = "start"
    /\ Goto(c, IF pidFile = 0 THEN "spawn" ELSE "clean")
    /\ UNCHANGED <<userVars, dbVars, proc, watchVars, alive, background,
                   spawned, ended, pidFile>>

ReadToStart(c) ==
    /\ cmd[c].pc = "start"
    /\ IF pidFile \in alive THEN Exit(c)
       ELSE Goto(c, IF pidFile = 0 THEN "spawn" ELSE "clean")
    /\ UNCHANGED <<userVars, dbVars, proc, watchVars, alive, background,
                   spawned, ended, pidFile>>

CleanPid(c) ==
    /\ cmd[c].pc = "clean"
    /\ pidFile' = 0
    /\ Goto(c, "spawn")
    /\ UNCHANGED <<userVars, dbVars, proc, watchVars, alive, background,
                   spawned, ended>>

Spawn(c) ==
    /\ cmd[c].pc = "spawn"
    /\ \E w \in Proc :
          /\ Launch(w)
          /\ background' = background \cup {w}
          /\ cmd' = [cmd EXCEPT ![c].pc = "write", ![c].pid = w]
    /\ UNCHANGED <<userVars, dbVars, watchVars, pidFile>>

WritePid(c) ==
    /\ cmd[c].pc = "write"
    /\ pidFile' = cmd[c].pid
    /\ Exit(c)
    /\ UNCHANGED <<userVars, dbVars, proc, watchVars, alive, background,
                   spawned, ended>>

CommandStep(c) ==
    \/ ReadToStop(c)
    \/ Kill(c)
    \/ RemovePid(c)
    \/ RunForeground(c)
    \/ ReadToStart(c)
    \/ CleanPid(c)
    \/ Spawn(c)
    \/ WritePid(c)

(***************************************************************************)
(* The user's steps.  A watcher cannot see that a file was there if it was *)
(* neither at the last snapshot nor is at the next one.                    *)
(***************************************************************************)
Knows(w, p) ==
    IF proc[w].pc \in {"stat", "sleep"}
    THEN previous[w] # Untaken /\ previous[w][p] # NoFile
    ELSE snap[w][p] # NoFile

User ==
    /\ UserStep
    /\ ShortLived \/ \A p \in Files : \/ disk'[p].text # NoText
                                      \/ \A w \in alive : Knows(w, p)
    /\ UNCHANGED <<watchVars, controlVars>>

WatchNext ==
    \/ User
    \/ \E w \in Proc : WatcherStep(w) \/ Die(w)
    \/ \E c \in Command :
          \/ \E kind \in {"start", "stop", "restart", "fg"} : Invoke(c, kind)
          \/ CommandStep(c)

WatchSpec == WatchInit /\ [][WatchNext]_vars

(***************************************************************************)
(* A watcher that runs is scheduled.                                       *)
(***************************************************************************)
FairWatchSpec == WatchSpec /\ \A w \in Proc : WF_vars(WatcherStep(w))
-----------------------------------------------------------------------------
WatchTypeOK ==
    /\ TypeOK
    /\ spawned \subseteq Proc
    /\ alive \subseteq spawned /\ background \subseteq spawned
    /\ ended \in [Proc -> SUBSET Proc]
    /\ snap \in [Proc -> [Path -> [size : Nat, mtime : 0..MaxClock]]]
    /\ \A w \in Proc : \/ previous[w] = Untaken
                       \/ previous[w] \in
                            [Path -> [size : Nat, mtime : 0..MaxClock]]
    /\ pidFile \in Proc \cup {0}
    /\ cmd \in [Command ->
          [pc : {"idle", "stop", "kill", "remove", "fg", "start", "clean",
                 "spawn", "write"},
           kind : {"start", "stop", "restart", "fg"}, pid : Proc \cup {0}]]

(***************************************************************************)
(* The watchers are up to date: every one that runs sleeps, its last       *)
(* refresh reached its end, and nothing changed since the snapshot before  *)
(* that refresh.  None was ended half-way after another had started.       *)
(***************************************************************************)
UpToDate(w) == At(w, "sleep") /\ previous[w] = [p \in Path |-> Stat(p)]

AllCaughtUp ==
    /\ alive # {}
    /\ \A w \in alive : /\ UpToDate(w) /\ proc[w].ok
                        /\ spawned \ alive = ended[w]

(***************************************************************************)
(* A watcher keeps the projection fresh: once all watchers have caught up, *)
(* the database holds exactly the notes on disk, whatever changed while    *)
(* they were working (docs/notes-watch-daemon-plan.md:7).                  *)
(***************************************************************************)
ProjectionFresh ==
    AllCaughtUp =>
        \A p \in Path : notes[p].text = disk[p].text

(***************************************************************************)
(* The registry then names the id of every note that has one for itself,   *)
(* and reports every other note as a duplicate and nothing else.           *)
(***************************************************************************)
IdOnDisk(p) == IdOf[p][disk[p].text]

SharesId(p) == \E q \in Files \ {p} : IdOnDisk(q) = IdOnDisk(p)

RegistryRight ==
    /\ {<<r.path, r.uid>> : r \in registry.entries} =
         {<<p, IdOnDisk(p)>> : p \in {f \in Files : ~SharesId(f)}}
    /\ {<<r.path, r.reason>> : r \in registry.conflicts} =
         {<<p, "DUPLICATE_ID">> : p \in {f \in Files : SharesId(f)}}

RegistryFresh == AllCaughtUp => RegistryRight

(***************************************************************************)
(* The newest row a path has in the outbox says what the database holds:   *)
(* the note, or that it was deleted.  There are three exceptions: the      *)
(* watcher is between the deletion and its row; it was ended there; the    *)
(* row was ignored, because an older row of the path says the same         *)
(* (upsert_parsed_note, delete_note_by_path).  A path is an exception      *)
(* until the next change of it that is queued.                             *)
(***************************************************************************)
Told(p) == outbox[p].newest = notes[p].text

BeingDeleted(p) ==
    notes[p].id = 0 /\ \E w \in Proc : At(w, "queue") /\ NextFile(w) = p

ProjectionQueued == \A p \in Path : Told(p) \/ BeingDeleted(p) \/ p \in untold

(***************************************************************************)
(* --stop reaches every daemon: while no command is under way, the daemon  *)
(* that runs is the one the pid file names.                                *)
(***************************************************************************)
StopReaches ==
    (\A c \in Command : cmd[c].pc = "idle") => alive \cap background \subseteq {pidFile}

(***************************************************************************)
(* There is one watcher for a notes directory at most                      *)
(* (docs/notes-watch-daemon-plan.md:50).                                   *)
(***************************************************************************)
AtMostOneWatcher == Cardinality(alive) <= 1

(***************************************************************************)
(* Every change is noticed, and its refresh comes to an end: a watcher     *)
(* that sleeps behind the disk catches up with some later state of it.     *)
(***************************************************************************)
WatcherCatchesUp == \A w \in Proc : []<>(w \notin alive \/ UpToDate(w))
=============================================================================
