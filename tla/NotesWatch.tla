------------------------------ MODULE NotesWatch ------------------------------
(***************************************************************************)
(* mw notes watch beside mw notes ingest (infra/fs/watch, features/        *)
(* ingestion, features/notes/service.go), the notes they keep in the       *)
(* database and the operations they queue for hive sync.                   *)
(*                                                                         *)
(* The watcher deletes at once what an event says is gone, and reads a     *)
(* note that was written 250 ms after the last event of its path, by a     *)
(* timer that runs beside its loop.  The model trusts that a read note is  *)
(* in the database before the timer of the same path fires again, no more: *)
(* removals and ingestion come at any time.  Between two pulls of a note   *)
(* its version stays, so an operation that was queued since is a repeat.   *)
(***************************************************************************)
EXTENDS Naturals, Sequences, SequencesExt, FiniteSets

CONSTANTS
    None,
    Note, Content,
    Watched,    \* notes in folders that were there when the watcher began
    WalkOrder,  \* the notes in the order of WalkDir
    MaxChanges, \* bound: changes the user makes
    MaxPulls,   \* bound
    MaxRuns     \* bound: starts of the watcher and of ingestion

ASSUME WatchAssumption ==
    /\ Watched \subseteq Note
    /\ WalkOrder \in Seq(Note) /\ Range(WalkOrder) = Note

VARIABLES
    disk,       \* note -> what the file says, None if there is none
    watching, events, armed,
    read,       \* note -> what its timer has read and not yet written
    rows,       \* note -> content in the table notes, or None
    queued,     \* note -> operations queued since its version changed
    ingest,     \* the ingestion: [at, walk, seen, read, doomed], and as history
                \* had, the notes that had a row when it began
    changes, pulls, runs,
    missed,     \* history: notes changed behind the watcher's back
    disturbed   \* history: other steps since ingestion began

watcher == <<watching, events, armed, read>>
database == <<rows, queued>>
counts == <<changes, pulls, runs>>
vars == <<disk, watcher, database, ingest, counts, missed, disturbed>>

Idle == [at |-> "idle", walk |-> <<>>, seen |-> {}, read |-> None, doomed |-> {},
         had |-> {}]

Init ==
    /\ disk \in [Note -> Content \cup {None}]
    /\ watching = FALSE /\ events = <<>> /\ armed = {}
    /\ read = [n \in Note |-> None]
    /\ rows = [n \in Note |-> None]
    /\ queued = [n \in Note |-> {}]
    /\ ingest = Idle
    /\ changes = 0 /\ pulls = 0 /\ runs = 0
    /\ missed = Note
    /\ disturbed = FALSE

-----------------------------------------------------------------------------
(***************************************************************************)
(* The database: one transaction each, and each queues its operation,      *)
(* unless it has been queued on this version (EnqueueOutboxOperation).     *)
(***************************************************************************)
Enqueue(n, content) == queued' = [queued EXCEPT ![n] = @ \cup {content}]

\* The row with its domains, tags, links and todos
UpsertNoteRow(n, content) == rows' = [rows EXCEPT ![n] = content]

UpsertParsedNote(n, content) ==
    /\ UpsertNoteRow(n, content)
    /\ Enqueue(n, content)

\* Whether there is such a note or not
DeleteNoteByPath(n) ==
    /\ rows' = [rows EXCEPT ![n] = None]
    /\ Enqueue(n, None)

\* A session of hive sync applies what another device did.
Pull(n, content) ==
    /\ pulls < MaxPulls
    /\ pulls' = pulls + 1
    /\ rows' = [rows EXCEPT ![n] = content]
    /\ queued' = [queued EXCEPT ![n] = {}]
    /\ missed' = missed \cup {n}
    /\ disturbed' = TRUE
    /\ UNCHANGED <<disk, watcher, ingest, changes, runs>>

-----------------------------------------------------------------------------
(***************************************************************************)
(* The user.  A note is written in place or, when it is not there, made.   *)
(***************************************************************************)
Event(op, n) == IF watching /\ n \in Watched THEN <<[op |-> op, note |-> n]>> ELSE <<>>

Notice(notes) ==
    missed' = (missed \cup notes) \ (IF watching THEN notes \cap Watched ELSE {})

Change ==
    /\ changes < MaxChanges
    /\ changes' = changes + 1
    /\ disturbed' = TRUE
    /\ UNCHANGED <<watching, armed, read, database, ingest, pulls, runs>>

Write(n, content) ==
    /\ Change
    /\ disk[n] # content
    /\ disk' = [disk EXCEPT ![n] = content]
    /\ events' = events \o Event("write", n)
    /\ Notice({n})

RemoveNote(n) ==
    /\ Change
    /\ disk[n] # None
    /\ disk' = [disk EXCEPT ![n] = None]
    /\ events' = events \o Event("remove", n)
    /\ Notice({n})

Rename(n, to) ==
    /\ Change
    /\ n # to /\ disk[n] # None
    /\ disk' = [disk EXCEPT ![n] = None, ![to] = disk[n]]
    /\ events' = events \o Event("rename", n) \o Event("write", to)
    /\ Notice({n, to})

\* Editors that save by renaming: the old file goes and a new one comes.
SaveByRename(n, content) ==
    /\ Change
    /\ disk[n] # None
    /\ disk' = [disk EXCEPT ![n] = content]
    /\ events' = events \o Event("rename", n) \o Event("write", n)
    /\ Notice({n})

-----------------------------------------------------------------------------
WatchStart ==
    /\ ~watching
    /\ runs < MaxRuns
    /\ runs' = runs + 1
    /\ watching' = TRUE
    /\ UNCHANGED <<disk, events, armed, read, database, ingest, changes, pulls,
                   missed, disturbed>>

\* Timers and what they have read end with the process.
WatchStop ==
    /\ watching
    /\ watching' = FALSE
    /\ missed' = missed \cup {e.note : e \in Range(events)} \cup armed
                   \cup {n \in Note : read[n] # None}
    /\ events' = <<>> /\ armed' = {}
    /\ read' = [n \in Note |-> None]
    /\ UNCHANGED <<disk, database, ingest, counts, disturbed>>

\* handleRemove and handleRename
HandleGone ==
    /\ events # <<>>
    /\ Head(events).op \in {"remove", "rename"}
    /\ DeleteNoteByPath(Head(events).note)
    /\ events' = Tail(events)
    /\ disturbed' = TRUE
    /\ UNCHANGED <<disk, watching, armed, read, ingest, counts, missed>>

\* slips: a note that was read already is not read again
DebounceIdle ==
    /\ events # <<>>
    /\ Head(events).op = "write"
    /\ armed' = IF read[Head(events).note] = None THEN armed \cup {Head(events).note} ELSE armed
    /\ events' = Tail(events)
    /\ UNCHANGED <<disk, watching, read, database, ingest, counts, missed, disturbed>>

\* The timer of the path begins again.
Debounce ==
    /\ events # <<>>
    /\ Head(events).op = "write"
    /\ armed' = armed \cup {Head(events).note}
    /\ events' = Tail(events)
    /\ UNCHANGED <<disk, watching, read, database, ingest, counts, missed, disturbed>>

\* ingestOneFile up to ReadFile, which fails when the note is gone
Fire(n) ==
    /\ n \in armed
    /\ read[n] = None
    /\ ~(ingest.at = "upsert" /\ Head(ingest.walk) = n)
    /\ armed' = armed \ {n}
    /\ read' = [read EXCEPT ![n] = disk[n]]
    /\ disturbed' = TRUE
    /\ UNCHANGED <<disk, watching, events, database, ingest, counts, missed>>

Ingested(n) ==
    /\ read[n] # None
    /\ UpsertParsedNote(n, read[n])
    /\ read' = [read EXCEPT ![n] = None]
    /\ disturbed' = TRUE
    /\ UNCHANGED <<disk, watching, events, armed, ingest, counts, missed>>

-----------------------------------------------------------------------------
(***************************************************************************)
(* mw notes ingest: one note after the other, then what the database has   *)
(* and the walk has not seen is deleted.                                   *)
(***************************************************************************)
Ended == ingest.at \in {"idle", "done"}

IngestStart ==
    /\ Ended
    /\ runs < MaxRuns
    /\ runs' = runs + 1
    /\ ingest' = [Idle EXCEPT !.at = "walk", !.walk = WalkOrder,
                              !.had = {n \in Note : rows[n] # None}]
    /\ disturbed' = (read # [n \in Note |-> None])
    /\ UNCHANGED <<disk, watcher, database, changes, pulls, missed>>

IngestStop ==
    /\ ~Ended
    /\ ingest' = Idle
    /\ UNCHANGED <<disk, watcher, database, counts, missed, disturbed>>

IngestRead ==
    /\ ingest.at = "walk"
    /\ ingest.walk # <<>>
    /\ LET n == Head(ingest.walk)
       IN ingest' = IF disk[n] = None THEN [ingest EXCEPT !.walk = Tail(@)]
                    ELSE [ingest EXCEPT !.at = "upsert", !.seen = @ \cup {n}, !.read = disk[n]]
    /\ UNCHANGED <<disk, watcher, database, counts, missed, disturbed>>

IngestUpsert ==
    /\ ingest.at = "upsert"
    /\ UpsertParsedNote(Head(ingest.walk), ingest.read)
    /\ ingest' = [ingest EXCEPT !.at = "walk", !.walk = Tail(@), !.read = None]
    /\ missed' = IF disk[Head(ingest.walk)] = ingest.read THEN missed \ {Head(ingest.walk)}
                 ELSE missed
    /\ UNCHANGED <<disk, watcher, counts, disturbed>>

GetAllNotePaths ==
    /\ ingest.at = "walk"
    /\ ingest.walk = <<>>
    /\ ingest' = [ingest EXCEPT !.at = "prune",
                                !.doomed = {n \in Note \ ingest.seen : rows[n] # None}]
    /\ UNCHANGED <<disk, watcher, database, counts, missed, disturbed>>

\* slips: the note is gone here, and stays on the other devices
PruneUnqueued(n) ==
    /\ ingest.at = "prune"
    /\ n \in ingest.doomed
    /\ rows' = [rows EXCEPT ![n] = None]
    /\ ingest' = [ingest EXCEPT !.doomed = @ \ {n}]
    /\ missed' = IF disk[n] # None THEN missed \cup {n} ELSE missed
    /\ UNCHANGED <<disk, watcher, queued, counts, disturbed>>

Prune(n) ==
    /\ ingest.at = "prune"
    /\ n \in ingest.doomed
    /\ DeleteNoteByPath(n)
    /\ ingest' = [ingest EXCEPT !.doomed = @ \ {n}]
    /\ missed' = IF disk[n] # None THEN missed \cup {n} ELSE missed
    /\ UNCHANGED <<disk, watcher, counts, disturbed>>

IngestDone ==
    /\ ingest.at = "prune"
    /\ ingest.doomed = {}
    /\ ingest' = [Idle EXCEPT !.at = "done", !.had = ingest.had]
    /\ UNCHANGED <<disk, watcher, database, counts, missed, disturbed>>

Next ==
    \/ \E n \in Note, c \in Content : Write(n, c) \/ SaveByRename(n, c) \/ Pull(n, c)
    \/ \E n \in Note : RemoveNote(n) \/ Pull(n, None) \/ (\E to \in Note : Rename(n, to))
    \/ WatchStart \/ WatchStop
    \/ HandleGone \/ Debounce
    \/ \E n \in Note : Fire(n) \/ Ingested(n) \/ Prune(n)
    \/ IngestStart \/ IngestStop \/ IngestRead \/ IngestUpsert
    \/ GetAllNotePaths \/ IngestDone

Spec == Init /\ [][Next]_vars

-----------------------------------------------------------------------------
Quiet == /\ events = <<>> /\ armed = {} /\ read = [n \in Note |-> None]
         /\ Ended

(***************************************************************************)
(* When nothing is under way, the database has what the files say, for     *)
(* every note that is there and was not changed behind the watcher's back: *)
(* while it was off or stopped before it was done, by a pull, or by an     *)
(* ingestion that pruned it because its walk had passed (watch.Run).       *)
(***************************************************************************)
Settled ==
    watching /\ Quiet
      => \A n \in Watched \ missed : disk[n] # None => rows[n] = disk[n]

(***************************************************************************)
(* An ingestion that nothing else disturbed leaves the database with the   *)
(* notes on disk and no other, and the other devices are to hear of it:    *)
(* the content of every note that is there, and the deletion of every note *)
(* that had a row before and is not, is among the operations queued on the *)
(* note's version (ingestion.Run).                                         *)
(***************************************************************************)
IngestMirrors ==
    ingest.at = "done" /\ ~disturbed
      => /\ rows = disk
         /\ \A n \in Note : disk[n] # None \/ n \in ingest.had => disk[n] \in queued[n]
=============================================================================
