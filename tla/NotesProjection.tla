--------------------------- MODULE NotesProjection ---------------------------
(***************************************************************************)
(* Markdown files and the SQLite database that is refreshed from them:     *)
(*   crates/mw/src/main.rs          (run_notes_watch_pipeline)             *)
(*   crates/mw-notes/src/format.rs, registry.rs                            *)
(*   crates/mw-db/src/lib.rs        (NoteDb)                               *)
(*                                                                         *)
(* A process refreshes the database in one pass: it may format the notes,  *)
(* ingests them, prunes what is gone and replaces the registry of note     *)
(* ids.  A step is the reading or writing of one file, or one transaction, *)
(* so that a user, or another process, comes in between.                   *)
(*                                                                         *)
(* Notes are regular notes; hub.md, whose formatting lists its directory,  *)
(* is left out.  A path is its place in the order of paths.                *)
(***************************************************************************)
EXTENDS Naturals, FiniteSets, FiniteSetsExt

CONSTANTS
    Proc,         \* processes, positive numbers
    Path,         \* note files, in the order in which they are read
    Text,         \* what a file can hold
    Saved,        \* what the user writes
    NoText,       \* a file, or a note, that does not exist
    Unreadable,   \* the texts that are not UTF-8
    Size,         \* Text -> its length in bytes
    Format,       \* Path -> Text -> the text once it is formatted
    IdOf,         \* Path -> Text -> the id, or else the name of the file
    NoId,         \* no id
    MaxClock      \* bound: the last second of the clock

Id == UNION {{IdOf[p][t] : t \in Text} : p \in Path}

ASSUME PathAssumption == Path \subseteq Nat /\ Path # {}
ASSUME TextAssumption ==
    NoText \notin Text /\ Saved \subseteq Text /\ Unreadable \subseteq Text
ASSUME SizeAssumption == Size \in [Text -> Nat \ {0}]
ASSUME FormatAssumption == Format \in [Path -> [Text -> Text]]
ASSUME IdAssumption == NoId \notin Id
ASSUME ClockAssumption == MaxClock \in Nat \ {0}

VARIABLES
    clock,      \* the time in whole seconds
    disk,       \* path -> its text and when it changed
    notes,      \* path -> the row of notes; id 0 where there is none
    lastId,     \* the AUTOINCREMENT counter of notes
    outbox,     \* path -> its rows in sync_outbox, and what the newest one says
    untold,     \* history: the paths whose latest change the outbox was not told
    registry,   \* rows of note_ids and of note_id_conflicts
    proc        \* process -> where its refresh is

userVars == <<clock, disk>>
dbVars == <<notes, lastId, outbox, untold, registry>>

Idle == [pc |-> "off", files |-> {}, text |-> NoText, listed |-> {},
         ids |-> [p \in Path |-> NoId], known |-> [p \in Path |-> 0],
         ok |-> FALSE]

Files == {p \in Path : disk[p].text # NoText}

NextFile(w) == Min(proc[w].files)

At(w, pc) == proc[w].pc = pc

(***************************************************************************)
(* How a refresh ends: the watcher takes over from here.                   *)
(***************************************************************************)
Ended(ok) == [Idle EXCEPT !.pc = "done", !.ok = ok]

\* slips
LaterDuplicates(ids) ==
    {p \in Path : /\ ids[p] # NoId
                  /\ \E q \in Path : q < p /\ ids[q] = ids[p]}

\* detect_duplicates: the paths that share their id with another.
Duplicates(ids) ==
    {p \in Path : /\ ids[p] # NoId
                  /\ \E q \in Path \ {p} : ids[q] = ids[p]}

\* populate_registry: the paths whose id is theirs alone.
Registered(ids) == {p \in Path : ids[p] # NoId} \ Duplicates(ids)

-----------------------------------------------------------------------------
Init ==
    /\ clock = 1
    /\ disk = [p \in Path |-> [text |-> NoText, mtime |-> 0]]
    /\ notes = [p \in Path |-> [id |-> 0, text |-> NoText]]
    /\ lastId = 0
    /\ outbox = [p \in Path |-> [rows |-> {}, newest |-> NoText]]
    /\ untold = {}
    /\ registry = [entries |-> {}, conflicts |-> {}]
    /\ proc = [w \in Proc |-> Idle]

(***************************************************************************)
(* The user saves or removes a file.  Nobody changes a file twice within   *)
(* one second: what a watcher sees of a change is its size and its second. *)
(***************************************************************************)
Save(p, t) ==
    /\ disk[p].mtime < clock
    /\ disk' = [disk EXCEPT ![p] = [text |-> t, mtime |-> clock]]
    /\ UNCHANGED <<clock, dbVars, proc>>

Remove(p) ==
    /\ p \in Files /\ disk[p].mtime < clock
    /\ disk' = [disk EXCEPT ![p] = [text |-> NoText, mtime |-> clock]]
    /\ UNCHANGED <<clock, dbVars, proc>>

Tick ==
    /\ clock < MaxClock
    /\ clock' = clock + 1
    /\ UNCHANGED <<disk, dbVars, proc>>

UserStep ==
    \/ \E p \in Path : Remove(p) \/ \E t \in Saved : Save(p, t)
    \/ Tick

(***************************************************************************)
(* run_notes_watch_pipeline begins: format_notes first checks the ids of   *)
(* all notes, ingest_notes lists the files.                                *)
(***************************************************************************)
BeginRefresh(w, format) ==
    proc' = [proc EXCEPT ![w] =
        [Idle EXCEPT !.pc = IF format THEN "check" ELSE "ingest",
                     !.files = Files]]

(***************************************************************************)
(* A listed file is gone, or is not text: the refresh ends with an error.  *)
(***************************************************************************)
ReadFails(w) ==
    /\ proc[w].pc \in {"check", "format", "ingest", "scan"}
    /\ proc[w].files # {}
    /\ disk[NextFile(w)].text \in Unreadable \cup {NoText}
    /\ proc' = [proc EXCEPT ![w] = Ended(FALSE)]
    /\ UNCHANGED <<userVars, dbVars>>

CanRead(w, pc) ==
    /\ At(w, pc) /\ proc[w].files # {}
    /\ disk[NextFile(w)].text \notin Unreadable \cup {NoText}

(***************************************************************************)
(* build_registry reads the id of the next file, for the check before      *)
(* formatting or for the registration.                                     *)
(***************************************************************************)
ScanNote(w) ==
    LET p == NextFile(w) IN
    /\ CanRead(w, "check") \/ CanRead(w, "scan")
    /\ proc' = [proc EXCEPT ![w].files = @ \ {p},
                            ![w].ids[p] = IdOf[p][disk[p].text]]
    /\ UNCHANGED <<userVars, dbVars>>

(***************************************************************************)
(* format_notes refuses to format while ids are not unique.                *)
(***************************************************************************)
EndCheck(w) ==
    /\ At(w, "check") /\ proc[w].files = {}
    /\ proc' = [proc EXCEPT ![w] =
          IF Duplicates(@.ids) # {} THEN Ended(FALSE)
          ELSE [Idle EXCEPT !.pc = "format", !.files = Files]]
    /\ UNCHANGED <<userVars, dbVars>>

(***************************************************************************)
(* format_regular_note: read a file, and write it if formatting changes    *)
(* it, whatever it holds by then and even if it is gone.                   *)
(***************************************************************************)
FormatNote(w) ==
    LET p == NextFile(w)
        t == Format[p][disk[p].text]
    IN
    /\ CanRead(w, "format")
    /\ IF t = disk[p].text
       THEN proc' = [proc EXCEPT ![w].files = @ \ {p}]
       ELSE proc' = [proc EXCEPT ![w].pc = "write", ![w].text = t]
    /\ UNCHANGED <<userVars, dbVars>>

WriteNote(w) ==
    LET p == NextFile(w) IN
    /\ At(w, "write")
    /\ disk' = [disk EXCEPT ![p] = [text |-> proc[w].text, mtime |-> clock]]
    /\ proc' = [proc EXCEPT ![w].pc = "format", ![w].files = @ \ {p},
                            ![w].text = NoText]
    /\ UNCHANGED <<clock, dbVars>>

EndFormat(w) ==
    /\ At(w, "format") /\ proc[w].files = {}
    /\ proc' = [proc EXCEPT ![w] = [Idle EXCEPT !.pc = "ingest",
                                                !.files = Files]]
    /\ UNCHANGED <<userVars, dbVars>>

(***************************************************************************)
(* ingest_notes: read the next file ...                                    *)
(***************************************************************************)
ReadNote(w) ==
    LET p == NextFile(w) IN
    /\ CanRead(w, "ingest")
    /\ proc' = [proc EXCEPT ![w].pc = "upsert",
                            ![w].listed = @ \cup {p},
                            ![w].text = disk[p].text]
    /\ UNCHANGED <<userVars, dbVars>>

(***************************************************************************)
(* enqueue_outbox_operation, INSERT OR IGNORE: a row of a note is queued   *)
(* once, for its idempotency key is made of its content and of the base    *)
(* version, which is 0 always.  A note that goes back to what it once was  *)
(* is therefore not queued, whatever has been queued in between.           *)
(***************************************************************************)
Enqueue(p, t) ==
    /\ outbox' = IF t \in outbox[p].rows THEN outbox
                 ELSE [outbox EXCEPT ![p] = [rows |-> @.rows \cup {t}, newest |-> t]]
    /\ untold' = IF outbox'[p].newest = t THEN untold \ {p} ELSE untold \cup {p}

(***************************************************************************)
(* ... and write it: upsert_parsed_note, one transaction with its row of   *)
(* the outbox.                                                             *)
(***************************************************************************)
UpsertNote(w) ==
    LET p == NextFile(w)
        isNew == notes[p].id = 0
    IN
    /\ At(w, "upsert")
    /\ lastId' = IF isNew THEN lastId + 1 ELSE lastId
    /\ notes' = [notes EXCEPT ![p] =
          [id |-> IF isNew THEN lastId' ELSE @.id, text |-> proc[w].text]]
    /\ Enqueue(p, proc[w].text)
    /\ proc' = [proc EXCEPT ![w].pc = "ingest", ![w].files = @ \ {p},
                            ![w].text = NoText]
    /\ UNCHANGED <<userVars, registry>>

(***************************************************************************)
(* all_note_paths: the notes to prune are those whose file was not listed. *)
(***************************************************************************)
ListPruned(w) ==
    /\ At(w, "ingest") /\ proc[w].files = {}
    /\ proc' = [proc EXCEPT ![w] =
          [Idle EXCEPT !.pc = "prune",
                       !.files = {p \in Path : notes[p].id # 0} \ proc[w].listed]]
    /\ UNCHANGED <<userVars, dbVars>>

(***************************************************************************)
(* delete_note_by_path: the note goes, with its rows of the registry, and  *)
(* then, in a transaction of its own, the deletion is queued.              *)
(***************************************************************************)
DeleteNote(w) ==
    LET p == NextFile(w) IN
    /\ At(w, "prune") /\ proc[w].files # {}
    /\ notes' = [notes EXCEPT ![p] = [id |-> 0, text |-> NoText]]
    /\ registry' =
          [entries |-> {r \in registry.entries : r.path # p},
           conflicts |-> {r \in registry.conflicts : r.path # p \/ ~r.inDb}]
    /\ proc' = [proc EXCEPT ![w].pc = "queue"]
    /\ UNCHANGED <<userVars, lastId, outbox, untold>>

\* slips
DeleteUnqueued(w) ==
    LET p == NextFile(w) IN
    /\ At(w, "queue")
    /\ proc' = [proc EXCEPT ![w].pc = "prune", ![w].files = @ \ {p}]
    /\ UNCHANGED <<userVars, dbVars>>

QueueDelete(w) ==
    LET p == NextFile(w) IN
    /\ At(w, "queue")
    /\ Enqueue(p, NoText)
    /\ proc' = [proc EXCEPT ![w].pc = "prune", ![w].files = @ \ {p}]
    /\ UNCHANGED <<userVars, notes, lastId, registry>>

EndIngest(w) ==
    /\ At(w, "prune") /\ proc[w].files = {}
    /\ proc' = [proc EXCEPT ![w] = [Idle EXCEPT !.pc = "scan",
                                                !.files = Files]]
    /\ UNCHANGED <<userVars, dbVars>>

(***************************************************************************)
(* register_notes: note_id_by_path for every file that was scanned, and    *)
(* replace_registry, which fails if one of these notes is gone again.      *)
(* Duplicates are reported as an error after that, which changes nothing.  *)
(***************************************************************************)
LookUpNotes(w) ==
    /\ At(w, "scan") /\ proc[w].files = {}
    /\ proc' = [proc EXCEPT ![w].pc = "replace", ![w].known =
          [p \in Path |-> IF proc[w].ids[p] = NoId THEN 0 ELSE notes[p].id]]
    /\ UNCHANGED <<userVars, dbVars>>

ReplaceRegistry(w) ==
    LET ids == proc[w].ids
        known == proc[w].known
        missing == {p \in Registered(ids) : known[p] = 0}
    IN
    /\ At(w, "replace")
    /\ IF \E p \in Path : known[p] # 0 /\ notes[p].id # known[p]
       THEN /\ proc' = [proc EXCEPT ![w] = Ended(FALSE)]
            /\ UNCHANGED registry
       ELSE /\ registry' =
                 [entries |-> {[path |-> p, uid |-> ids[p]] :
                                 p \in Registered(ids) \ missing},
                  conflicts |-> {[path |-> p, uid |-> ids[p],
                                  reason |-> "DUPLICATE_ID",
                                  inDb |-> known[p] # 0] :
                                   p \in Duplicates(ids)}
                           \cup {[path |-> p, uid |-> ids[p],
                                  reason |-> "NOTE_NOT_IN_DB",
                                  inDb |-> FALSE] : p \in missing}]
            /\ proc' = [proc EXCEPT ![w] = Ended(TRUE)]
    /\ UNCHANGED <<userVars, notes, lastId, outbox, untold>>

RefreshStep(w) ==
    \/ ReadFails(w)
    \/ ScanNote(w)
    \/ EndCheck(w)
    \/ FormatNote(w)
    \/ WriteNote(w)
    \/ EndFormat(w)
    \/ ReadNote(w)
    \/ UpsertNote(w)
    \/ ListPruned(w)
    \/ DeleteNote(w)
    \/ QueueDelete(w)
    \/ EndIngest(w)
    \/ LookUpNotes(w)
    \/ ReplaceRegistry(w)
-----------------------------------------------------------------------------
TypeOK ==
    /\ clock \in 1..MaxClock
    /\ disk \in [Path -> [text : Text \cup {NoText}, mtime : 0..MaxClock]]
    /\ notes \in [Path -> [id : Nat, text : Text \cup {NoText}]]
    /\ lastId \in Nat
    /\ outbox \in [Path -> [rows : SUBSET (Text \cup {NoText}),
                            newest : Text \cup {NoText}]]
    /\ untold \subseteq Path
    /\ registry.entries \subseteq [path : Path, uid : Id]
    /\ registry.conflicts \subseteq
          [path : Path, uid : Id, inDb : BOOLEAN,
           reason : {"DUPLICATE_ID", "NOTE_NOT_IN_DB"}]
    /\ proc \in [Proc -> [pc : {"off", "stat", "sleep", "check", "format",
                                "write", "ingest", "upsert", "prune", "queue",
                                "scan", "replace", "done"},
                          files : SUBSET Path, text : Text \cup {NoText},
                          listed : SUBSET Path, ids : [Path -> Id \cup {NoId}],
                          known : [Path -> Nat], ok : BOOLEAN]]
=============================================================================
