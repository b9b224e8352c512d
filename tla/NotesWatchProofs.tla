--------------------------- MODULE NotesWatchProofs ---------------------------
(***************************************************************************)
(* Theorems about NotesWatch, for any notes, contents, folders and bounds. *)
(***************************************************************************)
EXTENDS NotesWatch, TLAPS

-----------------------------------------------------------------------------
(***************************************************************************)
(* Queues of events.                                                       *)
(***************************************************************************)
Events == [op : {"write", "remove", "rename"}, note : Note]

Mentions(s, n) == \E i \in 1..Len(s) : s[i].note = n

\* The last event of n, if there is one, is a write.
EndsInWrite(s, n) ==
    \A i \in 1..Len(s) : s[i].note = n =>
        \E j \in i..Len(s) : s[j].note = n /\ s[j].op = "write"

(***************************************************************************)
(* Events of other notes do not matter to a note.                          *)
(***************************************************************************)
LEMMA OthersAppended ==
    ASSUME NEW s \in Seq(Events), NEW e \in Events, NEW n, e.note # n
    PROVE  /\ Mentions(s \o <<e>>, n) <=> Mentions(s, n)
           /\ EndsInWrite(s, n) => EndsInWrite(s \o <<e>>, n)
<1> DEFINE t == s \o <<e>>
<1>1. /\ Len(t) = Len(s) + 1 /\ Len(s) \in Nat /\ t[Len(s) + 1] = e
      /\ \A i \in 1..Len(s) : t[i] = s[i]
  OBVIOUS
<1> HIDE DEF t
<1>2. Mentions(t, n) <=> Mentions(s, n)
  BY <1>1 DEF Mentions
<1>3. ASSUME EndsInWrite(s, n), NEW i \in 1..Len(t), t[i].note = n
      PROVE  \E j \in i..Len(t) : t[j].note = n /\ t[j].op = "write"
  <2>1. i \in 1..Len(s) /\ s[i].note = n
    BY <1>1, <1>3
  <2>2. PICK j \in i..Len(s) : s[j].note = n /\ s[j].op = "write"
    BY <1>3, <2>1 DEF EndsInWrite
  <2> QED BY <1>1, <2>1, <2>2
<1>4. EndsInWrite(s, n) => EndsInWrite(t, n)
  BY <1>3 DEF EndsInWrite
<1> QED BY <1>2, <1>4 DEF t

(***************************************************************************)
(* A write at the end is the last event of its note.                       *)
(***************************************************************************)
LEMMA WriteAppended ==
    ASSUME NEW s \in Seq(Events), NEW e \in Events, e.op = "write"
    PROVE  Mentions(s \o <<e>>, e.note) /\ EndsInWrite(s \o <<e>>, e.note)
<1> DEFINE t == s \o <<e>>
<1>1. Len(t) = Len(s) + 1 /\ Len(s) \in Nat /\ t[Len(s) + 1] = e
  OBVIOUS
<1> HIDE DEF t
<1>2. Mentions(t, e.note)
  BY <1>1 DEF Mentions
<1>3. EndsInWrite(t, e.note)
  <2>1. \A i \in 1..Len(t) : Len(t) \in i..Len(t)
    BY <1>1
  <2> QED BY <1>1, <2>1 DEF EndsInWrite
<1> QED BY <1>2, <1>3 DEF t

(***************************************************************************)
(* The first event is handled: what follows still ends in a write, and     *)
(* unless that was the event, its note is still mentioned.                 *)
(***************************************************************************)
LEMMA HeadHandled ==
    ASSUME NEW s \in Seq(Events), s # <<>>, NEW n
    PROVE  /\ Head(s) \in Events /\ Tail(s) \in Seq(Events)
           /\ EndsInWrite(s, n) => EndsInWrite(Tail(s), n)
           /\ Mentions(s, n) => Head(s).note = n \/ Mentions(Tail(s), n)
           /\ Mentions(Tail(s), n) => Mentions(s, n)
           /\ EndsInWrite(s, n) /\ Head(s).note = n /\ Head(s).op # "write"
                => Mentions(Tail(s), n)
<1> DEFINE t == Tail(s)
<1>1. /\ Len(t) = Len(s) - 1 /\ Len(s) \in Nat \ {0} /\ Head(s) = s[1]
      /\ s[1] \in Events /\ t \in Seq(Events)
      /\ \A i \in 1..Len(t) : t[i] = s[i + 1]
  OBVIOUS
<1> HIDE DEF t
<1>2. ASSUME EndsInWrite(s, n), NEW i \in 1..Len(t), t[i].note = n
      PROVE  \E j \in i..Len(t) : t[j].note = n /\ t[j].op = "write"
  <2>1. i + 1 \in 1..Len(s) /\ s[i + 1].note = n
    BY <1>1, <1>2
  <2>2. PICK j \in (i + 1)..Len(s) : s[j].note = n /\ s[j].op = "write"
    BY <1>2, <2>1 DEF EndsInWrite
  <2>3. j - 1 \in i..Len(t) /\ j - 1 \in 1..Len(t) /\ t[j - 1] = s[j]
    BY <1>1, <2>2
  <2> QED BY <2>2, <2>3
<1>3. ASSUME Mentions(s, n), Head(s).note # n
      PROVE  Mentions(t, n)
  <2>1. PICK i \in 1..Len(s) : s[i].note = n
    BY <1>3 DEF Mentions
  <2>2. i - 1 \in 1..Len(t) /\ t[i - 1] = s[i]
    BY <1>1, <1>3, <2>1
  <2> QED BY <2>1, <2>2 DEF Mentions
<1>4. ASSUME Mentions(t, n)
      PROVE  Mentions(s, n)
  <2>1. PICK i \in 1..Len(t) : t[i].note = n
    BY <1>4 DEF Mentions
  <2>2. i + 1 \in 1..Len(s)
    BY <1>1, <2>1
  <2> QED BY <1>1, <2>1, <2>2 DEF Mentions
<1>5. ASSUME EndsInWrite(s, n), Head(s).note = n, Head(s).op # "write"
      PROVE  Mentions(t, n)
  <2>1. 1 \in 1..Len(s)
    BY <1>1
  <2>2. PICK j \in 1..Len(s) : s[j].note = n /\ s[j].op = "write"
    BY <1>1, <1>5, <2>1 DEF EndsInWrite
  <2>3. j - 1 \in 1..Len(t) /\ t[j - 1] = s[j]
    BY <1>1, <1>5, <2>2
  <2> QED BY <2>2, <2>3 DEF Mentions
<1>6. EndsInWrite(s, n) => EndsInWrite(t, n)
  BY <1>2 DEF EndsInWrite
<1> QED BY <1>1, <1>3, <1>4, <1>5, <1>6 DEF t

-----------------------------------------------------------------------------
(***************************************************************************)
(* Types.                                                                  *)
(***************************************************************************)
Stored == Content \cup {None}

Ingestions ==
    [at : {"idle", "walk", "upsert", "prune", "done"}, walk : Seq(Note),
     seen : SUBSET Note, read : Stored, doomed : SUBSET Note, had : SUBSET Note]

Types ==
    /\ disk \in [Note -> Stored]
    /\ watching \in BOOLEAN
    /\ events \in Seq(Events)
    /\ armed \subseteq Note
    /\ read \in [Note -> Stored]
    /\ rows \in [Note -> Stored]
    /\ queued \in [Note -> SUBSET Stored]
    /\ ingest \in Ingestions
    /\ ingest.at = "upsert" => ingest.walk # <<>>
    /\ missed \subseteq Note
    /\ disturbed \in BOOLEAN

\* The initial state is well typed.
LEMMA InitTypes == Init => Types
<1> SUFFICES ASSUME Init PROVE Types
  OBVIOUS
<1>1. Idle \in Ingestions /\ Idle.at = "idle"
  BY DEF Idle, Ingestions, Stored
<1>2. <<>> \in Seq(Events)
  OBVIOUS
<1> QED BY <1>1, <1>2 DEF Init, Types, Stored

(***************************************************************************)
(* What the user's changes do to the queue.                                *)
(***************************************************************************)
LEMMA EventNoticed ==
    ASSUME NEW s \in Seq(Events), NEW n \in Note, watching \in BOOLEAN,
           NEW op \in {"write", "remove", "rename"}
    PROVE  /\ s \o Event(op, n) \in Seq(Events)
           /\ ~watching => s \o Event(op, n) = s
           /\ \A m \in Note \ {n} :
                 /\ Mentions(s \o Event(op, n), m) <=> Mentions(s, m)
                 /\ EndsInWrite(s, m) => EndsInWrite(s \o Event(op, n), m)
           /\ op = "write" /\ watching /\ n \in Watched
                 => /\ Mentions(s \o Event(op, n), n)
                    /\ EndsInWrite(s \o Event(op, n), n)
<1> DEFINE e == [op |-> op, note |-> n]
<1>1. e \in Events /\ e.note = n /\ e.op = op
  BY DEF Events
<1> HIDE DEF e
<1>2. CASE watching /\ n \in Watched
  <2>1. Event(op, n) = <<e>>
    BY <1>2 DEF Event, e
  <2> QED BY <1>1, <1>2, <2>1, OthersAppended, WriteAppended
<1>3. CASE ~(watching /\ n \in Watched)
  <2>1. Event(op, n) = <<>> /\ s \o <<>> = s
    BY <1>3 DEF Event
  <2> QED BY <1>3, <2>1
<1> QED BY <1>2, <1>3

Changes(n) ==
    \/ \E c \in Content : Write(n, c) \/ SaveByRename(n, c)
    \/ RemoveNote(n)
    \/ \E to \in Note : Rename(n, to)

\* A change of a file keeps the types.
LEMMA ChangeTypes ==
    ASSUME Types, NEW n \in Note, Changes(n)
    PROVE  Types'
<1> USE DEF Changes
<1>1. /\ UNCHANGED <<watching, armed, read, rows, queued, ingest>>
      /\ disturbed' = TRUE
  BY DEF Write, SaveByRename, RemoveNote, Rename, Change, database
<1>2. disk' \in [Note -> Stored]
  BY DEF Write, SaveByRename, RemoveNote, Rename, Types, Stored
<1>3. events' \in Seq(Events)
  <2>1. /\ events \in Seq(Events)
        /\ \A s \in Seq(Events), m \in Note, op \in {"write", "remove", "rename"} :
              s \o Event(op, m) \in Seq(Events)
    BY EventNoticed DEF Types
  <2>2. \/ events' = events \o Event("write", n)
        \/ events' = events \o Event("remove", n)
        \/ \E m \in Note : events' = events \o Event("rename", n) \o Event("write", m)
    BY DEF Write, SaveByRename, RemoveNote, Rename
  <2> QED BY <2>1, <2>2
<1>4. missed' \subseteq Note
  BY DEF Write, SaveByRename, RemoveNote, Rename, Notice, Types
<1>5. /\ watching' = watching /\ armed' = armed /\ read' = read /\ rows' = rows
      /\ queued' = queued /\ ingest' = ingest
  BY <1>1
<1> QED BY <1>1, <1>2, <1>3, <1>4, <1>5 DEF Types

\* Every step keeps the types: one case per action.
LEMMA TypesNext == Types /\ [Next]_vars => Types'
<1> SUFFICES ASSUME Types, [Next]_vars PROVE Types'
  OBVIOUS
<1> USE DEF Types
<1>1. ASSUME NEW n \in Note, NEW c \in Stored, Pull(n, c)
      PROVE  Types'
  BY <1>1 DEF Pull, Stored, watcher
<1>2. CASE WatchStart
  BY <1>2 DEF WatchStart, database
<1>3. CASE WatchStop
  <2>1. {e.note : e \in Range(events)} \subseteq Note
    <3>1. \A i \in DOMAIN events : events[i] \in Events
      OBVIOUS
    <3> QED BY <3>1 DEF Range, Events
  <2>2. missed' \subseteq Note
    BY <1>3, <2>1 DEF WatchStop
  <2>3. /\ UNCHANGED <<disk, rows, queued, ingest, disturbed>>
        /\ watching' = FALSE /\ events' = <<>> /\ armed' = {}
        /\ read' \in [Note -> Stored]
    BY <1>3 DEF WatchStop, database, Stored
  <2>4. <<>> \in Seq(Events)
    OBVIOUS
  <2> QED BY <2>2, <2>3, <2>4
<1>4. CASE HandleGone
  <2>1. Head(events) \in Events /\ Tail(events) \in Seq(Events)
    BY <1>4, HeadHandled DEF HandleGone
  <2> QED BY <1>4, <2>1 DEF HandleGone, DeleteNoteByPath, Enqueue, counts, Events, Stored
<1>5. CASE Debounce
  <2>1. Head(events) \in Events /\ Tail(events) \in Seq(Events)
    BY <1>5, HeadHandled DEF Debounce
  <2> QED BY <1>5, <2>1 DEF Debounce, database, counts, Events
<1>6. ASSUME NEW n \in Note, Fire(n)
      PROVE  Types'
  BY <1>6 DEF Fire, database, counts
<1>7. ASSUME NEW n \in Note, Ingested(n)
      PROVE  Types'
  BY <1>7 DEF Ingested, UpsertParsedNote, UpsertNoteRow, Enqueue, counts, Stored
<1>8. ASSUME NEW n \in Note, Prune(n)
      PROVE  Types'
  BY <1>8 DEF Prune, DeleteNoteByPath, Enqueue, watcher, counts, Ingestions, Stored
<1>9. CASE IngestStart
  <2>1. ingest' \in Ingestions /\ ingest'.at = "walk"
    BY <1>9, WatchAssumption DEF IngestStart, Idle, Ingestions, Stored
  <2> QED BY <1>9, <2>1 DEF IngestStart, watcher, database
<1>10. CASE IngestStop
  <2>1. ingest' \in Ingestions /\ ingest'.at = "idle"
    BY <1>10 DEF IngestStop, Idle, Ingestions, Stored
  <2> QED BY <1>10, <2>1 DEF IngestStop, watcher, database, counts
<1>11. CASE IngestRead
  <2>1. Head(ingest.walk) \in Note /\ Tail(ingest.walk) \in Seq(Note)
    BY <1>11 DEF IngestRead, Ingestions
  <2>2. ingest' \in Ingestions /\ (ingest'.at = "upsert" => ingest'.walk # <<>>)
    BY <1>11, <2>1 DEF IngestRead, Ingestions
  <2> QED BY <1>11, <2>2 DEF IngestRead, watcher, database, counts
<1>12. CASE IngestUpsert
  <2>1. Head(ingest.walk) \in Note /\ Tail(ingest.walk) \in Seq(Note)
    BY <1>12 DEF IngestUpsert, Ingestions
  <2>2. ingest' \in Ingestions /\ ingest'.at = "walk"
    BY <1>12, <2>1 DEF IngestUpsert, Ingestions, Stored
  <2>3. rows' \in [Note -> Stored] /\ queued' \in [Note -> SUBSET Stored]
    BY <1>12, <2>1 DEF IngestUpsert, UpsertParsedNote, UpsertNoteRow, Enqueue, Ingestions
  <2> QED BY <1>12, <2>2, <2>3 DEF IngestUpsert, watcher, counts
<1>13. CASE GetAllNotePaths
  BY <1>13 DEF GetAllNotePaths, watcher, database, counts, Ingestions
<1>14. CASE IngestDone
  <2>1. ingest' = [at |-> "done", walk |-> <<>>, seen |-> {}, read |-> None,
                   doomed |-> {}, had |-> ingest.had]
    BY <1>14 DEF IngestDone, Idle
  <2>2. ingest' \in Ingestions /\ ingest'.at = "done"
    BY <2>1 DEF Ingestions, Stored
  <2> QED BY <1>14, <2>2 DEF IngestDone, watcher, database, counts
<1>15. CASE UNCHANGED vars
  BY <1>15 DEF vars, watcher, database, counts
<1>16. ASSUME NEW n \in Note, Changes(n)
       PROVE  Types'
  BY <1>16, ChangeTypes
<1> HIDE DEF Types
<1> QED
  BY <1>1, <1>2, <1>3, <1>4, <1>5, <1>6, <1>7, <1>8, <1>9, <1>10, <1>11, <1>12,
     <1>13, <1>14, <1>15, <1>16 DEF Next, Stored, Changes

-----------------------------------------------------------------------------
(***************************************************************************)
(* What stands between a file and its row in the database.  As long as an  *)
(* event of the note is queued or its timer runs, the file is yet to be    *)
(* read.  Otherwise what the timer has read is what the file says, and so  *)
(* is what an ingestion holds, or the row, unless the note was missed.     *)
(***************************************************************************)
Waiting(n) == Mentions(events, n) \/ n \in armed

Upserting(n) == ingest.at = "upsert" /\ Head(ingest.walk) = n

OffIsIdle == ~watching => events = <<>> /\ armed = {} /\ \A n \in Note : read[n] = None

\* n is where it should be, or on its way.
Fresh(n) ==
    disk[n] # None =>
        /\ EndsInWrite(events, n)
        /\ ~Waiting(n) =>
              /\ read[n] \in {None, disk[n]}
              /\ n \notin missed =>
                    /\ Upserting(n) => ingest.read = disk[n]
                    /\ rows[n] = disk[n] \/ read[n] = disk[n]

WatchInv == Types /\ OffIsIdle /\ \A n \in Watched : Fresh(n)

\* Nothing is stale in the initial state.
LEMMA InitWatchInv == Init => WatchInv
<1> SUFFICES ASSUME Init PROVE OffIsIdle /\ \A n \in Watched : Fresh(n)
  BY InitTypes DEF WatchInv
<1>1. events = <<>> /\ armed = {} /\ read = [n \in Note |-> None] /\ missed = Note
  BY DEF Init
<1>2. \A n \in Watched : EndsInWrite(events, n)
  BY <1>1 DEF EndsInWrite
<1> QED BY <1>1, <1>2, WatchAssumption DEF OffIsIdle, Fresh

(***************************************************************************)
(* The notes that a change touches are queued or missed; for the others    *)
(* the queue stays as it was.                                              *)
(***************************************************************************)
LEMMA ChangeNoticed ==
    ASSUME Types, NEW n \in Note, Changes(n)
    PROVE  \E N \in SUBSET Note :
              /\ \A m \in Note \ N :
                    /\ disk'[m] = disk[m]
                    /\ Mentions(events', m) <=> Mentions(events, m)
                    /\ EndsInWrite(events, m) => EndsInWrite(events', m)
              /\ \A m \in N \cap Watched :
                    watching /\ disk'[m] # None
                      => Mentions(events', m) /\ EndsInWrite(events', m)
              /\ ~watching => events' = events
              /\ missed' = (missed \cup N) \ (IF watching THEN N \cap Watched ELSE {})
<1> USE DEF Types, Notice
<1>1. CASE \E c \in Content : Write(n, c)
  <2>1. /\ events' = events \o Event("write", n)
        /\ \A m \in Note \ {n} : disk'[m] = disk[m]
        /\ missed' = (missed \cup {n}) \ (IF watching THEN {n} \cap Watched ELSE {})
    BY <1>1 DEF Write
  <2> WITNESS {n} \in SUBSET Note
  <2> QED BY <2>1, EventNoticed
<1>2. CASE RemoveNote(n)
  <2>1. /\ events' = events \o Event("remove", n)
        /\ \A m \in Note \ {n} : disk'[m] = disk[m]
        /\ disk'[n] = None
        /\ missed' = (missed \cup {n}) \ (IF watching THEN {n} \cap Watched ELSE {})
    BY <1>2 DEF RemoveNote
  <2> WITNESS {n} \in SUBSET Note
  <2> QED BY <2>1, EventNoticed
<1>3. ASSUME NEW to \in Note,
             events' = events \o Event("rename", n) \o Event("write", to)
      PROVE  /\ ~watching => events' = events
             /\ \A m \in Note \ {n, to} :
                   /\ Mentions(events', m) <=> Mentions(events, m)
                   /\ EndsInWrite(events, m) => EndsInWrite(events', m)
             /\ watching /\ to \in Watched
                   => Mentions(events', to) /\ EndsInWrite(events', to)
  <2> DEFINE s == events \o Event("rename", n)
  <2>1. /\ s \in Seq(Events)
        /\ ~watching => s = events
        /\ \A m \in Note \ {n} : /\ Mentions(s, m) <=> Mentions(events, m)
                                 /\ EndsInWrite(events, m) => EndsInWrite(s, m)
    BY EventNoticed
  <2> HIDE DEF s
  <2>2. /\ ~watching => s \o Event("write", to) = s
        /\ \A m \in Note \ {to} :
              /\ Mentions(s \o Event("write", to), m) <=> Mentions(s, m)
              /\ EndsInWrite(s, m) => EndsInWrite(s \o Event("write", to), m)
        /\ watching /\ to \in Watched
              => /\ Mentions(s \o Event("write", to), to)
                 /\ EndsInWrite(s \o Event("write", to), to)
    BY <2>1, EventNoticed
  <2>3. events' = s \o Event("write", to)
    BY <1>3 DEF s
  <2> QED BY <2>1, <2>2, <2>3
<1>4. CASE \E c \in Content : SaveByRename(n, c)
  <2>1. /\ events' = events \o Event("rename", n) \o Event("write", n)
        /\ \A m \in Note \ {n} : disk'[m] = disk[m]
        /\ missed' = (missed \cup {n}) \ (IF watching THEN {n} \cap Watched ELSE {})
    BY <1>4 DEF SaveByRename
  <2> WITNESS {n} \in SUBSET Note
  <2> QED BY <2>1, <1>3
<1>5. ASSUME NEW to \in Note, Rename(n, to)
      PROVE  /\ events' = events \o Event("rename", n) \o Event("write", to)
             /\ \A m \in Note \ {n, to} : disk'[m] = disk[m]
             /\ disk'[n] = None
             /\ missed' = (missed \cup {n, to})
                             \ (IF watching THEN {n, to} \cap Watched ELSE {})
  BY <1>5 DEF Rename
<1>6. CASE \E to \in Note : Rename(n, to)
  <2>1. PICK to \in Note : Rename(n, to)
    BY <1>6
  <2> WITNESS {n, to} \in SUBSET Note
  <2> QED BY <2>1, <1>3, <1>5
<1> QED BY <1>1, <1>2, <1>4, <1>6 DEF Changes

\* A change of a file keeps WatchInv, for that note and for the others.
LEMMA ChangeFresh ==
    ASSUME WatchInv, NEW n \in Note, Changes(n)
    PROVE  OffIsIdle' /\ \A m \in Watched : Fresh(m)'
<1> USE DEF WatchInv
<1>1. /\ watching' = watching /\ armed' = armed /\ read' = read
      /\ rows' = rows /\ ingest' = ingest
  BY DEF Changes, Write, SaveByRename, RemoveNote, Rename, Change, database
<1>2. PICK N \in SUBSET Note :
         /\ \A m \in Note \ N :
               /\ disk'[m] = disk[m]
               /\ Mentions(events', m) <=> Mentions(events, m)
               /\ EndsInWrite(events, m) => EndsInWrite(events', m)
         /\ \A m \in N \cap Watched :
               watching /\ disk'[m] # None
                 => Mentions(events', m) /\ EndsInWrite(events', m)
         /\ ~watching => events' = events
         /\ missed' = (missed \cup N) \ (IF watching THEN N \cap Watched ELSE {})
  BY ChangeNoticed
<1>3. OffIsIdle'
  BY <1>1, <1>2 DEF OffIsIdle
<1>4. ASSUME NEW m \in Watched \ N
      PROVE  Fresh(m)'
  <2>1. m \in Note /\ Fresh(m) /\ (m \in missed' <=> m \in missed)
    BY <1>2, <1>4, WatchAssumption
  <2> QED BY <1>1, <1>2, <2>1 DEF Fresh, Waiting, Upserting
<1>5. ASSUME NEW m \in Watched \cap N, watching
      PROVE  Fresh(m)'
  BY <1>2, <1>5 DEF Fresh, Waiting
<1>6. ASSUME NEW m \in Watched \cap N, ~watching
      PROVE  Fresh(m)'
  <2>1. m \in Note /\ m \in missed' /\ events' = <<>> /\ read'[m] = None
    BY <1>1, <1>2, <1>6, WatchAssumption DEF OffIsIdle
  <2>2. EndsInWrite(events', m)
    BY <2>1 DEF EndsInWrite
  <2> QED BY <2>1, <2>2 DEF Fresh
<1> QED
  <2>1. watching \in BOOLEAN
    BY DEF Types
  <2> QED BY <1>3, <1>4, <1>5, <1>6, <2>1

(***************************************************************************)
(* The watcher stops: what is not missed was neither queued nor armed nor  *)
(* read, so its row was what the file says.                                *)
(***************************************************************************)
LEMMA StopFresh ==
    ASSUME WatchInv, WatchStop
    PROVE  OffIsIdle' /\ \A m \in Watched : Fresh(m)'
<1>1. /\ disk' = disk /\ rows' = rows /\ ingest' = ingest /\ watching' = FALSE
      /\ events' = <<>> /\ armed' = {} /\ read' = [n \in Note |-> None]
      /\ missed' = missed \cup {e.note : e \in Range(events)} \cup armed
                      \cup {n \in Note : read[n] # None}
  BY DEF WatchStop, database
<1>2. OffIsIdle'
  BY <1>1 DEF OffIsIdle
<1>3. ASSUME NEW m \in Watched, Fresh(m), disk[m] # None, m \notin missed'
      PROVE  (Upserting(m) => ingest.read = disk[m]) /\ rows[m] = disk[m]
  <2>1. m \in Note
    BY WatchAssumption
  <2>2. m \notin {e.note : e \in Range(events)} /\ m \notin armed /\ read[m] = None
        /\ m \notin missed
    BY <1>1, <1>3, <2>1
  <2>3. DOMAIN events = 1..Len(events)
    BY DEF WatchInv, Types
  <2>4. ~Mentions(events, m)
    BY <2>2, <2>3 DEF Mentions, Range
  <2> QED BY <1>3, <2>2, <2>4 DEF Fresh, Waiting
<1>4. ASSUME NEW m \in Watched
      PROVE  Fresh(m)'
  <2>1. EndsInWrite(events', m) /\ m \in Note /\ Fresh(m)
    BY <1>1, WatchAssumption DEF EndsInWrite, WatchInv
  <2> QED BY <1>1, <1>3, <2>1 DEF Fresh, Upserting
<1> QED BY <1>2, <1>4

(***************************************************************************)
(* The watcher's loop takes an event: if its note is still there, a write  *)
(* of it follows what was removed.                                         *)
(***************************************************************************)
LEMMA EventFresh ==
    ASSUME WatchInv, HandleGone \/ Debounce
    PROVE  OffIsIdle' /\ \A m \in Watched : Fresh(m)'
<1> DEFINE h == Head(events).note
<1>1. events \in Seq(Events) /\ events # <<>> /\ events' = Tail(events)
  BY DEF WatchInv, Types, HandleGone, Debounce
<1>2. /\ disk' = disk /\ watching' = watching /\ read' = read /\ ingest' = ingest
      /\ missed' = missed
  BY DEF HandleGone, Debounce, database
<1>3. h \in Note
  BY <1>1, HeadHandled DEF Events
<1>4. /\ armed \subseteq armed'
      /\ Head(events).op = "write" => h \in armed'
      /\ \A m \in Note \ {h} : rows'[m] = rows[m]
      /\ Head(events).op = "write" => rows' = rows
  BY <1>3 DEF HandleGone, Debounce, DeleteNoteByPath, WatchInv, Types, database
<1>5. OffIsIdle'
  BY <1>1, <1>2 DEF OffIsIdle, WatchInv
<1>6. ASSUME NEW m \in Watched
      PROVE  Fresh(m)'
  <2>1. m \in Note /\ Fresh(m)
    BY WatchAssumption DEF WatchInv
  <2>2. /\ EndsInWrite(events, m) => EndsInWrite(events', m)
        /\ Mentions(events, m) => h = m \/ Mentions(events', m)
        /\ EndsInWrite(events, m) /\ h = m /\ Head(events).op # "write"
             => Mentions(events', m)
    BY <1>1, HeadHandled
  <2>3. CASE h = m
    <3>1. disk[m] # None => EndsInWrite(events', m) /\ (Mentions(events', m) \/ m \in armed')
      BY <1>4, <2>1, <2>2, <2>3 DEF Fresh
    <3> QED BY <1>2, <3>1 DEF Fresh, Waiting
  <2>4. CASE h # m
    <3>1. /\ rows'[m] = rows[m]
          /\ Waiting(m) => Mentions(events', m) \/ m \in armed'
      BY <1>4, <2>1, <2>2, <2>4 DEF Waiting
    <3> HIDE DEF h
    <3> QED BY <1>2, <2>1, <2>2, <3>1 DEF Fresh, Waiting, Upserting
  <2> QED BY <2>3, <2>4
<1> QED BY <1>5, <1>6

(***************************************************************************)
(* The timer reads the note and stores what it has read.                   *)
(***************************************************************************)
LEMMA FireFresh ==
    ASSUME WatchInv, NEW n \in Note, Fire(n)
    PROVE  OffIsIdle' /\ \A m \in Watched : Fresh(m)'
<1>1. /\ disk' = disk /\ watching' = watching /\ events' = events /\ rows' = rows
      /\ ingest' = ingest /\ missed' = missed
      /\ n \in armed /\ armed' = armed \ {n} /\ ~Upserting(n)
      /\ read' = [read EXCEPT ![n] = disk[n]] /\ read \in [Note -> Stored]
  BY DEF Fire, database, WatchInv, Types, Upserting
<1>2. OffIsIdle'
  BY <1>1 DEF OffIsIdle, WatchInv
<1>3. ASSUME NEW m \in Watched
      PROVE  Fresh(m)'
  <2>1. m \in Note /\ Fresh(m)
    BY WatchAssumption DEF WatchInv
  <2>2. CASE m = n
    <3>1. read'[m] = disk[m] /\ ~Upserting(m)
      BY <1>1, <2>1, <2>2
    <3> QED BY <1>1, <2>1, <3>1 DEF Fresh, Upserting
  <2>3. CASE m # n
    <3>1. read'[m] = read[m] /\ (m \in armed' <=> m \in armed)
      BY <1>1, <2>1, <2>3
    <3> QED BY <1>1, <2>1, <3>1 DEF Fresh, Waiting, Upserting
  <2> QED BY <2>2, <2>3
<1> QED BY <1>2, <1>3

\* The ingestion of one note by the watcher keeps WatchInv.
LEMMA IngestedFresh ==
    ASSUME WatchInv, NEW n \in Note, Ingested(n)
    PROVE  OffIsIdle' /\ \A m \in Watched : Fresh(m)'
<1>1. /\ disk' = disk /\ watching' = watching /\ events' = events /\ armed' = armed
      /\ ingest' = ingest /\ missed' = missed /\ read[n] # None
      /\ read' = [read EXCEPT ![n] = None] /\ rows' = [rows EXCEPT ![n] = read[n]]
      /\ read \in [Note -> Stored] /\ rows \in [Note -> Stored]
  BY DEF Ingested, UpsertParsedNote, UpsertNoteRow, WatchInv, Types
<1>2. OffIsIdle'
  BY <1>1 DEF OffIsIdle, WatchInv
<1>3. ASSUME NEW m \in Watched
      PROVE  Fresh(m)'
  <2>1. m \in Note /\ Fresh(m)
    BY WatchAssumption DEF WatchInv
  <2>2. CASE m = n
    <3>1. read'[m] = None /\ rows'[m] = read[m] /\ read[m] # None
      BY <1>1, <2>1, <2>2
    <3> QED BY <1>1, <2>1, <3>1 DEF Fresh, Waiting, Upserting
  <2>3. CASE m # n
    <3>1. read'[m] = read[m] /\ rows'[m] = rows[m]
      BY <1>1, <2>1, <2>3
    <3> QED BY <1>1, <2>1, <3>1 DEF Fresh, Waiting, Upserting
  <2> QED BY <2>2, <2>3
<1> QED BY <1>2, <1>3

(***************************************************************************)
(* A pull, and an ingestion that prunes: the note is missed if it is on    *)
(* disk.                                                                   *)
(***************************************************************************)
LEMMA MissedFresh ==
    ASSUME WatchInv, NEW n \in Note, (\E c \in Stored : Pull(n, c)) \/ Prune(n)
    PROVE  OffIsIdle' /\ \A m \in Watched : Fresh(m)'
<1>1. /\ disk' = disk /\ watching' = watching /\ events' = events /\ armed' = armed
      /\ read' = read
      /\ \A m \in Note \ {n} : rows'[m] = rows[m]
      /\ disk[n] # None => n \in missed'
      /\ missed \subseteq missed'
      /\ \A m \in Note : Upserting(m)' => Upserting(m) /\ ingest'.read = ingest.read
  BY DEF Pull, Prune, DeleteNoteByPath, watcher, WatchInv, Types, Upserting, Ingestions
<1>2. OffIsIdle'
  BY <1>1 DEF OffIsIdle, WatchInv
<1>3. ASSUME NEW m \in Watched
      PROVE  Fresh(m)'
  <2>1. m \in Note /\ Fresh(m)
    BY WatchAssumption DEF WatchInv
  <2>2. CASE m = n
    BY <1>1, <2>1, <2>2 DEF Fresh, Waiting
  <2>3. CASE m # n
    <3>1. rows'[m] = rows[m]
      BY <1>1, <2>1, <2>3
    <3> QED BY <1>1, <2>1, <3>1 DEF Fresh, Waiting
  <2> QED BY <2>2, <2>3
<1> QED BY <1>2, <1>3

(***************************************************************************)
(* Ingestion: what it holds is what the file said when it was read, and a  *)
(* change of the file since is queued or missed.                           *)
(***************************************************************************)
LEMMA ReadFresh ==
    ASSUME WatchInv,
           \/ WatchStart \/ IngestStart \/ IngestStop \/ IngestRead
           \/ GetAllNotePaths \/ IngestDone \/ UNCHANGED vars
    PROVE  OffIsIdle' /\ \A m \in Watched : Fresh(m)'
<1> USE DEF WatchStart, IngestStart, IngestStop, IngestRead, GetAllNotePaths, IngestDone,
            vars, watcher, database, Idle
<1>1. /\ disk' = disk /\ events' = events /\ armed' = armed /\ rows' = rows
      /\ read' = read /\ missed' = missed /\ watching \in BOOLEAN
      /\ watching' = watching \/ watching' = TRUE
  BY DEF WatchInv, Types
<1>2. \A m \in Note : Upserting(m)' =>
         \/ ingest'.read = disk[m]
         \/ Upserting(m) /\ ingest'.read = ingest.read
  <2>1. CASE IngestRead
    <3>1. \/ ingest'.at = "walk"
          \/ ingest'.walk = ingest.walk /\ ingest'.read = disk[Head(ingest.walk)]
      BY <2>1 DEF WatchInv, Types, Ingestions
    <3> QED BY <3>1 DEF Upserting
  <2>2. CASE IngestStart
    <3>1. ingest'.at = "walk"
      BY <2>2
    <3> QED BY <3>1 DEF Upserting
  <2>3. CASE GetAllNotePaths
    BY <2>3 DEF Upserting, WatchInv, Types, Ingestions
  <2>4. CASE IngestStop \/ IngestDone
    <3>1. \/ ingest' = Idle
          \/ ingest' = [at |-> "done", walk |-> <<>>, seen |-> {}, read |-> None,
                        doomed |-> {}, had |-> ingest.had]
      BY <2>4
    <3> QED BY <3>1 DEF Upserting
  <2>5. CASE WatchStart \/ UNCHANGED vars
    BY <2>5 DEF Upserting
  <2> QED BY <2>1, <2>2, <2>3, <2>4, <2>5
<1>3. OffIsIdle'
  BY <1>1 DEF OffIsIdle, WatchInv
<1>4. ASSUME NEW m \in Watched
      PROVE  Fresh(m)'
  <2>1. m \in Note /\ Fresh(m)
    BY WatchAssumption DEF WatchInv
  <2> QED BY <1>1, <1>2, <2>1 DEF Fresh, Waiting
<1> QED BY <1>3, <1>4

\* Storing the head of the walk keeps WatchInv.
LEMMA UpsertFresh ==
    ASSUME WatchInv, IngestUpsert
    PROVE  OffIsIdle' /\ \A m \in Watched : Fresh(m)'
<1> DEFINE n == Head(ingest.walk)
<1>1. /\ disk' = disk /\ watching' = watching /\ events' = events /\ armed' = armed
      /\ read' = read /\ ingest'.at = "walk"
      /\ rows' = [rows EXCEPT ![n] = ingest.read] /\ rows \in [Note -> Stored]
      /\ missed' = IF disk[n] = ingest.read THEN missed \ {n} ELSE missed
  BY DEF IngestUpsert, UpsertParsedNote, UpsertNoteRow, watcher, WatchInv, Types, Ingestions
<1>2. n \in Note /\ Upserting(n)
  BY DEF IngestUpsert, WatchInv, Types, Ingestions, Upserting
<1> HIDE DEF n
<1>3. OffIsIdle'
  BY <1>1 DEF OffIsIdle, WatchInv
<1>4. ASSUME NEW m \in Watched
      PROVE  Fresh(m)'
  <2>1. m \in Note /\ Fresh(m) /\ ~Upserting(m)'
    BY <1>1, WatchAssumption DEF WatchInv, Upserting
  <2>2. CASE m = n
    <3>1. rows'[m] = ingest.read /\ (disk[m] # ingest.read => missed' = missed)
      BY <1>1, <2>1, <2>2
    <3> QED BY <1>1, <1>2, <2>1, <2>2, <3>1 DEF Fresh, Waiting
  <2>3. CASE m # n
    <3>1. rows'[m] = rows[m] /\ (m \in missed' <=> m \in missed)
      BY <1>1, <2>1, <2>3
    <3> QED BY <1>1, <2>1, <3>1 DEF Fresh, Waiting
  <2> QED BY <2>2, <2>3
<1> QED BY <1>3, <1>4

\* WatchInv is inductive: one case per action.
LEMMA WatchInvNext == WatchInv /\ [Next]_vars => WatchInv'
<1> SUFFICES ASSUME WatchInv, [Next]_vars PROVE WatchInv'
  OBVIOUS
<1>1. Types'
  BY TypesNext DEF WatchInv
<1>2. OffIsIdle' /\ \A m \in Watched : Fresh(m)'
  BY ChangeFresh, StopFresh, EventFresh, FireFresh, IngestedFresh, MissedFresh,
     ReadFresh, UpsertFresh DEF Next, Changes, Stored
<1> QED BY <1>1, <1>2 DEF WatchInv

(***************************************************************************)
(* Whatever the notes, the folders, the walk and the bounds, a note that   *)
(* was not changed behind the watcher's back is fresh (watch.Run).         *)
(***************************************************************************)
THEOREM NotesFresh == Spec => []WatchInv
BY InitWatchInv, WatchInvNext, PTL DEF Spec

(***************************************************************************)
(* When nothing is under way the database has what the files say: Settled, *)
(* for any notes, contents, folders, walk and bounds (watch.Run).          *)
(***************************************************************************)
THEOREM SettledHolds == Spec => []Settled
<1>1. WatchInv => Settled
  <2> SUFFICES ASSUME WatchInv, Quiet, NEW n \in Watched \ missed, disk[n] # None
               PROVE  rows[n] = disk[n]
    BY DEF Settled
  <2>1. n \in Note /\ Fresh(n) /\ read[n] = None
    BY WatchAssumption DEF WatchInv, Quiet
  <2>2. ~Waiting(n)
    BY DEF Quiet, Waiting, Mentions
  <2> QED BY <2>1, <2>2 DEF Fresh
<1> QED BY <1>1, NotesFresh, PTL

-----------------------------------------------------------------------------
(***************************************************************************)
(* An ingestion that nothing disturbed.  The notes that the rest of the    *)
(* walk does not come to are kept; what it has seen is what is on disk;    *)
(* while it prunes, what is not on disk and not doomed has no row.  All    *)
(* the time, of a note that has lost its row the deletion is queued.       *)
(***************************************************************************)
Kept(n) == disk[n] # None => rows[n] = disk[n] /\ disk[n] \in queued[n]

Walking ==
    /\ \A n \in Note \ Range(ingest.walk) : Kept(n) /\ (disk[n] # None => n \in ingest.seen)
    /\ \A n \in ingest.seen : disk[n] # None

Reading ==
    /\ ingest.read = disk[Head(ingest.walk)]
    /\ Head(ingest.walk) \in ingest.seen

Pruning ==
    /\ \A n \in Note : Kept(n)
    /\ \A n \in ingest.doomed : disk[n] = None
    /\ \A n \in Note \ ingest.doomed : disk[n] = None => rows[n] = None

Done == \A n \in Note : Kept(n) /\ (disk[n] = None => rows[n] = None)

Dropped(n) == n \in ingest.had /\ rows[n] = None => None \in queued[n]

Mirroring ==
    /\ \A n \in Note : Dropped(n)
    /\ ingest.at \in {"walk", "upsert"} => Walking
    /\ ingest.at = "upsert" => Reading
    /\ ingest.at = "prune" => Pruning
    /\ ingest.at = "done" => Done

MirrorInv == Types /\ (~disturbed => Mirroring)

\* The elements of a walk are its head and those of its tail.
LEMMA RangeTail ==
    ASSUME NEW s \in Seq(Note), s # <<>>
    PROVE  /\ Head(s) \in Note /\ Tail(s) \in Seq(Note)
           /\ Range(s) \subseteq {Head(s)} \cup Range(Tail(s))
<1> DEFINE t == Tail(s)
<1>1. /\ Len(s) \in Nat \ {0} /\ DOMAIN s = 1..Len(s) /\ Head(s) = s[1] /\ s[1] \in Note
      /\ t \in Seq(Note) /\ DOMAIN t = 1..(Len(s) - 1)
      /\ \A i \in 1..(Len(s) - 1) : t[i] = s[i + 1]
  OBVIOUS
<1> HIDE DEF t
<1>2. ASSUME NEW i \in 1..Len(s), i # 1
      PROVE  i - 1 \in DOMAIN t /\ t[i - 1] = s[i]
  BY <1>1, <1>2
<1>3. ASSUME NEW n \in Range(s), n # s[1]
      PROVE  n \in Range(t)
  <2>1. PICK i \in 1..Len(s) : s[i] = n
    BY <1>1 DEF Range
  <2>2. i - 1 \in DOMAIN t /\ t[i - 1] = n
    BY <1>2, <1>3, <2>1
  <2> QED BY <2>2 DEF Range
<1> QED BY <1>1, <1>3 DEF t

(***************************************************************************)
(* Every other step that touches the files or the database disturbs.       *)
(***************************************************************************)
LEMMA OthersDisturb ==
    ASSUME Types,
           \/ \E n \in Note : Changes(n) \/ Fire(n) \/ Ingested(n)
           \/ \E n \in Note, c \in Stored : Pull(n, c)
           \/ HandleGone
    PROVE  disturbed'
BY DEF Changes, Write, SaveByRename, RemoveNote, Rename, Change, Fire, Ingested, Pull,
       HandleGone

\* A run of ingestion starts with everything left to do.
LEMMA MirrorStart ==
    ASSUME Types, IngestStart
    PROVE  Mirroring'
<1>1. /\ ingest' = [at |-> "walk", walk |-> WalkOrder, seen |-> {}, read |-> None,
                     doomed |-> {}, had |-> {n \in Note : rows[n] # None}]
      /\ rows' = rows
  BY DEF IngestStart, Idle, database
<1>2. Walking'
  BY <1>1, WatchAssumption DEF Walking
<1>3. \A n \in Note : Dropped(n)'
  BY <1>1 DEF Dropped
<1> QED BY <1>1, <1>2, <1>3 DEF Mirroring

\* Reading a note leaves it at the head of the walk.
LEMMA MirrorRead ==
    ASSUME Types, Mirroring, IngestRead
    PROVE  Mirroring'
<1> DEFINE n == Head(ingest.walk)
<1>1. /\ n \in Note /\ Range(ingest.walk) \subseteq {n} \cup Range(Tail(ingest.walk))
      /\ Walking /\ ingest \in Ingestions /\ \A m \in Note : Dropped(m)
  <2>1. ingest.walk \in Seq(Note) /\ ingest.walk # <<>> /\ ingest \in Ingestions
    BY DEF IngestRead, Types, Ingestions
  <2>2. Walking /\ \A m \in Note : Dropped(m)
    BY DEF IngestRead, Mirroring
  <2> QED BY <2>1, <2>2, RangeTail
<1>2. disk' = disk /\ rows' = rows /\ queued' = queued /\ ingest'.had = ingest.had
  BY <1>1 DEF IngestRead, database, Ingestions
<1>5. \A m \in Note : Dropped(m)'
  BY <1>1, <1>2 DEF Dropped
<1>3. CASE disk[n] = None
  <2>1. ingest'.at = "walk" /\ ingest'.walk = Tail(ingest.walk) /\ ingest'.seen = ingest.seen
    BY <1>1, <1>3 DEF IngestRead, Ingestions
  <2>2. \A m \in Note \ Range(Tail(ingest.walk)) :
          Kept(m) /\ (disk[m] # None => m \in ingest.seen)
    <3>1. ASSUME NEW m \in Note \ Range(Tail(ingest.walk)), m = n
          PROVE  Kept(m) /\ (disk[m] # None => m \in ingest.seen)
      BY <1>3, <3>1 DEF Kept
    <3>2. ASSUME NEW m \in Note \ Range(Tail(ingest.walk)), m # n
          PROVE  Kept(m) /\ (disk[m] # None => m \in ingest.seen)
      <4>1. m \notin Range(ingest.walk)
        BY <1>1, <3>2
      <4> QED BY <1>1, <4>1 DEF Walking
    <3> QED BY <3>1, <3>2
  <2>3. Walking'
    BY <1>1, <1>2, <2>1, <2>2 DEF Walking, Kept
  <2> QED BY <1>5, <2>1, <2>3 DEF Mirroring
<1>4. CASE disk[n] # None
  <2>1. /\ ingest'.at = "upsert" /\ ingest'.walk = ingest.walk
        /\ ingest'.seen = ingest.seen \cup {n} /\ ingest'.read = disk[n]
    BY <1>1, <1>4 DEF IngestRead, Ingestions
  <2>2. Walking'
    BY <1>1, <1>2, <1>4, <2>1 DEF Walking, Kept
  <2>3. Reading'
    BY <1>2, <2>1 DEF Reading
  <2> QED BY <1>5, <2>1, <2>2, <2>3 DEF Mirroring
<1> QED BY <1>3, <1>4

\* A stored note is done: its row is what was read and its change is queued.
LEMMA MirrorUpsert ==
    ASSUME Types, Mirroring, IngestUpsert
    PROVE  Mirroring'
<1> DEFINE n == Head(ingest.walk)
<1>1. /\ n \in Note /\ Range(ingest.walk) \subseteq {n} \cup Range(Tail(ingest.walk))
      /\ Walking /\ Reading /\ ingest \in Ingestions /\ \A m \in Note : Dropped(m)
  <2>1. ingest.walk \in Seq(Note) /\ ingest.walk # <<>> /\ ingest \in Ingestions
    BY DEF IngestUpsert, Types, Ingestions
  <2>2. Walking /\ Reading /\ \A m \in Note : Dropped(m)
    BY DEF IngestUpsert, Mirroring
  <2> QED BY <2>1, <2>2, RangeTail
<1>2. /\ disk' = disk
      /\ rows' = [rows EXCEPT ![n] = ingest.read] /\ rows \in [Note -> Stored]
      /\ queued' = [queued EXCEPT ![n] = @ \cup {ingest.read}]
      /\ queued \in [Note -> SUBSET Stored]
  BY DEF IngestUpsert, UpsertParsedNote, UpsertNoteRow, Enqueue, Types
<1>3. /\ ingest'.at = "walk" /\ ingest'.walk = Tail(ingest.walk)
      /\ ingest'.seen = ingest.seen /\ ingest'.had = ingest.had
  BY <1>1 DEF IngestUpsert, Ingestions
<1>4. ingest.read = disk[n] /\ n \in ingest.seen /\ disk[n] # None
  BY <1>1 DEF Reading, Walking
<1> HIDE DEF n
<1>7. \A m \in Note : Dropped(m)'
  BY <1>1, <1>2, <1>3, <1>4 DEF Dropped
<1>5. ASSUME NEW m \in Note \ Range(Tail(ingest.walk))
      PROVE  Kept(m)' /\ (disk[m] # None => m \in ingest.seen)
  <2>1. CASE m = n
    BY <1>1, <1>2, <1>4, <2>1 DEF Kept
  <2>2. CASE m # n
    <3>1. Kept(m) /\ (disk[m] # None => m \in ingest.seen)
      <4>1. m \notin Range(ingest.walk)
        BY <1>1, <2>2
      <4> QED BY <1>1, <4>1 DEF Walking
    <3> QED BY <1>1, <1>2, <2>2, <3>1 DEF Kept
  <2> QED BY <2>1, <2>2
<1>6. Walking'
  BY <1>1, <1>2, <1>3, <1>5 DEF Walking
<1> QED BY <1>3, <1>6, <1>7 DEF Mirroring

\* The rows listed for pruning are those without a file.
LEMMA MirrorDoomed ==
    ASSUME Types, Mirroring, GetAllNotePaths
    PROVE  Mirroring'
<1>1. /\ disk' = disk /\ rows' = rows /\ queued' = queued
      /\ ingest'.at = "prune"
      /\ ingest'.doomed = {n \in Note \ ingest.seen : rows[n] # None}
      /\ Walking /\ ingest.walk = <<>>
      /\ ingest'.had = ingest.had /\ \A n \in Note : Dropped(n)
  BY DEF GetAllNotePaths, database, Types, Ingestions, Mirroring
<1>2. Range(ingest.walk) = {}
  BY <1>1 DEF Range
<1>3. Pruning'
  BY <1>1, <1>2 DEF Walking, Pruning, Kept
<1>4. \A n \in Note : Dropped(n)'
  BY <1>1 DEF Dropped
<1> QED BY <1>1, <1>3, <1>4 DEF Mirroring

\* A pruned row is gone and its deletion is queued.
LEMMA MirrorPrune ==
    ASSUME Types, Mirroring, NEW n \in Note, Prune(n)
    PROVE  Mirroring'
<1>1. /\ disk' = disk /\ rows' = [rows EXCEPT ![n] = None] /\ rows \in [Note -> Stored]
      /\ queued' = [queued EXCEPT ![n] = @ \cup {None}] /\ queued \in [Note -> SUBSET Stored]
      /\ ingest'.at = "prune" /\ ingest'.doomed = ingest.doomed \ {n}
      /\ n \in ingest.doomed /\ Pruning
      /\ ingest'.had = ingest.had /\ \A m \in Note : Dropped(m)
  BY DEF Prune, DeleteNoteByPath, Enqueue, Types, Ingestions, Mirroring
<1>2. Pruning'
  BY <1>1 DEF Pruning, Kept
<1>3. \A m \in Note : Dropped(m)'
  BY <1>1 DEF Dropped
<1> QED BY <1>1, <1>2, <1>3 DEF Mirroring

\* At the end nothing is left to do.
LEMMA MirrorDone ==
    ASSUME Types, Mirroring, IngestDone
    PROVE  Mirroring'
<1>1. /\ disk' = disk /\ rows' = rows /\ queued' = queued
      /\ Pruning /\ ingest.doomed = {} /\ \A n \in Note : Dropped(n)
  BY DEF IngestDone, database, Mirroring
<1>2. ingest' = [at |-> "done", walk |-> <<>>, seen |-> {}, read |-> None,
                 doomed |-> {}, had |-> ingest.had]
  BY DEF IngestDone, Idle
<1>3. Done'
  BY <1>1 DEF Pruning, Done, Kept
<1>4. \A n \in Note : Dropped(n)'
  BY <1>1, <1>2 DEF Dropped
<1> QED BY <1>2, <1>3, <1>4 DEF Mirroring

\* MirrorInv is inductive: one case per action.
LEMMA MirrorNext == MirrorInv /\ [Next]_vars => MirrorInv'
<1> SUFFICES ASSUME MirrorInv, [Next]_vars, ~disturbed' PROVE Mirroring'
  BY TypesNext DEF MirrorInv
<1>1. Types
  BY DEF MirrorInv
<1>2. CASE IngestStart
  BY <1>1, <1>2, MirrorStart
<1>3. CASE IngestStop
  BY <1>3 DEF IngestStop, Idle, Mirroring, Dropped
<1>4. CASE \/ IngestRead \/ IngestUpsert \/ GetAllNotePaths \/ IngestDone
           \/ \E n \in Note : Prune(n)
  <2>1. Mirroring
    BY <1>4 DEF MirrorInv, IngestRead, IngestUpsert, GetAllNotePaths, IngestDone, Prune
  <2> QED BY <1>1, <1>4, <2>1, MirrorRead, MirrorUpsert, MirrorDoomed, MirrorDone, MirrorPrune
<1>5. CASE WatchStart \/ WatchStop \/ Debounce \/ UNCHANGED vars
  <2>1. /\ disk' = disk /\ rows' = rows /\ queued' = queued /\ ingest' = ingest
        /\ disturbed' = disturbed
    BY <1>5 DEF WatchStart, WatchStop, Debounce, vars, database
  <2> QED BY <2>1
          DEF MirrorInv, Mirroring, Dropped, Walking, Reading, Pruning, Done, Kept
<1>6. CASE \/ \E n \in Note : Changes(n) \/ Fire(n) \/ Ingested(n)
           \/ \E n \in Note, c \in Stored : Pull(n, c)
           \/ HandleGone
  BY <1>1, <1>6, OthersDisturb
<1> QED BY <1>2, <1>3, <1>4, <1>5, <1>6 DEF Next, Changes, Stored

(***************************************************************************)
(* An ingestion that nothing disturbed leaves the database with the notes  *)
(* on disk and no other, and what every note there says and the deletion   *)
(* of every note it pruned are queued: IngestMirrors, for any notes,       *)
(* contents and walk that comes to every note (ingestion.Run).             *)
(***************************************************************************)
THEOREM IngestMirrorsHolds == Spec => []IngestMirrors
<1>1. Init => MirrorInv
  <2>1. Init => ingest = Idle
    BY DEF Init
  <2>2. Init => Mirroring
    BY <2>1 DEF Idle, Mirroring, Dropped
  <2> QED BY <2>2, InitTypes DEF MirrorInv
<1>2. MirrorInv => IngestMirrors
  <2> SUFFICES ASSUME MirrorInv, ingest.at = "done", ~disturbed
               PROVE  /\ rows = disk
                      /\ \A n \in Note : disk[n] # None \/ n \in ingest.had
                            => disk[n] \in queued[n]
    BY DEF IngestMirrors
  <2>1. /\ Done /\ disk \in [Note -> Stored] /\ rows \in [Note -> Stored]
        /\ \A n \in Note : Dropped(n)
    BY DEF MirrorInv, Mirroring, Types
  <2>2. \A n \in Note : rows[n] = disk[n]
    BY <2>1 DEF Done, Kept
  <2>3. ASSUME NEW n \in Note, disk[n] # None \/ n \in ingest.had
        PROVE  disk[n] \in queued[n]
    <3>1. CASE disk[n] # None
      BY <2>1, <3>1 DEF Done, Kept
    <3>2. CASE disk[n] = None
      BY <2>1, <2>2, <2>3, <3>2 DEF Dropped
    <3> QED BY <3>1, <3>2
  <2> QED BY <2>1, <2>2, <2>3
<1> QED BY <1>1, <1>2, MirrorNext, PTL DEF Spec
=============================================================================
