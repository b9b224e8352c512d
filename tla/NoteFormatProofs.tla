--------------------------- MODULE NoteFormatProofs ---------------------------
(***************************************************************************)
(* Theorems about NoteFormat, for any folders, notes, ids, walk, schema    *)
(* and bounds.                                                             *)
(*                                                                         *)
(* HandInv, the inductive invariant, says what the formatter holds: a hub  *)
(* while it formats a hub and another note otherwise, which is there and   *)
(* is as it was read, unless it was saved since.  RegisterInv says the     *)
(* same of a registration and its scan.  What becomes of the lines of a    *)
(* note does not matter here.                                              *)
(***************************************************************************)
EXTENDS NoteFormat, FiniteSetTheorems, TLAPS

-----------------------------------------------------------------------------
\* A set of numbers that is not empty has a smallest element.
LEMMA SmallestNumber ==
    ASSUME NEW S \in SUBSET Nat, S # {}
    PROVE  \E m \in S : \A i \in S : m <= i
<1>1. PICK m \in S : \A i \in S : <<i, m>> \notin OpToRel(<, Nat)
  BY NatLessThanWellFounded, WFMin, Zenon
<1>2. \A i \in S : ~(i < m)
  BY <1>1, Zenon DEF OpToRel
<1> QED BY <1>2

-----------------------------------------------------------------------------
(***************************************************************************)
(* The inductive invariant.                                                *)
(***************************************************************************)
OnHub == {"hub", "children", "plan"}
OnNote == {"id", "headings"}

Fields == {"at", "all", "walk", "children", "ids", "names", "buf", "found", "aim"}

Shapes ==
    /\ DOMAIN cmd = Fields
    /\ cmd.walk \subseteq DOMAIN WalkOrder
    /\ \A p \in DOMAIN tree : IsNote(tree[p])

Walks ==
    /\ cmd.at \in OnHub => IsHub(Here)
    /\ cmd.at \in OnNote => ~IsHub(Here)
    /\ cmd.at \in (OnHub \cup OnNote) \ {"hub"} => Here \in DOMAIN tree

Holds == InHand => IsNote(cmd.buf) /\ (~overtaken => cmd.buf = tree[Here])

HandInv == Shapes /\ Walks /\ Holds

RegisterInv ==
    ~disturbed =>
        /\ cmd.at = "replace" => cmd.ids = Unique(tree)
        /\ cmd.at = "registered" =>
              \A entry \in Unique(tree) :
                  \/ entry \in registered
                  \/ Conflict(entry[1], entry[2], "NOTE_NOT_IN_DB") \in conflicts

-----------------------------------------------------------------------------
(***************************************************************************)
(* The first of the places that are left.                                  *)
(***************************************************************************)
LEMMA FirstPlace ==
    ASSUME NEW walk \in SUBSET DOMAIN WalkOrder, walk # {}
    PROVE  Min(walk) \in walk /\ \A i \in walk : Min(walk) <= i
<1>1. DOMAIN WalkOrder \subseteq Nat
  BY WalkAssumption
<1>2. \E m \in walk : \A i \in walk : m <= i
  BY <1>1, SmallestNumber
<1> QED BY <1>2 DEF Min

(***************************************************************************)
(* ensureHubFrontmatter and EnsureMetaID give a note an id only if it has  *)
(* none.                                                                   *)
(***************************************************************************)
LEMMA EnsuredID ==
    ASSUME NEW note, IsNote(note), NEW id, NEW name
    PROVE  /\ IsNote(EnsureMetaID(note, id))
           /\ \/ ExtractID(EnsureMetaID(note, id), name) = ExtractID(note, name)
              \/ /\ ReadMetaID(note) = None /\ id # name
                 /\ ExtractID(EnsureMetaID(note, id), name) = id
<1>1. CASE note.front = None
  BY <1>1 DEF EnsureMetaID, IsNote, Note, FrontMatter, ExtractID, ReadMetaID
<1>2. CASE note.front # None /\ note.front.id = None
  <2> DEFINE front == FrontMatter(id, note.front.keys)
             new == [note EXCEPT !.front = front]
  <2>1. EnsureMetaID(note, id) = new
    BY <1>2 DEF EnsureMetaID
  <2>2. front.id = id /\ DOMAIN front = {"id", "keys"}
    BY DEF FrontMatter
  <2> HIDE DEF front
  <2>3. new.front = front /\ DOMAIN new = {"front", "lines"}
    BY DEF IsNote
  <2> HIDE DEF new
  <2> QED BY <1>2, <2>1, <2>2, <2>3 DEF IsNote, ExtractID, ReadMetaID
<1>3. CASE note.front # None /\ note.front.id # None
  BY <1>3 DEF EnsureMetaID
<1> QED BY <1>1, <1>2, <1>3

(***************************************************************************)
(* New lines leave the front matter alone.                                 *)
(***************************************************************************)
LEMMA OtherLines ==
    ASSUME NEW note, IsNote(note), NEW lines, NEW name
    PROVE  LET new == [note EXCEPT !.lines = lines] IN
           /\ IsNote(new)
           /\ ExtractID(new, name) = ExtractID(note, name)
  BY DEF IsNote, ExtractID, ReadMetaID

\* So does normalizeMarkdownHeadingLines.
LEMMA HeadingsKeepID ==
    ASSUME NEW note, IsNote(note), NEW title, NEW name
    PROVE  /\ IsNote(NormalizeHeadings(note, title))
           /\ ExtractID(NormalizeHeadings(note, title), name) = ExtractID(note, name)
  BY OtherLines DEF NormalizeHeadings

\* A hub that is planned has the id that it had, or the one it was given.
LEMMA PlannedID ==
    ASSUME NEW hub, IsNote(hub), NEW id, NEW title, NEW allowed, NEW name
    PROVE  LET planned == PlanUpdate(hub, id, title, allowed) IN
           /\ IsNote(planned)
           /\ \/ ExtractID(planned, name) = ExtractID(hub, name)
              \/ /\ ReadMetaID(hub) = None /\ id # name
                 /\ ExtractID(planned, name) = id
<1> DEFINE named == EnsureMetaID(hub, id)
           sections == [named EXCEPT !.lines = NormalizeSections(named.lines)]
           titled == NormalizeHeadings(sections, title)
           planned == [titled EXCEPT !.lines =
                          TrimBlanks(ReconcileTopics(EnsureHeaders(titled.lines), allowed))]
<1>1. IsNote(named)
  BY EnsuredID
<1>2. IsNote(sections) /\ ExtractID(sections, name) = ExtractID(named, name)
  BY <1>1, OtherLines
<1>3. IsNote(titled) /\ ExtractID(titled, name) = ExtractID(sections, name)
  BY <1>2, HeadingsKeepID
<1>4. PlanUpdate(hub, id, title, allowed) = hub \/ PlanUpdate(hub, id, title, allowed) = planned
  BY DEF PlanUpdate
<1> HIDE DEF titled
<1>5. IsNote(planned) /\ ExtractID(planned, name) = ExtractID(titled, name)
  BY <1>3, OtherLines
<1> HIDE DEF named, sections, planned
<1>6. \/ ExtractID(named, name) = ExtractID(hub, name)
      \/ ReadMetaID(hub) = None /\ id # name /\ ExtractID(named, name) = id
  BY EnsuredID DEF named
<1> QED BY <1>2, <1>3, <1>4, <1>5, <1>6

-----------------------------------------------------------------------------
(***************************************************************************)
(* The next file of the walk is a hub, or a note that is there: its        *)
(* folder was entered, for a folder's hub comes before what is in it.      *)
(***************************************************************************)
LEMMA NextFileEffect ==
    ASSUME NEW rest \in SUBSET DOMAIN WalkOrder
    PROVE  LET next == NextFile(rest)
               file == WalkOrder[Min(next.walk)]
           IN
           /\ DOMAIN next = Fields
           /\ next.walk \subseteq DOMAIN WalkOrder
           /\ next.at \in {"rebuild", "hub", "id"}
           /\ next.at = "hub" => IsHub(file)
           /\ next.at = "id" => ~IsHub(file) /\ file \in DOMAIN tree
           /\ next.buf = None
<1> DEFINE Entered(d) == \A i \in rest : d = Root \/ WalkOrder[i] # Hub(d)
           Found(p) == /\ Visited(p)
                       /\ IsHub(p) \/ (cmd.all /\ (Entered(p.dir) => p \in DOMAIN tree))
           left == {i \in rest : Found(WalkOrder[i])}
           file == WalkOrder[Min(left)]
           at == IF left = {} THEN "rebuild" ELSE IF IsHub(file) THEN "hub" ELSE "id"
           next == [Idle EXCEPT !.at = at, !.all = cmd.all, !.walk = left, !.aim = cmd.aim]
<1>1. NextFile(rest) = next
  BY DEF NextFile
<1>2. /\ DOMAIN next = Fields
      /\ next.at = at /\ next.walk = left /\ next.buf = None
  BY DEF Idle, Fields
<1>3. left \subseteq DOMAIN WalkOrder
  OBVIOUS
<1>4. ASSUME left # {}, ~IsHub(file)
      PROVE  file \in DOMAIN tree
  <2> DEFINE m == Min(left)
             d == file.dir
  <2>1. m \in left /\ \A i \in left : m <= i
    BY <1>3, <1>4, FirstPlace
  <2>2. Visited(file) /\ (Entered(d) => file \in DOMAIN tree)
    BY <1>4, <2>1
  <2>3. SUFFICES ASSUME NEW i \in rest, d # Root, WalkOrder[i] = Hub(d)
                 PROVE  FALSE
    BY <2>2
  <2>4. IsHub(Hub(d)) /\ Visited(Hub(d))
    BY <2>2, <2>3 DEF Visited, Hub, Path, IsHub
  <2>5. m <= i
    BY <2>1, <2>3, <2>4
  <2>6. PICK j \in 1..(m - 1) : WalkOrder[j] = Hub(d)
    BY <1>3, <1>4, <2>1, <2>3, WalkAssumption
  <2>7. m \in Nat /\ i \in Nat /\ 1 <= m /\ m <= Len(WalkOrder)
        /\ i \in DOMAIN WalkOrder /\ DOMAIN WalkOrder = 1..Len(WalkOrder)
        /\ Len(WalkOrder) \in Nat
    BY <1>3, <2>1, WalkAssumption
  <2>8. j \in DOMAIN WalkOrder /\ j < m
    BY <2>7
  <2>9. j = i
    BY <2>3, <2>6, <2>7, <2>8, WalkAssumption
  <2> QED BY <2>5, <2>7, <2>8, <2>9
<1> HIDE DEF left
<1> QED BY <1>1, <1>2, <1>3, <1>4

-----------------------------------------------------------------------------
(***************************************************************************)
(* HandInv is inductive.                                                   *)
(***************************************************************************)
\* At first no command runs, and there are only notes.
LEMMA HandInit == Init => HandInv
<1> SUFFICES ASSUME Init PROVE HandInv
  OBVIOUS
<1>1. /\ DOMAIN cmd = Fields
      /\ cmd.at = "idle" /\ cmd.walk = {}
  BY DEF Init, Idle, Fields
<1>2. \A p \in DOMAIN tree : IsNote(tree[p])
  BY NotesAssumption DEF Init
<1> QED BY <1>1, <1>2 DEF HandInv, Shapes, Walks, Holds, InHand, OnHub, OnNote

\* A command that is at no file holds nothing.
LEMMA HandElsewhere ==
    ASSUME HandInv, NEW to, cmd' = to,
           DOMAIN to = Fields,
           to.walk \subseteq DOMAIN WalkOrder,
           to.at \notin OnHub \cup OnNote,
           \A p \in DOMAIN tree' : IsNote(tree'[p])
    PROVE  HandInv'
  BY DEF HandInv, Shapes, Walks, Holds, InHand, OnHub, OnNote

\* The walk goes on, and nothing is in hand.
LEMMA HandNextFile ==
    ASSUME HandInv, NEW rest \in SUBSET DOMAIN WalkOrder, cmd' = NextFile(rest),
           DOMAIN tree \subseteq DOMAIN tree',
           \A p \in DOMAIN tree' : IsNote(tree'[p])
    PROVE  HandInv'
<1>1. Shapes'
  BY NextFileEffect DEF Shapes
<1>2. Walks' /\ ~InHand'
  BY NextFileEffect DEF Walks, InHand, OnHub, OnNote, Here
<1> QED BY <1>1, <1>2 DEF HandInv, Holds

\* One more file is written, or one is written anew.
LEMMA WithNote ==
    ASSUME Shapes, NEW p, NEW note, IsNote(note), tree' = With(tree, p, note)
    PROVE  /\ DOMAIN tree' = DOMAIN tree \cup {p}
           /\ tree'[p] = note
           /\ \A q \in DOMAIN tree : q # p => tree'[q] = tree[q]
           /\ \A q \in DOMAIN tree' : IsNote(tree'[q])
  BY DEF Shapes, With

\* The hub that is created is a note.
LEMMA DefaultIsNote == IsNote(DefaultHub)
  BY DEF DefaultHub, IsNote, Note, FrontMatter

\* The user saves a note: what is in hand may be overtaken now.
LEMMA HandSave ==
    ASSUME HandInv, NEW p, NEW note \in Saved, Save(p, note)
    PROVE  HandInv'
<1>1. /\ IsNote(note) /\ tree' = With(tree, p, note)
      /\ cmd' = cmd /\ Here' = Here
  BY NotesAssumption DEF Save, Here
<1>2. /\ DOMAIN tree' = DOMAIN tree \cup {p}
      /\ \A q \in DOMAIN tree : q # p => tree'[q] = tree[q]
      /\ \A q \in DOMAIN tree' : IsNote(tree'[q])
  BY <1>1, WithNote DEF HandInv
<1>3. Shapes' /\ Walks'
  BY <1>1, <1>2 DEF HandInv, Shapes, Walks
<1>4. Holds'
  <2> SUFFICES ASSUME InHand'
               PROVE  IsNote(cmd'.buf) /\ (~overtaken' => cmd'.buf = tree'[Here])
    BY <1>1 DEF Holds
  <2>1. InHand /\ Here \in DOMAIN tree
    BY <1>1 DEF InHand, HandInv, Walks, OnHub, OnNote
  <2>2. overtaken' = (overtaken \/ Here = p)
    BY <2>1 DEF Save
  <2> QED BY <1>1, <1>2, <2>1, <2>2 DEF HandInv, Holds
<1> QED BY <1>3, <1>4 DEF HandInv

\* A hub that is missing is created with the required sections.
LEMMA HandHub ==
    ASSUME HandInv, EnsureHubFile
    PROVE  HandInv'
<1> DEFINE to == [cmd EXCEPT !.at = "children", !.children = SubFolders(Here.dir),
                             !.names = NoteNames(tree, Here.dir)]
<1>1. /\ cmd' = to /\ cmd.at = "hub" /\ IsHub(Here)
      /\ to.at = "children" /\ to.walk = cmd.walk
      /\ DOMAIN to = DOMAIN cmd
  BY DEF EnsureHubFile, Goes, At, HandInv, Shapes, Walks, OnHub
<1> HIDE DEF to
<1>2. Here' = Here /\ ~InHand'
  BY <1>1 DEF Here, InHand
<1>3. /\ Here \in DOMAIN tree'
      /\ \A q \in DOMAIN tree' : IsNote(tree'[q])
  <2>1. CASE Here \in DOMAIN tree
    BY <2>1 DEF EnsureHubFile, Reads, files, HandInv, Shapes
  <2>2. CASE Here \notin DOMAIN tree
    <3>1. tree' = With(tree, Here, DefaultHub)
      BY <2>2 DEF EnsureHubFile, Writes
    <3> QED BY <3>1, WithNote, DefaultIsNote DEF HandInv
  <2> QED BY <2>1, <2>2
<1>4. Shapes' /\ Walks'
  BY <1>1, <1>2, <1>3 DEF HandInv, Shapes, Walks, OnHub, OnNote
<1> QED BY <1>2, <1>4 DEF HandInv, Holds

\* So are the hubs of the folders in it.
LEMMA HandChild ==
    ASSUME HandInv, NEW d \in Dir, EnsureChildHub(d)
    PROVE  HandInv'
<1> DEFINE hub == Hub(d)
           note == IF hub \in DOMAIN tree THEN tree[hub] ELSE DefaultHub
           to == [cmd EXCEPT !.children = cmd.children \ {d},
                             !.ids = cmd.ids \cup {ExtractID(note, NameOf[d])}]
<1>1. /\ cmd' = to /\ cmd.at = "children" /\ IsHub(Here) /\ Here \in DOMAIN tree
      /\ to.at = "children" /\ to.walk = cmd.walk
      /\ DOMAIN to = DOMAIN cmd
  BY DEF EnsureChildHub, Goes, At, HandInv, Shapes, Walks, OnHub
<1> HIDE DEF to
<1>2. Here' = Here /\ ~InHand'
  BY <1>1 DEF Here, InHand
<1>3. /\ DOMAIN tree \subseteq DOMAIN tree'
      /\ \A q \in DOMAIN tree' : IsNote(tree'[q])
  <2>1. CASE hub \in DOMAIN tree
    BY <2>1 DEF EnsureChildHub, Reads, files, HandInv, Shapes
  <2>2. CASE hub \notin DOMAIN tree
    <3>1. tree' = With(tree, hub, DefaultHub)
      BY <2>2 DEF EnsureChildHub, Writes
    <3> QED BY <3>1, WithNote, DefaultIsNote DEF HandInv
  <2> QED BY <2>1, <2>2
<1>4. Shapes' /\ Walks'
  BY <1>1, <1>2, <1>3 DEF HandInv, Shapes, Walks, OnHub, OnNote
<1> QED BY <1>2, <1>4 DEF HandInv, Holds

\* The hub is read, and in hand from now on.
LEMMA HandReadHub ==
    ASSUME HandInv, ReadHub
    PROVE  HandInv'
<1> DEFINE to == [cmd EXCEPT !.at = "plan", !.buf = tree[Here]]
<1>1. /\ cmd' = to /\ IsHub(Here) /\ Here \in DOMAIN tree
      /\ to.at = "plan" /\ to.walk = cmd.walk /\ to.buf = tree[Here]
      /\ DOMAIN to = DOMAIN cmd
  BY DEF ReadHub, Goes, At, HandInv, Shapes, Walks, OnHub
<1> HIDE DEF to
<1>2. Here' = Here /\ tree' = tree
  BY <1>1 DEF Here, ReadHub, Opens, files
<1>3. Shapes' /\ Walks' /\ Holds'
  BY <1>1, <1>2 DEF HandInv, Shapes, Walks, Holds, OnHub, OnNote
<1> QED BY <1>3 DEF HandInv

\* So is another note, twice.
LEMMA HandReadNote ==
    ASSUME HandInv, ReadNote
    PROVE  HandInv'
<1> DEFINE to == [cmd EXCEPT !.buf = tree[Here]]
<1>1. /\ cmd' = to /\ cmd.at \in OnNote /\ ~IsHub(Here) /\ Here \in DOMAIN tree
      /\ to.at = cmd.at /\ to.walk = cmd.walk /\ to.buf = tree[Here]
      /\ DOMAIN to = DOMAIN cmd
  BY DEF ReadNote, Goes, HandInv, Shapes, Walks, OnHub, OnNote
<1> HIDE DEF to
<1>2. Here' = Here /\ tree' = tree
  BY <1>1 DEF Here, ReadNote, Opens, files
<1>3. Shapes' /\ Walks' /\ Holds'
  BY <1>1, <1>2 DEF HandInv, Shapes, Walks, Holds, OnHub, OnNote
<1> QED BY <1>3 DEF HandInv
\* What has been made of the file in hand is written, unless it is the same.
LEMMA Written ==
    ASSUME HandInv, Here \in DOMAIN tree, NEW note, IsNote(note),
           IF note = cmd.buf THEN Reads ELSE Writes(Here, note)
    PROVE  /\ DOMAIN tree' = DOMAIN tree
           /\ \A q \in DOMAIN tree : q # Here => tree'[q] = tree[q]
           /\ tree'[Here] = tree[Here] \/ tree'[Here] = note
           /\ \A q \in DOMAIN tree' : IsNote(tree'[q])
           /\ saves' = saves /\ disturbed' = disturbed /\ overtaken' = overtaken
           /\ conflicts' = conflicts /\ registered' = registered
<1>1. CASE note = cmd.buf
  BY <1>1 DEF Reads, files, tables, counts, history, HandInv, Shapes
<1>2. CASE note # cmd.buf
  <2>1. tree' = With(tree, Here, note)
    BY <1>2 DEF Writes
  <2>2. /\ saves' = saves /\ disturbed' = disturbed /\ overtaken' = overtaken
        /\ conflicts' = conflicts /\ registered' = registered
    BY <1>2 DEF Writes, tables, counts, history
  <2> QED BY <2>1, <2>2, WithNote DEF HandInv
<1> QED BY <1>1, <1>2

\* A hub is written, and the walk goes on.
LEMMA HandWriteHub ==
    ASSUME HandInv, WriteHub
    PROVE  HandInv'
<1> DEFINE topics == AllowedTopics(cmd.ids, cmd.names)
           planned == PlanUpdate(cmd.buf, GivenName[Here], Title(Here), topics)
           rest == cmd.walk \ {Min(cmd.walk)}
<1>1. cmd.at = "plan" /\ cmd' = NextFile(rest)
      /\ IF planned = cmd.buf THEN Reads ELSE Writes(Here, planned)
  BY DEF WriteHub, At, Goes
<1>2. IsNote(planned) /\ Here \in DOMAIN tree
  BY <1>1, PlannedID DEF HandInv, Holds, InHand, Walks, OnHub, OnNote
<1> HIDE DEF planned
<1>3. DOMAIN tree' = DOMAIN tree /\ \A q \in DOMAIN tree' : IsNote(tree'[q])
  BY <1>1, <1>2, Written
<1>4. rest \in SUBSET DOMAIN WalkOrder
  BY DEF HandInv, Shapes
<1> QED BY <1>1, <1>3, <1>4, HandNextFile

\* So is another note, with its headings as they are to be.
LEMMA HandWriteHeadings ==
    ASSUME HandInv, WriteHeadings
    PROVE  HandInv'
<1> DEFINE updated == NormalizeHeadings(cmd.buf, Title(Here))
           rest == cmd.walk \ {Min(cmd.walk)}
<1>1. cmd.at = "headings" /\ cmd.buf # None /\ cmd' = NextFile(rest)
      /\ IF updated = cmd.buf THEN Reads ELSE Writes(Here, updated)
  BY DEF WriteHeadings, At, Goes
<1>2. IsNote(updated) /\ Here \in DOMAIN tree
  BY <1>1, HeadingsKeepID DEF HandInv, Holds, InHand, Walks, OnHub, OnNote
<1> HIDE DEF updated
<1>3. DOMAIN tree' = DOMAIN tree /\ \A q \in DOMAIN tree' : IsNote(tree'[q])
  BY <1>1, <1>2, Written
<1>4. rest \in SUBSET DOMAIN WalkOrder
  BY DEF HandInv, Shapes
<1> QED BY <1>1, <1>3, <1>4, HandNextFile

\* A note is written with its id, and is yet to be read for its headings.
LEMMA HandEnsureID ==
    ASSUME HandInv, EnsureMetaIDFile
    PROVE  HandInv'
<1> DEFINE updated == EnsureMetaID(cmd.buf, GivenName[Here])
           to == [cmd EXCEPT !.at = "headings", !.buf = None]
<1>1. cmd.at = "id" /\ cmd.buf # None /\ cmd' = to
      /\ IF updated = cmd.buf THEN Reads ELSE Writes(Here, updated)
  BY DEF EnsureMetaIDFile, At, Goes
<1>2. IsNote(updated) /\ Here \in DOMAIN tree /\ ~IsHub(Here)
  BY <1>1, EnsuredID DEF HandInv, Holds, InHand, Walks, OnHub, OnNote
<1> HIDE DEF updated
<1>3. DOMAIN tree' = DOMAIN tree /\ \A q \in DOMAIN tree' : IsNote(tree'[q])
  BY <1>1, <1>2, Written
<1>4. /\ to.at = "headings" /\ to.walk = cmd.walk /\ to.buf = None
      /\ DOMAIN to = DOMAIN cmd
  BY DEF HandInv, Shapes
<1> HIDE DEF to
<1>5. Here' = Here /\ ~InHand'
  BY <1>1, <1>4 DEF Here, InHand
<1>6. Shapes' /\ Walks'
  BY <1>1, <1>2, <1>3, <1>4, <1>5 DEF HandInv, Shapes, Walks, OnHub, OnNote
<1> QED BY <1>5, <1>6 DEF HandInv, Holds

\* A command begins, ends, or is stopped: it is at no file.
LEMMA HandIdle ==
    ASSUME NEW at, NEW all, NEW aim
    PROVE  LET to == [Idle EXCEPT !.at = at, !.all = all, !.aim = aim] IN
           /\ DOMAIN to = Fields
           /\ to.at = at /\ to.walk \subseteq DOMAIN WalkOrder
  BY DEF Idle, Fields

\* Every step of the system preserves HandInv.
LEMMA HandNext == HandInv /\ [Next]_vars => HandInv'
<1> SUFFICES ASSUME HandInv, [Next]_vars PROVE HandInv'
  OBVIOUS
<1> DEFINE Notes == \A p \in DOMAIN tree : IsNote(tree[p])
<1>0. Notes
  BY DEF HandInv, Shapes
<1>1. ASSUME NEW p, NEW note \in Saved, Save(p, note) PROVE HandInv'
  BY <1>1, HandSave
<1>2. CASE tree' = tree /\ cmd' = cmd /\ overtaken' = overtaken
  BY <1>2 DEF HandInv, Shapes, Walks, Holds, InHand, Here
<1>3. CASE Ingest
  BY <1>2, <1>3 DEF Ingest, history
<1>4. ASSUME NEW at \in {"check", "scan"}, NEW all, Begin(at, all) PROVE HandInv'
  <2> DEFINE to == [Idle EXCEPT !.at = at, !.all = all, !.aim = Outcome(tree, all)]
  <2>1. cmd' = to /\ tree' = tree
    BY <1>4 DEF Begin, files
  <2>2. DOMAIN to = Fields /\ to.at = at /\ to.walk \subseteq DOMAIN WalkOrder
    BY HandIdle
  <2> HIDE DEF to
  <2> QED BY <1>0, <2>1, <2>2, HandElsewhere DEF OnHub, OnNote
<1>5. ASSUME cmd' = Idle, tree' = tree PROVE HandInv'
  <2>1. /\ DOMAIN Idle = Fields
        /\ Idle.at = "idle" /\ Idle.walk \subseteq DOMAIN WalkOrder
    BY DEF Idle, Fields
  <2> QED BY <1>0, <1>5, <2>1, HandElsewhere DEF OnHub, OnNote
<1>6. CASE CheckDuplicates
  <2>1. tree' = tree
    BY <1>6 DEF CheckDuplicates, Reads, files
  <2>2. cmd' = Idle \/ cmd' = NextFile(DOMAIN WalkOrder)
    BY <1>6 DEF CheckDuplicates, Goes
  <2>3. DOMAIN WalkOrder \in SUBSET DOMAIN WalkOrder
    OBVIOUS
  <2> QED BY <1>0, <1>5, <2>1, <2>2, <2>3, HandNextFile
<1>7. CASE WriteToDisk
  BY <1>5, <1>7 DEF WriteToDisk, Goes
<1>8. CASE Stop
  BY <1>5, <1>8 DEF Stop, files
<1>9. CASE ScanNotes
  <2> DEFINE to == [cmd EXCEPT !.at = "replace", !.ids = Unique(tree),
                               !.found = DiskConflicts(tree)]
  <2>1. cmd' = to /\ tree' = tree
    BY <1>9 DEF ScanNotes, Goes, Reads, files
  <2>2. /\ DOMAIN to = Fields
        /\ to.at = "replace" /\ to.walk \subseteq DOMAIN WalkOrder
    BY DEF HandInv, Shapes
  <2> HIDE DEF to
  <2> QED BY <1>0, <2>1, <2>2, HandElsewhere DEF OnHub, OnNote
<1>10. CASE ReplaceRegistry
  <2> DEFINE to == [Idle EXCEPT !.at = "registered"]
  <2>1. cmd' = to /\ tree' = tree
    BY <1>10 DEF ReplaceRegistry, Goes, files
  <2>2. /\ DOMAIN to = Fields
        /\ to.at = "registered" /\ to.walk \subseteq DOMAIN WalkOrder
    BY DEF Idle, Fields
  <2> HIDE DEF to
  <2> QED BY <1>0, <2>1, <2>2, HandElsewhere DEF OnHub, OnNote
<1>11. CASE UNCHANGED vars
  BY <1>2, <1>11 DEF vars, files, history
<1> QED
  BY <1>1, <1>3, <1>4, <1>6, <1>7, <1>8, <1>9, <1>10, <1>11, HandHub, HandChild,
     HandReadHub, HandReadNote, HandWriteHub, HandEnsureID, HandWriteHeadings
  DEF Next, Format, Register

(***************************************************************************)
(* In every reachable state the formatter that is at a hub is at a hub,    *)
(* the one at another note at a note that is there, and what it has read   *)
(* and is about to write over is what the file says, unless it was saved   *)
(* since (formatter.run, formatHubNote, formatRegularNote).                *)
(***************************************************************************)
THEOREM HandInvariance == Spec => []HandInv
<1> QED BY HandInit, HandNext, PTL DEF Spec

-----------------------------------------------------------------------------
(***************************************************************************)
(* The formatter keeps ids.                                                *)
(***************************************************************************)
\* A file that is created is none of those there were.
LEMMA Created ==
    ASSUME HandInv, NEW p, NEW note, NEW q \in DOMAIN tree,
           IF p \in DOMAIN tree THEN Reads ELSE Writes(p, note)
    PROVE  KeepsID(q)
<1>1. CASE p \in DOMAIN tree
  BY <1>1 DEF Reads, files, KeepsID
<1>2. CASE p \notin DOMAIN tree
  <2>1. tree' = With(tree, p, note)
    BY <1>2 DEF Writes
  <2>2. tree'[q] = tree[q]
    BY <1>2, <2>1 DEF With
  <2> QED BY <2>2 DEF IdAt, KeepsID
<1> QED BY <1>1, <1>2

\* What is written has the id of what was read, or the one it was given.
LEMMA WrittenKeepsID ==
    ASSUME HandInv, InHand, ~overtaken, Here \in DOMAIN tree, NEW note, IsNote(note),
           IF note = cmd.buf THEN Reads ELSE Writes(Here, note),
           \/ ExtractID(note, OwnName(Here)) = ExtractID(cmd.buf, OwnName(Here))
           \/ /\ ReadMetaID(cmd.buf) = None /\ GivenName[Here] # OwnName(Here)
              /\ ExtractID(note, OwnName(Here)) = GivenName[Here],
           NEW p \in DOMAIN tree
    PROVE  KeepsID(p)
<1>1. cmd.buf = tree[Here]
  BY DEF HandInv, Holds
<1>2. /\ \A q \in DOMAIN tree : q # Here => tree'[q] = tree[q]
      /\ tree'[Here] = tree[Here] \/ tree'[Here] = note
  BY Written
<1> QED BY <1>1, <1>2 DEF IdAt, KeepsID

(***************************************************************************)
(* No step of the formatter on what nobody has saved since changes an id,  *)
(* but for that of a note without one, whose name is read back otherwise.  *)
(***************************************************************************)
LEMMA IdsKept ==
    ASSUME HandInv, Next, FormatStep, NEW p \in DOMAIN tree
    PROVE  KeepsID(p)
<1>1. CASE tree' = tree
  BY <1>1 DEF KeepsID
<1>2. ASSUME NEW q, NEW note, Save(q, note) PROVE FALSE
  BY <1>2 DEF Save, FormatStep
<1>3. CASE EnsureHubFile
  BY <1>3, Created DEF EnsureHubFile
<1>4. ASSUME NEW d \in Dir, EnsureChildHub(d) PROVE KeepsID(p)
  BY <1>4, Created DEF EnsureChildHub
<1>5. CASE WriteHub
  <2> DEFINE topics == AllowedTopics(cmd.ids, cmd.names)
             planned == PlanUpdate(cmd.buf, GivenName[Here], Title(Here), topics)
  <2>1. /\ IsHub(Here) /\ Here \in DOMAIN tree /\ InHand /\ IsNote(cmd.buf)
        /\ IF planned = cmd.buf THEN Reads ELSE Writes(Here, planned)
    BY <1>5 DEF WriteHub, At, HandInv, Holds, InHand, Walks, OnHub, OnNote
  <2>2. /\ IsNote(planned)
        /\ \/ ExtractID(planned, OwnName(Here)) = ExtractID(cmd.buf, OwnName(Here))
           \/ /\ ReadMetaID(cmd.buf) = None /\ GivenName[Here] # OwnName(Here)
              /\ ExtractID(planned, OwnName(Here)) = GivenName[Here]
    BY <2>1, PlannedID
  <2> HIDE DEF planned
  <2> QED BY <2>1, <2>2, WrittenKeepsID DEF FormatStep
<1>6. CASE EnsureMetaIDFile
  <2> DEFINE updated == EnsureMetaID(cmd.buf, GivenName[Here])
  <2>1. /\ ~IsHub(Here) /\ Here \in DOMAIN tree /\ InHand /\ IsNote(cmd.buf)
        /\ IF updated = cmd.buf THEN Reads ELSE Writes(Here, updated)
    BY <1>6 DEF EnsureMetaIDFile, At, HandInv, Holds, InHand, Walks, OnHub, OnNote
  <2>2. /\ IsNote(updated)
        /\ \/ ExtractID(updated, OwnName(Here)) = ExtractID(cmd.buf, OwnName(Here))
           \/ /\ ReadMetaID(cmd.buf) = None /\ GivenName[Here] # OwnName(Here)
              /\ ExtractID(updated, OwnName(Here)) = GivenName[Here]
    BY <2>1, EnsuredID
  <2> HIDE DEF updated
  <2> QED BY <2>1, <2>2, WrittenKeepsID DEF FormatStep
<1>7. CASE WriteHeadings
  <2> DEFINE updated == NormalizeHeadings(cmd.buf, Title(Here))
  <2>1. /\ Here \in DOMAIN tree /\ InHand /\ IsNote(cmd.buf)
        /\ IF updated = cmd.buf THEN Reads ELSE Writes(Here, updated)
    BY <1>7 DEF WriteHeadings, At, HandInv, Holds, InHand, Walks, OnHub, OnNote
  <2>2. IsNote(updated) /\ ExtractID(updated, OwnName(Here)) = ExtractID(cmd.buf, OwnName(Here))
    BY <2>1, HeadingsKeepID
  <2> HIDE DEF updated
  <2> QED BY <2>1, <2>2, WrittenKeepsID DEF FormatStep
<1>8. CASE Ingest \/ Stop \/ WriteToDisk \/ ReplaceRegistry
  BY <1>1, <1>8 DEF Ingest, Stop, WriteToDisk, ReplaceRegistry, files
<1>9. CASE CheckDuplicates \/ ScanNotes
  BY <1>1, <1>9 DEF CheckDuplicates, ScanNotes, Reads, files
<1>10. CASE ReadHub \/ ReadNote
  BY <1>1, <1>10 DEF ReadHub, ReadNote, Opens, files
<1>11. ASSUME NEW at, NEW all, Begin(at, all) PROVE KeepsID(p)
  BY <1>1, <1>11 DEF Begin, files
<1> QED
  BY <1>2, <1>3, <1>4, <1>5, <1>6, <1>7, <1>8, <1>9, <1>10, <1>11 DEF Next, Format, Register

(***************************************************************************)
(* A note keeps the id that the registry knows it by, as long as nobody    *)
(* saves it between the read and the write; only a note without an id of   *)
(* its own may get another one, that which its name is read back as once   *)
(* it is written (ensureHubFrontmatter, EnsureMetaID, extractID).          *)
(***************************************************************************)
THEOREM IdsAreStable == Spec => IdsStable
<1>1. HandInv /\ [Next]_vars
        => [FormatStep => \A p \in DOMAIN tree : KeepsID(p)]_vars
  BY IdsKept
<1> QED BY <1>1, HandInvariance, PTL DEF Spec, IdsStable

-----------------------------------------------------------------------------
(***************************************************************************)
(* A registration: what was scanned is what there is, and all of it is in  *)
(* one of the two tables afterwards, unless a note was saved.              *)
(***************************************************************************)
\* The next command, and any step to somewhere else, has nothing to keep.
LEMMA RegisterElsewhere ==
    ASSUME cmd'.at \notin {"replace", "registered"}
    PROVE  RegisterInv'
  BY DEF RegisterInv

\* What is known of the notes is replaced in both tables at once.
LEMMA RegisterReplace ==
    ASSUME RegisterInv, ReplaceRegistry
    PROVE  RegisterInv'
<1> DEFINE Unknown == {Conflict(e[1], e[2], "NOTE_NOT_IN_DB")
                       : e \in {u \in cmd.ids : ~InDatabase(u)}}
<1>1. /\ cmd.at = "replace" /\ cmd'.at = "registered"
      /\ tree' = tree /\ disturbed' = disturbed
      /\ registered' = {e \in cmd.ids : InDatabase(e)}
      /\ conflicts' = cmd.found \cup Unknown
  BY DEF ReplaceRegistry, ReplaceTables, At, Goes, Idle, files, history
<1>2. Unique(tree)' = Unique(tree)
  BY <1>1 DEF Unique, Duplicated, MissingHub, PathsOf, IdAt
<1> SUFFICES ASSUME ~disturbed, NEW entry \in Unique(tree)
             PROVE  \/ entry \in registered'
                    \/ Conflict(entry[1], entry[2], "NOTE_NOT_IN_DB") \in conflicts'
  BY <1>1, <1>2 DEF RegisterInv
<1>3. entry \in cmd.ids
  BY <1>1 DEF RegisterInv
<1> QED BY <1>1, <1>3

\* RegisterInv is inductive, with what HandInv says of the command.
LEMMA RegisterNext == HandInv /\ RegisterInv /\ [Next]_vars => RegisterInv'
<1> SUFFICES ASSUME HandInv, RegisterInv, [Next]_vars PROVE RegisterInv'
  OBVIOUS
<1>1. ASSUME NEW p, NEW note, Save(p, note) PROVE RegisterInv'
  BY <1>1 DEF Save, RegisterInv
<1>2. CASE /\ tree' = tree /\ cmd' = cmd /\ registered' = registered
           /\ conflicts' = conflicts /\ disturbed' = disturbed
  <2>1. Unique(tree)' = Unique(tree)
    BY <1>2 DEF Unique, Duplicated, MissingHub, PathsOf, IdAt
  <2> QED BY <1>2, <2>1 DEF RegisterInv
<1>3. CASE Ingest \/ UNCHANGED vars
  BY <1>2, <1>3 DEF Ingest, vars, files, tables, history
<1>4. ASSUME NEW at \in {"check", "scan"}, NEW all, Begin(at, all) PROVE RegisterInv'
  <2>1. cmd'.at = at
    BY <1>4 DEF Begin, Idle
  <2> QED BY <2>1, RegisterElsewhere
<1>5. ASSUME cmd' = Idle PROVE RegisterInv'
  BY <1>5, RegisterElsewhere DEF Idle, Fields
<1>6. CASE Stop \/ WriteToDisk
  BY <1>5, <1>6 DEF Stop, WriteToDisk, Goes
<1>7. ASSUME NEW rest \in SUBSET DOMAIN WalkOrder, cmd' = NextFile(rest) PROVE RegisterInv'
  BY <1>7, NextFileEffect, RegisterElsewhere
<1>8. CASE CheckDuplicates
  BY <1>5, <1>7, <1>8 DEF CheckDuplicates, Goes
<1>9. CASE WriteHub \/ WriteHeadings
  BY <1>7, <1>9 DEF WriteHub, WriteHeadings, Goes, HandInv, Shapes
<1>10. CASE EnsureHubFile
  BY <1>10, RegisterElsewhere DEF EnsureHubFile, Goes, HandInv, Shapes
<1>11. ASSUME NEW d \in Dir, EnsureChildHub(d) PROVE RegisterInv'
  BY <1>11, RegisterElsewhere DEF EnsureChildHub, Goes, At, HandInv, Shapes
<1>12. CASE ReadHub
  BY <1>12, RegisterElsewhere DEF ReadHub, Goes, HandInv, Shapes
<1>13. CASE ReadNote
  BY <1>13, RegisterElsewhere DEF ReadNote, Goes, HandInv, Shapes
<1>14. CASE EnsureMetaIDFile
  BY <1>14, RegisterElsewhere DEF EnsureMetaIDFile, Goes, HandInv, Shapes
<1>15. CASE ScanNotes
  <2>1. /\ cmd'.at = "replace" /\ cmd'.ids = Unique(tree) /\ tree' = tree
    BY <1>15 DEF ScanNotes, Goes, Reads, files, HandInv, Shapes
  <2>2. Unique(tree)' = Unique(tree)
    BY <2>1 DEF Unique, Duplicated, MissingHub, PathsOf, IdAt
  <2> QED BY <2>1, <2>2 DEF RegisterInv
<1>16. CASE ReplaceRegistry
  BY <1>16, RegisterReplace
<1> QED
  BY <1>1, <1>3, <1>4, <1>6, <1>8, <1>9, <1>10, <1>11, <1>12, <1>13, <1>14, <1>15, <1>16
  DEF Next, Format, Register

(***************************************************************************)
(* A note on disk has its own id, or shares it, or has none: what is not   *)
(* registered then is reported, by the scan or from the table.             *)
(***************************************************************************)
LEMMA Reported == RegisterInv => RegisteredOrReported
<1> DEFINE Known(p) ==
             \/ <<IdAt(tree, p), p>> \in registered /\ p \notin Duplicated(tree)
             \/ \E reason \in {"MISSING_HUB_ID", "DUPLICATE_ID", "NOTE_NOT_IN_DB"} :
                   <<p, reason>> \in CollectFixIssues(TRUE)
<1>0. RegisteredOrReported
        = (cmd.at = "registered" /\ ~disturbed => \A p \in DOMAIN tree : Known(p))
  BY Zenon DEF RegisteredOrReported
<1> SUFFICES ASSUME RegisterInv, cmd.at = "registered", ~disturbed, NEW p \in DOMAIN tree
             PROVE  Known(p)
  <2> HIDE DEF Known
  <2> QED BY <1>0
<1>1. ASSUME NEW id, NEW reason, Conflict(id, p, reason) \in DiskConflicts(tree) \cup conflicts
      PROVE  <<p, reason>> \in CollectFixIssues(TRUE)
  <2> DEFINE c == Conflict(id, p, reason)
  <2>1. c.path = p /\ c.reason = reason
    BY DEF Conflict
  <2> HIDE DEF c
  <2>2. c \in DiskConflicts(tree) \cup {x \in conflicts : TRUE}
    BY <1>1 DEF c
  <2> QED BY <2>1, <2>2 DEF CollectFixIssues
<1>2. CASE p \in Duplicated(tree)
  <2>1. Conflict(IdAt(tree, p), p, "DUPLICATE_ID") \in DiskConflicts(tree)
    BY <1>2 DEF DiskConflicts
  <2> QED BY <1>1, <2>1
<1>3. CASE p \in MissingHub(tree)
  <2>1. Conflict(None, p, "MISSING_HUB_ID") \in DiskConflicts(tree)
    BY <1>3 DEF DiskConflicts
  <2> QED BY <1>1, <2>1
<1>4. CASE p \notin Duplicated(tree) \cup MissingHub(tree)
  <2> DEFINE entry == <<IdAt(tree, p), p>>
  <2>1. entry \in Unique(tree)
    BY <1>4 DEF Unique
  <2>2. \/ entry \in registered
        \/ Conflict(IdAt(tree, p), p, "NOTE_NOT_IN_DB") \in conflicts
    BY <2>1 DEF RegisterInv
  <2> QED BY <1>1, <1>4, <2>2
<1> QED BY <1>2, <1>3, <1>4

(***************************************************************************)
(* After a registration no note is silently unknown: it is registered      *)
(* under its id, or mw notes fix --all lists it (RegisterNotes,            *)
(* CollectFixIssues).                                                      *)
(***************************************************************************)
THEOREM NoneIsSilent == Spec => []RegisteredOrReported
<1>1. Init => RegisterInv
  BY RegisterElsewhere DEF Init, Idle, RegisterInv
<1> QED BY <1>1, HandInvariance, RegisterNext, Reported, PTL DEF Spec
===============================================================================
