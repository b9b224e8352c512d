------------------------------ MODULE NoteFormat ------------------------------
(***************************************************************************)
(* mw notes format, register, validate and fix (features/formatter,        *)
(* features/registration, features/validation): the formatter walks the    *)
(* folders and rewrites notes one by one, the user saves notes meanwhile,  *)
(* and the command may be stopped anywhere.                                *)
(*                                                                         *)
(* A path is a folder and a name without its extension; "hub" is the name  *)
(* of a folder's hub.  A scan of all notes (registration.Build) is one     *)
(* step: it reads each note once.  disturbed and overtaken are history:    *)
(* since the command began a note was saved, or the note in hand was saved *)
(* after it was read.  So is cmd.aim, what a format is to leave.           *)
(***************************************************************************)
EXTENDS DomainSchema

CONSTANTS
    Root,
    Dir,        \* the folders below the root
    Hidden,     \* folders that a name with a dot hides, .git apart
    Parent,     \* folder -> the folder it is in
    NameOf,     \* folder -> its name; None for a root that is "." or "/"
    TitleOf,    \* folder -> the title of its hub, its name with other blanks
    GivenName,  \* path -> the id that the formatter writes, as it is read back
    File,       \* the paths of notes that are not hubs
    WalkOrder,  \* paths in the order of WalkDir, a folder as its hub
    SortedIds,  \* all ids in their order
    Trees,      \* what there may be at first
    Edited,     \* the paths that the user may save to
    Saved,      \* what the user may save
    Schema,
    MaxSaves,   \* bound
    MaxCommands \* bound

ASSUME TreeAssumption ==
    /\ Parent \in [Dir -> Dir \cup {Root}]
    /\ Root \notin Dir /\ Hidden \subseteq Dir \cup {Root}

VARIABLES
    tree,       \* path -> note, for the files there are
    known,      \* the paths in the database
    onDisk,     \* .mw/registry.json: <<id, path>>
    registered, \* note_ids: <<id, path>>
    conflicts,  \* note_id_conflicts
    cmd,
    saves, commands,
    disturbed, overtaken

files == <<tree, known, onDisk>>
tables == <<registered, conflicts>>
counts == <<saves, commands>>
history == <<disturbed, overtaken>>
vars == <<files, tables, cmd, counts, history>>

Path(dir, name) == [dir |-> dir, name |-> name]
Hub(dir) == Path(dir, "hub")
IsHub(p) == p.name = "hub"
\* The name that the registry falls back on, and the title.  GivenName differs
\* from OwnName for a file *.MD, and for a name that %q escapes.
OwnName(p) == IF IsHub(p) THEN NameOf[p.dir] ELSE p.name
Title(p) == IF IsHub(p) THEN TitleOf[p.dir] ELSE p.name

\* What the walk visits: no hidden folder, and the root's own hub neither.
Visited(p) == p.dir \notin Hidden /\ p # Hub(Root)

\* WalkDir comes to each path once, and to a folder before what is in it.
ASSUME WalkAssumption ==
    /\ WalkOrder \in Seq(File \cup {Hub(d) : d \in Dir})
    /\ \A i, j \in DOMAIN WalkOrder : WalkOrder[i] = WalkOrder[j] => i = j
    /\ \A i \in DOMAIN WalkOrder :
          ~IsHub(WalkOrder[i]) /\ WalkOrder[i].dir # Root
            => \E j \in 1..(i - 1) : WalkOrder[j] = Hub(WalkOrder[i].dir)

\* Notes, as far as they are not their lines.
IsNote(note) ==
    /\ DOMAIN note = {"front", "lines"}
    /\ note.front # None => DOMAIN note.front = {"id", "keys"}

ASSUME NotesAssumption ==
    /\ \A t \in Trees : \A p \in DOMAIN t : IsNote(t[p])
    /\ \A note \in Saved : IsNote(note)

\* walk: the places in WalkOrder that are left
Idle == [at |-> "idle", all |-> FALSE, walk |-> {}, children |-> {},
         ids |-> {}, names |-> {}, buf |-> None, found |-> {}, aim |-> None]
Here == WalkOrder[Min(cmd.walk)]
\* The file in hand was read and is yet to be written.
InHand == cmd.at = "plan" \/ (cmd.at \in {"id", "headings"} /\ cmd.buf # None)
With(t, p, note) == [q \in DOMAIN t \cup {p} |-> IF q = p THEN note ELSE t[q]]
Ended == cmd.at \in {"idle", "registered"}

-----------------------------------------------------------------------------
(***************************************************************************)
(* registration.Build                                                      *)
(***************************************************************************)
IdAt(t, p) == ExtractID(t[p], OwnName(p))
PathsOf(t, id) == {p \in DOMAIN t : IdAt(t, p) = id}
Duplicated(t) == {p \in DOMAIN t : Cardinality(PathsOf(t, IdAt(t, p))) > 1 /\ IdAt(t, p) # None}
MissingHub(t) == {p \in DOMAIN t : IdAt(t, p) = None}
Unique(t) == {<<IdAt(t, p), p>> : p \in DOMAIN t \ (Duplicated(t) \cup MissingHub(t))}

Conflict(id, p, reason) == [id |-> id, path |-> p, reason |-> reason]

\* What disk and database have against the notes, registered or not.
DiskConflicts(t) ==
    {Conflict(None, p, "MISSING_HUB_ID") : p \in MissingHub(t)}
      \cup {Conflict(IdAt(t, p), p, "DUPLICATE_ID") : p \in Duplicated(t)}

Init ==
    /\ tree \in Trees
    /\ known = {}
    /\ onDisk = {}
    /\ registered = {} /\ conflicts = {}
    /\ cmd = Idle
    /\ saves = 0 /\ commands = 0
    /\ disturbed = FALSE /\ overtaken = FALSE

Save(p, note) ==
    /\ saves < MaxSaves
    /\ p \in DOMAIN tree => tree[p] # note
    /\ tree' = With(tree, p, note)
    /\ saves' = saves + 1
    /\ disturbed' = TRUE
    /\ overtaken' = (overtaken \/ (InHand /\ Here = p))
    /\ UNCHANGED <<known, onDisk, tables, cmd, commands>>

\* mw notes ingest, or the watcher
Ingest ==
    /\ known # DOMAIN tree
    /\ known' = DOMAIN tree
    /\ UNCHANGED <<tree, onDisk, tables, cmd, counts, history>>

-----------------------------------------------------------------------------
SubFolders(d) == {c \in Dir : Parent[c] = d}

\* buildAllowedTopicIDs: notes go by their file names here, not by their ids.
NoteNames(t, d) == {p.name : p \in {q \in DOMAIN t : q.dir = d /\ ~IsHub(q)}}
AllowedTopics(ids, names) ==
    SelectSeq(SortedIds, LAMBDA id : id \in ids)
      \o SelectSeq(SortedIds, LAMBDA id : id \in names)

\* The tree as an undisturbed run leaves it
Outcome(t, all) ==
    LET hubs == {Hub(d) : d \in Dir \ Hidden}
        created == {Hub(d) : d \in {c \in Dir : Parent[c] \in Dir \ Hidden}} \cup hubs
        full == [p \in DOMAIN t \cup created |-> IF p \in DOMAIN t THEN t[p] ELSE DefaultHub]
        Child(d) == {IdAt(full, Hub(c)) : c \in SubFolders(d)}
        Formatted(p) ==
            IF p \in hubs
            THEN PlanUpdate(full[p], GivenName[p], Title(p),
                            AllowedTopics(Child(p.dir), NoteNames(full, p.dir)))
            ELSE IF all /\ ~IsHub(p) /\ Visited(p)
            THEN FormatNote(full[p], GivenName[p], Title(p))
            ELSE full[p]
    IN IF Duplicated(t) # {} THEN t ELSE [p \in DOMAIN full |-> Formatted(p)]

Begin(at, all) ==
    /\ Ended
    /\ commands < MaxCommands
    /\ commands' = commands + 1
    /\ cmd' = [Idle EXCEPT !.at = at, !.all = all, !.aim = Outcome(tree, all)]
    /\ disturbed' = FALSE /\ overtaken' = FALSE
    /\ UNCHANGED <<files, tables, saves>>

Format(all) == Begin("check", all)
Register == Begin("scan", FALSE)

Stop ==
    /\ ~Ended
    /\ cmd' = Idle
    /\ UNCHANGED <<files, tables, counts, history>>

At(at) == cmd.at = at
Goes(to) == cmd' = to
Reads == UNCHANGED <<files, tables, counts, history>>
Opens ==
    /\ overtaken' = FALSE
    /\ UNCHANGED <<files, tables, counts, disturbed>>
Writes(p, note) ==
    /\ tree' = With(tree, p, note)
    /\ UNCHANGED <<known, onDisk, tables, counts, history>>

\* The next file of the walk.  The files of a folder are listed when the walk
\* has dealt with its hub; hubs need not be there.
NextFile(rest) ==
    LET Entered(d) == \A i \in rest : d = Root \/ WalkOrder[i] # Hub(d)
        Found(p) == /\ Visited(p)
                    /\ IsHub(p) \/ (cmd.all /\ (Entered(p.dir) => p \in DOMAIN tree))
        left == {i \in rest : Found(WalkOrder[i])}
    IN [Idle EXCEPT !.at = IF left = {} THEN "rebuild"
                           ELSE IF IsHub(WalkOrder[Min(left)]) THEN "hub" ELSE "id",
                    !.all = cmd.all, !.walk = left, !.aim = cmd.aim]

\* Duplicates are refused before anything is written.
CheckDuplicates ==
    /\ At("check")
    /\ Goes(IF Duplicated(tree) # {} THEN Idle ELSE NextFile(DOMAIN WalkOrder))
    /\ Reads

(***************************************************************************)
(* formatHubNote: the hub is created if need be, the folder is listed, and *)
(* so are created the hubs of the folders in it, hidden ones too; from     *)
(* their ids and the names of the notes the hub is planned.                *)
(***************************************************************************)
EnsureHubFile ==
    /\ At("hub")
    /\ Goes([cmd EXCEPT !.at = "children", !.children = SubFolders(Here.dir),
                        !.names = NoteNames(tree, Here.dir)])
    /\ IF Here \in DOMAIN tree THEN Reads ELSE Writes(Here, DefaultHub)

\* slips: a child without an id goes by the name of this folder
EnsureChildHubMisnamed(d) ==
    LET hub == Hub(d)
        note == IF hub \in DOMAIN tree THEN tree[hub] ELSE DefaultHub
    IN /\ At("children")
       /\ d \in cmd.children
       /\ Goes([cmd EXCEPT !.children = @ \ {d},
                           !.ids = @ \cup {ExtractID(note, NameOf[Parent[d]])}])
       /\ IF hub \in DOMAIN tree THEN Reads ELSE Writes(hub, note)

EnsureChildHub(d) ==
    LET hub == Hub(d)
        note == IF hub \in DOMAIN tree THEN tree[hub] ELSE DefaultHub
    IN /\ At("children")
       /\ d \in cmd.children
       /\ Goes([cmd EXCEPT !.children = @ \ {d},
                           !.ids = @ \cup {ExtractID(note, NameOf[d])}])
       /\ IF hub \in DOMAIN tree THEN Reads ELSE Writes(hub, note)

ReadHub ==
    /\ At("children")
    /\ cmd.children = {}
    /\ Goes([cmd EXCEPT !.at = "plan", !.buf = tree[Here]])
    /\ Opens

WriteHub ==
    /\ At("plan")
    /\ LET planned == PlanUpdate(cmd.buf, GivenName[Here], Title(Here),
                                 AllowedTopics(cmd.ids, cmd.names))
       IN IF planned = cmd.buf THEN Reads ELSE Writes(Here, planned)
    /\ Goes(NextFile(cmd.walk \ {Min(cmd.walk)}))

(***************************************************************************)
(* formatRegularNote reads and writes the note twice: once for its id and  *)
(* once for its headings.                                                  *)
(***************************************************************************)
ReadNote ==
    /\ cmd.at \in {"id", "headings"}
    /\ cmd.buf = None
    /\ Goes([cmd EXCEPT !.buf = tree[Here]])
    /\ Opens

EnsureMetaIDFile ==
    /\ At("id")
    /\ cmd.buf # None
    /\ LET updated == EnsureMetaID(cmd.buf, GivenName[Here])
       IN IF updated = cmd.buf THEN Reads ELSE Writes(Here, updated)
    /\ Goes([cmd EXCEPT !.at = "headings", !.buf = None])

WriteHeadings ==
    /\ At("headings")
    /\ cmd.buf # None
    /\ LET updated == NormalizeHeadings(cmd.buf, Title(Here))
       IN IF updated = cmd.buf THEN Reads ELSE Writes(Here, updated)
    /\ Goes(NextFile(cmd.walk \ {Min(cmd.walk)}))

WriteToDisk ==
    /\ At("rebuild")
    /\ onDisk' = IF Duplicated(tree) \cup MissingHub(tree) = {} THEN Unique(tree) ELSE onDisk
    /\ Goes(Idle)
    /\ UNCHANGED <<tree, known, tables, counts, history>>

-----------------------------------------------------------------------------
(***************************************************************************)
(* RegisterNotes: what was scanned is looked up in the database, and one   *)
(* transaction replaces both tables.                                       *)
(***************************************************************************)
ScanNotes ==
    /\ At("scan")
    /\ Goes([cmd EXCEPT !.at = "replace", !.ids = Unique(tree), !.found = DiskConflicts(tree)])
    /\ Reads

InDatabase(entry) == entry[2] \in known  \* NoteIDByPath
ReplaceTables(entries, found) == registered' = entries /\ conflicts' = found

\* slips: what the database does not know is not reported
ReplaceRegistrySilently ==
    /\ At("replace")
    /\ ReplaceTables({e \in cmd.ids : InDatabase(e)}, cmd.found)
    /\ Goes([Idle EXCEPT !.at = "registered"])
    /\ UNCHANGED <<files, counts, history>>

ReplaceRegistry ==
    /\ At("replace")
    /\ ReplaceTables({e \in cmd.ids : InDatabase(e)},
                     cmd.found \cup {Conflict(e[1], e[2], "NOTE_NOT_IN_DB")
                                     : e \in {u \in cmd.ids : ~InDatabase(u)}})
    /\ Goes([Idle EXCEPT !.at = "registered"])
    /\ UNCHANGED <<files, counts, history>>

RegistrySeverity(reason) ==
    IF reason \in {"MISSING_HUB_ID", "DUPLICATE_ID"} THEN "ERROR" ELSE "WARN"

\* What mw notes fix lists: the disk as it is, and the tables as they are.
CollectFixIssues(includeWarn) ==
    LET from == DiskConflicts(tree)
                  \cup {c \in conflicts : includeWarn \/ RegistrySeverity(c.reason) = "ERROR"}
    IN {<<c.path, c.reason>> : c \in from}

Next ==
    \/ \E p \in Edited, note \in Saved : Save(p, note)
    \/ Ingest
    \/ \E all \in BOOLEAN : Format(all)
    \/ Register
    \/ Stop
    \/ CheckDuplicates
    \/ EnsureHubFile \/ (\E d \in Dir : EnsureChildHub(d)) \/ ReadHub \/ WriteHub
    \/ ReadNote \/ EnsureMetaIDFile \/ WriteHeadings
    \/ WriteToDisk
    \/ ScanNotes \/ ReplaceRegistry

Spec == Init /\ [][Next]_vars

-----------------------------------------------------------------------------
Formatting == cmd.at \notin {"idle", "registered", "check", "scan", "replace"}

\* A step of the formatter on what it has read and nobody saved since
FormatStep == Formatting /\ saves' = saves /\ ~overtaken

(***************************************************************************)
(* Wherever a run of the formatter stops, the next ends as it would have,  *)
(* though hubs are planned from folders that the same run has yet to       *)
(* format; and a run that ends leaves what it was to leave, so that        *)
(* another one changes nothing (formatter.run).                            *)
(*                                                                         *)
(* That is so unless the run itself makes two ids equal, so that the next  *)
(* one is refused, and but for a hub whose title is that of a section of   *)
(* hubs, which gets one more title from each run; one with a folder and a  *)
(* note of one name, linked twice by the first run and once by the second; *)
(* one with a folder that gets another id than its name; and one with a    *)
(* lone fence below Topics, which is dropped and leaves its pair.          *)
(***************************************************************************)
LoneFence(hub) ==
    LET lines == NormalizeSections(hub.lines)
        fences == {i \in DOMAIN TopicsBody(lines) : TopicsBody(lines)[i].kind = "fence"}
    IN TopicsStart(lines) # 0 /\ Cardinality(fences) % 2 = 1

Settles(p) ==
    IsHub(p) =>
        /\ Title(p) \notin HubSections
        /\ p \in DOMAIN tree => ~LoneFence(tree[p])
        /\ \A d \in SubFolders(p.dir) :
              /\ GivenName[Hub(d)] = NameOf[d]
              /\ LET hub == IF Hub(d) \in DOMAIN tree THEN tree[Hub(d)] ELSE DefaultHub
                 IN ExtractID(hub, NameOf[d]) \notin NoteNames(tree, p.dir)

FormatRestartable ==
    [][Formatting /\ ~disturbed' =>
         /\ At("rebuild") => tree = cmd.aim
         /\ tree' # tree /\ Duplicated(tree) \cup Duplicated(tree') = {} =>
              LET before == Outcome(tree, cmd.all)
                  after == Outcome(tree', cmd.all)
              IN \A p \in DOMAIN before : Settles(p) => after[p] = before[p]]_vars

(***************************************************************************)
(* The formatter changes the id that the registry knows a note by in one   *)
(* case only: the note has none of its own, and the name that is written   *)
(* into it is read back as another one: a file *.MD keeps its extension,   *)
(* and an escaped quote or backslash stays (generateHubID,                 *)
(* formatRegularNote, EnsureMetaID; extractID).                            *)
(***************************************************************************)
KeepsID(p) ==
    \/ IdAt(tree', p) = IdAt(tree, p)
    \/ /\ ReadMetaID(tree[p]) = None /\ GivenName[p] # OwnName(p)
       /\ IdAt(tree', p) = GivenName[p]

IdsStable == [][FormatStep => \A p \in DOMAIN tree : KeepsID(p)]_vars

\* The lines of a note that are no headings, blanks, or below the first Topics
\* of a hub
UserLines(p, note) ==
    LET lines == NormalizeSections(note.lines)
        Below(i, h) == h < i /\ \A k \in (h + 1)..i : lines[k].kind # "heading"
        topics == IF IsHub(p) THEN TopicsStart(lines) ELSE 0
        Kept(i) == lines[i].kind \notin {"heading", "blank"} /\ ~(topics # 0 /\ Below(i, topics))
        kept == SelectSeq([i \in DOMAIN lines |-> i], Kept)
    IN [k \in DOMAIN kept |-> lines[kept[k]]]

(***************************************************************************)
(* No line of a note is lost by formatting, but for headings, and but for  *)
(* what stands below Topics in a hub (reconcileTopicsSection).             *)
(***************************************************************************)
LinesKept ==
    [][FormatStep
         => \A p \in DOMAIN tree : UserLines(p, tree'[p]) = UserLines(p, tree[p])]_vars

(***************************************************************************)
(* Formatting a note or a hub adds no error of its schema: keys, sections  *)
(* and the structure of sections are as they were, or the rules no longer  *)
(* apply (ensureHubFrontmatter, normalizeMarkdownHeadingLines;             *)
(* ValidateNote, extractTopLevelSectionBlock).  That is so unless a ruled  *)
(* section is on level 1 afterwards: the first heading of that level, or   *)
(* the title if there is none; a line with a star; or a heading in a       *)
(* fence, which the formatter passes over and the schemas do not.  The     *)
(* headings that went down a level then become its children.  Schemas ask  *)
(* for sections of level 2 or of any, as all in schema/templates do.       *)
(***************************************************************************)
RuledOnTop(p, note) ==
    LET sections == IF IsHub(p) THEN [note EXCEPT !.lines = NormalizeSections(@)] ELSE note
        top == Where(sections.lines, IsTop) \ Later(sections)
        names == {sections.lines[i].name : i \in top}
                   \cup (IF Untitled(sections) THEN {Title(p)} ELSE {})
    IN names \cap DOMAIN Schema.structure # {}

SchemaKept ==
    [][FormatStep
         => \A p \in DOMAIN tree :
              ~RuledOnTop(p, tree[p])
                => ValidateNote(tree'[p], Schema) \subseteq ValidateNote(tree[p], Schema)]_vars

(***************************************************************************)
(* After a registration every note on disk is registered under the id it   *)
(* has, and no other note has it, or it is among the issues of             *)
(* mw notes fix --all (RegisterNotes, CollectFixIssues).                   *)
(***************************************************************************)
RegisteredOrReported ==
    cmd.at = "registered" /\ ~disturbed
      => \A p \in DOMAIN tree :
           \/ <<IdAt(tree, p), p>> \in registered /\ p \notin Duplicated(tree)
           \/ \E reason \in {"MISSING_HUB_ID", "DUPLICATE_ID", "NOTE_NOT_IN_DB"} :
                 <<p, reason>> \in CollectFixIssues(TRUE)
=============================================================================
