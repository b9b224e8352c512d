------------------------------ MODULE NoteLines ------------------------------
(***************************************************************************)
(* What the formatter, the registry of ids and the domain schemas make of  *)
(* the text of a note (features/formatter, features/registration,          *)
(* markdown/meta.go, schema/templates/validate.go).                        *)
(*                                                                         *)
(* A note is its front matter, or None, and its lines.  A line is a        *)
(* heading "#..." of some level, a fence, a blank, a bullet with one link, *)
(* another bullet ("- ..."), a checkbox bullet, a field ("- key: value"),  *)
(* a bullet that begins with a star, or other text.  A bullet with a star  *)
(* is a heading of level 1 to the schemas, but not to the formatter.       *)
(*                                                                         *)
(* A comment "# ..." in the front matter is a heading to the formatter,    *)
(* which reads the front matter like any line.  It stands among the keys;  *)
(* its text is not the name of any section.                                *)
(***************************************************************************)
EXTENDS Naturals, Sequences, SequencesExt, FiniteSetsExt

CONSTANTS None

Line(kind, level, name) == [kind |-> kind, level |-> level, name |-> name]
Heading(level, name) == Line("heading", level, name)
Fence == Line("fence", 0, None)
Blank == Line("blank", 0, None)
Link(id) == Line("link", 0, id)
Bullet(text) == Line("bullet", 0, text)
Box(text) == Line("box", 0, text)
Field(key) == Line("field", 0, key)
Star(text) == Line("star", 1, text)
Words(text) == Line("words", 0, text)

\* id, and the other keys of the front matter with what they say
FrontMatter(id, keys) == [id |-> id, keys |-> keys]
Note(front, lines) == [front |-> front, lines |-> lines]
Commented(note) == note.front # None /\ "comment" \in DOMAIN note.front.keys

\* canonicalHubSections, whatever their level and case
HubSections == {"Todo", "Topics", "Research", "Resources"}
RequiredHeaders == <<Heading(2, "Topics"), Heading(2, "Research"), Heading(2, "Resources")>>
DefaultHub == Note(FrontMatter(None, <<>>), RequiredHeaders)

Where(lines, Test(_)) == {i \in DOMAIN lines : Test(lines[i])}
IsBlank(line) == line.kind = "blank"
FirstOf(S, otherwise) == IF S = {} THEN otherwise ELSE Min(S)
DropBlanks(lines) ==
    LET full == {i \in DOMAIN lines : ~IsBlank(lines[i])}
    IN SubSeq(lines, FirstOf(full, Len(lines) + 1), Len(lines))
TrimBlanks(lines) == SubSeq(lines, 1, Max({0} \cup {i \in DOMAIN lines : ~IsBlank(lines[i])}))

\* Fences toggle, and none is ever forgotten.
Fenced(lines, i) ==
    Cardinality({k \in 1..(i - 1) : lines[k].kind = "fence"}) % 2 = 1

-----------------------------------------------------------------------------
(***************************************************************************)
(* Ids.  The registry falls back on the name of the file, or of the folder *)
(* of a hub; the formatter writes an id into a note that has none.         *)
(***************************************************************************)
ReadMetaID(note) == IF note.front = None THEN None ELSE note.front.id

ExtractID(note, name) == IF ReadMetaID(note) = None THEN name ELSE ReadMetaID(note)

\* slips: an id that is there is replaced
EnsureMetaIDAlways(note, desired) ==
    IF note.front = None
    THEN Note(FrontMatter(desired, <<>>), <<Blank>> \o note.lines)
    ELSE [note EXCEPT !.front.id = desired]

EnsureMetaID(note, desired) ==
    IF note.front = None
    THEN Note(FrontMatter(desired, <<>>), <<Blank>> \o note.lines)
    ELSE IF note.front.id = None
    THEN [note EXCEPT !.front = FrontMatter(desired, note.front.keys)]
    ELSE note

-----------------------------------------------------------------------------
(***************************************************************************)
(* One heading of level 1: the first stays, later ones go down a level,    *)
(* and if there is none the title becomes one, below the front matter.  A  *)
(* comment in the front matter is the first.                               *)
(***************************************************************************)
InsertTitle(note, title) ==
    LET rest == DropBlanks(note.lines)
        blanks == SubSeq(note.lines, 1, Len(note.lines) - Len(rest))
        above == IF blanks = <<>> /\ note.front # None THEN <<Blank>> ELSE blanks
        below == IF rest = <<>> THEN <<>> ELSE <<Blank>>
    IN above \o <<Heading(1, title)>> \o below \o rest

TopHeadings(lines) ==
    {i \in DOMAIN lines :
        lines[i].kind = "heading" /\ lines[i].level = 1 /\ ~Fenced(lines, i)}

Later(note) ==
    LET top == TopHeadings(note.lines)
    IN {i \in top : Commented(note) \/ \E k \in top : k < i}

Untitled(note) == TopHeadings(note.lines) = {} /\ ~Commented(note)

\* slips: the headings below a later one go down with it
NormalizeHeadingsBelow(note, title) ==
    LET lines == note.lines
        later == Later(note)
        Moves(i) == /\ lines[i].kind = "heading" /\ ~Fenced(lines, i)
                    /\ \E k \in later : k <= i
    IN [note EXCEPT !.lines =
          IF Untitled(note) THEN InsertTitle(note, title)
          ELSE [i \in DOMAIN lines |-> IF Moves(i)
                                       THEN Heading(lines[i].level + 1, lines[i].name)
                                       ELSE lines[i]]]

NormalizeHeadings(note, title) ==
    LET lines == note.lines
        later == Later(note)
    IN [note EXCEPT !.lines =
          IF Untitled(note) THEN InsertTitle(note, title)
          ELSE [i \in DOMAIN lines |-> IF i \in later
                                       THEN Heading(2, lines[i].name)
                                       ELSE lines[i]]]

FormatNote(note, id, title) == NormalizeHeadings(EnsureMetaID(note, id), title)

-----------------------------------------------------------------------------
(***************************************************************************)
(* The hub of a folder: its sections on level 2, none of the required ones *)
(* missing, and below Topics the ids of what is in the folder, each once:  *)
(* links that stand there already keep their place, all other lines go.    *)
(***************************************************************************)
NormalizeSections(lines) ==
    [i \in DOMAIN lines |->
        IF /\ lines[i].kind = "heading" /\ ~Fenced(lines, i)
           /\ lines[i].name \in HubSections
        THEN Heading(2, lines[i].name)
        ELSE lines[i]]

EnsureHeaders(lines) ==
    LET Add(ls, header) == IF header \in Range(ls) THEN ls ELSE ls \o <<Blank, header>>
    IN FoldLeft(Add, lines, RequiredHeaders)

IsTopics(line) == line = Heading(2, "Topics")

\* The section ends with the next line that begins with a hash, fenced or not.
TopicsStart(lines) == FirstOf(Where(lines, IsTopics), 0)

\* slips: the section reaches to the end
TopicsEndOfFile(lines) == Len(lines) + 1

TopicsEnd(lines) ==
    FirstOf({i \in DOMAIN lines : i > TopicsStart(lines) /\ lines[i].kind = "heading"},
            Len(lines) + 1)

TopicsBody(lines) == SubSeq(lines, TopicsStart(lines) + 1, TopicsEnd(lines) - 1)

\* allowed: child hubs in the order of their ids, then notes in that of theirs
ReconcileTopics(lines, allowed) ==
    LET start == TopicsStart(lines)
        body == TopicsBody(lines)
        KeepsPlace(i) ==
            /\ body[i].kind = "link" /\ body[i].name \in Range(allowed)
            /\ \A k \in 1..(i - 1) : body[k] # body[i]
        places == SelectSeq([i \in DOMAIN body |-> i], KeepsPlace)
        kept == [p \in DOMAIN places |-> body[places[p]]]
        Missing(id) == Link(id) \notin Range(kept)
        rest == DropBlanks(SubSeq(lines, TopicsEnd(lines), Len(lines)))
        new == SelectSeq(allowed, Missing)
    IN IF start = 0 THEN lines
       ELSE SubSeq(lines, 1, start) \o kept \o [i \in DOMAIN new |-> Link(new[i])]
              \o (IF rest = <<>> THEN <<>> ELSE <<Blank>>) \o rest

\* A hub that differs in the blanks at its end only is left alone.
PlanUpdate(hub, id, title, allowed) ==
    LET named == EnsureMetaID(hub, id)
        sections == [named EXCEPT !.lines = NormalizeSections(@)]
        titled == NormalizeHeadings(sections, title)
        planned == [titled EXCEPT !.lines =
                       TrimBlanks(ReconcileTopics(EnsureHeaders(@), allowed))]
    IN IF planned = [hub EXCEPT !.lines = TrimBlanks(@)] THEN hub ELSE planned
=============================================================================
