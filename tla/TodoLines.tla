------------------------------ MODULE TodoLines ------------------------------
(***************************************************************************)
(* How the todo commands read a note: features/todos/sync.go, archive.go   *)
(* and weight_defaults.go.  A note is a sequence of lines.  The front      *)
(* matter is not among them: it only says whether the note takes part, and *)
(* under which id and area.                                                *)
(*                                                                         *)
(* A line has a kind and a depth: the level of a heading, the indentation  *)
(* of any other line.  A line "* ..." is a heading of level 1 to these     *)
(* readers, its checkbox notwithstanding.  Tags are the priority, energy,  *)
(* dates and so on that a metadata line carries, one value for each key.   *)
(***************************************************************************)
EXTENDS Naturals, Sequences, SequencesExt, FiniteSetsExt

CONSTANTS
    Text,      \* what a task says, its area token taken out
    Areas,     \* focusGroups: the areas in the order of the dashboard
    Key,       \* the keys of metadata other than area
    Value,
    None

ASSUME NoneAssumption == None \notin Text \cup Value \cup Range(Areas)
ASSUME AreasAssumption == "Action" \in Range(Areas)

Area == Range(Areas)
NoTags == [k \in Key |-> None]
Tags == [Key -> Value \cup {None}]

Line(kind, depth, text, done, area, tags) ==
    [kind |-> kind, depth |-> depth, text |-> text, done |-> done,
     area |-> area, tags |-> tags]
TodoHeading(level) == Line("todo", level, None, FALSE, None, NoTags)
Heading(level, text) == Line("head", level, text, FALSE, None, NoTags)
Blank == Line("blank", 0, None, FALSE, None, NoTags)
Task(depth, text, done, area) == Line("task", depth, text, done, area, NoTags)
Metadata(depth, area, tags) == Line("meta", depth, None, FALSE, area, tags)

\* What a text is read into; it may spell any area.
IsLine(line) ==
    /\ line = Line(line.kind, line.depth, line.text, line.done, line.area, line.tags)
    /\ line.depth \in Nat
IsLines(lines) ==
    lines \in Seq(Range(lines)) /\ \A line \in Range(lines) : IsLine(line)

IsHeading(line) == line.kind \in {"todo", "head"}
IsMetadata(line) == line.area # None \/ line.tags # NoTags

\* How many of S come up to i; the elements of S in order; and seq at those places.
Place(S, i) == Cardinality({j \in S : j <= i})
Ascending(S) == [o \in 1..Cardinality(S) |-> CHOOSE i \in S : Place(S, i) = o]
Pick(seq, S) == LET at == Ascending(S) IN [o \in DOMAIN at |-> seq[at[o]]]

Earliest(S, otherwise) == IF S = {} THEN otherwise ELSE Min(S)

(***************************************************************************)
(* Line i stands in a section headed Todo: no heading of that level, or    *)
(* above it, has come since.                                               *)
(***************************************************************************)
InTodo(lines, i) ==
    \E h \in 1..(i - 1) :
        /\ lines[h].kind = "todo"
        /\ \A k \in (h + 1)..(i - 1) :
               IsHeading(lines[k]) => lines[k].depth > lines[h].depth
        /\ ~ \E k \in (h + 1)..(i - 1) : lines[k].kind = "todo"

(***************************************************************************)
(* The line after the block of line i: the lines below it that are         *)
(* indented further, with the blank ones among and after them.             *)
(***************************************************************************)
Closes(lines, i, j) ==
    /\ lines[j].kind # "blank"
    /\ IsHeading(lines[j]) \/ lines[j].depth <= lines[i].depth
BlockEnd(lines, i) ==
    Earliest({j \in (i + 1)..Len(lines) : Closes(lines, i, j)}, Len(lines) + 1)

Children(lines, i) == SubSeq(lines, i + 1, BlockEnd(lines, i) - 1)

(***************************************************************************)
(* Metadata lines of a task are joined and the first value found counts;   *)
(* so do the inline areas of tasks nested below it.                        *)
(***************************************************************************)
FirstValue(children, Of(_)) ==
    LET found == {i \in DOMAIN children : Of(children[i]) # None}
    IN IF found = {} THEN None ELSE Of(children[Min(found)])

ChildTags(children) ==
    [k \in Key |-> LET Of(line) == line.tags[k] IN FirstValue(children, Of)]
ChildArea(children) == LET Of(line) == line.area IN FirstValue(children, Of)

\* An area that is none of the dashboard's counts as none.
ResolveArea(raw, fallback) == IF raw \in Area THEN raw ELSE fallback

(***************************************************************************)
(* An inline area goes before one of the metadata, and that before the     *)
(* note's; one that is unknown keeps the metadata from being asked.        *)
(***************************************************************************)
ResolvedArea(line, children, noteArea) ==
    IF line.area # None THEN ResolveArea(line.area, noteArea)
    ELSE ResolveArea(ChildArea(children), noteArea)

(***************************************************************************)
(* The front matter of a note, or None: whether "task-index" is one of its *)
(* domains, task_active and task_area.                                     *)
(***************************************************************************)
FrontMatter(indexed, active, area) ==
    [indexed |-> indexed, active |-> active, area |-> area]

NoteAreaOf(front) ==
    IF front = None THEN "Action" ELSE ResolveArea(front.area, "Action")

\* Next, Waiting and so on are headings below Todo.
Section(lines, i) ==
    LET heading == Max({h \in 1..(i - 1) : IsHeading(lines[h])})
    IN IF lines[heading].kind = "todo" THEN "Inbox" ELSE lines[heading].text

TaskLines(lines) ==
    {i \in DOMAIN lines : lines[i].kind = "task" /\ InTodo(lines, i)}

\* How many tasks up to line i say the same: cursors and occurrences count them.
Occurrence(lines, among, i) ==
    Cardinality({k \in among : k <= i /\ lines[k].text = lines[i].text})

(***************************************************************************)
(* The task at line i of note n.  line and order, with the id of the note, *)
(* are the id of a todo.  The loop variable that extractTodoTasks sets to  *)
(* skip a block is the copy of a range, so that tasks nested below a task  *)
(* are listed as well.                                                     *)
(***************************************************************************)
TodoAt(n, lines, noteArea, i) ==
    LET children == Children(lines, i)
    IN [note |-> n, text |-> lines[i].text, done |-> lines[i].done,
        line |-> i, order |-> Place(TaskLines(lines), i),
        status |-> IF lines[i].done THEN "Done" ELSE Section(lines, i),
        area |-> ResolvedArea(lines[i], children, noteArea),
        given |-> ResolveArea(ChildArea(children), None),
        tags |-> ChildTags(children)]

TodoTasks(n, lines, noteArea) ==
    LET at == Ascending(TaskLines(lines))
    IN [o \in DOMAIN at |-> TodoAt(n, lines, noteArea, at[o])]

\* slips: without the order
TodoIdByLine(todo) == <<todo.note, todo.line>>

TodoId(todo) == <<todo.note, todo.line, todo.order>>

(***************************************************************************)
(* The archive walks by blocks: a nested task belongs to the task above.   *)
(***************************************************************************)
TaskBlocks(lines) ==
    {i \in TaskLines(lines) :
        ~ \E k \in TaskLines(lines) : k < i /\ i < BlockEnd(lines, k)}

\* The lines without the blocks that start at a line of starts, and without
\* what would be the third blank line in a row.
RemoveBlocks(lines, starts) ==
    LET left == Pick(lines, {i \in DOMAIN lines :
                    ~ \E s \in starts : s <= i /\ i < BlockEnd(lines, s)})
    IN Pick(left, {p \in DOMAIN left :
           ~ (p > 2 /\ \A q \in (p - 2)..p : left[q].kind = "blank")})

(***************************************************************************)
(* Rewriting the metadata of the task at line i: one line of it, instead   *)
(* of the dropped ones among the lines below the task, at any depth.       *)
(***************************************************************************)
ReplaceMetadata(lines, i, area, tags, dropped) ==
    LET written == IF area = None /\ tags = NoTags THEN <<>>
                   ELSE <<Metadata(lines[i].depth + 2, area, tags)>>
    IN SubSeq(lines, 1, i) \o written
         \o Pick(lines, {j \in (i + 1)..Len(lines) :
                            j < BlockEnd(lines, i) => lines[j] \notin dropped})

-----------------------------------------------------------------------------
(***************************************************************************)
(* The dashboard: for each area a heading, its tasks and a blank line.     *)
(***************************************************************************)
AreaHeading(a) == [kind |-> "area", area |-> a]
BlankEntry == [kind |-> "blank"]
Entry(todo) ==
    [kind |-> "entry", text |-> todo.text, note |-> todo.note, done |-> todo.done]

\* slips: the last task first
DashboardReversed(todos) ==
    LET Group(a) == LET InArea(todo) == todo.area = a
                    IN Reverse(SelectSeq(todos, InArea))
        Lines(a) == <<AreaHeading(a)>>
                      \o [i \in DOMAIN Group(a) |-> Entry(Group(a)[i])]
                      \o <<BlankEntry>>
    IN FlattenSeq([g \in DOMAIN Areas |-> Lines(Areas[g])])

DashboardOf(todos) ==
    LET Group(a) == LET InArea(todo) == todo.area = a
                    IN SelectSeq(todos, InArea)
        Lines(a) == <<AreaHeading(a)>>
                      \o [i \in DOMAIN Group(a) |-> Entry(Group(a)[i])]
                      \o <<BlankEntry>>
    IN FlattenSeq([g \in DOMAIN Areas |-> Lines(Areas[g])])

IsEntry(line) == line.kind = "entry"

\* readDashboardSelections: the boxes of each task, in the order of the dashboard
Selections(dash) ==
    LET entries == SelectSeq(dash, IsEntry)
    IN [key \in {<<entries[i].note, entries[i].text>> : i \in DOMAIN entries} |->
          LET Same(e) == <<e.note, e.text>> = key
              picks == SelectSeq(entries, Same)
          IN [i \in DOMAIN picks |-> picks[i].done]]

\* Note n after its boxes were set as selected.
Picked(n, lines, selections) ==
    [i \in DOMAIN lines |->
        LET key == <<n, lines[i].text>>
            nth == Occurrence(lines, TaskLines(lines), i)
        IN IF /\ i \in TaskLines(lines)
              /\ key \in DOMAIN selections
              /\ nth <= Len(selections[key])
           THEN [lines[i] EXCEPT !.done = selections[key][nth]]
           ELSE lines[i]]
=============================================================================
