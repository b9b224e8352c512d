----------------------------- MODULE TodoScreen -----------------------------
(***************************************************************************)
(* mw todos -i: the dashboard in a terminal (features/todos/handler.go,    *)
(* ui/todotui.go, ui/metadata_edit.go and weight_defaults.go).             *)
(*                                                                         *)
(* The screen shows the dashboard as it was when it was opened.  Metadata  *)
(* and new tasks are written to the notes at once, boxes to the dashboard  *)
(* when the user leaves; what was marked is then archived, and a sync      *)
(* follows.  Both files may have been written by others in the meantime.   *)
(***************************************************************************)
EXTENDS TodoFiles

CONSTANTS
    Summarised,  \* keys that the summary of a task shows, and its default
    Default,
    Recognised,  \* keys by which the editor knows a line of metadata
    Buffers,     \* what the user may make of the summary
    MaxKeys      \* bound: keys pressed in a session

ASSUME KeysAssumption == Summarised \subseteq Recognised /\ Recognised \subseteq Key

VARIABLES
    screen,  \* the session
    chosen   \* history: the todos the session was asked to archive

screenVars == <<screen, chosen>>
allVars == <<vars, screenVars>>

Closed == [tab |-> 0, cursor |-> 1, shown |-> <<>>, marks |-> {}, edit |-> None,
           dirty |-> FALSE, keys |-> 0]

\* Tab 0 is All; it has no list to move in.
List == IF screen.tab = 0 THEN <<>> ELSE screen.shown[screen.tab]
Current == List[screen.cursor]
OnTask == screen.tab # 0 /\ screen.cursor \in DOMAIN List

-----------------------------------------------------------------------------
(***************************************************************************)
(* Opening: the tasks of each area with their lines, and the summary of    *)
(* the metadata found for each.  Tasks that say the same take the metadata *)
(* found under their key one after the other, the areas in the order in    *)
(* which Go happens to iterate over a map.                                 *)
(***************************************************************************)
ParseDashboard ==
    [g \in DOMAIN Areas |->
        LET from == CHOOSE i \in DOMAIN dash : dash[i] = AreaHeading(Areas[g])
            to == Min({i \in DOMAIN dash : i > from /\ dash[i].kind = "blank"})
        IN [i \in 1..(to - from - 1) |->
               [line |-> from + i, note |-> dash[from + i].note,
                text |-> dash[from + i].text, done |-> dash[from + i].done]]]

\* extractTaskMetadataByKey; notes that do not take part, and the inbox, are passed over
MetadataFor(n, text) ==
    LET todos == SelectSeq(AllTodos, LAMBDA t : t.note = n /\ t.text = text)
    IN IF ~HasDefaults(n) THEN <<>> ELSE [i \in DOMAIN todos |-> todos[i].tags]

Summary(tags) ==
    [k \in Key |-> IF k \notin Summarised THEN None
                   ELSE IF tags[k] = None THEN Default[k] ELSE tags[k]]

\* rank: where each area comes in the iteration
ApplyWeights(lists, rank) ==
    [g \in DOMAIN lists |-> [i \in DOMAIN lists[g] |->
        LET t == lists[g][i]
            found == MetadataFor(t.note, t.text)
            nth == Cardinality({<<h, j>> \in (DOMAIN lists) \X (DOMAIN dash) :
                       /\ j \in DOMAIN lists[h]
                       /\ lists[h][j].note = t.note /\ lists[h][j].text = t.text
                       /\ rank[h] < rank[g] \/ (h = g /\ j <= i)})
        IN [line |-> t.line, note |-> t.note, text |-> t.text, done |-> t.done,
            meta |-> Summary(IF nth \in DOMAIN found THEN found[nth] ELSE NoTags)]]]

OpenScreen ==
    /\ dash # <<>>
    /\ Begin(<<"screen">>, {}, NoParams)
    /\ \E rank \in Permutations(DOMAIN Areas) :
          screen' = [Closed EXCEPT !.shown = ApplyWeights(ParseDashboard, rank)]
    /\ UNCHANGED chosen

-----------------------------------------------------------------------------
(***************************************************************************)
(* Keys.  Each of them is handled to the end before the next.              *)
(***************************************************************************)
Pressed(mode) ==
    /\ Stage = "screen"
    /\ (screen.edit # None) = (mode = "edit")
    /\ screen.keys < MaxKeys

Shows(s) == screen' = [s EXCEPT !.keys = @ + 1]
Moves == UNCHANGED <<vars, chosen>>

SwitchTab(by) ==
    /\ Pressed("list")
    /\ Shows([screen EXCEPT !.tab = (@ + by + Len(Areas) + 1) % (Len(Areas) + 1),
                            !.cursor = 1])
    /\ Moves

MoveCursor(to) ==
    /\ Pressed("list")
    /\ \/ to = screen.cursor - 1 /\ to >= 1
       \/ to = screen.cursor + 1 /\ screen.tab # 0 /\ to <= Len(List)
    /\ Shows([screen EXCEPT !.cursor = to])
    /\ Moves

\* toggleCurrent looks only whether the list is empty.
ToggleCurrent ==
    /\ Pressed("list")
    /\ List # <<>>
    /\ Shows([screen EXCEPT !.shown[screen.tab][screen.cursor].done = ~@])
    /\ Moves

ToggleArchiveCurrent ==
    /\ Pressed("list")
    /\ OnTask
    /\ LET key == <<screen.tab, Current.line>>
       IN Shows(IF key \in screen.marks
                THEN [screen EXCEPT !.marks = @ \ {key}]
                ELSE [screen EXCEPT !.marks = @ \cup {key},
                                    !.shown[screen.tab][screen.cursor].done = TRUE])
    /\ Moves

StartEditCurrent ==
    /\ Pressed("list")
    /\ OnTask
    /\ Shows([screen EXCEPT !.edit = Current.meta])
    /\ Moves

CancelEdit ==
    /\ Pressed("edit")
    /\ Shows([screen EXCEPT !.edit = None])
    /\ Moves

TypeMetadata(buffer) ==
    /\ Pressed("edit")
    /\ buffer # screen.edit
    /\ Shows([screen EXCEPT !.edit = buffer])
    /\ Moves

\* slips: always the first
FirstOccurrence(t) == 1

(***************************************************************************)
(* The task is looked up in its note again, by its text and by how many    *)
(* tasks that say the same stand above it on the screen, itself included.  *)
(* If the note has fewer, the first is taken.                              *)
(***************************************************************************)
ScreenOccurrence(t) ==
    Cardinality({<<g, j>> \in (DOMAIN Areas) \X (1..t.line) :
        /\ j \in DOMAIN screen.shown[g]
        /\ LET u == screen.shown[g][j]
           IN u.note = t.note /\ u.text = t.text /\ u.line <= t.line})

MatchingLines(n, text) == {i \in TaskLines(files[n]) : files[n][i].text = text}

TargetLine(n, t) ==
    LET matches == Ascending(MatchingLines(n, t.text))
        nth == ScreenOccurrence(t)
    IN IF nth <= Len(matches) THEN matches[nth] ELSE matches[1]

\* A line with any tag the editor knows goes, with its area and other tags.
EditorDrops(line) == \E k \in Recognised : line.tags[k] # None

\* The notes the editor found when it was opened; the inbox is none of them.
Sources == {n \in Note : HasDefaults(n)}

UpsertTaskMetadata(t, metadata) ==
    /\ MatchingLines(t.note, t.text) # {}
    /\ LET lines == files[t.note]
           dropped == {line \in Range(lines) : EditorDrops(line)}
       IN Writes(t.note, ReplaceMetadata(lines, TargetLine(t.note, t), None,
                                         metadata, dropped))

SaveMetadata ==
    /\ Pressed("edit")
    /\ LET t == Current
       IN /\ t.note \in Sources
          /\ UpsertTaskMetadata(t, screen.edit)
          /\ Shows([screen EXCEPT !.shown[screen.tab][screen.cursor].meta = screen.edit,
                                  !.edit = None, !.dirty = TRUE])
    /\ UNCHANGED <<dash, log, Counts, cmd, seen, disturbed, chosen>>

\* saveToInbox appends a line; it is a task only below a heading Todo.
SaveToInbox(text) ==
    /\ Pressed("list")
    /\ LET lines == Append(files[Inbox], Task(0, text, FALSE, None))
       IN files' = [files EXCEPT ![Inbox] = lines] /\ kept' = KeptAfter(Inbox, lines)
    /\ seen' = {}
    /\ Shows(screen)
    /\ UNCHANGED <<dash, log, Counts, cmd, disturbed, chosen>>

-----------------------------------------------------------------------------
(***************************************************************************)
(* Leaving: SaveToFile sets the box of whatever task now stands at the     *)
(* line of a task on the screen; the keys of the marked tasks go to the    *)
(* archive; and if anything changed, a sync follows.                       *)
(***************************************************************************)
Displayed == UNION {Range(screen.shown[g]) : g \in DOMAIN screen.shown}

SavedDashboard ==
    [i \in DOMAIN dash |->
        IF IsEntry(dash[i]) /\ \E t \in Displayed : t.line = i
        THEN [dash[i] EXCEPT !.done = (CHOOSE t \in Displayed : t.line = i).done]
        ELSE dash[i]]

Marked == {t \in Displayed : \E g \in DOMAIN Areas : <<g, t.line>> \in screen.marks}

SelectedArchiveKeys == {<<t.note, t.text, ScreenOccurrence(t)>> : t \in Marked}

\* The todos that stand at lines of the dashboard, if it shows the notes.
TodosAt(lines) ==
    IF dash = DashboardOf(AllTodos)
    THEN {t \in Range(AllTodos) :
            LET above == {i \in DOMAIN dash : dash[i] = AreaHeading(t.area)}
                before == SelectSeq(AllTodos, LAMBDA u : u.area = t.area)
            IN \E i \in above, o \in DOMAIN before :
                  before[o] = t /\ (i + o) \in lines}
    ELSE {}

QuitScreen ==
    /\ Pressed("list")
    /\ dash' = SavedDashboard
    /\ LET archive == IF Marked = {} THEN <<>> ELSE <<"archiveMarked">>
           sync == IF screen.dirty \/ dash' # dash \/ Marked # {}
                   THEN <<"sync">> ELSE <<>>
       IN cmd' = IF archive \o sync = <<>> THEN Idle
                 ELSE [Idle EXCEPT !.plan = archive \o sync, !.left = Walk,
                                   !.ids = SelectedArchiveKeys]
    /\ chosen' = TodosAt({t.line : t \in Marked})
    /\ screen' = Closed
    /\ UNCHANGED <<files, log, Counts, seen, kept, disturbed>>

KeyPress ==
    \/ \E by \in {1, -1} : SwitchTab(by)
    \/ \E to \in DOMAIN List \cup {0, screen.cursor + 1} : MoveCursor(to)
    \/ ToggleCurrent \/ ToggleArchiveCurrent
    \/ StartEditCurrent \/ CancelEdit \/ SaveMetadata
    \/ \E b \in Buffers : TypeMetadata(b)
    \/ \E text \in Text : SaveToInbox(text)
    \/ QuitScreen

ScreenInit == Init /\ screen = Closed /\ chosen = {}

ScreenNext ==
    \/ User /\ UNCHANGED screenVars
    \/ Command /\ screen' = Closed /\ UNCHANGED chosen
    \/ OpenScreen
    \/ KeyPress

ScreenSpec == ScreenInit /\ [][ScreenNext]_allVars

-----------------------------------------------------------------------------
NothingNested == \A n \in Note : TaskBlocks(files[n]) = TaskLines(files[n])

(***************************************************************************)
(* What is pruned after a session is what was marked in it: the screen     *)
(* counts the tasks that say the same over the dashboard, the archive over *)
(* the notes (sourceTaskOccurrence, archiveTasksToLifeLog).  That holds if *)
(* the dashboard showed the notes, no task stands below another, and tasks *)
(* that say the same share an area; the counts differ otherwise.           *)
(***************************************************************************)
MarkedIsArchived ==
    [][/\ Stage = "archiveMarked" /\ chosen # {}
       /\ ~disturbed' /\ NothingNested /\ TwinsShareArea(files)
       => \A n \in Note :
            files'[n] # files[n] =>
              files'[n] = RemoveBlocks(files[n], {t.line : t \in {u \in chosen : u.note = n}})
      ]_allVars
=============================================================================
