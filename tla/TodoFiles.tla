------------------------------ MODULE TodoFiles ------------------------------
(***************************************************************************)
(* mw todos sync, toggle, update and archive (features/todos, and          *)
(* mwcli/buildTodos.go): a command reads the notes one by one and writes   *)
(* them back whole, with nothing to keep the user's editor, or a stop of   *)
(* the command, from coming in between.                                    *)
(*                                                                         *)
(* A command is a sequence of stages; a stage takes one step for each      *)
(* reading or writing of a file.  The life log is a set of signatures,     *)
(* note and text, which are the whole of one on the same day.  seen, kept  *)
(* and disturbed are history.                                              *)
(***************************************************************************)
EXTENDS TodoLines

CONSTANTS
    Dir,         \* the notes in the order of WalkDir
    Inbox,       \* introspection/inbox.md
    Meta,       \* note -> its front matter; the ids there are distinct
    Contents,    \* what the notes may contain at first
    Params,      \* the edits that mw todos update is asked for
    MaxSaves,    \* bound: what the user does to the files
    MaxCommands, \* bound: commands given
    MaxIds       \* bound: todos in one update

VARIABLES
    files,      \* note -> its lines
    dash,       \* the lines of the dashboard
    log,        \* the signatures in the life log
    cmd,        \* the command that runs
    saves,      \* how often the user saved a file
    commands,   \* how many commands were given
    seen,       \* what mw query todos listed last, as far as lines stayed
    kept,       \* the tasks, <<note, text>>, that the user wrote
    disturbed   \* the user saved a file since the command began

vars == <<files, dash, log, cmd, saves, commands, seen, kept, disturbed>>

Note == Range(Dir)

ASSUME DirAssumption ==
    Dir \in Seq(Note) /\ \A v, w \in DOMAIN Dir : Dir[v] = Dir[w] => v = w
ASSUME ContentsAssumption ==
    \A fs \in Contents : DOMAIN fs = Note /\ \A n \in Note : IsLines(fs[n])

HasDefaults(n) == Meta[n] # None /\ Meta[n].indexed /\ Meta[n].active
TakesPart(n) == HasDefaults(n) \/ (n = Inbox /\ Meta[n] = None)

\* The other notes are read and passed over.
Walk == Pick(Dir, {w \in DOMAIN Dir : TakesPart(Dir[w])})
NoParams == [title |-> None, area |-> None, tags |-> NoTags, clear |-> {}]

\* plan: the stages left; left: the notes left to walk; buf: the note just read
Idle == [plan |-> <<>>, left |-> <<>>, buf |-> None, sel |-> None, todos |-> <<>>,
         ids |-> {}, params |-> NoParams, targets |-> {}, edits |-> <<>>,
         bucket |-> {}]

NoSelections == [key \in {} |-> <<>>]
TasksOf(n, lines) == TodoTasks(n, lines, NoteAreaOf(Meta[n]))
AllTodos == FlattenSeq([w \in DOMAIN Walk |-> TasksOf(Walk[w], files[Walk[w]])])

\* The same as a set.
TodosIn(n) == {TodoAt(n, files[n], NoteAreaOf(Meta[n]), i) : i \in TaskLines(files[n])}
Listed == UNION {TodosIn(n) : n \in Range(Walk)}

Tops(n, lines) == {<<n, lines[i].text>> : i \in TaskBlocks(lines)}

-----------------------------------------------------------------------------
Init ==
    /\ files \in Contents
    /\ dash = <<>>
    /\ log = {}
    /\ cmd = Idle
    /\ saves = 0
    /\ commands = 0
    /\ seen = {}
    /\ kept = UNION {Tops(n, files[n]) : n \in Note}
    /\ disturbed = FALSE

(***************************************************************************)
(* The user's editor.                                                      *)
(***************************************************************************)
KeptAfter(n, lines) ==
    {k \in kept : k[1] # n \/ k \in log} \cup Tops(n, lines)

Saves ==
    /\ saves < MaxSaves
    /\ saves' = saves + 1
    /\ disturbed' = TRUE
    /\ UNCHANGED <<log, cmd, commands>>

UserSaves(n, lines) ==
    /\ Saves
    /\ files' = [files EXCEPT ![n] = lines]
    /\ kept' = KeptAfter(n, lines)
    /\ UNCHANGED dash

UserTicks(n, i) ==
    /\ files[n][i].kind = "task"
    /\ UserSaves(n, [files[n] EXCEPT ![i].done = ~@])
    /\ UNCHANGED seen

UserInserts(n, i, text) ==
    /\ UserSaves(n, InsertAt(files[n], i, Task(0, text, FALSE, None)))
    /\ seen' = {}

UserTicksDashboard(i) ==
    /\ IsEntry(dash[i])
    /\ Saves
    /\ dash' = [dash EXCEPT ![i].done = ~@]
    /\ UNCHANGED <<files, seen, kept>>

-----------------------------------------------------------------------------
(***************************************************************************)
(* Commands.  A stage that walks the notes begins with all of them left.   *)
(***************************************************************************)
Begin(plan, ids, params) ==
    /\ cmd.plan = <<>>
    /\ commands < MaxCommands
    /\ commands' = commands + 1
    /\ cmd' = [Idle EXCEPT !.plan = plan, !.left = Walk, !.ids = ids,
                           !.params = params]
    /\ disturbed' = FALSE
    /\ UNCHANGED <<files, dash, log, saves, seen, kept>>

QueryTodos ==
    /\ cmd.plan = <<>>
    /\ seen' = Listed
    /\ seen' # seen
    /\ UNCHANGED <<files, dash, log, cmd, saves, commands, kept, disturbed>>

SyncTodos == Begin(<<"sync">>, {}, NoParams)
ArchiveTodos == Begin(<<"sync", "archive", "sync">>, {}, NoParams)
ToggleTodo(id) == Begin(<<"toggle", "refresh">>, {id}, NoParams)
UpdateTodos(ids, params) ==
    /\ params.title # None => Cardinality(ids) = 1
    /\ Begin(<<"update", "refresh">>, ids, params)

Stage == IF cmd.plan = <<>> THEN "idle" ELSE Head(cmd.plan)
Files == <<files, dash, log>>
Counts == <<saves, commands>>

\* The next stage starts over; a command that fails, or is stopped, does not.
NextStage == [Idle EXCEPT !.plan = Tail(cmd.plan), !.left = Walk]
Gives(up) == /\ up
             /\ cmd' = Idle
             /\ UNCHANGED <<Files, Counts, seen, kept, disturbed>>

Stops == Gives(cmd.plan # <<>>)

\* A write of a command to a note.
Writes(n, lines) ==
    /\ files' = [files EXCEPT ![n] = lines]
    /\ kept' = IF disturbed THEN KeptAfter(n, lines) ELSE kept

\* A note that was read into buf is written only if the command changes it.
WritesBack(n, lines) ==
    IF lines # cmd.buf THEN Writes(n, lines) ELSE UNCHANGED <<files, kept>>

(***************************************************************************)
(* sync, and refresh, which takes the boxes of the notes as they are: the  *)
(* dashboard is read, then each note is read and, if a box changes,        *)
(* written, and at last the dashboard is written.                          *)
(***************************************************************************)
Syncing == Stage \in {"sync", "refresh"}

ReadSelections ==
    /\ Syncing
    /\ cmd.sel = None
    /\ cmd' = [cmd EXCEPT !.sel =
                   IF Stage = "sync" THEN Selections(dash) ELSE NoSelections]
    /\ UNCHANGED <<Files, Counts, seen, kept, disturbed>>

ReadNote ==
    /\ \/ Syncing /\ cmd.sel # None
       \/ Stage \in {"archive", "archiveMarked"}
    /\ cmd.left # <<>>
    /\ cmd.buf = None
    /\ cmd' = [cmd EXCEPT !.buf = files[Head(cmd.left)]]
    /\ UNCHANGED <<Files, Counts, seen, kept, disturbed>>

SyncNote ==
    /\ Syncing
    /\ cmd.buf # None
    /\ LET n == Head(cmd.left)
           picked == Picked(n, cmd.buf, cmd.sel)
       IN /\ WritesBack(n, picked)
          /\ cmd' = [cmd EXCEPT !.left = Tail(@), !.buf = None,
                                !.todos = @ \o TasksOf(n, picked)]
    /\ UNCHANGED <<dash, log, Counts, seen, disturbed>>

WriteDashboard ==
    /\ Syncing
    /\ cmd.sel # None
    /\ cmd.left = <<>>
    /\ dash' = DashboardOf(cmd.todos)
    /\ cmd' = IF Tail(cmd.plan) = <<>> THEN Idle ELSE NextStage
    /\ UNCHANGED <<files, log, Counts, seen, kept, disturbed>>

(***************************************************************************)
(* toggle and update look the ids up in a listing of the notes, and then   *)
(* read each note again to edit the lines that the listing gave.           *)
(***************************************************************************)
Editing == Stage \in {"toggle", "update"}
Targets(n) == {t \in cmd.targets : t.note = n}

FindTargets ==
    /\ Editing
    /\ cmd.targets = {}
    /\ cmd.ids \subseteq {TodoId(t) : t \in Listed}
    /\ LET found == {t \in Listed : TodoId(t) \in cmd.ids}
       IN cmd' = [cmd EXCEPT
             !.targets = found,
             !.left = Pick(Walk, {w \in DOMAIN Walk : \E t \in found : t.note = Walk[w]})]
    /\ UNCHANGED <<Files, Counts, seen, kept, disturbed>>

TodoNotFound ==
    Gives(Editing /\ cmd.targets = {} /\ ~(cmd.ids \subseteq {TodoId(t) : t \in Listed}))

ReadTarget ==
    /\ Editing
    /\ cmd.targets # {}
    /\ cmd.buf = None
    /\ cmd' = [cmd EXCEPT !.buf = files[Head(cmd.left)]]
    /\ UNCHANGED <<Files, Counts, seen, kept, disturbed>>

HasTask(lines, i) == i \in DOMAIN lines /\ lines[i].kind = "task"

NoCheckbox ==
    Gives(Editing /\ cmd.buf # None
            /\ \E t \in Targets(Head(cmd.left)) : ~HasTask(cmd.buf, t.line))

\* The box is set to what the listing did not say, whatever the line says now.
ToggleTaskIndexTodo ==
    /\ Stage = "toggle"
    /\ cmd.buf # None
    /\ \E t \in Targets(Head(cmd.left)) :
          /\ HasTask(cmd.buf, t.line)
          /\ cmd.buf[t.line].done # ~t.done
          /\ Writes(t.note, [cmd.buf EXCEPT ![t.line].done = ~t.done])
    /\ cmd' = NextStage
    /\ UNCHANGED <<dash, log, Counts, seen, disturbed>>

\* The editor has set the box as wanted already: no checkbox found.
AlreadyToggled ==
    Gives(Stage = "toggle" /\ cmd.buf # None
            /\ \E t \in Targets(Head(cmd.left)) :
                  HasTask(cmd.buf, t.line) /\ cmd.buf[t.line].done # t.done)

UpdatedArea(t) ==
    IF cmd.params.area # None THEN cmd.params.area
    ELSE IF "area" \in cmd.params.clear THEN None
    ELSE t.given

UpdatedTags(t) ==
    [k \in Key |-> IF cmd.params.tags[k] # None THEN cmd.params.tags[k]
                   ELSE IF k \in cmd.params.clear THEN None
                   ELSE t.tags[k]]

UpdateTask(lines, t) ==
    LET titled == IF cmd.params.title = None THEN lines
                  ELSE [lines EXCEPT ![t.line].text = cmd.params.title,
                                     ![t.line].area = None]
    IN ReplaceMetadata(titled, t.line, UpdatedArea(t), UpdatedTags(t),
                       {line \in Range(titled) : IsMetadata(line)})

UpdateAt(n, lines, i) ==
    IF \E t \in Targets(n) : t.line = i
    THEN UpdateTask(lines, CHOOSE t \in Targets(n) : t.line = i)
    ELSE lines

\* slips: the highest line first
UpdateLinesInOrder(n, lines) ==
    LET After[i \in 0..Len(lines)] ==
            IF i = 0 THEN lines ELSE UpdateAt(n, After[i - 1], i)
    IN After[Len(lines)]

\* All targets of a note, the lowest first, so that no line moves before its turn.
UpdateLines(n, lines) ==
    LET After[i \in 1..(Len(lines) + 1)] ==
            IF i > Len(lines) THEN lines ELSE UpdateAt(n, After[i + 1], i)
    IN After[1]

\* The listing stays true of the texts unless a title changes or a task is dropped.
UpdateTaskIndexTodos ==
    /\ Stage = "update"
    /\ cmd.buf # None
    /\ LET n == Head(cmd.left)
           updated == UpdateLines(n, cmd.buf)
           Tasks(lines) == Cardinality(TaskLines(lines))
       IN /\ \A t \in Targets(n) : HasTask(cmd.buf, t.line)
          /\ IF cmd.params.title = None THEN WritesBack(n, updated)
             ELSE /\ files' = [files EXCEPT ![n] = updated]
                  /\ kept' = KeptAfter(n, updated)
          /\ seen' = IF cmd.params.title = None /\ Tasks(updated) = Tasks(cmd.buf)
                     THEN seen ELSE {}
    /\ cmd' = IF Tail(cmd.left) = <<>> THEN NextStage
              ELSE [cmd EXCEPT !.left = Tail(@), !.buf = None]
    /\ UNCHANGED <<dash, log, Counts, disturbed>>

(***************************************************************************)
(* archive: what is done is collected from all notes but the inbox, then   *)
(* written to the life log, and only then taken out of the notes, as they  *)
(* were when they were read.                                               *)
(***************************************************************************)
Archiving == Stage \in {"archive", "archiveMarked"}

\* What is done; or, at the end of a session, what was marked there.
ShouldArchive(n, lines, i) ==
    IF Stage = "archive" THEN lines[i].done
    ELSE <<n, lines[i].text, Occurrence(lines, TaskBlocks(lines), i)>> \in cmd.ids

CollectNote ==
    /\ Archiving
    /\ cmd.buf # None
    /\ LET n == Head(cmd.left)
           chosen == {i \in TaskBlocks(cmd.buf) : ShouldArchive(n, cmd.buf, i)}
           takes == HasDefaults(n) /\ chosen # {}
       IN cmd' = [cmd EXCEPT
             !.left = Tail(@), !.buf = None,
             !.bucket = IF takes
                        THEN @ \cup {<<n, cmd.buf[i].text>> : i \in chosen}
                        ELSE @,
             !.edits = IF takes
                       THEN Append(@, <<n, RemoveBlocks(cmd.buf, chosen)>>)
                       ELSE @]
    /\ UNCHANGED <<Files, Counts, seen, kept, disturbed>>

WriteArchive ==
    /\ Archiving
    /\ cmd.left = <<>>
    /\ cmd.bucket # {}
    /\ log' = log \cup cmd.bucket
    /\ cmd' = [cmd EXCEPT !.bucket = {}]
    /\ UNCHANGED <<files, dash, Counts, seen, kept, disturbed>>

\* slips: the notes are pruned before the log is written
PruneAtOnce ==
    /\ Archiving
    /\ cmd.left = <<>>
    /\ cmd.edits # <<>>
    /\ LET edit == Head(cmd.edits) IN Writes(edit[1], edit[2])
    /\ seen' = {}
    /\ cmd' = IF Tail(cmd.edits) = <<>> /\ cmd.bucket = {} THEN NextStage
              ELSE [cmd EXCEPT !.edits = Tail(@)]
    /\ UNCHANGED <<dash, log, Counts, disturbed>>

PruneNote ==
    /\ Archiving
    /\ cmd.left = <<>>
    /\ cmd.bucket = {}
    /\ cmd.edits # <<>>
    /\ LET edit == Head(cmd.edits) IN Writes(edit[1], edit[2])
    /\ seen' = {}
    /\ cmd' = IF Tail(cmd.edits) = <<>> THEN NextStage
              ELSE [cmd EXCEPT !.edits = Tail(@)]
    /\ UNCHANGED <<dash, log, Counts, disturbed>>

NothingToArchive ==
    /\ Archiving
    /\ cmd.left = <<>>
    /\ cmd.bucket = {}
    /\ cmd.edits = <<>>
    /\ cmd' = IF Stage = "archive" THEN Idle ELSE NextStage
    /\ UNCHANGED <<Files, Counts, seen, kept, disturbed>>

Command ==
    \/ Stops
    \/ ReadSelections \/ ReadNote \/ SyncNote \/ WriteDashboard
    \/ FindTargets \/ TodoNotFound \/ ReadTarget \/ NoCheckbox
    \/ ToggleTaskIndexTodo \/ AlreadyToggled \/ UpdateTaskIndexTodos
    \/ CollectNote \/ WriteArchive \/ PruneNote \/ NothingToArchive

User ==
    \/ \E n \in Range(Walk) : \E i \in DOMAIN files[n] : UserTicks(n, i)
    \/ \E n \in Range(Walk) : \E i \in 2..(Len(files[n]) + 1), t \in Text : UserInserts(n, i, t)
    \/ \E i \in DOMAIN dash : UserTicksDashboard(i)
    \/ QueryTodos
    \/ SyncTodos
    \/ ArchiveTodos
    \/ \E t \in seen : ToggleTodo(TodoId(t))
    \/ \E k \in 1..MaxIds, params \in Params :
          \E ids \in kSubset(k, {TodoId(t) : t \in seen}) : UpdateTodos(ids, params)

Next == User \/ Command

Spec == Init /\ [][Next]_vars

-----------------------------------------------------------------------------
(***************************************************************************)
(* What the commands promise as long as the user saves no file under them; *)
(* they may be stopped anywhere.                                           *)
(***************************************************************************)

\* The notes and the dashboard as an uninterrupted sync would leave them.
Outcome(fs, d) ==
    LET notes == [n \in Note |-> Picked(n, fs[n], Selections(d))]
    IN <<notes, DashboardOf(FlattenSeq([w \in DOMAIN Walk |->
                                          TasksOf(Walk[w], notes[Walk[w]])]))>>

TwinsShareArea(fs) ==
    \A n \in Note : \A t, u \in Range(TasksOf(n, fs[n])) :
        t.text = u.text => t.area = u.area

(***************************************************************************)
(* Wherever a sync stops, the next one ends as the first would have: no    *)
(* tick of the dashboard is lost half way, none is applied to another task *)
(* of the same text, and a sync right after a sync changes nothing         *)
(* (syncDashboardFromTaskIndexNotes).  Tasks of one note that say the same *)
(* must share their area: the dashboard lists them by area, the note by    *)
(* line, and each sync would swap their boxes.                             *)
(***************************************************************************)
SyncRestartable ==
    [][Stage = "sync" /\ ~disturbed' /\ TwinsShareArea(files)
         => Outcome(files', dash') = Outcome(files, dash)]_vars

(***************************************************************************)
(* A task the user wrote is in its note or in the life log: archiving      *)
(* writes the log before it prunes the notes (archiveTasksToLifeLog), and  *)
(* nothing else removes a task.  Tasks nested below another are not        *)
(* promised anything: they are pruned with it and not logged.              *)
(***************************************************************************)
NoTaskLost ==
    \A k \in kept : k \in Tops(k[1], files[k[1]]) \cup log

(***************************************************************************)
(* An id that was listed names the task it was listed for, or no task at   *)
(* all, until a line with a task is added or removed: an update moves      *)
(* lines, but then line and order no longer agree (ListActiveTaskIndexTodos*)
(* builds the id of both).                                                 *)
(***************************************************************************)
IdsNameTheSame ==
    \A s \in seen : \A t \in Listed :
        TodoId(t) = TodoId(s) => t.text = s.text

Facts(t) == [text |-> t.text, done |-> t.done, area |-> t.area, tags |-> t.tags]

\* The todos outside the blocks, counted from the top, that hold a line of at.
Outside(n, lines, at) ==
    LET touched == {Place(TaskBlocks(lines), i) : i \in at}
    IN [ranks |-> touched,
        todos |-> [r \in 1..Cardinality(TaskBlocks(lines)) \ touched |->
                     {Facts(t) : t \in {u \in Range(TasksOf(n, lines)) :
                                   Place(TaskBlocks(lines), u.line) = r}}]]

(***************************************************************************)
(* An update of some todos leaves all other blocks of tasks as they were,  *)
(* also when it adds or removes lines between them: a bulk update goes     *)
(* from the last line to the first (UpdateTaskIndexTodos).                 *)
(***************************************************************************)
UpdateIsLocal ==
    [][Stage = "update" /\ cmd.buf # None /\ ~disturbed'
         => \A n \in Note :
               files'[n] # files[n] =>
                   LET at == {t.line : t \in Targets(n)}
                       before == Outside(n, files[n], at)
                       blocks == TaskBlocks(files'[n])
                       after == {i \in blocks : Place(blocks, i) \in before.ranks}
                   IN Outside(n, files'[n], after) = before]_vars
=============================================================================
