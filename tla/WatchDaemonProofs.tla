-------------------------- MODULE WatchDaemonProofs --------------------------
(***************************************************************************)
(* Theorems about WatchDaemon, for any pids, paths, texts, ids, commands   *)
(* and bounds.                                                             *)
(*                                                                         *)
(* WatchInv is the inductive invariant about one refresh and the rows it   *)
(* writes; the others rest on it.  CommandInv says what a command may rely *)
(* on between its steps, if no other command overlaps with it, and         *)
(* SingleInv that there is one watcher then.  FreshInv says what of the    *)
(* disk a refresh has dealt with so far: a path is done once the refresh   *)
(* has passed it, unless it has changed since the snapshot that started    *)
(* the refresh.                                                            *)
(***************************************************************************)
EXTENDS WatchDaemon, FiniteSetTheorems, TLAPS

-----------------------------------------------------------------------------
\* A set of numbers that is not empty has a smallest element.
LEMMA SmallestNumber ==
    ASSUME NEW S \in SUBSET Nat, S # {}
    PROVE  \E m \in S : \A i \in S : m <= i
<1>1. PICK m \in S : \A i \in S : <<i, m>> \notin OpToRel(<, Nat)
  BY NatLessThanWellFounded, WFMin, Zenon
<1>2. \A i \in S : ~(i < m)
  BY <1>1, Zenon DEF OpToRel
<1> QED BY <1>2

-----------------------------------------------------------------------------
(***************************************************************************)
(* What can be said of the processes and of the rows, one step at a time.  *)
(***************************************************************************)
Run == [pc : {"off", "stat", "sleep", "check", "format", "write", "ingest",
              "upsert", "prune", "queue", "scan", "replace", "done"},
        files : SUBSET Path, text : Text \cup {NoText},
        listed : SUBSET Path, ids : [Path -> Id \cup {NoId}],
        known : [Path -> Nat], ok : BOOLEAN]

Shot == [Path -> [size : Nat, mtime : 0..MaxClock]]

\* A process that deals with a file has one left.
HasNext(w) == proc[w].pc \in {"write", "upsert", "queue"} => proc[w].files # {}

Rowed == \A p \in Path : notes[p].id = 0 <=> notes[p].text = NoText

Resting == \A w \in Proc \ alive : proc[w] = Idle

Stopping ==
    \A c \in Command : cmd[c].pc \in {"stop", "kill", "remove"} => cmd[c].kind # "start"

WatchInv ==
    /\ WatchTypeOK
    /\ previous \in [Proc -> {Untaken} \cup Shot]
    /\ Resting
    /\ Rowed
    /\ \A w \in Proc : HasNext(w)
    /\ \A w \in Proc : proc[w].pc \in {"write", "upsert"} => proc[w].text # NoText
    /\ Stopping

(***************************************************************************)
(* The kinds of steps.  Only w moves in a step of w.                       *)
(***************************************************************************)
Moves(w) == /\ proc' \in [Proc -> Run]
            /\ \A v \in Proc \ {w} : proc'[v] = proc[v]

RefreshOf(w) == w \in alive /\ Refresh(w)

LookOf(w) ==
    /\ w \in alive
    /\ \/ Wake(w)
       \/ StatNote(w)
       \/ StatFails(w) /\ previous[w] # Untaken
       \/ EndSnapshot(w)
       \/ EndRefresh(w)

EndOf(w) ==
    /\ w \in alive /\ Ends(w)
    /\ UNCHANGED <<userVars, rowVars, background, spawned, ended>>

LaunchOf(w) == Launch(w) /\ UNCHANGED <<userVars, dbVars, watchVars>>

Still == UNCHANGED <<userVars, dbVars, proc, watchVars, alive, background,
                     spawned, ended>>
-----------------------------------------------------------------------------
(***************************************************************************)
(* A step of the system is one of these kinds.                             *)
(***************************************************************************)
LEMMA StepKinds ==
    ASSUME WatchInv, [WatchNext]_vars
    PROVE  \/ User
           \/ Still
           \/ \E w \in Proc : RefreshOf(w) \/ LookOf(w) \/ EndOf(w) \/ LaunchOf(w)
<1>1. CASE UNCHANGED vars
  BY <1>1 DEF vars, controlVars, Still
<1>2. CASE User
  BY <1>2
<1>3. ASSUME NEW w \in Proc, WatcherStep(w)
      PROVE  RefreshOf(w) \/ LookOf(w) \/ EndOf(w)
  <2>1. CASE StatFails(w) /\ previous[w] = Untaken
    BY <1>3, <2>1 DEF StatFails, EndOf, WatcherStep
  <2>2. CASE ~(StatFails(w) /\ previous[w] = Untaken)
    BY <1>3, <2>2 DEF WatcherStep, RefreshOf, LookOf
  <2> QED BY <2>1, <2>2
<1>4. ASSUME NEW w \in Proc, Die(w)
      PROVE  EndOf(w)
  BY <1>4 DEF Die, EndOf
<1>5. ASSUME NEW c \in Command, NEW kind \in {"start", "stop", "restart", "fg"},
             Invoke(c, kind)
      PROVE  Still
  BY <1>5 DEF Invoke, Still
<1>6. ASSUME NEW c \in Command, CommandStep(c)
      PROVE  Still \/ \E w \in Proc : EndOf(w) \/ LaunchOf(w)
  <2>1. CASE ReadToStop(c) \/ RemovePid(c) \/ ReadToStart(c) \/ CleanPid(c)
                \/ WritePid(c)
    BY <2>1 DEF ReadToStop, RemovePid, ReadToStart, CleanPid, WritePid, Still
  <2>2. CASE Kill(c)
    <3>1. CASE cmd[c].pid \in alive
      <4>1. cmd[c].pid \in Proc
        BY <3>1 DEF WatchInv, WatchTypeOK
      <4> QED BY <2>2, <3>1, <4>1 DEF Kill, EndOf
    <3>2. CASE cmd[c].pid \notin alive
      BY <2>2, <3>2 DEF Kill, Still, dbVars, rowVars
    <3> QED BY <3>1, <3>2
  <2>3. CASE RunForeground(c)
    BY <2>3 DEF RunForeground, LaunchOf
  <2>4. CASE Spawn(c)
    BY <2>4 DEF Spawn, LaunchOf
  <2> QED BY <1>6, <2>1, <2>2, <2>3, <2>4 DEF CommandStep
<1> QED
  BY <1>1, <1>2, <1>3, <1>4, <1>5, <1>6 DEF WatchNext

(***************************************************************************)
(* The next file of a process is one of the files it has left.             *)
(***************************************************************************)
LEMMA NextFileIsLeft ==
    ASSUME WatchInv, NEW w \in Proc, proc[w].files # {}
    PROVE  NextFile(w) \in proc[w].files /\ NextFile(w) \in Path
<1>1. proc[w].files \in SUBSET Path
  BY DEF WatchInv, WatchTypeOK, TypeOK
<1>2. \E m \in proc[w].files : \A i \in proc[w].files : m <= i
  <2>1. proc[w].files \in SUBSET Nat
    BY <1>1, PathAssumption
  <2> HIDE DEF WatchInv
  <2> QED BY <2>1, SmallestNumber
<1> QED BY <1>1, <1>2 DEF NextFile, Min

\* A process that was never launched is well typed.
LEMMA IdleIsRun ==
    /\ Idle \in Run
    /\ Idle.pc = "off" /\ Idle.files = {} /\ Idle.text = NoText
    /\ Idle.listed = {} /\ ~Idle.ok
    /\ Idle.ids = [p \in Path |-> NoId] /\ Idle.known = [p \in Path |-> 0]
  BY DEF Idle, Run

\* A refresh that has ended is well typed and holds nothing.
LEMMA EndedIsRun ==
    ASSUME NEW ok \in BOOLEAN
    PROVE  /\ Ended(ok) \in Run
           /\ Ended(ok).pc = "done" /\ Ended(ok).files = {}
           /\ Ended(ok).ok = ok
  BY IdleIsRun DEF Ended, Run

(***************************************************************************)
(* Each action of a refresh moves the process, and this is how.            *)
(***************************************************************************)
LEMMA ScanNoteEffect ==
    ASSUME WatchInv, NEW w \in Proc, ScanNote(w)
    PROVE  /\ Moves(w)
           /\ NextFile(w) \in proc[w].files /\ NextFile(w) \in Path
           /\ NextFile(w) \in Files
           /\ proc[w].pc \in {"check", "scan"} /\ proc'[w].pc = proc[w].pc
           /\ proc'[w].files = proc[w].files \ {NextFile(w)}
           /\ proc'[w].ids = [proc[w].ids EXCEPT ![NextFile(w)] =
                                 IdOf[NextFile(w)][disk[NextFile(w)].text]]
           /\ proc'[w].ok = proc[w].ok
<1> DEFINE r == [proc[w] EXCEPT !.files = proc[w].files \ {NextFile(w)},
                     !.ids[NextFile(w)] = IdOf[NextFile(w)][disk[NextFile(w)].text]]
<1>1. proc \in [Proc -> Run]
  BY DEF WatchInv, WatchTypeOK, TypeOK, Run
<1>2. proc[w].files # {}
  BY DEF ScanNote, CanRead
<1>3. NextFile(w) \in proc[w].files /\ NextFile(w) \in Path
  BY <1>2, NextFileIsLeft
<1>4. disk[NextFile(w)].text \in Text /\ NextFile(w) \in Files
  BY <1>3 DEF ScanNote, CanRead, WatchInv, WatchTypeOK, TypeOK, Files
<1>5. IdOf[NextFile(w)][disk[NextFile(w)].text] \in Id
  BY <1>3, <1>4 DEF Id
<1>6. proc' = [proc EXCEPT ![w] = r]
  BY <1>1 DEF ScanNote
<1>7. /\ r \in Run
      /\ proc[w].pc \in {"check", "scan"} /\ r.pc = proc[w].pc
      /\ r.files = proc[w].files \ {NextFile(w)}
      /\ r.ids = [proc[w].ids EXCEPT ![NextFile(w)] =
                                 IdOf[NextFile(w)][disk[NextFile(w)].text]]
      /\ r.ok = proc[w].ok
  BY <1>1, <1>2, <1>3, <1>4, <1>5, IdleIsRun DEF ScanNote, Run, CanRead, At
<1> HIDE DEF r
<1> QED BY <1>1, <1>2, <1>3, <1>4, <1>5, <1>6, <1>7 DEF Moves, ScanNote, CanRead, At

\* A file that is gone ends the refresh.
LEMMA ReadFailsEffect ==
    ASSUME WatchInv, NEW w \in Proc, ReadFails(w)
    PROVE  Moves(w) /\ proc'[w] = Ended(FALSE)
<1>1. proc \in [Proc -> Run]
  BY DEF WatchInv, WatchTypeOK, TypeOK, Run
<1> QED BY <1>1, EndedIsRun DEF ReadFails, Moves

\* After the check the refresh fails, or goes on to the formatter.
LEMMA EndCheckEffect ==
    ASSUME WatchInv, NEW w \in Proc, EndCheck(w)
    PROVE  /\ Moves(w)
           /\ proc[w].pc = "check"
           /\ \/ proc'[w] = Ended(FALSE)
              \/ proc'[w].pc = "format" /\ ~proc'[w].ok
<1> DEFINE r == [Idle EXCEPT !.pc = "format", !.files = Files]
<1>1. proc \in [Proc -> Run]
  BY DEF WatchInv, WatchTypeOK, TypeOK, Run
<1>2. \/ proc' = [proc EXCEPT ![w] = Ended(FALSE)]
      \/ proc' = [proc EXCEPT ![w] = r]
  BY <1>1 DEF EndCheck
<1>3. r \in Run /\ r.pc = "format" /\ ~r.ok
  <2>1. Files \in SUBSET Path
    BY DEF Files
  <2> QED BY <2>1, IdleIsRun DEF Run
<1> HIDE DEF r
<1> QED BY <1>1, <1>2, <1>3, EndedIsRun DEF Moves, EndCheck, At

\* The formatter passes over a file, or goes to write it.
LEMMA FormatNoteEffect ==
    ASSUME WatchInv, NEW w \in Proc, FormatNote(w)
    PROVE  /\ Moves(w)
           /\ proc[w].pc = "format" /\ proc[w].files # {}
           /\ proc'[w].ok = proc[w].ok
           /\ \/ proc'[w].pc = "format"
              \/ /\ proc'[w].pc = "write" /\ proc'[w].files = proc[w].files
                 /\ proc'[w].text \in Text
<1> DEFINE t == Format[NextFile(w)][disk[NextFile(w)].text]
           q == [proc[w] EXCEPT !.files = proc[w].files \ {NextFile(w)}]
           r == [proc[w] EXCEPT !.pc = "write", !.text = t]
<1>1. proc \in [Proc -> Run]
  BY DEF WatchInv, WatchTypeOK, TypeOK, Run
<1>2. proc[w].files # {} /\ proc[w].pc = "format"
  BY DEF FormatNote, CanRead, At
<1>3. NextFile(w) \in proc[w].files /\ NextFile(w) \in Path
  BY <1>2, NextFileIsLeft
<1>4. t \in Text
  BY <1>3, FormatAssumption DEF FormatNote, CanRead, WatchInv, WatchTypeOK, TypeOK
<1>5. \/ proc' = [proc EXCEPT ![w] = q]
      \/ proc' = [proc EXCEPT ![w] = r]
  <2>1. CASE t = disk[NextFile(w)].text
    BY <1>1, <2>1 DEF FormatNote
  <2>2. CASE t # disk[NextFile(w)].text
    BY <1>1, <2>2 DEF FormatNote
  <2> QED BY <2>1, <2>2
<1>6. q \in Run /\ q.pc = "format" /\ q.ok = proc[w].ok
  BY <1>1, <1>2 DEF Run
<1>7. /\ r \in Run /\ r.pc = "write" /\ r.files = proc[w].files
      /\ r.text \in Text /\ r.ok = proc[w].ok
  BY <1>1, <1>2, <1>4 DEF Run
<1> HIDE DEF q, r, t
<1> QED BY <1>1, <1>2, <1>5, <1>6, <1>7 DEF Moves

\* After writing a file the formatter goes on with the files that are left.
LEMMA WriteNoteEffect ==
    ASSUME WatchInv, NEW w \in Proc, WriteNote(w)
    PROVE  /\ Moves(w)
           /\ NextFile(w) \in proc[w].files /\ NextFile(w) \in Path
           /\ proc[w].pc = "write" /\ proc'[w].pc = "format"
           /\ proc'[w].ok = proc[w].ok
<1> DEFINE r == [proc[w] EXCEPT !.pc = "format", !.files = proc[w].files \ {NextFile(w)},
                     !.text = NoText]
<1>1. proc \in [Proc -> Run]
  BY DEF WatchInv, WatchTypeOK, TypeOK, Run
<1>2. proc[w].files # {}
  BY DEF WriteNote, WatchInv, HasNext, At
<1>3. NextFile(w) \in proc[w].files /\ NextFile(w) \in Path
  BY <1>2, NextFileIsLeft
<1>4. proc' = [proc EXCEPT ![w] = r]
  BY <1>1 DEF WriteNote
<1>5. /\ r \in Run
      /\ proc[w].pc = "write" /\ r.pc = "format"
      /\ r.ok = proc[w].ok
  BY <1>1, <1>2, <1>3, IdleIsRun DEF WriteNote, Run, At
<1> HIDE DEF r
<1> QED BY <1>1, <1>2, <1>3, <1>4, <1>5 DEF Moves, WriteNote, At

\* The formatter hands all files to ingestion.
LEMMA EndFormatEffect ==
    ASSUME WatchInv, NEW w \in Proc, EndFormat(w)
    PROVE  /\ Moves(w)
           /\ proc[w].pc = "format" /\ proc'[w].pc = "ingest"
           /\ proc'[w].files = Files
           /\ proc'[w].listed = {}
           /\ proc'[w].ids = [p \in Path |-> NoId]
           /\ ~proc'[w].ok
<1> DEFINE r == [Idle EXCEPT !.pc = "ingest", !.files = Files]
<1>1. proc \in [Proc -> Run]
  BY DEF WatchInv, WatchTypeOK, TypeOK, Run
<1>2. Files \in SUBSET Path
  BY DEF Files
<1>3. proc' = [proc EXCEPT ![w] = r]
  BY <1>1 DEF EndFormat
<1>4. /\ r \in Run
      /\ proc[w].pc = "format" /\ r.pc = "ingest"
      /\ r.files = Files
      /\ r.listed = {}
      /\ r.ids = [p \in Path |-> NoId]
      /\ ~r.ok
  BY <1>1, <1>2, IdleIsRun DEF EndFormat, Run, At
<1> HIDE DEF r
<1> QED BY <1>1, <1>2, <1>3, <1>4 DEF Moves, EndFormat, At

\* Ingestion has read what was on disk at this step.
LEMMA ReadNoteEffect ==
    ASSUME WatchInv, NEW w \in Proc, ReadNote(w)
    PROVE  /\ Moves(w)
           /\ NextFile(w) \in proc[w].files /\ NextFile(w) \in Path
           /\ NextFile(w) \in Files
           /\ proc[w].pc = "ingest" /\ proc'[w].pc = "upsert"
           /\ proc'[w].files = proc[w].files
           /\ proc'[w].listed = proc[w].listed \cup {NextFile(w)}
           /\ proc'[w].text = disk[NextFile(w)].text
           /\ disk[NextFile(w)].text \in Text
           /\ proc'[w].ok = proc[w].ok
<1> DEFINE r == [proc[w] EXCEPT !.pc = "upsert", !.listed = proc[w].listed \cup {NextFile(w)},
                     !.text = disk[NextFile(w)].text]
<1>1. proc \in [Proc -> Run]
  BY DEF WatchInv, WatchTypeOK, TypeOK, Run
<1>2. proc[w].files # {}
  BY DEF ReadNote, CanRead
<1>3. NextFile(w) \in proc[w].files /\ NextFile(w) \in Path
  BY <1>2, NextFileIsLeft
<1>4. disk[NextFile(w)].text \in Text /\ NextFile(w) \in Files
  BY <1>3 DEF ReadNote, CanRead, WatchInv, WatchTypeOK, TypeOK, Files
<1>5. proc[w].listed \cup {NextFile(w)} \in SUBSET Path
  BY <1>1, <1>3 DEF Run
<1>6. proc' = [proc EXCEPT ![w] = r]
  BY <1>1 DEF ReadNote
<1>7. /\ r \in Run
      /\ proc[w].pc = "ingest" /\ r.pc = "upsert"
      /\ r.files = proc[w].files
      /\ r.listed = proc[w].listed \cup {NextFile(w)}
      /\ r.text = disk[NextFile(w)].text
      /\ r.ok = proc[w].ok
  BY <1>1, <1>2, <1>3, <1>4, <1>5, IdleIsRun DEF ReadNote, Run, CanRead, At
<1> HIDE DEF r
<1> QED BY <1>1, <1>2, <1>3, <1>4, <1>5, <1>6, <1>7 DEF Moves, ReadNote, CanRead, At

\* After an upsert the refresh goes on with the files that are left.
LEMMA UpsertNoteEffect ==
    ASSUME WatchInv, NEW w \in Proc, UpsertNote(w)
    PROVE  /\ Moves(w)
           /\ NextFile(w) \in proc[w].files /\ NextFile(w) \in Path
           /\ proc[w].pc = "upsert" /\ proc'[w].pc = "ingest"
           /\ proc'[w].files = proc[w].files \ {NextFile(w)}
           /\ proc'[w].listed = proc[w].listed
           /\ proc'[w].ok = proc[w].ok
<1> DEFINE r == [proc[w] EXCEPT !.pc = "ingest", !.files = proc[w].files \ {NextFile(w)},
                     !.text = NoText]
<1>1. proc \in [Proc -> Run]
  BY DEF WatchInv, WatchTypeOK, TypeOK, Run
<1>2. proc[w].files # {}
  BY DEF UpsertNote, WatchInv, HasNext, At
<1>3. NextFile(w) \in proc[w].files /\ NextFile(w) \in Path
  BY <1>2, NextFileIsLeft
<1>4. proc' = [proc EXCEPT ![w] = r]
  BY <1>1 DEF UpsertNote
<1>5. /\ r \in Run
      /\ proc[w].pc = "upsert" /\ r.pc = "ingest"
      /\ r.files = proc[w].files \ {NextFile(w)}
      /\ r.listed = proc[w].listed
      /\ r.ok = proc[w].ok
  BY <1>1, <1>2, <1>3, IdleIsRun DEF UpsertNote, Run, At
<1> HIDE DEF r
<1> QED BY <1>1, <1>2, <1>3, <1>4, <1>5 DEF Moves, UpsertNote, At

\* The rows to prune are those whose file was not listed.
LEMMA ListPrunedEffect ==
    ASSUME WatchInv, NEW w \in Proc, ListPruned(w)
    PROVE  /\ Moves(w)
           /\ proc[w].pc = "ingest" /\ proc'[w].pc = "prune"
           /\ proc[w].files = {}
           /\ proc'[w].files = {p \in Path : notes[p].id # 0} \ proc[w].listed
           /\ ~proc'[w].ok
<1> DEFINE pruned == {p \in Path : notes[p].id # 0} \ proc[w].listed
           r == [Idle EXCEPT !.pc = "prune", !.files = pruned]
<1>1. proc \in [Proc -> Run]
  BY DEF WatchInv, WatchTypeOK, TypeOK, Run
<1>2. pruned \in SUBSET Path
  OBVIOUS
<1>3. proc' = [proc EXCEPT ![w] = r]
  BY <1>1 DEF ListPruned
<1> HIDE DEF pruned
<1>4. r \in Run /\ r.pc = "prune" /\ r.files = pruned /\ ~r.ok
  BY <1>2, IdleIsRun DEF Run
<1> HIDE DEF r
<1>5. pruned = {p \in Path : notes[p].id # 0} \ proc[w].listed
  BY DEF pruned
<1> QED BY <1>1, <1>3, <1>4, <1>5 DEF Moves, ListPruned, At

\* After the deletion of a row the refresh goes to queue it.
LEMMA DeleteNoteEffect ==
    ASSUME WatchInv, NEW w \in Proc, DeleteNote(w)
    PROVE  /\ Moves(w)
           /\ NextFile(w) \in proc[w].files /\ NextFile(w) \in Path
           /\ proc[w].pc = "prune" /\ proc'[w].pc = "queue"
           /\ proc'[w].files = proc[w].files
           /\ proc'[w].ok = proc[w].ok
<1> DEFINE r == [proc[w] EXCEPT !.pc = "queue"]
<1>1. proc \in [Proc -> Run]
  BY DEF WatchInv, WatchTypeOK, TypeOK, Run
<1>2. proc[w].files # {}
  BY DEF DeleteNote
<1>3. NextFile(w) \in proc[w].files /\ NextFile(w) \in Path
  BY <1>2, NextFileIsLeft
<1>4. proc' = [proc EXCEPT ![w] = r]
  BY <1>1 DEF DeleteNote
<1>5. /\ r \in Run
      /\ proc[w].pc = "prune" /\ r.pc = "queue"
      /\ r.files = proc[w].files
      /\ r.ok = proc[w].ok
  BY <1>1, <1>2, <1>3, IdleIsRun DEF DeleteNote, Run, At
<1> HIDE DEF r
<1> QED BY <1>1, <1>2, <1>3, <1>4, <1>5 DEF Moves, DeleteNote, At

\* After queueing a deletion the refresh goes on with the rows that are left
\* to prune.
LEMMA QueueDeleteEffect ==
    ASSUME WatchInv, NEW w \in Proc, QueueDelete(w)
    PROVE  /\ Moves(w)
           /\ NextFile(w) \in proc[w].files /\ NextFile(w) \in Path
           /\ proc[w].pc = "queue" /\ proc'[w].pc = "prune"
           /\ proc'[w].files = proc[w].files \ {NextFile(w)}
           /\ proc'[w].ok = proc[w].ok
<1> DEFINE r == [proc[w] EXCEPT !.pc = "prune", !.files = proc[w].files \ {NextFile(w)}]
<1>1. proc \in [Proc -> Run]
  BY DEF WatchInv, WatchTypeOK, TypeOK, Run
<1>2. proc[w].files # {}
  BY DEF QueueDelete, WatchInv, HasNext, At
<1>3. NextFile(w) \in proc[w].files /\ NextFile(w) \in Path
  BY <1>2, NextFileIsLeft
<1>4. proc' = [proc EXCEPT ![w] = r]
  BY <1>1 DEF QueueDelete
<1>5. /\ r \in Run
      /\ proc[w].pc = "queue" /\ r.pc = "prune"
      /\ r.files = proc[w].files \ {NextFile(w)}
      /\ r.ok = proc[w].ok
  BY <1>1, <1>2, <1>3, IdleIsRun DEF QueueDelete, Run, At
<1> HIDE DEF r
<1> QED BY <1>1, <1>2, <1>3, <1>4, <1>5 DEF Moves, QueueDelete, At

\* Once everything is pruned, all files are scanned for ids.
LEMMA EndIngestEffect ==
    ASSUME WatchInv, NEW w \in Proc, EndIngest(w)
    PROVE  /\ Moves(w)
           /\ proc[w].pc = "prune" /\ proc'[w].pc = "scan"
           /\ proc[w].files = {}
           /\ proc'[w].files = Files
           /\ proc'[w].listed = {}
           /\ proc'[w].ids = [p \in Path |-> NoId]
           /\ ~proc'[w].ok
<1> DEFINE r == [Idle EXCEPT !.pc = "scan", !.files = Files]
<1>1. proc \in [Proc -> Run]
  BY DEF WatchInv, WatchTypeOK, TypeOK, Run
<1>2. Files \in SUBSET Path
  BY DEF Files
<1>3. proc' = [proc EXCEPT ![w] = r]
  BY <1>1 DEF EndIngest
<1>4. /\ r \in Run
      /\ proc[w].pc = "prune" /\ r.pc = "scan"
      /\ r.files = Files
      /\ r.listed = {}
      /\ r.ids = [p \in Path |-> NoId]
      /\ ~r.ok
  BY <1>1, <1>2, IdleIsRun DEF EndIngest, Run, At
<1> HIDE DEF r
<1> QED BY <1>1, <1>2, <1>3, <1>4 DEF Moves, EndIngest, At

\* What the lookup knows of a path with an id is the row of notes it has now.
LEMMA LookUpNotesEffect ==
    ASSUME WatchInv, NEW w \in Proc, LookUpNotes(w)
    PROVE  /\ Moves(w)
           /\ proc[w].pc = "scan" /\ proc'[w].pc = "replace"
           /\ proc[w].files = {} /\ proc'[w].files = {}
           /\ proc'[w].ids = proc[w].ids
           /\ \A p \in Path : proc'[w].known[p] =
                 IF proc[w].ids[p] = NoId THEN 0 ELSE notes[p].id
           /\ proc'[w].ok = proc[w].ok
<1> DEFINE k == [p \in Path |-> IF proc[w].ids[p] = NoId THEN 0 ELSE notes[p].id]
           r == [proc[w] EXCEPT !.pc = "replace", !.known = k]
<1>1. proc \in [Proc -> Run]
  BY DEF WatchInv, WatchTypeOK, TypeOK, Run
<1>2. k \in [Path -> Nat]
  BY DEF WatchInv, WatchTypeOK, TypeOK
<1>3. \A p \in Path : k[p] = IF proc[w].ids[p] = NoId THEN 0 ELSE notes[p].id
  OBVIOUS
<1>4. proc' = [proc EXCEPT ![w] = r]
  BY <1>1 DEF LookUpNotes
<1> HIDE DEF k
<1>5. /\ r \in Run /\ r.pc = "replace" /\ r.files = proc[w].files
      /\ r.ids = proc[w].ids /\ r.known = k /\ r.ok = proc[w].ok
  BY <1>1, <1>2 DEF Run
<1> HIDE DEF r
<1> QED BY <1>1, <1>3, <1>4, <1>5 DEF Moves, LookUpNotes, At

\* The replacement fails, or every note that was looked up is still there.
LEMMA ReplaceRegistryEffect ==
    ASSUME WatchInv, NEW w \in Proc, ReplaceRegistry(w)
    PROVE  /\ Moves(w)
           /\ proc[w].pc = "replace"
           /\ \/ proc'[w] = Ended(FALSE)
              \/ /\ proc'[w] = Ended(TRUE)
                 /\ \A p \in Path : \/ proc[w].known[p] = 0
                                    \/ notes[p].id = proc[w].known[p]
<1>1. proc \in [Proc -> Run]
  BY DEF WatchInv, WatchTypeOK, TypeOK, Run
<1>2. \/ proc' = [proc EXCEPT ![w] = Ended(FALSE)]
      \/ /\ proc' = [proc EXCEPT ![w] = Ended(TRUE)]
         /\ ~\E p \in Path : proc[w].known[p] # 0 /\ notes[p].id # proc[w].known[p]
  BY DEF ReplaceRegistry
<1> QED BY <1>1, <1>2, EndedIsRun DEF Moves, ReplaceRegistry, At

(***************************************************************************)
(* The steps between two refreshes.  In each of them only w moves, and     *)
(* only its snapshots change.                                              *)
(***************************************************************************)
MovesShots(w) ==
    /\ snap' \in [Proc -> Shot] /\ previous' \in [Proc -> {Untaken} \cup Shot]
    /\ \A v \in Proc \ {w} : snap'[v] = snap[v] /\ previous'[v] = previous[v]

\* The snapshots are well typed.
LEMMA ShotTypes ==
    ASSUME WatchInv
    PROVE  /\ proc \in [Proc -> Run]
           /\ snap \in [Proc -> Shot]
           /\ previous \in [Proc -> {Untaken} \cup Shot]
           /\ NoSnapshot \in Shot
           /\ \A p \in Path : Stat(p) \in [size : Nat, mtime : 0..MaxClock]
           /\ \A p \in Path : Stat(p).mtime <= disk[p].mtime
           /\ Untaken \notin Shot
<1>1. proc \in [Proc -> Run]
  BY DEF WatchInv, WatchTypeOK, TypeOK, Run
<1>2. /\ snap \in [Proc -> Shot]
      /\ previous \in [Proc -> {Untaken} \cup Shot]
  BY DEF WatchInv, WatchTypeOK, Shot
<1>3. NoFile \in [size : Nat, mtime : 0..MaxClock]
  BY ClockAssumption DEF NoFile
<1>4. NoSnapshot \in Shot
  BY <1>3 DEF NoSnapshot, Shot
<1>5. ASSUME NEW p \in Path
      PROVE  /\ Stat(p) \in [size : Nat, mtime : 0..MaxClock]
             /\ Stat(p).mtime <= disk[p].mtime
  <2>1. disk[p].text \in Text \cup {NoText} /\ disk[p].mtime \in 0..MaxClock
    BY DEF WatchInv, WatchTypeOK, TypeOK
  <2>2. CASE disk[p].text = NoText
    <3>1. Stat(p) = NoFile /\ NoFile.mtime = 0
      BY <2>2 DEF Stat, NoFile
    <3> QED BY <2>1, <3>1, <1>3, ClockAssumption
  <2>3. CASE disk[p].text # NoText
    <3>1. Size[disk[p].text] \in Nat
      BY <2>1, <2>3, SizeAssumption
    <3>2. Stat(p) = [size |-> Size[disk[p].text], mtime |-> disk[p].mtime]
      BY <2>3 DEF Stat
    <3> QED BY <2>1, <3>1, <3>2, ClockAssumption
  <2> QED BY <2>2, <2>3
<1>6. Untaken \notin Shot
  <2>1. DOMAIN Untaken = {}
    BY DEF Untaken
  <2>2. \A s \in Shot : DOMAIN s = Path
    BY DEF Shot
  <2> QED BY <2>1, <2>2, PathAssumption
<1> QED BY <1>1, <1>2, <1>4, <1>5, <1>6

\* A poll starts, and leaves the snapshots as they are.
LEMMA WakeEffect ==
    ASSUME WatchInv, NEW w \in Proc, Wake(w)
    PROVE  /\ Moves(w)
           /\ proc[w].pc = "sleep" /\ proc'[w].pc = "stat"
           /\ proc'[w].ok = proc[w].ok
           /\ snap' = snap /\ previous' = previous
<1>1. proc \in [Proc -> Run]
  BY ShotTypes
<1>2. Files \in SUBSET Path
  BY DEF Files
<1> DEFINE r == [proc[w] EXCEPT !.pc = "stat", !.files = Files]
<1>3. proc' = [proc EXCEPT ![w] = r]
  BY <1>1 DEF Wake, StartSnapshot
<1>4. r \in Run /\ r.pc = "stat" /\ r.ok = proc[w].ok
  BY <1>1, <1>2 DEF Run
<1> HIDE DEF r
<1> QED BY <1>1, <1>3, <1>4 DEF Wake, Moves, At, watchVars

\* The snapshot of one file is what is on disk at this step.
LEMMA StatNoteEffect ==
    ASSUME WatchInv, NEW w \in Proc, StatNote(w)
    PROVE  /\ Moves(w) /\ MovesShots(w)
           /\ NextFile(w) \in Path
           /\ proc[w].pc = "stat" /\ proc'[w].pc = "stat"
           /\ proc'[w].ok = proc[w].ok
           /\ snap'[w] = [snap[w] EXCEPT ![NextFile(w)] = Stat(NextFile(w))]
           /\ previous' = previous
<1>1. proc \in [Proc -> Run]
  BY ShotTypes
<1>2. proc[w].files # {}
  BY DEF StatNote
<1>3. NextFile(w) \in Path
  BY <1>2, NextFileIsLeft
<1> DEFINE s == [snap[w] EXCEPT ![NextFile(w)] = Stat(NextFile(w))]
           r == [proc[w] EXCEPT !.files = proc[w].files \ {NextFile(w)}]
<1>4. s \in Shot
  BY <1>3, ShotTypes DEF Shot
<1>5. snap' = [snap EXCEPT ![w] = s]
  BY ShotTypes DEF StatNote
<1>6. proc' = [proc EXCEPT ![w] = r]
  BY <1>1 DEF StatNote
<1>7. r \in Run /\ r.pc = proc[w].pc /\ r.ok = proc[w].ok
  BY <1>1 DEF Run
<1>8. s = [snap[w] EXCEPT ![NextFile(w)] = Stat(NextFile(w))]
  OBVIOUS
<1> HIDE DEF s, r
<1>9. MovesShots(w) /\ snap'[w] = s
  BY <1>4, <1>5, ShotTypes DEF StatNote, MovesShots
<1> QED BY <1>1, <1>3, <1>6, <1>7, <1>8, <1>9 DEF StatNote, Moves, At

\* A later snapshot that fails leaves the watcher asleep with the earlier
\* one.
LEMMA StatFailsEffect ==
    ASSUME WatchInv, NEW w \in Proc, StatFails(w), previous[w] # Untaken
    PROVE  /\ Moves(w) /\ MovesShots(w)
           /\ proc[w].pc = "stat" /\ proc'[w].pc = "sleep"
           /\ proc'[w].ok = proc[w].ok
           /\ snap'[w] = NoSnapshot
           /\ previous' = previous
<1> DEFINE r == [proc[w] EXCEPT !.pc = "sleep", !.files = {}]
<1>1. proc \in [Proc -> Run]
  BY ShotTypes
<1>2. proc' = [proc EXCEPT ![w] = r]
  BY <1>1 DEF StatFails
<1>3. r \in Run /\ r.pc = "sleep" /\ r.ok = proc[w].ok
  BY <1>1 DEF Run
<1> HIDE DEF r
<1>4. MovesShots(w) /\ snap'[w] = NoSnapshot /\ previous' = previous
  BY ShotTypes DEF StatFails, MovesShots
<1> QED BY <1>1, <1>2, <1>3, <1>4 DEF StatFails, Moves, At

\* The watcher sleeps, and compares the next snapshot with this one.
LEMMA SleepEffect ==
    ASSUME WatchInv, NEW w \in Proc, Sleep(w, snap[w])
    PROVE  /\ Moves(w) /\ MovesShots(w)
           /\ proc'[w].pc = "sleep" /\ proc'[w].ok = proc[w].ok
           /\ previous'[w] = snap[w] /\ snap'[w] = NoSnapshot
<1> DEFINE r == [proc[w] EXCEPT !.pc = "sleep"]
<1>1. proc \in [Proc -> Run]
  BY ShotTypes
<1>2. proc' = [proc EXCEPT ![w] = r]
  BY <1>1 DEF Sleep
<1>3. r \in Run /\ r.pc = "sleep" /\ r.ok = proc[w].ok
  BY <1>1 DEF Run
<1> HIDE DEF r
<1>4. MovesShots(w) /\ previous'[w] = snap[w] /\ snap'[w] = NoSnapshot
  BY ShotTypes DEF Sleep, MovesShots
<1> QED BY <1>1, <1>2, <1>3, <1>4 DEF Moves

\* A snapshot that is the first, or the same as the last, lets the watcher
\* sleep; another starts a refresh of every file.
LEMMA EndSnapshotEffect ==
    ASSUME WatchInv, NEW w \in Proc, EndSnapshot(w)
    PROVE  /\ Moves(w) /\ MovesShots(w)
           /\ proc[w].pc = "stat"
           /\ \/ /\ previous[w] \in {Untaken, snap[w]}
                 /\ proc'[w].pc = "sleep" /\ proc'[w].ok = proc[w].ok
                 /\ previous'[w] = snap[w] /\ snap'[w] = NoSnapshot
              \/ /\ previous[w] # Untaken
                 /\ proc'[w].pc = IF w \in Formatting THEN "check" ELSE "ingest"
                 /\ proc'[w].files = Files /\ proc'[w].listed = {}
                 /\ ~proc'[w].ok
                 /\ snap' = snap /\ previous' = previous
<1>1. CASE previous[w] \in {Untaken, snap[w]}
  BY <1>1, SleepEffect DEF EndSnapshot, At
<1>2. CASE previous[w] \notin {Untaken, snap[w]}
  <2> DEFINE pc == IF w \in Formatting THEN "check" ELSE "ingest"
             r == [Idle EXCEPT !.pc = pc, !.files = Files]
  <2>1. BeginRefresh(w, w \in Formatting) /\ UNCHANGED watchVars
    BY <1>2 DEF EndSnapshot
  <2>2. proc' = [proc EXCEPT ![w] = r]
    BY <2>1 DEF BeginRefresh
  <2>3. Files \in SUBSET Path
    BY DEF Files
  <2>4. /\ r \in Run /\ r.pc = pc /\ r.files = Files /\ r.listed = {}
        /\ ~r.ok
    BY <2>3, IdleIsRun DEF Run
  <2> HIDE DEF r
  <2>5. proc \in [Proc -> Run]
    BY ShotTypes
  <2>6. Moves(w)
    BY <2>2, <2>4, <2>5 DEF Moves
  <2>7. MovesShots(w) /\ snap' = snap /\ previous' = previous
    BY <2>1, ShotTypes DEF MovesShots, watchVars
  <2>8. proc'[w] = r
    BY <2>2, <2>5
  <2>9. proc[w].pc = "stat" /\ previous[w] # Untaken
    BY <1>2 DEF EndSnapshot, At
  <2> QED BY <2>4, <2>6, <2>7, <2>8, <2>9
<1> QED BY <1>1, <1>2

\* After a refresh the next snapshot is compared with the one that started
\* it.
LEMMA EndRefreshEffect ==
    ASSUME WatchInv, NEW w \in Proc, EndRefresh(w)
    PROVE  /\ Moves(w) /\ MovesShots(w)
           /\ proc[w].pc = "done" /\ proc'[w].pc = "sleep"
           /\ proc'[w].ok = proc[w].ok
           /\ previous'[w] = snap[w] /\ snap'[w] = NoSnapshot
  BY SleepEffect DEF EndRefresh, At

\* Of a watcher that ends, nothing is left in its process or its snapshots.
LEMMA EndsEffect ==
    ASSUME WatchInv, NEW w \in Proc, Ends(w)
    PROVE  /\ Moves(w) /\ MovesShots(w)
           /\ alive' = alive \ {w}
           /\ proc'[w] = Idle
           /\ snap'[w] = NoSnapshot /\ previous'[w] = Untaken
<1>1. Moves(w) /\ proc'[w] = Idle
  BY ShotTypes, IdleIsRun DEF Ends, Moves
<1>2. MovesShots(w) /\ snap'[w] = NoSnapshot /\ previous'[w] = Untaken
  BY ShotTypes DEF Ends, MovesShots
<1> QED BY <1>1, <1>2 DEF Ends

(***************************************************************************)
(* A pid that was not given out is of a process that does not run.         *)
(***************************************************************************)
LEMMA LaunchEffect ==
    ASSUME WatchInv, NEW w \in Proc, Launch(w)
    PROVE  /\ Moves(w)
           /\ w \notin spawned /\ w \notin alive /\ proc[w] = Idle
           /\ proc'[w].pc = "stat" /\ ~proc'[w].ok
           /\ alive' = alive \cup {w} /\ spawned' = spawned \cup {w}
           /\ ended'[w] = spawned \ alive
           /\ \A v \in Proc \ {w} : ended'[v] = ended[v]
           /\ ended' \in [Proc -> SUBSET Proc]
<1>1. w \notin spawned /\ w \notin alive
  BY DEF Launch, WatchInv, WatchTypeOK
<1>2. proc[w] = Idle
  BY <1>1 DEF WatchInv, Resting
<1> DEFINE r == [Idle EXCEPT !.pc = "stat", !.files = Files]
<1>3. Files \in SUBSET Path
  BY DEF Files
<1>4. r \in Run /\ r.pc = "stat" /\ ~r.ok
  BY <1>3, IdleIsRun DEF Run
<1>5. proc' = [proc EXCEPT ![w] = r]
  BY <1>2, ShotTypes DEF Launch, StartSnapshot
<1> HIDE DEF r
<1>6. Moves(w) /\ proc'[w] = r
  BY <1>4, <1>5, ShotTypes DEF Moves
<1>7. /\ alive' = alive \cup {w} /\ spawned' = spawned \cup {w}
      /\ ended' = [ended EXCEPT ![w] = spawned \ alive]
  BY DEF Launch
<1>8. ended \in [Proc -> SUBSET Proc] /\ spawned \in SUBSET Proc
  BY DEF WatchInv, WatchTypeOK
<1> QED BY <1>1, <1>2, <1>4, <1>6, <1>7, <1>8

-----------------------------------------------------------------------------
(***************************************************************************)
(* WatchInv is inductive.  Its four parts: the files and the rows, the     *)
(* processes, the watchers and the commands.                               *)
(***************************************************************************)
DataOK ==
    /\ clock \in 1..MaxClock
    /\ disk \in [Path -> [text : Text \cup {NoText}, mtime : 0..MaxClock]]
    /\ notes \in [Path -> [id : Nat, text : Text \cup {NoText}]]
    /\ lastId \in Nat
    /\ outbox \in [Path -> [rows : SUBSET (Text \cup {NoText}),
                            newest : Text \cup {NoText}]]
    /\ untold \subseteq Path
    /\ Rowed

RegistryOK ==
    /\ registry.entries \subseteq [path : Path, uid : Id]
    /\ registry.conflicts \subseteq
          [path : Path, uid : Id, inDb : BOOLEAN,
           reason : {"DUPLICATE_ID", "NOTE_NOT_IN_DB"}]

ProcOK ==
    /\ proc \in [Proc -> Run]
    /\ \A w \in Proc : HasNext(w)
    /\ \A w \in Proc : proc[w].pc \in {"write", "upsert"} => proc[w].text # NoText

WatchersOK ==
    /\ spawned \subseteq Proc
    /\ alive \subseteq spawned /\ background \subseteq spawned
    /\ ended \in [Proc -> SUBSET Proc]
    /\ snap \in [Proc -> Shot]
    /\ previous \in [Proc -> {Untaken} \cup Shot]
    /\ Resting

Invocation ==
    [pc : {"idle", "stop", "kill", "remove", "fg", "start", "clean", "spawn",
           "write"},
     kind : {"start", "stop", "restart", "fg"}, pid : Proc \cup {0}]

CommandsOK ==
    /\ pidFile \in Proc \cup {0}
    /\ cmd \in [Command -> Invocation]
    /\ Stopping

\* The four parts are the invariant.
LEMMA WatchInvParts ==
    WatchInv <=> DataOK /\ RegistryOK /\ ProcOK /\ WatchersOK /\ CommandsOK
<1>1. previous \in [Proc -> {Untaken} \cup Shot] =>
        \A w \in Proc : previous[w] = Untaken \/ previous[w] \in Shot
  OBVIOUS
<1> QED BY <1>1 DEF WatchInv, WatchTypeOK, TypeOK, DataOK, RegistryOK, ProcOK,
                    WatchersOK, CommandsOK, Invocation, Run, Shot

\* The initial state satisfies the invariant.
LEMMA WatchInvInit ==
    ASSUME WatchInit
    PROVE  WatchInv
<1> USE DEF WatchInit, Init
<1>1. DataOK
  BY ClockAssumption, TextAssumption DEF DataOK, Rowed
<1>2. RegistryOK
  BY DEF RegistryOK
<1>3. ProcOK
  BY IdleIsRun DEF ProcOK, HasNext
<1>4. WatchersOK
  <2>1. NoSnapshot \in Shot
    <3>1. NoFile \in [size : Nat, mtime : 0..MaxClock]
      BY ClockAssumption DEF NoFile
    <3> QED BY <3>1 DEF NoSnapshot, Shot
  <2> QED BY <2>1 DEF WatchersOK, Resting
<1>5. CommandsOK
  BY DEF CommandsOK, Finished, Invocation, Stopping
<1> QED BY <1>1, <1>2, <1>3, <1>4, <1>5, WatchInvParts

(***************************************************************************)
(* What queueing a row does: the newest row says what is queued, or the    *)
(* path is one the outbox was not told of.                                 *)
(***************************************************************************)
LEMMA EnqueueTypes ==
    ASSUME NEW p \in Path, NEW t \in Text \cup {NoText}, DataOK, Enqueue(p, t)
    PROVE  /\ outbox' \in [Path -> [rows : SUBSET (Text \cup {NoText}),
                                    newest : Text \cup {NoText}]]
           /\ untold' \subseteq Path
<1> DEFINE r == [rows |-> outbox[p].rows \cup {t}, newest |-> t]
<1>1. r \in [rows : SUBSET (Text \cup {NoText}), newest : Text \cup {NoText}]
  BY DEF DataOK
<1>2. outbox' = outbox \/ outbox' = [outbox EXCEPT ![p] = r]
  BY DEF Enqueue, DataOK
<1>3. untold' \subseteq Path
  BY DEF Enqueue, DataOK
<1> HIDE DEF r
<1> QED BY <1>1, <1>2, <1>3 DEF DataOK

LEMMA EnqueueTells ==
    ASSUME NEW p \in Path, NEW t \in Text \cup {NoText}, DataOK, Enqueue(p, t)
    PROVE  /\ outbox'[p].newest = t \/ p \in untold'
           /\ \A q \in Path \ {p} : outbox'[q] = outbox[q]
                                    /\ (q \in untold' <=> q \in untold)
<1>1. \A q \in Path \ {p} : outbox'[q] = outbox[q]
  BY DEF Enqueue, DataOK
<1>2. outbox'[p].newest = t \/ p \in untold'
  BY DEF Enqueue
<1>3. \A q \in Path \ {p} : q \in untold' <=> q \in untold
  BY DEF Enqueue
<1> QED BY <1>1, <1>2, <1>3

\* The files and the rows stay well typed.
LEMMA DataNext ==
    ASSUME WatchInv, [WatchNext]_vars
    PROVE  DataOK' /\ RegistryOK'
<1>1. DataOK /\ RegistryOK /\ ProcOK
  BY WatchInvParts
<1> USE DEF DataOK, RegistryOK
<1>2. CASE UNCHANGED <<userVars, dbVars>>
  BY <1>1, <1>2 DEF userVars, dbVars, Rowed
<1>3. CASE User
  <2>1. ASSUME NEW p \in Path, NEW t \in Saved, Save(p, t)
        PROVE  DataOK' /\ RegistryOK'
    BY <1>1, <2>1, TextAssumption, ClockAssumption DEF Save, dbVars, Rowed
  <2>2. ASSUME NEW p \in Path, Remove(p)
        PROVE  DataOK' /\ RegistryOK'
    BY <1>1, <2>2, ClockAssumption DEF Remove, dbVars, Rowed
  <2>3. CASE Tick
    BY <1>1, <2>3, ClockAssumption DEF Tick, dbVars, Rowed
  <2> QED BY <1>3, <2>1, <2>2, <2>3 DEF User, UserStep
<1>4. ASSUME NEW w \in Proc, RefreshStep(w)
      PROVE  DataOK' /\ RegistryOK'
  <2>1. CASE WriteNote(w)
    <3>1. NextFile(w) \in Path /\ proc[w].text \in Text \cup {NoText}
      BY <2>1, WriteNoteEffect, <1>1 DEF ProcOK, Run
    <3> QED BY <1>1, <2>1, <3>1, ClockAssumption DEF WriteNote, dbVars, Rowed
  <2>2. CASE UpsertNote(w)
    <3>1. NextFile(w) \in Path /\ proc[w].text \in Text
      BY <2>2, UpsertNoteEffect, <1>1 DEF ProcOK, Run
    <3> DEFINE r == [id |-> IF notes[NextFile(w)].id = 0 THEN lastId'
                            ELSE notes[NextFile(w)].id,
                     text |-> proc[w].text]
    <3>2. lastId' \in Nat /\ (notes[NextFile(w)].id = 0 => lastId' # 0)
      BY <1>1, <2>2 DEF UpsertNote
    <3>3. notes' = [notes EXCEPT ![NextFile(w)] = r]
      BY <1>1, <2>2 DEF UpsertNote
    <3>4. r \in [id : Nat, text : Text \cup {NoText}] /\ r.id # 0 /\ r.text # NoText
      BY <1>1, <3>1, <3>2, TextAssumption
    <3> HIDE DEF r
    <3>5. notes' \in [Path -> [id : Nat, text : Text \cup {NoText}]] /\ Rowed'
      BY <1>1, <3>1, <3>3, <3>4 DEF Rowed
    <3>6. /\ outbox' \in [Path -> [rows : SUBSET (Text \cup {NoText}),
                                    newest : Text \cup {NoText}]]
          /\ untold' \subseteq Path
      BY <1>1, <2>2, <3>1, EnqueueTypes DEF UpsertNote
    <3> QED BY <1>1, <2>2, <3>2, <3>5, <3>6 DEF UpsertNote, userVars
  <2>3. CASE DeleteNote(w)
    <3>1. NextFile(w) \in Path
      BY <2>3, DeleteNoteEffect
    <3>2. DataOK'
      BY <1>1, <2>3, <3>1 DEF DeleteNote, userVars, Rowed
    <3>3. RegistryOK'
      BY <1>1, <2>3 DEF DeleteNote
    <3> QED BY <3>2, <3>3
  <2>4. CASE QueueDelete(w)
    <3>1. NextFile(w) \in Path
      BY <2>4, QueueDeleteEffect
    <3>2. /\ outbox' \in [Path -> [rows : SUBSET (Text \cup {NoText}),
                                    newest : Text \cup {NoText}]]
          /\ untold' \subseteq Path
      BY <1>1, <2>4, <3>1, EnqueueTypes DEF QueueDelete
    <3> QED BY <1>1, <2>4, <3>2 DEF QueueDelete, userVars, Rowed
  <2>5. CASE ReplaceRegistry(w)
    <3>1. DataOK'
      BY <1>1, <2>5 DEF ReplaceRegistry, userVars, Rowed
    <3>2. RegistryOK'
      <4>1. \A p \in Path : proc[w].ids[p] # NoId => proc[w].ids[p] \in Id
        BY <1>1 DEF ProcOK, Run
      <4>2. CASE UNCHANGED registry
        BY <1>1, <4>2
      <4>3. CASE ~(UNCHANGED registry)
        <5> DEFINE ids == proc[w].ids
                   known == proc[w].known
                   missing == {p \in Registered(ids) : known[p] = 0}
                   entries == {[path |-> p, uid |-> ids[p]] :
                                 p \in Registered(ids) \ missing}
                   conflicts == {[path |-> p, uid |-> ids[p],
                                  reason |-> "DUPLICATE_ID",
                                  inDb |-> known[p] # 0] : p \in Duplicates(ids)}
                           \cup {[path |-> p, uid |-> ids[p],
                                  reason |-> "NOTE_NOT_IN_DB",
                                  inDb |-> FALSE] : p \in missing}
        <5>1. registry' = [entries |-> entries, conflicts |-> conflicts]
          BY <2>5, <4>3 DEF ReplaceRegistry
        <5>2. \A p \in Registered(ids) \cup Duplicates(ids) :
                 p \in Path /\ ids[p] \in Id
          BY <4>1 DEF Registered, Duplicates
        <5> HIDE DEF ids, known
        <5>3. entries \subseteq [path : Path, uid : Id]
          BY <5>2
        <5>4. ASSUME NEW r \in conflicts
              PROVE  r \in [path : Path, uid : Id, inDb : BOOLEAN,
                            reason : {"DUPLICATE_ID", "NOTE_NOT_IN_DB"}]
          <6>1. CASE r \in {[path |-> p, uid |-> ids[p],
                             reason |-> "DUPLICATE_ID",
                             inDb |-> known[p] # 0] : p \in Duplicates(ids)}
            <7>1. PICK p \in Duplicates(ids) :
                     r = [path |-> p, uid |-> ids[p], reason |-> "DUPLICATE_ID",
                          inDb |-> known[p] # 0]
              BY <6>1
            <7>2. p \in Path /\ ids[p] \in Id
              BY <5>2
            <7>3. PICK b \in BOOLEAN : b = (known[p] # 0)
              OBVIOUS
            <7> QED BY <7>1, <7>2, <7>3
          <6>2. CASE r \in {[path |-> p, uid |-> ids[p],
                             reason |-> "NOTE_NOT_IN_DB",
                             inDb |-> FALSE] : p \in missing}
            <7>1. PICK p \in missing :
                     r = [path |-> p, uid |-> ids[p], reason |-> "NOTE_NOT_IN_DB",
                          inDb |-> FALSE]
              BY <6>2
            <7>2. p \in Path /\ ids[p] \in Id
              BY <5>2
            <7> QED BY <7>1, <7>2
          <6> QED BY <6>1, <6>2
        <5> QED BY <5>1, <5>3, <5>4
      <4> QED BY <4>2, <4>3
    <3> QED BY <3>1, <3>2
  <2>6. CASE UNCHANGED <<userVars, dbVars>>
    BY <1>2, <2>6
  <2> QED BY <1>4, <2>1, <2>2, <2>3, <2>4, <2>5, <2>6
          DEF RefreshStep, ReadFails, ScanNote, EndCheck, FormatNote, EndFormat,
              ReadNote, ListPruned, EndIngest, LookUpNotes
<1>5. CASE Still
  BY <1>2, <1>5 DEF Still
<1>6. ASSUME NEW w \in Proc, LookOf(w) \/ LaunchOf(w)
      PROVE  UNCHANGED <<userVars, dbVars>>
  BY <1>6 DEF LookOf, LaunchOf, Wake, StatNote, StatFails, EndSnapshot,
              EndRefresh, dbVars, rowVars
<1>7. ASSUME NEW w \in Proc, EndOf(w)
      PROVE  DataOK' /\ RegistryOK'
  <2>1. UNCHANGED <<clock, disk, notes, lastId, outbox, registry>>
    BY <1>7 DEF EndOf, userVars, rowVars
  <2>2. untold' \subseteq Path
    <3>1. CASE At(w, "queue")
      <4>1. proc[w].files # {}
        BY <3>1 DEF At, WatchInv, HasNext
      <4>2. NextFile(w) \in Path
        BY <4>1, NextFileIsLeft
      <4> QED BY <1>1, <1>7, <3>1, <4>2 DEF EndOf, Ends
    <3>2. CASE ~At(w, "queue")
      BY <1>1, <1>7, <3>2 DEF EndOf, Ends
    <3> QED BY <3>1, <3>2
  <2> QED BY <1>1, <2>1, <2>2 DEF Rowed
<1> QED
  BY <1>2, <1>3, <1>4, <1>5, <1>6, <1>7, StepKinds DEF RefreshOf, Refresh

\* A step that moves one process keeps the part about processes.
LEMMA ProcMoved ==
    ASSUME WatchInv, NEW w \in Proc, Moves(w),
           proc'[w].pc \in {"write", "upsert", "queue"} => proc'[w].files # {},
           proc'[w].pc \in {"write", "upsert"} => proc'[w].text # NoText
    PROVE  ProcOK'
  BY WatchInvParts DEF ProcOK, Moves, HasNext

\* Every step keeps the part about processes.
LEMMA ProcNext ==
    ASSUME WatchInv, [WatchNext]_vars
    PROVE  ProcOK'
<1>1. CASE UNCHANGED proc
  BY <1>1, WatchInvParts DEF ProcOK, HasNext
<1>2. ASSUME NEW w \in Proc, RefreshStep(w)
      PROVE  ProcOK'
  <2>1. CASE ReadFails(w)
    BY <2>1, ReadFailsEffect, EndedIsRun, ProcMoved
  <2>2. CASE ScanNote(w)
    BY <2>2, ScanNoteEffect, ProcMoved
  <2>3. CASE EndCheck(w)
    BY <2>3, EndCheckEffect, EndedIsRun, ProcMoved
  <2>4. CASE FormatNote(w)
    BY <2>4, FormatNoteEffect, ProcMoved, TextAssumption
  <2>5. CASE WriteNote(w)
    BY <2>5, WriteNoteEffect, ProcMoved
  <2>6. CASE EndFormat(w)
    BY <2>6, EndFormatEffect, ProcMoved
  <2>7. CASE ReadNote(w)
    BY <2>7, ReadNoteEffect, ProcMoved, TextAssumption
  <2>8. CASE UpsertNote(w)
    BY <2>8, UpsertNoteEffect, ProcMoved
  <2>9. CASE ListPruned(w)
    BY <2>9, ListPrunedEffect, ProcMoved
  <2>10. CASE DeleteNote(w)
    BY <2>10, DeleteNoteEffect, ProcMoved
  <2>11. CASE QueueDelete(w)
    BY <2>11, QueueDeleteEffect, ProcMoved
  <2>12. CASE EndIngest(w)
    BY <2>12, EndIngestEffect, ProcMoved
  <2>13. CASE LookUpNotes(w)
    BY <2>13, LookUpNotesEffect, ProcMoved
  <2>14. CASE ReplaceRegistry(w)
    BY <2>14, ReplaceRegistryEffect, EndedIsRun, ProcMoved
  <2> QED BY <1>2, <2>1, <2>2, <2>3, <2>4, <2>5, <2>6, <2>7, <2>8, <2>9, <2>10,
             <2>11, <2>12, <2>13, <2>14 DEF RefreshStep
<1>3. ASSUME NEW w \in Proc, LookOf(w)
      PROVE  ProcOK'
  <2>1. CASE Wake(w)
    BY <2>1, WakeEffect, ProcMoved
  <2>2. CASE StatNote(w)
    BY <2>2, StatNoteEffect, ProcMoved
  <2>3. CASE StatFails(w) /\ previous[w] # Untaken
    BY <2>3, StatFailsEffect, ProcMoved
  <2>4. CASE EndSnapshot(w)
    BY <2>4, EndSnapshotEffect, ProcMoved
  <2>5. CASE EndRefresh(w)
    BY <2>5, EndRefreshEffect, ProcMoved
  <2> QED BY <1>3, <2>1, <2>2, <2>3, <2>4, <2>5 DEF LookOf
<1>4. ASSUME NEW w \in Proc, EndOf(w)
      PROVE  ProcOK'
  BY <1>4, EndsEffect, IdleIsRun, ProcMoved DEF EndOf
<1>5. ASSUME NEW w \in Proc, LaunchOf(w)
      PROVE  ProcOK'
  BY <1>5, LaunchEffect, ProcMoved DEF LaunchOf
<1>6. User \/ Still => UNCHANGED proc
  BY DEF User, UserStep, Save, Remove, Tick, Still
<1> QED
  BY <1>1, <1>2, <1>3, <1>4, <1>5, <1>6, StepKinds DEF RefreshOf, Refresh

\* Every step keeps the part about watchers.
LEMMA WatchersNext ==
    ASSUME WatchInv, [WatchNext]_vars
    PROVE  WatchersOK'
<1>1. WatchersOK
  BY WatchInvParts
<1> USE DEF WatchersOK
<1>2. CASE User \/ Still
  <2>1. UNCHANGED <<alive, background, spawned, ended, snap, previous, proc>>
    BY <1>2 DEF User, UserStep, Save, Remove, Tick, Still, watchVars, controlVars
  <2> QED BY <1>1, <2>1 DEF Resting
<1>3. ASSUME NEW w \in Proc, RefreshOf(w)
      PROVE  WatchersOK'
  <2>1. UNCHANGED <<alive, background, spawned, ended, snap, previous>> /\ w \in alive
    BY <1>3 DEF RefreshOf, Refresh, watchVars, controlVars
  <2>2. Moves(w)
    BY <1>3, ReadFailsEffect, ScanNoteEffect, EndCheckEffect, FormatNoteEffect,
       WriteNoteEffect, EndFormatEffect, ReadNoteEffect, UpsertNoteEffect,
       ListPrunedEffect, DeleteNoteEffect, QueueDeleteEffect, EndIngestEffect,
       LookUpNotesEffect, ReplaceRegistryEffect
       DEF RefreshOf, Refresh, RefreshStep
  <2> QED BY <1>1, <2>1, <2>2 DEF Resting, Moves
<1>4. ASSUME NEW w \in Proc, LookOf(w)
      PROVE  WatchersOK'
  <2>1. UNCHANGED <<alive, background, spawned, ended>> /\ w \in alive
    BY <1>4 DEF LookOf, Wake, StatNote, StatFails, EndSnapshot, EndRefresh,
                controlVars
  <2>2. /\ Moves(w)
        /\ snap' \in [Proc -> Shot] /\ previous' \in [Proc -> {Untaken} \cup Shot]
    BY <1>1, <1>4, WakeEffect, StatNoteEffect, StatFailsEffect,
       EndSnapshotEffect, EndRefreshEffect DEF LookOf, MovesShots
  <2> QED BY <1>1, <2>1, <2>2 DEF Resting, Moves
<1>5. ASSUME NEW w \in Proc, EndOf(w)
      PROVE  WatchersOK'
  <2>1. /\ Moves(w) /\ MovesShots(w) /\ proc'[w] = Idle
        /\ alive' = alive \ {w} /\ UNCHANGED <<background, spawned, ended>>
    BY <1>5, EndsEffect DEF EndOf
  <2> QED BY <1>1, <2>1 DEF Resting, Moves, MovesShots
<1>6. ASSUME NEW w \in Proc, LaunchOf(w)
      PROVE  WatchersOK' \/ ~(UNCHANGED background \/ background' = background \cup {w})
  <2>1. /\ Moves(w) /\ UNCHANGED <<snap, previous>>
        /\ alive' = alive \cup {w} /\ spawned' = spawned \cup {w}
        /\ ended' \in [Proc -> SUBSET Proc]
    BY <1>6, LaunchEffect DEF LaunchOf, watchVars
  <2> QED BY <1>1, <2>1 DEF Resting, Moves
<1>7. ASSUME NEW w \in Proc, LaunchOf(w)
      PROVE  UNCHANGED background \/ background' = background \cup {w}
  <2>1. w \notin spawned /\ spawned' = spawned \cup {w}
    BY <1>7, LaunchEffect DEF LaunchOf
  <2>2. \/ UNCHANGED background
        \/ \E v \in Proc : Launch(v) /\ background' = background \cup {v}
    BY <2>1 DEF vars, controlVars, WatchNext, User, WatcherStep, Wake,
       StatNote, StatFails, EndSnapshot, Refresh, EndRefresh, Die, Invoke,
       CommandStep, ReadToStop, Kill, RemovePid, RunForeground, ReadToStart,
       CleanPid, Spawn, WritePid
  <2>3. CASE \E v \in Proc : Launch(v) /\ background' = background \cup {v}
    <3>1. PICK v \in Proc : Launch(v) /\ background' = background \cup {v}
      BY <2>3
    <3>2. spawned' = spawned \cup {v} /\ v \notin spawned
      BY <3>1, LaunchEffect
    <3> QED BY <2>1, <3>1, <3>2
  <2> QED BY <2>2, <2>3
<1> QED BY <1>2, <1>3, <1>4, <1>5, <1>6, <1>7, StepKinds

(***************************************************************************)
(* The command moves on its own: it ends, or goes elsewhere.               *)
(***************************************************************************)
LEMMA CommandMoved ==
    ASSUME CommandsOK, NEW c \in Command, NEW r \in Invocation,
           cmd' = [cmd EXCEPT ![c] = r],
           r.pc \in {"stop", "kill", "remove"} => r.kind # "start",
           pidFile' \in Proc \cup {0}
    PROVE  CommandsOK'
  BY DEF CommandsOK, Stopping

\* A command may end anywhere.
LEMMA ExitEffect ==
    ASSUME CommandsOK, NEW c \in Command, Exit(c), pidFile' \in Proc \cup {0}
    PROVE  CommandsOK'
<1>1. /\ Finished \in Invocation
      /\ Finished.pc = "idle"
  BY DEF Finished, Invocation
<1> QED BY <1>1, CommandMoved DEF Exit

\* Only a command that has killed goes to remove the pid file.
LEMMA GotoEffect ==
    ASSUME CommandsOK, NEW c \in Command,
           NEW pc \in {"remove", "fg", "start", "clean", "spawn"},
           Goto(c, pc), pidFile' \in Proc \cup {0},
           pc = "remove" => cmd[c].pc = "kill"
    PROVE  CommandsOK'
<1> DEFINE r == [cmd[c] EXCEPT !.pc = pc]
<1>1. cmd[c] \in Invocation
  BY DEF CommandsOK
<1>2. cmd' = [cmd EXCEPT ![c] = r]
  BY DEF Goto, CommandsOK
<1>3. r \in Invocation /\ r.pc = pc /\ r.kind = cmd[c].kind
  BY <1>1 DEF Invocation
<1> HIDE DEF r
<1>4. cmd[c].pc = "kill" => cmd[c].kind # "start"
  BY DEF CommandsOK, Stopping
<1> QED BY <1>2, <1>3, <1>4, CommandMoved

\* After the stop a command ends, or goes on to start.
LEMMA AfterStopEffect ==
    ASSUME CommandsOK, NEW c \in Command, AfterStop(c), pidFile' \in Proc \cup {0},
           cmd[c].pc \in {"stop", "remove"}
    PROVE  /\ CommandsOK'
           /\ \/ cmd[c].kind = "stop" /\ Exit(c)
              \/ cmd[c].kind = "restart" /\ Goto(c, "start")
              \/ cmd[c].kind = "fg" /\ Goto(c, "fg")
<1>1. cmd[c].kind \in {"stop", "restart", "fg"}
  BY DEF CommandsOK, Invocation, Stopping
<1>2. \/ cmd[c].kind = "stop" /\ Exit(c)
      \/ cmd[c].kind = "restart" /\ Goto(c, "start")
      \/ cmd[c].kind = "fg" /\ Goto(c, "fg")
  BY <1>1 DEF AfterStop
<1> QED BY <1>2, ExitEffect, GotoEffect

\* Every step keeps the part about commands.
LEMMA CommandsNext ==
    ASSUME WatchInv, [WatchNext]_vars
    PROVE  CommandsOK'
<1>1. CommandsOK /\ alive \subseteq Proc
  BY WatchInvParts DEF WatchersOK
<1>2. pidFile \in Proc \cup {0} /\ \A c \in Command : cmd[c] \in Invocation
  BY <1>1 DEF CommandsOK
<1>3. CASE UNCHANGED <<pidFile, cmd>>
  BY <1>1, <1>3 DEF CommandsOK, Stopping
<1>4. CASE User
  BY <1>3, <1>4 DEF User, controlVars
<1>5. ASSUME NEW w \in Proc, WatcherStep(w) \/ Die(w)
      PROVE  UNCHANGED <<pidFile, cmd>>
  BY <1>5 DEF WatcherStep, Wake, StatNote, StatFails, EndSnapshot, Refresh,
              EndRefresh, Die, controlVars
<1>6. ASSUME NEW c \in Command, NEW kind \in {"start", "stop", "restart", "fg"},
             Invoke(c, kind)
      PROVE  CommandsOK'
  <2> DEFINE pc == IF kind = "start" THEN "start" ELSE "stop"
             r == [Finished EXCEPT !.kind = kind, !.pc = pc]
  <2>1. cmd' = [cmd EXCEPT ![c] = r] /\ pidFile' = pidFile
    BY <1>6 DEF Invoke
  <2>2. r \in Invocation /\ r.pc = pc /\ r.kind = kind
    BY DEF Finished, Invocation
  <2> HIDE DEF r
  <2> QED BY <1>1, <1>2, <2>1, <2>2, CommandMoved
<1>7. ASSUME NEW c \in Command, CommandStep(c)
      PROVE  CommandsOK'
  <2>1. CASE ReadToStop(c)
    <3>1. CASE pidFile = 0
      BY <1>1, <1>2, <2>1, <3>1, AfterStopEffect DEF ReadToStop
    <3>2. CASE pidFile # 0
      <4> DEFINE pc == IF pidFile \in alive THEN "kill" ELSE "remove"
                 r == [cmd[c] EXCEPT !.pid = pidFile, !.pc = pc]
      <4>1. cmd' = [cmd EXCEPT ![c] = r] /\ pidFile' = pidFile
        BY <1>1, <2>1, <3>2 DEF ReadToStop, CommandsOK
      <4>2. r \in Invocation /\ r.kind = cmd[c].kind
        BY <1>2 DEF Invocation
      <4> HIDE DEF r
      <4>3. cmd[c].kind # "start"
        BY <1>1, <2>1 DEF ReadToStop, CommandsOK, Stopping
      <4> QED BY <1>1, <1>2, <4>1, <4>2, <4>3, CommandMoved
    <3> QED BY <3>1, <3>2
  <2>2. CASE Kill(c)
    BY <1>1, <1>2, <2>2, GotoEffect, ExitEffect DEF Kill
  <2>3. CASE RemovePid(c)
    BY <1>1, <1>2, <2>3, AfterStopEffect DEF RemovePid
  <2>4. CASE RunForeground(c)
    BY <1>1, <1>2, <2>4, ExitEffect DEF RunForeground
  <2>5. CASE ReadToStart(c)
    BY <1>1, <1>2, <2>5, GotoEffect, ExitEffect DEF ReadToStart
  <2>6. CASE CleanPid(c)
    BY <1>1, <1>2, <2>6, GotoEffect DEF CleanPid
  <2>7. CASE Spawn(c)
    <3>1. PICK w \in Proc : cmd' = [cmd EXCEPT ![c].pc = "write", ![c].pid = w]
      BY <2>7 DEF Spawn
    <3> DEFINE r == [cmd[c] EXCEPT !.pc = "write", !.pid = w]
    <3>2. cmd' = [cmd EXCEPT ![c] = r] /\ pidFile' = pidFile
      BY <1>1, <2>7, <3>1 DEF Spawn, CommandsOK
    <3>3. r \in Invocation /\ r.pc = "write"
      BY <1>2 DEF Invocation
    <3> HIDE DEF r
    <3> QED BY <1>1, <1>2, <3>2, <3>3, CommandMoved
  <2>8. CASE WritePid(c)
    <3>1. cmd[c].pid \in Proc \cup {0}
      BY <1>2 DEF Invocation
    <3> QED BY <1>1, <2>8, <3>1, ExitEffect DEF WritePid
  <2> QED BY <1>7, <2>1, <2>2, <2>3, <2>4, <2>5, <2>6, <2>7, <2>8
          DEF CommandStep
<1>8. UNCHANGED vars => UNCHANGED <<pidFile, cmd>>
  BY DEF vars, controlVars
<1> QED
  BY <1>3, <1>4, <1>5, <1>6, <1>7, <1>8 DEF WatchNext

\* WatchInv is inductive: its parts together.
LEMMA WatchInvNext ==
    ASSUME WatchInv, [WatchNext]_vars
    PROVE  WatchInv'
<1>1. DataOK' /\ RegistryOK' /\ ProcOK' /\ WatchersOK' /\ CommandsOK'
  BY DataNext, ProcNext, WatchersNext, CommandsNext
<1>2. previous' \in [Proc -> {Untaken} \cup Shot] =>
        \A w \in Proc : previous'[w] = Untaken \/ previous'[w] \in Shot
  OBVIOUS
<1> QED
  BY <1>1, <1>2 DEF WatchInv, WatchTypeOK, TypeOK, DataOK, RegistryOK, ProcOK,
                    WatchersOK, CommandsOK, Invocation, Run, Shot

(***************************************************************************)
(* WatchInv is an invariant of the watchers and their commands, and so is  *)
(* the type invariant: whatever the user, the watchers and the commands do *)
(* at the same time.                                                       *)
(***************************************************************************)
THEOREM WatchInvariance == WatchSpec => []WatchInv
<1>1. WatchInit => WatchInv
  BY WatchInvInit
<1>2. WatchInv /\ [WatchNext]_vars => WatchInv'
  BY WatchInvNext
<1> QED BY <1>1, <1>2, PTL DEF WatchSpec

\* Every reachable state of the watchers, the user and the commands is well
\* typed, however their steps interleave.
THEOREM WatchTypeCorrect == WatchSpec => []WatchTypeOK
<1>1. WatchInv => WatchTypeOK
  BY DEF WatchInv
<1> QED BY <1>1, WatchInvariance, PTL

-----------------------------------------------------------------------------
(***************************************************************************)
(* The pid file.  Commands do not exclude each other; what follows is      *)
(* about commands that do not overlap.                                     *)
(***************************************************************************)
OneCommand == \E c \in Command : Command = {c}

Daemons == alive \cap background

CommandInv ==
    \A c \in Command :
        /\ cmd[c].pc \in {"idle", "stop", "start"} => Daemons \subseteq {pidFile}
        /\ cmd[c].pc = "kill" => Daemons \subseteq {pidFile} /\ cmd[c].pid = pidFile
        /\ cmd[c].pc \in {"remove", "fg", "clean", "spawn"} => Daemons = {}
        /\ cmd[c].pc = "write" => Daemons \subseteq {cmd[c].pid}

(***************************************************************************)
(* A step that is not a command's may end a watcher, and starts none.      *)
(***************************************************************************)
LEMMA CommandsApart ==
    ASSUME WatchInv, [WatchNext]_vars
    PROVE  \/ /\ UNCHANGED <<cmd, pidFile, background>>
              /\ alive' \subseteq alive
           \/ \E c \in Command :
                 \/ \E kind \in {"start", "stop", "restart", "fg"} : Invoke(c, kind)
                 \/ CommandStep(c)
<1>1. CASE User \/ UNCHANGED vars
  BY <1>1 DEF User, vars, controlVars
<1>2. ASSUME NEW w \in Proc, WatcherStep(w) \/ Die(w)
      PROVE  UNCHANGED <<cmd, pidFile, background>> /\ alive' \subseteq alive
  BY <1>2 DEF WatcherStep, Wake, StatNote, StatFails, EndSnapshot, Refresh,
              EndRefresh, Die, controlVars, Ends
<1> QED BY <1>1, <1>2 DEF WatchNext

(***************************************************************************)
(* Where a step of a command leaves it.                                    *)
(***************************************************************************)
LEMMA CommandMoves ==
    ASSUME WatchInv, NEW c \in Command
    PROVE  /\ cmd[c] \in Invocation
           /\ Exit(c) => cmd'[c].pc = "idle"
           /\ \A pc \in {"remove", "fg", "start", "clean", "spawn"} :
                 Goto(c, pc) => cmd'[c].pc = pc
           /\ \A kind \in {"start", "stop", "restart", "fg"} :
                 Invoke(c, kind) => cmd'[c].pc \in {"start", "stop"}
<1>1. cmd \in [Command -> Invocation] /\ cmd[c] \in Invocation
  BY WatchInvParts DEF CommandsOK
<1>2. Exit(c) => cmd'[c].pc = "idle"
  BY <1>1 DEF Exit, Finished
<1>3. ASSUME NEW pc \in {"remove", "fg", "start", "clean", "spawn"}, Goto(c, pc)
      PROVE  cmd'[c].pc = pc
  BY <1>1, <1>3 DEF Goto, Invocation
<1>4. ASSUME NEW kind \in {"start", "stop", "restart", "fg"}, Invoke(c, kind)
      PROVE  cmd'[c].pc \in {"start", "stop"}
  BY <1>1, <1>4 DEF Invoke, Finished
<1> QED BY <1>1, <1>2, <1>3, <1>4

\* CommandInv is inductive if there is one command.
LEMMA CommandInvNext ==
    ASSUME OneCommand, WatchInv, CommandInv, [WatchNext]_vars
    PROVE  CommandInv'
<1>1. 0 \notin Proc /\ alive \subseteq Proc /\ alive \subseteq spawned
      /\ background \subseteq spawned
  BY ProcAssumption DEF WatchInv, WatchTypeOK
<1>2. CASE UNCHANGED <<cmd, pidFile, background>> /\ alive' \subseteq alive
  <2>1. Daemons' \subseteq Daemons
    BY <1>2 DEF Daemons
  <2> QED BY <1>2, <2>1 DEF CommandInv
<1>3. ASSUME NEW c \in Command,
             NEW kind \in {"start", "stop", "restart", "fg"}, Invoke(c, kind)
      PROVE  CommandInv'
  <2>1. /\ Daemons' = Daemons /\ pidFile' = pidFile
        /\ cmd[c].pc = "idle"
    BY <1>3 DEF Invoke, Daemons
  <2>2. cmd'[c].pc \in {"start", "stop"}
    BY <1>3, CommandMoves
  <2> QED BY <2>1, <2>2 DEF CommandInv, OneCommand
<1>4. ASSUME NEW c \in Command, CommandStep(c)
      PROVE  CommandInv'
  <2>1. /\ cmd[c].pc \in {"idle", "stop", "start"} => Daemons \subseteq {pidFile}
        /\ cmd[c].pc = "kill" => Daemons \subseteq {pidFile} /\ cmd[c].pid = pidFile
        /\ cmd[c].pc \in {"remove", "fg", "clean", "spawn"} => Daemons = {}
        /\ cmd[c].pc = "write" => Daemons \subseteq {cmd[c].pid}
    BY DEF CommandInv
  <2>2. SUFFICES
          /\ cmd'[c].pc \in {"idle", "stop", "start"} => Daemons' \subseteq {pidFile'}
          /\ cmd'[c].pc = "kill" => /\ Daemons' \subseteq {pidFile'}
                                    /\ cmd'[c].pid = pidFile'
          /\ cmd'[c].pc \in {"remove", "fg", "clean", "spawn"} => Daemons' = {}
          /\ cmd'[c].pc = "write" => Daemons' \subseteq {cmd'[c].pid}
    BY DEF CommandInv, OneCommand
  <2>3. AfterStop(c) /\ cmd[c].pc \in {"stop", "remove"} =>
           cmd'[c].pc \in {"idle", "start", "fg"}
    <3>1. cmd[c].pc \in {"stop", "remove"} => cmd[c].kind \in {"stop", "restart", "fg"}
      BY WatchInvParts DEF CommandsOK, Invocation, Stopping
    <3> QED BY <3>1, CommandMoves DEF AfterStop
  <2>4. CASE ReadToStop(c)
    <3>1. Daemons' = Daemons /\ pidFile' = pidFile /\ cmd[c].pc = "stop"
      BY <2>4 DEF ReadToStop, Daemons
    <3>2. CASE pidFile = 0
      <4>1. Daemons = {} /\ cmd'[c].pc \in {"idle", "start", "fg"}
        BY <1>1, <2>1, <2>3, <2>4, <3>1, <3>2 DEF ReadToStop, Daemons
      <4> QED BY <3>1, <4>1
    <3>3. CASE pidFile # 0
      <4>1. /\ cmd'[c].pid = pidFile
            /\ cmd'[c].pc = IF pidFile \in alive THEN "kill" ELSE "remove"
        BY <2>4, <3>3, WatchInvParts DEF ReadToStop, CommandsOK, Invocation
      <4>2. pidFile \notin alive => Daemons = {}
        BY <2>1, <3>1 DEF Daemons
      <4> QED BY <2>1, <3>1, <4>1, <4>2
    <3> QED BY <3>2, <3>3
  <2>5. CASE Kill(c)
    <3>1. /\ cmd[c].pc = "kill" /\ cmd[c].pid = pidFile
          /\ pidFile' = pidFile /\ background' = background
      BY <2>1, <2>5 DEF Kill
    <3>2. CASE pidFile \in alive
      <4>1. alive' = alive \ {pidFile} /\ cmd'[c].pc = "remove"
        BY <2>5, <3>1, <3>2, CommandMoves DEF Kill, Ends
      <4>2. Daemons' = {}
        BY <2>1, <3>1, <4>1 DEF Daemons
      <4> QED BY <4>1, <4>2
    <3>3. CASE pidFile \notin alive
      <4>1. alive' = alive /\ cmd'[c].pc = "idle"
        BY <2>5, <3>1, <3>3, CommandMoves DEF Kill
      <4> QED BY <2>1, <3>1, <4>1 DEF Daemons
    <3> QED BY <3>2, <3>3
  <2>6. CASE RemovePid(c)
    <3>1. /\ cmd[c].pc = "remove" /\ Daemons' = Daemons
          /\ cmd'[c].pc \in {"idle", "start", "fg"}
      BY <2>3, <2>6 DEF RemovePid, Daemons
    <3> QED BY <2>1, <3>1
  <2>7. CASE RunForeground(c)
    <3>1. PICK w \in Proc : Launch(w)
      BY <2>7 DEF RunForeground
    <3>2. alive' = alive \cup {w} /\ w \notin spawned
      BY <3>1, LaunchEffect
    <3>3. /\ cmd[c].pc = "fg" /\ background' = background
          /\ cmd'[c].pc = "idle"
      BY <2>7, CommandMoves DEF RunForeground
    <3>4. Daemons' = {}
      BY <1>1, <2>1, <3>2, <3>3 DEF Daemons
    <3> QED BY <3>3, <3>4
  <2>8. CASE ReadToStart(c)
    <3>1. cmd[c].pc = "start" /\ Daemons' = Daemons /\ pidFile' = pidFile
      BY <2>8 DEF ReadToStart, Daemons
    <3>2. /\ pidFile \in alive => cmd'[c].pc = "idle"
          /\ pidFile \notin alive => cmd'[c].pc \in {"spawn", "clean"}
      BY <2>8, CommandMoves DEF ReadToStart
    <3>3. pidFile \notin alive => Daemons = {}
      BY <2>1, <3>1 DEF Daemons
    <3> QED BY <2>1, <3>1, <3>2, <3>3
  <2>9. CASE CleanPid(c)
    <3>1. /\ cmd[c].pc = "clean" /\ Daemons' = Daemons
          /\ cmd'[c].pc = "spawn"
      BY <2>9, CommandMoves DEF CleanPid, Daemons
    <3> QED BY <2>1, <3>1
  <2>10. CASE Spawn(c)
    <3>1. PICK w \in Proc : /\ Launch(w) /\ background' = background \cup {w}
                            /\ cmd' = [cmd EXCEPT ![c].pc = "write", ![c].pid = w]
      BY <2>10 DEF Spawn
    <3>2. alive' = alive \cup {w} /\ w \notin spawned
      BY <3>1, LaunchEffect
    <3>3. cmd'[c].pc = "write" /\ cmd'[c].pid = w
      BY <3>1, WatchInvParts DEF CommandsOK, Invocation
    <3>4. Daemons' \subseteq {w}
      BY <1>1, <2>1, <2>10, <3>1, <3>2 DEF Daemons, Spawn
    <3> QED BY <3>3, <3>4
  <2>11. CASE WritePid(c)
    <3>1. /\ cmd[c].pc = "write" /\ Daemons' = Daemons
          /\ pidFile' = cmd[c].pid /\ cmd'[c].pc = "idle"
      BY <2>11, CommandMoves DEF WritePid, Daemons
    <3> QED BY <2>1, <3>1
  <2> QED BY <1>4, <2>4, <2>5, <2>6, <2>7, <2>8, <2>9, <2>10, <2>11
          DEF CommandStep
<1> QED BY <1>2, <1>3, <1>4, CommandsApart

\* What a command relies on between its steps holds if there is one.
LEMMA CommandInvariance ==
    ASSUME OneCommand
    PROVE  WatchSpec => []CommandInv
<1>1. WatchInit => CommandInv
  BY DEF WatchInit, CommandInv, Daemons, Finished
<1>2. WatchInv /\ CommandInv /\ [WatchNext]_vars => CommandInv'
  BY CommandInvNext
<1> QED BY <1>1, <1>2, WatchInvariance, PTL DEF WatchSpec

(***************************************************************************)
(* --stop reaches the daemon: if commands do not overlap, the daemon that  *)
(* runs while none is under way is the one the pid file names, whatever    *)
(* watchers ended by themselves in between, and whichever pids were given  *)
(* out.                                                                    *)
(***************************************************************************)
THEOREM DaemonIsReached ==
    ASSUME OneCommand
    PROVE  WatchSpec => []StopReaches
<1>1. CommandInv => StopReaches
  BY DEF CommandInv, StopReaches, OneCommand, Daemons
<1> QED BY <1>1, CommandInvariance, PTL

(***************************************************************************)
(* One watcher at most.  A command that is under way has found no watcher  *)
(* in the foreground, so that the watcher it starts is the only one.       *)
(***************************************************************************)
SingleInv ==
    /\ \A v, w \in alive : v = w
    /\ \A c \in Command : cmd[c].pc # "idle" => alive \subseteq background

\* SingleInv is inductive if there is one command and the watcher in the
\* foreground is left alone.
LEMMA SingleInvNext ==
    ASSUME OneCommand, Alone, WatchInv, CommandInv, SingleInv, [WatchNext]_vars
    PROVE  SingleInv'
<1>1. CASE UNCHANGED <<cmd, pidFile, background>> /\ alive' \subseteq alive
  BY <1>1 DEF SingleInv
<1>2. ASSUME NEW c \in Command,
             NEW kind \in {"start", "stop", "restart", "fg"}, Invoke(c, kind)
      PROVE  SingleInv'
  BY <1>2 DEF Invoke, SingleInv
<1>3. ASSUME NEW c \in Command, CommandStep(c)
      PROVE  SingleInv'
  <2>1. cmd[c].pc # "idle"
    BY <1>3 DEF CommandStep, ReadToStop, Kill, RemovePid, RunForeground,
                ReadToStart, CleanPid, Spawn, WritePid
  <2>2. alive \subseteq background
    BY <2>1 DEF SingleInv
  <2>3. CASE ReadToStop(c) \/ RemovePid(c) \/ ReadToStart(c) \/ CleanPid(c)
                \/ WritePid(c)
    <3>1. UNCHANGED <<alive, background>>
      BY <2>3 DEF ReadToStop, RemovePid, ReadToStart, CleanPid, WritePid
    <3> QED BY <2>2, <3>1 DEF SingleInv
  <2>4. CASE Kill(c)
    <3>1. alive' \subseteq alive /\ background' = background
      BY <2>4 DEF Kill, Ends
    <3> QED BY <2>2, <3>1 DEF SingleInv
  <2>5. CASE RunForeground(c)
    <3>1. PICK w \in Proc : Launch(w)
      BY <2>5 DEF RunForeground
    <3>2. alive = {}
      BY <2>2, <2>5 DEF RunForeground, CommandInv, Daemons
    <3>3. alive' = {w}
      BY <3>1, <3>2, LaunchEffect
    <3>4. cmd'[c].pc = "idle"
      BY <2>5, CommandMoves DEF RunForeground
    <3> QED BY <3>3, <3>4 DEF SingleInv, OneCommand
  <2>6. CASE Spawn(c)
    <3>1. PICK w \in Proc : Launch(w) /\ background' = background \cup {w}
      BY <2>6 DEF Spawn
    <3>2. alive = {}
      BY <2>2, <2>6 DEF Spawn, CommandInv, Daemons
    <3>3. alive' = {w}
      BY <3>1, <3>2, LaunchEffect
    <3> QED BY <3>1, <3>3 DEF SingleInv
  <2> QED BY <1>3, <2>3, <2>4, <2>5, <2>6 DEF CommandStep
<1> QED BY <1>1, <1>2, <1>3, CommandsApart

\* There is one watcher then in every reachable state.
LEMMA SingleInvariance ==
    ASSUME OneCommand, Alone
    PROVE  WatchSpec => []SingleInv
<1>1. WatchInit => SingleInv
  BY DEF WatchInit, SingleInv
<1>2. WatchInv /\ CommandInv /\ SingleInv /\ [WatchNext]_vars => SingleInv'
  BY SingleInvNext
<1> QED BY <1>1, <1>2, WatchInvariance, CommandInvariance, PTL DEF WatchSpec

(***************************************************************************)
(* There is one watcher for a notes directory at most, if commands do not  *)
(* overlap and a watcher in the foreground is left alone: the lookups of   *)
(* the pid file and the spawning are steps of their own, and this is how   *)
(* far they exclude a second watcher.                                      *)
(***************************************************************************)
THEOREM OneWatcher ==
    ASSUME OneCommand, Alone
    PROVE  WatchSpec => []AtMostOneWatcher
<1>1. SingleInv => AtMostOneWatcher
  <2> SUFFICES ASSUME SingleInv
               PROVE  Cardinality(alive) <= 1
    BY DEF AtMostOneWatcher
  <2>1. CASE alive = {}
    <3>1. Cardinality(alive) = 0
      BY <2>1, FS_EmptySet
    <3> QED BY <3>1
  <2>2. CASE alive # {}
    <3>1. PICK w \in alive : alive = {w}
      BY <2>2 DEF SingleInv
    <3>2. Cardinality(alive) = 1
      BY <3>1, FS_Singleton
    <3> QED BY <3>2
  <2> QED BY <2>1, <2>2
<1> QED BY <1>1, SingleInvariance, PTL

-----------------------------------------------------------------------------
(***************************************************************************)
(* What is queued for sync.  With one watcher nobody adds a note again     *)
(* while the row of its deletion is pending, which would come after the    *)
(* row of the new note.                                                    *)
(***************************************************************************)
Queued(p) == Told(p) \/ BeingDeleted(p) \/ p \in untold

Gone(w) == At(w, "queue") => notes[NextFile(w)].text = NoText

QueueInv ==
    /\ \A p \in Path : Queued(p)
    /\ \A w \in Proc : Gone(w)

\* What a step of another process leaves as it was.
LEMMA QueuedElsewhere ==
    ASSUME NEW w \in Proc, Moves(w), NEW p \in Path, Queued(p),
           notes'[p] = notes[p], outbox'[p] = outbox[p],
           p \in untold => p \in untold',
           ~(At(w, "queue") /\ NextFile(w) = p)
    PROVE  Queued(p)'
<1>1. ASSUME NEW v \in Proc, At(v, "queue"), NextFile(v) = p
      PROVE  proc'[v] = proc[v]
  BY <1>1 DEF Moves
<1>2. CASE Told(p)
  BY <1>2 DEF Queued, Told
<1>3. CASE BeingDeleted(p)
  BY <1>1, <1>3 DEF Queued, BeingDeleted, At, NextFile
<1> QED BY <1>2, <1>3 DEF Queued

\* A watcher that is not at "queue" after the step has nothing to say there.
LEMMA GoneElsewhere ==
    ASSUME WatchInv, SingleInv, NEW w \in alive, Moves(w),
           proc'[w].pc # "queue"
    PROVE  \A v \in Proc : Gone(v)'
<1>1. ASSUME NEW v \in Proc, v # w
      PROVE  proc'[v].pc = "off"
  <2>1. v \notin alive
    BY <1>1 DEF SingleInv
  <2>2. proc[v] = Idle
    BY <2>1 DEF WatchInv, Resting
  <2> QED BY <1>1, <2>2, IdleIsRun DEF Moves
<1> QED BY <1>1 DEF Gone, At

(***************************************************************************)
(* A row that is queued stays queued, and a note that is being deleted     *)
(* stays away: one case per action.                                        *)
(***************************************************************************)
LEMMA QueuedNext ==
    ASSUME WatchInv, SingleInv, QueueInv, [WatchNext]_vars
    PROVE  QueueInv'
<1>1. CASE UNCHANGED <<notes, outbox, untold, proc>>
  BY <1>1 DEF QueueInv, Queued, Told, BeingDeleted, Gone, At, NextFile
<1>2. DataOK /\ notes \in [Path -> [id : Nat, text : Text \cup {NoText}]]
  BY WatchInvParts DEF DataOK
<1>3. ASSUME NEW w \in Proc, RefreshOf(w)
      PROVE  QueueInv'
  <2>1. w \in alive /\ RefreshStep(w)
    BY <1>3 DEF RefreshOf, Refresh
  <2>2. CASE UpsertNote(w)
    <3>1. /\ NextFile(w) \in Path /\ Moves(w) /\ ~At(w, "queue")
          /\ proc'[w].pc # "queue"
      BY <2>2, UpsertNoteEffect DEF At
    <3>2. /\ proc[w].text \in Text \cup {NoText}
          /\ Enqueue(NextFile(w), proc[w].text)
      BY <2>2 DEF UpsertNote, WatchInv, WatchTypeOK, TypeOK
    <3>3. /\ notes'[NextFile(w)].text = proc[w].text
          /\ \A q \in Path \ {NextFile(w)} : notes'[q] = notes[q]
      BY <1>2, <2>2, <3>1 DEF UpsertNote
    <3>4. ASSUME NEW p \in Path
          PROVE  Queued(p)'
      <4>1. CASE p = NextFile(w)
        BY <1>2, <3>1, <3>2, <3>3, <4>1, EnqueueTells DEF Queued, Told
      <4>2. CASE p # NextFile(w)
        BY <1>2, <3>1, <3>2, <3>3, <4>2, EnqueueTells, QueuedElsewhere DEF QueueInv
      <4> QED BY <4>1, <4>2
    <3> QED BY <2>1, <3>1, <3>4, GoneElsewhere DEF QueueInv
  <2>3. CASE DeleteNote(w)
    <3>1. /\ NextFile(w) \in Path /\ Moves(w) /\ ~At(w, "queue")
          /\ proc'[w].pc = "queue" /\ proc'[w].files = proc[w].files
          /\ UNCHANGED <<outbox, untold>>
      BY <2>3, DeleteNoteEffect DEF At, DeleteNote
    <3>2. /\ notes'[NextFile(w)].id = 0 /\ notes'[NextFile(w)].text = NoText
          /\ \A q \in Path \ {NextFile(w)} : notes'[q] = notes[q]
      BY <1>2, <2>3, <3>1 DEF DeleteNote
    <3>3. At(w, "queue")' /\ NextFile(w)' = NextFile(w)
      BY <3>1 DEF At, NextFile
    <3>4. ASSUME NEW p \in Path
          PROVE  Queued(p)'
      <4>1. CASE p = NextFile(w)
        BY <3>2, <3>3, <4>1 DEF Queued, BeingDeleted
      <4>2. CASE p # NextFile(w)
        BY <3>1, <3>2, <4>2, QueuedElsewhere DEF QueueInv
      <4> QED BY <4>1, <4>2
    <3>5. ASSUME NEW v \in Proc
          PROVE  Gone(v)'
      <4>1. CASE v = w
        BY <3>2, <3>3, <4>1 DEF Gone
      <4>2. CASE v # w
        <5>1. proc[v] = Idle
          BY <2>1, <4>2 DEF SingleInv, WatchInv, Resting
        <5> QED BY <3>1, <4>2, <5>1, IdleIsRun DEF Moves, Gone, At
      <4> QED BY <4>1, <4>2
    <3> QED BY <3>4, <3>5 DEF QueueInv
  <2>4. CASE QueueDelete(w)
    <3>1. /\ NextFile(w) \in Path /\ Moves(w) /\ At(w, "queue")
          /\ proc'[w].pc # "queue"
      BY <2>4, QueueDeleteEffect DEF At
    <3>2. notes' = notes /\ Enqueue(NextFile(w), NoText)
      BY <2>4 DEF QueueDelete
    <3>3. notes[NextFile(w)].text = NoText
      BY <3>1 DEF QueueInv, Gone
    <3>4. ASSUME NEW p \in Path
          PROVE  Queued(p)'
      <4>1. CASE p = NextFile(w)
        BY <1>2, <3>1, <3>2, <3>3, <4>1, EnqueueTells DEF Queued, Told
      <4>2. CASE p # NextFile(w)
        BY <1>2, <3>1, <3>2, <4>2, EnqueueTells, QueuedElsewhere DEF QueueInv
      <4> QED BY <4>1, <4>2
    <3> QED BY <2>1, <3>1, <3>4, GoneElsewhere DEF QueueInv
  <2>5. CASE ~(UpsertNote(w) \/ DeleteNote(w) \/ QueueDelete(w))
    <3>1. UNCHANGED <<notes, outbox, untold>>
      BY <2>1, <2>5
         DEF RefreshStep, ReadFails, ScanNote, EndCheck, FormatNote, WriteNote,
             EndFormat, ReadNote, ListPruned, EndIngest, LookUpNotes,
             ReplaceRegistry, dbVars
    <3>2. Moves(w) /\ proc[w].pc # "queue" /\ proc'[w].pc # "queue"
      <4>1. ReadFails(w) => /\ Moves(w) /\ proc[w].pc # "queue"
                            /\ proc'[w].pc # "queue"
        BY ReadFailsEffect, EndedIsRun DEF ReadFails
      <4> QED
        BY <2>1, <2>5, <4>1, ScanNoteEffect, EndCheckEffect, FormatNoteEffect,
           WriteNoteEffect, EndFormatEffect, ReadNoteEffect, ListPrunedEffect,
           EndIngestEffect, LookUpNotesEffect, ReplaceRegistryEffect, EndedIsRun
           DEF RefreshStep
    <3> QED BY <2>1, <3>1, <3>2, QueuedElsewhere, GoneElsewhere DEF At, QueueInv
  <2> QED BY <2>2, <2>3, <2>4, <2>5
<1>4. ASSUME NEW w \in Proc, LookOf(w)
      PROVE  QueueInv'
  <2>1. UNCHANGED <<notes, outbox, untold>> /\ w \in alive
    BY <1>4 DEF LookOf, Wake, StatNote, StatFails, EndSnapshot, EndRefresh,
                dbVars, rowVars
  <2>2. Moves(w) /\ proc[w].pc # "queue" /\ proc'[w].pc # "queue"
    BY <1>4, WakeEffect, StatNoteEffect, StatFailsEffect, EndSnapshotEffect,
       EndRefreshEffect DEF LookOf
  <2> QED BY <2>1, <2>2, QueuedElsewhere, GoneElsewhere DEF At, QueueInv
<1>5. ASSUME NEW w \in Proc, EndOf(w)
      PROVE  QueueInv'
  <2>1. /\ w \in alive /\ Moves(w) /\ proc'[w].pc # "queue"
        /\ UNCHANGED <<notes, outbox>>
        /\ untold' = IF At(w, "queue") THEN untold \cup {NextFile(w)} ELSE untold
    BY <1>5, EndsEffect, IdleIsRun DEF EndOf, Ends, rowVars
  <2>2. ASSUME NEW p \in Path
        PROVE  Queued(p)'
    <3>1. CASE At(w, "queue") /\ NextFile(w) = p
      BY <2>1, <3>1 DEF Queued
    <3>2. CASE ~(At(w, "queue") /\ NextFile(w) = p)
      BY <2>1, <3>2, QueuedElsewhere DEF QueueInv
    <3> QED BY <3>1, <3>2
  <2> QED BY <2>1, <2>2, GoneElsewhere DEF QueueInv
<1>6. ASSUME NEW w \in Proc, LaunchOf(w)
      PROVE  QueueInv'
  <2>1. /\ Moves(w) /\ proc[w].pc # "queue" /\ proc'[w].pc # "queue"
        /\ UNCHANGED <<notes, outbox, untold>>
    BY <1>6, LaunchEffect, IdleIsRun DEF LaunchOf, dbVars
  <2>2. ASSUME NEW p \in Path
        PROVE  Queued(p)'
    BY <2>1, QueuedElsewhere DEF At, QueueInv
  <2>3. ASSUME NEW v \in Proc
        PROVE  Gone(v)'
    <3>1. CASE v = w
      BY <2>1, <3>1 DEF Gone, At
    <3>2. CASE v # w
      BY <2>1, <3>2 DEF Gone, At, NextFile, Moves, QueueInv
    <3> QED BY <3>1, <3>2
  <2> QED BY <2>2, <2>3 DEF QueueInv
<1>7. User \/ Still => UNCHANGED <<notes, outbox, untold, proc>>
  BY DEF User, UserStep, Save, Remove, Tick, Still, dbVars, controlVars
<1>8. UNCHANGED vars => UNCHANGED <<notes, outbox, untold, proc>>
  BY DEF vars, dbVars
<1> QED BY <1>1, <1>3, <1>4, <1>5, <1>6, <1>7, <1>8, StepKinds

(***************************************************************************)
(* The newest row of every path in the outbox says what the database       *)
(* holds of it, for notes and for deletions, wherever the watcher is       *)
(* ended; the exceptions are the paths for which the code queues no row:   *)
(* one whose watcher is, or was ended, between the two transactions of     *)
(* the deletion, and one that has gone back to what an older row says.     *)
(* This needs the one watcher: a second one could add the note again       *)
(* between the two transactions.                                           *)
(***************************************************************************)
THEOREM QueueInvariance ==
    ASSUME OneCommand, Alone
    PROVE  WatchSpec => []ProjectionQueued
<1>1. WatchInit => QueueInv
  <2> SUFFICES ASSUME WatchInit
               PROVE  QueueInv
    OBVIOUS
  <2>1. \A p \in Path : Queued(p)
    BY DEF WatchInit, Init, Queued, Told
  <2>2. \A w \in Proc : Gone(w)
    BY IdleIsRun DEF WatchInit, Init, Gone, At
  <2> QED BY <2>1, <2>2 DEF QueueInv
<1>2. WatchInv /\ SingleInv /\ QueueInv /\ [WatchNext]_vars => QueueInv'
  BY QueuedNext
<1>3. QueueInv => ProjectionQueued
  BY DEF QueueInv, Queued, ProjectionQueued
<1> QED BY <1>1, <1>2, <1>3, WatchInvariance, SingleInvariance, PTL DEF WatchSpec

-----------------------------------------------------------------------------
(***************************************************************************)
(* What a snapshot knows.  It is no newer than the disk, so that a change  *)
(* that came after it can be told from it; a watcher that has no snapshot  *)
(* yet has refreshed nothing.                                              *)
(***************************************************************************)
Dated(shot, p) == shot[p].mtime <= disk[p].mtime

DatesInv ==
    \A p \in Path :
        /\ disk[p].mtime <= clock
        /\ \A w \in Proc : /\ Dated(snap[w], p)
                           /\ previous[w] # Untaken => Dated(previous[w], p)

EndedInv ==
    /\ \A w \in alive : ended[w] \cap alive = {} /\ ended[w] \subseteq spawned
    /\ \A w \in Proc : previous[w] = Untaken =>
          proc[w].pc \in {"off", "stat"} /\ ~proc[w].ok

\* The dates that are compared are numbers.
LEMMA ShotsAreNumbers ==
    ASSUME WatchInv, NEW p \in Path
    PROVE  /\ clock \in Nat /\ disk[p].mtime \in Nat
           /\ \A w \in Proc : /\ snap[w][p].mtime \in Nat
                              /\ previous[w] # Untaken => previous[w][p].mtime \in Nat
<1>1. clock \in Nat /\ disk[p].mtime \in Nat
  BY ClockAssumption DEF WatchInv, WatchTypeOK, TypeOK
<1>2. \A shot \in Shot : shot[p].mtime \in Nat
  BY ClockAssumption DEF Shot
<1>3. \A w \in Proc : /\ snap[w] \in Shot
                      /\ previous[w] # Untaken => previous[w] \in Shot
  BY ShotTypes
<1> QED BY <1>1, <1>2, <1>3

(***************************************************************************)
(* The disk only gets newer.                                               *)
(***************************************************************************)
LEMMA DiskAges ==
    ASSUME WatchInv, DatesInv, [WatchNext]_vars, NEW p \in Path
    PROVE  /\ disk[p].mtime <= disk'[p].mtime
           /\ disk'[p].mtime <= clock'
<1>1. /\ clock \in Nat /\ disk[p].mtime \in Nat /\ disk[p].mtime <= clock
      /\ disk \in [Path -> [text : Text \cup {NoText}, mtime : 0..MaxClock]]
  BY ShotsAreNumbers DEF DatesInv, WatchInv, WatchTypeOK, TypeOK
<1>2. CASE UNCHANGED userVars
  BY <1>1, <1>2 DEF userVars
<1>3. CASE User
  <2>1. ASSUME NEW q \in Path, NEW t \in Saved, Save(q, t)
        PROVE  /\ disk'[p] \in {disk[p], [text |-> t, mtime |-> clock]}
               /\ clock' = clock
    BY <1>1, <2>1 DEF Save
  <2>2. ASSUME NEW q \in Path, Remove(q)
        PROVE  /\ disk'[p] \in {disk[p], [text |-> NoText, mtime |-> clock]}
               /\ clock' = clock
    BY <1>1, <2>2 DEF Remove
  <2>3. CASE Tick
    BY <1>1, <2>3 DEF Tick
  <2> QED BY <1>1, <1>3, <2>1, <2>2, <2>3 DEF User, UserStep
<1>4. ASSUME NEW w \in Proc, RefreshStep(w), ~UNCHANGED userVars
      PROVE  disk'[p].mtime \in {disk[p].mtime, clock} /\ clock' = clock
  <2>1. WriteNote(w)
    BY <1>4 DEF RefreshStep, ReadFails, ScanNote, EndCheck, FormatNote, EndFormat,
       ReadNote, UpsertNote, ListPruned, DeleteNote, QueueDelete, EndIngest,
       LookUpNotes, ReplaceRegistry
  <2>2. disk'[p] \in {disk[p], [text |-> proc[w].text, mtime |-> clock]}
    BY <1>1, <2>1 DEF WriteNote
  <2> QED BY <2>1, <2>2 DEF WriteNote
<1>5. Still => UNCHANGED userVars
  BY DEF Still
<1>6. ASSUME NEW w \in Proc, LookOf(w) \/ EndOf(w) \/ LaunchOf(w)
      PROVE  UNCHANGED userVars
  BY <1>6 DEF LookOf, EndOf, LaunchOf, Wake, StatNote, StatFails, EndSnapshot,
              EndRefresh
<1> QED
  BY <1>1, <1>2, <1>3, <1>4, <1>5, <1>6, StepKinds DEF RefreshOf, Refresh

\* DatesInv is inductive: a snapshot is taken from the disk, which only gets
\* newer.
LEMMA DatesNext ==
    ASSUME WatchInv, DatesInv, [WatchNext]_vars
    PROVE  DatesInv'
<1> SUFFICES ASSUME NEW p \in Path
             PROVE  /\ disk'[p].mtime <= clock'
                    /\ \A w \in Proc :
                          /\ snap'[w][p].mtime <= disk'[p].mtime
                          /\ previous'[w] # Untaken =>
                                previous'[w][p].mtime <= disk'[p].mtime
  BY DEF DatesInv, Dated
<1>1. disk[p].mtime <= disk'[p].mtime /\ disk'[p].mtime <= clock'
  BY DiskAges
<1>2. disk[p].mtime \in Nat /\ disk'[p].mtime \in Nat
  <2>1. WatchInv'
    BY WatchInvNext
  <2>2. disk'[p].mtime \in 0..MaxClock
    BY <2>1 DEF WatchInv, WatchTypeOK, TypeOK
  <2> QED BY <2>2, ShotsAreNumbers, ClockAssumption
<1>3. ASSUME NEW w \in Proc
      PROVE  /\ snap[w][p].mtime \in Nat /\ snap[w][p].mtime <= disk[p].mtime
             /\ previous[w] # Untaken => /\ previous[w][p].mtime \in Nat
                                         /\ previous[w][p].mtime <= disk[p].mtime
  BY ShotsAreNumbers DEF DatesInv, Dated
<1>4. NoSnapshot[p].mtime = 0
  BY DEF NoSnapshot, NoFile
<1>5. ASSUME NEW w \in Proc,
             snap'[w] = snap[w] /\ previous'[w] = previous[w]
      PROVE  /\ snap'[w][p].mtime <= disk'[p].mtime
             /\ previous'[w] # Untaken => previous'[w][p].mtime <= disk'[p].mtime
  BY <1>1, <1>2, <1>3, <1>5
<1>6. ASSUME NEW w \in Proc,
             snap'[w] = NoSnapshot,
             previous'[w] \in {previous[w], snap[w], Untaken}
      PROVE  /\ snap'[w][p].mtime <= disk'[p].mtime
             /\ previous'[w] # Untaken => previous'[w][p].mtime <= disk'[p].mtime
  BY <1>1, <1>2, <1>3, <1>4, <1>6
<1>7. CASE UNCHANGED watchVars
  BY <1>1, <1>5, <1>7 DEF watchVars
<1>8. ASSUME NEW w \in Proc, LookOf(w)
      PROVE  \A v \in Proc :
                /\ snap'[v][p].mtime <= disk'[p].mtime
                /\ previous'[v] # Untaken => previous'[v][p].mtime <= disk'[p].mtime
  <2>1. CASE Wake(w)
    BY <1>5, <2>1, WakeEffect
  <2>2. CASE StatNote(w)
    <3>1. /\ MovesShots(w) /\ previous' = previous
          /\ NextFile(w) \in Path
          /\ snap'[w] = [snap[w] EXCEPT ![NextFile(w)] = Stat(NextFile(w))]
      BY <2>2, StatNoteEffect
    <3>2. snap'[w][p] \in {snap[w][p], Stat(p)}
      BY <3>1, ShotTypes DEF Shot
    <3>3. Stat(p).mtime <= disk[p].mtime /\ Stat(p).mtime \in Nat
      BY ShotTypes, ClockAssumption
    <3>4. snap'[w][p].mtime <= disk'[p].mtime
      BY <1>1, <1>2, <1>3, <3>2, <3>3
    <3>5. ASSUME NEW v \in Proc
          PROVE  previous'[v] # Untaken => previous'[v][p].mtime <= disk'[p].mtime
      BY <1>1, <1>2, <1>3, <3>1
    <3>6. ASSUME NEW v \in Proc, v # w
          PROVE  snap'[v][p].mtime <= disk'[p].mtime
      BY <1>1, <1>2, <1>3, <3>1, <3>6 DEF MovesShots
    <3> QED BY <3>4, <3>5, <3>6
  <2>3. CASE StatFails(w) /\ previous[w] # Untaken
    BY <1>5, <1>6, <2>3, StatFailsEffect DEF MovesShots
  <2>4. CASE EndSnapshot(w)
    BY <1>5, <1>6, <2>4, EndSnapshotEffect DEF MovesShots
  <2>5. CASE EndRefresh(w)
    BY <1>5, <1>6, <2>5, EndRefreshEffect DEF MovesShots
  <2> QED BY <1>8, <2>1, <2>2, <2>3, <2>4, <2>5 DEF LookOf
<1>9. ASSUME NEW w \in Proc, EndOf(w)
      PROVE  \A v \in Proc :
                /\ snap'[v][p].mtime <= disk'[p].mtime
                /\ previous'[v] # Untaken => previous'[v][p].mtime <= disk'[p].mtime
  BY <1>5, <1>6, <1>9, EndsEffect DEF EndOf, MovesShots
<1>10. User \/ Still \/ (\E w \in Proc : RefreshOf(w) \/ LaunchOf(w)) =>
          UNCHANGED watchVars
  BY DEF User, Still, RefreshOf, Refresh, LaunchOf
<1> QED BY <1>1, <1>7, <1>8, <1>9, <1>10, StepKinds

\* Where a step of a refresh may take it.
LEMMA RefreshPlaces ==
    ASSUME WatchInv, NEW w \in Proc, RefreshStep(w)
    PROVE  /\ Moves(w)
           /\ proc[w].pc \notin {"off", "stat", "sleep", "done"}
           /\ proc'[w].pc \notin {"off", "stat", "sleep"}
<1>1. ReadFails(w) => /\ Moves(w)
                      /\ proc[w].pc \notin {"off", "stat", "sleep", "done"}
                      /\ proc'[w].pc \notin {"off", "stat", "sleep"}
  BY ReadFailsEffect, EndedIsRun DEF ReadFails
<1>2. EndCheck(w) \/ FormatNote(w) \/ ReplaceRegistry(w) =>
         /\ Moves(w)
         /\ proc[w].pc \notin {"off", "stat", "sleep", "done"}
         /\ proc'[w].pc \notin {"off", "stat", "sleep"}
  BY EndCheckEffect, FormatNoteEffect, ReplaceRegistryEffect, EndedIsRun
<1>3. ScanNote(w) \/ WriteNote(w) \/ EndFormat(w) =>
         /\ Moves(w)
         /\ proc[w].pc \notin {"off", "stat", "sleep", "done"}
         /\ proc'[w].pc \notin {"off", "stat", "sleep"}
  BY ScanNoteEffect, WriteNoteEffect, EndFormatEffect
<1>4. ReadNote(w) \/ UpsertNote(w) \/ ListPruned(w) =>
         /\ Moves(w)
         /\ proc[w].pc \notin {"off", "stat", "sleep", "done"}
         /\ proc'[w].pc \notin {"off", "stat", "sleep"}
  BY ReadNoteEffect, UpsertNoteEffect, ListPrunedEffect
<1>5. DeleteNote(w) \/ QueueDelete(w) \/ EndIngest(w) \/ LookUpNotes(w) =>
         /\ Moves(w)
         /\ proc[w].pc \notin {"off", "stat", "sleep", "done"}
         /\ proc'[w].pc \notin {"off", "stat", "sleep"}
  BY DeleteNoteEffect, QueueDeleteEffect, EndIngestEffect, LookUpNotesEffect
<1> QED BY <1>1, <1>2, <1>3, <1>4, <1>5 DEF RefreshStep

\* EndedInv is inductive.
LEMMA EndedNext ==
    ASSUME WatchInv, EndedInv, [WatchNext]_vars
    PROVE  EndedInv'
<1> USE DEF EndedInv
<1>1. alive \subseteq spawned /\ spawned \subseteq Proc
  BY DEF WatchInv, WatchTypeOK
<1>2. CASE UNCHANGED <<alive, spawned, ended, previous, proc>>
  BY <1>2
<1>3. ASSUME NEW w \in Proc, RefreshOf(w)
      PROVE  EndedInv'
  <2>1. UNCHANGED <<alive, spawned, ended, previous>>
    BY <1>3 DEF RefreshOf, Refresh, watchVars, controlVars
  <2>2. Moves(w) /\ previous[w] # Untaken
    BY <1>3, RefreshPlaces DEF RefreshOf, Refresh
  <2> QED BY <2>1, <2>2 DEF Moves
<1>4. ASSUME NEW w \in Proc, LookOf(w)
      PROVE  EndedInv'
  <2>1. UNCHANGED <<alive, spawned, ended>>
    BY <1>4 DEF LookOf, Wake, StatNote, StatFails, EndSnapshot, EndRefresh,
                controlVars
  <2>2. /\ Moves(w)
        /\ \A v \in Proc \ {w} : previous'[v] = previous[v]
        /\ previous'[w] = Untaken => proc'[w].pc = "stat" /\ ~proc'[w].ok
    <3>1. snap[w] # Untaken
      BY ShotTypes
    <3>2. CASE Wake(w)
      BY <3>2, WakeEffect
    <3>3. CASE StatNote(w)
      BY <3>3, StatNoteEffect
    <3>4. CASE StatFails(w) /\ previous[w] # Untaken
      BY <3>4, StatFailsEffect
    <3>5. CASE EndSnapshot(w)
      BY <3>1, <3>5, EndSnapshotEffect DEF MovesShots
    <3>6. CASE EndRefresh(w)
      BY <3>1, <3>6, EndRefreshEffect DEF MovesShots
    <3> QED BY <1>4, <3>2, <3>3, <3>4, <3>5, <3>6 DEF LookOf
  <2> QED BY <2>1, <2>2 DEF Moves
<1>5. ASSUME NEW w \in Proc, EndOf(w)
      PROVE  EndedInv'
  <2>1. /\ Moves(w) /\ MovesShots(w) /\ proc'[w] = Idle
        /\ alive' = alive \ {w} /\ UNCHANGED <<spawned, ended>>
    BY <1>5, EndsEffect DEF EndOf
  <2> QED BY <2>1, IdleIsRun DEF Moves, MovesShots
<1>6. ASSUME NEW w \in Proc, LaunchOf(w)
      PROVE  EndedInv'
  <2>1. /\ Moves(w) /\ w \notin spawned
        /\ proc'[w].pc = "stat" /\ ~proc'[w].ok
        /\ alive' = alive \cup {w} /\ spawned' = spawned \cup {w}
        /\ ended'[w] = spawned \ alive
        /\ \A v \in Proc \ {w} : ended'[v] = ended[v]
        /\ previous' = previous
    BY <1>6, LaunchEffect DEF LaunchOf, watchVars
  <2>2. ASSUME NEW v \in alive'
        PROVE  ended'[v] \cap alive' = {} /\ ended'[v] \subseteq spawned'
    <3>1. CASE v = w
      BY <1>1, <2>1, <3>1
    <3>2. CASE v # w
      BY <1>1, <2>1, <2>2, <3>2
    <3> QED BY <3>1, <3>2
  <2>3. ASSUME NEW v \in Proc, previous'[v] = Untaken
        PROVE  proc'[v].pc \in {"off", "stat"} /\ ~proc'[v].ok
    BY <2>1, <2>3 DEF Moves
  <2> QED BY <2>2, <2>3
<1>7. User \/ Still => UNCHANGED <<alive, spawned, ended, previous, proc>>
  BY DEF User, UserStep, Save, Remove, Tick, Still, watchVars, controlVars
<1> QED BY <1>2, <1>3, <1>4, <1>5, <1>6, <1>7, StepKinds

-----------------------------------------------------------------------------
(***************************************************************************)
(* A refresh that formats writes the files.  Another watcher's refresh     *)
(* would miss that, because the user's rule of one change in a second is   *)
(* not the formatter's: NoFormatterBeside holds if nothing is formatted,   *)
(* and if there is one watcher.                                            *)
(***************************************************************************)
NoFormatterBeside ==
    \A w \in alive : proc[w].pc \in {"check", "format", "write"} => alive = {w}

NoFormatter == \A w \in Proc : proc[w].pc \notin {"check", "format", "write"}

\* Without a formatter no refresh comes to its steps.
LEMMA NoFormatterNext ==
    ASSUME Formatting = {}, WatchInv, NoFormatter, [WatchNext]_vars
    PROVE  NoFormatter'
<1> USE DEF NoFormatter
<1>1. User \/ Still => UNCHANGED proc
  BY DEF User, UserStep, Save, Remove, Tick, Still
<1>2. ASSUME NEW w \in Proc, Moves(w),
             proc'[w].pc \notin {"check", "format", "write"}
      PROVE  NoFormatter'
  BY <1>2 DEF Moves
<1>3. ASSUME NEW w \in Proc, RefreshOf(w)
      PROVE  NoFormatter'
  <2>1. RefreshStep(w)
    BY <1>3 DEF RefreshOf, Refresh
  <2>2. ReadFails(w) \/ ReplaceRegistry(w) => NoFormatter'
    BY <1>2, ReadFailsEffect, ReplaceRegistryEffect, EndedIsRun
  <2>3. ~(EndCheck(w) \/ FormatNote(w) \/ WriteNote(w) \/ EndFormat(w))
    BY EndCheckEffect, FormatNoteEffect, WriteNoteEffect, EndFormatEffect
  <2>4. ScanNote(w) \/ ReadNote(w) \/ UpsertNote(w) => NoFormatter'
    BY <1>2, ScanNoteEffect, ReadNoteEffect, UpsertNoteEffect
  <2>5. ListPruned(w) \/ DeleteNote(w) \/ QueueDelete(w) => NoFormatter'
    BY <1>2, ListPrunedEffect, DeleteNoteEffect, QueueDeleteEffect
  <2>6. EndIngest(w) \/ LookUpNotes(w) => NoFormatter'
    BY <1>2, EndIngestEffect, LookUpNotesEffect
  <2> QED BY <2>1, <2>2, <2>3, <2>4, <2>5, <2>6 DEF RefreshStep
<1>4. ASSUME NEW w \in Proc, LookOf(w)
      PROVE  NoFormatter'
  <2>1. w \notin Formatting
    OBVIOUS
  <2>2. Wake(w) \/ StatNote(w) \/ EndRefresh(w) => NoFormatter'
    BY <1>2, WakeEffect, StatNoteEffect, EndRefreshEffect
  <2>3. StatFails(w) /\ previous[w] # Untaken => NoFormatter'
    BY <1>2, StatFailsEffect
  <2>4. EndSnapshot(w) => NoFormatter'
    BY <1>2, <2>1, EndSnapshotEffect
  <2> QED BY <1>4, <2>2, <2>3, <2>4 DEF LookOf
<1>5. ASSUME NEW w \in Proc, EndOf(w)
      PROVE  NoFormatter'
  BY <1>2, <1>5, EndsEffect, IdleIsRun DEF EndOf
<1>6. ASSUME NEW w \in Proc, LaunchOf(w)
      PROVE  NoFormatter'
  BY <1>2, <1>6, LaunchEffect DEF LaunchOf
<1> QED BY <1>1, <1>3, <1>4, <1>5, <1>6, StepKinds

\* Without a formatter no refresh is ever in it.
LEMMA NoFormatterInvariance ==
    ASSUME Formatting = {}
    PROVE  WatchSpec => []NoFormatter
<1>1. WatchInit => NoFormatter
  BY IdleIsRun DEF WatchInit, Init, NoFormatter
<1>2. WatchInv /\ NoFormatter /\ [WatchNext]_vars => NoFormatter'
  BY NoFormatterNext
<1> QED BY <1>1, <1>2, WatchInvariance, PTL DEF WatchSpec

\* In both cases no file is written beside another watcher.
LEMMA FormatterBesideNobody ==
    ASSUME Formatting = {} \/ (OneCommand /\ Alone)
    PROVE  WatchSpec => []NoFormatterBeside
<1>1. CASE Formatting = {}
  <2>1. WatchInv /\ NoFormatter => NoFormatterBeside
    BY DEF NoFormatter, NoFormatterBeside, WatchInv, WatchTypeOK
  <2> QED BY <1>1, <2>1, WatchInvariance, NoFormatterInvariance, PTL
<1>2. CASE OneCommand /\ Alone
  <2>1. SingleInv => NoFormatterBeside
    BY DEF SingleInv, NoFormatterBeside
  <2> QED BY <1>2, <2>1, SingleInvariance, PTL
<1> QED BY <1>1, <1>2

-----------------------------------------------------------------------------
(***************************************************************************)
(* How far a refresh has come.  It has seen a path if that is as it was at *)
(* the snapshot which started the refresh; what it has read and listed is  *)
(* then what is on disk.  It is done with a path once what it wrote of it  *)
(* is in the database, and remains so until it takes the next snapshot,    *)
(* unless the path changes.                                                *)
(***************************************************************************)
Looking(w) == proc[w].pc \in {"stat", "sleep"}

Seen(w, p) == snap[w][p] = Stat(p)

Listed(w, p) ==
    Seen(w, p) =>
        /\ proc[w].pc \in {"ingest", "upsert"} =>
              (p \in Files <=> p \in proc[w].files \cup proc[w].listed)
        /\ proc[w].pc = "upsert" /\ p = NextFile(w) =>
              p \in proc[w].listed /\ proc[w].text = disk[p].text
        /\ proc[w].pc \in {"prune", "queue"} /\ p \in proc[w].files
              => p \notin Files

ListedInv == \A w \in alive : \A p \in Path : Listed(w, p)

Done(w, p) ==
    IF Looking(w)
    THEN proc[w].ok /\ previous[w][p] = Stat(p)
    ELSE /\ Seen(w, p)
         /\ \/ /\ proc[w].pc \in {"ingest", "upsert"}
               /\ p \in proc[w].listed \ proc[w].files
            \/ proc[w].pc = "prune" /\ p \notin proc[w].files
            \/ proc[w].pc = "queue" /\ (p \in proc[w].files => p = NextFile(w))
            \/ proc[w].pc \in {"scan", "replace"}
            \/ proc[w].pc = "done" /\ proc[w].ok

Undisturbed(w) == spawned \ alive = ended[w]

Fresh(p) ==
    /\ alive # {}
    /\ \A w \in alive : Done(w, p) /\ Undisturbed(w)
    => notes[p].text = disk[p].text

FreshInv ==
    /\ DatesInv
    /\ EndedInv
    /\ ListedInv
    /\ \A p \in Path : Fresh(p)

(***************************************************************************)
(* What the user changes, every watcher that is done with it will see to   *)
(* be different from its snapshot.                                         *)
(***************************************************************************)
LEMMA ChangeIsVisible ==
    ASSUME WatchInv, DatesInv, EndedInv, ~ShortLived, User,
           NEW p \in Path, disk'[p] # disk[p], NEW w \in alive
    PROVE  /\ Looking(w) /\ proc[w].ok => previous[w][p] # Stat(p)'
           /\ ~Looking(w) => snap[w][p] # Stat(p)'
<1>1. w \in Proc
  BY DEF WatchInv, WatchTypeOK
<1>2. Looking(w) /\ proc[w].ok => previous[w] # Untaken
  BY <1>1 DEF EndedInv
<1>3. disk \in [Path -> [text : Text \cup {NoText}, mtime : 0..MaxClock]]
  BY DEF WatchInv, WatchTypeOK, TypeOK
<1>4. \/ \E t \in Saved : Save(p, t)
      \/ Remove(p)
  <2>1. ASSUME NEW q \in Path, NEW t \in Saved, Save(q, t)
        PROVE  q = p
    BY <1>3, <2>1 DEF Save
  <2>2. ASSUME NEW q \in Path, Remove(q)
        PROVE  q = p
    BY <1>3, <2>2 DEF Remove
  <2>3. ~Tick
    BY DEF Tick
  <2> QED BY <2>1, <2>2, <2>3 DEF User, UserStep
<1>5. CASE \E t \in Saved : Save(p, t)
  <2>1. PICK t \in Saved : Save(p, t)
    BY <1>5
  <2>2. disk'[p].text = t /\ disk'[p].mtime = clock /\ disk[p].mtime < clock
    BY <1>3, <2>1 DEF Save
  <2>3. t # NoText
    BY TextAssumption
  <2>4. Stat(p)'.mtime = clock
    BY <2>2, <2>3 DEF Stat
  <2>5. /\ disk[p].mtime \in Nat /\ clock \in Nat
        /\ snap[w][p].mtime \in Nat /\ snap[w][p].mtime <= disk[p].mtime
        /\ previous[w] # Untaken => /\ previous[w][p].mtime \in Nat
                                    /\ previous[w][p].mtime <= disk[p].mtime
    BY <1>1, ShotsAreNumbers DEF DatesInv, Dated
  <2> QED BY <1>2, <2>2, <2>4, <2>5
<1>6. CASE Remove(p)
  <2>1. p \in Files /\ disk'[p].text = NoText
    BY <1>3, <1>6 DEF Remove
  <2>2. Knows(w, p)
    BY <2>1 DEF User
  <2>3. Stat(p)' = NoFile
    BY <2>1 DEF Stat, NoFile
  <2> QED BY <2>2, <2>3 DEF Knows, Looking
<1> QED BY <1>4, <1>5, <1>6

(***************************************************************************)
(* A step of another watcher does not concern a refresh, unless it writes  *)
(* the file.                                                               *)
(***************************************************************************)
LEMMA UnconcernedListed ==
    ASSUME NEW w \in Proc, NEW p \in Path, proc'[w] = proc[w],
           snap'[w] = snap[w], disk'[p] = disk[p], Listed(w, p)
    PROVE  Listed(w, p)'
  BY DEF Listed, Seen, Stat, NextFile, Files, NoFile

\* What a refresh is done with stays so while the refresh and the file do not
\* change.
LEMMA UnconcernedDone ==
    ASSUME NEW w \in Proc, NEW p \in Path, proc'[w] = proc[w],
           snap'[w] = snap[w], previous'[w] = previous[w], disk'[p] = disk[p]
    PROVE  Done(w, p)' <=> Done(w, p)
  BY DEF Done, Looking, Seen, Stat, NextFile, NoFile

(***************************************************************************)
(* A step of the refresh itself: what it has listed stays right, and it    *)
(* was done with a path before, or is now and with the current text.       *)
(***************************************************************************)
Keeps(w, p) ==
    /\ Listed(w, p)'
    /\ Done(w, p)' => \/ Done(w, p) /\ notes'[p].text = notes[p].text
                      \/ notes'[p].text = disk'[p].text

\* Steps before anything is read for the database, or after a failure.
LEMMA KeepsElsewhere ==
    ASSUME NEW w \in Proc, NEW p \in Path,
           \/ proc'[w].pc \in {"check", "format", "write"}
           \/ proc'[w].pc = "done" /\ ~proc'[w].ok
    PROVE  Keeps(w, p)
  BY DEF Keeps, Listed, Done, Looking

\* Every step of a refresh keeps what it is done with: one case per action.
LEMMA RefreshKeeps ==
    ASSUME WatchInv, NEW w \in Proc, RefreshOf(w), NEW p \in Path, Listed(w, p)
    PROVE  Keeps(w, p)
<1>1. RefreshStep(w) /\ snap' = snap
  BY DEF RefreshOf, Refresh, watchVars
<1>2. ASSUME disk' = disk
      PROVE  (Seen(w, p)' <=> Seen(w, p)) /\ Files' = Files
  BY <1>1, <1>2 DEF Seen, Stat, Files
<1>3. CASE ReadFails(w) \/ EndCheck(w) \/ FormatNote(w) \/ WriteNote(w)
  BY <1>3, ReadFailsEffect, EndCheckEffect, FormatNoteEffect, WriteNoteEffect,
     EndedIsRun, KeepsElsewhere
<1>4. CASE ScanNote(w)
  <2>1. disk' = disk /\ notes' = notes
    BY <1>4 DEF ScanNote, userVars, dbVars
  <2>2. CASE proc[w].pc = "check"
    BY <1>4, <2>2, ScanNoteEffect, KeepsElsewhere
  <2>3. CASE proc[w].pc = "scan"
    <3>1. proc'[w].pc = "scan"
      BY <1>4, <2>3, ScanNoteEffect
    <3> QED BY <1>2, <2>1, <2>3, <3>1 DEF Keeps, Listed, Done, Looking
  <2> QED BY <1>4, <2>2, <2>3, ScanNoteEffect
<1>5. CASE EndFormat(w)
  <2>1. disk' = disk /\ notes' = notes
    BY <1>5 DEF EndFormat, userVars, dbVars
  <2>2. proc'[w].pc = "ingest" /\ proc'[w].files = Files /\ proc'[w].listed = {}
    BY <1>5, EndFormatEffect
  <2> QED BY <1>2, <2>1, <2>2 DEF Keeps, Listed, Done, Looking
<1>6. CASE ReadNote(w)
  <2>1. disk' = disk /\ notes' = notes
    BY <1>6 DEF ReadNote, userVars, dbVars
  <2>2. /\ NextFile(w) \in proc[w].files
        /\ proc[w].pc = "ingest" /\ proc'[w].pc = "upsert"
        /\ proc'[w].files = proc[w].files
        /\ proc'[w].listed = proc[w].listed \cup {NextFile(w)}
        /\ proc'[w].text = disk[NextFile(w)].text
    BY <1>6, ReadNoteEffect
  <2>3. NextFile(w)' = NextFile(w)
    BY <2>2 DEF NextFile
  <2>4. Listed(w, p)'
    BY <1>2, <2>1, <2>2, <2>3 DEF Listed
  <2>5. Done(w, p)' => Done(w, p)
    BY <1>2, <2>1, <2>2 DEF Done, Looking
  <2> QED BY <2>1, <2>4, <2>5 DEF Keeps
<1>7. CASE UpsertNote(w)
  <2>0. disk' = disk
    BY <1>7 DEF UpsertNote, userVars
  <2>1. /\ disk' = disk
        /\ NextFile(w) \in proc[w].files /\ NextFile(w) \in Path
        /\ proc[w].pc = "upsert" /\ proc'[w].pc = "ingest"
        /\ proc'[w].files = proc[w].files \ {NextFile(w)}
        /\ proc'[w].listed = proc[w].listed
    BY <1>7, <2>0, UpsertNoteEffect
  <2>2. notes'[p].text = IF p = NextFile(w) THEN proc[w].text ELSE notes[p].text
    BY <1>7, <2>1 DEF UpsertNote, WatchInv, WatchTypeOK, TypeOK
  <2>3. CASE p = NextFile(w)
    <3>1. Listed(w, p)'
      BY <1>2, <2>1, <2>3 DEF Listed
    <3>2. Done(w, p)' => notes'[p].text = disk'[p].text
      BY <1>2, <2>1, <2>2, <2>3 DEF Done, Looking, Listed
    <3> QED BY <3>1, <3>2 DEF Keeps
  <2>4. CASE p # NextFile(w)
    <3>1. Listed(w, p)'
      BY <1>2, <2>1, <2>4 DEF Listed
    <3>2. Done(w, p)' => Done(w, p)
      BY <1>2, <2>1, <2>4 DEF Done, Looking
    <3> QED BY <2>2, <2>4, <3>1, <3>2 DEF Keeps
  <2> QED BY <2>3, <2>4
<1>8. CASE ListPruned(w)
  <2>1. disk' = disk /\ notes' = notes
    BY <1>8 DEF ListPruned, userVars, dbVars
  <2>2. /\ proc[w].pc = "ingest" /\ proc'[w].pc = "prune"
        /\ proc[w].files = {}
        /\ proc'[w].files = {q \in Path : notes[q].id # 0} \ proc[w].listed
    BY <1>8, ListPrunedEffect
  <2>3. Seen(w, p) => (p \in Files <=> p \in proc[w].listed)
    BY <2>2 DEF Listed
  <2>4. Listed(w, p)'
    BY <1>2, <2>1, <2>2, <2>3 DEF Listed
  <2>5. Done(w, p)' => \/ Done(w, p)
                       \/ notes[p].id = 0 /\ p \notin Files
    BY <1>2, <2>1, <2>2, <2>3 DEF Done, Looking
  <2>6. notes[p].id = 0 /\ p \notin Files => notes[p].text = disk[p].text
    BY DEF WatchInv, Rowed, Files
  <2> QED BY <2>1, <2>4, <2>5, <2>6 DEF Keeps
<1>9. CASE DeleteNote(w)
  <2>1. /\ disk' = disk
        /\ NextFile(w) \in proc[w].files /\ NextFile(w) \in Path
        /\ proc[w].pc = "prune" /\ proc'[w].pc = "queue"
        /\ proc'[w].files = proc[w].files
    BY <1>9, DeleteNoteEffect DEF DeleteNote, userVars
  <2>2. notes'[p].text = IF p = NextFile(w) THEN NoText ELSE notes[p].text
    BY <1>9, <2>1 DEF DeleteNote, WatchInv, WatchTypeOK, TypeOK
  <2>3. NextFile(w)' = NextFile(w)
    BY <2>1 DEF NextFile
  <2>4. Listed(w, p)'
    BY <1>2, <2>1 DEF Listed
  <2>5. CASE p = NextFile(w)
    <3>1. Seen(w, p) => disk[p].text = NoText
      BY <2>1, <2>5 DEF Listed, Files
    <3>2. Done(w, p)' => Seen(w, p)
      BY <1>2, <2>1 DEF Done, Looking
    <3> QED BY <2>1, <2>2, <2>4, <2>5, <3>1, <3>2 DEF Keeps
  <2>6. CASE p # NextFile(w)
    <3>1. Done(w, p)' => Done(w, p)
      BY <1>2, <2>1, <2>3, <2>6 DEF Done, Looking
    <3> QED BY <2>2, <2>4, <2>6, <3>1 DEF Keeps
  <2> QED BY <2>5, <2>6
<1>10. CASE QueueDelete(w)
  <2>1. /\ disk' = disk /\ notes' = notes
        /\ NextFile(w) \in proc[w].files
        /\ proc[w].pc = "queue" /\ proc'[w].pc = "prune"
        /\ proc'[w].files = proc[w].files \ {NextFile(w)}
    BY <1>10, QueueDeleteEffect DEF QueueDelete, userVars
  <2>2. Listed(w, p)'
    BY <1>2, <2>1 DEF Listed
  <2>3. Done(w, p)' => Done(w, p)
    BY <1>2, <2>1 DEF Done, Looking
  <2> QED BY <2>1, <2>2, <2>3 DEF Keeps
<1>11. CASE EndIngest(w)
  <2>1. /\ disk' = disk /\ notes' = notes
        /\ proc[w].pc = "prune" /\ proc'[w].pc = "scan" /\ proc[w].files = {}
    BY <1>11, EndIngestEffect DEF EndIngest, userVars, dbVars
  <2> QED BY <1>2, <2>1 DEF Keeps, Listed, Done, Looking
<1>12. CASE LookUpNotes(w)
  <2>1. /\ disk' = disk /\ notes' = notes
        /\ proc[w].pc = "scan" /\ proc'[w].pc = "replace"
    BY <1>12, LookUpNotesEffect DEF LookUpNotes, userVars, dbVars
  <2> QED BY <1>2, <2>1 DEF Keeps, Listed, Done, Looking
<1>13. CASE ReplaceRegistry(w)
  <2>1. /\ disk' = disk /\ notes' = notes
        /\ proc[w].pc = "replace" /\ proc'[w].pc = "done"
    BY <1>13, ReplaceRegistryEffect, EndedIsRun DEF ReplaceRegistry, userVars
  <2> QED BY <1>2, <2>1 DEF Keeps, Listed, Done, Looking
<1> QED BY <1>1, <1>3, <1>4, <1>5, <1>6, <1>7, <1>8, <1>9, <1>10, <1>11, <1>12,
           <1>13 DEF RefreshStep

(***************************************************************************)
(* Between two refreshes a watcher keeps what it is done with.             *)
(***************************************************************************)
LEMMA LookKeeps ==
    ASSUME WatchInv, EndedInv, NEW w \in Proc, LookOf(w), NEW p \in Path
    PROVE  /\ UNCHANGED <<disk, notes, alive, spawned, ended>> /\ Moves(w)
           /\ \A v \in Proc \ {w} : snap'[v] = snap[v] /\ previous'[v] = previous[v]
           /\ Keeps(w, p)
<1>1. UNCHANGED <<disk, notes, alive, spawned, ended>>
  BY DEF LookOf, Wake, StatNote, StatFails, EndSnapshot, EndRefresh, userVars,
         dbVars, rowVars, controlVars
<1>2. Stat(p)' = Stat(p) /\ Files' = Files
  BY <1>1 DEF Stat, Files
<1> USE DEF MovesShots
<1>3. ASSUME Looking(w), proc'[w].pc \in {"stat", "sleep"},
             proc'[w].ok = proc[w].ok, previous'[w] = previous[w]
      PROVE  Keeps(w, p)
  BY <1>1, <1>2, <1>3 DEF Keeps, Listed, Done, Looking
<1>4. CASE Wake(w)
  BY <1>1, <1>3, <1>4, WakeEffect DEF Looking
<1>5. CASE StatNote(w)
  BY <1>1, <1>3, <1>5, StatNoteEffect DEF Looking
<1>6. CASE StatFails(w) /\ previous[w] # Untaken
  BY <1>1, <1>3, <1>6, StatFailsEffect DEF Looking
<1>7. CASE EndSnapshot(w)
  <2>1. CASE previous[w] = Untaken
    <3>1. ~proc[w].ok
      BY <2>1 DEF EndedInv
    <3>2. proc'[w].pc = "sleep" /\ ~proc'[w].ok
      BY <1>7, <2>1, <3>1, EndSnapshotEffect
    <3> QED BY <1>1, <1>7, <3>2, EndSnapshotEffect DEF Keeps, Listed, Done, Looking
  <2>2. CASE previous[w] = snap[w]
    <3>1. CASE proc'[w].pc = "sleep"
      BY <1>1, <1>3, <1>7, <2>2, <3>1, EndSnapshotEffect DEF Looking
    <3>2. CASE proc'[w].pc = "check"
      BY <1>1, <1>7, <3>2, EndSnapshotEffect, KeepsElsewhere
    <3>3. CASE proc'[w].pc = "ingest"
      BY <1>1, <1>2, <1>7, <3>3, EndSnapshotEffect DEF Keeps, Listed, Done, Looking
    <3> QED BY <1>7, <3>1, <3>2, <3>3, EndSnapshotEffect
  <2>3. CASE previous[w] \notin {Untaken, snap[w]}
    <3>1. CASE proc'[w].pc = "check"
      BY <1>1, <1>7, <3>1, EndSnapshotEffect, KeepsElsewhere
    <3>2. CASE proc'[w].pc = "ingest"
      BY <1>1, <1>2, <1>7, <3>2, EndSnapshotEffect DEF Keeps, Listed, Done, Looking
    <3> QED BY <1>7, <2>3, <3>1, <3>2, EndSnapshotEffect
  <2> QED BY <2>1, <2>2, <2>3
<1>8. CASE EndRefresh(w)
  <2>1. /\ Moves(w) /\ MovesShots(w)
        /\ proc[w].pc = "done" /\ proc'[w].pc = "sleep"
        /\ proc'[w].ok = proc[w].ok /\ previous'[w] = snap[w]
    BY <1>8, EndRefreshEffect
  <2> QED BY <1>1, <1>2, <2>1 DEF Keeps, Listed, Done, Looking, Seen
<1> QED BY <1>4, <1>5, <1>6, <1>7, <1>8 DEF LookOf

(***************************************************************************)
(* One step, for one path: a step that leaves every watcher done with it   *)
(* either was done with it before, or has just written what is on disk.    *)
(***************************************************************************)
LEMMA ListedNext ==
    ASSUME ~ShortLived, WatchInv, FreshInv, NoFormatterBeside, [WatchNext]_vars
    PROVE  ListedInv'
<1> SUFFICES ASSUME NEW w \in alive', NEW p \in Path
             PROVE  Listed(w, p)'
  BY DEF ListedInv
<1>1. WatchInv' /\ alive \subseteq Proc /\ alive' \subseteq Proc
  <2>1. WatchInv'
    BY WatchInvNext
  <2> QED BY <2>1 DEF WatchInv, WatchTypeOK
<1>2. CASE User
  <2>1. UNCHANGED <<proc, snap, alive>>
    BY <1>2 DEF User, UserStep, Save, Remove, Tick, watchVars, controlVars
  <2>2. CASE disk'[p] = disk[p]
    BY <1>1, <2>1, <2>2, UnconcernedListed DEF FreshInv, ListedInv
  <2>3. CASE disk'[p] # disk[p]
    <3>1. ~Looking(w) => snap[w][p] # Stat(p)'
      BY <1>2, <2>1, <2>3, ChangeIsVisible DEF FreshInv
    <3> QED BY <2>1, <3>1 DEF Listed, Seen, Looking
  <2> QED BY <2>2, <2>3
<1>3. CASE Still
  BY <1>1, <1>3, UnconcernedListed DEF FreshInv, ListedInv, Still, userVars, watchVars
<1>4. ASSUME NEW v \in Proc, RefreshOf(v)
      PROVE  Listed(w, p)'
  <2>1. /\ alive' = alive /\ snap' = snap /\ v \in alive
        /\ RefreshStep(v) /\ Listed(w, p)
    BY <1>4 DEF RefreshOf, Refresh, watchVars, controlVars, FreshInv, ListedInv
  <2>2. CASE w = v
    BY <1>4, <2>1, <2>2, RefreshKeeps DEF Keeps
  <2>3. CASE w # v
    <3>1. ~WriteNote(v)
      BY <1>4, <2>1, <2>3, WriteNoteEffect DEF NoFormatterBeside
    <3>2. disk' = disk
      BY <2>1, <3>1
         DEF RefreshStep, ReadFails, ScanNote, EndCheck, FormatNote, EndFormat,
             ReadNote, UpsertNote, ListPruned, DeleteNote, QueueDelete, EndIngest,
             LookUpNotes, ReplaceRegistry, userVars
    <3>3. proc'[w] = proc[w]
      BY <1>1, <2>1, <2>3, RefreshPlaces DEF Moves
    <3> QED BY <1>1, <2>1, <3>2, <3>3, UnconcernedListed
  <2> QED BY <2>2, <2>3
<1>5. ASSUME NEW v \in Proc, LookOf(v)
      PROVE  Listed(w, p)'
  <2>1. /\ UNCHANGED <<disk, alive>> /\ Moves(v) /\ Keeps(v, p)
        /\ w # v => snap'[w] = snap[w] /\ proc'[w] = proc[w]
    BY <1>1, <1>5, LookKeeps DEF Moves, FreshInv
  <2> QED BY <1>1, <2>1, UnconcernedListed DEF Keeps, FreshInv, ListedInv
<1>6. ASSUME NEW v \in Proc, EndOf(v)
      PROVE  Listed(w, p)'
  <2>1. /\ w \in alive /\ w # v /\ disk' = disk
        /\ snap'[w] = snap[w] /\ proc'[w] = proc[w]
    BY <1>1, <1>6, EndsEffect DEF EndOf, Moves, MovesShots, userVars
  <2> QED BY <1>1, <2>1, UnconcernedListed DEF FreshInv, ListedInv
<1>7. ASSUME NEW v \in Proc, LaunchOf(v)
      PROVE  Listed(w, p)'
  <2>1. /\ disk' = disk /\ snap' = snap /\ alive' = alive \cup {v}
        /\ proc'[v].pc = "stat" /\ (w # v => proc'[w] = proc[w])
    BY <1>1, <1>7, LaunchEffect DEF LaunchOf, Moves, watchVars, userVars
  <2>2. CASE w = v
    BY <2>1, <2>2 DEF Listed
  <2>3. CASE w # v
    BY <1>1, <2>1, <2>3, UnconcernedListed DEF FreshInv, ListedInv
  <2> QED BY <2>2, <2>3
<1> QED BY <1>2, <1>3, <1>4, <1>5, <1>6, <1>7, StepKinds

\* A path that is fresh stays fresh: one case per kind of step.
LEMMA FreshNext ==
    ASSUME ~ShortLived, WatchInv, FreshInv, NoFormatterBeside, [WatchNext]_vars,
           NEW p \in Path
    PROVE  Fresh(p)'
<1> SUFFICES ASSUME alive' # {},
                    \A w \in alive' : Done(w, p)' /\ Undisturbed(w)'
             PROVE  notes'[p].text = disk'[p].text
  BY DEF Fresh
<1>1. /\ alive \subseteq Proc /\ alive' \subseteq Proc /\ alive \subseteq spawned
      /\ DatesInv /\ EndedInv /\ Fresh(p)
      /\ \A w \in alive : Listed(w, p)
  <2>1. WatchInv'
    BY WatchInvNext
  <2> QED BY <2>1 DEF WatchInv, WatchTypeOK, FreshInv, ListedInv
<1>2. CASE User
  <2>1. UNCHANGED <<notes, proc, snap, previous, alive, spawned, ended>>
    BY <1>2 DEF User, UserStep, Save, Remove, Tick, dbVars, watchVars, controlVars
  <2>2. CASE disk'[p] = disk[p]
    <3>1. ASSUME NEW w \in alive
          PROVE  Done(w, p) /\ Undisturbed(w)
      BY <1>1, <2>1, <2>2, UnconcernedDone DEF Undisturbed
    <3> QED BY <1>1, <2>1, <2>2, <3>1 DEF Fresh
  <2>3. CASE disk'[p] # disk[p]
    <3>1. PICK w \in alive : TRUE
      BY <2>1
    <3>2. Done(w, p)'
      BY <2>1
    <3>3. /\ Looking(w) /\ proc[w].ok => previous[w][p] # Stat(p)'
          /\ ~Looking(w) => snap[w][p] # Stat(p)'
      BY <1>1, <1>2, <2>3, ChangeIsVisible
    <3> QED BY <2>1, <3>2, <3>3 DEF Done, Looking, Seen
  <2> QED BY <2>2, <2>3
<1>3. CASE Still
  <2>1. UNCHANGED <<disk, notes, proc, snap, previous, alive, spawned, ended>>
    BY <1>3 DEF Still, userVars, dbVars, watchVars
  <2>2. ASSUME NEW w \in alive
        PROVE  Done(w, p) /\ Undisturbed(w)
    BY <1>1, <2>1, UnconcernedDone DEF Undisturbed
  <2> QED BY <1>1, <2>1, <2>2 DEF Fresh
<1>4. ASSUME NEW v \in alive, Moves(v), Keeps(v, p), disk' = disk,
             UNCHANGED <<alive, spawned, ended>>,
             \A w \in Proc \ {v} : snap'[w] = snap[w] /\ previous'[w] = previous[w]
      PROVE  notes'[p].text = disk'[p].text
  <2>1. CASE notes'[p].text = disk'[p].text
    BY <2>1
  <2>2. CASE notes'[p].text # disk'[p].text
    <3>1. Done(v, p) /\ notes'[p].text = notes[p].text
      BY <1>4, <2>2 DEF Keeps
    <3>2. ASSUME NEW w \in alive
          PROVE  Done(w, p) /\ Undisturbed(w)
      <4>1. Undisturbed(w)
        BY <1>4 DEF Undisturbed
      <4>2. CASE w = v
        BY <3>1, <4>1, <4>2
      <4>3. CASE w # v
        <5>1. proc'[w] = proc[w] /\ snap'[w] = snap[w] /\ previous'[w] = previous[w]
          BY <1>1, <1>4, <4>3 DEF Moves
        <5>2. Done(w, p)' <=> Done(w, p)
          BY <1>1, <1>4, <5>1, UnconcernedDone
        <5> QED BY <1>4, <4>1, <5>2
      <4> QED BY <4>2, <4>3
    <3> QED BY <1>1, <1>4, <3>1, <3>2 DEF Fresh
  <2> QED BY <2>1, <2>2
<1>5. ASSUME NEW v \in Proc, RefreshOf(v)
      PROVE  notes'[p].text = disk'[p].text
  <2>1. /\ v \in alive /\ RefreshStep(v)
        /\ UNCHANGED <<snap, previous, alive, spawned, ended>>
    BY <1>5 DEF RefreshOf, Refresh, watchVars, controlVars
  <2>2. CASE WriteNote(v)
    <3>1. proc'[v].pc = "format" /\ Done(v, p)'
      BY <2>1, <2>2, WriteNoteEffect
    <3> QED BY <3>1 DEF Done, Looking
  <2>3. CASE ~WriteNote(v)
    <3>1. disk' = disk
      BY <2>1, <2>3
         DEF RefreshStep, ReadFails, ScanNote, EndCheck, FormatNote, EndFormat,
             ReadNote, UpsertNote, ListPruned, DeleteNote, QueueDelete, EndIngest,
             LookUpNotes, ReplaceRegistry, userVars
    <3>2. Moves(v) /\ Keeps(v, p)
      BY <1>1, <1>5, <2>1, RefreshPlaces, RefreshKeeps
    <3> QED BY <1>4, <2>1, <3>1, <3>2
  <2> QED BY <2>2, <2>3
<1>6. ASSUME NEW v \in Proc, LookOf(v)
      PROVE  notes'[p].text = disk'[p].text
  <2>1. v \in alive
    BY <1>6 DEF LookOf
  <2> QED BY <1>1, <1>4, <1>6, <2>1, LookKeeps
<1>7. ASSUME NEW v \in Proc, EndOf(v)
      PROVE  FALSE
  <2>1. /\ v \in alive /\ alive' = alive \ {v}
        /\ UNCHANGED <<spawned, ended>>
    BY <1>7, EndsEffect DEF EndOf
  <2>2. PICK w \in alive' : TRUE
    OBVIOUS
  <2>3. v \in spawned' \ alive'
    BY <1>1, <2>1
  <2>4. v \in ended[w]
    BY <2>1, <2>2, <2>3 DEF Undisturbed
  <2> QED BY <1>1, <2>1, <2>2, <2>4 DEF EndedInv
<1>8. ASSUME NEW v \in Proc, LaunchOf(v)
      PROVE  FALSE
  <2>1. v \in alive' /\ proc'[v].pc = "stat" /\ ~proc'[v].ok
    BY <1>8, LaunchEffect DEF LaunchOf
  <2> QED BY <2>1 DEF Done, Looking
<1> QED BY <1>2, <1>3, <1>5, <1>6, <1>7, <1>8, StepKinds

\* At first no watcher runs, and nothing is done.
LEMMA FreshInvInit ==
    ASSUME WatchInit
    PROVE  FreshInv
<1> USE DEF WatchInit, Init
<1>1. DatesInv
  BY DEF DatesInv, Dated, NoSnapshot, NoFile, Untaken
<1>2. EndedInv
  BY IdleIsRun DEF EndedInv
<1>3. ListedInv
  BY DEF ListedInv
<1>4. \A p \in Path : Fresh(p)
  BY DEF Fresh
<1> QED BY <1>1, <1>2, <1>3, <1>4 DEF FreshInv

\* FreshInv holds in every reachable state.
LEMMA FreshInvariance ==
    ASSUME ~ShortLived, Formatting = {} \/ (OneCommand /\ Alone)
    PROVE  WatchSpec => []FreshInv
<1>1. WatchInit => FreshInv
  BY FreshInvInit
<1>2. WatchInv /\ FreshInv /\ NoFormatterBeside /\ [WatchNext]_vars => FreshInv'
  <2> SUFFICES ASSUME WatchInv, FreshInv, NoFormatterBeside, [WatchNext]_vars
               PROVE  FreshInv'
    OBVIOUS
  <2>1. DatesInv' /\ EndedInv'
    BY DatesNext, EndedNext DEF FreshInv
  <2>2. ListedInv'
    BY ListedNext
  <2>3. \A p \in Path : Fresh(p)'
    BY FreshNext
  <2> QED BY <2>1, <2>2, <2>3 DEF FreshInv
<1> QED
  BY <1>1, <1>2, WatchInvariance, FormatterBesideNobody, PTL DEF WatchSpec

(***************************************************************************)
(* A watcher keeps the projection fresh: once every watcher that runs has  *)
(* refreshed the database from a snapshot that is still what is on disk,   *)
(* the rows of notes are the files, whatever the user changed while the    *)
(* notes were read, and whatever was ended half-way before.  Files that    *)
(* come and go between two polls are excluded, which a poll cannot see;    *)
(* with several watchers, so is formatting.                                *)
(***************************************************************************)
THEOREM ProjectionIsFresh ==
    ASSUME ~ShortLived, Formatting = {} \/ (OneCommand /\ Alone)
    PROVE  WatchSpec => []ProjectionFresh
<1>1. FreshInv => ProjectionFresh
  <2> SUFFICES ASSUME FreshInv, AllCaughtUp, NEW p \in Path
               PROVE  notes[p].text = disk[p].text
    BY DEF ProjectionFresh
  <2>1. ASSUME NEW w \in alive
        PROVE  Done(w, p) /\ Undisturbed(w)
    BY DEF AllCaughtUp, UpToDate, At, Done, Looking, Undisturbed
  <2> QED BY <2>1 DEF FreshInv, Fresh, AllCaughtUp
<1> QED BY <1>1, FreshInvariance, PTL

-----------------------------------------------------------------------------
(***************************************************************************)
(* The registry.  With one watcher, no row of notes comes or goes between  *)
(* the lookup of the ids of notes and the replacement of the registry, nor *)
(* does a registered note go after it.                                     *)
(***************************************************************************)
Scanned(w, p) ==
    Seen(w, p) =>
        /\ proc[w].pc \in {"scan", "replace"} =>
              proc[w].ids[p] = IF p \in Files /\ p \notin proc[w].files
                               THEN IdOnDisk(p) ELSE NoId
        /\ proc[w].pc = "scan" /\ p \in proc[w].files => p \in Files
        /\ proc[w].pc = "replace" =>
              /\ p \notin proc[w].files
              /\ p \in Files => proc[w].known[p] = notes[p].id
              /\ p \notin Files => proc[w].known[p] = 0

ScanInv == \A w \in alive : \A p \in Path : Scanned(w, p)

DoneAll(w) ==
    /\ proc[w].ok
    /\ \/ Looking(w) /\ \A p \in Path : previous[w][p] = Stat(p)
       \/ proc[w].pc = "done" /\ \A p \in Path : Seen(w, p)

RegistryInv ==
    /\ ScanInv
    /\ \A w \in alive : DoneAll(w) /\ Undisturbed(w) => RegistryRight

(***************************************************************************)
(* The ids that were scanned decide the registry.                          *)
(***************************************************************************)
LEMMA ScannedRegistry ==
    ASSUME WatchInv, NEW ids,
           \A p \in Path : ids[p] = IF p \in Files THEN IdOnDisk(p) ELSE NoId
    PROVE  /\ Duplicates(ids) = {p \in Files : SharesId(p)}
           /\ Registered(ids) = {p \in Files : ~SharesId(p)}
<1>1. ASSUME NEW p \in Files
      PROVE  p \in Path /\ ids[p] = IdOnDisk(p) /\ ids[p] # NoId
  <2>1. p \in Path /\ disk[p].text \in Text
    BY DEF Files, WatchInv, WatchTypeOK, TypeOK
  <2>2. IdOnDisk(p) \in Id
    BY <2>1 DEF IdOnDisk, Id
  <2> QED BY <2>1, <2>2, IdAssumption
<1>2. ASSUME NEW p \in Path, p \notin Files
      PROVE  ids[p] = NoId
  BY <1>2
<1>3. Files \subseteq Path
  BY DEF Files
<1> HIDE DEF Files
<1>4. ASSUME NEW p \in Path
      PROVE  p \in Duplicates(ids) <=> p \in Files /\ SharesId(p)
  <2>1. CASE p \in Files
    <3>1. p \in Duplicates(ids) <=> \E q \in Path \ {p} : ids[q] = ids[p]
      BY <1>1, <2>1 DEF Duplicates
    <3>2. SharesId(p) <=> \E q \in Files \ {p} : IdOnDisk(q) = IdOnDisk(p)
      BY DEF SharesId
    <3>3. ASSUME NEW q \in Path \ {p}
          PROVE  ids[q] = ids[p] <=> q \in Files /\ IdOnDisk(q) = IdOnDisk(p)
      BY <1>1, <1>2, <2>1
    <3> QED BY <1>3, <2>1, <3>1, <3>2, <3>3
  <2>2. CASE p \notin Files
    BY <1>2, <2>2 DEF Duplicates
  <2> QED BY <2>1, <2>2
<1>5. Duplicates(ids) \subseteq Path
  BY DEF Duplicates
<1>6. Duplicates(ids) = {p \in Files : SharesId(p)}
  BY <1>3, <1>4, <1>5
<1>7. Registered(ids) = {p \in Files : ~SharesId(p)}
  BY <1>1, <1>2, <1>3, <1>6 DEF Registered
<1> QED BY <1>6, <1>7

\* A refresh that has seen every path as it is leaves the right registry.
LEMMA ReplacedRegistry ==
    ASSUME WatchInv, FreshInv, ScanInv, NEW w \in alive, alive = {w},
           RefreshOf(w), ReplaceRegistry(w), proc'[w].ok, Undisturbed(w),
           \A p \in Path : Seen(w, p)
    PROVE  RegistryRight'
<1> DEFINE ids == proc[w].ids
           known == proc[w].known
<1>1. /\ w \in Proc /\ proc[w].pc = "replace"
      /\ disk' = disk
  BY DEF WatchInv, WatchTypeOK, ReplaceRegistry, At, userVars
<1>2. ASSUME NEW p \in Path
      PROVE  /\ ids[p] = IF p \in Files THEN IdOnDisk(p) ELSE NoId
             /\ p \in Files => known[p] = notes[p].id
  BY <1>1 DEF ScanInv, Scanned
<1>3. ASSUME NEW p \in Files
      PROVE  known[p] # 0
  <2>1. p \in Path /\ disk[p].text # NoText
    BY DEF Files
  <2>2. Done(w, p)
    BY <1>1, <2>1 DEF Done, Looking
  <2>3. notes[p].text = disk[p].text
    BY <2>1, <2>2 DEF FreshInv, Fresh
  <2>4. notes[p].id # 0
    BY <2>1, <2>3 DEF WatchInv, Rowed
  <2> QED BY <1>2, <2>1, <2>4
<1>4. /\ Duplicates(ids) = {p \in Files : SharesId(p)}
      /\ Registered(ids) = {p \in Files : ~SharesId(p)}
  <2> HIDE DEF ids
  <2> QED BY <1>2, ScannedRegistry
<1> DEFINE missing == {p \in Registered(ids) : known[p] = 0}
           entries == {[path |-> p, uid |-> ids[p]] : p \in Registered(ids) \ missing}
           conflicts == {[path |-> p, uid |-> ids[p], reason |-> "DUPLICATE_ID",
                          inDb |-> known[p] # 0] : p \in Duplicates(ids)}
                   \cup {[path |-> p, uid |-> ids[p], reason |-> "NOTE_NOT_IN_DB",
                          inDb |-> FALSE] : p \in missing}
<1>5. registry' = [entries |-> entries, conflicts |-> conflicts]
  <2>1. proc' # [proc EXCEPT ![w] = Ended(FALSE)]
    BY <1>1, ShotTypes, EndedIsRun
  <2> QED BY <2>1 DEF ReplaceRegistry
<1>6. missing = {}
  BY <1>3, <1>4
<1>7. {<<r.path, r.uid>> : r \in entries} =
        {<<p, IdOnDisk(p)>> : p \in {f \in Files : ~SharesId(f)}}
  <2>1. \A p \in Registered(ids) : ids[p] = IdOnDisk(p)
    BY <1>2, <1>4 DEF Files
  <2> HIDE DEF ids, known, missing
  <2>2. ASSUME NEW p \in Registered(ids)
        PROVE  \E r \in entries : r.path = p /\ r.uid = ids[p]
    <3>1. [path |-> p, uid |-> ids[p]] \in entries
      BY <1>6
    <3> HIDE DEF entries
    <3> QED BY <3>1
  <2>3. ASSUME NEW r \in entries
        PROVE  \E p \in Registered(ids) : r.path = p /\ r.uid = ids[p]
    <3>1. PICK p \in Registered(ids) : r = [path |-> p, uid |-> ids[p]]
      OBVIOUS
    <3> QED BY <3>1
  <2> HIDE DEF entries
  <2>4. {<<r.path, r.uid>> : r \in entries} = {<<p, ids[p]>> : p \in Registered(ids)}
    BY <2>2, <2>3
  <2>5. {<<p, ids[p]>> : p \in Registered(ids)} =
           {<<p, IdOnDisk(p)>> : p \in Registered(ids)}
    BY <2>1
  <2> QED BY <1>4, <2>4, <2>5
<1>8. {<<r.path, r.reason>> : r \in conflicts} =
        {<<p, "DUPLICATE_ID">> : p \in {f \in Files : SharesId(f)}}
  <2> HIDE DEF ids, known, missing
  <2>1. ASSUME NEW p \in Duplicates(ids)
        PROVE  \E r \in conflicts : r.path = p /\ r.reason = "DUPLICATE_ID"
    <3>1. [path |-> p, uid |-> ids[p], reason |-> "DUPLICATE_ID",
           inDb |-> known[p] # 0] \in conflicts
      OBVIOUS
    <3> HIDE DEF conflicts
    <3> QED BY <3>1
  <2>2. ASSUME NEW r \in conflicts
        PROVE  \E p \in Duplicates(ids) : r.path = p /\ r.reason = "DUPLICATE_ID"
    <3>1. PICK p \in Duplicates(ids) :
             r = [path |-> p, uid |-> ids[p], reason |-> "DUPLICATE_ID",
                  inDb |-> known[p] # 0]
      BY <1>6
    <3> QED BY <3>1
  <2> HIDE DEF conflicts
  <2>3. {<<r.path, r.reason>> : r \in conflicts} =
          {<<p, "DUPLICATE_ID">> : p \in Duplicates(ids)}
    BY <2>1, <2>2
  <2> QED BY <1>4, <2>3
<1> HIDE DEF entries, conflicts
<1>9. registry'.entries = entries /\ registry'.conflicts = conflicts
  BY <1>5
<1> QED BY <1>1, <1>7, <1>8, <1>9 DEF RegistryRight, SharesId, IdOnDisk, Files

(***************************************************************************)
(* A step of the refresh: what it has scanned stays right, and when it     *)
(* ends well the registry is.                                              *)
(***************************************************************************)
KeepsRegistry(w) ==
    /\ \A p \in Path : Scanned(w, p)'
    /\ DoneAll(w)' /\ Undisturbed(w)' => RegistryRight'

\* Steps before the scan, and a refresh that fails, promise nothing of the
\* registry.
LEMMA RegistryElsewhere ==
    ASSUME NEW w \in Proc,
           \/ proc'[w].pc \in {"check", "format", "write", "ingest", "upsert",
                              "prune", "queue"}
           \/ proc'[w].pc = "done" /\ ~proc'[w].ok
    PROVE  KeepsRegistry(w)
  BY DEF KeepsRegistry, Scanned, DoneAll, Looking

\* Every step of a refresh keeps what is promised of the registry.
LEMMA RefreshKeepsRegistry ==
    ASSUME WatchInv, FreshInv, RegistryInv, NEW w \in alive, alive = {w},
           RefreshOf(w)
    PROVE  KeepsRegistry(w)
<1>1. /\ w \in Proc /\ RefreshStep(w) /\ snap' = snap
      /\ UNCHANGED <<alive, spawned, ended>>
      /\ \A p \in Path : Scanned(w, p)
  BY DEF WatchInv, WatchTypeOK, RefreshOf, Refresh, watchVars, controlVars,
         RegistryInv, ScanInv
<1>2. ASSUME disk' = disk, NEW p \in Path
      PROVE  /\ Seen(w, p)' <=> Seen(w, p)
             /\ Files' = Files /\ IdOnDisk(p)' = IdOnDisk(p)
  BY <1>1, <1>2 DEF Seen, Stat, Files, IdOnDisk
<1>3. CASE ReadFails(w) \/ EndCheck(w) \/ FormatNote(w) \/ WriteNote(w)
  BY <1>1, <1>3, ReadFailsEffect, EndCheckEffect, FormatNoteEffect,
     WriteNoteEffect, EndedIsRun, RegistryElsewhere
<1>4. CASE EndFormat(w) \/ ReadNote(w) \/ UpsertNote(w)
  BY <1>1, <1>4, EndFormatEffect, ReadNoteEffect, UpsertNoteEffect,
     RegistryElsewhere
<1>5. CASE ListPruned(w) \/ DeleteNote(w) \/ QueueDelete(w)
  BY <1>1, <1>5, ListPrunedEffect, DeleteNoteEffect, QueueDeleteEffect,
     RegistryElsewhere
<1>6. CASE ScanNote(w)
  <2>1. /\ disk' = disk
        /\ NextFile(w) \in proc[w].files /\ NextFile(w) \in Path
        /\ NextFile(w) \in Files
        /\ proc[w].pc \in {"check", "scan"} /\ proc'[w].pc = proc[w].pc
        /\ proc'[w].files = proc[w].files \ {NextFile(w)}
        /\ proc'[w].ids = [proc[w].ids EXCEPT ![NextFile(w)] =
                             IdOf[NextFile(w)][disk[NextFile(w)].text]]
    BY <1>1, <1>6, ScanNoteEffect DEF ScanNote, userVars
  <2>2. proc[w].ids \in [Path -> Id \cup {NoId}]
    BY <1>1, ShotTypes DEF Run
  <2>3. CASE proc[w].pc = "check"
    BY <1>1, <2>1, <2>3, RegistryElsewhere
  <2>4. CASE proc[w].pc = "scan"
    <3>1. ASSUME NEW p \in Path
          PROVE  Scanned(w, p)'
      <4>1. CASE p = NextFile(w)
        <5>1. proc'[w].ids[p] = IdOnDisk(p)
          BY <2>1, <2>2, <4>1 DEF IdOnDisk
        <5> QED BY <1>2, <2>1, <2>4, <4>1, <5>1 DEF Scanned
      <4>2. CASE p # NextFile(w)
        <5>1. /\ proc'[w].ids[p] = proc[w].ids[p]
              /\ p \in proc'[w].files <=> p \in proc[w].files
          BY <2>1, <2>2, <4>2
        <5> QED BY <1>1, <1>2, <2>1, <2>4, <5>1 DEF Scanned
      <4> QED BY <4>1, <4>2
    <3> QED BY <2>1, <2>4, <3>1 DEF KeepsRegistry, DoneAll, Looking
  <2> QED BY <2>1, <2>3, <2>4
<1>7. CASE EndIngest(w)
  <2>1. /\ disk' = disk /\ proc'[w].pc = "scan" /\ proc'[w].files = Files
        /\ proc'[w].ids = [p \in Path |-> NoId]
    BY <1>1, <1>7, EndIngestEffect DEF EndIngest, userVars
  <2>2. ASSUME NEW p \in Path
        PROVE  Scanned(w, p)'
    BY <1>2, <2>1 DEF Scanned
  <2> QED BY <2>1, <2>2 DEF KeepsRegistry, DoneAll, Looking
<1>8. CASE LookUpNotes(w)
  <2>1. /\ disk' = disk /\ notes' = notes
        /\ proc[w].pc = "scan" /\ proc'[w].pc = "replace"
        /\ proc[w].files = {} /\ proc'[w].files = {}
        /\ proc'[w].ids = proc[w].ids
        /\ \A p \in Path : proc'[w].known[p] =
              IF proc[w].ids[p] = NoId THEN 0 ELSE notes[p].id
    BY <1>1, <1>8, LookUpNotesEffect DEF LookUpNotes, userVars, dbVars
  <2>2. ASSUME NEW p \in Path
        PROVE  Scanned(w, p)'
    <3>1. p \in Files => IdOnDisk(p) # NoId
      <4>1. p \in Files => disk[p].text \in Text
        BY DEF Files, WatchInv, WatchTypeOK, TypeOK
      <4> QED BY <4>1, IdAssumption DEF IdOnDisk, Id
    <3>2. Seen(w, p) =>
             proc[w].ids[p] = IF p \in Files THEN IdOnDisk(p) ELSE NoId
      BY <1>1, <2>1 DEF Scanned
    <3> QED BY <1>2, <2>1, <3>1, <3>2 DEF Scanned
  <2> QED BY <2>1, <2>2 DEF KeepsRegistry, DoneAll, Looking
<1>9. CASE ReplaceRegistry(w)
  <2>1. proc'[w].pc = "done" /\ disk' = disk
    BY <1>1, <1>9, ReplaceRegistryEffect, EndedIsRun DEF ReplaceRegistry, userVars
  <2>2. ASSUME NEW p \in Path
        PROVE  Scanned(w, p)'
    BY <2>1 DEF Scanned
  <2>3. ASSUME DoneAll(w)', Undisturbed(w)'
        PROVE  RegistryRight'
    <3>1. proc'[w].ok /\ \A p \in Path : Seen(w, p)'
      BY <2>1, <2>3 DEF DoneAll, Looking
    <3>2. \A p \in Path : Seen(w, p)
      BY <1>2, <2>1, <3>1
    <3>3. Undisturbed(w)
      BY <1>1, <2>3 DEF Undisturbed
    <3> QED BY <1>9, <3>1, <3>2, <3>3, ReplacedRegistry DEF RegistryInv
  <2> QED BY <2>2, <2>3 DEF KeepsRegistry
<1> QED BY <1>1, <1>3, <1>4, <1>5, <1>6, <1>7, <1>8, <1>9 DEF RefreshStep

\* Between two refreshes a watcher keeps it.
LEMMA LookKeepsRegistry ==
    ASSUME WatchInv, EndedInv, RegistryInv, NEW w \in Proc, LookOf(w)
    PROVE  KeepsRegistry(w)
<1>1. UNCHANGED <<disk, notes, registry, alive, spawned, ended>> /\ w \in alive
  BY DEF LookOf, Wake, StatNote, StatFails, EndSnapshot, EndRefresh, userVars,
         dbVars, rowVars, controlVars
<1>2. \A p \in Path : Stat(p)' = Stat(p)
  BY <1>1 DEF Stat
<1>3. RegistryRight => RegistryRight'
  BY <1>1 DEF RegistryRight, SharesId, IdOnDisk, Files
<1>4. ASSUME proc'[w].pc \in {"stat", "sleep"}, DoneAll(w)' => DoneAll(w)
      PROVE  KeepsRegistry(w)
  <2>1. \A p \in Path : Scanned(w, p)'
    BY <1>4 DEF Scanned
  <2>2. Undisturbed(w)' => Undisturbed(w)
    BY <1>1 DEF Undisturbed
  <2> QED BY <1>1, <1>3, <1>4, <2>1, <2>2 DEF KeepsRegistry, RegistryInv
<1>5. ASSUME Looking(w), proc'[w].pc \in {"stat", "sleep"},
             proc'[w].ok = proc[w].ok, previous'[w] = previous[w]
      PROVE  KeepsRegistry(w)
  BY <1>2, <1>4, <1>5 DEF DoneAll, Looking
<1>6. CASE Wake(w)
  BY <1>5, <1>6, WakeEffect DEF Looking
<1>7. CASE StatNote(w)
  BY <1>5, <1>7, StatNoteEffect DEF Looking
<1>8. CASE StatFails(w) /\ previous[w] # Untaken
  BY <1>5, <1>8, StatFailsEffect DEF Looking
<1>9. CASE EndSnapshot(w)
  <2>1. CASE proc'[w].pc = "sleep"
    <3>1. /\ previous[w] \in {Untaken, snap[w]} /\ previous'[w] = snap[w]
          /\ proc[w].pc = "stat" /\ proc'[w].ok = proc[w].ok
      BY <1>9, <2>1, EndSnapshotEffect
    <3>2. CASE previous[w] = Untaken
      BY <1>4, <2>1, <3>1, <3>2 DEF EndedInv, DoneAll
    <3>3. CASE previous[w] = snap[w]
      BY <1>5, <2>1, <3>1, <3>3 DEF Looking
    <3> QED BY <3>1, <3>2, <3>3
  <2>2. CASE proc'[w].pc # "sleep"
    BY <1>9, <2>2, EndSnapshotEffect, RegistryElsewhere
  <2> QED BY <2>1, <2>2
<1>10. CASE EndRefresh(w)
  <2>1. /\ proc[w].pc = "done" /\ proc'[w].pc = "sleep"
        /\ proc'[w].ok = proc[w].ok /\ previous'[w] = snap[w]
    BY <1>10, EndRefreshEffect
  <2>2. DoneAll(w)' => DoneAll(w)
    BY <1>2, <2>1 DEF DoneAll, Looking, Seen
  <2> QED BY <1>4, <2>1, <2>2
<1> QED BY <1>6, <1>7, <1>8, <1>9, <1>10 DEF LookOf

\* RegistryInv is inductive with one watcher.
LEMMA RegistryInvNext ==
    ASSUME ~ShortLived, OneCommand, Alone, WatchInv, CommandInv, SingleInv,
           FreshInv, RegistryInv, [WatchNext]_vars
    PROVE  RegistryInv'
<1> SUFFICES ASSUME NEW w \in alive'
             PROVE  KeepsRegistry(w)
  BY DEF RegistryInv, ScanInv, KeepsRegistry
<1>1. alive \subseteq Proc /\ alive' \subseteq Proc /\ EndedInv /\ DatesInv
  <2>1. WatchInv'
    BY WatchInvNext
  <2> QED BY <2>1 DEF WatchInv, WatchTypeOK, FreshInv
<1>2. \A v \in alive' : v = w
  BY SingleInvNext DEF SingleInv
<1>3. ASSUME UNCHANGED <<proc, snap, previous, alive, spawned, ended, notes, registry>>,
             disk' = disk
      PROVE  KeepsRegistry(w)
  <2>1. \A p \in Path : Scanned(w, p)'
    BY <1>1, <1>3 DEF Scanned, Seen, Stat, Files, IdOnDisk, NoFile, RegistryInv, ScanInv
  <2>2. DoneAll(w)' /\ Undisturbed(w)' => DoneAll(w) /\ Undisturbed(w)
    BY <1>3 DEF DoneAll, Undisturbed, Looking, Seen, Stat, NoFile
  <2>3. RegistryRight => RegistryRight'
    BY <1>3 DEF RegistryRight, SharesId, IdOnDisk, Files
  <2> QED BY <1>3, <2>1, <2>2, <2>3 DEF KeepsRegistry, RegistryInv
<1>4. CASE User
  <2>1. UNCHANGED <<proc, snap, previous, alive, spawned, ended, notes, registry>>
    BY <1>4 DEF User, UserStep, Save, Remove, Tick, dbVars, watchVars, controlVars
  <2>2. ASSUME NEW p \in Path, disk'[p] # disk[p]
        PROVE  /\ Looking(w) /\ proc[w].ok => previous[w][p] # Stat(p)'
               /\ ~Looking(w) => snap[w][p] # Stat(p)'
    BY <1>1, <1>4, <2>1, <2>2, ChangeIsVisible
  <2>3. ASSUME NEW p \in Path
        PROVE  Scanned(w, p)'
    <3>1. CASE disk'[p] = disk[p]
      BY <1>1, <2>1, <3>1
         DEF Scanned, Seen, Stat, Files, IdOnDisk, NoFile, RegistryInv, ScanInv
    <3>2. CASE disk'[p] # disk[p]
      BY <2>1, <2>2, <3>2 DEF Scanned, Seen, Looking
    <3> QED BY <3>1, <3>2
  <2>4. CASE \E p \in Path : disk'[p] # disk[p]
    <3>1. PICK p \in Path : disk'[p] # disk[p]
      BY <2>4
    <3>2. ~(DoneAll(w)')
      BY <2>1, <2>2, <3>1 DEF DoneAll, Looking, Seen
    <3> QED BY <2>3, <3>2 DEF KeepsRegistry
  <2>5. CASE \A p \in Path : disk'[p] = disk[p]
    <3>1. disk' = disk
      <4>1. WatchInv'
        BY WatchInvNext
      <4>2. /\ disk \in [Path -> [text : Text \cup {NoText}, mtime : 0..MaxClock]]
            /\ disk' \in [Path -> [text : Text \cup {NoText}, mtime : 0..MaxClock]]
        BY <4>1 DEF WatchInv, WatchTypeOK, TypeOK
      <4> QED BY <2>5, <4>2
    <3> QED BY <1>3, <2>1, <3>1
  <2> QED BY <2>4, <2>5
<1>5. CASE Still
  BY <1>3, <1>5 DEF Still, userVars, dbVars, watchVars
<1>6. ASSUME NEW v \in Proc, RefreshOf(v)
      PROVE  KeepsRegistry(w)
  <2>1. v \in alive /\ alive' = alive
    BY <1>6 DEF RefreshOf, Refresh, controlVars
  <2>2. v = w /\ alive = {w}
    BY <1>2, <2>1
  <2> QED BY <1>6, <2>1, <2>2, RefreshKeepsRegistry
<1>7. ASSUME NEW v \in Proc, LookOf(v)
      PROVE  KeepsRegistry(w)
  <2>1. v \in alive /\ alive' = alive
    BY <1>7 DEF LookOf, Wake, StatNote, StatFails, EndSnapshot, EndRefresh,
                controlVars
  <2>2. v = w
    BY <1>2, <2>1
  <2> QED BY <1>1, <1>7, <2>2, LookKeepsRegistry
<1>8. ASSUME NEW v \in Proc, EndOf(v)
      PROVE  FALSE
  <2>1. v \in alive /\ alive' = alive \ {v}
    BY <1>8, EndsEffect DEF EndOf
  <2> QED BY <2>1 DEF SingleInv
<1>9. ASSUME NEW v \in Proc, LaunchOf(v)
      PROVE  KeepsRegistry(w)
  <2>1. v \in alive' /\ proc'[v].pc = "stat" /\ ~proc'[v].ok
    BY <1>9, LaunchEffect DEF LaunchOf
  <2>2. v = w
    BY <1>2, <2>1
  <2> QED BY <2>1, <2>2 DEF KeepsRegistry, Scanned, DoneAll
<1> QED BY <1>4, <1>5, <1>6, <1>7, <1>8, <1>9, StepKinds

(***************************************************************************)
(* The registry is right then, too: with one watcher it names the id of    *)
(* every file that has one for itself, and reports every other file as a   *)
(* duplicate and nothing else.  A second watcher could prune a note before *)
(* the lookup and add it again before the replacement, which then reports  *)
(* a note that is there as missing.                                        *)
(***************************************************************************)
THEOREM RegistryIsFresh ==
    ASSUME ~ShortLived, OneCommand, Alone
    PROVE  WatchSpec => []RegistryFresh
<1>1. WatchInit => RegistryInv
  BY DEF WatchInit, RegistryInv, ScanInv
<1>2. WatchInv /\ CommandInv /\ SingleInv /\ FreshInv /\ RegistryInv
        /\ [WatchNext]_vars => RegistryInv'
  BY RegistryInvNext
<1>3. WatchInv /\ SingleInv /\ RegistryInv => RegistryFresh
  <2> SUFFICES ASSUME WatchInv, SingleInv, RegistryInv, AllCaughtUp
               PROVE  RegistryRight
    BY DEF RegistryFresh
  <2>1. PICK w \in alive : TRUE
    BY DEF AllCaughtUp
  <2>2. DoneAll(w) /\ Undisturbed(w)
    BY DEF AllCaughtUp, UpToDate, At, DoneAll, Looking, Undisturbed
  <2> QED BY <2>2 DEF RegistryInv
<1> QED
  BY <1>1, <1>2, <1>3, WatchInvariance, CommandInvariance, SingleInvariance,
     FreshInvariance, PTL DEF WatchSpec
=============================================================================
