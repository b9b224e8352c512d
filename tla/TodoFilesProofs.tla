--------------------------- MODULE TodoFilesProofs ---------------------------
(***************************************************************************)
(* Proofs that no task is lost, that ids name what they were listed for    *)
(* and that an update is local (TodoFiles.tla), for all notes, contents    *)
(* and edits.  The lemmas on notes say what every edit of a command has in *)
(* common (Embeds), what an update also keeps (BlockEdited), and what that *)
(* leaves as it was; those on steps, that each action keeps IInv.          *)
(***************************************************************************)
EXTENDS TodoFiles, FiniteSetTheorems, SequenceTheorems, TLAPS

(***************************************************************************)
(* The invariant.  What a command holds is stated of any command c, state  *)
(* fs of the notes, log lg and history, so that the lemmas are about steps.*)
(***************************************************************************)
IsCommand(c) ==
    DOMAIN c = {"plan", "left", "buf", "sel", "todos", "ids", "params", "targets",
                "edits", "bucket"}

In(c, stages) == c.plan # <<>> /\ Head(c.plan) \in stages

\* Each note is read once in a stage, and targets are looked up before any is read.
CommandShape(c) ==
    /\ IsCommand(c)
    /\ c.left \in Seq(Note)
    /\ \A v, w \in DOMAIN c.left : c.left[v] = c.left[w] => v = w
    /\ c.targets # {} => In(c, {"toggle", "update"}) /\ c.left # <<>>
    /\ c.buf # None => c.plan # <<>>
    /\ c.buf # None /\ In(c, {"toggle", "update"}) => c.targets # {}

BufferIsNote(c, fs, undisturbed) ==
    c.buf # None =>
        /\ c.left # <<>>
        /\ IsLines(c.buf)
        /\ undisturbed => c.buf = fs[Head(c.left)]

\* An edit that waits removes only tasks that are in the log or about to be.
EditsKeepOthers(c, fs, lg, undisturbed) ==
    /\ c.edits \in Seq(Range(c.edits))
    /\ c.edits # <<>> \/ c.bucket # {} => In(c, {"archive", "archiveMarked"})
    /\ \A e \in DOMAIN c.edits :
          LET n == c.edits[e][1]
              lines == c.edits[e][2]
          IN /\ n \in Note \ Range(c.left)
             /\ IsLines(lines)
             /\ \A f \in DOMAIN c.edits : c.edits[f][1] = n => e = f
             /\ undisturbed => Tops(n, fs[n]) \subseteq Tops(n, lines) \cup lg \cup c.bucket

Notes(fs) == DOMAIN fs = Note /\ \A n \in Note : IsLines(fs[n])

KeptInNotes == \A k \in kept : k[1] \in Note

\* The task that stands at place o says text.
Says(lines, o, text) ==
    \A i \in TaskLines(lines) : Place(TaskLines(lines), i) = o => lines[i].text = text

SeenStays(listed, fs, c) ==
    \A s \in listed :
        /\ s.note \in Note
        /\ Says(fs[s.note], s.order, s.text)
        /\ c.buf # None /\ s.note = Head(c.left) => Says(c.buf, s.order, s.text)

CommandOK(c, fs, lg, undisturbed) ==
    /\ CommandShape(c)
    /\ BufferIsNote(c, fs, undisturbed)
    /\ EditsKeepOthers(c, fs, lg, undisturbed)

FilesOK == Notes(files)

IInv ==
    /\ FilesOK
    /\ CommandOK(cmd, files, log, ~disturbed)
    /\ KeptInNotes
    /\ NoTaskLost
    /\ SeenStays(seen, files, cmd)

-----------------------------------------------------------------------------
(***************************************************************************)
(* Sets of line numbers.                                                   *)
(***************************************************************************)

\* A set of numbers that is not empty has a smallest element.
LEMMA SmallestNumber ==
    ASSUME NEW S \in SUBSET Nat, S # {}
    PROVE  \E m \in S : \A i \in S : m <= i
<1>1. PICK m \in S : \A i \in S : <<i, m>> \notin OpToRel(<, Nat)
  BY NatLessThanWellFounded, WFMin, Zenon
<1>2. \A i \in S : ~(i < m)
  BY <1>1, Zenon DEF OpToRel
<1> QED BY <1>2

\* Going down to the next number from the last one reaches the first.
LEMMA DownToOne ==
    ASSUME NEW last \in Nat, 1 <= last, NEW G, last \in G,
           \A k \in 1..(last - 1) : k + 1 \in G => k \in G
    PROVE  1 \in G
<1> DEFINE Good == {k \in 1..last : k \in G}
<1>1. Good \in SUBSET Nat /\ last \in Good
  OBVIOUS
<1>2. PICK m \in Good : \A k \in Good : m <= k
  <2> HIDE DEF Good
  <2> QED BY <1>1, SmallestNumber
<1>3. m \in 1..last /\ m \in G
  BY <1>2
<1>4. m = 1
  <2> SUFFICES ASSUME m # 1
               PROVE  FALSE
    OBVIOUS
  <2>1. m - 1 \in 1..(last - 1) /\ m - 1 + 1 = m /\ m - 1 \in 1..last /\ ~(m <= m - 1)
    BY <1>3
  <2>2. m - 1 \in G
    BY <1>3, <2>1
  <2> QED BY <1>2, <2>1, <2>2
<1> QED BY <1>3, <1>4

\* A bounded set of numbers that is not empty has a largest element.
LEMMA LargestNumber ==
    ASSUME NEW S \in SUBSET Nat, S # {}, NEW n \in Nat, \A i \in S : i <= n
    PROVE  \E m \in S : \A i \in S : i <= m
<1> DEFINE T == {n - i : i \in S}
<1>1. T \in SUBSET Nat /\ T # {}
  <2>1. \A i \in S : i \in Nat /\ n - i \in Nat
    OBVIOUS
  <2> QED BY <2>1
<1>2. PICK d \in T : \A e \in T : d <= e
  <2> HIDE DEF T
  <2> QED BY <1>1, SmallestNumber
<1>3. PICK m \in S : d = n - m
  OBVIOUS
<1>4. \A i \in S : n - i \in T /\ i \in Nat
  OBVIOUS
<1>5. \A i \in S : n - m <= n - i
  BY <1>2, <1>3, <1>4
<1> QED BY <1>4, <1>5

LEMMA PlaceType ==
    ASSUME NEW S \in SUBSET Nat, IsFiniteSet(S), NEW i \in Nat
    PROVE  /\ IsFiniteSet({j \in S : j <= i})
           /\ Place(S, i) \in Nat
           /\ Place(S, i) <= Cardinality(S)
<1>1. {j \in S : j <= i} \in SUBSET S
  OBVIOUS
<1> QED BY <1>1, FS_Subset, FS_CardinalityType DEF Place

\* Places grow from one element to the next.
LEMMA PlaceGrows ==
    ASSUME NEW S \in SUBSET Nat, IsFiniteSet(S), NEW i \in Nat, NEW k \in S, i < k
    PROVE  Place(S, i) < Place(S, k)
<1> DEFINE Upto(x) == {j \in S : j <= x}
<1>1. Upto(i) \in SUBSET Upto(k)
  <2>1. \A j \in S : j <= i => j <= k
    OBVIOUS
  <2> QED BY <2>1
<1>2. k \in Upto(k) /\ k \notin Upto(i)
  OBVIOUS
<1>3. Upto(i) # Upto(k)
  BY <1>2
<1>4. IsFiniteSet(Upto(k))
  BY PlaceType
<1> HIDE DEF Upto
<1>5. /\ Cardinality(Upto(i)) <= Cardinality(Upto(k))
      /\ Cardinality(Upto(k)) # Cardinality(Upto(i))
  BY <1>1, <1>3, <1>4, FS_Subset
<1>6. Place(S, i) = Cardinality(Upto(i)) /\ Place(S, k) = Cardinality(Upto(k))
  BY DEF Place, Upto
<1>7. Place(S, i) \in Nat /\ Place(S, k) \in Nat
  <2>1. k \in Nat
    OBVIOUS
  <2> QED BY <2>1, PlaceType
<1> QED BY <1>5, <1>6, <1>7

LEMMA PlaceOfElement ==
    ASSUME NEW S \in SUBSET Nat, IsFiniteSet(S), NEW i \in S
    PROVE  Place(S, i) \in 1..Cardinality(S)
<1> DEFINE T == {j \in S : j <= i}
<1>1. i \in T /\ i \in Nat
  OBVIOUS
<1>2. IsFiniteSet(T) /\ Cardinality(T) \in Nat /\ Cardinality(T) <= Cardinality(S)
  BY <1>1, PlaceType DEF Place
<1>3. Cardinality(T) # 0
  <2> HIDE DEF T
  <2> QED BY <1>1, <1>2, FS_EmptySet
<1>4. Cardinality(S) \in Nat
  BY FS_CardinalityType
<1> QED BY <1>2, <1>3, <1>4 DEF Place

LEMMA PlaceTellsApart ==
    ASSUME NEW S \in SUBSET Nat, IsFiniteSet(S), NEW i \in S, NEW k \in S
    PROVE  /\ Place(S, i) = Place(S, k) => i = k
           /\ Place(S, i) < Place(S, k) <=> i < k
<1>1. i \in Nat /\ k \in Nat /\ Place(S, i) \in Nat /\ Place(S, k) \in Nat
  BY PlaceType
<1>2. i < k => Place(S, i) < Place(S, k)
  BY PlaceGrows
<1>3. k < i => Place(S, k) < Place(S, i)
  BY PlaceGrows
<1> QED BY <1>1, <1>2, <1>3

\* Each number up to the size of a set is the place of one of its elements.
LEMMA PlaceTaken ==
    ASSUME NEW S \in SUBSET Nat, IsFiniteSet(S), NEW o \in 1..Cardinality(S)
    PROVE  \E i \in S : Place(S, i) = o
<1> DEFINE n == Cardinality(S)
           place == [i \in S |-> Place(S, i)]
<1>1. n \in Nat
  BY FS_CardinalityType
<1>2. ASSUME NEW i \in S
      PROVE  Place(S, i) \in 1..n
  BY PlaceOfElement
<1>3. place \in Injection(S, 1..n)
  BY <1>2, PlaceTellsApart DEF Injection, IsInjective
<1>4. IsFiniteSet(1..n) /\ Cardinality(1..n) = n
  BY <1>1, FS_Interval
<1>5. place \in Surjection(S, 1..n)
  BY <1>3, <1>4, FS_Injection
<1>6. PICK i \in S : place[i] = o
  BY <1>5 DEF Surjection
<1> QED BY <1>6

\* Ascending lists all elements of a set, each once and the smaller ones first.
LEMMA AscendingLists ==
    ASSUME NEW S \in SUBSET Nat, IsFiniteSet(S)
    PROVE  /\ Cardinality(S) \in Nat
           /\ Ascending(S) \in [1..Cardinality(S) -> S]
           /\ \A o, p \in 1..Cardinality(S) :
                 Ascending(S)[o] < Ascending(S)[p] <=> o < p
           /\ \A i \in S : \E o \in 1..Cardinality(S) : Ascending(S)[o] = i
<1> DEFINE A == Ascending(S)
           n == Cardinality(S)
<1>1. n \in Nat
  BY FS_CardinalityType
<1>2. ASSUME NEW o \in 1..n
      PROVE  A[o] \in S /\ Place(S, A[o]) = o
  <2>1. \E i \in S : Place(S, i) = o
    BY PlaceTaken
  <2>2. A[o] = CHOOSE i \in S : Place(S, i) = o
    BY DEF Ascending
  <2> HIDE DEF A
  <2> QED BY <2>1, <2>2
<1>3. A \in [1..n -> S]
  <2>1. A = [o \in 1..n |-> A[o]]
    BY DEF Ascending
  <2> HIDE DEF A, n
  <2> QED BY <2>1, <1>2
<1>4. ASSUME NEW o \in 1..n, NEW p \in 1..n
      PROVE  A[o] < A[p] <=> o < p
  <2>1. A[o] \in S /\ A[p] \in S /\ Place(S, A[o]) = o /\ Place(S, A[p]) = p
    BY <1>2
  <2> HIDE DEF A, n
  <2>2. Place(S, A[o]) < Place(S, A[p]) <=> A[o] < A[p]
    BY <2>1, PlaceTellsApart
  <2> QED BY <2>1, <2>2
<1>5. ASSUME NEW i \in S
      PROVE  \E o \in 1..n : A[o] = i
  <2>1. Place(S, i) \in 1..n
    BY PlaceOfElement
  <2>2. A[Place(S, i)] = i
    <3> HIDE DEF A, n
    <3> QED BY <2>1, <1>2, PlaceTellsApart
  <2> QED BY <2>1, <2>2
<1> QED BY <1>1, <1>3, <1>4, <1>5

\* Pick lists the elements of a sequence at some places, in their order.
LEMMA PickLists ==
    ASSUME NEW T, NEW seq \in Seq(T), NEW S \in SUBSET (DOMAIN seq)
    PROVE  LET b == Pick(seq, S)
               at == Ascending(S)
           IN /\ b \in Seq(T)
              /\ at \in [1..Len(b) -> S]
              /\ \A o \in 1..Len(b) : b[o] = seq[at[o]]
              /\ \A o, p \in 1..Len(b) : at[o] < at[p] <=> o < p
              /\ \A i \in S : \E o \in 1..Len(b) : at[o] = i
<1> DEFINE b == Pick(seq, S)
           at == Ascending(S)
           n == Cardinality(S)
<1>1. Len(seq) \in Nat /\ DOMAIN seq = 1..Len(seq) /\ \A i \in 1..Len(seq) : seq[i] \in T
  OBVIOUS
<1>2. S \in SUBSET Nat /\ IsFiniteSet(S)
  <2>1. S \in SUBSET (1..Len(seq)) /\ 1..Len(seq) \subseteq Nat
    BY <1>1
  <2>2. IsFiniteSet(1..Len(seq))
    BY <1>1, FS_Interval
  <2> QED BY <2>1, <2>2, FS_Subset
<1>3. /\ n \in Nat
      /\ at \in [1..n -> S]
      /\ \A o, p \in 1..n : at[o] < at[p] <=> o < p
      /\ \A i \in S : \E o \in 1..n : at[o] = i
  BY <1>2, AscendingLists
<1>4. b = [o \in 1..n |-> seq[at[o]]]
  BY <1>3 DEF Pick
<1> HIDE DEF at, n, b
<1>5. \A o \in 1..n : at[o] \in 1..Len(seq) /\ b[o] = seq[at[o]]
  BY <1>1, <1>3, <1>4
<1>6. b \in [1..n -> T]
  BY <1>1, <1>4, <1>5
<1>7. b \in Seq(T) /\ Len(b) = n
  BY <1>3, <1>6
<1> QED BY <1>3, <1>5, <1>7 DEF at, n, b

-----------------------------------------------------------------------------
(***************************************************************************)
(* The lines of a note.                                                    *)
(***************************************************************************)
LEMMA LinesShape ==
    ASSUME NEW lines, IsLines(lines)
    PROVE  /\ Len(lines) \in Nat
           /\ DOMAIN lines = 1..Len(lines)
           /\ lines = [i \in 1..Len(lines) |-> lines[i]]
           /\ lines \in Seq(Range(lines))
           /\ \A i \in 1..Len(lines) : IsLine(lines[i])
           /\ \A i \in 1..Len(lines) : lines[i].depth \in Nat
<1>1. lines \in Seq(Range(lines)) /\ \A line \in Range(lines) : IsLine(line)
  BY DEF IsLines
<1>2. Len(lines) \in Nat /\ DOMAIN lines = 1..Len(lines)
  BY <1>1
<1>3. lines = [i \in 1..Len(lines) |-> lines[i]]
  BY <1>1, LenProperties
<1>4. \A i \in 1..Len(lines) : lines[i] \in Range(lines)
  BY <1>2 DEF Range
<1>5. \A i \in 1..Len(lines) : IsLine(lines[i])
  BY <1>1, <1>4
<1> QED BY <1>1, <1>2, <1>3, <1>5 DEF IsLine

LEMMA LinesOfShape ==
    ASSUME NEW lines, NEW T, lines \in Seq(T), \A i \in 1..Len(lines) : IsLine(lines[i])
    PROVE  IsLines(lines)
<1>1. lines \in Seq(Range(lines))
  BY SeqOfRange
<1>2. Range(lines) = {lines[i] : i \in 1..Len(lines)}
  BY RangeEquality
<1> QED BY <1>1, <1>2 DEF IsLines

\* A block ends at the first line that closes it, or behind the last line.
LEMMA BlockEndCloses ==
    ASSUME NEW lines, IsLines(lines), NEW i \in DOMAIN lines
    PROVE  /\ BlockEnd(lines, i) \in (i + 1)..(Len(lines) + 1)
           /\ \A j \in (i + 1)..Len(lines) :
                 j < BlockEnd(lines, i) => ~Closes(lines, i, j)
           /\ BlockEnd(lines, i) <= Len(lines) => Closes(lines, i, BlockEnd(lines, i))
<1> DEFINE C == {j \in (i + 1)..Len(lines) : Closes(lines, i, j)}
<1>1. Len(lines) \in Nat /\ i \in 1..Len(lines)
  BY LinesShape
<1>2. C \in SUBSET Nat
  BY <1>1
<1>3. BlockEnd(lines, i) = Earliest(C, Len(lines) + 1)
  BY DEF BlockEnd
<1>4. CASE C = {}
  <2>1. BlockEnd(lines, i) = Len(lines) + 1
    BY <1>3, <1>4 DEF Earliest
  <2>2. \A j \in (i + 1)..Len(lines) : ~Closes(lines, i, j)
    BY <1>4
  <2> QED BY <2>1, <2>2, <1>1
<1>5. CASE C # {}
  <2> HIDE DEF C
  <2>1. \E m \in C : \A j \in C : m <= j
    BY <1>2, <1>5, SmallestNumber
  <2>2. BlockEnd(lines, i) \in C /\ \A j \in C : BlockEnd(lines, i) <= j
    BY <1>3, <1>5, <2>1 DEF Earliest, Min
  <2>3. BlockEnd(lines, i) \in (i + 1)..Len(lines) /\ Closes(lines, i, BlockEnd(lines, i))
    BY <2>2 DEF C
  <2>4. ASSUME NEW j \in (i + 1)..Len(lines), j < BlockEnd(lines, i)
        PROVE  ~Closes(lines, i, j)
    <3>1. j \in C => BlockEnd(lines, i) <= j
      BY <2>2
    <3>2. j \notin C
      BY <3>1, <2>3, <2>4, <1>1
    <3> QED BY <3>2 DEF C
  <2> QED BY <2>3, <2>4, <1>1
<1> QED BY <1>4, <1>5

LEMMA TaskLinesType ==
    ASSUME NEW lines, IsLines(lines)
    PROVE  /\ TaskLines(lines) \in SUBSET Nat
           /\ TaskLines(lines) \subseteq DOMAIN lines
           /\ IsFiniteSet(TaskLines(lines))
           /\ Cardinality(TaskLines(lines)) \in Nat
           /\ TaskBlocks(lines) \subseteq TaskLines(lines)
<1>1. DOMAIN lines = 1..Len(lines) /\ Len(lines) \in Nat
  BY LinesShape
<1>2. TaskLines(lines) \in SUBSET (1..Len(lines))
  BY <1>1 DEF TaskLines
<1>3. IsFiniteSet(1..Len(lines))
  BY <1>1, FS_Interval
<1>4. IsFiniteSet(TaskLines(lines))
  BY <1>2, <1>3, FS_Subset
<1>5. Cardinality(TaskLines(lines)) \in Nat
  BY <1>4, FS_CardinalityType
<1>6. TaskBlocks(lines) \subseteq TaskLines(lines)
  BY DEF TaskBlocks
<1> QED BY <1>1, <1>2, <1>4, <1>5, <1>6

-----------------------------------------------------------------------------
(***************************************************************************)
(* What all edits of the commands have in common: line p of the new note   *)
(* b, for p in E, is line from[p] of the old note a, perhaps with another  *)
(* box; the order stays, no heading goes, and only metadata is added.      *)
(***************************************************************************)
Embeds(a, b, E, from) ==
    /\ E \subseteq DOMAIN b
    /\ from \in [E -> DOMAIN a]
    /\ \A p, q \in E : p < q <=> from[p] < from[q]
    /\ \A p \in E : /\ b[p].kind = a[from[p]].kind
                    /\ b[p].depth = a[from[p]].depth
                    /\ b[p].text = a[from[p]].text
    /\ \A p \in DOMAIN b \ E : b[p].kind = "meta"
    /\ \A j \in DOMAIN a : IsHeading(a[j]) => \E p \in E : from[p] = j

\* A line that goes is blank, or it stands in the block of a task in which no
\* block that stays begins.
GoesInBlocks(a, E, from) ==
    \A j \in DOMAIN a :
        (\A p \in E : from[p] # j) =>
            \/ a[j].kind = "blank"
            \/ \E s \in DOMAIN a :
                  /\ a[s].kind = "task"
                  /\ s <= j /\ j < BlockEnd(a, s)
                  /\ \A p \in E : from[p] \in TaskBlocks(a) =>
                                      from[p] <= s \/ BlockEnd(a, s) <= from[p]

\* What the headings tell of the lines that stay needs less.
SameHeadings(a, b, E, from) ==
    /\ E \subseteq DOMAIN b
    /\ from \in [E -> DOMAIN a]
    /\ \A p, q \in E : p < q <=> from[p] < from[q]
    /\ \A p \in E : b[p].kind = a[from[p]].kind /\ b[p].depth = a[from[p]].depth
    /\ \A p \in DOMAIN b \ E : ~IsHeading(b[p])
    /\ \A j \in DOMAIN a : IsHeading(a[j]) => \E p \in E : from[p] = j

LEMMA EmbedsHeadings ==
    ASSUME NEW a, NEW b, NEW E, NEW from, Embeds(a, b, E, from)
    PROVE  SameHeadings(a, b, E, from)
  BY DEF Embeds, SameHeadings, IsHeading

\* A line that stays keeps its place below the heading Todo.
LEMMA EmbedInTodo ==
    ASSUME NEW a, NEW b, NEW E, NEW from, IsLines(a), IsLines(b),
           SameHeadings(a, b, E, from), NEW p \in E
    PROVE  InTodo(b, p) <=> InTodo(a, from[p])
<1>1. /\ DOMAIN a = 1..Len(a) /\ Len(a) \in Nat
      /\ DOMAIN b = 1..Len(b) /\ Len(b) \in Nat
  BY LinesShape
<1>2. /\ E \subseteq 1..Len(b)
      /\ \A q \in E : q \in Nat /\ from[q] \in 1..Len(a)
      /\ \A q, r \in E : q < r <=> from[q] < from[r]
      /\ \A q \in E : b[q].kind = a[from[q]].kind /\ b[q].depth = a[from[q]].depth
  BY <1>1 DEF SameHeadings
<1>3. \A q \in 1..Len(b) : IsHeading(b[q]) => q \in E
  BY <1>1 DEF SameHeadings
<1>4. \A j \in 1..Len(a) : IsHeading(a[j]) => \E q \in E : from[q] = j
  BY <1>1 DEF SameHeadings
<1>5. \A q \in E : IsHeading(b[q]) <=> IsHeading(a[from[q]])
  BY <1>2 DEF IsHeading
<1>6. ASSUME InTodo(b, p)
      PROVE  InTodo(a, from[p])
  <2>1. PICK h \in 1..(p - 1) :
           /\ b[h].kind = "todo"
           /\ \A k \in (h + 1)..(p - 1) : IsHeading(b[k]) => b[k].depth > b[h].depth
           /\ ~ \E k \in (h + 1)..(p - 1) : b[k].kind = "todo"
    BY <1>6 DEF InTodo
  <2>2. h \in E
    BY <1>2, <1>3, <1>1, <2>1 DEF IsHeading
  <2>3. from[h] \in 1..(from[p] - 1) /\ a[from[h]].kind = "todo"
    BY <1>2, <2>1, <2>2
  <2>4. ASSUME NEW k \in (from[h] + 1)..(from[p] - 1), IsHeading(a[k])
        PROVE  a[k].depth > a[from[h]].depth /\ a[k].kind # "todo"
    <3>1. k \in 1..Len(a)
      BY <1>2, <2>2
    <3>2. PICK q \in E : from[q] = k
      BY <1>4, <3>1, <2>4
    <3>3. q \in (h + 1)..(p - 1)
      BY <1>2, <2>2, <3>2
    <3>4. IsHeading(b[q])
      BY <1>5, <3>2, <2>4
    <3> QED BY <3>2, <3>3, <3>4, <2>1, <2>2, <1>2
  <2> QED BY <2>3, <2>4 DEF InTodo, IsHeading
<1>7. ASSUME InTodo(a, from[p])
      PROVE  InTodo(b, p)
  <2>1. PICK g \in 1..(from[p] - 1) :
           /\ a[g].kind = "todo"
           /\ \A k \in (g + 1)..(from[p] - 1) : IsHeading(a[k]) => a[k].depth > a[g].depth
           /\ ~ \E k \in (g + 1)..(from[p] - 1) : a[k].kind = "todo"
    BY <1>7 DEF InTodo
  <2>2. PICK h \in E : from[h] = g
    BY <1>2, <1>4, <2>1 DEF IsHeading
  <2>3. h \in 1..(p - 1) /\ b[h].kind = "todo"
    BY <1>2, <2>1, <2>2
  <2>4. ASSUME NEW k \in (h + 1)..(p - 1), IsHeading(b[k])
        PROVE  b[k].depth > b[h].depth /\ b[k].kind # "todo"
    <3>1. k \in E
      BY <1>2, <1>3, <2>2, <2>4, <1>1
    <3>2. from[k] \in (g + 1)..(from[p] - 1)
      BY <1>2, <2>2, <3>1
    <3>3. IsHeading(a[from[k]])
      BY <1>5, <3>1, <2>4
    <3> QED BY <3>1, <3>2, <3>3, <2>1, <2>2, <1>2
  <2> QED BY <2>3, <2>4 DEF InTodo, IsHeading
<1> QED BY <1>6, <1>7

LEMMA EmbedTasks ==
    ASSUME NEW a, NEW b, NEW E, NEW from, IsLines(a), IsLines(b),
           Embeds(a, b, E, from)
    PROVE  \A p \in DOMAIN b : p \in TaskLines(b) <=> p \in E /\ from[p] \in TaskLines(a)
<1> SUFFICES ASSUME NEW p \in DOMAIN b
             PROVE  p \in TaskLines(b) <=> p \in E /\ from[p] \in TaskLines(a)
  OBVIOUS
<1>1. CASE p \in E
  <2>1. from[p] \in DOMAIN a /\ b[p].kind = a[from[p]].kind
    BY <1>1 DEF Embeds
  <2>2. InTodo(b, p) <=> InTodo(a, from[p])
    BY <1>1, EmbedsHeadings, EmbedInTodo
  <2> QED BY <1>1, <2>1, <2>2 DEF TaskLines
<1>2. CASE p \notin E
  <2>1. b[p].kind = "meta"
    BY <1>2 DEF Embeds
  <2> QED BY <1>2, <2>1 DEF TaskLines
<1> QED BY <1>1, <1>2

(***************************************************************************)
(* A task that is nested in no other stays so.  Of the lines that close an *)
(* earlier task before it, the last one stays: were it removed, then as    *)
(* part of a block that has ended before, at a line that closes as much.   *)
(***************************************************************************)
LEMMA EmbedTops ==
    ASSUME NEW a, NEW b, NEW E, NEW from, IsLines(a), IsLines(b),
           Embeds(a, b, E, from), GoesInBlocks(a, E, from),
           NEW p \in E, from[p] \in TaskBlocks(a)
    PROVE  p \in TaskBlocks(b)
<1>1. /\ DOMAIN a = 1..Len(a) /\ Len(a) \in Nat /\ DOMAIN b = 1..Len(b) /\ Len(b) \in Nat
      /\ \A j \in 1..Len(a) : a[j].depth \in Nat
      /\ \A j \in 1..Len(b) : b[j].depth \in Nat
  BY LinesShape
<1>2. /\ E \subseteq 1..Len(b)
      /\ \A q \in E : q \in Nat /\ from[q] \in 1..Len(a)
      /\ \A q, r \in E : q < r <=> from[q] < from[r]
      /\ \A q \in E : b[q].kind = a[from[q]].kind /\ b[q].depth = a[from[q]].depth
  BY <1>1 DEF Embeds
<1>3. p \in TaskLines(b)
  BY <1>2, <1>1, EmbedTasks DEF TaskBlocks
<1> DEFINE i == from[p]
<1>4. i \in TaskLines(a) /\ i \in 1..Len(a)
  BY <1>2 DEF TaskBlocks
<1>5. SUFFICES ASSUME NEW r \in TaskLines(b), r < p, p < BlockEnd(b, r)
               PROVE  FALSE
  BY <1>3 DEF TaskBlocks
<1>6. r \in E /\ r \in 1..Len(b) /\ from[r] \in TaskLines(a)
  BY <1>1, EmbedTasks DEF TaskLines
<1> DEFINE k == from[r]
<1>7. k \in 1..Len(a) /\ k < i
  BY <1>2, <1>5, <1>6
<1>8. BlockEnd(a, k) <= i
  <2>1. ~(i < BlockEnd(a, k))
    BY <1>6, <1>7 DEF TaskBlocks
  <2>2. BlockEnd(a, k) \in Nat
    BY <1>7, <1>1, BlockEndCloses
  <2> QED BY <2>1, <2>2, <1>4
<1> DEFINE C == {j \in (k + 1)..i : Closes(a, k, j)}
<1> HIDE DEF i, k
<1>9. C # {}
  <2>1. BlockEnd(a, k) \in (k + 1)..(Len(a) + 1)
    BY <1>7, <1>1, BlockEndCloses
  <2>2. BlockEnd(a, k) <= Len(a) => Closes(a, k, BlockEnd(a, k))
    BY <1>7, <1>1, BlockEndCloses
  <2>3. BlockEnd(a, k) \in (k + 1)..i /\ BlockEnd(a, k) <= Len(a)
    BY <2>1, <1>8, <1>4, <1>7
  <2> QED BY <2>2, <2>3
<1>10. PICK j \in C : \A l \in C : l <= j
  <2>1. C \in SUBSET Nat /\ i \in Nat /\ \A l \in C : l <= i
    BY <1>4, <1>7
  <2> HIDE DEF C
  <2> QED BY <2>1, <1>9, LargestNumber
<1>11. j \in (k + 1)..i /\ Closes(a, k, j) /\ j \in 1..Len(a)
  BY <1>10, <1>4, <1>7
<1>12. CASE \E q \in E : from[q] = j
  <2>1. PICK q \in E : from[q] = j
    BY <1>12
  <2>2. r < q /\ q <= p
    BY <2>1, <1>11, <1>2, <1>6, <1>4, <1>7 DEF i, k
  <2>3. q \in (r + 1)..Len(b) /\ q < BlockEnd(b, r)
    <3>1. BlockEnd(b, r) \in Nat
      BY <1>6, <1>1, BlockEndCloses
    <3> QED BY <3>1, <2>2, <1>5, <1>2, <2>1, <1>6
  <2>4. ~Closes(b, r, q)
    BY <2>3, <1>6, <1>1, BlockEndCloses
  <2>5. Closes(b, r, q)
    BY <1>11, <2>1, <1>2, <1>6 DEF Closes, IsHeading, k
  <2> QED BY <2>4, <2>5
<1>13. CASE \A q \in E : from[q] # j
  <2>1. PICK s \in DOMAIN a :
           /\ a[s].kind = "task"
           /\ s <= j /\ j < BlockEnd(a, s)
           /\ \A q \in E : from[q] \in TaskBlocks(a) =>
                               from[q] <= s \/ BlockEnd(a, s) <= from[q]
    BY <1>11, <1>13, <1>1 DEF GoesInBlocks, Closes
  <2> DEFINE e == BlockEnd(a, s)
  <2>2. /\ s \in 1..Len(a)
        /\ e \in (s + 1)..(Len(a) + 1)
        /\ \A l \in (s + 1)..Len(a) : l < e => ~Closes(a, s, l)
        /\ e <= Len(a) => Closes(a, s, e)
    BY <1>1, BlockEndCloses
  <2> HIDE DEF e
  <2>3. j # i
    BY <1>13 DEF i
  <2>4. e <= i
    <3>1. i <= s \/ e <= i
      BY <2>1 DEF i, e
    <3> QED BY <3>1, <2>1, <2>2, <2>3, <1>11, <1>4
  <2>5. j < e /\ e \in (k + 1)..i /\ e <= Len(a)
    BY <2>1, <2>2, <2>4, <1>11, <1>4, <1>7 DEF e
  <2>6. a[s].depth <= a[j].depth /\ ~IsHeading(a[j])
    <3>1. CASE s = j
      BY <3>1, <2>1, <1>1, <2>2 DEF IsHeading
    <3>2. CASE s # j
      <4>1. j \in (s + 1)..Len(a) /\ j < e
        BY <3>2, <2>1, <2>2, <2>5, <1>11
      <4>2. ~Closes(a, s, j) /\ a[j].kind # "blank"
        BY <4>1, <2>2, <1>11 DEF Closes
      <4>3. a[s].depth \in Nat /\ a[j].depth \in Nat
        BY <1>1, <2>2, <1>11
      <4> QED BY <4>2, <4>3 DEF Closes
    <3> QED BY <3>1, <3>2
  <2>7. a[j].depth <= a[k].depth
    BY <2>6, <1>11 DEF Closes
  <2>8. Closes(a, k, e)
    <3>1. Closes(a, s, e) /\ e \in 1..Len(a)
      BY <2>2, <2>5
    <3>2. /\ a[s].depth \in Nat /\ a[j].depth \in Nat
          /\ a[k].depth \in Nat /\ a[e].depth \in Nat
      BY <1>1, <2>2, <1>11, <1>7, <3>1
    <3>3. a[s].depth <= a[k].depth
      BY <3>2, <2>6, <2>7
    <3>4. a[e].depth <= a[s].depth => a[e].depth <= a[k].depth
      BY <3>2, <3>3
    <3> QED BY <3>1, <3>4 DEF Closes
  <2>9. e <= j
    BY <2>5, <2>8, <1>10
  <2> QED BY <2>5, <2>9, <2>2, <1>11
<1> QED BY <1>12, <1>13

\* If no task goes, each keeps its place among the tasks, and with it its text.
LEMMA EmbedSays ==
    ASSUME NEW a, NEW b, NEW E, NEW from, IsLines(a), IsLines(b),
           Embeds(a, b, E, from)
    PROVE  /\ Cardinality(TaskLines(b)) <= Cardinality(TaskLines(a))
           /\ Cardinality(TaskLines(b)) = Cardinality(TaskLines(a))
                => \A o, text : Says(a, o, text) => Says(b, o, text)
<1> DEFINE A == TaskLines(a)
           B == TaskLines(b)
           to == [p \in B |-> from[p]]
<1>1. /\ A \in SUBSET Nat /\ IsFiniteSet(A) /\ Cardinality(A) \in Nat
      /\ B \in SUBSET Nat /\ IsFiniteSet(B) /\ Cardinality(B) \in Nat
  BY TaskLinesType
<1>2. \A p \in B : p \in E /\ from[p] \in A /\ b[p].text = a[from[p]].text
  BY EmbedTasks, TaskLinesType DEF Embeds
<1>3. \A p, q \in B : p < q <=> from[p] < from[q]
  BY <1>2 DEF Embeds
<1> HIDE DEF A, B
<1>4. to \in Injection(B, A)
  <2>1. to \in [B -> A]
    BY <1>2
  <2>2. ASSUME NEW p \in B, NEW q \in B, to[p] = to[q]
        PROVE  p = q
    <3>1. p \in Nat /\ q \in Nat /\ from[p] \in Nat /\ from[q] \in Nat
      BY <1>1, <1>2
    <3>2. ~(from[p] < from[q]) /\ ~(from[q] < from[p])
      BY <2>2, <3>1
    <3>3. ~(p < q) /\ ~(q < p)
      BY <3>2, <1>3
    <3> QED BY <3>1, <3>3
  <2> QED BY <2>1, <2>2 DEF Injection, IsInjective
<1>5. /\ Cardinality(B) <= Cardinality(A)
      /\ Cardinality(B) = Cardinality(A) <=> to \in Surjection(B, A)
  BY <1>1, <1>4, FS_Injection
<1>6. ASSUME Cardinality(B) = Cardinality(A), NEW p \in B
      PROVE  Place(B, p) = Place(A, from[p])
  <2> DEFINE S == {q \in B : q <= p}
             T == {j \in A : j <= from[p]}
             g == [q \in S |-> from[q]]
  <2>1. \A q \in B : q <= p <=> from[q] <= from[p]
    <3> TAKE q \in B
    <3>1. p \in Nat /\ q \in Nat /\ from[p] \in Nat /\ from[q] \in Nat
      BY <1>1, <1>2
    <3>2. p < q <=> from[p] < from[q]
      BY <1>3
    <3> QED BY <3>1, <3>2
  <2>2. g \in [S -> T]
    BY <1>2, <2>1
  <2>3. \A q, r \in S : g[q] = g[r] => q = r
    BY <1>4 DEF Injection, IsInjective
  <2>4. \A j \in T : \E q \in S : g[q] = j
    <3> TAKE j \in T
    <3>1. PICK q \in B : to[q] = j
      BY <1>5, <1>6 DEF Surjection
    <3>2. q \in S
      BY <3>1, <2>1
    <3> QED BY <3>1, <3>2
  <2>5. g \in Bijection(S, T)
    <3> HIDE DEF S, T, g
    <3> QED BY <2>2, <2>3, <2>4 DEF Bijection, Injection, Surjection, IsInjective
  <2>6. IsFiniteSet(S)
    BY <1>1, FS_Subset
  <2>7. ExistsBijection(S, T)
    <3> HIDE DEF S, T, g
    <3> QED BY <2>5 DEF ExistsBijection
  <2>8. Cardinality(T) = Cardinality(S)
    <3> HIDE DEF S, T, g
    <3> QED BY <2>6, <2>7, FS_Bijection
  <2> QED BY <2>8 DEF Place
<1>7. ASSUME Cardinality(B) = Cardinality(A), NEW o, NEW text, Says(a, o, text)
      PROVE  Says(b, o, text)
  <2> SUFFICES ASSUME NEW p \in B, Place(B, p) = o
               PROVE  b[p].text = text
    BY DEF Says, B
  <2>1. from[p] \in A /\ Place(A, from[p]) = o
    BY <1>2, <1>6, <1>7
  <2>2. a[from[p]].text = text
    BY <2>1, <1>7 DEF Says, A
  <2> QED BY <2>2, <1>2
<1> QED BY <1>5, <1>7 DEF A, B

\* Of the texts of a note only those go whose line goes.
LEMMA EmbedTexts ==
    ASSUME NEW a, NEW b, NEW E, NEW from, IsLines(a), IsLines(b),
           Embeds(a, b, E, from), GoesInBlocks(a, E, from),
           NEW n, NEW i \in TaskBlocks(a), \E p \in E : from[p] = i
    PROVE  <<n, a[i].text>> \in Tops(n, b)
<1>1. PICK p \in E : from[p] = i
  OBVIOUS
<1>2. p \in TaskBlocks(b)
  BY <1>1, EmbedTops
<1>3. b[p].text = a[i].text
  BY <1>1 DEF Embeds
<1> QED BY <1>2, <1>3 DEF Tops

-----------------------------------------------------------------------------
(***************************************************************************)
(* Setting boxes.                                                          *)
(***************************************************************************)
OnlyBoxes(a, b) ==
    /\ IsLines(b)
    /\ Len(b) = Len(a)
    /\ \A i \in 1..Len(a) : /\ b[i].kind = a[i].kind
                            /\ b[i].depth = a[i].depth
                            /\ b[i].text = a[i].text

LEMMA OnlyBoxesKeep ==
    ASSUME NEW a, NEW b, IsLines(a), OnlyBoxes(a, b)
    PROVE  /\ \A n : Tops(n, a) \subseteq Tops(n, b)
           /\ \A o, text : Says(a, o, text) => Says(b, o, text)
<1> DEFINE D == 1..Len(a)
           from == [i \in D |-> i]
<1>1. /\ IsLines(b) /\ Len(b) = Len(a) /\ DOMAIN a = D /\ DOMAIN b = D
      /\ \A i \in D : b[i].kind = a[i].kind /\ b[i].depth = a[i].depth /\ b[i].text = a[i].text
  BY LinesShape DEF OnlyBoxes
<1> HIDE DEF D
<1>2. Embeds(a, b, D, from) /\ Embeds(b, a, D, from)
  BY <1>1 DEF Embeds
<1>3. GoesInBlocks(a, D, from)
  BY <1>1 DEF GoesInBlocks
<1>4. Cardinality(TaskLines(b)) = Cardinality(TaskLines(a))
  <2>1. /\ Cardinality(TaskLines(b)) <= Cardinality(TaskLines(a))
        /\ Cardinality(TaskLines(a)) <= Cardinality(TaskLines(b))
    BY <1>1, <1>2, EmbedSays
  <2> QED BY <1>1, <2>1, TaskLinesType
<1>5. \A o, text : Says(a, o, text) => Says(b, o, text)
  BY <1>1, <1>2, <1>4, EmbedSays
<1>6. ASSUME NEW n, NEW k \in Tops(n, a)
      PROVE  k \in Tops(n, b)
  <2>1. PICK i \in TaskBlocks(a) : k = <<n, a[i].text>>
    BY DEF Tops
  <2>2. i \in D /\ from[i] = i
    BY <1>1, TaskLinesType
  <2> HIDE DEF from
  <2> QED BY <2>1, <2>2, <1>1, <1>2, <1>3, EmbedTexts
<1> QED BY <1>5, <1>6

LEMMA LineWithBox ==
    ASSUME NEW line, IsLine(line), NEW done
    PROVE  /\ IsLine([line EXCEPT !.done = done])
           /\ [line EXCEPT !.done = done].kind = line.kind
           /\ [line EXCEPT !.done = done].depth = line.depth
           /\ [line EXCEPT !.done = done].text = line.text
  BY DEF IsLine, Line

\* A note whose lines are old ones with some boxes set.
LEMMA BoxesSet ==
    ASSUME NEW a, NEW b, IsLines(a), b = [i \in 1..Len(a) |-> b[i]],
           \A i \in 1..Len(a) : \/ b[i] = a[i]
                                \/ \E done : b[i] = [a[i] EXCEPT !.done = done]
    PROVE  OnlyBoxes(a, b)
<1>1. Len(a) \in Nat /\ \A i \in 1..Len(a) : IsLine(a[i])
  BY LinesShape
<1>2. \A i \in 1..Len(a) : /\ IsLine(b[i])
                           /\ b[i].kind = a[i].kind
                           /\ b[i].depth = a[i].depth
                           /\ b[i].text = a[i].text
  <2> TAKE i \in 1..Len(a)
  <2>1. IsLine(a[i])
    BY <1>1
  <2>2. CASE b[i] = a[i]
    BY <2>1, <2>2
  <2>3. CASE \E done : b[i] = [a[i] EXCEPT !.done = done]
    <3>1. PICK done : b[i] = [a[i] EXCEPT !.done = done]
      BY <2>3
    <3> DEFINE line == [a[i] EXCEPT !.done = done]
    <3>2. /\ IsLine(line)
          /\ line.kind = a[i].kind
          /\ line.depth = a[i].depth
          /\ line.text = a[i].text
      BY <2>1, LineWithBox
    <3> HIDE DEF line
    <3>3. b[i] = line
      BY <3>1 DEF line
    <3> QED BY <3>2, <3>3
  <2> QED BY <2>2, <2>3
<1> DEFINE T == {b[i] : i \in 1..Len(a)}
<1>3. b \in [1..Len(a) -> T]
  OBVIOUS
<1>4. b \in Seq(T) /\ Len(b) = Len(a)
  BY <1>1, <1>3
<1>5. IsLines(b)
  <2> HIDE DEF T
  <2> QED BY <1>2, <1>4, LinesOfShape
<1> QED BY <1>2, <1>4, <1>5 DEF OnlyBoxes

LEMMA PickedSetsBoxes ==
    ASSUME NEW n, NEW a, NEW selections, IsLines(a)
    PROVE  OnlyBoxes(a, Picked(n, a, selections))
<1> DEFINE b == Picked(n, a, selections)
<1>1. DOMAIN a = 1..Len(a)
  BY LinesShape
<1>2. b = [i \in 1..Len(a) |-> b[i]]
  BY <1>1 DEF Picked
<1>3. ASSUME NEW i \in 1..Len(a)
      PROVE  b[i] = a[i] \/ \E done : b[i] = [a[i] EXCEPT !.done = done]
  BY <1>1 DEF Picked
<1> HIDE DEF b
<1>4. OnlyBoxes(a, b)
  BY <1>2, <1>3, BoxesSet
<1> QED BY <1>4 DEF b

LEMMA TickSetsBox ==
    ASSUME NEW a, NEW i, NEW done, IsLines(a)
    PROVE  OnlyBoxes(a, [a EXCEPT ![i].done = done])
<1> DEFINE b == [a EXCEPT ![i].done = done]
<1>1. DOMAIN a = 1..Len(a)
  BY LinesShape
<1>2. b = [k \in 1..Len(a) |-> b[k]]
  BY <1>1
<1>3. ASSUME NEW k \in 1..Len(a)
      PROVE  b[k] = a[k] \/ \E x : b[k] = [a[k] EXCEPT !.done = x]
  BY <1>1
<1> HIDE DEF b
<1>4. OnlyBoxes(a, b)
  BY <1>2, <1>3, BoxesSet
<1> QED BY <1>4 DEF b

-----------------------------------------------------------------------------
(***************************************************************************)
(* Removing lines.                                                         *)
(***************************************************************************)
LEMMA PickLines ==
    ASSUME NEW a, IsLines(a), NEW S \in SUBSET (DOMAIN a)
    PROVE  LET b == Pick(a, S)
               at == Ascending(S)
           IN /\ IsLines(b)
              /\ DOMAIN b = 1..Len(b)
              /\ at \in [1..Len(b) -> S]
              /\ \A o \in 1..Len(b) : b[o] = a[at[o]]
              /\ \A o, p \in 1..Len(b) : at[o] < at[p] <=> o < p
              /\ \A i \in S : \E o \in 1..Len(b) : at[o] = i
<1> DEFINE b == Pick(a, S)
           at == Ascending(S)
<1>1. /\ DOMAIN a = 1..Len(a) /\ \A i \in 1..Len(a) : IsLine(a[i])
      /\ a \in Seq(Range(a))
  BY LinesShape
<1>2. /\ b \in Seq(Range(a))
      /\ at \in [1..Len(b) -> S]
      /\ \A o \in 1..Len(b) : b[o] = a[at[o]]
      /\ \A o, p \in 1..Len(b) : at[o] < at[p] <=> o < p
      /\ \A i \in S : \E o \in 1..Len(b) : at[o] = i
  BY <1>1, PickLists
<1> HIDE DEF b, at
<1>3. \A o \in 1..Len(b) : IsLine(b[o])
  BY <1>1, <1>2
<1>4. IsLines(b)
  BY <1>2, <1>3, LinesOfShape
<1> QED BY <1>2, <1>4, LinesShape DEF b, at

\* A heading is in no block.
LEMMA HeadingsOutside ==
    ASSUME NEW a, IsLines(a), NEW s \in DOMAIN a, a[s].kind = "task",
           NEW j \in DOMAIN a, IsHeading(a[j]), s <= j
    PROVE  ~(j < BlockEnd(a, s))
<1>1. Len(a) \in Nat /\ s \in 1..Len(a) /\ j \in 1..Len(a)
  BY LinesShape
<1>2. s # j /\ Closes(a, s, j)
  BY DEF IsHeading, Closes
<1> QED BY <1>1, <1>2, BlockEndCloses

(***************************************************************************)
(* Taking blocks out of a note (removeLineRanges) embeds what is left, and *)
(* takes out no other task that is nested in none.                         *)
(***************************************************************************)
LEMMA RemoveEmbeds ==
    ASSUME NEW a, IsLines(a), NEW starts \in SUBSET TaskBlocks(a)
    PROVE  LET b == RemoveBlocks(a, starts)
           IN /\ IsLines(b)
              /\ \E E, from :
                    /\ Embeds(a, b, E, from)
                    /\ GoesInBlocks(a, E, from)
                    /\ \A i \in TaskBlocks(a) \ starts : \E p \in E : from[p] = i
<1> DEFINE InBlock(i) == \E s \in starts : s <= i /\ i < BlockEnd(a, s)
           K == {i \in DOMAIN a : ~InBlock(i)}
           left == Pick(a, K)
           C == {p \in DOMAIN left :
                   ~ (p > 2 /\ \A q \in (p - 2)..p : left[q].kind = "blank")}
           b == RemoveBlocks(a, starts)
           atK == Ascending(K)
           atC == Ascending(C)
           E == 1..Len(b)
           from == [p \in E |-> atK[atC[p]]]
<1>1. /\ IsLines(left)
      /\ DOMAIN left = 1..Len(left)
      /\ atK \in [1..Len(left) -> K]
      /\ \A o \in 1..Len(left) : left[o] = a[atK[o]]
      /\ \A o, p \in 1..Len(left) : atK[o] < atK[p] <=> o < p
      /\ \A i \in K : \E o \in 1..Len(left) : atK[o] = i
  <2>1. K \in SUBSET (DOMAIN a)
    OBVIOUS
  <2> HIDE DEF K
  <2> QED BY <2>1, PickLines
<1>2. b = Pick(left, C)
  BY DEF RemoveBlocks
<1>3. /\ IsLines(b)
      /\ DOMAIN b = E
      /\ atC \in [E -> C]
      /\ \A o \in E : b[o] = left[atC[o]]
      /\ \A o, p \in E : atC[o] < atC[p] <=> o < p
      /\ \A i \in C : \E o \in E : atC[o] = i
  <2>1. C \in SUBSET (DOMAIN left)
    OBVIOUS
  <2> HIDE DEF C, left
  <2> QED BY <1>1, <1>2, <2>1, PickLines
<1>4. C \subseteq 1..Len(left) /\ K \subseteq DOMAIN a
  BY <1>1
<1>5. \A j \in DOMAIN a : j \notin K => InBlock(j)
  OBVIOUS
<1>6. \A p \in 1..Len(left) : p \notin C => left[p].kind = "blank"
  <2> TAKE p \in 1..Len(left)
  <2>1. p \in DOMAIN left /\ p \in Nat
    BY <1>1
  <2>2. p \notin C => p > 2 /\ \A q \in (p - 2)..p : left[q].kind = "blank"
    BY <2>1
  <2>3. p > 2 => p \in (p - 2)..p
    BY <2>1
  <2> QED BY <2>2, <2>3
<1>7. \A i \in K : ~InBlock(i)
  OBVIOUS
<1>8. \A s \in starts : s \in DOMAIN a /\ a[s].kind = "task" /\ s \in TaskLines(a)
  BY DEF TaskBlocks, TaskLines
<1> HIDE DEF b, left, atK, atC, C, K
<1>9. \A p \in E : /\ from[p] \in K
                   /\ b[p] = a[from[p]]
  BY <1>1, <1>3, <1>4
<1>10. \A i \in K : a[i].kind # "blank" => \E p \in E : from[p] = i
  <2> TAKE i \in K
  <2>1. PICK o \in 1..Len(left) : atK[o] = i
    BY <1>1
  <2>2. a[i].kind # "blank" => o \in C
    BY <1>1, <1>6, <2>1
  <2> QED BY <1>3, <2>1, <2>2
<1>11. Embeds(a, b, E, from)
  <2>1. from \in [E -> DOMAIN a]
    BY <1>4, <1>9
  <2>2. \A p, q \in E : p < q <=> from[p] < from[q]
    BY <1>1, <1>3, <1>4
  <2>3. \A j \in DOMAIN a : IsHeading(a[j]) => \E p \in E : from[p] = j
    <3> SUFFICES ASSUME NEW j \in DOMAIN a, IsHeading(a[j])
                 PROVE  \E p \in E : from[p] = j
      OBVIOUS
    <3>1. ~InBlock(j)
      BY <1>8, HeadingsOutside
    <3>2. j \in K /\ a[j].kind # "blank"
      BY <3>1, <1>5 DEF IsHeading
    <3> QED BY <3>2, <1>10
  <2> HIDE DEF from
  <2> QED BY <1>3, <1>9, <2>1, <2>2, <2>3 DEF Embeds
<1>12. GoesInBlocks(a, E, from)
  <2> SUFFICES ASSUME NEW j \in DOMAIN a, \A p \in E : from[p] # j, a[j].kind # "blank"
               PROVE  \E s \in DOMAIN a :
                        /\ a[s].kind = "task"
                        /\ s <= j /\ j < BlockEnd(a, s)
                        /\ \A p \in E : from[p] \in TaskBlocks(a) =>
                                            from[p] <= s \/ BlockEnd(a, s) <= from[p]
    BY DEF GoesInBlocks
  <2>1. InBlock(j)
    BY <1>5, <1>10
  <2>2. PICK s \in starts : s <= j /\ j < BlockEnd(a, s)
    BY <2>1
  <2>3. ASSUME NEW p \in E
        PROVE  from[p] <= s \/ BlockEnd(a, s) <= from[p]
    <3>1. ~(s <= from[p] /\ from[p] < BlockEnd(a, s))
      BY <1>7, <1>9
    <3>2. from[p] \in Nat /\ s \in Nat /\ BlockEnd(a, s) \in Nat
      <4>1. from[p] \in DOMAIN a /\ s \in DOMAIN a /\ DOMAIN a = 1..Len(a)
        BY <1>4, <1>8, <1>9, LinesShape
      <4>2. BlockEnd(a, s) \in (s + 1)..(Len(a) + 1) /\ Len(a) \in Nat
        BY <4>1, BlockEndCloses, LinesShape
      <4> QED BY <4>1, <4>2
    <3> QED BY <3>1, <3>2
  <2> HIDE DEF from
  <2> QED BY <1>8, <2>2, <2>3
<1>13. ASSUME NEW i \in TaskBlocks(a) \ starts
       PROVE  \E p \in E : from[p] = i
  <2>1. i \in DOMAIN a /\ a[i].kind = "task"
    BY DEF TaskBlocks, TaskLines
  <2>2. ~InBlock(i)
    <3> SUFFICES ASSUME NEW s \in starts, s <= i, i < BlockEnd(a, s)
                 PROVE  FALSE
      OBVIOUS
    <3>1. s \in Nat /\ i \in Nat
      BY <1>8, <2>1, LinesShape
    <3>2. s < i
      BY <3>1
    <3> QED BY <3>2, <1>8 DEF TaskBlocks
  <2> QED BY <2>1, <2>2, <1>5, <1>10
<1> HIDE DEF from, E
<1>14. \E D, f : /\ Embeds(a, b, D, f)
                 /\ GoesInBlocks(a, D, f)
                 /\ \A i \in TaskBlocks(a) \ starts : \E p \in D : f[p] = i
  BY <1>11, <1>12, <1>13
<1> QED BY <1>3, <1>14 DEF b

-----------------------------------------------------------------------------
(***************************************************************************)
(* Rewriting metadata.                                                     *)
(***************************************************************************)
Rewritten(a, i, area, tags) ==
    ReplaceMetadata(a, i, area, tags, {line \in Range(a) : IsMetadata(line)})

\* All lines stay but some of the block of line i, and at most one is new there.
EditsBelow(a, b, i, E, from) ==
    /\ \A p \in E : b[p] = a[from[p]]
    /\ \A p \in 1..i : p \in E /\ from[p] = p
    /\ \A p \in DOMAIN b \ E : p = i + 1 /\ b[p].depth = a[i].depth + 2
    /\ \A j \in DOMAIN a : (\A p \in E : from[p] # j) => i < j /\ j < BlockEnd(a, i)

(***************************************************************************)
(* A line of metadata takes the place of others of the block, which may be *)
(* nested tasks, if they give an area (updateTaskMetadataInLines).  The    *)
(* lines down to the task itself are as before.                            *)
(***************************************************************************)
LEMMA RewriteEmbeds ==
    ASSUME NEW a, IsLines(a), NEW i \in DOMAIN a, a[i].kind = "task",
           NEW area, NEW tags
    PROVE  LET b == Rewritten(a, i, area, tags)
           IN /\ IsLines(b)
              /\ i <= Len(b)
              /\ \A k \in 1..i : b[k] = a[k]
              /\ \E E, from :
                    /\ Embeds(a, b, E, from)
                    /\ GoesInBlocks(a, E, from)
                    /\ \A k \in TaskBlocks(a) : \E p \in E : from[p] = k
                    /\ EditsBelow(a, b, i, E, from)
<1> DEFINE S == {j \in (i + 1)..Len(a) : j < BlockEnd(a, i) =>
                       a[j] \notin {m \in Range(a) : IsMetadata(m)}}
           line == Metadata(a[i].depth + 2, area, tags)
           written == IF area = None /\ tags = NoTags THEN <<>> ELSE <<line>>
           w == Len(written)
           rest == Pick(a, S)
           head == SubSeq(a, 1, i)
           at == Ascending(S)
           b == Rewritten(a, i, area, tags)
           E == (1..i) \cup ((i + w + 1)..Len(b))
           from == [p \in E |-> IF p <= i THEN p ELSE at[p - i - w]]
<1>1. /\ Len(a) \in Nat /\ DOMAIN a = 1..Len(a) /\ i \in 1..Len(a)
      /\ \A k \in 1..Len(a) : IsLine(a[k])
      /\ a[i].depth \in Nat
  BY LinesShape
<1>2. S \in SUBSET (DOMAIN a)
  BY <1>1
<1>3. /\ IsLines(rest)
      /\ at \in [1..Len(rest) -> S]
      /\ \A o \in 1..Len(rest) : rest[o] = a[at[o]]
      /\ \A o, p \in 1..Len(rest) : at[o] < at[p] <=> o < p
      /\ \A k \in S : \E o \in 1..Len(rest) : at[o] = k
  <2> HIDE DEF S
  <2> QED BY <1>2, PickLines
<1>4. Len(rest) \in Nat /\ \A o \in 1..Len(rest) : IsLine(rest[o])
  BY <1>3, LinesShape
<1>5. IsLine(line) /\ line.kind = "meta" /\ line.depth = a[i].depth + 2
  BY <1>1 DEF IsLine, Line, Metadata
<1>6. /\ written \in Seq({line}) /\ w \in 0..1
      /\ \A k \in 1..w : written[k] = line
  <2> HIDE DEF line
  <2>1. CASE area = None /\ tags = NoTags
    <3>1. written = <<>>
      BY <2>1
    <3> HIDE DEF written
    <3> QED BY <3>1
  <2>2. CASE ~(area = None /\ tags = NoTags)
    <3>1. written = <<line>>
      BY <2>2
    <3> HIDE DEF written
    <3> QED BY <3>1
  <2> QED BY <2>1, <2>2
<1> DEFINE T == {a[k] : k \in 1..Len(a)} \cup {line} \cup {rest[o] : o \in 1..Len(rest)}
<1>7. head \in Seq(T) /\ Len(head) = i /\ \A k \in 1..i : head[k] = a[k]
  <2> HIDE DEF line, rest
  <2>1. \A k \in 1..i : a[k] \in T
    BY <1>1
  <2> HIDE DEF T
  <2>2. \A k \in 1..(i - 1 + 1) : SubSeq(a, 1, i)[k] = a[1 + k - 1]
    BY <1>1, <2>1, SubSeqProperties
  <2> QED BY <1>1, <2>1, <2>2, SubSeqProperties
<1>8. written \in Seq(T) /\ rest \in Seq(T)
  <2> HIDE DEF line, rest
  <2>1. written \in Seq(T)
    <3>1. {line} \subseteq T
      OBVIOUS
    <3> HIDE DEF written, T
    <3> QED BY <1>6, <3>1, SeqMonotonic
  <2>2. rest \in Seq(T)
    <3>1. rest = [o \in 1..Len(rest) |-> rest[o]]
      BY <1>3, LinesShape
    <3>2. rest \in [1..Len(rest) -> T]
      BY <3>1
    <3> HIDE DEF T
    <3> QED BY <3>2, <1>4
  <2> QED BY <2>1, <2>2
<1>9. b = head \o written \o rest
  BY DEF Rewritten, ReplaceMetadata
<1> HIDE DEF S, line, written, rest, head, at, b, T
<1>10. /\ b \in Seq(T) /\ Len(b) = i + w + Len(rest)
       /\ \A k \in 1..i : b[k] = a[k]
       /\ \A k \in 1..w : b[i + k] = line
       /\ \A o \in 1..Len(rest) : b[i + w + o] = rest[o]
  <2> DEFINE top == head \o written
  <2>1. /\ top \in Seq(T) /\ Len(top) = i + w
        /\ \A k \in 1..(i + w) : top[k] = IF k <= i THEN head[k] ELSE written[k - i]
    BY <1>7, <1>8, ConcatProperties
  <2> HIDE DEF top
  <2>2. /\ top \o rest \in Seq(T) /\ Len(top \o rest) = i + w + Len(rest)
        /\ \A k \in 1..(i + w + Len(rest)) :
              (top \o rest)[k] = IF k <= i + w THEN top[k] ELSE rest[k - (i + w)]
    <3>1. /\ top \o rest \in Seq(T) /\ Len(top \o rest) = Len(top) + Len(rest)
          /\ \A k \in 1..(Len(top) + Len(rest)) :
                (top \o rest)[k] = IF k <= Len(top) THEN top[k] ELSE rest[k - Len(top)]
      BY <2>1, <1>8, ConcatProperties
    <3>2. Len(top) = i + w
      BY <2>1
    <3> HIDE DEF w
    <3> QED BY <3>1, <3>2
  <2>3. b = top \o rest
    BY <1>9 DEF top
  <2> HIDE DEF w
  <2>0. i \in Nat /\ w \in Nat /\ Len(rest) \in Nat
    BY <1>1, <1>4, <1>6
  <2>4. \A k \in 1..i : b[k] = a[k]
    BY <2>0, <1>7, <2>1, <2>2, <2>3
  <2>5. \A k \in 1..w : b[i + k] = line
    <3> TAKE k \in 1..w
    <3>1. i + k \in 1..(i + w) /\ i + k \in 1..(i + w + Len(rest)) /\ i + k - i = k
      BY <2>0
    <3>2. b[i + k] = top[i + k] /\ top[i + k] = written[k]
      BY <2>0, <2>1, <2>2, <2>3, <3>1
    <3> QED BY <3>2, <1>6
  <2>6. \A o \in 1..Len(rest) : b[i + w + o] = rest[o]
    <3> TAKE o \in 1..Len(rest)
    <3>1. /\ i + w + o \in 1..(i + w + Len(rest)) /\ ~(i + w + o <= i + w)
          /\ i + w + o - (i + w) = o
      BY <2>0
    <3>2. PICK m, l : m = i + w + o /\ l = m - (i + w)
      OBVIOUS
    <3>3. b[m] = rest[l]
      BY <2>2, <2>3, <3>1, <3>2
    <3>4. l = o
      BY <3>2, <2>0
    <3> QED BY <3>2, <3>3, <3>4, Zenon
  <2> QED BY <2>2, <2>3, <2>4, <2>5, <2>6
<1> HIDE DEF w
<1>0. /\ i \in Nat /\ i >= 1 /\ w \in Nat /\ Len(rest) \in Nat
      /\ Len(b) \in Nat /\ Len(b) = i + w + Len(rest)
  BY <1>1, <1>4, <1>6, <1>10
<1>11. DOMAIN b = 1..Len(b) /\ Len(b) \in Nat /\ i <= Len(b)
  BY <1>1, <1>4, <1>6, <1>10
<1>12. \A p \in 1..Len(b) : \/ p \in 1..i
                            \/ p - i \in 1..w
                            \/ p - i - w \in 1..Len(rest)
  BY <1>0
<1>13. \A p \in 1..Len(b) : IsLine(b[p])
  <2> TAKE p \in 1..Len(b)
  <2>1. CASE p \in 1..i
    BY <2>1, <1>1, <1>10
  <2>2. CASE p - i \in 1..w
    <3>1. p = i + (p - i)
      BY <1>1
    <3>2. b[p] = line
      BY <2>2, <3>1, <1>10
    <3> QED BY <3>2, <1>5
  <2>3. CASE p - i - w \in 1..Len(rest)
    <3>1. p = i + w + (p - i - w)
      BY <1>1, <1>6
    <3>2. b[p] = rest[p - i - w]
      BY <2>3, <3>1, <1>10
    <3> QED BY <2>3, <3>2, <1>4
  <2> QED BY <2>1, <2>2, <2>3, <1>12
<1>14. IsLines(b)
  BY <1>10, <1>13, LinesOfShape

\* Where the lines come from.
<1>15. \A p \in E : p > i => /\ p - i - w \in 1..Len(rest)
                             /\ from[p] = at[p - i - w]
                             /\ from[p] \in S /\ from[p] \in (i + 1)..Len(a)
                             /\ b[p] = a[from[p]]
  <2> SUFFICES ASSUME NEW p \in E, p > i
               PROVE  /\ p - i - w \in 1..Len(rest)
                      /\ from[p] = at[p - i - w]
                      /\ from[p] \in S /\ from[p] \in (i + 1)..Len(a)
                      /\ b[p] = a[from[p]]
    OBVIOUS
  <2>1. p \in (i + w + 1)..Len(b)
    BY <1>1
  <2>2. p - i - w \in 1..Len(rest) /\ p = i + w + (p - i - w)
    BY <2>1, <1>0
  <2>3. from[p] = at[p - i - w]
    BY <2>1, <1>1
  <2>4. from[p] \in S
    BY <2>2, <2>3, <1>3
  <2>5. from[p] \in (i + 1)..Len(a)
    BY <2>4 DEF S
  <2>6. b[p] = rest[p - i - w]
    BY <2>2, <1>10
  <2> QED BY <2>2, <2>3, <2>4, <2>5, <2>6, <1>3
<1>16. \A p \in E : p <= i => from[p] = p /\ p \in 1..i /\ b[p] = a[p]
  BY <1>1, <1>6, <1>10
<1>17. \A k \in 1..i : k \in E /\ from[k] = k
  BY <1>1
<1>18. \A k \in S : \E p \in E : from[p] = k
  <2> TAKE k \in S
  <2>1. PICK o \in 1..Len(rest) : at[o] = k
    BY <1>3
  <2>2. i + w + o \in (i + w + 1)..Len(b) /\ i + w + o > i
    BY <1>0
  <2>3. (i + w + o) - i - w = o
    BY <1>0
  <2> QED BY <2>1, <2>2, <2>3, <1>15
<1>19. \A j \in DOMAIN a : (\A p \in E : from[p] # j) =>
          j \in (i + 1)..Len(a) /\ j < BlockEnd(a, i) /\ IsMetadata(a[j])
  <2> SUFFICES ASSUME NEW j \in DOMAIN a, \A p \in E : from[p] # j
               PROVE  j \in (i + 1)..Len(a) /\ j < BlockEnd(a, i) /\ IsMetadata(a[j])
    OBVIOUS
  <2>1. j \notin 1..i /\ j \notin S
    BY <1>17, <1>18
  <2>2. j \in (i + 1)..Len(a)
    BY <2>1, <1>1
  <2> QED BY <2>1, <2>2 DEF S
<1>20. \A p \in E : p \in Nat
  BY <1>1, <1>6
<1>21. Embeds(a, b, E, from)
  <2>1. E \subseteq DOMAIN b
    BY <1>1, <1>4, <1>6, <1>10, <1>11
  <2>2. \A p \in E : /\ from[p] \in DOMAIN a
                     /\ b[p] = a[from[p]]
                     /\ p <= i \/ p > i
    <3> TAKE p \in E
    <3>1. p <= i \/ p > i
      BY <1>20, <1>1
    <3>2. CASE p <= i
      <4>1. from[p] = p /\ p \in 1..i /\ b[p] = a[p]
        BY <3>2, <1>16
      <4>2. p \in DOMAIN a
        BY <4>1, <1>1
      <4> HIDE DEF from, E
      <4> QED BY <3>1, <4>1, <4>2
    <3>3. CASE p > i
      <4>1. from[p] \in (i + 1)..Len(a) /\ b[p] = a[from[p]]
        BY <3>3, <1>15
      <4> HIDE DEF from, E
      <4>2. from[p] \in DOMAIN a
        BY <4>1, <1>1
      <4> QED BY <3>1, <4>1, <4>2
    <3> QED BY <3>1, <3>2, <3>3
  <2>3. from \in [E -> DOMAIN a]
    BY <2>2
  <2>4. \A p, q \in E : p < q <=> from[p] < from[q]
    <3> TAKE p, q \in E
    <3>1. CASE p <= i /\ q <= i
      BY <3>1, <1>16
    <3>0. ASSUME NEW x \in E, NEW y \in E, x <= i, y > i
          PROVE  x < y /\ from[x] < from[y]
      <4>1. from[x] = x /\ x \in Nat /\ y \in Nat
        BY <3>0, <1>16, <1>20
      <4>2. from[y] \in (i + 1)..Len(a)
        BY <3>0, <1>15
      <4> HIDE DEF from, E
      <4>3. x <= i /\ i < y
        BY <3>0, <4>1, <1>0
      <4>4. i < from[y] /\ from[y] \in Nat
        BY <4>2, <1>0, <1>1
      <4> QED BY <4>1, <4>3, <4>4, <1>0
    <3>5. from[p] \in Nat /\ from[q] \in Nat /\ p \in Nat /\ q \in Nat
      <4>1. from[p] \in DOMAIN a /\ from[q] \in DOMAIN a
        BY <2>2
      <4> HIDE DEF from, E
      <4> QED BY <4>1, <1>1, <1>20
    <3>2. CASE p <= i /\ q > i
      BY <3>0, <3>2
    <3>3. CASE p > i /\ q <= i
      <4>1. q < p /\ from[q] < from[p]
        BY <3>0, <3>3
      <4> HIDE DEF from, E
      <4> QED BY <4>1, <3>5
    <3>4. CASE p > i /\ q > i
      <4>1. p - i - w < q - i - w <=> from[p] < from[q]
        BY <3>4, <1>15, <1>3
      <4> HIDE DEF from, E
      <4>2. p - i - w < q - i - w <=> p < q
        <5> HIDE <3>4
        <5> QED BY <3>5, <1>0
      <4> QED BY <4>1, <4>2
    <3> QED BY <3>1, <3>2, <3>3, <3>4, <2>2
  <2>5. \A p \in DOMAIN b \ E : b[p].kind = "meta"
    <3> TAKE p \in DOMAIN b \ E
    <3>1. p - i \in 1..w
      BY <1>1, <1>4, <1>6, <1>10, <1>11
    <3>2. p = i + (p - i)
      BY <1>1, <1>11
    <3> QED BY <3>1, <3>2, <1>5, <1>10
  <2>6. \A j \in DOMAIN a : IsHeading(a[j]) => \E p \in E : from[p] = j
    <3> SUFFICES ASSUME NEW j \in DOMAIN a, IsHeading(a[j]), \A p \in E : from[p] # j
                 PROVE  FALSE
      OBVIOUS
    <3>1. j \in (i + 1)..Len(a) /\ j < BlockEnd(a, i)
      BY <1>19
    <3> QED BY <3>1, <1>1, HeadingsOutside
  <2> HIDE DEF E, from
  <2> QED BY <2>1, <2>2, <2>3, <2>4, <2>5, <2>6 DEF Embeds

\* A task nested in no other is not in the block, also if the task at i is in
\* no section Todo itself.
<1>22. ASSUME NEW k \in TaskBlocks(a)
       PROVE  ~(i < k /\ k < BlockEnd(a, i))
  <2> SUFFICES ASSUME i < k, k < BlockEnd(a, i)
               PROVE  FALSE
    OBVIOUS
  <2>1. k \in 1..Len(a) /\ InTodo(a, k)
    BY <1>1 DEF TaskBlocks, TaskLines
  <2>2. PICK h \in 1..(k - 1) :
           /\ a[h].kind = "todo"
           /\ \A l \in (h + 1)..(k - 1) : IsHeading(a[l]) => a[l].depth > a[h].depth
           /\ ~ \E l \in (h + 1)..(k - 1) : a[l].kind = "todo"
    BY <2>1 DEF InTodo
  <2>3. h < i
    <3>1. ~(i < h)
      <4>1. i < h => h < BlockEnd(a, i)
        <5>1. BlockEnd(a, i) \in Nat
          BY <1>1, BlockEndCloses
        <5> QED BY <5>1, <2>1, <2>2, <1>1
      <4>2. h \in DOMAIN a /\ IsHeading(a[h])
        BY <1>1, <2>1, <2>2 DEF IsHeading
      <4> QED BY <4>1, <4>2, <1>1, HeadingsOutside
    <3>2. h # i
      BY <2>2
    <3> QED BY <3>1, <3>2, <1>1, <2>1, <2>2
  <2>4. InTodo(a, i)
    <3>1. h \in 1..(i - 1) /\ (h + 1)..(i - 1) \subseteq (h + 1)..(k - 1)
      BY <2>3, <2>1, <2>2, <1>1
    <3> QED BY <2>2, <3>1 DEF InTodo
  <2>5. i \in TaskLines(a)
    BY <2>4 DEF TaskLines
  <2> QED BY <2>5 DEF TaskBlocks
<1>23. \A k \in TaskBlocks(a) : \E p \in E : from[p] = k
  <2> TAKE k \in TaskBlocks(a)
  <2>1. k \in DOMAIN a
    BY DEF TaskBlocks, TaskLines
  <2>2. k \in (i + 1)..Len(a) /\ k < BlockEnd(a, i) => FALSE
    BY <1>22, <1>1
  <2> QED BY <2>1, <2>2, <1>19
<1>24. GoesInBlocks(a, E, from)
  <2> SUFFICES ASSUME NEW j \in DOMAIN a, \A p \in E : from[p] # j
               PROVE  /\ i <= j /\ j < BlockEnd(a, i)
                      /\ \A p \in E : from[p] \in TaskBlocks(a) =>
                                          from[p] <= i \/ BlockEnd(a, i) <= from[p]
    BY DEF GoesInBlocks
  <2>1. j \in (i + 1)..Len(a) /\ j < BlockEnd(a, i) /\ i <= j
    <3>1. j \in (i + 1)..Len(a) /\ j < BlockEnd(a, i)
      BY <1>19
    <3> QED BY <3>1, <1>1
  <2>2. ASSUME NEW p \in E, from[p] \in TaskBlocks(a)
        PROVE  from[p] <= i \/ BlockEnd(a, i) <= from[p]
    <3>1. ~(i < from[p] /\ from[p] < BlockEnd(a, i))
      BY <1>22, <2>2
    <3>2. from[p] \in Nat
      BY <2>2, <1>1 DEF TaskBlocks, TaskLines
    <3>3. BlockEnd(a, i) \in Nat
      BY <1>1, BlockEndCloses
    <3> QED BY <3>1, <3>2, <3>3, <1>1
  <2> HIDE DEF E, from
  <2> QED BY <2>1, <2>2
<1>25. EditsBelow(a, b, i, E, from)
  <2>1. ASSUME NEW p \in E
        PROVE  b[p] = a[from[p]]
    <3>1. p <= i \/ p > i
      BY <1>20, <1>1
    <3> QED BY <3>1, <1>15, <1>16
  <2>2. ASSUME NEW p \in DOMAIN b \ E
        PROVE  p = i + 1 /\ b[p].depth = a[i].depth + 2
    <3>1. p - i \in 1..w /\ p \in Nat
      BY <1>1, <1>4, <1>6, <1>10, <1>11
    <3>2. p = i + (p - i)
      BY <1>1, <1>11
    <3>3. b[p] = line
      BY <3>1, <3>2, <1>10
    <3> HIDE DEF E
    <3> QED BY <3>1, <3>3, <1>0, <1>5, <1>6
  <2>3. ASSUME NEW j \in DOMAIN a, \A p \in E : from[p] # j
        PROVE  i < j /\ j < BlockEnd(a, i)
    <3>1. j \in (i + 1)..Len(a) /\ j < BlockEnd(a, i)
      BY <1>19, <2>3
    <3> QED BY <3>1, <1>1
  <2> HIDE DEF E, from
  <2> QED BY <1>17, <2>1, <2>2, <2>3 DEF EditsBelow
<1> HIDE DEF E, from
<1>26. \E D, f : /\ Embeds(a, b, D, f)
                 /\ GoesInBlocks(a, D, f)
                 /\ \A k \in TaskBlocks(a) : \E p \in D : f[p] = k
                 /\ EditsBelow(a, b, i, D, f)
  BY <1>21, <1>23, <1>24, <1>25
<1> QED BY <1>10, <1>11, <1>14, <1>26 DEF b

-----------------------------------------------------------------------------
(***************************************************************************)
(* An update of several todos of one note.                                 *)
(***************************************************************************)

\* The function that UpdateLines takes the first value of, from line k on.
Step(n, lines, k, g) ==
    IF k > Len(lines) THEN lines ELSE UpdateAt(n, g[k + 1], k)

\* It exists: if it exists from line k + 1 on then from line k on.
LEMMA UpdateLinesSteps ==
    ASSUME NEW n, NEW lines, Len(lines) \in Nat
    PROVE  \E g : /\ \A k \in 1..(Len(lines) + 1) : g[k] = Step(n, lines, k, g)
                  /\ UpdateLines(n, lines) = g[1]
<1> DEFINE last == Len(lines) + 1
           From(k, g) == g = [i \in k..last |-> Step(n, lines, i, g)]
           Missing == {m \in 0..Len(lines) : ~ \E g : From(last - m, g)}
<1>1. Missing = {}
  <2> SUFFICES ASSUME Missing # {}
               PROVE  FALSE
    OBVIOUS
  <2>1. PICK m \in Missing : \A l \in Missing : m <= l
    <3>1. Missing \in SUBSET Nat
      OBVIOUS
    <3> HIDE DEF Missing
    <3> QED BY <3>1, SmallestNumber
  <2>2. m \in 0..Len(lines) /\ ~ \E g : From(last - m, g)
    BY <2>1
  <2>3. m # 0
    <3> SUFFICES ASSUME m = 0
                 PROVE  \E g : From(last - m, g)
      BY <2>2
    <3> DEFINE g == [i \in last..last |-> lines]
    <3>1. last - m = last
      BY <2>2
    <3>2. From(last, g)
      <4>1. \A i \in last..last : Step(n, lines, i, g) = lines
        BY DEF Step
      <4> QED BY <4>1
    <3> HIDE DEF From, g, last
    <3> QED BY <3>1, <3>2
  <2>4. m - 1 \in 0..Len(lines) /\ ~(m <= m - 1) /\ m \in Nat
    BY <2>2, <2>3
  <2>5. m - 1 \notin Missing
    <3> HIDE DEF Missing
    <3> QED BY <2>1, <2>4
  <2>6. PICK g : From(last - (m - 1), g)
    BY <2>4, <2>5
  <2> DEFINE j == last - m
             h == [i \in j..last |-> IF i = j THEN UpdateAt(n, g[j + 1], j) ELSE g[i]]
  <2>7. /\ j \in 1..Len(lines) /\ last - (m - 1) = j + 1
        /\ j \in Nat /\ last \in Nat /\ last = Len(lines) + 1
    BY <2>2, <2>3
  <2> HIDE DEF j, last
  <2>8. \A i \in (j + 1)..last : g[i] = Step(n, lines, i, g)
    BY <2>6, <2>7
  <2>9. h[j] = UpdateAt(n, g[j + 1], j) /\ \A i \in (j + 1)..last : h[i] = g[i]
    BY <2>7
  <2>10. \A i \in j..last : h[i] = Step(n, lines, i, h)
    <3> TAKE i \in j..last
    <3>1. CASE i = j
      <4>1. j + 1 \in (j + 1)..last /\ ~(j > Len(lines))
        BY <2>7
      <4>2. h[j + 1] = g[j + 1]
        BY <4>1, <2>9
      <4> HIDE DEF h
      <4> QED BY <4>1, <4>2, <3>1, <2>9 DEF Step
    <3>2. CASE i # j
      <4>1. i \in (j + 1)..last
        BY <3>2, <2>7
      <4>2. ~(i > Len(lines)) => i + 1 \in (j + 1)..last
        BY <4>1, <2>7
      <4>3. h[i] = g[i] /\ g[i] = Step(n, lines, i, g)
        BY <4>1, <2>8, <2>9
      <4>4. ~(i > Len(lines)) => h[i + 1] = g[i + 1]
        BY <4>2, <2>9
      <4> HIDE DEF h
      <4> QED BY <4>3, <4>4 DEF Step
    <3> QED BY <3>1, <3>2
  <2>11. From(j, h)
    <3>1. h = [i \in j..last |-> h[i]]
      OBVIOUS
    <3> HIDE DEF h
    <3> QED BY <2>10, <3>1
  <2> HIDE DEF From, h
  <2> QED BY <2>2, <2>11 DEF j
<1>2. \E g : From(1, g)
  <2>1. Len(lines) \in 0..Len(lines) /\ last - Len(lines) = 1
    OBVIOUS
  <2>2. Len(lines) \notin Missing
    BY <1>1
  <2>3. \E g : From(last - Len(lines), g)
    BY <2>1, <2>2
  <2> HIDE DEF From, last
  <2> QED BY <2>1, <2>3
<1> DEFINE after == CHOOSE g : From(1, g)
<1>3. From(1, after)
  <2> HIDE DEF From
  <2> QED BY <1>2
<1>4. UpdateLines(n, lines) = after[1]
  BY DEF UpdateLines, Step
<1> HIDE DEF after
<1>5. \A k \in 1..last : after[k] = Step(n, lines, k, after)
  BY <1>3
<1> QED BY <1>4, <1>5

\* What an edit that leaves the texts alone does to the tasks of a note.
KeepsTasks(a, b) ==
    /\ \A n : Tops(n, a) \subseteq Tops(n, b)
    /\ Cardinality(TaskLines(b)) <= Cardinality(TaskLines(a))
    /\ Cardinality(TaskLines(b)) = Cardinality(TaskLines(a))
         => \A o, text : Says(a, o, text) => Says(b, o, text)

LEMMA KeepsTasksOn ==
    ASSUME NEW a, NEW b, NEW c, IsLines(a), IsLines(b), IsLines(c),
           KeepsTasks(a, b), KeepsTasks(b, c)
    PROVE  KeepsTasks(a, c)
<1> DEFINE x == Cardinality(TaskLines(a))
           y == Cardinality(TaskLines(b))
           z == Cardinality(TaskLines(c))
<1>1. x \in Nat /\ y \in Nat /\ z \in Nat
  BY TaskLinesType
<1>2. y <= x /\ z <= y
  BY DEF KeepsTasks
<1> HIDE DEF x, y, z
<1>3. z <= x /\ (z = x => z = y /\ y = x)
  BY <1>1, <1>2
<1>4. z = x => \A o, text : Says(a, o, text) => Says(c, o, text)
  BY <1>3 DEF KeepsTasks, x, y, z
<1>5. \A n : Tops(n, a) \subseteq Tops(n, c)
  BY DEF KeepsTasks
<1> QED BY <1>3, <1>4, <1>5 DEF KeepsTasks, x, z

LEMMA RewriteKeeps ==
    ASSUME NEW a, IsLines(a), NEW i \in DOMAIN a, a[i].kind = "task",
           NEW area, NEW tags
    PROVE  KeepsTasks(a, Rewritten(a, i, area, tags))
<1> DEFINE b == Rewritten(a, i, area, tags)
<1>1. IsLines(b) /\ \E E, from : /\ Embeds(a, b, E, from)
                                 /\ GoesInBlocks(a, E, from)
                                 /\ \A k \in TaskBlocks(a) : \E p \in E : from[p] = k
  BY RewriteEmbeds
<1> HIDE DEF b
<1>2. PICK E, from : /\ Embeds(a, b, E, from)
                     /\ GoesInBlocks(a, E, from)
                     /\ \A k \in TaskBlocks(a) : \E p \in E : from[p] = k
  BY <1>1
<1>3. ASSUME NEW n
      PROVE  Tops(n, a) \subseteq Tops(n, b)
  BY <1>1, <1>2, EmbedTexts DEF Tops
<1>4. KeepsTasks(a, b)
  BY <1>1, <1>2, <1>3, EmbedSays DEF KeepsTasks
<1> QED BY <1>4 DEF b

Titled(a, i, title) == [a EXCEPT ![i].text = title, ![i].area = None]

\* Changing the title leaves a task at its line.
LEMMA TitledLines ==
    ASSUME NEW a, IsLines(a), NEW i \in DOMAIN a, a[i].kind = "task", NEW title
    PROVE  LET b == Titled(a, i, title)
           IN /\ IsLines(b) /\ DOMAIN b = DOMAIN a /\ b[i].kind = "task"
              /\ b[i].depth = a[i].depth
              /\ \A k \in DOMAIN a : k # i => b[k] = a[k]
<1> DEFINE b == Titled(a, i, title)
           line == [[a[i] EXCEPT !.text = title] EXCEPT !.area = None]
           T == {a[k] : k \in 1..Len(a)} \cup {line}
<1>1. Len(a) \in Nat /\ DOMAIN a = 1..Len(a) /\ \A k \in 1..Len(a) : IsLine(a[k])
  BY LinesShape
<1>2. IsLine(line) /\ line.kind = "task" /\ line.depth = a[i].depth
  <2>1. ASSUME NEW l, IsLine(l), NEW x
        PROVE  /\ IsLine([l EXCEPT !.text = x]) /\ [l EXCEPT !.text = x].kind = l.kind
               /\ IsLine([l EXCEPT !.area = x]) /\ [l EXCEPT !.area = x].kind = l.kind
    BY <2>1 DEF IsLine, Line
  <2>2. IsLine(a[i])
    BY <1>1
  <2> DEFINE half == [a[i] EXCEPT !.text = title]
  <2>3. IsLine(half) /\ half.kind = "task"
    BY <2>1, <2>2
  <2> HIDE DEF half
  <2>4. IsLine([half EXCEPT !.area = None]) /\ [half EXCEPT !.area = None].kind = "task"
    BY <2>1, <2>3
  <2> QED BY <2>4 DEF half
<1>3. /\ DOMAIN b = DOMAIN a /\ b = [k \in DOMAIN a |-> b[k]]
      /\ b[i] = line /\ \A k \in DOMAIN a : k # i => b[k] = a[k]
  <2>1. b = [[a EXCEPT ![i] = [@ EXCEPT !.text = title]]
               EXCEPT ![i] = [@ EXCEPT !.area = None]]
    BY DEF Titled
  <2> QED BY <2>1
<1> HIDE DEF b, line
<1>4. b \in [1..Len(a) -> T]
  BY <1>1, <1>3
<1>5. b \in Seq(T) /\ Len(b) = Len(a)
  BY <1>1, <1>4
<1>6. \A k \in 1..Len(b) : IsLine(b[k])
  BY <1>1, <1>2, <1>3, <1>5
<1>7. IsLines(b)
  <2> HIDE DEF T
  <2> QED BY <1>5, <1>6, LinesOfShape
<1> QED BY <1>2, <1>3, <1>7 DEF b

LEMMA UpdateTaskStep ==
    ASSUME NEW a, IsLines(a), NEW t, t.line \in DOMAIN a, a[t.line].kind = "task"
    PROVE  LET b == UpdateTask(a, t)
           IN /\ IsLines(b)
              /\ t.line <= Len(b)
              /\ \A k \in 1..(t.line - 1) : b[k] = a[k]
              /\ cmd.params.title = None => KeepsTasks(a, b)
<1> DEFINE i == t.line
           titled == IF cmd.params.title = None THEN a
                     ELSE [a EXCEPT ![t.line].text = cmd.params.title,
                                    ![t.line].area = None]
           b == Rewritten(titled, i, UpdatedArea(t), UpdatedTags(t))
<1>1. UpdateTask(a, t) = b
  BY DEF UpdateTask, Rewritten
<1>2. /\ IsLines(titled) /\ DOMAIN titled = DOMAIN a /\ titled[i].kind = "task"
      /\ \A k \in DOMAIN a : k # i => titled[k] = a[k]
      /\ cmd.params.title = None => titled = a
  <2>1. CASE cmd.params.title = None
    BY <2>1
  <2>2. CASE cmd.params.title # None
    <3>1. titled = Titled(a, i, cmd.params.title)
      BY <2>2 DEF Titled
    <3> HIDE DEF titled
    <3> QED BY <2>2, <3>1, TitledLines
  <2> QED BY <2>1, <2>2
<1> HIDE DEF titled
<1>3. IsLines(b) /\ i <= Len(b) /\ \A k \in 1..i : b[k] = titled[k]
  BY <1>2, RewriteEmbeds
<1>4. KeepsTasks(titled, b)
  BY <1>2, RewriteKeeps
<1> HIDE DEF b
<1>5. DOMAIN a = 1..Len(a) /\ Len(a) \in Nat
  BY LinesShape
<1>6. \A k \in 1..(i - 1) : k \in 1..i /\ k \in DOMAIN a /\ k # i
  BY <1>5
<1>7. \A k \in 1..(i - 1) : b[k] = a[k]
  BY <1>2, <1>3, <1>6
<1> QED BY <1>1, <1>2, <1>3, <1>4, <1>7

(***************************************************************************)
(* Each todo is still at its line when its turn comes: all lines above the *)
(* one just edited are as they were.                                       *)
(***************************************************************************)
LEMMA UpdateLinesKeeps ==
    ASSUME NEW n, NEW a, IsLines(a), \A t \in Targets(n) : HasTask(a, t.line)
    PROVE  LET b == UpdateLines(n, a)
           IN IsLines(b) /\ (cmd.params.title = None => KeepsTasks(a, b))
<1>1. Len(a) \in Nat /\ DOMAIN a = 1..Len(a)
  BY LinesShape
<1>2. PICK g : /\ \A k \in 1..(Len(a) + 1) : g[k] = Step(n, a, k, g)
               /\ UpdateLines(n, a) = g[1]
  BY <1>1, UpdateLinesSteps
<1> DEFINE last == Len(a) + 1
           Good(k) ==
              /\ IsLines(g[k])
              /\ k - 1 <= Len(g[k])
              /\ \A l \in 1..(k - 1) : g[k][l] = a[l]
              /\ cmd.params.title = None => KeepsTasks(a, g[k])
           G == {k \in 1..last : Good(k)}
<1>3. Good(last)
  <2>1. last \in 1..last /\ last > Len(a) /\ last - 1 <= Len(a)
    BY <1>1
  <2>2. g[last] = a
    BY <1>2, <2>1 DEF Step
  <2>3. Cardinality(TaskLines(a)) <= Cardinality(TaskLines(a))
    BY TaskLinesType
  <2>4. KeepsTasks(a, a)
    BY <2>3 DEF KeepsTasks
  <2> HIDE DEF last
  <2> QED BY <2>1, <2>2, <2>4
<1>4. ASSUME NEW k \in 1..Len(a), Good(k + 1)
      PROVE  Good(k)
  <2> DEFINE c == g[k + 1]
  <2>1. /\ IsLines(c) /\ k <= Len(c)
        /\ \A l \in 1..k : c[l] = a[l]
        /\ cmd.params.title = None => KeepsTasks(a, c)
    <3>1. k + 1 - 1 = k
      BY <1>1
    <3> QED BY <1>4, <3>1
  <2>2. g[k] = UpdateAt(n, c, k)
    <3>1. k \in 1..(Len(a) + 1) /\ ~(k > Len(a))
      BY <1>1
    <3> QED BY <1>2, <3>1 DEF Step
  <2> HIDE DEF c
  <2>3. DOMAIN c = 1..Len(c) /\ Len(c) \in Nat /\ k \in DOMAIN c
    BY <2>1, <1>1, LinesShape
  <2>4. CASE \E t \in Targets(n) : t.line = k
    <3>1. PICK t \in Targets(n) : t.line = k /\ g[k] = UpdateTask(c, t)
      BY <2>2, <2>4 DEF UpdateAt
    <3>2. a[k].kind = "task"
      BY <3>1 DEF HasTask
    <3>3. c[t.line].kind = "task" /\ t.line \in DOMAIN c
      BY <2>1, <2>3, <3>1, <3>2, <1>1
    <3>4. /\ IsLines(g[k])
          /\ k <= Len(g[k])
          /\ \A l \in 1..(k - 1) : g[k][l] = c[l]
          /\ cmd.params.title = None => KeepsTasks(c, g[k])
      BY <2>1, <3>1, <3>3, UpdateTaskStep
    <3>5. \A l \in 1..(k - 1) : l \in 1..k
      BY <1>1
    <3>6. cmd.params.title = None => KeepsTasks(a, g[k])
      BY <2>1, <3>4, KeepsTasksOn
    <3>7. k - 1 <= Len(g[k])
      <4>1. Len(g[k]) \in Nat
        BY <3>4, LinesShape
      <4> QED BY <4>1, <3>4, <1>1
    <3> QED BY <2>1, <3>4, <3>5, <3>6, <3>7
  <2>5. CASE ~ \E t \in Targets(n) : t.line = k
    <3>1. g[k] = c
      BY <2>2, <2>5 DEF UpdateAt
    <3>2. \A l \in 1..(k - 1) : l \in 1..k
      BY <1>1
    <3>3. k - 1 <= Len(c)
      BY <2>1, <2>3, <1>1
    <3> QED BY <2>1, <3>1, <3>2, <3>3
  <2> QED BY <2>4, <2>5
<1> HIDE DEF Good
<1>5. 1 \in G
  <2>1. last \in Nat /\ 1 <= last /\ last \in G
    BY <1>1, <1>3
  <2>2. ASSUME NEW k \in 1..(last - 1), k + 1 \in G
        PROVE  k \in G
    <3>1. k \in 1..Len(a) /\ k \in 1..last
      BY <1>1
    <3> QED BY <2>2, <3>1, <1>4
  <2> HIDE DEF G, last
  <2> QED BY <2>1, <2>2, DownToOne
<1> QED BY <1>2, <1>5 DEF Good

-----------------------------------------------------------------------------
(***************************************************************************)
(* The walk over the notes, and what a step of each kind keeps.            *)
(***************************************************************************)
LEMMA WalkIsNotes ==
    /\ Walk \in Seq(Note)
    /\ \A v, w \in DOMAIN Walk : Walk[v] = Walk[w] => v = w
    /\ Range(Walk) \subseteq Note
<1> DEFINE S == {w \in DOMAIN Dir : TakesPart(Dir[w])}
           at == Ascending(S)
<1>1. Dir \in Seq(Note) /\ \A v, w \in DOMAIN Dir : Dir[v] = Dir[w] => v = w
  BY DirAssumption
<1>2. S \in SUBSET (DOMAIN Dir)
  OBVIOUS
<1>3. Walk = Pick(Dir, S)
  BY DEF Walk
<1> HIDE DEF S, at
<1>4. /\ Walk \in Seq(Note)
      /\ Ascending(S) \in [1..Len(Walk) -> S]
      /\ \A o \in 1..Len(Walk) : Walk[o] = Dir[Ascending(S)[o]]
      /\ \A o, p \in 1..Len(Walk) : Ascending(S)[o] < Ascending(S)[p] <=> o < p
  BY <1>1, <1>2, <1>3, PickLists
<1>5. DOMAIN Walk = 1..Len(Walk) /\ Len(Walk) \in Nat
  BY <1>4
<1>6. ASSUME NEW v \in DOMAIN Walk, NEW w \in DOMAIN Walk, Walk[v] = Walk[w]
      PROVE  v = w
  <2>1. at[v] \in DOMAIN Dir /\ at[w] \in DOMAIN Dir /\ Dir[at[v]] = Dir[at[w]]
    BY <1>2, <1>4, <1>5, <1>6 DEF at
  <2>2. at[v] = at[w] /\ at[v] \in Nat
    BY <1>1, <2>1
  <2>3. ~(at[v] < at[w]) /\ ~(at[w] < at[v])
    BY <2>2
  <2>4. ~(v < w) /\ ~(w < v)
    BY <2>3, <1>4, <1>5 DEF at
  <2> QED BY <2>4, <1>5
<1>7. Range(Walk) \subseteq Note
  BY <1>4, <1>5 DEF Range
<1> QED BY <1>4, <1>6, <1>7

\* A line that the user inserts makes another note.
LEMMA InsertedLines ==
    ASSUME NEW a, IsLines(a), NEW i \in 2..(Len(a) + 1), NEW line, IsLine(line)
    PROVE  IsLines(InsertAt(a, i, line))
<1> DEFINE T == Range(a) \cup {line}
           b == InsertAt(a, i, line)
<1>1. Len(a) \in Nat /\ a \in Seq(Range(a)) /\ \A r \in Range(a) : IsLine(r)
  BY LinesShape DEF IsLines
<1>2. a \in Seq(T)
  BY <1>1
<1>3. SubSeq(a, 1, i - 1) \in Seq(T) /\ SubSeq(a, i, Len(a)) \in Seq(T) /\ <<line>> \in Seq(T)
  BY <1>1, <1>2
<1>4. b \in Seq(T)
  BY <1>3 DEF InsertAt
<1>5. \A r \in T : IsLine(r)
  BY <1>1
<1> HIDE DEF b, T
<1>6. \A k \in 1..Len(b) : b[k] \in T
  BY <1>4
<1>7. IsLines(b)
  BY <1>4, <1>5, <1>6, LinesOfShape
<1> QED BY <1>7 DEF b

\* A command that has read no note and collected nothing.
Fresh(c) == CommandShape(c) /\ c.buf = None /\ c.edits = <<>> /\ c.bucket = {}

LEMMA FreshIsOK ==
    ASSUME NEW c, Fresh(c), NEW fs, NEW lg, NEW undisturbed, NEW listed,
           \A s \in listed : s.note \in Note /\ Says(fs[s.note], s.order, s.text)
    PROVE  CommandOK(c, fs, lg, undisturbed) /\ SeenStays(listed, fs, c)
<1>1. BufferIsNote(c, fs, undisturbed)
  BY DEF BufferIsNote, Fresh
<1>2. EditsKeepOthers(c, fs, lg, undisturbed)
  <2>1. <<>> \in Seq(Range(<<>>)) /\ DOMAIN <<>> = {}
    OBVIOUS
  <2> QED BY <2>1 DEF EditsKeepOthers, Fresh
<1> QED BY <1>1, <1>2 DEF CommandOK, SeenStays, Fresh

\* A stage that begins.
Begins(c) ==
    /\ IsCommand(c) /\ c.left \in {<<>>, Walk}
    /\ c.buf = None /\ c.targets = {} /\ c.edits = <<>> /\ c.bucket = {}

LEMMA BeginsFresh ==
    ASSUME NEW c, Begins(c)
    PROVE  Fresh(c)
<1>1. <<>> \in Seq(Note) /\ DOMAIN <<>> = {}
  OBVIOUS
<1>2. c.left \in Seq(Note) /\ \A v, w \in DOMAIN c.left : c.left[v] = c.left[w] => v = w
  <2>1. CASE c.left = <<>>
    BY <1>1, <2>1
  <2>2. CASE c.left = Walk
    BY <2>2, WalkIsNotes
  <2> QED BY <2>1, <2>2 DEF Begins
<1> QED BY <1>2 DEF Fresh, Begins, CommandShape

LEMMA StageIsFresh ==
    /\ Fresh(Idle)
    /\ Fresh(NextStage)
    /\ \A plan, ids, params : Fresh([Idle EXCEPT !.plan = plan, !.left = Walk, !.ids = ids,
                                              !.params = params])
<1>1. Begins(Idle)
  BY SMT DEF Begins, Idle, IsCommand
<1>2. Begins(NextStage)
  BY SMT DEF Begins, NextStage, Idle, IsCommand
<1>3. ASSUME NEW plan, NEW ids, NEW params
      PROVE  Begins([Idle EXCEPT !.plan = plan, !.left = Walk, !.ids = ids,
                                 !.params = params])
  BY SMT DEF Begins, Idle, IsCommand
<1> QED BY <1>1, <1>2, <1>3, BeginsFresh, Zenon

\* A step that only changes what the command holds.
LEMMA ReadingStep ==
    ASSUME IInv, UNCHANGED <<files, log, seen, kept, disturbed>>,
           CommandOK(cmd', files, log, ~disturbed), SeenStays(seen, files, cmd')
    PROVE  IInv'
  BY DEF IInv, FilesOK, KeptInNotes, NoTaskLost

LEMMA StartingStep ==
    ASSUME IInv, UNCHANGED <<files, log, seen, kept, disturbed>>, Fresh(cmd')
    PROVE  IInv'
<1>1. \A s \in seen : s.note \in Note /\ Says(files[s.note], s.order, s.text)
  BY DEF IInv, SeenStays
<1> QED BY <1>1, FreshIsOK, ReadingStep

\* A write to a note loses no task if it removes only tasks that are in the log.
LEMMA WritingStep ==
    ASSUME FilesOK, KeptInNotes, NoTaskLost,
           NEW n \in Note, NEW lines, IsLines(lines),
           files' = [files EXCEPT ![n] = lines], log' = log,
           \/ kept' = KeptAfter(n, lines)
           \/ kept' = kept /\ Tops(n, files[n]) \subseteq Tops(n, lines) \cup log
    PROVE  /\ FilesOK' /\ KeptInNotes' /\ NoTaskLost'
           /\ files'[n] = lines /\ \A m \in Note \ {n} : files'[m] = files[m]
<1>1. /\ DOMAIN files = Note /\ DOMAIN files' = Note
      /\ files'[n] = lines /\ \A m \in Note \ {n} : files'[m] = files[m]
  BY DEF FilesOK, Notes
<1>2. FilesOK'
  BY <1>1 DEF FilesOK, Notes
<1>3. \A k \in Tops(n, lines) : k[1] = n
  BY DEF Tops
<1>4. CASE kept' = KeptAfter(n, lines)
  <2>1. \A k \in kept' : (k \in kept /\ (k[1] # n \/ k \in log)) \/ k \in Tops(n, lines)
    BY <1>4 DEF KeptAfter
  <2> QED BY <1>1, <1>2, <1>3, <2>1 DEF KeptInNotes, NoTaskLost
<1>5. CASE kept' = kept /\ Tops(n, files[n]) \subseteq Tops(n, lines) \cup log
  BY <1>1, <1>2, <1>5 DEF KeptInNotes, NoTaskLost
<1> QED BY <1>4, <1>5

-----------------------------------------------------------------------------
(***************************************************************************)
(* The user.                                                               *)
(***************************************************************************)

\* What a command holds need not be true of notes that the user saved meanwhile.
LEMMA DisturbedIsOK ==
    ASSUME NEW c, NEW fs, NEW gs, NEW lg, NEW undisturbed,
           CommandOK(c, fs, lg, undisturbed)
    PROVE  CommandOK(c, gs, lg, FALSE)
<1>1. CommandShape(c)
  BY DEF CommandOK
<1>2. BufferIsNote(c, gs, FALSE)
  BY DEF CommandOK, BufferIsNote
<1>3. EditsKeepOthers(c, gs, lg, FALSE)
  <2>1. EditsKeepOthers(c, fs, lg, undisturbed)
    BY DEF CommandOK
  <2>2. /\ c.edits \in Seq(Range(c.edits))
        /\ c.edits # <<>> \/ c.bucket # {} => In(c, {"archive", "archiveMarked"})
    BY <2>1 DEF EditsKeepOthers
  <2>3. ASSUME NEW e \in DOMAIN c.edits
        PROVE  /\ c.edits[e][1] \in Note \ Range(c.left)
               /\ IsLines(c.edits[e][2])
               /\ \A f \in DOMAIN c.edits : c.edits[f][1] = c.edits[e][1] => e = f
    BY <2>1, Zenon DEF EditsKeepOthers
  <2> QED BY <2>2, <2>3, Zenon DEF EditsKeepOthers
<1> QED BY <1>1, <1>2, <1>3, Zenon DEF CommandOK

LEMMA UserSavesStep ==
    ASSUME IInv, NEW n \in Note, NEW lines, IsLines(lines), UserSaves(n, lines),
           \/ seen' = {}
           \/ seen' = seen /\ \A o, text : Says(files[n], o, text) => Says(lines, o, text)
    PROVE  IInv'
<1>1. /\ files' = [files EXCEPT ![n] = lines] /\ kept' = KeptAfter(n, lines)
      /\ log' = log /\ cmd' = cmd /\ disturbed' = TRUE
  BY DEF UserSaves, Saves
<1>2. /\ FilesOK' /\ KeptInNotes' /\ NoTaskLost'
      /\ files'[n] = lines /\ \A m \in Note \ {n} : files'[m] = files[m]
  BY <1>1, WritingStep DEF IInv
<1>3. CommandOK(cmd, files', log, FALSE)
  BY DisturbedIsOK DEF IInv
<1>4. CommandOK(cmd, files, log, ~disturbed)'
  BY <1>1, <1>3
<1>5. SeenStays(seen', files', cmd)
  <2>1. CASE seen' = {}
    BY <2>1 DEF SeenStays
  <2>2. CASE seen' = seen /\ \A o, text : Says(files[n], o, text) => Says(lines, o, text)
    BY <2>2, <1>2 DEF IInv, SeenStays
  <2> QED BY <2>1, <2>2
<1>6. SeenStays(seen, files, cmd)'
  BY <1>1, <1>5
<1> QED BY <1>2, <1>4, <1>6 DEF IInv

LEMMA UserTicksStep ==
    ASSUME IInv, NEW n \in Range(Walk), NEW i, UserTicks(n, i)
    PROVE  IInv'
<1> DEFINE done == ~files[n][i].done
           lines == [files[n] EXCEPT ![i].done = done]
<1>1. n \in Note /\ IsLines(files[n])
  BY WalkIsNotes DEF IInv, FilesOK, Notes
<1>2. UserSaves(n, lines) /\ seen' = seen
  BY DEF UserTicks
<1> HIDE DEF done
<1>3. OnlyBoxes(files[n], lines)
  BY <1>1, TickSetsBox
<1> HIDE DEF lines
<1>4. IsLines(lines) /\ \A o, text : Says(files[n], o, text) => Says(lines, o, text)
  BY <1>1, <1>3, OnlyBoxesKeep DEF OnlyBoxes
<1> QED BY <1>1, <1>2, <1>4, UserSavesStep

LEMMA UserInsertsStep ==
    ASSUME IInv, NEW n \in Range(Walk), NEW i \in 2..(Len(files[n]) + 1), NEW text,
           UserInserts(n, i, text)
    PROVE  IInv'
<1> DEFINE line == Task(0, text, FALSE, None)
           lines == InsertAt(files[n], i, line)
<1>1. n \in Note /\ IsLines(files[n])
  BY WalkIsNotes DEF IInv, FilesOK, Notes
<1>2. UserSaves(n, lines) /\ seen' = {}
  BY DEF UserInserts
<1>3. IsLine(line)
  BY DEF IsLine, Task, Line
<1> HIDE DEF line
<1>4. IsLines(lines)
  BY <1>1, <1>3, InsertedLines
<1> HIDE DEF lines
<1> QED BY <1>1, <1>2, <1>4, UserSavesStep

LEMMA UserTicksDashboardStep ==
    ASSUME IInv, NEW i, UserTicksDashboard(i)
    PROVE  IInv'
<1>1. /\ files' = files /\ log' = log /\ cmd' = cmd /\ seen' = seen /\ kept' = kept
      /\ disturbed' = TRUE
  BY DEF UserTicksDashboard, Saves
<1>2. CommandOK(cmd, files, log, ~disturbed)
  BY DEF IInv
<1>3. CommandOK(cmd, files, log, FALSE)
  BY <1>2, DisturbedIsOK, Zenon
<1>4. CommandOK(cmd, files, log, ~disturbed)'
  BY <1>1, <1>3, Zenon
<1> QED BY <1>1, <1>4 DEF IInv, FilesOK, KeptInNotes, NoTaskLost

\* What is listed says what stands at its place.
LEMMA ListedSays ==
    ASSUME FilesOK
    PROVE  \A t \in Listed : t.note \in Note /\ Says(files[t.note], t.order, t.text)
<1> TAKE t \in Listed
<1>a. PICK n \in Range(Walk) : t \in TodosIn(n)
  BY DEF Listed
<1>1. PICK i \in TaskLines(files[n]) : t = TodoAt(n, files[n], NoteAreaOf(Meta[n]), i)
  BY <1>a DEF TodosIn
<1>2. n \in Note /\ IsLines(files[n])
  BY WalkIsNotes DEF FilesOK, Notes
<1>3. t.note = n /\ t.text = files[n][i].text /\ t.order = Place(TaskLines(files[n]), i)
  BY <1>1 DEF TodoAt
<1>4. \A k \in TaskLines(files[n]) :
        Place(TaskLines(files[n]), k) = Place(TaskLines(files[n]), i) => k = i
  BY <1>2, TaskLinesType, PlaceTellsApart
<1>5. Says(files[n], t.order, t.text)
  BY <1>3, <1>4 DEF Says
<1> QED BY <1>2, <1>3, <1>5

LEMMA QueryTodosStep ==
    ASSUME IInv, QueryTodos
    PROVE  IInv'
<1>1. UNCHANGED <<files, log, cmd, kept, disturbed>> /\ seen' = Listed /\ cmd.plan = <<>>
  BY DEF QueryTodos
<1>2. cmd.buf = None
  BY <1>1 DEF IInv, CommandOK, CommandShape
<1>3. SeenStays(Listed, files, cmd)
  BY <1>2, ListedSays DEF IInv, SeenStays
<1>4. SeenStays(seen, files, cmd)'
  BY <1>1, <1>3
<1> QED BY <1>1, <1>4 DEF IInv, FilesOK, KeptInNotes, NoTaskLost

LEMMA BeginStep ==
    ASSUME IInv, NEW plan, NEW ids, NEW params, Begin(plan, ids, params)
    PROVE  IInv'
<1>1. /\ UNCHANGED <<files, log, seen, kept>>
      /\ cmd' = [Idle EXCEPT !.plan = plan, !.left = Walk, !.ids = ids, !.params = params]
  BY DEF Begin
<1>2. Fresh(cmd')
  BY <1>1, StageIsFresh, Zenon
<1>3. \A s \in seen : s.note \in Note /\ Says(files[s.note], s.order, s.text)
  BY DEF IInv, SeenStays
<1>4. CommandOK(cmd', files, log, ~disturbed') /\ SeenStays(seen, files, cmd')
  BY <1>2, <1>3, FreshIsOK
<1> QED BY <1>1, <1>4 DEF IInv, FilesOK, KeptInNotes, NoTaskLost

LEMMA UserStep ==
    ASSUME IInv, User
    PROVE  IInv'
<1>1. CASE \E n \in Range(Walk) : \E i \in DOMAIN files[n] : UserTicks(n, i)
  BY <1>1, UserTicksStep
<1>2. CASE \E n \in Range(Walk) : \E i \in 2..(Len(files[n]) + 1), t \in Text :
              UserInserts(n, i, t)
  BY <1>2, UserInsertsStep
<1>3. CASE \E i \in DOMAIN dash : UserTicksDashboard(i)
  BY <1>3, UserTicksDashboardStep
<1>4. CASE QueryTodos
  BY <1>4, QueryTodosStep
<1>5. CASE SyncTodos \/ ArchiveTodos
  BY <1>5, BeginStep DEF SyncTodos, ArchiveTodos
<1>6. CASE \E t \in seen : ToggleTodo(TodoId(t))
  BY <1>6, BeginStep DEF ToggleTodo
<1>7. CASE \E k \in 1..MaxIds, params \in Params :
              \E ids \in kSubset(k, {TodoId(t) : t \in seen}) : UpdateTodos(ids, params)
  BY <1>7, BeginStep DEF UpdateTodos
<1> QED BY <1>1, <1>2, <1>3, <1>4, <1>5, <1>6, <1>7 DEF User

-----------------------------------------------------------------------------
(***************************************************************************)
(* Commands: the steps that write no note.                                 *)
(***************************************************************************)
LEMMA StageIn ==
    ASSUME NEW S, Stage \in S, "idle" \notin S
    PROVE  In(cmd, S) /\ Stage = Head(cmd.plan)
  BY DEF Stage, In

LEMMA EditsAlike ==
    ASSUME NEW c, NEW d, NEW fs, NEW lg, NEW undisturbed,
           EditsKeepOthers(c, fs, lg, undisturbed),
           d.plan = c.plan, d.left = c.left, d.edits = c.edits, d.bucket = c.bucket
    PROVE  EditsKeepOthers(d, fs, lg, undisturbed)
  BY Zenon DEF EditsKeepOthers, In

LEMMA HeldAlike ==
    ASSUME NEW c, NEW d, NEW fs, NEW lg, NEW undisturbed, NEW listed,
           CommandOK(c, fs, lg, undisturbed), SeenStays(listed, fs, c), IsCommand(d),
           d.plan = c.plan, d.left = c.left, d.buf = c.buf, d.targets = c.targets,
           d.edits = c.edits, d.bucket = c.bucket
    PROVE  CommandOK(d, fs, lg, undisturbed) /\ SeenStays(listed, fs, d)
<1>1. CommandShape(d)
  BY DEF CommandOK, CommandShape, In
<1>2. BufferIsNote(d, fs, undisturbed)
  BY DEF CommandOK, BufferIsNote
<1>3. EditsKeepOthers(d, fs, lg, undisturbed)
  BY EditsAlike, Zenon DEF CommandOK
<1>4. SeenStays(listed, fs, d)
  BY DEF SeenStays
<1> QED BY <1>1, <1>2, <1>3, <1>4, Zenon DEF CommandOK

LEMMA ReadSelectionsStep ==
    ASSUME IInv, ReadSelections
    PROVE  IInv'
<1>1. /\ UNCHANGED <<files, log, seen, kept, disturbed>>
      /\ \E x : cmd' = [cmd EXCEPT !.sel = x]
  BY DEF ReadSelections, Files
<1>2. CommandOK(cmd, files, log, ~disturbed) /\ SeenStays(seen, files, cmd)
  BY DEF IInv
<1>3. IsCommand(cmd)
  BY <1>2 DEF CommandOK, CommandShape
<1>4. /\ IsCommand(cmd') /\ cmd'.plan = cmd.plan /\ cmd'.left = cmd.left
      /\ cmd'.buf = cmd.buf /\ cmd'.targets = cmd.targets
      /\ cmd'.edits = cmd.edits /\ cmd'.bucket = cmd.bucket
  BY <1>1, <1>3 DEF IsCommand
<1>5. CommandOK(cmd', files, log, ~disturbed) /\ SeenStays(seen, files, cmd')
  BY <1>2, <1>4, HeldAlike, Zenon
<1> QED BY <1>1, <1>5, ReadingStep

\* A note is read.
LEMMA BufferStep ==
    ASSUME IInv, UNCHANGED <<files, log, seen, kept, disturbed>>,
           cmd' = [cmd EXCEPT !.buf = files[Head(cmd.left)]],
           cmd.plan # <<>>, cmd.left # <<>>,
           In(cmd, {"toggle", "update"}) => cmd.targets # {}
    PROVE  IInv'
<1> DEFINE n == Head(cmd.left)
<1>1. CommandShape(cmd)
  BY DEF IInv, CommandOK
<1>2. n \in Note /\ IsLines(files[n])
  BY <1>1 DEF CommandShape, IInv, FilesOK, Notes
<1>3. /\ IsCommand(cmd') /\ cmd'.buf = files[n] /\ cmd'.plan = cmd.plan
      /\ cmd'.left = cmd.left /\ cmd'.targets = cmd.targets
      /\ cmd'.edits = cmd.edits /\ cmd'.bucket = cmd.bucket
  BY <1>1 DEF CommandShape, IsCommand
<1>4. CommandShape(cmd')
  BY <1>1, <1>3 DEF CommandShape, In
<1>5. BufferIsNote(cmd', files, ~disturbed)
  BY <1>2, <1>3 DEF BufferIsNote
<1>6. EditsKeepOthers(cmd', files, log, ~disturbed)
  <2>1. EditsKeepOthers(cmd, files, log, ~disturbed)
    BY DEF IInv, CommandOK
  <2> QED BY <2>1, <1>3, EditsAlike, Zenon
<1>7. SeenStays(seen, files, cmd')
  BY <1>3 DEF IInv, SeenStays
<1>8. CommandOK(cmd', files, log, ~disturbed)
  BY <1>4, <1>5, <1>6, Zenon DEF CommandOK
<1> QED BY <1>7, <1>8, ReadingStep

LEMMA ReadNoteStep ==
    ASSUME IInv, ReadNote
    PROVE  IInv'
<1>1. /\ UNCHANGED <<files, log, seen, kept, disturbed>>
      /\ cmd' = [cmd EXCEPT !.buf = files[Head(cmd.left)]]
      /\ Stage \in {"sync", "refresh", "archive", "archiveMarked"}
      /\ cmd.left # <<>>
  BY DEF ReadNote, Syncing, Files
<1>2. cmd.plan # <<>> /\ ~In(cmd, {"toggle", "update"})
  BY <1>1, StageIn DEF In
<1> QED BY <1>1, <1>2, BufferStep

LEMMA ReadTargetStep ==
    ASSUME IInv, ReadTarget
    PROVE  IInv'
<1>1. /\ UNCHANGED <<files, log, seen, kept, disturbed>>
      /\ cmd' = [cmd EXCEPT !.buf = files[Head(cmd.left)]]
      /\ cmd.targets # {}
  BY DEF ReadTarget, Files
<1>2. cmd.plan # <<>> /\ cmd.left # <<>>
  BY <1>1 DEF IInv, CommandOK, CommandShape, In
<1> QED BY <1>1, <1>2, BufferStep

\* The notes of the todos that were found are among those of the walk.
LEMMA FindTargetsStep ==
    ASSUME IInv, FindTargets
    PROVE  IInv'
<1> DEFINE found == {t \in Listed : TodoId(t) \in cmd.ids}
           S == {w \in DOMAIN Walk : \E t \in found : t.note = Walk[w]}
           left == Pick(Walk, S)
<1>1. /\ UNCHANGED <<files, log, seen, kept, disturbed>>
      /\ cmd' = [cmd EXCEPT !.targets = found, !.left = left]
      /\ cmd.targets = {} /\ Stage \in {"toggle", "update"}
  BY DEF FindTargets, Files, Editing
<1>2. CommandShape(cmd) /\ EditsKeepOthers(cmd, files, log, ~disturbed)
  BY DEF IInv, CommandOK
<1>3. In(cmd, {"toggle", "update"})
  BY <1>1, StageIn
<1>4. cmd.buf = None /\ cmd.edits = <<>> /\ cmd.bucket = {}
  <2>1. cmd.buf = None
    BY <1>1, <1>2, <1>3 DEF CommandShape
  <2>2. ~In(cmd, {"archive", "archiveMarked"})
    BY <1>3 DEF In
  <2> QED BY <2>1, <2>2, <1>2, Zenon DEF EditsKeepOthers
<1>5. Walk \in Seq(Note) /\ \A v, w \in DOMAIN Walk : Walk[v] = Walk[w] => v = w
  BY WalkIsNotes
<1>6. S \in SUBSET (DOMAIN Walk)
  OBVIOUS
<1> HIDE DEF S
<1>7. /\ left \in Seq(Note)
      /\ Ascending(S) \in [1..Len(left) -> S]
      /\ \A o \in 1..Len(left) : left[o] = Walk[Ascending(S)[o]]
      /\ \A o, p \in 1..Len(left) : Ascending(S)[o] < Ascending(S)[p] <=> o < p
      /\ \A i \in S : \E o \in 1..Len(left) : Ascending(S)[o] = i
  BY <1>5, <1>6, PickLists
<1> HIDE DEF left
<1>8. DOMAIN left = 1..Len(left) /\ Len(left) \in Nat /\ DOMAIN Walk \in SUBSET Nat
  BY <1>5, <1>7
<1>9. ASSUME NEW v \in DOMAIN left, NEW w \in DOMAIN left, left[v] = left[w]
      PROVE  v = w
  <2> DEFINE x == Ascending(S)[v]
             y == Ascending(S)[w]
  <2>1. x \in DOMAIN Walk /\ y \in DOMAIN Walk /\ Walk[x] = Walk[y]
    BY <1>6, <1>7, <1>8, <1>9
  <2>2. x = y /\ x \in Nat
    BY <1>5, <1>8, <2>1
  <2>3. ~(x < y) /\ ~(y < x)
    BY <2>2
  <2>4. ~(v < w) /\ ~(w < v)
    BY <2>3, <1>7, <1>8
  <2> QED BY <2>4, <1>8
<1>10. found # {} => left # <<>>
  <2> SUFFICES ASSUME NEW t \in found
               PROVE  left # <<>>
    OBVIOUS
  <2>1. PICK n \in Range(Walk) : t \in TodosIn(n)
    BY DEF Listed
  <2>2. t.note = n
    BY <2>1 DEF TodosIn, TodoAt
  <2>3. PICK w \in DOMAIN Walk : Walk[w] = n
    BY DEF Range
  <2>4. w \in S
    BY <2>2, <2>3 DEF S
  <2>5. Len(left) # 0
    BY <2>4, <1>7, <1>8
  <2> QED BY <2>5
<1> HIDE DEF found
<1>11. /\ IsCommand(cmd') /\ cmd'.left = left /\ cmd'.targets = found
       /\ cmd'.plan = cmd.plan /\ cmd'.buf = None /\ cmd'.edits = <<>> /\ cmd'.bucket = {}
  BY <1>1, <1>2, <1>4 DEF CommandShape, IsCommand
<1>12. CommandShape(cmd')
  BY <1>3, <1>7, <1>9, <1>10, <1>11 DEF CommandShape, In
<1>13. Fresh(cmd')
  BY <1>11, <1>12 DEF Fresh
<1> QED BY <1>1, <1>13, StartingStep

LEMMA GivesStep ==
    ASSUME IInv, NEW up, Gives(up)
    PROVE  IInv'
<1>1. UNCHANGED <<files, log, seen, kept, disturbed>> /\ cmd' = Idle
  BY DEF Gives, Files
<1>2. Fresh(cmd')
  BY <1>1, StageIsFresh, Zenon
<1> QED BY <1>1, <1>2, StartingStep

LEMMA WriteDashboardStep ==
    ASSUME IInv, WriteDashboard
    PROVE  IInv'
<1>1. UNCHANGED <<files, log, seen, kept, disturbed>> /\ (cmd' = Idle \/ cmd' = NextStage)
  BY DEF WriteDashboard
<1>2. Fresh(cmd')
  BY <1>1, StageIsFresh, Zenon
<1> QED BY <1>1, <1>2, StartingStep

LEMMA NothingToArchiveStep ==
    ASSUME IInv, NothingToArchive
    PROVE  IInv'
<1>1. UNCHANGED <<files, log, seen, kept, disturbed>> /\ (cmd' = Idle \/ cmd' = NextStage)
  BY DEF NothingToArchive, Files
<1>2. Fresh(cmd')
  BY <1>1, StageIsFresh, Zenon
<1> QED BY <1>1, <1>2, StartingStep

-----------------------------------------------------------------------------
(***************************************************************************)
(* Commands: the steps that write a note.                                  *)
(***************************************************************************)

LEMMA HeadAndTail ==
    ASSUME NEW S, NEW seq \in Seq(S), seq # <<>>
    PROVE  /\ Len(seq) \in Nat /\ Len(seq) # 0 /\ DOMAIN seq = 1..Len(seq)
           /\ Head(seq) = seq[1] /\ Tail(seq) \in Seq(S) /\ Len(Tail(seq)) = Len(seq) - 1
           /\ DOMAIN Tail(seq) = 1..Len(Tail(seq))
           /\ \A v \in 1..Len(Tail(seq)) : Tail(seq)[v] = seq[v + 1]
  BY HeadTailProperties, EmptySeq

\* After a note the others are left.
LEMMA TailOfLeft ==
    ASSUME NEW left \in Seq(Note), left # <<>>,
           \A v, w \in DOMAIN left : left[v] = left[w] => v = w
    PROVE  /\ Head(left) \in Note
           /\ Tail(left) \in Seq(Note)
           /\ \A v, w \in DOMAIN Tail(left) : Tail(left)[v] = Tail(left)[w] => v = w
           /\ Range(Tail(left)) \subseteq Range(left) \ {Head(left)}
           /\ Head(left) \in Range(left)
<1> DEFINE tail == Tail(left)
<1>1. /\ Len(left) \in Nat /\ Len(left) # 0 /\ DOMAIN left = 1..Len(left)
      /\ Head(left) = left[1] /\ tail \in Seq(Note) /\ Len(tail) = Len(left) - 1
      /\ \A v \in 1..Len(tail) : tail[v] = left[v + 1]
      /\ DOMAIN tail = 1..Len(tail)
  BY HeadAndTail
<1>2. DOMAIN tail = 1..Len(tail)
  BY <1>1
<1> HIDE DEF tail
<1>3. \A v \in DOMAIN tail : v + 1 \in DOMAIN left /\ v + 1 # 1
  BY <1>1, <1>2
<1>4. \A v, w \in DOMAIN tail : tail[v] = tail[w] => v = w
  <2> TAKE v, w \in DOMAIN tail
  <2> HAVE tail[v] = tail[w]
  <2>1. left[v + 1] = left[w + 1]
    BY <1>1, <1>2
  <2>2. v + 1 = w + 1
    BY <2>1, <1>3
  <2> QED BY <2>2, <1>1, <1>2
<1>5. 1 \in DOMAIN left
  BY <1>1
<1>6. \A v \in DOMAIN tail : tail[v] \in Range(left) \ {left[1]}
  BY <1>1, <1>2, <1>3, <1>5 DEF Range
<1> QED BY <1>1, <1>4, <1>5, <1>6 DEF tail, Range

\* The next note of a stage that has collected nothing.
LEMMA NextNote ==
    ASSUME CommandOK(cmd, files, log, ~disturbed), cmd.buf # None,
           In(cmd, {"sync", "refresh", "toggle", "update"}),
           NEW d, IsCommand(d), d.plan = cmd.plan, d.left = Tail(cmd.left), d.buf = None,
           d.targets = cmd.targets, d.edits = cmd.edits, d.bucket = cmd.bucket,
           In(cmd, {"toggle", "update"}) => Tail(cmd.left) # <<>>
    PROVE  Fresh(d)
<1>1. CommandShape(cmd) /\ cmd.left # <<>> /\ EditsKeepOthers(cmd, files, log, ~disturbed)
  BY DEF CommandOK, BufferIsNote
<1>2. /\ d.left \in Seq(Note)
      /\ \A v, w \in DOMAIN d.left : d.left[v] = d.left[w] => v = w
  BY <1>1, TailOfLeft DEF CommandShape
<1>3. CommandShape(d)
  BY <1>1, <1>2 DEF CommandShape, In
<1>4. d.edits = <<>> /\ d.bucket = {}
  <2>1. ~In(cmd, {"archive", "archiveMarked"})
    BY DEF In
  <2> QED BY <2>1, <1>1, Zenon DEF EditsKeepOthers
<1> QED BY <1>3, <1>4 DEF Fresh

\* The note that was read is written, or left as it is.
LEMMA NoteStep ==
    ASSUME IInv, cmd.buf # None, NEW lines, IsLines(lines),
           \/ files' = files /\ kept' = kept /\ lines = cmd.buf
           \/ /\ files' = [files EXCEPT ![Head(cmd.left)] = lines]
              /\ \/ kept' = KeptAfter(Head(cmd.left), lines)
                 \/ /\ kept' = kept /\ ~disturbed
                    /\ \A n : Tops(n, cmd.buf) \subseteq Tops(n, lines),
           \/ seen' = {}
           \/ seen' = seen /\ \A o, text : Says(cmd.buf, o, text) => Says(lines, o, text),
           log' = log, disturbed' = disturbed, Fresh(cmd')
    PROVE  IInv'
<1> DEFINE n == Head(cmd.left)
<1>1. CommandShape(cmd) /\ BufferIsNote(cmd, files, ~disturbed)
  BY DEF IInv, CommandOK
<1>2. n \in Note /\ (~disturbed => cmd.buf = files[n])
  BY <1>1, TailOfLeft DEF CommandShape, BufferIsNote
<1> HIDE DEF n
<1>3. /\ FilesOK' /\ KeptInNotes' /\ NoTaskLost'
      /\ files'[n] \in {lines, files[n]} /\ \A m \in Note \ {n} : files'[m] = files[m]
  <2>1. CASE files' = files /\ kept' = kept
    BY <2>1 DEF IInv, FilesOK, KeptInNotes, NoTaskLost
  <2>2. CASE /\ files' = [files EXCEPT ![n] = lines]
             /\ \/ kept' = KeptAfter(n, lines)
                \/ /\ kept' = kept /\ ~disturbed
                   /\ \A m : Tops(m, cmd.buf) \subseteq Tops(m, lines)
    <3>1. \/ kept' = KeptAfter(n, lines)
          \/ kept' = kept /\ Tops(n, files[n]) \subseteq Tops(n, lines) \cup log
      BY <2>2, <1>2
    <3> QED BY <2>2, <3>1, <1>2, WritingStep DEF IInv
  <2> QED BY <2>1, <2>2 DEF n
<1>4. ASSUME NEW s \in seen'
      PROVE  s.note \in Note /\ Says(files'[s.note], s.order, s.text)
  <2>1. s \in seen /\ \A o, text : Says(cmd.buf, o, text) => Says(lines, o, text)
    BY <1>4
  <2>2. /\ s.note \in Note /\ Says(files[s.note], s.order, s.text)
        /\ s.note = n => Says(cmd.buf, s.order, s.text)
    BY <2>1 DEF IInv, SeenStays, n
  <2> QED BY <2>1, <2>2, <1>3
<1>5. CommandOK(cmd', files', log', ~disturbed') /\ SeenStays(seen', files', cmd')
  BY <1>4, FreshIsOK
<1> QED BY <1>3, <1>5 DEF IInv

LEMMA SyncNoteStep ==
    ASSUME IInv, SyncNote
    PROVE  IInv'
<1> DEFINE n == Head(cmd.left)
           picked == Picked(n, cmd.buf, cmd.sel)
<1>1. /\ WritesBack(n, picked)
      /\ cmd' = [cmd EXCEPT !.left = Tail(@), !.buf = None, !.todos = @ \o TasksOf(n, picked)]
      /\ log' = log /\ seen' = seen /\ disturbed' = disturbed
      /\ cmd.buf # None /\ Stage \in {"sync", "refresh"}
  BY DEF SyncNote, Syncing
<1>2. /\ CommandOK(cmd, files, log, ~disturbed) /\ CommandShape(cmd)
      /\ BufferIsNote(cmd, files, ~disturbed)
  BY DEF IInv, CommandOK
<1>3. OnlyBoxes(cmd.buf, picked)
  BY <1>1, <1>2, PickedSetsBoxes DEF BufferIsNote
<1> HIDE DEF picked
<1>4. /\ IsLines(picked)
      /\ \A m : Tops(m, cmd.buf) \subseteq Tops(m, picked)
      /\ \A o, text : Says(cmd.buf, o, text) => Says(picked, o, text)
  BY <1>1, <1>2, <1>3, OnlyBoxesKeep DEF OnlyBoxes, BufferIsNote
<1>5. In(cmd, {"sync", "refresh", "toggle", "update"}) /\ ~In(cmd, {"toggle", "update"})
  BY <1>1, StageIn DEF In
<1>6. /\ IsCommand(cmd') /\ cmd'.plan = cmd.plan /\ cmd'.left = Tail(cmd.left)
      /\ cmd'.buf = None /\ cmd'.targets = cmd.targets
      /\ cmd'.edits = cmd.edits /\ cmd'.bucket = cmd.bucket
  BY <1>1, <1>2 DEF CommandShape, IsCommand
<1>7. Fresh(cmd')
  BY <1>1, <1>2, <1>5, <1>6, NextNote, Zenon
<1>8. \/ files' = files /\ kept' = kept /\ picked = cmd.buf
      \/ /\ files' = [files EXCEPT ![n] = picked]
         /\ kept' = KeptAfter(n, picked) \/ (kept' = kept /\ ~disturbed)
  BY <1>1 DEF WritesBack, Writes
<1> QED BY <1>1, <1>4, <1>7, <1>8, NoteStep

LEMMA ToggleTaskIndexTodoStep ==
    ASSUME IInv, ToggleTaskIndexTodo
    PROVE  IInv'
<1> DEFINE n == Head(cmd.left)
<1>1. PICK t \in Targets(n) : Writes(t.note, [cmd.buf EXCEPT ![t.line].done = ~t.done])
  BY DEF ToggleTaskIndexTodo
<1> DEFINE done == ~t.done
           lines == [cmd.buf EXCEPT ![t.line].done = done]
<1>2. /\ cmd' = NextStage /\ log' = log /\ seen' = seen /\ disturbed' = disturbed
      /\ cmd.buf # None
  BY DEF ToggleTaskIndexTodo
<1>3. Writes(n, lines)
  BY <1>1 DEF Targets
<1>4. IsLines(cmd.buf)
  BY <1>2 DEF IInv, CommandOK, BufferIsNote
<1> HIDE DEF done
<1>5. OnlyBoxes(cmd.buf, lines)
  BY <1>4, TickSetsBox
<1> HIDE DEF lines
<1>6. /\ IsLines(lines)
      /\ \A m : Tops(m, cmd.buf) \subseteq Tops(m, lines)
      /\ \A o, text : Says(cmd.buf, o, text) => Says(lines, o, text)
  BY <1>4, <1>5, OnlyBoxesKeep DEF OnlyBoxes
<1>7. Fresh(cmd')
  BY <1>2, StageIsFresh, Zenon
<1>8. /\ files' = [files EXCEPT ![n] = lines]
      /\ kept' = KeptAfter(n, lines) \/ (kept' = kept /\ ~disturbed)
  BY <1>3 DEF Writes
<1> QED BY <1>2, <1>6, <1>7, <1>8, NoteStep

LEMMA UpdateTaskIndexTodosStep ==
    ASSUME IInv, UpdateTaskIndexTodos
    PROVE  IInv'
<1> DEFINE n == Head(cmd.left)
           updated == UpdateLines(n, cmd.buf)
           Tasks(lines) == Cardinality(TaskLines(lines))
<1>1. /\ \A t \in Targets(n) : HasTask(cmd.buf, t.line)
      /\ IF cmd.params.title = None THEN WritesBack(n, updated)
         ELSE /\ files' = [files EXCEPT ![n] = updated]
              /\ kept' = KeptAfter(n, updated)
      /\ seen' = IF cmd.params.title = None /\ Tasks(updated) = Tasks(cmd.buf)
                 THEN seen ELSE {}
      /\ cmd' = IF Tail(cmd.left) = <<>> THEN NextStage
                ELSE [cmd EXCEPT !.left = Tail(@), !.buf = None]
      /\ log' = log /\ disturbed' = disturbed
      /\ cmd.buf # None /\ Stage = "update"
  BY DEF UpdateTaskIndexTodos
<1>2. /\ CommandOK(cmd, files, log, ~disturbed) /\ CommandShape(cmd)
      /\ IsLines(cmd.buf)
  BY <1>1 DEF IInv, CommandOK, BufferIsNote
<1>3. IsLines(updated) /\ (cmd.params.title = None => KeepsTasks(cmd.buf, updated))
  BY <1>1, <1>2, UpdateLinesKeeps
<1> HIDE DEF updated
<1>4. In(cmd, {"sync", "refresh", "toggle", "update"})
  <2>1. In(cmd, {"update"})
    BY <1>1, StageIn
  <2> QED BY <2>1 DEF In
<1>5. Fresh(cmd')
  <2>1. CASE Tail(cmd.left) = <<>>
    BY <2>1, <1>1, StageIsFresh, Zenon
  <2>2. CASE Tail(cmd.left) # <<>>
    <3>1. cmd' = [cmd EXCEPT !.left = Tail(@), !.buf = None]
      BY <2>2, <1>1
    <3>2. /\ IsCommand(cmd') /\ cmd'.plan = cmd.plan /\ cmd'.left = Tail(cmd.left)
          /\ cmd'.buf = None /\ cmd'.targets = cmd.targets
          /\ cmd'.edits = cmd.edits /\ cmd'.bucket = cmd.bucket
      BY <3>1, <1>2 DEF CommandShape, IsCommand
    <3> QED BY <2>2, <3>2, <1>1, <1>2, <1>4, NextNote, Zenon
  <2> QED BY <2>1, <2>2
<1>6. \/ seen' = {}
      \/ /\ seen' = seen
         /\ \A o, text : Says(cmd.buf, o, text) => Says(updated, o, text)
  <2>1. CASE cmd.params.title = None /\ Tasks(updated) = Tasks(cmd.buf)
    BY <2>1, <1>1, <1>3 DEF KeepsTasks
  <2>2. CASE ~(cmd.params.title = None /\ Tasks(updated) = Tasks(cmd.buf))
    <3> HIDE DEF Tasks
    <3> QED BY <2>2, <1>1, Zenon
  <2> QED BY <2>1, <2>2
<1>7. \/ files' = files /\ kept' = kept /\ updated = cmd.buf
      \/ /\ files' = [files EXCEPT ![n] = updated]
         /\ \/ kept' = KeptAfter(n, updated)
            \/ /\ kept' = kept /\ ~disturbed
               /\ \A m : Tops(m, cmd.buf) \subseteq Tops(m, updated)
  <2>1. CASE cmd.params.title = None
    BY <2>1, <1>1, <1>3 DEF WritesBack, Writes, KeepsTasks
  <2>2. CASE cmd.params.title # None
    BY <2>2, <1>1
  <2> QED BY <2>1, <2>2
<1> QED BY <1>1, <1>3, <1>5, <1>6, <1>7, NoteStep

-----------------------------------------------------------------------------
(***************************************************************************)
(* The archive: what is taken out of a note is what was collected from it. *)
(***************************************************************************)
LEMMA RemovedAreChosen ==
    ASSUME NEW a, IsLines(a), NEW chosen \in SUBSET TaskBlocks(a), NEW n
    PROVE  /\ IsLines(RemoveBlocks(a, chosen))
           /\ Tops(n, a) \subseteq Tops(n, RemoveBlocks(a, chosen))
                                     \cup {<<n, a[i].text>> : i \in chosen}
<1> DEFINE b == RemoveBlocks(a, chosen)
<1>1. /\ IsLines(b)
      /\ \E E, from : /\ Embeds(a, b, E, from)
                      /\ GoesInBlocks(a, E, from)
                      /\ \A i \in TaskBlocks(a) \ chosen : \E p \in E : from[p] = i
  BY RemoveEmbeds
<1> HIDE DEF b
<1>2. PICK E, from : /\ Embeds(a, b, E, from)
                     /\ GoesInBlocks(a, E, from)
                     /\ \A i \in TaskBlocks(a) \ chosen : \E p \in E : from[p] = i
  BY <1>1
<1>3. \A i \in TaskBlocks(a) \ chosen : <<n, a[i].text>> \in Tops(n, b)
  BY <1>1, <1>2, EmbedTexts
<1>4. Tops(n, a) \subseteq Tops(n, b) \cup {<<n, a[i].text>> : i \in chosen}
  BY <1>3 DEF Tops
<1> QED BY <1>1, <1>4 DEF b

\* The note just read is the only one whose edit is added.
LEMMA CollectNoteStep ==
    ASSUME IInv, CollectNote
    PROVE  IInv'
<1> DEFINE n == Head(cmd.left)
           chosen == {i \in TaskBlocks(cmd.buf) : ShouldArchive(n, cmd.buf, i)}
           taken == {<<n, cmd.buf[i].text>> : i \in chosen}
           lines == RemoveBlocks(cmd.buf, chosen)
           takes == HasDefaults(n) /\ chosen # {}
           bucket == IF takes THEN cmd.bucket \cup taken ELSE cmd.bucket
           edits == IF takes THEN Append(cmd.edits, <<n, lines>>) ELSE cmd.edits
<1>1. /\ cmd' = [cmd EXCEPT !.left = Tail(@), !.buf = None, !.bucket = bucket,
                            !.edits = edits]
      /\ UNCHANGED <<files, log, seen, kept, disturbed>>
      /\ cmd.buf # None /\ Stage \in {"archive", "archiveMarked"}
  BY DEF CollectNote, Files, Archiving
<1>2. /\ CommandShape(cmd) /\ EditsKeepOthers(cmd, files, log, ~disturbed)
      /\ cmd.left # <<>> /\ IsLines(cmd.buf) /\ (~disturbed => cmd.buf = files[n])
  BY <1>1 DEF IInv, CommandOK, BufferIsNote
<1>3. /\ n \in Note /\ n \in Range(cmd.left)
      /\ Tail(cmd.left) \in Seq(Note)
      /\ \A v, w \in DOMAIN Tail(cmd.left) : Tail(cmd.left)[v] = Tail(cmd.left)[w] => v = w
      /\ Range(Tail(cmd.left)) \subseteq Range(cmd.left) \ {n}
  BY <1>2, TailOfLeft DEF CommandShape
<1>4. In(cmd, {"archive", "archiveMarked"}) /\ ~In(cmd, {"toggle", "update"})
  BY <1>1, StageIn DEF In
<1>5. chosen \in SUBSET TaskBlocks(cmd.buf)
  OBVIOUS
<1> HIDE DEF n, chosen
<1>6. IsLines(lines) /\ Tops(n, cmd.buf) \subseteq Tops(n, lines) \cup taken
  <2>1. IsLines(cmd.buf)
    BY <1>2
  <2> QED BY ONLY <2>1, <1>5, RemovedAreChosen DEF lines, taken
<1> HIDE DEF taken, lines, takes
<1>7. /\ IsCommand(cmd') /\ cmd'.plan = cmd.plan /\ cmd'.left = Tail(cmd.left)
      /\ cmd'.buf = None /\ cmd'.targets = cmd.targets
      /\ cmd'.edits = edits /\ cmd'.bucket = bucket
  <2> HIDE DEF edits, bucket
  <2> QED BY <1>1, <1>2 DEF CommandShape, IsCommand
<1>8. CommandShape(cmd')
  BY <1>2, <1>3, <1>4, <1>7 DEF CommandShape, In
<1>9. BufferIsNote(cmd', files, ~disturbed) /\ SeenStays(seen, files, cmd')
  BY <1>7 DEF BufferIsNote, SeenStays, IInv
<1> DEFINE Keeps(e, es, bs) ==
              /\ es[e][1] \in Note
              /\ IsLines(es[e][2])
              /\ ~disturbed => Tops(es[e][1], files[es[e][1]])
                                 \subseteq Tops(es[e][1], es[e][2]) \cup log \cup bs
<1>10. /\ cmd.edits \in Seq(Range(cmd.edits))
       /\ \A e \in DOMAIN cmd.edits : /\ Keeps(e, cmd.edits, cmd.bucket)
                                      /\ cmd.edits[e][1] \notin Range(cmd.left)
       /\ \A e, f \in DOMAIN cmd.edits : cmd.edits[f][1] = cmd.edits[e][1] => e = f
  BY <1>2, Zenon DEF EditsKeepOthers
<1>11. /\ edits \in Seq(Range(edits))
       /\ \A e \in DOMAIN edits : /\ Keeps(e, edits, bucket)
                                  /\ edits[e][1] \notin Range(Tail(cmd.left))
       /\ \A e, f \in DOMAIN edits : edits[f][1] = edits[e][1] => e = f
  <2>1. CASE ~takes
    BY <2>1, <1>3, <1>10
  <2>2. CASE takes
    <3> DEFINE k == Len(cmd.edits)
               T == Range(cmd.edits) \cup {<<n, lines>>}
    <3>1. /\ edits = Append(cmd.edits, <<n, lines>>) /\ bucket = cmd.bucket \cup taken
          /\ k \in Nat /\ DOMAIN cmd.edits = 1..k
      BY <2>2, <1>10
    <3>2. /\ edits \in Seq(T) /\ DOMAIN edits = 1..(k + 1)
          /\ edits[k + 1] = <<n, lines>>
          /\ \A e \in 1..k : edits[e] = cmd.edits[e]
      BY <3>1, <1>10
    <3>3. edits \in Seq(Range(edits))
      <4> HIDE DEF edits, T
      <4> QED BY <3>2, SeqOfRange
    <3>4. \A e \in 1..(k + 1) : e \in 1..k \/ e = k + 1
      BY <3>1
    <3> HIDE DEF edits, bucket, k
    <3>5. edits[k + 1][1] = n /\ edits[k + 1][2] = lines
      BY <3>2
    <3>6. Keeps(k + 1, edits, bucket) /\ edits[k + 1][1] \notin Range(Tail(cmd.left))
      BY <3>1, <3>5, <1>2, <1>3, <1>6
    <3>7. ASSUME NEW e \in 1..k
          PROVE  Keeps(e, edits, bucket) /\ edits[e][1] \notin Range(cmd.left)
      <4>1. edits[e] = cmd.edits[e]
        BY <3>2
      <4>2. Keeps(e, cmd.edits, cmd.bucket) /\ cmd.edits[e][1] \notin Range(cmd.left)
        BY <3>1, <1>10
      <4> QED BY <4>1, <4>2, <3>1
    <3>8. \A e \in 1..k : edits[e][1] # n /\ edits[e][1] \notin Range(Tail(cmd.left))
      BY <3>7, <1>3
    <3>9. \A e, f \in 1..k : edits[f][1] = edits[e][1] => e = f
      BY <3>1, <3>2, <1>10
    <3> HIDE DEF Keeps
    <3>10. \A e \in 1..(k + 1) : Keeps(e, edits, bucket) /\ edits[e][1] \notin Range(Tail(cmd.left))
      BY <3>4, <3>6, <3>7, <3>8
    <3>11. \A e, f \in 1..(k + 1) : edits[f][1] = edits[e][1] => e = f
      BY <3>4, <3>5, <3>8, <3>9
    <3> QED BY <3>2, <3>3, <3>10, <3>11
  <2> QED BY <2>1, <2>2
<1>12. EditsKeepOthers(cmd', files, log, ~disturbed)
  <2> HIDE DEF edits, bucket
  <2>1. In(cmd', {"archive", "archiveMarked"})
    BY <1>4, <1>7 DEF In
  <2> QED BY <2>1, <1>7, <1>11, Zenon DEF EditsKeepOthers
<1>13. CommandOK(cmd', files, log, ~disturbed)
  BY <1>8, <1>9, <1>12, Zenon DEF CommandOK
<1> QED BY <1>1, <1>9, <1>13, ReadingStep

LEMMA WriteArchiveStep ==
    ASSUME IInv, WriteArchive
    PROVE  IInv'
<1>1. /\ cmd' = [cmd EXCEPT !.bucket = {}] /\ log' = log \cup cmd.bucket
      /\ UNCHANGED <<files, seen, kept, disturbed>>
  BY DEF WriteArchive
<1>2. /\ CommandShape(cmd) /\ EditsKeepOthers(cmd, files, log, ~disturbed)
      /\ BufferIsNote(cmd, files, ~disturbed)
  BY DEF IInv, CommandOK
<1>3. /\ IsCommand(cmd') /\ cmd'.plan = cmd.plan /\ cmd'.left = cmd.left
      /\ cmd'.buf = cmd.buf /\ cmd'.targets = cmd.targets
      /\ cmd'.edits = cmd.edits /\ cmd'.bucket = {}
  BY <1>1, <1>2 DEF CommandShape, IsCommand
<1>4. CommandShape(cmd') /\ BufferIsNote(cmd', files, ~disturbed)
  BY <1>2, <1>3 DEF CommandShape, BufferIsNote, In
<1>5. EditsKeepOthers(cmd', files, log', ~disturbed)
  <2>1. /\ cmd.edits \in Seq(Range(cmd.edits))
        /\ cmd.edits # <<>> => In(cmd, {"archive", "archiveMarked"})
    BY <1>2, Zenon DEF EditsKeepOthers
  <2>2. ASSUME NEW e \in DOMAIN cmd.edits
        PROVE  LET n == cmd.edits[e][1]
                   lines == cmd.edits[e][2]
               IN /\ n \in Note \ Range(cmd.left)
                  /\ IsLines(lines)
                  /\ \A f \in DOMAIN cmd.edits : cmd.edits[f][1] = n => e = f
                  /\ ~disturbed => Tops(n, files[n]) \subseteq Tops(n, lines) \cup log'
    <3>1. LET n == cmd.edits[e][1]
              lines == cmd.edits[e][2]
          IN /\ n \in Note \ Range(cmd.left)
             /\ IsLines(lines)
             /\ \A f \in DOMAIN cmd.edits : cmd.edits[f][1] = n => e = f
             /\ ~disturbed => Tops(n, files[n]) \subseteq Tops(n, lines) \cup log \cup cmd.bucket
      BY <1>2, Zenon DEF EditsKeepOthers
    <3> QED BY <3>1, <1>1
  <2>3. \A n, lines : Tops(n, lines) \cup log' \cup {} = Tops(n, lines) \cup log'
    OBVIOUS
  <2>4. In(cmd', {"archive", "archiveMarked"}) <=> In(cmd, {"archive", "archiveMarked"})
    BY <1>3 DEF In
  <2> QED BY <2>1, <2>2, <2>3, <2>4, <1>3, Zenon DEF EditsKeepOthers
<1>6. CommandOK(cmd', files, log', ~disturbed)
  BY <1>4, <1>5, Zenon DEF CommandOK
<1>7. SeenStays(seen, files, cmd')
  BY <1>3 DEF IInv, SeenStays
<1> QED BY <1>1, <1>6, <1>7 DEF IInv, FilesOK, KeptInNotes, NoTaskLost

\* The edits left are of other notes than the one just pruned.
LEMMA PruneNoteStep ==
    ASSUME IInv, PruneNote
    PROVE  IInv'
<1> DEFINE n == cmd.edits[1][1]
           lines == cmd.edits[1][2]
           tail == Tail(cmd.edits)
<1>1. /\ Stage \in {"archive", "archiveMarked"}
      /\ cmd.left = <<>> /\ cmd.bucket = {} /\ cmd.edits # <<>>
      /\ Writes(Head(cmd.edits)[1], Head(cmd.edits)[2])
      /\ seen' = {} /\ log' = log /\ disturbed' = disturbed
      /\ cmd' = IF tail = <<>> THEN NextStage ELSE [cmd EXCEPT !.edits = tail]
  BY DEF PruneNote, Archiving
<1>2. /\ CommandShape(cmd) /\ EditsKeepOthers(cmd, files, log, ~disturbed)
      /\ cmd.buf = None
  BY <1>1 DEF IInv, CommandOK, BufferIsNote
<1>3. In(cmd, {"archive", "archiveMarked"}) /\ ~In(cmd, {"toggle", "update"})
  BY <1>1, StageIn DEF In
<1> DEFINE Keeps(e, es) ==
              /\ es[e][1] \in Note \ Range(cmd.left)
              /\ IsLines(es[e][2])
              /\ ~disturbed => Tops(es[e][1], files[es[e][1]])
                                 \subseteq Tops(es[e][1], es[e][2]) \cup log \cup cmd.bucket
<1>4. /\ cmd.edits \in Seq(Range(cmd.edits))
      /\ \A e \in DOMAIN cmd.edits : Keeps(e, cmd.edits)
      /\ \A e, f \in DOMAIN cmd.edits : cmd.edits[f][1] = cmd.edits[e][1] => e = f
  BY <1>2, Zenon DEF EditsKeepOthers
<1>5. /\ Len(cmd.edits) \in Nat /\ Len(cmd.edits) # 0
      /\ DOMAIN cmd.edits = 1..Len(cmd.edits)
      /\ Head(cmd.edits) = cmd.edits[1]
      /\ tail \in Seq(Range(cmd.edits)) /\ Len(tail) = Len(cmd.edits) - 1
      /\ \A e \in 1..Len(tail) : tail[e] = cmd.edits[e + 1]
      /\ DOMAIN tail = 1..Len(tail)
  BY <1>1, <1>4, HeadAndTail
<1>6. DOMAIN tail = 1..Len(tail)
  BY <1>5
<1>7. 1 \in DOMAIN cmd.edits /\ \A e \in DOMAIN tail : e + 1 \in DOMAIN cmd.edits /\ e + 1 # 1
  BY <1>5, <1>6
<1>8. /\ n \in Note /\ IsLines(lines)
      /\ ~disturbed => Tops(n, files[n]) \subseteq Tops(n, lines) \cup log
  BY <1>1, <1>4, <1>7
<1>9. /\ files' = [files EXCEPT ![n] = lines]
      /\ \/ kept' = KeptAfter(n, lines)
         \/ kept' = kept /\ ~disturbed
  BY <1>1, <1>5 DEF Writes
<1>10. \A e \in DOMAIN tail : Keeps(e, tail) /\ tail[e][1] # n
  <2> TAKE e \in DOMAIN tail
  <2>1. tail[e] = cmd.edits[e + 1] /\ e + 1 \in DOMAIN cmd.edits /\ e + 1 # 1
    BY <1>5, <1>6, <1>7
  <2>2. Keeps(e + 1, cmd.edits)
    BY <2>1, <1>4
  <2>3. cmd.edits[e + 1][1] # cmd.edits[1][1]
    BY <2>1, <1>4, <1>7
  <2> HIDE DEF tail
  <2> QED BY <2>1, <2>2, <2>3
<1>11. \A e, f \in DOMAIN tail : tail[f][1] = tail[e][1] => e = f
  <2> TAKE e, f \in DOMAIN tail
  <2> HAVE tail[f][1] = tail[e][1]
  <2>1. e + 1 = f + 1
    BY <1>4, <1>5, <1>6, <1>7
  <2> QED BY <2>1, <1>5, <1>6
<1>12. tail \in Seq(Range(tail))
  <2> HIDE DEF tail
  <2> QED BY <1>5, SeqOfRange
<1> HIDE DEF n, lines, tail
<1>13. /\ FilesOK' /\ KeptInNotes' /\ NoTaskLost'
       /\ \A m \in Note \ {n} : files'[m] = files[m]
  BY <1>1, <1>8, <1>9, WritingStep DEF IInv
<1>14. SeenStays(seen', files', cmd')
  BY <1>1 DEF SeenStays
<1>15. CommandOK(cmd', files', log, ~disturbed)
  <2>1. CASE tail = <<>>
    <3>1. Fresh(cmd')
      BY <2>1, <1>1, StageIsFresh, Zenon
    <3>2. \A s \in {} : s.note \in Note /\ Says(files'[s.note], s.order, s.text)
      OBVIOUS
    <3>3. CommandOK(cmd', files', log, ~disturbed) /\ SeenStays({}, files', cmd')
      BY <3>1, <3>2, FreshIsOK
    <3> QED BY <3>3
  <2>2. CASE tail # <<>>
    <3>1. /\ IsCommand(cmd') /\ cmd'.plan = cmd.plan /\ cmd'.left = cmd.left
          /\ cmd'.buf = None /\ cmd'.targets = cmd.targets
          /\ cmd'.edits = tail /\ cmd'.bucket = cmd.bucket
      BY <2>2, <1>1, <1>2 DEF CommandShape, IsCommand
    <3>2. CommandShape(cmd') /\ BufferIsNote(cmd', files', ~disturbed)
      BY <3>1, <1>2 DEF CommandShape, BufferIsNote, In
    <3>3. \A e \in DOMAIN tail : files'[tail[e][1]] = files[tail[e][1]]
      BY <1>10, <1>13
    <3>4. In(cmd', {"archive", "archiveMarked"})
      BY <3>1, <1>3 DEF In
    <3>5. EditsKeepOthers(cmd', files', log, ~disturbed)
      BY <3>1, <3>3, <3>4, <1>10, <1>11, <1>12, Zenon DEF EditsKeepOthers
    <3> QED BY <3>2, <3>5, Zenon DEF CommandOK
  <2> QED BY <2>1, <2>2
<1> QED BY <1>1, <1>13, <1>14, <1>15 DEF IInv

LEMMA CommandStep ==
    ASSUME IInv, Command
    PROVE  IInv'
<1>1. CASE Stops \/ TodoNotFound \/ NoCheckbox \/ AlreadyToggled
  BY <1>1, GivesStep DEF Stops, TodoNotFound, NoCheckbox, AlreadyToggled
<1>2. CASE ReadSelections \/ ReadNote \/ SyncNote \/ WriteDashboard
  BY <1>2, ReadSelectionsStep, ReadNoteStep, SyncNoteStep, WriteDashboardStep
<1>3. CASE FindTargets \/ ReadTarget \/ ToggleTaskIndexTodo \/ UpdateTaskIndexTodos
  BY <1>3, FindTargetsStep, ReadTargetStep, ToggleTaskIndexTodoStep,
     UpdateTaskIndexTodosStep
<1>4. CASE CollectNote \/ WriteArchive \/ PruneNote \/ NothingToArchive
  BY <1>4, CollectNoteStep, WriteArchiveStep, PruneNoteStep, NothingToArchiveStep
<1> QED BY <1>1, <1>2, <1>3, <1>4 DEF Command

-----------------------------------------------------------------------------
(***************************************************************************)
(* The theorems.                                                           *)
(***************************************************************************)

\* At first no command runs and nothing was listed.
LEMMA InitIInv ==
    ASSUME Init
    PROVE  IInv
<1>1. Notes(files)
  BY ContentsAssumption DEF Init, Notes
<1>2. FilesOK
  BY <1>1 DEF FilesOK, Notes
<1>3. \A k \in kept : \E n \in Note : k \in Tops(n, files[n]) /\ k[1] = n
  BY DEF Init, Tops
<1>4. KeptInNotes /\ NoTaskLost
  BY <1>3 DEF KeptInNotes, NoTaskLost
<1>5. Fresh(cmd) /\ seen = {}
  <2>1. cmd = Idle /\ seen = {}
    BY DEF Init
  <2> QED BY <2>1, StageIsFresh, Zenon
<1>6. CommandOK(cmd, files, log, ~disturbed) /\ SeenStays(seen, files, cmd)
  BY <1>5, FreshIsOK
<1> QED BY <1>2, <1>4, <1>6 DEF IInv

LEMMA NextIInv ==
    ASSUME IInv, [Next]_vars
    PROVE  IInv'
<1>1. CASE UNCHANGED vars
  <2>1. /\ files' = files /\ log' = log /\ cmd' = cmd /\ seen' = seen /\ kept' = kept
        /\ disturbed' = disturbed
    BY <1>1 DEF vars
  <2>2. CommandOK(cmd', files, log, ~disturbed) /\ SeenStays(seen, files, cmd')
    BY <2>1, Zenon DEF IInv
  <2> QED BY <2>1, <2>2, ReadingStep
<1> QED BY <1>1, UserStep, CommandStep DEF Next

(***************************************************************************)
(* What the two properties rest on, in every reachable state: the note in  *)
(* the buffer is the note on disk unless the user saved a file meanwhile;  *)
(* an edit that waits for the archive takes only tasks out of its note     *)
(* that the life log has or is about to get; a todo that was listed is the *)
(* task at its place in the note and in the buffer.                        *)
(***************************************************************************)
THEOREM InductiveInvariant == Spec => []IInv
<1>1. Init => IInv
  BY InitIInv
<1>2. IInv /\ [Next]_vars => IInv'
  BY NextIInv
<1> QED BY <1>1, <1>2, PTL DEF Spec

(***************************************************************************)
(* A task that the user wrote is in its note or in the life log: for all   *)
(* notes, contents and edits, and wherever a command stops.  Where a       *)
(* command writes a note after the user saved a file under it, the tasks   *)
(* of that note are from then on those that it wrote (KeptAfter).          *)
(***************************************************************************)
THEOREM TasksAreKept == Spec => []NoTaskLost
<1>1. IInv => NoTaskLost
  BY DEF IInv
<1> QED BY <1>1, InductiveInvariant, PTL

(***************************************************************************)
(* An id that mw query todos listed names a task of the same text, or no   *)
(* task, as long as no line with a task was added, removed or retitled.    *)
(***************************************************************************)
THEOREM IdsStayTrue == Spec => []IdsNameTheSame
<1>1. IInv => IdsNameTheSame
  <2> SUFFICES ASSUME IInv, NEW s \in seen, NEW t \in Listed, TodoId(t) = TodoId(s)
               PROVE  t.text = s.text
    BY DEF IdsNameTheSame
  <2>1. t.note = s.note /\ t.order = s.order
    BY DEF TodoId
  <2>2. Says(files[s.note], s.order, s.text)
    BY DEF IInv, SeenStays
  <2>3. PICK n \in Range(Walk) : t \in TodosIn(n)
    BY DEF Listed
  <2>4. PICK i \in TaskLines(files[n]) : t = TodoAt(n, files[n], NoteAreaOf(Meta[n]), i)
    BY <2>3 DEF TodosIn
  <2>5. t.note = n /\ t.text = files[n][i].text /\ t.order = Place(TaskLines(files[n]), i)
    BY <2>4 DEF TodoAt
  <2> QED BY <2>1, <2>2, <2>5 DEF Says
<1> QED BY <1>1, InductiveInvariant, PTL

-----------------------------------------------------------------------------
(***************************************************************************)
(* An update is local.  Two notes a and b that differ only in the block    *)
(* of the task at line i, and in what that line says; the lines below the  *)
(* block may have moved.                                                   *)
(***************************************************************************)
BlockEdited(a, b, i) ==
    /\ IsLines(a) /\ IsLines(b)
    /\ i \in DOMAIN a /\ i \in DOMAIN b
    /\ a[i].kind = "task" /\ b[i].kind = "task" /\ a[i].depth = b[i].depth
    /\ \A p \in 1..(i - 1) : a[p] = b[p]
    /\ Len(a) - BlockEnd(a, i) = Len(b) - BlockEnd(b, i)
    /\ \A j \in BlockEnd(a, i)..Len(a) :
          a[j] = b[j - BlockEnd(a, i) + BlockEnd(b, i)]

\* The lines outside the block, and where such a line is in the other note.
Stay(a, i) == (1..i) \cup (BlockEnd(a, i)..Len(a))
To(a, b, i, j) == IF j <= i THEN j ELSE j - BlockEnd(a, i) + BlockEnd(b, i)

LEMMA EditedLines ==
    ASSUME NEW a, NEW b, NEW i, BlockEdited(a, b, i)
    PROVE  /\ Len(a) \in Nat /\ DOMAIN a = 1..Len(a) /\ i \in 1..Len(a)
           /\ BlockEnd(a, i) \in (i + 1)..(Len(a) + 1)
           /\ BlockEnd(a, i) <= Len(a) => Closes(a, i, BlockEnd(a, i))
           /\ \A p \in (i + 1)..(BlockEnd(a, i) - 1) :
                 ~IsHeading(a[p]) /\ (a[p].kind = "blank" \/ a[p].depth > a[i].depth)
           /\ \A p \in 1..Len(a) :
                 /\ a[p].depth \in Nat
                 /\ p \in Stay(a, i) \/ p \in (i + 1)..(BlockEnd(a, i) - 1)
<1> DEFINE e == BlockEnd(a, i)
<1>1. /\ Len(a) \in Nat /\ DOMAIN a = 1..Len(a) /\ i \in 1..Len(a)
      /\ \A p \in 1..Len(a) : a[p].depth \in Nat
  BY LinesShape DEF BlockEdited
<1>2. /\ e \in (i + 1)..(Len(a) + 1)
      /\ \A j \in (i + 1)..Len(a) : j < e => ~Closes(a, i, j)
      /\ e <= Len(a) => Closes(a, i, e)
  BY BlockEndCloses DEF BlockEdited
<1> HIDE DEF e
<1>3. ASSUME NEW p \in (i + 1)..(e - 1)
      PROVE  ~IsHeading(a[p]) /\ (a[p].kind = "blank" \/ a[p].depth > a[i].depth)
  <2>1. p \in (i + 1)..Len(a) /\ p < e /\ p \in 1..Len(a)
    BY <1>1, <1>2
  <2>2. ~Closes(a, i, p) /\ a[p].depth \in Nat /\ a[i].depth \in Nat
    BY <2>1, <1>1, <1>2
  <2> QED BY <2>2 DEF Closes, IsHeading
<1>4. ASSUME NEW p \in 1..Len(a)
      PROVE  p \in Stay(a, i) \/ p \in (i + 1)..(e - 1)
  BY <1>1, <1>2 DEF Stay, e
<1> QED BY <1>1, <1>2, <1>3, <1>4 DEF e

LEMMA EditedSymmetric ==
    ASSUME NEW a, NEW b, NEW i, BlockEdited(a, b, i)
    PROVE  BlockEdited(b, a, i)
<1> DEFINE e == BlockEnd(a, i)
           f == BlockEnd(b, i)
<1>1. /\ IsLines(a) /\ IsLines(b) /\ i \in DOMAIN a /\ i \in DOMAIN b
      /\ Len(a) - e = Len(b) - f
      /\ \A j \in e..Len(a) : a[j] = b[j - e + f]
  BY DEF BlockEdited
<1>2. e \in Nat /\ f \in Nat /\ Len(a) \in Nat /\ Len(b) \in Nat
  <2>1. Len(a) \in Nat /\ Len(b) \in Nat /\ DOMAIN a = 1..Len(a) /\ DOMAIN b = 1..Len(b)
    BY <1>1, LinesShape
  <2> QED BY <2>1, <1>1, BlockEndCloses
<1> HIDE DEF e, f
<1>3. ASSUME NEW j \in f..Len(b)
      PROVE  b[j] = a[j - f + e]
  <2> DEFINE k == j - f + e
  <2>1. k \in e..Len(a) /\ k - e + f = j
    BY <1>1, <1>2
  <2> HIDE DEF k
  <2>2. a[k] = b[k - e + f]
    BY <2>1, <1>1
  <2> QED BY <2>1, <2>2 DEF k
<1>4. Len(b) - f = Len(a) - e /\ \A j \in f..Len(b) : b[j] = a[j - f + e]
  BY <1>1, <1>3
<1> QED BY <1>4 DEF BlockEdited, e, f

LEMMA EditedStays ==
    ASSUME NEW a, NEW b, NEW i, BlockEdited(a, b, i), NEW j \in Stay(a, i)
    PROVE  LET t == To(a, b, i, j)
           IN /\ j \in 1..Len(a) /\ t \in Stay(b, i) /\ t \in 1..Len(b)
              /\ To(b, a, i, t) = j
              /\ b[t].kind = a[j].kind /\ b[t].depth = a[j].depth
              /\ j # i => b[t] = a[j]
              /\ \A k \in Stay(a, i) : j < k <=> t < To(a, b, i, k)
<1> DEFINE e == BlockEnd(a, i)
           f == BlockEnd(b, i)
           t == To(a, b, i, j)
<1>1. BlockEdited(b, a, i)
  BY EditedSymmetric
<1>2. /\ Len(a) \in Nat /\ i \in 1..Len(a) /\ e \in (i + 1)..(Len(a) + 1)
      /\ Len(b) \in Nat /\ i \in 1..Len(b) /\ f \in (i + 1)..(Len(b) + 1)
      /\ Len(a) - e = Len(b) - f
  BY <1>1, EditedLines DEF BlockEdited
<1>3. /\ \A p \in 1..(i - 1) : a[p] = b[p]
      /\ \A k \in e..Len(a) : a[k] = b[k - e + f]
      /\ a[i].kind = b[i].kind /\ a[i].depth = b[i].depth
  BY DEF BlockEdited
<1>4. \A k \in Stay(a, i) : k \in 1..i \/ k \in e..Len(a)
  BY DEF Stay
<1>5. \A k \in Stay(a, i) : To(a, b, i, k) = IF k <= i THEN k ELSE k - e + f
  BY DEF To
<1>6. \A k : To(b, a, i, k) = IF k <= i THEN k ELSE k - f + e
  BY DEF To
<1>7. \A k : k \in 1..i \/ k \in f..Len(b) => k \in Stay(b, i)
  BY DEF Stay
<1> HIDE DEF e, f
<1>8. CASE j \in 1..i
  <2>1. t = j
    BY <1>5, <1>8, <1>2
  <2>2. \A k \in Stay(a, i) : j < k <=> j < To(a, b, i, k)
    BY <1>4, <1>5, <1>8, <1>2
  <2>3. j # i => j \in 1..(i - 1)
    BY <1>8, <1>2
  <2>4. To(b, a, i, j) = j
    BY <1>6, <1>8, <1>2
  <2> HIDE DEF t
  <2> QED BY <2>1, <2>2, <2>3, <2>4, <1>2, <1>3, <1>7, <1>8 DEF t
<1>9. CASE j \in e..Len(a)
  <2>1. t = j - e + f /\ t \in f..Len(b) /\ ~(t <= i)
    BY <1>5, <1>9, <1>2
  <2> HIDE DEF t
  <2>2. ASSUME NEW k \in Stay(a, i)
        PROVE  j < k <=> t < To(a, b, i, k)
    <3>1. CASE k \in 1..i
      <4>1. To(a, b, i, k) = k
        BY <3>1, <1>5, <1>2
      <4> QED BY <4>1, <3>1, <1>2, <1>9, <2>1
    <3>2. CASE k \in e..Len(a)
      <4>1. To(a, b, i, k) = k - e + f
        BY <3>2, <1>5, <1>2
      <4> QED BY <4>1, <3>2, <1>2, <1>9, <2>1
    <3> QED BY <3>1, <3>2, <1>4
  <2>3. To(b, a, i, t) = j
    <3>1. To(b, a, i, t) = t - f + e
      BY <1>6, <2>1
    <3> QED BY <3>1, <1>9, <1>2, <2>1
  <2>4. a[j] = b[t]
    BY <1>3, <1>9, <2>1
  <2>5. j \in 1..Len(a) /\ t \in 1..Len(b) /\ t \in Stay(b, i)
    BY <1>9, <2>1, <1>2, <1>7
  <2> QED BY <2>2, <2>3, <2>4, <2>5 DEF t
<1> QED BY <1>4, <1>8, <1>9

\* The lines outside the block are below a heading Todo or not, as before.
LEMMA EditedInTodo ==
    ASSUME NEW a, NEW b, NEW i, BlockEdited(a, b, i), NEW j \in Stay(a, i)
    PROVE  j \in TaskLines(a) <=> To(a, b, i, j) \in TaskLines(b)
<1> DEFINE E == Stay(b, i)
           from == [q \in E |-> To(b, a, i, q)]
           t == To(a, b, i, j)
<1>1. BlockEdited(b, a, i)
  BY EditedSymmetric
<1>2. IsLines(a) /\ IsLines(b) /\ DOMAIN a = 1..Len(a) /\ DOMAIN b = 1..Len(b)
  BY <1>1, EditedLines DEF BlockEdited
<1>3. \A q \in E : /\ q \in 1..Len(b) /\ from[q] \in 1..Len(a)
                   /\ b[q].kind = a[from[q]].kind /\ b[q].depth = a[from[q]].depth
                   /\ \A r \in E : q < r <=> from[q] < from[r]
  BY <1>1, EditedStays
<1>4. from \in [E -> DOMAIN a] /\ E \subseteq DOMAIN b
  BY <1>2, <1>3
<1>5. \A q \in DOMAIN b \ E : ~IsHeading(b[q])
  BY <1>1, <1>2, EditedLines
<1>6. ASSUME NEW k \in DOMAIN a, IsHeading(a[k])
      PROVE  \E q \in E : from[q] = k
  <2>1. k \in Stay(a, i)
    BY <1>2, <1>6, EditedLines
  <2>2. To(a, b, i, k) \in E /\ To(b, a, i, To(a, b, i, k)) = k
    BY <2>1, EditedStays
  <2> QED BY <2>2
<1>7. t \in E /\ from[t] = j /\ b[t].kind = a[j].kind /\ t \in DOMAIN b /\ j \in DOMAIN a
  BY <1>2, EditedStays
<1> HIDE DEF E, from, t
<1>8. SameHeadings(a, b, E, from)
  BY <1>3, <1>4, <1>5, <1>6 DEF SameHeadings
<1>9. InTodo(b, t) <=> InTodo(a, j)
  BY <1>2, <1>7, <1>8, EmbedInTodo
<1> QED BY <1>7, <1>9 DEF TaskLines, t

(***************************************************************************)
(* Of two lines outside the block, one is in the block of the other or     *)
(* not, as before.  The block between them, if there is one, closes        *)
(* nothing, since line i does not.                                         *)
(***************************************************************************)
LEMMA EditedNesting ==
    ASSUME NEW a, NEW b, NEW i, BlockEdited(a, b, i),
           NEW k \in Stay(a, i), NEW j \in Stay(a, i), k < j, j < BlockEnd(a, k)
    PROVE  To(a, b, i, j) < BlockEnd(b, To(a, b, i, k))
<1> DEFINE s == To(a, b, i, k)
           t == To(a, b, i, j)
<1>1. BlockEdited(b, a, i) /\ IsLines(a) /\ IsLines(b)
  BY EditedSymmetric DEF BlockEdited
<1>2. /\ Len(a) \in Nat /\ DOMAIN a = 1..Len(a) /\ i \in 1..Len(a)
      /\ Len(b) \in Nat /\ DOMAIN b = 1..Len(b) /\ i \in 1..Len(b)
      /\ \A p \in 1..Len(a) : a[p].depth \in Nat
      /\ \A p \in 1..Len(b) : b[p].depth \in Nat
  BY <1>1, EditedLines
<1>3. /\ k \in 1..Len(a) /\ j \in 1..Len(a) /\ s < t
      /\ s \in 1..Len(b) /\ t \in 1..Len(b) /\ s \in Stay(b, i) /\ t \in Stay(b, i)
      /\ b[s].depth = a[k].depth /\ To(b, a, i, s) = k /\ To(b, a, i, t) = j
  BY EditedStays
<1> HIDE DEF s, t
<1>4. /\ BlockEnd(a, k) \in (k + 1)..(Len(a) + 1)
      /\ \A l \in (k + 1)..Len(a) : l < BlockEnd(a, k) => ~Closes(a, k, l)
      /\ BlockEnd(b, s) \in (s + 1)..(Len(b) + 1)
      /\ BlockEnd(b, s) <= Len(b) => Closes(b, s, BlockEnd(b, s))
  BY <1>1, <1>2, <1>3, BlockEndCloses
<1> DEFINE m == BlockEnd(b, s)
<1>5. SUFFICES ASSUME m <= t
               PROVE  FALSE
  BY <1>3, <1>4 DEF s, t
<1>6. m \in (s + 1)..t /\ m \in 1..Len(b) /\ Closes(b, s, m)
  <2>1. m \in Nat /\ m \in (s + 1)..(Len(b) + 1) /\ (m <= Len(b) => Closes(b, s, m))
    BY <1>2, <1>3, <1>4
  <2> HIDE DEF m
  <2> QED BY <2>1, <1>2, <1>3, <1>5
<1> HIDE DEF m
<1>7. CASE m \in Stay(b, i)
  <2> DEFINE l == To(b, a, i, m)
  <2>1. /\ l \in 1..Len(a) /\ a[l].kind = b[m].kind /\ a[l].depth = b[m].depth
        /\ k < l
    BY <1>1, <1>3, <1>6, <1>7, EditedStays
  <2>2. ~(j < l)
    <3>1. t < m <=> j < l
      BY <1>1, <1>3, <1>7, EditedStays
    <3> QED BY <3>1, <1>3, <1>6
  <2> HIDE DEF l
  <2>3. l \in (k + 1)..Len(a) /\ l < BlockEnd(a, k)
    BY <2>1, <2>2, <1>3, <1>4
  <2>4. ~Closes(a, k, l)
    BY <2>3, <1>4
  <2> QED BY <2>1, <2>4, <1>3, <1>6 DEF Closes, IsHeading
<1>8. CASE m \in (i + 1)..(BlockEnd(b, i) - 1)
  <2>1. ~IsHeading(b[m]) /\ (b[m].kind = "blank" \/ b[m].depth > b[i].depth)
    BY <1>1, <1>8, EditedLines
  <2>2. b[i].depth = a[i].depth /\ a[i].kind = "task" /\ b[i].kind = "task"
    BY DEF BlockEdited
  <2> DEFINE f == BlockEnd(b, i)
  <2>10. f \in (i + 1)..(Len(b) + 1) /\ m \in (i + 1)..(f - 1)
    BY <1>1, <1>8, EditedLines
  <2>11. s \in 1..i \/ s \in f..Len(b)
    BY <1>3 DEF Stay
  <2>12. t \in 1..i \/ t \in f..Len(b)
    BY <1>3 DEF Stay
  <2> HIDE DEF f
  <2>3. s <= i /\ f <= t /\ i < t
    BY <1>2, <1>3, <1>6, <2>10, <2>11, <2>12
  <2>4. k = s /\ i < j
    <3>1. i \in Stay(b, i) /\ To(b, a, i, i) = i /\ To(b, a, i, s) = s
      BY <1>2, <2>3 DEF Stay, To
    <3>2. i < t
      BY <2>3
    <3>3. i < t <=> To(b, a, i, i) < To(b, a, i, t)
      BY <1>1, <1>3, <3>1, EditedStays
    <3> QED BY <1>3, <3>1, <3>2, <3>3
  <2>5. k # i
    <3>1. CASE k = i
      <4>1. j \in BlockEnd(a, i)..Len(a)
        BY <1>2, <1>3, <2>4 DEF Stay
      <4> QED BY <4>1, <3>1, <1>3, <1>4
    <3> QED BY <3>1
  <2>6. ~Closes(a, k, i)
    <3>1. i \in (k + 1)..Len(a) /\ i < BlockEnd(a, k)
      BY <1>2, <1>3, <1>4, <2>3, <2>4, <2>5
    <3> QED BY <3>1, <1>4
  <2>7. a[i].depth > a[k].depth
    <3>1. a[i].depth \in Nat /\ a[k].depth \in Nat
      BY <1>2, <1>3
    <3> QED BY <3>1, <2>2, <2>6 DEF Closes
  <2>8. b[m].kind = "blank" \/ b[m].depth > b[s].depth
    <3>1. /\ b[m].depth \in Nat /\ b[s].depth \in Nat /\ b[i].depth \in Nat
          /\ b[s].depth = a[k].depth
      BY <1>2, <1>3, <1>6
    <3> QED BY <3>1, <2>1, <2>2, <2>7
  <2>9. ~Closes(b, s, m)
    <3>1. b[m].depth \in Nat /\ b[s].depth \in Nat
      BY <1>2, <1>3, <1>6
    <3> QED BY <3>1, <2>1, <2>8 DEF Closes
  <2> QED BY <2>9, <1>6
<1> QED BY <1>1, <1>6, <1>7, <1>8, EditedLines

\* A task in the block is not on top, and no line outside is in its own block.
LEMMA EditedBody ==
    ASSUME NEW a, NEW b, NEW i, BlockEdited(a, b, i), i \in TaskLines(a),
           NEW k \in TaskLines(a), k \notin Stay(a, i)
    PROVE  /\ k \in (i + 1)..(BlockEnd(a, i) - 1)
           /\ k \notin TaskBlocks(a)
           /\ \A j \in Stay(a, i) : k < j => ~(j < BlockEnd(a, k))
<1> DEFINE e == BlockEnd(a, i)
<1>1. /\ IsLines(a) /\ Len(a) \in Nat /\ DOMAIN a = 1..Len(a) /\ i \in 1..Len(a)
      /\ e \in (i + 1)..(Len(a) + 1) /\ (e <= Len(a) => Closes(a, i, e))
      /\ \A p \in 1..Len(a) : a[p].depth \in Nat
  BY EditedLines DEF BlockEdited
<1>2. k \in 1..Len(a) /\ k \in (i + 1)..(e - 1) /\ a[k].kind = "task"
  BY <1>1, EditedLines DEF TaskLines
<1>3. a[k].depth > a[i].depth
  BY <1>2, EditedLines
<1>4. \A j \in Stay(a, i) : j \in 1..i \/ j \in e..Len(a)
  BY DEF Stay
<1>5. /\ BlockEnd(a, k) \in (k + 1)..(Len(a) + 1)
      /\ \A l \in (k + 1)..Len(a) : l < BlockEnd(a, k) => ~Closes(a, k, l)
  BY <1>1, <1>2, BlockEndCloses
<1>6. k \notin TaskBlocks(a)
  <2>1. i < k /\ k < BlockEnd(a, i)
    BY <1>1, <1>2
  <2> QED BY <2>1 DEF TaskBlocks
<1> HIDE DEF e
<1>7. ASSUME NEW j \in Stay(a, i), k < j, j < BlockEnd(a, k)
      PROVE  FALSE
  <2>1. j \in e..Len(a)
    BY <1>1, <1>2, <1>4, <1>7
  <2>2. e \in (k + 1)..Len(a) /\ e < BlockEnd(a, k) /\ e \in 1..Len(a)
    BY <1>1, <1>2, <1>5, <1>7, <2>1
  <2>3. Closes(a, i, e) /\ ~Closes(a, k, e)
    BY <1>1, <1>5, <2>2
  <2>4. a[k].depth \in Nat /\ a[i].depth \in Nat /\ a[e].depth \in Nat
    BY <1>1, <1>2, <2>2
  <2> QED BY <1>3, <2>3, <2>4 DEF Closes
<1> QED BY <1>2, <1>6, <1>7 DEF e

\* The tasks on top are those from before, and each keeps its place among them.
LEMMA EditedTops ==
    ASSUME NEW a, NEW b, NEW i, BlockEdited(a, b, i), i \in TaskLines(a),
           NEW j \in TaskBlocks(a)
    PROVE  j \in Stay(a, i) /\ To(a, b, i, j) \in TaskBlocks(b)
<1>1. BlockEdited(b, a, i) /\ IsLines(a) /\ IsLines(b)
  BY EditedSymmetric DEF BlockEdited
<1>2. j \in TaskLines(a) /\ j \in Stay(a, i)
  BY EditedBody DEF TaskBlocks
<1> DEFINE t == To(a, b, i, j)
<1>3. t \in TaskLines(b) /\ t \in Stay(b, i) /\ To(b, a, i, t) = j
  BY <1>2, EditedInTodo, EditedStays
<1>4. i \in TaskLines(b)
  <2>1. i \in Stay(a, i) /\ To(a, b, i, i) = i
    BY EditedLines DEF Stay, To
  <2> QED BY <2>1, EditedInTodo
<1> HIDE DEF t
<1>5. ASSUME NEW r \in TaskLines(b), r < t, t < BlockEnd(b, r)
      PROVE  FALSE
  <2>1. CASE r \in Stay(b, i)
    <3> DEFINE k == To(b, a, i, r)
    <3>1. k \in TaskLines(a)
      BY <1>1, <2>1, EditedInTodo
    <3>2. k < j
      BY <1>1, <1>3, <1>5, <2>1, EditedStays
    <3>3. j < BlockEnd(a, k)
      BY <1>1, <1>3, <1>5, <2>1, EditedNesting
    <3> QED BY <3>1, <3>2, <3>3 DEF TaskBlocks
  <2>2. CASE r \notin Stay(b, i)
    BY <1>1, <1>3, <1>4, <1>5, <2>2, EditedBody
  <2> QED BY <2>1, <2>2
<1> QED BY <1>2, <1>3, <1>5 DEF TaskBlocks, t

LEMMA SetsMatch ==
    ASSUME NEW S, NEW T, IsFiniteSet(S), NEW h \in [S -> T],
           \A x, y \in S : h[x] = h[y] => x = y,
           \A y \in T : \E x \in S : h[x] = y
    PROVE  Cardinality(S) = Cardinality(T)
<1>1. h \in Bijection(S, T)
  BY DEF Bijection, Injection, Surjection, IsInjective
<1>2. ExistsBijection(S, T)
  BY <1>1 DEF ExistsBijection
<1> QED BY <1>2, FS_Bijection

\* Numbers that are matched one to one, up to i and up to k, are at equal places.
LEMMA PlacesMatch ==
    ASSUME NEW A, NEW B, IsFiniteSet(A), NEW g \in [A -> B], NEW i, NEW k,
           \A x, y \in A : g[x] = g[y] => x = y,
           \A y \in B : \E x \in A : g[x] = y,
           \A x \in A : x <= i <=> g[x] <= k
    PROVE  Cardinality(A) = Cardinality(B) /\ Place(A, i) = Place(B, k)
<1>2. Cardinality(A) = Cardinality(B)
  BY SetsMatch
<1> DEFINE S == {x \in A : x <= i}
           T == {y \in B : y <= k}
           h == [x \in S |-> g[x]]
<1>3. IsFiniteSet(S)
  BY FS_Subset
<1>4. h \in [S -> T] /\ \A x, y \in S : h[x] = h[y] => x = y
  OBVIOUS
<1>5. \A y \in T : \E x \in S : h[x] = y
  <2> TAKE y \in T
  <2>1. PICK x \in A : g[x] = y
    OBVIOUS
  <2> QED BY <2>1
<1> HIDE DEF S, T, h
<1>6. Cardinality(S) = Cardinality(T)
  BY <1>3, <1>4, <1>5, SetsMatch
<1> QED BY <1>2, <1>6 DEF Place, S, T

LEMMA EditedPlaces ==
    ASSUME NEW a, NEW b, NEW i, BlockEdited(a, b, i), i \in TaskLines(a)
    PROVE  /\ Cardinality(TaskBlocks(a)) = Cardinality(TaskBlocks(b))
           /\ \A j \in Stay(a, i) :
                 Place(TaskBlocks(a), j) = Place(TaskBlocks(b), To(a, b, i, j))
<1> DEFINE A == TaskBlocks(a)
           B == TaskBlocks(b)
           g == [x \in A |-> To(a, b, i, x)]
<1>1. BlockEdited(b, a, i) /\ IsLines(a) /\ IsLines(b)
  BY EditedSymmetric DEF BlockEdited
<1>2. i \in Stay(a, i) /\ To(a, b, i, i) = i
  BY EditedLines DEF Stay, To
<1>3. i \in TaskLines(b)
  BY <1>2, EditedInTodo
<1>4. /\ A \subseteq Stay(a, i) /\ g \in [A -> B]
      /\ \A x \in A : g[x] = To(a, b, i, x)
  BY EditedTops
<1>5. ASSUME NEW y \in B
      PROVE  \E x \in A : g[x] = y
  <2>1. y \in Stay(b, i) /\ To(b, a, i, y) \in A
    BY <1>1, <1>3, EditedTops
  <2>2. To(a, b, i, To(b, a, i, y)) = y
    BY <1>1, <2>1, EditedStays
  <2> QED BY <2>1, <2>2, <1>4
<1>6. ASSUME NEW x \in A, NEW y \in A, g[x] = g[y]
      PROVE  x = y
  <2>1. To(b, a, i, g[x]) = x /\ To(b, a, i, g[y]) = y
    BY <1>4, EditedStays
  <2> QED BY <2>1, <1>6
<1>7. IsFiniteSet(A)
  BY <1>1, TaskLinesType, FS_Subset
<1>8. ASSUME NEW j \in Stay(a, i)
      PROVE  /\ Cardinality(A) = Cardinality(B)
             /\ Place(A, j) = Place(B, To(a, b, i, j))
  <2>1. ASSUME NEW x \in A
        PROVE  x <= j <=> g[x] <= To(a, b, i, j)
    <3>1. x \in Stay(a, i) /\ x \in 1..Len(a) /\ j \in 1..Len(a) /\ Len(a) \in Nat
      BY <1>4, EditedStays, EditedLines
    <3>2. g[x] \in 1..Len(b) /\ To(a, b, i, j) \in 1..Len(b) /\ Len(b) \in Nat
      BY <1>1, <1>4, EditedStays, EditedLines
    <3>3. j < x <=> To(a, b, i, j) < g[x]
      BY <1>4, EditedStays
    <3> QED BY <3>1, <3>2, <3>3
  <2> HIDE DEF A, B, g
  <2> QED BY <1>4, <1>5, <1>6, <1>7, <2>1, PlacesMatch
<1> QED BY <1>2, <1>8

LEMMA BlockEndIs ==
    ASSUME NEW a, IsLines(a), NEW j \in DOMAIN a, NEW m \in (j + 1)..(Len(a) + 1),
           \A l \in (j + 1)..(m - 1) : ~Closes(a, j, l),
           m <= Len(a) => Closes(a, j, m)
    PROVE  BlockEnd(a, j) = m
<1> DEFINE e == BlockEnd(a, j)
<1>1. Len(a) \in Nat /\ j \in 1..Len(a)
  BY LinesShape
<1>2. /\ e \in (j + 1)..(Len(a) + 1)
      /\ \A l \in (j + 1)..Len(a) : l < e => ~Closes(a, j, l)
      /\ e <= Len(a) => Closes(a, j, e)
  BY BlockEndCloses
<1> HIDE DEF e
<1>3. ~(e < m)
  BY <1>1, <1>2
<1>4. ~(m < e)
  BY <1>1, <1>2
<1> QED BY <1>1, <1>2, <1>3, <1>4 DEF e

\* No task on top begins in the block of a task.
LEMMA PlaceInBlock ==
    ASSUME NEW a, IsLines(a), NEW j \in TaskLines(a), NEW i \in Nat, j <= i,
           i < BlockEnd(a, j)
    PROVE  Place(TaskBlocks(a), i) = Place(TaskBlocks(a), j)
<1>1. TaskBlocks(a) \subseteq Nat /\ j \in Nat
  BY TaskLinesType
<1>2. BlockEnd(a, j) \in Nat
  <2>1. j \in DOMAIN a /\ Len(a) \in Nat
    BY TaskLinesType, LinesShape
  <2> QED BY <1>1, <2>1, BlockEndCloses
<1>3. ASSUME NEW x \in TaskBlocks(a)
      PROVE  x <= i <=> x <= j
  <2>1. ~(j < x /\ x < BlockEnd(a, j))
    BY DEF TaskBlocks
  <2> QED BY <1>1, <1>2, <2>1
<1>4. {x \in TaskBlocks(a) : x <= i} = {x \in TaskBlocks(a) : x <= j}
  BY <1>3
<1> QED BY <1>4 DEF Place

(***************************************************************************)
(* The block of a task that is in no block with line i has moved as a      *)
(* whole, if it has moved.                                                 *)
(***************************************************************************)
LEMMA EditedBlocks ==
    ASSUME NEW a, NEW b, NEW i, BlockEdited(a, b, i),
           NEW j \in TaskLines(a), j \in Stay(a, i),
           Place(TaskBlocks(a), j) # Place(TaskBlocks(a), i)
    PROVE  LET t == To(a, b, i, j)
           IN /\ b[t] = a[j]
              /\ BlockEnd(b, t) = BlockEnd(a, j) - j + t
              /\ \A l \in (j + 1)..(BlockEnd(a, j) - 1) : a[l] = b[l - j + t]
<1> DEFINE e == BlockEnd(a, i)
           f == BlockEnd(b, i)
           t == To(a, b, i, j)
           m == BlockEnd(a, j)
<1>1. BlockEdited(b, a, i) /\ IsLines(a) /\ IsLines(b)
  BY EditedSymmetric DEF BlockEdited
<1>2. /\ Len(a) \in Nat /\ i \in 1..Len(a) /\ e \in (i + 1)..(Len(a) + 1)
      /\ Len(b) \in Nat /\ i \in 1..Len(b) /\ f \in (i + 1)..(Len(b) + 1)
      /\ Len(a) - e = Len(b) - f /\ DOMAIN a = 1..Len(a) /\ DOMAIN b = 1..Len(b)
  BY <1>1, EditedLines DEF BlockEdited
<1>3. /\ \A p \in 1..(i - 1) : a[p] = b[p]
      /\ \A k \in e..Len(a) : a[k] = b[k - e + f]
      /\ a[i].kind = b[i].kind /\ a[i].depth = b[i].depth
  BY DEF BlockEdited
<1>4. j # i
  OBVIOUS
<1>5. /\ j \in 1..Len(a) /\ t \in 1..Len(b) /\ b[t] = a[j]
      /\ t = IF j <= i THEN j ELSE j - e + f
      /\ j \in 1..i \/ j \in e..Len(a)
  BY <1>4, EditedStays DEF Stay, To
<1>6. /\ m \in (j + 1)..(Len(a) + 1)
      /\ \A l \in (j + 1)..Len(a) : l < m => ~Closes(a, j, l)
      /\ m <= Len(a) => Closes(a, j, m)
  BY <1>1, <1>2, <1>5, BlockEndCloses
<1>7. j < i => m <= i
  <2>1. ASSUME j < i, i < m
        PROVE  FALSE
    <3>1. i \in Nat /\ j \in Nat /\ j <= i
      BY <1>2, <1>5, <2>1
    <3> QED BY <1>1, <2>1, <3>1, PlaceInBlock
  <2> HIDE DEF m
  <2> QED BY <2>1, <1>2, <1>6
<1> HIDE DEF e, f, t, m
<1>8. CASE j < i
  <2>1. t = j /\ m <= i /\ m \in (t + 1)..Len(b)
    BY <1>2, <1>5, <1>6, <1>7, <1>8
  <2>2. ASSUME NEW l \in (j + 1)..(m - 1)
        PROVE  a[l] = b[l] /\ ~Closes(b, t, l)
    <3>1. l \in 1..(i - 1) /\ l \in (j + 1)..Len(a) /\ l < m
      BY <1>2, <1>5, <1>6, <2>1
    <3>2. a[l] = b[l] /\ ~Closes(a, j, l)
      BY <3>1, <1>3, <1>6
    <3> QED BY <3>2, <1>5, <2>1 DEF Closes
  <2>3. Closes(b, t, m)
    <3>1. m <= Len(a) /\ (m = i \/ m \in 1..(i - 1))
      BY <1>2, <1>5, <1>6, <2>1
    <3>2. Closes(a, j, m) /\ b[m].kind = a[m].kind /\ b[m].depth = a[m].depth
      BY <1>3, <1>6, <3>1
    <3> QED BY <3>2, <1>5, <2>1 DEF Closes, IsHeading
  <2>4. BlockEnd(b, t) = m
    <3>1. t \in DOMAIN b /\ m \in (t + 1)..(Len(b) + 1)
      BY <1>2, <1>5, <2>1
    <3> QED BY <3>1, <1>1, <2>1, <2>2, <2>3, BlockEndIs
  <2>5. m = m - j + t /\ \A l \in (j + 1)..(m - 1) : l = l - j + t
    BY <1>5, <1>6, <2>1, <1>2
  <2> QED BY <1>5, <2>2, <2>4, <2>5 DEF t, m
<1>9. CASE j \in e..Len(a)
  <2> DEFINE d == f - e
  <2>1. /\ d \in Int /\ t = j + d /\ Len(b) = Len(a) + d
        /\ \A k \in e..Len(a) : k - e + f = k + d
    <3>1. e \in Int /\ f \in Int /\ Len(b) = Len(a) + d /\ ~(j <= i)
      BY <1>2, <1>9
    <3>2. t = j - e + f
      BY <1>5, <3>1
    <3>3. \A k \in e..Len(a) : k - e + f = k + d
      BY <3>1
    <3> QED BY <3>1, <3>2, <3>3, <1>9
  <2>2. \A k \in e..Len(a) : a[k] = b[k + d]
    BY <1>3, <2>1
  <2> HIDE DEF d
  <2> DEFINE w == m + d
  <2>3. w \in (t + 1)..(Len(b) + 1) /\ t \in DOMAIN b
    BY <1>2, <1>5, <1>6, <2>1
  <2>4. ASSUME NEW l \in (t + 1)..(w - 1)
        PROVE  ~Closes(b, t, l)
    <3> DEFINE k == l - d
    <3>1. k \in (j + 1)..Len(a) /\ k < m /\ k \in e..Len(a) /\ k + d = l
      BY <1>2, <1>6, <1>9, <2>1
    <3> HIDE DEF k
    <3>2. a[k] = b[l] /\ ~Closes(a, j, k)
      BY <3>1, <2>2, <1>6
    <3> QED BY <3>2, <1>5 DEF Closes
  <2>5. ASSUME w <= Len(b)
        PROVE  Closes(b, t, w)
    <3>1. m <= Len(a) /\ m \in e..Len(a)
      BY <1>2, <1>6, <1>9, <2>1, <2>5
    <3>2. a[m] = b[w] /\ Closes(a, j, m)
      BY <3>1, <2>2, <1>6
    <3> QED BY <3>2, <1>5 DEF Closes
  <2> HIDE DEF w
  <2>6. BlockEnd(b, t) = w
    BY <1>1, <2>3, <2>4, <2>5, BlockEndIs
  <2>7. w = m - j + t
    BY <1>6, <1>5, <1>2, <2>1 DEF w
  <2>8. ASSUME NEW l \in (j + 1)..(m - 1)
        PROVE  a[l] = b[l - j + t]
    <3>1. l \in e..Len(a) /\ l - j + t = l + d
      BY <1>2, <1>6, <1>9, <2>1
    <3> QED BY <3>1, <2>2
  <2> QED BY <1>5, <2>6, <2>7, <2>8 DEF t, m
<1> QED BY <1>2, <1>4, <1>5, <1>8, <1>9

\* A stretch of w lines from the one at first on.
LEMMA SubSeqOf ==
    ASSUME NEW T, NEW s, NEW first \in Int, NEW last \in Int,
           \A i \in first..last : s[i] \in T,
           NEW w \in Nat, last - first + 1 = w
    PROVE  LET x == SubSeq(s, first, last)
           IN /\ x \in Seq(T) /\ Len(x) = w
              /\ \A i \in 1..w : x[i] = s[first + i - 1]
<1> DEFINE x == SubSeq(s, first, last)
<1>1. /\ x \in Seq(T)
      /\ Len(x) = IF first <= last THEN last - first + 1 ELSE 0
      /\ \A i \in 1..(last - first + 1) : x[i] = s[first + i - 1]
  BY SubSeqProperties
<1> HIDE DEF x
<1>2. Len(x) = w
  BY <1>1
<1> QED BY <1>1, <1>2 DEF x

LEMMA SubSeqMoved ==
    ASSUME NEW T, NEW U, NEW a \in Seq(T), NEW b \in Seq(U),
           NEW j \in Nat, NEW m \in Nat, j < m, m <= Len(a) + 1,
           NEW d \in Int, j + d \in Nat, m + d <= Len(b) + 1,
           \A l \in (j + 1)..(m - 1) : a[l] = b[l + d]
    PROVE  SubSeq(a, j + 1, m - 1) = SubSeq(b, j + d + 1, m + d - 1)
<1> DEFINE x == SubSeq(a, j + 1, m - 1)
           y == SubSeq(b, j + d + 1, m + d - 1)
           w == m - 1 - j
<1>1. /\ j + 1 \in Int /\ m - 1 \in Int /\ j + d + 1 \in Int /\ m + d - 1 \in Int
      /\ Len(a) \in Nat /\ Len(b) \in Nat /\ w \in Nat
      /\ m - 1 - (j + 1) + 1 = w /\ m + d - 1 - (j + d + 1) + 1 = w
  OBVIOUS
<1>2. \A i \in (j + 1)..(m - 1) : a[i] \in T
  BY <1>1, ElementOfSeq
<1>3. \A i \in (j + d + 1)..(m + d - 1) : b[i] \in U
  <2>1. \A i \in (j + d + 1)..(m + d - 1) : i \in 1..Len(b)
    BY <1>1
  <2> QED BY <2>1, ElementOfSeq
<1> HIDE DEF x, y
<1>4. ASSUME NEW first, NEW last, first = j + 1, last = m - 1
      PROVE  LET z == SubSeq(a, first, last)
             IN /\ z \in Seq(T) /\ Len(z) = w
                /\ \A i \in 1..w : z[i] = a[first + i - 1]
  <2>1. /\ first \in Int /\ last \in Int /\ last - first + 1 = w /\ w \in Nat
        /\ \A i \in first..last : a[i] \in T
    BY <1>1, <1>2, <1>4
  <2> HIDE DEF w
  <2> QED BY ONLY <2>1, SubSeqOf
<1>5. ASSUME NEW first, NEW last, first = j + d + 1, last = m + d - 1
      PROVE  LET z == SubSeq(b, first, last)
             IN /\ z \in Seq(U) /\ Len(z) = w
                /\ \A i \in 1..w : z[i] = b[first + i - 1]
  <2>1. /\ first \in Int /\ last \in Int /\ last - first + 1 = w /\ w \in Nat
        /\ \A i \in first..last : b[i] \in U
    BY <1>1, <1>3, <1>5
  <2> HIDE DEF w
  <2> QED BY ONLY <2>1, SubSeqOf
<1>6. /\ x \in Seq(T) /\ Len(x) = w /\ \A i \in 1..w : x[i] = a[j + 1 + i - 1]
      /\ y \in Seq(U) /\ Len(y) = w /\ \A i \in 1..w : y[i] = b[j + d + 1 + i - 1]
  <2> HIDE DEF w
  <2> DEFINE e == j + 1
             f == m - 1
             g == j + d + 1
             h == m + d - 1
  <2>1. x = SubSeq(a, e, f) /\ y = SubSeq(b, g, h)
    BY DEF x, y
  <2>2. /\ SubSeq(a, e, f) \in Seq(T) /\ Len(SubSeq(a, e, f)) = w
        /\ \A i \in 1..w : SubSeq(a, e, f)[i] = a[e + i - 1]
    BY <1>4
  <2>3. /\ SubSeq(b, g, h) \in Seq(U) /\ Len(SubSeq(b, g, h)) = w
        /\ \A i \in 1..w : SubSeq(b, g, h)[i] = b[g + i - 1]
    BY <1>5
  <2> QED BY <2>1, <2>2, <2>3
<1>7. ASSUME NEW i \in 1..w
      PROVE  x[i] = y[i]
  <2>1. /\ j + 1 + i - 1 \in (j + 1)..(m - 1)
        /\ j + 1 + i - 1 + d = j + d + 1 + i - 1
    BY <1>1
  <2> QED BY <2>1, <1>6
<1> HIDE DEF w
<1>8. x = y
  <2>1. x \in Seq(T \cup U) /\ y \in Seq(T \cup U)
    BY <1>6, SeqMonotonic
  <2> QED BY <2>1, <1>6, <1>7, SeqEqual
<1> QED BY <1>8 DEF x, y

\* What the todos of the r-th task on top, and of those in its block, say.
FactsAt(n, lines, r) ==
    {Facts(TodoAt(n, lines, NoteAreaOf(Meta[n]), x)) :
        x \in {y \in TaskLines(lines) : Place(TaskBlocks(lines), y) = r}}

LEMMA EditedFacts ==
    ASSUME NEW a, NEW b, NEW i, BlockEdited(a, b, i), i \in TaskLines(a), NEW n,
           NEW r, r # Place(TaskBlocks(a), i)
    PROVE  FactsAt(n, a, r) \subseteq FactsAt(n, b, r)
<1> SUFFICES ASSUME NEW j \in TaskLines(a), Place(TaskBlocks(a), j) = r
             PROVE  Facts(TodoAt(n, a, NoteAreaOf(Meta[n]), j)) \in FactsAt(n, b, r)
  BY DEF FactsAt
<1> DEFINE t == To(a, b, i, j)
           area == NoteAreaOf(Meta[n])
<1>1. IsLines(a) /\ IsLines(b) /\ BlockEdited(b, a, i)
  BY EditedSymmetric DEF BlockEdited
<1>2. j \in Stay(a, i)
  <2>1. ASSUME j \notin Stay(a, i)
        PROVE  FALSE
    <3>1. j \in (i + 1)..(BlockEnd(a, i) - 1)
      BY <2>1, EditedBody
    <3>2. BlockEnd(a, i) \in Nat /\ i \in Nat
      BY EditedLines
    <3>3. j \in Nat /\ i <= j /\ j < BlockEnd(a, i)
      BY <3>1, <3>2
    <3> QED BY <1>1, <3>3, PlaceInBlock
  <2> QED BY <2>1
<1>3. /\ t \in TaskLines(b)
      /\ Place(TaskBlocks(b), t) = r
  BY <1>2, EditedInTodo, EditedPlaces
<1>4. /\ b[t] = a[j]
      /\ BlockEnd(b, t) = BlockEnd(a, j) - j + t
      /\ \A l \in (j + 1)..(BlockEnd(a, j) - 1) : a[l] = b[l - j + t]
  BY <1>2, EditedBlocks
<1>5. /\ Len(a) \in Nat /\ Len(b) \in Nat /\ j \in 1..Len(a) /\ t \in 1..Len(b)
      /\ BlockEnd(a, j) \in (j + 1)..(Len(a) + 1)
      /\ BlockEnd(b, t) \in (t + 1)..(Len(b) + 1)
      /\ a \in Seq(Range(a)) /\ b \in Seq(Range(b))
  <2>1. j \in DOMAIN a /\ t \in DOMAIN b
    BY <1>1, <1>3, TaskLinesType
  <2> HIDE DEF t
  <2> QED BY <1>1, <2>1, LinesShape, BlockEndCloses
<1> HIDE DEF t, area
<1>6. Children(a, j) = Children(b, t)
  <2> DEFINE d == t - j
             m == BlockEnd(a, j)
  <2>1. /\ d \in Int /\ j \in Nat /\ m \in Nat /\ j < m /\ m <= Len(a) + 1
        /\ j + d \in Nat /\ m + d <= Len(b) + 1
        /\ j + d + 1 = t + 1 /\ m + d - 1 = BlockEnd(b, t) - 1
    <3>1. m \in (j + 1)..(Len(a) + 1) /\ BlockEnd(b, t) = m - j + t
      BY <1>4, <1>5
    <3> HIDE DEF m
    <3>2. m - j + t \in (t + 1)..(Len(b) + 1)
      BY <3>1, <1>5
    <3> QED BY <3>1, <3>2, <1>5
  <2>2. \A l \in (j + 1)..(m - 1) : a[l] = b[l + d]
    <3>1. \A l \in (j + 1)..(m - 1) : l - j + t = l + d
      BY <1>5
    <3> QED BY <3>1, <1>4
  <2> HIDE DEF d, m
  <2>3. SubSeq(a, j + 1, m - 1) = SubSeq(b, j + d + 1, m + d - 1)
    BY <1>5, <2>1, <2>2, SubSeqMoved
  <2> QED BY <2>1, <2>3 DEF Children, m
<1>7. Facts(TodoAt(n, a, area, j)) = Facts(TodoAt(n, b, area, t))
  BY <1>4, <1>6, Zenon DEF Facts, TodoAt
<1>8. Facts(TodoAt(n, b, area, t)) \in FactsAt(n, b, r)
  BY <1>3 DEF FactsAt, area
<1> QED BY <1>7, <1>8 DEF area

\* a and b have as many tasks on top, and all but those at places R say the same.
SaysTheSame(n, a, b, R) ==
    /\ Cardinality(TaskBlocks(a)) = Cardinality(TaskBlocks(b))
    /\ \A r : r \notin R => FactsAt(n, a, r) = FactsAt(n, b, r)

LEMMA EditedSaysTheSame ==
    ASSUME NEW a, NEW b, NEW i, BlockEdited(a, b, i), i \in TaskLines(a), NEW n
    PROVE  /\ SaysTheSame(n, a, b, {Place(TaskBlocks(a), i)})
           /\ \A j \in 1..i : /\ j \in TaskLines(a) => j \in TaskLines(b)
                              /\ Place(TaskBlocks(b), j) = Place(TaskBlocks(a), j)
<1>1. BlockEdited(b, a, i)
  BY EditedSymmetric
<1>2. ASSUME NEW j \in 1..i
      PROVE  j \in Stay(a, i) /\ To(a, b, i, j) = j
  <2>1. i \in Nat
    BY EditedLines
  <2> QED BY <2>1 DEF Stay, To
<1>3. \A j \in 1..i : /\ j \in TaskLines(a) => j \in TaskLines(b)
                      /\ Place(TaskBlocks(b), j) = Place(TaskBlocks(a), j)
  BY <1>2, EditedInTodo, EditedPlaces
<1>4. i \in 1..i
  BY EditedLines
<1>5. i \in TaskLines(b) /\ Place(TaskBlocks(b), i) = Place(TaskBlocks(a), i)
  BY <1>3, <1>4
<1>6. ASSUME NEW r, r \notin {Place(TaskBlocks(a), i)}
      PROVE  FactsAt(n, a, r) = FactsAt(n, b, r)
  BY <1>1, <1>5, <1>6, EditedFacts
<1> QED BY <1>3, <1>6, EditedPlaces DEF SaysTheSame

\* Rewriting metadata edits the block of one task.
LEMMA RewriteEditsBlock ==
    ASSUME NEW a, IsLines(a), NEW i \in DOMAIN a, a[i].kind = "task",
           NEW area, NEW tags
    PROVE  BlockEdited(a, Rewritten(a, i, area, tags), i)
<1> DEFINE b == Rewritten(a, i, area, tags)
           e == BlockEnd(a, i)
           f == BlockEnd(b, i)
<1>1. IsLines(b) /\ i <= Len(b) /\ \A k \in 1..i : b[k] = a[k]
  BY RewriteEmbeds
<1>2. \E E, from : Embeds(a, b, E, from) /\ EditsBelow(a, b, i, E, from)
  BY RewriteEmbeds
<1> HIDE DEF b
<1>3. PICK E, from : Embeds(a, b, E, from) /\ EditsBelow(a, b, i, E, from)
  BY <1>2
<1>4. /\ Len(a) \in Nat /\ DOMAIN a = 1..Len(a) /\ i \in 1..Len(a)
      /\ Len(b) \in Nat /\ DOMAIN b = 1..Len(b) /\ i \in 1..Len(b)
      /\ \A k \in 1..Len(a) : a[k].depth \in Nat
      /\ b[i] = a[i]
  BY <1>1, LinesShape
<1>5. /\ e \in (i + 1)..(Len(a) + 1)
      /\ \A j \in (i + 1)..Len(a) : j < e => ~Closes(a, i, j)
      /\ e <= Len(a) => Closes(a, i, e)
  BY BlockEndCloses
<1> HIDE DEF e
<1>6. /\ E \subseteq 1..Len(b)
      /\ \A p \in E : from[p] \in 1..Len(a) /\ b[p] = a[from[p]]
      /\ \A p, q \in E : p < q <=> from[p] < from[q]
      /\ \A p \in 1..i : p \in E /\ from[p] = p
      /\ \A p \in 1..Len(b) : p \notin E =>
            p = i + 1 /\ b[p].kind = "meta" /\ b[p].depth = a[i].depth + 2
      /\ \A j \in 1..Len(a) : (\A p \in E : from[p] # j) => i < j /\ j < e
  BY <1>3, <1>4 DEF Embeds, EditsBelow, e
<1>7. ASSUME NEW j \in e..Len(a)
      PROVE  \E p \in E : from[p] = j
  BY <1>4, <1>5, <1>6
<1>8. ASSUME NEW p \in E, p > i
      PROVE  from[p] > i
  <2>1. i \in E /\ from[i] = i /\ from[p] \in Nat /\ p \in Nat
    BY <1>4, <1>6
  <2>2. i < p <=> from[i] < from[p]
    BY <1>6, <2>1
  <2> QED BY <1>4, <1>8, <2>1, <2>2
<1>9. ASSUME NEW p \in (i + 1)..Len(b), p \notin E \/ from[p] < e
      PROVE  ~Closes(b, i, p)
  <2>0. p \in 1..Len(b) /\ p > i
    BY <1>4
  <2>1. CASE p \notin E
    <3>1. /\ b[p].kind = "meta" /\ b[p].depth = a[i].depth + 2
          /\ a[i].depth \in Nat /\ b[i].depth = a[i].depth
      BY <1>4, <1>6, <2>0, <2>1
    <3> QED BY <3>1 DEF Closes, IsHeading
  <2>2. CASE p \in E /\ from[p] < e
    <3>1. from[p] \in (i + 1)..Len(a) /\ b[p] = a[from[p]]
      BY <1>4, <1>6, <1>8, <2>0, <2>2
    <3>2. ~Closes(a, i, from[p])
      BY <3>1, <2>2, <1>5
    <3> QED BY <3>1, <3>2, <1>4 DEF Closes
  <2> QED BY <1>9, <2>1, <2>2
<1>10. ASSUME NEW p \in E, from[p] >= e
       PROVE  /\ Len(b) - p = Len(a) - from[p]
              /\ i < p
  <2> DEFINE j == from[p]
             g == [q \in p..Len(b) |-> from[q]]
  <2>1. j \in e..Len(a) /\ p \in 1..Len(b) /\ j \in Nat /\ p \in Nat
    BY <1>4, <1>5, <1>6, <1>10
  <2>2. i < p
    <3>1. p \in 1..i => from[p] = p
      BY <1>6
    <3> QED BY <3>1, <2>1, <1>4, <1>5
  <2>3. \A q \in p..Len(b) : q \in E
    <3>1. \A q \in p..Len(b) : q \in 1..Len(b) /\ (q = p \/ q # i + 1)
      BY <2>1, <2>2, <1>4
    <3> QED BY <3>1, <1>6
  <2>4. ASSUME NEW q \in p..Len(b)
        PROVE  from[q] \in j..Len(a)
    <3>1. q \in E /\ from[q] \in 1..Len(a) /\ (q = p \/ p < q)
      BY <2>1, <2>3, <1>6
    <3>2. p < q <=> from[p] < from[q]
      BY <3>1, <1>6
    <3> QED BY <3>1, <3>2, <2>1
  <2>5. g \in [p..Len(b) -> j..Len(a)]
    BY <2>4
  <2>6. ASSUME NEW x \in p..Len(b), NEW y \in p..Len(b), g[x] = g[y]
        PROVE  x = y
    <3>1. x \in E /\ y \in E /\ from[x] = from[y] /\ x \in Nat /\ y \in Nat
      BY <2>1, <2>3, <2>6
    <3>2. (x < y <=> from[x] < from[y]) /\ (y < x <=> from[y] < from[x])
      BY <3>1, <1>6
    <3>3. from[x] \in Nat
      BY <3>1, <1>6
    <3> QED BY <3>1, <3>2, <3>3
  <2>7. ASSUME NEW y \in j..Len(a)
        PROVE  \E x \in p..Len(b) : g[x] = y
    <3>1. y \in e..Len(a)
      BY <2>1, <1>4, <1>5
    <3>2. PICK x \in E : from[x] = y
      BY <3>1, <1>7
    <3>3. x < p <=> from[x] < from[p]
      BY <1>6
    <3>4. x \in p..Len(b)
      BY <3>2, <3>3, <2>1, <1>4, <1>6
    <3> QED BY <3>2, <3>4
  <2> HIDE DEF g, j
  <2>9. Len(b) - p = Len(a) - j
    <3> DEFINE S == p..Len(b)
               T == j..Len(a)
    <3>1. /\ IsFiniteSet(S)
          /\ Cardinality(S) = Len(b) - p + 1 /\ Cardinality(T) = Len(a) - j + 1
      BY <2>1, <1>4, FS_Interval
    <3>2. /\ g \in [S -> T]
          /\ \A x, y \in S : g[x] = g[y] => x = y
          /\ \A y \in T : \E x \in S : g[x] = y
      BY <2>5, <2>6, <2>7
    <3> HIDE DEF S, T
    <3>3. Cardinality(S) = Cardinality(T)
      BY <3>1, <3>2, SetsMatch
    <3>4. /\ Len(b) \in Int /\ p \in Int /\ Len(a) \in Int /\ j \in Int
          /\ Len(b) - p + 1 = Len(a) - j + 1
      BY <3>1, <3>3, <2>1, <1>4
    <3> HIDE <3>1
    <3> QED BY <3>4
  <2> QED BY <2>2, <2>9 DEF j
<1>11. f \in (i + 1)..(Len(b) + 1) /\ Len(b) - f = Len(a) - e
  <2>1. CASE e <= Len(a)
    <3>1. PICK p \in E : from[p] = e
      BY <2>1, <1>4, <1>5, <1>7
    <3>2. /\ Len(b) - p = Len(a) - e /\ i < p
          /\ p \in 1..Len(b) /\ e \in Nat
      <4>1. e \in Nat /\ from[p] >= e /\ p \in 1..Len(b)
        BY <3>1, <1>4, <1>5, <1>6
      <4>2. Len(b) - p = Len(a) - from[p] /\ i < p
        BY <4>1, <1>10
      <4> QED BY <3>1, <4>1, <4>2
    <3>3. ASSUME NEW l \in (i + 1)..(p - 1)
          PROVE  ~Closes(b, i, l)
      <4>1. l \in (i + 1)..Len(b) /\ l < p
        BY <3>2, <1>4
      <4>2. l \in E => from[l] < e
        BY <3>1, <4>1, <1>6
      <4> QED BY <4>1, <4>2, <1>9
    <3>4. Closes(b, i, p)
      BY <2>1, <3>1, <1>4, <1>5, <1>6 DEF Closes
    <3>5. f = p
      <4>1. p \in (i + 1)..(Len(b) + 1) /\ i \in DOMAIN b
        BY <3>2, <1>4
      <4> QED BY <4>1, <1>1, <3>3, <3>4, BlockEndIs
    <3> QED BY <3>2, <3>5, <1>4
  <2>2. CASE e = Len(a) + 1
    <3> DEFINE m == Len(b) + 1
    <3>1. ASSUME NEW l \in (i + 1)..(m - 1)
          PROVE  ~Closes(b, i, l)
      <4>1. l \in (i + 1)..Len(b)
        BY <1>4
      <4>2. l \in E => from[l] < e
        BY <2>2, <1>4, <1>6
      <4> QED BY <4>1, <4>2, <1>9
    <3>2. m \in (i + 1)..(Len(b) + 1) /\ ~(m <= Len(b)) /\ i \in DOMAIN b
      BY <1>4
    <3> HIDE DEF m
    <3>3. f = m
      BY <3>1, <3>2, <1>1, BlockEndIs
    <3> HIDE DEF f
    <3> QED BY <3>2, <3>3, <2>2, <1>4 DEF m
  <2> QED BY <2>1, <2>2, <1>4, <1>5
<1> HIDE DEF f
<1>12. ASSUME NEW j \in e..Len(a)
       PROVE  a[j] = b[j - e + f]
  <2>1. PICK p \in E : from[p] = j
    BY <1>7
  <2>2. Len(b) - p = Len(a) - j
    <3>1. from[p] >= e
      BY <2>1, <1>4, <1>5
    <3> QED BY <2>1, <3>1, <1>10
  <2>3. p = j - e + f
    <3>1. /\ p \in Nat /\ j \in Nat /\ e \in Nat /\ f \in Nat
          /\ Len(a) \in Nat /\ Len(b) \in Nat
      BY <1>4, <1>5, <1>6, <1>11
    <3> QED BY <3>1, <2>2, <1>11
  <2> QED BY <2>1, <2>3, <1>6
<1>13. \A p \in 1..(i - 1) : a[p] = b[p]
  <2>1. \A p \in 1..(i - 1) : p \in 1..i
    BY <1>4
  <2> QED BY <2>1, <1>1
<1>14. /\ Len(a) - e = Len(b) - f
       /\ b[i].kind = "task" /\ a[i].depth = b[i].depth /\ i \in DOMAIN b
  BY <1>4, <1>11
<1> QED BY <1>1, <1>12, <1>13, <1>14 DEF BlockEdited, b, e, f

\* So does changing the title, which changes only the line itself.
LEMMA TitleEditsBlock ==
    ASSUME NEW a, IsLines(a), NEW i \in DOMAIN a, a[i].kind = "task", NEW title
    PROVE  BlockEdited(a, Titled(a, i, title), i)
<1> DEFINE b == Titled(a, i, title)
           e == BlockEnd(a, i)
<1>1. /\ IsLines(b) /\ DOMAIN b = DOMAIN a /\ b[i].kind = "task"
      /\ b[i].depth = a[i].depth
      /\ \A k \in DOMAIN a : k # i => b[k] = a[k]
  BY TitledLines
<1> HIDE DEF b
<1>2. /\ Len(a) \in Nat /\ DOMAIN a = 1..Len(a) /\ i \in 1..Len(a)
      /\ Len(b) = Len(a)
  BY <1>1, LinesShape
<1>3. /\ e \in (i + 1)..(Len(a) + 1)
      /\ \A j \in (i + 1)..Len(a) : j < e => ~Closes(a, i, j)
      /\ e <= Len(a) => Closes(a, i, e)
  BY BlockEndCloses
<1> HIDE DEF e
<1>4. \A l \in (i + 1)..Len(a) : b[l] = a[l] /\ (Closes(b, i, l) <=> Closes(a, i, l))
  <2> TAKE l \in (i + 1)..Len(a)
  <2>1. l \in DOMAIN a /\ l # i
    BY <1>2
  <2> QED BY <2>1, <1>1 DEF Closes
<1>5. BlockEnd(b, i) = e
  <2>1. ASSUME NEW l \in (i + 1)..(e - 1)
        PROVE  ~Closes(b, i, l)
    <3>1. l \in (i + 1)..Len(a) /\ l < e
      BY <1>2, <1>3
    <3> QED BY <3>1, <1>3, <1>4
  <2>2. e <= Len(b) => Closes(b, i, e)
    <3>1. e <= Len(b) => e \in (i + 1)..Len(a)
      BY <1>2, <1>3
    <3> QED BY <3>1, <1>2, <1>3, <1>4
  <2>3. e \in (i + 1)..(Len(b) + 1) /\ i \in DOMAIN b
    BY <1>1, <1>2, <1>3
  <2> QED BY <1>1, <2>1, <2>2, <2>3, BlockEndIs
<1>6. \A p \in 1..(i - 1) : a[p] = b[p]
  <2>1. \A p \in 1..(i - 1) : p \in DOMAIN a /\ p # i
    BY <1>2
  <2> QED BY <2>1, <1>1
<1>7. \A j \in e..Len(a) : a[j] = b[j - e + e]
  <2> TAKE j \in e..Len(a)
  <2>1. j \in DOMAIN a /\ j # i /\ j - e + e = j
    BY <1>2, <1>3
  <2> QED BY <2>1, <1>1
<1> QED BY <1>1, <1>2, <1>5, <1>6, <1>7 DEF BlockEdited, b, e

LEMMA SaysTheSameOn ==
    ASSUME NEW n, NEW a, NEW b, NEW c, NEW R,
           SaysTheSame(n, a, b, R), SaysTheSame(n, b, c, R)
    PROVE  SaysTheSame(n, a, c, R)
  BY Zenon DEF SaysTheSame

(***************************************************************************)
(* Updating one todo changes what the todos in the block of one task on    *)
(* top say, and leaves the tasks above it at their lines and places.       *)
(***************************************************************************)
LEMMA UpdateTaskIsLocal ==
    ASSUME NEW n, NEW a, IsLines(a), NEW t, t.line \in TaskLines(a)
    PROVE  LET b == UpdateTask(a, t)
               i == t.line
           IN /\ IsLines(b)
              /\ SaysTheSame(n, a, b, {Place(TaskBlocks(a), i)})
              /\ \A j \in 1..i : /\ j \in TaskLines(a) => j \in TaskLines(b)
                                 /\ Place(TaskBlocks(b), j) = Place(TaskBlocks(a), j)
<1> DEFINE i == t.line
           titled == IF cmd.params.title = None THEN a
                     ELSE [a EXCEPT ![t.line].text = cmd.params.title,
                                    ![t.line].area = None]
           b == Rewritten(titled, i, UpdatedArea(t), UpdatedTags(t))
           R == {Place(TaskBlocks(a), i)}
           Keeps(x, y) == \A j \in 1..i :
              /\ j \in TaskLines(x) => j \in TaskLines(y)
              /\ Place(TaskBlocks(y), j) = Place(TaskBlocks(x), j)
<1>1. UpdateTask(a, t) = b
  BY DEF UpdateTask, Rewritten
<1>2. /\ i \in DOMAIN a /\ a[i].kind = "task" /\ i \in Nat
      /\ i \in 1..i
  <2>1. i \in DOMAIN a /\ a[i].kind = "task" /\ i \in Nat
    BY TaskLinesType DEF TaskLines
  <2>2. DOMAIN a = 1..Len(a)
    BY LinesShape
  <2> QED BY <2>1, <2>2
<1> HIDE DEF i
<1>3. /\ IsLines(titled) /\ i \in DOMAIN titled /\ titled[i].kind = "task"
      /\ SaysTheSame(n, a, titled, R)
      /\ Keeps(a, titled)
  <2>1. CASE cmd.params.title = None
    BY <2>1, <1>2 DEF SaysTheSame
  <2>2. CASE cmd.params.title # None
    <3>1. titled = Titled(a, i, cmd.params.title)
      BY <2>2 DEF Titled, i
    <3> HIDE DEF titled
    <3>2. BlockEdited(a, titled, i)
      BY <1>2, <3>1, TitleEditsBlock
    <3>3. i \in TaskLines(a)
      BY DEF i
    <3>4. SaysTheSame(n, a, titled, R) /\ Keeps(a, titled)
      BY <3>2, <3>3, EditedSaysTheSame
    <3> QED BY <1>2, <3>1, <3>4, TitledLines
  <2> QED BY <2>1, <2>2
<1> HIDE DEF titled
<1>4. IsLines(b) /\ BlockEdited(titled, b, i)
  BY <1>3, RewriteEmbeds, RewriteEditsBlock
<1> HIDE DEF b
<1>5. i \in TaskLines(titled) /\ Place(TaskBlocks(titled), i) = Place(TaskBlocks(a), i)
  BY <1>2, <1>3 DEF i
<1>6. SaysTheSame(n, titled, b, R) /\ Keeps(titled, b)
  <2>1. /\ SaysTheSame(n, titled, b, {Place(TaskBlocks(titled), i)})
        /\ Keeps(titled, b)
    BY ONLY <1>4, <1>5, EditedSaysTheSame
  <2>2. R = {Place(TaskBlocks(titled), i)}
    BY <1>5 DEF i
  <2> HIDE DEF R
  <2> QED BY <2>1, <2>2
<1>7. SaysTheSame(n, a, b, R)
  <2> HIDE DEF R
  <2> QED BY <1>3, <1>6, SaysTheSameOn
<1>8. Keeps(a, b)
  BY <1>3, <1>6
<1> QED BY <1>1, <1>4, <1>7, <1>8 DEF i
(***************************************************************************)
(* An update of several todos, from the lowest up, changes what the todos  *)
(* at their places on top say: each leaves the lines above it alone, so    *)
(* that the next one is still where it was listed.                         *)
(***************************************************************************)
LEMMA UpdateLinesAreLocal ==
    ASSUME NEW n, NEW a, IsLines(a), \A t \in Targets(n) : t.line \in TaskLines(a)
    PROVE  /\ IsLines(UpdateLines(n, a))
           /\ SaysTheSame(n, a, UpdateLines(n, a),
                          {Place(TaskBlocks(a), t.line) : t \in Targets(n)})
<1> DEFINE last == Len(a) + 1
           R == {Place(TaskBlocks(a), t.line) : t \in Targets(n)}
<1>1. Len(a) \in Nat
  BY LinesShape
<1>2. PICK g : /\ \A k \in 1..(Len(a) + 1) : g[k] = Step(n, a, k, g)
               /\ UpdateLines(n, a) = g[1]
  BY <1>1, UpdateLinesSteps
<1> DEFINE Good(k) ==
              /\ IsLines(g[k])
              /\ SaysTheSame(n, a, g[k], R)
              /\ \A j \in 1..(k - 1) :
                    /\ j \in TaskLines(a) => j \in TaskLines(g[k])
                    /\ Place(TaskBlocks(g[k]), j) = Place(TaskBlocks(a), j)
           G == {k \in 1..last : Good(k)}
<1>3. Good(last)
  <2>1. last \in 1..last /\ last > Len(a)
    BY <1>1
  <2>2. g[last] = a
    BY <1>2, <2>1 DEF Step
  <2>3. SaysTheSame(n, a, a, R)
    BY DEF SaysTheSame
  <2> HIDE DEF last, R
  <2> QED BY <2>2, <2>3
<1>4. ASSUME NEW k \in 1..Len(a), Good(k + 1)
      PROVE  Good(k)
  <2> DEFINE c == g[k + 1]
  <2>1. /\ IsLines(c)
        /\ SaysTheSame(n, a, c, R)
        /\ \A j \in 1..k : /\ j \in TaskLines(a) => j \in TaskLines(c)
                           /\ Place(TaskBlocks(c), j) = Place(TaskBlocks(a), j)
    <3>1. k + 1 - 1 = k
      BY <1>1
    <3> HIDE DEF R
    <3> QED BY <1>4, <3>1
  <2>2. g[k] = UpdateAt(n, c, k)
    <3>1. k \in 1..(Len(a) + 1) /\ ~(k > Len(a))
      BY <1>1
    <3> QED BY <1>2, <3>1 DEF Step
  <2> HIDE DEF c
  <2>3. k \in 1..k /\ \A j \in 1..(k - 1) : j \in 1..k
    BY <1>1
  <2>4. CASE \E t \in Targets(n) : t.line = k
    <3>1. PICK t \in Targets(n) : t.line = k /\ g[k] = UpdateTask(c, t)
      BY <2>2, <2>4 DEF UpdateAt
    <3>2. k \in TaskLines(a) /\ Place(TaskBlocks(a), k) \in R
      BY <3>1
    <3> HIDE DEF R
    <3>3. t.line \in TaskLines(c) /\ Place(TaskBlocks(c), k) \in R
      BY <2>1, <2>3, <3>1, <3>2
    <3>4. /\ IsLines(g[k])
          /\ SaysTheSame(n, c, g[k], {Place(TaskBlocks(c), k)})
          /\ \A j \in 1..k : /\ j \in TaskLines(c) => j \in TaskLines(g[k])
                             /\ Place(TaskBlocks(g[k]), j) = Place(TaskBlocks(c), j)
      <4> DEFINE b == UpdateTask(c, t)
      <4>1. /\ IsLines(b)
            /\ SaysTheSame(n, c, b, {Place(TaskBlocks(c), t.line)})
            /\ \A j \in 1..t.line :
                  /\ j \in TaskLines(c) => j \in TaskLines(b)
                  /\ Place(TaskBlocks(b), j) = Place(TaskBlocks(c), j)
        BY <2>1, <3>3, UpdateTaskIsLocal
      <4>2. g[k] = b /\ t.line = k
        BY <3>1
      <4> HIDE DEF b
      <4> QED BY <4>1, <4>2, Zenon
    <3>5. SaysTheSame(n, c, g[k], R)
      BY <3>3, <3>4 DEF SaysTheSame
    <3>6. SaysTheSame(n, a, g[k], R)
      BY <2>1, <3>5, SaysTheSameOn
    <3> QED BY <2>1, <2>3, <3>4, <3>6
  <2>5. CASE ~ \E t \in Targets(n) : t.line = k
    <3>1. g[k] = c
      BY <2>2, <2>5 DEF UpdateAt
    <3> HIDE DEF R
    <3> QED BY <2>1, <2>3, <3>1
  <2> QED BY <2>4, <2>5
<1> HIDE DEF Good, R
<1>5. 1 \in G
  <2>1. last \in Nat /\ 1 <= last /\ last \in G
    BY <1>1, <1>3
  <2>2. ASSUME NEW k \in 1..(last - 1), k + 1 \in G
        PROVE  k \in G
    <3>1. k \in 1..Len(a) /\ k \in 1..last
      BY <1>1
    <3> QED BY <2>2, <3>1, <1>4
  <2> HIDE DEF G, last
  <2> QED BY <2>1, <2>2, DownToOne
<1> QED BY <1>2, <1>5 DEF Good, R
\* The listing of a note has the todos at its lines with a task.
LEMMA TasksAreListed ==
    ASSUME NEW n, NEW a, IsLines(a)
    PROVE  Range(TasksOf(n, a)) =
             {TodoAt(n, a, NoteAreaOf(Meta[n]), i) : i \in TaskLines(a)}
<1> DEFINE T == TaskLines(a)
           At(i) == TodoAt(n, a, NoteAreaOf(Meta[n]), i)
           l == Ascending(T)
           m == Cardinality(T)
<1>1. /\ l \in [1..m -> T]
      /\ \A i \in T : \E o \in 1..m : l[o] = i
  BY TaskLinesType, AscendingLists
<1>2. TasksOf(n, a) = [o \in DOMAIN l |-> At(l[o])]
  BY DEF TasksOf, TodoTasks
<1> HIDE DEF l, m, T, At
<1>3. DOMAIN l = 1..m /\ \A o \in 1..m : l[o] \in T
  BY <1>1
<1>4. DOMAIN TasksOf(n, a) = 1..m /\ \A o \in 1..m : TasksOf(n, a)[o] = At(l[o])
  BY <1>2, <1>3
<1>5. Range(TasksOf(n, a)) = {At(i) : i \in T}
  BY <1>1, <1>3, <1>4 DEF Range
<1> QED BY <1>5 DEF T, At

LEMMA OutsideIs ==
    ASSUME NEW n, NEW a, IsLines(a), NEW at
    PROVE  LET touched == {Place(TaskBlocks(a), i) : i \in at}
           IN Outside(n, a, at) =
                [ranks |-> touched,
                 todos |-> [r \in 1..Cardinality(TaskBlocks(a)) \ touched |->
                              FactsAt(n, a, r)]]
<1> DEFINE At(i) == TodoAt(n, a, NoteAreaOf(Meta[n]), i)
           Of(r) == {Facts(t) : t \in {u \in Range(TasksOf(n, a)) :
                                         Place(TaskBlocks(a), u.line) = r}}
<1>1. Range(TasksOf(n, a)) = {At(i) : i \in TaskLines(a)}
  BY TasksAreListed
<1>2. \A i : At(i).line = i
  BY DEF TodoAt
<1>3. ASSUME NEW r
      PROVE  Of(r) = FactsAt(n, a, r)
  <2>1. FactsAt(n, a, r) =
          {Facts(At(x)) : x \in {y \in TaskLines(a) : Place(TaskBlocks(a), y) = r}}
    BY DEF FactsAt
  <2> HIDE DEF At
  <2> QED BY <2>1, <1>1, <1>2
<1> DEFINE touched == {Place(TaskBlocks(a), i) : i \in at}
           places == 1..Cardinality(TaskBlocks(a)) \ touched
<1>4. Outside(n, a, at) = [ranks |-> touched, todos |-> [r \in places |-> Of(r)]]
  BY DEF Outside
<1> HIDE DEF touched, Of
<1>5. [r \in places |-> Of(r)] = [r \in places |-> FactsAt(n, a, r)]
  BY <1>3
<1> QED BY <1>4, <1>5 DEF touched

\* A task has a task on top at or above it.
LEMMA TaskHasTop ==
    ASSUME NEW a, IsLines(a), NEW i \in TaskLines(a)
    PROVE  /\ TaskBlocks(a) \in SUBSET Nat
           /\ IsFiniteSet(TaskBlocks(a))
           /\ Place(TaskBlocks(a), i) \in 1..Cardinality(TaskBlocks(a))
<1> DEFINE T == TaskLines(a)
           B == TaskBlocks(a)
<1>1. T \in SUBSET Nat /\ IsFiniteSet(T) /\ B \in SUBSET T
  BY TaskLinesType
<1>2. B \in SUBSET Nat /\ IsFiniteSet(B)
  BY <1>1, FS_Subset
<1>3. PICK m \in T : \A k \in T : m <= k
  <2>1. T # {}
    OBVIOUS
  <2> HIDE DEF T
  <2> QED BY <1>1, <2>1, SmallestNumber
<1>4. m \in B
  <2>1. \A k \in T : ~(k < m)
    BY <1>1, <1>3
  <2> QED BY <2>1 DEF TaskBlocks
<1>5. m <= i /\ i \in Nat
  BY <1>1, <1>3
<1> HIDE DEF B, T
<1>6. m \in {j \in B : j <= i} /\ IsFiniteSet({j \in B : j <= i})
  BY <1>2, <1>4, <1>5, PlaceType
<1>7. Place(B, i) # 0
  BY <1>6, FS_EmptySet DEF Place
<1>8. Place(B, i) \in Nat /\ Place(B, i) <= Cardinality(B) /\ Cardinality(B) \in Nat
  BY <1>2, <1>5, PlaceType, FS_CardinalityType
<1> QED BY <1>2, <1>7, <1>8 DEF B

\* What an update leaves outside of its blocks, as UpdateIsLocal puts it.
LEMMA OutsideStays ==
    ASSUME NEW n, NEW a, NEW b, IsLines(a), IsLines(b),
           NEW at \in SUBSET TaskLines(a),
           SaysTheSame(n, a, b, {Place(TaskBlocks(a), i) : i \in at})
    PROVE  LET before == Outside(n, a, at)
               blocks == TaskBlocks(b)
               after == {i \in blocks : Place(blocks, i) \in before.ranks}
           IN Outside(n, b, after) = before
<1> DEFINE R == {Place(TaskBlocks(a), i) : i \in at}
           B == TaskBlocks(b)
           m == Cardinality(B)
           after == {i \in B : Place(B, i) \in R}
<1>1. m = Cardinality(TaskBlocks(a)) /\ \A r : r \notin R => FactsAt(n, a, r) = FactsAt(n, b, r)
  BY DEF SaysTheSame
<1>2. B \in SUBSET Nat /\ IsFiniteSet(B)
  BY TaskLinesType, FS_Subset
<1>3. R \in SUBSET (1..m)
  BY <1>1, TaskHasTop
<1>4. {Place(B, i) : i \in after} = R
  <2> HIDE DEF B, R, m
  <2>1. ASSUME NEW r \in R
        PROVE  \E i \in after : Place(B, i) = r
    <3>1. r \in 1..Cardinality(B)
      BY <1>3 DEF m
    <3>2. PICK i \in B : Place(B, i) = r
      BY <1>2, <3>1, PlaceTaken
    <3> QED BY <3>2
  <2> QED BY <2>1
<1>5. Outside(n, a, at) = [ranks |-> R, todos |-> [r \in 1..m \ R |-> FactsAt(n, a, r)]]
  <2> DEFINE touched == {Place(TaskBlocks(a), i) : i \in at}
             size == Cardinality(TaskBlocks(a))
  <2>1. Outside(n, a, at) =
          [ranks |-> touched, todos |-> [r \in 1..size \ touched |-> FactsAt(n, a, r)]]
    BY OutsideIs
  <2>2. touched = R /\ size = m
    BY <1>1
  <2> HIDE DEF touched, size, R, m
  <2> QED BY <2>1, <2>2
<1>6. Outside(n, b, after) = [ranks |-> R, todos |-> [r \in 1..m \ R |-> FactsAt(n, b, r)]]
  <2> DEFINE touched == {Place(TaskBlocks(b), i) : i \in after}
             size == Cardinality(TaskBlocks(b))
  <2> HIDE DEF after
  <2>1. Outside(n, b, after) =
          [ranks |-> touched, todos |-> [r \in 1..size \ touched |-> FactsAt(n, b, r)]]
    BY OutsideIs
  <2>2. touched = R /\ size = m
    BY <1>4
  <2> HIDE DEF touched, size, R, m
  <2> QED BY <2>1, <2>2
<1> HIDE DEF R, m
<1>7. [r \in 1..m \ R |-> FactsAt(n, a, r)] = [r \in 1..m \ R |-> FactsAt(n, b, r)]
  BY <1>1
<1>8. Outside(n, b, after) = Outside(n, a, at)
  BY <1>5, <1>6, <1>7
<1>9. Outside(n, a, at).ranks = R
  BY <1>5
<1> QED BY <1>8, <1>9
(***************************************************************************)
(* Until its note is written, a target is at the line it was listed for:   *)
(* the notes are different, and only the one in the buffer is written.     *)
(***************************************************************************)
TargetsStay ==
    ~disturbed =>
        \A t \in cmd.targets :
            t.note \in Range(cmd.left) => t.line \in TaskLines(files[t.note])

LEMMA FoundTargetsStay ==
    ASSUME IInv, FindTargets
    PROVE  TargetsStay'
<1>1. IsCommand(cmd)
  BY DEF IInv, CommandOK, CommandShape
<1>2. files' = files /\ cmd'.targets \subseteq Listed
  BY <1>1 DEF FindTargets, Files, IsCommand
<1>3. ASSUME NEW t \in Listed
      PROVE  t.line \in TaskLines(files[t.note])
  <2>1. PICK n \in Range(Walk) : t \in TodosIn(n)
    BY DEF Listed
  <2>2. PICK i \in TaskLines(files[n]) : t = TodoAt(n, files[n], NoteAreaOf(Meta[n]), i)
    BY <2>1 DEF TodosIn
  <2>3. t.note = n /\ t.line = i
    BY <2>2 DEF TodoAt
  <2> QED BY <2>3
<1> QED BY <1>2, <1>3 DEF TargetsStay

LEMMA UpdatedTargetsStay ==
    ASSUME IInv, TargetsStay, UpdateTaskIndexTodos
    PROVE  TargetsStay'
<1> DEFINE n == Head(cmd.left)
           updated == UpdateLines(n, cmd.buf)
<1>1. /\ files' = files \/ files' = [files EXCEPT ![n] = updated]
      /\ cmd' = IF Tail(cmd.left) = <<>> THEN NextStage
                ELSE [cmd EXCEPT !.left = Tail(@), !.buf = None]
      /\ disturbed' = disturbed
      /\ cmd.buf # None
  BY DEF UpdateTaskIndexTodos, WritesBack, Writes
<1> HIDE DEF updated
<1>2. CommandShape(cmd) /\ cmd.left # <<>> /\ Notes(files)
  BY <1>1 DEF IInv, CommandOK, BufferIsNote, FilesOK
<1>3. n \in Note /\ Range(Tail(cmd.left)) \subseteq Range(cmd.left) \ {n}
  BY <1>2, TailOfLeft DEF CommandShape
<1>4. CASE Tail(cmd.left) = <<>>
  <2>1. cmd'.targets = {}
    BY <1>1, <1>4 DEF NextStage, Idle
  <2> QED BY <2>1 DEF TargetsStay
<1>5. CASE Tail(cmd.left) # <<>>
  <2>1. cmd'.targets = cmd.targets /\ cmd'.left = Tail(cmd.left)
    BY <1>1, <1>2, <1>5 DEF CommandShape, IsCommand
  <2>2. \A m \in Note \ {n} : files'[m] = files[m]
    BY <1>1, <1>2 DEF Notes
  <2>3. Range(cmd.left) \subseteq Note
    BY <1>2 DEF CommandShape, Range
  <2> HIDE DEF n
  <2> QED BY <1>1, <1>3, <2>1, <2>2, <2>3 DEF TargetsStay
<1> QED BY <1>4, <1>5

LEMMA NextTargetsStay ==
    ASSUME IInv, TargetsStay, [Next]_vars
    PROVE  TargetsStay'
<1>1. CommandShape(cmd) /\ IsCommand(cmd)
  BY DEF IInv, CommandOK, CommandShape
<1>2. Idle.targets = {} /\ NextStage.targets = {}
  BY DEF Idle, NextStage
<1>3. CASE cmd'.targets = {} \/ disturbed'
  BY <1>3 DEF TargetsStay
<1>4. CASE UNCHANGED <<files, disturbed>> /\ cmd'.targets = cmd.targets /\ cmd'.left = cmd.left
  BY <1>4 DEF TargetsStay
<1>5. CASE UNCHANGED vars
  BY <1>4, <1>5 DEF vars
<1>6. CASE User
  <2>1. CASE \/ \E n \in Range(Walk) : \E i \in DOMAIN files[n] : UserTicks(n, i)
             \/ \E n \in Range(Walk) : \E i \in 2..(Len(files[n]) + 1), t \in Text :
                   UserInserts(n, i, t)
             \/ \E i \in DOMAIN dash : UserTicksDashboard(i)
    BY <2>1, <1>3 DEF UserTicks, UserInserts, UserTicksDashboard, UserSaves, Saves
  <2>2. CASE QueryTodos
    BY <2>2, <1>4 DEF QueryTodos
  <2>3. ASSUME NEW plan, NEW ids, NEW params, Begin(plan, ids, params)
        PROVE  cmd'.targets = {}
    BY <2>3, <1>2 DEF Begin, Idle
  <2>4. CASE \/ SyncTodos \/ ArchiveTodos
             \/ \E t \in seen : ToggleTodo(TodoId(t))
             \/ \E k \in 1..MaxIds, params \in Params :
                   \E ids \in kSubset(k, {TodoId(t) : t \in seen}) : UpdateTodos(ids, params)
    BY <2>3, <2>4, <1>3 DEF SyncTodos, ArchiveTodos, ToggleTodo, UpdateTodos
  <2> QED BY <1>6, <2>1, <2>2, <2>4 DEF User
<1>7. CASE Command
  <2>1. CASE Stops \/ TodoNotFound \/ NoCheckbox \/ AlreadyToggled
    BY <2>1, <1>2, <1>3 DEF Stops, TodoNotFound, NoCheckbox, AlreadyToggled, Gives
  <2>2. CASE ToggleTaskIndexTodo \/ WriteDashboard \/ NothingToArchive
    BY <2>2, <1>2, <1>3 DEF ToggleTaskIndexTodo, WriteDashboard, NothingToArchive
  <2>3. CASE ReadSelections \/ ReadTarget \/ ReadNote \/ WriteArchive
    BY <2>3, <1>1, <1>4 DEF ReadSelections, ReadTarget, ReadNote, WriteArchive, Files, IsCommand
  <2>4. CASE SyncNote \/ CollectNote \/ PruneNote
    <3>1. Stage \in {"sync", "refresh", "archive", "archiveMarked"}
      BY <2>4 DEF SyncNote, CollectNote, PruneNote, Syncing, Archiving
    <3>2. ~In(cmd, {"toggle", "update"})
      BY <3>1, StageIn DEF In
    <3>3. cmd.targets = {}
      BY <3>2, <1>1 DEF CommandShape
    <3>4. CASE SyncNote
      BY <3>3, <3>4, <1>1, <1>3 DEF SyncNote, IsCommand
    <3>5. CASE CollectNote
      BY <3>3, <3>5, <1>1, <1>3 DEF CollectNote, IsCommand
    <3>6. CASE PruneNote
      BY <3>3, <3>6, <1>1, <1>2, <1>3 DEF PruneNote, IsCommand
    <3> QED BY <2>4, <3>4, <3>5, <3>6
  <2> QED BY <1>7, <2>1, <2>2, <2>3, <2>4, FoundTargetsStay, UpdatedTargetsStay DEF Command
<1> QED BY <1>5, <1>6, <1>7 DEF Next

\* What the update of a note does to it.
LEMMA UpdateOfNoteIsLocal ==
    ASSUME IInv, TargetsStay, UpdateTaskIndexTodos, ~disturbed',
           NEW n \in Note, files'[n] # files[n]
    PROVE  LET at == {t.line : t \in Targets(n)}
               before == Outside(n, files[n], at)
               blocks == TaskBlocks(files'[n])
               after == {i \in blocks : Place(blocks, i) \in before.ranks}
           IN Outside(n, files'[n], after) = before
<1> DEFINE a == files[n]
           b == UpdateLines(n, a)
           at == {t.line : t \in Targets(n)}
<1>1. /\ \/ files' = files
         \/ files' = [files EXCEPT ![Head(cmd.left)] = UpdateLines(Head(cmd.left), cmd.buf)]
      /\ ~disturbed /\ cmd.buf # None
  BY DEF UpdateTaskIndexTodos, WritesBack, Writes
<1>2. /\ CommandShape(cmd) /\ cmd.left # <<>> /\ Notes(files)
      /\ cmd.buf = files[Head(cmd.left)]
  BY <1>1 DEF IInv, CommandOK, BufferIsNote, FilesOK
<1>3. n = Head(cmd.left) /\ files'[n] = b /\ IsLines(a)
  BY <1>1, <1>2 DEF Notes
<1>4. n \in Range(cmd.left)
  BY <1>2, <1>3, TailOfLeft DEF CommandShape
<1>5. \A t \in Targets(n) : t.line \in TaskLines(a)
  BY <1>1, <1>4 DEF TargetsStay, Targets
<1>6. IsLines(b) /\ SaysTheSame(n, a, b, {Place(TaskBlocks(a), t.line) : t \in Targets(n)})
  <2> HIDE DEF a
  <2> QED BY <1>3, <1>5, UpdateLinesAreLocal
<1> HIDE DEF b
<1>7. /\ at \in SUBSET TaskLines(a)
      /\ {Place(TaskBlocks(a), t.line) : t \in Targets(n)} = {Place(TaskBlocks(a), i) : i \in at}
  BY <1>5
<1> HIDE DEF at, a
<1> DEFINE before == Outside(n, a, at)
           blocks == TaskBlocks(b)
           after == {i \in blocks : Place(blocks, i) \in before.ranks}
<1>8. Outside(n, b, after) = before
  BY <1>3, <1>6, <1>7, OutsideStays
<1> QED BY <1>3, <1>8 DEF a, at

(***************************************************************************)
(* An update leaves what the other todos of the note say as it was, for    *)
(* all notes, edits and sets of ids, while no file is saved under it.      *)
(***************************************************************************)
THEOREM UpdatesAreLocal == Spec => UpdateIsLocal
<1>1. Init => TargetsStay
  BY DEF Init, TargetsStay, Idle
<1>2. IInv /\ TargetsStay /\ [Next]_vars => TargetsStay'
  BY NextTargetsStay
<1>3. Spec => []TargetsStay
  BY <1>1, <1>2, InductiveInvariant, PTL DEF Spec
<1>4. IInv /\ TargetsStay /\ [Next]_vars =>
        [Stage = "update" /\ cmd.buf # None /\ ~disturbed'
         => \A n \in Note :
               files'[n] # files[n] =>
                   LET at == {t.line : t \in Targets(n)}
                       before == Outside(n, files[n], at)
                       blocks == TaskBlocks(files'[n])
                       after == {i \in blocks : Place(blocks, i) \in before.ranks}
                   IN Outside(n, files'[n], after) = before]_vars
  <2> SUFFICES ASSUME IInv, TargetsStay, [Next]_vars,
                      Stage = "update", cmd.buf # None, ~disturbed',
                      NEW n \in Note, files'[n] # files[n]
               PROVE  LET at == {t.line : t \in Targets(n)}
                          before == Outside(n, files[n], at)
                          blocks == TaskBlocks(files'[n])
                          after == {i \in blocks : Place(blocks, i) \in before.ranks}
                      IN Outside(n, files'[n], after) = before
    OBVIOUS
  <2>1. files' # files
    OBVIOUS
  <2>2. ~User
    <3>1. ~ \E m \in Range(Walk) : \E i \in DOMAIN files[m] : UserTicks(m, i)
      BY DEF UserTicks, UserSaves, Saves
    <3>2. ~ \E m \in Range(Walk) : \E i \in 2..(Len(files[m]) + 1), t \in Text :
              UserInserts(m, i, t)
      BY DEF UserInserts, UserSaves, Saves
    <3>3. ~ \E i \in DOMAIN dash : UserTicksDashboard(i)
      BY DEF UserTicksDashboard, Saves
    <3>4. \A plan, ids, params : ~Begin(plan, ids, params)
      BY <2>1 DEF Begin
    <3>5. ~QueryTodos
      BY <2>1 DEF QueryTodos
    <3> QED BY <3>1, <3>2, <3>3, <3>4, <3>5
            DEF User, SyncTodos, ArchiveTodos, ToggleTodo, UpdateTodos
  <2>3. UpdateTaskIndexTodos
    <3>1. Command
      BY <2>1, <2>2 DEF Next, vars
    <3>2. ~(Stops \/ TodoNotFound \/ NoCheckbox \/ AlreadyToggled)
      BY <2>1 DEF Stops, TodoNotFound, NoCheckbox, AlreadyToggled, Gives, Files
    <3>3. ~(ReadSelections \/ ReadNote \/ WriteDashboard \/ FindTargets \/ ReadTarget)
      BY <2>1 DEF ReadSelections, ReadNote, WriteDashboard, FindTargets, ReadTarget, Files
    <3>4. ~(CollectNote \/ WriteArchive \/ NothingToArchive)
      BY <2>1 DEF CollectNote, WriteArchive, NothingToArchive, Files
    <3>5. ~(SyncNote \/ ToggleTaskIndexTodo \/ PruneNote)
      BY DEF SyncNote, ToggleTaskIndexTodo, PruneNote, Syncing, Archiving
    <3> QED BY <3>1, <3>2, <3>3, <3>4, <3>5 DEF Command
  <2> QED BY <2>3, UpdateOfNoteIsLocal
<1> QED BY <1>3, <1>4, InductiveInvariant, PTL DEF Spec, UpdateIsLocal
=============================================================================
