-------------------------- MODULE TodoUpdatesProofs --------------------------
(***************************************************************************)
(* Theorems about TodoUpdates, for any text, line, defaults and updates,   *)
(* and for any calendar.                                                   *)
(*                                                                         *)
(* All three rest on what First makes of two texts put together, and so of *)
(* a line that was put together of tokens.                                 *)
(***************************************************************************)
EXTENDS TodoUpdates, FiniteSetTheorems, SequenceTheorems, TLAPS

-----------------------------------------------------------------------------
\* A set of numbers that is not empty has a smallest element.
LEMMA SmallestNumber ==
    ASSUME NEW S \in SUBSET Nat, S # {}
    PROVE  \E m \in S : \A i \in S : m <= i
<1>1. PICK m \in S : \A i \in S : <<i, m>> \notin OpToRel(<, Nat)
  BY NatLessThanWellFounded, WFMin, Zenon
<1>2. \A i \in S : ~(i < m)
  BY <1>1, Zenon DEF OpToRel
<1> QED BY <1>2

-----------------------------------------------------------------------------
Text == Seq(Tokens)

\* Tokens can be written of all that is there.
Writable(meta) ==
    \A k \in Keys : meta[k] # None => Token(k, "short", meta[k]) \in Tokens

\* The inductive invariant: text and line are made of tokens.
TokensInv == text \in Text /\ line \in Text /\ defaults \in Defaults

-----------------------------------------------------------------------------
(***************************************************************************)
(* The first token.                                                        *)
(***************************************************************************)
\* A token is a triple with a key and a value.
LEMMA TokenParts ==
    ASSUME NEW t \in Tokens
    PROVE  /\ t = Token(KeyOf(t), t[2], t[3])
           /\ KeyOf(t) \in Keys /\ t[2] \in {"short", "long", "either"} /\ t[3] # None
  BY NoneAssumption DEF Tokens, Token, KeyOf, Keys, Short, Long, Priority

\* The first place where something is found comes before all others.
LEMMA FoundFirst ==
    ASSUME NEW t \in Text, NEW key, NEW spellings, Found(t, key, spellings) # {}
    PROVE  /\ Min(Found(t, key, spellings)) \in Found(t, key, spellings)
           /\ \A i \in Found(t, key, spellings) : Min(Found(t, key, spellings)) <= i
<1> DEFINE found == Found(t, key, spellings)
<1>1. found \in SUBSET Nat
  BY DEF Found, Text
<1> HIDE DEF found
<1>2. \E m \in found : \A i \in found : m <= i
  BY <1>1, SmallestNumber DEF found
<1> QED BY <1>2 DEF Min, found

\* A value that is read stands in the text with its key and such a spelling.
LEMMA FirstStands ==
    ASSUME NEW t \in Text, NEW key, NEW spellings
    PROVE  /\ First(t, key, spellings) = None <=> Found(t, key, spellings) = {}
           /\ First(t, key, spellings) # None =>
                \E spelled \in spellings :
                   Token(key, spelled, First(t, key, spellings)) \in Tokens
<1>1. CASE Found(t, key, spellings) = {}
  BY <1>1 DEF First
<1>2. CASE Found(t, key, spellings) # {}
  <2> DEFINE m == Min(Found(t, key, spellings))
  <2>1. m \in Found(t, key, spellings)
    BY <1>2, FoundFirst
  <2>2. First(t, key, spellings) = t[m][3]
    BY <1>2 DEF First
  <2>3. t[m] \in Tokens /\ KeyOf(t[m]) = key /\ t[m][2] \in spellings
    BY <2>1 DEF Found, Text
  <2>4. t[m][3] # None /\ t[m] = Token(key, t[m][2], t[m][3])
    BY <2>3, TokenParts
  <2> QED BY <1>2, <2>2, <2>3, <2>4
<1> QED BY <1>1, <1>2

\* The first of a text is at its first place.
LEMMA FirstIsAt ==
    ASSUME NEW t \in Text, NEW key, NEW spellings, NEW m \in Found(t, key, spellings),
           \A i \in Found(t, key, spellings) : m <= i
    PROVE  First(t, key, spellings) = t[m][3]
<1> DEFINE n == Min(Found(t, key, spellings))
<1>1. n \in Found(t, key, spellings) /\ n <= m
  BY FoundFirst
<1>2. m <= n
  BY <1>1
<1>3. m \in Nat /\ n \in Nat
  BY <1>1 DEF Found, Text
<1>4. m = n
  BY <1>1, <1>2, <1>3
<1> QED BY <1>4 DEF First

(***************************************************************************)
(* Of two texts put together the first decides, if it says anything.       *)
(***************************************************************************)
LEMMA FirstOfTwo ==
    ASSUME NEW a \in Text, NEW b \in Text, NEW key, NEW spellings
    PROVE  /\ a \o b \in Text
           /\ First(a \o b, key, spellings)
                = Given(First(a, key, spellings), First(b, key, spellings))
<1> DEFINE ab == a \o b
           F(t) == Found(t, key, spellings)
<1>1. /\ ab \in Text /\ Len(ab) = Len(a) + Len(b)
      /\ Len(a) \in Nat /\ Len(b) \in Nat
      /\ \A i \in 1..Len(a) : ab[i] = a[i]
      /\ \A i \in 1..Len(b) : ab[i + Len(a)] = b[i]
      /\ DOMAIN a = 1..Len(a) /\ DOMAIN b = 1..Len(b) /\ DOMAIN ab = 1..(Len(a) + Len(b))
  BY DEF Text
<1> HIDE DEF ab
<1>2. \A i \in 1..Len(a) : i \in F(ab) <=> i \in F(a)
  BY <1>1 DEF Found
<1>3. \A i \in 1..Len(b) : (i + Len(a)) \in F(ab) <=> i \in F(b)
  BY <1>1 DEF Found
<1>4. \A i \in F(ab) : i \in 1..Len(a) \/ (i - Len(a) \in 1..Len(b) /\ i \in Int)
  BY <1>1 DEF Found
<1>5. F(a) \subseteq 1..Len(a) /\ F(b) \subseteq 1..Len(b)
  BY <1>1 DEF Found
<1>6. CASE F(a) # {}
  <2> DEFINE m == Min(F(a))
  <2>1. m \in F(a) /\ \A i \in F(a) : m <= i
    BY <1>6, FoundFirst
  <2> HIDE DEF m
  <2>2. m \in F(ab) /\ ab[m] = a[m]
    BY <1>1, <1>2, <1>5, <2>1
  <2>3. \A i \in F(ab) : m <= i
    BY <1>1, <1>2, <1>4, <1>5, <2>1
  <2>4. First(ab, key, spellings) = a[m][3] /\ First(a, key, spellings) = a[m][3]
    BY <1>1, <2>1, <2>2, <2>3, FirstIsAt
  <2> QED BY <1>1, <1>6, <2>4, FirstStands DEF Given, ab
<1>7. CASE F(a) = {} /\ F(b) # {}
  <2> DEFINE m == Min(F(b))
             k == m + Len(a)
  <2>1. m \in F(b) /\ \A i \in F(b) : m <= i
    BY <1>7, FoundFirst
  <2> HIDE DEF m
  <2>2. k \in F(ab) /\ ab[k] = b[m] /\ m \in Nat
    BY <1>1, <1>3, <1>5, <2>1
  <2>3. \A i \in F(ab) : k <= i
    <3> SUFFICES ASSUME NEW i \in F(ab) PROVE k <= i
      OBVIOUS
    <3>1. i - Len(a) \in 1..Len(b) /\ i \in Int
      BY <1>2, <1>4, <1>7
    <3>2. (i - Len(a)) + Len(a) = i
      BY <1>1, <3>1
    <3>3. i - Len(a) \in F(b)
      BY <1>3, <3>1, <3>2
    <3> QED BY <1>1, <2>1, <2>2, <3>1, <3>3
  <2>4. First(ab, key, spellings) = b[m][3] /\ First(b, key, spellings) = b[m][3]
    BY <1>1, <2>1, <2>2, <2>3, FirstIsAt
  <2> QED BY <1>1, <1>7, <2>4, FirstStands DEF Given, ab
<1>8. CASE F(a) = {} /\ F(b) = {}
  <2>1. F(ab) = {}
    <3> SUFFICES ASSUME NEW i \in F(ab) PROVE FALSE
      OBVIOUS
    <3>1. i - Len(a) \in 1..Len(b) /\ i \in Int
      BY <1>2, <1>4, <1>8
    <3>2. (i - Len(a)) + Len(a) = i
      BY <1>1, <3>1
    <3> QED BY <1>3, <1>8, <3>1, <3>2
  <2> QED BY <1>1, <1>8, <2>1 DEF First, Given, ab
<1> QED BY <1>1, <1>6, <1>7, <1>8 DEF ab

-----------------------------------------------------------------------------
(***************************************************************************)
(* A line that is put together of tokens, each spelled short.              *)
(***************************************************************************)
\* One token, or none.
LEMMA SpelledReads ==
    ASSUME NEW k, NEW value, value # None => Token(k, "short", value) \in Tokens
    PROVE  /\ Spelled(k, value) \in Text
           /\ \A key, spellings :
                 First(Spelled(k, value), key, spellings)
                   = IF key = k /\ "short" \in spellings THEN value ELSE None
<1>1. CASE value = None
  <2>1. Spelled(k, value) = <<>>
    BY <1>1 DEF Spelled
  <2>2. \A key, spellings : Found(<<>>, key, spellings) = {}
    BY DEF Found
  <2> QED BY <1>1, <2>1, <2>2 DEF First, Text
<1>2. CASE value # None
  <2> DEFINE t == Spelled(k, value)
  <2>1. /\ t \in Text /\ DOMAIN t = {1} /\ t[1][3] = value
        /\ KeyOf(t[1]) = k /\ t[1][2] = "short"
    BY <1>2 DEF Spelled, Text, Token, KeyOf
  <2> HIDE DEF t
  <2>2. SUFFICES ASSUME NEW key, NEW spellings
                 PROVE  First(t, key, spellings)
                          = IF key = k /\ "short" \in spellings THEN value ELSE None
    BY <2>1 DEF t
  <2>3. CASE key = k /\ "short" \in spellings
    <3>1. Found(t, key, spellings) = {1}
      BY <2>1, <2>3 DEF Found
    <3> QED BY <2>1, <2>3, <3>1, FirstIsAt
  <2>4. CASE ~(key = k /\ "short" \in spellings)
    <3>1. Found(t, key, spellings) = {}
      BY <2>1, <2>4 DEF Found
    <3> QED BY <2>4, <3>1 DEF First
  <2> QED BY <2>3, <2>4
<1> QED BY <1>1, <1>2

(***************************************************************************)
(* What mw todos update writes is read back as it was meant.               *)
(***************************************************************************)
LEMMA LineReads ==
    ASSUME NEW meta, Writable(meta)
    PROVE  /\ Line(meta) \in Text
           /\ \A k \in Keys : /\ First(Line(meta), k, Short) = meta[k]
                              /\ First(Line(meta), k, Long) = None
<1> DEFINE S(k) == Spelled(k, meta[k])
           l1 == S("area")
           l2 == l1 \o S("priority")
           l3 == l2 \o S("energy")
           l4 == l3 \o S("weight")
           l5 == l4 \o S("due")
           l6 == l5 \o S("start")
           l7 == l6 \o S("estimate")
           One(k, key, spellings) ==
              IF key = k /\ "short" \in spellings THEN meta[k] ELSE None
<1>1. Line(meta) = l7
  BY DEF Line
<1>2. \A k \in Keys : /\ S(k) \in Text
                      /\ \A key, spellings :
                            First(S(k), key, spellings) = One(k, key, spellings)
  BY SpelledReads DEF Writable
<1> HIDE DEF S
<1>3. /\ {"area", "priority", "energy", "weight", "due", "start", "estimate"} = Keys
      /\ l1 \in Text
  BY <1>2 DEF Keys
<1>4. l2 \in Text
  BY <1>2, <1>3, FirstOfTwo
<1>5. l3 \in Text
  BY <1>2, <1>3, <1>4, FirstOfTwo
<1>6. l4 \in Text
  BY <1>2, <1>3, <1>5, FirstOfTwo
<1>7. l5 \in Text
  BY <1>2, <1>3, <1>6, FirstOfTwo
<1>8. l6 \in Text
  BY <1>2, <1>3, <1>7, FirstOfTwo
<1>9. l7 \in Text
  BY <1>2, <1>3, <1>8, FirstOfTwo
<1>10. ASSUME NEW k \in Keys, NEW spellings
       PROVE  First(l7, k, spellings) = IF "short" \in spellings THEN meta[k] ELSE None
  <2>1. First(l1, k, spellings) = One("area", k, spellings)
    BY <1>2, <1>3
  <2>2. First(l2, k, spellings) = Given(First(l1, k, spellings), One("priority", k, spellings))
    BY <1>2, <1>3, FirstOfTwo
  <2>3. First(l3, k, spellings) = Given(First(l2, k, spellings), One("energy", k, spellings))
    BY <1>2, <1>3, <1>4, FirstOfTwo
  <2>4. First(l4, k, spellings) = Given(First(l3, k, spellings), One("weight", k, spellings))
    BY <1>2, <1>3, <1>5, FirstOfTwo
  <2>5. First(l5, k, spellings) = Given(First(l4, k, spellings), One("due", k, spellings))
    BY <1>2, <1>3, <1>6, FirstOfTwo
  <2>6. First(l6, k, spellings) = Given(First(l5, k, spellings), One("start", k, spellings))
    BY <1>2, <1>3, <1>7, FirstOfTwo
  <2>7. First(l7, k, spellings) = Given(First(l6, k, spellings), One("estimate", k, spellings))
    BY <1>2, <1>3, <1>8, FirstOfTwo
  <2> HIDE DEF l1, l2, l3, l4, l5, l6, l7
  <2> QED BY <1>3, <2>1, <2>2, <2>3, <2>4, <2>5, <2>6, <2>7 DEF Given
<1> HIDE DEF l7
<1>11. "short" \in Short /\ "short" \notin Long
  BY DEF Short, Long
<1> QED BY <1>1, <1>9, <1>10, <1>11

-----------------------------------------------------------------------------(***************************************************************************)
(* What the listing reads.                                                 *)
(***************************************************************************)
\* Key by key, what a text says, and what is shown.
LEMMA ReadsByKey ==
    ASSUME NEW t, NEW l, NEW k \in Keys
    PROVE  /\ Explicit(t)[k] = IF k = "priority" THEN LongFirst(t, k)
                               ELSE IF k = "energy" THEN Known(LongFirst(t, k), None)
                               ELSE First(t, k, Short)
           /\ Shown(t, l)[k] =
                IF k = "priority" THEN Given(Given(Explicit(t \o l)[k], defaults.priority), 3)
                ELSE IF k = "energy"
                THEN Given(Known(Given(Explicit(t \o l)[k], defaults.energy), None), "m")
                ELSE Explicit(t \o l)[k]
<1>1. "priority" \in Keys /\ "energy" \in Keys
  BY DEF Keys
<1>2. \A x : /\ DOMAIN Explicit(x) = Keys
             /\ Explicit(x)[k] = IF k = "priority" THEN LongFirst(x, k)
                                 ELSE IF k = "energy" THEN Known(LongFirst(x, k), None)
                                 ELSE First(x, k, Short)
  BY DEF Explicit, ExtractPriority, ExtractEnergy
<1> QED BY <1>1, <1>2 DEF Shown, BuildTodoMetadata

\* What a text says can be written.
LEMMA ExplicitWritable ==
    ASSUME NEW t \in Text
    PROVE  Writable(Explicit(t))
<1> SUFFICES ASSUME NEW k \in Keys, Explicit(t)[k] # None
             PROVE  Token(k, "short", Explicit(t)[k]) \in Tokens
  BY DEF Writable
<1> DEFINE v == Explicit(t)[k]
<1>1. CASE k = "energy"
  <2>1. v \in Energy
    BY <1>1, ReadsByKey DEF Known
  <2> QED BY <1>1, <2>1 DEF Token, Tokens, Short
<1>2. CASE k # "energy"
  <2>1. v = First(t, k, Short) \/ v = First(t, k, Long)
    BY <1>2, ReadsByKey DEF LongFirst
  <2>2. PICK spelled : Token(k, spelled, v) \in Tokens
    BY <2>1, FirstStands
  <2> HIDE DEF v
  <2>3. Token(k, "short", v) \in Tokens
    BY <1>2, <2>2 DEF Token, Tokens, Short, Long
  <2> QED BY <2>3 DEF v
<1> QED BY <1>1, <1>2

\* A line that was written says what was meant.
LEMMA ExplicitOfLine ==
    ASSUME NEW meta, Writable(meta), NEW k \in Keys
    PROVE  Explicit(Line(meta))[k] = meta[k]
<1>1. First(Line(meta), k, Short) = meta[k] /\ First(Line(meta), k, Long) = None
  BY LineReads
<1>2. k = "energy" => meta[k] \in Energy \cup {None}
  BY DEF Writable, Token, Tokens, Short
<1> QED BY <1>1, <1>2, ReadsByKey DEF LongFirst, Known

\* A key that is not mentioned above is read from below.
LEMMA ExplicitBelow ==
    ASSUME NEW t \in Text, NEW l \in Text, NEW k \in Keys, ~Mentions(t, k)
    PROVE  Explicit(t \o l)[k] = Explicit(l)[k]
<1>1. \A spellings : Found(t, k, spellings) = {}
  BY DEF Found, Mentions
<1>2. \A spellings : First(t \o l, k, spellings) = First(l, k, spellings)
  BY <1>1, FirstStands, FirstOfTwo DEF Given
<1> QED BY <1>2, ReadsByKey DEF LongFirst

-----------------------------------------------------------------------------
(***************************************************************************)
(* Updates.                                                                *)
(***************************************************************************)
\* What a todo says after an update is what it said, but for what was asked.
LEMMA Updated ==
    ASSUME NEW l \in Text, NEW params \in Settings, NEW clear
    PROVE  /\ BuildUpdatedLine(l, params, clear) \in Text
           /\ \A k \in Keys \ (DOMAIN params \cup clear) :
                 Explicit(BuildUpdatedLine(l, params, clear))[k] = Explicit(l)[k]
<1> DEFINE meta == [k \in Keys |->
                      IF k \in DOMAIN params
                      THEN IF k = "energy" THEN Known(params[k], None) ELSE params[k]
                      ELSE IF k \in clear THEN None
                      ELSE Explicit(l)[k]]
<1>1. BuildUpdatedLine(l, params, clear) = Line(meta)
  BY DEF BuildUpdatedLine
<1>2. ASSUME NEW k \in Keys, meta[k] # None
      PROVE  Token(k, "short", meta[k]) \in Tokens
  <2>1. CASE k \in DOMAIN params /\ k = "energy"
    <3>1. meta[k] \in Energy
      BY <1>2, <2>1 DEF Known
    <3> QED BY <2>1, <3>1 DEF Token, Tokens, Short
  <2>2. CASE k \in DOMAIN params /\ k # "energy"
    BY <1>2, <2>2, UpdatesAssumption
  <2>3. CASE k \notin DOMAIN params
    BY <1>2, <2>3, ExplicitWritable DEF Writable
  <2> QED BY <2>1, <2>2, <2>3
<1>3. Writable(meta)
  BY <1>2 DEF Writable
<1>4. \A k \in Keys \ (DOMAIN params \cup clear) : meta[k] = Explicit(l)[k]
  OBVIOUS
<1> HIDE DEF meta
<1> QED BY <1>1, <1>3, <1>4, LineReads, ExplicitOfLine

(***************************************************************************)
(* In every reachable state text and line are made of tokens.              *)
(***************************************************************************)
THEOREM TokensInvariance == Spec => []TokensInv
<1>1. Init => TokensInv
  BY UpdatesAssumption DEF Init, TokensInv, Text
<1>2. TokensInv /\ [Next]_vars => TokensInv'
  BY Updated DEF TokensInv, Next, UpdateTodo, vars
<1> QED BY <1>1, <1>2, PTL DEF Spec

(***************************************************************************)
(* An update changes what is shown for the keys that were asked for and    *)
(* nothing else, whatever spelling, order or repetition the line had       *)
(* (buildUpdatedMetadataLine, explicitTodoMetadata).                       *)
(***************************************************************************)
THEOREM RestIsKept == Spec => UpdateKeepsTheRest
<1>1. ASSUME TokensInv, NEW params \in Settings, NEW clear \in Clears,
             UpdateTodo(params, clear), NEW k \in Keys \ (DOMAIN params \cup clear),
             ~Mentions(text, k)
      PROVE  Shown(text, line')[k] = Shown(text, line)[k]
  <2>1. line' = BuildUpdatedLine(line, params, clear)
    BY <1>1 DEF UpdateTodo
  <2>2. line' \in Text /\ Explicit(line')[k] = Explicit(line)[k]
    BY <1>1, <2>1, Updated DEF TokensInv
  <2>3. Explicit(text \o line')[k] = Explicit(text \o line)[k]
    BY <1>1, <2>2, ExplicitBelow DEF TokensInv
  <2> QED BY <1>1, <2>3, ReadsByKey
<1>2. TokensInv /\ [Next]_vars
        => [\E params \in Settings, clear \in Clears :
              /\ UpdateTodo(params, clear)
              /\ \A k \in Keys \ (DOMAIN params \cup clear) :
                   Mentions(text, k) \/ Shown(text, line')[k] = Shown(text, line)[k]]_vars
  BY <1>1 DEF Next
<1> QED BY <1>2, TokensInvariance, PTL DEF Spec, UpdateKeepsTheRest

-----------------------------------------------------------------------------(***************************************************************************)
(* Readers.                                                                *)
(***************************************************************************)
\* Tokens that are all spelled short are read alike by all.
LEMMA ShortReads ==
    ASSUME NEW t \in Text, AllShort(t), NEW k
    PROVE  /\ First(t, k, Long) = None
           /\ LongFirst(t, k) = First(t, k, Short)
           /\ k = "energy" => First(t, k, Short) \in Energy \cup {None}
<1>1. Found(t, k, Long) = {}
  BY DEF Found, AllShort, Long
<1>2. First(t, k, Long) = None
  BY <1>1, FirstStands
<1>3. ASSUME k = "energy", First(t, k, Short) # None
      PROVE  First(t, k, Short) \in Energy
  <2>1. PICK spelled \in Short : Token(k, spelled, First(t, k, Short)) \in Tokens
    BY <1>3, FirstStands
  <2> QED BY <1>3, <2>1 DEF Token, Tokens, Short
<1> QED BY <1>2, <1>3 DEF LongFirst

\* The weight is made of what First finds spelled short.
LEMMA WeightReads ==
    ASSUME NEW s, NEW t, NEW given,
           \A k \in Keys \ {"area"} : First(s, k, Short) = First(t, k, Short)
    PROVE  DeriveWeight(s, given) = DeriveWeight(t, given)
<1>1. /\ First(s, "priority", Short) = First(t, "priority", Short)
      /\ First(s, "energy", Short) = First(t, "energy", Short)
      /\ First(s, "weight", Short) = First(t, "weight", Short)
      /\ First(s, "due", Short) = First(t, "due", Short)
      /\ First(s, "start", Short) = First(t, "start", Short)
  BY DEF Keys
<1>2. /\ WeighedPriority(s, given.priority) = WeighedPriority(t, given.priority)
      /\ WeighedEnergy(s, given.energy) = WeighedEnergy(t, given.energy)
  BY <1>1 DEF WeighedPriority, WeighedEnergy
<1> QED BY <1>1, <1>2 DEF DeriveWeight

\* The line that is spelled anew for the screen says the same.
LEMMA TokensOfLine ==
    ASSUME NEW l \in Text, AllShort(l), NEW k \in Keys \ {"area"}
    PROVE  /\ MetadataTokens(l) \in Text
           /\ First(MetadataTokens(l), k, Short) = First(l, k, Short)
<1> DEFINE meta == [j \in Keys |-> IF j = "area" THEN None ELSE First(l, j, Short)]
<1>1. Writable(meta)
  <2> SUFFICES ASSUME NEW j \in Keys, meta[j] # None
               PROVE  Token(j, "short", meta[j]) \in Tokens
    BY DEF Writable
  <2>1. meta[j] = First(l, j, Short)
    OBVIOUS
  <2>2. Explicit(l)[j] = First(l, j, Short)
    BY ReadsByKey, ShortReads, NoneAssumption DEF Known
  <2> QED BY <2>1, <2>2, ExplicitWritable DEF Writable
<1>2. MetadataTokens(l) = Line(meta)
  <2> DEFINE S(j) == Spelled(j, meta[j])
  <2>1. /\ LongFirst(l, "priority") = meta["priority"]
        /\ First(l, "energy", Long) = None
        /\ Known(First(l, "energy", Short), None) = meta["energy"]
        /\ First(l, "weight", Short) = meta["weight"]
        /\ First(l, "due", Short) = meta["due"]
        /\ First(l, "start", Short) = meta["start"]
        /\ First(l, "estimate", Short) = meta["estimate"]
    BY ShortReads, NoneAssumption DEF Keys, Known
  <2>2. S("area") = <<>>
    BY DEF Spelled, Keys
  <2>3. S("priority") \in Text
    BY <1>1, SpelledReads DEF Writable, Keys
  <2>4. S("area") \o S("priority") = S("priority")
    BY <2>2, <2>3, ConcatEmptySeq DEF Text
  <2>5. MetadataTokens(l) = S("priority") \o S("energy") \o S("weight") \o S("due")
                              \o S("start") \o S("estimate")
    <3> HIDE DEF meta
    <3> QED BY <2>1 DEF MetadataTokens
  <2>6. Line(meta) = S("area") \o S("priority") \o S("energy") \o S("weight") \o S("due")
                       \o S("start") \o S("estimate")
    BY DEF Line
  <2> HIDE DEF S
  <2> QED BY <2>4, <2>5, <2>6
<1>3. meta[k] = First(l, k, Short)
  OBVIOUS
<1> HIDE DEF meta
<1> QED BY <1>1, <1>2, <1>3, LineReads

\* The second of two texts is short if both are.
LEMMA ShortBelow ==
    ASSUME NEW t \in Text, NEW l \in Text, AllShort(t \o l)
    PROVE  AllShort(l)
<1> SUFFICES ASSUME NEW i \in DOMAIN l PROVE l[i][2] = "short"
  BY DEF AllShort
<1>1. i + Len(t) \in DOMAIN (t \o l) /\ (t \o l)[i + Len(t)] = l[i]
  BY DEF Text
<1> QED BY <1>1 DEF AllShort

(***************************************************************************)
(* Listing, screen and weight read the same of a todo that is spelled      *)
(* short throughout, and its weight can be told from what is shown.        *)
(***************************************************************************)
LEMMA Agreement == TokensInv => ReadersAgree
<1> DEFINE all == text \o line
           shown == Shown(text, line)
           nothing == [priority |-> None, energy |-> None]
           unweighed == [shown EXCEPT !["weight"] = None]
           d == defaults
<1> SUFFICES ASSUME TokensInv, AllShort(all)
             PROVE  /\ shown["priority"] = EffectivePriority(all, d.priority)
                    /\ shown["energy"] = EffectiveEnergy(all, d.energy)
                    /\ DeriveWeight(all, d) = DeriveWeight(text \o MetadataTokens(line), d)
                    /\ shown["weight"] \in {None, 0}
                         => DeriveWeight(all, d) = DeriveWeight(Line(unweighed), nothing)
  BY DEF ReadersAgree
<1>1. text \in Text /\ line \in Text /\ all \in Text
  BY FirstOfTwo DEF TokensInv
<1>2. d.priority \in Priority \cup {None} /\ d.energy \in Energy \cup {Odd, None}
  BY UpdatesAssumption DEF TokensInv
<1>3. {"area", "priority", "energy", "weight", "due", "start", "estimate"} = Keys
  BY DEF Keys
<1>4. \A k \in Keys : /\ First(all, k, Long) = None
                      /\ LongFirst(all, k) = First(all, k, Short)
                      /\ Explicit(all)[k] = First(all, k, Short)
  BY <1>1, ShortReads, ReadsByKey, NoneAssumption DEF Known
<1>5. First(all, "energy", Short) \in Energy \cup {None}
  BY <1>1, ShortReads
<1>6. /\ shown["priority"] = Given(Given(First(all, "priority", Short), d.priority), 3)
      /\ shown["energy"] = Given(Known(Given(First(all, "energy", Short), d.energy), None), "m")
      /\ \A k \in Keys \ {"priority", "energy"} : shown[k] = First(all, k, Short)
  BY <1>3, <1>4, ReadsByKey
<1> HIDE DEF all, shown
<1>7. shown["priority"] = EffectivePriority(all, d.priority)
  BY <1>3, <1>4, <1>6 DEF EffectivePriority
<1>8. shown["energy"] = Known(First(all, "energy", Short), Known(d.energy, "m"))
  BY <1>2, <1>5, <1>6, NoneAssumption DEF Known, Given
<1>9. shown["energy"] = EffectiveEnergy(all, d.energy)
  BY <1>3, <1>4, <1>8, NoneAssumption DEF EffectiveEnergy, Known
<1>10. DeriveWeight(all, d) = DeriveWeight(text \o MetadataTokens(line), d)
  <2>1. AllShort(line)
    BY <1>1, ShortBelow DEF all
  <2>2. \A k \in Keys \ {"area"} :
           First(text \o MetadataTokens(line), k, Short) = First(all, k, Short)
    BY <1>1, <2>1, TokensOfLine, FirstOfTwo DEF all
  <2> QED BY <2>2, WeightReads
<1>11. ASSUME shown["weight"] \in {None, 0}
       PROVE  DeriveWeight(all, d) = DeriveWeight(Line(unweighed), nothing)
  <2>1. DOMAIN shown = Keys
    BY DEF shown, Shown, BuildTodoMetadata, Explicit
  <2>2. /\ \A k \in Keys \ {"weight"} : unweighed[k] = shown[k]
        /\ unweighed["weight"] = None
    BY <1>3, <2>1
  <2> HIDE DEF unweighed
  <2>3. Writable(unweighed)
    <3> SUFFICES ASSUME NEW k \in Keys, unweighed[k] # None
                 PROVE  Token(k, "short", unweighed[k]) \in Tokens
      BY DEF Writable
    <3>1. k # "weight" /\ unweighed[k] = shown[k]
      BY <2>2
    <3>2. Explicit(all)[k] # None => Token(k, "short", Explicit(all)[k]) \in Tokens
      BY <1>1, ExplicitWritable DEF Writable
    <3>3. CASE k = "priority"
      <4>1. First(all, k, Short) # None => First(all, k, Short) \in Priority
        BY <1>4, <3>2, <3>3 DEF Token, Tokens
      <4>2. shown[k] \in Priority
        BY <1>2, <1>6, <3>3, <4>1 DEF Given, Priority
      <4> QED BY <3>1, <3>3, <4>2 DEF Token, Tokens, Short
    <3>4. CASE k = "energy"
      <4>1. shown[k] \in Energy
        BY <1>2, <1>5, <1>8, <3>4 DEF Known, Energy
      <4> QED BY <3>1, <3>4, <4>1 DEF Token, Tokens, Short
    <3>5. CASE k \notin {"priority", "energy"}
      BY <1>4, <1>6, <3>1, <3>2, <3>5
    <3> QED BY <3>3, <3>4, <3>5
  <2> DEFINE l == Line(unweighed)
  <2>4. \A k \in Keys : First(l, k, Short) = unweighed[k]
    BY <2>3, LineReads
  <2> HIDE DEF l
  <2>5. /\ First(l, "weight", Short) = None
        /\ First(l, "due", Short) = First(all, "due", Short)
        /\ First(l, "start", Short) = First(all, "start", Short)
        /\ First(l, "priority", Short) = shown["priority"]
        /\ First(l, "energy", Short) = shown["energy"]
    BY <1>3, <1>6, <2>2, <2>4
  <2>6. WeighedPriority(l, None) = WeighedPriority(all, d.priority)
    BY <1>6, <2>5 DEF WeighedPriority, Given
  <2>7. WeighedEnergy(l, None) = WeighedEnergy(all, d.energy)
    BY <1>2, <1>5, <1>8, <2>5 DEF WeighedEnergy, Known, Energy
  <2>8. First(all, "weight", Short) \in {None, 0}
    BY <1>3, <1>6, <1>11
  <2>9. nothing.priority = None /\ nothing.energy = None
    OBVIOUS
  <2> HIDE DEF nothing
  <2> QED BY <2>5, <2>6, <2>7, <2>8, <2>9 DEF DeriveWeight, l
<1> QED BY <1>7, <1>9, <1>10, <1>11

(***************************************************************************)
(* Three readers that parse the text of a todo on their own agree about    *)
(* it, whatever its tokens, its defaults and its updates have been         *)
(* (buildTodoMetadata, buildTodoMetaSummary, DeriveTodoWeightWithDefaults).*)
(***************************************************************************)
THEOREM AllReadersAgree == Spec => []ReadersAgree
<1> QED BY TokensInvariance, Agreement, PTL

-----------------------------------------------------------------------------(***************************************************************************)
(* Urgency.                                                                *)
(***************************************************************************)
\* Days are counted alike in winter and in summer: later is never less.
LEMMA DaysMonotone ==
    ASSUME NEW d \in Date, NEW e \in Date, d < e
    PROVE  Days(d) \in Int /\ Days(e) \in Int /\ Days(d) <= Days(e)
<1>1. Midnight[d] \in Int /\ Midnight[e] \in Int /\ Midnight[d] < Midnight[e]
  BY MidnightAssumption
<1> QED BY <1>1 DEF Days

\* So the earlier of two days is the more urgent.
LEMMA DueMonotone ==
    ASSUME NEW d \in Date, NEW e \in Date, d < e
    PROVE  /\ DueMultiplier(d) \in Nat /\ DueMultiplier(e) \in Nat
           /\ DueMultiplier(e) <= DueMultiplier(d)
  BY DaysMonotone DEF DueMultiplier

\* Multiplying by numbers keeps an order.
LEMMA ProductMonotone ==
    ASSUME NEW a \in Nat, NEW b \in Nat, a <= b, NEW c \in Nat, NEW s \in Nat
    PROVE  c * a * s <= c * b * s
<1>1. \A x, y, z \in Nat : x <= y => z * x <= z * y /\ x * z <= y * z /\ z * x \in Nat
  OBVIOUS
<1>2. c * a <= c * b /\ c * a \in Nat /\ c * b \in Nat
  BY <1>1
<1> QED BY <1>1, <1>2

(***************************************************************************)
(* The date that stands first counts, and all else is read as without it.  *)
(***************************************************************************)
LEMMA Prefixed ==
    ASSUME TokensInv, NEW d \in Date
    PROVE  LET t == Spelled("due", d) \o text \o line IN
           /\ t \in Text
           /\ \A k \in Keys :
                 First(t, k, Short)
                   = IF k = "due" THEN d ELSE First(text \o line, k, Short)
<1> DEFINE t == Spelled("due", d) \o text \o line
<1>1. Token("due", "short", d) \in Tokens /\ d # None /\ "short" \in Short
  BY NoneAssumption DEF Token, Tokens, Short
<1>2. /\ Spelled("due", d) \in Text
      /\ \A k : First(Spelled("due", d), k, Short) = IF k = "due" THEN d ELSE None
  BY <1>1, SpelledReads
<1>3. text \in Text /\ line \in Text
  BY DEF TokensInv
<1>4. /\ t \in Text
      /\ \A k : First(t, k, Short)
                  = Given(Given(First(Spelled("due", d), k, Short), First(text, k, Short)),
                          First(line, k, Short))
  BY <1>2, <1>3, FirstOfTwo
<1>5. \A k : First(text \o line, k, Short) = Given(First(text, k, Short), First(line, k, Short))
  BY <1>3, FirstOfTwo
<1> HIDE DEF t
<1>6. \A k : First(t, k, Short) = IF k = "due" THEN d ELSE First(text \o line, k, Short)
  BY <1>1, <1>2, <1>4, <1>5 DEF Given
<1> QED BY <1>4, <1>6 DEF t

\* The sooner of two dates, put first, never makes a todo lighter.
LEMMA Urgency == TokensInv => UrgencyMonotone
<1> SUFFICES ASSUME TokensInv, NEW sooner \in Date, NEW later \in Date, sooner < later
             PROVE  DeriveWeight(Spelled("due", later) \o text \o line, defaults)
                      <= DeriveWeight(Spelled("due", sooner) \o text \o line, defaults)
  BY DEF UrgencyMonotone
<1> DEFINE With(d) == Spelled("due", d) \o text \o line
           all == text \o line
           weight == First(all, "weight", Short)
           start == First(all, "start", Short)
           priority == Given(Given(First(all, "priority", Short), defaults.priority), 3)
           energy == Known(First(all, "energy", Short), Known(defaults.energy, "m"))
           urgent == IF start = None THEN 100 ELSE StartMultiplier(start)
           rest == PriorityWeight(priority) * EnergyMultiplier(energy)
<1>1. all \in Text
  BY FirstOfTwo DEF TokensInv
<1>2. ASSUME NEW d \in Date
      PROVE  DeriveWeight(With(d), defaults)
               = IF weight \notin {None, 0} THEN weight * 100000000
                 ELSE rest * DueMultiplier(d) * urgent
  <2>1. /\ First(With(d), "weight", Short) = weight
        /\ First(With(d), "due", Short) = d
        /\ First(With(d), "start", Short) = start
        /\ First(With(d), "priority", Short) = First(all, "priority", Short)
        /\ First(With(d), "energy", Short) = First(all, "energy", Short)
    BY Prefixed DEF Keys
  <2>2. d # None
    BY NoneAssumption
  <2> HIDE DEF With, all
  <2>3. /\ WeighedPriority(With(d), defaults.priority) = priority
        /\ WeighedEnergy(With(d), defaults.energy) = energy
    BY <2>1 DEF WeighedPriority, WeighedEnergy
  <2> HIDE DEF weight, start, priority, energy
  <2> QED BY <2>1, <2>2, <2>3 DEF DeriveWeight
<1>3. weight # None => weight \in Nat
  <2> SUFFICES ASSUME weight # None PROVE weight \in Nat
    OBVIOUS
  <2>1. PICK spelled : Token("weight", spelled, weight) \in Tokens
    BY <1>1, FirstStands
  <2> HIDE DEF weight
  <2> QED BY <2>1 DEF Token, Tokens
<1>4. start # None => start \in Date
  <2> SUFFICES ASSUME start # None PROVE start \in Date
    OBVIOUS
  <2>1. PICK spelled : Token("start", spelled, start) \in Tokens
    BY <1>1, FirstStands
  <2> HIDE DEF start
  <2> QED BY <2>1 DEF Token, Tokens
<1>5. priority \in Priority
  <2>1. First(all, "priority", Short) # None => First(all, "priority", Short) \in Priority
    <3> DEFINE v == First(all, "priority", Short)
    <3> SUFFICES ASSUME v # None PROVE v \in Priority
      OBVIOUS
    <3>1. PICK spelled : Token("priority", spelled, v) \in Tokens
      BY <1>1, FirstStands
    <3> HIDE DEF v
    <3> QED BY <3>1 DEF Token, Tokens
  <2>2. defaults.priority \in Priority \cup {None}
    BY UpdatesAssumption DEF TokensInv
  <2> QED BY <2>1, <2>2 DEF Given, Priority
<1>6. energy \in Energy
  BY DEF Known, Energy
<1>7. urgent \in Nat
  <2>1. ASSUME NEW d \in Date PROVE StartMultiplier(d) \in Nat
    <3>1. Days(d) \in Int
      BY MidnightAssumption DEF Days
    <3> QED BY <3>1 DEF StartMultiplier
  <2> QED BY <1>4, <2>1
<1>8. rest \in Nat
  <2> HIDE DEF priority, energy
  <2>1. PriorityWeight(priority) \in Nat
    BY <1>5 DEF PriorityWeight, Priority
  <2>2. EnergyMultiplier(energy) \in Nat
    BY <1>6 DEF EnergyMultiplier, Energy
  <2> QED BY <2>1, <2>2
<1> HIDE DEF With, rest, urgent, weight
<1>9. rest * DueMultiplier(later) * urgent <= rest * DueMultiplier(sooner) * urgent
  BY <1>7, <1>8, DueMonotone, ProductMonotone
<1>10. DeriveWeight(With(later), defaults) <= DeriveWeight(With(sooner), defaults)
  BY <1>2, <1>3, <1>9
<1> QED BY <1>10 DEF With

(***************************************************************************)
(* Of two todos that differ in their due dates only, the earlier never     *)
(* weighs less, in any calendar, at any change to or from summer time      *)
(* (dueDateMultiplier).                                                    *)
(***************************************************************************)
THEOREM SoonerIsNotLighter == Spec => []UrgencyMonotone
<1> QED BY TokensInvariance, Urgency, PTL
==============================================================================
