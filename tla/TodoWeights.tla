----------------------------- MODULE TodoWeights -----------------------------
(***************************************************************************)
(* The metadata of a todo and its weight (features/todos/                  *)
(* weight_defaults.go, notes/parser/todo_weight.go).                       *)
(*                                                                         *)
(* A text is a sequence of tokens.  Priority and energy have two           *)
(* spellings, which some readers tell apart: "priority: 2" is long, "p2"   *)
(* is short, and "priority: p2" is read as either.  "energy: ..." takes    *)
(* any word, Odd stands for one that is no energy.  Weights are numbers    *)
(* with eight decimals, dates are days counted from today.                 *)
(***************************************************************************)
EXTENDS Integers, Sequences, FiniteSetsExt

CONSTANTS
    None,
    Odd,
    Word,      \* names of areas, and estimates
    Midnight   \* when each day begins: in minutes from the beginning of today

Priority == 1..5
Energy == {"xsm", "s", "m", "l", "xl"}
Date == DOMAIN Midnight
Keys == {"area", "priority", "energy", "weight", "due", "start", "estimate"}

\* A day is of 23, 24 or 25 hours, or of half an hour more or less.
ASSUME MidnightAssumption ==
    /\ Date \subseteq Int
    /\ Midnight \in [Date -> Int]
    /\ \A d, e \in Date : d < e => Midnight[d] < Midnight[e]

Token(key, spelled, value) == <<key, spelled, value>>
KeyOf(token) == token[1]
Long == {"long", "either"}
Short == {"short", "either"}

\* What stands in a text: an energy "e:..." is one, "energy: ..." need not be.
Tokens ==
    ({"area", "estimate"} \X {"short"} \X Word)
      \cup ({"priority"} \X (Long \cup Short) \X Priority)
      \cup ({"energy"} \X Short \X Energy)
      \cup ({"energy"} \X {"long"} \X (Energy \cup {Odd}))
      \cup ({"weight"} \X {"short"} \X Nat)
      \cup ({"due", "start"} \X {"short"} \X Date)

ASSUME NoneAssumption ==
    /\ None \notin Word /\ None \notin Nat /\ None \notin Date
    /\ None \notin Energy \cup {Odd}
    /\ Odd \notin Energy

\* extractFirst, firstMatch: the first token of the key with such a spelling
Found(text, key, spellings) ==
    {i \in DOMAIN text : KeyOf(text[i]) = key /\ text[i][2] \in spellings}
First(text, key, spellings) ==
    LET found == Found(text, key, spellings)
    IN IF found = {} THEN None ELSE text[Min(found)][3]

LongFirst(text, key) ==
    IF First(text, key, Long) # None THEN First(text, key, Long)
    ELSE First(text, key, Short)

Known(energy, otherwise) == IF energy \in Energy THEN energy ELSE otherwise
Given(value, otherwise) == IF value = None THEN otherwise ELSE value

-----------------------------------------------------------------------------
(***************************************************************************)
(* Three readings of a text.  The listing (mw query todos):                *)
(***************************************************************************)
ExtractPriority(text) == LongFirst(text, "priority")

\* A long energy that is none hides a short one.
ExtractEnergy(text) == Known(LongFirst(text, "energy"), None)

Explicit(text) ==
    [k \in Keys |-> CASE k = "priority" -> ExtractPriority(text)
                      [] k = "energy" -> ExtractEnergy(text)
                      [] OTHER -> First(text, k, Short)]

BuildTodoMetadata(text, line, defaults) ==
    [Explicit(text \o line) EXCEPT
        !["priority"] = Given(Given(@, defaults.priority), 3),
        !["energy"] = Given(Known(Given(@, defaults.energy), None), "m")]

(***************************************************************************)
(* The summary on the screen:                                              *)
(***************************************************************************)
EffectivePriority(text, default) ==
    Given(Given(LongFirst(text, "priority"), default), 3)

EffectiveEnergy(text, default) ==
    LET long == First(text, "energy", Long)
        short == First(text, "energy", Short)
    IN Known(long, Known(short, Known(default, "m")))

(***************************************************************************)
(* The weight.  It knows the short spellings only.                         *)
(***************************************************************************)
PriorityWeight(p) ==
    CASE p = 1 -> 200 [] p = 2 -> 150 [] p = 3 -> 100 [] p = 4 -> 75 [] p = 5 -> 50

EnergyMultiplier(e) ==
    CASE e = "xl" -> 130 [] e = "l" -> 115 [] e = "m" -> 100 [] e = "s" -> 85
      [] e = "xsm" -> 70

\* Days between two midnights, cut off towards zero: hours / 24 in Go.
Days(date) ==
    LET minutes == Midnight[date]
    IN IF minutes < 0 THEN -((-minutes) \div 1440) ELSE minutes \div 1440

\* slips: a week before three days
DueMultiplierSwapped(due) ==
    LET days == Days(due)
    IN CASE days < 0 -> 135 [] days = 0 -> 125
         [] days > 0 /\ days <= 3 -> 108
         [] days > 3 /\ days <= 7 -> 115
         [] days > 7 /\ days <= 14 -> 103
         [] days > 14 -> 100

DueMultiplier(due) ==
    LET days == Days(due)
    IN CASE days < 0 -> 135 [] days = 0 -> 125
         [] days > 0 /\ days <= 3 -> 115
         [] days > 3 /\ days <= 7 -> 108
         [] days > 7 /\ days <= 14 -> 103
         [] days > 14 -> 100

StartMultiplier(start) ==
    LET days == Days(start)
    IN CASE days <= 0 -> 100
         [] days > 0 /\ days <= 7 -> 85
         [] days > 7 /\ days <= 14 -> 70
         [] days > 14 -> 55

WeighedPriority(text, default) ==
    Given(Given(First(text, "priority", Short), default), 3)

\* slips: the defaults of the note are not looked at
WeighedEnergyUndefaulted(text, default) ==
    Known(First(text, "energy", Short), "m")

WeighedEnergy(text, default) ==
    Known(First(text, "energy", Short), Known(default, "m"))

DeriveWeight(text, defaults) ==
    LET explicit == First(text, "weight", Short)
        due == First(text, "due", Short)
        start == First(text, "start", Short)
    IN IF explicit \notin {None, 0} THEN explicit * 100000000
       ELSE PriorityWeight(WeighedPriority(text, defaults.priority))
              * EnergyMultiplier(WeighedEnergy(text, defaults.energy))
              * (IF due = None THEN 100 ELSE DueMultiplier(due))
              * (IF start = None THEN 100 ELSE StartMultiplier(start))

-----------------------------------------------------------------------------
(***************************************************************************)
(* Two lines made of others.  For the screen each line of metadata is      *)
(* spelled anew (metadataTokensFromLine):                                  *)
(***************************************************************************)
Spelled(key, value) == IF value = None THEN <<>> ELSE <<Token(key, "short", value)>>

MetadataTokens(line) ==
    LET long == First(line, "energy", Long)
        energy == IF long # None THEN long ELSE First(line, "energy", Short)
    IN Spelled("priority", LongFirst(line, "priority"))
         \o Spelled("energy", Known(energy, None))
         \o Spelled("weight", First(line, "weight", Short))
         \o Spelled("due", First(line, "due", Short))
         \o Spelled("start", First(line, "start", Short))
         \o Spelled("estimate", First(line, "estimate", Short))

\* and mw todos update writes one line for all that a todo had, but for params:
Line(meta) ==
    Spelled("area", meta["area"]) \o Spelled("priority", meta["priority"])
      \o Spelled("energy", meta["energy"]) \o Spelled("weight", meta["weight"])
      \o Spelled("due", meta["due"]) \o Spelled("start", meta["start"])
      \o Spelled("estimate", meta["estimate"])

\* slips: the defaults are written as if they had been given
BuildUpdatedLineFromDefaults(line, params, clear) ==
    LET old == BuildTodoMetadata(<<>>, line, [priority |-> None, energy |-> None])
    IN Line([k \in Keys |->
        IF k \in DOMAIN params THEN params[k] ELSE IF k \in clear THEN None ELSE old[k]])

\* An invalid priority or energy takes the old one away.
BuildUpdatedLine(line, params, clear) ==
    Line([k \in Keys |->
        IF k \in DOMAIN params
        THEN IF k = "energy" THEN Known(params[k], None) ELSE params[k]
        ELSE IF k \in clear THEN None
        ELSE Explicit(line)[k]])
=============================================================================
