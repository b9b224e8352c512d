----------------------------- MODULE TodoUpdates ------------------------------
(***************************************************************************)
(* One todo, its text, the line of metadata below it and the defaults of   *)
(* its note, under any number of mw todos update.  Which lines of a file   *)
(* are the todo's is in TodoFiles.                                         *)
(***************************************************************************)
EXTENDS TodoWeights

CONSTANTS
    Texts,      \* what a task may say, and what may stand below it at first
    Lines,
    Defaults,   \* the defaults of a note: [priority, energy]
    Settings,   \* what may be asked for: key -> value, for some keys
    Clears      \* keys that may be cleared together

\* What is asked for is a value of its key, or none; an energy may be any word.
ASSUME UpdatesAssumption ==
    /\ Texts \subseteq Seq(Tokens) /\ Lines \subseteq Seq(Tokens)
    /\ Defaults \subseteq [priority : Priority \cup {None}, energy : Energy \cup {Odd, None}]
    /\ \A params \in Settings : \A k \in DOMAIN params :
          \/ params[k] = None
          \/ k = "energy"
          \/ Token(k, "short", params[k]) \in Tokens

VARIABLES text, line, defaults

vars == <<text, line, defaults>>

Init == text \in Texts /\ line \in Lines /\ defaults \in Defaults

UpdateTodo(params, clear) ==
    /\ line' = BuildUpdatedLine(line, params, clear)
    /\ UNCHANGED <<text, defaults>>

Next == \E params \in Settings, clear \in Clears : UpdateTodo(params, clear)

Spec == Init /\ [][Next]_vars

-----------------------------------------------------------------------------
Shown(t, l) == BuildTodoMetadata(t, l, defaults)
Mentions(t, key) == \E i \in DOMAIN t : KeyOf(t[i]) = key

(***************************************************************************)
(* An update changes what the listing shows for the keys that were asked   *)
(* for, and nothing else, however the line was spelled before: what was    *)
(* not given stays a default of the note (buildUpdatedMetadataLine,        *)
(* explicitTodoMetadata).  A key that the task's own text mentions is      *)
(* left out: a long spelling below it wins over a short one in the text    *)
(* until the update makes it short.                                        *)
(***************************************************************************)
UpdateKeepsTheRest ==
    [][\E params \in Settings, clear \in Clears :
          /\ UpdateTodo(params, clear)
          /\ \A k \in Keys \ (DOMAIN params \cup clear) :
               Mentions(text, k) \/ Shown(text, line')[k] = Shown(text, line)[k]]_vars

(***************************************************************************)
(* Listing, screen and weight agree on a todo whose tokens are all spelled *)
(* short, and every update leaves such a line: three readers parse the     *)
(* same text on their own (buildTodoMetadata, buildTodoMetaSummary,        *)
(* DeriveTodoWeightWithDefaults).                                          *)
(***************************************************************************)
AllShort(t) == \A i \in DOMAIN t : t[i][2] = "short"
ReadersAgree ==
    AllShort(text \o line) =>
      LET all == text \o line
          shown == Shown(text, line)
      IN /\ shown["priority"] = EffectivePriority(all, defaults.priority)
         /\ shown["energy"] = EffectiveEnergy(all, defaults.energy)
         /\ DeriveWeight(all, defaults) = DeriveWeight(text \o MetadataTokens(line), defaults)
         /\ shown["weight"] \in {None, 0}
              => DeriveWeight(all, defaults)
                   = DeriveWeight(Line([shown EXCEPT !["weight"] = None]),
                                  [priority |-> None, energy |-> None])

(***************************************************************************)
(* Of two todos that differ in their due dates only, the earlier due never *)
(* weighs less, whatever the clock does at a change to or from summer time *)
(* (dueDateMultiplier, which divides hours by 24).                         *)
(***************************************************************************)
UrgencyMonotone ==
    \A sooner, later \in Date :
        sooner < later
          => DeriveWeight(Spelled("due", later) \o text \o line, defaults)
               <= DeriveWeight(Spelled("due", sooner) \o text \o line, defaults)
=============================================================================
