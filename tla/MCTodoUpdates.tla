---------------------------- MODULE MCTodoUpdates -----------------------------
EXTENDS TodoUpdates, TLC

\* Summer time begins tonight and ended three days ago.
MCMidnight ==
    [d \in -4..16 |-> IF d \in -2..0 THEN d * 24 * 60 ELSE (d * 24 - 1) * 60]

P(spelled, value) == Token("priority", spelled, value)
E(spelled, value) == Token("energy", spelled, value)
Due(day) == Token("due", "short", day)

MCTexts == {<<>>, <<P("short", 1)>>, <<E("short", "l"), Due(3)>>}
MCLines ==
    {<<>>, <<P("long", 2), E("long", "xl"), P("short", 4)>>,
     <<P("either", 5), E("long", Odd), E("short", "s"), Token("area", "short", "home")>>,
     <<Token("weight", "short", 0), Due(-1), Token("start", "short", 8), Due(5)>>,
     <<Token("weight", "short", 3), Token("estimate", "short", "120")>>}
MCDefaults ==
    {[priority |-> None, energy |-> None], [priority |-> 1, energy |-> Odd],
     [priority |-> 4, energy |-> "xsm"]}
MCSettings ==
    {<<>>, "priority" :> 2, "priority" :> None, "energy" :> "m", "energy" :> Odd,
     "due" :> 0, "due" :> 12 @@ "weight" :> 0, "start" :> 2,
     "area" :> None @@ "estimate" :> "60"}
MCClears == {{}, {"priority", "due"}, {"weight", "start"}, {"energy"}}
===============================================================================
