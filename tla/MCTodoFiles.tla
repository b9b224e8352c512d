----------------------------- MODULE MCTodoFiles -----------------------------
(***************************************************************************)
(* Two areas, one note with twins and a nested task, and an inbox.         *)
(***************************************************************************)
EXTENDS TodoFiles

MCText == {"pay", "call"}
MCAreas == <<"Code", "Action">>
MCKey == {"priority", "estimate"}
MCDir == <<"diary", "inbox", "work">>
MCMeta ==
    [n \in {"diary", "inbox", "work"} |->
        CASE n = "diary" -> FrontMatter(TRUE, FALSE, "Code")
          [] n = "inbox" -> None
          [] n = "work" -> FrontMatter(TRUE, TRUE, "Errands")]

Rank(v) == [NoTags EXCEPT !["priority"] = v]

\* Twins, a nested task with metadata, and a blank line below them.
Nested ==
    <<TodoHeading(2), Task(0, "pay", TRUE, None), Metadata(2, "Code", Rank("p1")),
      Task(2, "call", FALSE, None), Task(0, "call", FALSE, "Code")>>
Flat ==
    <<TodoHeading(2), Task(0, "call", FALSE, None), Task(0, "call", TRUE, None),
      Blank, Task(0, "pay", TRUE, "Errands"), Heading(2, "Log")>>

\* A nested task that an update of the one above it takes for metadata.
Inline ==
    <<TodoHeading(2), Task(0, "pay", FALSE, None), Task(2, "call", TRUE, "Code")>>

MCContents ==
    {[n \in {"diary", "inbox", "work"} |->
        CASE n = "diary" -> <<TodoHeading(1), Task(0, "call", TRUE, None)>>
          [] n = "inbox" -> <<TodoHeading(1)>>
          [] n = "work" -> c]
     : c \in {Nested, Flat, Inline}}

MCParams ==
    {[NoParams EXCEPT !.area = "Code", !.tags = Rank("p2")],
     [NoParams EXCEPT !.title = "call", !.clear = {"area", "priority"}]}
=============================================================================
