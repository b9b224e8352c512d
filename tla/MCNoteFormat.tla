----------------------------- MODULE MCNoteFormat -----------------------------
EXTENDS NoteFormat

\* The folder research is titled like a section of hubs; todo is a file *.MD.
MCDir == {"go", "lib", "dot", "research"}
MCParent == [d \in MCDir |-> IF d \in {"go", "research"} THEN "root" ELSE "go"]
MCNameOf == [d \in MCDir \cup {"root"} |-> d]
MCTitleOf == [MCNameOf EXCEPT !["research"] = "Research"]
MCFile == {Path("go", "tips"), Path("go", "lib"), Path("root", "todo")}
MCHubs == {Hub(d) : d \in MCDir \cup {"root"}}
MCGivenName ==
    [p \in MCFile \cup MCHubs |->
        IF IsHub(p) THEN p.dir ELSE IF p.name = "todo" THEN "todo.MD" ELSE p.name]
MCWalkOrder ==
    <<Hub("go"), Hub("lib"), Path("go", "lib"), Path("go", "tips"), Hub("research"),
      Path("root", "todo")>>
MCSortedIds == <<"dot", "go", "intro", "lib", "research", "root", "tips", "todo">>

MCSchema ==
    [domain |-> "concept", required |-> {"id", "domains"},
     all |-> {<<2, "Uses">>}, any |-> {<<2, "Overview">>, <<0, "Description">>},
     structure |-> "Uses" :> [NoRules EXCEPT !.bullets = 1, !.links = 1]
                @@ "Description" :> [NoRules EXCEPT !.code = TRUE, !.tagged = TRUE]
                @@ "Comparison" :> [NoRules EXCEPT !.minChildren = 2, !.children = {"Speed"},
                                                   !.childBullets = 1, !.fields = {"source"}]]

Concept == FrontMatter(None, [k \in {"domains"} |-> {"concept"}])
Valid ==
    Note(Concept, <<Blank, Heading(1, "Loops"), Words("text"), Heading(1, "Description"),
                    Fence, Heading(1, "code"), Fence, Code(None), Heading(2, "Uses"),
                    Bullet("often"), Heading(1, "Comparison"), Heading(2, "Size"),
                    Bullet("big")>>)
\* A comment in the front matter, and a ruled section in a fence
FencedRule ==
    Note(FrontMatter(None, [k \in {"comment", "domains"} |-> {"concept"}]),
         <<Heading(1, "Loops"), Fence, Heading(1, "Description"), Code("go"), Fence,
           Heading(1, "More"), Code(None)>>)
Plain == Note(None, <<Words("text")>>)
Named(id) == Note(FrontMatter(id, <<>>), <<Heading(1, "Notes"), Bullet("point")>>)

OldHub ==
    Note(None, <<Heading(1, "Go"), Heading(1, "Topics"), Link("tips"), Words("on it"),
                 Link("gone"), Link("tips"), Heading(3, "Research"), Words("paper")>>)
FencedHub ==
    Note(FrontMatter("intro", <<>>),
         <<Heading(2, "Topics"), Link("lib"), Heading(1, "More"), Fence,
           Heading(1, "Todo"), Fence, Box("task")>>)
ConceptHub ==
    Note(Concept, <<Heading(1, "Topics"), Bullet("dropped"), Heading(1, "Intro"),
                    Heading(1, "Description"), Heading(2, "Uses"), Heading(3, "Resources"),
                    Bullet("site"), Blank>>)
RuledHub ==
    Note(Concept, <<Heading(1, "Topics"), Heading(1, "Description"), Code("go"),
                    Heading(1, "More"), Code(None)>>)
LoneFenceHub ==
    Note(None, <<Heading(1, "Go"), Heading(2, "Topics"), Fence, Heading(1, "code"), Fence>>)

MCSaved == {Named("intro"), OldHub}

Tree(tips, more) == Path("go", "tips") :> tips @@ Path("root", "todo") :> Plain @@ more

\* First the trees without exceptions but for FencedRule, then those that are
\* refused, and then a child hub and a note of one name: the note has another
\* id, beside a hub that stays ruled and one with a lone fence, or it has none.
MCTrees ==
    {Tree(Valid, <<>>),
     Tree(Named("intro"), Hub("go") :> OldHub),
     Tree(Valid, Hub("go") :> FencedHub @@ Hub("lib") :> Plain),
     Tree(FencedRule, Hub("go") :> ConceptHub),
     Tree(Named("intro"), Hub("go") :> FencedHub),
     Tree(Valid, Hub("lib") :> Named("root") @@ Hub("root") :> Plain),
     Tree(Plain, Path("go", "lib") :> Named("intro") @@ Hub("go") :> RuledHub
                   @@ Hub("lib") :> LoneFenceHub),
     Tree(Plain, Path("go", "lib") :> Plain)}
MCEdited == {Path("go", "tips"), Hub("go"), Hub("lib")}
===============================================================================
