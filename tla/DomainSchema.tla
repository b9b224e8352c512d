----------------------------- MODULE DomainSchema -----------------------------
(***************************************************************************)
(* Notes of a domain against its schema (schema/templates/validate.go and  *)
(* metaRead.go).  Only errors are modelled, as a set of records; the       *)
(* warnings are about recommended sections and fields.                     *)
(***************************************************************************)
EXTENDS NoteLines

\* A line with a url, and a block "@code language ... @end"
Url == Line("url", 0, None)
Code(language) == Line("code", 0, language)

Error(kind, where, what) == [kind |-> kind, where |-> where, what |-> what]

(***************************************************************************)
(* A schema: its domain, the keys it requires of the front matter, one of  *)
(* any and all of the sections, each as a level and a name, the level 0    *)
(* standing for any, and rules for the structure of some sections.         *)
(***************************************************************************)
NoRules ==
    [bullets |-> 0, links |-> 0, code |-> FALSE, tagged |-> FALSE, fromMeta |-> FALSE,
     children |-> {}, minChildren |-> 0, childBullets |-> 0, boxesOnly |-> FALSE,
     fields |-> {}]

MetaList(note, key) ==
    IF note.front = None \/ key \notin DOMAIN note.front.keys THEN {}
    ELSE note.front.keys[key]

HasMeta(note, key) ==
    IF key = "id" THEN ReadMetaID(note) # None ELSE MetaList(note, key) # {}

\* extractAllSections: a heading counts by its name and by the whole line.
Sections(lines) ==
    LET at == {i \in DOMAIN lines : lines[i].kind = "heading"}
    IN {<<0, lines[i].name>> : i \in at} \cup {<<lines[i].level, lines[i].name>> : i \in at}

IsTop(line) == line.kind \in {"heading", "star"} /\ line.level = 1
IsChild(line) == line.kind = "heading" /\ line.level = 2
IsBullet(line) == line.kind \in {"link", "bullet", "box", "field"}

\* From line i to the next line that Ends, or to the end
BlockFrom(lines, i, Ends(_)) ==
    SubSeq(lines, i, FirstOf({k \in Where(lines, Ends) : k > i}, Len(lines) + 1) - 1)

\* extractTopLevelSectionBlock: the first section of that name on level 1, or <<>>
SectionBlock(lines, name) ==
    LET starts == {i \in Where(lines, IsTop) : lines[i].name = name}
    IN IF starts = {} THEN <<>> ELSE BlockFrom(lines, Min(starts), IsTop)

ChildBlocks(block) == {BlockFrom(block, i, IsChild) : i \in Where(block, IsChild)}

Count(block, Test(_)) == Cardinality(Where(block, Test))
CodeOf(block) == {block[i].name : i \in {k \in DOMAIN block : block[k].kind = "code"}}
IsUrl(line) == line.kind = "url"

CodeErrors(note, name, block, r) ==
    LET untagged == None \in CodeOf(block)
    IN {e \in {Error("code", <<name>>, None), Error("tag", <<name>>, None),
               Error("language", <<name>>, None)} :
          \/ e.kind = "code" /\ r.code /\ CodeOf(block) = {}
          \/ e.kind = "tag" /\ r.tagged /\ untagged
          \/ /\ e.kind = "language" /\ ~r.tagged /\ r.fromMeta
             /\ untagged /\ ~HasMeta(note, "language")}

ChildErrors(name, child, r) ==
    LET fields == {child[i].name : i \in {k \in DOMAIN child : child[k].kind = "field"}}
        NotBox(line) == IsBullet(line) /\ line.kind # "box"
        about == <<name, child[1].name>>
    IN {Error("field", about, f) : f \in r.fields \ fields}
         \cup {e \in {Error("bullets", about, None), Error("boxes", about, None)} :
                 \/ e.kind = "bullets" /\ Count(child, IsBullet) < r.childBullets
                 \/ e.kind = "boxes" /\ r.boxesOnly /\ Count(child, NotBox) > 0}

\* applyStructureRules: a section that is not there breaks no rule.
StructureErrors(note, name, r) ==
    LET block == SectionBlock(note.lines, name)
        children == ChildBlocks(block)
        heads == Where(block, IsChild)
    IN IF block = <<>> THEN {}
       ELSE CodeErrors(note, name, block, r)
              \cup {Error("child", <<name>>, c) : c \in r.children \ {b[1].name : b \in children}}
              \cup UNION {ChildErrors(name, b, r) : b \in children}
              \cup {e \in {Error("bullets", <<name>>, None), Error("links", <<name>>, None),
                           Error("children", <<name>>, None)} :
                      \/ e.kind = "bullets" /\ Count(block, IsBullet) < r.bullets
                      \/ e.kind = "links" /\ Count(block, IsUrl) < r.links
                      \/ e.kind = "children" /\ Cardinality(heads) < r.minChildren}

ValidateNote(note, schema) ==
    IF schema.domain \notin MetaList(note, "domains") THEN {}
    ELSE {Error("meta", None, k) : k \in {k \in schema.required : ~HasMeta(note, k)}}
           \cup {Error("section", None, s) : s \in schema.all \ Sections(note.lines)}
           \cup {e \in {Error("any", None, None)} :
                   schema.any # {} /\ schema.any \cap Sections(note.lines) = {}}
           \cup UNION {StructureErrors(note, s, schema.structure[s])
                       : s \in DOMAIN schema.structure}
=============================================================================
