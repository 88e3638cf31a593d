---------------------------- MODULE InstallPlan ----------------------------
(***************************************************************************)
(* src/install_plan.rs, the planner: from the files of a selected mod to   *)
(* the places its files take in the game.  A mod is in the canonical       *)
(* layout, in one of the manual layouts, or comes with a FOMOD manifest    *)
(* that says where each file goes and which ones are the user's choice.    *)
(*                                                                         *)
(* A path is a sequence of directory names and a file name; names stand    *)
(* for all spellings of them, and "spell" tells two spellings apart.       *)
(* "Data" stands for the phrases of manual_data_path, "~mods" for those    *)
(* of manual_paks_path.                                                    *)
(***************************************************************************)
EXTENDS Naturals, Sequences, FiniteSets

Plugin == {"esp", "esm"}
Container == {"pak", "ucas", "utoc"}
DataFolder == <<"Content", "Dev", "ObvData", "Data">>
ModsFolder == <<"Content", "Paks", "~mods">>

Path(f) == Append(f.dir, f.name)
Moved(f, dir) == [f EXCEPT !.dir = dir]
Names(seq) == {seq[i] : i \in DOMAIN seq}

\* likely_install_payload
Payload(f) == f.ext \in Plugin \cup Container \/ (f.ext = "ini" /\ "SyncMap" \in Names(f.dir))

\* SourceIndex::new: no two files may have the same path but for its spelling.
Indexed(tree) ==
    tree # {} /\ \A f, g \in tree : Path(f) = Path(g) => f = g

-----------------------------------------------------------------------------
(* Plans. *)

Required == [group |-> 0, option |-> 0]
\* "nth" tells two entries of a manifest apart that are otherwise the same.
Mapping(f, dest, scope) == [source |-> f, dest |-> dest, scope |-> scope, nth |-> 0]

\* Two options of one group are installed together only if its kind allows it.
Coexist(a, b, groups) ==
    a # Required /\ b # Required /\ a.group = b.group /\ a.option # b.option
        => groups[a.group].behavior \in {"SelectAny", "SelectAtLeastOne", "SelectAll"}

IsPrefixOf(p, q) == Len(p) <= Len(q) /\ SubSeq(q, 1, Len(p)) = p

\* Two files at one place, or one at a folder of the other.
Clash(f, g) == IsPrefixOf(Path(f), Path(g)) \/ IsPrefixOf(Path(g), Path(f))

\* validate_destination_collisions
Collides(mappings, groups) ==
    \E m, n \in mappings :
        m # n /\ Coexist(m.scope, n.scope, groups) /\ Clash(m.dest, n.dest)

Sources(mappings) == {m.source : m \in mappings}

Refusal == [evidence |-> "refused"]
NotThis == [evidence |-> "none"]

\* make_plan
MakePlan(evidence, tree, mappings, groups) ==
    IF Collides(mappings, groups) THEN Refusal
    ELSE [evidence |-> evidence, mappings |-> mappings, groups |-> groups,
          unmapped |-> tree \ Sources(mappings)]

-----------------------------------------------------------------------------
(* The canonical layout: one folder that holds Content. *)

ContentRoots(tree) ==
    UNION {{SubSeq(f.dir, 1, i - 1) : i \in {j \in DOMAIN f.dir : f.dir[j] = "Content"}} :
            f \in tree}

\* Mutant of CanonicalPlan: payloads beside the Content folder are left out.
CanonicalPlanAnyway(tree) ==
    LET roots == ContentRoots(tree)
        depth == Len(CHOOSE r \in roots : TRUE)
        under == {f \in tree : Len(f.dir) > depth /\ f.dir[depth + 1] = "Content"}
    IN  IF roots = {} THEN NotThis
        ELSE IF Cardinality(roots) # 1 THEN Refusal
        ELSE IF ~\E f \in under : Payload(f) THEN NotThis
        ELSE MakePlan("canonical", tree,
                {Mapping(f, Moved(f, SubSeq(f.dir, depth + 1, Len(f.dir))), Required) : f \in under},
                <<>>)

CanonicalPlan(tree) ==
    LET roots == ContentRoots(tree)
        depth == Len(CHOOSE r \in roots : TRUE)
        under == {f \in tree : Len(f.dir) > depth /\ f.dir[depth + 1] = "Content"}
    IN  IF roots = {} THEN NotThis
        ELSE IF Cardinality(roots) # 1 THEN Refusal
        ELSE IF (\E f \in tree \ under : Payload(f)) \/ ~\E f \in under : Payload(f) THEN NotThis
        ELSE MakePlan("canonical", tree,
                {Mapping(f, Moved(f, SubSeq(f.dir, depth + 1, Len(f.dir))), Required) : f \in under},
                <<>>)

-----------------------------------------------------------------------------
(* The manual layouts: one plugin and its containers under one wrapper. *)

FirstOf(dir, names) == CHOOSE i \in DOMAIN dir :
    dir[i] \in names /\ \A j \in 1 .. i - 1 : dir[j] \notin names

Anchored(f, names) == \E i \in DOMAIN f.dir : f.dir[i] \in names
Candidate(f, wrapper, tail) == [file |-> f, wrapper |-> wrapper, tail |-> tail]

\* manual_data_path
DataCandidates(tree) ==
    {LET i == FirstOf(f.dir, {"Data"}) IN
        Candidate(f, SubSeq(f.dir, 1, i - 1), SubSeq(f.dir, i + 1, Len(f.dir))) :
        f \in {g \in tree : Anchored(g, {"Data"})}}

\* manual_paks_path: below a folder of mods, or below Paks with or without one;
\* a Content folder around Paks is not part of the wrapper.
PakCandidate(f) ==
    LET i == FirstOf(f.dir, {"~mods", "Paks"})
        paks == f.dir[i] = "Paks"
        skip == IF paks /\ i < Len(f.dir) /\ f.dir[i + 1] = "~mods" THEN 1 ELSE 0
        drop == IF paks /\ i > 1 /\ f.dir[i - 1] = "Content" THEN 1 ELSE 0
    IN  Candidate(f, SubSeq(f.dir, 1, i - 1 - drop), SubSeq(f.dir, i + 1 + skip, Len(f.dir)))

PakCandidates(tree) ==
    {PakCandidate(f) : f \in
        {g \in tree : g.ext \in Container /\ Anchored(g, {"~mods", "Paks"})}}

\* manual_bare_plugin_paths: plugins directly beside a folder of containers.
BarePlugins(tree) ==
    {Candidate(f, f.dir, <<>>) : f \in
        {g \in tree : g.ext \in Plugin /\ \E c \in PakCandidates(tree) : c.wrapper = g.dir}}

AnchoredPlugins(tree) ==
    {c \in DataCandidates(tree) : c.file.ext \in Plugin /\ c.tail = <<>>}

Bare(tree) == AnchoredPlugins(tree) = {}
ManualPlugins(tree) == IF Bare(tree) THEN BarePlugins(tree) ELSE AnchoredPlugins(tree)

SyncMapsOf(plugin, tree) ==
    {c \in DataCandidates(tree) :
        c.tail = <<"SyncMap">> /\ c.file.ext = "ini" /\ c.file.stem = plugin.file.stem}

\* Complete triples without a second file for one part.
WholeTriples(paks) ==
    \A c \in paks, part \in Container :
        Cardinality({d \in paks : d.file.stem = c.file.stem /\ d.file.ext = part}) = 1

\* Of the bare layout: functional files that no mapping claims.
Strays(tree, mappings) ==
    {f \in tree \ Sources(mappings) : f.ext \in Plugin \cup Container \cup {"ini"}}

ManualMappings(plugin, maps, paks) ==
    {Mapping(plugin.file, Moved(plugin.file, DataFolder \o plugin.tail), Required)}
    \cup {Mapping(c.file, Moved(c.file, DataFolder \o c.tail), Required) : c \in maps}
    \cup {Mapping(c.file, Moved(c.file, ModsFolder), Required) : c \in paks}

ManualPlan(tree) ==
    IF Cardinality(ManualPlugins(tree)) # 1 THEN Refusal
    ELSE LET plugin == CHOOSE c \in ManualPlugins(tree) : TRUE
             maps == SyncMapsOf(plugin, tree)
             paks == {c \in PakCandidates(tree) : c.wrapper = plugin.wrapper /\ c.tail = <<>>}
             functional == {c \in DataCandidates(tree) : c.file.ext \in Plugin \cup {"ini"}}
             expected == (IF Bare(tree) THEN 0 ELSE 1) + Cardinality(maps)
             mappings == ManualMappings(plugin, maps, paks)
         IN  IF \/ Cardinality(maps) > 1
                \/ \E c \in maps : c.wrapper # plugin.wrapper
                \/ paks = {} \/ ~WholeTriples(paks)
                \/ Cardinality(functional) # expected
                \/ PakCandidates(tree) # paks
                \/ Bare(tree) /\ Strays(tree, mappings) # {}
             THEN Refusal
             ELSE MakePlan("manual", tree, mappings, <<>>)

-----------------------------------------------------------------------------
(* The choices of a FOMOD manifest. *)

\* fomod_destination: no name keeps the name of the source; a place outside
\* Content and Binaries is one below Data.
FomodDestination(dest, f) ==
    LET named == IF dest.name = "" THEN f ELSE [f EXCEPT !.name = dest.name]
        dir == dest.dir
    IN  IF Len(dir) > 1 /\ dir[1] = "OblivionRemastered" /\ dir[2] \in {"Content", "Binaries"}
        THEN Moved(named, Tail(dir))
        ELSE IF dir # <<>> /\ dir[1] = "Data" THEN Moved(named, DataFolder \o Tail(dir))
        ELSE IF dir # <<>> /\ dir[1] \in {"Content", "Binaries"} THEN Moved(named, dir)
        ELSE Moved(named, DataFolder \o dir)

Behaviors == {"SelectExactlyOne", "SelectAtMostOne", "SelectAtLeastOne", "SelectAny", "SelectAll"}

\* validate_selections, of the options chosen in one group.
Obeys(group, chosen) ==
    CASE group.behavior = "SelectExactlyOne" -> Cardinality(chosen) = 1
      [] group.behavior = "SelectAtMostOne" -> Cardinality(chosen) <= 1
      [] group.behavior = "SelectAtLeastOne" -> Cardinality(chosen) >= 1
      [] group.behavior = "SelectAny" -> TRUE
      [] OTHER -> chosen = 1 .. group.options

\* Every way a user may answer the groups.
Answers(groups) ==
    {s \in [DOMAIN groups -> SUBSET UNION {1 .. groups[i].options : i \in DOMAIN groups}] :
        \A i \in DOMAIN groups : s[i] \subseteq 1 .. groups[i].options /\ Obeys(groups[i], s[i])}

\* Mutant of Deterministic: one option is taken wherever there is just one.
DeterministicSingle(groups) ==
    \A i \in DOMAIN groups : groups[i].options = 1 \/ groups[i].behavior = "SelectAll"

\* deterministic_selections: every group leaves one answer by its kind.
Deterministic(groups) ==
    \A i \in DOMAIN groups :
        \/ groups[i].behavior = "SelectAll"
        \/ groups[i].behavior \in {"SelectExactlyOne", "SelectAtLeastOne"} /\ groups[i].options = 1

\* The answer it gives then.
Forced(groups) == [i \in DOMAIN groups |-> 1 .. groups[i].options]

Selected(mappings, answer) ==
    {m \in mappings : m.scope # Required => m.scope.option \in answer[m.scope.group]}

\* supports_logical_install_publication
Supported(plan) ==
    /\ \A i \in DOMAIN plan.groups : plan.groups[i].options = 1
    /\ plan.mappings # {}
=============================================================================
