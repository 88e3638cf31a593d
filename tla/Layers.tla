------------------------------- MODULE Layers -------------------------------
(***************************************************************************)
(* Which packages a mod finds: src/dependency_layers.rs resolves the       *)
(* imports of the selected mod through prioritised layers of providers,    *)
(* src/mixed.rs against the stock game alone, and src/container.rs warns   *)
(* of containers of the mod that claim one package at one mount order.     *)
(*                                                                         *)
(* A source is a set of files; three files of one stem are a container,    *)
(* and what retoc reads from a container is given by its UTOC.  A stem     *)
(* says whether it lies below Content/Paks of the root the analysis chose: *)
(* the layered probe walks the whole mod, the others look there only.      *)
(***************************************************************************)
EXTENDS Naturals, FiniteSets, Sequences

CONSTANTS
    Stores,        \* the packages retoc reads from a UTOC of a content
    Sound,         \* contents retoc verifies
    StockMain, Global, \* stems of the stock container and of the script objects
    Selections,    \* sources that may be selected
    Connections,   \* sequences of sources that may be connected
    Installations, \* sets of files that may be in the active ~mods
    Games,         \* sets of files that may be in the Paks folder of the game
    MaxProviders,  \* bound on providers
    MaxPackages,   \* bound on packages of all providers
    MaxEdges,      \* bound on edges of the report
    MaxChunk       \* largest n for which (n + 1) * 100 + 3 is a 32 bit number

ASSUME LayersAssumption ==
    /\ {MaxProviders, MaxPackages, MaxEdges, MaxChunk} \subseteq Nat
    /\ Sound \subseteq DOMAIN Stores

VARIABLES
    pc,
    selected, connected, installed, game, \* inputs; connected is what is left of them
    providers,   \* providers found so far
    excluded,    \* what was found and is not used
    mixed,       \* report of the mixed probe
    packages,    \* packages of all providers, with their location
    pending, visited, edges, \* resolution of the imports
    warnings,    \* equal-order claims of the selected containers
    lane         \* what the update lane makes of the packages of the mod

vars == <<pc, selected, connected, installed, game, providers, excluded, mixed,
          packages, pending, visited, edges, warnings, lane>>
inputs == <<selected, connected, installed, game>>
resolution == <<packages, pending, visited, edges>>
update == <<warnings, lane>>

Layer == {"selected", "connected", "installed", "game", "stock"}

\* PackageProviderLayer::precedence: a lower number is asked first.
Precedence(layer) ==
    CASE layer = "selected" -> 0 [] layer = "connected" -> 1 [] layer = "installed" -> 2
      [] layer = "game" -> 3 [] layer = "stock" -> 4

-----------------------------------------------------------------------------
(* Containers. *)

Parts == {"pak", "ucas", "utoc"}
Stems(files) == {f.stem : f \in files}
Group(files, stem) == {f \in files : f.stem = stem}
PartsOf(group) == {f.part : f \in group}

\* Two files differ in the case of their names only.
Repeats(files) == \E f, g \in files : f # g /\ f.stem = g.stem /\ f.part = g.part

\* discover_mod_container_triples: whole groups are containers, the rest is listed.
Whole(files) == {s \in Stems(files) : PartsOf(Group(files, s)) = Parts}
Incomplete(files) == Stems(files) \ Whole(files)

Utoc(group) == (CHOOSE f \in group : f.part = "utoc").content

\* container_fingerprint: the contents of the members.
Fingerprint(group) == {<<f.part, f.content>> : f \in group}

Container(files, stem) ==
    LET group == Group(files, stem)
    IN  [stem |-> stem, utoc |-> Utoc(group), print |-> Fingerprint(group),
         store |-> Stores[Utoc(group)]]
Containers(files) == {Container(files, s) : s \in Whole(files)}

\* provider_from_containers: what is not the game's must verify, and only
\* containers of the game may be without packages.
Readable(layer, containers) ==
    \A c \in containers :
        /\ layer \in {"selected", "connected", "installed"} => c.utoc \in Sound
        /\ layer # "game" => c.store # {}

Provider(id, containers) == [layer |-> Head(id), id |-> id, containers |-> containers]

-----------------------------------------------------------------------------
(* Mount order. *)

\* Mutant of Hundreds: the chunk is counted, an unnumbered _P adds nothing.
HundredsAsNumbered(stem) ==
    IF ~stem.patch \/ stem.chunk = 0 THEN 0
    ELSE IF stem.chunk > MaxChunk THEN 1 ELSE stem.chunk + 1

\* mount_order in hundreds above the base: a name with _P counts one more than
\* its chunk (0 if it names none), one whose order is no 32 bit number as if it
\* named none.
Hundreds(stem) ==
    IF ~stem.patch THEN 0
    ELSE IF stem.chunk > MaxChunk THEN 1 ELSE stem.chunk + 1

Claims(containers, path) == {c.stem : c \in {d \in containers : \E p \in d.store : p.path = path}}

\* The container that is sorted first: the highest order, then the first name.
FirstClaim(stems) ==
    CHOOSE s \in stems : \A t \in stems \ {s} :
        Hundreds(t) < Hundreds(s) \/ (Hundreds(t) = Hundreds(s) /\ s.name < t.name)

\* lint_equal_order_overrides
Lint(containers) ==
    UNION {LET claims == Claims(containers, path)
               winner == FirstClaim(claims)
           IN  {[path |-> path, winner |-> winner, loser |-> s] :
                   s \in {t \in claims \ {winner} : Hundreds(t) = Hundreds(winner)}} :
           path \in {p.path : p \in UNION {c.store : c \in containers}}}

-----------------------------------------------------------------------------
(* The mixed probe: the packages of the mod against the stock game. *)

Refusal == [made |-> FALSE]
RepeatsId(store) == \E p, q \in store : p # q /\ p.id = q.id
RepeatsPath(store) == \E p, q \in store : p # q /\ p.path = q.path
StoreOf(containers) == UNION {c.store : c \in containers}
Ids(store) == {p.id : p \in store}

\* build_report keeps one of the packages of an id, whose imports must agree;
\* their paths are not compared.
Kept(store) == {CHOOSE p \in store : p.id = i : i \in Ids(store)}
Conflicts(store) == \E p, q \in store : p.id = q.id /\ p.imports # q.imports

Collisions(store, current) ==
    {<<pq[1].id, pq[2].id>> : pq \in {r \in store \X current :
        r[1].id = r[2].id \/ r[1].path = r[2].path}}

\* Mutant of Unresolved: an import the mod has only in another container counts.
UnresolvedInGame(store, current) ==
    UNION {{<<p.id, i>> : i \in p.imports \ Ids(current)} : p \in store}

\* diagnose_package_dependencies: the edges neither the mod nor the game serves.
Unresolved(store, current) ==
    UNION {{<<p.id, i>> : i \in p.imports \ (Ids(store) \cup Ids(current))} : p \in store}

\* index_package_store over the packages of all containers: a package that two
\* containers have is a repeat, equal or not.
Repeated(containers) ==
    \E c, d \in containers : \E p \in c.store, q \in d.store :
        (c # d \/ p # q) /\ (p.id = q.id \/ p.path = q.path)

MixedReport(store, current) ==
    LET kept == Kept(store)
    IN  IF Conflicts(store) \/ RepeatsPath(kept) \/ RepeatsId(current) \/ RepeatsPath(current)
        THEN Refusal
        ELSE [made |-> TRUE, collisions |-> Collisions(kept, current), unresolved |-> Unresolved(kept, current)]

\* selected_utoc_files: Content/Paks below the root of the mod, nothing else.
InPaks(files) == {f \in files : f.stem.paks}
WithUtoc(files) == {f.stem : f \in {g \in files : g.part = "utoc"}}

\* probe_mixed_iostore_dependencies needs the UTOC of every container there with
\* its UCAS, and the UTOC of the stock game.
MixedProbe ==
    LET files == InPaks(selected.files)
        containers == {Container(files, s) : s \in WithUtoc(files)}
        stock == {f \in game : f.stem = StockMain /\ f.part = "utoc"}
    IN  IF \/ selected.form = "absent" \/ selected.link = "paks" \/ Repeats(files)
           \/ containers = {} \/ stock = {}
           \/ \E s \in WithUtoc(files) : "ucas" \notin PartsOf(Group(files, s))
           \/ \E c \in containers : c.utoc \notin Sound \/ c.store = {}
        THEN Refusal
        ELSE MixedReport(StoreOf(containers), Stores[Utoc(stock)])

-----------------------------------------------------------------------------
Init ==
    /\ pc = "mixed" /\ selected \in Selections /\ connected \in Connections
    /\ installed \in Installations /\ game \in Games
    /\ providers = {} /\ excluded = {} /\ mixed = Refusal
    /\ packages = {} /\ pending = {} /\ visited = {} /\ edges = {}
    /\ warnings = {} /\ lane = Refusal

Refuse == pc' = "refused" /\ UNCHANGED <<inputs, providers, excluded, mixed, resolution, update>>

Probe ==
    /\ pc = "mixed" /\ pc' = "selected" /\ mixed' = MixedProbe
    /\ UNCHANGED <<inputs, providers, excluded, resolution, update>>

\* probe_layered_iostore_dependencies_with_sources, one layer after the other.
Select ==
    LET files == selected.files
        containers == Containers(files)
    IN  /\ pc = "selected"
        /\ IF \/ Len(connected) >= MaxProviders \/ selected.active \/ selected.form = "absent"
              \/ selected.link # "none" \/ Repeats(files) \/ files = {} \/ Incomplete(files) # {}
              \/ ~Readable("selected", containers)
           THEN Refuse
           ELSE /\ pc' = "connected"
                /\ providers' = {Provider(<<"selected">>, containers)}
                /\ UNCHANGED <<inputs, excluded, mixed, resolution, update>>

\* A connected source without containers is out of lane, an incomplete group is
\* left out, both are listed.
Connect ==
    LET source == Head(connected)
        containers == Containers(source.files)
        new == Provider(<<"connected", source.leaf, {<<c.stem, c.print>> : c \in containers}>>, containers)
    IN  /\ pc = "connected" /\ connected # <<>>
        /\ IF \/ source.form = "absent" \/ source.link # "none" \/ Repeats(source.files)
              \/ ~Readable("connected", containers) \/ new \in providers
           THEN Refuse
           ELSE /\ connected' = Tail(connected)
                /\ providers' = IF containers = {} THEN providers ELSE providers \cup {new}
                /\ excluded' = excluded
                       \cup {<<"incomplete", s>> : s \in Incomplete(source.files)}
                       \cup IF containers = {} THEN {<<"out of lane", source.leaf>>} ELSE {}
                /\ UNCHANGED <<pc, selected, installed, game, mixed, resolution, update>>

Connected ==
    /\ pc = "connected" /\ connected = <<>> /\ pc' = "installed"
    /\ UNCHANGED <<inputs, providers, excluded, mixed, resolution, update>>

SelectedPrints == UNION {{c.print : c \in p.containers} : p \in {q \in providers : q.layer = "selected"}}

\* Mutant of Asked: the copy is known by its UTOC.
AskedByUtoc(containers) ==
    {c \in containers : \A print \in SelectedPrints : <<"utoc", c.utoc>> \notin print}

\* The copy of the selected mod that is installed is not asked.
Asked(containers) == {c \in containers : c.print \notin SelectedPrints}

\* Every installed container is a provider named by its contents.
Install ==
    LET containers == Containers(installed)
        asked == Asked(containers)
    IN  /\ pc = "installed"
        /\ IF \/ Repeats(installed) \/ ~Readable("installed", asked)
              \/ \E c, d \in asked : c # d /\ c.print = d.print
           THEN Refuse
           ELSE /\ pc' = "game"
                /\ providers' = providers \cup {Provider(<<"installed", c.print>>, {c}) : c \in asked}
                /\ excluded' = excluded
                       \cup {<<"incomplete", s>> : s \in Incomplete(installed)}
                       \cup {<<"selected", c.stem>> : c \in containers \ asked}
                /\ UNCHANGED <<inputs, mixed, resolution, update>>

\* discover_game_containers: only global may be without a PAK.
GameRefused ==
    \/ Repeats(game) \/ StockMain \notin Stems(game) \/ Stems(game) = {StockMain}
    \/ \E s \in Stems(game) :
          ~(Parts \ (IF s = Global THEN {"pak"} ELSE {}) \subseteq PartsOf(Group(game, s)))

Connects ==
    LET own == {Container(game, s) : s \in Stems(game) \ {StockMain}}
        stock == Container(game, StockMain)
    IN  /\ pc = "game"
        /\ IF GameRefused \/ ~Readable("stock", {stock}) THEN Refuse
           ELSE /\ pc' = "build"
                /\ providers' = providers \cup {Provider(<<"game", c.stem>>, {c}) : c \in own}
                       \cup {Provider(<<"stock">>, {stock})}
                /\ UNCHANGED <<inputs, excluded, mixed, resolution, update>>

-----------------------------------------------------------------------------
(* build_report *)

Located(p) == UNION {{[layer |-> p.layer, at |-> <<p.id, c.stem>>, package |-> q] : q \in c.store} :
                        c \in p.containers}
AllPackages == UNION {Located(p) : p \in providers}

\* One layer may have a package identity or path once.
Ambiguous(all) ==
    \E p, q \in all : /\ p # q /\ p.layer = q.layer
                      /\ p.package.id = q.package.id \/ p.package.path = q.package.path

Build ==
    /\ pc = "build"
    /\ IF Cardinality(providers) > MaxProviders \/ Cardinality(AllPackages) > MaxPackages
          \/ Ambiguous(AllPackages)
       THEN Refuse
       ELSE /\ pc' = "walk" /\ packages' = AllPackages
            /\ pending' = {p \in AllPackages : p.layer = "selected"}
            /\ UNCHANGED <<inputs, providers, excluded, mixed, visited, edges, update>>

Candidates(i) == {p \in packages : p.package.id = i}

\* Mutant of Serves: the last one.
ServesLast(i) ==
    CHOOSE p \in Candidates(i) :
        \A q \in Candidates(i) : Precedence(p.layer) >= Precedence(q.layer)

\* The first candidate in the order of locations is of the layer asked first.
Serves(i) ==
    CHOOSE p \in Candidates(i) :
        \A q \in Candidates(i) : Precedence(p.layer) <= Precedence(q.layer)

\* Mutant of EdgesFit: the limit is tested after the edge that reaches it.
EdgesFitOneMore(all) == Cardinality(all) <= MaxEdges + 1

EdgesFit(all) == Cardinality(all) <= MaxEdges

Served(source) == {i \in source.package.imports : Candidates(i) # {}}
EdgesOf(source) ==
    {[source |-> source, import |-> i, resolved |-> i \in Served(source),
      target |-> IF i \in Served(source) THEN {Serves(i)} ELSE {},
      shadowed |-> Cardinality(Candidates(i) \ (IF i \in Served(source) THEN {Serves(i)} ELSE {}))] :
        i \in source.package.imports}

\* The loop over pending packages, one iteration; their order has no effect.
Walk ==
    \E source \in pending :
        /\ pc = "walk"
        /\ IF source \in visited
           THEN pending' = pending \ {source} /\ UNCHANGED <<pc, visited, edges>>
           ELSE IF ~EdgesFit(edges \cup EdgesOf(source))
                THEN pc' = "refused" /\ UNCHANGED <<pending, visited, edges>>
                ELSE /\ visited' = visited \cup {source}
                     /\ edges' = edges \cup EdgesOf(source)
                     /\ pending' = (pending \ {source}) \cup {Serves(i) : i \in Served(source)}
                     /\ UNCHANGED pc
        /\ UNCHANGED <<inputs, providers, excluded, mixed, packages, update>>

Finish ==
    /\ pc = "walk" /\ pending = {} /\ pc' = "report"
    /\ UNCHANGED <<inputs, providers, excluded, mixed, resolution, update>>

\* The containers the ESP lane reads: every UTOC below Content/Paks must have both
\* its companions.
LaneReads == \A s \in WithUtoc(InPaks(selected.files)) : s \in Whole(InPaks(selected.files))
LaneContainers == Containers(InPaks(selected.files))

\* The lane that updates the mod reads its containers again: claims of equal order
\* are warned of, then the trace of the dependencies refuses every repeat.
Trace ==
    LET containers == LaneContainers
        store == StoreOf(containers)
        current == Stores[Utoc(Group(game, StockMain))]
    IN  /\ pc \in {"report", "refused"} /\ mixed.made /\ pc' = "traced"
        /\ IF ~LaneReads THEN UNCHANGED update
           ELSE /\ warnings' = Lint(containers)
                /\ lane' = IF Repeated(containers) \/ RepeatsId(current) \/ RepeatsPath(current)
                           THEN Refusal ELSE [made |-> TRUE, unresolved |-> Unresolved(store, current)]
        /\ UNCHANGED <<inputs, providers, excluded, mixed, resolution>>

Next ==
    \/ Probe \/ Select \/ Connect \/ Connected \/ Install \/ Connects
    \/ Build \/ Walk \/ Finish \/ Trace

Spec == Init /\ [][Next]_vars

-----------------------------------------------------------------------------
\* Every layer a package is looked up in, and who is excluded from them, keeps
\* its kind through the probe.
TypeOK ==
    /\ pc \in {"mixed", "selected", "connected", "installed", "game", "build", "walk", "report", "refused",
              "traced"}
    /\ selected \in Selections /\ installed \in Installations /\ game \in Games
    /\ \A p \in providers : p.layer \in Layer /\ p.containers # {}
    /\ \A e \in excluded : e[1] \in {"incomplete", "out of lane", "selected"}
    /\ pending \cup visited \subseteq packages
    /\ \A e \in edges : e.source \in visited /\ e.target \subseteq packages
    /\ Cardinality(edges) <= MaxEdges

\* Reference of the resolution: the packages a lookup through the layers,
\* one import after the other, gets to.
Best(i) == {p \in Candidates(i) : ~\E q \in Candidates(i) : Precedence(q.layer) < Precedence(p.layer)}
Closed(set) == \A p \in set : \A i \in p.package.imports : Best(i) \subseteq set
Own == {p \in packages : p.layer = "selected"}
Reachable == CHOOSE set \in {s \in SUBSET packages : Own \subseteq s /\ Closed(s)} :
                 \A s \in SUBSET set : Own \subseteq s /\ Closed(s) => s = set

\* The report is about exactly the packages reached from the selected mod, each
\* import served by the first layer that has it, whatever the order of the walk,
\* cycles, shadowed packages and layers included.
ReachesExactly ==
    pc = "report" =>
        /\ visited = Reachable
        /\ {e.source : e \in edges} = {p \in visited : p.package.imports # {}}
        /\ \A e \in edges : e.target = Best(e.import) /\ e.resolved = (e.target # {})

\* The two probes agree on the containers below Content/Paks of the mod: an import
\* the mixed probe leaves open is open in the layered report too, unless it is
\* served by a layer or a part of the mod that the mixed probe never asks, and one
\* it resolves is never open there.  On packages elsewhere in the mod it is silent.
ProbesAgree ==
    pc = "report" /\ mixed.made =>
        \A e \in edges : e.source.layer = "selected" /\ e.source.at[2].paks =>
            IF <<e.source.package.id, e.import>> \in mixed.unresolved
            THEN \A p \in e.target :
                    \/ p.layer \in {"connected", "installed", "game"}
                    \/ p.layer = "selected" /\ ~p.at[2].paks
            ELSE e.resolved

\* A package of an installed mod is passed over only for a file of the selected
\* mod equal to it: an installed container whose members are not all those of a
\* selected one is asked, or the probe is refused.
OnlyCopiesPassedOver ==
    pc = "report" =>
        \A c \in Containers(installed) :
            (\E p \in providers : p.layer = "installed" /\ c \in p.containers)
                \/ \E d \in Containers(selected.files) : c.print = d.print

\* Reference of the mount order: the containers of the mod that compete for a
\* path where the game mounts them highest.
Order(stem) == IF stem.patch THEN stem.chunk + 1 ELSE 0
Highest(path) ==
    LET claims == Claims(LaneContainers, path)
    IN  {s \in claims : \A t \in claims : Order(t) <= Order(s)}
Overflows(path) == \E s \in Claims(LaneContainers, path) : s.patch /\ s.chunk > MaxChunk

\* What the lane tells of competing containers is what the game does: of each path
\* it warns of all containers that share the highest mount order and names the
\* first of them as the winner; it never warns where one container outranks the
\* others, and never names one that is outranked.  Chunk numbers that overflow
\* are excepted.
TiesAreWarned ==
    pc = "traced" /\ LaneReads =>
        \A path \in {p.path : p \in StoreOf(LaneContainers)} : ~Overflows(path) =>
            LET first == CHOOSE s \in Highest(path) : \A t \in Highest(path) : s.name <= t.name
            IN  {w \in warnings : w.path = path} =
                    {[path |-> path, winner |-> first, loser |-> s] : s \in Highest(path) \ {first}}
=============================================================================
