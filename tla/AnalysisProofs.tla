---------------------------- MODULE AnalysisProofs --------------------------
(***************************************************************************)
(* What an analysis of a mod may report, for every mod, every store of     *)
(* packages and every setup.                                               *)
(*                                                                         *)
(* First the layers a package is looked up in.  While the walk goes on,    *)
(* the packages met lie in every closed set that holds those of the mod    *)
(* (Resolving); when none is pending they are closed themselves, so what   *)
(* is reported is the least such set, and no induction along the edges is  *)
(* needed.  The other part of the invariant says what the providers found  *)
(* so far have to do with the sources (Gathered).                          *)
(*                                                                         *)
(* Then the analysis that asks them.  Its invariant says what an analysis  *)
(* may know at each stage, of the view nested in it as well, and what a    *)
(* verdict that allows an update has found; the lemma that carries it is   *)
(* that the layouts of an inventory leave one adapter capable.             *)
(***************************************************************************)
EXTENDS Layers, Preflight, FiniteSetTheorems, TLAPS

Gathering == {"mixed", "selected", "connected", "installed", "game", "build"}

\* What the resolution knows while it walks: the packages it has met are
\* closed but for the pending ones, and lie in every closed set of packages
\* that holds those of the mod.
Resolving ==
    /\ \A p \in providers : p.layer \in Layer
    /\ \A p \in packages : p.layer \in Layer
    /\ ~Ambiguous(packages)
    /\ pc \in Gathering => packages = {} /\ pending = {} /\ visited = {} /\ edges = {}
    /\ pending \cup visited \subseteq packages
    /\ Own \subseteq pending \cup visited
    /\ \A p \in visited : \A i \in p.package.imports : Best(i) \subseteq pending \cup visited
    /\ \A s \in SUBSET packages : Own \subseteq s /\ Closed(s) => pending \cup visited \subseteq s
    /\ edges = UNION {EdgesOf(p) : p \in visited}
    /\ pc = "report" => pending = {}

USE LayersAssumption

\* The layers in the order they are asked.
LEMMA Precedences ==
    /\ \A l \in Layer : Precedence(l) \in 0 .. 4
    /\ \A l, m \in Layer : Precedence(l) = Precedence(m) => l = m
  <1>1. /\ Precedence("selected") = 0 /\ Precedence("connected") = 1
        /\ Precedence("installed") = 2 /\ Precedence("game") = 3
        /\ Precedence("stock") = 4
    BY DEF Precedence
  <1> QED
    BY <1>1 DEF Layer

\* Of the candidates for an import one is of the layer asked first.
LEMMA BestIsServes ==
    ASSUME \A p \in packages : p.layer \in Layer, ~Ambiguous(packages), NEW i
    PROVE  /\ Candidates(i) # {} => Best(i) = {Serves(i)} /\ Serves(i) \in Candidates(i)
           /\ Candidates(i) = {} => Best(i) = {}
  <1>1. ASSUME Candidates(i) # {}
        PROVE  \E p \in Candidates(i) :
                  \A q \in Candidates(i) : Precedence(p.layer) <= Precedence(q.layer)
    <2> DEFINE At(n) == \E p \in Candidates(i) : Precedence(p.layer) = n
    <2>1. \A p \in Candidates(i) : Precedence(p.layer) \in 0 .. 4
      BY Precedences DEF Candidates
    <2>2. At(0) \/ At(1) \/ At(2) \/ At(3) \/ At(4)
      BY <1>1, <2>1
    <2> QED
      BY <2>1, <2>2
  <1>2. ASSUME NEW p \in Candidates(i), NEW q \in Candidates(i),
               Precedence(p.layer) = Precedence(q.layer)
        PROVE  p = q
    BY <1>2, Precedences DEF Candidates, Ambiguous
  <1>3. \A p \in Candidates(i) : Precedence(p.layer) \in 0 .. 4
    BY Precedences DEF Candidates
  <1>4. ASSUME Candidates(i) # {}
        PROVE  /\ Serves(i) \in Candidates(i)
               /\ \A q \in Candidates(i) : Precedence(Serves(i).layer) <= Precedence(q.layer)
    BY <1>1, <1>4 DEF Serves
  <1>5. ASSUME Candidates(i) # {}
        PROVE  Best(i) = {Serves(i)}
    BY <1>2, <1>3, <1>4, <1>5 DEF Best
  <1> QED
    BY <1>4, <1>5 DEF Best

\* What is served does not change while the packages stay.
LEMMA SameServed ==
    ASSUME packages' = packages
    PROVE  /\ \A i : Best(i)' = Best(i)
           /\ \A p : EdgesOf(p)' = EdgesOf(p)
           /\ \A s : Closed(s)' = Closed(s)
           /\ Own' = Own
  BY DEF Best, EdgesOf, Served, Serves, Candidates, Closed, Own

\* Providers are of the layer their name begins with.
LEMMA ProviderLayers ==
    /\ \A c : Provider(<<"selected">>, c).layer = "selected"
    /\ \A a, b, c : Provider(<<"connected", a, b>>, c).layer = "connected"
    /\ \A a, c : Provider(<<"installed", a>>, c).layer = "installed"
    /\ \A a, c : Provider(<<"game", a>>, c).layer = "game"
    /\ \A c : Provider(<<"stock">>, c).layer = "stock"
    /\ \A id, c : Provider(id, c).containers = c
  BY DEF Provider

\* A step that is not of build_report's leaves the resolution alone.
LEMMA ResolvingStays ==
    ASSUME Resolving, UNCHANGED resolution,
           \A p \in providers' : p \in providers \/ p.layer \in Layer,
           pc' \in Gathering => pc \in Gathering,
           pc' = "report" => pending = {}
    PROVE  Resolving'
  <1>1. \A p : EdgesOf(p)' = EdgesOf(p)
    BY SameServed DEF resolution
  <1> QED
    BY <1>1, SameServed DEF Resolving, resolution, Ambiguous

\* Every step keeps the resolution in order.
LEMMA ResolvingStep == Resolving /\ [Next]_vars => Resolving'
  <1> SUFFICES ASSUME Resolving, [Next]_vars
               PROVE  Resolving'
    OBVIOUS
  <1>1. CASE Probe \/ Connected \/ Finish \/ Trace \/ UNCHANGED vars
    BY <1>1, ResolvingStays
       DEF Probe, Connected, Finish, Trace, Resolving, Gathering, vars, resolution
  <1>2. CASE Select
    BY <1>2, ResolvingStays DEF Select, Refuse, Provider, Gathering, Layer
  <1>3. CASE Connect
    <2>1. pc' \in {"refused", "connected"} /\ pc = "connected" /\ UNCHANGED resolution
      BY <1>3 DEF Connect, Refuse
    <2>2. \A p \in providers' : p \in providers \/ p.layer = "connected"
      <3> DEFINE containers == Containers(Head(connected).files)
                 prints == {<<c.stem, c.print>> : c \in containers}
                 new == Provider(<<"connected", Head(connected).leaf, prints>>, containers)
      <3>1. providers' \in {providers, providers \cup {new}}
        BY <1>3 DEF Connect, Refuse
      <3>2. new.layer = "connected"
        <4> HIDE DEF containers, prints
        <4> QED
          BY DEF Provider
      <3> QED
        BY <3>1, <3>2
    <2> QED
      BY <2>1, <2>2, ResolvingStays DEF Gathering, Layer
  <1>4. CASE Install
    BY <1>4, ResolvingStays DEF Install, Refuse, Provider, Gathering, Layer
  <1>5. CASE Connects
    BY <1>5, ResolvingStays DEF Connects, Refuse, Provider, Gathering, Layer
  <1>6. CASE Build
    <2>1. CASE Refuse
      BY <2>1, ResolvingStays DEF Refuse, Gathering
    <2>2. CASE ~Refuse
      <3>1. /\ pc' = "walk" /\ packages' = AllPackages /\ ~Ambiguous(AllPackages)
            /\ pending' = {p \in AllPackages : p.layer = "selected"}
            /\ UNCHANGED <<providers, visited, edges>> /\ visited = {} /\ edges = {}
        BY <1>6, <2>2 DEF Build, Resolving, Gathering
      <3>2. \A p \in AllPackages : p.layer \in Layer
        BY DEF AllPackages, Located, Resolving
      <3>3. Own' = pending'
        BY <3>1 DEF Own
      <3>4. edges' = UNION {EdgesOf(p)' : p \in visited'}
        BY <3>1
      <3> QED
        BY <3>1, <3>2, <3>3, <3>4 DEF Resolving, Gathering, Ambiguous
    <2> QED
      BY <2>1, <2>2
  <1>7. CASE Walk
    <2>1. PICK source \in pending :
             /\ pc = "walk"
             /\ IF source \in visited
                THEN pending' = pending \ {source} /\ UNCHANGED <<pc, visited, edges>>
                ELSE IF ~EdgesFit(edges \cup EdgesOf(source))
                     THEN pc' = "refused" /\ UNCHANGED <<pending, visited, edges>>
                     ELSE /\ visited' = visited \cup {source}
                          /\ edges' = edges \cup EdgesOf(source)
                          /\ pending' = (pending \ {source}) \cup {Serves(i) : i \in Served(source)}
                          /\ UNCHANGED pc
             /\ UNCHANGED <<inputs, providers, excluded, mixed, packages, update>>
      BY <1>7 DEF Walk
    <2>2. /\ \A p \in packages : p.layer \in Layer
          /\ ~Ambiguous(packages) /\ ~Ambiguous(packages)'
          /\ source \in packages
      BY <2>1 DEF Resolving, Ambiguous
    <2>3. CASE source \in visited
      <3>1. /\ pending' = pending \ {source} /\ UNCHANGED <<pc, visited, edges, packages, providers>>
            /\ pc = "walk" /\ pending' \cup visited' = pending \cup visited
        BY <2>1, <2>3
      <3> QED
        BY <2>2, <3>1, SameServed DEF Resolving, Gathering
    <2>4. CASE source \notin visited /\ ~EdgesFit(edges \cup EdgesOf(source))
      BY <2>1, <2>4, ResolvingStays DEF resolution, Gathering
    <2>5. CASE source \notin visited /\ EdgesFit(edges \cup EdgesOf(source))
      <3> DEFINE next == {Serves(i) : i \in Served(source)}
      <3>1. /\ visited' = visited \cup {source} /\ edges' = edges \cup EdgesOf(source)
            /\ pending' = (pending \ {source}) \cup next
            /\ UNCHANGED <<pc, packages, providers>> /\ pc = "walk"
        BY <2>1, <2>5
      <3>2. /\ next \subseteq packages
            /\ \A i \in source.package.imports : Best(i) \subseteq next
            /\ \A p \in next : \E i \in source.package.imports : p \in Best(i)
        BY <2>2, BestIsServes DEF Served, Candidates
      <3>3. ASSUME NEW s \in SUBSET packages, Own \subseteq s, Closed(s)
            PROVE  pending' \cup visited' \subseteq s
        <4>1. pending \cup visited \subseteq s
          BY <3>3 DEF Resolving
        <4>2. \A i \in source.package.imports : Best(i) \subseteq s
          BY <2>1, <3>3, <4>1 DEF Closed
        <4> QED
          BY <2>1, <3>1, <3>2, <4>1, <4>2
      <3>4. edges' = UNION {EdgesOf(p)' : p \in visited'}
        <4>1. edges = UNION {EdgesOf(p) : p \in visited}
          BY DEF Resolving
        <4>2. edges' = UNION {EdgesOf(p) : p \in visited'}
          BY <3>1, <4>1
        <4> QED
          BY <3>1, <4>2, SameServed
      <3>5. pending \cup visited \subseteq pending' \cup visited'
        BY <3>1
      <3>6. \A p \in visited' : \A i \in p.package.imports : Best(i) \subseteq pending' \cup visited'
        BY <3>1, <3>2, <3>5 DEF Resolving
      <3>7. pending' \cup visited' \subseteq packages /\ Own \subseteq pending' \cup visited'
        BY <2>2, <3>1, <3>2, <3>5 DEF Resolving
      <3> HIDE DEF next
      <3> QED
        BY <2>2, <3>1, <3>3, <3>4, <3>6, <3>7, SameServed DEF Resolving, Gathering
    <2> QED
      BY <2>3, <2>4, <2>5
  <1> QED
    BY <1>1, <1>2, <1>3, <1>4, <1>5, <1>6, <1>7 DEF Next

-----------------------------------------------------------------------------
(* What the layers hold. *)

Asking == {"connected", "installed", "game"}
Resolved == {"build", "walk", "report"}

\* The providers of the mod and of the stock game are the ones read from its
\* containers; an installed container is a provider or a copy of one of the mod.
Gathered ==
    /\ pc # "mixed" => mixed = MixedProbe
    /\ pc \in {"mixed", "selected"} => providers = {}
    /\ pc \in Asking \cup Resolved =>
          /\ Incomplete(selected.files) = {} /\ ~Repeats(selected.files)
          /\ {p \in providers : p.layer = "selected"}
                = {Provider(<<"selected">>, Containers(selected.files))}
    /\ pc \in Asking => \A p \in providers : p.layer # "stock"
    /\ pc \in Resolved =>
          /\ ~GameRefused
          /\ {p \in providers : p.layer = "stock"}
                = {Provider(<<"stock">>, {Container(game, StockMain)})}
    /\ pc \in {"game"} \cup Resolved =>
          \A c \in Containers(installed) :
             \/ \E p \in providers : p.layer = "installed" /\ c \in p.containers
             \/ \E d \in Containers(selected.files) : c.print = d.print
    /\ pc \in {"walk", "report"} => packages = AllPackages

\* What is read of the inputs does not change while they stay.
LEMMA SameInputs ==
    ASSUME selected' = selected, installed' = installed, game' = game
    PROVE  /\ MixedProbe' = MixedProbe
           /\ GameRefused' = GameRefused
  BY DEF MixedProbe, GameRefused

\* Steps after the gathering of the providers leave them alone.
LEMMA GatheredStays ==
    ASSUME Gathered, selected' = selected, installed' = installed, game' = game,
           providers' = providers, mixed' = mixed,
           \/ pc' = pc
           \/ pc' = "refused" /\ pc \notin {"mixed", "traced"}
           \/ pc \in Resolved /\ pc' \in Resolved
           \/ pc = "connected" /\ pc' = "installed",
           pc' \in {"walk", "report"} => packages' = AllPackages
    PROVE  Gathered'
  <1>1. AllPackages' = AllPackages
    BY DEF AllPackages
  <1>2. /\ pc' # "mixed" => mixed' = MixedProbe'
        /\ pc' \in {"mixed", "selected"} => providers' = {}
    BY SameInputs DEF Gathered, Resolved
  <1>3. pc' \in Asking \cup Resolved =>
          /\ Incomplete(selected'.files) = {} /\ ~Repeats(selected'.files)
          /\ {p \in providers' : p.layer = "selected"}
                = {Provider(<<"selected">>, Containers(selected'.files))}
    BY DEF Gathered, Asking, Resolved
  <1>4. pc' \in Resolved =>
          /\ ~GameRefused'
          /\ {p \in providers' : p.layer = "stock"}
                = {Provider(<<"stock">>, {Container(game', StockMain)})}
    BY SameInputs DEF Gathered, Resolved
  <1>5. pc' \in {"game"} \cup Resolved =>
          \A c \in Containers(installed') :
             \/ \E p \in providers' : p.layer = "installed" /\ c \in p.containers
             \/ \E d \in Containers(selected'.files) : c.print = d.print
    BY DEF Gathered, Resolved
  <1>6. pc' \in Asking => \A p \in providers' : p.layer # "stock"
    BY DEF Gathered, Asking, Resolved
  <1> QED
    BY <1>1, <1>2, <1>3, <1>4, <1>5, <1>6 DEF Gathered

\* Every step keeps what is known of the providers.
LEMMA GatheredStep == Resolving /\ Gathered /\ [Next]_vars => Gathered'
  <1> SUFFICES ASSUME Resolving, Gathered, [Next]_vars
               PROVE  Gathered'
    OBVIOUS
  <1>1. CASE Connected \/ Finish \/ Walk \/ UNCHANGED vars
    <2>1. CASE Connected
      BY <2>1, GatheredStays DEF Connected, inputs, update
    <2>2. CASE Finish
      <3>1. pc = "walk" /\ pc' = "report" /\ packages' = AllPackages
            /\ UNCHANGED <<selected, installed, game, providers, mixed>>
        BY <2>2 DEF Finish, Gathered, Resolved, inputs, update, resolution
      <3> QED
        BY <3>1, GatheredStays DEF Resolved
    <2>3. CASE Walk
      BY <2>3, GatheredStays DEF Walk, Gathered, inputs, update
    <2>4. CASE UNCHANGED vars
      BY <2>4, GatheredStays DEF vars, Gathered
    <2> QED
      BY <1>1, <2>1, <2>2, <2>3, <2>4
  <1>2. CASE Refuse /\ pc \notin {"mixed", "traced"}
    BY <1>2, GatheredStays DEF Refuse, inputs, update
  <1>3. CASE Probe
    BY <1>3, SameInputs DEF Probe, inputs, update, Gathered, Asking, Resolved
  <1>4. CASE Select /\ ~Refuse
    <2>1. /\ pc = "selected" /\ pc' = "connected" /\ Incomplete(selected.files) = {}
          /\ ~Repeats(selected.files)
          /\ providers' = {Provider(<<"selected">>, Containers(selected.files))}
          /\ UNCHANGED <<selected, installed, game, mixed>>
      BY <1>4 DEF Select, inputs, update
    <2>2. Provider(<<"selected">>, Containers(selected.files)).layer = "selected"
      BY ProviderLayers
    <2> QED
      BY <2>1, <2>2, SameInputs DEF Gathered, Asking, Resolved
  <1>5. CASE Connect /\ ~Refuse
    <2> DEFINE containers == Containers(Head(connected).files)
               prints == {<<c.stem, c.print>> : c \in containers}
               new == Provider(<<"connected", Head(connected).leaf, prints>>, containers)
    <2>1. /\ pc = "connected" /\ pc' = pc
          /\ providers' \in {providers, providers \cup {new}}
          /\ UNCHANGED <<selected, installed, game, mixed>>
      BY <1>5 DEF Connect, update
    <2>2. new.layer = "connected"
      <3> HIDE DEF containers, prints
      <3> QED
        BY DEF Provider
    <2> HIDE DEF new
    <2>3. \A l : l # "connected" =>
             {p \in providers' : p.layer = l} = {p \in providers : p.layer = l}
      BY <2>1, <2>2
    <2> QED
      BY <2>1, <2>2, <2>3, SameInputs DEF Gathered, Asking, Resolved
  <1>6. CASE Install /\ ~Refuse
    <2> DEFINE containers == Containers(installed)
               new == {Provider(<<"installed", c.print>>, {c}) : c \in Asked(containers)}
    <2>1. /\ pc = "installed" /\ pc' = "game" /\ providers' = providers \cup new
          /\ UNCHANGED <<selected, installed, game, mixed>>
      BY <1>6 DEF Install, inputs, update
    <2>2. \A p \in new : p.layer = "installed"
      BY DEF Provider
    <2>3. \A l : l # "installed" =>
             {p \in providers' : p.layer = l} = {p \in providers : p.layer = l}
      <3> HIDE DEF new
      <3> QED
        BY <2>1, <2>2
    <2>4. ASSUME NEW c \in containers
          PROVE  \/ \E p \in providers' : p.layer = "installed" /\ c \in p.containers
                 \/ \E d \in Containers(selected.files) : c.print = d.print
      <3>1. CASE c \in Asked(containers)
        <4> DEFINE p == Provider(<<"installed", c.print>>, {c})
        <4>0. p \in new
          BY <3>1
        <4>1. p \in new /\ p.layer = "installed" /\ p.containers = {c}
          <5>1. p.layer = "installed"
            BY ProviderLayers, Zenon
          <5>2. p.containers = {c}
            BY DEF Provider
          <5> HIDE DEF p, new
          <5> QED
            BY <4>0, <5>1, <5>2
        <4> HIDE DEF p, new
        <4> QED
          BY <2>1, <4>1
      <3>2. CASE c.print \in SelectedPrints
        <4>1. {p \in providers : p.layer = "selected"}
                 = {Provider(<<"selected">>, Containers(selected.files))}
          BY <2>1 DEF Gathered, Asking
        <4>2. SelectedPrints = {d.print : d \in Containers(selected.files)}
          <5> DEFINE own == Provider(<<"selected">>, Containers(selected.files))
          <5>1. own.containers = Containers(selected.files)
            BY ProviderLayers
          <5> HIDE DEF own
          <5>2. SelectedPrints = UNION {{d.print : d \in p.containers} : p \in {own}}
            BY <4>1 DEF SelectedPrints, own
          <5> QED
            BY <5>1, <5>2
        <4> QED
          BY <3>2, <4>2
      <3> QED
        BY <3>1, <3>2 DEF Asked
    <2> HIDE DEF new
    <2> QED
      BY <2>1, <2>2, <2>3, <2>4, SameInputs DEF Gathered, Asking, Resolved
  <1>7. CASE Connects /\ ~Refuse
    <2> DEFINE own == {Container(game, s) : s \in Stems(game) \ {StockMain}}
               games == {Provider(<<"game", c.stem>>, {c}) : c \in own}
               stock == Provider(<<"stock">>, {Container(game, StockMain)})
    <2>1. /\ pc = "game" /\ pc' = "build" /\ ~GameRefused
          /\ providers' = providers \cup games \cup {stock}
          /\ UNCHANGED <<selected, installed, game, mixed>>
      BY <1>7 DEF Connects, inputs, update
    <2>2. /\ \A p \in games : p.layer = "game"
          /\ stock.layer = "stock"
      <3>1. \A p \in games : p.layer = "game"
        BY DEF Provider
      <3>2. stock.layer = "stock"
        BY ProviderLayers, Zenon
      <3> QED
        BY <3>1, <3>2
    <2> HIDE DEF games, stock
    <2>3. /\ {p \in providers' : p.layer = "selected"} = {p \in providers : p.layer = "selected"}
          /\ {p \in providers' : p.layer = "installed"} = {p \in providers : p.layer = "installed"}
          /\ {p \in providers' : p.layer = "stock"} = {stock}
      BY <2>1, <2>2 DEF Gathered, Asking
    <2>4. stock = Provider(<<"stock">>, {Container(game', StockMain)})
      BY <2>1 DEF stock
    <2>5. \A c \in Containers(installed) :
             \/ \E p \in providers' : p.layer = "installed" /\ c \in p.containers
             \/ \E d \in Containers(selected.files) : c.print = d.print
      BY <2>1 DEF Gathered
    <2>6. /\ Incomplete(selected'.files) = {} /\ ~Repeats(selected'.files)
          /\ {p \in providers' : p.layer = "selected"}
                = {Provider(<<"selected">>, Containers(selected'.files))}
          /\ mixed' = MixedProbe' /\ ~GameRefused'
      BY <2>1, <2>3, SameInputs DEF Gathered, Asking
    <2> QED
      BY <2>1, <2>3, <2>4, <2>5, <2>6 DEF Gathered, Asking, Resolved
  <1>8. CASE Build /\ ~Refuse
    <2>1. /\ pc = "build" /\ pc' = "walk" /\ packages' = AllPackages
          /\ UNCHANGED <<selected, installed, game, mixed, providers>>
      BY <1>8 DEF Build, inputs, update
    <2> QED
      BY <2>1, GatheredStays DEF Resolved
  <1>9. CASE Trace
    <2>1. /\ pc' = "traced" /\ pc # "mixed" /\ pc # "traced"
          /\ UNCHANGED <<selected, installed, game, mixed, providers>>
      BY <1>9 DEF Trace, inputs
    <2> QED
      BY <2>1, SameInputs DEF Gathered, Asking, Resolved
  <1>10. Refuse => pc \notin {"mixed", "traced"} \/ ~(Select \/ Connect \/ Install \/ Connects \/ Build)
    BY DEF Select, Connect, Install, Connects, Build
  <1> QED
    BY <1>1, <1>2, <1>3, <1>4, <1>5, <1>6, <1>7, <1>8, <1>9, <1>10 DEF Next

-----------------------------------------------------------------------------
(* The theorems. *)

LayersInv == TypeOK /\ Resolving /\ Gathered

\* The containers of a provider that is read as a mod are some.
LEMMA WholeContainers ==
    ASSUME NEW files, files # {}, Incomplete(files) = {}
    PROVE  Containers(files) # {}
  BY DEF Containers, Incomplete, Whole, Stems

\* Nothing is found at first.
LEMMA TypeInit == Init => TypeOK
  <1> SUFFICES ASSUME Init
               PROVE  TypeOK
    OBVIOUS
  <1>1. Cardinality({}) = 0
    BY FS_EmptySet
  <1> QED
    BY <1>1 DEF Init, TypeOK

Target(p, i) == IF i \in Served(p) THEN {Serves(i)} ELSE {}
Shadowed(p, i) == Cardinality(Candidates(i) \ Target(p, i))

\* What the report says of an import.
LEMMA EdgesAre ==
    ASSUME NEW p
    PROVE  EdgesOf(p) = {[source |-> p, import |-> i, resolved |-> i \in Served(p),
                          target |-> Target(p, i), shadowed |-> Shadowed(p, i)] :
                             i \in p.package.imports}
  BY Zenon DEF EdgesOf, Target, Shadowed

\* The parts of a reported edge.
LEMMA EdgeFields ==
    ASSUME NEW p, NEW e \in EdgesOf(p)
    PROVE  \E i \in p.package.imports :
              /\ e.source = p /\ e.import = i
              /\ e.resolved = (i \in Served(p))
              /\ e.target = Target(p, i)
  BY EdgesAre

\* The edges are of packages that were visited and lead to packages.
LEMMA EdgesInside ==
    Resolving => \A e \in edges : e.source \in visited /\ e.target \subseteq packages
  <1> SUFFICES ASSUME Resolving, NEW p \in visited, NEW e \in EdgesOf(p)
               PROVE  e.source = p /\ e.target \subseteq packages
    BY DEF Resolving
  <1>1. \A i \in Served(p) : Serves(i) \in packages
    BY BestIsServes DEF Served, Resolving, Candidates
  <1>2. PICK i \in p.package.imports :
           e.source = p /\ e.target = Target(p, i)
    BY EdgeFields
  <1> QED
    BY <1>1, <1>2 DEF Target

\* Every step keeps the types.
LEMMA TypeStep == TypeOK /\ Resolving' /\ [Next]_vars => TypeOK'
  <1> SUFFICES ASSUME TypeOK, Resolving', [Next]_vars
               PROVE  TypeOK'
    OBVIOUS
  <1>1. /\ pc' \in {"mixed", "selected", "connected", "installed", "game", "build", "walk",
                    "report", "refused", "traced"}
        /\ selected' = selected /\ installed' = installed /\ game' = game
    <2>1. CASE Probe \/ Select \/ Connect \/ Connected \/ Install
      BY <2>1 DEF TypeOK, Probe, Select, Connect, Connected, Install, Refuse, inputs
    <2>2. CASE Connects \/ Build \/ Walk \/ Finish \/ Trace \/ UNCHANGED vars
      BY <2>2 DEF TypeOK, Connects, Build, Walk, Finish, Trace, Refuse, inputs, vars
    <2> QED
      BY <2>1, <2>2 DEF Next
  <1>2. \A p \in providers' : p.layer \in Layer
    BY DEF Resolving
  <1>3. \A p \in providers' : p \in providers \/ p.containers # {}
    <2>1. CASE UNCHANGED providers
      BY <2>1
    <2>2. CASE Select /\ ~UNCHANGED providers
      BY <2>2, WholeContainers, ProviderLayers DEF Select, Refuse
    <2>3. CASE Connect /\ ~UNCHANGED providers
      <3> DEFINE containers == Containers(Head(connected).files)
                 prints == {<<c.stem, c.print>> : c \in containers}
                 new == Provider(<<"connected", Head(connected).leaf, prints>>, containers)
      <3>1. providers' = providers \cup {new} /\ containers # {}
        BY <2>3 DEF Connect, Refuse
      <3>2. new.containers = containers
        <4> HIDE DEF containers, prints
        <4> QED
          BY DEF Provider
      <3> QED
        BY <3>1, <3>2
    <2>4. CASE Install /\ ~UNCHANGED providers
      BY <2>4 DEF Install, Refuse, Provider
    <2>5. CASE Connects /\ ~UNCHANGED providers
      BY <2>5 DEF Connects, Refuse, Provider
    <2> QED
      BY <2>1, <2>2, <2>3, <2>4, <2>5
         DEF Next, Probe, Connected, Build, Walk, Finish, Trace, Refuse, vars
  <1>4. \A e \in excluded' : e[1] \in {"incomplete", "out of lane", "selected"}
    <2>1. CASE UNCHANGED excluded
      BY <2>1 DEF TypeOK
    <2>2. CASE Connect /\ ~UNCHANGED excluded
      <3> DEFINE source == Head(connected)
                 listed == {<<"incomplete", t>> : t \in Incomplete(source.files)}
                 none == IF Containers(source.files) = {} THEN {<<"out of lane", source.leaf>>}
                         ELSE {}
      <3>1. excluded' = excluded \cup listed \cup none
        BY <2>2 DEF Connect, Refuse
      <3>2. \A e \in listed : e[1] = "incomplete"
        OBVIOUS
      <3>3. \A e \in none : e[1] = "out of lane"
        <4> SUFFICES ASSUME NEW e \in none
                     PROVE  e[1] = "out of lane"
          OBVIOUS
        <4>1. e = <<"out of lane", source.leaf>>
          BY Zenon
        <4> HIDE DEF none, source
        <4> QED
          BY <4>1
      <3> HIDE DEF listed, none
      <3> QED
        BY <3>1, <3>2, <3>3 DEF TypeOK
    <2>3. CASE Install /\ ~UNCHANGED excluded
      <3>1. \A e \in excluded' : \/ e \in excluded
                                 \/ e[1] \in {"incomplete", "selected"}
        BY <2>3 DEF Install, Refuse
      <3> QED
        BY <3>1 DEF TypeOK
    <2> QED
      BY <2>1, <2>2, <2>3
         DEF Next, Probe, Select, Connected, Connects, Build, Walk, Finish, Trace, Refuse, vars
  <1>5. pending' \cup visited' \subseteq packages'
    BY DEF Resolving
  <1>6. \A e \in edges' : e.source \in visited' /\ e.target \subseteq packages'
    <2>1. Resolving' => (\A e \in edges : e.source \in visited /\ e.target \subseteq packages)'
      BY EdgesInside, PTL
    <2> QED
      BY <2>1
  <1>7. Cardinality(edges') <= MaxEdges
    <2>1. UNCHANGED edges \/ EdgesFit(edges')
      <3>1. Probe \/ Select \/ Connect \/ Connected \/ Install \/ Connects => UNCHANGED edges
        BY DEF Probe, Select, Connect, Connected, Install, Connects, Refuse, resolution
      <3>2. Build \/ Finish \/ Trace \/ UNCHANGED vars => UNCHANGED edges
        BY DEF Build, Finish, Trace, Refuse, resolution, vars
      <3>3. Walk => UNCHANGED edges \/ EdgesFit(edges')
        BY DEF Walk
      <3> QED
        BY <3>1, <3>2, <3>3 DEF Next
    <2> QED
      BY <2>1 DEF TypeOK, EdgesFit
  <1> QED
    BY <1>1, <1>2, <1>3, <1>4, <1>5, <1>6, <1>7 DEF TypeOK

\* No provider is known when the probes begin.
LEMMA LayersStart == Init => LayersInv
  <1> SUFFICES ASSUME Init
               PROVE  LayersInv
    OBVIOUS
  <1>1. Resolving
    BY DEF Init, Resolving, Ambiguous, Own, Gathering
  <1>2. Gathered
    BY DEF Init, Gathered, Refusal, Asking, Resolved
  <1> QED
    BY <1>1, <1>2, TypeInit DEF LayersInv

\* Every step keeps the invariant.
LEMMA LayersSteps == LayersInv /\ [Next]_vars => LayersInv'
  BY ResolvingStep, GatheredStep, TypeStep DEF LayersInv

(***************************************************************************)
(* The invariant of build_report of dependency_layers.rs holds in every    *)
(* state, whatever the sources that may be selected and connected.         *)
(***************************************************************************)
THEOREM LayersInvariance == Spec => []LayersInv
  <1>1. LayersInv /\ [Next]_vars => LayersInv'
    BY LayersSteps
  <1> QED
    BY <1>1, LayersStart, PTL DEF Spec

(***************************************************************************)
(* Every report of the layers keeps its bounds, and every provider is of   *)
(* one of the five layers, whatever the sources.                           *)
(***************************************************************************)
THEOREM LayersTypes == Spec => []TypeOK
  BY LayersInvariance, PTL DEF LayersInv

\* The least set that is closed is the one that lies in every other.
LEMMA ReachableIsVisited ==
    ASSUME Resolving, pc = "report"
    PROVE  visited = Reachable
  <1> DEFINE Closeds == {s \in SUBSET packages : Own \subseteq s /\ Closed(s)}
             Least(set) == \A s \in SUBSET set : Own \subseteq s /\ Closed(s) => s = set
  <1>1. visited \subseteq packages /\ Own \subseteq visited /\ Closed(visited)
    BY DEF Resolving, Closed
  <1>2. \A s \in Closeds : visited \subseteq s
    BY DEF Resolving
  <1>3. visited \in Closeds /\ Least(visited)
    BY <1>1, <1>2
  <1>4. \A set \in Closeds : Least(set) => set = visited
    BY <1>1, <1>2
  <1>5. Reachable = CHOOSE set \in Closeds : Least(set)
    BY DEF Reachable
  <1> HIDE DEF Closeds, Least
  <1> QED
    BY <1>3, <1>4, <1>5

\* What is visited at the end is the least closed set.
LEMMA ReachesExactlyHolds == LayersInv => ReachesExactly
  <1> SUFFICES ASSUME Resolving, pc = "report"
               PROVE  /\ visited = Reachable
                      /\ {e.source : e \in edges} = {p \in visited : p.package.imports # {}}
                      /\ \A e \in edges : /\ e.target = Best(e.import)
                                         /\ e.resolved = (e.target # {})
    BY DEF LayersInv, ReachesExactly
  <1>1. \A e \in edges : \E p \in visited : e \in EdgesOf(p)
    BY DEF Resolving
  <1>2. ASSUME NEW p \in visited, NEW i \in p.package.imports
        PROVE  \E e \in edges : e.source = p
    <2> DEFINE e == [source |-> p, import |-> i, resolved |-> i \in Served(p),
                     target |-> Target(p, i), shadowed |-> Shadowed(p, i)]
    <2>0. e \in EdgesOf(p)
      BY EdgesAre
    <2>1. e.source = p
      OBVIOUS
    <2> HIDE DEF e
    <2> QED
      BY <2>0, <2>1 DEF Resolving
  <1>3. {e.source : e \in edges} = {p \in visited : p.package.imports # {}}
    BY <1>1, <1>2, EdgeFields
  <1>4. ASSUME NEW e \in edges
        PROVE  e.target = Best(e.import) /\ e.resolved = (e.target # {})
    <2>0. PICK p \in visited : e \in EdgesOf(p)
      BY <1>1
    <2>1. PICK i \in p.package.imports :
             /\ e.import = i
             /\ e.resolved = (i \in Served(p))
             /\ e.target = Target(p, i)
      BY <2>0, EdgeFields
    <2>2. /\ Candidates(i) # {} => Best(i) = {Serves(i)}
          /\ Candidates(i) = {} => Best(i) = {}
      BY BestIsServes DEF Resolving
    <2>3. i \in Served(p) <=> Candidates(i) # {}
      BY DEF Served
    <2>4. Target(p, i) = Best(i)
      BY <2>2, <2>3 DEF Target
    <2>5. (i \in Served(p)) = (Target(p, i) # {})
      BY <2>3 DEF Target
    <2> QED
      BY <2>1, <2>4, <2>5
  <1> QED
    BY <1>3, <1>4, ReachableIsVisited

(***************************************************************************)
(* The walk of build_report reports the packages that are reached from the *)
(* mod by imports, each import followed to the first layer that has it,    *)
(* and nothing else, for every store of packages.                          *)
(***************************************************************************)
THEOREM Reaches == Spec => []ReachesExactly
  BY LayersInvariance, ReachesExactlyHolds, PTL

\* A layer with one provider has the packages of its containers.
LEMMA LayerPackages ==
    ASSUME NEW own \in providers, \A p \in providers : p.layer = own.layer => p = own
    PROVE  /\ \A p \in AllPackages : p.layer = own.layer => p.package \in StoreOf(own.containers)
           /\ \A q \in StoreOf(own.containers) : \E p \in AllPackages : p.package = q
           /\ \A p \in AllPackages : p.layer = own.layer =>
                 \E c \in own.containers : p.at[2] = c.stem /\ p.package \in c.store
  <1>1. \A p \in providers : \A q \in Located(p) :
           q.layer = p.layer
              /\ \E c \in p.containers : q.at = <<p.id, c.stem>> /\ q.package \in c.store
    BY DEF Located
  <1>2. \A c \in own.containers : \A q \in c.store :
           \E p \in Located(own) : p.package = q
    <2> SUFFICES ASSUME NEW c \in own.containers, NEW q \in c.store
                 PROVE  \E p \in Located(own) : p.package = q
      OBVIOUS
    <2> DEFINE at == <<own.id, c.stem>>
               p == [layer |-> own.layer, at |-> at, package |-> q]
    <2>1. p \in Located(own)
      BY DEF Located
    <2>2. p.package = q
      OBVIOUS
    <2> HIDE DEF p
    <2> QED
      BY <2>1, <2>2
  <1> QED
    BY <1>1, <1>2 DEF AllPackages, StoreOf

\* Where no two files differ in the case of their names only, there is one UTOC.
LEMMA StockUtoc ==
    ASSUME NEW stock, stock = {f \in game : f.stem = StockMain /\ f.part = "utoc"},
           stock # {}, ~Repeats(game)
    PROVE  Utoc(stock) = Utoc(Group(game, StockMain))
  <1>1. PICK f \in stock : TRUE
    OBVIOUS
  <1>2. \A g \in stock : g = f
    BY <1>1 DEF Repeats
  <1>3. \A g \in Group(game, StockMain) : g.part = "utoc" => g = f
    BY <1>1 DEF Repeats, Group
  <1>4. (CHOOSE g \in stock : g.part = "utoc") = f
    BY <1>1, <1>2
  <1>5. (CHOOSE g \in Group(game, StockMain) : g.part = "utoc") = f
    BY <1>1, <1>3 DEF Group
  <1> QED
    BY <1>4, <1>5 DEF Utoc

\* One package of an identity is kept, and where no two of them conflict it has
\* the imports of each.
LEMMA KeptPackages ==
    ASSUME NEW store
    PROVE  /\ Ids(Kept(store)) = Ids(store)
           /\ Kept(store) \subseteq store
           /\ ~Conflicts(store) =>
                 \A p \in store : \E q \in Kept(store) : q.id = p.id /\ q.imports = p.imports
  <1> DEFINE first(i) == CHOOSE p \in store : p.id = i
  <1>1. \A p \in store : first(p.id) \in store /\ first(p.id).id = p.id
    OBVIOUS
  <1>2. Kept(store) = {first(p.id) : p \in store}
    BY DEF Kept, Ids
  <1> HIDE DEF first
  <1> QED
    BY <1>1, <1>2 DEF Ids, Conflicts

\* The containers of the mod below Content/Paks are those the mixed probe reads, if
\* no container of the mod lacks a file.
LEMMA PaksContainers ==
    ASSUME Incomplete(selected.files) = {}
    PROVE  /\ LaneContainers = {c \in Containers(selected.files) : c.stem.paks}
           /\ LaneContainers = {Container(InPaks(selected.files), s) :
                                   s \in WithUtoc(InPaks(selected.files))}
  <1> DEFINE files == selected.files
             paks == InPaks(files)
  <1>1. \A s : s.paks => Group(paks, s) = Group(files, s)
    BY DEF Group, InPaks
  <1>2. \A s \in Stems(paks) : s.paks /\ s \in Stems(files)
    BY DEF Stems, InPaks
  <1>3. \A s \in Stems(files) : s.paks => s \in Stems(paks)
    BY DEF Stems, InPaks
  <1>4. \A s \in Stems(files) : PartsOf(Group(files, s)) = Parts
    BY DEF Incomplete, Whole
  <1>5. Whole(paks) = {s \in Stems(files) : s.paks} /\ Whole(files) = Stems(files)
    BY <1>1, <1>2, <1>3, <1>4 DEF Whole
  <1>6. \A s : s.paks => Container(paks, s) = Container(files, s)
    BY <1>1 DEF Container
  <1>7. WithUtoc(paks) = Whole(paks)
    <2>1. ASSUME NEW s \in Whole(paks)
          PROVE  s \in WithUtoc(paks)
      BY <2>1 DEF Whole, PartsOf, Group, Parts, WithUtoc
    <2>2. ASSUME NEW s \in WithUtoc(paks)
          PROVE  s \in Whole(paks)
      BY <1>2, <1>5, <2>2 DEF WithUtoc, Stems
    <2> QED
      BY <2>1, <2>2
  <1>8. \A s : Container(files, s).stem = s
    BY DEF Container
  <1> HIDE DEF files, paks
  <1>9. Containers(paks) = {c \in Containers(files) : c.stem.paks}
    BY <1>5, <1>6, <1>8 DEF Containers
  <1> QED
    BY <1>7, <1>9 DEF LaneContainers, Containers, files, paks

\* What the mixed probe leaves open is what neither the containers of the mod below
\* Content/Paks nor the stock game have.
LEMMA MixedUnresolved ==
    ASSUME Incomplete(selected.files) = {}, ~Repeats(game), MixedProbe.made,
           NEW p \in StoreOf(LaneContainers), NEW i \in p.imports
    PROVE  <<p.id, i>> \in MixedProbe.unresolved <=>
              /\ i \notin Ids(StoreOf(LaneContainers))
              /\ i \notin Ids(Container(game, StockMain).store)
  <1> DEFINE store == StoreOf(LaneContainers)
             stock == {f \in game : f.stem = StockMain /\ f.part = "utoc"}
             current == Stores[Utoc(stock)]
  <1>1. stock # {} /\ MixedProbe = MixedReport(store, current)
    BY PaksContainers DEF MixedProbe, Refusal
  <1>2. current = Container(game, StockMain).store
    BY <1>1, StockUtoc DEF Container
  <1> HIDE DEF store, stock, current
  <1>3. ~Conflicts(store) /\ MixedProbe.unresolved = Unresolved(Kept(store), current)
    BY <1>1 DEF MixedReport, Refusal
  <1>4. /\ Ids(Kept(store)) = Ids(store)
        /\ \E q \in Kept(store) : q.id = p.id /\ q.imports = p.imports
        /\ \A q \in Kept(store) : q.id = p.id => q.imports = p.imports
    BY <1>3, KeptPackages DEF store, Conflicts
  <1>5. \A j, k : <<j, k>> \in Unresolved(Kept(store), current) <=>
                  \E q \in Kept(store) : /\ j = q.id /\ k \in q.imports
                                       /\ k \notin Ids(Kept(store)) \cup Ids(current)
    BY DEF Unresolved
  <1> QED
    BY <1>2, <1>3, <1>4, <1>5 DEF store

\* What the mixed probe found of the mod is what the layers hold of it.
LEMMA ProbesAgreeHolds == LayersInv => ProbesAgree
  <1> DEFINE Elsewhere(q) == \/ q.layer \in {"connected", "installed", "game"}
                             \/ q.layer = "selected" /\ ~q.at[2].paks
  <1> SUFFICES ASSUME Resolving, Gathered, pc = "report", mixed.made,
                      NEW e \in edges, e.source.layer = "selected", e.source.at[2].paks
               PROVE  IF <<e.source.package.id, e.import>> \in mixed.unresolved
                      THEN \A q \in e.target : Elsewhere(q)
                      ELSE e.resolved
    BY DEF LayersInv, ProbesAgree
  <1> DEFINE own == StoreOf(LaneContainers)
             current == StoreOf({Container(game, StockMain)})
  <1>1. /\ Incomplete(selected.files) = {} /\ ~Repeats(game) /\ mixed = MixedProbe
        /\ packages = AllPackages
    BY DEF Gathered, Asking, Resolved, GameRefused
  <1>2. /\ \A p \in packages : p.layer = "selected" /\ p.at[2].paks => p.package \in own
        /\ \A q \in own : \E p \in packages : p.package = q
    <2> DEFINE provider == Provider(<<"selected">>, Containers(selected.files))
    <2>1. provider.layer = "selected" /\ provider.containers = Containers(selected.files)
      BY ProviderLayers
    <2>2. {p \in providers : p.layer = "selected"} = {provider}
      BY DEF Gathered, Resolved
    <2> HIDE DEF provider
    <2>3. provider \in providers /\ \A p \in providers : p.layer = "selected" => p = provider
      BY <2>1, <2>2
    <2>4. /\ \A p \in packages : p.layer = "selected" =>
                \E c \in Containers(selected.files) : p.at[2] = c.stem /\ p.package \in c.store
          /\ \A q \in StoreOf(Containers(selected.files)) : \E p \in packages : p.package = q
      BY <1>1, <2>1, <2>3, LayerPackages
    <2> QED
      BY <1>1, <2>4, PaksContainers DEF StoreOf
  <1>3. /\ \A p \in packages : p.layer = "stock" => p.package \in current
        /\ \A q \in current : \E p \in packages : p.package = q
    <2> DEFINE provider == Provider(<<"stock">>, {Container(game, StockMain)})
    <2>1. provider.layer = "stock" /\ provider.containers = {Container(game, StockMain)}
      BY ProviderLayers
    <2>2. {p \in providers : p.layer = "stock"} = {provider}
      BY DEF Gathered, Resolved
    <2> HIDE DEF provider
    <2>3. provider \in providers /\ \A p \in providers : p.layer = "stock" => p = provider
      BY <2>1, <2>2
    <2> QED
      BY <1>1, <2>1, <2>3, LayerPackages
  <1>4. current = Container(game, StockMain).store
    BY DEF StoreOf
  <1>5. PICK p \in visited : e \in EdgesOf(p)
    BY DEF Resolving
  <1>6. /\ e.source = p /\ e.import \in p.package.imports /\ p \in packages
        /\ e.resolved = (e.import \in Served(p))
        /\ e.target = Target(p, e.import)
    BY <1>5, EdgeFields DEF Resolving
  <1>7. p.package \in own
    BY <1>2, <1>6
  <1> HIDE DEF own, current
  <1>8. <<p.package.id, e.import>> \in mixed.unresolved <=>
           e.import \notin Ids(own) /\ e.import \notin Ids(current)
    BY <1>1, <1>4, <1>6, <1>7, MixedUnresolved DEF own
  <1>9. e.import \in Ids(own) \/ e.import \in Ids(current) => e.import \in Served(p)
    BY <1>2, <1>3, <1>6 DEF Ids, Served, Candidates
  <1>10. \A q \in e.target : q \in packages /\ q.package.id = e.import
    BY <1>6, BestIsServes DEF Target, Served, Candidates, Resolving
  <1>11. ASSUME e.import \notin Ids(own), e.import \notin Ids(current), NEW q \in e.target
         PROVE  Elsewhere(q)
    BY <1>2, <1>3, <1>10, <1>11 DEF Ids, Resolving, Layer
  <1> QED
    BY <1>6, <1>8, <1>9, <1>11

(***************************************************************************)
(* Where both probes answer, mixed.rs and dependency_layers.rs say the     *)
(* same of the containers below Content/Paks, for every mod and every game *)
(* folder: an import only the layered report serves is served by a layer   *)
(* or by a container elsewhere in the mod.                                 *)
(***************************************************************************)
THEOREM Agree == Spec => []ProbesAgree
  BY LayersInvariance, ProbesAgreeHolds, PTL

(***************************************************************************)
(* A container of the active ~mods folder is left out of the providers     *)
(* only if the selected mod has the same container.                        *)
(***************************************************************************)
THEOREM PassedOver == Spec => []OnlyCopiesPassedOver
  <1>1. LayersInv => OnlyCopiesPassedOver
    BY DEF LayersInv, Gathered, OnlyCopiesPassedOver, Resolved
  <1> QED
    BY <1>1, LayersInvariance, PTL

-----------------------------------------------------------------------------
(* The analysis. *)

\* A lane of plugins is found in the layout of plugins only.
FromLayout(r) ==
    /\ DOMAIN r = DOMAIN EmptyReport
    /\ r.lane # "none" => PluginOnlyLayout(r.inv)

\* What an analysis of a view may report to the one it serves.
Serviceable(nested) ==
    nested = <<>> \/
        /\ Len(nested) = 1
        /\ nested[1].adapter \in Adapter
        /\ nested[1].canUpdate /\ nested[1].syncs => request.tools

Requested(r) ==
    /\ DOMAIN r = {"mod", "game", "output", "active", "tools"}
    /\ r.game \in Game /\ r.output \in Output
    /\ r.active \in BOOLEAN /\ r.tools \in BOOLEAN

\* The output that was selected with the mod.
FirstOutput == IF outer = <<>> THEN request.output ELSE outer[1].request.output

Analysis ==
    /\ Requested(request)
    /\ FromLayout(report) /\ Serviceable(report.nested)
    /\ stage \in {"scan", "plan"} => report.nested = <<>> /\ report.lane = "none"
    /\ outer # <<>> =>
          /\ FromLayout(outer[1].report) /\ Requested(outer[1].request)
          /\ outer[1].request.tools = request.tools

\* What a verdict that allows an update has found, and what its worker has seen.
Worker ==
    /\ verdict.canUpdate => ~request.active /\ (verdict.syncs => request.tools)
    /\ stage \in {"update", "published"} => verdict.canUpdate
    /\ approved # <<>> \/ stage \in {"written", "update", "published"} => FirstOutput = "apart"
    /\ stage \in {"written", "update", "published"} => outer = <<>>

AnalysisInv == AnalysisTypeOK /\ AdapterIsUnique /\ Analysis /\ Worker

-----------------------------------------------------------------------------
(* The adapters. *)

\* What each adapter asks for.
LEMMA CanUpdateIs ==
    ASSUME NEW blockers
    PROVE
    /\ CanUpdate("additive-syncmap", blockers) <=>
          AdditiveShape /\ DependenciesClosed /\ blockers = {}
    /\ CanUpdate("mixed-composite", blockers) <=>
          MixedCompositeShape /\ DependenciesClosed /\ blockers = {}
    /\ CanUpdate("magicloader-worldspace", blockers) <=> MagicLoaderGates /\ blockers = {}
    /\ CanUpdate("plugin-only", blockers) <=> LaneProven /\ blockers = {}
    /\ CanUpdate("pak-only", blockers) <=> PakOnlyShape(Inv) /\ blockers = {}
    /\ CanUpdate("container-only", blockers) <=>
          /\ ContainerOnlyShape(Inv) /\ ~(report.mixed.ran /\ report.mixed.collides)
          /\ ~(report.probe # "none" /\ ReplacementShape(Inv) /\ blockers = {})
          /\ blockers \subseteq {"replacement-contract"}
    /\ \A a \in ReplacementProbes : CanUpdate(a, blockers) <=>
          ReplacementShape(Inv) /\ report.probe = a /\ blockers = {}
  BY DEF CanUpdate, ReplacementProbes

\* The layouts exclude one another, and so do the adapters.
LEMMA OneCapable ==
    ASSUME FromLayout(report), NEW blockers,
           NEW a \in Capable(blockers), NEW b \in Capable(blockers)
    PROVE  a = b
  <1> DEFINE class == report.inv.class
  <1>1. LaneProven => class = "plugin-only"
    BY DEF LaneProven, FromLayout, PluginOnlyLayout
  <1>2. /\ AdditiveShape => class = "additive-syncmap-iostore"
        /\ MixedCompositeShape => class = "mixed-mod"
        /\ MagicLoaderGates => class = "magicloader-syncmap-iostore"
        /\ ContainerOnlyShape(Inv) => class = "unreal-container-only" /\ ~PakOnlyShape(Inv)
        /\ ReplacementShape(Inv) => ContainerOnlyShape(Inv)
        /\ PakOnlyShape(Inv) => class = "unreal-container-only"
    BY DEF AdditiveShape, AdditiveLayout, MixedCompositeShape, MixedPluginPlane,
           MixedCompositeLayout, MagicLoaderGates, MagicLoaderLayout, ContainerOnlyShape,
           ReplacementShape, PakOnlyShape, Inv
  <1>3. ReplacementProbes \cap {"none"} = {}
    BY DEF ReplacementProbes
  <1> HIDE DEF class
  <1> DEFINE May(x) == CanUpdate(x, blockers)
  <1>4. a \in DirectAdapters /\ b \in DirectAdapters /\ May(a) /\ May(b)
    BY DEF Capable
  <1>5. /\ May("additive-syncmap") => class = "additive-syncmap-iostore"
        /\ May("mixed-composite") => class = "mixed-mod"
        /\ May("magicloader-worldspace") => class = "magicloader-syncmap-iostore"
        /\ May("plugin-only") => class = "plugin-only"
        /\ May("pak-only") => class = "unreal-container-only" /\ PakOnlyShape(Inv)
        /\ May("container-only") =>
              /\ class = "unreal-container-only" /\ ~PakOnlyShape(Inv)
              /\ ~(report.probe # "none" /\ ReplacementShape(Inv) /\ blockers = {})
        /\ \A x \in ReplacementProbes : May(x) =>
              /\ class = "unreal-container-only" /\ ~PakOnlyShape(Inv)
              /\ ReplacementShape(Inv) /\ report.probe = x /\ blockers = {} /\ x # "none"
    BY <1>1, <1>2, <1>3, CanUpdateIs
  <1> HIDE DEF May
  <1> QED
    BY <1>4, <1>5 DEF DirectAdapters

\* The order of preference has every direct adapter once.
LEMMA PreferenceIs ==
    /\ DOMAIN Preference = 1 .. 12
    /\ \A a \in DirectAdapters : \E i \in 1 .. 12 : Preference[i] = a
    /\ \A i, j \in 1 .. 12 : Preference[i] = Preference[j] => i = j
  <1>1. DOMAIN Preference = 1 .. 12
    BY DEF Preference
  <1>2. /\ Preference[1] = "additive-syncmap" /\ Preference[2] = "mixed-composite"
        /\ Preference[3] = "magicloader-worldspace" /\ Preference[4] = "armor"
        /\ Preference[5] = "mixed-armor" /\ Preference[6] = "texture"
        /\ Preference[7] = "static-mesh" /\ Preference[8] = "heterogeneous"
        /\ Preference[9] = "composite" /\ Preference[10] = "plugin-only"
        /\ Preference[11] = "pak-only" /\ Preference[12] = "container-only"
    BY DEF Preference
  <1>3. \A a \in DirectAdapters : \E i \in 1 .. 12 : Preference[i] = a
    BY <1>2 DEF DirectAdapters, ReplacementProbes
  <1>4. \A i, j \in 1 .. 12 : Preference[i] = Preference[j] => i = j
    BY <1>2
  <1> QED
    BY <1>1, <1>3, <1>4

\* A capable adapter that is the only one is selected.
LEMMA Selects ==
    ASSUME NEW a \in DirectAdapters, NEW logical
    PROVE  SelectedAdapter({a}, logical) = [wrap |-> FALSE, id |-> a]
  <1> DEFINE First(i) == /\ Preference[i] \in {a}
                         /\ \A j \in 1 .. i - 1 : Preference[j] \notin {a}
             first == CHOOSE i \in DOMAIN Preference : First(i)
  <1>1. PICK i \in 1 .. 12 : Preference[i] = a
    BY PreferenceIs
  <1>2. i \in DOMAIN Preference /\ First(i)
    BY <1>1, PreferenceIs
  <1>3. first \in DOMAIN Preference /\ First(first)
    BY <1>2
  <1>4. SelectedAdapter({a}, logical) = [wrap |-> FALSE, id |-> Preference[first]]
    BY DEF SelectedAdapter
  <1> HIDE DEF first
  <1> QED
    BY <1>3, <1>4

\* The checks no adapter passes over.
LEMMA BlockersMean ==
    /\ request.active => "source-is-not-active-game-mods" \in AdapterBlockers
    /\ RequiresRuntime /\ ~request.tools => "runtime-connection" \in AdapterBlockers
  <1>1. request.active => "source-is-not-active-game-mods" \in InputChecks
    BY DEF InputChecks
  <1>2. RequiresRuntime /\ ~request.tools => "runtime-connection" \in SetupChecks
    BY DEF SetupChecks
  <1> QED
    BY <1>1, <1>2 DEF AdapterBlockers

\* What a capable adapter has passed.
LEMMA CapableMeans ==
    ASSUME NEW a \in Capable(AdapterBlockers), Requested(request)
    PROVE  /\ ~request.active
           /\ RequiresRuntime => request.tools \/ a = "container-only"
           /\ ~NoAdapterWarning(Capable(AdapterBlockers))
           /\ a \in {"additive-syncmap", "mixed-composite", "magicloader-worldspace"} =>
                 RequiresRuntime
           /\ a = "plugin-only" /\ report.lane = "proven-with-syncmap" => RequiresRuntime
  <1> DEFINE blockers == AdapterBlockers
  <1>1. CanUpdate(a, blockers) /\ a \in DirectAdapters
    BY DEF Capable
  <1>2. blockers = {} \/ (a = "container-only" /\ blockers \subseteq {"replacement-contract"})
    BY <1>1, CanUpdateIs DEF DirectAdapters
  <1>3. ~request.active /\ (RequiresRuntime => request.tools \/ a = "container-only")
    BY <1>2, BlockersMean DEF Requested
  <1> HIDE DEF blockers
  <1>4. /\ a = "additive-syncmap" => AdditiveShape
        /\ a = "mixed-composite" => MixedCompositeShape /\ MixedCompositeLayout(Inv)
        /\ a = "magicloader-worldspace" => MagicLoaderGates
        /\ a = "plugin-only" => LaneProven
        /\ a = "pak-only" => PakOnlyShape(Inv)
        /\ a \in ReplacementProbes => report.probe # "none"
    BY <1>1, CanUpdateIs DEF MixedCompositeShape, MixedPluginPlane, ReplacementProbes
  <1>5. ~NoAdapterWarning(Capable(AdapterBlockers))
    BY <1>1, <1>4 DEF NoAdapterWarning, DirectAdapters
  <1> QED
    BY <1>3, <1>4, <1>5 DEF RequiresRuntime

\* What is decided is decided for one adapter, which has what it needs.
LEMMA Decides ==
    ASSUME Requested(request), FromLayout(report), Serviceable(report.nested), Decide
    PROVE  /\ verdict'.adapter \in Adapter /\ verdict'.capable \subseteq DirectAdapters
           /\ AdapterIsUnique'
           /\ verdict'.canUpdate => ~request.active /\ (verdict'.syncs => request.tools)
  <1> DEFINE blockers == AdapterBlockers
             capable == Capable(blockers)
             logical == LogicalCanUpdate(blockers)
             adapter == SelectedAdapter(capable, logical)
  <1>1. /\ verdict'.adapter = adapter /\ verdict'.capable = capable
        /\ verdict'.canUpdate = (capable # {} \/ logical)
        /\ verdict'.warned = NoAdapterWarning(capable)
        /\ verdict'.syncs = Syncs(adapter)
    <2> DEFINE found == DispositionBlockers(blockers, logical)
               code == IF capable # {} \/ logical THEN "guarded-update-candidate" ELSE DispositionCode
    <2>1. verdict' = [adapter |-> adapter, canUpdate |-> capable # {} \/ logical,
                      blockers |-> found, failed |-> blockers, capable |-> capable,
                      warned |-> NoAdapterWarning(capable), code |-> code,
                      syncs |-> Syncs(adapter), plan |-> report.plan]
      BY Zenon DEF Decide
    <2> HIDE DEF blockers, capable, logical, adapter, found, code
    <2> QED
      BY <2>1
  <1>2. capable \subseteq DirectAdapters
    BY DEF Capable
  <1>3. CASE capable # {}
    <2>1. PICK a \in DirectAdapters : capable = {a}
      BY <1>2, <1>3, OneCapable
    <2>2. adapter = [wrap |-> FALSE, id |-> a]
      BY <2>1, Selects
    <2>3. adapter \in Adapter /\ adapter # NoAdapter /\ ~adapter.wrap /\ adapter.id = a
      BY <2>2 DEF Adapter, NoAdapter, DirectAdapters, ReplacementProbes
    <2>4. Cardinality(capable) <= 1
      <3>1. Cardinality({a}) = 1
        BY FS_Singleton
      <3> HIDE DEF capable
      <3> QED
        BY <2>1, <3>1
    <2>5. a \in Capable(AdapterBlockers)
      BY <2>1
    <2>6. /\ ~request.active /\ ~NoAdapterWarning(capable)
          /\ Syncs(adapter) => request.tools
      BY <2>3, <2>5, CapableMeans DEF Syncs
    <2> HIDE DEF capable, adapter, logical
    <2>7. /\ verdict'.canUpdate /\ ~verdict'.warned
          /\ verdict'.syncs => request.tools
      BY <1>1, <1>3, <2>6
    <2> QED
      BY <1>1, <1>2, <1>3, <2>1, <2>3, <2>4, <2>6, <2>7 DEF AdapterIsUnique
  <1>4. CASE capable = {}
    <2>1. Cardinality(capable) <= 1
      BY <1>4, FS_EmptySet
    <2>2. CASE logical
      <3>1. NestedMatched /\ ~NoAdapterWarning(capable) /\ blockers = {}
        BY <2>2 DEF LogicalCanUpdate, NoAdapterWarning
      <3>2. adapter = [wrap |-> TRUE, id |-> NestedAdapter]
        BY <1>4, <2>2 DEF SelectedAdapter
      <3>3. NestedAdapter = report.nested[1].adapter.id /\ report.nested[1].adapter \in Adapter
        BY <3>1 DEF NestedMatched, NestedAdapter, Serviceable
      <3>4. adapter \in Adapter /\ adapter # NoAdapter /\ adapter.wrap
        BY <3>2, <3>3 DEF Adapter, NoAdapter
      <3>5. ~request.active
        BY <3>1, BlockersMean DEF Requested
      <3>6. Syncs(adapter) => request.tools
        BY <3>1, <3>4 DEF Syncs, Serviceable, NestedMatched
      <3> HIDE DEF capable, adapter, logical
      <3>7. /\ verdict'.canUpdate /\ ~verdict'.warned
            /\ verdict'.syncs => request.tools
        BY <1>1, <2>2, <3>1, <3>6
      <3> QED
        BY <1>1, <1>2, <2>1, <3>4, <3>5, <3>7 DEF AdapterIsUnique
    <2>3. CASE ~logical
      <3>1. adapter = NoAdapter
        BY <1>4, <2>3 DEF SelectedAdapter
      <3>2. adapter \in Adapter
        BY <3>1 DEF Adapter, NoAdapter
      <3> HIDE DEF capable, adapter, logical
      <3>3. ~verdict'.canUpdate
        BY <1>1, <1>4, <2>3
      <3> QED
        BY <1>1, <1>2, <2>1, <3>1, <3>2, <3>3 DEF AdapterIsUnique
    <2> QED
      BY <2>2, <2>3
  <1> QED
    BY <1>3, <1>4

-----------------------------------------------------------------------------
(* The steps. *)

Stages == {"plan", "plugins", "packages", "layers", "classify", "decide"}

ReadingSteps == ScanFails \/ Scan \/ NoPlan \/ PlanFails
InspectingSteps == InspectPlugins \/ ProbePackages \/ ProbeLayers \/ Classify

\* Until it decides, an analysis adds to its report.
LEMMA StagesKeep ==
    ASSUME AnalysisTypeOK, Analysis, ReadingSteps \/ InspectingSteps
    PROVE  /\ UNCHANGED <<request, outer, verdict, approved>>
           /\ FromLayout(report') /\ report'.nested = report.nested
           /\ stage \notin {"decided", "written"} \cup Ends /\ stage' \in Stages
           /\ stage' = "plan" => report'.lane = "none" /\ report'.nested = <<>>
  <1>1. DOMAIN report = DOMAIN EmptyReport /\ FromLayout(report)
    BY DEF Analysis, FromLayout
  <1>2. DOMAIN EmptyReport =
           {"inv", "plan", "nested", "plugins", "policy", "contract", "worldspace",
            "bindings", "keys", "direct", "mixed", "edges", "layered", "lane", "probe",
            "composite"}
    BY DEF EmptyReport
  <1>3. CASE ReadingSteps
    BY <1>1, <1>2, <1>3
       DEF ReadingSteps, ScanFails, Scan, NoPlan, PlanFails, Then, Stages, Ends, Analysis, FromLayout
  <1>4. CASE InspectPlugins
    BY <1>1, <1>2, <1>4 DEF InspectPlugins, Then, Stages, Ends, FromLayout
  <1>5. CASE ProbePackages
    BY <1>1, <1>2, <1>5 DEF ProbePackages, Then, Stages, Ends, FromLayout
  <1>6. CASE ProbeLayers
    BY <1>1, <1>2, <1>6 DEF ProbeLayers, Then, Stages, Ends, FromLayout
  <1>7. CASE Classify
    <2>1. PICK class \in PluginOnlyFindings, probe \in ProbeFindings, composite \in CompositeFindings :
             report' = [report EXCEPT !.lane = class, !.probe = probe, !.composite = composite]
      BY <1>7 DEF Classify
    <2>2. class # "none" => PluginOnlyLayout(report.inv)
      BY DEF PluginOnlyFindings, Inv
    <2> QED
      BY <1>1, <1>2, <1>7, <2>1, <2>2 DEF Classify, Then, Stages, Ends, FromLayout
  <1> QED
    BY <1>3, <1>4, <1>5, <1>6, <1>7 DEF InspectingSteps

\* An analysis begins with an empty report.
LEMMA NothingFound == FromLayout(EmptyReport) /\ EmptyReport.nested = <<>> /\ EmptyReport.lane = "none"
  BY DEF FromLayout, EmptyReport

\* The invariant holds of what was selected.
LEMMA AnalysisStarts == AnalysisInit => AnalysisInv
  <1> SUFFICES ASSUME AnalysisInit
               PROVE  AnalysisInv
    OBVIOUS
  <1>1. Requested(request)
    BY SetupAssumption DEF AnalysisInit, Request, Setup, Requested
  <1>2. verdict.adapter \in Adapter /\ verdict.capable = {} /\ ~verdict.canUpdate
    BY DEF AnalysisInit, NoVerdict, NoAdapter, Adapter
  <1> QED
    BY <1>1, <1>2, NothingFound
       DEF AnalysisInit, AnalysisInv, AnalysisTypeOK, AdapterIsUnique, Analysis, Worker, Serviceable, Requested, Ends

\* Every step of the analysis and of its worker keeps the invariant.
LEMMA AnalysisSteps == AnalysisInv /\ [AnalysisNext]_analysisVars => AnalysisInv'
  <1> SUFFICES ASSUME AnalysisTypeOK, AdapterIsUnique, Analysis, Worker, [AnalysisNext]_analysisVars
               PROVE  AnalysisInv'
    BY DEF AnalysisInv
  <1> USE DEF AnalysisInv, Serviceable, FirstOutput
  <1>1. CASE ReadingSteps \/ InspectingSteps
    <2>1. AnalysisTypeOK'
      BY <1>1, StagesKeep DEF AnalysisTypeOK, Stages
    <2>2. AdapterIsUnique'
      BY <1>1, StagesKeep DEF AdapterIsUnique, Stages
    <2>3. Analysis'
      BY <1>1, StagesKeep DEF Analysis, Stages
    <2>4. Worker'
      BY <1>1, StagesKeep DEF Worker, Stages
    <2> QED
      BY <2>1, <2>2, <2>3, <2>4
  <1>2. CASE Plan
    <2>1. PICK plan \in {"free", "forced", "open"}, view \in Views :
             /\ outer' = <<[request |-> request, report |-> [report EXCEPT !.plan = plan]]>>
             /\ request' = [request EXCEPT !.mod = view, !.active = FALSE,
                               !.output = IF @ = "in-source" THEN "apart" ELSE @]
      BY <1>2 DEF Plan
    <2>2. /\ stage = "plan" /\ outer = <<>> /\ report' = EmptyReport /\ stage' = "scan"
          /\ UNCHANGED <<verdict, approved>>
      BY <1>2 DEF Plan, WantsPlan
    <2>3. /\ Requested(request') /\ request'.tools = request.tools /\ request'.active = FALSE
      BY <2>1 DEF Analysis, Requested, Output
    <2>4. /\ outer' # <<>> /\ Len(outer') = 1 /\ outer'[1].request = request
          /\ FromLayout(outer'[1].report) /\ outer'[1].report.nested = <<>>
      BY <2>1, <2>2 DEF Analysis, FromLayout, EmptyReport
    <2>5. AnalysisTypeOK'
      BY <2>2, <2>3, <2>4 DEF AnalysisTypeOK, Requested
    <2>6. AdapterIsUnique'
      BY <2>2 DEF AdapterIsUnique
    <2>7. Analysis'
      BY <2>2, <2>3, <2>4, NothingFound DEF Analysis
    <2>8. Worker'
      BY <2>2, <2>3, <2>4 DEF Worker
    <2> QED
      BY <2>5, <2>6, <2>7, <2>8
  <1>3. CASE Decide
    <2>1. /\ stage = "decide" /\ stage' = "decided" /\ report' = EmptyReport
          /\ UNCHANGED <<request, outer, approved>>
      BY <1>3 DEF Decide
    <2>2. /\ verdict'.adapter \in Adapter /\ verdict'.capable \subseteq DirectAdapters
          /\ AdapterIsUnique'
          /\ verdict'.canUpdate => ~request.active /\ (verdict'.syncs => request.tools)
      BY <1>3, Decides DEF Analysis
    <2>3. AnalysisTypeOK'
      BY <2>1, <2>2 DEF AnalysisTypeOK
    <2>4. Analysis'
      BY <2>1, NothingFound DEF Analysis
    <2>5. Worker'
      BY <2>1, <2>2 DEF Worker
    <2> QED
      BY <2>2, <2>3, <2>4, <2>5
  <1>4. CASE Return
    <2> DEFINE nested == <<[adapter |-> verdict.adapter, canUpdate |-> verdict.canUpdate,
                            blockers |-> verdict.blockers, syncs |-> verdict.syncs]>>
    <2>1. /\ stage = "decided" /\ outer # <<>> /\ outer' = <<>> /\ verdict' = NoVerdict
          /\ report' = [outer[1].report EXCEPT !.nested = nested]
          /\ request' = outer[1].request /\ stage' = "plugins" /\ UNCHANGED approved
      BY <1>4 DEF Return
    <2>2. /\ nested # <<>> /\ Len(nested) = 1 /\ nested[1].adapter = verdict.adapter
          /\ nested[1].canUpdate = verdict.canUpdate /\ nested[1].syncs = verdict.syncs
      OBVIOUS
    <2> HIDE DEF nested
    <2>3. FromLayout(report') /\ report'.nested = nested
      BY <2>1 DEF Analysis, FromLayout, EmptyReport
    <2>4. Serviceable(report.nested)'
      BY <2>1, <2>2, <2>3 DEF Worker, Analysis, AnalysisTypeOK
    <2>5. verdict'.adapter \in Adapter /\ verdict'.capable = {} /\ ~verdict'.canUpdate
      BY <2>1 DEF NoVerdict, NoAdapter, Adapter
    <2>6. AnalysisTypeOK'
      BY <2>1, <2>5 DEF AnalysisTypeOK, Analysis, Requested
    <2>7. AdapterIsUnique'
      BY <2>1 DEF AdapterIsUnique
    <2>8. Analysis'
      BY <2>1, <2>3, <2>4 DEF Analysis
    <2>9. Worker'
      BY <2>1, <2>5 DEF Worker
    <2> QED
      BY <2>6, <2>7, <2>8, <2>9
  <1>5. CASE WriteReport
    BY <1>5 DEF WriteReport, Isolated, AnalysisTypeOK, AdapterIsUnique, Analysis, Worker, Ends
  <1>6. CASE ReportOnly \/ Update
    BY <1>6 DEF ReportOnly, Update, AnalysisTypeOK, AdapterIsUnique, Analysis, Worker, Ends
  <1>7. CASE Reanalyse
    <2>1. /\ stage = "update" /\ verdict.adapter.wrap /\ verdict' = NoVerdict
          /\ report' = EmptyReport /\ stage' = "scan" /\ UNCHANGED <<request, outer>>
          /\ approved' = <<[adapter |-> verdict.adapter, plan |-> verdict.plan,
                            blockers |-> verdict.blockers]>>
      BY <1>7 DEF Reanalyse
    <2>2. approved' # <<>> /\ Len(approved') = 1 /\ approved'[1].adapter = verdict.adapter
      BY <2>1
    <2>3. verdict'.adapter \in Adapter /\ verdict'.capable = {} /\ ~verdict'.canUpdate
      BY <2>1 DEF NoVerdict, NoAdapter, Adapter
    <2>4. AnalysisTypeOK'
      BY <2>1, <2>2, <2>3 DEF AnalysisTypeOK
    <2>5. AdapterIsUnique'
      BY <2>1 DEF AdapterIsUnique
    <2>6. Analysis'
      BY <2>1, NothingFound DEF Analysis
    <2>7. Worker'
      BY <2>1, <2>2, <2>3 DEF Worker
    <2> QED
      BY <2>4, <2>5, <2>6, <2>7
  <1>8. CASE Publish
    BY <1>8 DEF Publish, AnalysisTypeOK, AdapterIsUnique, Analysis, Worker, Ends
  <1>9. CASE UNCHANGED analysisVars
    BY <1>9 DEF analysisVars, AnalysisTypeOK, AdapterIsUnique, Analysis, Worker
  <1> QED
    BY <1>1, <1>2, <1>3, <1>4, <1>5, <1>6, <1>7, <1>8, <1>9
       DEF AnalysisNext, Analyse, ReadingSteps, InspectingSteps

(***************************************************************************)
(* The invariant of analyze_internal and of the worker that acts on its    *)
(* report, for every mod, every logical view and every setup.              *)
(***************************************************************************)
THEOREM AnalysisInvariance == AnalysisSpec => []AnalysisInv
  BY AnalysisStarts, AnalysisSteps, PTL DEF AnalysisSpec

(***************************************************************************)
(* The types of the analysis: one analysis nested at most, and an approval *)
(* for a wrapped adapter only.                                             *)
(***************************************************************************)
THEOREM AnalysisTypes == AnalysisSpec => []AnalysisTypeOK
  BY AnalysisInvariance, PTL DEF AnalysisInv

(***************************************************************************)
(* Whatever a mod holds and whatever the probes find, at most one direct   *)
(* adapter is capable, an update is allowed exactly when an adapter is     *)
(* selected, and no report both allows an update and says none will be.    *)
(***************************************************************************)
THEOREM Unique == AnalysisSpec => []AdapterIsUnique
  BY AnalysisInvariance, PTL DEF AnalysisInv

(***************************************************************************)
(* The worker updates only into an output folder apart from mod and game,  *)
(* and never from the active ~mods folder, for every selection.            *)
(***************************************************************************)
THEOREM Apart == AnalysisSpec => []OutputApart
  <1>1. AnalysisInv => OutputApart
    BY DEF AnalysisInv, Worker, FirstOutput, OutputApart
  <1> QED
    BY <1>1, AnalysisInvariance, PTL

(***************************************************************************)
(* Whatever is selected, a mod whose SyncMap the injector must serve, also *)
(* one nested in a wrapper layout, is updated only with the runtime tools. *)
(***************************************************************************)
THEOREM HasRuntime == AnalysisSpec => []UpdateHasRuntime
  <1>1. AnalysisInv => UpdateHasRuntime
    BY DEF AnalysisInv, Worker, UpdateHasRuntime
  <1> QED
    BY <1>1, AnalysisInvariance, PTL

(***************************************************************************)
(* For every mod and every finding: a dependency edge without alias and    *)
(* name leaves no adapter with a plugin plane capable, unless the composite *)
(* probe proved a repair.                                                  *)
(***************************************************************************)
THEOREM NamelessStops == AnalysisSpec => []NamelessEdgeStops
  <1>1. NamelessEdgeStops
    <2> SUFFICES ASSUME "plain" \in report.mixed.unresolved, ~CompositeProbe,
                        NEW a \in Capable(AdapterBlockers)
                 PROVE  a \notin {"additive-syncmap", "mixed-composite", "magicloader-worldspace"}
      BY DEF NamelessEdgeStops
    <2>1. ~ClosureProven
      BY DEF ClosureProven, Accepted, Recovered, Disclosed, LeavesEdges
    <2> QED
      BY <2>1, CanUpdateIs DEF Capable, DependenciesClosed, MagicLoaderGates
  <1> QED
    BY <1>1, PTL
=============================================================================
