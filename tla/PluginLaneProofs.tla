-------------------------- MODULE PluginLaneProofs --------------------------
(* Proofs about PluginLane: FormIDs keep the object they name when a record  *)
(* passes from the file of a master into the plugin, and so do the merged    *)
(* inventories and the disabled references that are published.               *)
EXTENDS PluginLane, TLAPS, SequenceTheorems, WellFoundedInduction

----------------------------------------------------------------------------
(* FormIDs.                                                                  *)

(* Where the master lists agree up to a master, a number that master's own   *)
(* list can name means the same in the plugin as it stands                   *)
(* (resolve_installed_master_records copies rows without translating them).  *)
THEOREM PrefixKeepsIdentity ==
  ASSUME NEW owner, NEW ms \in Seq(STRING), NEW pms \in Seq(STRING),
         NEW k \in DOMAIN ms, NEW f \in FormId,
         ExactPrefix(pms, ms, k), Mappable(pms, f)
  PROVE  Canonical(owner, ms, f) = Canonical(ms[k], pms, f)
<1>1. Slot(f) \in Nat /\ Len(pms) = k - 1 /\ \A j \in 1 .. k - 1 : pms[j] = ms[j]
  BY DEF FormId, Slot, ExactPrefix
<1>2. Slot(f) < Len(ms)
  BY <1>1 DEF Mappable
<1>3. CASE Slot(f) < k - 1
  BY <1>1, <1>2, <1>3 DEF Canonical, Origin
<1>4. CASE Slot(f) = k - 1
  BY <1>1, <1>2, <1>4 DEF Canonical, Origin
<1> QED
  BY <1>1, <1>3, <1>4 DEF Mappable

(* A declared master has a position, and it is that master's.                *)
LEMMA PositionIs ==
  ASSUME NEW ms, NEW name, NEW i \in DOMAIN ms, ms[i] = name
  PROVE  Position(ms, name) \in DOMAIN ms /\ ms[Position(ms, name)] = name
  BY DEF Position

(* The translation of remap_embedded_form_id keeps the object: a number of a *)
(* master's file whose masters are all declared by the plugin names in the   *)
(* plugin what it names in that file.                                        *)
THEOREM RemapKeepsIdentity ==
  ASSUME NEW owner, NEW ms \in Seq(STRING), NEW pms \in Seq(STRING),
         NEW k \in DOMAIN ms, NEW f \in FormId,
         \A i \in DOMAIN pms : \E j \in DOMAIN ms : ms[j] = pms[i],
         Mappable(pms, f)
  PROVE  Canonical(owner, ms, Remapped(pms, ms, k, f)) = Canonical(ms[k], pms, f)
<1> DEFINE g == Remapped(pms, ms, k, f)
<1>1. Slot(f) \in 0 .. Len(pms)
  BY DEF FormId, Slot, Mappable
<1>2. Local(g) = Local(f) /\ Slot(g) = SlotMap(pms, ms, k)[Slot(f)]
  BY DEF Remapped, Local, Slot
<1>3. CASE Slot(f) = Len(pms)
  <2>1. Slot(g) = k - 1
    BY <1>1, <1>2, <1>3 DEF SlotMap
  <2> QED
    BY <2>1, <1>2, <1>3 DEF Canonical, Origin
<1>4. CASE Slot(f) < Len(pms)
  <2> DEFINE s == Slot(f) + 1
             q == Position(ms, pms[s])
  <2>1. s \in DOMAIN pms
    BY <1>1, <1>4
  <2>2. q \in DOMAIN ms /\ ms[q] = pms[s]
    BY <2>1, PositionIs
  <2>3. Slot(g) = q - 1
    BY <1>1, <1>2, <1>4 DEF SlotMap
  <2> HIDE DEF q
  <2>4. Origin(owner, ms, g) = ms[q]
    BY <2>2, <2>3 DEF Origin
  <2>5. Origin(ms[k], pms, f) = pms[s]
    BY <1>4 DEF Origin
  <2> QED
    BY <2>2, <2>4, <2>5, <1>2 DEF Canonical
<1> QED
  BY <1>1, <1>3, <1>4

----------------------------------------------------------------------------
(* The inductive invariant.  A unit keeps the game it was evaluated against, *)
(* which may be older than the game now, and its plan; a candidate is the    *)
(* source with the plan of its unit in it.                                   *)

IsSequence(s) == \E S : s \in Seq(S)
Plugins == world.plugins
Late == {"recheck", "bind", "published"}

Counted ==
  /\ pc \in {"policy", "probe"} => units = <<>> /\ candidate = <<>> /\ at = 1
  /\ pc = "evaluate" => Len(units) = at - 1 /\ candidate = <<>>
  /\ pc = "check" => Len(units) = Len(Plugins) /\ candidate = <<>> /\ at = 1
  /\ pc = "rewrite" => Len(units) = Len(Plugins) /\ Len(candidate) = at - 1
  /\ pc \in Late => Len(units) = Len(Plugins) /\ Len(candidate) = Len(Plugins)

Planned ==
  \A i \in DOMAIN units :
    /\ units[i].seen \in {world.game, world.patched}
    /\ Proven(Plugins[i], units[i].seen)
    /\ units[i].plan = PlanOf(Plugins[i], units[i].seen)

Made ==
  \A i \in DOMAIN candidate : candidate[i] = Rewritten(Plugins[i].recs, units[i].plan)

IInv ==
  /\ world \in Worlds /\ lane \in Lanes /\ pc \in Steps
  /\ game \in {world.game, world.patched}
  /\ IsSequence(units) /\ IsSequence(candidate)
  /\ at \in Nat \ {0} /\ (Plugins # <<>> => at <= Len(Plugins))
  /\ pc \notin {"policy", "refused"} => PolicyAdmits(world)
  /\ Len(units) <= Len(Plugins) /\ Len(candidate) <= Len(units)
  /\ Counted /\ Planned /\ Made

LEMMA PluginsAreSequences ==
  ASSUME NEW w \in Worlds
  PROVE  /\ Len(w.plugins) \in Nat /\ DOMAIN w.plugins = 1 .. Len(w.plugins)
         /\ w.plugins # <<>> <=> Len(w.plugins) > 0
         /\ \A i \in DOMAIN w.plugins : IsFile(w.plugins[i])
<1>1. w.plugins \in Seq({w.plugins[i] : i \in DOMAIN w.plugins})
  BY WorldsAssumption
<1>2. Len(w.plugins) \in Nat /\ DOMAIN w.plugins = 1 .. Len(w.plugins)
  BY <1>1
<1>3. w.plugins # <<>> <=> Len(w.plugins) > 0
  BY <1>1, <1>2, EmptySeq
<1>4. \A i \in DOMAIN w.plugins : IsFile(w.plugins[i])
  BY WorldsAssumption
<1> QED
  BY <1>2, <1>3, <1>4

(* Appending to a sequence keeps its elements and adds one.                  *)
LEMMA Appended ==
  ASSUME NEW s, IsSequence(s), NEW e
  PROVE  LET t == Append(s, e)
         IN  /\ IsSequence(t)
             /\ Len(s) \in Nat /\ Len(t) = Len(s) + 1
             /\ DOMAIN s = 1 .. Len(s) /\ DOMAIN t = 1 .. Len(s) + 1
             /\ \A i \in 1 .. Len(s) : t[i] = s[i]
             /\ t[Len(s) + 1] = e
<1>1. PICK S : s \in Seq(S)
  BY DEF IsSequence
<1>2. s \in Seq(S \union {e}) /\ Append(s, e) \in Seq(S \union {e})
  BY <1>1
<1>3. IsSequence(Append(s, e))
  BY <1>2 DEF IsSequence
<1> QED
  BY <1>1, <1>2, <1>3

LEMMA InitHolds == Init => IInv
<1> SUFFICES ASSUME Init PROVE IInv
  OBVIOUS
<1> USE DEF Init
<1>1. world \in Worlds /\ lane \in Lanes /\ pc \in Steps /\ game \in {world.game, world.patched}
  BY DEF Steps
<1>2. at = 1 /\ units = <<>> /\ candidate = <<>> /\ Len(units) = 0 /\ Len(candidate) = 0
  OBVIOUS
<1>3. Plugins # <<>> => 1 <= Len(Plugins)
  BY <1>1, PluginsAreSequences DEF Plugins
<1>4. Len(Plugins) \in Nat
  BY <1>1, PluginsAreSequences DEF Plugins
<1>5. Counted /\ Planned /\ Made
  BY <1>2 DEF Counted, Planned, Made, Late
<1>6. IsSequence(units) /\ IsSequence(candidate)
  BY <1>2 DEF IsSequence
<1> QED
  BY <1>1, <1>2, <1>3, <1>4, <1>5, <1>6 DEF IInv

(* A step that leaves units and candidate alone and ends, or goes on from    *)
(* the first plugin, keeps the invariant.                                    *)
LEMMA Kept ==
  ASSUME IInv, UNCHANGED <<world, lane, units, candidate>>,
         game' \in {world.game, world.patched}, pc' \in Steps,
         at' \in Nat \ {0}, Plugins # <<>> => at' <= Len(Plugins),
         pc' \notin {"policy", "refused"} => PolicyAdmits(world)', Counted'
  PROVE  IInv'
<1>1. Planned' /\ Made'
  BY DEF IInv, Planned, Made, Plugins, Proven, PlanOf, SemanticPath
<1> QED
  BY <1>1 DEF IInv, Plugins

LEMMA StepHolds == IInv /\ [Next]_vars => IInv'
<1> SUFFICES ASSUME IInv, [Next]_vars PROVE IInv'
  OBVIOUS
<1>0. /\ Len(Plugins) \in Nat /\ DOMAIN Plugins = 1 .. Len(Plugins)
      /\ Plugins # <<>> <=> Len(Plugins) > 0
  BY PluginsAreSequences DEF IInv, Plugins
<1>a. UNCHANGED <<world, lane>> => (PolicyAdmits(world) => PolicyAdmits(world)')
  BY DEF PolicyAdmits, FilesCounted, Sound, PluginOnly
<1>b. pc \notin {"policy", "refused"} => Len(Plugins) > 0 /\ at \in DOMAIN Plugins
  BY <1>0 DEF IInv, PolicyAdmits, Plugins
<1>1. CASE Policy
  <2>1. pc' # "refused" => PolicyAdmits(world)'
    BY <1>1 DEF Policy, PolicyAdmits, FilesCounted, Sound, PluginOnly
  <2>2. Counted'
    BY <1>1 DEF Policy, IInv, Counted, Late, Plugins
  <2> QED
    BY <1>1, <2>1, <2>2, Kept DEF Policy, IInv, Steps
<1>2. CASE Probe
  <2>1. Counted'
    BY <1>2 DEF Probe, IInv, Counted, Late, Plugins
  <2> QED
    BY <1>2, <1>a, <2>1, Kept DEF Probe, IInv, Steps
<1>3. CASE Evaluate
  <2>1. CASE pc' = "refused" /\ UNCHANGED <<at, units>>
    <3>1. Counted'
      BY <2>1 DEF Counted, Late
    <3> QED
      BY <1>3, <2>1, <3>1, Kept DEF Evaluate, IInv, Steps
  <2>2. CASE /\ Proven(Plugin, game)
             /\ units' = Append(units, [seen |-> game, plan |-> PlanOf(Plugin, game)])
             /\ IF More THEN at' = at + 1 /\ pc' = "evaluate" ELSE at' = 1 /\ pc' = "check"
    <3> DEFINE u == [seen |-> game, plan |-> PlanOf(Plugin, game)]
    <3>1. /\ pc = "evaluate" /\ UNCHANGED <<world, lane, game, candidate>>
          /\ Len(units) = at - 1 /\ candidate = <<>> /\ Len(candidate) = 0
      BY <1>3 DEF Evaluate, IInv, Counted
    <3>2. /\ IsSequence(units') /\ Len(units') = at
          /\ DOMAIN units = 1 .. at - 1 /\ DOMAIN units' = 1 .. at
          /\ \A i \in 1 .. at - 1 : units'[i] = units[i]
          /\ units'[at] = u
      BY <2>2, <3>1, Appended DEF IInv
    <3>3. at' \in Nat \ {0} /\ at' <= Len(Plugins) /\ at <= Len(Plugins)
      BY <1>0, <1>b, <2>2, <3>1 DEF IInv, More, Plugins
    <3>4. Counted'
      <4>1. pc' = "evaluate" => at' = at + 1
        BY <2>2
      <4>2. pc' = "check" => at = Len(Plugins) /\ at' = 1
        BY <1>0, <2>2, <3>3 DEF More, Plugins, IInv
      <4>3. pc' \in {"evaluate", "check"}
        BY <2>2
      <4> QED
        BY <3>1, <3>2, <4>1, <4>2, <4>3 DEF Counted, Late, Plugins, IInv
    <3>5. Planned'
      <4> SUFFICES ASSUME NEW i \in 1 .. at
                   PROVE  /\ units'[i].seen \in {world.game, world.patched}
                          /\ Proven(Plugins[i], units[i].seen)'
                          /\ units'[i].plan = PlanOf(Plugins[i], units[i].seen)'
        BY <3>1, <3>2 DEF Planned
      <4>1. CASE i < at
        <5>1. units'[i] = units[i] /\ i \in DOMAIN units
          BY <4>1, <3>2 DEF IInv
        <5> QED
          BY <5>1, <3>1 DEF IInv, Planned, Plugins, Proven, PlanOf, SemanticPath
      <4>2. CASE i = at
        <5>1. units'[i].seen = game /\ units'[i].plan = PlanOf(Plugin, game) /\ Plugin = Plugins[i]
          BY <4>2, <3>2 DEF Plugin, Plugins
        <5> QED
          BY <5>1, <2>2, <3>1 DEF IInv, Plugins, Proven, PlanOf, SemanticPath
      <4> QED
        BY <4>1, <4>2 DEF IInv
    <3>6. Made'
      BY <3>1 DEF Made
    <3>7. PolicyAdmits(world)'
      BY <3>1, <1>a DEF IInv
    <3> QED
      BY <2>2, <3>1, <3>2, <3>3, <3>4, <3>5, <3>6, <3>7, <1>0 DEF IInv, Steps, Plugins
  <2> QED
    BY <1>3, <2>1, <2>2 DEF Evaluate
<1>4. CASE CheckSet
  <2>1. Counted'
    BY <1>4, <1>0 DEF CheckSet, IInv, Counted, Late, Plugins
  <2> QED
    BY <1>4, <1>a, <2>1, Kept DEF CheckSet, IInv, Steps
<1>5. CASE Rewrite
  <2>1. CASE pc' = "refused" /\ UNCHANGED <<at, candidate>>
    <3>1. Counted'
      BY <2>1 DEF Counted, Late
    <3> QED
      BY <1>5, <2>1, <3>1, Kept DEF Rewrite, IInv, Steps
  <2>2. CASE /\ candidate' = Append(candidate, Rewritten(Plugin.recs, units[at].plan))
             /\ IF More THEN at' = at + 1 /\ pc' = "rewrite" ELSE at' = 1 /\ pc' = "recheck"
    <3>1. /\ pc = "rewrite" /\ UNCHANGED <<world, lane, game, units>>
          /\ Len(units) = Len(Plugins) /\ Len(candidate) = at - 1
      BY <1>5 DEF Rewrite, IInv, Counted
    <3>2. /\ IsSequence(candidate') /\ Len(candidate') = at
          /\ DOMAIN candidate = 1 .. at - 1 /\ DOMAIN candidate' = 1 .. at
          /\ \A i \in 1 .. at - 1 : candidate'[i] = candidate[i]
          /\ candidate'[at] = Rewritten(Plugin.recs, units[at].plan)
      BY <2>2, <3>1, Appended DEF IInv
    <3>3. at' \in Nat \ {0} /\ at' <= Len(Plugins) /\ at <= Len(Plugins)
      BY <1>0, <1>b, <2>2, <3>1 DEF IInv, More, Plugins
    <3>4. Counted'
      <4>1. pc' = "rewrite" => at' = at + 1
        BY <2>2
      <4>2. pc' = "recheck" => at = Len(Plugins)
        BY <1>0, <2>2, <3>3 DEF More, Plugins, IInv
      <4>3. pc' \in {"rewrite", "recheck"}
        BY <2>2
      <4> QED
        BY <3>1, <3>2, <4>1, <4>2, <4>3 DEF Counted, Late, Plugins, IInv
    <3>5. Planned'
      BY <3>1 DEF IInv, Planned, Plugins, Proven, PlanOf, SemanticPath
    <3>6. Made'
      <4> SUFFICES ASSUME NEW i \in 1 .. at
                   PROVE  candidate'[i] = Rewritten(Plugins[i].recs, units[i].plan)
        BY <3>1, <3>2 DEF Made, Plugins
      <4>1. CASE i < at
        BY <4>1, <3>2 DEF IInv, Made
      <4>2. CASE i = at
        BY <4>2, <3>2 DEF Plugin, Plugins
      <4> QED
        BY <4>1, <4>2 DEF IInv
    <3>7. PolicyAdmits(world)'
      BY <3>1, <1>a DEF IInv
    <3> QED
      BY <2>2, <3>1, <3>2, <3>3, <3>4, <3>5, <3>6, <3>7, <1>0 DEF IInv, Steps, Plugins
  <2> QED
    BY <1>5, <2>1, <2>2 DEF Rewrite
<1>6. CASE Recheck
  <2>1. at' \in Nat \ {0} /\ (Plugins # <<>> => at' <= Len(Plugins))
    BY <1>6, <1>0, <1>b DEF Recheck, IInv, More, Plugins
  <2>2. pc' \in {"recheck", "bind", "refused"}
    BY <1>6 DEF Recheck
  <2>3. Counted'
    BY <1>6, <2>2 DEF Recheck, IInv, Counted, Late, Plugins
  <2> QED
    BY <1>6, <1>a, <2>1, <2>2, <2>3, Kept DEF Recheck, IInv, Steps
<1>7. CASE Bind
  <2>1. Counted'
    BY <1>7 DEF Bind, IInv, Counted, Late, Plugins
  <2> QED
    BY <1>7, <1>a, <2>1, Kept DEF Bind, IInv, Steps
<1>8. CASE ToolFails
  <2>1. Counted'
    BY <1>8 DEF ToolFails, IInv, Counted, Late, Plugins
  <2> QED
    BY <1>8, <2>1, Kept DEF ToolFails, IInv, Steps
<1>9. CASE Patch
  <2>1. Counted'
    BY <1>9 DEF Patch, IInv, Counted, Late, Plugins
  <2> QED
    BY <1>9, <1>a, <2>1, Kept DEF Patch, IInv, Steps
<1>10. CASE UNCHANGED vars
  <2>1. Counted'
    BY <1>10 DEF vars, IInv, Counted, Late, Plugins
  <2> QED
    BY <1>10, <1>a, <2>1, Kept DEF vars, IInv, Steps
<1> QED
  BY <1>1, <1>2, <1>3, <1>4, <1>5, <1>6, <1>7, <1>8, <1>9, <1>10 DEF Next

(* The invariant holds in every run of the lanes, however many plugins there *)
(* are and whenever the game is patched.                                     *)
THEOREM Invariance == Spec => []IInv
  BY InitHolds, StepHolds, PTL DEF Spec

----------------------------------------------------------------------------
(* What the invariant says of a published plugin.                            *)

LEMMA PlanIsOfOverrides ==
  ASSUME NEW p, NEW g
  PROVE  DOMAIN PlanOf(p, g) \subseteq Overrides(p)
  BY DEF PlanOf, DeletionPlan, MergePlan, Stubs

(* TypeOK for every world: what evaluate_worldspace_lane_semantics and       *)
(* merge_inventory_addition plan to replace are overrides.                   *)
THEOREM TypeCorrect == Spec => []TypeOK
<1>1. IInv => TypeOK
  <2> SUFFICES ASSUME IInv PROVE TypeOK
    OBVIOUS
  <2>1. /\ Len(Plugins) \in Nat /\ DOMAIN Plugins = 1 .. Len(Plugins)
    BY PluginsAreSequences DEF IInv, Plugins
  <2>2. world.plugins # <<>> => at \in DOMAIN world.plugins
    BY <2>1 DEF IInv, Plugins
  <2>3. \A i \in DOMAIN units : /\ units[i].seen \in {world.game, world.patched}
                                /\ DOMAIN units[i].plan \subseteq Overrides(world.plugins[i])
    BY PlanIsOfOverrides DEF IInv, Planned, Plugins
  <2>4. \A i \in DOMAIN candidate : DOMAIN candidate[i] = DOMAIN world.plugins[i].recs
    BY DEF IInv, Made, Plugins, Rewritten
  <2> QED
    BY <2>2, <2>3, <2>4 DEF TypeOK, IInv, Plugins
<1> QED
  BY <1>1, Invariance, PTL

(* In a published mod every plugin is sound, was proven against the game its *)
(* unit saw, and is its source with the plan in it.                          *)
LEMMA PublishedIsMade ==
  ASSUME IInv, Published, NEW i \in DOMAIN world.plugins
  PROVE  LET p == world.plugins[i]
             g == units[i].seen
         IN  /\ IsFile(p) /\ Sound(p) /\ p.masters \in Seq(STRING)
             /\ \A n \in DOMAIN g : IsFile(g[n])
             /\ Proven(p, g)
             /\ candidate[i] = Rewritten(p.recs, PlanOf(p, g))
<1>1. /\ DOMAIN Plugins = 1 .. Len(Plugins) /\ Len(Plugins) \in Nat
      /\ \A j \in DOMAIN Plugins : IsFile(Plugins[j])
  BY PluginsAreSequences DEF IInv, Plugins
<1>2. Len(units) = Len(Plugins) /\ Len(candidate) = Len(Plugins)
  BY DEF IInv, Published, Counted, Late
<1>3. i \in DOMAIN units /\ i \in DOMAIN candidate
  BY <1>1, <1>2 DEF IInv, IsSequence, Plugins
<1>4. units[i].seen \in {world.game, world.patched} /\ Proven(Plugins[i], units[i].seen)
      /\ units[i].plan = PlanOf(Plugins[i], units[i].seen)
  BY <1>3 DEF IInv, Planned
<1>5. candidate[i] = Rewritten(Plugins[i].recs, units[i].plan)
  BY <1>3 DEF IInv, Made
<1>6. Sound(Plugins[i])
  BY DEF IInv, Published, PolicyAdmits, Plugins
<1>7. \A n \in DOMAIN units[i].seen : IsFile(units[i].seen[n])
  BY <1>4, WorldsAssumption DEF IInv
<1> QED
  BY <1>1, <1>4, <1>5, <1>6, <1>7 DEF Plugins, IsFile

(* A set of positions has a last one.                                        *)
LEMMA Greatest ==
  ASSUME NEW n \in Nat, NEW T, T \subseteq 1 .. n, T # {}
  PROVE  \E m \in T : \A i \in T : i <= m
<1> DEFINE R == {x \in Nat \X Nat : x[1] < x[2]}
           U == {i \in 0 .. n : n - i \in T}
<1>1. IsWellFoundedOn(R, Nat)
  BY NatLessThanWellFounded DEF OpToRel
<1>2. U \subseteq Nat
  OBVIOUS
<1>3. U # {}
  <2>1. PICK i \in T : TRUE
    OBVIOUS
  <2>2. n - i \in 0 .. n /\ n - (n - i) = i
    BY <2>1
  <2> QED
    BY <2>1, <2>2
<1>4. PICK u \in U : \A v \in U : ~(<<v, u>> \in R)
  <2> HIDE DEF U, R
  <2> QED
    BY <1>1, <1>2, <1>3, WFMin
<1>5. u \in 0 .. n /\ n - u \in T
  OBVIOUS
<1>6. ASSUME NEW i \in T PROVE i <= n - u
  <2>1. n - i \in U /\ n - i \in Nat
    <3>1. n - i \in 0 .. n /\ n - (n - i) = i
      OBVIOUS
    <3> QED
      BY <3>1
  <2>2. ~(<<n - i, u>> \in R)
    BY <1>4, <2>1
  <2>3. ~(n - i < u)
    BY <2>1, <2>2, <1>5
  <2> QED
    BY <1>5, <2>3
<1> QED
  BY <1>5, <1>6

(* The last provider of an object is one of the declared masters, installed, *)
(* and its record comes from that file.                                      *)
LEMMA WinnerIsInstalled ==
  ASSUME NEW p, NEW g, NEW o, p.masters \in Seq(STRING), Installed(p, g),
         \A n \in DOMAIN g : IsFile(g[n]), Providers(p, g, o) # {}
  PROVE  LET k == WinnerAt(p, g, o)
             n == p.masters[k]
         IN  /\ k \in DOMAIN p.masters /\ n \in DOMAIN g /\ IsFile(g[n])
             /\ Holds(g, n, o) /\ IsRecord(Winner(p, g, o))
<1>1. Len(p.masters) \in Nat /\ DOMAIN p.masters = 1 .. Len(p.masters)
  OBVIOUS
<1>2. Providers(p, g, o) \subseteq 1 .. Len(p.masters)
  BY <1>1 DEF Providers
<1>3. \E i \in Providers(p, g, o) : \A j \in Providers(p, g, o) : j <= i
  BY <1>1, <1>2, Greatest
<1>4. WinnerAt(p, g, o) \in Providers(p, g, o)
  BY <1>3 DEF WinnerAt
<1> DEFINE k == WinnerAt(p, g, o)
           n == p.masters[k]
<1>5. k \in DOMAIN p.masters /\ Holds(g, n, o)
  BY <1>4 DEF Providers
<1>6. n \in DOMAIN g
  BY <1>5 DEF Installed
<1>7. IsFile(g[n])
  BY <1>6
<1>8. \E h \in Copies(g, n, o) : Winner(p, g, o) = g[n].recs[h]
  BY <1>5 DEF Winner, RecordOf, Holds
<1>9. Copies(g, n, o) \subseteq DOMAIN g[n].recs
  BY DEF Copies
<1>10. IsRecord(Winner(p, g, o))
  BY <1>7, <1>8, <1>9 DEF IsFile
<1> QED
  BY <1>5, <1>6, <1>7, <1>10

(* The record that replaces a deletion names in the plugin what the winner   *)
(* names in its own file.                                                    *)
LEMMA UndeletedKeepsObjects ==
  ASSUME NEW p, NEW g, NEW f, IsFile(p), Installed(p, g),
         \A n \in DOMAIN g : IsFile(g[n]),
         Count(p) > 0, p.masters[1] = Base, Undeletable(p, g, f)
  PROVE  LET r == Undeleted(p, g, f)
             w == Current(p, g, f)
         IN  /\ ~Deleted(r) /\ "disabled" \in r.flags
             /\ Object(p, r.base) = InProvider(p, g, f, w.base)
             /\ r.key # Null => Object(p, r.key) = InProvider(p, g, f, w.key)
             /\ Object(p, r.parent) = [origin |-> Base, id |-> PlayerLocal]
             /\ r.kind = "REFR"
<1> DEFINE w == Current(p, g, f)
           k == ProviderAt(p, g, f)
           ms == p.masters
           pms == ProviderMasters(p, g, f)
           r == Undeleted(p, g, f)
           key == IF w.key = Null THEN Null ELSE InPlugin(p, g, f, w.key)
<1>1. ms \in Seq(STRING)
  BY DEF IsFile
<1>2. /\ k \in DOMAIN ms /\ IsRecord(w) /\ pms \in Seq(STRING)
  BY <1>1, WinnerIsInstalled DEF Undeletable, Current, ProviderAt, ProviderMasters, IsFile
<1>3. \A i \in DOMAIN pms : \E j \in DOMAIN ms : ms[j] = pms[i]
  BY DEF Undeletable
<1>4. w.base \in FormId /\ w.key \in FormId
  BY <1>2 DEF IsRecord
<1>5. /\ w.kind = "REFR" /\ ~Deleted(w) /\ Mappable(pms, w.base)
      /\ w.key # Null => Mappable(pms, w.key)
  BY DEF Undeletable, Witness
<1>6. /\ r.kind = w.kind /\ r.flags = Plain(w.flags) \union {"disabled"}
      /\ r.base = InPlugin(p, g, f, w.base) /\ r.key = key /\ r.parent = Player(p)
  <2>1. r = [w EXCEPT !.flags = Plain(w.flags) \union {"disabled"},
                      !.base = InPlugin(p, g, f, w.base), !.key = key,
                      !.parent = Player(p), !.body = "parked"]
    BY DEF Undeleted
  <2>2. {"kind", "flags", "base", "key", "parent"} \subseteq DOMAIN w
    <3> HIDE DEF w
    <3> QED
      BY <1>2 DEF IsRecord
  <2> HIDE DEF w, key, r
  <2> QED
    BY <2>1, <2>2
<1>7. ~Deleted(r) /\ "disabled" \in r.flags /\ r.kind = "REFR"
  BY <1>5, <1>6 DEF Deleted, Plain
<1>8. ASSUME NEW x \in FormId, Mappable(pms, x)
      PROVE  Object(p, InPlugin(p, g, f, x)) = InProvider(p, g, f, x)
  BY <1>1, <1>2, <1>3, <1>8, RemapKeepsIdentity DEF Object, InPlugin, InProvider
<1>9. Object(p, r.base) = InProvider(p, g, f, w.base)
  BY <1>4, <1>5, <1>6, <1>8
<1>10. r.key # Null => Object(p, r.key) = InProvider(p, g, f, w.key)
  BY <1>4, <1>5, <1>6, <1>8
<1>11. Object(p, Player(p)) = [origin |-> Base, id |-> PlayerLocal]
  <2>1. 1 \in DOMAIN ms
    BY <1>1 DEF Count
  <2>2. Position(ms, Base) \in DOMAIN ms /\ ms[Position(ms, Base)] = Base
    BY <2>1, PositionIs
  <2> QED
    BY <1>1, <2>2 DEF Object, Player, Canonical, Origin, Slot, Local
<1> QED
  BY <1>6, <1>7, <1>9, <1>10, <1>11

(* StubsKeepObject for every world: the undelete-and-disable policy hands    *)
(* out references to the objects the winning references stand for, whichever *)
(* master lists the files have and whenever the game is patched.             *)
THEOREM StubsKept == Spec => []StubsKeepObject
<1>1. IInv => StubsKeepObject
  <2> SUFFICES ASSUME IInv, Published, NEW i \in DOMAIN world.plugins,
                      NEW f \in Stubs(world.plugins[i])
               PROVE  LET p == world.plugins[i]
                          g == units[i].seen
                          r == candidate[i][f]
                          w == Current(p, g, f)
                      IN  /\ ~Deleted(r) /\ "disabled" \in r.flags
                          /\ Object(p, r.base) = InProvider(p, g, f, w.base)
                          /\ r.key # Null => Object(p, r.key) = InProvider(p, g, f, w.key)
                          /\ Object(p, r.parent) = [origin |-> Base, id |-> PlayerLocal]
                          /\ InertBase(p, g, f)
    BY DEF StubsKeepObject
  <2> DEFINE p == world.plugins[i]
             g == units[i].seen
  <2>1. /\ IsFile(p) /\ Sound(p) /\ Proven(p, g)
        /\ \A n \in DOMAIN g : IsFile(g[n])
        /\ candidate[i] = Rewritten(p.recs, PlanOf(p, g))
    BY PublishedIsMade
  <2> HIDE DEF p, g
  <2>2. SemanticPath(p) /\ f \in DOMAIN p.recs
    BY DEF SemanticPath, Stubs, Overrides, p
  <2>3. Installed(p, g) /\ Undeletable(p, g, f)
    BY <2>1, <2>2 DEF Proven, GateProven, DeletionProven, p
  <2>4. candidate[i][f] = Undeleted(p, g, f)
    BY <2>1, <2>2 DEF Rewritten, PlanOf, DeletionPlan, p
  <2>5. Count(p) > 0 /\ p.masters[1] = Base
    BY <2>1 DEF Sound
  <2>6. InertBase(p, g, f)
    BY <2>3 DEF Undeletable
  <2> QED
    BY <2>1, <2>3, <2>4, <2>5, <2>6, UndeletedKeepsObjects DEF p, g
<1> QED
  BY <1>1, Invariance, PTL

(* Joining two inventories loses no row of either.                           *)
LEMMA JoinedHoldsBoth ==
  ASSUME NEW a, NEW c,
         \A x \in DOMAIN a : a[x] \in Nat \ {0},
         \A x \in DOMAIN c : c[x] \in Nat \ {0}
  PROVE  LET t == Joined(a, c)
         IN  /\ \A x \in DOMAIN a : x \in DOMAIN t /\ t[x] >= a[x]
             /\ \A x \in DOMAIN c : x \in DOMAIN t /\ t[x] >= c[x]
             /\ Lacks(a, c) = {} => \A x \in DOMAIN c : x \in DOMAIN a /\ a[x] >= c[x]
<1> DEFINE t == Joined(a, c)
<1>1. DOMAIN t = DOMAIN a \union Lacks(a, c)
  BY DEF Joined
<1>2. \A x \in DOMAIN c : x \notin Lacks(a, c) => x \in DOMAIN a /\ a[x] >= c[x]
  BY DEF Lacks, Times
<1>3. \A x \in Lacks(a, c) : x \in DOMAIN c /\ t[x] = c[x] /\ (x \in DOMAIN a => a[x] < c[x])
  BY DEF Joined, Lacks, Times
<1>4. \A x \in DOMAIN a : x \notin Lacks(a, c) => t[x] = a[x]
  BY DEF Joined
<1>5. \A x \in DOMAIN a : x \in DOMAIN t /\ t[x] >= a[x]
  BY <1>1, <1>3, <1>4
<1>6. \A x \in DOMAIN c : x \in DOMAIN t /\ t[x] >= c[x]
  BY <1>1, <1>2, <1>3, <1>4
<1> QED
  BY <1>2, <1>5, <1>6

(* What an inventory override looks like in the candidate.                   *)
LEMMA MergedOverride ==
  ASSUME NEW p, NEW g, NEW f \in Overrides(p), IsFile(p), ~SemanticPath(p)
  PROVE  LET o == p.recs[f]
             c == Current(p, g, f)
             out == Rewritten(p.recs, PlanOf(p, g))[f]
         IN  /\ IsRecord(o)
             /\ out = IF Lacks(o.rows, c.rows) = {} THEN o ELSE Merged(o, c)
             /\ out.rows = IF Lacks(o.rows, c.rows) = {} THEN o.rows ELSE Joined(o.rows, c.rows)
<1> DEFINE o == p.recs[f]
           c == Current(p, g, f)
           out == Rewritten(p.recs, PlanOf(p, g))[f]
<1>1. f \in DOMAIN p.recs /\ IsRecord(o)
  BY DEF IsFile, Overrides
<1>2. out = IF Lacks(o.rows, c.rows) = {} THEN o ELSE Merged(o, c)
  BY <1>1 DEF Rewritten, PlanOf, MergePlan
<1>3. Merged(o, c).rows = Joined(o.rows, c.rows)
  <2> HIDE DEF o, c
  <2> QED
    BY <1>1 DEF Merged, IsRecord
<1> QED
  BY <1>1, <1>2, <1>3

(* MergeKeepsBoth for every world: the inventory merge publishes every row   *)
(* of the author and, as objects, every row of the installed winner that its *)
(* master list can name.                                                     *)
THEOREM BothKept == Spec => []MergeKeepsBoth
<1>1. IInv => MergeKeepsBoth
  <2> SUFFICES ASSUME IInv, Published, NEW i \in DOMAIN world.plugins,
                      ~SemanticPath(world.plugins[i]), NEW f \in Overrides(world.plugins[i])
               PROVE  LET p == world.plugins[i]
                          g == units[i].seen
                          c == Current(p, g, f)
                          rows == candidate[i][f].rows
                      IN  /\ \A r \in DOMAIN p.recs[f].rows : Times(rows, r) >= p.recs[f].rows[r]
                          /\ \A r \in DOMAIN c.rows : Mappable(ProviderMasters(p, g, f), r[1]) =>
                               \E s \in DOMAIN rows :
                                 /\ Object(p, s[1]) = InProvider(p, g, f, r[1])
                                 /\ s[2] = r[2] /\ rows[s] >= c.rows[r]
    BY DEF MergeKeepsBoth
  <2> DEFINE p == world.plugins[i]
             g == units[i].seen
             c == Current(p, g, f)
             o == p.recs[f]
             k == WinnerAt(p, g, Object(p, f))
             rows == candidate[i][f].rows
  <2>1. /\ IsFile(p) /\ p.masters \in Seq(STRING) /\ Proven(p, g)
        /\ \A n \in DOMAIN g : IsFile(g[n])
        /\ candidate[i] = Rewritten(p.recs, PlanOf(p, g))
    BY PublishedIsMade
  <2> HIDE DEF p, g
  <2>2. Resolved(p, g, Overrides(p)) /\ f \in Overrides(p) /\ ~SemanticPath(p)
    BY <2>1 DEF Proven, InventoryProven, p
  <2>3. Installed(p, g) /\ Aligned(p, g) /\ Providers(p, g, Object(p, f)) # {}
    BY <2>2 DEF Resolved
  <2>4. k \in DOMAIN p.masters /\ IsFile(g[p.masters[k]]) /\ IsRecord(c)
    BY <2>1, <2>3, WinnerIsInstalled DEF Current
  <2>5. /\ rows = IF Lacks(o.rows, c.rows) = {} THEN o.rows ELSE Joined(o.rows, c.rows)
        /\ IsRecord(o)
    <3>1. candidate[i][f] = Rewritten(p.recs, PlanOf(p, g))[f]
      BY <2>1
    <3> QED
      BY <2>1, <2>2, <3>1, MergedOverride, Zenon
  <2>6. /\ \A x \in DOMAIN o.rows : o.rows[x] \in Nat \ {0}
        /\ \A x \in DOMAIN c.rows : x[1] \in FormId /\ c.rows[x] \in Nat \ {0}
    BY <2>4, <2>5 DEF IsRecord
  <2> HIDE DEF c, o, rows, k
  <2>7. /\ \A x \in DOMAIN o.rows : x \in DOMAIN rows /\ rows[x] >= o.rows[x]
        /\ \A x \in DOMAIN c.rows : x \in DOMAIN rows /\ rows[x] >= c.rows[x]
    BY <2>5, <2>6, JoinedHoldsBoth
  <2>8. ASSUME NEW x \in FormId, Mappable(ProviderMasters(p, g, f), x)
        PROVE  Object(p, x) = InProvider(p, g, f, x)
    <3>1. ProviderAt(p, g, f) = k /\ ProviderMasters(p, g, f) = g[p.masters[k]].masters
      BY DEF ProviderMasters, ProviderAt, k
    <3>2. ExactPrefix(g[p.masters[k]].masters, p.masters, k)
      BY <2>3, <2>4 DEF Aligned
    <3>3. g[p.masters[k]].masters \in Seq(STRING)
      BY <2>4 DEF IsFile
    <3> QED
      BY <2>1, <2>4, <2>8, <3>1, <3>2, <3>3, PrefixKeepsIdentity DEF Object, InProvider
  <2>9. \A r \in DOMAIN o.rows : Times(rows, r) >= o.rows[r]
    BY <2>7 DEF Times
  <2>10. ASSUME NEW r \in DOMAIN c.rows, Mappable(ProviderMasters(p, g, f), r[1])
         PROVE  \E s \in DOMAIN rows :
                  /\ Object(p, s[1]) = InProvider(p, g, f, r[1])
                  /\ s[2] = r[2] /\ rows[s] >= c.rows[r]
    <3>1. Object(p, r[1]) = InProvider(p, g, f, r[1])
      BY <2>6, <2>8, <2>10
    <3> QED
      BY <2>7, <3>1
  <2> QED
    BY <2>9, <2>10 DEF p, g, c, o, rows
<1> QED
  BY <1>1, Invariance, PTL

(* OnlyPlannedDiffers for every world: what the lanes publish is the source  *)
(* plugin but for disabled deletions and merged inventories.                 *)
THEOREM OthersUntouched == Spec => []OnlyPlannedDiffers
<1>1. IInv => OnlyPlannedDiffers
  <2> SUFFICES ASSUME IInv, Published, NEW i \in DOMAIN world.plugins
               PROVE  LET p == world.plugins[i]
                          Differs == {f \in DOMAIN p.recs : candidate[i][f] # p.recs[f]}
                      IN  /\ IF SemanticPath(p) THEN Differs = Stubs(p)
                             ELSE \A f \in Differs :
                                    /\ p.recs[f].kind \in Inventories
                                    /\ candidate[i][f] = [p.recs[f] EXCEPT !.rows = candidate[i][f].rows]
                          /\ \A f \in Overrides(p) : ~Deleted(candidate[i][f])
                          /\ \A f \in DOMAIN p.recs : candidate[i][f].kind = p.recs[f].kind
    BY DEF OnlyPlannedDiffers
  <2> DEFINE p == world.plugins[i]
             g == units[i].seen
             out == candidate[i]
  <2>1. /\ IsFile(p) /\ Sound(p) /\ Proven(p, g)
        /\ \A n \in DOMAIN g : IsFile(g[n])
        /\ out = Rewritten(p.recs, PlanOf(p, g))
    BY PublishedIsMade
  <2> HIDE DEF p, g, out
  <2>2. \A f \in DOMAIN p.recs : f \notin DOMAIN PlanOf(p, g) => out[f] = p.recs[f]
    BY <2>1 DEF Rewritten
  <2>3. Stubs(p) \subseteq Overrides(p) /\ Overrides(p) \subseteq DOMAIN p.recs
    BY DEF Stubs, Overrides
  <2>4. CASE SemanticPath(p)
    <3>1. Installed(p, g) /\ \A f \in Stubs(p) : Undeletable(p, g, f)
      BY <2>1, <2>4 DEF Proven, GateProven, DeletionProven
    <3>2. DOMAIN PlanOf(p, g) = Stubs(p)
      BY <2>4 DEF PlanOf, DeletionPlan
    <3>3. \A f \in Stubs(p) : out[f] = Undeleted(p, g, f)
      BY <2>1, <2>3, <2>4 DEF Rewritten, PlanOf, DeletionPlan
    <3>4. \A f \in Stubs(p) : ~Deleted(out[f]) /\ out[f].kind = "REFR"
      <4> SUFFICES ASSUME NEW f \in Stubs(p)
                   PROVE  ~Deleted(Undeleted(p, g, f)) /\ Undeleted(p, g, f).kind = "REFR"
        BY <3>3
      <4>1. Count(p) > 0 /\ p.masters[1] = Base /\ Undeletable(p, g, f)
        BY <2>1, <3>1 DEF Sound
      <4> QED
        BY <2>1, <3>1, <4>1, UndeletedKeepsObjects, Zenon
    <3>5. \A f \in Stubs(p) : Deleted(p.recs[f]) /\ p.recs[f].kind = "REFR"
      BY <3>1 DEF Stubs, Undeletable
    <3>6. \A f \in Overrides(p) : f \notin Stubs(p) => ~Deleted(p.recs[f])
      BY DEF Stubs
    <3>7. {f \in DOMAIN p.recs : out[f] # p.recs[f]} = Stubs(p)
      BY <2>2, <2>3, <3>2, <3>4, <3>5
    <3>8. \A f \in Overrides(p) : ~Deleted(out[f])
      BY <2>2, <2>3, <3>2, <3>4, <3>6
    <3>9. \A f \in DOMAIN p.recs : out[f].kind = p.recs[f].kind
      BY <2>2, <3>2, <3>4, <3>5
    <3> QED
      BY <2>4, <3>7, <3>8, <3>9 DEF p, out
  <2>5. CASE ~SemanticPath(p)
    <3>1. DOMAIN PlanOf(p, g) \subseteq Overrides(p)
      BY PlanIsOfOverrides
    <3>2. \A f \in Overrides(p) : p.recs[f].kind \in Inventories /\ ~Deleted(p.recs[f])
      BY <2>5 DEF SemanticPath
    <3>3. ASSUME NEW f \in Overrides(p)
          PROVE  /\ out[f] = [p.recs[f] EXCEPT !.rows = out[f].rows]
                 /\ out[f].kind = p.recs[f].kind /\ out[f].flags = p.recs[f].flags
      <4> DEFINE o == p.recs[f]
                 new == out[f]
      <4>1. IsRecord(o) /\ (new = o \/ new = Merged(o, Current(p, g, f)))
        BY <2>1, <2>5, MergedOverride
      <4> HIDE DEF o, new
      <4>2. /\ new = [o EXCEPT !.rows = new.rows]
            /\ new.kind = o.kind /\ new.flags = o.flags
        BY <4>1 DEF IsRecord, Merged
      <4> QED
        BY <4>2 DEF o, new
    <3>4. \A f \in DOMAIN p.recs : f \notin Overrides(p) => out[f] = p.recs[f]
      BY <2>2, <3>1
    <3>5. \A f \in Overrides(p) : ~Deleted(out[f])
      BY <3>2, <3>3 DEF Deleted
    <3>6. \A f \in DOMAIN p.recs : out[f].kind = p.recs[f].kind
      BY <3>3, <3>4
    <3> QED
      BY <2>5, <3>2, <3>3, <3>4, <3>5, <3>6 DEF p, out
  <2> QED
    BY <2>4, <2>5
<1> QED
  BY <1>1, Invariance, PTL
=============================================================================
