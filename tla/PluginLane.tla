----------------------------- MODULE PluginLane -----------------------------
(* The plugin half of the lanes that carry a TES4 plugin: the additive, the  *)
(* MagicLoader worldspace and the mixed composite lane of                    *)
(* run_esp_sync_lane_update, and the plugin-only lane.  Rebuild models the   *)
(* containers that the first three carry as well.                            *)
(*                                                                           *)
(* A record is [kind, flags, rest, rows, counted, base, key, parent, body,   *)
(* bounded]: its functional fields (rest), its inventory rows (a bag of item *)
(* and count), whether the count it declares is right, the FormIDs a placed  *)
(* reference carries, whether its body is bare, of the witness shape or odd, *)
(* and whether it lies in one temporary group of a cell.  A world holds      *)
(*   plugins   the staged plugins with the flaws their inspection reports    *)
(*   game      what Data holds under each name: the one readable master, in  *)
(*             its own FormID space                                          *)
(*   patched   the same after an update of the game, which may happen at any *)
(*             moment                                                        *)
(*   inis      the SyncMap files, with their keys and whether their packages *)
(*             are found                                                     *)
(*   layout    where the files of a plugin-only mod lie                      *)
EXTENDS FormIds

CONSTANTS Worlds, Lanes

ASSUME LanesAssumption ==
  Lanes \subseteq {"additive", "magicloader", "mixed", "plugin_only"}

(* What the readers of plugins return: slots and counts are numbers, no row  *)
(* counts nothing.                                                           *)
FormId == Nat \X Nat
IsRecord(r) ==
  /\ r = [kind |-> r.kind, flags |-> r.flags, rest |-> r.rest, rows |-> r.rows,
          counted |-> r.counted, base |-> r.base, key |-> r.key, parent |-> r.parent,
          body |-> r.body, bounded |-> r.bounded]
  /\ r.base \in FormId /\ r.key \in FormId
  /\ \A x \in DOMAIN r.rows : x[1] \in FormId /\ r.rows[x] \in Nat \ {0}
IsFile(p) ==
  /\ p.masters \in Seq(STRING)
  /\ \A f \in DOMAIN p.recs : f \in FormId /\ IsRecord(p.recs[f])

ASSUME WorldsAssumption ==
  \A w \in Worlds :
    /\ w.plugins \in Seq({w.plugins[i] : i \in DOMAIN w.plugins})
    /\ \A i \in DOMAIN w.plugins : IsFile(w.plugins[i])
    /\ \A g \in {w.game, w.patched} : \A n \in DOMAIN g : IsFile(g[n])

VARIABLES
  world, lane,
  game,      \* the installed masters now
  pc, at,    \* the step, and the plugin it works on
  units,     \* for each plugin, the game its evaluation read and its plan
  candidate  \* for each plugin, its records in the candidate

vars == <<world, lane, game, pc, at, units, candidate>>

Base == "Oblivion.esm"
Inventories == {"CONT", "CREA", "NPC_"}
Inert == {"STAT", "FURN", "CONT", "LVLC", "LVLI"}
Placed == {"WRLD", "CELL", "REFR", "ACHR", "ACRE", "LAND", "NAVM", "PGRD"}
Null == <<0, 0>>
PlayerLocal == 20

Init ==
  /\ world \in Worlds /\ lane \in Lanes
  /\ game = world.game
  /\ pc = "policy" /\ at = 1 /\ units = <<>> /\ candidate = <<>>

Ended == pc \in {"published", "refused"}
PluginOnly == lane = "plugin_only"

----------------------------------------------------------------------------
(* What a plugin says of itself.                                             *)

Count(p) == Len(p.masters)
Own(p) == SelfSlot(Count(p), {Slot(f) : f \in DOMAIN p.recs})
Owned(p) == {f \in DOMAIN p.recs : Slot(f) = Own(p)}
Overrides(p) == {f \in DOMAIN p.recs : Slot(f) < Count(p)}
Deleted(r) == "deleted" \in r.flags
Stubs(p) == {f \in Overrides(p) : Deleted(p.recs[f])}
Live(p) == Overrides(p) \ Stubs(p)
Object(p, f) == Canonical(p.name, p.masters, f)
InRange(p) == \A f \in DOMAIN p.recs : Slot(f) > Count(p) => Slot(f) = Own(p)

(* The flaws of a file, and those the policies compute from its records.     *)
Sound(p) ==
  /\ p.flaws \subseteq (IF PluginOnly THEN {"not under Data"} ELSE {})
  /\ Own(p) # Ambiguous
  /\ Distinct(p.masters)
  /\ Count(p) > 0 /\ p.masters[1] = Base

(* Two files of one name are one plugin if the second is the byte-identical  *)
(* mirror beside its SyncMap; the lanes for one plugin count files.          *)
FilesCounted(w) ==
  \A i \in DOMAIN w.plugins :
     \/ w.plugins[i].copy = "none"
     \/ w.plugins[i].copy = "mirror" /\ lane \in {"additive", "mixed"}

Bundled(w) == {w.plugins[i].name : i \in DOMAIN w.plugins}
Acyclic(w) ==
  \E rank \in [Bundled(w) -> DOMAIN w.plugins] :
     \A i \in DOMAIN w.plugins : \A m \in DOMAIN w.plugins[i].masters :
        w.plugins[i].masters[m] \in Bundled(w)
           => rank[w.plugins[i].masters[m]] < rank[w.plugins[i].name]

PolicyAdmits(w) ==
  /\ w.plugins # <<>>
  /\ lane # "mixed" => Len(w.plugins) = 1
  /\ FilesCounted(w) /\ Acyclic(w)
  /\ \A i \in DOMAIN w.plugins : Sound(w.plugins[i])

(* Every file of a plugin-only mod hangs under one root that means Data.     *)
OneRooting(w) ==
  LET kept == {f \in w.layout : ~f.skip}
  IN  /\ kept # {}
      /\ \E root \in {f.root : f \in kept} :
            root # "outside" /\ \A f \in kept : f.root = root
      /\ \A f, g \in kept : f.tail = g.tail => f = g

(* The sidecars each lane expects.                                           *)
SidecarsFit(w) ==
  /\ lane \in {"additive", "magicloader"} => Len(w.inis) = 1
  /\ PluginOnly => Len(w.inis) <= 1
  /\ lane = "magicloader" => w.sidecars = "valid"
  /\ PluginOnly => w.sidecars # "invalid"

Policy ==
  /\ pc = "policy"
  /\ pc' = IF /\ PolicyAdmits(world) /\ SidecarsFit(world)
              /\ PluginOnly => OneRooting(world)
           THEN "probe" ELSE "refused"
  /\ UNCHANGED <<world, lane, game, at, units, candidate>>

----------------------------------------------------------------------------
(* What the installed masters say.  The last declared master that holds an   *)
(* object wins.                                                              *)

Copies(g, n, o) ==
  {h \in DOMAIN g[n].recs :
     Mappable(g[n].masters, h) /\ Canonical(n, g[n].masters, h) = o}
Holds(g, n, o) == Copies(g, n, o) # {}
RecordOf(g, n, o) == g[n].recs[CHOOSE h \in Copies(g, n, o) : TRUE]

Installed(p, g) == \A i \in DOMAIN p.masters : p.masters[i] \in DOMAIN g
Providers(p, g, o) == {i \in DOMAIN p.masters : Holds(g, p.masters[i], o)}
WinnerAt(p, g, o) == CHOOSE i \in Providers(p, g, o) : \A j \in Providers(p, g, o) : j <= i
Winner(p, g, o) == RecordOf(g, p.masters[WinnerAt(p, g, o)], o)

(* A record in a slot its file cannot have hides an object with its number.  *)
Unhidden(p, g, wanted) ==
  \A i \in DOMAIN p.masters : \A h \in DOMAIN g[p.masters[i]].recs :
     ~Mappable(g[p.masters[i]].masters, h) => \A f \in wanted : Local(f) # Local(h)

(* resolve_installed_master_records: raw numbers must mean the same in every *)
(* master of the chain.                                                      *)
(* A bug: the masters may come in any order.                                 *)
AnyOrder(p, g) == Installed(p, g)
Aligned(p, g) ==
  \A i \in DOMAIN p.masters : ExactPrefix(g[p.masters[i]].masters, p.masters, i)
Resolved(p, g, wanted) ==
  /\ Distinct(p.masters) /\ Installed(p, g)
  /\ wanted # {} =>
       /\ Aligned(p, g) /\ Unhidden(p, g, wanted)
       /\ \A f \in wanted :
            LET o == Object(p, f)
            IN  /\ Providers(p, g, o) # {}
                /\ Copies(g, p.masters[WinnerAt(p, g, o)], o) = {f}

----------------------------------------------------------------------------
(* The inventory merge: every row of the current record that the override    *)
(* lacks is added to it, if the override has a row of its own and changes    *)
(* none.  Rows are compared in the order of their numbers.                   *)

Times(rows, r) == IF r \in DOMAIN rows THEN rows[r] ELSE 0
Lacks(rows, other) == {r \in DOMAIN other : Times(rows, r) < other[r]}
Adds(rows, other) == Lacks(other, rows) # {}
Changes(rows, other) ==
  \E r \in Lacks(rows, other), s \in DOMAIN rows :
     s[1] = r[1] /\ (s[2] > r[2] \/ Times(other, s) < rows[s])
Joined(rows, other) ==
  [r \in DOMAIN rows \union Lacks(rows, other) |->
     IF r \in Lacks(rows, other) THEN other[r] ELSE rows[r]]

Plain(flags) == flags \ {"compressed"}
SameButRows(p, o, c) ==
  /\ o.kind = c.kind /\ o.kind \in Inventories
  /\ o.counted /\ c.counted
  /\ o.rest = c.rest
  /\ Plain(o.flags) = Plain(c.flags)
  /\ \A r \in DOMAIN o.rows : Slot(r[1]) <= Count(p)

(* validate_inventory_addition: nothing of the current record is gone.       *)
OnlyAdds(p, o, c) == SameButRows(p, o, c) /\ Lacks(o.rows, c.rows) = {} /\ Adds(o.rows, c.rows)

Merged(o, c) == [o EXCEPT !.rows = Joined(o.rows, c.rows)]

Mergeable(p, o, c) ==
  /\ SameButRows(p, o, c)
  /\ ~Changes(o.rows, c.rows) /\ Adds(o.rows, c.rows)
  /\ OnlyAdds(p, Merged(o, c), c)

(* Whatever the merged record adds to the author's or to the game's.         *)
NewItems(o, c) ==
  {r[1] : r \in Lacks(c.rows, Joined(o.rows, c.rows)) \union Lacks(o.rows, c.rows)}

Current(p, g, f) == Winner(p, g, Object(p, f))
InventoryProven(p, g) ==
  LET os == Overrides(p)
      new == UNION {NewItems(p.recs[f], Current(p, g, f)) : f \in os}
  IN  /\ Resolved(p, g, os)
      /\ \A f \in os : Mergeable(p, p.recs[f], Current(p, g, f))
      /\ \A i \in new : Slot(i) = Count(p) => i \in Owned(p)
      /\ Resolved(p, g, {i \in new : Slot(i) < Count(p)})

MergePlan(p, g) ==
  [f \in {x \in Overrides(p) : Lacks(p.recs[x].rows, Current(p, g, x).rows) # {}} |->
     Merged(p.recs[f], Current(p, g, f))]

----------------------------------------------------------------------------
(* The semantic gate, for overrides outside the inventory contract: every    *)
(* live one resolves to a record of its kind, also in the master it is       *)
(* numbered in.  It discloses the fields that differ and keeps the bytes.    *)

GateProven(p, g) ==
  /\ Distinct(p.masters) /\ Installed(p, g)
  /\ Unhidden(p, g, Overrides(p))
  /\ \A f \in Live(p) :
       /\ Providers(p, g, Object(p, f)) # {}
       /\ Current(p, g, f).kind = p.recs[f].kind
       /\ Holds(g, Origin(p.name, p.masters, f), Object(p, f))

(* A deletion becomes a disabled copy of the winning reference, translated   *)
(* from the space of the file that provides it.                              *)
ProviderAt(p, g, f) == WinnerAt(p, g, Object(p, f))
ProviderMasters(p, g, f) == g[p.masters[ProviderAt(p, g, f)]].masters
(* A bug: the numbers are taken over as they are.                            *)
Untranslated(p, g, f, x) == x
InPlugin(p, g, f, x) == Remapped(ProviderMasters(p, g, f), p.masters, ProviderAt(p, g, f), x)
InProvider(p, g, f, x) ==
  Canonical(p.masters[ProviderAt(p, g, f)], ProviderMasters(p, g, f), x)
Player(p) == <<Position(p.masters, Base) - 1, PlayerLocal>>

BaseOf(p, g, f) == InProvider(p, g, f, Current(p, g, f).base)
InertBase(p, g, f) ==
  LET b == BaseOf(p, g, f)
  IN  /\ \E i \in DOMAIN p.masters : p.masters[i] = b.origin
      /\ Holds(g, b.origin, b)
      /\ RecordOf(g, b.origin, b).kind \in Inert

Witness(p, g, f) ==
  LET w == Current(p, g, f)
  IN  /\ w.kind = "REFR" /\ ~Deleted(w) /\ w.body = "witness"
      /\ Mappable(ProviderMasters(p, g, f), w.base)
      /\ w.key # Null => Mappable(ProviderMasters(p, g, f), w.key)

Undeletable(p, g, f) ==
  /\ p.recs[f].kind = "REFR" /\ p.recs[f].flags = {"deleted"}
  /\ p.recs[f].body = "bare" /\ p.recs[f].bounded
  /\ Providers(p, g, Object(p, f)) # {}
  /\ \A i \in DOMAIN ProviderMasters(p, g, f) :
        \E j \in DOMAIN p.masters : p.masters[j] = ProviderMasters(p, g, f)[i]
  /\ Witness(p, g, f) /\ InertBase(p, g, f)

Undeleted(p, g, f) ==
  LET w == Current(p, g, f)
  IN  [w EXCEPT !.flags = Plain(w.flags) \union {"disabled"},
                !.base = InPlugin(p, g, f, w.base),
                !.key = IF w.key = Null THEN Null ELSE InPlugin(p, g, f, w.key),
                !.parent = Player(p), !.body = "parked"]

\* Mutant of DeletionPlan: the plan takes in live overrides too.
PlanOverrides(p, g) ==
  [f \in {x \in Overrides(p) : p.recs[x].kind = "REFR" /\ Witness(p, g, x)} |->
     Undeleted(p, g, f)]

DeletionProven(p, g) == \A f \in Stubs(p) : Undeletable(p, g, f)
DeletionPlan(p, g) == [f \in Stubs(p) |-> Undeleted(p, g, f)]

SemanticPath(p) ==
  \/ lane \in {"magicloader", "plugin_only"}
  \/ \E f \in Overrides(p) : p.recs[f].kind \notin Inventories \/ Deleted(p.recs[f])

Proven(p, g) == IF SemanticPath(p) THEN GateProven(p, g) /\ DeletionProven(p, g)
                ELSE InventoryProven(p, g)
PlanOf(p, g) == IF SemanticPath(p) THEN DeletionPlan(p, g) ELSE MergePlan(p, g)

----------------------------------------------------------------------------
(* The probe of each lane, before anything is done.                          *)

Locals(fs) == {Local(f) : f \in fs}
KeysIn(ini, ids) ==
  /\ ini.keys # <<>>
  /\ \A i, j \in DOMAIN ini.keys : ini.keys[i] = ini.keys[j] => i = j
  /\ \A i \in DOMAIN ini.keys : ini.keys[i] \in ids

(* The additive probe takes any slot beyond the masters for the plugin's.    *)
AdditiveProbe(w, g) ==
  LET p == w.plugins[1]
  IN  /\ p.copy = "none"
      /\ KeysIn(w.inis[1], Locals(DOMAIN p.recs \ Overrides(p)))
      /\ Proven(p, g)

(* The worldspace probe wants each master's own masters declared before it.  *)
WorldspaceProbe(w, g) ==
  LET p == w.plugins[1]
  IN  /\ InRange(p) /\ Installed(p, g) /\ GateProven(p, g) /\ DeletionProven(p, g)
      /\ \E f \in DOMAIN p.recs : p.recs[f].kind \in Placed
      /\ \A i \in DOMAIN p.masters : \A m \in DOMAIN g[p.masters[i]].masters :
            \E j \in 1 .. i - 1 : p.masters[j] = g[p.masters[i]].masters[m]
      /\ KeysIn(w.inis[1], Locals(Owned(p)))

(* A SyncMap is bound to the plugin of its name.                             *)
BoundTo(w, i) == {k \in DOMAIN w.plugins : w.plugins[k].name = w.inis[i].stem}
MixedProbe(w) ==
  /\ \A i \in DOMAIN w.inis : \E k \in BoundTo(w, i) : KeysIn(w.inis[i], Locals(Owned(w.plugins[k])))
  /\ \A i, j \in DOMAIN w.inis : w.inis[i].stem = w.inis[j].stem => i = j

PluginOnlyProbe(w, g) ==
  /\ Proven(w.plugins[1], g)
  /\ \A i \in DOMAIN w.inis : KeysIn(w.inis[i], Locals(Owned(w.plugins[1])))

Probe ==
  /\ pc = "probe"
  /\ pc' = IF CASE lane = "additive" -> AdditiveProbe(world, game)
                [] lane = "magicloader" -> WorldspaceProbe(world, game)
                [] lane = "mixed" -> MixedProbe(world)
                [] OTHER -> PluginOnlyProbe(world, game)
           THEN "evaluate" ELSE "refused"
  /\ UNCHANGED <<world, lane, game, at, units, candidate>>

----------------------------------------------------------------------------
(* The lane.                                                                 *)

Plugin == world.plugins[at]
More == at < Len(world.plugins)

(* One plugin after the other is evaluated against the game of that moment.  *)
Evaluate ==
  /\ pc = "evaluate"
  /\ IF (PluginOnly \/ InRange(Plugin)) /\ Proven(Plugin, game)
       THEN /\ units' = Append(units, [seen |-> game, plan |-> PlanOf(Plugin, game)])
            /\ IF More THEN at' = at + 1 /\ pc' = "evaluate" ELSE at' = 1 /\ pc' = "check"
       ELSE pc' = "refused" /\ UNCHANGED <<at, units>>
  /\ UNCHANGED <<world, lane, game, candidate>>

(* No two plugins override one record, and the runtime and every file of the *)
(* mod are accounted for.                                                    *)
DisjointOverrides(w) ==
  \A i, j \in DOMAIN w.plugins :
     i # j => {Object(w.plugins[i], f) : f \in Overrides(w.plugins[i])} \intersect
              {Object(w.plugins[j], f) : f \in Overrides(w.plugins[j])} = {}
RuntimeReady(w) ==
  /\ (w.inis # <<>> \/ lane \in {"additive", "magicloader"}) => {"ue4ss", "injector"} \subseteq w.runtime
  /\ w.scripts /\ ~PluginOnly => "ue4ss" \in w.runtime
Placeable(w) == lane = "mixed" => ~w.unplaced

CheckSet ==
  /\ pc = "check"
  /\ pc' = IF DisjointOverrides(world) /\ RuntimeReady(world) /\ Placeable(world)
           THEN "rewrite" ELSE "refused"
  /\ UNCHANGED <<world, lane, game, at, units, candidate>>

(* The planned records take the place of the source's; a plugin with a group *)
(* of no size is read but never rewritten.  On the semantic path the source  *)
(* must come back when the originals are spliced in again.                   *)
Rewritten(recs, plan) == [f \in DOMAIN recs |-> IF f \in DOMAIN plan THEN plan[f] ELSE recs[f]]
Restores(recs, plan, out) ==
  [f \in DOMAIN out |-> IF f \in DOMAIN plan THEN recs[f] ELSE out[f]] = recs

Rewrite ==
  /\ pc = "rewrite"
  /\ LET plan == units[at].plan
         out == Rewritten(Plugin.recs, plan)
     IN  IF \/ DOMAIN plan = {}
            \/ ~Plugin.hollow /\ (SemanticPath(Plugin) => Restores(Plugin.recs, plan, out))
           THEN /\ candidate' = Append(candidate, out)
                /\ IF More THEN at' = at + 1 /\ pc' = "rewrite" ELSE at' = 1 /\ pc' = "recheck"
           ELSE pc' = "refused" /\ UNCHANGED <<at, candidate>>
  /\ UNCHANGED <<world, lane, game, units>>

(* The candidate is read again: an inventory override against the records    *)
(* that were captured when it was planned, anything else through the gate    *)
(* and the game of this moment, with no deletion left.                       *)
Shipped(i) == [world.plugins[i] EXCEPT !.recs = candidate[i]]
SameIdentity(p, q) ==
  /\ Owned(p) = Owned(q) /\ DOMAIN p.recs = DOMAIN q.recs
  /\ \A f \in DOMAIN p.recs : p.recs[f].kind = q.recs[f].kind
Untouched(p, q, plan) == \A f \in DOMAIN p.recs \ DOMAIN plan : q.recs[f] = p.recs[f]
Rechecked(p, q, u) ==
  IF SemanticPath(p)
    THEN \/ PluginOnly /\ DOMAIN u.plan = {}
         \/ /\ \A f \in DOMAIN u.plan : q.recs[f] = u.plan[f]
            /\ GateProven(q, game) /\ Stubs(q) = {}
    ELSE \A f \in Overrides(p) : OnlyAdds(q, q.recs[f], Current(p, u.seen, f))

Recheck ==
  /\ pc = "recheck"
  /\ IF /\ SameIdentity(Plugin, Shipped(at))
        /\ DOMAIN units[at].plan = {} => Untouched(Plugin, Shipped(at), units[at].plan)
        /\ Rechecked(Plugin, Shipped(at), units[at])
       THEN IF More THEN at' = at + 1 /\ pc' = "recheck" ELSE at' = 1 /\ pc' = "bind"
       ELSE pc' = "refused" /\ UNCHANGED at
  /\ UNCHANGED <<world, lane, game, units, candidate>>

(* The keys of each SyncMap must name records of its plugin, and its objects *)
(* packages; the lanes for one plugin do not compare names, and the          *)
(* plugin-only lane leaves the packages to the runtime.                      *)
IniBound(w, i) ==
  LET owners == IF lane = "mixed" THEN BoundTo(w, i) ELSE {1}
  IN  /\ w.inis[i].found
      /\ \E k \in owners : owners = {k} /\ KeysIn(w.inis[i], Locals(Owned(w.plugins[k])))

Bind ==
  /\ pc = "bind"
  /\ pc' = IF PluginOnly \/ \A i \in DOMAIN world.inis : IniBound(world, i)
           THEN "published" ELSE "refused"
  /\ UNCHANGED <<world, lane, game, at, units, candidate>>

ToolFails ==
  /\ ~Ended
  /\ pc' = "refused"
  /\ UNCHANGED <<world, lane, game, at, units, candidate>>

(* The game is updated beside the run, once.                                 *)
Patch ==
  /\ ~Ended /\ game # world.patched
  /\ game' = world.patched
  /\ UNCHANGED <<world, lane, pc, at, units, candidate>>

Next == Policy \/ Probe \/ Evaluate \/ CheckSet \/ Rewrite \/ Recheck \/ Bind
          \/ ToolFails \/ Patch

Spec == Init /\ [][Next]_vars

----------------------------------------------------------------------------
(* Properties.                                                               *)

Steps == {"policy", "probe", "evaluate", "check", "rewrite", "recheck", "bind",
          "published", "refused"}

(* The variables keep their types, and every record a unit plans to replace  *)
(* is an override of its plugin.                                             *)
TypeOK ==
  /\ lane \in Lanes /\ pc \in Steps
  /\ game \in {world.game, world.patched}
  /\ at \in Nat /\ (world.plugins # <<>> => at \in DOMAIN world.plugins)
  /\ Len(units) <= Len(world.plugins) /\ Len(candidate) <= Len(units)
  /\ \A i \in DOMAIN units : /\ units[i].seen \in {world.game, world.patched}
                             /\ DOMAIN units[i].plan \subseteq Overrides(world.plugins[i])
  /\ \A i \in DOMAIN candidate : DOMAIN candidate[i] = DOMAIN world.plugins[i].recs

Published == pc = "published"

(* A published inventory override holds, as objects and not as numbers,      *)
(* every row of the winning record of the game it was planned against that   *)
(* the winner's own master list can name, and every row of its author.       *)
MergeKeepsBoth ==
  Published => \A i \in DOMAIN world.plugins :
    LET p == world.plugins[i]
        g == units[i].seen
    IN  ~SemanticPath(p) => \A f \in Overrides(p) :
          LET c == Current(p, g, f)
              rows == candidate[i][f].rows
          IN  /\ \A r \in DOMAIN p.recs[f].rows : Times(rows, r) >= p.recs[f].rows[r]
              /\ \A r \in DOMAIN c.rows : Mappable(ProviderMasters(p, g, f), r[1]) =>
                   \E s \in DOMAIN rows :
                     /\ Object(p, s[1]) = InProvider(p, g, f, r[1])
                     /\ s[2] = r[2] /\ rows[s] >= c.rows[r]

(* The disabled reference that replaces a deletion stands for the object and *)
(* the key the winning reference of the game stands for, whatever the master *)
(* lists of the two files are, and its base is of an inert kind.             *)
StubsKeepObject ==
  Published => \A i \in DOMAIN world.plugins :
    LET p == world.plugins[i]
        g == units[i].seen
    IN  \A f \in Stubs(p) :
          LET r == candidate[i][f]
              w == Current(p, g, f)
          IN  /\ ~Deleted(r) /\ "disabled" \in r.flags
              /\ Object(p, r.base) = InProvider(p, g, f, w.base)
              /\ r.key # Null => Object(p, r.key) = InProvider(p, g, f, w.key)
              /\ Object(p, r.parent) = [origin |-> Base, id |-> PlayerLocal]
              /\ InertBase(p, g, f)

(* A published plugin differs from its source only where a deletion was      *)
(* turned into a disabled reference or an inventory of the additive contract *)
(* gained rows; no override it ships is deleted, and every record of it      *)
(* keeps its number and kind.                                                *)
OnlyPlannedDiffers ==
  Published => \A i \in DOMAIN world.plugins :
    LET p == world.plugins[i]
        Differs == {f \in DOMAIN p.recs : candidate[i][f] # p.recs[f]}
    IN  /\ IF SemanticPath(p) THEN Differs = Stubs(p)
           ELSE \A f \in Differs : /\ p.recs[f].kind \in Inventories
                                   /\ candidate[i][f] = [p.recs[f] EXCEPT !.rows = candidate[i][f].rows]
        /\ \A f \in Overrides(p) : ~Deleted(candidate[i][f])
        /\ \A f \in DOMAIN p.recs : candidate[i][f].kind = p.recs[f].kind
=============================================================================
