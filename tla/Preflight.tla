----------------------------- MODULE Preflight -----------------------------
(***************************************************************************)
(* analyze_internal of src/preflight.rs and the worker of src/updater.rs   *)
(* that acts on its report.                                                *)
(*                                                                         *)
(* The analysis takes an inventory of the selected mod; a mod in no known  *)
(* layout is mapped to a logical view and that view analysed by the same   *)
(* function, once.  Which probes run depends on the shape of the mod; what *)
(* they find is chosen here, within what the game at hand allows.  The     *)
(* checks then name their blockers, every adapter asks for its own gates,  *)
(* and the report selects one.  The worker writes the report and goes on   *)
(* into the update when the report allows it.                              *)
(***************************************************************************)
EXTENDS Inventory, Sequences

CONSTANTS
    Mods,   \* mods that may be selected
    Setups, \* the other selections: game, output, source folder, runtime tools
    Views   \* logical views a layout may be resolved to

VARIABLES
    stage,   \* stage of the analysis, then of the worker
    request, \* what was selected
    report,  \* what this analysis has found
    outer,   \* the analysis this one serves, if any
    verdict, \* what the last analysis to end decided
    approved \* of a wrapped adapter: the verdict its publication must reproduce

analysisVars == <<stage, request, report, outer, verdict, approved>>

\* Where the output folder lies, and which game folder was connected.
Output == {"missing", "in-source", "in-game", "apart"}
Game == {"none", "incomplete", "complete"}

Setup == [game : Game, output : Output, active : BOOLEAN, tools : BOOLEAN]

ASSUME SetupAssumption ==
    /\ Setups \subseteq Setup
    /\ \A s \in Setups : s.active \/ s.output = "in-game" => s.game # "none"

Request(mod, setup) ==
    [mod |-> mod, game |-> setup.game, output |-> setup.output,
     active |-> setup.active, tools |-> setup.tools]

ReplacementProbes ==
    {"armor", "mixed-armor", "texture", "static-mesh", "heterogeneous", "composite"}
DirectAdapters ==
    ReplacementProbes \cup {"additive-syncmap", "mixed-composite",
        "magicloader-worldspace", "plugin-only", "pak-only", "container-only"}
NoAdapter == [wrap |-> FALSE, id |-> "none"]

\* An unresolved dependency edge is recovered by an identity alias, or has an
\* authored name, or has neither; a probe reports the classes of its edges.
Edges == SUBSET {"recovered", "named", "plain"}
NoProbe == [ran |-> FALSE, collides |-> FALSE, unresolved |-> {}]
Probes(recoverable) ==
    {NoProbe} \cup [ran : {TRUE}, collides : BOOLEAN,
                    unresolved : {e \in Edges : "recovered" \in e => recoverable}]

EmptyReport ==
    [inv |-> [class |-> "unread"],
     plan |-> "none", nested |-> <<>>,
     plugins |-> "none", policy |-> FALSE, contract |-> FALSE, worldspace |-> FALSE,
     bindings |-> FALSE, keys |-> FALSE, direct |-> FALSE,
     mixed |-> NoProbe, edges |-> {}, layered |-> "none",
     lane |-> "none", probe |-> "none", composite |-> FALSE]

NoVerdict == [adapter |-> NoAdapter, canUpdate |-> FALSE, blockers |-> {}, failed |-> {}, warned |-> FALSE,
              code |-> "none", capable |-> {}, syncs |-> FALSE, plan |-> "none"]

AnalysisInit ==
    /\ stage = "scan" /\ report = EmptyReport
    /\ \E mod \in Mods, setup \in Setups : request = Request(mod, setup)
    /\ outer = <<>> /\ verdict = NoVerdict /\ approved = <<>>

\* An inventory that was not read has no class, and so none of the shapes.
Inv == report.inv
Read == Inv.class # "unread"
GameValid == request.game = "complete"

Then(next) == stage' = next /\ UNCHANGED <<request, outer, verdict, approved>>

-----------------------------------------------------------------------------
(* Reading the mod. *)

\* The input is missing, unreadable, or names a path outside its folder.
ScanFails ==
    /\ stage = "scan" /\ UNCHANGED report /\ Then("decide")

Scan ==
    /\ stage = "scan"
    /\ \E inv \in Inventories(request.mod) : report' = [report EXCEPT !.inv = inv]
    /\ Then("plan")

\* Mutant of WantsPlan: the derived view is planned again.
WantsPlanAgain == NeedsPlan(Inv)

\* Only the selected mod is planned, its logical view is not.
WantsPlan == outer = <<>> /\ NeedsPlan(Inv)

NoPlan ==
    /\ stage = "plan" /\ ~WantsPlan /\ UNCHANGED report /\ Then("plugins")

PlanFails ==
    /\ stage = "plan" /\ WantsPlan
    /\ report' = [report EXCEPT !.plan = "failed"]
    /\ Then("plugins")

\* A plan has no option groups, only forced ones, or a real choice; its view
\* is analysed in place of the mod.
Plan ==
    /\ stage = "plan" /\ WantsPlan
    /\ \E plan \in {"free", "forced", "open"} :
          outer' = <<[request |-> request, report |-> [report EXCEPT !.plan = plan]]>>
    /\ \E view \in Views :
          request' = [request EXCEPT !.mod = view, !.active = FALSE,
                         !.output = IF @ = "in-source" THEN "apart" ELSE @]
    /\ report' = EmptyReport /\ stage' = "scan" /\ UNCHANGED <<verdict, approved>>

-----------------------------------------------------------------------------
(* Inspecting the plugins. *)

HasPlugins == Inv.plugins > 0

\* What the plugin set may be found to be; its single-plugin policy presumes a
\* set without blockers.  The contract is asked for in the additive layout
\* only, the worldspace gates in the MagicLoader layout only.
PluginFindings ==
    IF ~HasPlugins THEN {<<"none", FALSE>>}
    ELSE IF Inv.truncated THEN {<<"unavailable", FALSE>>}
    ELSE {<<"unavailable", FALSE>>, <<"blocked", FALSE>>,
          <<"complete", FALSE>>, <<"complete", TRUE>>}

InspectPlugins ==
    /\ stage = "plugins"
    /\ \E f \in PluginFindings, contract, worldspace, bindings, keys \in BOOLEAN :
          /\ contract => AdditiveLayout(Inv) /\ f[1] # "unavailable"
          /\ worldspace => MagicLoaderLayout(Inv) /\ request.game # "none"
          /\ bindings => MixedCompositeLayout(Inv)
          /\ keys => MagicLoaderLayout(Inv)
          /\ report' = [report EXCEPT !.plugins = f[1], !.policy = f[2],
                          !.contract = contract, !.worldspace = worldspace,
                          !.bindings = bindings, !.keys = keys]
    /\ Then("packages")

AdditiveShape == AdditiveLayout(Inv) /\ report.policy /\ report.contract

MixedPluginPlane == MixedCompositeLayout(Inv) /\ report.plugins = "complete" /\ report.policy

MixedCompositeShape == MixedPluginPlane /\ report.bindings

-----------------------------------------------------------------------------
(* Tracing the packages. *)

\* The mixed probe serves the layouts with a plugin plane; aliases are looked
\* for in the MagicLoader layout only.
MixedFindings ==
    IF GameValid /\ (AdditiveLayout(Inv) \/ MagicLoaderLayout(Inv) \/ MixedCompositeLayout(Inv))
    THEN Probes(MagicLoaderLayout(Inv)) ELSE {NoProbe}

ReplacementEdges == IF GameValid /\ ReplacementShape(Inv) THEN Edges ELSE {{}}

ProbePackages ==
    /\ stage = "packages"
    /\ \E p \in MixedFindings, e \in ReplacementEdges :
       \E direct \in {d \in BOOLEAN : d => p.ran /\ AdditiveLayout(Inv)} :
          report' = [report EXCEPT !.mixed = p, !.direct = direct, !.edges = e]
    /\ Then("layers")

\* Unresolved edges are looked up again in every layer of providers.
ProbeLayers ==
    /\ stage = "layers"
    /\ \E found \in {"none", "unavailable", "complete", "incomplete", "ambiguous"} :
          /\ (found # "none") <=> (report.edges # {} \/ report.mixed.unresolved # {})
          /\ report' = [report EXCEPT !.layered = found]
    /\ Then("classify")

LeavesEdges == report.mixed.ran /\ report.mixed.unresolved # {}
Recovered == LeavesEdges /\ report.mixed.unresolved \subseteq {"recovered"}
Disclosed == LeavesEdges /\ ~Recovered /\ report.mixed.unresolved \subseteq {"recovered", "named"}
Accepted == Recovered \/ Disclosed

\* Mutant of ClosureProven: an unresolved edge without a name passes.
ClosureAssumed == report.mixed.ran

ClosureProven == report.mixed.ran /\ (~LeavesEdges \/ Accepted)

-----------------------------------------------------------------------------
(* Classifying what the mod replaces. *)

\* Loose files outside the Data plane block the plugin-only lane, whatever its
\* own gates say; the lane needs the plugins of a complete game.
PluginOnlyFindings ==
    IF ~PluginOnlyLayout(Inv) THEN {"none"}
    ELSE IF Inv.functional > 0 \/ ~GameValid THEN {"blocked"}
    ELSE {"blocked", "proven", "proven-with-syncmap"}

ProbeFindings ==
    IF ReplacementShape(Inv) /\ ~request.active /\ GameValid
    THEN {"none"} \cup ReplacementProbes ELSE {"none"}

CompositeFindings ==
    IF (AdditiveShape \/ MixedCompositeShape) /\ ~request.active /\ GameValid
    THEN BOOLEAN ELSE {FALSE}

\* The probes are tried in the order of ReplacementProbes until one accepts;
\* plugin mods are asked for a composite migration.
Classify ==
    /\ stage = "classify"
    /\ \E lane \in PluginOnlyFindings, probe \in ProbeFindings,
          composite \in CompositeFindings :
          report' = [report EXCEPT !.lane = lane, !.probe = probe, !.composite = composite]
    /\ Then("decide")

LaneProven == report.lane \in {"proven", "proven-with-syncmap"}
CompositeProbe == report.composite \/ report.probe = "composite"

MagicLoaderGates ==
    /\ MagicLoaderLayout(Inv) /\ report.worldspace /\ report.keys
    /\ ClosureProven /\ ~report.mixed.collides /\ GameValid

NestedAdapter == IF report.nested = <<>> THEN "none" ELSE report.nested[1].adapter.id
NestedMatched == report.nested # <<>> /\ report.nested[1].canUpdate

RequiresAdapter ==
    AdditiveLayout(Inv) \/ ReplacementShape(Inv) \/ NestedMatched \/ MixedCompositeShape

\* Mutant of RequiresRuntime: the MagicLoader lane brings its own runtime.
RequiresRuntimeOfOthers ==
    \/ AdditiveShape \/ MixedCompositeShape
    \/ NestedAdapter \in {"additive-syncmap", "mixed-composite"}
    \/ report.lane = "proven-with-syncmap"

RequiresRuntime ==
    \/ AdditiveShape \/ MixedCompositeShape \/ MagicLoaderGates
    \/ NestedAdapter \in {"additive-syncmap", "mixed-composite"}
    \/ report.lane = "proven-with-syncmap"

-----------------------------------------------------------------------------
(* The checks. *)

Isolated == request.output = "apart"

\* The checks every input must pass.
InputChecks ==
    {c \in {"mod-input-readable", "inventory-complete", "archive-links-absent",
            "declared-size-bounded", "source-is-not-active-game-mods"} :
        CASE c = "mod-input-readable" -> ~Read
          [] c = "inventory-complete" -> ~Read \/ Inv.truncated
          [] c = "archive-links-absent" -> ~Read \/ Inv.links
          [] c = "declared-size-bounded" -> ~Read \/ Inv.oversize
          [] OTHER -> request.active}

\* The checks that block only when an adapter needs what they look for.
SetupChecks ==
    {c \in {"game-install", "output-folder", "output-isolated", "runtime-connection"} :
        CASE c = "game-install" -> RequiresAdapter /\ ~GameValid
          [] c = "output-folder" -> RequiresAdapter /\ request.output = "missing"
          [] c = "output-isolated" -> RequiresAdapter /\ ~Isolated
          [] OTHER -> RequiresRuntime /\ ~request.tools}

\* The checks of the additive lane: its plugin, then its containers.
PluginPolicyChecks ==
    IF AdditiveLayout(Inv)
    THEN {c \in {"plugin-structural-safety", "plugin-additive-syncmap-policy",
                 "additive-plugin-syncmap-contract"} :
              CASE c = "plugin-structural-safety" -> report.plugins # "complete"
                [] c = "plugin-additive-syncmap-policy" -> ~report.policy
                [] OTHER -> ~report.contract}
    ELSE {}

AdditiveChecks ==
    IF AdditiveLayout(Inv)
    THEN {c \in {"additive-container-layout", "additive-iostore-dependency-closure"} :
              IF c = "additive-container-layout" THEN ~report.direct
              ELSE ~ClosureProven /\ ~CompositeProbe}
    ELSE {}

MixedCompositeChecks ==
    IF MixedCompositeLayout(Inv)
    THEN {c \in {"mixed-composite-plugin-plane", "mixed-composite-syncmap-binding",
                 "mixed-composite-iostore-dependency-closure"} :
              CASE c = "mixed-composite-plugin-plane" -> ~MixedPluginPlane
                [] c = "mixed-composite-syncmap-binding" -> ~report.bindings
                [] OTHER -> ~ClosureProven /\ ~CompositeProbe}
    ELSE {}

MagicLoaderChecks ==
    IF MagicLoaderLayout(Inv) /\ ~MagicLoaderGates
    THEN {"magicloader-worldspace-gate"} ELSE {}

ReplacementChecks ==
    IF ReplacementShape(Inv) /\ report.probe = "none" THEN {"replacement-contract"} ELSE {}

AdapterBlockers ==
    InputChecks \cup SetupChecks \cup PluginPolicyChecks \cup AdditiveChecks
    \cup MixedCompositeChecks \cup MagicLoaderChecks \cup ReplacementChecks

-----------------------------------------------------------------------------
(* The adapters and the one that is selected. *)

DependenciesClosed == ClosureProven \/ ((AdditiveShape \/ MixedCompositeShape) /\ CompositeProbe)

\* A replacement adapter needs its own probe.  A container that no probe
\* recognised is copied as it is, the contract it failed notwithstanding.
CanUpdate(adapter, blockers) ==
    CASE adapter = "additive-syncmap" ->
            AdditiveShape /\ DependenciesClosed /\ blockers = {}
      [] adapter = "mixed-composite" ->
            MixedCompositeShape /\ DependenciesClosed /\ blockers = {}
      [] adapter = "magicloader-worldspace" -> MagicLoaderGates /\ blockers = {}
      [] adapter \in ReplacementProbes ->
            ReplacementShape(Inv) /\ report.probe = adapter /\ blockers = {}
      [] adapter = "plugin-only" -> LaneProven /\ blockers = {}
      [] adapter = "pak-only" -> PakOnlyShape(Inv) /\ blockers = {}
      [] OTHER -> /\ ContainerOnlyShape(Inv)
                  /\ ~(report.mixed.ran /\ report.mixed.collides)
                  /\ ~(report.probe # "none" /\ ReplacementShape(Inv) /\ blockers = {})
                  /\ blockers \subseteq {"replacement-contract"}

Capable(blockers) == {a \in DirectAdapters : CanUpdate(a, blockers)}

\* supports_logical_install_publication: no group leaves a choice.
Publishable == report.plan \in {"free", "forced"}

LogicalCanUpdate(blockers) == Publishable /\ NestedMatched /\ blockers = {}

\* The order in which analyze_internal asks the direct adapters.
Preference == <<"additive-syncmap", "mixed-composite", "magicloader-worldspace",
    "armor", "mixed-armor", "texture", "static-mesh", "heterogeneous", "composite",
    "plugin-only", "pak-only", "container-only">>

SelectedAdapter(capable, logical) ==
    IF capable # {}
    THEN LET first == CHOOSE i \in DOMAIN Preference :
                         /\ Preference[i] \in capable
                         /\ \A j \in 1 .. i - 1 : Preference[j] \notin capable
         IN  [wrap |-> FALSE, id |-> Preference[first]]
    ELSE IF logical THEN [wrap |-> TRUE, id |-> NestedAdapter] ELSE NoAdapter

\* An accepted set of unresolved edges takes the unresolved edges of the layers
\* from the blockers of the report, never their ambiguities.
LayerBlockers ==
    CASE report.layered = "ambiguous" -> {"ambiguous-layered-providers"}
      [] report.layered = "incomplete" ->
            IF Accepted \/ ~LeavesEdges THEN {} ELSE {"unresolved-layered-dependencies"}
      [] OTHER -> {}

DispositionBlockers(blockers, logical) ==
    blockers \cup LayerBlockers
    \cup (IF report.lane = "blocked" THEN {"plugin-only-lane"} ELSE {})
    \cup (IF report.plugins \in {"unavailable", "blocked"} THEN {"plugin-blockers"} ELSE {})
    \cup (IF report.nested = <<>> THEN {} ELSE report.nested[1].blockers)
    \cup (IF report.nested # <<>> /\ ~logical
          THEN {"logical-install-publication"} ELSE {})

DispositionCode ==
    IF ~Read THEN "input-error"
    ELSE IF report.layered \in {"incomplete", "ambiguous"} /\ ~Accepted /\ LeavesEdges
         THEN "dependency-closure-unresolved"
    ELSE IF report.plugins \in {"unavailable", "blocked"} THEN "plugin-review-required"
    ELSE IF report.lane = "blocked" THEN "plugin-only-lane-blocked"
    ELSE IF report.nested # <<>> THEN "install-layout-resolved-report-only"
    ELSE "unsupported-structural-content"

\* Mutant of NoAdapterWarning: a proven PAK lane is not asked.
NoAdapterWarningButPak(capable) ==
    /\ Read /\ ~AdditiveShape /\ ~MagicLoaderGates /\ ~LaneProven
    /\ "container-only" \notin capable
    /\ ~MixedCompositeLayout(Inv) /\ report.probe = "none" /\ ~report.composite
    /\ ~NestedMatched

\* "No proven mutation adapter matches it.  No update will be attempted."
NoAdapterWarning(capable) ==
    /\ Read /\ ~AdditiveShape /\ ~MagicLoaderGates /\ ~LaneProven
    /\ ~PakOnlyShape(Inv) /\ "container-only" \notin capable
    /\ ~MixedCompositeLayout(Inv) /\ report.probe = "none" /\ ~report.composite
    /\ ~NestedMatched

\* Whether what is converted has SyncMap entries for the injector to serve.
Syncs(adapter) ==
    IF adapter.wrap THEN report.nested[1].syncs
    ELSE \/ adapter.id \in {"additive-syncmap", "mixed-composite", "magicloader-worldspace"}
         \/ adapter.id = "plugin-only" /\ report.lane = "proven-with-syncmap"

Decide ==
    /\ stage = "decide"
    /\ \E blockers \in {AdapterBlockers} : \E capable \in {Capable(blockers)} :
       \E logical \in {LogicalCanUpdate(blockers)} :
       \E adapter \in {SelectedAdapter(capable, logical)} :
          verdict' = [adapter |-> adapter, canUpdate |-> capable # {} \/ logical,
                      blockers |-> DispositionBlockers(blockers, logical),
                      failed |-> blockers, capable |-> capable,
                      warned |-> NoAdapterWarning(capable),
                      code |-> IF capable # {} \/ logical
                               THEN "guarded-update-candidate" ELSE DispositionCode,
                      syncs |-> Syncs(adapter), plan |-> report.plan]
    /\ stage' = "decided" /\ report' = EmptyReport
    /\ UNCHANGED <<request, outer, approved>>

\* The analysis of the view ends and that of the mod goes on.
Return ==
    /\ stage = "decided" /\ outer # <<>>
    /\ report' = [outer[1].report EXCEPT !.nested =
                   <<[adapter |-> verdict.adapter, canUpdate |-> verdict.canUpdate,
                      blockers |-> verdict.blockers, syncs |-> verdict.syncs]>>]
    /\ request' = outer[1].request
    /\ outer' = <<>> /\ verdict' = NoVerdict /\ stage' = "plugins"
    /\ UNCHANGED approved

-----------------------------------------------------------------------------
(* What the worker of the window does with the report. *)

\* Mutant of WriteReport: the report is written wherever the output lies.
WriteReportAnywhere ==
    /\ stage = "decided" /\ outer = <<>> /\ approved = <<>>
    /\ stage' = IF request.output = "missing" THEN "failed" ELSE "written"
    /\ UNCHANGED <<request, report, outer, verdict, approved>>

\* write_report refuses an output inside the mod or the game.
WriteReport ==
    /\ stage = "decided" /\ outer = <<>> /\ approved = <<>>
    /\ stage' = IF Isolated THEN "written" ELSE "failed"
    /\ UNCHANGED <<request, report, outer, verdict, approved>>

ReportOnly ==
    /\ stage = "written" /\ ~verdict.canUpdate /\ stage' = "report-only"
    /\ UNCHANGED <<request, report, outer, verdict, approved>>

Update ==
    /\ stage = "written" /\ verdict.canUpdate
    /\ stage' = IF verdict.adapter = NoAdapter THEN "failed" ELSE "update"
    /\ UNCHANGED <<request, report, outer, verdict, approved>>

\* Mutant of Reanalyse: every adapter is analysed again.
ReanalyseAny ==
    /\ stage = "update" /\ approved = <<>>
    /\ approved' = <<[adapter |-> verdict.adapter, plan |-> verdict.plan,
                      blockers |-> verdict.blockers]>>
    /\ verdict' = NoVerdict /\ report' = EmptyReport
    /\ stage' = "scan" /\ UNCHANGED <<request, outer>>

\* run_logical_install_update analyses the mod afresh before it publishes.
Reanalyse ==
    /\ stage = "update" /\ verdict.adapter.wrap
    /\ approved' = <<[adapter |-> verdict.adapter, plan |-> verdict.plan,
                      blockers |-> verdict.blockers]>>
    /\ verdict' = NoVerdict /\ report' = EmptyReport
    /\ stage' = "scan" /\ UNCHANGED <<request, outer>>

\* The fresh analysis must select the same adapter and resolve the same plan.
Publish ==
    /\ stage = "decided" /\ outer = <<>> /\ approved # <<>>
    /\ stage' = IF /\ verdict.canUpdate /\ verdict.adapter = approved[1].adapter
                /\ verdict.plan = approved[1].plan
             THEN "published" ELSE "failed"
    /\ UNCHANGED <<request, report, outer, verdict, approved>>

-----------------------------------------------------------------------------
Analyse ==
    \/ ScanFails \/ Scan \/ NoPlan \/ PlanFails \/ Plan \/ InspectPlugins
    \/ ProbePackages \/ ProbeLayers \/ Classify \/ Decide \/ Return

AnalysisNext == Analyse \/ WriteReport \/ ReportOnly \/ Update \/ Reanalyse \/ Publish

AnalysisSpec == AnalysisInit /\ [][AnalysisNext]_analysisVars

(* The worker runs on: nothing it does waits for the user. *)
FairAnalysisSpec == AnalysisSpec /\ WF_analysisVars(AnalysisNext)

-----------------------------------------------------------------------------
Adapter == [wrap : BOOLEAN, id : DirectAdapters \cup {"none"}]
Ends == {"failed", "report-only", "update", "published"}

AnalysisTypeOK ==
    /\ stage \in {"scan", "plan", "plugins", "packages", "layers", "classify", "decide",
               "decided", "written"} \cup Ends
    /\ request.game \in Game /\ request.output \in Output
    /\ request.active \in BOOLEAN /\ request.tools \in BOOLEAN
    /\ verdict.adapter \in Adapter /\ verdict.capable \subseteq DirectAdapters
    /\ outer = <<>> \/ (Len(outer) = 1 /\ outer[1].report.nested = <<>>)
    /\ approved = <<>> \/ (Len(approved) = 1 /\ approved[1].adapter.wrap)

(***************************************************************************)
(* Twelve flags, each computed from its own gates, and a chain of else-ifs *)
(* that names the first: whatever the mod, at most one direct adapter      *)
(* holds itself capable, an update is allowed exactly when one is          *)
(* selected, the direct one selected is the capable one, and no report     *)
(* both allows an update and warns that none will be attempted.            *)
(***************************************************************************)
AdapterIsUnique ==
    stage = "decided" =>
        /\ Cardinality(verdict.capable) <= 1
        /\ verdict.canUpdate <=> verdict.adapter # NoAdapter
        /\ ~verdict.adapter.wrap /\ verdict.canUpdate => verdict.capable = {verdict.adapter.id}
        /\ ~(verdict.canUpdate /\ verdict.warned)

(***************************************************************************)
(* An update runs only with its output apart from the mod and the game and *)
(* on a mod that is not the active ~mods folder.  The MagicLoader, plugin  *)
(* and PAK lanes do not ask for the first: it is write_report that stops.  *)
(***************************************************************************)
OutputApart ==
    stage \in {"update", "published"} => request.output = "apart" /\ ~request.active

(***************************************************************************)
(* A mod whose SyncMap the injector must serve is converted only when the  *)
(* runtime tools are installed or connected, in a wrapper layout as well.  *)
(***************************************************************************)
UpdateHasRuntime ==
    stage \in {"update", "published"} /\ verdict.syncs => request.tools

(***************************************************************************)
(* "Unresolved package IDs are never dropped automatically": an edge that  *)
(* has no alias and no authored name leaves no adapter with a plugin plane *)
(* capable, unless the composite probe proved a repair.                    *)
(***************************************************************************)
NamelessEdgeStops ==
    stage = "decide" /\ "plain" \in report.mixed.unresolved /\ ~CompositeProbe
        => Capable(AdapterBlockers) \cap {"additive-syncmap", "mixed-composite", "magicloader-worldspace"} = {}

(***************************************************************************)
(* The analysis of a view serves the analysis of a mod and is not planned  *)
(* again, even when the view has no known layout: every analysis ends, and *)
(* the worker with it, or the wrapped update goes on to its publication.   *)
(***************************************************************************)
Reports == <>(stage \in Ends)
=============================================================================
