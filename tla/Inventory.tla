----------------------------- MODULE Inventory -----------------------------
(***************************************************************************)
(* InventoryBuilder of src/preflight.rs: what the analysis knows of the    *)
(* selected mod before it opens a file.  A file is known by where it lies  *)
(* and what its name makes it; the builder counts the files, finds the     *)
(* root they share, and gives the mod one classification.                  *)
(***************************************************************************)
EXTENDS Naturals, FiniteSets

CONSTANT MaxScanEntries  \* files an inventory may count

ASSUME InventoryAssumption == MaxScanEntries \in Nat

\* "data" lies below Content/Dev/ObvData/Data of its root, "paks" below
\* Content/Paks; elsewhere a file has no root.  "esm" stands for ESM and ESL,
\* "sidecar" for a JSON directly in Data/MagicLoader, "asset" for a loose file
\* that is neither a document nor known.
Kind == {"esp", "esm", "syncmap", "pak", "ucas", "utoc", "script", "document",
         "sidecar", "asset"}
Part == {"pak", "ucas", "utoc"}

Of(files, kinds) == {f \in files : f.kind \in kinds}
Plugins(files) == Of(files, {"esp", "esm"})
Loose(files) == files \ (Plugins(files) \cup Of(files, Part \cup {"syncmap"}))
RootsOf(files, plane) == {f.root : f \in {g \in files : g.plane = plane}}

PartGroup(f) == <<f.plane, f.root, f.stem>>
Groups(files) == {PartGroup(f) : f \in Of(files, Part)}
Triples(files) ==
    {g \in Groups(files) :
        \A part \in Part : \E f \in files : f.kind = part /\ PartGroup(f) = g}

\* Plugins alone need a Data folder, everything else both planes in one root.
CandidateRoots(files) ==
    IF /\ Plugins(files) # {} /\ Groups(files) = {} /\ Of(files, {"script"}) = {}
       /\ RootsOf(files, "paks") = {}
    THEN RootsOf(files, "data")
    ELSE RootsOf(files, "data") \cap RootsOf(files, "paks")

\* Sidecars count for the one candidate root; others are functional loose files.
Sidecars(files) ==
    {f \in Of(files, {"sidecar"}) : CandidateRoots(files) = {f.root}}
Functional(files) ==
    Of(files, {"script", "asset", "sidecar"}) \ Sidecars(files)

SyncMapShape(files) ==
    /\ Cardinality(CandidateRoots(files)) = 1
    /\ Cardinality(Of(files, {"esp"})) = 1 /\ Cardinality(Plugins(files)) = 1
    /\ Cardinality(Of(files, {"syncmap"})) = 1
    /\ Triples(files) # {} /\ Triples(files) = Groups(files)
    /\ Functional(files) = {}

Classification(files) ==
    LET scripts == Of(files, {"script"}) # {}
        plugins == Plugins(files) # {}
        containers == Groups(files) # {}
    IN  CASE SyncMapShape(files) ->
                IF Sidecars(files) = {} THEN "additive-syncmap-iostore"
                                        ELSE "magicloader-syncmap-iostore"
          [] scripts /\ ~plugins /\ ~containers -> "script-or-loader"
          [] ~scripts /\ plugins /\ ~containers -> "plugin-only"
          [] ~scripts /\ ~plugins /\ containers -> "unreal-container-only"
          [] ~SyncMapShape(files) /\ Cardinality({b \in {1, 2, 3} :
                <<scripts, plugins, containers>>[b]}) > 1 -> "mixed-mod"
          [] OTHER -> IF files # {} THEN "loose-files-or-unknown" ELSE "empty"

\* What finish() reports of the files that were counted.
InventoryOf(files, mod) ==
    [class      |-> Classification(files),
     files      |-> Cardinality(files),
     loose      |-> Cardinality(Loose(files)),
     functional |-> Cardinality(Functional(files)),
     esps       |-> Cardinality(Of(files, {"esp"})),
     plugins    |-> Cardinality(Plugins(files)),
     syncmaps   |-> Cardinality(Of(files, {"syncmap"})),
     triples    |-> Cardinality(Triples(files)),
     incomplete |-> Cardinality(Groups(files) \ Triples(files)),
     sidecars   |-> Cardinality(Sidecars(files)),
     roots      |-> Cardinality(CandidateRoots(files)),
     links      |-> mod.links,
     oversize   |-> mod.oversize,
     truncated  |-> Cardinality(mod.files) > MaxScanEntries]

\* Counting stops at the bound: which files were seen depends on the walk.
Inventories(mod) ==
    IF Cardinality(mod.files) <= MaxScanEntries
    THEN {InventoryOf(mod.files, mod)}
    ELSE {InventoryOf(seen, mod) :
            seen \in {s \in SUBSET mod.files : Cardinality(s) = MaxScanEntries}}

-----------------------------------------------------------------------------
(* The shapes analyze_internal derives from an inventory. *)

Bounded(inv) == ~inv.links /\ ~inv.truncated

AdditiveLayout(inv) ==
    inv.class = "additive-syncmap-iostore" /\ inv.incomplete = 0 /\ Bounded(inv)

MagicLoaderLayout(inv) ==
    /\ inv.class = "magicloader-syncmap-iostore" /\ inv.sidecars > 0
    /\ inv.incomplete = 0 /\ Bounded(inv)

MixedCompositeLayout(inv) ==
    /\ inv.class = "mixed-mod" /\ inv.roots = 1
    /\ inv.esps >= 1 /\ inv.plugins = inv.esps
    /\ inv.triples > 0 /\ inv.incomplete = 0
    /\ inv.sidecars = 0 /\ Bounded(inv)

PluginOnlyLayout(inv) == inv.class = "plugin-only" /\ Bounded(inv)

ContainerOnlyShape(inv) ==
    /\ inv.class = "unreal-container-only" /\ inv.triples > 0 /\ inv.incomplete = 0
    /\ Bounded(inv) /\ inv.functional = 0

PakOnlyShape(inv) ==
    /\ inv.class = "unreal-container-only" /\ inv.triples = 0 /\ inv.incomplete > 0
    /\ Bounded(inv) /\ inv.functional = 0

ReplacementShape(inv) ==
    ContainerOnlyShape(inv) /\ inv.files = 3 * inv.triples + inv.loose

NeedsPlan(inv) ==
    /\ inv.roots = 0 /\ ~inv.truncated
    /\ inv.class \in {"mixed-mod", "loose-files-or-unknown"}
=============================================================================
