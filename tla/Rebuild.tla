------------------------------ MODULE Rebuild -------------------------------
(* The rebuild of a mod's containers against the current game: the composite *)
(* lane (run_composite_package_update) and the package half of the additive  *)
(* lane (run_native_update_sync_inner), with the extraction discipline of    *)
(* replacement.rs and the import repairs of uasset.rs they share.            *)
(*                                                                           *)
(* A package has the content of its exports (uasset and uexp) and a bulk     *)
(* payload in sidecars (ubulk and uptnl).  Each is a number: 0 is the        *)
(* current game's, another one is some author's.  The external tools (retoc, *)
(* the UAsset converter) may fail at any step; to-zen may drop a package,    *)
(* lose an import or change a payload; a merged view may hand back any copy  *)
(* of either, or the game's, as the comments of replacement.rs describe.     *)
(* A world also says                                                         *)
(*   authored, bulk   what each container holds for each of its packages     *)
(*   stale     imports whose object the current package no longer exports    *)
(*   skeleton, physics   what a mesh's current donor refers to               *)
(*   slots     meshes whose slot names tell their unresolved imports apart   *)
(*   shaped    packages with the export topology of the current template     *)
(*   unsound   files that are not complete, distinctly named containers      *)
(*   disagree  repeated packages whose rows or paths differ                  *)
(*   moved     packages whose path and package ID disagree with the game's   *)
(*   respelt   packages authored under another project root                  *)
(*   installed package IDs another installed mod overrides                   *)
EXTENDS IdentityRecovery

CONSTANTS Worlds, Lanes, Corrupt

ASSUME LanesAssumption == Lanes \subseteq {"composite", "additive"}
ASSUME CorruptAssumption == Corrupt \in Nat \ {0}

(* A mod has a container; the packages of the game import packages of the    *)
(* game; what a donor mesh refers to is imported by it.                      *)
IsWorld(w) ==
  /\ w.conts \in Seq(SUBSET Src(w)) /\ w.conts # <<>>
  /\ \A i \in DOMAIN w.conts : \A p \in w.conts[i] : {w.authored[i][p], w.bulk[i][p]} \subseteq Nat
  /\ \A p \in w.game : w.cur[p] \subseteq w.game
  /\ \A p \in Src(w) \intersect w.game :
       w.kind[p] = "SkeletalMesh" => {w.skeleton[p]} \union w.physics[p] \subseteq w.cur[p]

ASSUME WorldsAssumption == \A w \in Worlds : IsWorld(w)

VARIABLES
  world, lane,  \* what is rebuilt, and by which lane
  step, at, todo, \* the step, the container it works on, the packages left
  legacy,       \* the extracted packages of this container
  expected,     \* the imports each migrated package must come out with
  repairs,      \* the skeletal repairs of the whole mod
  zen,          \* what to-zen made of this container
  built,        \* the containers made so far
  candidate,    \* the containers copied to the candidate
  shipped,      \* the aliases copied beside them
  unproven,     \* packages of the game no comparison with a donor told from it
  unchecked     \* packages of the game whose bulk came from a view that holds it

rebuildVars == <<world, lane, step, at, todo, legacy, expected, repairs, zen, built,
                 candidate, shipped, unproven, unchecked>>

None == [x \in {} |-> x]
With(f, p, v) == [q \in DOMAIN f \union {p} |-> IF q = p THEN v ELSE f[q]]
Composite == lane = "composite"
Contents(w) == w.conts[at]
Existing(p) == p \in world.game
Holders(w, p) == {i \in DOMAIN w.conts : p \in w.conts[i]}
Mounted(w) == Src(w) \union PersistentIds(w) \union TemporaryIds(w)

RebuildInit ==
  /\ world \in Worlds /\ lane \in Lanes
  /\ step = "inspect" /\ at = 1 /\ todo = {}
  /\ legacy = None /\ expected = None /\ repairs = None /\ zen = None
  /\ built = <<>> /\ candidate = <<>> /\ shipped = {}
  /\ unproven = {} /\ unchecked = {}

Ended == step \in {"done", "refused"}

(* A tool that fails, or a repair that cannot prove what it needs.           *)
ToolFails ==
  /\ ~Ended
  /\ step' = "refused"
  /\ UNCHANGED <<world, lane, at, todo, legacy, expected, repairs, zen, built,
                 candidate, shipped, unproven, unchecked>>

----------------------------------------------------------------------------
(* Inspection and recovery.                                                  *)

WholeContainers(w) == w.unsound = {}
Pooled(w) == w.disagree = {}
Identified(w) == w.moved = {}
FewMissing(w) == \A p \in Src(w) : Cardinality(MissingOf(w, p)) <= 2

(* The additive lane looks the authored paths up in the game and asks for    *)
(* unique rows; the composite lane asks what other mods override.            *)
AdditiveProbe(w) == (Src(w) \intersect w.game) \subseteq w.respelt
Unrepeated(w) == \A p \in Src(w) : One(Holders(w, p))
NoInstalledCollision(w) == Src(w) \intersect w.installed = {}

Inspect ==
  /\ step = "inspect"
  /\ LET w == world
         admitted == /\ WholeContainers(w) /\ Pooled(w) /\ Identified(w) /\ FewMissing(w)
                     /\ IF Composite THEN NoInstalledCollision(w)
                        ELSE AdditiveProbe(w) /\ Unrepeated(w)
     IN  step' = IF admitted THEN "recover" ELSE "refused"
  /\ UNCHANGED <<world, lane, at, todo, legacy, expected, repairs, zen, built,
                 candidate, shipped, unproven, unchecked>>

Recover ==
  /\ step = "recover"
  /\ IF Recoverable(world)
       THEN step' = "extract" /\ todo' = Contents(world)
       ELSE step' = "refused" /\ UNCHANGED todo
  /\ UNCHANGED <<world, lane, at, legacy, expected, repairs, zen, built,
                 candidate, shipped, unproven, unchecked>>

----------------------------------------------------------------------------
(* Extraction.  An asset keeps its payloads, the imports whose names it      *)
(* carries, and the ones it only marks as unknown.                           *)

Asset(c, b, ns, ms) == [content |-> c, bulk |-> b, names |-> ns, marks |-> ms]
Authored(w, p) == {w.authored[i][p] : i \in Holders(w, p)}
Bulks(w, p) == {w.bulk[i][p] : i \in Holders(w, p)}
TheGames(p) == IF Existing(p) THEN {0} ELSE {}

(* What a view that holds the game resolves of a package's imports.          *)
Layered(w, p, c, b) ==
  LET resolved == (w.imports[p] \intersect (Mounted(w) \union w.game)) \ w.stale[p]
  IN  Asset(c, b, resolved, w.imports[p] \ resolved)
OfGame(w, p, b) == Asset(0, b, w.cur[p], {})

(* From the source-only view; a package with markers takes its names from    *)
(* the layered view, if that one shows the same exports, never its sidecars. *)
ExclusiveAssets(w, p) ==
  LET own(b) == {Asset(c, b, w.imports[p], {}) : c \in Authored(w, p)}
      named(b) == {Layered(w, p, c, b) : c \in Authored(w, p)}
      same(b) == IF Existing(p) /\ 0 \in Authored(w, p) THEN {OfGame(w, p, b)} ELSE {}
  IN  UNION {IF w.imports[p] \subseteq Mounted(w) THEN own(b) ELSE named(b) \union same(b) :
               b \in Bulks(w, p)}

(* A bug: the rows agree, so nothing was authored.                           *)
RowUnchanged(w, p) == Existing(p) /\ w.imports[p] = w.cur[p]

(* The raw chunk of the exports in some container is the game's; the chunks  *)
(* of the sidecars are not read.                                             *)
RawUnchanged(w, p) ==
  \E i \in Holders(w, p) : w.authored[i][p] = 0 /\ w.imports[p] = w.cur[p]

(* From the layered view alone, the sidecars included: exports a comparison  *)
(* tells from the donor's, or the donor's if nothing was authored.  A donor  *)
(* that cannot be extracted and a comparison that fails are taken for a      *)
(* difference.                                                               *)
LayeredAssets(w, p) ==
  UNION {{Layered(w, p, c, b) : c \in Authored(w, p)}
            \union (IF Existing(p) THEN {OfGame(w, p, b)} ELSE {}) :
           b \in Bulks(w, p) \union TheGames(p)}
HasAuthorship(w, p, asset, compared) ==
  ~compared \/ asset.content # 0 \/ RawUnchanged(w, p)

Extracted(p, asset) ==
  /\ legacy' = With(legacy, p, asset)
  /\ todo' = todo \ {p}
  /\ UNCHANGED <<world, lane, step, at, expected, repairs, zen, built, candidate,
                 shipped>>

ExtractExclusive ==
  /\ step = "extract" /\ Composite
  /\ \E p \in todo : \E a \in ExclusiveAssets(world, p) : Extracted(p, a)
  /\ UNCHANGED <<unproven, unchecked>>

ExtractFallback ==
  /\ step = "extract" /\ Composite
  /\ \E p \in todo, compared \in BOOLEAN : \E a \in LayeredAssets(world, p) :
       /\ compared => Existing(p)
       /\ HasAuthorship(world, p, a, compared)
       /\ Extracted(p, a)
       /\ unproven' = unproven \union (IF compared THEN {} ELSE {p} \intersect world.game)
       /\ unchecked' = unchecked \union ({p} \intersect world.game)

(* The additive lane filters by the authored spelling; the game's spelling   *)
(* wins in the merged store, so a package the game has is never matched.     *)
ExtractAdditive ==
  /\ step = "extract" /\ ~Composite
  /\ \E p \in todo : \E c \in Authored(world, p), b \in Bulks(world, p) :
       ~Existing(p) /\ Extracted(p, Layered(world, p, c, b))
  /\ UNCHANGED <<unproven, unchecked>>

(* A bug: the packages of every container are migrated with this one's.      *)
AllExtractedOfMod ==
  /\ step = "extract" /\ todo = {}
  /\ step' = "migrate" /\ todo' = Src(world)
  /\ UNCHANGED <<world, lane, at, legacy, expected, repairs, zen, built,
                 candidate, shipped, unproven, unchecked>>

AllExtracted ==
  /\ step = "extract" /\ todo = {}
  /\ step' = "migrate" /\ todo' = Contents(world)
  /\ UNCHANGED <<world, lane, at, legacy, expected, repairs, zen, built,
                 candidate, shipped, unproven, unchecked>>

----------------------------------------------------------------------------
(* Migration.  A result is the asset after the repair, the imports it must   *)
(* be rebuilt with, and whether a skeletal repair accounts for it; a repair  *)
(* that bails has no result.                                                 *)

Result(asset, imports) == [asset |-> asset, imports |-> imports, skeletal |-> FALSE]
Renamed(a, names) == Asset(a.content, a.bulk, names, {})
Repaired(a, targets) == Renamed(a, a.names \union targets)

(* A suppressed import is cleared in the Blueprint and its row points at the *)
(* mesh the consumer imports anyway.                                         *)
Suppressed(w, p, imports) ==
  LET es == SuppressionsOf(w, p)
  IN  (imports \ {e[2] : e \in es}) \union {SuppressionSource(w, e) : e \in es}

SkeletalRepair(w, p, a, row) ==
  LET targets == {w.skeleton[p]} \union w.physics[p]
      imports == (row \intersect Available(w)) \union targets
  IN  IF Cardinality(a.marks) = 2 /\ targets \subseteq Available(w)
        THEN {[Result(Repaired(a, targets), imports) EXCEPT !.skeletal = TRUE]}
        ELSE {}

StaticMeshRepair(w, p, a, row) ==
  LET unaccounted == row \ a.names
  IN  IF /\ Cardinality(unaccounted) = Cardinality(a.marks)
         /\ One(unaccounted) \/ p \in w.slots
         /\ unaccounted \subseteq Available(w)
        THEN {Result(Repaired(a, unaccounted),
                     (row \intersect Available(w)) \union unaccounted)}
        ELSE {}

TemplateRepair(w, p, a, row) ==
  IF /\ Existing(p) /\ p \in w.shaped
     /\ a.names \subseteq w.cur[p]
     /\ Cardinality(w.cur[p] \ a.names) = Cardinality(a.marks)
     /\ row \subseteq Available(w)
    THEN {Result(Renamed(a, w.cur[p]), w.cur[p])}
    ELSE {}

SingleExternalRepair(w, a, row, targets) ==
  IF One(targets) /\ a.marks # {}
    THEN {Result(Repaired(a, targets), (row \intersect Available(w)) \union targets)}
    ELSE {}

Resolved(w, a, row) ==
  IF row \subseteq Available(w) THEN {Result(a, row)} ELSE {}

BlueprintRepair(w, a, row) ==
  IF row \subseteq Available(w)
    THEN SingleExternalRepair(w, a, row, row \ a.names)
    ELSE {}

(* Root classes of the game's own scripts count as authored when nothing is  *)
(* unresolved; whatever has no class of its own needs a current template.    *)
IsAuthored(w, p, a) ==
  w.kind[p] = "Blueprint" \/ (w.kind[p] = "TesForm" /\ a.marks = {})

SkeletalMesh(w, p, a, row) ==
  IF ~Existing(p) THEN {}
  ELSE IF a.marks # {} THEN SkeletalRepair(w, p, a, row) ELSE Resolved(w, a, row)

StaticMesh(w, p, a, row) ==
  IF a.marks # {} THEN StaticMeshRepair(w, p, a, row) ELSE Resolved(w, a, row)

Texture2D(w, p, a, row) ==
  IF a.marks # {} THEN TemplateRepair(w, p, a, row) ELSE Resolved(w, a, row)

(* Animations and sounds take the same way as textures.                      *)
AnimationOrSound(w, p, a, row) == Texture2D(w, p, a, row)

MaterialInstance(w, p, a, row) ==
  IF a.marks = {} THEN Resolved(w, a, row)
  ELSE IF Existing(p) THEN TemplateRepair(w, p, a, row)
  ELSE SingleExternalRepair(w, a, row, (row \ Src(w)) \intersect w.game)

AuthoredPackage(w, a, row) ==
  IF a.marks = {} THEN Resolved(w, a, row) ELSE BlueprintRepair(w, a, row)

Migrations(w, p, a, row) ==
  CASE w.kind[p] = "SkeletalMesh" -> SkeletalMesh(w, p, a, row)
    [] w.kind[p] = "StaticMesh" -> StaticMesh(w, p, a, row)
    [] w.kind[p] = "Texture2D" -> Texture2D(w, p, a, row)
    [] w.kind[p] \in {"Animation", "Sound"} -> AnimationOrSound(w, p, a, row)
    [] w.kind[p] = "MaterialInstance" -> MaterialInstance(w, p, a, row)
    [] IsAuthored(w, p, a) -> AuthoredPackage(w, a, row)
    [] OTHER -> TemplateRepair(w, p, a, row)

(* One package: at most one suppression, then the repair of its class.       *)
MigrateOne ==
  /\ step = "migrate"
  /\ \E p \in todo :
       LET w == world
           a == [legacy[p] EXCEPT !.names = Suppressed(w, p, @)]
           row == Suppressed(w, p, w.imports[p])
           rs == IF Cardinality(SuppressionsOf(w, p)) > 1 THEN {} ELSE Migrations(w, p, a, row)
       IN  IF rs = {}
             THEN step' = "refused" /\ UNCHANGED <<todo, legacy, expected, repairs>>
             ELSE \E r \in rs :
                    /\ legacy' = [legacy EXCEPT ![p] = r.asset]
                    /\ expected' = With(expected, p, r.imports)
                    /\ repairs' = IF r.skeletal
                                    THEN With(repairs, p, [missing |-> row \ Available(w),
                                                           target |-> r.imports])
                                    ELSE repairs
                    /\ todo' = todo \ {p}
                    /\ UNCHANGED step
  /\ UNCHANGED <<world, lane, at, zen, built, candidate, shipped, unproven, unchecked>>

Migrate == Composite /\ MigrateOne
MigrateAdditive == ~Composite /\ MigrateOne

----------------------------------------------------------------------------
(* Rebuilding one container, and what is asked of the result.                *)

Zen(p) == [content |-> legacy[p].content, bulk |-> legacy[p].bulk,
           imports |-> legacy[p].names]

Build ==
  /\ step = "migrate" /\ todo = {}
  /\ LET whole == [p \in Contents(world) |-> Zen(p)]
     IN  \/ zen' = whole
         \/ \E p \in Contents(world) :
              \/ zen' = [q \in Contents(world) \ {p} |-> whole[q]]
              \/ zen' = [whole EXCEPT ![p].content = Corrupt]
              \/ zen' = [whole EXCEPT ![p].bulk = Corrupt]
              \/ \E i \in whole[p].imports : zen' = [whole EXCEPT ![p].imports = @ \ {i}]
  /\ step' = "check"
  /\ UNCHANGED <<world, lane, at, todo, legacy, expected, repairs, built,
                 candidate, shipped, unproven, unchecked>>

(* A bug: an import that is gone is not noticed.                             *)
ImportsExpected ==
  \A p \in DOMAIN expected : p \in DOMAIN zen /\ zen[p].imports \subseteq expected[p]

InventoryPreserved == DOMAIN zen = Contents(world)
ImportsAsExpected ==
  \A p \in DOMAIN expected : p \in DOMAIN zen /\ zen[p].imports = expected[p]

Accepted ==
  /\ step = "check" /\ InventoryPreserved /\ ImportsAsExpected
  /\ built' = Append(built, [zen |-> zen, legacy |-> legacy])
  /\ IF at < Len(world.conts)
       THEN at' = at + 1 /\ step' = "extract" /\ todo' = world.conts[at + 1]
       ELSE at' = 1 /\ step' = (IF Composite THEN "consume" ELSE "provide") /\ todo' = {}
  /\ legacy' = None /\ expected' = None /\ zen' = None
  /\ UNCHANGED <<world, lane, repairs, shipped, unproven, unchecked>>

(* The composite lane keeps the container for its roundtrip; the additive    *)
(* lane copies it to the candidate at once.                                  *)
Check == Composite /\ Accepted /\ UNCHANGED candidate
CheckAdditive == ~Composite /\ Accepted /\ candidate' = Append(candidate, zen)

CheckFails ==
  /\ step = "check" /\ ~(InventoryPreserved /\ ImportsAsExpected)
  /\ step' = "refused"
  /\ UNCHANGED <<world, lane, at, todo, legacy, expected, repairs, zen, built,
                 candidate, shipped, unproven, unchecked>>

(* Every planned rebind was taken by the skeletal repair of its consumer.    *)
RebindsConsumed ==
  \A e \in Decided(world, "rebind") :
    /\ e[1] \in DOMAIN repairs
    /\ e[2] \in repairs[e[1]].missing
    /\ e[2] \notin repairs[e[1]].target

Consume ==
  /\ step = "consume"
  /\ step' = IF ~RebindsConsumed THEN "refused"
           ELSE IF Composite THEN "roundtrip" ELSE "done"
  /\ UNCHANGED <<world, lane, at, todo, legacy, expected, repairs, zen, built,
                 candidate, shipped, unproven, unchecked>>

----------------------------------------------------------------------------
(* The roundtrip reads the rebuilt containers back through the same          *)
(* extraction; the exports and the sidecars must be those that went in.  The *)
(* fallback serves a package of the game from the layered view, and blindly  *)
(* where nothing tells it from the donor.                                    *)

Payloads(x) == [content |-> x.content, bulk |-> x.bulk]
WentIn(p) == Payloads(built[at].legacy[p])
Views(p) == IF Existing(p) THEN {"exclusive", "layered", "blind"} ELSE {"exclusive"}

ReadBack(p, view) ==
  LET zens == {built[i].zen[p] : i \in Holders(world, p)}
  IN  [content : IF view = "blind" THEN {0} ELSE {z.content : z \in zens},
       bulk : {z.bulk : z \in zens} \union (IF view = "exclusive" THEN {} ELSE {0})]

PayloadsPreserved(view) ==
  \A p \in Contents(world) : WentIn(p) \in ReadBack(p, view[p])
PayloadsMayDiffer(view) ==
  \E p \in Contents(world) : \E read \in ReadBack(p, view[p]) : read # WentIn(p)

Roundtrip ==
  /\ step = "roundtrip"
  /\ \E view \in [Contents(world) -> UNION {Views(p) : p \in Contents(world)}] :
       /\ \A p \in Contents(world) : view[p] \in Views(p)
       /\ \/ /\ PayloadsPreserved(view)
             /\ unproven' = unproven \union {p \in Contents(world) : view[p] = "blind"}
             /\ unchecked' = unchecked \union {p \in Contents(world) : view[p] # "exclusive"}
             /\ candidate' = Append(candidate, built[at].zen)
             /\ IF at < Len(world.conts) THEN at' = at + 1 /\ UNCHANGED step
                ELSE step' = "provide" /\ UNCHANGED at
          \/ /\ PayloadsMayDiffer(view)
             /\ step' = "refused" /\ UNCHANGED <<at, candidate, unproven, unchecked>>
  /\ UNCHANGED <<world, lane, todo, legacy, expected, repairs, zen, built, shipped>>

(* A bug: the provider stays in the workshop.                                *)
ShipsNothing(w) == {}

(* Only the aliases ship; the temporary identities stay behind.              *)
Ships(w) == PersistentIds(w)

ShipProvider ==
  /\ step = "provide"
  /\ shipped' = Ships(world)
  /\ UNCHANGED <<world, lane, at, todo, legacy, expected, repairs, zen, built,
                 candidate, unproven, unchecked>>

(* The composite lane ships last; the additive lane before it asks whether   *)
(* the rebinds were consumed.                                                *)
Provide == Composite /\ ShipProvider /\ step' = "done"
ProvideAdditive == ~Composite /\ ShipProvider /\ step' = "consume"

Finished == Ended /\ UNCHANGED rebuildVars

RebuildNext ==
  \/ Inspect \/ Recover
  \/ ExtractExclusive \/ ExtractFallback \/ ExtractAdditive \/ AllExtracted
  \/ Migrate \/ MigrateAdditive \/ Build \/ Check \/ CheckAdditive \/ CheckFails
  \/ Consume \/ Roundtrip \/ Provide \/ ProvideAdditive
  \/ ToolFails \/ Finished

RebuildSpec == RebuildInit /\ [][RebuildNext]_rebuildVars
----------------------------------------------------------------------------
(* Properties.                                                               *)

Zens == [content : Nat, bulk : Nat, imports : SUBSET (Known(world) \union Available(world))]
Assets == [content : Nat, bulk : Nat, names : SUBSET Available(world),
           marks : SUBSET UNION {world.imports[p] : p \in Src(world)}]

(* The variables keep their types; a container's packages are the only ones  *)
(* that are extracted, migrated and rebuilt with it.                         *)
RebuildTypeOK ==
  /\ lane \in Lanes /\ at \in DOMAIN world.conts
  /\ todo \subseteq Contents(world) /\ DOMAIN legacy \subseteq Contents(world)
  /\ \A p \in DOMAIN legacy : legacy[p] \in Assets
  /\ \A p \in DOMAIN zen : zen[p] \in Zens
  /\ Len(built) <= Len(world.conts) /\ Len(candidate) <= Len(built)
  /\ shipped \subseteq Available(world)
  /\ unproven \subseteq unchecked /\ unchecked \subseteq world.game

Done == step = "done"
Publishes(i, p) == i \in DOMAIN candidate /\ p \in DOMAIN candidate[i]

(* No package of a finished candidate imports an identity that neither the   *)
(* game, nor the candidate, nor the alias provider shipped with it carries:  *)
(* every retired import was aliased, rebound to a donor or suppressed, and   *)
(* the temporary identities the rebuild was made with are not relied upon.   *)
NothingDangles ==
  Done => \A i \in DOMAIN world.conts, p \in Src(world) :
            Publishes(i, p) =>
              candidate[i][p].imports \subseteq
                world.game \union shipped \union UNION {DOMAIN candidate[j] : j \in DOMAIN candidate}

(* What the composite lane publishes for a package of one container is what  *)
(* its author shipped, never the current game's or to-zen's: the exports,    *)
(* unless no comparison with a donor told them from the game's, and the bulk *)
(* payload, unless the fallback copied it from a view that holds the game's  *)
(* (it copies the sidecars it finds there, and nothing asks whose they are). *)
AuthoredPayload ==
  Done /\ Composite =>
    \A i \in DOMAIN world.conts : \A p \in world.conts[i] :
      One(Holders(world, p)) =>
        /\ Publishes(i, p)
        /\ candidate[i][p].content = world.authored[i][p] \/ p \in unproven
        /\ candidate[i][p].bulk = world.bulk[i][p] \/ p \in unchecked

(* A package the game does not have keeps every import its author gave it,   *)
(* whatever was unresolved, repaired or lost on the way, except the optional *)
(* meshes its Blueprint was cleared of.                                      *)
NoImportLost ==
  Done => \A i \in DOMAIN world.conts : \A p \in world.conts[i] \ world.game :
            Suppressed(world, p, world.imports[p]) \subseteq candidate[i][p].imports

=============================================================================
