-------------------------- MODULE IdentityRecovery --------------------------
(* How the composite lanes account for the imports of a mod that neither the *)
(* mod nor the current game carries (replacement.rs).  A missing edge is a   *)
(* pair <<consumer, target>> of package IDs.  It is either the retired       *)
(* editor sidecar of a mesh, which the consumer's current donor must replace *)
(* (a rebind), or the identity of a bundled package that was renamed (an     *)
(* alias, shipped in a provider container), or an optional second mesh of a  *)
(* Blueprint (a suppression, needed only while the mod is rebuilt).          *)
(*                                                                           *)
(* A world w is what the lanes read from disk:                               *)
(*   conts     the package IDs of each container, in order                   *)
(*   imports   the package-store row of each package of the mod              *)
(*   kind      the class each package decodes to                             *)
(*   meshNamed packages whose file name starts with SM_                      *)
(*   game, cur the packages of the current game and their imports            *)
(*   derived   edges whose target is <consumer>_Skeleton or _PhysicsAsset    *)
(*   names     how many mounted names the consumer's raw data gives an edge  *)
(*   leaf      the naming class of each missing target                       *)
(*   sibling   packages of the mod in the target's folder                    *)
(*   near      packages whose name is one edit away from the target's        *)
(*   nameless  packages without one authoritative mounted name               *)
(*   roles     edges the consumer's serialized Blueprint role proves         *)
EXTENDS Naturals, FiniteSets, Sequences

Src(w) == UNION {w.conts[i] : i \in DOMAIN w.conts}
Known(w) == Src(w) \union w.game

MissingOf(w, p) == w.imports[p] \ Known(w)
MissingEdges(w) == UNION {{c} \X MissingOf(w, c) : c \in Src(w)}

----------------------------------------------------------------------------
(* What one edge may become.                                                 *)

Refused == [as |-> "refused"]
Rebind == [as |-> "rebind"]
AliasOf(p) == [as |-> "alias", source |-> p]
SuppressedBy(p) == [as |-> "suppress", source |-> p]

(* The donor must be of the same identity and no longer import the target.   *)
DonorRebind(w, e) ==
  IF e[1] \in w.game /\ e[2] \notin w.cur[e[1]] THEN Rebind ELSE Refused

Route(w, t) ==
  CASE w.leaf[t] = "mic" -> "MaterialInstance"
    [] w.leaf[t] = "sm" -> "StaticMesh"
    [] w.leaf[t] = "sk_sidecar" -> "Sidecar"
    [] OTHER -> "none"

PrimaryMeshes(w, c) == w.imports[c] \intersect Src(w) \intersect w.meshNamed
MeshDependencies(w, c) == UNION {w.imports[m] : m \in PrimaryMeshes(w, c)}

(* The bundled packages that are structurally related to the target.         *)
AliasCandidates(w, e) ==
  IF Route(w, e[2]) = "MaterialInstance"
    THEN MeshDependencies(w, e[1]) \intersect Src(w) \intersect w.sibling[e[2]]
    ELSE {p \in w.near[e[2]] \intersect Src(w) :
            w.imports[p] \intersect MeshDependencies(w, e[1]) # {}}

TheOnly(S) == CHOOSE p \in S : TRUE
One(S) == Cardinality(S) = 1

AliasRoute(w, e) ==
  LET alias == PrimaryMeshes(w, e[1]) # {} /\ One(AliasCandidates(w, e))
      mesh == Route(w, e[2]) = "StaticMesh" /\ One(PrimaryMeshes(w, e[1]))
  IN  CASE alias -> AliasOf(TheOnly(AliasCandidates(w, e)))
        [] ~alias /\ mesh -> SuppressedBy(TheOnly(PrimaryMeshes(w, e[1])))
        [] OTHER -> Refused

Decision(w, e) ==
  CASE e \in w.derived -> DonorRebind(w, e)
    [] e \notin w.derived /\ w.names[e] # 1 -> Refused
    [] OTHER -> IF Route(w, e[2]) = "Sidecar" THEN DonorRebind(w, e)
                ELSE IF Route(w, e[2]) = "none" THEN Refused
                ELSE AliasRoute(w, e)

----------------------------------------------------------------------------
(* The whole recovery: every edge is decided, the consumers of one target    *)
(* agree, each source decodes as its target's class under one authoritative  *)
(* name, and each consumer proves the role of what it imports.               *)

Decided(w, as) == {e \in MissingEdges(w) : Decision(w, e).as = as}
Staged(w) == Decided(w, "alias") \union Decided(w, "suppress")

ConsumersAgree(w) ==
  \A d, e \in Staged(w) : d[2] = e[2] => Decision(w, d) = Decision(w, e)

NamedSource(w, p) == p \notin w.nameless
CloneFits(w, e) ==
  LET p == Decision(w, e).source
  IN  p # e[2] /\ w.kind[p] = Route(w, e[2]) /\ NamedSource(w, p)
RoleProven(w, e) == e \in w.roles

Recoverable(w) ==
  /\ Decided(w, "refused") = {}
  /\ ConsumersAgree(w)
  /\ \A e \in Staged(w) : CloneFits(w, e) /\ RoleProven(w, e)

(* The provider containers: aliases ship, temporary identities do not.       *)
PersistentIds(w) == {e[2] : e \in Decided(w, "alias")}
TemporaryIds(w) == {e[2] : e \in Decided(w, "suppress")}

(* What the rest of the lane may count on.                                   *)
Available(w) == Known(w) \union PersistentIds(w) \union TemporaryIds(w)

SuppressionsOf(w, p) == {e \in Decided(w, "suppress") : e[1] = p}
SuppressionSource(w, e) == Decision(w, e).source
=============================================================================
