------------------------ MODULE ReconstructionProofs ------------------------
(***************************************************************************)
(* Proofs about the two ways a candidate is made of a mod.                 *)
(*                                                                         *)
(* LogicalUpdate, for every mod, manifest and nested adapter: every        *)
(* container is claimed by its one approved payload, a reconstructed       *)
(* candidate differs from the selected mod only where a container of the   *)
(* mods folder was mapped, and no choice of a user is guessed.             *)
(*                                                                         *)
(* Rebuild, for every mod, game and lane: a finished candidate imports     *)
(* nothing that is not there, keeps the payload of each author, and loses  *)
(* no import of a package the game does not have.                          *)
(***************************************************************************)
EXTENDS LogicalUpdate, Rebuild, TLAPS, SequenceTheorems, FiniteSetTheorems, WellFoundedInduction

(***************************************************************************)
(* Reconstruction from a manifest.                                         *)
(***************************************************************************)

Original == {Entry(f, Body(f)) : f \in tree}

LEMMA OriginalBodies ==
    /\ FilesOf(Original) = tree
    /\ \A f \in tree : BodyAt(Original, f) = Body(f)
<1>1. FilesOf(Original) = tree
  <2>1. \A f : Entry(f, Body(f)).file = f
    BY DEF Entry
  <2> QED
    BY <2>1 DEF FilesOf, Original
<1>2. ASSUME NEW f \in tree PROVE BodyAt(Original, f) = Body(f)
  <2>1. Entry(f, Body(f)) \in Original
    BY DEF Original
  <2>2. \A e \in Original : e.file = f => e = Entry(f, Body(f))
    BY DEF Original, Entry
  <2>3. Entry(f, Body(f)).file = f /\ Entry(f, Body(f)).body = Body(f)
    BY DEF Entry
  <2> QED
    BY <2>1, <2>2, <2>3 DEF BodyAt
<1> QED
  BY <1>1, <1>2

-----------------------------------------------------------------------------
(* Reconstruction. *)

Fresh == {"walk", "read", "layout", "stage", "context"}
Nesting == {"adapt", "check", "copy", "verify", "archive", "published"}

\* The working copy is as it was selected until the context is made of it; what
\* is approved then differs from it in owned places only, and what was verified
\* is put together from both.
Records ==
    /\ pc \in Fresh => physical = Original
    /\ pc \in Nesting => context = Original
    /\ pc \in {"copy", "verify", "archive", "published"} =>
         \A m \in plan.mappings :
            BodyAt(approved, m.dest) # BodyAt(context, m.source) => Owned(m.dest)
    /\ pc \in {"archive", "published"} =>
         /\ FilesOf(output) = FilesOf(context)
         /\ \A f \in FilesOf(context) : BodyAt(output, f) = Rebuilt(f, approved, context)

LEMMA RecordsInit == Init => Records
  BY DEF Init, Records, Fresh, Nesting, Original

LEMMA RecordsStep == Records /\ [Next]_vars => Records'
<1> SUFFICES ASSUME Records, [Next]_vars PROVE Records'
  OBVIOUS
<1> USE DEF Records, Fresh, Nesting, Original, input, planning, copies, records
<1>1. CASE Resolve
  <2>1. CASE Walk
    BY <2>1 DEF Walk
  <2>2. CASE ReadEvent
    BY <2>2 DEF ReadEvent
  <2>3. CASE ReadFails
    BY <2>3 DEF ReadFails
  <2>4. CASE EndManifest
    BY <2>4 DEF EndManifest
  <2>5. CASE Layout
    BY <2>5 DEF Layout
  <2> QED
    BY <1>1, <2>1, <2>2, <2>3, <2>4, <2>5 DEF Resolve
<1>2. CASE Stage
  BY <1>2 DEF Stage
<1>3. CASE BuildContext
  BY <1>3 DEF BuildContext
<1>4. CASE Adapt
  BY <1>4 DEF Adapt
<1>5. CASE AdaptFails
  BY <1>5 DEF AdaptFails
<1>6. CASE Touch
  BY <1>6 DEF Touch
<1>7. CASE CheckCandidate
  BY <1>7 DEF CheckCandidate, Approvable, BodyAt
<1>8. CASE CopyBack
  BY <1>8 DEF CopyBack, BodyAt
<1>9. CASE Verify
  BY <1>9 DEF Verify, Verified, Rebuilt
<1>10. CASE Archive
  BY <1>10 DEF Archive, Rebuilt
<1>11. CASE UNCHANGED vars
  BY <1>11 DEF vars, Rebuilt
<1> QED
  BY <1>1, <1>2, <1>3, <1>4, <1>5, <1>6, <1>7, <1>8, <1>9, <1>10, <1>11 DEF Next, Reconstruct

(* OnlyOwnedDiffer for every mod and whatever the nested adapter hands back: *)
(* reconstruct_logical_update_candidate publishes the selected files but for *)
(* containers it mapped to the mods folder.                                  *)
THEOREM OnlyOwnedChanged == Spec => []OnlyOwnedDiffer
<1>1. Records => OnlyOwnedDiffer
  <2> SUFFICES ASSUME Records, pc \in {"archive", "published"}
               PROVE  /\ FilesOf(output) = tree
                      /\ \A f \in tree : \/ BodyAt(output, f) = Body(f)
                                         \/ \E m \in plan.mappings : m.source = f /\ Owned(m.dest)
    BY DEF OnlyOwnedDiffer
  <2>1. context = Original /\ FilesOf(output) = tree
    BY OriginalBodies DEF Records, Nesting
  <2>2. ASSUME NEW f \in tree
        PROVE  \/ BodyAt(output, f) = Body(f)
               \/ \E m \in plan.mappings : m.source = f /\ Owned(m.dest)
    <3>1. BodyAt(output, f) = Rebuilt(f, approved, context) /\ BodyAt(context, f) = Body(f)
      BY <2>1, OriginalBodies DEF Records
    <3>2. CASE f \in Sources(plan.mappings)
      <4>1. MappingOf(f, plan.mappings) \in plan.mappings /\ MappingOf(f, plan.mappings).source = f
        BY <3>2 DEF Sources, MappingOf
      <4>2. BodyAt(output, f) = BodyAt(approved, MappingOf(f, plan.mappings).dest)
        BY <3>1, <3>2 DEF Rebuilt
      <4> QED
        BY <3>1, <4>1, <4>2 DEF Records
    <3>3. CASE f \notin Sources(plan.mappings)
      BY <3>1, <3>3 DEF Rebuilt
    <3> QED
      BY <3>2, <3>3
  <2> QED
    BY <2>1, <2>2
<1> QED
  BY <1>1, RecordsInit, RecordsStep, PTL DEF Spec
-----------------------------------------------------------------------------
(* Choices. *)

Group == [behavior : Behaviors, options : Nat]
Frames == [kind : {"group", "option", "required", "other"}, group : Nat, option : Nat]

Scoped(mappings, groups) ==
    \A m \in mappings : m.scope = Required \/ m.scope.group \in DOMAIN groups

\* What has been read of a manifest names groups that have been read.
IsReader(r) ==
    /\ r = [stack |-> r.stack, groups |-> r.groups, mappings |-> r.mappings]
    /\ r.stack \in Seq(Frames) /\ r.groups \in Seq(Group)
    /\ \A i \in DOMAIN r.stack :
         r.stack[i].kind \in {"group", "option"} => r.stack[i].group \in DOMAIN r.groups
    /\ Scoped(r.mappings, r.groups)

Fits(p) == p.groups \in Seq(Group) /\ Scoped(p.mappings, p.groups)

Choices ==
    /\ doc \in Seq(Events) /\ IsReader(reader)
    /\ (pc = "stage" \/ Planned) /\ plan # Refusal => Fits(plan)
    /\ Planned => plan # Refusal /\ Deterministic(plan.groups) /\ ~Collides(Chosen, plan.groups)

LEMMA OneAnswer ==
  ASSUME NEW gs \in Seq(Group), Deterministic(gs)
  PROVE  Answers(gs) = {Forced(gs)}
<1>1. ASSUME NEW s \in Answers(gs) PROVE s = Forced(gs)
  <2>1. ASSUME NEW i \in DOMAIN gs PROVE s[i] = 1 .. gs[i].options
    <3>1. s[i] \subseteq 1 .. gs[i].options /\ Obeys(gs[i], s[i])
      BY <1>1 DEF Answers
    <3>2. CASE gs[i].behavior = "SelectAll"
      BY <3>1, <3>2 DEF Obeys
    <3>3. CASE gs[i].behavior \in {"SelectExactlyOne", "SelectAtLeastOne"} /\ gs[i].options = 1
      <4>1. s[i] \subseteq {1}
        BY <3>1, <3>3
      <4>2. Cardinality(s[i]) # 0
        <5>1. CASE gs[i].behavior = "SelectExactlyOne"
          BY <3>1, <5>1 DEF Obeys
        <5>2. CASE gs[i].behavior = "SelectAtLeastOne"
          <6>1. Cardinality(s[i]) >= 1
            BY <3>1, <5>2 DEF Obeys
          <6> QED
            BY <6>1
        <5> QED
          BY <3>3, <5>1, <5>2
      <4>3. s[i] # {}
        BY <4>2, FS_EmptySet
      <4> QED
        BY <3>3, <4>1, <4>3
    <3> QED
      BY <3>2, <3>3 DEF Deterministic
  <2>2. s \in [DOMAIN gs -> SUBSET UNION {1 .. gs[i].options : i \in DOMAIN gs}]
    BY <1>1 DEF Answers
  <2> QED
    BY <2>1, <2>2 DEF Forced
<1>2. Forced(gs) \in Answers(gs)
  <2>1. ASSUME NEW i \in DOMAIN gs PROVE Obeys(gs[i], 1 .. gs[i].options)
    <3>1. CASE gs[i].behavior = "SelectAll"
      BY <3>1 DEF Obeys
    <3>2. CASE gs[i].behavior \in {"SelectExactlyOne", "SelectAtLeastOne"} /\ gs[i].options = 1
      <4>1. 1 .. gs[i].options = {1}
        BY <3>2
      <4>2. Cardinality({1}) = 1
        BY FS_Singleton
      <4>3. Cardinality(1 .. gs[i].options) = 1
        BY <4>1, <4>2
      <4> QED
        BY <3>2, <4>3 DEF Obeys
    <3> QED
      BY <3>1, <3>2 DEF Deterministic
  <2>2. Forced(gs) \in [DOMAIN gs -> SUBSET UNION {1 .. gs[i].options : i \in DOMAIN gs}]
    BY DEF Forced
  <2>3. \A i \in DOMAIN gs : Forced(gs)[i] = 1 .. gs[i].options
    BY DEF Forced
  <2> QED
    BY <2>1, <2>2, <2>3 DEF Answers
<1> QED
  BY <1>1, <1>2

\* Two files of the forced answer are required, of different groups, or of a
\* group that is taken whole.
LEMMA NoClash ==
  ASSUME NEW gs \in Seq(Group), NEW ms, Scoped(ms, gs), Deterministic(gs),
         ~Collides(Selected(ms, Forced(gs)), gs)
  PROVE  ~\E m, n \in Selected(ms, Forced(gs)) : m # n /\ Clash(m.dest, n.dest)
<1>1. ASSUME NEW m \in Selected(ms, Forced(gs)), NEW n \in Selected(ms, Forced(gs))
      PROVE  Coexist(m.scope, n.scope, gs)
  <2>1. CASE /\ m.scope # Required /\ n.scope # Required
             /\ m.scope.group = n.scope.group /\ m.scope.option # n.scope.option
    <3> DEFINE g == m.scope.group
    <3>1. g \in DOMAIN gs
      BY <2>1 DEF Scoped, Selected
    <3>2. m.scope.option \in 1 .. gs[g].options /\ n.scope.option \in 1 .. gs[g].options
      BY <2>1, <3>1 DEF Selected, Forced
    <3>3. gs[g].options \in Nat
      <4>1. gs[g] \in Group
        BY <3>1
      <4> QED
        BY <4>1 DEF Group
    <3>4. gs[g].options # 1
      BY <2>1, <3>2, <3>3
    <3>5. gs[g].behavior = "SelectAll"
      BY <3>1, <3>4 DEF Deterministic
    <3> QED
      BY <3>5 DEF Coexist
  <2> QED
    BY <2>1 DEF Coexist
<1> QED
  BY <1>1 DEF Collides

-----------------------------------------------------------------------------
(* Reading a manifest. *)

LEMMA Greatest ==
  ASSUME NEW n \in Nat, NEW T, T \subseteq 1 .. n, T # {}
  PROVE  \E m \in T : \A i \in T : i <= m
<1> DEFINE R == {x \in Nat \X Nat : x[1] < x[2]}
           U == {i \in 0 .. n : n - i \in T}
<1>1. IsWellFoundedOn(R, Nat)
  BY NatLessThanWellFounded DEF OpToRel
<1>2. U \subseteq Nat
  OBVIOUS
<1>3. U # {}
  <2>1. PICK i \in T : TRUE
    OBVIOUS
  <2>2. n - i \in 0 .. n /\ n - (n - i) = i
    BY <2>1
  <2> QED
    BY <2>1, <2>2
<1>4. PICK u \in U : \A v \in U : ~(<<v, u>> \in R)
  <2> HIDE DEF U, R
  <2> QED
    BY <1>1, <1>2, <1>3, WFMin
<1>5. u \in 0 .. n /\ n - u \in T
  OBVIOUS
<1>6. ASSUME NEW i \in T PROVE i <= n - u
  <2>1. n - i \in U /\ n - i \in Nat
    <3>1. n - i \in 0 .. n /\ n - (n - i) = i
      OBVIOUS
    <3> QED
      BY <3>1
  <2>2. ~(<<n - i, u>> \in R)
    BY <1>4, <2>1
  <2>3. ~(n - i < u)
    BY <2>1, <2>2, <1>5
  <2> QED
    BY <1>5, <2>3
<1> QED
  BY <1>5, <1>6

LEMMA InnermostIs ==
  ASSUME IsReader(reader), NEW kind, Under(kind)
  PROVE  \E i \in DOMAIN reader.stack : Innermost(kind) = reader.stack[i] /\ reader.stack[i].kind = kind
<1> DEFINE stack == reader.stack
           T == {i \in DOMAIN stack : stack[i].kind = kind}
<1>1. Len(stack) \in Nat /\ DOMAIN stack = 1 .. Len(stack)
  BY DEF IsReader
<1>2. T \subseteq 1 .. Len(stack) /\ T # {}
  BY <1>1 DEF Under
<1>3. PICK m \in T : \A i \in T : i <= m
  BY <1>1, <1>2, Greatest
<1>4. \A j \in m + 1 .. Len(stack) : stack[j].kind # kind
  BY <1>1, <1>2, <1>3
<1>5. \E i \in DOMAIN stack : stack[i].kind = kind /\ \A j \in i + 1 .. Len(stack) : stack[j].kind # kind
  BY <1>3, <1>4
<1> QED
  BY <1>5 DEF Innermost

LEMMA WithGroups ==
  ASSUME NEW r, NEW a, NEW b, NEW c, r = [stack |-> a, groups |-> b, mappings |-> c], NEW x
  PROVE  [r EXCEPT !.groups = x] = [stack |-> a, groups |-> x, mappings |-> c]
  OBVIOUS

LEMMA PushedIsReader ==
  ASSUME NEW r, IsReader(r), NEW f \in Frames,
         f.kind \in {"group", "option"} => f.group \in DOMAIN r.groups,
         NEW s \in Pushed(r, f)
  PROVE  IsReader(s)
<1>1. s = [r EXCEPT !.stack = Append(r.stack, f)]
  BY DEF Pushed
<1>2. s = [stack |-> Append(r.stack, f), groups |-> r.groups, mappings |-> r.mappings]
  BY <1>1 DEF IsReader
<1>3. Append(r.stack, f) \in Seq(Frames)
  BY DEF IsReader
<1>4. ASSUME NEW i \in DOMAIN Append(r.stack, f)
      PROVE  Append(r.stack, f)[i].kind \in {"group", "option"}
               => Append(r.stack, f)[i].group \in DOMAIN r.groups
  <2>1. r.stack \in Seq(Frames)
    BY DEF IsReader
  <2>2. CASE i \in DOMAIN r.stack
    BY <2>1, <2>2 DEF IsReader
  <2>3. CASE i = Len(r.stack) + 1
    BY <2>1, <2>3
  <2> QED
    BY <2>1, <2>2, <2>3
<1> QED
  BY <1>2, <1>3, <1>4 DEF IsReader

LEMMA FileIsReader ==
  ASSUME IsReader(reader), NEW e, NEW r \in WithFile(e)
  PROVE  IsReader(r)
<1>1. PICK f : r = [reader EXCEPT !.mappings = @ \cup
                      {[Mapping(f, FomodDestination(e.dest, f), Scope) EXCEPT
                          !.nth = Cardinality(reader.mappings) + 1]}]
  BY DEF WithFile
<1> DEFINE m == [Mapping(f, FomodDestination(e.dest, f), Scope) EXCEPT
                    !.nth = Cardinality(reader.mappings) + 1]
<1>2. m.scope = Scope
  BY DEF Mapping
<1>3. Scope = Required \/ Scope.group \in DOMAIN reader.groups
  <2>1. CASE Under("option")
    <3>1. PICK i \in DOMAIN reader.stack :
            Innermost("option") = reader.stack[i] /\ reader.stack[i].kind = "option"
      BY <2>1, InnermostIs
    <3>2. Scope.group = reader.stack[i].group
      BY <2>1, <3>1 DEF Scope
    <3> QED
      BY <3>1, <3>2 DEF IsReader
  <2> QED
    BY <2>1 DEF Scope
<1>4. r = [stack |-> reader.stack, groups |-> reader.groups, mappings |-> reader.mappings \cup {m}]
  <2> HIDE DEF m
  <2> QED
    BY <1>1 DEF IsReader, m
<1>5. Scoped(reader.mappings \cup {m}, reader.groups)
  <2> HIDE DEF m
  <2> QED
    BY <1>2, <1>3 DEF IsReader, Scoped
<1> HIDE DEF m
<1> QED
  BY <1>4, <1>5 DEF IsReader

LEMMA ReadsIsReader ==
  ASSUME IsReader(reader), NEW e, NEW s \in Reads(e)
  PROVE  IsReader(s)
<1>1. ASSUME NEW r \in WithFile(e) PROVE IsReader(r)
  BY FileIsReader
<1>2. \A o \in Nat, g \in Nat, kind \in {"group", "option", "required", "other"} :
        Frame(kind, g, o) \in Frames /\ Frame(kind, g, o).kind = kind /\ Frame(kind, g, o).group = g
  BY DEF Frame, Frames
<1>3. CASE s \in WithGroup(e)
  <2> DEFINE new == [behavior |-> e.behavior, options |-> 0]
             r == [reader EXCEPT !.groups = Append(@, new)]
  <2>1. e.behavior \in Behaviors /\ s \in Pushed(r, Frame("group", Len(reader.groups) + 1, 0))
    BY <1>3 DEF WithGroup
  <2>2. reader.groups \in Seq(Group) /\ new \in Group
    BY <2>1 DEF IsReader, Group
  <2>3. /\ Append(reader.groups, new) \in Seq(Group)
        /\ DOMAIN Append(reader.groups, new) = 1 .. Len(reader.groups) + 1
        /\ DOMAIN reader.groups = 1 .. Len(reader.groups) /\ Len(reader.groups) \in Nat
    <3> HIDE DEF new
    <3> QED
      BY <2>2
  <2>4. r = [stack |-> reader.stack, groups |-> Append(reader.groups, new), mappings |-> reader.mappings]
    <3> HIDE DEF new
    <3>1. reader = [stack |-> reader.stack, groups |-> reader.groups, mappings |-> reader.mappings]
      BY DEF IsReader
    <3>2. r = [reader EXCEPT !.groups = Append(reader.groups, new)]
      OBVIOUS
    <3> HIDE DEF r
    <3> QED
      BY <3>1, <3>2, WithGroups
  <2>5. IsReader(r)
    <3> HIDE DEF new
    <3> QED
      BY <2>3, <2>4 DEF IsReader, Scoped
  <2>6. Len(reader.groups) + 1 \in DOMAIN r.groups
    <3> HIDE DEF new
    <3> QED
      BY <2>3, <2>4
  <2> HIDE DEF r
  <2> QED
    BY <1>2, <2>1, <2>3, <2>5, <2>6, PushedIsReader
<1>4. CASE s \in WithOption
  <2> DEFINE g == Innermost("group").group
             n == reader.groups[g].options + 1
             r == [reader EXCEPT !.groups[g].options = n]
  <2>1. Under("group") /\ s \in Pushed(r, Frame("option", g, n))
    BY <1>4 DEF WithOption
  <2>2. PICK i \in DOMAIN reader.stack :
          Innermost("group") = reader.stack[i] /\ reader.stack[i].kind = "group"
    BY <2>1, InnermostIs
  <2>3. g \in DOMAIN reader.groups
    BY <2>2 DEF IsReader
  <2>4. reader.groups \in Seq(Group) /\ reader.groups[g] \in Group /\ n \in Nat /\ g \in Nat
    <3> HIDE DEF g
    <3>1. reader.groups \in Seq(Group)
      BY DEF IsReader
    <3>2. reader.groups[g] \in Group /\ g \in Nat
      BY <2>3, <3>1
    <3> QED
      BY <3>1, <3>2 DEF Group
  <2> DEFINE new == [reader.groups[g] EXCEPT !.options = n]
             gs == [reader.groups EXCEPT ![g] = new]
  <2>5. new \in Group
    BY <2>4 DEF Group
  <2>6. gs \in Seq(Group) /\ DOMAIN gs = DOMAIN reader.groups
    <3> HIDE DEF new, g, n
    <3> QED
      BY <2>3, <2>4, <2>5
  <2>7. r = [stack |-> reader.stack, groups |-> gs, mappings |-> reader.mappings]
    <3> HIDE DEF g, n
    <3>1. reader = [stack |-> reader.stack, groups |-> reader.groups, mappings |-> reader.mappings]
      BY DEF IsReader
    <3>2. r = [reader EXCEPT !.groups = gs]
      BY <3>1
    <3> HIDE DEF gs, r
    <3> QED
      BY <3>1, <3>2, WithGroups
  <2>8. IsReader(r)
    <3> HIDE DEF gs, r
    <3> QED
      BY <2>6, <2>7 DEF IsReader, Scoped
  <2>9. g \in DOMAIN r.groups
    <3> HIDE DEF gs, r
    <3> QED
      BY <2>3, <2>6, <2>7
  <2> HIDE DEF r, g, n
  <2> QED
    BY <1>2, <2>1, <2>4, <2>8, <2>9, PushedIsReader
<1>5. ASSUME NEW r, IsReader(r), NEW kind \in {"required", "other"}, s \in Pushed(r, Frame(kind, 0, 0))
      PROVE  IsReader(s)
  BY <1>2, <1>5, PushedIsReader
<1>6. CASE reader.stack # <<>> /\ s = [reader EXCEPT !.stack = SubSeq(@, 1, Len(@) - 1)]
  <2> DEFINE rest == SubSeq(reader.stack, 1, Len(reader.stack) - 1)
  <2>1. reader.stack \in Seq(Frames) /\ Len(reader.stack) \in Nat \ {0}
    BY <1>6 DEF IsReader
  <2>2. /\ rest \in Seq(Frames) /\ Len(rest) = Len(reader.stack) - 1
        /\ \A i \in 1 .. Len(reader.stack) - 1 : rest[i] = reader.stack[i]
    BY <2>1
  <2>3. s = [stack |-> rest, groups |-> reader.groups, mappings |-> reader.mappings]
    <3> HIDE DEF rest
    <3> QED
      BY <1>6 DEF IsReader, rest
  <2> HIDE DEF rest
  <2>4. \A i \in DOMAIN rest : i \in DOMAIN reader.stack /\ rest[i] = reader.stack[i]
    BY <2>1, <2>2
  <2> QED
    BY <2>2, <2>3, <2>4 DEF IsReader
<1>7. \/ \E r \in WithFile(e) : s \in Pushed(r, Frame("other", 0, 0))
      \/ s \in WithGroup(e) \/ s \in WithOption \/ s \in WithFile(e) \/ s = reader
      \/ \E kind \in {"required", "other"} : s \in Pushed(reader, Frame(kind, 0, 0))
      \/ reader.stack # <<>> /\ s = [reader EXCEPT !.stack = SubSeq(@, 1, Len(@) - 1)]
  BY DEF Reads
<1> QED
  BY <1>1, <1>3, <1>4, <1>5, <1>6, <1>7

-----------------------------------------------------------------------------
(* Plans. *)

LEMMA MadeFits ==
  ASSUME NEW evidence, NEW t, NEW ms, NEW gs, gs \in Seq(Group), Scoped(ms, gs),
         MakePlan(evidence, t, ms, gs) # Refusal
  PROVE  Fits(MakePlan(evidence, t, ms, gs))
<1>1. MakePlan(evidence, t, ms, gs) = [evidence |-> evidence, mappings |-> ms, groups |-> gs,
                                       unmapped |-> t \ Sources(ms)]
  BY DEF MakePlan
<1> QED
  BY <1>1 DEF Fits

LEMMA RequiredFits ==
  ASSUME NEW evidence, NEW t, NEW ms, \A m \in ms : m.scope = Required,
         MakePlan(evidence, t, ms, <<>>) # Refusal
  PROVE  Fits(MakePlan(evidence, t, ms, <<>>))
<1>1. <<>> \in Seq(Group) /\ Scoped(ms, <<>>)
  BY DEF Scoped
<1> QED
  BY <1>1, MadeFits

LEMMA LayoutFits ==
  /\ CanonicalPlan(tree) # NotThis /\ CanonicalPlan(tree) # Refusal => Fits(CanonicalPlan(tree))
  /\ ManualPlan(tree) # Refusal => Fits(ManualPlan(tree))
<1>1. ASSUME CanonicalPlan(tree) # NotThis, CanonicalPlan(tree) # Refusal
      PROVE  Fits(CanonicalPlan(tree))
  <2>1. PICK ms : CanonicalPlan(tree) = MakePlan("canonical", tree, ms, <<>>)
                  /\ \A m \in ms : m.scope = Required
    <3> DEFINE depth == Len(CHOOSE r \in ContentRoots(tree) : TRUE)
               under == {f \in tree : Len(f.dir) > depth /\ f.dir[depth + 1] = "Content"}
               ms == {Mapping(f, Moved(f, SubSeq(f.dir, depth + 1, Len(f.dir))), Required) : f \in under}
    <3>1. CanonicalPlan(tree) = MakePlan("canonical", tree, ms, <<>>)
      BY <1>1 DEF CanonicalPlan
    <3>2. \A m \in ms : m.scope = Required
      BY DEF Mapping
    <3> QED
      BY <3>1, <3>2
  <2> QED
    BY <1>1, <2>1, RequiredFits
<1>2. ASSUME ManualPlan(tree) # Refusal PROVE Fits(ManualPlan(tree))
  <2>1. PICK ms : ManualPlan(tree) = MakePlan("manual", tree, ms, <<>>)
                  /\ \A m \in ms : m.scope = Required
    <3>1. \A plugin, maps, paks : \A m \in ManualMappings(plugin, maps, paks) : m.scope = Required
      BY DEF ManualMappings, Mapping
    <3>2. \E plugin, maps, paks :
            ManualPlan(tree) = MakePlan("manual", tree, ManualMappings(plugin, maps, paks), <<>>)
      BY <1>2 DEF ManualPlan
    <3> QED
      BY <3>1, <3>2
  <2> QED
    BY <1>2, <2>1, RequiredFits
<1> QED
  BY <1>1, <1>2

-----------------------------------------------------------------------------
LEMMA ChoicesInit == Init => Choices
<1> SUFFICES ASSUME Init PROVE Choices
  OBVIOUS
<1>1. doc \in Seq(Events)
  <2>1. <<>> \in Seq(Events)
    OBVIOUS
  <2> QED
    BY <2>1, DocumentsAssumption DEF Init
<1>2. reader.stack = <<>> /\ reader.groups = <<>> /\ reader.mappings = {}
      /\ reader = [stack |-> <<>>, groups |-> <<>>, mappings |-> {}]
  BY DEF Init
<1>3. IsReader(reader)
  BY <1>2 DEF IsReader, Scoped
<1> QED
  BY <1>1, <1>3 DEF Init, Choices, Planned

LEMMA ChoicesStep == Choices /\ [Next]_vars => Choices'
<1> SUFFICES ASSUME Choices, [Next]_vars PROVE Choices'
  OBVIOUS
<1> USE DEF input, planning, copies, records
<1>1. ASSUME UNCHANGED planning, pc' # "stage" \/ pc' = pc, Planned' => Planned
      PROVE  Choices'
  BY <1>1 DEF Choices, Planned, Chosen
<1>2. CASE Resolve
  <2>1. CASE Walk
    BY <1>1, <2>1 DEF Walk, Planned
  <2>2. CASE ReadEvent
    <3>1. reader' \in Reads(Head(doc)) /\ doc # <<>> /\ doc' = Tail(doc) /\ pc = "read" /\ pc' = "read"
      BY <2>2 DEF ReadEvent
    <3>2. IsReader(reader')
      BY <3>1, ReadsIsReader DEF Choices
    <3>3. doc' \in Seq(Events)
      BY <3>1 DEF Choices
    <3> QED
      BY <3>1, <3>2, <3>3 DEF Choices, Planned
  <2>3. CASE ReadFails
    BY <1>1, <2>3 DEF ReadFails, Planned
  <2>4. CASE EndManifest
    <3>1. plan' = Refusal \/ plan' = MakePlan("fomod", tree, reader.mappings, reader.groups)
      BY <2>4 DEF EndManifest
    <3>2. plan' # Refusal => Fits(plan')
      BY <3>1, MadeFits DEF Choices, IsReader
    <3>3. pc' = "stage" /\ UNCHANGED <<doc, reader>>
      BY <2>4 DEF EndManifest
    <3> QED
      BY <3>2, <3>3 DEF Choices, Planned
  <2>5. CASE Layout
    <3>1. plan' # Refusal => Fits(plan')
      BY <2>5, LayoutFits DEF Layout
    <3>2. pc' = "stage" /\ UNCHANGED <<doc, reader>>
      BY <2>5 DEF Layout
    <3> QED
      BY <3>1, <3>2 DEF Choices, Planned
  <2> QED
    BY <1>2, <2>1, <2>2, <2>3, <2>4, <2>5 DEF Resolve
<1>3. CASE Stage
  <2>1. CASE pc' = "refused"
    BY <1>1, <1>3, <2>1 DEF Stage, Planned
  <2>2. CASE pc' # "refused"
    <3>1. pc = "stage" /\ pc' = "context" /\ Stageable /\ UNCHANGED planning
      BY <1>3, <2>2 DEF Stage
    <3> QED
      BY <3>1 DEF Choices, Stageable, Planned, Chosen
  <2> QED
    BY <2>1, <2>2
<1>4. CASE BuildContext
  BY <1>1, <1>4 DEF BuildContext, Planned
<1>5. CASE Adapt
  BY <1>1, <1>5 DEF Adapt, Planned
<1>6. CASE AdaptFails
  BY <1>1, <1>6 DEF AdaptFails, Planned
<1>7. CASE Touch
  BY <1>1, <1>7 DEF Touch, Planned
<1>8. CASE CheckCandidate
  BY <1>1, <1>8 DEF CheckCandidate, Planned
<1>9. CASE CopyBack
  BY <1>1, <1>9 DEF CopyBack, Planned
<1>10. CASE Verify
  BY <1>1, <1>10 DEF Verify, Planned
<1>11. CASE Archive
  BY <1>1, <1>11 DEF Archive, Planned
<1>12. CASE UNCHANGED vars
  BY <1>1, <1>12 DEF vars, Planned
<1> QED
  BY <1>2, <1>3, <1>4, <1>5, <1>6, <1>7, <1>8, <1>9, <1>10, <1>11, <1>12 DEF Next, Reconstruct

(* NoChoiceGuessed for every manifest: resolve_staged_install_view makes a   *)
(* view only of a plan whose groups leave the user nothing to choose, and of *)
(* no answer under which two files claim one place.                          *)
THEOREM NothingGuessed == Spec => []NoChoiceGuessed
<1>1. Choices => NoChoiceGuessed
  <2> SUFFICES ASSUME Choices, Planned
               PROVE  /\ Answers(plan.groups) = {Forced(plan.groups)}
                      /\ ~\E m, n \in Chosen : m # n /\ Clash(m.dest, n.dest)
    BY DEF NoChoiceGuessed
  <2>1. /\ plan.groups \in Seq(Group) /\ Scoped(plan.mappings, plan.groups)
        /\ Deterministic(plan.groups) /\ ~Collides(Chosen, plan.groups)
    BY DEF Choices, Fits
  <2> QED
    BY <2>1, OneAnswer, NoClash DEF Chosen
<1> QED
  BY <1>1, ChoicesInit, ChoicesStep, PTL DEF Spec
-----------------------------------------------------------------------------
(* What a layout accounts for. *)

\* A plan that a layout accepted leaves no payload unmapped.
Claims ==
    plan.evidence = "canonical" \/ (plan.evidence = "manual" /\ Bare(tree))
        => \A f \in plan.unmapped : ~Payload(f)

LEMMA Unmapped ==
  ASSUME NEW evidence, NEW t, NEW ms, NEW gs
  PROVE  LET made == MakePlan(evidence, t, ms, gs)
         IN  /\ made.evidence \in {evidence, "refused"}
             /\ made.evidence = "refused" \/ made.unmapped = t \ Sources(ms)
  BY DEF MakePlan, Refusal

LEMMA CanonicalClaims ==
  ASSUME CanonicalPlan(tree).evidence = "canonical"
  PROVE  \A f \in CanonicalPlan(tree).unmapped : ~Payload(f)
<1> DEFINE depth == Len(CHOOSE r \in ContentRoots(tree) : TRUE)
           under == {f \in tree : Len(f.dir) > depth /\ f.dir[depth + 1] = "Content"}
           place(f) == Moved(f, SubSeq(f.dir, depth + 1, Len(f.dir)))
           ms == {Mapping(f, place(f), Required) : f \in under}
<1>1. /\ CanonicalPlan(tree) = MakePlan("canonical", tree, ms, <<>>)
      /\ ~\E f \in tree \ under : Payload(f)
  BY DEF CanonicalPlan, NotThis, Refusal
<1>2. Sources(ms) = under
  <2>1. \A f \in under : Mapping(f, place(f), Required).source = f
    BY DEF Mapping
  <2> HIDE DEF under, place
  <2> QED
    BY <2>1 DEF Sources
<1> HIDE DEF ms, under
<1> QED
  BY <1>1, <1>2, Unmapped

LEMMA ManualClaims ==
  ASSUME ManualPlan(tree).evidence = "manual", Bare(tree)
  PROVE  \A f \in ManualPlan(tree).unmapped : ~Payload(f)
<1>1. PICK ms : ManualPlan(tree) = MakePlan("manual", tree, ms, <<>>) /\ Strays(tree, ms) = {}
  BY DEF ManualPlan, Refusal
<1>2. \A f \in tree \ Sources(ms) : ~Payload(f)
  BY <1>1 DEF Strays, Payload
<1> QED
  BY <1>1, <1>2, Unmapped

LEMMA Evidence ==
  /\ CanonicalPlan(tree).evidence \in {"canonical", "none", "refused"}
  /\ ManualPlan(tree).evidence \in {"manual", "refused"}
<1>1. CanonicalPlan(tree).evidence \in {"canonical", "none", "refused"}
  <2>1. \/ CanonicalPlan(tree) \in {NotThis, Refusal}
        \/ \E ms : CanonicalPlan(tree) = MakePlan("canonical", tree, ms, <<>>)
    BY DEF CanonicalPlan
  <2> QED
    BY <2>1, Unmapped DEF NotThis, Refusal
<1>2. ManualPlan(tree).evidence \in {"manual", "refused"}
  <2>1. \/ ManualPlan(tree) = Refusal
        \/ \E ms : ManualPlan(tree) = MakePlan("manual", tree, ms, <<>>)
    BY DEF ManualPlan
  <2> QED
    BY <2>1, Unmapped DEF Refusal
<1> QED
  BY <1>1, <1>2

LEMMA ClaimsStep == Claims /\ [Next]_vars => Claims'
<1> SUFFICES ASSUME Claims, [Next]_vars PROVE Claims'
  OBVIOUS
<1>1. \/ UNCHANGED <<tree, plan>>
      \/ tree' = tree /\ plan' = Refusal
      \/ tree' = tree /\ plan' = MakePlan("fomod", tree, reader.mappings, reader.groups)
      \/ tree' = tree /\ plan' = CanonicalPlan(tree)
      \/ tree' = tree /\ plan' = ManualPlan(tree)
  <2>1. CASE Resolve
    BY <2>1 DEF Resolve, Walk, ReadEvent, ReadFails, EndManifest, Layout, input, planning
  <2>2. CASE Stage \/ BuildContext \/ Adapt \/ AdaptFails \/ Touch
    BY <2>2 DEF Stage, BuildContext, Adapt, AdaptFails, Touch, input, planning
  <2>3. CASE Reconstruct \/ UNCHANGED vars
    BY <2>3 DEF Reconstruct, CheckCandidate, CopyBack, Verify, Archive, input, planning, vars
  <2> QED
    BY <2>1, <2>2, <2>3 DEF Next
<1>2. CASE UNCHANGED <<tree, plan>>
  BY <1>2 DEF Claims
<1>3. CASE tree' = tree /\ plan' = Refusal
  BY <1>3 DEF Claims, Refusal
<1>4. CASE tree' = tree /\ plan' = MakePlan("fomod", tree, reader.mappings, reader.groups)
  <2>1. plan'.evidence \in {"fomod", "refused"}
    BY <1>4, Unmapped
  <2> QED
    BY <2>1 DEF Claims
<1>5. CASE tree' = tree /\ plan' = CanonicalPlan(tree)
  BY <1>5, Evidence, CanonicalClaims DEF Claims
<1>6. CASE tree' = tree /\ plan' = ManualPlan(tree)
  BY <1>6, Evidence, ManualClaims DEF Claims
<1> QED
  BY <1>1, <1>2, <1>3, <1>4, <1>5, <1>6

(* PayloadsClaimed for every mod: a layout that resolve_install_plan knows   *)
(* without a manifest maps every plugin, container file and SyncMap, or the  *)
(* mod is refused.                                                           *)
THEOREM PayloadsMapped == Spec => []PayloadsClaimed
<1>1. Init => Claims
  BY DEF Init, Claims, NotThis
<1>2. Claims => PayloadsClaimed
  BY DEF Claims, PayloadsClaimed
<1> QED
  BY <1>1, <1>2, ClaimsStep, PTL DEF Spec
-----------------------------------------------------------------------------
(* The bounds of a manifest. *)

\* The options of all groups, each with its group.
Options(groups) == UNION {{i} \X (1 .. groups[i].options) : i \in DOMAIN groups}

Within(r) ==
    /\ Len(r.stack) <= MaxDepth /\ Len(r.groups) <= MaxGroups
    /\ IsFiniteSet(Options(r.groups)) /\ Cardinality(Options(r.groups)) <= MaxOptions
    /\ IsFiniteSet(r.mappings) /\ Cardinality(r.mappings) <= MaxMappings

LEMMA OptionsAre ==
  ASSUME NEW gs
  PROVE  \A x : x \in Options(gs) <=> \E i \in DOMAIN gs : \E k \in 1 .. gs[i].options : x = <<i, k>>
  BY DEF Options

\* A group begins without options, an option is one more.
LEMMA GroupAdds ==
  ASSUME NEW gs \in Seq(Group), NEW new \in Group, new.options = 0
  PROVE  Options(Append(gs, new)) = Options(gs)
<1> DEFINE more == Append(gs, new)
<1>1. /\ DOMAIN gs = 1 .. Len(gs) /\ Len(gs) \in Nat /\ DOMAIN more = 1 .. Len(gs) + 1
      /\ \A i \in 1 .. Len(gs) : more[i] = gs[i]
      /\ more[Len(gs) + 1] = new
  OBVIOUS
<1> HIDE DEF more
<1>2. \A i \in DOMAIN more : i \in DOMAIN gs \/ more[i].options = 0
  BY <1>1
<1>3. \A i \in DOMAIN gs : i \in DOMAIN more /\ more[i] = gs[i]
  BY <1>1
<1>4. \A x : x \in Options(more) <=> x \in Options(gs)
  BY <1>2, <1>3, OptionsAre
<1>5. Options(more) = Options(gs)
  BY <1>4 DEF Options
<1> QED
  BY <1>5 DEF more

LEMMA OptionAdds ==
  ASSUME NEW gs \in Seq(Group), NEW g \in DOMAIN gs, NEW next \in Seq(Group),
         DOMAIN next = DOMAIN gs, \A i \in DOMAIN gs : i # g => next[i] = gs[i],
         next[g].options = gs[g].options + 1
  PROVE  Options(next) = Options(gs) \cup {<<g, gs[g].options + 1>>}
<1>1. gs[g].options \in Nat
  <2>1. gs[g] \in Group
    OBVIOUS
  <2> QED
    BY <2>1 DEF Group
<1>2. \A k : k \in 1 .. gs[g].options + 1 <=> k \in 1 .. gs[g].options \/ k = gs[g].options + 1
  BY <1>1
<1>3. ASSUME NEW x
      PROVE  x \in Options(next) <=> x \in Options(gs) \/ x = <<g, gs[g].options + 1>>
  <2> DEFINE In(seq, i) == \E k \in 1 .. seq[i].options : x = <<i, k>>
  <2>1. \A i \in DOMAIN gs : i # g => (In(next, i) <=> In(gs, i))
    OBVIOUS
  <2>2. In(next, g) <=> In(gs, g) \/ x = <<g, gs[g].options + 1>>
    BY <1>2
  <2>3. /\ x \in Options(next) <=> \E i \in DOMAIN next : In(next, i)
        /\ x \in Options(gs) <=> \E i \in DOMAIN gs : In(gs, i)
    BY OptionsAre
  <2> HIDE DEF In
  <2> QED
    BY <2>1, <2>2, <2>3
<1> QED
  BY <1>3 DEF Options

LEMMA OneMore ==
  ASSUME NEW S, IsFiniteSet(S), NEW x, NEW max \in Nat, Cardinality(S) < max
  PROVE  IsFiniteSet(S \cup {x}) /\ Cardinality(S \cup {x}) <= max
<1>1. Cardinality(S) \in Nat
  BY FS_CardinalityType
<1>2. IsFiniteSet(S \cup {x}) /\ Cardinality(S \cup {x}) \in {Cardinality(S), Cardinality(S) + 1}
  BY FS_AddElement
<1> QED
  BY <1>1, <1>2

LEMMA PushedWithin ==
  ASSUME NEW r, IsReader(r), Within(r), NEW f \in Frames, NEW s \in Pushed(r, f)
  PROVE  Within(s)
<1>1. s = [r EXCEPT !.stack = Append(r.stack, f)] /\ Len(r.stack) < MaxDepth
  BY DEF Pushed
<1>2. s = [stack |-> Append(r.stack, f), groups |-> r.groups, mappings |-> r.mappings]
  BY <1>1 DEF IsReader
<1>3. Len(Append(r.stack, f)) = Len(r.stack) + 1 /\ Len(r.stack) \in Nat
  BY DEF IsReader
<1> QED
  BY <1>1, <1>2, <1>3, LogicalUpdateAssumption DEF Within

LEMMA FileWithin ==
  ASSUME IsReader(reader), Within(reader), NEW e, NEW r \in WithFile(e)
  PROVE  Within(r)
<1>1. PICK f : r = [reader EXCEPT !.mappings = @ \cup
                      {[Mapping(f, FomodDestination(e.dest, f), Scope) EXCEPT
                          !.nth = Cardinality(reader.mappings) + 1]}]
  BY DEF WithFile
<1> DEFINE m == [Mapping(f, FomodDestination(e.dest, f), Scope) EXCEPT
                    !.nth = Cardinality(reader.mappings) + 1]
<1> HIDE DEF m
<1>2. r = [stack |-> reader.stack, groups |-> reader.groups, mappings |-> reader.mappings \cup {m}]
  BY <1>1 DEF IsReader, m
<1>3. Cardinality(reader.mappings) < MaxMappings
  BY DEF WithFile
<1>4. /\ IsFiniteSet(reader.mappings \cup {m})
      /\ Cardinality(reader.mappings \cup {m}) <= MaxMappings
  BY <1>3, OneMore, LogicalUpdateAssumption DEF Within
<1> QED
  BY <1>2, <1>4 DEF Within

LEMMA GroupWithin ==
  ASSUME IsReader(reader), Within(reader), NEW e, NEW s \in WithGroup(e)
  PROVE  Within(s)
<1> DEFINE new == [behavior |-> e.behavior, options |-> 0]
           more == Append(reader.groups, new)
           r == [stack |-> reader.stack, groups |-> more, mappings |-> reader.mappings]
<1>1. /\ e.behavior \in Behaviors /\ Len(reader.groups) < MaxGroups
      /\ s \in Pushed([reader EXCEPT !.groups = more], Frame("group", Len(reader.groups) + 1, 0))
  BY DEF WithGroup
<1>2. /\ new \in Group /\ new.options = 0 /\ reader.groups \in Seq(Group)
      /\ Frame("group", Len(reader.groups) + 1, 0) \in Frames
  BY <1>1 DEF Group, IsReader, Frame, Frames
<1> HIDE DEF new
<1>3. /\ more \in Seq(Group) /\ Len(more) = Len(reader.groups) + 1 /\ Len(reader.groups) \in Nat
      /\ DOMAIN more = 1 .. Len(reader.groups) + 1 /\ DOMAIN reader.groups = 1 .. Len(reader.groups)
  BY <1>2
<1>4. Options(more) = Options(reader.groups)
  BY <1>2, GroupAdds
<1> HIDE DEF more
<1>5. [reader EXCEPT !.groups = more] = r
  BY WithGroups DEF IsReader
<1>6. IsReader(r)
  BY <1>3 DEF IsReader, Scoped
<1>7. Within(r)
  BY <1>1, <1>3, <1>4, LogicalUpdateAssumption DEF Within
<1> HIDE DEF r
<1> QED
  BY <1>1, <1>2, <1>5, <1>6, <1>7, PushedWithin

LEMMA OptionWithin ==
  ASSUME IsReader(reader), Within(reader), NEW s \in WithOption
  PROVE  Within(s)
<1> DEFINE g == Innermost("group").group
           n == reader.groups[g].options + 1
           new == [reader.groups[g] EXCEPT !.options = n]
           gs == [reader.groups EXCEPT ![g] = new]
           r == [stack |-> reader.stack, groups |-> gs, mappings |-> reader.mappings]
<1>1. /\ Under("group") /\ OptionCount(reader.groups) < MaxOptions
      /\ s \in Pushed([reader EXCEPT !.groups[g].options = n], Frame("option", g, n))
  BY DEF WithOption
<1>2. PICK i \in DOMAIN reader.stack :
        Innermost("group") = reader.stack[i] /\ reader.stack[i].kind = "group"
  BY <1>1, InnermostIs
<1>3. g \in DOMAIN reader.groups
  BY <1>2 DEF IsReader
<1> HIDE DEF g
<1>4. /\ reader.groups \in Seq(Group) /\ reader.groups[g] \in Group /\ g \in Nat
      /\ n \in Nat /\ reader.groups[g].options \in Nat
  <2>1. reader.groups \in Seq(Group)
    BY DEF IsReader
  <2>2. reader.groups[g] \in Group /\ g \in Nat
    BY <1>3, <2>1
  <2> QED
    BY <2>1, <2>2 DEF Group
<1>5. new \in Group /\ new.options = n
  BY <1>4 DEF Group
<1>6. /\ gs \in Seq(Group) /\ DOMAIN gs = DOMAIN reader.groups /\ Len(gs) = Len(reader.groups)
      /\ gs[g] = new /\ \A j \in DOMAIN reader.groups : j # g => gs[j] = reader.groups[j]
  <2> HIDE DEF new, n
  <2> QED
    BY <1>3, <1>4, <1>5
<1>7. [reader EXCEPT !.groups[g].options = n] = r
  <2> HIDE DEF n
  <2>1. reader = [stack |-> reader.stack, groups |-> reader.groups, mappings |-> reader.mappings]
    BY DEF IsReader
  <2>2. [reader EXCEPT !.groups[g].options = n] = [reader EXCEPT !.groups = gs]
    BY <2>1
  <2> HIDE DEF gs
  <2> QED
    BY <2>1, <2>2, WithGroups
<1>8. Frame("option", g, n) \in Frames
  BY <1>4 DEF Frame, Frames
<1> HIDE DEF new, gs
<1>9. Options(gs) = Options(reader.groups) \cup {<<g, n>>}
  BY <1>3, <1>4, <1>5, <1>6, OptionAdds
<1> HIDE DEF n
<1>10. IsFiniteSet(Options(gs)) /\ Cardinality(Options(gs)) <= MaxOptions
  <2>1. Cardinality(Options(reader.groups)) < MaxOptions
    BY <1>1 DEF OptionCount, Options
  <2> QED
    BY <1>9, <2>1, OneMore, LogicalUpdateAssumption DEF Within
<1>11. IsReader(r) /\ Within(r)
  BY <1>6, <1>10 DEF IsReader, Within, Scoped
<1> HIDE DEF r
<1> QED
  BY <1>1, <1>7, <1>8, <1>11, PushedWithin

LEMMA ReadsWithin ==
  ASSUME IsReader(reader), Within(reader), NEW e, NEW s \in Reads(e)
  PROVE  Within(s)
<1>1. \A kind \in {"group", "option", "required", "other"} : Frame(kind, 0, 0) \in Frames
  BY DEF Frame, Frames
<1>2. ASSUME NEW r \in WithFile(e) PROVE IsReader(r) /\ Within(r)
  BY FileIsReader, FileWithin
<1>3. CASE reader.stack # <<>> /\ s = [reader EXCEPT !.stack = SubSeq(@, 1, Len(@) - 1)]
  <2> DEFINE rest == SubSeq(reader.stack, 1, Len(reader.stack) - 1)
  <2>0. reader.stack \in Seq(Frames) /\ Len(reader.stack) \in Nat \ {0}
    BY <1>3 DEF IsReader
  <2>1. Len(rest) = Len(reader.stack) - 1 /\ Len(reader.stack) \in Nat
    BY <2>0
  <2> HIDE DEF rest
  <2>2. s = [stack |-> rest, groups |-> reader.groups, mappings |-> reader.mappings]
    BY <1>3 DEF IsReader, rest
  <2> QED
    BY <2>1, <2>2, LogicalUpdateAssumption DEF Within
<1>4. \/ \E r \in WithFile(e) : s \in Pushed(r, Frame("other", 0, 0))
      \/ s \in WithGroup(e) \/ s \in WithOption \/ s \in WithFile(e) \/ s = reader
      \/ \E kind \in {"required", "other"} : s \in Pushed(reader, Frame(kind, 0, 0))
      \/ reader.stack # <<>> /\ s = [reader EXCEPT !.stack = SubSeq(@, 1, Len(@) - 1)]
  BY DEF Reads
<1> QED
  BY <1>1, <1>2, <1>3, <1>4, PushedWithin, GroupWithin, OptionWithin

\* The bounds hold of a manifest as far as it was read, and nobody adds a file
\* to a working copy or takes one from it.
Bounds == TypeOK /\ Within(reader)

LEMMA BoundsInit == Init => Bounds
<1> SUFFICES ASSUME Init PROVE Bounds
  OBVIOUS
<1>1. /\ reader.stack = <<>> /\ reader.groups = <<>> /\ reader.mappings = {}
      /\ Len(<<>>) = 0 /\ IsFiniteSet({}) /\ Cardinality({}) = 0
  BY FS_EmptySet DEF Init
<1>2. Options(reader.groups) = {}
  BY <1>1 DEF Options
<1>3. Within(reader)
  <2>1. 0 <= MaxDepth /\ 0 <= MaxGroups /\ 0 <= MaxOptions /\ 0 <= MaxMappings
    BY LogicalUpdateAssumption
  <2>2. Len(reader.stack) = 0 /\ Len(reader.groups) = 0
    BY ONLY <1>1
  <2>3. /\ IsFiniteSet(Options(reader.groups)) /\ Cardinality(Options(reader.groups)) = 0
        /\ IsFiniteSet(reader.mappings) /\ Cardinality(reader.mappings) = 0
    BY ONLY <1>1, <1>2
  <2> QED
    BY ONLY <2>1, <2>2, <2>3 DEF Within
<1>4. FilesOf(physical) = tree /\ FilesOf(context) = {}
  <2>1. physical = Original /\ context = {}
    BY DEF Init, Original
  <2> QED
    BY <2>1, OriginalBodies DEF FilesOf
<1> QED
  BY <1>3, <1>4, LogicalUpdateAssumption DEF Init, Bounds, TypeOK, Within, OptionCount, Options

LEMMA BoundsStep == Choices /\ Bounds /\ [Next]_vars => Bounds'
<1> SUFFICES ASSUME Choices, Bounds, [Next]_vars PROVE Bounds'
  OBVIOUS
<1>1. Within(reader')
  <2>1. reader' = reader \/ \E e : reader' \in Reads(e)
    <3>1. CASE Resolve
      BY <3>1 DEF Resolve, Walk, ReadEvent, ReadFails, EndManifest, Layout, planning
    <3>2. CASE Stage \/ BuildContext \/ Adapt \/ AdaptFails \/ Touch
      BY <3>2 DEF Stage, BuildContext, Adapt, AdaptFails, Touch, planning
    <3>3. CASE Reconstruct \/ UNCHANGED vars
      BY <3>3 DEF Reconstruct, CheckCandidate, CopyBack, Verify, Archive, planning, vars
    <3> QED
      BY <3>1, <3>2, <3>3 DEF Next
  <2> QED
    BY <2>1, ReadsWithin DEF Choices, Bounds
<1>2. /\ tree' = tree /\ nested' = nested /\ touches' \in 0 .. MaxTouches
      /\ pc' \in {"walk", "read", "layout", "stage", "context", "adapt", "check", "copy",
                  "verify", "archive", "published", "refused"}
      /\ providers' \subseteq {Provider}
  <2>1. CASE Resolve
    BY <2>1 DEF Resolve, Walk, ReadEvent, ReadFails, EndManifest, Layout, input, copies, Bounds, TypeOK
  <2>2. CASE Stage \/ BuildContext \/ Adapt \/ AdaptFails
    BY <2>2 DEF Stage, BuildContext, Adapt, AdaptFails, input, copies, Bounds, TypeOK
  <2>3. CASE Touch
    BY <2>3, LogicalUpdateAssumption DEF Touch, Bounds, TypeOK
  <2>4. CASE Reconstruct \/ UNCHANGED vars
    BY <2>4 DEF Reconstruct, CheckCandidate, CopyBack, Verify, Archive, input, copies, vars, Bounds, TypeOK
  <2> QED
    BY <2>1, <2>2, <2>3, <2>4 DEF Next
<1>3. FilesOf(physical') = tree
  <2>1. \/ physical' = physical
        \/ \E e \in physical : physical' = (physical \ {e}) \cup {Rewritten(e)}
    <3>1. CASE Resolve
      BY <3>1 DEF Resolve, Walk, ReadEvent, ReadFails, EndManifest, Layout, copies
    <3>2. CASE Stage \/ BuildContext \/ Adapt \/ AdaptFails \/ Touch
      BY <3>2 DEF Stage, BuildContext, Adapt, AdaptFails, Touch, copies
    <3>3. CASE Reconstruct \/ UNCHANGED vars
      BY <3>3 DEF Reconstruct, CheckCandidate, CopyBack, Verify, Archive, copies, vars
    <3> QED
      BY <3>1, <3>2, <3>3 DEF Next
  <2>2. \A e : Rewritten(e).file = e.file
    BY DEF Rewritten, Entry
  <2>3. FilesOf(physical) = tree
    BY DEF Bounds, TypeOK
  <2> QED
    BY <2>1, <2>2, <2>3 DEF FilesOf
<1>4. FilesOf(context') \subseteq tree
  <2>1. context' \in {context, physical}
    <3>1. CASE Resolve
      BY <3>1 DEF Resolve, Walk, ReadEvent, ReadFails, EndManifest, Layout, records
    <3>2. CASE Stage \/ BuildContext \/ Adapt \/ AdaptFails \/ Touch
      BY <3>2 DEF Stage, BuildContext, Adapt, AdaptFails, Touch, records
    <3>3. CASE Reconstruct \/ UNCHANGED vars
      BY <3>3 DEF Reconstruct, CheckCandidate, CopyBack, Verify, Archive, records, vars
    <3> QED
      BY <3>1, <3>2, <3>3 DEF Next
  <2> QED
    BY <2>1 DEF Bounds, TypeOK
<1> QED
  BY <1>1, <1>2, <1>3, <1>4 DEF Bounds, TypeOK, Within, OptionCount, Options

(* TypeOK for every manifest: parse_fomod stays within its limits of nesting, *)
(* groups, options and mappings, and the working copy keeps the files of the *)
(* selected mod.                                                             *)
THEOREM TypeCorrect == Spec => []TypeOK
<1>1. Choices /\ Bounds /\ [Next]_vars => Choices' /\ Bounds'
  BY ChoicesStep, BoundsStep
<1>2. Init => Choices /\ Bounds
  BY ChoicesInit, BoundsInit
<1>3. Bounds => TypeOK
  BY DEF Bounds
<1> QED
  BY <1>1, <1>2, <1>3, PTL DEF Spec

(***************************************************************************)
(* The rebuild of containers.                                              *)
(***************************************************************************)

\* What a world says, by itself.
Row(w, p) == Suppressed(w, p, w.imports[p])
RebindsOf(w, p) == {e[2] : e \in {d \in Decided(w, "rebind") : d[1] = p}}
Sole(w, p) == One(Holders(w, p))

\* A package of one container has its author's exports and its author's bulk, but
\* for the ones whose exports, or whose bulk, nothing told from the game's.
Authentic(w, i, p, x, blind, loose) ==
    Sole(w, p) => /\ x.content = w.authored[i][p] \/ p \in blind
                  /\ x.bulk = w.bulk[i][p] \/ p \in loose

\* What the imports of a rebuilt package are: all there while the mod is rebuilt,
\* each accounted for, and, of a package the game does not have, all its author's.
Promised(w, p, imports) ==
    /\ imports \subseteq Available(w)
    /\ imports \subseteq Known(w) \union PersistentIds(w) \union RebindsOf(w, p)
    /\ p \notin w.game => Row(w, p) \subseteq imports

Zenned == UNION {[S -> Zens] : S \in SUBSET Src(world)}
Legacies == UNION {[S -> Assets] : S \in SUBSET Src(world)}

Beginning == {"inspect", "recover"}
Making == {"extract", "migrate", "check"}
Made == {"consume", "roundtrip", "provide", "done"}

\* Where the lane is, and what it has made so far.
Order ==
    /\ world \in Worlds
    /\ step \in Beginning \union Making \union Made \union {"refused"}
    /\ step \notin Beginning \union {"refused"} => Recoverable(world)
    /\ step \in Beginning =>
          /\ at = 1 /\ todo = {} /\ legacy = None /\ expected = None
          /\ built = <<>> /\ candidate = <<>>
    /\ step \in Making => Len(built) = at - 1
    /\ step = "extract" => DOMAIN legacy = Contents(world) \ todo /\ expected = None
    /\ step = "migrate" =>
          DOMAIN legacy = Contents(world) /\ DOMAIN expected = Contents(world) \ todo
    /\ step = "check" =>
          DOMAIN legacy = Contents(world) /\ DOMAIN expected = Contents(world)
    /\ step \in Made => todo = {} /\ legacy = None /\ Len(built) = Len(world.conts)
    /\ step \in Making \union {"consume"} /\ Composite => candidate = <<>>
    /\ step = "consume" /\ Composite => at = 1
    /\ step \in Making /\ ~Composite => Len(candidate) = Len(built)
    /\ step = "roundtrip" => Composite /\ Len(candidate) = at - 1
    /\ step \in {"provide", "done"} \/ (step = "consume" /\ ~Composite) =>
          Len(candidate) = Len(world.conts)
    /\ step = "done" \/ (step = "consume" /\ ~Composite) => shipped = PersistentIds(world)

\* What was made keeps what it must.
Kept ==
    /\ legacy \in Legacies /\ built \in Seq([zen : Zenned, legacy : Legacies])
    /\ zen \in Zenned /\ candidate \in Seq(Zenned)
    /\ \A p \in DOMAIN expected : Promised(world, p, expected[p])
    /\ \A i \in DOMAIN built :
          /\ DOMAIN built[i].zen = world.conts[i] /\ DOMAIN built[i].legacy = world.conts[i]
          /\ \A p \in world.conts[i] : Promised(world, p, built[i].zen[p].imports)
    /\ \A i \in DOMAIN candidate : candidate[i] = built[i].zen

\* A rebind is consumed only when nothing brings its target back.
Consumed ==
    /\ \A p \in DOMAIN repairs : repairs[p].missing \intersect Available(world) = {}
    /\ step \in {"roundtrip", "done"} \/ (step = "provide" /\ Composite) =>
          \A e \in Decided(world, "rebind") : e[2] \notin Available(world)

\* The payloads of packages that are in one container.
Faithful ==
    Composite =>
        /\ \A p \in DOMAIN legacy : Authentic(world, at, p, legacy[p], unproven, unchecked)
        /\ \A i \in DOMAIN built : \A p \in world.conts[i] :
              Authentic(world, i, p, built[i].legacy[p], unproven, unchecked)
        /\ \A i \in DOMAIN candidate : \A p \in world.conts[i] :
              Authentic(world, i, p, candidate[i][p], unproven, unchecked)

RebuildInv == RebuildTypeOK /\ Order /\ Kept /\ Consumed /\ Faithful

-----------------------------------------------------------------------------
(* What becomes of the missing imports. *)

\* What has one member has one.
LEMMA OneMember == ASSUME NEW S, One(S) PROVE TheOnly(S) \in S
  <1>1. S # {}
    BY FS_EmptySet DEF One
  <1> QED
    BY <1>1 DEF TheOnly

\* What an edge may become: a rebind is of a package of the game, and a
\* suppressed import is replaced by a package of the mod.
LEMMA DecisionIs ==
    ASSUME NEW w, NEW e
    PROVE  /\ Decision(w, e).as \in {"refused", "rebind", "alias", "suppress"}
           /\ Decision(w, e).as = "rebind" => e[1] \in w.game
           /\ Decision(w, e).as = "suppress" => Decision(w, e).source \in Src(w)
  <1> DEFINE Fine(d) == /\ d.as \in {"refused", "rebind", "alias", "suppress"}
                        /\ d.as = "rebind" => e[1] \in w.game
                        /\ d.as = "suppress" => d.source \in Src(w)
  <1>1. Fine(Refused)
    BY DEF Refused
  <1>2. Fine(DonorRebind(w, e))
    BY DEF DonorRebind, Refused, Rebind
  <1>3. Fine(AliasRoute(w, e))
    <2> DEFINE alias == PrimaryMeshes(w, e[1]) # {} /\ One(AliasCandidates(w, e))
               mesh == Route(w, e[2]) = "StaticMesh" /\ One(PrimaryMeshes(w, e[1]))
    <2>1. CASE alias
      <3>1. AliasRoute(w, e) = AliasOf(TheOnly(AliasCandidates(w, e)))
        BY <2>1 DEF AliasRoute
      <3>2. AliasRoute(w, e).as = "alias"
        BY <3>1 DEF AliasOf
      <3> QED
        BY <3>2
    <2>2. CASE ~alias /\ mesh
      <3>1. AliasRoute(w, e) = SuppressedBy(TheOnly(PrimaryMeshes(w, e[1])))
        BY <2>2 DEF AliasRoute
      <3>2. TheOnly(PrimaryMeshes(w, e[1])) \in Src(w)
        BY <2>2, OneMember DEF PrimaryMeshes
      <3>3. /\ AliasRoute(w, e).as = "suppress"
            /\ AliasRoute(w, e).source = TheOnly(PrimaryMeshes(w, e[1]))
        BY <3>1 DEF SuppressedBy
      <3> QED
        BY <3>2, <3>3
    <2>3. CASE ~alias /\ ~mesh
      <3>1. AliasRoute(w, e) = Refused
        BY <2>3 DEF AliasRoute
      <3> QED
        BY <3>1, <1>1
    <2> QED
      BY <2>1, <2>2, <2>3
  <1>4. Decision(w, e) \in {Refused, DonorRebind(w, e), AliasRoute(w, e)}
    BY DEF Decision
  <1> HIDE DEF Fine
  <1>5. Fine(Decision(w, e))
    BY <1>1, <1>2, <1>3, <1>4
  <1> QED
    BY <1>5 DEF Fine

\* Every import of a recovered mod is there, aliased or rebound.
THEOREM RowIsAccounted ==
    ASSUME NEW w, Recoverable(w), NEW p \in Src(w)
    PROVE  Row(w, p) \subseteq Known(w) \union PersistentIds(w) \union RebindsOf(w, p)
  <1> SUFFICES ASSUME NEW t \in Row(w, p)
               PROVE  t \in Known(w) \union PersistentIds(w) \union RebindsOf(w, p)
    OBVIOUS
  <1>1. CASE \E e \in SuppressionsOf(w, p) : t = SuppressionSource(w, e)
    BY <1>1, DecisionIs DEF SuppressionsOf, Decided, SuppressionSource, Known
  <1>2. CASE t \in w.imports[p] /\ t \notin {e[2] : e \in SuppressionsOf(w, p)}
    <2> DEFINE e == <<p, t>>
    <2>1. CASE t \in Known(w)
      BY <2>1
    <2>2. CASE t \notin Known(w)
      <3>1. e \in MissingEdges(w)
        BY <1>2, <2>2 DEF MissingEdges, MissingOf
      <3>2. e[1] = p /\ e[2] = t
        OBVIOUS
      <3> HIDE DEF e
      <3>3. Decision(w, e).as # "refused"
        BY <3>1 DEF Recoverable, Decided
      <3>4. CASE Decision(w, e).as = "rebind"
        BY <3>1, <3>2, <3>4 DEF RebindsOf, Decided
      <3>5. CASE Decision(w, e).as = "alias"
        BY <3>1, <3>2, <3>5 DEF PersistentIds, Decided
      <3>6. CASE Decision(w, e).as = "suppress"
        BY <1>2, <3>1, <3>2, <3>6 DEF SuppressionsOf, Decided
      <3> QED
        BY <3>3, <3>4, <3>5, <3>6, DecisionIs
    <2> QED
      BY <2>1, <2>2
  <1> QED
    BY <1>1, <1>2 DEF Row, Suppressed

\* A package the game does not have has nothing to rebind.
LEMMA NewIsNotRebound ==
    ASSUME NEW w, NEW p, p \notin w.game
    PROVE  RebindsOf(w, p) = {}
  BY DecisionIs DEF RebindsOf, Decided

\* The imports that are left after a suppression are there, if they were before.
LEMMA SuppressedIsThere ==
    ASSUME NEW w, NEW p, NEW S \in SUBSET Available(w)
    PROVE  Suppressed(w, p, S) \subseteq Available(w)
  BY DecisionIs DEF Suppressed, SuppressionsOf, Decided, SuppressionSource, Available, Known

-----------------------------------------------------------------------------
(* What the worlds hold. *)

\* The containers of a mod are numbered, and their packages are the mod's.
LEMMA Containers ==
    ASSUME NEW w \in Worlds
    PROVE  /\ Len(w.conts) \in Nat /\ Len(w.conts) # 0
           /\ DOMAIN w.conts = 1 .. Len(w.conts)
           /\ \A i \in DOMAIN w.conts : w.conts[i] \subseteq Src(w)
           /\ \A i \in DOMAIN w.conts : \A p \in w.conts[i] :
                 w.authored[i][p] \in Nat /\ w.bulk[i][p] \in Nat
           /\ \A p \in w.game : w.cur[p] \subseteq w.game
  <1>1. IsWorld(w)
    BY WorldsAssumption
  <1> DEFINE T == SUBSET Src(w)
  <1>2. w.conts \in Seq(T) /\ w.conts # <<>>
    BY <1>1 DEF IsWorld
  <1>3. \A i \in DOMAIN w.conts : w.conts[i] \subseteq Src(w)
    BY DEF Src
  <1> HIDE DEF T
  <1>4. Len(w.conts) \in Nat /\ Len(w.conts) # 0 /\ DOMAIN w.conts = 1 .. Len(w.conts)
    BY <1>2
  <1> QED
    BY <1>1, <1>3, <1>4 DEF IsWorld

\* A package that is in one container is in no other.
LEMMA OnlyHolder ==
    ASSUME NEW w \in Worlds, NEW i \in DOMAIN w.conts, NEW p \in w.conts[i], Sole(w, p)
    PROVE  Holders(w, p) = {i}
  <1>1. IsFiniteSet(1 .. Len(w.conts))
    BY Containers, FS_Interval
  <1>2. IsFiniteSet(DOMAIN w.conts)
    BY <1>1, Containers
  <1>3. Holders(w, p) \in SUBSET (DOMAIN w.conts)
    BY DEF Holders
  <1>4. IsFiniteSet(Holders(w, p))
    BY <1>2, <1>3, FS_Subset
  <1>5. PICK x : Holders(w, p) = {x}
    BY <1>4, FS_Singleton DEF Sole, One
  <1>6. i \in Holders(w, p)
    BY DEF Holders
  <1> QED
    BY <1>5, <1>6

\* What a package of a mod holds in one of its containers is what its author wrote.
LEMMA AuthoredOnce ==
    ASSUME NEW w \in Worlds, NEW i \in DOMAIN w.conts, NEW p \in w.conts[i], Sole(w, p)
    PROVE  Authored(w, p) = {w.authored[i][p]} /\ Bulks(w, p) = {w.bulk[i][p]}
  BY OnlyHolder DEF Authored, Bulks

\* Payloads are numbers.
LEMMA PayloadsAreNat ==
    ASSUME NEW w \in Worlds, NEW p
    PROVE  Authored(w, p) \subseteq Nat /\ Bulks(w, p) \subseteq Nat
  BY Containers DEF Authored, Bulks, Holders

-----------------------------------------------------------------------------
(* What extraction hands on. *)

\* An asset is two payloads, the imports it names, and the ones it marks.
LEMMA AssetIs ==
    ASSUME world \in Worlds, NEW p \in Src(world), NEW c \in Nat, NEW b \in Nat,
           NEW ns \in SUBSET Available(world), NEW ms \in SUBSET world.imports[p]
    PROVE  Asset(c, b, ns, ms) \in Assets
  <1>1. ms \subseteq UNION {world.imports[q] : q \in Src(world)}
    OBVIOUS
  <1> QED
    BY <1>1 DEF Asset, Assets

LEMMA LayeredIs ==
    ASSUME world \in Worlds, NEW p \in Src(world), NEW c \in Nat, NEW b \in Nat
    PROVE  /\ Layered(world, p, c, b) \in Assets
           /\ Layered(world, p, c, b).content = c /\ Layered(world, p, c, b).bulk = b
  <1> DEFINE resolved == (world.imports[p] \intersect (Mounted(world) \union world.game))
                            \ world.stale[p]
  <1>1. resolved \subseteq Available(world)
    BY DEF Mounted, Available, Known
  <1>2. Layered(world, p, c, b) = Asset(c, b, resolved, world.imports[p] \ resolved)
    BY DEF Layered
  <1> HIDE DEF resolved
  <1>3. Layered(world, p, c, b) \in Assets
    BY <1>1, <1>2, AssetIs
  <1>4. Layered(world, p, c, b).content = c /\ Layered(world, p, c, b).bulk = b
    BY <1>2 DEF Asset
  <1> QED
    BY <1>3, <1>4

LEMMA OfGameIs ==
    ASSUME world \in Worlds, NEW p \in Src(world), Existing(p), NEW b \in Nat
    PROVE  /\ OfGame(world, p, b) \in Assets
           /\ OfGame(world, p, b).content = 0 /\ OfGame(world, p, b).bulk = b
  <1>1. world.cur[p] \subseteq Available(world)
    BY Containers DEF Existing, Available, Known
  <1>2. OfGame(world, p, b) \in Assets
    BY <1>1, AssetIs DEF OfGame
  <1>3. OfGame(world, p, b).content = 0 /\ OfGame(world, p, b).bulk = b
    BY DEF OfGame, Asset
  <1> QED
    BY <1>2, <1>3

\* What the source-only view hands back is some author's.
LEMMA ExclusiveIs ==
    ASSUME world \in Worlds, NEW p \in Src(world), NEW a \in ExclusiveAssets(world, p)
    PROVE  a \in Assets /\ a.content \in Authored(world, p) /\ a.bulk \in Bulks(world, p)
  <1>1. PICK b \in Bulks(world, p) :
           \/ /\ world.imports[p] \subseteq Mounted(world)
              /\ \E c \in Authored(world, p) : a = Asset(c, b, world.imports[p], {})
           \/ \E c \in Authored(world, p) : a = Layered(world, p, c, b)
           \/ Existing(p) /\ 0 \in Authored(world, p) /\ a = OfGame(world, p, b)
    BY DEF ExclusiveAssets
  <1>2. b \in Nat /\ Authored(world, p) \subseteq Nat
    BY PayloadsAreNat
  <1>3. CASE /\ world.imports[p] \subseteq Mounted(world)
             /\ \E c \in Authored(world, p) : a = Asset(c, b, world.imports[p], {})
    <2>1. PICK c \in Authored(world, p) : a = Asset(c, b, world.imports[p], {})
      BY <1>3
    <2>2. world.imports[p] \subseteq Available(world)
      BY <1>3 DEF Mounted, Available, Known
    <2>3. a \in Assets
      BY <1>2, <2>1, <2>2, AssetIs
    <2>4. a.content = c /\ a.bulk = b
      BY <2>1 DEF Asset
    <2> QED
      BY <2>3, <2>4
  <1>4. CASE \E c \in Authored(world, p) : a = Layered(world, p, c, b)
    BY <1>2, <1>4, LayeredIs
  <1>5. CASE Existing(p) /\ 0 \in Authored(world, p) /\ a = OfGame(world, p, b)
    BY <1>2, <1>5, OfGameIs
  <1> QED
    BY <1>1, <1>3, <1>4, <1>5

\* The exports the layered view hands back are some author's, or the game's.
LEMMA LayeredAssetsAre ==
    ASSUME world \in Worlds, NEW p \in Src(world), NEW a \in LayeredAssets(world, p)
    PROVE  /\ a \in Assets
           /\ a.content \in Authored(world, p) \/ (Existing(p) /\ a.content = 0)
           /\ a.bulk \in Bulks(world, p) \/ Existing(p)
  <1>1. PICK b \in Bulks(world, p) \union TheGames(p) :
           \/ \E c \in Authored(world, p) : a = Layered(world, p, c, b)
           \/ Existing(p) /\ a = OfGame(world, p, b)
    BY DEF LayeredAssets
  <1>2. /\ b \in Nat /\ Authored(world, p) \subseteq Nat
        /\ b \in Bulks(world, p) \/ Existing(p)
    BY PayloadsAreNat DEF TheGames
  <1>3. CASE \E c \in Authored(world, p) : a = Layered(world, p, c, b)
    BY <1>2, <1>3, LayeredIs
  <1>4. CASE Existing(p) /\ a = OfGame(world, p, b)
    BY <1>2, <1>4, OfGameIs
  <1> QED
    BY <1>1, <1>3, <1>4

-----------------------------------------------------------------------------
(* What a repair promises. *)

\* A repair keeps the payloads and leaves a package with names that are there, and
\* the imports it asks for are there and accounted for.
Honest(w, p, a, r) ==
    /\ r.asset.content = a.content /\ r.asset.bulk = a.bulk
    /\ r.asset \in [content : {a.content}, bulk : {a.bulk}, names : SUBSET Available(w),
                    marks : {{}, a.marks}]
    /\ Promised(w, p, r.imports)

THEOREM RepairsAreHonest ==
    ASSUME NEW w \in Worlds, Recoverable(w), NEW p \in Src(w),
           NEW a, a.names \subseteq Available(w),
           a = Asset(a.content, a.bulk, a.names, a.marks),
           world = w, NEW r \in Migrations(w, p, a, Row(w, p))
    PROVE  Honest(w, p, a, r)
  <1> DEFINE row == Row(w, p)
  <1>1. row \subseteq Known(w) \union PersistentIds(w) \union RebindsOf(w, p)
    BY RowIsAccounted
  <1>2. p \notin w.game => row \subseteq Available(w)
    BY <1>1, NewIsNotRebound DEF Available
  <1>3. p \in w.game => w.cur[p] \subseteq w.game
    BY Containers
  <1>4. w.kind[p] = "SkeletalMesh" /\ p \in w.game
           => {w.skeleton[p]} \union w.physics[p] \subseteq w.game
    BY <1>3, WorldsAssumption DEF IsWorld
  <1>5. ASSUME NEW targets \in SUBSET Available(w), NEW imports,
               Promised(w, p, imports),
               r.asset = Renamed(a, targets), r.imports = imports
        PROVE  Honest(w, p, a, r)
    BY <1>5 DEF Honest, Renamed, Asset
  <1>6. ASSUME NEW more \in SUBSET Available(w), more \subseteq row \union w.game
        PROVE  Promised(w, p, (row \intersect Available(w)) \union more)
    BY <1>1, <1>2, <1>6 DEF Promised, Known
  <1>7. ASSUME r \in Resolved(w, a, row)
        PROVE  Honest(w, p, a, r)
    <2>1. r = Result(a, row) /\ row \subseteq Available(w)
      BY <1>7 DEF Resolved
    <2>2. r.asset = a /\ r.imports = row
      BY <2>1 DEF Result
    <2>3. Promised(w, p, row)
      BY <1>1, <2>1 DEF Promised
    <2> QED
      BY <2>2, <2>3 DEF Honest, Asset
  <1>8. ASSUME r \in TemplateRepair(w, p, a, row)
        PROVE  Honest(w, p, a, r)
    <2>1. p \in w.game /\ r = Result(Renamed(a, w.cur[p]), w.cur[p])
      BY <1>8 DEF TemplateRepair, Existing
    <2>2. r.asset = Renamed(a, w.cur[p]) /\ r.imports = w.cur[p]
      BY <2>1 DEF Result
    <2>3. Promised(w, p, w.cur[p])
      BY <1>3, <2>1 DEF Promised, Available, Known
    <2> QED
      BY <1>5, <2>2, <2>3 DEF Promised
  <1>9. ASSUME NEW targets \in SUBSET row, targets \subseteq Available(w),
               r \in SingleExternalRepair(w, a, row, targets)
        PROVE  Honest(w, p, a, r)
    <2>1. r = Result(Repaired(a, targets), (row \intersect Available(w)) \union targets)
      BY <1>9 DEF SingleExternalRepair
    <2>2. r.asset = Repaired(a, targets)
          /\ r.imports = (row \intersect Available(w)) \union targets
      BY <2>1 DEF Result
    <2> QED
      BY <1>5, <1>6, <1>9, <2>2 DEF Repaired
  <1>10. ASSUME r \in StaticMeshRepair(w, p, a, row)
         PROVE  Honest(w, p, a, r)
    <2> DEFINE unaccounted == row \ a.names
    <2>1. /\ unaccounted \subseteq Available(w)
          /\ r = Result(Repaired(a, unaccounted), (row \intersect Available(w)) \union unaccounted)
      BY <1>10 DEF StaticMeshRepair
    <2>2. r.asset = Repaired(a, unaccounted)
          /\ r.imports = (row \intersect Available(w)) \union unaccounted
      BY <2>1 DEF Result
    <2>3. unaccounted \subseteq row
      OBVIOUS
    <2> HIDE DEF unaccounted
    <2> QED
      BY <1>5, <1>6, <2>1, <2>2, <2>3 DEF Repaired
  <1>11. ASSUME w.kind[p] = "SkeletalMesh", p \in w.game, r \in SkeletalRepair(w, p, a, row)
         PROVE  Honest(w, p, a, r)
    <2> DEFINE targets == {w.skeleton[p]} \union w.physics[p]
    <2>1. targets \subseteq Available(w)
      BY <1>11 DEF SkeletalRepair
    <2>2. targets \subseteq w.game
      BY <1>4, <1>11
    <2>3. r = [Result(Repaired(a, targets), (row \intersect Available(w)) \union targets)
                 EXCEPT !.skeletal = TRUE]
      BY <1>11 DEF SkeletalRepair
    <2> HIDE DEF targets
    <2>4. r.asset = Repaired(a, targets)
          /\ r.imports = (row \intersect Available(w)) \union targets
      BY <2>3 DEF Result
    <2> QED
      BY <1>5, <1>6, <2>1, <2>2, <2>4 DEF Repaired
  <1>12. r \in SkeletalMesh(w, p, a, row) /\ w.kind[p] = "SkeletalMesh" => Honest(w, p, a, r)
    BY <1>7, <1>11 DEF SkeletalMesh, Existing
  <1>13. r \in StaticMesh(w, p, a, row) => Honest(w, p, a, r)
    BY <1>7, <1>10 DEF StaticMesh
  <1>14. r \in Texture2D(w, p, a, row) => Honest(w, p, a, r)
    BY <1>7, <1>8 DEF Texture2D
  <1>15. r \in MaterialInstance(w, p, a, row) => Honest(w, p, a, r)
    <2>1. (row \ Src(w)) \intersect w.game \subseteq Available(w)
      BY DEF Available, Known
    <2> QED
      BY <1>7, <1>8, <1>9, <2>1 DEF MaterialInstance
  <1>16. r \in AuthoredPackage(w, a, row) => Honest(w, p, a, r)
    <2>1. row \subseteq Available(w) => row \ a.names \subseteq Available(w)
      OBVIOUS
    <2> QED
      BY <1>7, <1>9, <2>1 DEF AuthoredPackage, BlueprintRepair
  <1> HIDE DEF row
  <1>17. \/ w.kind[p] = "SkeletalMesh" /\ r \in SkeletalMesh(w, p, a, row)
         \/ r \in StaticMesh(w, p, a, row)
         \/ r \in Texture2D(w, p, a, row)
         \/ r \in MaterialInstance(w, p, a, row)
         \/ r \in AuthoredPackage(w, a, row)
         \/ r \in TemplateRepair(w, p, a, row)
    BY DEF Migrations, AnimationOrSound, row
  <1> QED
    BY <1>8, <1>12, <1>13, <1>14, <1>15, <1>16, <1>17

-----------------------------------------------------------------------------
(* The steps. *)

\* The empty function is a set of packages with nothing wrong.
LEMMA NoneIs ==
    /\ DOMAIN None = {}
    /\ None \in Legacies /\ None \in Zenned
  <1>1. DOMAIN None = {}
    BY DEF None
  <1>2. None \in [{} -> Assets] /\ None \in [{} -> Zens]
    BY DEF None
  <1> QED
    BY <1>1, <1>2 DEF Legacies, Zenned

\* The mod and the lane stay the same, and so does what their names stand for.
LEMMA SameWorld ==
    ASSUME world' = world
    PROVE  Assets' = Assets /\ Zens' = Zens /\ Legacies' = Legacies /\ Zenned' = Zenned
  <1>1. Assets' = Assets /\ Zens' = Zens
    BY DEF Assets, Zens
  <1> QED
    BY <1>1 DEF Legacies, Zenned

\* A step that makes nothing leaves what was made as it was.
LEMMA NothingMade ==
    ASSUME RebuildInv,
           UNCHANGED <<world, lane, at, legacy, expected, zen, built, candidate, unproven,
                       unchecked>>
    PROVE  Kept' /\ Faithful'
  <1>1. Legacies' = Legacies /\ Zenned' = Zenned
    BY SameWorld
  <1>2. Kept'
    BY <1>1 DEF RebuildInv, Kept
  <1>3. Faithful'
    BY DEF RebuildInv, Faithful, Composite
  <1> QED
    BY <1>2, <1>3

LEMMA RebuildStarts == RebuildInit => RebuildInv
  <1> SUFFICES ASSUME RebuildInit PROVE RebuildInv
    OBVIOUS
  <1> USE DEF RebuildInit
  <1>1. 1 \in DOMAIN world.conts
    BY Containers
  <1>2. built \in Seq([zen : Zenned, legacy : Legacies]) /\ candidate \in Seq(Zenned)
    OBVIOUS
  <1>3. DOMAIN built = {} /\ DOMAIN candidate = {} /\ Len(built) = 0 /\ Len(candidate) = 0
    OBVIOUS
  <1>4. RebuildTypeOK
    BY <1>1, <1>3, NoneIs, Containers DEF RebuildTypeOK
  <1>5. Order
    BY DEF Order, Beginning, Making, Made
  <1>6. Kept
    BY <1>2, <1>3, NoneIs DEF Kept
  <1>7. Consumed /\ Faithful
    BY <1>3, NoneIs DEF Consumed, Faithful
  <1> QED
    BY <1>4, <1>5, <1>6, <1>7 DEF RebuildInv

\* A package that is extracted has a good type and, if it is in one container only
\* and was compared, its author's payloads.
LEMMA Extracts ==
    ASSUME RebuildInv, step = "extract", NEW p \in todo, NEW a \in Assets, Extracted(p, a),
           unproven \subseteq unproven', unchecked \subseteq unchecked',
           unproven' \subseteq unchecked', unchecked' \subseteq world.game,
           Composite => Authentic(world, at, p, a, unproven', unchecked')
    PROVE  RebuildInv'
  <1>0. legacy' = With(legacy, p, a)
    BY DEF Extracted
  <1>1. /\ DOMAIN legacy' = DOMAIN legacy \union {p}
        /\ legacy'[p] = a
        /\ \A q \in DOMAIN legacy : q # p => legacy'[q] = legacy[q]
    BY <1>0 DEF With
  <1> USE DEF RebuildInv, Extracted
  <1>2. p \in Contents(world) /\ Contents(world)' = Contents(world)
    BY DEF RebuildTypeOK, Contents
  <1>3. Legacies' = Legacies /\ Zenned' = Zenned /\ Assets' = Assets /\ Zens' = Zens
    BY SameWorld
  <1>4. RebuildTypeOK'
    <2>1. lane' \in Lanes /\ at' \in DOMAIN world'.conts
      BY DEF RebuildTypeOK
    <2>2. todo' \subseteq Contents(world)' /\ DOMAIN legacy' \subseteq Contents(world)'
      BY <1>1, <1>2 DEF RebuildTypeOK
    <2>3. \A q \in DOMAIN legacy' : legacy'[q] \in Assets'
      BY <1>1, <1>3 DEF RebuildTypeOK
    <2>4. \A q \in DOMAIN zen' : zen'[q] \in Zens'
      BY <1>3 DEF RebuildTypeOK
    <2>5. /\ Len(built') <= Len(world'.conts) /\ Len(candidate') <= Len(built')
          /\ shipped' \subseteq Available(world')
          /\ unproven' \subseteq unchecked' /\ unchecked' \subseteq world'.game
      BY DEF RebuildTypeOK
    <2> QED
      BY <2>1, <2>2, <2>3, <2>4, <2>5 DEF RebuildTypeOK
  <1>5. Order'
    <2>1. DOMAIN legacy' = Contents(world)' \ todo'
      BY <1>1, <1>2 DEF Order
    <2> QED
      BY <2>1 DEF Order, Beginning, Making, Made, Composite
  <1>6. Kept'
    <2>1. legacy \in [DOMAIN legacy -> Assets] /\ DOMAIN legacy \subseteq Src(world)
      BY DEF Kept, Legacies
    <2>2. legacy' = [q \in DOMAIN legacy \union {p} |-> IF q = p THEN a ELSE legacy[q]]
      BY DEF With
    <2>3. legacy' \in [DOMAIN legacy \union {p} -> Assets]
      BY <2>1, <2>2
    <2>4. DOMAIN legacy \union {p} \subseteq Src(world)
      BY <2>1, <1>2, Containers DEF Contents, RebuildTypeOK, Order
    <2>5. legacy' \in Legacies
      BY <2>3, <2>4 DEF Legacies
    <2> QED
      BY <1>3, <2>5 DEF Kept
  <1>7. Consumed'
    BY DEF Consumed, Composite
  <1>8. Faithful'
    <2> SUFFICES ASSUME Composite PROVE Faithful'
      BY DEF Faithful, Composite
    <2>1. ASSUME NEW q \in DOMAIN legacy'
          PROVE  Authentic(world, at, q, legacy'[q], unproven', unchecked')
      BY <1>1, <2>1 DEF Faithful, Authentic
    <2>2. ASSUME NEW i, NEW q, NEW x, Authentic(world, i, q, x, unproven, unchecked)
          PROVE  Authentic(world, i, q, x, unproven', unchecked')
      BY <2>2 DEF Authentic
    <2> QED
      BY <2>1, <2>2 DEF Faithful, Composite
  <1> QED
    BY <1>4, <1>5, <1>6, <1>7, <1>8

\* The three ways to extract a package.
LEMMA ExtractSteps ==
    RebuildInv /\ (ExtractExclusive \/ ExtractFallback \/ ExtractAdditive) => RebuildInv'
  <1> SUFFICES ASSUME RebuildInv, ExtractExclusive \/ ExtractFallback \/ ExtractAdditive
               PROVE  RebuildInv'
    OBVIOUS
  <1>0. /\ world \in Worlds /\ at \in DOMAIN world.conts /\ todo \subseteq world.conts[at]
        /\ todo \subseteq Src(world)
        /\ unproven \subseteq unchecked /\ unchecked \subseteq world.game
    BY Containers DEF RebuildInv, RebuildTypeOK, Order, Contents
  <1>1. CASE ExtractExclusive
    <2>1. PICK p \in todo : \E a \in ExclusiveAssets(world, p) : Extracted(p, a)
      BY <1>1 DEF ExtractExclusive
    <2>2. PICK a \in ExclusiveAssets(world, p) : Extracted(p, a)
      BY <2>1
    <2>3. a \in Assets /\ a.content \in Authored(world, p) /\ a.bulk \in Bulks(world, p)
      BY <1>0, ExclusiveIs
    <2>4. Authentic(world, at, p, a, unproven, unchecked)
      BY <1>0, <2>3, AuthoredOnce DEF Authentic
    <2>5. step = "extract" /\ UNCHANGED <<unproven, unchecked>>
      BY <1>1 DEF ExtractExclusive
    <2> QED
      BY <1>0, <2>2, <2>3, <2>4, <2>5, Extracts
  <1>2. CASE ExtractFallback
    <2>1. PICK p \in todo, compared \in BOOLEAN : \E a \in LayeredAssets(world, p) :
             /\ compared => Existing(p)
             /\ HasAuthorship(world, p, a, compared)
             /\ Extracted(p, a)
             /\ unproven' = unproven \union (IF compared THEN {} ELSE {p} \intersect world.game)
             /\ unchecked' = unchecked \union ({p} \intersect world.game)
      BY <1>2 DEF ExtractFallback
    <2>2. PICK a \in LayeredAssets(world, p) :
             /\ HasAuthorship(world, p, a, compared)
             /\ Extracted(p, a)
             /\ unproven' = unproven \union (IF compared THEN {} ELSE {p} \intersect world.game)
             /\ unchecked' = unchecked \union ({p} \intersect world.game)
      BY <2>1
    <2>3. /\ a \in Assets
          /\ a.content \in Authored(world, p) \/ (Existing(p) /\ a.content = 0)
          /\ a.bulk \in Bulks(world, p) \/ Existing(p)
      BY <1>0, LayeredAssetsAre
    <2>4. ASSUME p \notin unproven', Sole(world, p)
          PROVE  a.content = world.authored[at][p]
      <3>1. CASE a.content \in Authored(world, p)
        BY <1>0, <2>4, <3>1, AuthoredOnce
      <3>2. CASE Existing(p) /\ a.content = 0
        <4>1. compared
          BY <2>2, <2>4, <3>2 DEF Existing
        <4>2. RawUnchanged(world, p)
          BY <2>2, <3>2, <4>1 DEF HasAuthorship
        <4>3. Holders(world, p) = {at}
          BY <1>0, <2>4, OnlyHolder
        <4> QED
          BY <3>2, <4>2, <4>3 DEF RawUnchanged
      <3> QED
        BY <2>3, <3>1, <3>2
    <2>5. ASSUME p \notin unchecked', Sole(world, p)
          PROVE  a.bulk = world.bulk[at][p]
      <3>1. a.bulk \in Bulks(world, p)
        BY <2>2, <2>3, <2>5 DEF Existing
      <3> QED
        BY <1>0, <2>5, <3>1, AuthoredOnce
    <2>6. /\ unproven \subseteq unproven' /\ unchecked \subseteq unchecked'
          /\ unproven' \subseteq unchecked' /\ unchecked' \subseteq world.game
      BY <1>0, <2>2
    <2>7. step = "extract"
      BY <1>2 DEF ExtractFallback
    <2> QED
      BY <2>2, <2>3, <2>4, <2>5, <2>6, <2>7, Extracts DEF Authentic
  <1>3. CASE ExtractAdditive
    <2>1. PICK p \in todo : \E c \in Authored(world, p), b \in Bulks(world, p) :
             Extracted(p, Layered(world, p, c, b))
      BY <1>3 DEF ExtractAdditive
    <2>2. PICK c \in Authored(world, p), b \in Bulks(world, p) :
             Extracted(p, Layered(world, p, c, b))
      BY <2>1
    <2>3. Layered(world, p, c, b) \in Assets
      BY <1>0, LayeredIs, PayloadsAreNat
    <2>4. step = "extract" /\ ~Composite /\ UNCHANGED <<unproven, unchecked>>
      BY <1>3 DEF ExtractAdditive
    <2> QED
      BY <1>0, <2>2, <2>3, <2>4, Extracts
  <1> QED
    BY <1>1, <1>2, <1>3

\* A package that is migrated is repaired by an honest repair, or the lane refuses.
LEMMA MigrationIs ==
    ASSUME RebuildInv, MigrateOne
    PROVE  \/ step' = "refused" /\ UNCHANGED <<todo, legacy, expected, repairs>>
           \/ \E p \in todo : \E r :
                /\ r.asset \in Assets /\ Payloads(r.asset) = Payloads(legacy[p])
                /\ Promised(world, p, r.imports)
                /\ legacy' = [legacy EXCEPT ![p] = r.asset]
                /\ expected' = With(expected, p, r.imports)
                /\ \/ repairs' = repairs
                   \/ repairs' = With(repairs, p, [missing |-> Row(world, p) \ Available(world),
                                                   target |-> r.imports])
                /\ todo' = todo \ {p} /\ step' = step
  <1> DEFINE a(p) == [legacy[p] EXCEPT !.names = Suppressed(world, p, @)]
             rs(p) == IF Cardinality(SuppressionsOf(world, p)) > 1 THEN {}
                      ELSE Migrations(world, p, a(p), Row(world, p))
  <1>1. PICK p \in todo :
           IF rs(p) = {}
             THEN step' = "refused" /\ UNCHANGED <<todo, legacy, expected, repairs>>
             ELSE \E r \in rs(p) :
                    /\ legacy' = [legacy EXCEPT ![p] = r.asset]
                    /\ expected' = With(expected, p, r.imports)
                    /\ repairs' = IF r.skeletal
                                    THEN With(repairs, p, [missing |-> Row(world, p) \ Available(world),
                                                           target |-> r.imports])
                                    ELSE repairs
                    /\ todo' = todo \ {p}
                    /\ UNCHANGED step
    BY DEF MigrateOne, Row
  <1>2. CASE rs(p) = {}
    BY <1>1, <1>2
  <1>3. CASE rs(p) # {}
    <2>1. PICK r \in rs(p) :
             /\ legacy' = [legacy EXCEPT ![p] = r.asset]
             /\ expected' = With(expected, p, r.imports)
             /\ repairs' = IF r.skeletal
                             THEN With(repairs, p, [missing |-> Row(world, p) \ Available(world),
                                                    target |-> r.imports])
                             ELSE repairs
             /\ todo' = todo \ {p}
             /\ UNCHANGED step
      BY <1>1, <1>3
    <2>2. step = "migrate"
      BY DEF MigrateOne
    <2>3. /\ world \in Worlds /\ Recoverable(world)
          /\ p \in Contents(world) /\ p \in Src(world) /\ p \in DOMAIN legacy
      BY <2>2, Containers DEF RebuildInv, RebuildTypeOK, Order, Contents, Beginning
    <2>4. legacy[p] \in Assets
      BY <2>3 DEF RebuildInv, RebuildTypeOK
    <2>5. /\ a(p).content = legacy[p].content /\ a(p).bulk = legacy[p].bulk
          /\ a(p).marks = legacy[p].marks
          /\ a(p).names = Suppressed(world, p, legacy[p].names)
          /\ a(p) = Asset(a(p).content, a(p).bulk, a(p).names, a(p).marks)
      BY <2>4 DEF Assets, Asset
    <2>6. a(p).names \subseteq Available(world)
      BY <2>4, <2>5, SuppressedIsThere DEF Assets
    <2>7. r \in Migrations(world, p, a(p), Row(world, p))
      BY <2>1
    <2> HIDE DEF a
    <2>8. Honest(world, p, a(p), r)
      BY <2>3, <2>5, <2>6, <2>7, RepairsAreHonest
    <2>9. r.asset \in Assets /\ Payloads(r.asset) = Payloads(legacy[p])
      BY <2>4, <2>5, <2>8 DEF Honest, Assets, Payloads
    <2> QED
      BY <2>1, <2>8, <2>9 DEF Honest
  <1> QED
    BY <1>2, <1>3

\* A migration keeps the payloads, and asks for imports that keep their promise.
LEMMA MigrateSteps == RebuildInv /\ MigrateOne => RebuildInv'
  <1> SUFFICES ASSUME RebuildInv, MigrateOne PROVE RebuildInv'
    OBVIOUS
  <1>0. /\ step = "migrate" /\ step \in Making
        /\ UNCHANGED <<world, lane, at, zen, built, candidate, shipped, unproven, unchecked>>
        /\ Contents(world)' = Contents(world) /\ Composite' = Composite
        /\ Legacies' = Legacies /\ Zenned' = Zenned /\ Assets' = Assets /\ Zens' = Zens
    BY SameWorld DEF MigrateOne, Contents, Composite, Making
  <1>1. CASE step' = "refused" /\ UNCHANGED <<todo, legacy, expected, repairs>>
    <2>1. Kept' /\ Faithful'
      BY <1>0, <1>1, NothingMade
    <2>2. RebuildTypeOK'
      BY <1>0, <1>1 DEF RebuildInv, RebuildTypeOK
    <2>3. Order' /\ Consumed'
      BY <1>0, <1>1 DEF RebuildInv, Order, Consumed, Beginning, Making, Made
    <2> QED
      BY <2>1, <2>2, <2>3 DEF RebuildInv
  <1>2. ASSUME NEW p \in todo, NEW r,
               r.asset \in Assets, Payloads(r.asset) = Payloads(legacy[p]),
               Promised(world, p, r.imports),
               legacy' = [legacy EXCEPT ![p] = r.asset],
               expected' = With(expected, p, r.imports),
               \/ repairs' = repairs
               \/ repairs' = With(repairs, p, [missing |-> Row(world, p) \ Available(world),
                                               target |-> r.imports]),
               todo' = todo \ {p}, step' = step
        PROVE  RebuildInv'
    <2>1. DOMAIN legacy = Contents(world) /\ p \in DOMAIN legacy
      BY <1>0 DEF RebuildInv, RebuildTypeOK, Order
    <2>2. legacy \in [DOMAIN legacy -> Assets] /\ DOMAIN legacy \subseteq Src(world)
      BY DEF RebuildInv, Kept, Legacies
    <2>3. /\ legacy' \in [DOMAIN legacy -> Assets] /\ DOMAIN legacy' = DOMAIN legacy
          /\ \A q \in DOMAIN legacy : /\ legacy'[q].content = legacy[q].content
                                     /\ legacy'[q].bulk = legacy[q].bulk
      BY <1>2, <2>1, <2>2 DEF Payloads
    <2>4. /\ DOMAIN expected' = DOMAIN expected \union {p}
          /\ expected'[p] = r.imports
          /\ \A q \in DOMAIN expected : q # p => expected'[q] = expected[q]
      BY <1>2 DEF With
    <2>5. RebuildTypeOK'
      BY <1>0, <1>2, <2>1, <2>3 DEF RebuildInv, RebuildTypeOK
    <2>6. Order'
      <3>1. DOMAIN expected' = Contents(world) \ todo'
        BY <1>0, <1>2, <2>1, <2>4 DEF RebuildInv, Order
      <3> QED
        BY <1>0, <1>2, <2>1, <2>3, <3>1 DEF RebuildInv, Order, Beginning, Making, Made
    <2>7. Kept'
      <3>1. legacy' \in Legacies
        BY <2>2, <2>3 DEF Legacies
      <3>2. \A q \in DOMAIN expected' : Promised(world, q, expected'[q])
        BY <1>2, <2>4 DEF RebuildInv, Kept
      <3> QED
        BY <1>0, <3>1, <3>2 DEF RebuildInv, Kept
    <2>8. Consumed'
      <3>1. \A q \in DOMAIN repairs' : repairs'[q].missing \intersect Available(world) = {}
        <4>1. CASE repairs' = repairs
          BY <4>1 DEF RebuildInv, Consumed
        <4>2. CASE repairs' = With(repairs, p, [missing |-> Row(world, p) \ Available(world),
                                                target |-> r.imports])
          <5>1. /\ DOMAIN repairs' = DOMAIN repairs \union {p}
                /\ repairs'[p].missing = Row(world, p) \ Available(world)
                /\ \A q \in DOMAIN repairs : q # p => repairs'[q] = repairs[q]
            BY <4>2 DEF With
          <5> QED
            BY <5>1 DEF RebuildInv, Consumed
        <4> QED
          BY <1>2, <4>1, <4>2
      <3> QED
        BY <1>0, <1>2, <3>1 DEF Consumed
    <2>9. Faithful'
      BY <1>0, <2>3 DEF RebuildInv, Faithful, Authentic
    <2> QED
      BY <2>5, <2>6, <2>7, <2>8, <2>9 DEF RebuildInv
  <1> QED
    BY <1>1, <1>2, MigrationIs

\* Whatever to-zen does, it makes packages of the container.
LEMMA BuildSteps == RebuildInv /\ Build => RebuildInv'
  <1> SUFFICES ASSUME RebuildInv, Build PROVE RebuildInv'
    OBVIOUS
  <1>0. /\ step = "migrate" /\ step' = "check" /\ todo = {}
        /\ UNCHANGED <<world, lane, at, todo, legacy, expected, repairs, built,
                       candidate, shipped, unproven, unchecked>>
        /\ Contents(world)' = Contents(world) /\ Composite' = Composite
        /\ Legacies' = Legacies /\ Zenned' = Zenned /\ Assets' = Assets /\ Zens' = Zens
    BY SameWorld DEF Build, Contents, Composite
  <1> DEFINE whole == [p \in Contents(world) |-> Zen(p)]
  <1>1. whole \in [Contents(world) -> Zens]
    <2>1. ASSUME NEW p \in Contents(world) PROVE Zen(p) \in Zens
      <3>1. legacy[p] \in Assets
        BY <1>0 DEF RebuildInv, RebuildTypeOK, Order
      <3> QED
        BY <3>1 DEF Zen, Zens, Assets
    <2> QED
      BY <2>1
  <1>2. \/ zen' = whole
        \/ \E p \in Contents(world) :
             \/ zen' = [q \in Contents(world) \ {p} |-> whole[q]]
             \/ zen' = [whole EXCEPT ![p].content = Corrupt]
             \/ zen' = [whole EXCEPT ![p].bulk = Corrupt]
             \/ \E i \in whole[p].imports : zen' = [whole EXCEPT ![p].imports = @ \ {i}]
    BY DEF Build
  <1> HIDE DEF whole
  <1>3. \E S \in SUBSET Contents(world) : zen' \in [S -> Zens]
    <2>1. CASE zen' = whole
      BY <1>1, <2>1
    <2>2. ASSUME NEW p \in Contents(world), zen' = [q \in Contents(world) \ {p} |-> whole[q]]
          PROVE  zen' \in [Contents(world) \ {p} -> Zens]
      BY <1>1, <2>2
    <2>3. ASSUME NEW p \in Contents(world), zen' = [whole EXCEPT ![p].content = Corrupt]
          PROVE  zen' \in [Contents(world) -> Zens]
      <3>1. [whole[p] EXCEPT !.content = Corrupt] \in Zens
        BY <1>1, CorruptAssumption DEF Zens
      <3> QED
        BY <1>1, <2>3, <3>1
    <2>5. ASSUME NEW p \in Contents(world), zen' = [whole EXCEPT ![p].bulk = Corrupt]
          PROVE  zen' \in [Contents(world) -> Zens]
      <3>1. [whole[p] EXCEPT !.bulk = Corrupt] \in Zens
        BY <1>1, CorruptAssumption DEF Zens
      <3> QED
        BY <1>1, <2>5, <3>1
    <2>4. ASSUME NEW p \in Contents(world), NEW i, zen' = [whole EXCEPT ![p].imports = @ \ {i}]
          PROVE  zen' \in [Contents(world) -> Zens]
      <3>1. [whole[p] EXCEPT !.imports = @ \ {i}] \in Zens
        BY <1>1 DEF Zens
      <3> QED
        BY <1>1, <2>4, <3>1
    <2> QED
      BY <1>2, <2>1, <2>2, <2>3, <2>4, <2>5
  <1>4. PICK S \in SUBSET Contents(world) : zen' \in [S -> Zens]
    BY <1>3
  <1>5. Contents(world) \subseteq Src(world)
    BY Containers DEF RebuildInv, RebuildTypeOK, Order, Contents
  <1>6. zen' \in Zenned
    BY <1>4, <1>5 DEF Zenned
  <1>7. RebuildTypeOK'
    <2>1. \A p \in DOMAIN zen' : zen'[p] \in Zens
      BY <1>4
    <2> QED
      BY <1>0, <2>1 DEF RebuildInv, RebuildTypeOK
  <1>8. Order'
    BY <1>0 DEF RebuildInv, Order, Beginning, Making, Made
  <1>9. Kept'
    BY <1>0, <1>6 DEF RebuildInv, Kept
  <1>10. Consumed' /\ Faithful'
    BY <1>0 DEF RebuildInv, Consumed, Faithful
  <1> QED
    BY <1>7, <1>8, <1>9, <1>10 DEF RebuildInv

\* A container that is accepted has the packages and imports it must have.
LEMMA CheckSteps == RebuildInv /\ (Check \/ CheckAdditive) => RebuildInv'
  <1> SUFFICES ASSUME RebuildInv, Check \/ CheckAdditive PROVE RebuildInv'
    OBVIOUS
  <1> DEFINE made == [zen |-> zen, legacy |-> legacy]
  <1>0. /\ step = "check" /\ InventoryPreserved /\ ImportsAsExpected
        /\ built' = Append(built, made)
        /\ legacy' = None /\ expected' = None /\ zen' = None
        /\ IF at < Len(world.conts)
             THEN at' = at + 1 /\ step' = "extract" /\ todo' = world.conts[at + 1]
             ELSE at' = 1 /\ step' = (IF Composite THEN "consume" ELSE "provide") /\ todo' = {}
        /\ UNCHANGED <<world, lane, repairs, shipped, unproven, unchecked>>
        /\ IF Composite THEN candidate' = candidate ELSE candidate' = Append(candidate, zen)
    BY DEF Check, CheckAdditive, Accepted
  <1>1. /\ Composite' = Composite
        /\ Legacies' = Legacies /\ Zenned' = Zenned /\ Assets' = Assets /\ Zens' = Zens
    BY <1>0, SameWorld DEF Composite
  <1>2. /\ world \in Worlds /\ at \in 1 .. Len(world.conts) /\ at \in Nat
        /\ Len(world.conts) \in Nat /\ DOMAIN world.conts = 1 .. Len(world.conts)
        /\ Recoverable(world)
    BY <1>0, Containers DEF RebuildInv, RebuildTypeOK, Order, Beginning
  <1>3. /\ made \in [zen : Zenned, legacy : Legacies]
        /\ made.zen = zen /\ made.legacy = legacy
        /\ built \in Seq([zen : Zenned, legacy : Legacies])
        /\ candidate \in Seq(Zenned) /\ zen \in Zenned
    BY DEF RebuildInv, Kept
  <1>4. /\ DOMAIN zen = Contents(world) /\ DOMAIN legacy = Contents(world)
        /\ \A p \in Contents(world) : Promised(world, p, zen[p].imports)
    BY <1>0 DEF RebuildInv, Order, Kept, InventoryPreserved, ImportsAsExpected
  <1> HIDE DEF made
  <1>5. Len(built) = at - 1 /\ (Composite => candidate = <<>>)
        /\ (~Composite => Len(candidate) = Len(built))
    BY <1>0 DEF RebuildInv, Order, Making
  <1>6. /\ built' \in Seq([zen : Zenned, legacy : Legacies])
        /\ Len(built') = at /\ DOMAIN built' = 1 .. at
        /\ built'[at] = made
        /\ \A i \in 1 .. (at - 1) : i \in DOMAIN built /\ built'[i] = built[i]
    BY <1>0, <1>2, <1>3, <1>5
  <1>7. /\ candidate' \in Seq(Zenned)
        /\ ~Composite => /\ Len(candidate') = at /\ DOMAIN candidate' = 1 .. at
                         /\ candidate'[at] = zen
                         /\ \A i \in 1 .. (at - 1) : i \in DOMAIN candidate /\ candidate'[i] = candidate[i]
        /\ Composite => candidate' = <<>> /\ Len(candidate') = 0 /\ DOMAIN candidate' = {}
    <2>1. CASE Composite
      BY <1>0, <1>3, <1>5, <2>1
    <2>2. CASE ~Composite
      <3>1. candidate' = Append(candidate, zen) /\ Len(candidate) = at - 1
        BY <1>0, <1>5, <2>2
      <3> QED
        BY <1>2, <1>3, <2>2, <3>1
    <2> QED
      BY <2>1, <2>2
  <1>8. at' \in 1 .. Len(world.conts)
    BY <1>0, <1>2
  <1>9. RebuildTypeOK'
    <2>1. todo' \subseteq Contents(world)'
      BY <1>0 DEF Contents
    <2>2. Len(built') <= Len(world'.conts) /\ Len(candidate') <= Len(built')
      BY <1>0, <1>2, <1>6, <1>7
    <2>3. DOMAIN legacy' = {} /\ DOMAIN zen' = {}
      BY <1>0, NoneIs
    <2> QED
      BY <1>0, <1>1, <1>2, <1>8, <2>1, <2>2, <2>3 DEF RebuildInv, RebuildTypeOK
  <1>10. Order'
    <2>1. CASE at < Len(world.conts)
      <3>1. at' = at + 1 /\ step' = "extract" /\ todo' = Contents(world)'
        BY <1>0, <2>1 DEF Contents
      <3>2. DOMAIN legacy' = Contents(world)' \ todo' /\ Len(built') = at' - 1
        BY <1>0, <1>2, <1>6, <3>1, NoneIs
      <3>3. (Composite => candidate' = <<>>) /\ (~Composite => Len(candidate') = Len(built'))
        BY <1>6, <1>7
      <3> QED
        BY <1>0, <1>1, <1>2, <3>1, <3>2, <3>3 DEF Order, Beginning, Making, Made
    <2>2. CASE ~(at < Len(world.conts))
      <3>1. /\ step' = (IF Composite THEN "consume" ELSE "provide") /\ todo' = {}
            /\ Len(built') = Len(world.conts)
        BY <1>0, <1>2, <1>6, <2>2
      <3>2. (Composite => candidate' = <<>>)
            /\ (~Composite => Len(candidate') = Len(world.conts))
        BY <1>6, <1>7, <3>1
      <3> QED
        BY <1>0, <1>1, <1>2, <3>1, <3>2 DEF Order, Beginning, Making, Made
    <2> QED
      BY <2>1, <2>2
  <1>11. Kept'
    <2>1. ASSUME NEW i \in DOMAIN built'
          PROVE  /\ DOMAIN built'[i].zen = world.conts[i]
                 /\ DOMAIN built'[i].legacy = world.conts[i]
                 /\ \A p \in world.conts[i] : Promised(world, p, built'[i].zen[p].imports)
      <3>1. CASE i = at
        BY <1>3, <1>4, <1>6, <3>1 DEF Contents
      <3>2. CASE i \in 1 .. (at - 1)
        BY <1>6, <3>2 DEF RebuildInv, Kept
      <3> QED
        BY <1>2, <1>6, <2>1, <3>1, <3>2
    <2>2. ASSUME NEW i \in DOMAIN candidate'
          PROVE  candidate'[i] = built'[i].zen
      <3>1. ~Composite /\ i \in 1 .. at
        BY <1>7, <2>2
      <3>2. CASE i = at
        BY <1>3, <1>6, <1>7, <3>1, <3>2
      <3>3. CASE i \in 1 .. (at - 1)
        BY <1>6, <1>7, <3>1, <3>3 DEF RebuildInv, Kept
      <3> QED
        BY <1>2, <3>1, <3>2, <3>3
    <2>3. DOMAIN expected' = {} /\ legacy' \in Legacies /\ zen' \in Zenned
      BY <1>0, NoneIs
    <2> QED
      BY <1>0, <1>1, <1>6, <1>7, <2>1, <2>2, <2>3 DEF Kept
  <1>12. Consumed'
    BY <1>0, <1>1 DEF RebuildInv, Consumed
  <1>13. Faithful'
    <2> SUFFICES ASSUME Composite PROVE Faithful'
      BY <1>1 DEF Faithful
    <2>1. ASSUME NEW i \in DOMAIN built', NEW p \in world.conts[i]
          PROVE  Authentic(world, i, p, built'[i].legacy[p], unproven, unchecked)
      <3>1. CASE i = at
        <4>1. p \in DOMAIN legacy
          BY <1>4, <2>1, <3>1 DEF Contents
        <4>2. Authentic(world, at, p, legacy[p], unproven, unchecked)
          BY <4>1 DEF RebuildInv, Faithful
        <4> QED
          BY <1>3, <1>6, <3>1, <4>2
      <3>2. CASE i \in 1 .. (at - 1)
        BY <1>6, <2>1, <3>2 DEF RebuildInv, Faithful
      <3> QED
        BY <1>2, <1>6, <2>1, <3>1, <3>2
    <2>2. DOMAIN legacy' = {} /\ DOMAIN candidate' = {}
      BY <1>0, <1>7, NoneIs
    <2> QED
      BY <1>0, <2>1, <2>2 DEF Faithful
  <1> QED
    BY <1>9, <1>10, <1>11, <1>12, <1>13 DEF RebuildInv

\* The roundtrip publishes a container only if its payloads came back as they went in.
LEMMA RoundtripSteps == RebuildInv /\ Roundtrip => RebuildInv'
  <1> SUFFICES ASSUME RebuildInv, Roundtrip PROVE RebuildInv'
    OBVIOUS
  <1> DEFINE views == [Contents(world) -> UNION {Views(p) : p \in Contents(world)}]
             back(origin) ==
               /\ PayloadsPreserved(origin)
               /\ unproven' = unproven \union {p \in Contents(world) : origin[p] = "blind"}
               /\ unchecked' = unchecked \union {p \in Contents(world) : origin[p] # "exclusive"}
               /\ candidate' = Append(candidate, built[at].zen)
               /\ IF at < Len(world.conts) THEN at' = at + 1 /\ UNCHANGED step
                  ELSE step' = "provide" /\ UNCHANGED at
             lost == step' = "refused" /\ UNCHANGED <<at, candidate, unproven, unchecked>>
  <1>1. PICK origin \in views :
           (\A p \in Contents(world) : origin[p] \in Views(p)) /\ (back(origin) \/ lost)
    BY DEF Roundtrip
  <1>2. /\ step = "roundtrip"
        /\ UNCHANGED <<world, lane, todo, legacy, expected, repairs, zen, built, shipped>>
        /\ Composite' = Composite
        /\ Legacies' = Legacies /\ Zenned' = Zenned /\ Assets' = Assets /\ Zens' = Zens
    BY SameWorld DEF Roundtrip, Composite
  <1>3. /\ world \in Worlds /\ at \in 1 .. Len(world.conts) /\ at \in Nat
        /\ Len(world.conts) \in Nat /\ DOMAIN world.conts = 1 .. Len(world.conts)
        /\ Recoverable(world)
    BY <1>2, Containers DEF RebuildInv, RebuildTypeOK, Order, Beginning
  <1>4. /\ Composite /\ Len(candidate) = at - 1 /\ Len(built) = Len(world.conts)
        /\ todo = {} /\ legacy = None /\ DOMAIN legacy = {}
    BY <1>2, NoneIs DEF RebuildInv, Order, Made
  <1>5. /\ built \in Seq([zen : Zenned, legacy : Legacies]) /\ candidate \in Seq(Zenned)
        /\ DOMAIN built = 1 .. Len(world.conts) /\ DOMAIN candidate = 1 .. (at - 1)
    BY <1>3, <1>4 DEF RebuildInv, Kept
  <1>6. built[at].zen \in Zenned /\ at \in DOMAIN built
    <2>1. at \in DOMAIN built
      BY <1>3, <1>5
    <2> DEFINE T == [zen : Zenned, legacy : Legacies]
    <2>2. built[at] \in T
      <3>1. built \in Seq(T)
        BY <1>5
      <3> HIDE DEF T
      <3> QED
        BY <2>1, <3>1
    <2> QED
      BY <2>1, <2>2
  <1>7. CASE back(origin)
    <2>0. /\ unproven \subseteq unproven' /\ unchecked \subseteq unchecked'
          /\ unproven' \subseteq unchecked' /\ unchecked' \subseteq world.game
          /\ \A p \in Contents(world) : origin[p] = "blind" => p \in unproven'
          /\ \A p \in Contents(world) : origin[p] # "exclusive" => p \in unchecked'
      <3>1. \A p \in Contents(world) : origin[p] # "exclusive" => p \in world.game
        BY <1>1 DEF Views, Existing
      <3> QED
        BY <1>7, <3>1 DEF RebuildInv, RebuildTypeOK
    <2>1. /\ candidate' = Append(candidate, built[at].zen)
          /\ IF at < Len(world.conts) THEN at' = at + 1 /\ step' = step
             ELSE step' = "provide" /\ at' = at
      BY <1>7
    <2>2. /\ candidate' \in Seq(Zenned) /\ Len(candidate') = at /\ DOMAIN candidate' = 1 .. at
          /\ candidate'[at] = built[at].zen
          /\ \A i \in 1 .. (at - 1) : i \in DOMAIN candidate /\ candidate'[i] = candidate[i]
      BY <1>3, <1>4, <1>5, <1>6, <2>1
    <2>3. at' \in 1 .. Len(world.conts)
      BY <1>3, <2>1
    <2>4. RebuildTypeOK'
      <3>1. Len(candidate') <= Len(built')
        BY <1>2, <1>3, <1>4, <2>2
      <3> QED
        BY <1>2, <1>3, <1>4, <2>0, <2>3, <3>1 DEF RebuildInv, RebuildTypeOK
    <2>5. Order'
      <3>1. CASE at < Len(world.conts)
        BY <1>2, <1>3, <1>4, <2>1, <2>2, <3>1 DEF RebuildInv, Order, Beginning, Making, Made
      <3>2. CASE ~(at < Len(world.conts))
        <4>1. Len(candidate') = Len(world.conts) /\ step' = "provide"
          BY <1>3, <2>1, <2>2, <3>2
        <4> QED
          BY <1>2, <1>3, <1>4, <4>1 DEF RebuildInv, Order, Beginning, Making, Made
      <3> QED
        BY <3>1, <3>2
    <2>6. Kept'
      <3>1. ASSUME NEW i \in DOMAIN candidate' PROVE candidate'[i] = built[i].zen
        <4>1. CASE i = at
          BY <2>2, <4>1
        <4>2. CASE i \in 1 .. (at - 1)
          BY <2>2, <4>2 DEF RebuildInv, Kept
        <4> QED
          BY <1>3, <2>2, <3>1, <4>1, <4>2
      <3> QED
        BY <1>2, <2>2, <3>1 DEF RebuildInv, Kept
    <2>7. Consumed'
      BY <1>2, <2>1 DEF RebuildInv, Consumed
    <2>8. Faithful'
      <3>1. ASSUME NEW i, NEW p, NEW x, Authentic(world, i, p, x, unproven, unchecked)
            PROVE  Authentic(world, i, p, x, unproven', unchecked')
        BY <2>0, <3>1 DEF Authentic
      <3>2. ASSUME NEW p \in world.conts[at]
            PROVE  Authentic(world, at, p, built[at].zen[p], unproven', unchecked')
        <4> SUFFICES ASSUME Sole(world, p)
                     PROVE  Authentic(world, at, p, built[at].zen[p], unproven', unchecked')
          BY DEF Authentic
        <4>1. Holders(world, p) = {at} /\ p \in Contents(world)
          BY <1>3, OnlyHolder DEF Contents
        <4>2. WentIn(p) \in ReadBack(p, origin[p])
          BY <1>7, <4>1 DEF PayloadsPreserved
        <4>3. /\ origin[p] # "blind" => WentIn(p).content = built[at].zen[p].content
              /\ origin[p] = "exclusive" => WentIn(p).bulk = built[at].zen[p].bulk
          BY <4>1, <4>2 DEF ReadBack
        <4>4. WentIn(p).content = built[at].legacy[p].content
              /\ WentIn(p).bulk = built[at].legacy[p].bulk
          BY DEF WentIn, Payloads
        <4>5. Authentic(world, at, p, built[at].legacy[p], unproven', unchecked')
          BY <1>4, <1>6, <3>1 DEF RebuildInv, Faithful
        <4> QED
          BY <2>0, <4>1, <4>3, <4>4, <4>5 DEF Authentic
      <3>3. ASSUME NEW i \in DOMAIN candidate', NEW p \in world.conts[i]
            PROVE  Authentic(world, i, p, candidate'[i][p], unproven', unchecked')
        <4>1. CASE i = at
          BY <2>2, <3>2, <4>1
        <4>2. CASE i \in 1 .. (at - 1)
          BY <1>4, <2>2, <3>1, <4>2 DEF RebuildInv, Faithful
        <4> QED
          BY <1>3, <2>2, <3>3, <4>1, <4>2
      <3>4. \A i \in DOMAIN built : \A p \in world.conts[i] :
               Authentic(world, i, p, built[i].legacy[p], unproven', unchecked')
        BY <1>4, <3>1 DEF RebuildInv, Faithful
      <3> QED
        BY <1>2, <1>4, <3>3, <3>4 DEF Faithful
    <2> QED
      BY <2>4, <2>5, <2>6, <2>7, <2>8 DEF RebuildInv
  <1>8. CASE lost
    <2>1. RebuildTypeOK'
      BY <1>2, <1>3, <1>4, <1>8 DEF RebuildInv, RebuildTypeOK
    <2>2. Order' /\ Consumed'
      BY <1>2, <1>3, <1>8 DEF RebuildInv, Order, Consumed, Beginning, Making, Made
    <2>3. Kept' /\ Faithful'
      BY <1>2, <1>8, NothingMade
    <2> QED
      BY <2>1, <2>2, <2>3 DEF RebuildInv
  <1> QED
    BY <1>1, <1>7, <1>8

\* The other steps make nothing.
LEMMA OtherSteps ==
    /\ RebuildInv
    /\ Inspect \/ Recover \/ AllExtracted \/ CheckFails \/ Consume \/ Provide
         \/ ProvideAdditive \/ ToolFails \/ UNCHANGED rebuildVars
    => RebuildInv'
  <1> SUFFICES ASSUME RebuildInv,
                      Inspect \/ Recover \/ AllExtracted \/ CheckFails \/ Consume \/ Provide
                        \/ ProvideAdditive \/ ToolFails \/ UNCHANGED rebuildVars
               PROVE  RebuildInv'
    OBVIOUS
  <1> USE DEF RebuildInv
  <1>0. UNCHANGED <<world, lane, at, legacy, expected, repairs, zen, built, candidate,
                    unproven, unchecked>>
    BY DEF Inspect, Recover, AllExtracted, CheckFails, Consume, Provide, ProvideAdditive,
           ShipProvider, ToolFails, rebuildVars
  <1>1. Kept' /\ Faithful'
    BY <1>0, NothingMade
  <1>2. /\ Contents(world)' = Contents(world) /\ Composite' = Composite
        /\ Assets' = Assets /\ Zens' = Zens
    BY <1>0, SameWorld DEF Contents, Composite
  <1>3. todo' \subseteq Contents(world)
    <2>1. todo' \in {todo, Contents(world)}
      BY DEF Inspect, Recover, AllExtracted, CheckFails, Consume, Provide, ProvideAdditive,
             ShipProvider, ToolFails, rebuildVars
    <2> QED
      BY <2>1 DEF RebuildTypeOK
  <1>4. shipped' \subseteq Available(world)
    <2>1. shipped' \in {shipped, PersistentIds(world)}
      BY DEF Inspect, Recover, AllExtracted, CheckFails, Consume, Provide, ProvideAdditive,
             ShipProvider, Ships, ToolFails, rebuildVars
    <2> QED
      BY <2>1 DEF RebuildTypeOK, Available
  <1>5. RebuildTypeOK'
    BY <1>0, <1>2, <1>3, <1>4 DEF RebuildTypeOK
  <1>6. Order' /\ Consumed'
    <2>0. \A p \in DOMAIN repairs' : repairs'[p].missing \intersect Available(world') = {}
      BY <1>0 DEF Consumed
    <2>1. CASE Inspect
      BY <1>0, <1>2, <2>0, <2>1 DEF Inspect, Order, Consumed, Beginning, Making, Made
    <2>2. CASE Recover
      <3>1. world.conts # <<>> /\ DOMAIN legacy = {}
        BY <2>2, NoneIs, Containers DEF Recover, Order, Beginning
      <3>2. Len(built) = 0 /\ Len(candidate) = 0 /\ at = 1
        BY <2>2 DEF Recover, Order, Beginning
      <3> QED
        BY <1>0, <1>2, <2>0, <2>2, <3>1, <3>2
           DEF Recover, Order, Consumed, Beginning, Making, Made
    <2>3. CASE AllExtracted
      <3>1. DOMAIN legacy = Contents(world) /\ DOMAIN expected = {}
        BY <2>3, NoneIs DEF AllExtracted, Order
      <3> QED
        BY <1>0, <1>2, <2>0, <2>3, <3>1 DEF AllExtracted, Order, Consumed, Beginning, Making, Made
    <2>4. CASE CheckFails
      BY <1>0, <1>2, <2>0, <2>4 DEF CheckFails, Order, Consumed, Beginning, Making, Made
    <2>5. CASE ToolFails
      BY <1>0, <1>2, <2>0, <2>5 DEF ToolFails, Order, Consumed, Beginning, Making, Made
    <2>6. CASE Provide
      BY <1>0, <1>2, <2>0, <2>6
         DEF Provide, ShipProvider, Ships, Order, Consumed, Beginning, Making, Made
    <2>7. CASE ProvideAdditive
      BY <1>0, <1>2, <2>0, <2>7
         DEF ProvideAdditive, ShipProvider, Ships, Order, Consumed, Beginning, Making, Made
    <2>8. CASE Consume
      <3>1. CASE ~RebindsConsumed
        BY <1>0, <1>2, <2>0, <2>8, <3>1 DEF Consume, Order, Consumed, Beginning, Making, Made
      <3>2. CASE RebindsConsumed
        <4>1. \A e \in Decided(world, "rebind") : e[2] \notin Available(world)
          BY <3>2 DEF RebindsConsumed, Consumed
        <4>2. CASE Composite
          <5>1. step = "consume" /\ step' = "roundtrip"
            BY <2>8, <3>2, <4>2 DEF Consume
          <5>2. Len(candidate) = 0 /\ at = 1
            BY <4>2, <5>1 DEF Order, Making
          <5> QED
            BY <1>0, <1>2, <2>0, <2>8, <4>1, <4>2, <5>1, <5>2
               DEF Consume, Order, Consumed, Beginning, Making, Made
        <4>3. CASE ~Composite
          <5>1. step' = "done"
            BY <2>8, <3>2, <4>3 DEF Consume
          <5> QED
            BY <1>0, <1>2, <2>0, <2>8, <4>1, <4>3, <5>1
               DEF Consume, Order, Consumed, Beginning, Making, Made
        <4> QED
          BY <4>2, <4>3
      <3> QED
        BY <3>1, <3>2
    <2>9. CASE UNCHANGED rebuildVars
      BY <1>0, <1>2, <2>0, <2>9 DEF rebuildVars, Order, Consumed
    <2> QED
      BY <2>1, <2>2, <2>3, <2>4, <2>5, <2>6, <2>7, <2>8, <2>9
  <1> QED
    BY <1>1, <1>5, <1>6

LEMMA RebuildSteps == RebuildInv /\ [RebuildNext]_rebuildVars => RebuildInv'
  <1> SUFFICES ASSUME RebuildInv, [RebuildNext]_rebuildVars PROVE RebuildInv'
    OBVIOUS
  <1>1. CASE ExtractExclusive \/ ExtractFallback \/ ExtractAdditive
    BY <1>1, ExtractSteps
  <1>2. CASE Migrate \/ MigrateAdditive
    BY <1>2, MigrateSteps DEF Migrate, MigrateAdditive
  <1>3. CASE Build
    BY <1>3, BuildSteps
  <1>4. CASE Check \/ CheckAdditive
    BY <1>4, CheckSteps
  <1>5. CASE Roundtrip
    BY <1>5, RoundtripSteps
  <1>6. CASE Inspect \/ Recover \/ AllExtracted \/ CheckFails \/ Consume \/ Provide
               \/ ProvideAdditive \/ ToolFails \/ UNCHANGED rebuildVars
    BY <1>6, OtherSteps
  <1> QED
    BY <1>1, <1>2, <1>3, <1>4, <1>5, <1>6 DEF RebuildNext, Finished

\* The inductive invariant holds in every reachable state of either lane.
THEOREM RebuildInvariance == RebuildSpec => []RebuildInv
  BY RebuildStarts, RebuildSteps, PTL DEF RebuildSpec

-----------------------------------------------------------------------------
(* The properties. *)

\* The variables keep their types; only a container's own packages are extracted,
\* migrated and rebuilt with it.
THEOREM RebuildTypes == RebuildSpec => []RebuildTypeOK
  <1>1. RebuildInv => RebuildTypeOK
    BY DEF RebuildInv
  <1> QED
    BY <1>1, RebuildInvariance, PTL

\* A finished candidate has every container of the mod, as it was rebuilt.
LEMMA Finishes ==
    ASSUME RebuildInv, Done
    PROVE  /\ world \in Worlds /\ shipped = PersistentIds(world)
           /\ DOMAIN candidate = DOMAIN world.conts /\ DOMAIN built = DOMAIN world.conts
           /\ \A i \in DOMAIN world.conts :
                 /\ candidate[i] = built[i].zen /\ DOMAIN candidate[i] = world.conts[i]
                 /\ \A p \in world.conts[i] : Promised(world, p, candidate[i][p].imports)
           /\ \A e \in Decided(world, "rebind") : e[2] \notin Available(world)
  <1>1. step = "done" /\ world \in Worlds
    BY DEF RebuildInv, Order, Done
  <1>2. /\ Len(candidate) = Len(world.conts) /\ Len(built) = Len(world.conts)
        /\ shipped = PersistentIds(world)
    BY <1>1 DEF RebuildInv, Order, Made
  <1>3. candidate \in Seq(Zenned) /\ built \in Seq([zen : Zenned, legacy : Legacies])
    BY DEF RebuildInv, Kept
  <1>4. DOMAIN candidate = DOMAIN world.conts /\ DOMAIN built = DOMAIN world.conts
    BY <1>1, <1>2, <1>3, Containers
  <1>5. \A e \in Decided(world, "rebind") : e[2] \notin Available(world)
    BY <1>1 DEF RebuildInv, Consumed
  <1> QED
    BY <1>1, <1>2, <1>4, <1>5 DEF RebuildInv, Kept

\* No package of a finished candidate imports an identity that neither the game,
\* nor the candidate, nor the provider shipped with it carries.
THEOREM NothingIsLeftDangling == RebuildSpec => []NothingDangles
  <1>1. RebuildInv => NothingDangles
    <2> SUFFICES ASSUME RebuildInv, Done, NEW i \in DOMAIN world.conts, NEW p \in Src(world),
                        Publishes(i, p), NEW t \in candidate[i][p].imports
                 PROVE  t \in world.game \union shipped
                                \union UNION {DOMAIN candidate[j] : j \in DOMAIN candidate}
      BY DEF NothingDangles
    <2>1. Promised(world, p, candidate[i][p].imports)
      BY Finishes DEF Publishes
    <2>2. t \in Available(world) /\ t \in Known(world) \union PersistentIds(world) \union RebindsOf(world, p)
      BY <2>1 DEF Promised
    <2>3. t \notin RebindsOf(world, p)
      BY <2>2, Finishes DEF RebindsOf
    <2>4. CASE t \in world.game \union PersistentIds(world)
      BY <2>4, Finishes
    <2>5. CASE t \in Src(world)
      <3>1. PICK j \in DOMAIN world.conts : t \in world.conts[j]
        BY <2>5 DEF Src
      <3>2. j \in DOMAIN candidate /\ t \in DOMAIN candidate[j]
        BY <3>1, Finishes
      <3> QED
        BY <3>2
    <2> QED
      BY <2>2, <2>3, <2>4, <2>5 DEF Known
  <1> QED
    BY <1>1, RebuildInvariance, PTL

\* What the composite lane publishes for a package of one container is what its
\* author shipped: the exports, unless no comparison told them from the game's, and
\* the bulk, unless the fallback copied it from a view that holds the game's.
THEOREM PayloadIsTheAuthors == RebuildSpec => []AuthoredPayload
  <1>1. RebuildInv => AuthoredPayload
    <2> SUFFICES ASSUME RebuildInv, Done, Composite, NEW i \in DOMAIN world.conts,
                        NEW p \in world.conts[i], Sole(world, p)
                 PROVE  /\ Publishes(i, p)
                        /\ candidate[i][p].content = world.authored[i][p] \/ p \in unproven
                        /\ candidate[i][p].bulk = world.bulk[i][p] \/ p \in unchecked
      BY DEF AuthoredPayload, Sole
    <2>1. i \in DOMAIN candidate /\ p \in DOMAIN candidate[i]
      BY Finishes
    <2>2. Authentic(world, i, p, candidate[i][p], unproven, unchecked)
      BY <2>1 DEF RebuildInv, Faithful
    <2> QED
      BY <2>1, <2>2 DEF Publishes, Authentic
  <1> QED
    BY <1>1, RebuildInvariance, PTL

\* A package the game does not have keeps every import its author gave it, but for
\* the suppressed ones.
THEOREM EveryImportIsKept == RebuildSpec => []NoImportLost
  <1>1. RebuildInv => NoImportLost
    BY Finishes DEF NoImportLost, Promised, Row
  <1> QED
    BY <1>1, RebuildInvariance, PTL

=============================================================================
