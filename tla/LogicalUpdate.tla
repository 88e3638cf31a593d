--------------------------- MODULE LogicalUpdate ---------------------------
(***************************************************************************)
(* src/install_plan.rs from the manifest to the reconstructed candidate,   *)
(* as run_logical_install_update of src/engine.rs calls it on its own copy *)
(* of the selected mod: the plan is resolved and its files are copied to a *)
(* logical view, the nested adapter converts the view, and what it made of *)
(* the mapped files is put back where they were in the mod.                *)
(*                                                                         *)
(* The nested adapter is trusted with nothing: it may change, drop, add or *)
(* rename any file of its candidate, and the working copies may change     *)
(* while it runs and after.                                                *)
(***************************************************************************)
EXTENDS InstallPlan

CONSTANTS
    Trees,       \* mods that may be selected: sets of files
    Documents,   \* FOMOD manifests: sequences of XML events
    Adapters,    \* adapters that may be nested
    MaxFiles,    \* files a mod may have
    MaxDepth,    \* elements of a manifest that may be open
    MaxGroups,   \* groups of choices it may have
    MaxOptions,  \* options of all groups together
    MaxMappings, \* files it may map, and files a view may have
    MaxTouches   \* bound on changes of the working copies by others

ASSUME LogicalUpdateAssumption ==
    {MaxFiles, MaxDepth, MaxGroups, MaxOptions, MaxMappings, MaxTouches} \subseteq Nat

Events == UNION {Names(d) : d \in Documents}
ASSUME DocumentsAssumption == Documents \subseteq Seq(Events)

VARIABLES
    pc,
    tree,      \* files of the mod as it was copied
    nested,    \* adapter to be nested
    doc,       \* manifest still to be read, if the mod has one
    reader,    \* frames of its open elements, choice groups and mappings so far
    plan,
    physical,  \* working copy of the mod: entries of file and body
    view,      \* logical view, then the candidate made of it
    providers, \* containers the nested adapter added to its candidate
    context,   \* entries of the mod when the view was approved
    approved,  \* entries of the candidate when it was approved
    output,    \* reconstructed candidate
    touches

vars == <<pc, tree, nested, doc, reader, plan, physical, view, providers,
          context, approved, output, touches>>
input == <<tree, nested, touches>>
planning == <<doc, reader, plan>>
copies == <<physical, view, providers>>
records == <<context, approved, output>>

\* A body is known by the file it came from and by what became of it.
Body(f) == [of |-> Path(f), state |-> "same"]
Entry(f, body) == [file |-> f, body |-> body]
FilesOf(entries) == {e.file : e \in entries}

Manifests(files) ==
    {f \in files : f.name = "ModuleConfig.xml" /\ f.dir # <<>> /\ f.dir[Len(f.dir)] = "fomod"}

Init ==
    /\ pc = "walk" /\ tree \in Trees /\ nested \in Adapters
    /\ doc \in (IF Manifests(tree) = {} THEN {<<>>} ELSE Documents)
    /\ reader = [stack |-> <<>>, groups |-> <<>>, mappings |-> {}]
    /\ plan = NotThis /\ physical = {Entry(f, Body(f)) : f \in tree}
    /\ view = {} /\ providers = {} /\ context = {} /\ approved = {} /\ output = {}
    /\ touches = 0

-----------------------------------------------------------------------------
(* Resolving the plan. *)

\* resolve_staged_install_view lists the copy and looks for one manifest.
Walk ==
    /\ pc = "walk"
    /\ pc' = IF \/ ~Indexed(tree) \/ Cardinality(tree) > MaxFiles
                \/ Cardinality(Manifests(tree)) > 1 THEN "refused"
             ELSE IF Manifests(tree) # {} THEN "read" ELSE "layout"
    /\ UNCHANGED <<input, planning, copies, records>>

Frame(kind, group, option) == [kind |-> kind, group |-> group, option |-> option]
Under(kind) == \E i \in DOMAIN reader.stack : reader.stack[i].kind = kind
Innermost(kind) ==
    LET stack == reader.stack
    IN  stack[CHOOSE i \in DOMAIN stack :
            stack[i].kind = kind /\ \A j \in i + 1 .. Len(stack) : stack[j].kind # kind]

\* current_scope: the innermost option, or else the required files.
Scope ==
    IF Under("option") THEN [group |-> Innermost("option").group, option |-> Innermost("option").option]
    ELSE Required

OptionCount(groups) ==
    Cardinality(UNION {{i} \X (1 .. groups[i].options) : i \in DOMAIN groups})

\* add_fomod_file: the reader after it, none when the file is refused.
WithFile(event) ==
    IF Cardinality(reader.mappings) < MaxMappings /\ (Under("option") \/ Under("required"))
    THEN {[reader EXCEPT !.mappings = @ \cup
             {[Mapping(f, FomodDestination(event.dest, f), Scope) EXCEPT
                 !.nth = Cardinality(reader.mappings) + 1]}] :
            f \in {g \in tree : Path(g) = event.source}}
    ELSE {}

\* Mutant of Pushed: one element too many may be open.
PushedDeeper(r, frame) ==
    IF Len(r.stack) <= MaxDepth THEN {[r EXCEPT !.stack = Append(@, frame)]} ELSE {}

Pushed(r, frame) ==
    IF Len(r.stack) < MaxDepth THEN {[r EXCEPT !.stack = Append(@, frame)]} ELSE {}

WithGroup(event) ==
    IF event.behavior \in Behaviors /\ Len(reader.groups) < MaxGroups
    THEN Pushed([reader EXCEPT !.groups = Append(@, [behavior |-> event.behavior, options |-> 0])],
                Frame("group", Len(reader.groups) + 1, 0))
    ELSE {}

\* An option belongs to the innermost group that is open.
WithOption ==
    IF Under("group") /\ OptionCount(reader.groups) < MaxOptions
    THEN LET g == Innermost("group").group
             option == reader.groups[g].options + 1
         IN  Pushed([reader EXCEPT !.groups[g].options = option], Frame("option", g, option))
    ELSE {}

\* The reader after an event.  Conditions, folders, document types and whatever
\* exceeds a bound are refused; an element without content opens no frame, so
\* that of groups and options nothing remains.
Reads(event) ==
    CASE event.kind = "start" /\ event.name = "file" ->
            UNION {Pushed(r, Frame("other", 0, 0)) : r \in WithFile(event)}
      [] event.kind = "start" /\ event.name = "group" -> WithGroup(event)
      [] event.kind = "start" /\ event.name = "plugin" -> WithOption
      [] event.kind = "start" /\ event.name = "required" ->
            Pushed(reader, Frame("required", 0, 0))
      [] event.kind = "start" /\ event.name = "other" -> Pushed(reader, Frame("other", 0, 0))
      [] event.kind = "empty" /\ event.name = "file" -> WithFile(event)
      [] event.kind = "empty" /\ event.name \in {"required", "group", "plugin", "other"} -> {reader}
      [] event.kind = "end" /\ reader.stack # <<>> ->
            {[reader EXCEPT !.stack = SubSeq(@, 1, Len(@) - 1)]}
      [] OTHER -> {}

ReadEvent ==
    /\ pc = "read" /\ doc # <<>>
    /\ reader' \in Reads(Head(doc)) /\ doc' = Tail(doc)
    /\ UNCHANGED <<pc, input, plan, copies, records>>

ReadFails ==
    /\ pc = "read" /\ doc # <<>> /\ Reads(Head(doc)) = {}
    /\ pc' = "refused" /\ UNCHANGED <<input, planning, copies, records>>

\* parse_fomod at the end of the manifest.
EndManifest ==
    /\ pc = "read" /\ doc = <<>> /\ pc' = "stage"
    /\ plan' = IF \/ reader.stack # <<>> \/ reader.mappings = {}
                  \/ \E i \in DOMAIN reader.groups : reader.groups[i].options = 0
               THEN Refusal ELSE MakePlan("fomod", tree, reader.mappings, reader.groups)
    /\ UNCHANGED <<input, doc, reader, copies, records>>

\* resolve_install_plan without a manifest.
Layout ==
    /\ pc = "layout" /\ pc' = "stage"
    /\ plan' = IF CanonicalPlan(tree) # NotThis THEN CanonicalPlan(tree) ELSE ManualPlan(tree)
    /\ UNCHANGED <<input, doc, reader, copies, records>>

-----------------------------------------------------------------------------
(* The logical view and the context of its publication. *)

Chosen == Selected(plan.mappings, Forced(plan.groups))

Stageable ==
    /\ plan # Refusal /\ Deterministic(plan.groups)
    /\ Cardinality(Chosen) <= MaxMappings /\ ~Collides(Chosen, plan.groups)

\* deterministic_selections and stage_install_view.
Stage ==
    /\ pc = "stage"
    /\ IF Stageable
       THEN /\ pc' = "context"
            /\ view' = {Entry(m.dest, Body(m.source)) : m \in Chosen}
       ELSE pc' = "refused" /\ UNCHANGED view
    /\ UNCHANGED <<input, planning, physical, providers, records>>

\* nested_adapter_owns_logical_destinations
Owned(f) == IsPrefixOf(ModsFolder, f.dir) /\ f.ext \in Container
PackageLanes == {"additive-syncmap", "mixed-composite", "composite"}
Owners == PackageLanes \cup {"armor", "mixed-armor", "texture", "static-mesh", "heterogeneous"}

Has(entries, f) == \E e \in entries : e.file = f
BodyAt(entries, f) == (CHOOSE e \in entries : e.file = f).body

\* What build_logical_update_context demands: every mapping required, one place
\* for each file, the bodies of the view those of the mod, every file of the
\* mod mapped or listed as unmapped.
ContextHolds ==
    /\ Supported(plan) /\ nested \in Owners
    /\ \E m \in plan.mappings : Owned(m.dest)
    /\ Cardinality(view) = Cardinality(plan.mappings)
    /\ \A m \in plan.mappings :
          /\ m.scope = Required
          /\ \A n \in plan.mappings : m.source = n.source => m = n
          /\ Has(physical, m.source) /\ Has(view, m.dest)
          /\ BodyAt(physical, m.source) = BodyAt(view, m.dest)
    /\ plan.unmapped = FilesOf(physical) \ Sources(plan.mappings)

BuildContext ==
    /\ pc = "context"
    /\ IF ContextHolds THEN pc' = "adapt" /\ context' = physical
                       ELSE pc' = "refused" /\ UNCHANGED context
    /\ UNCHANGED <<input, planning, copies, approved, output>>

-----------------------------------------------------------------------------
(* The nested adapter. *)

Provider == [dir |-> ModsFolder, name |-> "OBR_IdentityAliases_P.pak",
             stem |-> "OBR_IdentityAliases_P", ext |-> "pak", spell |-> "a"]
Extra == [Provider EXCEPT !.name = "extra.pak", !.stem = "extra"]
Rewritten(e) == Entry(e.file, [e.body EXCEPT !.state = "new"])

\* What it may make of the view, right or wrong.
Candidates ==
    {{IF e \in changed THEN Rewritten(e) ELSE e : e \in view} : changed \in SUBSET view}
    \cup {view \ {e} : e \in view}
    \cup {view \cup {Entry(Extra, Body(Extra))}}
    \cup {(view \ {e}) \cup {Entry([e.file EXCEPT !.spell = "b"], e.body)} : e \in view}

\* The package lanes add containers of alias providers when they need them.
Adapt ==
    /\ pc = "adapt" /\ pc' = "check" /\ view' \in Candidates
    /\ providers' \in {{}} \cup IF nested \in PackageLanes THEN {{Provider}} ELSE {}
    /\ UNCHANGED <<input, planning, physical, records>>

AdaptFails ==
    /\ pc = "adapt" /\ pc' = "refused"
    /\ UNCHANGED <<input, planning, copies, records>>

\* A file of a working copy changes under the run.
Touch ==
    /\ pc \in {"adapt", "check", "copy", "verify"} /\ touches < MaxTouches
    /\ touches' = touches + 1
    /\ \/ /\ \E e \in physical : physical' = (physical \ {e}) \cup {Rewritten(e)}
          /\ UNCHANGED view
       \/ /\ pc # "adapt"
          /\ \E e \in view : view' = (view \ {e}) \cup {Rewritten(e)}
          /\ UNCHANGED physical
    /\ UNCHANGED <<pc, tree, nested, planning, providers, records>>

-----------------------------------------------------------------------------
(* reconstruct_logical_update_candidate. *)

\* Mutant of Approvable: anything mapped may change.
ApprovableWhole ==
    /\ Cardinality(view) = Cardinality(plan.mappings)
    /\ \A m \in plan.mappings : Has(view, m.dest)

\* The candidate has the mapped files, in their spelling, and only those the
\* adapter owns differ from what was mapped.  Providers are not counted.
Approvable ==
    /\ Cardinality(view) = Cardinality(plan.mappings)
    /\ \A m \in plan.mappings :
          /\ Has(view, m.dest)
          /\ BodyAt(view, m.dest) # BodyAt(context, m.source) => Owned(m.dest)

CheckCandidate ==
    /\ pc = "check"
    /\ IF physical = context /\ Approvable
       THEN pc' = "copy" /\ approved' = view
       ELSE pc' = "refused" /\ UNCHANGED approved
    /\ UNCHANGED <<input, planning, copies, context, output>>

MappingOf(f, mappings) == CHOOSE m \in mappings : m.source = f

\* The body a file of the mod has in the candidate made from these entries.
Rebuilt(f, mapped, rest) ==
    IF f \in Sources(plan.mappings) THEN BodyAt(mapped, MappingOf(f, plan.mappings).dest) ELSE BodyAt(rest, f)

\* The whole mod is copied, then each mapped file is copied over its source.
CopyBack ==
    /\ pc = "copy" /\ pc' = "verify"
    /\ output' = {Entry(f, Rebuilt(f, view, physical)) : f \in FilesOf(physical)}
    /\ UNCHANGED <<input, planning, copies, context, approved>>

\* The copy is compared with the records, and the mod once more with its own.
Verified ==
    /\ FilesOf(output) = FilesOf(context)
    /\ \A f \in FilesOf(context) : BodyAt(output, f) = Rebuilt(f, approved, context)
    /\ physical = context

Verify ==
    /\ pc = "verify" /\ pc' = IF Verified THEN "archive" ELSE "refused"
    /\ UNCHANGED <<input, planning, copies, records>>

\* The archive is reopened and verify_install_trees_match compares it.
Archive ==
    /\ pc = "archive"
    /\ \E reopened \in {output} \cup {output \ {e} : e \in output} :
          pc' = IF reopened = output THEN "published" ELSE "refused"
    /\ UNCHANGED <<input, planning, copies, records>>

-----------------------------------------------------------------------------
Resolve == Walk \/ ReadEvent \/ ReadFails \/ EndManifest \/ Layout
Reconstruct == CheckCandidate \/ CopyBack \/ Verify \/ Archive

Next == Resolve \/ Stage \/ BuildContext \/ Adapt \/ AdaptFails \/ Touch \/ Reconstruct

Spec == Init /\ [][Next]_vars

-----------------------------------------------------------------------------
TypeOK ==
    /\ pc \in {"walk", "read", "layout", "stage", "context", "adapt", "check", "copy",
               "verify", "archive", "published", "refused"}
    /\ tree \in Trees /\ nested \in Adapters /\ touches \in 0 .. MaxTouches
    /\ Len(reader.stack) <= MaxDepth /\ Len(reader.groups) <= MaxGroups
    /\ OptionCount(reader.groups) <= MaxOptions
    /\ Cardinality(reader.mappings) <= MaxMappings
    /\ FilesOf(physical) = tree /\ FilesOf(context) \subseteq tree
    /\ providers \subseteq {Provider}

Planned == pc \in {"context", "adapt", "check", "copy", "verify", "archive", "published"}

(***************************************************************************)
(* Whatever the nested adapter hands back and whenever the working copies  *)
(* change: a candidate that is archived has exactly the files of the mod;  *)
(* a mapped one has the body that was approved, which is new only where a  *)
(* container of the mods folder was mapped, and every other file is the    *)
(* selected one ("passThroughHashesPreserved").                            *)
(***************************************************************************)
OnlyOwnedDiffer ==
    pc \in {"archive", "published"} =>
        /\ FilesOf(output) = tree
        /\ \A f \in tree :
              \/ BodyAt(output, f) = Body(f)
              \/ \E m \in plan.mappings : m.source = f /\ Owned(m.dest)

(***************************************************************************)
(* "Optional or multi-choice FOMODs remain explicit and return an error    *)
(* instead of guessing a user's selection": a view is made only where the  *)
(* groups leave one answer, and a plan that was accepted has no answer     *)
(* under which two of its files claim one place.                           *)
(***************************************************************************)
NoChoiceGuessed ==
    Planned =>
        /\ Answers(plan.groups) = {Forced(plan.groups)}
        /\ ~\E m, n \in Chosen : m # n /\ Clash(m.dest, n.dest)

(***************************************************************************)
(* A layout that is recognised without a manifest and without a folder     *)
(* labelled Data accounts for every plugin, container file and SyncMap:    *)
(* none is left where the game does not look for it ("Do not silently      *)
(* discard the TES half merely because one canonical subtree exists").     *)
(***************************************************************************)
PayloadsClaimed ==
    Planned /\ (plan.evidence = "canonical" \/ (plan.evidence = "manual" /\ Bare(tree)))
        => \A f \in plan.unmapped : ~Payload(f)
=============================================================================
