----------------------------- MODULE MCRebuild ------------------------------
(* Three families of small mods.  In the first a Blueprint imports a mesh    *)
(* and the retired names of a material and of a second mesh; in the second a *)
(* skeletal mesh and a texture replace packages of the game; in the third a  *)
(* new mesh and a form of the game import what the game moved.               *)
EXTENDS Rebuild, TLC

(* Everything a family does not vary.                                        *)
Plain == [unsound |-> {}, disagree |-> {}, moved |-> {}, respelt |-> {}, installed |-> {},
          nameless |-> {}, shaped |-> {"tex"}, slots |-> {}, derived |-> {},
          skeleton |-> [body |-> "skel"], physics |-> [body |-> {}],
          leaf |-> [oldMat |-> "mic", oldSheath |-> "sm", oldSkel |-> "sk_sidecar",
                    oldPhys |-> "sk_sidecar"],
          sibling |-> [oldMat |-> {"mat"}], near |-> [oldSheath |-> {}],
          kind |-> [bp |-> "Blueprint", mesh |-> "StaticMesh", mat |-> "MaterialInstance",
                    body |-> "SkeletalMesh", tex |-> "Texture2D"],
          meshNamed |-> {"mesh"}]

MaterialMods ==
  {[conts |-> cs, game |-> {"gmat"}, cur |-> [gmat |-> {}],
    imports |-> [bp |-> {"mesh"} \union old, mesh |-> {"mat"}, mat |-> {"gmat"}],
    stale |-> [bp |-> {}, mesh |-> {}, mat |-> st],
    names |-> [e \in {"bp"} \X old |-> n],
    roles |-> {"bp"} \X old,
    authored |-> [i \in DOMAIN cs |-> [p \in cs[i] |-> IF i = 2 THEN two ELSE 1]],
    near |-> [oldSheath |-> nr]] @@ Plain :
     cs \in {<<{"bp", "mesh", "mat"}>>, <<{"bp", "mesh", "mat"}, {"mat"}>>},
     old \in SUBSET {"oldMat", "oldSheath"}, st \in {{}, {"gmat"}}, n \in {1, 2},
     two \in {1, 2}, nr \in {{}, {"mesh"}}}

BodyMods ==
  {[conts |-> cs, game |-> {"body", "tex", "skel", "phys", "gmat"},
    cur |-> [body |-> {"skel"} \union ph, tex |-> {"gmat"}, skel |-> {}, phys |-> {},
             gmat |-> {}],
    physics |-> [body |-> ph],
    imports |-> [body |-> bi, tex |-> ti], stale |-> [body |-> {}, tex |-> ts],
    names |-> [e \in {"body"} \X {"oldSkel", "oldPhys"} |-> 1], roles |-> {},
    derived |-> dv,
    authored |-> [i \in DOMAIN cs |-> [p \in cs[i] |-> IF p = "tex" THEN t ELSE 1]]] @@ Plain :
     cs \in {<<{"body", "tex"}>>, <<{"body"}, {"tex"}>>}, ph \in {{}, {"phys"}},
     bi \in {{"oldSkel", "oldPhys"}, {"skel", "phys"}, {"skel", "oldPhys"}},
     ti \in {{"gmat"}, {"skel"}}, ts \in {{}, {"gmat"}, {"skel"}},
     dv \in {{}, {<<"body", "oldPhys">>}}, t \in {0, 1}}

FormMods ==
  {[conts |-> <<{"mesh", "form"}>>, game |-> {"form", "gmat", "gmat2"},
    cur |-> [form |-> {"gmat"}, gmat |-> {}, gmat2 |-> {}],
    kind |-> [mesh |-> "StaticMesh", form |-> fk], shaped |-> {"form"},
    imports |-> [mesh |-> {"gmat", "gmat2"}, form |-> {fi}],
    stale |-> [mesh |-> ms, form |-> fs], slots |-> sl,
    names |-> <<>>, roles |-> {},
    authored |-> <<[mesh |-> 1, form |-> f]>>] @@ off @@ Plain :
     fk \in {"TesForm", "Other"}, fi \in {"gmat", "gmat2"},
     ms \in SUBSET {"gmat", "gmat2"}, fs \in SUBSET {"gmat", "gmat2"},
     sl \in {{}, {"mesh"}}, f \in {0, 1},
     off \in {[respelt |-> r] : r \in {{}, {"form"}}}
               \union {[unsound |-> {"loose file"}], [moved |-> {"form"}], [disagree |-> {"mesh"}], [installed |-> {"form"}]}}

(* Sidecars that came with the exports, or beside exports left as they were. *)
Mods == {[side |-> 0] @@ w : w \in MaterialMods \union BodyMods \union FormMods}
          \union {[side |-> 1] @@ w : w \in {m \in BodyMods : \E i \in DOMAIN m.conts :
                                           \E p \in m.conts[i] : m.authored[i][p] = 0}}
Sidecars(w) ==
  [i \in DOMAIN w.conts |-> [p \in w.conts[i] |->
     IF w.authored[i][p] = 0 THEN w.side ELSE w.authored[i][p]]]

MCWorlds == {[bulk |-> Sidecars(w)] @@ w : w \in Mods}
=============================================================================
