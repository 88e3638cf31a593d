---------------------------- MODULE MCPreflight ----------------------------
(***************************************************************************)
(* Mods for the checks of the analysis: every plugin plane with every      *)
(* container plane and one more file, in one root or spread over two, and  *)
(* the anomalies an inventory records.                                     *)
(***************************************************************************)
EXTENDS Preflight

File(kind, plane, root, stem) ==
    [kind |-> kind, plane |-> plane, root |-> root, stem |-> stem]
Data(kind, stem) == File(kind, "data", "a", stem)
Paks(kinds, stem) == {File(k, "paks", "a", stem) : k \in kinds}
Loose1(kind) == File(kind, "elsewhere", "", "x")

PluginPlanes ==
    {{}, {Data("esp", "m")}, {Data("esp", "m"), Data("esp", "n")}, {Data("esm", "m")},
     {Loose1("esp")}}
SyncMaps == {{}, {Data("syncmap", "m")}}
ContainerPlanes == {{}, Paks(Part, "c"), Paks({"pak"}, "c"), Paks(Part, "c") \cup Paks({"pak"}, "d")}
Others ==
    {{}, {Loose1("script")}, {Loose1("document")}, {Loose1("asset")},
     {Data("sidecar", "s")}, {File("sidecar", "data", "b", "s")}}

Plain(files) == [files |-> files, links |-> FALSE, oversize |-> FALSE]

Shapes ==
    {Plain(p \cup s \cup c) : p \in PluginPlanes, s \in SyncMaps, c \in ContainerPlanes}
    \cup {Plain(p \cup s \cup c \cup o) :
            p \in {{}, {Data("esp", "m")}}, s \in SyncMaps, c \in {{}, Paks(Part, "c")},
            o \in Others}

Planned(mod) == NeedsPlan(InventoryOf(mod.files, mod))

Additive == {Data("esp", "m"), Data("syncmap", "m")} \cup Paks(Part, "c")
\* A complete setup, each way it can be incomplete, and some of them together.
Ready == [game |-> "complete", output |-> "apart", active |-> FALSE, tools |-> TRUE]
MCSetups ==
    {Ready, [Ready EXCEPT !.tools = FALSE], [Ready EXCEPT !.active = TRUE],
     [Ready EXCEPT !.output = "in-source"], [Ready EXCEPT !.output = "in-game"],
     [Ready EXCEPT !.output = "missing"], [Ready EXCEPT !.game = "incomplete"],
     [Ready EXCEPT !.game = "none", !.output = "in-source"],
     [Ready EXCEPT !.game = "incomplete", !.active = TRUE, !.tools = FALSE]}

\* Of the mods without a known layout, one of loose files and one mixed.
MCMods ==
    {m \in Shapes : ~Planned(m)} \cup
    {Plain({Loose1("asset")}), Plain({Loose1("esp"), Loose1("script")}),
     [Plain(Additive) EXCEPT !.links = TRUE], [Plain(Additive) EXCEPT !.oversize = TRUE],
     Plain(Additive \cup {Data("sidecar", "s"), Loose1("document")}
           \cup Paks(Part, "d"))}

\* Logical views: an additive mod, a pack of containers, a plugin, and a mod
\* that the planner left in no known layout.
MCViews == {Plain(Additive), Plain(Paks(Part, "c")), Plain({Data("esp", "m")}),
            Plain({Loose1("esp"), Loose1("script")})}
=============================================================================
