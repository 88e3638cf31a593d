-------------------------- MODULE MCLogicalUpdate --------------------------
(***************************************************************************)
(* Mods in every layout the planner knows, whole and with one file too     *)
(* many, too few or in the wrong place, and manifests with every kind of   *)
(* group.                                                                  *)
(***************************************************************************)
EXTENDS LogicalUpdate, TLC

File(dir, stem, ext) ==
    [dir |-> dir, name |-> stem \o "." \o ext, stem |-> stem, ext |-> ext, spell |-> "a"]
Triple(dir, stem) == {File(dir, stem, part) : part \in Container}
Readme == File(<<>>, "README", "txt")
W == <<"W">>

Canonical ==
    {File(W \o DataFolder, "M", "esp"), File(W \o DataFolder \o <<"SyncMap">>, "M", "ini"), Readme}
    \cup Triple(W \o ModsFolder, "M")
Manual ==
    {File(<<"W", "Data">>, "M", "esp"), File(<<"W", "Data", "SyncMap">>, "M", "ini"), Readme}
    \cup Triple(<<"W", "~mods">>, "M")
BareMod == {File(W, "M", "esp"), Readme} \cup Triple(<<"W", "Paks", "~mods">>, "M")
Halves == {File(<<"Data">>, "M", "esp")} \cup Triple(ModsFolder, "M")

\* A mod with a manifest.
Fomod ==
    {File(<<>>, "M", "esp"), File(<<"opt">>, "M", "pak"), File(<<"opt">>, "N", "pak"),
     File(<<"fomod">>, "ModuleConfig", "xml")}

\* One file more.
More ==
    {File(<<"Data">>, "N", "esp"), File(W, "N", "esp"), File(<<"Extras">>, "N", "pak"),
     File(<<"W", "~mods">>, "N", "pak"), File(<<"V", "Content", "Paks">>, "N", "pak"),
     [Readme EXCEPT !.name = "readme.TXT", !.spell = "b"]}

MCTrees ==
    {Canonical, Manual, BareMod, Halves, {}, {Readme}}
    \cup {m \cup {f} : m \in {Canonical, Manual, BareMod, Halves}, f \in More}
    \cup {m \ {f} : m \in {Manual, BareMod}, f \in {g \in Manual \cup BareMod : g.ext \in {"ucas", "esp", "ini"}}}
    \cup {Canonical \cup {[Readme EXCEPT !.spell = "b"]}, Fomod, Fomod \cup {File(<<"W", "fomod">>, "ModuleConfig", "xml")}}

-----------------------------------------------------------------------------
Start(name) == [kind |-> "start", name |-> name]
Grouped(behavior) == Start("group") @@ [behavior |-> behavior]
End == [kind |-> "end"]
Put(source, dir, name) ==
    [kind |-> "empty", name |-> "file", source |-> Path(source), dest |-> [dir |-> dir, name |-> name]]

PutPlugin == Put(File(<<>>, "M", "esp"), <<"Data">>, "")
PutPak == Put(File(<<"opt">>, "M", "pak"), ModsFolder, "")
PutOther == Put(File(<<"opt">>, "N", "pak"), ModsFolder, "")
PutOver == Put(File(<<"opt">>, "N", "pak"), ModsFolder, "M.pak")
PutUnder == Put(File(<<"opt">>, "N", "pak"), ModsFolder \o <<"M.pak">>, "")

Option(puts) == <<Start("plugin")>> \o puts \o <<End>>
Whole(puts, choices) ==
    <<Start("other"), Start("required")>> \o puts \o <<End>> \o choices \o <<End>>

MCDocuments ==
    {Whole(<<PutPlugin, PutPak>>, <<>>), Whole(<<PutPlugin>>, <<>>), Whole(<<>>, <<>>),
     Whole(<<PutPlugin, PutPak, PutPak>>, <<>>), Whole(<<PutPak, PutOver>>, <<>>),
     Whole(<<PutPlugin, PutPak, [PutPak EXCEPT !.dest.name = "O.pak"]>>, <<>>),
     Whole(<<PutPak, PutUnder>>, <<>>), Whole(<<PutPak, PutOther>>, <<Grouped("SelectAll"), End>>),
     Whole(<<PutPlugin, PutPak, PutOther>>, <<>>), Whole(<<PutPak>>, <<Start("visible")>>),
     Whole(<<PutPak>>, <<Grouped("SelectSome"), End>>),
     <<Start("required"), [PutPak EXCEPT !.kind = "start"], End, End>>,
     <<Start("other"), PutPak>>, <<Start("required"), PutPak>>, <<End>>,
     <<Start("required"), Start("other"), Start("other"), Start("other"), Start("other")>>,
     <<Start("plugin")>>, <<[Start("required") EXCEPT !.kind = "empty"], Start("required"), PutPak, End>>}
    \cup {Whole(<<PutPlugin>>, <<Grouped(b)>> \o Option(<<PutPak>>) \o rest \o <<End>>) :
            b \in Behaviors, rest \in {<<>>, Option(<<PutOther>>), Option(<<PutOver>>)}}
    \cup {Whole(<<PutPlugin, PutPak>>, <<Grouped(b)>> \o Option(<<>>) \o <<End>>) : b \in Behaviors}
    \cup {Whole(<<PutPlugin>>, <<Grouped(b)>> \o Option(<<PutPak>>) \o <<End, Grouped(c)>> \o Option(<<PutOver>>)
            \o <<End>>) : b, c \in {"SelectAll", "SelectExactlyOne"}}

MCAdapters == {"composite", "texture", "container-only"}
=============================================================================
