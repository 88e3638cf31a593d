------------------------------ MODULE MCLayers ------------------------------
(***************************************************************************)
(* Packages 1 to 4 in up to three containers of the selected mod, one or   *)
(* two connected sources, the installed mods and the game: chains and      *)
(* cycles of imports, copies, shadowed, repeated and missing packages.     *)
(***************************************************************************)
EXTENDS Layers, TLC

Package(id, path, imports) == [id |-> id, path |-> path, imports |-> imports]
Single == Package(1, "one", {2})

MCStores ==
    [a |-> {Single}, b |-> {Package(1, "one", {})}, c |-> {Package(9, "one", {})}, d |-> {Package(2, "two", {3})},
     e |-> {Package(2, "two", {1, 3, 4})}, f |-> {Package(3, "three", {2}), Package(4, "four", {})},
     g |-> {Package(3, "three", {1})}, h |-> {Package(1, "other", {2})}, i |-> {}]
MCSound == DOMAIN MCStores \ {"b"}

Stem(n, chunk) == [name |-> n, patch |-> chunk # 0, chunk |-> chunk, paks |-> TRUE]
Patch(n) == [Stem(n, 0) EXCEPT !.patch = TRUE]
Out(n) == [Stem(n, 0) EXCEPT !.paks = FALSE]
MCStock == Stem(100, 0)
MCGlobal == Stem(101, 0)

Triple(stem, content) ==
    {[stem |-> stem, part |-> part, spell |-> "a", content |-> content] : part \in Parts}
Without(files, part) == {f \in files : f.part # part}
Source(leaf, files) == [form |-> "folder", active |-> FALSE, link |-> "none", leaf |-> leaf, files |-> files]
Mixed == {[f EXCEPT !.content = IF f.part = "pak" THEN "b" ELSE @] : f \in Triple(Stem(5, 0), "a")}

Files ==
    LET S(n, c) == Triple(Stem(n, 0), c)
    IN  {S(1, "a"), S(1, "b"), S(1, "a") \cup S(2, "d"), S(1, "a") \cup S(2, "e"), S(1, "a") \cup S(2, "a"),
         S(1, "a") \cup S(2, "h"), S(1, "a") \cup S(2, "c"), S(1, "i"),
         Triple(Stem(1, 3), "a") \cup Triple(Stem(2, 3), "a"), Triple(Stem(1, 4), "a") \cup Triple(Stem(2, 3), "c"),
         Triple(Stem(1, 1), "a") \cup Triple(Stem(2, 5), "a"), S(1, "a") \cup Triple(Patch(2), "a"),
         Triple(Stem(2, 3), "a") \cup Triple(Stem(1, 3), "c") \cup S(3, "a"),
         S(1, "a") \cup Triple(Out(2), "d"), S(1, "a") \cup Triple(Out(2), "g"), S(1, "f") \cup Triple(Out(2), "e"),
         S(1, "a") \cup Without(Triple(Out(2), "d"), "pak"), Triple(Out(1), "a"),
         S(1, "a") \cup Without(S(2, "d"), "pak"), Without(S(1, "a"), "utoc"), {},
         S(1, "a") \cup {[f EXCEPT !.spell = "b"] : f \in S(1, "a")}}

MCSelections ==
    {Source("mod", files) : files \in Files}
    \cup {[Source("mod", Triple(Stem(1, 0), "a")) EXCEPT !.form = "absent"],
          [Source("mod", Triple(Stem(1, 0), "a")) EXCEPT !.active = TRUE],
          [Source("mod", Triple(Stem(1, 0), "a")) EXCEPT !.link = "paks"],
          [Source("mod", Triple(Stem(1, 0), "a")) EXCEPT !.link = "elsewhere"]}

D == Source("dep", Triple(Stem(3, 0), "d"))
MCConnections ==
    {<<>>, <<D>>, <<Source("two", Triple(Stem(3, 0), "e"))>>, <<D, Source("three", Triple(Stem(4, 0), "g"))>>,
     <<D, D>>, <<Source("empty", {})>>, <<Source("part", Without(Triple(Stem(3, 0), "f"), "ucas"))>>,
     <<[D EXCEPT !.form = "absent"]>>, <<Source("shadow", Triple(Stem(3, 0), "b"))>>, <<D, D, D, D, D, D>>}

MCInstallations ==
    {{}, Triple(Stem(5, 0), "a"), Triple(Stem(5, 0), "a") \cup Triple(Stem(6, 0), "a"), Mixed,
     Triple(Stem(5, 0), "f"), Triple(Stem(5, 0), "e"), Triple(Stem(5, 0), "g") \cup Triple(Stem(6, 0), "d"),
     Without(Triple(Stem(5, 0), "f"), "pak"), Triple(Stem(5, 0), "i")}

GlobalFiles == Without(Triple(MCGlobal, "i"), "pak")
Game(stock) == GlobalFiles \cup Triple(MCStock, stock)
MCGames ==
    {Game("d"), Game("f"), Game("g"), Game("c"), Game("d") \cup Triple(Stem(102, 0), "f"), Game("f") \ GlobalFiles,
     Game("e") \cup Triple(Stem(102, 0), "d") \cup Triple(Stem(103, 0), "g"), Game("i"),
     Game("d") \cup Without(Triple(Stem(102, 0), "f"), "pak"), GlobalFiles}
=============================================================================
