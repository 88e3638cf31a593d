---------------------------- MODULE MCPluginLane ----------------------------
(* Three families of mods.  The first adds rows to a container that a later  *)
(* master has changed as well; the second deletes references whose winner    *)
(* comes from a master with another master list; the third varies the files  *)
(* around a small plugin and pairs it with a second one.                     *)
EXTENDS PluginLane, TLC

NoRows == [x \in {} |-> 0]
Thing(k) == [kind |-> k, flags |-> {}, rest |-> 0, rows |-> NoRows, counted |-> TRUE,
             base |-> Null, key |-> Null, parent |-> Null, body |-> "other",
             bounded |-> TRUE]
Chest(rows) == [Thing("CONT") EXCEPT !.rows = rows]
Refr(b, k) == [Thing("REFR") EXCEPT !.base = b, !.key = k, !.body = "witness"]
Stub == [Thing("REFR") EXCEPT !.flags = {"deleted"}, !.body = "bare"]

File(ms, recs) == [masters |-> ms, recs |-> recs]
Esp(n, ms, recs) ==
  [name |-> n, masters |-> ms, recs |-> recs, flaws |-> {}, copy |-> "none", hollow |-> FALSE]
Ini(stem, keys) == [stem |-> stem, keys |-> keys, found |-> TRUE]
At(root) == {[root |-> root, tail |-> "M.esp", skip |-> FALSE]}

World(ps, g, g2) ==
  [plugins |-> ps, game |-> g, patched |-> g2, inis |-> <<Ini("M.esp", <<9>>)>>,
   layout |-> At("Data"), sidecars |-> "valid", runtime |-> {"ue4ss", "injector"},
   scripts |-> FALSE, unplaced |-> FALSE]

(* Chests.  A.esm restocks the game's chest 1 with its own item 3; in a      *)
(* malformed master a row points beyond its master list.                     *)
BaseChest == File(<<>>, <<0, 1>> :> Chest(<<<<0, 2>>, 1>> :> 1) @@ <<0, 2>> :> Thing("MISC"))
Restock(ms, rows) == File(ms, <<0, 1>> :> Chest(rows) @@ <<Len(ms), 3>> :> Thing("MISC"))
Stock(ms) ==
  {<<<<0, 2>>, 1>> :> 1 @@ <<<<Len(ms), 3>>, 1>> :> 1,
   <<<<0, 2>>, 1>> :> 2,
   <<<<0, 2>>, 1>> :> 1 @@ <<<<2, 9>>, 2>> :> 1}
ChestGames ==
  {"Oblivion.esm" :> BaseChest @@ "A.esm" :> Restock(ms, rows) :
     ms \in {<<Base>>}, rows \in Stock(<<Base>>)}
    \union {"Oblivion.esm" :> BaseChest @@ "A.esm" :> Restock(<<>>, <<<<0, 3>>, 1>> :> 1),
            "Oblivion.esm" :> BaseChest
              @@ "A.esm" :> Restock(<<Base, "C.esm">>, <<<<0, 2>>, 1>> :> 1 @@ <<<<2, 9>>, 1>> :> 1),
            "Oblivion.esm" :> BaseChest}
Additions ==
  {<<<<0, 2>>, 1>> :> 1 @@ <<<<2, 9>>, 1>> :> 1,
   <<<<0, 2>>, 1>> :> 2 @@ <<<<2, 9>>, 1>> :> 1,
   <<<<0, 2>>, 2>> :> 1 @@ <<<<2, 9>>, 1>> :> 1,
   <<<<1, 3>>, 1>> :> 1, <<<<2, 9>>, 1>> :> 1, <<<<3, 9>>, 1>> :> 1, NoRows}
ChestMods ==
  {World(<<Esp("M.esp", <<Base, "A.esm">>,
               <<0, 1>> :> [Chest(rows) EXCEPT !.rest = rest]
                 @@ <<own, 9>> :> Thing("MISC"))>>, g, g2) :
     rows \in Additions, rest \in {0, 1}, own \in {2, 3}, g \in ChestGames, g2 \in ChestGames}

(* References.  B.esm, which declares only some of the plugin's masters,     *)
(* moves the game's reference 5 onto a base and a key of its own.            *)
BaseRefr ==
  File(<<>>, <<0, 5>> :> Refr(<<0, 6>>, Null) @@ <<0, 6>> :> Thing("STAT")
               @@ <<0, 7>> :> Thing("DOOR"))
Moved(ms, w) ==
  File(ms, <<Position(ms, Base) - 1, 5>> :> w @@ <<Len(ms), 6>> :> Thing("STAT")
             @@ <<Len(ms), 8>> :> Thing("KEYM"))
Lists == {<<Base>>, <<"A.esm", Base>>, <<Base, "C.esm">>}
RefrGame(ms, w) ==
  "Oblivion.esm" :> BaseRefr @@ "A.esm" :> File(<<Base>>, <<1, 6>> :> Thing("DOOR"))
    @@ "B.esm" :> Moved(ms, w)
Moves(ms) ==
  {Refr(<<Len(ms), 6>>, k) : k \in {Null, <<Len(ms), 8>>, <<3, 8>>}}
    \union {Refr(<<0, 6>>, Null), Refr(<<0, 7>>, Null), Refr(<<3, 6>>, Null),
            [Refr(<<Len(ms), 6>>, Null) EXCEPT !.flags = {"compressed"}],
            [Refr(<<Len(ms), 6>>, Null) EXCEPT !.flags = {"deleted"}],
            [Refr(<<Len(ms), 6>>, Null) EXCEPT !.body = "odd"]}
Deletions ==
  {Stub, [Stub EXCEPT !.bounded = FALSE], [Stub EXCEPT !.flags = {"deleted", "compressed"}],
   Refr(<<0, 6>>, Null)}
RefrMods ==
  UNION {
    {World(<<Esp("M.esp", order, <<0, 5>> :> d @@ <<3, 9>> :> Refr(<<0, 6>>, Null))>>,
           RefrGame(ms, w), RefrGame(ms, w2)) :
       order \in {<<Base, "A.esm", "B.esm">>, <<Base, "B.esm", "A.esm">>},
       d \in Deletions, w \in Moves(ms), w2 \in {Refr(<<0, 6>>, Null), Thing("ACHR")}} :
    ms \in Lists}

(* The rest of a mod.                                                        *)
Small == Esp("M.esp", <<Base>>, <<0, 5>> :> Stub @@ <<1, 9>> :> Thing("REFR"))
Other(ms, f) == Esp("N.esp", ms, f :> Stub @@ <<Len(ms), 9>> :> Thing("ACHR"))
SmallGame == "Oblivion.esm" :> BaseRefr
Sets ==
  {<<>>, <<Small>>, <<Small, Other(<<Base>>, <<0, 5>>)>>, <<Small, Other(<<Base>>, <<0, 15>>)>>,
   <<Small, Other(<<Base, "M.esp">>, <<0, 15>>)>>, <<Small, Other(<<Base, "N.esp">>, <<0, 15>>)>>}
    \union {<<[Small EXCEPT !.flaws = {x}]>> : x \in {"light", "not under Data"}}
    \union {<<[Small EXCEPT !.copy = c]>> : c \in {"mirror", "collision"}}
    \union {<<[Small EXCEPT !.hollow = TRUE]>>}
Refr15 == <<0, 15>> :> Refr(<<0, 6>>, Null)
SetGame ==
  "Oblivion.esm" :> [BaseRefr EXCEPT !.recs = @ @@ Refr15]
Around ==
  {[inis |-> is] : is \in {<<>>, <<Ini("M.esp", <<9>>)>>, <<Ini("M.esp", <<9, 9>>)>>,
                           <<Ini("M.esp", <<5>>)>>, <<Ini("Z.esp", <<9>>)>>,
                           <<[Ini("M.esp", <<9>>) EXCEPT !.found = FALSE]>>,
                           <<Ini("M.esp", <<9>>), Ini("N.esp", <<9>>)>>}}
    \union {[layout |-> At("outside")],
            [layout |-> At("Data") \union At("bare")],
            [layout |-> At("Data") \union {[root |-> "x", tail |-> "y", skip |-> TRUE]}],
            [sidecars |-> "none"], [sidecars |-> "invalid"],
            [runtime |-> {"ue4ss"}], [runtime |-> {}, scripts |-> TRUE],
            [unplaced |-> TRUE]}
FileMods ==
  {a @@ World(ps, SetGame, SetGame) : a \in Around, ps \in Sets}

MCWorlds == ChestMods \union RefrMods \union FileMods
=============================================================================
