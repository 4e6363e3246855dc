------------------------------ MODULE MCDrift -------------------------------
(* Contents that are not Findable, for TLC: for each of its conjuncts the smallest  *)
(* trees on which an incremental index and a rebuild part.                       *)
EXTENDS Planner

CONSTANTS f, g, h, x, y, db, host, Users, users, \* words
          a, b, page, art, tbl                    \* files

Files == {a, b, page, art, tbl}

Languages == [z \in Files |-> CASE z \in {a, b} -> "go" [] z = page -> "html"
                              [] z = art -> "yaml" [] z = tbl -> "sql"]

Sym(n, kind, quoted, words, verbs) ==
  [name |-> n, kind |-> kind, body |-> <<kind, quoted, words>>, calls |-> {}, quoted |-> quoted,
   words |-> words, verbs |-> verbs, bases |-> {}]
Function(n, quoted) == Sym(<<n>>, "function", quoted, {<<n>>}, {})
Query(quoted) == Sym(<<f>>, "function", quoted, {<<f>>, <<Users>>}, {"read"})
Route(n) == Sym(<<n>>, "route", {}, {<<n>>}, {}) \* html.rs writes it without quotes

Text(S) == [status |-> "ok", blank |-> FALSE, text |-> S]

Texts ==
  [HandlesX  |-> Text({Function(h, {<<x>>})}),
   HandlesX2 |-> Text({Function(h, {<<x>>, <<f>>})}),
   HandlesY  |-> Text({Function(g, {<<y>>})}),
   Page      |-> Text({Route(x), Route(y)}),
   Queries   |-> Text({Query({})}),
   Queries2  |-> Text({Query({<<g>>})}),
   Table     |-> Text({Sym(<<Users>>, "class", {}, {<<Users>>}, {})}),
   ByPath    |-> Text({Function(f, {<<db, host>>})}),
   ByPart    |-> Text({Function(g, {<<host>>})}),
   Keys      |-> Text({Sym(<<db, host>>, "var", {}, {<<db, host>>}, {})})]

Contents == DOMAIN Texts

\* one tree from the choices for each file
Choice(z, S) == IF z \in DOMAIN S THEN S[z] ELSE {Absent}
TreesOf(S) == {t \in [Files -> UNION {S[z] : z \in DOMAIN S} \cup {Absent}] :
                 \A z \in Files : t[z] \in Choice(z, S)}

RouteTrees == TreesOf(a :> {"HandlesX", "HandlesX2"} @@ b :> {"HandlesY"} @@ page :> {"Page"})
TableTrees == TreesOf(a :> {"Queries", "Queries2"} @@ tbl :> {"Table"})
KeyTrees == TreesOf(a :> {Absent, "ByPath"} @@ b :> {"ByPart"} @@ art :> {"Keys"})

Spellings == [w \in {Users} |-> users]
=============================================================================
