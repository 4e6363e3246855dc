----------------------------- MODULE MCPlanner -----------------------------
(* Small trees for TLC: code whose functions call each other, quote keys and     *)
(* query tables, type hierarchies, and the artifacts they refer to.             *)
EXTENDS Planner

CONSTANTS f, g, p, q, db, host, users, \* words
          a, b, c, j, k, art, tbl      \* files

Files == {a, b, c, j, k, art, tbl}

Languages == [x \in Files |-> CASE x \in {a, b, c} -> "go" [] x \in {j, k} -> "java"
                              [] x = art -> "yaml" [] x = tbl -> "sql"]

Sym(n, kind, calls, quoted, verbs, bases) ==
  [name |-> <<n>>, kind |-> kind, body |-> <<kind, calls, quoted, verbs, bases>>, calls |-> {<<x>> : x \in calls}, quoted |-> quoted,
   words |-> {<<n>>} \cup {<<x>> : x \in calls} \cup {<<x[1][1]>> : x \in bases}
             \cup (IF verbs = {} THEN {} ELSE {<<users>>}),
   verbs |-> verbs, bases |-> bases]

Text(S) == [status |-> "ok", blank |-> FALSE, text |-> S]
Nothing == [status |-> "ok", blank |-> TRUE, text |-> {}]
Failed == [status |-> "failed", blank |-> FALSE, text |-> {}]

Texts ==
  [Caller  |-> Text({Sym(f, "function", {g}, {}, {}, {})}),
   Callee  |-> Text({Sym(g, "function", {}, {}, {}, {})}),
   Both    |-> Text({Sym(f, "function", {g}, {}, {}, {}), Sym(g, "function", {}, {}, {}, {})}),
   Reader  |-> Text({Sym(f, "function", {}, {<<db, host>>}, {}, {})}),
   Query   |-> Text({Sym(g, "function", {}, {<<db, host>>}, {"read", "write"}, {})}),
   Parent  |-> Text({Sym(p, "class", {}, {}, {}, {})}),
   Noted   |-> Text({[Sym(p, "class", {}, {}, {}, {}) EXCEPT !.words = @ \cup {<<q>>}]}), \* a comment
   Iface   |-> Text({Sym(p, "interface", {}, {}, {}, {})}),
   Derived |-> Text({Sym(q, "class", {}, {}, {}, {<<<<p>>, "extends">>})}),
   Family  |-> Text({Sym(q, "class", {}, {}, {}, {<<<<p>>, "colon">>}), Sym(p, "class", {}, {}, {}, {})}),
   Keys    |-> Text({[Sym(host, "var", {}, {}, {}, {}) EXCEPT !.name = <<db, host>>]}),
   Table   |-> Text({Sym(users, "class", {}, {}, {}, {})}),
   Empty   |-> Nothing,
   BadUtf8 |-> Failed]

Contents == DOMAIN Texts

\* one tree from the choices for each file
Choice(x, S) == IF x \in DOMAIN S THEN S[x] ELSE {Absent}
TreesOf(S) == {t \in [Files -> UNION {S[x] : x \in DOMAIN S} \cup {Absent}] :
                 \A x \in Files : t[x] \in Choice(x, S)}

Calls == a :> {"Caller", "Both", "Empty"} @@ b :> {Absent, "Callee", "Both"} @@ c :> {Absent, "Callee"}
Types == art :> {"Empty"} @@ j :> {Absent, "Parent", "Iface"} @@ k :> {Absent, "Derived", "Family"}
Notes == art :> {"Empty"} @@ j :> {"Noted"} @@ k :> {"Derived"}
Joins == a :> {"Query"} @@ b :> {Absent, "Reader"} @@ art :> {"BadUtf8", "Keys"} @@ tbl :> {Absent, "Table"}

AllTrees == TreesOf(Calls) \cup TreesOf(Notes) \cup TreesOf(Types) \cup TreesOf(Joins)

Plain == [w \in {users} |-> users]

\* the run is about what the theorem is about
ASSUME Findable
=============================================================================
