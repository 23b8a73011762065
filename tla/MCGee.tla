------------------------------- MODULE MCGee -------------------------------
(***************************************************************************)
(* Three configurations: route tables over two literals and all small      *)
(* patterns; nested groups with middlewares; and every short chain of      *)
(* middlewares before every kind of route handler.                         *)
(***************************************************************************)
EXTENDS GeeEngine

a == Lit("a")
b == Lit("b")
x == Param("x")
y == Param("y")
f == Star("f")
e == Empty

AllPatterns ==
  {<<>>, <<e, e>>, <<e, a>>, <<e, b>>, <<e, x>>, <<e, y>>, <<e, f>>, <<e, a, e>>,
   <<e, a, b>>, <<e, a, x>>, <<e, x, a>>, <<e, x, y>>, <<e, x, b>>, <<e, a, f>>,
   <<e, x, f>>, <<e, f, b>>, <<e, x, b, a>>}
ab == Lit("ab")
GroupPaths == {<<e>> \o p : p \in UNION {[1..n -> {a, ab}] : n \in 1..4}}
AllPaths == {<<e>> \o p : p \in {<<e>>} \cup UNION {[1..n -> {a, b}] : n \in 1..3}} \cup {<<e, a, e, b>>}


Log == [name |-> "Logger", calls |-> Context!Logger]
Rec == [name |-> "Recovery", calls |-> Context!Recovery]
Ok == [name |-> "route", calls |-> <<"string200">>]

Tables ==
  [methods |-> {"GET", "POST"}, patterns |-> AllPatterns, paths |-> AllPaths, served |-> {},
   groupNames |-> {}, middlewares |-> {}, routeHandlers |-> {Ok},
   maxRoutes |-> 3, maxGroups |-> 1, maxUses |-> 0]
Groups ==
  [methods |-> {"GET"}, patterns |-> {<<>>, <<e, x>>}, paths |-> GroupPaths,
   served |-> {<<e, a, a>>},
   groupNames |-> {<<e, a>>, <<e, ab>>}, middlewares |-> {Log, Rec}, routeHandlers |-> {Ok},
   maxRoutes |-> 1, maxGroups |-> 4, maxUses |-> 2]
Chains ==
  [methods |-> {"GET"}, patterns |-> {<<e, a>>}, paths |-> {<<e, a>>, <<e, b>>}, served |-> {<<e, a>>, <<e, b>>},
   groupNames |-> {}, middlewares |-> Context!Middleware, routeHandlers |-> Context!Route,
   maxRoutes |-> 1, maxGroups |-> 1, maxUses |-> 3]

MCCases == {Tables, Groups, Chains}
OneLonger == {<<"ab", "a">>}
=============================================================================
