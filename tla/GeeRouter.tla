------------------------------ MODULE GeeRouter ------------------------------
(***************************************************************************)
(* The route table of Gee: router.go with the trie of trie.go, and the     *)
(* groups of gee.go.  A pattern or path is the sequence of items between   *)
(* slashes, as strings.Split gives it; <<>> is the empty string.  An item  *)
(* is empty, a literal, ":name" (param) or "*name" (star).                 *)
(***************************************************************************)
EXTENDS Integers, Sequences, FiniteSets, TLC, SequencesExt

CONSTANTS Cases,      \* what is registered: methods, patterns, paths, groupNames, middlewares,
                      \* routeHandlers, and the bounds maxRoutes, maxGroups, maxUses
          Longer      \* pairs of names, the first begins with the second

VARIABLES case, roots, handlers, groups, routes

routerVars == <<case, roots, handlers, groups, routes>>

Empty == [kind |-> "empty", name |-> ""]
Lit(n) == [kind |-> "lit", name |-> n]
Param(n) == [kind |-> "param", name |-> n]
Star(n) == [kind |-> "star", name |-> n]

isWild(part) == part.kind \in {"param", "star"}
NoPattern == <<>>

(* Node *)
Node(part) == [pattern |-> NoPattern, part |-> part, children |-> <<>>]

parsePattern(pattern) ==
  LET parts == SelectSeq(pattern, LAMBDA item : item.kind # "empty")
      star == SelectInSeq(parts, LAMBDA item : item.kind = "star")
  IN  IF star = 0 THEN parts ELSE SubSeq(parts, 1, star)

matchChild(n, part) == SelectInSeq(n.children, LAMBDA child : child.part = part \/ isWild(child.part))

matchChildren(n, part) == SelectSeq(n.children, LAMBDA child : child.part = part \/ isWild(child.part))

RECURSIVE insert(_, _, _)
insert(n, pattern, parts) ==
  IF parts = <<>> THEN [n EXCEPT !.pattern = pattern]
  ELSE LET i == matchChild(n, Head(parts))
           kids == IF i = 0 THEN Append(n.children, Node(Head(parts))) ELSE n.children
           k == IF i = 0 THEN Len(kids) ELSE i
       IN  [n EXCEPT !.children = [kids EXCEPT ![k] = insert(kids[k], pattern, Tail(parts))]]

RECURSIVE searchGreedy(_, _)
searchGreedy(n, parts) ==
  IF parts = <<>> \/ n.part.kind = "star" THEN n.pattern
  ELSE LET kids == matchChildren(n, Head(parts))
       IN  IF kids = <<>> THEN NoPattern ELSE searchGreedy(kids[1], Tail(parts))

(* The pattern of the node that search returns; NoPattern for nil. *)
RECURSIVE search(_, _)
search(n, parts) ==
  IF parts = <<>> \/ n.part.kind = "star" THEN n.pattern
  ELSE LET kids == matchChildren(n, Head(parts))
           found == [i \in DOMAIN kids |-> search(kids[i], Tail(parts))]
           first == SelectInSeq(found, LAMBDA p : p # NoPattern)
       IN  IF first = 0 THEN NoPattern ELSE found[first]

(* The pattern found and the parameters, a set of <<name, parts>>; a       *)
(* position outside searchParts is a panic.                                *)
getRoute(method, path) ==
  LET searchParts == parsePattern(path)
      pattern == IF method \in DOMAIN roots THEN search(roots[method], searchParts) ELSE NoPattern
      parts == parsePattern(pattern)
      named == {i \in DOMAIN parts : parts[i].kind = "param" \/ (parts[i].kind = "star" /\ parts[i].name # "")}
      star(i) == parts[i].kind = "star"
      panic == \E i \in named : i > Len(searchParts) + (IF star(i) THEN 1 ELSE 0)
      value(i) == SubSeq(searchParts, i, IF star(i) THEN Len(searchParts) ELSE i)
  IN  [pattern |-> pattern, panic |-> panic,
       params |-> IF panic THEN {} ELSE {<<parts[i].name, value(i)>> : i \in named}]

-----------------------------------------------------------------------------
(* Engine and RouterGroup. *)

(* g.prefix + comp, where comp begins with a slash or is empty. *)
Joined(prefix, comp) ==
  IF prefix = <<>> THEN comp ELSE IF comp = <<>> THEN prefix ELSE prefix \o Tail(comp)

(* strings.HasPrefix, on the text: the last item may go on. *)
HasPrefix(path, prefix) ==
  \/ prefix = <<>>
  \/ /\ Len(prefix) <= Len(path)
     /\ SubSeq(path, 1, Len(prefix) - 1) = Front(prefix)
     /\ LET a == path[Len(prefix)] b == Last(prefix)
        IN  a = b \/ b.kind = "empty" \/ (a.kind = b.kind /\ <<a.name, b.name>> \in Longer)

New ==
  /\ roots = <<>>
  /\ case \in Cases
  /\ handlers = [key \in {} |-> 0]
  /\ groups = <<[prefix |-> <<>>, parent |-> 0, middlewares |-> <<>>]>>
  /\ routes = <<>>

GroupAlone(g, prefix) ==
  /\ Len(groups) < case.maxGroups
  /\ groups' = Append(groups, [prefix |-> prefix, parent |-> g, middlewares |-> <<>>])
  /\ UNCHANGED <<case, roots, handlers, routes>>

Group(g, prefix) ==
  /\ Len(groups) < case.maxGroups
  /\ groups' = Append(groups, [prefix |-> Joined(groups[g].prefix, prefix), parent |-> g, middlewares |-> <<>>])
  /\ UNCHANGED <<case, roots, handlers, routes>>

Use(g, m) ==
  /\ FoldLeft(LAMBDA n, h : n + Len(h.middlewares), 0, groups) < case.maxUses
  /\ groups' = [groups EXCEPT ![g].middlewares = Append(@, m)]
  /\ UNCHANGED <<case, roots, handlers, routes>>

addRoute(g, method, comp, handler) ==
  LET pattern == Joined(groups[g].prefix, comp)
      root == IF method \in DOMAIN roots THEN roots[method] ELSE Node(Empty)
      grown == insert(root, pattern, parsePattern(pattern))
  IN  /\ Len(routes) < case.maxRoutes
      /\ roots' = [m \in DOMAIN roots \cup {method} |-> IF m = method THEN grown ELSE roots[m]]
      /\ handlers' = (<<method, pattern>> :> handler) @@ handlers
      /\ routes' = Append(routes, [method |-> method, pattern |-> pattern, group |-> g])
      /\ UNCHANGED <<case, groups>>

(* The handlers of a request before the one of its route. *)
ServeHTTP(path) ==
  FoldLeft(LAMBDA chain, g : chain \o (IF HasPrefix(path, g.prefix) THEN g.middlewares ELSE <<>>), <<>>, groups)

Configure ==
  \/ \E g \in DOMAIN groups, prefix \in case.groupNames : Group(g, prefix)
  \/ \E g \in DOMAIN groups, m \in case.middlewares : Use(g, m)
  \/ \E g \in DOMAIN groups, method \in case.methods, comp \in case.patterns, h \in case.routeHandlers :
       addRoute(g, method, comp, h)

-----------------------------------------------------------------------------
(* What matching means, without a trie.  To search the empty pattern is a  *)
(* node without a handler, so that it matches nothing.                     *)

MatchesPart(part, item) == part.kind = "param" \/ part = item

Matches(pattern, path) ==
  LET parts == parsePattern(pattern)
      items == parsePattern(path)
      n == Len(parts)
  IN  IF pattern = NoPattern THEN FALSE
      ELSE IF n > 0 /\ parts[n].kind = "star"
      THEN n <= Len(items) /\ \A i \in 1..(n - 1) : MatchesPart(parts[i], items[i])
      ELSE n = Len(items) /\ \A i \in 1..n : MatchesPart(parts[i], items[i])

(* At the first part where two patterns differ the literal is better. *)
Better(p, q) ==
  LET a == parsePattern(p) b == parsePattern(q)
  IN  \E i \in DOMAIN a \cap DOMAIN b :
        /\ SubSeq(a, 1, i - 1) = SubSeq(b, 1, i - 1)
        /\ ~ isWild(a[i]) /\ isWild(b[i])

(* Literals come before the wildcard of their position, of which there is  *)
(* one, and no two patterns have the same parts.                           *)
Tidy ==
  \A i, j \in DOMAIN routes : i < j /\ routes[i].method = routes[j].method =>
    LET a == parsePattern(routes[i].pattern) b == parsePattern(routes[j].pattern)
    IN  /\ a # b
        /\ \A k \in DOMAIN a \cap DOMAIN b :
             SubSeq(a, 1, k - 1) = SubSeq(b, 1, k - 1) /\ isWild(a[k]) => a[k] = b[k]

RoutesOf(method) == {routes[i].pattern : i \in {j \in DOMAIN routes : routes[j].method = method}}

Literal(pattern) == \A i \in DOMAIN pattern : ~ isWild(pattern[i])

(* router.handlers has a handler for every pattern that getRoute may find, *)
(* under the method and the full pattern, prefix of the group included:    *)
(* handle never appends nil to the chain.                                  *)
HandlerFound ==
  \A m \in DOMAIN roots, path \in case.paths :
    LET p == getRoute(m, path).pattern IN p = NoPattern \/ <<m, p>> \in DOMAIN handlers

(* insert descends into a wildcard child for any part and search has to    *)
(* follow it there: whatever was registered, in whatever order, a path     *)
(* that matches a pattern without a star is routed somewhere.  Left out is *)
(* a method with the empty pattern, which takes the place of "/".          *)
NeverLost ==
  \A m \in case.methods, path \in case.paths :
    /\ NoPattern \notin RoutesOf(m)
    /\ \E p \in RoutesOf(m) : Matches(p, path) /\ \A i \in DOMAIN p : p[i].kind # "star"
    => getRoute(m, path).pattern # NoPattern

(* search and insert: with a tidy table a path is routed to the best of    *)
(* the patterns it matches, and to none only if it matches none, whatever  *)
(* else was registered before or after; with any other table a path that a *)
(* pattern without a star is meant for is still not answered with 404.     *)
RoutedToBest ==
  /\ NeverLost
  /\ Tidy => \A m \in case.methods, path \in case.paths :
       LET found == getRoute(m, path).pattern
           fit == {p \in RoutesOf(m) : Matches(p, path)}
       IN  IF fit = {} THEN found = NoPattern
           ELSE found \in fit /\ \A p \in fit \ {found} : Better(found, p)

(* getRoute indexes the parts of the path by the positions of the pattern: *)
(* whatever the table, it stays inside them.                               *)
ParamsInRange == \A m \in case.methods, path \in case.paths : ~ getRoute(m, path).panic

(* A group and all the groups it is nested in, the outermost first. *)
RECURSIVE Enclosing(_)
Enclosing(g) == IF g = 0 THEN <<>> ELSE Append(Enclosing(groups[g].parent), g)

(* A path is a request for a pattern: the same text but for the parameters. *)
RequestFor(pattern, path) ==
  /\ Len(path) = Len(pattern)
  /\ \A i \in DOMAIN path : path[i] = pattern[i] \/ (pattern[i].kind = "param" /\ path[i].kind = "lit")

Requests == {<<i, path>> \in (DOMAIN routes) \X case.paths : RequestFor(routes[i].pattern, path)}

(* ServeHTTP selects middlewares by the text of the path and in the order  *)
(* the groups were created, knowing nothing of the group a route is from:  *)
(* a request for a route passes all middlewares of its group and of every  *)
(* group that one is nested in, those of outer groups first and those of a *)
(* group in the order of Use, whatever groups there are besides.  Left out *)
(* are groups with a wildcard in their prefix, which no path begins with.  *)
GroupMiddlewareRuns ==
  \A r \in Requests : Literal(groups[routes[r[1]].group].prefix) =>
    LET around == Enclosing(routes[r[1]].group)
        due == FoldLeft(LAMBDA ms, g : ms \o groups[g].middlewares, <<>>, around)
        run == ServeHTTP(r[2])
    IN  \E at \in [DOMAIN due -> DOMAIN run] :
          /\ \A i \in DOMAIN due : run[at[i]] = due[i]
          /\ \A i, j \in DOMAIN due : i < j => at[i] < at[j]

(* onlyForV2 (main.go) is meant "for group v2": a request passes nothing   *)
(* but the middlewares of the groups around its route.                     *)
OnlyOwnMiddleware ==
  \A r \in Requests :
    ToSet(ServeHTTP(r[2])) \subseteq UNION {ToSet(groups[g].middlewares) : g \in ToSet(Enclosing(routes[r[1]].group))}

(* Node.pattern is the "Route to match": a path is routed to a pattern it  *)
(* matches.                                                                *)
RouteMatches ==
  \A m \in case.methods, path \in case.paths :
    LET found == getRoute(m, path).pattern IN found # NoPattern => Matches(found, path)
=============================================================================
