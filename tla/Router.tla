------------------------------- MODULE Router -------------------------------
(***************************************************************************)
(* The router of src/server.ts: routes are added one by one, compiled into *)
(* a trie (buildTrie), and requests are matched against it (matchRoute).   *)
(*                                                                         *)
(* A pattern and a path are sequences of segments; splitting at slashes    *)
(* drops empty ones.  A node of the trie is known by the edges that lead   *)
(* to it, so the trie is a function.  A handler is the number of its route.*)
(***************************************************************************)
EXTENDS Integers, FiniteSets, SequencesExt

CONSTANTS Word,        \* static segments of patterns
          PathWord,    \* segments of paths
          ParamName,   \* names of parameters
          Verb,        \* methods routes are registered for, "ALL" among them
          RequestVerb, \* methods of requests
          MaxRoutes, MaxSegments  \* bounds

NoName == "/"  \* null: no segment holds a slash

ASSUME RouterAssumption == NoName \notin ParamName /\ MaxRoutes \in Nat /\ MaxSegments \in Nat

Segment == {[kind |-> "static", text |-> w] : w \in Word}
             \cup {[kind |-> "param", text |-> n] : n \in ParamName}
             \cup {[kind |-> "wildcard", text |-> "*"]}

Pattern == UNION {[1..n -> Segment] : n \in 0..MaxSegments}
Path    == UNION {[1..n -> PathWord] : n \in 0..MaxSegments + 1}

VARIABLE routes  \* BuilderState.routes

RouterInit == routes = <<>>

\* get, post ... all: each adds a route.
AddRoute ==
  /\ Len(routes) < MaxRoutes
  /\ \E verb \in Verb, pattern \in Pattern :
       routes' = Append(routes, [method |-> verb, pattern |-> pattern])

RouterSpec == RouterInit /\ [][AddRoute]_routes

-----------------------------------------------------------------------------
(* The trie. *)

\* The segments before the first wildcard; what follows that is ignored.
Walked(pattern) ==
  LET wild == {i \in DOMAIN pattern : pattern[i].kind = "wildcard"}
  IN  IF wild = {} THEN pattern ELSE SubSeq(pattern, 1, Min(wild) - 1)

\* The edges to the children of a node: a static one's text, or that of the parameter.
StaticEdge(text) == [kind |-> "static", text |-> text]
ParamEdge == [kind |-> "param", text |-> NoName]
Edge(segment) == IF segment.kind = "param" THEN ParamEdge ELSE StaticEdge(segment.text)

\* The node that the first i segments lead to.
NodeAt(walked, i) == [j \in 1..i |-> Edge(walked[j])]

NoHandlers == [verb \in {} |-> 0]
EmptyNode  == [param |-> NoName, wildcard |-> NoHandlers, handlers |-> NoHandlers]

\* A Map's set().
MapSet(map, key, value) == [k \in DOMAIN map \cup {key} |-> IF k = key THEN value ELSE map[k]]

\* Seeded fault: a method's first handler stays.
PutHandlerOnce(handlers, verb, handler) ==
  IF verb \in DOMAIN handlers THEN handlers ELSE MapSet(handlers, verb, handler)

PutHandler(handlers, verb, handler) == MapSet(handlers, verb, handler)

\* The loop of insertRoute: a node is made for every segment that has none, and a parameter
\* is named by the first route that has one there.
Grown(trie, walked) ==
  LET here == {NodeAt(walked, i) : i \in 0..Len(walked)}
      there(n) == IF n \in DOMAIN trie THEN trie[n] ELSE EmptyNode
      names(n) == /\ n \in here /\ Len(n) < Len(walked) /\ walked[Len(n) + 1].kind = "param"
                  /\ there(n).param = NoName
  IN  [n \in DOMAIN trie \cup here |->
         [there(n) EXCEPT !.param = IF names(n) THEN walked[Len(n) + 1].text ELSE @]]

\* insertRoute: a later handler replaces an earlier.
InsertRoute(trie, handler) ==
  LET route  == routes[handler]
      walked == Walked(route.pattern)
      end    == NodeAt(walked, Len(walked))
      put(table) == PutHandler(table, route.method, handler)
      grown  == Grown(trie, walked)
  IN  IF Len(walked) < Len(route.pattern)
      THEN [grown EXCEPT ![end].wildcard = put(@)]
      ELSE [grown EXCEPT ![end].handlers = put(@)]

BuildTrie ==
  LET trie[n \in 0..Len(routes)] ==
        IF n = 0 THEN [node \in {<<>>} |-> EmptyNode] ELSE InsertRoute(trie[n - 1], n)
  IN  trie[Len(routes)]

-----------------------------------------------------------------------------
(* Matching a request. *)

\* resolveHandler, with 0 for undefined.
ResolveHandler(handlers, verb) ==
  IF verb \in DOMAIN handlers THEN handlers[verb]
  ELSE IF "ALL" \in DOMAIN handlers THEN handlers["ALL"] ELSE 0

Matched(handler, params) == [status |-> "matched", handler |-> handler, params |-> params]
MethodNotAllowed == [status |-> "method not allowed"]
RouteNotFound    == [status |-> "route not found"]

MatchWildcard(node, verb, params, remaining) ==
  LET h == ResolveHandler(node.wildcard, verb)
  IN  IF h # 0 THEN Matched(h, MapSet(params, "*", remaining)) ELSE MethodNotAllowed

MatchLeaf(node, verb, params) ==
  LET exact == ResolveHandler(node.handlers, verb)
      wild  == ResolveHandler(node.wildcard, verb)
  IN  IF exact # 0 THEN Matched(exact, params)
      ELSE IF wild # 0 THEN Matched(wild, MapSet(params, "*", <<>>))
      ELSE IF node.handlers # NoHandlers \/ node.wildcard # NoHandlers THEN MethodNotAllowed
      ELSE RouteNotFound

\* The walk of matchRoute: a static child first, then the parameter; where there is
\* neither it stays, and is never taken back.
Walk(trie, path) ==
  LET walk[i \in 0..Len(path)] ==
        IF i = 0 THEN [node |-> <<>>, params |-> [n \in {} |-> <<>>]]
        ELSE LET at == walk[i - 1]
                 down(edge) == Append(at.node, edge)
                 name == trie[at.node].param
             IN  IF Len(at.node) < i - 1 THEN at
                 ELSE IF down(StaticEdge(path[i])) \in DOMAIN trie
                      THEN [at EXCEPT !.node = down(StaticEdge(path[i]))]
                 ELSE IF name # NoName
                      THEN [node |-> down(ParamEdge), params |-> MapSet(at.params, name, <<path[i]>>)]
                 ELSE at
  IN  walk[Len(path)]

MatchRoute(trie, verb, path) ==
  LET at   == Walk(trie, path)
      node == trie[at.node]
      rest == SubSeq(path, Len(at.node) + 1, Len(path))
  IN  IF rest = <<>> THEN MatchLeaf(node, verb, at.params)
      ELSE IF node.wildcard # NoHandlers THEN MatchWildcard(node, verb, at.params, rest)
      ELSE RouteNotFound

-----------------------------------------------------------------------------
(* What a table of routes says of a request, without a trie. *)

Wild(route)   == Len(Walked(route.pattern)) < Len(route.pattern)
Serves(r, verb) == routes[r].method \in {verb, "ALL"}

\* Route r goes along path for its first n segments.
GoesAlong(r, n, path) ==
  LET walked == Walked(routes[r].pattern)
  IN  /\ n <= Len(walked) /\ n <= Len(path)
      /\ \A i \in 1..n : walked[i].kind = "static" => walked[i].text = path[i]

Fits(r, path) ==
  LET n == Len(Walked(routes[r].pattern))
  IN  GoesAlong(r, n, path) /\ (Wild(routes[r]) \/ n = Len(path))

\* How r takes its i-th segment: static before param before wildcard.
Rank(r, i) ==
  LET walked == Walked(routes[r].pattern)
  IN  IF i > Len(walked) THEN 3 ELSE IF walked[i].kind = "static" THEN 1 ELSE 2

\* Route o takes precedence over r at a segment of path, up to which they are alike.
BranchesOff(o, r, path) ==
  \E i \in 1..Len(path) :
    /\ GoesAlong(o, i, path)
    /\ \A j \in 1..i - 1 : Rank(o, j) = Rank(r, j)
    /\ Rank(o, i) < Rank(r, i)

SameShape(o, r) == LET shape(x) == [i \in DOMAIN Walked(x.pattern) |-> Edge(x.pattern[i])]
                   IN  /\ shape(routes[o]) = shape(routes[r])
                       /\ Wild(routes[o]) <=> Wild(routes[r])

\* A request is answered by a route that fits it and its method, the latest of its
\* shape, and its own method's before ALL; a route that fits is passed over only for
\* one that is more specific at some segment, though that one need not fit to the
\* end; 405 is said only if a route fits (matchRoute, matchLeaf, insertRoute).
RoutedByTable ==
  LET trie == BuildTrie
  IN  \A path \in Path, verb \in RequestVerb :
        LET answer == MatchRoute(trie, verb, path)
            fit    == {r \in DOMAIN routes : Fits(r, path)}
            ahead(r) == \E o \in DOMAIN routes : BranchesOff(o, r, path)
        IN  /\ answer.status = "matched" =>
                 LET h == answer.handler
                 IN  /\ h \in fit /\ Serves(h, verb) /\ ~ahead(h)
                     /\ \A r \in DOMAIN routes : SameShape(r, h) =>
                          /\ routes[r].method = routes[h].method => r <= h
                          /\ routes[r].method = verb => routes[h].method = verb
                     /\ Wild(routes[h]) => \A r \in fit : Serves(r, verb) => Wild(routes[r]) \/ ahead(r)
            /\ answer.status # "matched" => \A r \in fit : Serves(r, verb) => ahead(r)
            /\ answer.status = "route not found" => \A r \in fit : ahead(r)
            /\ answer.status = "method not allowed" => fit # {}

\* A handler is given every parameter its route names (Context, ExtractParams).
ParamsNamed ==
  LET trie == BuildTrie
  IN  \A path \in Path, verb \in RequestVerb :
        LET answer == MatchRoute(trie, verb, path)
        IN  answer.status = "matched" =>
              \A segment \in ToSet(Walked(routes[answer.handler].pattern)) :
                segment.kind = "param" => segment.text \in DOMAIN answer.params
=============================================================================
