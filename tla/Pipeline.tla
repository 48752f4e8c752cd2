------------------------------ MODULE Pipeline ------------------------------
(***************************************************************************)
(* What a server builder does with one request (src/src/server.ts), from   *)
(* an adapter to the client that asked (client.ts): the middleware around  *)
(* the core handler, in it the match, the derivers one after the other,    *)
(* and the typed middleware around the route's handler.  Builders share    *)
(* nothing they change: each method gives a new one.                       *)
(*                                                                         *)
(* Middleware, derivers and handlers are user code.  Middleware may call   *)
(* next, or not, or again, and keep or replace what next gave; all of them *)
(* may fail with any of the server's errors, the router's among them, or   *)
(* reject; and middleware and handlers may answer with any status.         *)
(***************************************************************************)
EXTENDS Naturals, FiniteSets, Sequences, SequencesExt

CONSTANTS
  MaxBuilders, \* bound: builders made
  MaxLayers,   \* bound: middleware, derivers and typed middleware of the first builder, together
  MaxCalls     \* bound: calls of next() in one request

ASSUME PipelineAssumption == {MaxBuilders, MaxLayers, MaxCalls} \subseteq Nat

VARIABLES
  builders,  \* [routes, middlewares, derivers, typed, custom, trie]: a set, three numbers, whether
             \* the error handler was set, and the routes of the compiled trie or {"none"}
  serving,   \* the builder that serves the request, or 0
  layers,    \* the calls that have not returned, the innermost last
  result,    \* what the innermost call returned, or Nothing before that
  derived,   \* the derivers whose fields are in the context
  calls,     \* calls of next()
  thrown,    \* user code threw or rejected where the pipeline does not catch it
  status,    \* the status the adapter sends
  clientGot  \* what the client's task came to

serveVars == <<serving, layers, result, derived, calls, thrown, status, clientGot>>
pipelineVars == <<builders, serveVars>>

\* The errors of a ServerError, and the statuses of responses that are told apart.
ServerErrors == {"RouteNotFound", "MethodNotAllowed", "BodyReadError", "HandlerError", "ListenError"}
Statuses     == {200, 404, 500}

\* What a call may come to: nothing yet, a response, an Err, or a rejection; and whether
\* the router or user code made it.
Nothing        == [error |-> "none", status |-> 0, by |-> "none"]
Response(code) == [error |-> "none", status |-> code, by |-> "user"]
Failed(e, by)  == [error |-> e, status |-> 0, by |-> by]
Rejected       == Failed("rejected", "user")

\* What user code answers or fails with.
UserResults == {Response(code) : code \in Statuses} \cup {Failed(e, "user") : e \in ServerErrors}

\* Server(name), and the builders made of it by any calls.
Builders ==
  [routes : {{}, {"found"}}, middlewares : 0..MaxLayers, derivers : 0..MaxLayers,
   typed : 0..MaxLayers, custom : {FALSE}, trie : {{"none"}}]

Layers(b) == b.middlewares + b.derivers + b.typed

PipelineInit ==
  /\ \E b \in {c \in Builders : Layers(c) <= MaxLayers} : builders = <<b>>
  /\ serving = 0 /\ layers = <<>> /\ result = Nothing /\ derived = {} /\ calls = 0
  /\ thrown = FALSE /\ status = 0 /\ clientGot = "none"

-----------------------------------------------------------------------------
(* Building. *)

\* Seeded fault: a builder keeps the trie of the one it was made from.
MakeKeepingTrie(b, changed) == builders' = Append(builders, changed)

\* createBuilder: a new builder, whose trie is not compiled.
Make(b, changed) == builders' = Append(builders, [changed EXCEPT !.trie = {"none"}])

Build ==
  /\ serving = 0 /\ Len(builders) < MaxBuilders
  /\ \E i \in 1..Len(builders) : LET b == builders[i] IN
       \/ \E r \in {"found", "other"} \ b.routes : Make(b, [b EXCEPT !.routes = @ \cup {r}])
       \/ Make(b, [b EXCEPT !.middlewares = @ + 1])
       \/ Make(b, [b EXCEPT !.typed = @ + 1])
       \/ Make(b, [b EXCEPT !.derivers = @ + 1])
       \/ ~b.custom /\ Make(b, [b EXCEPT !.custom = TRUE])
  /\ UNCHANGED serveVars

\* getTrie, at the first request, which may be before other builders are made of it.
Compile ==
  /\ serving = 0
  /\ \E i \in 1..Len(builders) :
       /\ builders[i].trie = {"none"}
       /\ builders' = [builders EXCEPT ![i] = [@ EXCEPT !.trie = builders[i].routes]]
  /\ UNCHANGED serveVars

-----------------------------------------------------------------------------
(* Serving: layers of the onion, outermost first. *)

Builder == builders[serving]
Onion == [i \in 1..Builder.middlewares |-> <<"middleware", i>>] \o << <<"core", 0>> >>
           \o [i \in 1..Builder.typed |-> <<"typed", i>>] \o << <<"handler", 0>> >>

Serve ==
  /\ serving = 0
  /\ serving' \in 1..Len(builders)
  /\ layers' = <<(IF builders[serving'].middlewares = 0 THEN <<"core", 0>> ELSE <<"middleware", 1>>)>>
  /\ UNCHANGED <<builders, result, derived, calls, thrown, status, clientGot>>

Top == layers[Len(layers)]
Inside(kind) == layers # <<>> /\ Top[1] = kind
Returns(r) == layers' = Front(layers) /\ result' = r

\* compose, and the loop over the typed middleware: right to left, the first registered
\* is the outermost.
EnterNext == layers' = Append(layers, Onion[Len(layers) + 1])

\* A middleware calls next, for the first time or again.
CallNext ==
  /\ layers # <<>> /\ Top[1] \in {"middleware", "typed"}
  /\ calls < MaxCalls /\ calls' = calls + 1
  /\ EnterNext /\ result' = Nothing
  /\ UNCHANGED <<builders, serving, derived, thrown, status, clientGot>>

\* It returns: with what next gave, or with something of its own.
LayerReturns ==
  /\ layers # <<>> /\ Top[1] \in {"middleware", "typed"}
  /\ \/ result # Nothing /\ Returns(result) /\ UNCHANGED thrown
     \/ \E r \in UserResults : Returns(r) /\ UNCHANGED thrown
     \/ Returns(Rejected) /\ thrown' = TRUE
  /\ UNCHANGED <<builders, serving, derived, calls, status, clientGot>>

\* coreHandle matches the route on the builder's own trie, with an empty context.
Match ==
  /\ Inside("core") /\ result = Nothing /\ derived = {}
  /\ builders' = [builders EXCEPT ![serving].trie = IF @ = {"none"} THEN Builder.routes ELSE @]
  /\ IF "found" \in builders'[serving].trie THEN derived' = {0} /\ UNCHANGED <<layers, result>>
     ELSE /\ \/ Returns(Failed("RouteNotFound", "router"))
             \/ builders'[serving].trie # {} /\ Returns(Failed("MethodNotAllowed", "router"))
          /\ UNCHANGED derived
  /\ UNCHANGED <<serving, calls, thrown, status, clientGot>>

\* runDerivers: in order; the first Err is the result, a throw rejects.
Derive ==
  /\ Inside("core") /\ result = Nothing /\ derived # {} /\ Cardinality(derived) <= Builder.derivers
  /\ \/ derived' = derived \cup {Cardinality(derived)} /\ UNCHANGED <<layers, result, thrown>>
     \/ \E e \in ServerErrors : Returns(Failed(e, "user")) /\ derived' = {} /\ UNCHANGED thrown
     \/ Returns(Rejected) /\ derived' = {} /\ thrown' = TRUE
  /\ UNCHANGED <<builders, serving, calls, status, clientGot>>

\* The typed middleware and the handler, with the context of all derivers.
EnterCore ==
  /\ Inside("core") /\ result = Nothing /\ Cardinality(derived) = Builder.derivers + 1
  /\ EnterNext
  /\ UNCHANGED <<builders, serving, result, derived, calls, thrown, status, clientGot>>

CoreReturns ==
  /\ Inside("core") /\ result # Nothing
  /\ Returns(result) /\ derived' = {}
  /\ UNCHANGED <<builders, serving, calls, thrown, status, clientGot>>

\* executeHandler: a response, an Err, a throw, which is the Err HandlerError; a rejected
\* task rejects.
Handle ==
  /\ Inside("handler")
  /\ \/ \E r \in UserResults : Returns(r) /\ UNCHANGED thrown
     \/ Returns(Rejected) /\ thrown' = TRUE
  /\ UNCHANGED <<builders, serving, derived, calls, status, clientGot>>

DefaultStatus(error) ==
  CASE error = "RouteNotFound" -> 404 [] error = "MethodNotAllowed" -> 405 [] OTHER -> 500

\* fetch: an Err goes to the error handler, a custom one answers as it likes or throws;
\* the adapter answers a rejection with 500.
FetchAnswers ==
  /\ serving # 0 /\ layers = <<>> /\ status = 0
  /\ \/ result.error = "none" /\ status' = result.status /\ UNCHANGED thrown
     \/ result.error = "rejected" /\ status' = 500 /\ UNCHANGED thrown
     \/ /\ result.error \in ServerErrors
        /\ \/ ~Builder.custom /\ status' = DefaultStatus(result.error) /\ UNCHANGED thrown
           \/ Builder.custom /\ status' \in Statuses /\ UNCHANGED thrown
           \/ Builder.custom /\ status' = 500 /\ thrown' = TRUE
  /\ UNCHANGED <<builders, serving, layers, result, derived, calls, clientGot>>

\* The client: a fetch that fails is a NetworkError, a status that is not a success an
\* HttpError, and a body that is not what was asked for a ParseError.
ClientReceives ==
  /\ clientGot = "none"
  /\ status # 0
  /\ \/ clientGot' = "NetworkError"
     \/ status = 200 /\ clientGot' \in {"Ok", "ParseError"}
     \/ status \in {404, 405, 500} /\ clientGot' = "HttpError"
  /\ UNCHANGED <<builders, serving, layers, result, derived, calls, thrown, status>>

PipelineNext ==
  \/ Build \/ Compile \/ Serve \/ CallNext \/ LayerReturns \/ Match \/ Derive \/ EnterCore
  \/ CoreReturns \/ Handle \/ FetchAnswers \/ ClientReceives

\* A handler runs inside all the middleware, in the order of registration, with the fields
\* of all derivers and of this run only; a trie answers for its own builder's routes,
\* whatever was made of that builder meanwhile.  The router refuses no path of its builder,
\* and its refusal, unless user code replaces it, comes to the client as a 404 or 405; a
\* 500 is due to user code that threw, failed or answered so, a 200 to user code that
\* answered so, and no client is told Ok of anything else.
PipelineSound ==
  /\ Inside("handler") => layers = Onion /\ derived = 0..Builder.derivers
  /\ \A i \in 1..Len(builders) : builders[i].trie \in {{"none"}, builders[i].routes}
  /\ result.by = "router" => /\ "found" \notin Builder.routes
                             /\ status # 0 => Builder.custom \/ status \in {404, 405}
  /\ status = 500 => thrown \/ Builder.custom \/ result.by = "user"
  /\ status = 200 => Builder.custom \/ result = Response(200)
  /\ clientGot = "Ok" => status = 200
=============================================================================
