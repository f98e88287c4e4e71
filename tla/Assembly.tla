------------------------------- MODULE Assembly -------------------------------
(***************************************************************************)
(* How routes get their injected parameters (ext/fastapi/injection.py), in *)
(* whatever order an application is assembled: handlers registered on a    *)
(* GazeboRouter, on the app before or after upgrade, on a plain router;    *)
(* linked routers with their landing pages; and the checks at startup.     *)
(* A parameter is [marked, bound, default, resolved]: Annotated with       *)
(* Inject or of a type with __provide__; of a type that is bound; given a  *)
(* default; with an annotation that could be evaluated.                    *)
(***************************************************************************)
EXTENDS Integers, Sequences, FiniteSets

CONSTANTS
  Handlers,     \* endpoint functions
  Signatures,   \* the sets of parameters a handler may have
  Routers,      \* linked routers that may be included in the root router
  Names,        \* names of routes and of landing pages
  MaxRoutes     \* bound on the routes

VARIABLES
  signature,    \* per handler, its parameters
  rewritten,    \* handlers with the flag __gazebo_injection_applied__
  upgraded,
  routes,       \* as registered: [name, handler, landing, injects, wired]
  landing,      \* per linked router, [name, rel]
  specs,        \* the root router's link specs: the routers they are for
  phase         \* building, started or RuntimeError

vars == <<signature, rewritten, upgraded, routes, landing, specs, phase>>

-----------------------------------------------------------------------------
(* A candidate has no default yet; a type that could not be evaluated is   *)
(* neither marked nor bound, and only warned about.                        *)
Candidate(p) == ~p.default
Injectable(p) == p.resolved /\ p.marked
Bound(p) == p.resolved /\ p.bound

(* inject_signature: the parameters that get a Depends default; what       *)
(* FastAPI sees of a handler when a route is made of it.                   *)
Wires(h) == {p \in signature[h] : Candidate(p) /\ Injectable(p)}
Wired(h, flagged) == IF h \in flagged THEN Wires(h) ELSE {}

(* Rewriting is for good, and visible to every route made from then on.    *)
AddRoute(h, name, kind) ==
  LET rewrites == kind = "gazebo" \/ (kind = "app" /\ upgraded)
      flagged == IF rewrites THEN rewritten \cup {h} ELSE rewritten
  IN /\ phase = "building" /\ Len(routes) < MaxRoutes
     /\ rewritten' = flagged
     /\ routes' = Append(routes, [name |-> name, handler |-> h, landing |-> FALSE,
                                  injects |-> rewrites, wired |-> Wired(h, flagged)])
     /\ UNCHANGED <<signature, upgraded, landing, specs, phase>>

(* upgrade: once; it replaces add_api_route of the app.                    *)
Upgrade ==
  /\ phase = "building" /\ ~upgraded
  /\ upgraded' = TRUE
  /\ UNCHANGED <<signature, rewritten, routes, landing, specs, phase>>

(* LinkedRouter: its landing route comes into the app with include_router, *)
(* which adds a link to it when it has a rel.                              *)
Include(r) ==
  /\ phase = "building" /\ Len(routes) < MaxRoutes
  /\ \A i \in DOMAIN routes : routes[i].handler # r
  /\ routes' = Append(routes, [name |-> landing[r].name, handler |-> r, landing |-> TRUE,
                               injects |-> TRUE, wired |-> {}])
  /\ specs' = IF landing[r].rel THEN specs \cup {r} ELSE specs
  /\ UNCHANGED <<signature, rewritten, upgraded, landing, phase>>

(* Mutant: only marked parameters are looked at. *)
RoutesValidMarkedOnly ==
  \A i \in DOMAIN routes : ~routes[i].landing =>
    LET h == routes[i].handler IN
    \A p \in signature[h] \ Wired(h, rewritten) : ~(Candidate(p) /\ Injectable(p))

(* _validate_routes reads the signature of the handler as it is by now.    *)
RoutesValid ==
  \A i \in DOMAIN routes : ~routes[i].landing =>
    LET h == routes[i].handler IN
    \A p \in signature[h] \ Wired(h, rewritten) :
      ~(Candidate(p) /\ (Injectable(p) \/ Bound(p)))

UniqueRouteNames == \A i, j \in DOMAIN routes : routes[i].name = routes[j].name => i = j

(* The lifespan of an app that was not upgraded checks nothing.            *)
Startup ==
  /\ phase = "building" /\ upgraded
  /\ phase' = IF RoutesValid /\ UniqueRouteNames THEN "started" ELSE "RuntimeError"
  /\ UNCHANGED <<signature, rewritten, upgraded, routes, landing, specs>>

Init ==
  /\ signature \in [Handlers -> Signatures]
  /\ rewritten = {} /\ upgraded = FALSE /\ routes = << >>
  /\ landing \in [Routers -> [name : Names, rel : BOOLEAN]]
  /\ specs = {} /\ phase = "building"

Next ==
  \/ \E h \in Handlers, name \in Names, kind \in {"gazebo", "app", "plain"} : AddRoute(h, name, kind)
  \/ Upgrade
  \/ \E r \in Routers : Include(r)
  \/ Startup

Spec == Init /\ [][Next]_vars

-----------------------------------------------------------------------------
(* url_for: a name stands for the route that was registered first.         *)
RouteFor(name) ==
  CHOOSE i \in DOMAIN routes : routes[i].name = name /\ \A j \in 1 .. i - 1 : routes[j].name # name

(* What the container should give: a parameter without a default that is   *)
(* marked or bound.  FastAPI takes one that is not wired for a request     *)
(* body, say.                                                              *)
Unwired(i) == {p \in signature[routes[i].handler] :
                 p.resolved /\ ~p.default /\ (p.marked \/ p.bound)} \ routes[i].wired

(* docs/fastapi/routers.md:33-35: "at startup the app validates every      *)
(* route and fails loudly, naming the offending route, if an injectable    *)
(* parameter wasn't rewritten".                                            *)
NoUnwiredRouteStarts ==
  phase = "started" => \A i \in DOMAIN routes : routes[i].landing \/ Unwired(i) = {}

(* What holds of the code, however the application was put together: a     *)
(* started route leaves out a marked parameter only, and only when it was  *)
(* made of a handler before another registration rewrote that handler.     *)
MissedWereRewrittenLater ==
  phase = "started" =>
    \A i \in DOMAIN routes : ~routes[i].landing /\ Unwired(i) # {} =>
      /\ ~routes[i].injects /\ \A p \in Unwired(i) : p.marked
      /\ \E j \in i + 1 .. Len(routes) :
           routes[j].handler = routes[i].handler /\ routes[j].injects

(* Each link of a landing page leads to the landing page of its router.    *)
LinksLeadToTheirRouters ==
  phase = "started" =>
    \A r \in specs :
      \E i \in DOMAIN routes : routes[i].name = landing[r].name /\ routes[i].handler = r
                               /\ RouteFor(landing[r].name) = i
=============================================================================
