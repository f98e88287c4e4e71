--------------------------- MODULE RequestPipeline ---------------------------
(***************************************************************************)
(* A request on its way through the middleware that upgrade() installs     *)
(* (ext/fastapi/app.py, gazebo.asgi, gazebo.context, gazebo.requestid, the *)
(* problem handlers) and back.  Requests of several tasks interleave; a    *)
(* handler may call the application again in its own task, in-process, and *)
(* a task may make one call after another.  Starlette's own layers are     *)
(* external.  The dependency scope itself is in Scopes.                    *)
(***************************************************************************)
EXTENDS Integers, Sequences, FiniteSets, SequencesExt

CONSTANTS
  Requests, Tasks,
  Apps,        \* how an application may be configured
  Inputs,      \* requests as they come from the server
  Errors,      \* what an endpoint may raise
  None

VARIABLES
  app,         \* [cors, ids, recipe, trust]: the configuration
  open,        \* runtime.app_state is set
  stack,       \* per task, its requests under way, innermost last
  var,         \* per task, the context variables link_context and request_id
  req          \* per request, where it is and what it carries

vars == <<app, open, stack, var, req>>

-----------------------------------------------------------------------------
(* add_middleware puts each layer around those added before it.            *)
Added ==
  <<"proxy", "scope">> \o (IF app.cors THEN <<"cors">> ELSE << >>)
                       \o (IF app.ids THEN <<"request_id">> ELSE << >>)
Layers == <<"errors">> \o Reverse(Added) \o <<"exceptions", "endpoint">>

Runs(r) == \E t \in Tasks : stack[t] # << >> /\ Last(stack[t]) = r
At(r, phase, layer) == Runs(r) /\ req[r].phase = phase /\ Layers[req[r].pos] = layer

(* What a layer does to its request: hand it on, or turn back with a       *)
(* result; on the way back, a layer may replace the result.                *)
Down(r, change) == req' = [req EXCEPT ![r] = [change EXCEPT !.pos = @ + 1]]
Back(r, result) == req' = [req EXCEPT ![r].phase = "up", ![r].pos = @ - 1, ![r].result = result]
Raised(e) == [kind |-> "raised", error |-> e]
Response(status, link) ==
  [kind |-> "response", status |-> status, problem |-> FALSE, cites |-> {},
   cors |-> FALSE, link |-> link]

-----------------------------------------------------------------------------
(* Mutant: any credential will do, whatever the policy. *)
TrustsAnyPart(policy, in) == in.peer \/ in.secret

(* Trust policies.  peer: the immediate client is in the allowlist.        *)
Policies == {"trust_none", "trust_all", "TrustedClient", "SharedSecret", "all_of", "any_of"}
Trusts(policy, in) ==
  CASE policy = "trust_none" -> FALSE
    [] policy = "trust_all" -> TRUE
    [] policy = "TrustedClient" -> in.peer
    [] policy = "SharedSecret" -> in.secret
    [] policy = "all_of" -> in.peer /\ in.secret
    [] policy = "any_of" -> in.peer \/ in.secret

(* A forwarded header lists the hops, the client's side first.             *)
First(header, otherwise) == IF header = << >> THEN otherwise ELSE header[1]
WebsocketScheme(s) == IF s = "https" THEN "wss" ELSE IF s = "http" THEN "ws" ELSE s
Forwarded(in, origin) ==
  [scheme |-> IF in.proto # << >> /\ in.type = "websocket"
              THEN WebsocketScheme(in.proto[1]) ELSE First(in.proto, origin.scheme),
   host   |-> First(in.host, origin.host),
   prefix |-> First(in.prefix, origin.prefix)]

Direct(in) == [scheme |-> IF in.type = "websocket" THEN "ws" ELSE "http",
               host |-> "bind", prefix |-> ""]

Origins == {Direct(in) : in \in Inputs} \cup {Forwarded(in, Direct(in)) : in \in Inputs}
Contexts == [of : Requests, read : Origins \cup {None}]

ASSUME AppsAssumption == \A a \in Apps : a.trust \in Policies
ASSUME NoneAssumption == None \notin Requests \cup Origins \cup Contexts

(* A TypeError stands for every error that no handler is registered for; a *)
(* place starts with the part of the request that it is in.                *)
ASSUME ErrorsAssumption ==
  /\ None \notin Errors
  /\ \A e \in Errors :
       /\ e.class \in {"ProblemException", "ParamError", "RequestValidationError", "TypeError"}
       /\ e.class = "RequestValidationError" => \A p \in e.places :
            Len(p) \in Nat /\ p[1] \in {"query", "body", "path", "header", "cookie"}

(* The request context: the adapter reads the request when it is asked, a  *)
(* recipe of the application's own may have read it when it was built.     *)
ContextFor(r) ==
  [of |-> r, read |-> IF app.recipe = "eager" THEN req[r].origin ELSE None]
UrlOf(c) == IF c = None THEN None ELSE IF c.read = None THEN req[c.of].origin ELSE c.read

-----------------------------------------------------------------------------
(* Validation errors are places: <<"query">>, <<"query", field>>, ...      *)
ValidationProblem(errors) ==
  LET query == {e \in errors : e[1] = "query"}
  IN [status |-> IF query # {} THEN 400 ELSE 422,
      cites  |-> {e[2] : e \in {q \in query : Len(q) > 1}}]

ProblemOfLastPlace(e) ==    \* mutant: the last element of a place is its name
  LET query == {q \in e.places : q[1] = "query"}
  IN CASE e.class = "ProblemException" -> [status |-> 404, cites |-> {}]
       [] e.class = "ParamError" -> [status |-> 400, cites |-> {e.parameter}]
       [] OTHER -> [status |-> IF query # {} THEN 400 ELSE 422, cites |-> {Last(q) : q \in query}]
Problem(e) ==
  CASE e.class = "ProblemException" -> [status |-> 404, cites |-> {}]
    [] e.class = "ParamError" -> [status |-> 400, cites |-> {e.parameter}]
    [] e.class = "RequestValidationError" -> ValidationProblem(e.places)
HasHandler(e) == e.class \in {"ProblemException", "ParamError", "RequestValidationError"}

-----------------------------------------------------------------------------
(* The server starts the application and stops it, and waits for requests  *)
(* under way before it does; nothing else keeps requests from an           *)
(* application that is not started.                                        *)
Startup == ~open /\ open' = TRUE /\ UNCHANGED <<app, stack, var, req>>
Shutdown ==
  /\ open /\ \A t \in Tasks : stack[t] = << >>
  /\ open' = FALSE /\ UNCHANGED <<app, stack, var, req>>

Call(r, t) ==
  /\ req[r].phase = "idle"
  /\ stack[t] # << >> => LET top == Last(stack[t]) IN At(top, "down", "endpoint")
  /\ \E in \in Inputs :
       req' = [req EXCEPT ![r] = [@ EXCEPT !.phase = "down", !.task = t, !.in = in,
                                           !.origin = Direct(in)]]
  /\ stack' = [stack EXCEPT ![t] = Append(@, r)]
  /\ UNCHANGED <<app, open, var>>

PassOn(r) ==
  /\ \/ At(r, "down", "errors") \/ At(r, "down", "exceptions")
     \/ At(r, "down", "cors") /\ ~req[r].in.preflight
     \/ At(r, "down", "scope") /\ req[r].in.type # "http"
     \/ At(r, "down", "proxy") /\ ~Trusts(app.trust, req[r].in)
  /\ Down(r, req[r]) /\ UNCHANGED <<app, open, stack, var>>

EnterRequestId(r) ==
  /\ At(r, "down", "request_id")
  /\ IF req[r].in.type = "http"
     THEN /\ Down(r, [req[r] EXCEPT !.savedId = var[req[r].task].id])
          /\ var' = [var EXCEPT ![req[r].task].id = r]
     ELSE Down(r, req[r]) /\ UNCHANGED var
  /\ UNCHANGED <<app, open, stack>>

Preflight(r) ==
  /\ At(r, "down", "cors") /\ req[r].in.preflight
  /\ Back(r, [Response(200, None) EXCEPT !.cors = TRUE])
  /\ UNCHANGED <<app, open, stack, var>>

(* The scope is not open, or the recipe of the context raises.             *)
EnterScopeRaises(r) ==
  /\ At(r, "down", "scope") /\ req[r].in.type = "http"
  /\ \/ ~open /\ Back(r, Raised([class |-> "RuntimeError"]))
     \/ open /\ app.recipe = "raising" /\ Back(r, Raised([class |-> "ProblemException"]))
  /\ UNCHANGED <<app, open, stack, var>>

EnterScope(r) ==
  /\ At(r, "down", "scope") /\ req[r].in.type = "http"
  /\ open /\ app.recipe # "raising"
  /\ Down(r, [req[r] EXCEPT !.savedLink = var[req[r].task].link])
  /\ var' = [var EXCEPT ![req[r].task].link = ContextFor(r)]
  /\ UNCHANGED <<app, open, stack>>

EnterProxy(r) ==
  /\ At(r, "down", "proxy") /\ Trusts(app.trust, req[r].in)
  /\ Down(r, [req[r] EXCEPT !.origin = Forwarded(req[r].in, @)])
  /\ UNCHANGED <<app, open, stack, var>>

(* The endpoint answers with links, which its own context resolves.        *)
Answer(r) ==
  /\ At(r, "down", "endpoint")
  /\ Back(r, Response(200, UrlOf(var[req[r].task].link)))
  /\ UNCHANGED <<app, open, stack, var>>

Fail(r) ==
  /\ At(r, "down", "endpoint") /\ req[r].in.type = "http"
  /\ \E e \in Errors :
       req' = [req EXCEPT ![r].phase = "up", ![r].pos = @ - 1, ![r].failed = e,
                          ![r].result = Raised(e)]
  /\ UNCHANGED <<app, open, stack, var>>

LeaveExceptions(r) ==
  /\ At(r, "up", "exceptions")
  /\ LET was == req[r].result
     IN Back(r, IF was.kind = "raised" /\ HasHandler(was.error)
                THEN [Response(Problem(was.error).status, None) EXCEPT
                        !.problem = TRUE, !.cites = Problem(was.error).cites]
                ELSE was)
  /\ UNCHANGED <<app, open, stack, var>>

LeaveProxy(r) == At(r, "up", "proxy") /\ Back(r, req[r].result) /\ UNCHANGED <<app, open, stack, var>>

LeaveScopeClearing(r) ==   \* mutant: the variable is cleared, not restored
  /\ At(r, "up", "scope")
  /\ Back(r, req[r].result)
  /\ var' = IF req[r].in.type = "http" THEN [var EXCEPT ![req[r].task].link = None] ELSE var
  /\ UNCHANGED <<app, open, stack>>
LeaveScope(r) ==
  /\ At(r, "up", "scope")
  /\ Back(r, req[r].result)
  /\ var' = IF req[r].in.type = "http"
            THEN [var EXCEPT ![req[r].task].link = req[r].savedLink] ELSE var
  /\ UNCHANGED <<app, open, stack>>

(* CORS headers are added to the response that this layer sees.            *)
LeaveCors(r) ==
  /\ At(r, "up", "cors")
  /\ Back(r, IF req[r].result.kind = "response"
             THEN [req[r].result EXCEPT !.cors = req[r].in.origin] ELSE req[r].result)
  /\ UNCHANGED <<app, open, stack, var>>

LeaveRequestId(r) ==
  /\ At(r, "up", "request_id")
  /\ Back(r, req[r].result)
  /\ var' = IF req[r].in.type = "http"
            THEN [var EXCEPT ![req[r].task].id = req[r].savedId] ELSE var
  /\ UNCHANGED <<app, open, stack>>

(* An error that reaches the outermost layer becomes a bare 500.           *)
Respond(r) ==
  /\ At(r, "up", "errors")
  /\ req' = [req EXCEPT ![r].phase = "done",
               ![r].result = IF @.kind = "raised" THEN Response(500, None) ELSE @]
  /\ stack' = [stack EXCEPT ![req[r].task] = Front(@)]
  /\ UNCHANGED <<app, open, var>>

Init ==
  /\ app \in Apps
  /\ open = FALSE
  /\ stack = [t \in Tasks |-> << >>]
  /\ var = [t \in Tasks |-> [link |-> None, id |-> None]]
  /\ req = [r \in Requests |->
              [phase |-> "idle", pos |-> 1, task |-> None, in |-> None, origin |-> None,
               savedLink |-> None, savedId |-> None, failed |-> None, result |-> None]]

Enter(r) == PassOn(r) \/ EnterRequestId(r) \/ Preflight(r) \/ EnterScopeRaises(r)
            \/ EnterScope(r) \/ EnterProxy(r) \/ Answer(r) \/ Fail(r)
LeaveLayer(r) == LeaveExceptions(r) \/ LeaveProxy(r) \/ LeaveScope(r) \/ LeaveCors(r)
                 \/ LeaveRequestId(r) \/ Respond(r)

Next ==
  \/ Startup \/ Shutdown
  \/ \E r \in Requests, t \in Tasks : Call(r, t)
  \/ \E r \in Requests : Enter(r) \/ LeaveLayer(r)

Spec == Init /\ [][Next]_vars

-----------------------------------------------------------------------------
(* A request is inside a layer between its way in and its way out of it.   *)
LayerIndex(layer) == CHOOSE i \in DOMAIN Layers : Layers[i] = layer
Inside(r, layer) ==
  /\ layer \in ToSet(Layers) /\ req[r].in.type = "http"
  /\ \/ req[r].phase = "down" /\ req[r].pos > LayerIndex(layer)
     \/ req[r].phase = "up" /\ req[r].pos >= LayerIndex(layer)
InnermostInside(t, layer) ==
  LET inside == {i \in DOMAIN stack[t] : Inside(stack[t][i], layer)}
  IN IF inside = {} THEN None ELSE stack[t][CHOOSE i \in inside : \A j \in inside : j <= i]

(* gazebo.context: in every task the active context and the request id are *)
(* those of the innermost request that the task serves, whatever the other *)
(* tasks do, and none when it serves none: also after a call made within a *)
(* handler, an error on any layer, a request that found no open scope.     *)
ContextIsTheInnermost ==
  \A t \in Tasks :
    /\ LET r == InnermostInside(t, "scope") IN
         IF r = None THEN var[t].link = None
         ELSE var[t].link # None /\ var[t].link.of = r
    /\ var[t].id = InnermostInside(t, "request_id")

(* Links name the origin that the client used.  What a proxy forwarded is  *)
(* used, header by header, when the trust policy lets it, and never else,  *)
(* although the context is made before the headers are applied; a context  *)
(* of the application's own that reads its url at once is not covered.     *)
LinksNameTheClientsOrigin ==
  \A r \in Requests :
    LET in == req[r].in  answer == req[r].result IN
    (/\ req[r].phase \in {"up", "done"} /\ in.type = "http" /\ app.recipe = "default"
     /\ answer.kind = "response" /\ answer.status = 200 /\ ~in.preflight) =>
      /\ answer.link # None
      /\ \A part \in DOMAIN answer.link :
           answer.link[part] =
             IF in[IF part = "scheme" THEN "proto" ELSE part] # << >>
                /\ (app.trust \in {"TrustedClient", "all_of"} => in.peer)
                /\ (app.trust \in {"SharedSecret", "all_of"} => in.secret)
                /\ (app.trust = "any_of" => in.peer \/ in.secret)
                /\ app.trust # "trust_none"
             THEN in[IF part = "scheme" THEN "proto" ELSE part][1]
             ELSE Direct(in)[part]

(* gazebo.problems: what an endpoint raises as a client's mistake is       *)
(* answered with a problem: 400 citing every malformed query parameter by  *)
(* its name, 422 when only other parts of the request are wrong.           *)
MistakesBecomeProblems ==
  \A r \in Requests :
    LET e == req[r].failed  answer == req[r].result IN
    req[r].phase = "done" /\ e # None /\ e.class # "TypeError" =>
      /\ answer.kind = "response" /\ answer.problem
      /\ e.class = "RequestValidationError" =>
           /\ (answer.status = 422) <=> (\A p \in e.places : p[1] \in {"body", "path", "header", "cookie"})
           /\ \A p \in e.places :
                p[1] = "query" /\ Len(p) > 1 => answer.status = 400 /\ p[2] \in answer.cites
           /\ \A c \in answer.cites : \E p \in e.places : Len(p) > 1 /\ p[1] = "query" /\ p[2] = c
      /\ e.class = "ParamError" => answer.status = 400 /\ answer.cites = {e.parameter}

(* app.py: "attaches headers to every response, including problem          *)
(* responses": here, whatever an endpoint of a started application raises. *)
CorsOnEveryResponse ==
  \A r \in Requests :
    req[r].phase = "done" /\ app.cors /\ req[r].in.origin /\ req[r].failed # None
      => req[r].result.cors
=============================================================================
