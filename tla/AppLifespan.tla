----------------------------- MODULE AppLifespan -----------------------------
(***************************************************************************)
(* The FastAPI glue (src/src/gazebo/ext/fastapi/app.py): the lifespans of  *)
(* upgraded apps, run one inside the other by forward_lifespans, against   *)
(* the requests that _RequestScopeMiddleware admits to them and the health *)
(* endpoint.  The ASGI server is external; what a scope holds is Scopes.   *)
(***************************************************************************)
EXTENDS Integers, Sequences, FiniteSets

CONSTANTS
  Apps,        \* number of sub-apps given to forward_lifespans
  Requests,    \* requests (tasks) that reach one of them
  Probes,      \* resolved app-scoped values that have a __health__
  MaxStarts    \* bound on how often the root lifespan is run

ASSUME SizesAssumption == Apps \in Nat \ {0} /\ MaxStarts \in Nat \ {0}

App == 1..Apps

VARIABLES
  polite,      \* does the server keep requests out of startup and shutdown,
               \* and shut down only when every request has ended?
  server,      \* root lifespan: "down", "starting", "serving", "stopping"
  starts,      \* times it was started
  phase,       \* where each app's lifespan is
  scopes,      \* every app ScopeState opened so far: [app, life]
  runtime,     \* _Runtime.app_state of each app: an index of scopes, or 0
  step,        \* where each request is
  target,      \* the app it was sent to
  parent,      \* the app ScopeState its request scope was opened on, or 0
  probed,      \* history: the probe results its health check collected
  answer       \* what its health check said

lifespanVars == <<polite, server, starts, phase, scopes, runtime>>
requestVars == <<step, target, parent, probed, answer>>
vars == <<lifespanVars, requestVars>>

InFlight(r) == step[r] \notin {"new", "refused", "done"}

-----------------------------------------------------------------------------
(* The server runs, and later leaves, the root lifespan. *)
Start ==
  /\ server = "down" /\ starts < MaxStarts
  /\ server' = "starting" /\ starts' = starts + 1
  /\ UNCHANGED <<phase, scopes, runtime, requestVars, polite>>

Serve ==
  /\ server = "starting" /\ \A i \in App : phase[i] = "up"
  /\ server' = "serving"
  /\ UNCHANGED <<starts, phase, scopes, runtime, requestVars, polite>>

Shutdown ==
  /\ server = "serving"
  /\ polite => \A r \in Requests : ~InFlight(r)
  /\ server' = "stopping"
  /\ UNCHANGED <<starts, phase, scopes, runtime, requestVars, polite>>

Stopped ==
  /\ server = "stopping" /\ \A i \in App : phase[i] = "down"
  /\ server' = "down"
  /\ UNCHANGED <<starts, phase, scopes, runtime, requestVars, polite>>

-----------------------------------------------------------------------------
(* forward_lifespans enters the next sub-app's lifespan. *)
Turn(i) ==
  /\ server = "starting" /\ phase[i] = "down"
  /\ \A j \in 1..(i - 1) : phase[j] = "up"

(* An exception on the way up unwinds what was entered. *)
RoutesInvalid(i) ==
  /\ Turn(i)
  /\ server' = "stopping"
  /\ UNCHANGED <<starts, phase, scopes, runtime, requestVars, polite>>

OpenScope(i) ==
  /\ Turn(i)
  /\ phase' = [phase EXCEPT ![i] = "opening"]
  /\ scopes' = Append(scopes, [app |-> i, life |-> "opening"])
  /\ UNCHANGED <<server, starts, runtime, requestVars, polite>>

ScopeOf(i) == CHOOSE n \in DOMAIN scopes :
  scopes[n].app = i /\ scopes[n].life # "closed"

(* Every app-scoped provider was built: the scope is published at once. *)
ScopeOpens(i) ==
  /\ phase[i] = "opening"
  /\ phase' = [phase EXCEPT ![i] = "entering"]
  /\ scopes' = [scopes EXCEPT ![ScopeOf(i)].life = "open"]
  /\ runtime' = [runtime EXCEPT ![i] = ScopeOf(i)]
  /\ UNCHANGED <<server, starts, requestVars, polite>>

StartClosing(i) ==
  /\ phase' = [phase EXCEPT ![i] = "closing"]
  /\ scopes' = [scopes EXCEPT ![ScopeOf(i)].life = "closing"]

(* Mutant: a failed startup leaves its scope as it is. *)
EagerBuildLeaks(i) ==
  /\ phase[i] = "opening"
  /\ phase' = [phase EXCEPT ![i] = "down"]
  /\ server' = "stopping"
  /\ UNCHANGED <<starts, scopes, runtime, requestVars, polite>>

EagerBuildRaises(i) ==
  /\ phase[i] = "opening"
  /\ StartClosing(i)
  /\ server' = "stopping"
  /\ UNCHANGED <<starts, runtime, requestVars, polite>>

(* previous_lifespan: the app's own lifespan runs inside the open scope. *)
InnerStarts(i) ==
  /\ phase[i] = "entering"
  /\ phase' = [phase EXCEPT ![i] = "up"]
  /\ UNCHANGED <<server, starts, scopes, runtime, requestVars, polite>>

(* Mutant: app_state is not cleared when the app's own lifespan fails. *)
InnerRaisesUncleared(i) ==
  /\ phase[i] = "entering"
  /\ StartClosing(i)
  /\ server' = "stopping"
  /\ UNCHANGED <<starts, runtime, requestVars, polite>>

InnerRaises(i) ==
  /\ phase[i] = "entering"
  /\ runtime' = [runtime EXCEPT ![i] = 0]
  /\ StartClosing(i)
  /\ server' = "stopping"
  /\ UNCHANGED <<starts, requestVars, polite>>

(* Mutant: the sub-apps are left in the order they were entered. *)
LeaveInnerInOrder(i) ==
  /\ server = "stopping" /\ phase[i] = "up"
  /\ \A j \in 1..(i - 1) : phase[j] = "down"
  /\ phase' = [phase EXCEPT ![i] = "leaving"]
  /\ UNCHANGED <<server, starts, scopes, runtime, requestVars, polite>>

(* The exit stack of forward_lifespans leaves the last one entered first. *)
LeaveInner(i) ==
  /\ server = "stopping" /\ phase[i] = "up"
  /\ \A j \in (i + 1)..Apps : phase[j] = "down"
  /\ phase' = [phase EXCEPT ![i] = "leaving"]
  /\ UNCHANGED <<server, starts, scopes, runtime, requestVars, polite>>

(* Mutant: app_state is not cleared. *)
InnerLeftUncleared(i) ==
  /\ phase[i] = "leaving"
  /\ StartClosing(i)
  /\ UNCHANGED <<server, starts, runtime, requestVars, polite>>

(* It ended or raised: finally, app_state is cleared, then the scope closes. *)
InnerLeft(i) ==
  /\ phase[i] = "leaving"
  /\ runtime' = [runtime EXCEPT ![i] = 0]
  /\ StartClosing(i)
  /\ UNCHANGED <<server, starts, requestVars, polite>>

ScopeCloses(i) ==
  /\ phase[i] = "closing"
  /\ phase' = [phase EXCEPT ![i] = "down"]
  /\ scopes' = [scopes EXCEPT ![ScopeOf(i)].life = "closed"]
  /\ UNCHANGED <<server, starts, runtime, requestVars, polite>>

LifespanStep(i) ==
  \/ RoutesInvalid(i) \/ OpenScope(i) \/ ScopeOpens(i) \/ EagerBuildRaises(i)
  \/ InnerStarts(i) \/ InnerRaises(i) \/ LeaveInner(i) \/ InnerLeft(i)
  \/ ScopeCloses(i)

-----------------------------------------------------------------------------
(* An app may be called with no lifespan run at all. *)
Delivers == polite => server \in {"down", "serving"}

(* __call__: app_state is None, RuntimeError. *)
Refuse(r, i) ==
  /\ step[r] = "new" /\ Delivers /\ runtime[i] = 0
  /\ step' = [step EXCEPT ![r] = "refused"]
  /\ target' = [target EXCEPT ![r] = i]
  /\ UNCHANGED <<lifespanVars, parent, probed, answer>>

(* __call__: the request scope is opened on the state just tested. *)
Admit(r, i) ==
  /\ step[r] = "new" /\ Delivers /\ runtime[i] # 0
  /\ step' = [step EXCEPT ![r] = "resolving"]
  /\ target' = [target EXCEPT ![r] = i]
  /\ parent' = [parent EXCEPT ![r] = runtime[i]]
  /\ UNCHANGED <<lifespanVars, probed, answer>>

Goes(r, from, to) ==
  /\ step[r] = from
  /\ step' = [step EXCEPT ![r] = to]

(* await state.get(RequestContext) returned, or raised. *)
ContextReady(r) ==
  /\ Goes(r, "resolving", "handling")
  /\ UNCHANGED <<lifespanVars, target, parent, probed, answer>>
ContextRaises(r) ==
  /\ Goes(r, "resolving", "closing")
  /\ UNCHANGED <<lifespanVars, target, parent, probed, answer>>

(* The endpoint returned or raised; the request scope is closed. *)
Handled(r) ==
  /\ Goes(r, "handling", "closing")
  /\ UNCHANGED <<lifespanVars, target, parent, probed, answer>>
RequestEnds(r) ==
  /\ Goes(r, "closing", "done")
  /\ UNCHANGED <<lifespanVars, target, parent, probed, answer>>

(* health: app_state is read again, by the endpoint. *)
HealthWithoutScope(r) ==
  /\ Goes(r, "handling", "closing") /\ runtime[target[r]] = 0
  /\ answer' = [answer EXCEPT ![r] = "healthy"]
  /\ UNCHANGED <<lifespanVars, target, parent, probed>>

HealthBegins(r) ==
  /\ Goes(r, "handling", "probing") /\ runtime[target[r]] # 0
  /\ UNCHANGED <<lifespanVars, target, parent, probed, answer>>

(* One probe of the snapshot: truthy, falsy, or it raised. *)
Probe(r, p) ==
  /\ step[r] = "probing" /\ p \notin DOMAIN probed[r]
  /\ \E result \in {"ok", "fail", "error"} :
       probed' = [probed EXCEPT ![r] =
         [q \in DOMAIN @ \cup {p} |-> IF q = p THEN result ELSE @[q]]]
  /\ UNCHANGED <<lifespanVars, step, target, parent, answer>>

(* Mutant: one good probe is enough. *)
HealthAnswersAny(r) ==
  /\ DOMAIN probed[r] = Probes
  /\ Goes(r, "probing", "closing")
  /\ answer' = [answer EXCEPT ![r] =
       IF \E p \in Probes : probed[r][p] = "ok" THEN "healthy" ELSE "unhealthy"]
  /\ UNCHANGED <<lifespanVars, target, parent, probed>>

HealthAnswers(r) ==
  /\ DOMAIN probed[r] = Probes
  /\ Goes(r, "probing", "closing")
  /\ answer' = [answer EXCEPT ![r] =
       IF \A p \in Probes : probed[r][p] = "ok" THEN "healthy" ELSE "unhealthy"]
  /\ UNCHANGED <<lifespanVars, target, parent, probed>>

RequestStep(r) ==
  \/ ContextReady(r) \/ ContextRaises(r) \/ Handled(r) \/ RequestEnds(r)
  \/ HealthWithoutScope(r) \/ HealthBegins(r) \/ HealthAnswers(r)
  \/ \E p \in Probes : Probe(r, p)

-----------------------------------------------------------------------------
(* uvicorn is polite until its graceful shutdown times out; a mounted app *)
(* may have any server, and any lifespan around its own.                  *)
Init ==
  /\ polite \in BOOLEAN
  /\ server = "down" /\ starts = 0
  /\ phase = [i \in App |-> "down"]
  /\ scopes = <<>>
  /\ runtime = [i \in App |-> 0]
  /\ step = [r \in Requests |-> "new"]
  /\ target = [r \in Requests |-> 1]
  /\ parent = [r \in Requests |-> 0]
  /\ probed = [r \in Requests |-> <<>>]
  /\ answer = [r \in Requests |-> "none"]

(* The process has ended: no lifespan will be run and no request is left. *)
AllOver ==
  /\ server = "down" /\ starts = MaxStarts
  /\ \A r \in Requests : ~InFlight(r)
  /\ UNCHANGED vars

Next ==
  \/ Start \/ Serve \/ Shutdown \/ Stopped
  \/ \E i \in App : LifespanStep(i)
  \/ \E r \in Requests, i \in App : Refuse(r, i) \/ Admit(r, i)
  \/ \E r \in Requests : RequestStep(r)
  \/ AllOver

(* Lifespans, recipes and endpoints end; the server is stopped some day. *)
Fairness ==
  /\ WF_vars(Serve) /\ WF_vars(Shutdown) /\ WF_vars(Stopped)
  /\ \A i \in App : WF_vars(LifespanStep(i))
  /\ \A r \in Requests : WF_vars(RequestStep(r))

Spec == Init /\ [][Next]_vars /\ Fairness

-----------------------------------------------------------------------------
Phases == {"down", "opening", "entering", "up", "leaving", "closing"}
Steps == {"new", "refused", "resolving", "handling", "probing", "closing", "done"}

(* Every variable keeps its type. *)
TypeOK ==
  /\ polite \in BOOLEAN
  /\ server \in {"down", "starting", "serving", "stopping"}
  /\ starts \in 0..MaxStarts
  /\ phase \in [App -> Phases]
  /\ scopes \in Seq([app : App, life : {"opening", "open", "closing", "closed"}])
  /\ runtime \in [App -> 0..Len(scopes)]
  /\ step \in [Requests -> Steps]
  /\ target \in [Requests -> App]
  /\ parent \in [Requests -> 0..Len(scopes)]
  /\ DOMAIN probed = Requests /\ \A r \in Requests : DOMAIN probed[r] \subseteq Probes
  /\ answer \in [Requests -> {"none", "healthy", "unhealthy"}]

(* app_state is only ever an app scope whose providers are all built and  *)
(* whose teardown has not begun, and never the scope of an earlier run:   *)
(* set after the eager builds, cleared before aclose, on every path.      *)
RuntimeNamesOpenScope ==
  \A i \in App : runtime[i] # 0 =>
    /\ scopes[runtime[i]] = [app |-> i, life |-> "open"]
    /\ \A n \in (runtime[i] + 1)..Len(scopes) : scopes[n].app # i

(* Under a polite server the app scope stays open for as long as a request *)
(* uses it, its teardown included.                                         *)
ParentStaysOpen ==
  polite => \A r \in Requests : InFlight(r) =>
    scopes[parent[r]] = [app |-> target[r], life |-> "open"]

(* forward_lifespans: the server serves all sub-apps or none of them, and  *)
(* after a failed start, or a stop, no scope of any of them is left.       *)
AllOrNothing ==
  /\ server = "serving" => \A i \in App : runtime[i] # 0
  /\ server = "down" =>
       /\ \A i \in App : runtime[i] = 0
       /\ \A n \in DOMAIN scopes : scopes[n].life = "closed"

(* Sub-apps are nested: one that was entered later never outlives one      *)
(* entered earlier, also when entering it failed half way.                 *)
LaterAppsLeaveFirst ==
  \A i, j \in App : i < j /\ phase[j] # "down" => phase[i] = "up"

(* docs/fastapi/proxy.md, Health: under a polite server "healthy" is said  *)
(* only when every probe was asked and answered ok.                        *)
HealthyMeansProbed ==
  polite => \A r \in Requests : answer[r] = "healthy" =>
    DOMAIN probed[r] = Probes /\ \A p \in Probes : probed[r][p] = "ok"

(* An app scope that was opened is closed in the end, however its app      *)
(* failed to start or was stopped.                                         *)
ScopesEndClosed ==
  \A n \in 1 .. Apps * MaxStarts :
    n \in DOMAIN scopes ~> (n \in DOMAIN scopes /\ scopes[n].life = "closed")
=============================================================================
