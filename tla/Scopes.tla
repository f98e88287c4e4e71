-------------------------------- MODULE Scopes --------------------------------
(***************************************************************************)
(* gazebo's resolution engine (src/src/gazebo/di/container.py): entered    *)
(* scopes, each with a cache and an AsyncExitStack, and the asyncio tasks  *)
(* that call ScopeState.get on them.                                       *)
(*                                                                         *)
(* Tasks share one event loop: a task keeps it (running) until it really   *)
(* suspends, which get and _build do only where a recipe awaits.           *)
(* An instance is named by its place in made, the order of completion.     *)
(***************************************************************************)
EXTENDS Integers, Sequences, FiniteSets

CONSTANTS
  Keys,        \* the bound keys
  AppKeys,     \* those bound in the app scope; the others are request-scoped
  Deps,        \* the bound keys each recipe takes as parameters, in order
  Managed,     \* keys whose recipe yields a context manager
  Async,       \* keys whose recipe, or whose exit, may suspend
  Fallible,    \* keys whose recipe may raise, or be cancelled while suspended
  App,         \* the app ScopeState
  Requests,    \* the request ScopeStates
  Callers,     \* the tasks that call get
  Home,        \* the ScopeState each caller calls get on
  Goals,       \* the keys each caller asks for (for App: the eager targets)
  Detached,    \* callers and requests that nobody waits for before closing
  None

States == {App} \cup Requests

ASSUME NamesAssumption ==
  /\ App \notin Requests /\ None \notin States \cup Callers
  /\ States \cap Callers = {}
ASSUME KeysAssumption ==
  /\ AppKeys \subseteq Keys /\ Managed \subseteq Keys
  /\ Async \subseteq Keys /\ Fallible \subseteq Keys
  /\ Deps \in [Keys -> Seq(Keys)]
(* Container.check has refused every graph that violates this one. *)
ASSUME ScopeMatchAssumption ==
  \A k \in AppKeys : \A i \in DOMAIN Deps[k] : Deps[k][i] \in AppKeys
ASSUME CallersAssumption ==
  /\ Home \in [Callers -> States] /\ Goals \in [Callers -> SUBSET Keys]
  /\ \A c \in Callers : Home[c] = App => Goals[c] \subseteq AppKeys

VARIABLES
  running,     \* the task or closing scope that holds the event loop, or None
  todo,        \* keys each caller has still to get
  frames,      \* each caller's nested _build calls: key, next parameter, uses
  suspended,   \* callers awaiting a recipe
  failed,      \* callers that got an exception
  status,      \* life of each ScopeState
  cache,       \* ScopeState.cache: an instance, or 0 when missing
  stack,       \* ScopeState.stack: exit callbacks, oldest first
  exiting,     \* instance whose exit a closing scope awaits, or 0
  made         \* history: [key, owner, uses] of every instance built

vars == <<running, todo, frames, suspended, failed,
          status, cache, stack, exiting, made>>
taskVars == <<todo, frames, suspended, failed>>
scopeVars == <<status, cache, stack, exiting>>

-----------------------------------------------------------------------------
(* ScopeState._scope_named: the nearest scope of the caller's lineage. *)
Owner(c, k) == IF k \in AppKeys THEN App ELSE Home[c]

NewFrame(k) == [key |-> k, next |-> 1, uses |-> {}]
Top(c) == frames[c][Len(frames[c])]
AllResolved(c) == Top(c).next > Len(Deps[Top(c).key])
WithTop(c, f) == [frames[c] EXCEPT ![Len(frames[c])] = f]

(* An argument, with all it was itself built from. *)
Reach(n) == {n} \cup made[n].uses
Took(f, reach) ==
  [key |-> f.key, next |-> f.next + 1, uses |-> f.uses \cup reach]

(* The last build has returned to the one that asked for it. *)
PassedUp(fs, reach) ==
  LET up == Len(fs) - 1
      below == SubSeq(fs, 1, up) IN
  [below EXCEPT ![up] = Took(below[up], reach)]

Done(c) == todo[c] = {} /\ frames[c] = <<>>

(* A straggler may call get on a scope that is closing or closed. *)
MayCall(c) ==
  \/ status[Home[c]] \in {"opening", "open"}
  \/ c \in Detached /\ status[Home[c]] \in {"closing", "closed"}

Entered(s) == {stack[s][i] : i \in DOMAIN stack[s]} \cup ({exiting[s]} \ {0})
Live == UNION {Entered(s) : s \in States}

-----------------------------------------------------------------------------
(* get: the cache answers at once. *)
GetCached(c, k) ==
  /\ running = None /\ MayCall(c) /\ frames[c] = <<>> /\ k \in todo[c]
  /\ cache[Owner(c, k)][k] # 0
  /\ todo' = [todo EXCEPT ![c] = @ \ {k}]
  /\ UNCHANGED <<running, frames, suspended, failed, scopeVars, made>>

(* get: a miss goes on to _build without giving up the event loop. *)
GetMissing(c, k) ==
  /\ running = None /\ MayCall(c) /\ frames[c] = <<>> /\ k \in todo[c]
  /\ cache[Owner(c, k)][k] = 0
  /\ frames' = [frames EXCEPT ![c] = <<NewFrame(k)>>]
  /\ running' = c
  /\ UNCHANGED <<todo, suspended, failed, scopeVars, made>>

(* _build: resolve the next parameter, by the same get on the same self. *)
ResolveDep(c) ==
  /\ running = c /\ ~AllResolved(c)
  /\ LET f == Top(c)
         d == Deps[f.key][f.next]
         n == cache[Owner(c, d)][d] IN
     frames' = [frames EXCEPT ![c] =
                  IF n # 0 THEN WithTop(c, Took(f, Reach(n)))
                           ELSE Append(@, NewFrame(d))]
  /\ UNCHANGED <<running, todo, suspended, failed, scopeVars, made>>

(***************************************************************************)
(* The recipe's result is entered on the owner's stack and cached, then    *)
(* returned to the enclosing _build, or to the caller: no await between.   *)
(***************************************************************************)
Complete(c) ==
  LET f == Top(c)
      s == Owner(c, f.key)
      n == Len(made) + 1
      depth == Len(frames[c]) IN
  /\ made' = Append(made, [key |-> f.key, owner |-> s, uses |-> f.uses])
  /\ stack' = IF f.key \in Managed THEN [stack EXCEPT ![s] = Append(@, n)] ELSE stack
  /\ cache' = [cache EXCEPT ![s][f.key] = n]
  /\ frames' = [frames EXCEPT ![c] =
                  IF depth = 1 THEN <<>> ELSE PassedUp(@, {n} \cup f.uses)]
  /\ todo' = IF depth = 1 THEN [todo EXCEPT ![c] = @ \ {f.key}] ELSE todo
  /\ running' = IF depth = 1 THEN None ELSE c
  /\ UNCHANGED <<failed, status, exiting>>

(* The exception leaves every enclosing _build and ends the caller's body. *)
Raise(c) ==
  /\ frames' = [frames EXCEPT ![c] = <<>>]
  /\ todo' = [todo EXCEPT ![c] = {}]
  /\ failed' = failed \cup {c}
  /\ running' = None
  /\ UNCHANGED <<scopeVars, made>>

RecipeReturns(c) ==
  /\ running = c /\ AllResolved(c)
  /\ Complete(c) /\ UNCHANGED suspended

RecipeSuspends(c) ==
  /\ running = c /\ AllResolved(c) /\ Top(c).key \in Async
  /\ suspended' = suspended \cup {c}
  /\ running' = None
  /\ UNCHANGED <<todo, frames, failed, scopeVars, made>>

RecipeRaises(c) ==
  /\ running = c /\ AllResolved(c) /\ Top(c).key \in Fallible
  /\ Raise(c) /\ UNCHANGED suspended

ResumeReturns(c) ==
  /\ running = None /\ c \in suspended
  /\ suspended' = suspended \ {c}
  /\ Complete(c)

ResumeRaises(c) ==
  /\ running = None /\ c \in suspended /\ Top(c).key \in Fallible
  /\ suspended' = suspended \ {c}
  /\ Raise(c)

CallerStep(c) ==
  \/ \E k \in Keys : GetCached(c, k)
  \/ \E k \in Keys : GetMissing(c, k)
  \/ ResolveDep(c)
  \/ RecipeReturns(c)
  \/ RecipeSuspends(c)
  \/ RecipeRaises(c)
  \/ ResumeReturns(c)
  \/ ResumeRaises(c)

-----------------------------------------------------------------------------
SetStatus(s, from, to) ==
  /\ running = None /\ status[s] = from
  /\ status' = [status EXCEPT ![s] = to]
  /\ UNCHANGED <<running, taskVars, cache, stack, exiting, made>>

(* open_app_scope, up to its loop over the eager targets. *)
OpenApp == SetStatus(App, "new", "opening")

(* Mutant: a scope is closed while its tasks are still building. *)
NobodyIsAwaited(s) == TRUE

AwaitedCallersDone(s) ==
  \A c \in Callers \ Detached : Home[c] = s => Done(c)
Broken(s) == \E c \in failed : Home[c] = s

(* open_app_scope yields only when every eager target was built. *)
AppReady ==
  /\ AwaitedCallersDone(App) /\ ~Broken(App)
  /\ SetStatus(App, "opening", "open")

OpenRequest(r) ==
  /\ status[App] = "open"
  /\ SetStatus(r, "new", "open")

(* Mutant: the app scope is closed before its request scopes. *)
BodyOverEarly(s) ==
  /\ AwaitedCallersDone(s)
  /\ status[s] = "open" \/ (status[s] = "opening" /\ Broken(s))

(* The body of the async with is over: the finally clause calls aclose. *)
BodyOver(s) ==
  /\ AwaitedCallersDone(s)
  /\ status[s] = "open" \/ (status[s] = "opening" /\ Broken(s))
  /\ s = App => \A r \in Requests \ Detached : status[r] \in {"new", "closed"}

BeginClose(s) ==
  /\ running = None /\ BodyOver(s)
  /\ status' = [status EXCEPT ![s] = "closing"]
  /\ running' = s
  /\ UNCHANGED <<taskVars, cache, stack, exiting, made>>

LastPushed(s) == stack[s][Len(stack[s])]
(* Mutant: the callback that leaves is the oldest. *)
OldestPopped(s) == Tail(stack[s])

Popped(s) == SubSeq(stack[s], 1, Len(stack[s]) - 1)

(* aclose pops a callback and runs it; an exception in it stops nothing. *)
ExitReturns(s) ==
  /\ running = s /\ stack[s] # <<>>
  /\ stack' = [stack EXCEPT ![s] = Popped(s)]
  /\ UNCHANGED <<running, taskVars, status, cache, exiting, made>>

ExitSuspends(s) ==
  /\ running = s /\ stack[s] # <<>> /\ made[LastPushed(s)].key \in Async
  /\ exiting' = [exiting EXCEPT ![s] = LastPushed(s)]
  /\ stack' = [stack EXCEPT ![s] = Popped(s)]
  /\ running' = None
  /\ UNCHANGED <<taskVars, status, cache, made>>

ExitResumes(s) ==
  /\ running = None /\ exiting[s] # 0
  /\ exiting' = [exiting EXCEPT ![s] = 0]
  /\ running' = s
  /\ UNCHANGED <<taskVars, status, cache, stack, made>>

(* Mutant: aclose returns with callbacks left on the stack. *)
EndCloseEarly(s) ==
  /\ running = s
  /\ status' = [status EXCEPT ![s] = "closed"]
  /\ running' = None
  /\ UNCHANGED <<taskVars, cache, stack, exiting, made>>

EndClose(s) ==
  /\ running = s /\ stack[s] = <<>>
  /\ status' = [status EXCEPT ![s] = "closed"]
  /\ running' = None
  /\ UNCHANGED <<taskVars, cache, stack, exiting, made>>

CloseStep(s) ==
  \/ BeginClose(s)
  \/ ExitReturns(s)
  \/ ExitSuspends(s)
  \/ ExitResumes(s)
  \/ EndClose(s)

-----------------------------------------------------------------------------
Init ==
  /\ running = None
  /\ todo = Goals
  /\ frames = [c \in Callers |-> <<>>]
  /\ suspended = {} /\ failed = {}
  /\ status = [s \in States |-> "new"]
  /\ cache = [s \in States |-> [k \in Keys |-> 0]]
  /\ stack = [s \in States |-> <<>>]
  /\ exiting = [s \in States |-> 0]
  /\ made = <<>>

(* Everything is over: the only state where the program may rest. *)
AllOver ==
  /\ status[App] = "closed" /\ running = None
  /\ \A r \in Requests : status[r] \in {"new", "closed"}
  /\ \A c \in Callers : Done(c) \/ ~MayCall(c)
  /\ UNCHANGED vars

Next ==
  \/ OpenApp
  \/ AppReady
  \/ \E r \in Requests : OpenRequest(r)
  \/ \E c \in Callers : CallerStep(c)
  \/ \E s \in States : CloseStep(s)
  \/ AllOver

SafeSpec == Init /\ [][Next]_vars

(***************************************************************************)
(* Every behaviour is finite (a caller asks for each goal once), so weak   *)
(* fairness of Next alone says what asyncio gives: the loop goes on while  *)
(* a task is ready, recipes and exits return, bodies end.                  *)
(***************************************************************************)
Spec == SafeSpec /\ WF_vars(Next)

-----------------------------------------------------------------------------
NeedsExit(n) == made[n].key \in Managed

Frame == [key : Keys, next : Nat \ {0}, uses : SUBSET Nat]
Instance == [key : Keys, owner : States, uses : SUBSET Nat]

(* Every variable keeps its type, and every index names an instance. *)
TypeOK ==
  /\ running \in States \cup Callers \cup {None}
  /\ todo \in [Callers -> SUBSET Keys]
  /\ frames \in [Callers -> Seq(Frame)]
  /\ suspended \subseteq Callers /\ failed \subseteq Callers
  /\ status \in [States -> {"new", "opening", "open", "closing", "closed"}]
  /\ made \in Seq(Instance)
  /\ cache \in [States -> [Keys -> 0..Len(made)]]
  /\ stack \in [States -> Seq(1..Len(made))]
  /\ exiting \in [States -> 0..Len(made)]

(* A resource is torn down only after every live resource built from it, *)
(* however many scopes, builds and failed builds interleave: what the    *)
(* exit stacks and the nesting of the scopes are there to ensure.        *)
DependenciesOutliveDependents ==
  \A m \in Live : \A n \in made[m].uses : NeedsExit(n) => n \in Live

(* A build never goes on with an argument that has been torn down under  *)
(* it while it was suspended.                                            *)
HeldIsLive ==
  \A c \in Callers : \A i \in DOMAIN frames[c] :
    \A n \in frames[c][i].uses : NeedsExit(n) => n \in Live

(* The cache of an open scope answers get only with values that are live *)
(* together with all they were built from, in this scope or in the app's. *)
CachedIsLive ==
  \A s \in States : status[s] \in {"opening", "open"} =>
    \A k \in Keys : cache[s][k] # 0 =>
      \A n \in Reach(cache[s][k]) : NeedsExit(n) => n \in Live

(* A closed scope has nothing left to tear down. *)
NothingLeaks == \A s \in States : status[s] = "closed" => Entered(s) = {}

(* docs/di/scopes.md: "A type is built at most once per scope". *)
BuiltOncePerScope ==
  \A m, n \in DOMAIN made :
    made[m].key = made[n].key /\ made[m].owner = made[n].owner => m = n

(* docs/di/scopes.md: teardown runs in reverse order of creation: an exit *)
(* callback leaves a stack only when every newer one has left it.         *)
TornDownNewestFirst ==
  [][\A s \in States :
       LET before == {stack[s][i] : i \in DOMAIN stack[s]}
           after == {stack'[s][i] : i \in DOMAIN stack'[s]} IN
       \A n \in before \ after : \A m \in after : m < n]_vars

(* Every scope that was opened is closed in the end with its teardowns    *)
(* run, also when recipes raised while it was opening or serving.         *)
ScopesClose ==
  \A s \in States :
    status[s] \in {"opening", "open"} ~> (status[s] = "closed" /\ Entered(s) = {})

(* The container keeps the contract of Resources. *)
Contract == INSTANCE Resources WITH live <- Live
ResourceContract == Contract!Spec
=============================================================================
