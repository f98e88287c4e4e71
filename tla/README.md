# Formal models of gazebo

TLA+ models of the parts of gazebo (`src/src/gazebo/`) whose correctness depends
on the order in which things happen, the TLC configurations that check them on
small instances, and proofs, checked by TLAPS, of the properties that matter most
for every instance. Line numbers below refer to the files under `src/src/gazebo/`.

Run a model with `tlc -config <run>.cfg <module>.tla`, and a proof with
`tlapm <module>.tla`. `PROJECT.json` lists the runs, the source lines behind every
definition (`map`), the mutants that show each property can fail, the hazards and
the findings.

## 1. The system

gazebo is a toolkit for OGC-style HTTP APIs. Its core is framework-agnostic; the
rest glues it to FastAPI. Everything runs on one asyncio event loop: a task keeps
the loop until it really suspends at an `await`, and it may be cancelled there.

| component | state | operations | what makes it correct |
|---|---|---|---|
| DI resolution engine, `di/container.py` 121-213, 341-370 | per entered scope: `cache`, `stack` (an `AsyncExitStack`), root, parent | `get`, `_build`, `open_app_scope`, `open_request_scope`, teardown | nothing is torn down before what was built from it; caches answer with live values; every teardown is run, newest first, also after failures |
| DI graph validation, `di/container.py` 219-308 | bindings, overrides, the sets of the depth-first search | `_merge`, `check`, `_check_cycles` | refuses cycles and scope mismatches, accepts nothing a build could not resolve |
| DI reachability, `di/container.py` 324-339 | worklist, `seen`, `targets` | `reachable_app_keys` | returns exactly the app-scoped keys the entry types reach, and ends on cycles |
| DI providers, `di/providers.py` | registry of recipes | `bind`, `app`, `request`, `Overrides.set`, signature inspection | one recipe per key |
| Replayable receive channel, `asgi.py` 26-59 | shared `_cache`, one `index` per fork | `fork`, `receive` | each reader gets the body once, in order; none waits on a channel that is used up |
| Lifespan, request scopes, health, `ext/fastapi/app.py` | `runtime.app_state`, lifespans of several sub-apps, request scopes | startup, shutdown, `__call__`, `/health` | requests meet only open app scopes; startup is all or nothing; healthy means probed |
| Proxy headers and trust, `asgi.py` 62-169 | the ASGI scope, rewritten | `ProxyHeadersMiddleware`, trust policies | the origin the client used, and only from a trusted peer |
| Request context and id, `context.py`, `requestid.py` | two context variables per task | `use_context`, `resolve_context`, the request id | a task sees the request it serves, and none afterwards |
| Pagination, `pagination.py`, `testing.py` | offset, limit, token, total; the walk of a client | page links, cursors, `drive_pagination` | a walk visits every row once and ends |
| Conditional requests, `caching.py` | validators of a representation, copies of a client | `etag_for`, `is_not_modified` and the 304 response | 304 only for what the client has |
| Negotiation, `negotiation.py` | accept ranges and their qualities | `negotiate`, alternate links, documented responses | the representation the client prefers, or 406 |
| OGC parameters, `params.py` | - | bbox, datetime, crs, filter and their adapters | the extents they mean; a wrong value is the client's error |
| Filtering, `filtering/` | sort terms, queryables | `SortBy`, flattening of models, the allow-list | a stable total order; no name outside the list |
| Problems, `problems.py`, `ext/fastapi/problems.py` | registry of problem types | register, raise, render | a client's mistake is named, as a 400 or 422 |
| Endpoint injection, `ext/fastapi/injection.py`, `routers.py` | rewritten signatures, routes, link specs | `inject_signature`, `add_api_route`, `LinkedRouter`, validation at startup | every injected parameter is wired; links lead home |
| Links and documents, `link.py`, `ogc.py`, ... | - | serialization with deferred links | - |
| CLI and server launch, `ext/cli.py`, `ext/uvicorn.py` | groups of settings, `os.environ`, a temporary log configuration | parse, propagate, `--check`, serve | workers see what the command line said |

How they meet: the server runs the root lifespan, in which `forward_lifespans`
enters the lifespan of each sub-app. Each opens an app scope on its container
(`open_app_scope(eager=None)`, `ext/fastapi/app.py` 176: every app-scoped key is built at
startup), publishes it in `runtime.app_state`, and clears that again before it closes the
scope. `reachable_app_keys` serves applications without this glue, which pass entry types as
`eager` to build only what these reach.
`_RequestScopeMiddleware` reads `app_state` for each request and opens a request scope on it;
endpoints and recipes call `get` on that scope. The middleware gives the `Request` that
recipes see and the downstream app each a fork of one `_ReplayableReceive`, so that
both may read the body. `Container` validates its graph before any of this.
Around that middleware stand Starlette's error layers, the request id and the CORS
layer, inside it `ProxyHeadersMiddleware`: the request context is made before the
proxy's headers are applied, and answers links from what the headers say by then.
Handlers that `upgrade` or a `GazeboRouter` rewrote get their parameters from the
request scope; the `LinkedRouter` collects links by route name, checked at startup.
The serve command writes the environment that the settings of the workers are read from.

The hard behaviours are therefore: builds that interleave at the `await` of
`_build` (207), between reading the cache (180) and writing it (183); failures and
cancellations in the middle of nested builds and of startup; teardowns that suspend
while other tasks go on; readers that overlap on a one-shot channel; lifespans that
fail half way through several sub-apps while requests arrive. `PROJECT.json` lists
them all as hazards, each at its line.

## 2. The modules

```
Resources            what a container promises: acquire, release
   ^  implemented by (refinement mapping live <- Live)
Scopes  <-- MCScopes (wiring for TLC),  <-- ScopesProofs (TLAPS)
ReplayableReceive    <-- ReplayableReceiveProofs (TLAPS)
GraphCheck, Reachability
   (both) <-- MCGraphCheck (families of wirings, every small graph)
              <-- GraphCheckProofs (TLAPS)
AppLifespan          <-- AppLifespanProofs (TLAPS)
RequestPipeline      <-- MCRequestPipeline (applications, requests, errors),
                     <-- RequestPipelineProofs (TLAPS)
Pagination, ConditionalGet, SortBy, Launch, Assembly, Negotiation, OgcParams, Queryables
   (all) <-- MCCalls
             <-- CallsProofs (TLAPS), with
Pagination   <-- PaginationProofs (TLAPS)
SortBy       <-- SortByProofs (TLAPS)
```

### Scopes

`get` (170-184), `_build` (186-213), `open_app_scope`, `open_request_scope` and the
`aclose` of their exit stacks, for any set of keys, dependencies, requests and tasks.

* `cache` and `stack` are the fields of `ScopeState`. Instances are numbered by
  completion in `made`, a history: `made[n].uses` holds everything reachable through
  the arguments of instance `n`.
* `frames[c]` is the stack of nested `_build` calls of task `c`; `running` is the
  task or closing scope that holds the event loop. A step with `running = None` is a
  turn of the loop. So `GetMissing`, `ResolveDep`, `RecipeReturns` of one task follow
  one another without interruption, as they do in the code, unless a recipe
  suspends (`RecipeSuspends`): that is the only place where two builds interleave.
* Failure: a recipe may raise at once or after suspending (`RecipeRaises`,
  `ResumeRaises`; a cancellation at the await is one of these). The exception leaves
  every enclosing `_build`, whose built arguments stay on their stacks.
* Closing: `BeginClose` when the body of the `async with` is over, or when the eager
  builds of the app scope failed; then the exit stack pops and runs callbacks
  (`ExitReturns`), which may suspend (`ExitSuspends`, `ExitResumes`) while requests
  of other scopes run.
* `Detached` names tasks and requests that nobody waits for. The runs and the proofs
  take it to be empty, that is, structured concurrency: an endpoint ends before its
  request scope is closed. With a detached task `NothingLeaks` is false: its
  resource is entered on a stack that was already closed. The hazard is listed.
* Scope roots (`root=`) are left out here: they are plain values without teardown.
  `GraphCheck` models how they are matched.

`Resources` is the abstract contract, with no scopes, caches or tasks: a resource is
acquired only while all it uses is live, released only when nothing live uses it, and
a time always comes when nothing is left to release. `Scopes!Contract` is its instance.

### ReplayableReceive

`_ReplayableReceive`: a cache shared by forks, each with its `index`. `Replay` is the
branch without an await, `Pull` and `Pulled` the two halves of the await, `Cancel` a
task cancelled there. Any number of forks may await the channel at once. Two history
variables say who suffers from that: `overtaken` holds the forks that are awaiting while another
fork's message comes, `misled` those that were then handed a message out of its place.

### GraphCheck

`Container.__init__`: `Merge` (overrides), `CheckKey`/`CheckRaises` (the loop of
`check`), then the recursive depth-first search with its `visiting` and `done` sets,
one action per branch, an explicit path for its recursion. The whole wiring (which keys
are bound, in which scope, with which parameters and overrides) is chosen in `Init`;
the properties compare the verdict with a reference definition of acyclicity, and with
what a build later does (`RootsFor`, `BuildRaises`: `_root_for` and the end of `_build`).

### Reachability

The worklist loop of `reachable_app_keys` over every graph, against the least set
that holds the entries and whatever its members need.

### AppLifespan

`upgrade`'s lifespan (170-185) in `forward_lifespans` (240-257), for several sub-apps
that may each fail at any point, restarted several times, against
`_RequestScopeMiddleware` (63-81) and `health` (84-104). `scopes` lists every app scope
ever opened, `runtime[i]` is `_Runtime.app_state`. A server is `polite` when it drains
its requests before shutdown, as uvicorn does until its graceful timeout; both kinds
are explored, and each property says which it needs.

### RequestPipeline

The stack of middleware that `upgrade` installs and a request's way down and up it.
`app` is the configuration: CORS or not, request ids or not, the trust policy, and the
recipe of the request context (`default` is the adapter of `ext/fastapi/context.py`; an
application may bind one that reads the request at once, `eager`, or raises).
`stack[t]` holds the requests a task is in the middle of: a handler may call the
application in-process and wait (a request within a request), a task may serve one
request after another, and tasks interleave. `var[t]` are the two context variables of
the task, `savedLink`/`savedId` what `use_context` and the request id layer will
restore. `EnterScope`, `EnterProxy`, `Answer` show why the order matters: the
context is made from a request whose headers are applied one layer further in.
`MCRequestPipeline` gives the applications, requests and errors.

### Pagination

`paginate`, `paginate_offset` and their page links, `merge_params`, cursors; four
handlers, three of them the garden's; and a client: `drive_pagination` with its guards
(`Revisit`, `Runaway`), following `next` or `prev` from any first request, while rows are
created. The rows of a store are the ids themselves. The garden counts ids up from 100 for all
tenants and sorts by their texts, so that a new plant of the public tenant goes between the
seeds `1` and `2`, and `1000` before `101` (`TextBefore`, `Insert`); a behaviour begins with any
store that the counter can have left. A search looks at the first 1000 rows of the tenant
(`SearchCap`), filters those, and counts what is left.

### ConditionalGet

A resource that changes at instants finer than the second of an HTTP date, an endpoint that
gives an ETag, a Last-Modified or both, and a client that keeps copies with their
validators and asks again with some of them, with `*`, or with a date that is none (`Text`).
`IsNotModified` is `is_not_modified`. Last-Modified is a UTC or naive `datetime`: `http_date`
raises `ValueError` for an aware one in another zone, on the 200 as on the 304, and such
endpoints are left out.

### SortBy

`SortBy.parse` and `SortBy.apply`: one stable sort a term, the last first. The list is
represented by the relation "stands before", and a stable sort is one step on it.

### Launch

The serve command: options generated from settings classes, `_propagate_to_env`, errors of
usage, `--check`, the temporary log configuration, and workers that start, end and are
restarted at any time until uvicorn returns. One process runs several commands. `RunCheck` is
one step for both exits of `--check`: settings that do not resolve and an application that does
not import differ from success in the exit status only, which nothing here reads.

### Assembly

Handlers made into routes by a `GazeboRouter`, by the app before or after `upgrade` and by
a plain router, in any order; linked routers with their landing routes; then the checks at
startup. `wired` is what FastAPI saw of a handler when its route was made.

### Negotiation, OgcParams, Queryables

Pure algorithms as operators: `Negotiate` with quality values and specificities, alternate
links and the documented responses; boxes that cross the antimeridian and may have a
height, intervals with naive and aware bounds, `crs` and filter parameters through the
adapters and through folded fields; `_flatten` of schemas that are nested, nullable,
recursive or unions. Each has properties that compare it with what its result should mean: what
an Accept header says of a type, two boxes splitting the globe, instants. `Flatten` computes
names as `_flatten` does, by recursion over the nested models down to `max_depth` (and, as
there, the fields of the root whatever `max_depth` is); it is compared with `NodeAt`,
which follows the path of a value in an item from the root, without any limit. The two share
`UnwrapNullable`.

### MCCalls

The parts that an application calls and that share no state, in one configuration: a
behaviour is one walk, one client, one sort, one process of commands, one assembly, or one
call on the inputs in `call`. Each part is `INSTANCE`d with variables of its own,
those of the other parts standing still. The settings classes and the signatures of
handlers are constants (`Settings`, `Signatures`), for which the configurations take
`MCSettings` and `MCSignatures`: the proofs are about any. `MCGraphCheck` joins
`GraphCheck` and `Reachability` in the same way.

## 3. The runs

| run | asks | bounds |
|---|---|---|
| `scopes` | dependencies outlive dependents; held arguments and cached values stay live; nothing leaks; teardown newest first; every scope closes; the contract `Resources` | 5 keys, 2 eager and 2 lazy in the app scope, 2 requests racing for the lazy ones, 3 suspending and 3 failing recipes |
| `scopes_race` | "a type is built at most once per scope": **refuted** | the same |
| `receive` | a fork reads exactly the body unless another pulled during its own await; one that waits on a used-up channel was overtaken there by the last message; all others finish | 3 forks, 3 messages, 2 cancellations |
| `receive_skip` | "both read the same body": **refuted** | 2 forks, 3 messages, 1 cancellation |
| `graph` | exactly the cyclic graphs are refused as such; accepted: no inward dependency, no parameter a build cannot resolve; validation ends; eager targets are exactly the reachable app keys; that loop ends | all graphs of 3 keys with at most 2 bound parameters; all wirings of 2 keys in 2 scopes, with overrides, roots, defaults, unresolvable annotations, undeclared scopes; all graphs of 3 bound keys and 1 unbound |
| `graph_subclass` | the same with a subclass of the root: **refuted** | 1 key |
| `graph_optional_root` | nothing app-scoped is given the root of a request: **refuted** | 1 key |
| `lifespan` | app_state names an open scope; requests keep the one they were admitted onto; all or nothing; nested; healthy means probed; scopes end closed | 2 sub-apps, 3 starts, 1 request, 2 probes, both kinds of server |
| `requests` | each task sees the context and id of the innermost request it serves; links name the origin the client used, as far as the policy trusts; client mistakes become problems that name them | 2 requests in 2 tasks (concurrent, in sequence, nested); 9 applications, 5 requests, 5 errors |
| `requests_cors` | "attaches headers to every response": **refuted** | 1 request |
| `calls` | a `next` walk takes each row within its search once and is never taken for a loop; a `prev` walk reaches the first row; `last` ends the collection; walks end; a 304 is right about its copy; sorts are lexicographic; workers read their command; a started app leaves only such parameters unwired as were rewritten too late, and its links lead home; the preferred representation is served, and documented; extents hold their points; a request is served or told; names reach leaves | see below |
| `stale_routes` | "at startup the app validates every route and fails loudly": **refuted** | 3 routes of one handler |

Why the bounds are enough. In `scopes` two tasks are what a race on one cache entry
needs, a chain of two lazy keys is what makes duplicated instances depend on different
copies, and the third task is the eager startup. Larger wirings are covered by the proofs, which have no
bound. A cycle that a depth-first search can get wrong (self-loop, two-cycle,
three-cycle, diamond, a cycle found from a key outside it) exists on three keys.
The mixed wirings of `graph` have every kind of parameter against every kind of binding: `check`
looks at one parameter at a time, so two keys suffice. Two sub-apps give every order in
which one fails while the other is up; three starts include one after a failure and one
after a clean stop. Requests of `AppLifespan` do not influence each other or the
lifespan, except that a polite server waits for them, so one stands for any number.
In `requests`, a context can go wrong between two requests of one task or of two, so two
requests suffice; each policy and each combination of credentials and headers is present.

In `calls`: at most `Rows` = 5 rows in pages of 1 to 3, from every offset up to one past the
end and from every kind of broken cursor, is enough for a short first page, a short last one,
a total that is a multiple of the limit and one that is not. `SearchCap` = 3 is less than `Rows`, so
that a search begins below its cap, at it or beyond it, and rows are pushed past it; `Ids` has two
neighbours, a later id whose text comes after theirs and one, `1000`, whose text comes before.
`MaxPages` = 7 is more than
any walk of the counted handlers needs, and less than the one that does not count offers.
Two ticks a second and times up to 3 put a change within the second of a copy and in the
next one; two copies of two contents let a content come back. Three items by two terms have
every tie and null that a second pass must keep. Two workers and two commands have a
worker restarted under its command and one that inherits the environment of the one before. Three
routes of one handler with any of its kinds of parameter, and two linked routers, have
each order of making a route, upgrading and making another, and each clash of three names.
Accept headers have up to two parts of any kind, some of three; the globe has five longitudes; two
models may hold each other or themselves to a depth of 2.

Fairness. `Scopes` assumes weak fairness of `Next`, `graph` of each of its two searches:
the loop goes on while a task is ready, and recipes, exits and bodies end. This is
asyncio's FIFO scheduling, given recipes that return; as each behaviour is finite,
nothing stronger is needed. `ReplayableReceive` assumes that the client sends its
whole body and that each reader goes on while it can. `AppLifespan` assumes that
lifespans, recipes and endpoints end and that a serving server is stopped some day; no
fairness is assumed of starting, of arrivals or of any failure in `Scopes` and the
channel. `EveryReaderFinishes` excepts the forks that `HangsOnlyIfOvertaken` speaks of:
they hang in the code. `calls` assumes that the client of a walk goes on while it may (`Revisit`, `Runaway`,
`Fetch`: the body of one `while` loop); rows are created or not. `RequestPipeline` has only
safety properties and no fairness. Deadlock is checked in every run but `calls` and
`stale_routes`: the models stop only in the states named
`AllOver`, `AllRead`, `Over` and `Returned`. In those two a sort, an assembly and a call
really come to an end, and in `requests` the server can always be started or stopped.

## 4. What the models found

* **A type can be built twice in one scope** (`scopes_race`). `get` reads the cache,
  awaits `_build`, then writes: two tasks that ask for the same key while its recipe is
  suspended both build it, and the second replaces the first in the cache. `docs/di/scopes.md`
  says a type is built at most once per scope. What saves the resources
  is proved: both instances are entered, and each outlives what was built from it.
* **Overlapping readers lose their place** (`receive_skip`). A fork that resumes from the
  channel advances its own index by one, whatever others cached meanwhile: it returns a
  later message first and then again from the cache, and waits for ever if the last message
  passes it by. The docstring promises that each reader reads the same body, from its own
  position. What holds is checked by `receive` and proved: nothing of this befalls a fork during
  whose awaits no other fork's pull returns.
* **A subclass of a declared root is accepted and never resolved** (`graph_subclass`):
  `_root_satisfies` tests the class of the parameter against the declared root in the
  opposite direction to the `isinstance` of `_root_for`.
* **An optional root is captured by the app scope** (`graph_optional_root`): an app-scoped
  recipe with an optional parameter of the request's root type passes `check` and
  keeps the root of whichever request builds it.
* **A bare 500 has no CORS headers** (`requests_cors`): the comment on `add_middleware`
  promises them on every response, but Starlette answers an exception without a handler
  outside all added middleware.
* **A route made too early passes the validation** (`stale_routes`): `_validate_routes` looks at the
  signature of the endpoint as it is at startup, not at what FastAPI took over when the route was
  made. A handler given to a plain router first and to a `GazeboRouter` or the upgraded app later
  is rewritten in place, so that its earlier route starts with a parameter unwired, although
  `docs/fastapi/routers.md` says that every route is validated. `StartedRoutesAreWired` says
  that this is the only way, for marked parameters only.

Noted while modelling, without a run of their own:

* In the garden's public tenant a created plant goes into the middle of the order, so that an
  offset walk by `next` repeats a row and one by `prev` misses one. The same happens in any tenant
  when the count gains a digit, after some 900 plants. `NextWalkTakesEachRowOnce`
  claims exactness while new rows go last, completeness wherever they go.
* A search never reaches the rows beyond the first 1000 of a tenant, and the `numberMatched` that it
  returns counts the matches among those only. Rows that new ones push beyond the cap during a
  walk are the exception of that completeness (`OutOfReach`).
* A `ProblemException` in the recipe of the request context is raised outside the exception
  handlers and ends as a 500. A context that reads its url at once (`eager`) names
  the origin of the proxy's own request; `LinksNameTheClientsOrigin` is about the default one.
* A filter parameter whose allow-list lacks CRS84 raises `ValueError` when no `filter-crs`
  is given; `ServedOrRefused` is stated where CRS84 is allowed.
* `DatetimeInterval` built in code from a naive and an aware bound raises `TypeError`.
  Queryables declared as additional are advertised, and refused by
  `validate_properties` all the same.
* Not only scalars can be sorted by, though `docs/core/filtering.md` 29-30 calls the sortables the
  scalar subset and the docstring (`filtering/queryables.py` 206-207) excludes geometries and
  arrays: a free mapping is a leaf like any scalar, and so is a nullable union of geometries,
  which `_unwrap_nullable` keeps as it is and in which `_is_geometry` meets the null branch.
  `NamesReachLeaves` asks only that what can be sorted by can be filtered by, and is no declared array.
* A marked but unbound type passes startup and fails in the request; an annotation that cannot be
  evaluated is only warned about, at startup too.
* Under a server that does not drain its requests, `/health` may find `app_state` cleared after
  it was admitted, and answers that the app is healthy with no probe asked (`HealthWithoutScope`).
* A command line that is refused leaves what its earlier options wrote in the environment, where
  the next command of the process finds it.

## 5. What is proved

`ScopesProofs`, for every wiring that `Container.check` accepts (`ScopeMatchAssumption`: an
app-scoped recipe has app-scoped parameters), any number of requests and tasks, and
`Detached = {}`:

* `Invariant`, `Types`: `IInv` is inductive, and implies `TypeOK`.
* `DependenciesOutlive`, `HeldStaysLive`, `CacheStaysLive`, `ClosedIsEmpty`: the four
  safety invariants of the run `scopes`.
* `NewestFirst`: the action property `TornDownNewestFirst`.
* `KeepsContract`: the engine implements the safety part of `Resources`; every step maps
  to `Acquire`, `Release` or a stutter.

The safety properties alone are not inductive: that an exit callback may run follows
from what is on the stack, what is being built and what is cached, in all scopes
at once. `IInv` adds: arguments are older than what they are passed to and belong to
its scope or the app's (`MadeInv`); each stack is sorted by age, and the instance whose
exit is awaited is newer than all left on it (`StackInv`); a request is open only while the app
scope is (`StatusInv`); a task with frames builds in an open scope and holds usable
arguments, each frame building what the one below asked for (`FrameInv`); an open scope caches
usable values (`CacheInv`). The heart is `NobodyUses`: the newest instance of a
closing scope is used by nothing live (it would be newer, or in a request that is already
closed), by no build (it would need an open scope) and by no open cache. `GoneStep`
turns this into the preservation of the invariant, `CompleteStep` does the same for a finished build.

`ReplayableReceiveProofs`, for any number of forks, messages and cancellations, pulls overlapping
as they may: `TypeCorrect`; `ReadersCorrect`, that a fork reads the body unless it was misled; and
`NoHanging`, that a fork awaits a used-up channel only if the last message overtook it at that
await. The invariant has the index of an undisturbed fork be the number of
messages it returned, and an index at the end of the cache for every fork that
awaits without having been overtaken.

`GraphCheckProofs`, for any number of keys, scopes and parameters: `Types`;
`CyclesAreFound`, both directions; `AllOutward`; and `AcceptedResolve`, the promise that
an accepted graph has no unresolvable parameter, under the condition that no
parameter is typed as a subclass of a declared root, which `graph_subclass` shows to be
needed. The invariant is the classical one of a depth-first search: the path goes along
dependencies and never meets itself, what a key on the path has looked at is done or is the next key of the path (`PathInv`),
and the done keys are closed under dependencies and acyclic (`DoneInv`); `LeaveStep` is where they meet.

Also there, for any entries and any graph: `EveryWalk`, what `reachable_app_keys` returns
(`TargetsCorrect` is the same beside a validation, as in the run). What was seen is reachable,
and what it needs is seen or still on the worklist (`SearchInv`): with an empty worklist, what was
seen is closed, so that it holds the least closed set.

`AppLifespanProofs`, for any number of sub-apps, starts, requests and probes: `Types`,
`PublishedScopesAreOpen`, `ParentsStayOpen`, `StartupIsAllOrNothing`,
`AppsAreNested` and `HealthyIsProbed`, that is, every safety property of the run `lifespan`.
None is inductive. `IInv` ties the history of scopes to the phases of the sub-apps (the
one scope of an app that is not closed is its latest, and its life is that of the app's
phase, `ScopeInv`), what is published to the phases (`RuntimeInv`), the phases to what the
server is doing and to each other (`ServerInv`, `LaterAppsLeaveFirst`), and the
requests under way to all of this (`PoliteInv`, `AnswerInv`). `LifeStep` and `PhaseStep`
say what a change of one app's phase does to the rest.

`SortByProofs`, for any items, values, terms and allow-list: after each pass the list is in the
lexicographic order of the terms sorted by so far, ties in the order of the items, and that is a total
order (`OrderInv`); hence `SortedLexicographically`. `OneMoreTerm` is the
reason: a stable sort by one more significant term gives the order of both.

`RequestPipelineProofs`, for any tasks, requests, forwarded headers and applications with one of
the six policies: `ContextsAreInnermost` and `LinksAreTheClients`. Each layer restores what it
saved on the way in; that this gives a task back the right value needs to be
known of every request on its stack at once: what was saved is the innermost context among the
requests below (`Nested`), through any depth of calls. `NestStep` is the argument for one
layer, `Below` for a call made or answered. For the links a second invariant follows:
the context of the default recipe has read nothing when it is made before the proxy layer, in
the endpoint it is the request's own (by the first invariant) and reads the origin as that layer
left it (`OriginInv`), and no later layer changes it (`ResultInv`).

`MistakesAreAnswered` needs a third invariant, that a request carries what is owed to its error:
from the endpoint up to the exceptions layer the error itself, above it a response of that
error's status and citations, which no outer layer changes but for its headers (`OwedInv`). The
classes an error may have and where a validation error may be placed are `ErrorsAssumption`.

`PaginationProofs`, for any number of rows and ids, any cap of the search, any limits, cursors
and pages: `NextWalks`, `PrevWalks`
and `LastLinks`, from one invariant of the walk, `WalkInv`. Its parts say what a request of a walk is
(`Kind`: the handler's fields, the same limit and filter as the first one, whatever
`merge_params` did to its url or body) and how far it has come. Going forward, what was collected is a
run of the matching rows from the first offset on, and the next page is at its end, as long as new
rows go last; wherever they go, each of the first rows is collected or ahead; and every request made
asked for an earlier place than the next, so that none is taken for a loop (`Forward`).
Going back, all between the end of the next page and the end of the first is
collected (`Backward`). Rows are only ever inserted (`Grown`), so that what a search lists keeps its
order and loses at most its last row to the cap with each new one (`ListedSplits`, `MatchingGrows`);
what is past the cap stays past it (`OutStays`). This is why the walk forward loses no other. `LastLinks` needs no aligned page: the last page's offset is reckoned from the
total alone. How a new plant and a search by name interact is a fact about a recursive function
(`NamedOfBoth`: what is kept of two parts is what is kept of each); it is proved by an induction over a
set, from the well-foundedness of the naturals (`SmallestOf`, `InductionUpTo`).

`CallsProofs` has the parts of `calls`. A step of `MCCalls` is one of the part that the behaviour is about
(`OnePartMoves`), so each has an invariant of its own:

* `NotModifiedHolds`: each copy has the tag of its own content and no copy is dated after the last
  change (`CopiesInv`), for any contents and any number of ticks a second.
* `SortHolds` carries the theorem of `SortByProofs` over to the run.
* `LaunchHolds`, for any settings classes, workers and number of commands: the environment is what it
  was at first but for the options passed (`EnvInv`), and workers and temporary files exist only
  while uvicorn runs (`ServingInv`).
* `AssemblyHolds`, for any handlers, signatures, routers and names. What was checked at startup stays
  so, as nothing is registered afterwards (`CheckedInv`), every link was made together
  with its route (`LinksInv`; unique names do the rest), and a route lacks what its handler is wired
  for only if a later route rewrote the handler (`MissedInv`).
* What a call returns is stated for any arguments, of any length and size, and then of
  those of the run: `BoxesSplit` and `IntervalsHold` (`ExtentsHold`), `EveryRequestServed`
  (`RequestsServed`), `WantedIsServed` (`WantedHolds`), `AlternatesAgree` (`AlternatesHold`),
  `EveryNameReached` (`NamesHold`). `WantedIsServed` rests on `BestIs`: the first of those wanted most is
  what `negotiate` chooses; `AlternatesAgree` takes what `FormatEnum` gives, that a
  key names one media type. `EveryNameReached` is about any models with fields `f` and `g`, and any limit: one level of the
  recursion of `Flatten` adds to the names of the nested models those of their fields (`OneLevel`),
  while `NodeAt` goes through the fields of a path from its front (`Trail`, `NodeBelow`); an induction
  over the levels (`FlattenIs`) shows that both find the same.

Assumptions on constants say that what stands for no value, for text or for a refusal is none of the values
(`None` is no number, no key and no validator: `GetAssumption`, `LaunchAssumption`,
`OgcAssumption`, `NamesAssumption`, `TokenAssumption`), as `None`, a `str` and an exception are in
Python; that limits are positive, as the handlers declare them (`PagesAssumption`); and that
there is at least one tick in a second. TLC evaluates all of them.

Every safety invariant and the action property of the passing runs is the property of a theorem. What is
model-checked only is liveness, which is outside what the prover handles: `ScopesClose`,
`EveryReaderFinishes`, `Decides`, `Returns`, `ScopesEndClosed`, `WalksEnd` and the liveness half of
`ResourceContract`. The type invariants are proved and not run.

## 6. What is not modelled

* Signature and annotation introspection, and the evaluation of annotations: a binding
  reaches the models as a scope and the types of its parameters, a handler as a set of
  marked, bound, defaulted or unresolved parameters. The registry of providers and its
  overrides are dictionaries that are assigned to.
* Starlette, FastAPI, pydantic, click and uvicorn are external: the models have what gazebo
  relies on (the order of layers, defaults of `Depends`, the last of repeated options).
* The CQL2 grammar and its evaluation; the texts of dates, numbers, URLs and headers, which
  the models take by what they parse to.
* Serialization and layout of OGC documents and of links; the declaration of conformance; the
  enumerations that `FormatEnum` and `CrsEnum` build; the registry of problem types; manual
  dumps of deferred links outside a request.
* Option prefixes and renames that meet an option of uvicorn's or the environment variable of
  another group; field aliases.
* Detached tasks in `Scopes` (the constant is there; with one, `NothingLeaks` is false),
  and a server of several event loops.

What would come next: scopes with detached tasks, for which the container promises less; the
registry of bindings; and the variants that make each search and each walk finite, as theorems from
which liveness follows by hand.
