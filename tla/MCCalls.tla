------------------------------- MODULE MCCalls -------------------------------
(***************************************************************************)
(* The parts of gazebo that an application calls and that share no state:  *)
(* a behaviour is one walk through pages (Pagination), one client that     *)
(* revalidates its copies (ConditionalGet), one sort (SortBy), one process *)
(* that runs serve commands (Launch), one assembly of an application       *)
(* (Assembly), or a single call of an operator (Negotiation, OgcParams,    *)
(* Queryables) on the inputs in call.                                      *)
(***************************************************************************)
EXTENDS Pagination, TLC

CONSTANTS
  Contents, Ticks, EndOfTime, MaxCopies, Asterisk, Fields, Null,
  Malformed, NotAcceptable, Infinite, Open, Invalid, CRS84,
  Workers, MaxCommands, Bad, Settings, Handlers1, Signatures, Routers, Names, MaxRoutes

(* Time passes, and what stands for no value is not one.                   *)
ASSUME GetAssumption ==
  /\ Ticks \in Nat \ {0} /\ None \notin Nat /\ Text \notin Nat
  /\ \A w \in BOOLEAN, c \in Contents : [weak |-> w, of |-> c] \notin {None, Asterisk}

(* So is a log configuration that was written.                             *)
ASSUME LaunchAssumption ==
  MaxCommands \in Nat /\ \A n \in 0 .. MaxCommands : <<"temp", n>> # None

(* Nor is a side that is left out, or text, a number.                      *)
ASSUME OgcAssumption ==
  /\ {None, Text, Infinite} \cap Int = {}
  /\ None \notin {CRS84, "mercator", "other"}

(* Nor is the key of a representation or the kind of a value; and neither  *)
(* of the refusals is a representation.                                    *)
ASSUME NamesAssumption ==
  /\ None \notin {"json", "html", "txt", "array"}
  /\ \A k \in {"json", "html", "txt"}, t \in {"application", "text"}, u \in {"json", "html", "plain"} :
       [key |-> k, media |-> <<t, u>>] \notin {ParamError, NotAcceptable}

VARIABLES
  part, call,
  offers, now, resource, copies, exchange,
  item, raw, sortables, terms, left, before, phase,
  fields, first, env, passed, command, files, workers,
  signature, rewritten, upgraded, routes, landing, specs, stage

-----------------------------------------------------------------------------
(* Settings classes: a secret and a required option; options with defaults;*)
(* renamed to one flag; a secret excluded, a prefix missing.               *)
Plain(secret, required, default, flag) ==
  [secret |-> secret, required |-> required, default |-> default, prefix |-> "APP_",
   flag |-> flag, excluded |-> FALSE]
Two(a, b) == [x \in Fields |-> IF x = CHOOSE y \in Fields : TRUE THEN a ELSE b]
MCSettings ==
  {Two(Plain(TRUE, FALSE, 0, "-a"), Plain(FALSE, TRUE, None, "-b")),
   Two(Plain(FALSE, FALSE, 0, "-a"), Plain(FALSE, TRUE, None, "-b")),
   Two(Plain(FALSE, FALSE, 1, "-a"), Plain(FALSE, FALSE, None, "-a")),
   Two([Plain(TRUE, FALSE, 0, "-a") EXCEPT !.excluded = TRUE], Plain(FALSE, FALSE, 1, "-b")),
   Two([Plain(FALSE, FALSE, 0, "-a") EXCEPT !.prefix = ""], Plain(FALSE, FALSE, 1, "-b"))}

(* A parameter of every kind; beside one whose annotation is not resolved. *)
Params == [marked : BOOLEAN, bound : BOOLEAN, default : BOOLEAN, resolved : {TRUE}]
Unresolved == [marked |-> TRUE, bound |-> TRUE, default |-> FALSE, resolved |-> FALSE]
Marked == [marked |-> TRUE, bound |-> FALSE, default |-> FALSE, resolved |-> TRUE]
MCSignatures == {{p} : p \in Params} \cup {{}, {Unresolved, Marked}}

G == INSTANCE ConditionalGet
S == INSTANCE SortBy
L == INSTANCE Launch WITH Values <- {0, 1}
A == INSTANCE Assembly WITH phase <- stage, Handlers <- Handlers1
N == INSTANCE Negotiation
O == INSTANCE OgcParams
Q == INSTANCE Queryables

pagesVars == vars
getVars == <<offers, now, resource, copies, exchange>>
sortVars == <<item, raw, sortables, terms, left, before, phase>>
launchVars == <<fields, first, env, passed, command, files, workers>>
assemblyVars == <<signature, rewritten, upgraded, routes, landing, specs, stage>>
allVars == <<part, call, pagesVars, getVars, sortVars, launchVars, assemblyVars>>

-----------------------------------------------------------------------------
(* What a part looks like in behaviours that are about another one.        *)
NoWalk ==
  /\ handler = "list_beds" /\ rel = "next" /\ store = << >>
  /\ req = Get([limit |-> 1, offset |-> 0])
  /\ start = [req |-> req, rows |-> << >>]
  /\ seen = {} /\ pages = 0 /\ collected = << >> /\ outcome = "done"
NoClient ==
  /\ offers = {} /\ now = 0 /\ copies = {} /\ exchange = None
  /\ resource = [content |-> None, modified |-> 0]
NoSort ==
  /\ item = << >> /\ raw = << >> /\ sortables = None /\ terms = << >> /\ left = 0
  /\ before = {} /\ phase = "sorted"
NoLaunch ==
  /\ fields = << >> /\ first = << >> /\ env = << >> /\ passed = << >> /\ files = {}
  /\ command = [phase |-> "none"] /\ workers = [w \in Workers |-> None]
NoAssembly ==
  /\ signature = << >> /\ rewritten = {} /\ upgraded = FALSE /\ routes = << >>
  /\ landing = << >> /\ specs = {} /\ stage = "none"

-----------------------------------------------------------------------------
UpTo(n, X) == UNION {[1 .. k -> X] : k \in 0 .. n}

(* Sorting: up to three items by up to two terms, with and without an      *)
(* allow-list.                                                             *)
SortInit ==
  /\ item \in UpTo(3, [Fields -> {Null, 0, 1}])
  /\ raw \in UpTo(2, [sign : {"+", "-"}, field : Fields \cup {None}])
  /\ sortables \in {None, {CHOOSE f \in Fields : TRUE}}
  /\ S!Init

LaunchInit ==
  /\ fields \in Settings /\ env \in [Fields -> {None, 0}]
  /\ L!Init

AssemblyInit ==
  /\ \E name \in [Routers -> Names \ {CHOOSE n \in Names : TRUE}],
        r \in {None, CHOOSE q \in Routers : TRUE} :
       landing = [q \in Routers |-> [name |-> name[q], rel |-> q # r]]
  /\ A!Init

-----------------------------------------------------------------------------
(* Negotiation: three representations, Accept headers of up to two parts   *)
(* and some of three.                                                      *)
Html == <<"text", "html">>
Txt == <<"text", "plain">>
Rep(key, media) == [key |-> key, media |-> media]
Offers == {<<Rep("json", N!Json), Rep("html", Html)>>,
           <<Rep("txt", Txt), Rep("html", Html), Rep("json", N!Json)>>}
Ranges == {<<"*", "*">>, <<"text", "*">>, Html, N!Json, <<"image", "png">>, None}
Parts == [media : Ranges, qs : {<< >>, <<0>>, <<3>>, <<3, 0>>, <<Malformed>>, <<12>>}]
Accepts ==
  UpTo(2, Parts) \cup [1 .. 3 -> [media : {<<"*", "*">>, <<"text", "*">>, Html}, qs : {<< >>, <<0>>, <<3>>}]]
NegotiateCalls ==
  {[of |-> "negotiate", available |-> o, f |-> f, header |-> h,
    default |-> IF f = None THEN None ELSE o[2], documented |-> d]
     : o \in Offers, f \in {None, "html", "zip"}, h \in Accepts \cup {None},
       d \in {<< >>, (Html :> "mine") @@ (N!Json :> "mine")}}

(* Boxes on a globe of five longitudes; times in two clocks and none.      *)
Numbers == -2 .. 2
BoxCalls ==
  {[of |-> "box", raw |-> r]
     : r \in [1 .. 4 -> Numbers] \cup [1 .. 6 -> {-1, 1}] \cup [1 .. 5 -> {0}]
             \cup [1 .. 4 -> {0, Text, Infinite}]}
Times == [at : 0 .. 2, offset : {None, 0, 1}]
Sides == Times \cup {Open, Invalid}
IntervalCalls ==
  {[of |-> "interval", raw |-> r, built |-> O!Interval(None, None), when |-> w]
     : r \in [1 .. 1 -> Sides] \cup [1 .. 2 -> Sides] \cup [1 .. 3 -> {Open, Invalid}], w \in Times}
  \cup {[of |-> "interval", raw |-> <<Open>>, built |-> O!Interval(s, e), when |-> w]
          : s \in Times \cup {None}, e \in Times \cup {None}, w \in Times}
Filters == [lang : {"cql2-json", "cql2-text"}, valid : BOOLEAN, properties : SUBSET {"a", "b"}]
ServeCalls ==
  {[of |-> "serve", value |-> v, allowed |-> a, default |-> d, filter |-> f, lang |-> l,
    queryables |-> {"a"}, raw |-> b]
     : v \in {None, CRS84, "mercator", "other"}, a \in SUBSET {CRS84, "mercator"},
       d \in {None, CRS84, "mercator"}, f \in Filters \cup {None},
       l \in {None, "cql2-json", "cql2-text", "sql"}, b \in {None, <<0, 0, 1, 1>>, <<0, 1, 0, 0>>}}

(* Schemas of two models, one of which may hold the other or itself.       *)
Node(kind, ref) == [kind |-> kind, ref |-> ref, of |-> {}]
NullNode == Node("null", "")
Scalar == Node("scalar", "")
Point == Node("geometry", "Point")
Polygon == Node("geometry", "Polygon")
ModelB == Node("model", "B")
UnionOf(branches) == [kind |-> "union", ref |-> "", of |-> branches]
NodesOfA ==
  {Scalar, Node("array", ""), Node("object", ""), Point, ModelB, UnionOf({ModelB, NullNode}),
   UnionOf({Point, NullNode}), UnionOf({Point, Polygon}), UnionOf({Point, Polygon, NullNode}),
   UnionOf({Scalar, Node("array", "")})}
NodesOfB == {Scalar, ModelB, UnionOf({ModelB, NullNode}), Node("model", "A"), Point}
(* What stands for no node is none.                                        *)
ASSUME NodesAssumption ==
  \A n \in NodesOfA \cup NodesOfB \cup {Node("model", "A")} : None \notin {n} \cup n.of

Defs ==
  {[A |-> [f |-> a, g |-> b], B |-> [f |-> c]] : a \in NodesOfA, b \in NodesOfA, c \in NodesOfB}

(* An item of model A: a nullable value is there or null, by nulls; inside *)
(* a geometry and a free mapping there are values too.                     *)
ValueOf(node) ==
  CASE node.kind \in {"model", "object", "geometry"} -> "dict"
    [] node.kind = "union" -> (IF \E b \in node.of : b.kind = "array" THEN "array" ELSE "dict")
    [] OTHER -> node.kind
Raw(defs, p) ==
  LET parent == Q!NodeAt(defs, "A", SubSeq(p, 1, Len(p) - 1))
      name == p[Len(p)]
  IN IF parent = None THEN None
     ELSE IF parent.kind = "model"
          THEN IF name \in DOMAIN defs[parent.ref] THEN defs[parent.ref][name] ELSE None
     ELSE IF parent.kind \in {"object", "geometry"} THEN Scalar ELSE None
Nullable(node) == node.kind = "union" /\ NullNode \in node.of
ItemOf(defs, depth, nulls) ==
  LET Reached(p) == \A n \in 1 .. Len(p) :
        LET node == Raw(defs, SubSeq(p, 1, n)) IN node # None /\ ~(nulls /\ Nullable(node))
      Value(p) == ValueOf(Q!UnwrapNullable(Raw(defs, p)))
  IN [p \in {q \in Q!Paths({"f", "g"}, depth) : Reached(q)} |-> Value(p)]
QueryCalls ==
  {[of |-> "query", defs |-> d, depth |-> n, nulls |-> z] : d \in Defs, n \in 0 .. 2, z \in BOOLEAN}

CallInit == call \in NegotiateCalls \cup BoxCalls \cup IntervalCalls \cup ServeCalls \cup QueryCalls

-----------------------------------------------------------------------------
MCInit ==
  \/ part = "pages" /\ call = None /\ Init /\ NoClient /\ NoSort /\ NoLaunch /\ NoAssembly
  \/ part = "get" /\ call = None /\ NoWalk /\ G!Init /\ NoSort /\ NoLaunch /\ NoAssembly
  \/ part = "sort" /\ call = None /\ NoWalk /\ NoClient /\ SortInit /\ NoLaunch /\ NoAssembly
  \/ part = "launch" /\ call = None /\ NoWalk /\ NoClient /\ NoSort /\ LaunchInit /\ NoAssembly
  \/ part = "assembly" /\ call = None /\ NoWalk /\ NoClient /\ NoSort /\ NoLaunch /\ AssemblyInit
  \/ part = "call" /\ CallInit /\ NoWalk /\ NoClient /\ NoSort /\ NoLaunch /\ NoAssembly

MCNext ==
  /\ UNCHANGED <<part, call>>
  /\ \/ part = "pages" /\ Next /\ UNCHANGED <<getVars, sortVars, launchVars, assemblyVars>>
     \/ part = "get" /\ G!Next /\ UNCHANGED <<pagesVars, sortVars, launchVars, assemblyVars>>
     \/ part = "sort" /\ S!Next /\ UNCHANGED <<pagesVars, getVars, launchVars, assemblyVars>>
     \/ part = "launch" /\ L!Next /\ UNCHANGED <<pagesVars, getVars, sortVars, assemblyVars>>
     \/ part = "assembly" /\ A!Next /\ UNCHANGED <<pagesVars, getVars, sortVars, launchVars>>

MCSpec == MCInit /\ [][MCNext]_allVars /\ WF_vars(Revisit \/ Runaway \/ Fetch)

-----------------------------------------------------------------------------
(* ConditionalGet: a 304 is right about the copy it stands for.            *)
NotModifiedIsTrue == G!NotModifiedIsTrue

(* SortBy: the items end up in the lexicographic order of the terms.       *)
SortIsLexicographic == part = "sort" => S!SortIsLexicographic

(* Launch: each worker reads the settings and the log configuration of its *)
(* command, and no temporary file stays behind.                            *)
WorkersReadTheirCommand == L!WorkersSeeWhatWasPassed /\ L!LogConfigOutlivesWorkers

(* Assembly: of a started application only a route whose handler was       *)
(* rewritten after it was made has an unwired parameter, a marked one, and *)
(* the links of the landing pages lead to their routers.                   *)
StartedRoutesAreWired == A!MissedWereRewrittenLater /\ A!LinksLeadToTheirRouters

(* Assembly (docs/fastapi/routers.md:33-35): no started route has any.     *)
NoUnwiredRouteStarts == A!NoUnwiredRouteStarts

(* Negotiation: a client is served the representation it prefers.          *)
ServesWhatIsWanted ==
  (part = "call" /\ call.of = "negotiate") =>
    N!ServesWhatIsWanted(call.available, call.f, call.header, call.default)

(* Negotiation: alternate links and documentation tell what is served.     *)
AlternatesAndDocsAgree ==
  (part = "call" /\ call.of = "negotiate") =>
    N!AlternatesAndDocsAgree(call.available, call.f, call.header, call.default, call.documented)

(* OgcParams: two boxes with their sides exchanged split the globe, and    *)
(* intervals hold instants, whatever the clocks.                           *)
ExtentsHoldTheirPoints ==
  /\ (part = "call" /\ call.of = "box") => O!BoxesSplitTheGlobe(call.raw, Numbers, Numbers)
  /\ (part = "call" /\ call.of = "interval") =>
       O!IntervalsHoldInstants(call.raw, call.built, call.when)

(* OgcParams: a request is served or told which parameter is wrong.        *)
ServedOrRefused ==
  (part = "call" /\ call.of = "serve") =>
    O!ServedOrRefused(call.value, call.allowed, call.default, call.filter, call.lang,
                      call.queryables, call.raw)

(* Queryables: the names on offer are those of the leaves.                 *)
NamesReachLeaves ==
  (part = "call" /\ call.of = "query") =>
    Q!NamesReachLeaves(call.defs, "A", call.depth,
                       ItemOf(call.defs, Q!Levels(call.depth) + 2, call.nulls))
=============================================================================
