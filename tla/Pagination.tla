----------------------------- MODULE Pagination -----------------------------
(***************************************************************************)
(* Page links and the clients that follow them: gazebo.pagination and the  *)
(* merges of gazebo.context, four kinds of paged handler (three of them    *)
(* the garden's), and the walk of gazebo.testing.drive_pagination.  Rows   *)
(* are created while a walk is under way.  A query or a body is a function *)
(* from parameter names to values, a parameter given several times keeping *)
(* the tuple of its values.                                                *)
(***************************************************************************)
EXTENDS Integers, Sequences, FiniteSets

CONSTANTS
  Rows,        \* bound: the most rows the store ever holds
  Ids,         \* bound: the ids that the counter gives out, from 100 on
  SearchCap,   \* the rows that a search looks at, the first 1000
  Limits,      \* page sizes that clients ask for
  MaxPages,    \* max_pages of the walk
  None, Text,  \* no value; a value that is not an integer
  ParamError   \* what a token that was not issued decodes to

ASSUME PagesAssumption ==
  /\ Rows \in Nat /\ SearchCap \in Nat /\ Ids \subseteq Nat /\ \A i \in Ids : i >= 100
  /\ Limits \subseteq Nat \ {0} /\ MaxPages \in Nat \ {0}

VARIABLES
  handler,     \* the handler that serves the walk
  rel,         \* the relation it follows
  store,       \* the tenant's rows, each by its id, in the order in which they are listed
  start,       \* the request the walk began with and the rows there were
  req,         \* url and body of the next request
  seen, pages, collected,
  outcome      \* walking, done, or what ended the walk early

vars == <<handler, rel, store, start, req, seen, pages, collected, outcome>>

Handlers == {"list_beds", "list_plants", "search_plants", "no_total"}

SmallOf(a, b) == IF a < b THEN a ELSE b
LargeOf(a, b) == IF a < b THEN b ELSE a
Given(params, k, default) == IF k \in DOMAIN params THEN params[k] ELSE default

-----------------------------------------------------------------------------
(* A parameter overridden with None goes, any other override replaces all  *)
(* its values, and the rest of the query or body stays as it is.           *)
MergeParams(params, overrides) ==
  [k \in {k \in DOMAIN params \cup DOMAIN overrides :
            k \in DOMAIN overrides => overrides[k] # None}
     |-> IF k \in DOMAIN overrides THEN overrides[k] ELSE params[k]]

(* A link resolves against the current request: its query for GET; for     *)
(* POST the url stays and the parameters are merged into the given body.   *)
PageLink(r, at, body, overrides) ==
  [rel |-> r,
   to  |-> IF at.method = "POST" THEN [at EXCEPT !.body = MergeParams(body, overrides)]
                                 ELSE [at EXCEPT !.query = MergeParams(@, overrides)]]

(* Mutant: an extra page when the total is a multiple of the limit. *)
LastPageOffsetRounded(total, limit) == (total \div limit) * limit
LastPageOffset(total, limit) ==
  IF total > 0 THEN ((total - 1) \div limit) * limit ELSE 0

(* Links by token: tokens has next, prev and last, None for a link that is *)
(* not wanted; `first` has no token.                                       *)
Paginate(at, body, param, tokens, first, limit) ==
  LET sized == IF limit = None THEN {} ELSE {"limit"}
      To(r, token) ==
        PageLink(r, at, body, [k \in {param} \cup sized |-> IF k = param THEN token ELSE limit])
  IN {To(r, tokens[r]) : r \in {q \in DOMAIN tokens : tokens[q] # None}}
     \cup {PageLink("self", at, body, << >>)}
     \cup (IF first THEN {To("first", None)} ELSE {})

PaginateOffsetAligned(at, offset, limit, total) ==   \* mutant: no prev to a short page
  LET To(r, o) == PageLink(r, at, << >>, [offset |-> o, limit |-> limit])
  IN (IF offset >= limit THEN {To("prev", offset - limit)} ELSE {})
     \cup (IF total = None \/ offset + limit < total THEN {To("next", offset + limit)} ELSE {})
PaginateOffset(at, offset, limit, total) ==
  LET To(r, o) == PageLink(r, at, << >>, [offset |-> o, limit |-> limit])
      last == LastPageOffset(total, limit)
  IN (IF offset > 0 THEN {To("first", 0), To("prev", LargeOf(0, offset - limit))} ELSE {})
     \cup (IF total = None \/ offset + limit < total
           THEN {To("next", offset + limit)} ELSE {})
     \cup (IF total # None /\ last # offset THEN {To("last", last)} ELSE {})

(* An opaque cursor is the text of a JSON value; only an object decodes,   *)
(* and only a natural offset in it is used.                                *)
EncodeCursor(o) == [json |-> "object", offset |-> o]
IsCursor(token) == token.json = "object"
OffsetFromCursor(token) ==
  IF token = None THEN 0
  ELSE IF IsCursor(token) /\ token.offset \in Nat THEN token.offset ELSE ParamError

-----------------------------------------------------------------------------
(* The rows a handler pages through: search_plants lists the first ones    *)
(* and keeps those whose name matches, here the even ones.                 *)
Named(n) == n % 2 = 0
NamedOf(rows) ==
  LET kept[n \in 0 .. Len(rows)] ==
        IF n = 0 THEN << >>
        ELSE kept[n - 1] \o (IF Named(rows[n]) THEN <<rows[n]>> ELSE << >>)
  IN kept[Len(rows)]
Matching(h, r, rows) ==
  LET listed == SubSeq(rows, 1, SmallOf(SearchCap, Len(rows)))
  IN IF h # "search_plants" THEN rows
     ELSE IF "name" \in DOMAIN r.body THEN NamedOf(listed) ELSE listed

PageAt(rows, offset, limit) ==
  SubSeq(rows, offset + 1, SmallOf(offset + limit, Len(rows)))

Page(items, links) == [status |-> 200, items |-> items, links |-> links]
Refusal == [status |-> 400, items |-> << >>, links |-> {}]

ListBeds(r, rows) ==
  LET o == Given(r.query, "offset", 0)  l == r.query["limit"]
  IN Page(PageAt(rows, o, l), PaginateOffset(r, o, l, Len(rows)))

(* A handler of an application that does not count its rows.               *)
NoTotal(r, rows) ==
  LET o == Given(r.query, "offset", 0)  l == r.query["limit"]
  IN Page(PageAt(rows, o, l), PaginateOffset(r, o, l, None))

ListPlants(r, rows) ==
  LET o == OffsetFromCursor(Given(r.query, "cursor", None))
      l == r.query["limit"]
      last == LastPageOffset(Len(rows), l)
  IN IF o = ParamError THEN Refusal
     ELSE Page(PageAt(rows, o, l),
               Paginate(r, None, "cursor",
                 [next |-> IF o + l < Len(rows) THEN EncodeCursor(o + l) ELSE None,
                  prev |-> IF o > 0 THEN EncodeCursor(LargeOf(0, o - l)) ELSE None,
                  last |-> IF last > o THEN EncodeCursor(last) ELSE None],
                 o > 0, l))

(* Mutant: the criteria are not restated. *)
SearchForgetting(r, rows) ==
  LET o == Given(r.body, "offset", 0)  l == r.body["limit"]
      base == [offset |-> o, limit |-> l]
  IN Page(PageAt(rows, o, l),
          Paginate(r, base, "offset",
            [next |-> IF o + l < Len(rows) THEN o + l ELSE None,
             prev |-> IF o > 0 THEN LargeOf(0, o - l) ELSE None], o > 0, l))

(* The server keeps nothing of a search: its links restate the criteria.   *)
SearchPlants(r, rows) ==
  LET o == Given(r.body, "offset", 0)  l == r.body["limit"]
      base == IF "name" \in DOMAIN r.body
              THEN [offset |-> o, limit |-> l, name |-> r.body["name"]]
              ELSE [offset |-> o, limit |-> l]
  IN Page(PageAt(rows, o, l),
          Paginate(r, base, "offset",
            [next |-> IF o + l < Len(rows) THEN o + l ELSE None,
             prev |-> IF o > 0 THEN LargeOf(0, o - l) ELSE None], o > 0, l))

Serve(h, r, allRows) ==
  LET rows == Matching(h, r, allRows)
  IN CASE h = "list_beds" -> ListBeds(r, rows)
       [] h = "list_plants" -> ListPlants(r, rows)
       [] h = "search_plants" -> SearchPlants(r, rows)
       [] h = "no_total" -> NoTotal(r, rows)

-----------------------------------------------------------------------------
(* Ids are texts and rows are listed in the order of the texts, '1000'     *)
(* before '101': the shorter is padded, and comes first if that leaves     *)
(* them alike.                                                             *)
Digits[n \in Nat] == IF n < 10 THEN 1 ELSE 1 + Digits[n \div 10]
TextBefore(a, b) ==
  LET Padded(n) == n * 10 ^ (LargeOf(Digits[a], Digits[b]) - Digits[n])
  IN Padded(a) < Padded(b) \/ (Padded(a) = Padded(b) /\ a < b)

Insert(id, rows) ==
  LET place == Cardinality({i \in DOMAIN rows : TextBefore(rows[i], id)})
  IN SubSeq(rows, 1, place) \o <<id>> \o SubSeq(rows, place + 1, Len(rows))

(* The plants of two tenants with seeds and of any other one, which also   *)
(* stands for the rows that do not grow.                                   *)
Tenants(h) == IF h \in {"list_plants", "search_plants"} THEN {"public", "acme", "other"} ELSE {"other"}
Seeds(tenant) == CASE tenant = "public" -> 1 .. 3 [] tenant = "acme" -> {10} [] OTHER -> {}
Stores ==
  [t \in {"public", "acme", "other"} |->
    {rows \in UNION {[1 .. n -> Seeds(t) \cup Ids] : n \in 0 .. Rows} :
       /\ \A i, j \in DOMAIN rows : i < j => TextBefore(rows[i], rows[j])
       /\ \A seed \in Seeds(t) : \E i \in DOMAIN rows : rows[i] = seed}]

(* First requests: the first page, or any other place a client kept or     *)
(* made up, past the end and between two pages too.                        *)
Get(query) == [method |-> "GET", query |-> query, body |-> << >>]
Tag == <<"a", "b">>
Cursors == {EncodeCursor(o) : o \in 0 .. Rows + 1}
           \cup {EncodeCursor(o) : o \in {Text, -1}} \cup {[json |-> "array"], [json |-> "broken"]}

ASSUME TokenAssumption == {None, Text, ParamError} \cap Nat = {} /\ None \notin Cursors

Search(body) == [method |-> "POST", query |-> [tag |-> Tag], body |-> body]
Starts(h) ==
  CASE h = "search_plants" ->
         {Search([offset |-> o, limit |-> l]) : o \in 0 .. Rows + 1, l \in Limits}
         \cup {Search([offset |-> o, limit |-> l, name |-> "even"]) : o \in 0 .. Rows + 1, l \in Limits}
    [] h = "list_plants" ->
         {Get([tag |-> Tag, limit |-> l]) : l \in Limits}
         \cup {Get([tag |-> Tag, limit |-> l, cursor |-> c]) : l \in Limits, c \in Cursors}
    [] OTHER -> {Get([tag |-> Tag, limit |-> l, offset |-> o]) : l \in Limits, o \in 0 .. Rows + 1}

Init ==
  /\ handler \in Handlers /\ rel \in {"next", "prev"}
  /\ \E t \in Tenants(handler) : store \in Stores[t]
  /\ req \in Starts(handler) /\ start = [req |-> req, rows |-> store]
  /\ seen = {} /\ pages = 0 /\ collected = << >> /\ outcome = "walking"

(* The counter is shared by all tenants, so a new id is any later one.     *)
CreatePlant ==
  /\ handler \in {"list_plants", "search_plants"} /\ outcome = "walking" /\ Len(store) < Rows
  /\ \E id \in Ids : (\A i \in DOMAIN store : store[i] < id) /\ store' = Insert(id, store)
  /\ UNCHANGED <<handler, rel, start, req, seen, pages, collected, outcome>>

(* What tells two requests apart: a POST goes to one url with many bodies. *)
Marker(r) == IF r.method = "POST" THEN <<r.query, r.body>> ELSE <<r.query>>

Stop(why) == outcome' = why /\ UNCHANGED <<handler, rel, store, start, req, seen, pages, collected>>

Revisit == outcome = "walking" /\ Marker(req) \in seen /\ Stop("loop")
Runaway == outcome = "walking" /\ Marker(req) \notin seen /\ pages = MaxPages /\ Stop("runaway")

(* Mutant: a walk without its guards. *)
FetchUnguarded ==
  /\ outcome = "walking"
  /\ LET page == Serve(handler, req, store) IN
       \E next \in {l.to : l \in {m \in page.links : m.rel = rel}} \cup {req} :
         req' = next
  /\ UNCHANGED <<handler, rel, store, start, seen, pages, collected, outcome>>

Fetch ==
  /\ outcome = "walking" /\ Marker(req) \notin seen /\ pages < MaxPages
  /\ seen' = seen \cup {Marker(req)} /\ pages' = pages + 1
  /\ LET page == Serve(handler, req, store)
         follow == {l.to : l \in {m \in page.links : m.rel = rel}}
     IN /\ collected' = collected \o page.items
        /\ \/ page.status # 200 /\ outcome' = "refused" /\ req' = req
           \/ page.status = 200 /\ follow = {} /\ outcome' = "done" /\ req' = req
           \/ page.status = 200 /\ req' \in follow /\ outcome' = outcome
  /\ UNCHANGED <<handler, rel, store, start>>

Over == outcome # "walking" /\ UNCHANGED vars

Next == CreatePlant \/ Revisit \/ Runaway \/ Fetch \/ Over

Spec == Init /\ [][Next]_vars /\ WF_vars(Revisit \/ Runaway \/ Fetch)

-----------------------------------------------------------------------------
Offset(r) ==
  CASE handler = "search_plants" -> Given(r.body, "offset", 0)
    [] handler = "list_plants" -> OffsetFromCursor(Given(r.query, "cursor", None))
    [] OTHER -> Given(r.query, "offset", 0)
Limit == IF handler = "search_plants" THEN start.req.body["limit"] ELSE start.req.query["limit"]
Target == Matching(handler, start.req, store)
Had == Matching(handler, start.req, start.rows)
Collected == {collected[j] : j \in DOMAIN collected}
OutOfReach ==
  IF handler = "search_plants" THEN {store[j] : j \in SearchCap + 1 .. Len(store)} ELSE {}
NewRowsWentLast ==
  /\ SubSeq(store, 1, Len(start.rows)) = start.rows
  /\ \A j \in Len(start.rows) + 1 .. Len(store) - 1 : store[j] < store[j + 1]

(* A walk by `next`, rows being created meanwhile, is never taken for a    *)
(* loop.  While new rows go last, what it collects is at every moment a    *)
(* run of the matching rows from its first offset on: none twice, none     *)
(* left out, none that the search did not ask for.  Wherever the new rows  *)
(* go, when it is done it has all the rows that there were at the start    *)
(* but those that are past the cap of the search by then.                  *)
NextWalkTakesEachRowOnce ==
  rel = "next" /\ Offset(start.req) # ParamError =>
    LET o == Offset(start.req) IN
    /\ outcome \notin {"loop", "refused"}
    /\ NewRowsWentLast => collected = SubSeq(Target, o + 1, o + Len(collected))
    /\ outcome = "done" => \A i \in o + 1 .. Len(Had) : Had[i] \in Collected \cup OutOfReach

(* A walk by `prev`, from a page that need not be aligned or may lie past  *)
(* the end, is done at the first row and has left out none of the rows     *)
(* that were listed, unless a new row pushed one past the page that was to *)
(* hold it.                                                                *)
PrevWalkReachesTheFirstRow ==
  rel = "prev" /\ outcome = "done" /\ Offset(start.req) # ParamError /\ NewRowsWentLast =>
    \A i \in 1 .. SmallOf(Offset(start.req) + Limit, Len(Had)) : Had[i] \in Collected

(* From any page, aligned or not, `last` leads to a page that holds the    *)
(* last row and has no `next`.                                             *)
LastLinkEndsTheCollection ==
  \A l \in Serve(handler, req, store).links :
    l.rel = "last" =>
      LET page == Serve(handler, l.to, store) IN
      /\ Target # << >> => page.items # << >> /\ page.items[Len(page.items)] = Target[Len(Target)]
      /\ \A m \in page.links : m.rel # "next"

(* Every walk ends, on a server that never stops offering `next` as well.  *)
WalksEnd == <>(outcome # "walking")
=============================================================================
