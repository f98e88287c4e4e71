----------------------------- MODULE CallsProofs -----------------------------
(***************************************************************************)
(* Proofs about the parts of gazebo that an application calls, for any     *)
(* values of their constants.                                              *)
(***************************************************************************)
EXTENDS MCCalls, PaginationProofs

(* A step is one of the part the behaviour is about; the others stand still.*)
LEMMA OnePartMoves ==
  ASSUME [MCNext]_allVars
  PROVE  /\ UNCHANGED <<part, call>>
         /\ (part = "pages" /\ Next) \/ UNCHANGED pagesVars
         /\ (part = "get" /\ G!Next) \/ UNCHANGED getVars
         /\ (part = "sort" /\ S!Next) \/ UNCHANGED sortVars
         /\ (part = "launch" /\ L!Next) \/ UNCHANGED launchVars
         /\ (part = "assembly" /\ A!Next) \/ UNCHANGED assemblyVars
BY DEF MCNext, allVars

-----------------------------------------------------------------------------
(* Conditional requests.  Each copy has the tag of its own content, and no *)
(* copy is dated after the last change.                                    *)
DatesUpTo(n) == {None} \cup 0 .. G!HttpDate(n)
CopiesInv ==
  /\ now \in Nat /\ resource.modified \in 0 .. now
  /\ part = "get" => resource.content \in Contents
  /\ \A c \in copies :
       /\ c.content \in Contents
       /\ c.etag = None \/ \E weak \in BOOLEAN : c.etag = [weak |-> weak, of |-> c.content]
       /\ c.date \in DatesUpTo(resource.modified)

GetInv == CopiesInv /\ NotModifiedIsTrue

(* Seconds do not go back. *)
LEMMA DatesGrow ==
  ASSUME NEW m \in Nat, NEW n \in Nat, m <= n
  PROVE  /\ G!HttpDate(m) \in Nat /\ G!HttpDate(n) \in Nat
         /\ G!HttpDate(m) <= G!HttpDate(n) /\ DatesUpTo(m) \subseteq DatesUpTo(n)
<1>1. Ticks \in Nat \ {0}
  BY GetAssumption
<1>2. m \div Ticks \in Nat /\ n \div Ticks \in Nat
  BY <1>1
<1>3. m \div Ticks <= n \div Ticks
  BY <1>1
<1> QED
  BY <1>2, <1>3 DEF G!HttpDate, DatesUpTo

(* What a 200 is kept as. *)
LEMMA KeptIsDated ==
  ASSUME CopiesInv, part = "get", NEW weak \in BOOLEAN, copies' \in G!Kept(weak),
         UNCHANGED <<part, now, resource>>
  PROVE  CopiesInv'
<1> DEFINE sent == G!Validators(weak)
           copy == [content |-> resource.content, etag |-> sent.etag, date |-> sent.date]
<1>1. \A c \in copies' : c \in copies \/ c = copy
  BY DEF G!Kept
<1>2. sent.etag = None \/ sent.etag = [weak |-> weak, of |-> resource.content]
  BY DEF G!Validators, G!Etag, G!EtagFor
<1>3. G!HttpDate(resource.modified) \in Nat
  BY DatesGrow DEF CopiesInv
<1>4. sent.date = None \/ sent.date = G!HttpDate(resource.modified)
  BY DEF G!Validators, G!Modified
<1>5. sent.date \in DatesUpTo(resource.modified)
  BY <1>3, <1>4 DEF DatesUpTo
<1> HIDE DEF sent
<1>6. /\ copy.content \in Contents
      /\ copy.etag = None \/ \E w \in BOOLEAN : copy.etag = [weak |-> w, of |-> copy.content]
      /\ copy.date \in DatesUpTo(resource.modified)
  BY <1>2, <1>5 DEF CopiesInv
<1> QED
  BY <1>1, <1>6 DEF CopiesInv

LEMMA ClientStands ==
  ASSUME GetInv, UNCHANGED getVars, UNCHANGED part
  PROVE  GetInv'
BY DEF GetInv, CopiesInv, NotModifiedIsTrue, G!NotModifiedIsTrue, getVars

LEMMA TickKeeps ==
  ASSUME GetInv, part = "get", UNCHANGED part, G!Tick
  PROVE  GetInv'
<1>1. UNCHANGED <<resource, copies, exchange>> /\ now' = now + 1
  BY DEF G!Tick
<1>2. CopiesInv'
  BY <1>1 DEF GetInv, CopiesInv
<1> QED
  BY <1>1, <1>2 DEF GetInv, NotModifiedIsTrue, G!NotModifiedIsTrue

LEMMA ModifyKeeps ==
  ASSUME GetInv, part = "get", UNCHANGED part, G!Modify
  PROVE  GetInv'
<1>1. PICK d \in Contents : resource' = [content |-> d, modified |-> now]
  BY DEF G!Modify
<1>2. UNCHANGED <<now, copies>> /\ exchange' = None
  BY DEF G!Modify
<1>3. resource'.content = d /\ resource'.modified = now
  BY <1>1
<1>4. now \in Nat /\ resource.modified \in Nat /\ resource.modified <= now
  BY DEF GetInv, CopiesInv
<1>5. DatesUpTo(resource.modified) \subseteq DatesUpTo(now)
  BY <1>4, DatesGrow
<1>6. CopiesInv'
  BY <1>2, <1>3, <1>4, <1>5 DEF GetInv, CopiesInv
<1> QED
  BY <1>2, <1>6 DEF GetInv, NotModifiedIsTrue, G!NotModifiedIsTrue

LEMMA GetKeeps ==
  ASSUME GetInv, part = "get", UNCHANGED part, G!Get
  PROVE  GetInv'
<1>1. CopiesInv'
  BY KeptIsDated DEF G!Get, GetInv
<1> QED
  BY <1>1 DEF G!Get, GetInv, NotModifiedIsTrue, G!NotModifiedIsTrue

(* The tag of a copy is that of its content. *)
LEMMA TagsOfContent ==
  ASSUME GetInv, NEW c \in copies, c.etag # None
  PROVE  c.etag.of = c.content /\ c.etag # Asterisk
<1>1. c.content \in Contents
  BY DEF GetInv, CopiesInv
<1>2. PICK w \in BOOLEAN : c.etag = [weak |-> w, of |-> c.content]
  BY DEF GetInv, CopiesInv
<1> QED
  BY <1>1, <1>2, GetAssumption

(* A list of tags that satisfies If-None-Match has one of the resource as  *)
(* it is.                                                                  *)
LEMMA TagsAreTrue ==
  ASSUME GetInv, part = "get", NEW asked \in SUBSET copies, NEW weak \in BOOLEAN,
         NEW method, NEW date, NEW header,
         header = {c.etag : c \in asked} \ {None}, header # None,
         G!IsNotModified(method, G!Etag(weak), G!Modified, header, date)
  PROVE  \E c \in asked : c.etag # None /\ c.etag.of = G!Etag(weak).of
<1>1. G!Etag(weak) # None /\ G!IfNoneMatchSatisfied(G!Etag(weak), header)
  BY DEF G!IsNotModified
<1>3. \A c \in asked : c.etag = None \/ c.etag # Asterisk
  BY TagsOfContent
<1>4. header # {Asterisk}
  BY <1>3
<1>5. PICK tag \in header : tag.of = G!Etag(weak).of
  BY <1>1, <1>4 DEF G!IfNoneMatchSatisfied, G!NormalizeEtag
<1>6. PICK c \in asked : c.etag = tag /\ tag # None
  BY <1>5
<1> QED
  BY <1>5, <1>6

(* A date that satisfies If-Modified-Since is that of the last change.     *)
LEMMA DatesAreTrue ==
  ASSUME GetInv, part = "get", NEW weak \in BOOLEAN, NEW method,
         NEW date \in DatesUpTo(resource.modified) \cup {Text},
         G!IsNotModified(method, G!Etag(weak), G!Modified, None, date)
  PROVE  date = G!HttpDate(resource.modified)
<1>1. /\ date # None /\ G!Modified # None /\ G!ParseHttpDate(date) # None
      /\ (G!Modified \div Ticks) * Ticks <= G!ParseHttpDate(date)
  BY DEF G!IsNotModified
<1>2. G!Modified = resource.modified
  BY <1>1 DEF G!Modified
<1>3. resource.modified \in Nat /\ Ticks \in Nat \ {0}
  BY GetAssumption DEF GetInv, CopiesInv
<1>4. G!HttpDate(resource.modified) = resource.modified \div Ticks
  BY DEF G!HttpDate
<1>5. resource.modified \div Ticks \in Nat
  BY <1>3
<1>6. date \in 0 .. (resource.modified \div Ticks)
  <2>1. date # Text
    BY <1>1, GetAssumption DEF G!ParseHttpDate
  <2> QED
    BY <1>1, <1>4, <2>1 DEF DatesUpTo
<1>7. G!ParseHttpDate(date) = date * Ticks
  BY <1>6 DEF G!ParseHttpDate
<1>8. \A a, b \in Nat : a * Ticks <= b * Ticks => a <= b
  BY <1>3
<1> QED
  BY <1>1, <1>2, <1>4, <1>5, <1>6, <1>7, <1>8

LEMMA RevalidateKeeps ==
  ASSUME GetInv, part = "get", UNCHANGED part, G!Revalidate
  PROVE  GetInv'
<1> DEFINE by(header) == IF header = None THEN "date"
                         ELSE IF header = {Asterisk} THEN "any" ELSE "tag"
           Exchange(asked, weak, method, header, date) ==
             LET unmodified == G!IsNotModified(method, G!Etag(weak), G!Modified, header, date)
                 meant == IF header # None
                          THEN {c \in asked : c.etag # None /\ c.etag.of = G!Etag(weak).of}
                          ELSE {c \in asked : c.date = date}
             IN /\ exchange' = [status |-> IF unmodified THEN 304 ELSE 200, by |-> by(header),
                                stands |-> IF unmodified THEN meant ELSE {}]
                /\ IF unmodified \/ method # "GET" THEN copies' = copies
                   ELSE copies' \in G!Kept(weak)
                /\ UNCHANGED <<offers, now, resource>>
<1>0. PICK asked \in SUBSET copies \ {{}}, weak \in BOOLEAN, method \in {"GET", "HEAD", "POST"} :
        \E header \in {None, {Asterisk}, {c.etag : c \in asked} \ {None}} \ {{}},
           date \in {None, Text} \cup {c.date : c \in asked} : Exchange(asked, weak, method, header, date)
  BY DEF G!Revalidate
<1>1. PICK header \in {None, {Asterisk}, {c.etag : c \in asked} \ {None}} \ {{}},
           date \in {None, Text} \cup {c.date : c \in asked} : Exchange(asked, weak, method, header, date)
  BY <1>0
<1>2. UNCHANGED <<now, resource>> /\ (copies' = copies \/ copies' \in G!Kept(weak))
  BY <1>1
<1>3. CopiesInv'
  <2>1. CASE copies' = copies
    BY <1>2, <2>1 DEF GetInv, CopiesInv
  <2>2. CASE copies' \in G!Kept(weak)
    BY <1>2, <2>2, KeptIsDated DEF GetInv
  <2> QED
    BY <1>2, <2>1, <2>2
<1> DEFINE unmodified == G!IsNotModified(method, G!Etag(weak), G!Modified, header, date)
           byTag == {c \in asked : c.etag # None /\ c.etag.of = G!Etag(weak).of}
           byDate == {c \in asked : c.date = date}
<1>4. exchange' = [status |-> IF unmodified THEN 304 ELSE 200, by |-> by(header),
                   stands |-> IF unmodified THEN (IF header # None THEN byTag ELSE byDate) ELSE {}]
  BY <1>1
<1>5. ASSUME unmodified, header # None
      PROVE  /\ header # {Asterisk} => byTag # {}
             /\ \A c \in byTag : c.content = resource.content
  <2>1. ASSUME header # {Asterisk} PROVE byTag # {}
    <3>1. header = {c.etag : c \in asked} \ {None} /\ asked \in SUBSET copies
      BY <1>5, <2>1
    <3> QED
      BY <1>5, <2>1, <3>1, TagsAreTrue
  <2>2. G!Etag(weak).of = resource.content
    <3>1. G!Etag(weak) # None
      BY <1>5 DEF G!IsNotModified
    <3> QED
      BY <3>1 DEF G!Etag, G!EtagFor
  <2> QED
    BY <2>1, <2>2, TagsOfContent
<1>6. ASSUME unmodified, header = None
      PROVE  byDate # {} /\ \A c \in byDate : c.date = G!HttpDate(resource.modified)
  <2>1. date # None /\ date # Text
    BY <1>6, GetAssumption DEF G!IsNotModified, G!ParseHttpDate
  <2>2. PICK d \in asked : d.date = date
    BY <2>1
  <2>3. date \in DatesUpTo(resource.modified)
    BY <2>2 DEF GetInv, CopiesInv
  <2>4. date = G!HttpDate(resource.modified)
    BY <1>6, <2>3, DatesAreTrue
  <2> QED
    BY <2>2, <2>4
<1> HIDE DEF unmodified, byTag, byDate
<1>7. NotModifiedIsTrue'
  <2> SUFFICES ASSUME exchange'.status = 304
               PROVE  /\ exchange'.by # "any" => exchange'.stands # {}
                      /\ \A c \in exchange'.stands :
                           \/ c.content = resource'.content
                           \/ exchange'.by = "date" /\ c.date = G!HttpDate(resource.modified)'
    BY DEF NotModifiedIsTrue, G!NotModifiedIsTrue
  <2>1. G!HttpDate(resource.modified)' = G!HttpDate(resource.modified)
    BY <1>2
  <2>2. unmodified
    BY <1>4
  <2>3. CASE header # None
    <3>1. exchange'.stands = byTag /\ (exchange'.by # "any" => header # {Asterisk})
      BY <1>4, <2>2, <2>3
    <3> QED
      BY <1>2, <1>5, <2>2, <2>3, <3>1
  <2>4. CASE header = None
    <3>1. exchange'.stands = byDate /\ exchange'.by = "date"
      BY <1>4, <2>2, <2>4
    <3> QED
      BY <1>6, <2>1, <2>2, <2>4, <3>1
  <2> QED
    BY <2>3, <2>4
<1> QED
  BY <1>3, <1>7 DEF GetInv

(* Between any two steps the copies are dated and a 304 is true.           *)
THEOREM NotModifiedHolds == MCSpec => []NotModifiedIsTrue
<1>1. MCInit => GetInv
  <2>1. ASSUME part = "get", G!Init PROVE GetInv
    BY <2>1 DEF G!Init, GetInv, CopiesInv, NotModifiedIsTrue, G!NotModifiedIsTrue
  <2>2. ASSUME part # "get", NoClient PROVE GetInv
    BY <2>2 DEF NoClient, GetInv, CopiesInv, NotModifiedIsTrue, G!NotModifiedIsTrue
  <2> QED
    BY <2>1, <2>2 DEF MCInit
<1>2. GetInv /\ [MCNext]_allVars => GetInv'
  BY OnePartMoves, ClientStands, TickKeeps, ModifyKeeps, GetKeeps, RevalidateKeeps DEF G!Next
<1>3. GetInv => NotModifiedIsTrue
  BY DEF GetInv
<1> QED
  BY <1>1, <1>2, <1>3, PTL DEF MCSpec

-----------------------------------------------------------------------------
(* Sorting.  The proofs of SortBy are about any list of items.             *)
SP == INSTANCE SortByProofs

LEMMA SortStarts == SortInit => SP!IInv
<1>1. S!Init => SP!Init
  BY DEF S!Init, SP!Init, S!Items, SP!Items, S!Records, SP!Records, S!RawTerms, SP!RawTerms
<1> QED
  BY <1>1, SP!InitInv DEF SortInit

LEMMA SortKeeps ==
  ASSUME SP!IInv, S!Next \/ UNCHANGED sortVars
  PROVE  SP!IInv'
<1>1. S!Next => SP!Next
  BY DEF S!Next, S!Parse, S!ParseRaises, S!Apply, S!Return, S!input, S!GoodTerm, S!Parsed,
         S!StableSort, S!Precedes, S!Ties, S!KeyLess, S!Items,
         SP!Next, SP!Parse, SP!ParseRaises, SP!Apply, SP!Return, SP!input, SP!GoodTerm, SP!Parsed,
         SP!StableSort, SP!Precedes, SP!Ties, SP!KeyLess, SP!Items
<1>2. UNCHANGED sortVars => UNCHANGED SP!vars
  BY DEF sortVars, SP!vars, SP!input
<1> QED
  BY <1>1, <1>2, SP!ParseKeeps, SP!ApplyKeeps, SP!OtherKeeps DEF SP!Next

(* The items end up in the lexicographic order of the terms, whatever they *)
(* are and however many, and the list never loses or repeats one.          *)
THEOREM SortHolds == MCSpec => []SortIsLexicographic
<1> DEFINE Inv == part = "sort" => SP!IInv
<1>1. MCInit => Inv
  BY SortStarts DEF MCInit
<1>2. Inv /\ [MCNext]_allVars => Inv'
  BY OnePartMoves, SortKeeps
<1>3. Inv => SortIsLexicographic
  <2>1. S!SortIsLexicographic <=> SP!SortIsLexicographic
    BY DEF S!SortIsLexicographic, SP!SortIsLexicographic, S!StrictTotalOrder, SP!StrictTotalOrder,
           S!Belongs, SP!Belongs, S!Precedes, SP!Precedes, S!Ties, SP!Ties, S!KeyLess, SP!KeyLess,
           S!Items, SP!Items
  <2>2. SP!IInv => SP!SortIsLexicographic
    BY DEF SP!IInv, SP!OrderInv, SP!Ordered, SP!SortIsLexicographic
  <2> QED
    BY <2>1, <2>2 DEF SortIsLexicographic
<1> QED
  BY <1>1, <1>2, <1>3, PTL DEF MCSpec

-----------------------------------------------------------------------------
(* Assembly, for any handlers, signatures, routers and routes, and any     *)
(* order of registering them and upgrading the application.                *)
Routes == [name : Names, handler : Handlers1 \cup Routers, landing : BOOLEAN, injects : BOOLEAN,
           wired : SUBSET UNION Signatures]

AssemblyTypes ==
  /\ signature \in [Handlers1 -> Signatures]
  /\ landing \in [Routers -> [name : Names, rel : BOOLEAN]]
  /\ routes \in Seq(Routes) /\ specs \subseteq Routers
  /\ \A i \in DOMAIN routes : ~routes[i].landing => routes[i].handler \in Handlers1
  /\ stage \in {"building", "started", "RuntimeError"}

(* Each link of a landing page was made together with its route.           *)
LinksInv ==
  \A r \in specs : \E i \in DOMAIN routes :
    routes[i].name = landing[r].name /\ routes[i].handler = r

(* What startup has checked stays so: nothing is registered afterwards.    *)
CheckedInv == stage = "started" => A!RoutesValid /\ A!UniqueRouteNames

(* A route has what its handler is wired for by now, unless a later one    *)
(* rewrote the handler first.                                              *)
MissedInv ==
  \A i \in DOMAIN routes : ~routes[i].landing =>
    /\ routes[i].injects => routes[i].handler \in rewritten
    /\ routes[i].wired # A!Wired(routes[i].handler, rewritten) =>
         /\ ~routes[i].injects
         /\ \E j \in DOMAIN routes :
              j > i /\ routes[j].handler = routes[i].handler /\ routes[j].injects

AssemblyInv == AssemblyTypes /\ LinksInv /\ MissedInv /\ CheckedInv

(* Appending a route keeps the types and the links made before.            *)
LEMMA OneMoreRoute ==
  ASSUME AssemblyTypes, LinksInv, NEW route \in Routes,
         ~route.landing => route.handler \in Handlers1,
         routes' = Append(routes, route), UNCHANGED <<signature, landing, stage>>
  PROVE  /\ specs' \subseteq Routers => AssemblyTypes'
         /\ DOMAIN routes' = 1 .. Len(routes) + 1 /\ Len(routes) \in Nat
         /\ DOMAIN routes = 1 .. Len(routes) /\ \A i \in DOMAIN routes : routes'[i] = routes[i]
         /\ routes'[Len(routes) + 1] = route
         /\ \A r \in specs : \E i \in DOMAIN routes' :
              routes'[i].name = landing[r].name /\ routes'[i].handler = r
<1>1. routes \in Seq(Routes) /\ DOMAIN routes = 1 .. Len(routes) /\ Len(routes) \in Nat
  BY DEF AssemblyTypes
<1>2. /\ routes' \in Seq(Routes) /\ DOMAIN routes' = 1 .. Len(routes) + 1
      /\ \A i \in DOMAIN routes : routes'[i] = routes[i]
      /\ routes'[Len(routes) + 1] = route
  BY <1>1, AppendProperties, LenProperties
<1>3. \A i \in DOMAIN routes' : i \in DOMAIN routes \/ i = Len(routes) + 1
  BY <1>1, <1>2
<1>4. \A i \in DOMAIN routes' : ~routes'[i].landing => routes'[i].handler \in Handlers1
  BY <1>2, <1>3 DEF AssemblyTypes
<1>5. \A r \in specs : \E i \in DOMAIN routes' :
        routes'[i].name = landing[r].name /\ routes'[i].handler = r
  BY <1>1, <1>2 DEF LinksInv
<1> QED
  BY <1>1, <1>2, <1>4, <1>5 DEF AssemblyTypes

LEMMA AddRouteKeeps ==
  ASSUME AssemblyInv, NEW h \in Handlers1, NEW name \in Names, NEW kind \in {"gazebo", "app", "plain"},
         A!AddRoute(h, name, kind)
  PROVE  AssemblyInv'
<1> DEFINE rewrites == kind = "gazebo" \/ (kind = "app" /\ upgraded)
           flagged == IF rewrites THEN rewritten \cup {h} ELSE rewritten
           route == [name |-> name, handler |-> h, landing |-> FALSE, injects |-> rewrites,
                     wired |-> A!Wired(h, flagged)]
<1>1. /\ stage = "building" /\ routes' = Append(routes, route) /\ rewritten' = flagged
      /\ UNCHANGED <<signature, landing, stage, specs>>
  BY DEF A!AddRoute
<1>2. A!Wired(h, flagged) \in SUBSET UNION Signatures
  <2> HIDE DEF flagged
  <2>1. signature[h] \in Signatures
    BY DEF AssemblyInv, AssemblyTypes
  <2> QED
    BY <2>1 DEF A!Wired, A!Wires
<1>3. route \in Routes /\ route.handler \in Handlers1
  BY <1>2 DEF Routes
<1>4. /\ ~route.landing /\ route.handler = h /\ (route.injects <=> rewrites)
      /\ route.wired = A!Wired(h, flagged)
  OBVIOUS
<1>5. flagged = IF rewrites THEN rewritten \cup {h} ELSE rewritten
  OBVIOUS
<1> HIDE DEF route, flagged, rewrites
<1>6. /\ AssemblyTypes' /\ LinksInv'
      /\ DOMAIN routes' = 1 .. Len(routes) + 1 /\ Len(routes) \in Nat
      /\ DOMAIN routes = 1 .. Len(routes) /\ \A i \in DOMAIN routes : routes'[i] = routes[i]
      /\ routes'[Len(routes) + 1] = route
  BY <1>1, <1>3, OneMoreRoute DEF AssemblyInv, AssemblyTypes, LinksInv
<1>7. ASSUME NEW g
      PROVE  (g \in flagged <=> g \in rewritten) => A!Wired(g, flagged) = A!Wired(g, rewritten)
  BY DEF A!Wired, A!Wires
<1>8. ASSUME NEW i \in DOMAIN routes', ~routes'[i].landing
      PROVE  /\ routes'[i].injects => routes'[i].handler \in rewritten'
             /\ routes'[i].wired # A!Wired(routes[i].handler, rewritten)' =>
                  /\ ~routes'[i].injects
                  /\ \E j \in DOMAIN routes' :
                       j > i /\ routes'[j].handler = routes'[i].handler /\ routes'[j].injects
  <2>1. CASE i = Len(routes) + 1
    <3>1. routes'[i].handler = h /\ routes'[i].wired = A!Wired(h, flagged) /\ (rewrites => h \in flagged)
      BY <1>4, <1>5, <1>6, <2>1
    <3>2. A!Wired(routes[i].handler, rewritten)' = A!Wired(h, flagged)
      BY <1>1, <3>1 DEF A!Wired, A!Wires
    <3> QED
      BY <1>1, <1>4, <1>6, <2>1, <3>1, <3>2
  <2>2. CASE i \in DOMAIN routes
    <3>1. routes'[i] = routes[i] /\ ~routes[i].landing
      BY <1>6, <1>8, <2>2
    <3>2. /\ routes[i].injects => routes[i].handler \in rewritten
          /\ routes[i].wired # A!Wired(routes[i].handler, rewritten) =>
               /\ ~routes[i].injects
               /\ \E j \in DOMAIN routes :
                    j > i /\ routes[j].handler = routes[i].handler /\ routes[j].injects
      BY <2>2, <3>1 DEF AssemblyInv, MissedInv
    <3>3. CASE routes[i].handler = h /\ rewrites /\ h \notin rewritten
      <4>1. ~routes[i].injects
        BY <3>2, <3>3
      <4>2. Len(routes) + 1 \in DOMAIN routes' /\ Len(routes) + 1 > i
        BY <1>6, <2>2
      <4> QED
        BY <1>4, <1>6, <3>1, <3>3, <4>1, <4>2
    <3>4. CASE ~(routes[i].handler = h /\ rewrites /\ h \notin rewritten)
      <4>1. routes[i].handler \in flagged <=> routes[i].handler \in rewritten
        BY <1>5, <3>4
      <4>2. \A j \in DOMAIN routes : j \in DOMAIN routes' /\ routes'[j] = routes[j]
        BY <1>6
      <4>3. routes[i].injects => routes[i].handler \in rewritten'
        BY <1>1, <3>2, <4>1
      <4>4. A!Wired(routes[i].handler, rewritten)' = A!Wired(routes[i].handler, rewritten)
        BY <1>1, <3>1, <4>1 DEF A!Wired, A!Wires
      <4> QED
        BY <3>1, <3>2, <4>2, <4>3, <4>4
    <3> QED
      BY <3>3, <3>4
  <2> QED
    BY <1>6, <2>1, <2>2
<1>9. MissedInv'
  BY <1>8 DEF MissedInv
<1> QED
  BY <1>1, <1>6, <1>9 DEF AssemblyInv, CheckedInv

LEMMA IncludeKeeps ==
  ASSUME AssemblyInv, NEW r \in Routers, A!Include(r)
  PROVE  AssemblyInv'
<1> DEFINE route == [name |-> landing[r].name, handler |-> r, landing |-> TRUE, injects |-> TRUE,
                     wired |-> {}]
<1>1. /\ stage = "building" /\ routes' = Append(routes, route)
      /\ UNCHANGED <<signature, rewritten, landing, stage>> /\ specs' \subseteq specs \cup {r}
  BY DEF A!Include
<1>2. landing[r].name \in Names
  BY DEF AssemblyInv, AssemblyTypes
<1>3. route \in Routes /\ route.landing /\ route.name = landing[r].name /\ route.handler = r
  BY <1>2 DEF Routes
<1> HIDE DEF route
<1>4. /\ AssemblyTypes' /\ DOMAIN routes' = 1 .. Len(routes) + 1 /\ Len(routes) \in Nat
      /\ DOMAIN routes = 1 .. Len(routes) /\ \A i \in DOMAIN routes : routes'[i] = routes[i]
      /\ routes'[Len(routes) + 1] = route
      /\ \A q \in specs : \E i \in DOMAIN routes' :
           routes'[i].name = landing[q].name /\ routes'[i].handler = q
  BY <1>1, <1>3, OneMoreRoute DEF AssemblyInv, AssemblyTypes
<1>5. \E i \in DOMAIN routes' : routes'[i].name = landing[r].name /\ routes'[i].handler = r
  BY <1>3, <1>4
<1>6. LinksInv'
  BY <1>1, <1>4, <1>5 DEF LinksInv
<1>7. ASSUME NEW i \in DOMAIN routes', ~routes'[i].landing
      PROVE  /\ routes'[i].injects => routes'[i].handler \in rewritten'
             /\ routes'[i].wired # A!Wired(routes[i].handler, rewritten)' =>
                  /\ ~routes'[i].injects
                  /\ \E j \in DOMAIN routes' :
                       j > i /\ routes'[j].handler = routes'[i].handler /\ routes'[j].injects
  <2>1. i \in DOMAIN routes /\ routes'[i] = routes[i]
    BY <1>3, <1>4, <1>7
  <2>2. \A j \in DOMAIN routes : j \in DOMAIN routes' /\ routes'[j] = routes[j]
    BY <1>4
  <2>3. A!Wired(routes[i].handler, rewritten)' = A!Wired(routes[i].handler, rewritten)
    BY <1>1, <2>1 DEF A!Wired, A!Wires
  <2> QED
    BY <1>1, <1>7, <2>1, <2>2, <2>3 DEF AssemblyInv, MissedInv
<1>8. MissedInv'
  BY <1>7 DEF MissedInv
<1> QED
  BY <1>1, <1>4, <1>6, <1>8 DEF AssemblyInv, CheckedInv

LEMMA StartupKeeps ==
  ASSUME AssemblyInv, A!Startup
  PROVE  AssemblyInv'
<1>1. /\ UNCHANGED <<signature, rewritten, upgraded, routes, landing, specs>>
      /\ stage' = IF A!RoutesValid /\ A!UniqueRouteNames THEN "started" ELSE "RuntimeError"
  BY DEF A!Startup
<1>2. AssemblyTypes' /\ LinksInv'
  BY <1>1 DEF AssemblyInv, AssemblyTypes, LinksInv
<1>3. (A!RoutesValid <=> A!RoutesValid') /\ (A!UniqueRouteNames <=> A!UniqueRouteNames')
  BY <1>1 DEF A!RoutesValid, A!UniqueRouteNames, A!Wired, A!Wires
<1>4. MissedInv'
  BY <1>1 DEF AssemblyInv, MissedInv, A!Wired, A!Wires
<1> QED
  BY <1>1, <1>2, <1>3, <1>4 DEF AssemblyInv, CheckedInv

LEMMA OtherKeeps ==
  ASSUME AssemblyInv, A!Upgrade \/ UNCHANGED A!vars
  PROVE  AssemblyInv'
<1>1. /\ UNCHANGED <<signature, rewritten, routes, landing, specs, stage>>
  BY DEF A!Upgrade, A!vars
<1>2. (A!RoutesValid <=> A!RoutesValid') /\ (A!UniqueRouteNames <=> A!UniqueRouteNames')
  BY <1>1 DEF A!RoutesValid, A!UniqueRouteNames, A!Wired, A!Wires
<1>3. MissedInv'
  BY <1>1 DEF AssemblyInv, MissedInv, A!Wired, A!Wires
<1> QED
  BY <1>1, <1>2, <1>3 DEF AssemblyInv, AssemblyTypes, LinksInv, CheckedInv

(* What startup checked and still holds is what the property asks for.     *)
LEMMA CheckedAreWired ==
  AssemblyInv => A!MissedWereRewrittenLater /\ A!LinksLeadToTheirRouters
<1>1. ASSUME AssemblyInv, stage = "started", NEW i \in DOMAIN routes, ~routes[i].landing,
             A!Unwired(i) # {}
      PROVE  /\ ~routes[i].injects /\ \A p \in A!Unwired(i) : p.marked
             /\ \E j \in i + 1 .. Len(routes) :
                  routes[j].handler = routes[i].handler /\ routes[j].injects
  <2> DEFINE g == routes[i].handler
  <2>1. ASSUME NEW p \in A!Unwired(i)
        PROVE  p \in A!Wired(g, rewritten) /\ p \notin routes[i].wired
    BY <1>1, <2>1 DEF AssemblyInv, CheckedInv, A!RoutesValid, A!Candidate, A!Injectable, A!Bound, A!Unwired
  <2>2. \A p \in A!Unwired(i) : p.marked
    BY <2>1 DEF A!Wired, A!Wires, A!Injectable
  <2>3. routes[i].wired # A!Wired(g, rewritten)
    BY <1>1, <2>1
  <2>4. PICK j \in DOMAIN routes : j > i /\ routes[j].handler = g /\ routes[j].injects
    BY <1>1, <2>3 DEF AssemblyInv, MissedInv
  <2>5. DOMAIN routes = 1 .. Len(routes) /\ Len(routes) \in Nat
    BY <1>1 DEF AssemblyInv, AssemblyTypes
  <2>6. j \in i + 1 .. Len(routes)
    BY <2>4, <2>5
  <2>7. ~routes[i].injects
    BY <1>1, <2>3 DEF AssemblyInv, MissedInv
  <2> QED
    BY <2>2, <2>4, <2>6, <2>7
<1>2. ASSUME AssemblyInv, stage = "started", NEW r \in specs
      PROVE  \E i \in DOMAIN routes : routes[i].name = landing[r].name /\ routes[i].handler = r
                                      /\ A!RouteFor(landing[r].name) = i
  <2>1. PICK i \in DOMAIN routes : routes[i].name = landing[r].name /\ routes[i].handler = r
    BY <1>2 DEF AssemblyInv, LinksInv
  <2>2. DOMAIN routes = 1 .. Len(routes) /\ Len(routes) \in Nat
    BY <1>2 DEF AssemblyInv, AssemblyTypes
  <2>3. \A j \in DOMAIN routes : routes[j].name = landing[r].name => j = i
    BY <1>2, <2>1 DEF AssemblyInv, CheckedInv, A!UniqueRouteNames
  <2>4. \A j \in 1 .. i - 1 : j \in DOMAIN routes /\ j # i
    BY <2>1, <2>2
  <2>5. \A k : (/\ k \in DOMAIN routes /\ routes[k].name = landing[r].name
                /\ \A j \in 1 .. k - 1 : routes[j].name # landing[r].name) <=> k = i
    BY <2>1, <2>3, <2>4
  <2>6. A!RouteFor(landing[r].name) = i
    BY <2>5 DEF A!RouteFor
  <2> QED
    BY <2>1, <2>6
<1> QED
  BY <1>1, <1>2 DEF A!MissedWereRewrittenLater, A!LinksLeadToTheirRouters

LEMMA AssemblyKeeps ==
  ASSUME AssemblyInv, A!Next \/ UNCHANGED assemblyVars
  PROVE  AssemblyInv'
<1>1. UNCHANGED assemblyVars => UNCHANGED A!vars
  BY DEF assemblyVars, A!vars
<1> QED
  BY <1>1, AddRouteKeeps, IncludeKeeps, StartupKeeps, OtherKeeps DEF A!Next

(* Once started, a route leaves to FastAPI a parameter that the container  *)
(* should give only if its handler was rewritten after the route was made, *)
(* and every link of a landing page leads to the page of its router.       *)
THEOREM AssemblyHolds == MCSpec => []StartedRoutesAreWired
<1> DEFINE Inv == IF part = "assembly" THEN AssemblyInv ELSE stage = "none"
<1>1. MCInit => Inv
  <2>1. A!Init => AssemblyInv
    BY DEF A!Init, AssemblyInv, AssemblyTypes, LinksInv, MissedInv, CheckedInv
  <2> QED
    BY <2>1 DEF MCInit, AssemblyInit, NoAssembly
<1>2. Inv /\ [MCNext]_allVars => Inv'
  BY OnePartMoves, AssemblyKeeps DEF assemblyVars
<1>3. Inv => StartedRoutesAreWired
  <2>1. stage = "none" => A!MissedWereRewrittenLater /\ A!LinksLeadToTheirRouters
    BY DEF A!MissedWereRewrittenLater, A!LinksLeadToTheirRouters
  <2> QED
    BY <2>1, CheckedAreWired DEF StartedRoutesAreWired
<1> QED
  BY <1>1, <1>2, <1>3, PTL DEF MCSpec

-----------------------------------------------------------------------------
(* The serve command.  Todo are the options a command line may give.       *)
Todo == L!Options \X ({0, 1} \cup {Bad})

CommandInv ==
  /\ DOMAIN command = {"n", "phase", "todo", "check", "temp", "operator", "argv"}
  /\ command.n \in 0 .. MaxCommands /\ command.todo \in Seq(Todo)
  /\ command.phase \in {"composing", "ValueError", "idle", "parsing", "serving"}
  /\ command.phase \in {"parsing", "serving"} =>
       \E path \in {None, <<"path">>}, author \in {None, <<"author">>} :
         /\ command.operator \in {None, <<"operator">>}
         /\ command.argv = L!Argv(path, author, command.operator, command.n)
         /\ command.temp <=> path = None

(* The environment is what it was at first, but for the options passed.    *)
EnvInv ==
  /\ env \in [Fields -> {None, 0, 1}] /\ passed \in [Fields -> {None, 0, 1}]
  /\ \A f \in Fields : env[f] = IF passed[f] # None THEN passed[f] ELSE first[f]
  /\ \A f \in Fields : passed[f] # None => f \in L!Options

(* There are workers, and a temporary file, only while uvicorn runs.       *)
ServingInv ==
  /\ \A w \in Workers : workers[w] # None => command.phase = "serving"
  /\ files = IF command.phase = "serving" /\ command.temp THEN {<<"temp", command.n>>} ELSE {}

LaunchInv ==
  /\ CommandInv /\ EnvInv /\ ServingInv
  /\ workers = [w \in Workers |-> workers[w]] /\ WorkersReadTheirCommand

(* click takes the last --log-config: the operator's, if there is one, else *)
(* the author's or the injected one.                                       *)
LEMMA LastLogConfig ==
  ASSUME NEW path \in {None, <<"path">>}, NEW author \in {None, <<"author">>},
         NEW operator \in {None, <<"operator">>}, NEW n
  PROVE  LET argv == L!Argv(path, author, operator, n)  log == argv[Len(argv)]
         IN /\ operator # None => log = operator
            /\ log \in {<<"operator">>, <<"author">>, <<"path">>} \ {None}
               \/ (path = None /\ log = <<"temp", n>>)
<1> DEFINE injected == IF path = None THEN <<"temp", n>> ELSE path
<1>1. L!Argv(path, author, operator, n) = <<injected>> \o L!Given(author) \o L!Given(operator)
  BY DEF L!Argv
<1> HIDE DEF injected
<1>2. CASE operator # None
  BY <1>1, <1>2 DEF L!Given
<1>3. CASE operator = None /\ author # None
  BY <1>1, <1>3 DEF L!Given
<1>4. CASE operator = None /\ author = None
  BY <1>1, <1>4 DEF L!Given, injected
<1> QED
  BY <1>2, <1>3, <1>4

(* A step that leaves the environment and the workers alone, and does not  *)
(* end the serving.                                                        *)
LEMMA SameWorkers ==
  ASSUME LaunchInv, UNCHANGED <<fields, first, env, passed, files, workers>>,
         CommandInv', command.phase # "serving", command'.phase # "serving"
  PROVE  LaunchInv'
<1>1. L!Options' = L!Options
  BY DEF L!Options
<1>2. EnvInv'
  BY <1>1 DEF LaunchInv, EnvInv
<1>3. \A w \in Workers : workers[w] = None
  BY DEF LaunchInv, ServingInv
<1>4. files = {}
  BY DEF LaunchInv, ServingInv
<1>5. ServingInv'
  BY <1>3, <1>4 DEF ServingInv
<1>6. WorkersReadTheirCommand'
  BY <1>3, <1>4 DEF WorkersReadTheirCommand, L!WorkersSeeWhatWasPassed, L!LogConfigOutlivesWorkers
<1> QED
  BY <1>2, <1>5, <1>6 DEF LaunchInv

LEMMA ComposeKeeps == ASSUME LaunchInv, L!Compose PROVE LaunchInv'
<1>1. /\ command.phase = "composing" /\ UNCHANGED <<fields, first, env, passed, files, workers>>
      /\ command' = [command EXCEPT !.phase = IF L!GroupsValid THEN "idle" ELSE "ValueError"]
  BY DEF L!Compose
<1>2. L!Options' = L!Options
  BY <1>1 DEF L!Options
<1>3. CommandInv'
  BY <1>1, <1>2 DEF LaunchInv, CommandInv, Todo
<1> QED
  BY <1>1, <1>3, SameWorkers

LEMMA InvokeKeeps == ASSUME LaunchInv, L!Invoke PROVE LaunchInv'
<1> DEFINE Line(k, check, path, author, operator, todo) ==
             command' = [n |-> command.n + 1, phase |-> "parsing", todo |-> todo, check |-> check,
                         temp |-> path = None, operator |-> operator,
                         argv |-> L!Argv(path, author, operator, command.n + 1)]
<1>0. PICK k \in 0 .. L!Cardinality(L!Options), check \in BOOLEAN, path \in {None, <<"path">>},
           author \in {None, <<"author">>}, operator \in {None, <<"operator">>} :
        \E todo \in [1 .. k -> L!Options \X ({0, 1} \cup {Bad})] :
          /\ \A i, j \in 1 .. k : i # j => todo[i][1] # todo[j][1]
          /\ Line(k, check, path, author, operator, todo)
  BY Zenon DEF L!Invoke
<1>1. k \in Nat /\ \E todo \in [1 .. k -> Todo] : Line(k, check, path, author, operator, todo)
  <2> HIDE DEF Line
  <2> QED
    BY <1>0 DEF Todo
<1>2. PICK todo \in [1 .. k -> Todo] : Line(k, check, path, author, operator, todo)
  <2> HIDE DEF Line
  <2> QED
    BY <1>1, Zenon
<1>3. /\ command.phase = "idle" /\ command.n < MaxCommands
      /\ UNCHANGED <<fields, first, env, passed, files, workers>>
  BY DEF L!Invoke
<1>4. todo \in Seq(Todo)
  BY <1>2, IsASeq
<1>5. Todo' = Todo
  BY <1>3 DEF Todo, L!Options
<1>6. command.n + 1 \in 0 .. MaxCommands
  BY <1>3, LaunchAssumption DEF LaunchInv, CommandInv
<1> DEFINE argv == L!Argv(path, author, operator, command.n + 1)
<1>7. command' = [n |-> command.n + 1, phase |-> "parsing", todo |-> todo, check |-> check,
                  temp |-> path = None, operator |-> operator, argv |-> argv]
  BY <1>2
<1>8. /\ DOMAIN command' = {"n", "phase", "todo", "check", "temp", "operator", "argv"}
      /\ command'.n = command.n + 1 /\ command'.phase = "parsing" /\ command'.todo = todo
      /\ command'.operator = operator /\ command'.temp = (path = None)
      /\ command'.argv = argv
  <2> HIDE DEF argv
  <2> QED
    BY <1>7
<1>9. CommandInv'
  <2>1. command'.argv = L!Argv(path, author, command'.operator, command'.n)
    BY <1>8
  <2>2. command'.n \in 0 .. MaxCommands /\ command'.todo \in Seq(Todo')
    BY <1>4, <1>5, <1>6, <1>8
  <2> QED
    BY <1>8, <2>1, <2>2 DEF CommandInv
<1> QED
  BY <1>3, <1>8, <1>9, SameWorkers

(* The steps of a command that only change its phase.                      *)
LEMMA EndOfParsingKeeps ==
  ASSUME LaunchInv, L!Refuse \/ L!RunCheck
  PROVE  LaunchInv'
<1>1. /\ command.phase = "parsing" /\ command' = [command EXCEPT !.phase = "idle"]
      /\ UNCHANGED <<fields, first, env, passed, files, workers>>
  BY DEF L!Refuse, L!RunCheck, L!Parsed
<1>2. L!Options' = L!Options
  BY <1>1 DEF L!Options
<1>3. CommandInv' /\ command'.phase = "idle"
  BY <1>1, <1>2 DEF LaunchInv, CommandInv, Todo
<1> QED
  BY <1>1, <1>3, SameWorkers

LEMMA PassOptionKeeps == ASSUME LaunchInv, L!PassOption PROVE LaunchInv'
<1> DEFINE f == Head(command.todo)[1]
           v == Head(command.todo)[2]
<1>1. /\ command.phase = "parsing" /\ command.todo # << >> /\ v # Bad
      /\ env' = [env EXCEPT ![f] = v] /\ passed' = [passed EXCEPT ![f] = v]
      /\ command' = [command EXCEPT !.todo = Tail(@)]
      /\ UNCHANGED <<fields, first, files, workers>>
  BY DEF L!PassOption
<1>2. /\ Head(command.todo) \in Todo /\ Tail(command.todo) \in Seq(Todo)
  BY <1>1, HeadTailProperties DEF LaunchInv, CommandInv
<1>3. f \in L!Options /\ f \in Fields /\ v \in {0, 1} /\ v # None
  BY <1>1, <1>2, GetAssumption DEF Todo, L!Options
<1> HIDE DEF f, v
<1>4. L!Options' = L!Options
  BY <1>1 DEF L!Options
<1>5. EnvInv'
  BY <1>1, <1>3, <1>4 DEF LaunchInv, EnvInv
<1>6. CommandInv' /\ command'.phase = "parsing"
  BY <1>1, <1>2, <1>4 DEF LaunchInv, CommandInv, Todo
<1>7. (\A w \in Workers : workers[w] = None) /\ files = {}
  BY <1>1 DEF LaunchInv, ServingInv
<1>8. ServingInv' /\ WorkersReadTheirCommand'
  BY <1>1, <1>6, <1>7 DEF ServingInv, WorkersReadTheirCommand, L!WorkersSeeWhatWasPassed,
                          L!LogConfigOutlivesWorkers
<1> QED
  BY <1>1, <1>5, <1>6, <1>8 DEF LaunchInv

(* serve writes the temporary file before any worker can start.            *)
LEMMA ServeKeeps == ASSUME LaunchInv, L!Serve PROVE LaunchInv'
<1>1. /\ command.phase = "parsing" /\ command' = [command EXCEPT !.phase = "serving"]
      /\ files' = IF command.temp THEN files \cup {<<"temp", command.n>>} ELSE files
      /\ UNCHANGED <<fields, first, env, passed, workers>>
  BY DEF L!Serve, L!Parsed
<1>2. L!Options' = L!Options
  BY <1>1 DEF L!Options
<1>3. command'.phase = "serving" /\ command'.n = command.n /\ command'.temp = command.temp
  BY <1>1 DEF LaunchInv, CommandInv
<1>4. CommandInv'
  BY <1>1, <1>2 DEF LaunchInv, CommandInv, Todo
<1>5. EnvInv'
  BY <1>1, <1>2 DEF LaunchInv, EnvInv
<1>6. (\A w \in Workers : workers[w] = None) /\ files = {}
  BY <1>1 DEF LaunchInv, ServingInv
<1>7. ServingInv'
  BY <1>1, <1>3, <1>6 DEF ServingInv
<1>8. WorkersReadTheirCommand'
  BY <1>1, <1>3, <1>6 DEF WorkersReadTheirCommand, L!WorkersSeeWhatWasPassed, L!LogConfigOutlivesWorkers
<1> QED
  BY <1>1, <1>4, <1>5, <1>7, <1>8 DEF LaunchInv

(* What a worker that starts now reads.                                    *)
LEMMA WorkerReads ==
  ASSUME LaunchInv, command.phase = "serving"
  PROVE  LET log == command.argv[Len(command.argv)] IN
         /\ (IF log[1] = "temp" /\ log \notin files THEN None ELSE log) # None
         /\ command.operator # None =>
              (IF log[1] = "temp" /\ log \notin files THEN None ELSE log) = command.operator
         /\ \A f \in Fields :
              L!Resolve(f) = IF passed[f] # None /\ ~fields[f].secret THEN passed[f]
                             ELSE IF first[f] # None THEN first[f] ELSE fields[f].default
<1> DEFINE log == command.argv[Len(command.argv)]
<1>1. PICK path \in {None, <<"path">>}, author \in {None, <<"author">>} :
        /\ command.operator \in {None, <<"operator">>}
        /\ command.argv = L!Argv(path, author, command.operator, command.n)
        /\ command.temp <=> path = None
  BY DEF LaunchInv, CommandInv
<1>2. /\ command.operator # None => log = command.operator
      /\ log \in {<<"operator">>, <<"author">>, <<"path">>} \ {None}
         \/ (path = None /\ log = <<"temp", command.n>>)
  BY <1>1, LastLogConfig
<1>3. command.temp => files = {<<"temp", command.n>>}
  BY DEF LaunchInv, ServingInv
<1>4. <<"temp", command.n>> # None
  BY LaunchAssumption DEF LaunchInv, CommandInv
<1>5. \A f \in Fields :
        L!Resolve(f) = IF passed[f] # None /\ ~fields[f].secret THEN passed[f]
                       ELSE IF first[f] # None THEN first[f] ELSE fields[f].default
  BY DEF LaunchInv, EnvInv, L!Resolve, L!Options
<1> HIDE DEF log
<1>6. (IF log[1] = "temp" /\ log \notin files THEN None ELSE log) = log /\ log # None
  <2>1. CASE log \in {<<"operator">>, <<"author">>, <<"path">>} \ {None}
    BY <2>1
  <2>2. CASE path = None /\ log = <<"temp", command.n>>
    BY <1>1, <1>3, <1>4, <2>2
  <2> QED
    BY <1>2, <2>1, <2>2
<1> QED
  BY <1>2, <1>5, <1>6 DEF log

LEMMA WorkerStartsKeeps ==
  ASSUME LaunchInv, NEW w \in Workers, L!WorkerStarts(w)
  PROVE  LaunchInv'
<1> DEFINE settings == IF L!Resolves THEN [f \in Fields |-> L!Resolve(f)] ELSE None
           log == command.argv[Len(command.argv)]
           found == IF log[1] = "temp" /\ log \notin files THEN None ELSE log
<1>1. /\ command.phase = "serving" /\ workers' = [workers EXCEPT ![w] = [settings |-> settings, log |-> found]]
      /\ UNCHANGED <<fields, first, env, passed, command, files>>
  BY DEF L!WorkerStarts
<1>2. found # None /\ (command.operator # None => found = command.operator)
  BY <1>1, WorkerReads
<1>3. settings # None => \A f \in Fields :
        settings[f] = IF passed[f] # None /\ ~fields[f].secret THEN passed[f]
                      ELSE IF first[f] # None THEN first[f] ELSE fields[f].default
  BY <1>1, WorkerReads
<1> HIDE DEF settings, found
<1>4. /\ workers' = [v \in Workers |-> workers'[v]]
      /\ \A v \in Workers \ {w} : workers'[v] = workers[v]
      /\ workers'[w].settings = settings /\ workers'[w].log = found
  <2>1. workers = [v \in Workers |-> workers[v]]
    BY DEF LaunchInv
  <2> QED
    BY <1>1, <2>1
<1>5. L!Options' = L!Options
  BY <1>1 DEF L!Options
<1>6. CommandInv' /\ EnvInv' /\ ServingInv'
  BY <1>1, <1>5 DEF LaunchInv, CommandInv, Todo, EnvInv, ServingInv
<1>7. L!WorkersSeeWhatWasPassed'
  BY <1>1, <1>3, <1>4 DEF LaunchInv, WorkersReadTheirCommand, L!WorkersSeeWhatWasPassed
<1>8. L!LogConfigOutlivesWorkers'
  BY <1>1, <1>2, <1>4 DEF LaunchInv, WorkersReadTheirCommand, L!LogConfigOutlivesWorkers
<1> QED
  BY <1>4, <1>6, <1>7, <1>8 DEF LaunchInv, WorkersReadTheirCommand

LEMMA WorkerEndsKeeps ==
  ASSUME LaunchInv, NEW w \in Workers, L!WorkerEnds(w)
  PROVE  LaunchInv'
<1>1. /\ workers' = [workers EXCEPT ![w] = None]
      /\ UNCHANGED <<fields, first, env, passed, command, files>>
  BY DEF L!WorkerEnds
<1>2. /\ workers' = [v \in Workers |-> workers'[v]]
      /\ \A v \in Workers : workers'[v] = None \/ workers'[v] = workers[v]
  <2>1. workers = [v \in Workers |-> workers[v]]
    BY DEF LaunchInv
  <2> QED
    BY <1>1, <2>1
<1>3. L!Options' = L!Options
  BY <1>1 DEF L!Options
<1>4. CommandInv' /\ EnvInv'
  BY <1>1, <1>3 DEF LaunchInv, CommandInv, Todo, EnvInv
<1>5. ServingInv'
  BY <1>1, <1>2 DEF LaunchInv, ServingInv
<1>6. WorkersReadTheirCommand'
  BY <1>1, <1>2 DEF LaunchInv, WorkersReadTheirCommand, L!WorkersSeeWhatWasPassed,
                    L!LogConfigOutlivesWorkers
<1> QED
  BY <1>2, <1>4, <1>5, <1>6 DEF LaunchInv

LEMMA UvicornReturnsKeeps == ASSUME LaunchInv, L!UvicornReturns PROVE LaunchInv'
<1>1. /\ command.phase = "serving" /\ \A w \in Workers : workers[w] = None
      /\ command' = [command EXCEPT !.phase = "idle"]
      /\ files' = files \ {<<"temp", command.n>>}
      /\ UNCHANGED <<fields, first, env, passed, workers>>
  BY DEF L!UvicornReturns
<1>2. L!Options' = L!Options
  BY <1>1 DEF L!Options
<1>3. CommandInv' /\ command'.phase = "idle"
  BY <1>1, <1>2 DEF LaunchInv, CommandInv, Todo
<1>4. EnvInv'
  BY <1>1, <1>2 DEF LaunchInv, EnvInv
<1>5. files' = {}
  BY <1>1 DEF LaunchInv, ServingInv
<1>6. ServingInv' /\ WorkersReadTheirCommand'
  BY <1>1, <1>3, <1>5 DEF ServingInv, WorkersReadTheirCommand, L!WorkersSeeWhatWasPassed,
                          L!LogConfigOutlivesWorkers
<1> QED
  BY <1>1, <1>3, <1>4, <1>6 DEF LaunchInv

LEMMA LaunchStarts == LaunchInit => LaunchInv
<1> SUFFICES ASSUME L!Init PROVE LaunchInv
  BY DEF LaunchInit
<1>1. CommandInv
  BY LaunchAssumption DEF L!Init, CommandInv
<1>2. EnvInv
  BY DEF L!Init, EnvInv
<1>3. workers = [w \in Workers |-> None] /\ files = {} /\ command.phase = "composing"
  BY DEF L!Init
<1>4. ServingInv /\ WorkersReadTheirCommand
  BY <1>3 DEF ServingInv, WorkersReadTheirCommand, L!WorkersSeeWhatWasPassed,
              L!LogConfigOutlivesWorkers
<1> QED
  BY <1>1, <1>2, <1>3, <1>4 DEF LaunchInv

LEMMA LaunchStands == ASSUME LaunchInv, UNCHANGED launchVars PROVE LaunchInv'
BY DEF launchVars, LaunchInv, CommandInv, Todo, EnvInv, ServingInv, L!Options,
       WorkersReadTheirCommand, L!WorkersSeeWhatWasPassed, L!LogConfigOutlivesWorkers

(* However many commands a process runs, and whenever its workers start,   *)
(* end and are restarted: each reads the settings and the log              *)
(* configuration of its command, and no temporary file stays behind.       *)
THEOREM LaunchHolds == MCSpec => []WorkersReadTheirCommand
<1> DEFINE Idle == workers = [w \in Workers |-> None] /\ files = {}
           Inv == IF part = "launch" THEN LaunchInv ELSE Idle
<1>1. MCInit => Inv
  BY LaunchStarts DEF MCInit, NoLaunch
<1>2. Inv /\ [MCNext]_allVars => Inv'
  BY OnePartMoves, ComposeKeeps, InvokeKeeps, PassOptionKeeps, EndOfParsingKeeps, ServeKeeps,
     WorkerStartsKeeps, WorkerEndsKeeps, UvicornReturnsKeeps, LaunchStands DEF L!Next, launchVars
<1>3. Inv => WorkersReadTheirCommand
  BY DEF LaunchInv, WorkersReadTheirCommand, L!WorkersSeeWhatWasPassed, L!LogConfigOutlivesWorkers
<1> QED
  BY <1>1, <1>2, <1>3, PTL DEF MCSpec

-----------------------------------------------------------------------------
(* OGC parameters, for any numbers and any date-times.                     *)
Parts4 == Int \cup {Text, Infinite}
DateTimes == [at : Int, offset : {None} \cup Int]

(* What is parsed is a record of four numbers or the exception.            *)
LEMMA BoxParsed ==
  ASSUME NEW input \in Seq(Parts4)
  PROVE  LET box == O!BBoxParse(input)
             good == /\ Len(input) \in {4, 6} /\ \A i \in DOMAIN input : input[i] \in Int
                     /\ input[2] <= input[IF Len(input) = 4 THEN 4 ELSE 5]
                     /\ Len(input) = 6 => input[3] <= input[6]
         IN IF good
            THEN /\ ~O!Failed(box) /\ DOMAIN box = {"minx", "miny", "maxx", "maxy"}
                 /\ box.minx \in Int /\ box.miny \in Int /\ box.maxx \in Int /\ box.maxy \in Int
                 /\ box.miny = input[2]
            ELSE O!Failed(box)
<1> DEFINE D3 == Len(input) = 6
           box == [minx |-> input[1], miny |-> input[2], maxx |-> input[IF D3 THEN 4 ELSE 3],
                   maxy |-> input[IF D3 THEN 5 ELSE 4]]
           bad == \/ Len(input) \notin {4, 6}
                  \/ \E i \in DOMAIN input : input[i] \in {Text, Infinite}
                  \/ box.miny > box.maxy
                  \/ D3 /\ input[3] > input[6]
           good == /\ Len(input) \in {4, 6} /\ \A i \in DOMAIN input : input[i] \in Int
                   /\ input[2] <= input[IF Len(input) = 4 THEN 4 ELSE 5]
                   /\ Len(input) = 6 => input[3] <= input[6]
<1>1. O!BBoxParse(input) = IF bad THEN O!ParamErrorOf("bbox") ELSE box
  BY DEF O!BBoxParse
<1>2. O!Failed(O!ParamErrorOf("bbox")) /\ ~O!Failed(box)
  BY DEF O!Failed, O!ParamErrorOf
<1>3. DOMAIN input = 1 .. Len(input) /\ Len(input) \in Nat /\ \A i \in DOMAIN input : input[i] \in Parts4
  OBVIOUS
<1>4. box.miny = input[2] /\ box.maxy = input[IF D3 THEN 5 ELSE 4]
  OBVIOUS
<1>5. \A i \in DOMAIN input : input[i] \in Int <=> input[i] \notin {Text, Infinite}
  BY <1>3, OgcAssumption DEF Parts4
<1>6. ASSUME Len(input) \in {4, 6}, \A i \in DOMAIN input : input[i] \in Int
      PROVE  bad <=> ~good
  <2>1. /\ 2 \in DOMAIN input /\ 3 \in DOMAIN input /\ 4 \in DOMAIN input
        /\ D3 => 5 \in DOMAIN input /\ 6 \in DOMAIN input
    BY <1>3, <1>6
  <2> DEFINE top == input[IF D3 THEN 5 ELSE 4]
  <2>2. input[2] \in Int /\ top \in Int /\ (D3 => input[3] \in Int /\ input[6] \in Int)
    BY <1>6, <2>1
  <2>3. input[IF Len(input) = 4 THEN 4 ELSE 5] = top
    BY <1>6
  <2>4. bad <=> (input[2] > top \/ (D3 /\ input[3] > input[6]))
    BY <1>4, <1>5, <1>6
  <2>5. good <=> (input[2] <= top /\ (D3 => input[3] <= input[6]))
    BY <1>6, <2>3
  <2> QED
    BY <2>2, <2>4, <2>5
<1>7. good => /\ DOMAIN box = {"minx", "miny", "maxx", "maxy"}
              /\ box.minx \in Int /\ box.miny \in Int /\ box.maxx \in Int /\ box.maxy \in Int
              /\ box.miny = input[2]
  BY <1>3
<1>8. bad <=> ~good
  BY <1>5, <1>6
<1> HIDE DEF bad, box
<1> QED
  BY <1>1, <1>2, <1>7, <1>8

(* Two boxes with their sides exchanged split the globe, whatever numbers  *)
(* they are made of.                                                       *)
THEOREM BoxesSplit ==
  ASSUME NEW input \in Seq(Parts4), NEW lons \in SUBSET Int, NEW lats \in SUBSET Int
  PROVE  O!BoxesSplitTheGlobe(input, lons, lats)
<1> DEFINE box == O!BBoxParse(input)
           other == [box EXCEPT !.minx = box.maxx, !.maxx = box.minx]
<1>1. O!Failed(box) <=> ~(/\ Len(input) \in {4, 6} /\ \A i \in DOMAIN input : input[i] \in Int
                          /\ input[2] <= input[IF Len(input) = 4 THEN 4 ELSE 5]
                          /\ Len(input) = 6 => input[3] <= input[6])
  BY BoxParsed
<1>2. ASSUME ~O!Failed(box), NEW lon \in lons, NEW lat \in lats
      PROVE  LET here == O!BoxContains(box, lon, lat)  there == O!BoxContains(other, lon, lat)
                 between == input[2] <= lat /\ lat <= box.maxy
             IN /\ (here \/ there) <=> (between /\ (box.minx # box.maxx \/ lon = box.minx))
                /\ (here /\ there) <=> (between /\ lon \in {box.minx, box.maxx})
  <2>1. /\ DOMAIN box = {"minx", "miny", "maxx", "maxy"}
        /\ box.minx \in Int /\ box.miny \in Int /\ box.maxx \in Int /\ box.maxy \in Int
        /\ box.miny = input[2]
    BY <1>2, BoxParsed
  <2> HIDE DEF box
  <2>2. /\ other.minx = box.maxx /\ other.maxx = box.minx
        /\ other.miny = box.miny /\ other.maxy = box.maxy
    BY <2>1
  <2> HIDE DEF other
  <2> QED
    BY <2>1, <2>2 DEF O!BoxContains
<1> QED
  BY <1>1, <1>2 DEF O!BoxesSplitTheGlobe

(* A date-time in UTC stands for the same instant, and is never naive.     *)
LEMMA UtcInstant ==
  ASSUME NEW t \in DateTimes
  PROVE  /\ O!AsUtc(t) \in DateTimes /\ O!AsUtc(t).offset # None
         /\ O!AsUtc(t).at \in Int /\ O!AsUtc(t).offset \in Int
         /\ O!Instant(O!AsUtc(t)) = O!Instant(t) /\ O!Instant(t) \in Int
         /\ O!AsUtc(O!AsUtc(t)) = O!AsUtc(t)
<1>1. t.at \in Int /\ t.offset \in {None} \cup Int /\ None \notin Int
  BY OgcAssumption DEF DateTimes
<1>2. CASE t.offset = None
  <2>1. O!AsUtc(t) = [t EXCEPT !.offset = 0]
    BY <1>2 DEF O!AsUtc
  <2>2. O!AsUtc(t) \in DateTimes /\ O!AsUtc(t).at = t.at /\ O!AsUtc(t).offset = 0
    BY <2>1 DEF DateTimes
  <2> QED
    BY <1>1, <1>2, <2>2 DEF O!Instant, O!AsUtc
<1>3. CASE t.offset # None
  BY <1>1, <1>3 DEF O!AsUtc, O!Instant
<1> QED
  BY <1>2, <1>3

(* Two date-times that can be compared are ordered by their instants, if   *)
(* neither is naive.                                                       *)
LEMMA UtcOrder ==
  ASSUME NEW v \in DateTimes, NEW w \in DateTimes, v.offset # None, w.offset # None
  PROVE  O!Comparable(v, w) /\ (O!Later(v, w) <=> O!Instant(v) > O!Instant(w))
<1>1. v.at \in Int /\ v.offset \in Int /\ w.at \in Int /\ w.offset \in Int
  BY DEF DateTimes
<1> QED
  BY <1>1 DEF O!Comparable, O!Later, O!Instant

(* Whatever its bounds, an interval is asked by instants and never raises. *)
LEMMA IntervalAsked ==
  ASSUME NEW interval, NEW when \in DateTimes,
         interval.start \in DateTimes \cup {None}, interval.end \in DateTimes \cup {None}
  PROVE  O!IntervalContains(interval, when) =
           (/\ interval.start # None => O!Instant(interval.start) <= O!Instant(when)
            /\ interval.end # None => O!Instant(when) <= O!Instant(interval.end))
<1>0. PICK s, e \in DateTimes \cup {None} : s = interval.start /\ e = interval.end
  OBVIOUS
<1> DEFINE w == O!AsUtc(when)
           bounds == {O!AsUtc(b) : b \in {s, e} \ {None}}
<1>1. w \in DateTimes /\ w.offset # None /\ O!Instant(w) = O!Instant(when) /\ O!Instant(when) \in Int
  BY UtcInstant
<1> HIDE DEF w
<1>2. \A b \in {s, e} \ {None} :
        /\ O!AsUtc(b) \in DateTimes /\ O!AsUtc(b).offset # None
        /\ O!Instant(O!AsUtc(b)) = O!Instant(b) /\ O!Instant(b) \in Int
  BY UtcInstant
<1>3. \A b \in bounds : O!Comparable(w, b)
  BY <1>1, <1>2, UtcOrder
<1>4. s # None => (~O!Later(O!AsUtc(s), w) <=> O!Instant(s) <= O!Instant(when))
  BY <1>1, <1>2, UtcOrder
<1>5. e # None => (~O!Later(w, O!AsUtc(e)) <=> O!Instant(when) <= O!Instant(e))
  BY <1>1, <1>2, UtcOrder
<1>6. O!IntervalContains(interval, when) =
        IF \E b \in bounds : ~O!Comparable(w, b) THEN O!TypeError
        ELSE /\ s # None => ~O!Later(O!AsUtc(s), w)
             /\ e # None => ~O!Later(w, O!AsUtc(e))
  BY <1>0 DEF O!IntervalContains, w
<1> HIDE DEF bounds
<1> QED
  BY <1>0, <1>3, <1>4, <1>5, <1>6

(* What an interval is built to: its bounds, or an exception.              *)
LEMMA IntervalBuilt ==
  ASSUME NEW s \in DateTimes \cup {None}, NEW e \in DateTimes \cup {None}
  PROVE  LET built == O!Interval(s, e) IN
         /\ ~O!Failed(built) => /\ built.start = s /\ built.end = e
                                /\ s # None /\ e # None => O!Comparable(s, e) /\ ~O!Later(s, e)
         /\ built = O!TypeError => s # None /\ e # None /\ ~O!Comparable(s, e)
<1> DEFINE kept == [start |-> s, end |-> e]
<1>1. /\ O!Failed(O!TypeError) /\ O!Failed(O!ParamErrorOf("datetime")) /\ ~O!Failed(kept)
      /\ kept.start = s /\ kept.end = e
  BY DEF O!Failed, O!TypeError, O!ParamErrorOf
<1>2. O!ParamErrorOf("datetime") # O!TypeError
  <2>1. O!ParamErrorOf("datetime").error = "ParamError" /\ O!TypeError.error = "TypeError"
    BY DEF O!ParamErrorOf, O!TypeError
  <2> QED
    BY <2>1
<1>3. O!Interval(s, e) = IF s = None \/ e = None THEN kept
                         ELSE IF ~O!Comparable(s, e) THEN O!TypeError
                         ELSE IF O!Later(s, e) THEN O!ParamErrorOf("datetime") ELSE kept
  BY DEF O!Interval
<1> HIDE DEF kept
<1> QED
  BY <1>1, <1>2, <1>3

(* What an interval is parsed to: two bounds in UTC, one of them at least  *)
(* given, and the first not after the last; never a TypeError.             *)
LEMMA IntervalParsed ==
  ASSUME NEW input \in Seq(DateTimes \cup {Open, Invalid}), input # << >>
  PROVE  LET parsed == O!IntervalParse(input) IN
         /\ parsed # O!TypeError
         /\ ~O!Failed(parsed) =>
              /\ parsed.start \in DateTimes \cup {None} /\ parsed.end \in DateTimes \cup {None}
              /\ parsed.start # None \/ parsed.end # None
              /\ parsed.start # None /\ parsed.end # None =>
                   O!Instant(parsed.start) <= O!Instant(parsed.end)
<1> DEFINE sides == IF Len(input) > 2 THEN <<input[1], Invalid>> ELSE input
           lower == O!ParseInstant(sides[1])
           last == O!ParseInstant(sides[Len(sides)])
           refused == (\E i \in DOMAIN sides : sides[i] = Invalid) \/ (lower = None /\ last = None)
<1>1. sides[1] \in DateTimes \cup {Open, Invalid} /\ sides[Len(sides)] \in DateTimes \cup {Open, Invalid}
  BY DEF sides
<1>2. ASSUME NEW side \in DateTimes \cup {Open, Invalid}
      PROVE  /\ O!ParseInstant(side) \in DateTimes \cup {None}
             /\ O!ParseInstant(side) # None => O!ParseInstant(side).offset # None
  BY UtcInstant DEF O!ParseInstant
<1>3. /\ lower \in DateTimes \cup {None} /\ last \in DateTimes \cup {None}
      /\ lower # None => lower.offset # None
      /\ last # None => last.offset # None
  <2> HIDE DEF sides
  <2> QED
    BY <1>1, <1>2
<1>4. O!IntervalParse(input) = IF refused THEN O!ParamErrorOf("datetime") ELSE O!Interval(lower, last)
  BY DEF O!IntervalParse
<1>5. ~refused => lower # None \/ last # None
  OBVIOUS
<1> HIDE DEF sides, lower, last, refused
<1>6. lower # None /\ last # None =>
        O!Comparable(lower, last) /\ (~O!Later(lower, last) => O!Instant(lower) <= O!Instant(last))
  <2> SUFFICES ASSUME lower # None, last # None
               PROVE  O!Comparable(lower, last) /\ (~O!Later(lower, last) => O!Instant(lower) <= O!Instant(last))
    OBVIOUS
  <2>1. lower \in DateTimes /\ last \in DateTimes
    BY <1>3
  <2> QED
    BY <1>3, <2>1, UtcOrder, UtcInstant
<1>7. O!Failed(O!ParamErrorOf("datetime")) /\ O!ParamErrorOf("datetime") # O!TypeError
  <2>1. O!ParamErrorOf("datetime").error = "ParamError" /\ O!TypeError.error = "TypeError"
    BY DEF O!ParamErrorOf, O!TypeError
  <2> QED
    BY <2>1 DEF O!Failed, O!ParamErrorOf
<1>8. CASE refused
  BY <1>4, <1>7, <1>8
<1>9. CASE ~refused
  <2> DEFINE built == O!Interval(lower, last)
  <2>1. /\ ~O!Failed(built) => /\ built.start = lower /\ built.end = last
                               /\ lower # None /\ last # None => ~O!Later(lower, last)
        /\ built # O!TypeError
    BY <1>3, <1>6, IntervalBuilt
  <2>2. O!IntervalParse(input) = built
    BY <1>4, <1>9
  <2> HIDE DEF built
  <2> QED
    BY <1>3, <1>5, <1>6, <1>9, <2>1, <2>2
<1> QED
  BY <1>8, <1>9

(* Intervals hold instants, however they came about.                       *)
THEOREM IntervalsHold ==
  ASSUME NEW input \in Seq(DateTimes \cup {Open, Invalid}), input # << >>,
         NEW s \in DateTimes \cup {None}, NEW e \in DateTimes \cup {None}, NEW when \in DateTimes
  PROVE  O!IntervalsHoldInstants(input, O!Interval(s, e), when)
<1> DEFINE built == O!Interval(s, e)
           parsed == O!IntervalParse(input)
<1>1. ~O!Failed(built) => built.start \in DateTimes \cup {None} /\ built.end \in DateTimes \cup {None}
  BY IntervalBuilt
<1>2. /\ parsed # O!TypeError
      /\ ~O!Failed(parsed) =>
           /\ parsed.start \in DateTimes \cup {None} /\ parsed.end \in DateTimes \cup {None}
           /\ parsed.start # None \/ parsed.end # None
           /\ parsed.start # None /\ parsed.end # None =>
                O!Instant(parsed.start) <= O!Instant(parsed.end)
  BY IntervalParsed
<1> HIDE DEF built, parsed
<1>3. ASSUME NEW interval \in {built, parsed}, ~O!Failed(interval)
      PROVE  O!IntervalContains(interval, when) =
               (/\ interval.start # None => O!Instant(interval.start) <= O!Instant(when)
                /\ interval.end # None => O!Instant(when) <= O!Instant(interval.end))
  BY <1>1, <1>2, <1>3, IntervalAsked
<1>4. ASSUME ~O!Failed(parsed), NEW b \in {parsed.start, parsed.end} \ {None}
      PROVE  O!IntervalContains(parsed, b)
  <2>1. b \in DateTimes
    BY <1>2, <1>4
  <2>2. O!IntervalContains(parsed, b) =
          (/\ parsed.start # None => O!Instant(parsed.start) <= O!Instant(b)
           /\ parsed.end # None => O!Instant(b) <= O!Instant(parsed.end))
    BY <1>2, <1>4, <2>1, IntervalAsked
  <2>3. O!Instant(b) \in Int
    BY <2>1, UtcInstant
  <2> QED
    BY <1>2, <1>4, <2>2, <2>3
<1> QED
  BY <1>2, <1>3, <1>4 DEF O!IntervalsHoldInstants, built, parsed

(* Whatever the value and the default, an allow-list that is told apart    *)
(* from no value is kept to.                                               *)
LEMMA CrsValidated ==
  ASSUME NEW value, NEW allowed, None \notin allowed, NEW parameter, NEW default
  PROVE  LET crs == O!ValidateCrs(value, allowed, parameter, default) IN
         \/ crs = O!ParamErrorOf(parameter) /\ value \notin allowed /\ (value = None => default = None)
         \/ crs = O!ValueError /\ value = None /\ default # None /\ default \notin allowed
         \/ ~O!Failed(crs) /\ crs # O!ValueError /\ "crs" \in DOMAIN crs /\ crs.crs \in allowed
<1>1. ASSUME NEW x
      PROVE  /\ ~O!Failed([crs |-> x]) /\ "crs" \in DOMAIN [crs |-> x] /\ [crs |-> x].crs = x
             /\ [crs |-> x] # O!ValueError
  <2>1. ~O!Failed([crs |-> x]) /\ "crs" \in DOMAIN [crs |-> x] /\ [crs |-> x].crs = x
    BY DEF O!Failed
  <2>2. O!Failed(O!ValueError)
    BY DEF O!Failed, O!ValueError
  <2> QED
    BY <2>1, <2>2
<1>2. CASE value = None
  BY <1>1, <1>2 DEF O!ValidateCrs
<1>3. CASE value # None
  BY <1>1, <1>3 DEF O!ValidateCrs
<1> QED
  BY <1>2, <1>3

LEMMA CrsServed ==
  ASSUME NEW value, NEW allowed, None \notin allowed, NEW default, O!CrsConfigured(allowed, default)
  PROVE  LET crs == O!CrsParam(value, allowed, default) IN
         \/ crs = O!ParamErrorOf("crs") /\ value \notin allowed
         \/ crs # O!ValueError /\ "crs" \in DOMAIN crs /\ crs.crs \in allowed
<1> DEFINE chosen == IF default # None THEN default ELSE IF CRS84 \in allowed THEN CRS84 ELSE None
<1>1. chosen = None \/ chosen \in allowed
  BY DEF O!CrsConfigured
<1>2. O!CrsParam(value, allowed, default) = O!ValidateCrs(value, allowed, "crs", chosen)
  BY DEF O!CrsParam
<1> HIDE DEF chosen
<1> QED
  BY <1>1, <1>2, CrsValidated

(* A filter is served, or refused for one of its three parameters.         *)
LEMMA FilterServed ==
  ASSUME NEW value, NEW allowed, None \notin allowed, CRS84 \in allowed,
         NEW filter, NEW lang, NEW queryables
  PROVE  LET found == O!FilterParam(filter, lang, value, allowed, queryables) IN
         \/ \E p \in {"filter", "filter-lang", "filter-crs"} : found = O!ParamErrorOf(p)
         \/ /\ ~O!Failed(found)
            /\ filter # None => found.crs \in allowed /\ found.filter \subseteq queryables
<1> DEFINE resolved == O!ValidateCrs(value, allowed, "filter-crs", CRS84)
           asLang == IF lang = None THEN filter.lang ELSE lang
           wrong == asLang # filter.lang \/ ~filter.valid \/ ~(filter.properties \subseteq queryables)
           served == [filter |-> filter.properties, crs |-> resolved.crs]
<1>1. CASE filter = None
  <2>1. O!FilterParam(filter, lang, value, allowed, queryables) = [filter |-> None]
    BY <1>1 DEF O!FilterParam
  <2>2. ~O!Failed([filter |-> None])
    BY DEF O!Failed
  <2> QED
    BY <1>1, <2>1, <2>2
<1>2. CASE filter # None
  <2>1. O!FilterParam(filter, lang, value, allowed, queryables) =
          IF lang \notin {None, "cql2-json", "cql2-text"} THEN O!ParamErrorOf("filter-lang")
          ELSE IF O!Failed(resolved) THEN resolved
          ELSE IF wrong THEN O!ParamErrorOf("filter") ELSE served
    BY <1>2 DEF O!FilterParam
  <2>2. \/ resolved = O!ParamErrorOf("filter-crs")
        \/ ~O!Failed(resolved) /\ resolved.crs \in allowed
    BY CrsValidated
  <2>3. ~O!Failed(served) /\ served.crs = resolved.crs /\ served.filter = filter.properties
    BY DEF O!Failed
  <2>4. ~wrong => filter.properties \subseteq queryables
    OBVIOUS
  <2> HIDE DEF resolved, wrong, served
  <2>5. O!Failed(resolved) => resolved = O!ParamErrorOf("filter-crs")
    BY <2>2
  <2>6. \/ \E p \in {"filter", "filter-lang", "filter-crs"} :
             O!FilterParam(filter, lang, value, allowed, queryables) = O!ParamErrorOf(p)
        \/ /\ O!FilterParam(filter, lang, value, allowed, queryables) = served
           /\ ~O!Failed(resolved) /\ ~wrong
    BY <2>1, <2>5
  <2>7. O!Failed(O!ParamErrorOf("filter-crs"))
    BY DEF O!Failed, O!ParamErrorOf
  <2>8. ~O!Failed(resolved) => served.crs \in allowed
    BY <2>2, <2>3, <2>7
  <2>9. ~wrong => served.filter \subseteq queryables
    BY <2>3, <2>4
  <2> QED
    BY <2>3, <2>6, <2>8, <2>9
<1> QED
  BY <1>1, <1>2

(* An adapter and a folded field refuse and accept the same boxes.         *)
LEMMA FoldedAgrees ==
  ASSUME NEW input
  PROVE  LET box == IF input = None THEN None ELSE O!BBoxParse(input)
             one == O!Adapter(input, box)  other == O!FoldedField(input, box, "bbox")
         IN /\ O!Failed(one) <=> O!Failed(other)
            /\ O!Failed(one) => one.parameter = other.parameter
            /\ ~O!Failed(one) => one = other
<1> DEFINE parsed == O!BBoxParse(input)
<1>1. O!Failed(parsed) => parsed = O!ParamErrorOf("bbox")
  BY DEF O!BBoxParse, O!Failed
<1>2. O!ParamErrorOf("bbox").error = "ParamError" /\ O!ParamErrorOf("bbox").parameter = "bbox"
  BY DEF O!ParamErrorOf
<1> HIDE DEF parsed
<1>3. CASE input = None
  BY <1>3 DEF O!Adapter, O!FoldedField, O!Failed
<1>4. CASE input # None
  <2> DEFINE report == [error |-> "RequestValidationError", parameter |-> "bbox"]
  <2>1. O!Failed(report) /\ report.parameter = "bbox"
    BY DEF O!Failed
  <2>2. O!Adapter(input, parsed) = parsed
    BY <1>4 DEF O!Adapter
  <2>3. O!FoldedField(input, parsed, "bbox") =
          IF O!Failed(parsed) /\ parsed.error = "ParamError" THEN report ELSE parsed
    BY <1>4 DEF O!FoldedField
  <2> HIDE DEF report
  <2> QED
    BY <1>1, <1>2, <1>4, <2>1, <2>2, <2>3 DEF parsed
<1> QED
  BY <1>3, <1>4

(* A crs, a filter and a box by the adapters and the folded fields: for any *)
(* values, allow-lists that do not hold None, filters and queryables.       *)
THEOREM EveryRequestServed ==
  ASSUME NEW value, NEW allowed, None \notin allowed, NEW default,
         NEW filter, NEW lang, NEW queryables, NEW input
  PROVE  O!ServedOrRefused(value, allowed, default, filter, lang, queryables, input)
<1>1. O!CrsConfigured(allowed, default) =>
        LET crs == O!CrsParam(value, allowed, default) IN
        \/ crs = O!ParamErrorOf("crs") /\ value \notin allowed
        \/ crs # O!ValueError /\ "crs" \in DOMAIN crs /\ crs.crs \in allowed
  BY CrsServed
<1>2. CRS84 \in allowed =>
        LET found == O!FilterParam(filter, lang, value, allowed, queryables) IN
        \/ \E p \in {"filter", "filter-lang", "filter-crs"} : found = O!ParamErrorOf(p)
        \/ /\ ~O!Failed(found)
           /\ filter # None => found.crs \in allowed /\ found.filter \subseteq queryables
  BY FilterServed
<1> QED
  BY <1>1, <1>2, FoldedAgrees DEF O!ServedOrRefused

-----------------------------------------------------------------------------
(* Negotiation, for any offers, headers and documentation.                  *)

(* Of two ranges that match a media type equally well both say the same of *)
(* it: they are the same range.                                            *)
LEMMA SpecificityIs ==
  ASSUME NEW range, NEW media
  PROVE  /\ N!Specificity(range, media) \in {-1, 0, 1, 2}
         /\ N!Specificity(range, media) = 0 => range.media = <<"*", "*">>
         /\ N!Specificity(range, media) = 1 => range.media = <<media[1], "*">>
         /\ N!Specificity(range, media) = 2 => range.media = media
BY DEF N!Specificity

(* Ranges as they are parsed: some places of a header, weighed.            *)
Weighed(ranges, n) ==
  /\ n \in Nat /\ DOMAIN ranges \subseteq 1 .. n
  /\ \A i \in DOMAIN ranges : ranges[i].q \in 0 .. 10

(* The first place of a set of places. *)
LEMMA FirstOf ==
  ASSUME NEW n \in Nat, NEW P \in SUBSET (1 .. n), P # {}
  PROVE  \E i \in P : \A j \in P : i <= j
<1>1. P \in SUBSET Nat
  OBVIOUS
<1> QED
  BY <1>1, SmallestOf

(* The range that counts for a media type is one that no more specific one *)
(* overrules, and no range matches when none counts.                       *)
LEMMA QualityIsSaid ==
  ASSUME NEW n, NEW ranges, Weighed(ranges, n), NEW media
  PROVE  LET quality == N!AcceptQuality(media, ranges) IN
         /\ quality \in 0 .. 10
         /\ quality # 0 => N!Says(ranges, media, quality)
         /\ \A q \in 1 .. 10 : N!Says(ranges, media, q) =>
              \E i, k \in DOMAIN ranges :
                /\ ranges[i].q = quality /\ ranges[k].q = q
                /\ N!Specificity(ranges[i], media) = N!Specificity(ranges[k], media)
                /\ N!Specificity(ranges[i], media) >= 0
<1> DEFINE Of(i) == N!Specificity(ranges[i], media)
           best == {i \in DOMAIN ranges : Of(i) >= 0 /\ \A j \in DOMAIN ranges :
                      Of(j) < Of(i) \/ (Of(j) = Of(i) /\ i <= j)}
           At(s) == {i \in DOMAIN ranges : Of(i) = s}
<1>1. N!AcceptQuality(media, ranges) = IF best = {} THEN 0 ELSE ranges[CHOOSE i \in best : TRUE].q
  BY DEF N!AcceptQuality
<1>2. \A i \in DOMAIN ranges : Of(i) \in {-1, 0, 1, 2}
  BY SpecificityIs
<1>3. \A s \in {0, 1, 2} : At(s) # {} => \E i \in At(s) : \A j \in At(s) : i <= j
  BY FirstOf DEF Weighed
<1> HIDE DEF Of
<1>4. ASSUME NEW k \in DOMAIN ranges, Of(k) >= 0
      PROVE  best # {}
  <2>1. CASE At(2) # {}
    <3>1. PICK i \in At(2) : \A j \in At(2) : i <= j
      BY <1>3, <2>1
    <3>2. i \in best
      BY <1>2, <3>1
    <3> QED
      BY <3>2
  <2>2. CASE At(2) = {} /\ At(1) # {}
    <3>1. PICK i \in At(1) : \A j \in At(1) : i <= j
      BY <1>3, <2>2
    <3>2. i \in best
      BY <1>2, <2>2, <3>1
    <3> QED
      BY <3>2
  <2>3. CASE At(2) = {} /\ At(1) = {}
    <3>1. k \in At(0)
      BY <1>2, <1>4, <2>3
    <3>2. PICK i \in At(0) : \A j \in At(0) : i <= j
      BY <1>3, <3>1
    <3>3. i \in best
      BY <1>2, <2>3, <3>2
    <3> QED
      BY <3>3
  <2> QED
    BY <2>1, <2>2, <2>3
<1>5. \A i \in best : /\ i \in DOMAIN ranges /\ Of(i) >= 0
                      /\ \A j \in DOMAIN ranges : Of(j) <= Of(i)
  BY <1>2
<1>6. \A q : N!Says(ranges, media, q) <=>
        \E k \in DOMAIN ranges : /\ ranges[k].q = q /\ Of(k) >= 0
                                 /\ \A j \in DOMAIN ranges : Of(j) <= Of(k)
  BY DEF N!Says, Of
<1> HIDE DEF best, At
<1>7. CASE best = {}
  <2>1. N!AcceptQuality(media, ranges) = 0
    BY <1>1, <1>7
  <2>2. \A q : ~N!Says(ranges, media, q)
    BY <1>4, <1>6, <1>7
  <2> QED
    BY <2>1, <2>2
<1>8. CASE best # {}
  <2>1. PICK i \in best : N!AcceptQuality(media, ranges) = ranges[i].q
    BY <1>1, <1>8
  <2>2. /\ i \in DOMAIN ranges /\ Of(i) >= 0
        /\ \A j \in DOMAIN ranges : Of(j) <= Of(i)
    BY <1>5
  <2>3. N!AcceptQuality(media, ranges) \in 0 .. 10
    BY <2>1, <2>2 DEF Weighed
  <2>4. N!Says(ranges, media, N!AcceptQuality(media, ranges))
    BY <1>6, <2>1, <2>2
  <2>5. ASSUME NEW q \in 1 .. 10, N!Says(ranges, media, q)
        PROVE  \E k \in DOMAIN ranges : ranges[k].q = q /\ Of(i) = Of(k)
    <3>1. PICK k \in DOMAIN ranges : /\ ranges[k].q = q /\ Of(k) >= 0
                                     /\ \A j \in DOMAIN ranges : Of(j) <= Of(k)
      BY <1>6, <2>5
    <3>2. Of(i) <= Of(k) /\ Of(k) <= Of(i) /\ Of(i) \in {-1, 0, 1, 2} /\ Of(k) \in {-1, 0, 1, 2}
      BY <1>2, <2>2, <3>1
    <3>3. Of(i) = Of(k)
      BY <3>2
    <3> QED
      BY <3>1, <3>3
  <2> QED
    BY <2>1, <2>2, <2>3, <2>4, <2>5 DEF Of
<1> QED
  BY <1>7, <1>8

(* What a header is parsed to.                                             *)
LEMMA AcceptParsed ==
  ASSUME NEW HeaderParts, NEW header \in Seq(HeaderParts) \cup {None}
  PROVE  \E n : Weighed(N!ParseAccept(header), n)
<1> DEFINE parts == IF header = None THEN << >> ELSE header
           places == {i \in DOMAIN parts : parts[i].media # None}
<1>1. N!ParseAccept(header)
        = [i \in places |-> [media |-> parts[i].media, q |-> N!QValue(parts[i].qs)]]
  BY DEF N!ParseAccept
<1>2. \A qs : N!QValue(qs) \in 0 .. 10
  BY DEF N!QValue, N!Max10
<1>3. PICK n \in Nat : DOMAIN parts = 1 .. n
  <2>1. << >> \in Seq(HeaderParts)
    OBVIOUS
  <2>2. parts \in Seq(HeaderParts)
    BY <2>1
  <2> QED
    BY <2>2
<1>4. Weighed(N!ParseAccept(header), n)
  BY <1>1, <1>2, <1>3 DEF Weighed
<1> QED
  BY <1>4

(* One range cannot say two things of a type when none is given twice.     *)
LEMMA SaysOneThing ==
  ASSUME NEW n, NEW ranges, Weighed(ranges, n), NEW media, ~N!Contradictory(ranges),
         NEW q \in 1 .. 10, N!Says(ranges, media, q)
  PROVE  N!AcceptQuality(media, ranges) = q
<1>1. PICK i \in DOMAIN ranges, k \in DOMAIN ranges :
        /\ ranges[i].q = N!AcceptQuality(media, ranges) /\ ranges[k].q = q
        /\ N!Specificity(ranges[i], media) = N!Specificity(ranges[k], media)
        /\ N!Specificity(ranges[i], media) >= 0
  BY QualityIsSaid
<1>2. ranges[i].media = ranges[k].media
  <2>1. PICK s : s = N!Specificity(ranges[i], media)
    OBVIOUS
  <2>2. s \in {0, 1, 2} /\ s = N!Specificity(ranges[k], media)
    BY <1>1, <2>1, SpecificityIs
  <2>3. ASSUME NEW j \in {i, k}
        PROVE  /\ s = 0 => ranges[j].media = <<"*", "*">>
               /\ s = 1 => ranges[j].media = <<media[1], "*">>
               /\ s = 2 => ranges[j].media = media
    <3>1. s = N!Specificity(ranges[j], media)
      BY <2>1, <2>2
    <3> QED
      BY <3>1, SpecificityIs
  <2> QED
    BY <2>2, <2>3
<1>3. i = k
  BY <1>2 DEF N!Contradictory
<1> QED
  BY <1>1, <1>3

(* The best of what is on offer: the first of those that are wanted most.  *)
Best(available, ranges) ==
  CHOOSE i \in DOMAIN available : \A j \in DOMAIN available :
    \/ N!AcceptQuality(available[j].media, ranges) < N!AcceptQuality(available[i].media, ranges)
    \/ /\ N!AcceptQuality(available[j].media, ranges) = N!AcceptQuality(available[i].media, ranges)
       /\ i <= j

LEMMA BestIs ==
  ASSUME NEW Reps, NEW available \in Seq(Reps), available # << >>,
         NEW n, NEW ranges, Weighed(ranges, n)
  PROVE  LET best == Best(available, ranges) IN
         /\ best \in DOMAIN available
         /\ N!AcceptQuality(available[best].media, ranges) \in 0 .. 10
         /\ \A j \in DOMAIN available :
              N!AcceptQuality(available[j].media, ranges)
                <= N!AcceptQuality(available[best].media, ranges)
<1> DEFINE Quality(i) == N!AcceptQuality(available[i].media, ranges)
           Wins(i) == \A j \in DOMAIN available : Quality(j) < Quality(i) \/ (Quality(j) = Quality(i) /\ i <= j)
           lost == {10 - Quality(i) : i \in DOMAIN available}
<1>1. \A i \in DOMAIN available : Quality(i) \in 0 .. 10
  BY QualityIsSaid
<1>2. PICK m \in Nat : m # 0 /\ DOMAIN available = 1 .. m
  OBVIOUS
<1>3. Best(available, ranges) = CHOOSE i \in DOMAIN available : Wins(i)
  BY DEF Best
<1> HIDE DEF Quality
<1>4. 1 \in DOMAIN available
  BY <1>2
<1>5. lost \in SUBSET Nat /\ lost # {}
  BY <1>1, <1>4
<1>6. PICK d \in lost : \A e \in lost : d <= e
  BY <1>5, SmallestOf
<1> DEFINE top == {i \in DOMAIN available : 10 - Quality(i) = d}
<1>7. top # {} /\ top \subseteq 1 .. m
  BY <1>2, <1>6
<1>8. PICK i \in top : \A j \in top : i <= j
  BY <1>7, FirstOf
<1>9. Wins(i)
  <2> SUFFICES ASSUME NEW j \in DOMAIN available PROVE Quality(j) < Quality(i) \/ (Quality(j) = Quality(i) /\ i <= j)
    OBVIOUS
  <2>1. Quality(j) \in 0 .. 10 /\ Quality(i) \in 0 .. 10 /\ 10 - Quality(i) = d /\ i \in DOMAIN available
    BY <1>1, <1>8
  <2>2. d <= 10 - Quality(j)
    BY <1>6
  <2>3. 10 - Quality(j) = d => j \in top
    OBVIOUS
  <2>4. Quality(j) < Quality(i) \/ (Quality(j) = Quality(i) /\ j \in top)
    <3>1. PICK p \in 0 .. 10, q \in 0 .. 10 : p = Quality(j) /\ q = Quality(i)
      BY <2>1
    <3>2. p < q \/ 10 - p = d
      BY <2>1, <2>2, <3>1
    <3>3. CASE 10 - p = d
      BY <2>1, <2>3, <3>1, <3>3
    <3> QED
      BY <3>1, <3>2, <3>3
  <2> QED
    BY <1>8, <2>4
<1>10. i \in DOMAIN available
  BY <1>8
<1> HIDE DEF Wins
<1>11. Best(available, ranges) \in DOMAIN available /\ Wins(Best(available, ranges))
  BY <1>3, <1>9, <1>10
<1> DEFINE best == Best(available, ranges)
<1> HIDE DEF best
<1>12. best \in DOMAIN available /\ Wins(best)
  BY <1>11 DEF best
<1>13. \A j \in DOMAIN available : Quality(j) <= Quality(best)
  BY <1>1, <1>12, SMTT(30) DEF Wins
<1> QED
  BY <1>1, <1>12, <1>13 DEF best, Quality

(* A client that names types is served one that it wants most, and refused *)
(* only when it wants nothing that is on offer.                            *)
THEOREM WantedIsServed ==
  ASSUME NEW Reps, NEW available \in Seq(Reps), available # << >>,
         \A i \in DOMAIN available : available[i] \notin {ParamError, NotAcceptable},
         NEW f, NEW HeaderParts, NEW header \in Seq(HeaderParts) \cup {None}, NEW default
  PROVE  N!ServesWhatIsWanted(available, f, header, default)
<1> DEFINE served == N!Negotiate(available, f, None, header, default)
           ranges == N!ParseAccept(header)
           medias == {r.media : r \in N!ToSet(available)}
           Quality(i) == N!AcceptQuality(available[i].media, ranges)
           asked == {i \in DOMAIN available : available[i].key = f}
           best == Best(available, ranges)
<1>1. PICK n : Weighed(ranges, n)
  BY AcceptParsed
<1>2. served = CASE f # None /\ asked = {} -> ParamError
                 [] f # None /\ asked # {} -> available[CHOOSE i \in asked : \A j \in asked : i <= j]
                 [] f = None /\ ranges # << >> ->
                      IF Quality(best) > 0 THEN available[best] ELSE NotAcceptable
                 [] OTHER -> IF default # None THEN default ELSE available[1]
  BY DEF N!Negotiate, Best
<1>3. medias = {available[i].media : i \in DOMAIN available}
  BY DEF N!ToSet
<1> DEFINE m == Quality(best)
<1>4. /\ best \in DOMAIN available /\ m \in 0 .. 10
      /\ \A j \in DOMAIN available : Quality(j) <= m
  BY <1>1, BestIs
<1>5. ASSUME f = None, ranges # << >>
      PROVE  IF served = NotAcceptable
             THEN \A t \in medias : N!Contradictory(ranges) \/ \A q \in 1 .. 10 : ~N!Says(ranges, t, q)
             ELSE \E q \in 1 .. 10 :
                    /\ N!Says(ranges, served.media, q)
                    /\ N!Contradictory(ranges) \/
                       \A t \in medias : \A p \in q + 1 .. 10 : ~N!Says(ranges, t, p)
  <2>1. served = IF m > 0 THEN available[best] ELSE NotAcceptable
    BY <1>2, <1>5
  <2>2. served = NotAcceptable <=> m = 0
    BY <1>4, <2>1
  <2>3. ASSUME NEW i \in DOMAIN available, NEW q \in 1 .. 10, ~N!Contradictory(ranges),
               N!Says(ranges, available[i].media, q)
        PROVE  q <= m
    <3>1. Quality(i) = q
      BY <1>1, <2>3, SaysOneThing
    <3> QED
      BY <1>4, <3>1
  <2>4. ASSUME m # 0
        PROVE  N!Says(ranges, served.media, m)
    <3>1. served = available[best]
      BY <1>4, <2>1, <2>4
    <3> QED
      BY <1>1, <2>4, <3>1, QualityIsSaid
  <2> HIDE DEF m, served, ranges, medias
  <2>5. \A t \in medias : \A q \in 1 .. 10 :
          ~N!Contradictory(ranges) /\ N!Says(ranges, t, q) => q <= m
    BY <1>3, <2>3
  <2>6. CASE m = 0
    BY <2>2, <2>5, <2>6
  <2>7. CASE m # 0
    <3>1. m \in 1 .. 10
      BY <1>4, <2>7
    <3>2. \A t \in medias : \A p \in m + 1 .. 10 : N!Contradictory(ranges) \/ ~N!Says(ranges, t, p)
      BY <2>5, <3>1
    <3> QED
      BY <2>2, <2>4, <2>7, <3>1, <3>2
  <2> QED
    BY <2>6, <2>7
<1>6. ASSUME f # None, served # ParamError PROVE served.key = f
  <2>1. asked # {} /\ served = available[CHOOSE i \in asked : \A j \in asked : i <= j]
    BY <1>2, <1>6
  <2>2. PICK k \in Nat : DOMAIN available = 1 .. k
    OBVIOUS
  <2>3. asked \in SUBSET (1 .. k)
    BY <2>2
  <2>4. \E i \in asked : \A j \in asked : i <= j
    BY <2>1, <2>3, FirstOf
  <2>5. PICK i \in asked : served = available[i]
    BY <2>1, <2>4
  <2> QED
    BY <2>5
<1> QED
  BY <1>5, <1>6 DEF N!ServesWhatIsWanted, N!Max10

(* Whoever is served one representation can switch to each other one by    *)
(* its alternate link, and every media type on offer is documented once.   *)
THEOREM AlternatesAgree ==
  ASSUME NEW Reps, NEW available \in Seq(Reps), available # << >>,
         \A i, j \in DOMAIN available :
           available[i].key = available[j].key => available[i].media = available[j].media,
         \A i \in DOMAIN available : available[i].key # None,
         NEW f, NEW HeaderParts, NEW header \in Seq(HeaderParts) \cup {None},
         NEW default \in N!ToSet(available) \cup {None}, NEW documented
  PROVE  N!AlternatesAndDocsAgree(available, f, header, default, documented)
<1> DEFINE served == N!Negotiate(available, f, None, header, default)
           ranges == N!ParseAccept(header)
           medias == {r.media : r \in N!ToSet(available)}
           keys == {r.key : r \in N!ToSet(available)}
           asked(k) == {i \in DOMAIN available : available[i].key = k}
           best == Best(available, ranges)
           links == N!AlternateLinks(served, available)
           docs == N!FoldNegotiatedResponses(available, documented)
<1>1. PICK n : Weighed(ranges, n)
  BY AcceptParsed
<1>2. \A k : N!Negotiate(available, k, None, header, default) =
        CASE k # None /\ asked(k) = {} -> ParamError
          [] k # None /\ asked(k) # {} ->
               available[CHOOSE i \in asked(k) : \A j \in asked(k) : i <= j]
          [] k = None /\ ranges # << >> ->
               IF N!AcceptQuality(available[best].media, ranges) > 0
               THEN available[best] ELSE NotAcceptable
          [] OTHER -> IF default # None THEN default ELSE available[1]
  BY DEF N!Negotiate, Best
<1>3. N!ToSet(available) = {available[i] : i \in DOMAIN available}
  BY DEF N!ToSet
<1>4. PICK m \in Nat : m # 0 /\ DOMAIN available = 1 .. m
  OBVIOUS
<1>5. \A k : asked(k) # {} =>
        (CHOOSE i \in asked(k) : \A j \in asked(k) : i <= j) \in asked(k)
  <2> SUFFICES ASSUME NEW k, asked(k) # {}
               PROVE  \E i \in asked(k) : \A j \in asked(k) : i <= j
    OBVIOUS
  <2>1. asked(k) \in SUBSET (1 .. m)
    BY <1>4
  <2> QED
    BY <2>1, FirstOf
<1>6. best \in DOMAIN available
  BY <1>1, BestIs
<1>7. ASSUME served \notin {ParamError, NotAcceptable} PROVE served \in N!ToSet(available)
  <2>1. CASE f # None
    <3>1. asked(f) # {} /\ served = available[CHOOSE i \in asked(f) : \A j \in asked(f) : i <= j]
      BY <1>2, <1>7, <2>1
    <3>2. (CHOOSE i \in asked(f) : \A j \in asked(f) : i <= j) \in DOMAIN available
      BY <1>5, <3>1
    <3> QED
      BY <1>3, <3>1, <3>2
  <2>2. CASE f = None /\ ranges # << >>
    <3>1. served = available[best]
      BY <1>2, <1>7, <2>2
    <3> QED
      BY <1>3, <1>6, <3>1
  <2>3. CASE f = None /\ ranges = << >>
    <3>1. served = IF default # None THEN default ELSE available[1]
      BY <1>2, <2>3
    <3>2. available[1] \in N!ToSet(available)
      BY <1>3, <1>4
    <3> QED
      BY <3>1, <3>2
  <2> QED
    BY <2>1, <2>2, <2>3
<1>8. \A r \in N!ToSet(available) : N!Negotiate(available, r.key, None, header, default).media = r.media
  <2> SUFFICES ASSUME NEW i \in DOMAIN available
               PROVE  N!Negotiate(available, available[i].key, None, header, default).media
                        = available[i].media
    BY <1>3
  <2> DEFINE k == available[i].key
             j == CHOOSE j \in asked(k) : \A h \in asked(k) : j <= h
  <2>1. i \in asked(k) /\ k # None
    OBVIOUS
  <2>2. j \in asked(k)
    BY <1>5, <2>1
  <2>3. N!Negotiate(available, k, None, header, default) = available[j]
    BY <1>2, <2>1
  <2> HIDE DEF j
  <2>4. j \in DOMAIN available /\ available[j].key = available[i].key
    BY <2>2
  <2> QED
    BY <2>3, <2>4
<1>9. links = {[type |-> r.media, f |-> r.key] : r \in {s \in N!ToSet(available) : s.key # served.key}}
  BY DEF N!AlternateLinks
<1>10. /\ DOMAIN docs = (medias \ {N!Json}) \cup DOMAIN documented
       /\ \A t \in DOMAIN documented : docs[t] = documented[t]
  BY DEF N!FoldNegotiatedResponses, N!OpenapiResponses
<1> HIDE DEF served, medias, links, docs
<1>11. ASSUME served \in N!ToSet(available)
       PROVE  /\ {l.f : l \in links} \cup {served.key} = keys
              /\ \A l \in links : N!Negotiate(available, l.f, None, header, default).media = l.type
              /\ served.media \in medias
  <2> DEFINE others == {s \in N!ToSet(available) : s.key # served.key}
  <2>1. {l.f : l \in links} = {r.key : r \in others}
    <3> HIDE DEF others
    <3>1. links = {[type |-> r.media, f |-> r.key] : r \in others}
      BY <1>9 DEF others
    <3>2. \A r : [type |-> r.media, f |-> r.key].f = r.key
      OBVIOUS
    <3>3. ASSUME NEW l \in links PROVE l.f \in {r.key : r \in others}
      BY <3>1, <3>2
    <3>4. ASSUME NEW r \in others PROVE r.key \in {l.f : l \in links}
      BY <3>1, <3>2
    <3> QED
      BY <3>3, <3>4
  <2>2. {l.f : l \in links} \cup {served.key} = keys
    BY <1>11, <2>1
  <2>3. ASSUME NEW l \in links
        PROVE  N!Negotiate(available, l.f, None, header, default).media = l.type
    <3>1. PICK r \in N!ToSet(available) : l.f = r.key /\ l.type = r.media
      BY <1>9, <2>3
    <3> QED
      BY <1>8, <3>1
  <2> QED
    BY <1>11, <2>2, <2>3 DEF medias
<1> QED
  BY <1>7, <1>10, <1>11 DEF N!AlternatesAndDocsAgree, served, links, docs, medias

-----------------------------------------------------------------------------
(* Queryables, for any models and any depth.                               *)

(* Which node a path leads to is a matter of where all but its last name   *)
(* leads to, and that name.                                                *)
Descend(defs, node, name) ==
  IF node = None \/ node.kind # "model" THEN None
  ELSE IF name \in DOMAIN defs[node.ref] THEN Q!UnwrapNullable(defs[node.ref][name]) ELSE None
Root(model) == [kind |-> "model", ref |-> model, of |-> {}]
Trail(defs, model, path, n, f) ==
  f = [i \in 0 .. n |-> IF i = 0 THEN Root(model) ELSE Descend(defs, f[i - 1], path[i])]

LEMMA TrailExists ==
  ASSUME NEW defs, NEW model, NEW path, NEW n \in Nat
  PROVE  \E f : Trail(defs, model, path, n, f)
<1> DEFINE T == {k \in Nat : \E f : Trail(defs, model, path, k, f)}
<1>1. 0 \in T
  <2>1. Trail(defs, model, path, 0, [i \in 0 .. 0 |-> Root(model)])
    BY DEF Trail
  <2> QED
    BY <2>1
<1>2. ASSUME NEW k \in 0 .. n - 1, k \in T PROVE k + 1 \in T
  <2>1. PICK f : Trail(defs, model, path, k, f)
    BY <1>2
  <2> DEFINE g == [i \in 0 .. k + 1 |-> IF i = k + 1 THEN Descend(defs, f[k], path[k + 1]) ELSE f[i]]
  <2>2. \A i \in 0 .. k : f[i] = IF i = 0 THEN Root(model) ELSE Descend(defs, f[i - 1], path[i])
    BY <2>1, Zenon DEF Trail
  <2>3. \A i \in 0 .. k + 1 : g[i] = IF i = 0 THEN Root(model) ELSE Descend(defs, g[i - 1], path[i])
    <3>1. TAKE i \in 0 .. k + 1
    <3>2. CASE i = k + 1
      <4>1. i - 1 = k /\ i # 0 /\ k # k + 1 /\ k \in 0 .. k + 1
        BY <3>2
      <4> QED
        BY <3>2, <4>1
    <3>3. CASE i \in 0 .. k
      <4>1. i # k + 1 /\ (i # 0 => i - 1 \in 0 .. k + 1 /\ i - 1 # k + 1)
        BY <3>3
      <4> QED
        BY <2>2, <3>3, <4>1
    <3> QED
      BY <3>2, <3>3
  <2>4. Trail(defs, model, path, k + 1, g)
    BY <2>3 DEF Trail
  <2> HIDE DEF g
  <2> QED
    BY <2>4
<1> HIDE DEF T
<1>3. n \in T
  BY <1>1, <1>2, InductionUpTo
<1> QED
  BY <1>3 DEF T

LEMMA TrailAt ==
  ASSUME NEW defs, NEW model, NEW path, NEW n \in Nat, NEW f, Trail(defs, model, path, n, f)
  PROVE  /\ f[0] = Root(model)
         /\ \A i \in 1 .. n : f[i] = Descend(defs, f[i - 1], path[i])
<1>1. \A i \in 0 .. n : f[i] = IF i = 0 THEN Root(model) ELSE Descend(defs, f[i - 1], path[i])
  BY Zenon DEF Trail
<1>2. 0 \in 0 .. n /\ \A i \in 1 .. n : i \in 0 .. n /\ i # 0
  OBVIOUS
<1> QED
  BY <1>1, <1>2, Zenon

LEMMA NodeIsTrailed ==
  ASSUME NEW defs, NEW model, NEW path, NEW n \in Nat, n = Len(path)
  PROVE  \E f : Trail(defs, model, path, n, f) /\ Q!NodeAt(defs, model, path) = f[n]
<1> DEFINE f == CHOOSE node : Trail(defs, model, path, n, node)
<1>1. Trail(defs, model, path, n, f)
  BY TrailExists
<1>2. Q!NodeAt(defs, model, path) = f[n]
  BY DEF Q!NodeAt, Trail, Descend, Root
<1> QED
  BY <1>1, <1>2

(* Trails of two paths that begin alike go the same way as long as they do. *)
LEMMA TrailsAgree ==
  ASSUME NEW defs, NEW model, NEW p, NEW q, NEW m \in Nat, NEW n \in Nat, m <= n,
         \A i \in 1 .. m : p[i] = q[i],
         NEW f, Trail(defs, model, p, m, f), NEW g, Trail(defs, model, q, n, g)
  PROVE  f[m] = g[m]
<1>1. /\ f[0] = Root(model) /\ g[0] = Root(model)
      /\ \A i \in 1 .. m : f[i] = Descend(defs, f[i - 1], p[i])
      /\ \A i \in 1 .. n : g[i] = Descend(defs, g[i - 1], q[i])
  BY TrailAt
<1> DEFINE T == {k \in 0 .. m : f[k] = g[k]}
<1>2. 0 \in T
  BY <1>1
<1>3. ASSUME NEW k \in 0 .. m - 1, k \in T PROVE k + 1 \in T
  <2>1. k + 1 \in 1 .. m /\ k + 1 \in 1 .. n /\ (k + 1) - 1 = k /\ k + 1 \in 0 .. m
    OBVIOUS
  <2>2. f[k + 1] = Descend(defs, f[k], p[k + 1]) /\ g[k + 1] = Descend(defs, g[k], q[k + 1])
    BY <1>1, <2>1, Zenon
  <2>3. f[k] = g[k] /\ p[k + 1] = q[k + 1]
    BY <1>3, <2>1
  <2> QED
    BY <2>1, <2>2, <2>3
<1> HIDE DEF T
<1>4. m \in T
  BY <1>2, <1>3, InductionUpTo
<1> QED
  BY <1>4 DEF T

LEMMA LastStep ==
  ASSUME NEW defs, NEW model, NEW Names1, NEW n \in Nat \ {0}, NEW p \in [1 .. n -> Names1]
  PROVE  Q!NodeAt(defs, model, p)
           = Descend(defs, Q!NodeAt(defs, model, SubSeq(p, 1, n - 1)), p[n])
<1>1. p \in Seq(Names1) /\ Len(p) = n
  BY IsASeq
<1>2. PICK front : front = SubSeq(p, 1, n - 1)
  OBVIOUS
<1>3. /\ n - 1 \in Nat /\ n - 1 = Len(front) /\ n - 1 <= n /\ n \in 1 .. n
      /\ \A i \in 1 .. n - 1 : front[i] = p[i]
  BY <1>1, <1>2
<1>4. PICK f : Trail(defs, model, p, n, f) /\ Q!NodeAt(defs, model, p) = f[n]
  BY <1>1, NodeIsTrailed
<1>5. PICK g : Trail(defs, model, front, n - 1, g) /\ Q!NodeAt(defs, model, front) = g[n - 1]
  BY <1>3, NodeIsTrailed
<1>6. g[n - 1] = f[n - 1]
  BY <1>3, <1>4, <1>5, TrailsAgree
<1>7. f[n] = Descend(defs, f[n - 1], p[n])
  BY <1>3, <1>4, TrailAt
<1> QED
  BY <1>2, <1>4, <1>5, <1>6, <1>7

LEMMA FirstField ==
  ASSUME NEW defs, NEW model, NEW c
  PROVE  Q!NodeAt(defs, model, <<c>>) = Descend(defs, Root(model), c)
<1>1. 1 \in Nat /\ 1 = Len(<<c>>) /\ 1 \in 1 .. 1 /\ 1 - 1 = 0 /\ <<c>>[1] = c
  OBVIOUS
<1>2. PICK p : p = <<c>>
  OBVIOUS
<1>a. 1 \in Nat /\ 1 = Len(p)
  BY <1>1, <1>2
<1>3. PICK f : Trail(defs, model, p, 1, f) /\ Q!NodeAt(defs, model, p) = f[1]
  BY <1>a, NodeIsTrailed, ZenonT(40)
<1>4. f[0] = Root(model) /\ \A i \in 1 .. 1 : f[i] = Descend(defs, f[i - 1], p[i])
  BY <1>1, <1>3, TrailAt
<1>5. f[1] = Descend(defs, f[0], p[1])
  BY <1>1, <1>4, Zenon
<1> QED
  BY <1>1, <1>2, <1>3, <1>4, <1>5, Zenon

(* Below a field that holds no nested model there is nothing; below one    *)
(* that does, what is below that model.                                    *)
LEMMA NodeBelow ==
  ASSUME NEW defs, NEW model, NEW Names1, NEW c \in Names1, NEW s \in Seq(Names1), s # << >>,
         NEW child, child = Descend(defs, Root(model), c),
         child # None /\ child.kind = "model" => Root(child.ref) # None
  PROVE  Q!NodeAt(defs, model, <<c>> \o s)
           = IF child # None /\ child.kind = "model" THEN Q!NodeAt(defs, child.ref, s) ELSE None
<1>1. PICK n \in Nat \ {0} : n = Len(s)
  OBVIOUS
<1>2. /\ n + 1 \in Nat /\ Len(<<c>> \o s) = n + 1
      /\ (<<c>> \o s)[1] = c /\ \A i \in 1 .. n : (<<c>> \o s)[i + 1] = s[i]
  BY <1>1
<1>3. PICK p : p = <<c>> \o s
  OBVIOUS
<1>a. PICK l \in Nat : l = n + 1
  BY <1>2
<1>b. l \in Nat /\ l = Len(p)
  BY <1>2, <1>3, <1>a
<1>d. ASSUME NEW q, NEW k \in Nat, k = Len(q)
      PROVE  \E f : Trail(defs, model, q, k, f) /\ Q!NodeAt(defs, model, q) = f[k]
  BY <1>d, NodeIsTrailed
<1>4. PICK f : Trail(defs, model, p, l, f) /\ Q!NodeAt(defs, model, p) = f[l]
  BY <1>b, <1>d
<1>c. f[0] = Root(model) /\ \A i \in 1 .. l : f[i] = Descend(defs, f[i - 1], p[i])
  <2>1. \A i \in 0 .. l : f[i] = IF i = 0 THEN Root(model) ELSE Descend(defs, f[i - 1], p[i])
    BY <1>4, Zenon DEF Trail
  <2>2. 0 \in 0 .. l /\ \A i \in 1 .. l : i \in 0 .. l /\ i # 0
    OBVIOUS
  <2> QED
    BY <2>1, <2>2, Zenon
<1>5. f[0] = Root(model) /\ \A i \in 1 .. n + 1 : f[i] = Descend(defs, f[i - 1], p[i])
  BY <1>a, <1>c
<1>6. 1 \in 1 .. n + 1 /\ 1 - 1 = 0
  OBVIOUS
<1>7. f[1] = child
  <2>1. f[1] = Descend(defs, f[0], p[1])
    BY <1>5, <1>6, Zenon
  <2> QED
    BY <1>2, <1>3, <1>5, <2>1, Zenon
<1>8. \A k \in 1 .. n : f[k + 1] = Descend(defs, f[k], s[k])
  <2>1. TAKE k \in 1 .. n
  <2>2. k + 1 \in 1 .. n + 1 /\ (k + 1) - 1 = k
    OBVIOUS
  <2>3. f[k + 1] = Descend(defs, f[k], p[k + 1])
    BY <1>5, <2>2, Zenon
  <2> QED
    BY <1>2, <1>3, <2>3, Zenon
<1>9. CASE child # None /\ child.kind = "model"
  <2>1. PICK g : Trail(defs, child.ref, s, n, g) /\ Q!NodeAt(defs, child.ref, s) = g[n]
    BY <1>1, NodeIsTrailed
  <2>2. g[0] = Root(child.ref) /\ \A i \in 1 .. n : g[i] = Descend(defs, g[i - 1], s[i])
    BY <2>1, TrailAt
  <2> DEFINE T == {k \in 0 .. n - 1 : f[k + 2] = g[k + 1]}
  <2>3. 0 \in T
    <3>1. 1 \in 1 .. n /\ 1 - 1 = 0 /\ 0 \in 0 .. n - 1 /\ 1 + 1 = 2 /\ 0 + 2 = 2 /\ 0 + 1 = 1
      OBVIOUS
    <3>2. f[2] = Descend(defs, child, s[1]) /\ g[1] = Descend(defs, Root(child.ref), s[1])
      BY <1>7, <1>8, <2>2, <3>1, Zenon
    <3>3. Descend(defs, child, s[1]) = Descend(defs, Root(child.ref), s[1])
      <4>1. Root(child.ref).kind = "model" /\ Root(child.ref).ref = child.ref
        BY DEF Root
      <4> QED
        BY <1>9, <4>1 DEF Descend
    <3> QED
      BY <3>1, <3>2, <3>3, Zenon
  <2>4. ASSUME NEW k \in 0 .. (n - 1) - 1, k \in T PROVE k + 1 \in T
    <3>1. /\ k + 2 \in 1 .. n /\ (k + 2) - 1 = k + 1 /\ (k + 1) + 1 = k + 2 /\ k + 1 \in 0 .. n - 1
          /\ (k + 2) + 1 = (k + 1) + 2
      OBVIOUS
    <3>2. f[(k + 1) + 2] = Descend(defs, f[k + 2], s[k + 2])
      BY <1>8, <3>1, Zenon
    <3>3. g[(k + 1) + 1] = Descend(defs, g[k + 1], s[k + 2])
      BY <2>2, <3>1, Zenon
    <3>4. f[k + 2] = g[k + 1]
      BY <2>4
    <3> QED
      BY <3>1, <3>2, <3>3, <3>4, Zenon
  <2> HIDE DEF T
  <2>5. n - 1 \in Nat /\ n - 1 \in 0 .. n - 1
    OBVIOUS
  <2>6. n - 1 \in T
    BY <2>3, <2>4, <2>5, InductionUpTo
  <2>7. f[(n - 1) + 2] = g[(n - 1) + 1]
    BY <2>6 DEF T
  <2>8. (n - 1) + 2 = n + 1 /\ (n - 1) + 1 = n
    OBVIOUS
  <2> QED
    BY <1>3, <1>4, <1>9, <1>a, <2>1, <2>7, <2>8
<1>10. CASE ~(child # None /\ child.kind = "model")
  <2> DEFINE T == {k \in 0 .. n - 1 : f[k + 2] = None}
  <2>1. 0 \in T
    <3>1. 1 \in 1 .. n /\ 0 \in 0 .. n - 1 /\ 1 + 1 = 2 /\ 0 + 2 = 2
      OBVIOUS
    <3>2. f[2] = Descend(defs, child, s[1])
      BY <1>7, <1>8, <3>1, Zenon
    <3>3. f[2] = None
      BY <1>10, <3>2 DEF Descend
    <3> QED
      BY <3>1, <3>3, Zenon
  <2>2. ASSUME NEW k \in 0 .. (n - 1) - 1, k \in T PROVE k + 1 \in T
    <3>1. k + 2 \in 1 .. n /\ k + 1 \in 0 .. n - 1 /\ (k + 2) + 1 = (k + 1) + 2
      OBVIOUS
    <3>2. f[(k + 1) + 2] = Descend(defs, f[k + 2], s[k + 2]) /\ f[k + 2] = None
      BY <1>8, <2>2, <3>1, Zenon
    <3>3. f[(k + 1) + 2] = None
      BY <3>2 DEF Descend
    <3> QED
      BY <3>1, <3>3, Zenon
  <2> HIDE DEF T
  <2>3. n - 1 \in Nat /\ n - 1 \in 0 .. n - 1
    OBVIOUS
  <2>4. n - 1 \in T
    BY <2>1, <2>2, <2>3, InductionUpTo
  <2>5. f[(n - 1) + 2] = None
    BY <2>4 DEF T
  <2>6. (n - 1) + 2 = n + 1
    OBVIOUS
  <2> QED
    BY <1>3, <1>4, <1>10, <1>a, <2>5, <2>6
<1> QED
  BY <1>9, <1>10

(* Schemas whose models refer to models that they define.                  *)
Schemas(defs) ==
  \A m \in DOMAIN defs :
    /\ Root(m) # None
    /\ \A c \in DOMAIN defs[m] :
         LET node == Q!UnwrapNullable(defs[m][c])
         IN node # None /\ (node.kind = "model" => node.ref \in DOMAIN defs)
FieldsOf(defs) == UNION {DOMAIN defs[m] : m \in DOMAIN defs}

(* What the names are to be: the fields declared no deeper than n, nested  *)
(* models left out, and geometries and arrays too if only scalars count.   *)
Advertised(defs, m, p, n, scalarsOnly) ==
  LET node == Q!NodeAt(defs, m, p)
  IN /\ p # << >> /\ Len(p) <= n /\ node # None /\ node.kind # "model"
     /\ scalarsOnly => ~Q!IsGeometry(node) /\ node.kind # "array"

(* One level: the fields of a model, over those of the models they hold.   *)
LEMMA OneLevel ==
  ASSUME NEW defs, Schemas(defs), NEW Names1, FieldsOf(defs) \subseteq Names1,
         NEW n \in Nat, NEW scalarsOnly \in BOOLEAN, NEW m \in DOMAIN defs, NEW deeper,
         \A r \in DOMAIN defs :
           /\ deeper[r] \subseteq Seq(Names1)
           /\ \A s \in Seq(Names1) : s \in deeper[r] <=> Advertised(defs, r, s, n, scalarsOnly)
  PROVE  /\ Q!NamesIn(defs[m], deeper, scalarsOnly) \subseteq Seq(Names1)
         /\ \A p \in Seq(Names1) :
              p \in Q!NamesIn(defs[m], deeper, scalarsOnly)
                <=> Advertised(defs, m, p, n + 1, scalarsOnly)
<1> DEFINE node(c) == Q!UnwrapNullable(defs[m][c])
           names(c) == IF node(c).kind = "model" THEN {<<c>> \o s : s \in deeper[node(c).ref]}
                       ELSE IF scalarsOnly /\ (Q!IsGeometry(node(c)) \/ node(c).kind = "array") THEN {}
                       ELSE {<<c>>}
<1>1. \A p : p \in Q!NamesIn(defs[m], deeper, scalarsOnly)
               <=> \E c \in DOMAIN defs[m] : p \in names(c)
  BY DEF Q!NamesIn
<1>2. ASSUME NEW c \in DOMAIN defs[m]
      PROVE  /\ c \in Names1 /\ node(c) # None /\ node(c) = Descend(defs, Root(m), c)
             /\ node(c).kind = "model" => node(c).ref \in DOMAIN defs /\ Root(node(c).ref) # None
  <2>1. c \in Names1
    BY DEF FieldsOf
  <2>2. Root(m) # None /\ Root(m).kind = "model" /\ Root(m).ref = m
    BY DEF Schemas, Root
  <2>3. node(c) # None /\ (node(c).kind = "model" => node(c).ref \in DOMAIN defs)
    BY DEF Schemas
  <2>4. node(c).kind = "model" => Root(node(c).ref) # None
    BY <2>3 DEF Schemas
  <2> QED
    BY <2>1, <2>2, <2>3, <2>4 DEF Descend
<1>3. ASSUME NEW c \in DOMAIN defs[m], NEW p \in names(c) PROVE p \in Seq(Names1)
  <2>1. CASE node(c).kind = "model"
    <3>1. PICK s \in deeper[node(c).ref] : p = <<c>> \o s
      BY <1>3, <2>1
    <3>2. s \in Seq(Names1) /\ c \in Names1
      BY <1>2, <2>1, <3>1
    <3> QED
      BY <3>1, <3>2
  <2>2. CASE node(c).kind # "model"
    <3>1. p = <<c>>
      BY <1>3, <2>2
    <3> QED
      BY <1>2, <3>1
  <2> QED
    BY <2>1, <2>2
<1>4. ASSUME NEW p \in Seq(Names1), p # << >>
      PROVE  p \in Q!NamesIn(defs[m], deeper, scalarsOnly)
               <=> p[1] \in DOMAIN defs[m] /\ p \in names(p[1])
  <2>1. ASSUME NEW c \in DOMAIN defs[m], p \in names(c) PROVE c = p[1]
    <3>1. CASE node(c).kind = "model"
      <4>1. PICK s \in deeper[node(c).ref] : p = <<c>> \o s
        BY <2>1, <3>1
      <4>2. s \in Seq(Names1)
        BY <1>2, <3>1, <4>1
      <4> QED
        BY <4>1, <4>2
    <3>2. CASE node(c).kind # "model"
      BY <2>1, <3>2
    <3> QED
      BY <3>1, <3>2
  <2> HIDE DEF names
  <2> QED
    BY <1>1, <2>1
<1>5. ASSUME NEW e, e = << >>, e \in Q!NamesIn(defs[m], deeper, scalarsOnly) PROVE FALSE
  <2>1. PICK c \in DOMAIN defs[m] : e \in names(c)
    BY <1>1, <1>5
  <2>2. Len(e) = 0
    BY <1>5
  <2>3. CASE node(c).kind = "model"
    <3>1. PICK s \in deeper[node(c).ref] : e = <<c>> \o s
      BY <2>1, <2>3
    <3>2. s \in Seq(Names1)
      BY <1>2, <2>3, <3>1
    <3>3. Len(<<c>> \o s) = 1 + Len(s) /\ Len(s) \in Nat
      BY <3>2
    <3> QED
      BY <2>2, <3>1, <3>3
  <2>4. CASE node(c).kind # "model"
    <3>1. e = <<c>>
      BY <2>1, <2>4
    <3>2. Len(<<c>>) = 1
      OBVIOUS
    <3> QED
      BY <2>2, <3>1, <3>2
  <2> QED
    BY <2>3, <2>4
<1>6. ASSUME NEW p \in Seq(Names1), p # << >>
      PROVE  p \in Q!NamesIn(defs[m], deeper, scalarsOnly)
               <=> Advertised(defs, m, p, n + 1, scalarsOnly)
  <2>1. PICK c \in Names1, s \in Seq(Names1) : p = <<c>> \o s /\ c = p[1] /\ s = Tail(p)
    <3>1. p[1] \in Names1 /\ Tail(p) \in Seq(Names1) /\ p = <<p[1]>> \o Tail(p)
      BY <1>6
    <3> QED
      BY <3>1
  <2>2. Len(p) = 1 + Len(s) /\ Len(s) \in Nat
    BY <2>1
  <2>3. CASE c \notin DOMAIN defs[m]
    <3>1. Q!NodeAt(defs, m, p) = None
      <4>1. Descend(defs, Root(m), c) = None
        <5>1. Root(m).ref = m
          BY DEF Root
        <5> QED
          BY <2>3, <5>1 DEF Descend
      <4>2. CASE s = << >>
        <5>1. p = <<c>>
          BY <2>1, <4>2
        <5> QED
          BY <4>1, <5>1, FirstField
      <4>3. CASE s # << >>
        BY <2>1, <4>1, <4>3, NodeBelow
      <4> QED
        BY <4>2, <4>3
    <3> QED
      BY <1>4, <1>6, <2>1, <2>3, <3>1 DEF Advertised
  <2>4. CASE c \in DOMAIN defs[m] /\ s = << >>
    <3>1. p = <<c>> /\ Q!NodeAt(defs, m, p) = node(c)
      BY <1>2, <2>1, <2>4, FirstField
    <3>2. p \in names(c) <=> node(c).kind # "model"
                             /\ (scalarsOnly => ~Q!IsGeometry(node(c)) /\ node(c).kind # "array")
      <4>1. ASSUME node(c).kind = "model", p \in names(c) PROVE FALSE
        <5>1. PICK t \in deeper[node(c).ref] : p = <<c>> \o t
          BY <4>1
        <5>2. t \in Seq(Names1) /\ node(c).ref \in DOMAIN defs
          BY <1>2, <2>4, <4>1, <5>1
        <5>3. t = << >>
          <6>1. Len(p) = 1 + Len(t) /\ Len(p) = 1
            BY <2>2, <2>4, <5>1, <5>2
          <6> QED
            BY <5>2, <6>1
        <5> QED
          BY <5>1, <5>2, <5>3 DEF Advertised
      <4> QED
        BY <3>1, <4>1
    <3>3. Len(p) <= n + 1
      BY <2>2, <2>4
    <3> HIDE DEF node, names
    <3> QED
      BY <1>2, <1>4, <1>6, <2>1, <2>4, <3>1, <3>2, <3>3 DEF Advertised
  <2>5. CASE c \in DOMAIN defs[m] /\ s # << >>
    <3>1. Len(p) <= n + 1 <=> Len(s) <= n
      BY <2>2
    <3>a. ASSUME NEW child, child = Descend(defs, Root(m), c),
                 child # None /\ child.kind = "model" => Root(child.ref) # None
          PROVE  Q!NodeAt(defs, m, <<c>> \o s)
                   = IF child # None /\ child.kind = "model" THEN Q!NodeAt(defs, child.ref, s) ELSE None
      BY <2>5, <3>a, NodeBelow
    <3>2. CASE node(c).kind = "model"
      <4>1. Q!NodeAt(defs, m, p) = Q!NodeAt(defs, node(c).ref, s)
        <5>1. PICK child : child = node(c)
          OBVIOUS
        <5>2. child = Descend(defs, Root(m), c) /\ child # None /\ child.kind = "model"
              /\ Root(child.ref) # None
          BY <1>2, <2>5, <3>2, <5>1
        <5> HIDE DEF node
        <5> QED
          BY <2>1, <3>a, <5>1, <5>2
      <4>2. p \in names(c) <=> s \in deeper[node(c).ref]
        <5>1. ASSUME NEW t \in deeper[node(c).ref], p = <<c>> \o t PROVE t = s
          <6>1. t \in Seq(Names1)
            BY <1>2, <2>5, <3>2
          <6> QED
            BY <2>1, <5>1, <6>1
        <5> QED
          BY <2>1, <3>2, <5>1
      <4>3. s \in deeper[node(c).ref] <=> Advertised(defs, node(c).ref, s, n, scalarsOnly)
        BY <1>2, <2>5, <3>2
      <4> HIDE DEF node, names
      <4> QED
        BY <1>4, <1>6, <2>1, <2>5, <3>1, <4>1, <4>2, <4>3 DEF Advertised
    <3>3. CASE node(c).kind # "model"
      <4>1. Q!NodeAt(defs, m, p) = None
        <5>1. PICK child : child = node(c)
          OBVIOUS
        <5>2. child = Descend(defs, Root(m), c) /\ child.kind # "model"
          BY <1>2, <2>5, <3>3, <5>1
        <5> HIDE DEF node
        <5> QED
          BY <2>1, <3>a, <5>2
      <4>2. p \notin names(c)
        <5>1. p # <<c>>
          <6>1. Len(<<c>>) = 1
            OBVIOUS
          <6>2. Len(s) # 0
            BY <2>1, <2>5
          <6>3. p = <<c>> => Len(p) = 1
            BY <6>1
          <6> QED
            BY <2>2, <6>2, <6>3
        <5> QED
          BY <3>3, <5>1
      <4> HIDE DEF node, names
      <4> QED
        BY <1>4, <1>6, <2>1, <4>1, <4>2 DEF Advertised
    <3> QED
      BY <3>2, <3>3
  <2> QED
    BY <2>3, <2>4, <2>5
<1>7. ASSUME NEW p \in Seq(Names1), p = << >>
      PROVE  ~Advertised(defs, m, p, n + 1, scalarsOnly)
  BY <1>7 DEF Advertised
<1> HIDE DEF names, node
<1> QED
  BY <1>1, <1>3, <1>5, <1>6, <1>7

(* The levels of _flatten, as a function of what is left of the depth.     *)
Level(defs, scalarsOnly, deeper) ==
  [m \in DOMAIN defs |-> Q!NamesIn(defs[m], deeper, scalarsOnly)]
Levelled(defs, scalarsOnly, n, f) ==
  f = [lvl \in 0 .. n |->
         LET deeper == IF lvl = 0 THEN [m \in DOMAIN defs |-> {}] ELSE f[lvl - 1]
         IN Level(defs, scalarsOnly, deeper)]

LEMMA LevelsExist ==
  ASSUME NEW defs, NEW scalarsOnly, NEW n \in Nat
  PROVE  \E f : Levelled(defs, scalarsOnly, n, f)
<1> DEFINE none == [m \in DOMAIN defs |-> {}]
           step(x) == Level(defs, scalarsOnly, x)
           T == {k \in Nat : \E f : Levelled(defs, scalarsOnly, k, f)}
<1>1. 0 \in T
  <2>1. Levelled(defs, scalarsOnly, 0, [i \in 0 .. 0 |-> step(none)])
    BY DEF Levelled
  <2> QED
    BY <2>1
<1>2. ASSUME NEW k \in 0 .. n - 1, k \in T PROVE k + 1 \in T
  <2>1. PICK f : Levelled(defs, scalarsOnly, k, f)
    BY <1>2
  <2> DEFINE g == [i \in 0 .. k + 1 |-> IF i = k + 1 THEN step(f[k]) ELSE f[i]]
  <2>2. \A i \in 0 .. k : f[i] = step(IF i = 0 THEN none ELSE f[i - 1])
    BY <2>1, Zenon DEF Levelled
  <2> HIDE DEF step, none
  <2>3. \A i \in 0 .. k + 1 : g[i] = step(IF i = 0 THEN none ELSE g[i - 1])
    <3>1. TAKE i \in 0 .. k + 1
    <3>2. CASE i = k + 1
      <4>1. i - 1 = k /\ i # 0 /\ k # k + 1 /\ k \in 0 .. k + 1
        BY <3>2
      <4> QED
        BY <3>2, <4>1
    <3>3. CASE i \in 0 .. k
      <4>1. i # k + 1 /\ (i # 0 => i - 1 \in 0 .. k + 1 /\ i - 1 # k + 1)
        BY <3>3
      <4> QED
        BY <2>2, <3>3, <4>1
    <3> QED
      BY <3>2, <3>3
  <2> USE DEF step, none
  <2>4. Levelled(defs, scalarsOnly, k + 1, g)
    BY <2>3 DEF Levelled
  <2> HIDE DEF g
  <2> QED
    BY <2>4
<1> HIDE DEF T
<1>3. n \in T
  BY <1>1, <1>2, InductionUpTo
<1> QED
  BY <1>3 DEF T

(* _flatten is what the reference asks for, at any depth.                  *)
LEMMA FlattenIs ==
  ASSUME NEW defs, Schemas(defs), NEW Names1, FieldsOf(defs) \subseteq Names1,
         NEW depth \in Nat, NEW scalarsOnly \in BOOLEAN, NEW model \in DOMAIN defs
  PROVE  /\ Q!Flatten(defs, model, depth, scalarsOnly) \subseteq Seq(Names1)
         /\ \A p \in Seq(Names1) :
              p \in Q!Flatten(defs, model, depth, scalarsOnly)
                <=> Advertised(defs, model, p, Q!Levels(depth) + 1, scalarsOnly)
<1>1. PICK n \in Nat : n = Q!Levels(depth)
  BY DEF Q!Levels
<1> DEFINE f == CHOOSE below : Levelled(defs, scalarsOnly, n, below)
<1>2. Levelled(defs, scalarsOnly, n, f)
  BY LevelsExist
<1>3. Q!Flatten(defs, model, depth, scalarsOnly) = f[n][model]
  BY <1>1 DEF Q!Flatten, Levelled, Level
<1> HIDE DEF f
<1>4. \A i \in 0 .. n :
        f[i] = Level(defs, scalarsOnly, IF i = 0 THEN [m \in DOMAIN defs |-> {}] ELSE f[i - 1])
  BY <1>2, Zenon DEF Levelled
<1> DEFINE Good(level, k) ==
             \A r \in DOMAIN defs :
               /\ level[r] \subseteq Seq(Names1)
               /\ \A s \in Seq(Names1) : s \in level[r] <=> Advertised(defs, r, s, k, scalarsOnly)
           T == {k \in 0 .. n : Good(f[k], k + 1)}
<1>5. ASSUME NEW level, NEW k \in Nat, Good(level, k)
      PROVE  Good(Level(defs, scalarsOnly, level), k + 1)
  <2>1. ASSUME NEW r \in DOMAIN defs
        PROVE  /\ Q!NamesIn(defs[r], level, scalarsOnly) \subseteq Seq(Names1)
               /\ \A s \in Seq(Names1) : s \in Q!NamesIn(defs[r], level, scalarsOnly)
                                           <=> Advertised(defs, r, s, k + 1, scalarsOnly)
    BY <1>5, OneLevel, SMTT(30)
  <2>2. \A r \in DOMAIN defs :
          Level(defs, scalarsOnly, level)[r] = Q!NamesIn(defs[r], level, scalarsOnly)
    BY DEF Level
  <2> QED
    BY <2>1, <2>2
<1>6. Good([m \in DOMAIN defs |-> {}], 0)
  <2>1. ASSUME NEW r \in DOMAIN defs, NEW s \in Seq(Names1)
        PROVE  ~Advertised(defs, r, s, 0, scalarsOnly)
    BY DEF Advertised
  <2> QED
    BY <2>1
<1> HIDE DEF Good
<1>7. 0 \in T
  <2>1. f[0] = Level(defs, scalarsOnly, [m \in DOMAIN defs |-> {}])
    BY <1>4
  <2>2. 0 + 1 = 1 /\ 0 \in 0 .. n
    OBVIOUS
  <2> QED
    BY <1>5, <1>6, <2>1, <2>2
<1>8. ASSUME NEW k \in 0 .. n - 1, k \in T PROVE k + 1 \in T
  <2>1. k + 1 \in 0 .. n /\ k + 1 # 0 /\ (k + 1) - 1 = k /\ k + 1 \in Nat
    OBVIOUS
  <2>2. f[k + 1] = Level(defs, scalarsOnly, f[k])
    BY <1>4, <2>1
  <2>3. Good(f[k], k + 1)
    BY <1>8
  <2> QED
    BY <1>5, <2>1, <2>2, <2>3
<1> HIDE DEF T
<1>9. n \in 0 .. n /\ n \in T
  BY <1>7, <1>8, InductionUpTo
<1>10. Good(f[n], n + 1)
  BY <1>9 DEF T
<1> QED
  BY <1>1, <1>3, <1>10 DEF Good

(* Names that can be filtered and sorted by, for any models, of which A    *)
(* has fields f and g at most, and for any depth.                          *)
THEOREM EveryNameReached ==
  ASSUME NEW defs, Schemas(defs), "A" \in DOMAIN defs, NEW depth \in Nat, NEW nulls
  PROVE  Q!NamesReachLeaves(defs, "A", depth, ItemOf(defs, Q!Levels(depth) + 2, nulls))
<1> DEFINE held == ItemOf(defs, Q!Levels(depth) + 2, nulls)
           limit == IF depth = 0 THEN 1 ELSE depth
           all == {"f", "g"} \cup FieldsOf(defs)
           At(p) == Q!NodeAt(defs, "A", p)
           filtering == Q!QueryablesFromModel(defs, "A", depth)
           sorting == Q!SortablesFromModel(defs, "A", depth)
<1>0. /\ Q!Levels(depth) + 1 = limit /\ Q!Levels(depth) + 2 = limit + 1
      /\ limit \in Nat /\ FieldsOf(defs) \subseteq all
  BY DEF Q!Levels
<1>1. ASSUME NEW p \in DOMAIN held
      PROVE  \E n \in 1 .. limit + 1 : p \in [1 .. n -> {"f", "g"}] /\ p \in Seq(all) /\ Len(p) = n
  <2>0. p \in Q!Paths({"f", "g"}, Q!Levels(depth) + 2)
    BY DEF ItemOf
  <2> HIDE DEF limit, held
  <2>1. p \in Q!Paths({"f", "g"}, limit + 1)
    BY <1>0, <2>0, Zenon
  <2>2. PICK n \in 1 .. limit + 1 : p \in [1 .. n -> {"f", "g"}]
    BY <2>1 DEF Q!Paths
  <2>3. n \in Nat /\ p \in [1 .. n -> all]
    BY <1>0, <2>2
  <2> QED
    BY <2>2, <2>3, IsASeq
<1>2. /\ filtering \subseteq Seq(all)
      /\ \A p \in Seq(all) : p \in filtering <=> Advertised(defs, "A", p, limit, FALSE)
  <2> HIDE DEF limit, all
  <2>1. FALSE \in BOOLEAN
    OBVIOUS
  <2> QED
    BY <1>0, <2>1, FlattenIs, Zenon DEF Q!QueryablesFromModel
<1>3. /\ sorting \subseteq Seq(all)
      /\ \A p \in Seq(all) : p \in sorting <=> Advertised(defs, "A", p, limit, TRUE)
  <2> HIDE DEF limit, all
  <2>1. TRUE \in BOOLEAN
    OBVIOUS
  <2> QED
    BY <1>0, <2>1, FlattenIs, Zenon DEF Q!SortablesFromModel
<1>4. ASSUME NEW p \in DOMAIN held
      PROVE  Q!ValidateProperties({p}, filtering) = "ok" <=>
               (Len(p) <= limit /\ ~(At(p) = None \/ At(p).kind = "model"))
  <2>1. p \in Seq(all) /\ p # << >>
    BY <1>1
  <2>2. Q!ValidateProperties({p}, filtering) = "ok" <=> p \in filtering
    BY DEF Q!ValidateProperties
  <2> HIDE DEF filtering, limit, all
  <2> QED
    BY <1>2, <2>1, <2>2 DEF Advertised
<1>5. ASSUME NEW p \in sorting
      PROVE  p \in filtering /\ At(p) # None /\ At(p).kind # "array"
  <2> HIDE DEF filtering, sorting, limit, all
  <2> QED
    BY <1>2, <1>3 DEF Advertised
<1>6. ASSUME NEW p \in sorting, Q!DottedGet(held, p) = "array"
      PROVE  At(p).kind = "union"
  <2>1. p \in DOMAIN held /\ held[p] = "array"
    BY <1>6, NamesAssumption DEF Q!DottedGet
  <2>2. PICK n \in 1 .. limit + 1 : p \in [1 .. n -> {"f", "g"}] /\ Len(p) = n
    BY <1>1, <2>1
  <2>3. PICK parent : parent = Q!NodeAt(defs, "A", SubSeq(p, 1, n - 1))
    OBVIOUS
  <2>4. At(p) = Descend(defs, parent, p[n])
    <3>1. n \in Nat \ {0} /\ p \in [1 .. n -> {"f", "g"}]
      BY <1>0, <2>2
    <3>2. Q!NodeAt(defs, "A", p) = Descend(defs, Q!NodeAt(defs, "A", SubSeq(p, 1, n - 1)), p[n])
      BY <3>1, LastStep, ZenonT(40)
    <3> QED
      BY <2>3, <3>2
  <2>5. At(p) # None
    BY <1>5
  <2>6. /\ parent # None /\ parent.kind = "model" /\ p[n] \in DOMAIN defs[parent.ref]
        /\ At(p) = Q!UnwrapNullable(defs[parent.ref][p[n]])
    BY <2>4, <2>5 DEF Descend
  <2>7. Raw(defs, p) = defs[parent.ref][p[n]]
    BY <2>2, <2>3, <2>6 DEF Raw
  <2>8. held[p] = ValueOf(Q!UnwrapNullable(Raw(defs, p)))
    BY <2>1 DEF ItemOf
  <2>9. ValueOf(At(p)) = "array"
    BY <2>1, <2>6, <2>7, <2>8
  <2>10. At(p).kind = "union" \/ At(p).kind = "array"
    BY <2>9 DEF ValueOf
  <2> QED
    BY <1>5, <2>10
<1>7. \A p \in filtering : At(p).kind # "model"
  <2> HIDE DEF filtering, limit, all
  <2> QED
    BY <1>2 DEF Advertised
<1> QED
  BY <1>4, <1>5, <1>6, <1>7 DEF Q!NamesReachLeaves

-----------------------------------------------------------------------------
(* The single calls: which arguments each is made with.                    *)
CallsInv == part = "call" => CallInit

LEMMA CallsStay == MCSpec => []CallsInv
<1>1. MCInit => CallsInv
  BY DEF MCInit, CallsInv
<1>2. CallsInv /\ [MCNext]_allVars => CallsInv'
  BY OnePartMoves DEF CallsInv, CallInit
<1> QED
  BY <1>1, <1>2, PTL DEF MCSpec

LEMMA CallsAreOf ==
  ASSUME CallInit
  PROVE  /\ call.of = "negotiate" => call \in NegotiateCalls
         /\ call.of = "box" => call \in BoxCalls
         /\ call.of = "interval" => call \in IntervalCalls
         /\ call.of = "serve" => call \in ServeCalls
         /\ call.of = "query" => call \in QueryCalls
<1>1. \A c \in NegotiateCalls : c.of = "negotiate"
  BY DEF NegotiateCalls
<1>2. \A c \in BoxCalls : c.of = "box"
  BY DEF BoxCalls
<1>3. \A c \in IntervalCalls : c.of = "interval"
  BY DEF IntervalCalls
<1>4. \A c \in ServeCalls : c.of = "serve"
  BY DEF ServeCalls
<1>5. \A c \in QueryCalls : c.of = "query"
  BY DEF QueryCalls
<1> QED
  BY <1>1, <1>2, <1>3, <1>4, <1>5 DEF CallInit

(* Two boxes with their sides exchanged split the globe, and an interval   *)
(* holds instants, whatever the clocks they are written in.                *)
THEOREM ExtentsHold == MCSpec => []ExtentsHoldTheirPoints
<1>1. ASSUME CallsInv, part = "call", call.of = "box"
      PROVE  O!BoxesSplitTheGlobe(call.raw, Numbers, Numbers)
  <2>1. call \in BoxCalls
    BY <1>1, CallsAreOf DEF CallsInv
  <2>2. PICK r \in [1 .. 4 -> Numbers] \cup [1 .. 6 -> {-1, 1}] \cup [1 .. 5 -> {0}]
                   \cup [1 .. 4 -> {0, Text, Infinite}] : call = [of |-> "box", raw |-> r]
    BY <2>1 DEF BoxCalls
  <2>3. \E n \in Nat : r \in [1 .. n -> Parts4]
    <3>1. Numbers \subseteq Parts4 /\ {-1, 1} \subseteq Parts4 /\ {0, Text, Infinite} \subseteq Parts4
      BY DEF Numbers, Parts4
    <3>2. r \in [1 .. 4 -> Parts4] \/ r \in [1 .. 6 -> Parts4] \/ r \in [1 .. 5 -> Parts4]
      BY <2>2, <3>1
    <3> QED
      BY <3>2
  <2>4. call.raw \in Seq(Parts4)
    BY <2>2, <2>3, IsASeq
  <2> QED
    BY <2>4, BoxesSplit DEF Numbers
<1>2. ASSUME CallsInv, part = "call", call.of = "interval"
      PROVE  O!IntervalsHoldInstants(call.raw, call.built, call.when)
  <2>1. call \in IntervalCalls
    BY <1>2, CallsAreOf DEF CallsInv
  <2>2. Times \subseteq DateTimes
    BY DEF Times, DateTimes
  <2>3. \A n \in 1 .. 3 : \A r \in [1 .. n -> DateTimes \cup {Open, Invalid}] :
          r \in Seq(DateTimes \cup {Open, Invalid}) /\ r # << >>
    BY IsASeq
  <2>4. PICK r \in Seq(DateTimes \cup {Open, Invalid}), s \in DateTimes \cup {None},
             e \in DateTimes \cup {None}, w \in DateTimes :
          /\ r # << >>
          /\ call = [of |-> "interval", raw |-> r, built |-> O!Interval(s, e), when |-> w]
    BY <2>1, <2>2, <2>3 DEF IntervalCalls, Sides
  <2> QED
    BY <2>4, IntervalsHold
<1>3. CallsInv => ExtentsHoldTheirPoints
  BY <1>1, <1>2 DEF ExtentsHoldTheirPoints
<1> QED
  BY <1>3, CallsStay, PTL

(* A request is served within the allow-list, or told which parameter is   *)
(* wrong.                                                                  *)
THEOREM RequestsServed == MCSpec => []ServedOrRefused
<1>1. ASSUME CallsInv, part = "call", call.of = "serve"
      PROVE  O!ServedOrRefused(call.value, call.allowed, call.default, call.filter, call.lang,
                               call.queryables, call.raw)
  <2>1. call \in ServeCalls
    BY <1>1, CallsAreOf DEF CallsInv
  <2>2. None \notin call.allowed
    BY <2>1, OgcAssumption DEF ServeCalls
  <2> QED
    BY <2>2, EveryRequestServed
<1>2. CallsInv => ServedOrRefused
  BY <1>1 DEF ServedOrRefused
<1> QED
  BY <1>2, CallsStay, PTL

(* What is on offer: two lists of representations with keys of their own.  *)
OffersInv ==
  \A o \in Offers :
    /\ o \in Seq([key : {"json", "html", "txt"}, media : {N!Json, Html, Txt}]) /\ o # << >>
    /\ \A i, j \in DOMAIN o : o[i].key = o[j].key => o[i].media = o[j].media
    /\ \A i \in DOMAIN o : o[i].key # None /\ o[i] \notin {ParamError, NotAcceptable}
    /\ o[2] \in N!ToSet(o)

LEMMA OffersAre == OffersInv
<1> DEFINE R == [key : {"json", "html", "txt"}, media : {N!Json, Html, Txt}]
           json == Rep("json", N!Json)
           html == Rep("html", Html)
           txt == Rep("txt", Txt)
<1>1. json \in R /\ html \in R /\ txt \in R
  BY DEF Rep
<1>2. /\ json.key = "json" /\ html.key = "html" /\ txt.key = "txt"
      /\ \A r \in R : r.key # None
  BY NamesAssumption DEF Rep
<1>a. ASSUME NEW r \in R PROVE r \notin {ParamError, NotAcceptable}
  <2>1. PICK k \in {"json", "html", "txt"}, t \in {"application", "text"}, u \in {"json", "html", "plain"} :
          r.key = k /\ r.media = <<t, u>>
    BY DEF N!Json, Html, Txt
  <2>2. r = [key |-> k, media |-> <<t, u>>]
    BY <2>1
  <2> QED
    BY <2>2, NamesAssumption
<1> HIDE DEF json, html, txt, R
<1>3. ASSUME NEW o, o = <<json, html>> \/ o = <<txt, html, json>>
      PROVE  /\ o \in Seq(R) /\ o # << >>
             /\ \A i, j \in DOMAIN o : o[i].key = o[j].key => o[i].media = o[j].media
             /\ \A i \in DOMAIN o : o[i].key # None /\ o[i] \notin {ParamError, NotAcceptable}
             /\ o[2] \in N!ToSet(o)
  <2>1. CASE o = <<json, html>>
    <3>1. DOMAIN o = {1, 2} /\ o[1] = json /\ o[2] = html
      BY <2>1
    <3> QED
      BY <1>1, <1>2, <1>a, <2>1, <3>1 DEF N!ToSet
  <2>2. CASE o = <<txt, html, json>>
    <3>1. DOMAIN o = {1, 2, 3} /\ o[1] = txt /\ o[2] = html /\ o[3] = json
      BY <2>2
    <3> QED
      BY <1>1, <1>2, <1>a, <2>2, <3>1 DEF N!ToSet
  <2> QED
    BY <1>3, <2>1, <2>2
<1> QED
  BY <1>3 DEF OffersInv, Offers, json, html, txt, R

(* The header and the default of a call are such as the theorems take.     *)
LEMMA NegotiateCallsAre ==
  ASSUME NEW c \in NegotiateCalls
  PROVE  /\ c.available \in Offers
         /\ \E HeaderParts : c.header \in Seq(HeaderParts) \cup {None}
         /\ c.default \in N!ToSet(c.available) \cup {None}
<1>1. PICK o \in Offers, f \in {None, "html", "zip"}, h \in Accepts \cup {None} :
        /\ c.available = o /\ c.f = f /\ c.header = h
        /\ c.default = IF f = None THEN None ELSE o[2]
  BY DEF NegotiateCalls
<1>2. ASSUME h \in Accepts PROVE \E HeaderParts : h \in Seq(HeaderParts)
  <2>1. CASE h \in UpTo(2, Parts)
    <3>1. PICK n \in 0 .. 2 : h \in [1 .. n -> Parts]
      BY <2>1 DEF UpTo
    <3>2. h \in Seq(Parts)
      BY <3>1
    <3> QED
      BY <3>2
  <2>2. CASE h \notin UpTo(2, Parts)
    <3>1. PICK P : h \in [1 .. 3 -> P]
      BY <1>2, <2>2 DEF Accepts
    <3>2. \A n \in Nat : h \in [1 .. n -> P] => h \in Seq(P)
      OBVIOUS
    <3>3. h \in Seq(P)
      BY <3>1, <3>2
    <3> QED
      BY <3>3
  <2> QED
    BY <2>1, <2>2
<1>3. o[2] \in N!ToSet(o)
  BY OffersAre DEF OffersInv
<1> QED
  BY <1>1, <1>2, <1>3

(* A client is served the representation that it prefers.                  *)
THEOREM WantedHolds == MCSpec => []ServesWhatIsWanted
<1>1. ASSUME CallsInv, part = "call", call.of = "negotiate"
      PROVE  N!ServesWhatIsWanted(call.available, call.f, call.header, call.default)
  <2>1. call \in NegotiateCalls
    BY <1>1, CallsAreOf DEF CallsInv
  <2>2. PICK HeaderParts : call.header \in Seq(HeaderParts) \cup {None}
    BY <2>1, NegotiateCallsAre
  <2>3. PICK Reps : /\ call.available \in Seq(Reps) /\ call.available # << >>
                    /\ \A i \in DOMAIN call.available :
                         call.available[i] \notin {ParamError, NotAcceptable}
    BY <2>1, NegotiateCallsAre, OffersAre DEF OffersInv
  <2> QED
    BY <2>2, <2>3, WantedIsServed
<1>2. CallsInv => ServesWhatIsWanted
  BY <1>1 DEF ServesWhatIsWanted
<1> QED
  BY <1>2, CallsStay, PTL

(* Alternate links and documentation tell what is served.                  *)
THEOREM AlternatesHold == MCSpec => []AlternatesAndDocsAgree
<1>1. ASSUME CallsInv, part = "call", call.of = "negotiate"
      PROVE  N!AlternatesAndDocsAgree(call.available, call.f, call.header, call.default,
                                      call.documented)
  <2>1. call \in NegotiateCalls
    BY <1>1, CallsAreOf DEF CallsInv
  <2>2. PICK HeaderParts : call.header \in Seq(HeaderParts) \cup {None}
    BY <2>1, NegotiateCallsAre
  <2>3. call.default \in N!ToSet(call.available) \cup {None}
    BY <2>1, NegotiateCallsAre
  <2>4. PICK Reps :
          /\ call.available \in Seq(Reps) /\ call.available # << >>
          /\ \A i, j \in DOMAIN call.available :
               call.available[i].key = call.available[j].key
                 => call.available[i].media = call.available[j].media
          /\ \A i \in DOMAIN call.available : call.available[i].key # None
    BY <2>1, NegotiateCallsAre, OffersAre DEF OffersInv
  <2> QED
    BY <2>2, <2>3, <2>4, AlternatesAgree
<1>2. CallsInv => AlternatesAndDocsAgree
  BY <1>1 DEF AlternatesAndDocsAgree
<1> QED
  BY <1>2, CallsStay, PTL

(* The schemas of the calls refer to no model but their own two.           *)
LEMMA DefsAreSchemas ==
  ASSUME NEW d \in Defs
  PROVE  Schemas(d) /\ "A" \in DOMAIN d
<1> DEFINE nodes == NodesOfA \cup NodesOfB
           Known(n) == n.kind = "model" => n.ref \in {"A", "B"}
           plain == {NullNode, Scalar, Point, Polygon, ModelB, Node("array", ""), Node("object", ""),
                     Node("model", "A")}
<1>0. \A n \in plain : Known(n) /\ n.of = {}
  <2>1. \A k, r : Node(k, r).kind = k /\ Node(k, r).ref = r /\ Node(k, r).of = {}
    BY DEF Node
  <2>2. \A k, r : (k = "model" => r \in {"A", "B"}) => Known(Node(k, r)) /\ Node(k, r).of = {}
    BY <2>1
  <2> HIDE DEF Known
  <2>3. \A k \in {"null", "scalar", "geometry", "array", "object"} :
          \A r : Known(Node(k, r)) /\ Node(k, r).of = {}
    BY <2>2
  <2>4. \A r \in {"A", "B"} : Known(Node("model", r)) /\ Node("model", r).of = {}
    BY <2>2
  <2> QED
    BY <2>3, <2>4 DEF NullNode, Scalar, Point, Polygon, ModelB
<1>1. \A n \in nodes : Known(n) /\ \A b \in n.of : Known(b)
  <2>1. \A T : T \subseteq plain => Known(UnionOf(T)) /\ \A b \in UnionOf(T).of : Known(b)
    BY <1>0, ZenonT(40) DEF UnionOf
  <2>2. ASSUME NEW n \in nodes
        PROVE  n \in plain \/ \E T : T \subseteq plain /\ n = UnionOf(T)
    <3> HIDE DEF plain
    <3>1. {NullNode, Scalar, Point, Polygon, ModelB, Node("array", ""), Node("object", ""),
           Node("model", "A")} \subseteq plain
      BY DEF plain
    <3>2. n \in plain \/ n \in {UnionOf({ModelB, NullNode}), UnionOf({Point, NullNode}),
            UnionOf({Point, Polygon}), UnionOf({Point, Polygon, NullNode}),
            UnionOf({Scalar, Node("array", "")})}
      BY <3>1, <2>2, Zenon DEF NodesOfA, NodesOfB
    <3>3. {ModelB, NullNode} \subseteq plain /\ {Point, NullNode} \subseteq plain
          /\ {Point, Polygon} \subseteq plain /\ {Point, Polygon, NullNode} \subseteq plain
          /\ {Scalar, Node("array", "")} \subseteq plain
      BY <3>1, Zenon
    <3> QED
      BY <3>2, <3>3, Zenon
  <2> HIDE DEF nodes, Known, plain
  <2> QED
    BY <1>0, <2>1, <2>2
<1>2. ASSUME NEW n PROVE Q!UnwrapNullable(n) \in {n} \cup n.of
  BY DEF Q!UnwrapNullable
<1>3. \A n \in nodes : Q!UnwrapNullable(n) # None /\ Known(Q!UnwrapNullable(n))
  <2>1. TAKE n \in nodes
  <2>2. None \notin {n} \cup n.of
    BY NodesAssumption
  <2> HIDE DEF nodes, Known
  <2> QED
    BY <1>1, <1>2, <2>2
<1>4. PICK a \in NodesOfA, b \in NodesOfA, c \in NodesOfB :
        d = [A |-> [f |-> a, g |-> b], B |-> [f |-> c]]
  BY DEF Defs
<1>5. /\ DOMAIN d = {"A", "B"} /\ DOMAIN d["A"] = {"f", "g"} /\ DOMAIN d["B"] = {"f"}
      /\ d["A"]["f"] = a /\ d["A"]["g"] = b /\ d["B"]["f"] = c
  BY <1>4
<1>6. Root("A") # None /\ Root("B") # None
  BY NodesAssumption DEF Root, NodesOfA, ModelB, Node
<1>7. ASSUME NEW m \in DOMAIN d, NEW c1 \in DOMAIN d[m]
      PROVE  d[m][c1] \in nodes
  BY <1>5, <1>7
<1> HIDE DEF nodes
<1>8. ASSUME NEW m \in DOMAIN d, NEW c1 \in DOMAIN d[m]
      PROVE  /\ Q!UnwrapNullable(d[m][c1]) # None
             /\ Q!UnwrapNullable(d[m][c1]).kind = "model"
                  => Q!UnwrapNullable(d[m][c1]).ref \in DOMAIN d
  BY <1>3, <1>5, <1>7, <1>8
<1> QED
  BY <1>5, <1>6, <1>8 DEF Schemas

(* The names on offer for filters and sorting are those of the leaves.     *)
THEOREM NamesHold == MCSpec => []NamesReachLeaves
<1>1. ASSUME CallsInv, part = "call", call.of = "query"
      PROVE  Q!NamesReachLeaves(call.defs, "A", call.depth,
                                ItemOf(call.defs, Q!Levels(call.depth) + 2, call.nulls))
  <2>1. call \in QueryCalls
    BY <1>1, CallsAreOf DEF CallsInv
  <2>2. call.depth \in Nat /\ call.defs \in Defs
    BY <2>1 DEF QueryCalls
  <2> QED
    BY <2>2, DefsAreSchemas, EveryNameReached
<1>2. CallsInv => NamesReachLeaves
  BY <1>1 DEF NamesReachLeaves
<1> QED
  BY <1>2, CallsStay, PTL
=============================================================================
