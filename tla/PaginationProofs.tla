--------------------------- MODULE PaginationProofs ---------------------------
(***************************************************************************)
(* Proofs about Pagination, for any number of rows and any page sizes.     *)
(***************************************************************************)
EXTENDS Pagination, SequenceTheorems, FiniteSetTheorems, WellFoundedInduction, TLAPS

(* Induction over the natural numbers, stated for a set of them: that the  *)
(* numbers are well founded is all it takes.                               *)
Less == {p \in Nat \X Nat : p[1] < p[2]}

LEMMA LessIsWellFounded == IsWellFoundedOn(Less, Nat)
<1>1. Less = OpToRel(<, Nat)
  BY DEF Less, OpToRel
<1> QED
  BY <1>1, NatLessThanWellFounded

LEMMA SmallestOf ==
  ASSUME NEW T \in SUBSET Nat, T # {}
  PROVE  \E x \in T : \A y \in T : x <= y
<1>1. PICK x \in T : \A y \in T : ~ (<<y, x>> \in Less)
  BY LessIsWellFounded, WFMin
<1>2. \A y \in T : y \in Nat /\ x \in Nat
  OBVIOUS
<1>3. \A y \in T : ~ (y < x)
  BY <1>1, <1>2 DEF Less
<1>4. \A y \in T : x <= y
  BY <1>2, <1>3
<1> QED
  BY <1>4

LEMMA InductionUpTo ==
  ASSUME NEW n \in Nat, NEW T, 0 \in T, \A k \in 0 .. n - 1 : k \in T => k + 1 \in T
  PROVE  0 .. n \subseteq T
<1> SUFFICES ASSUME (0 .. n) \ T # {} PROVE FALSE
  OBVIOUS
<1>0. (0 .. n) \ T \in SUBSET Nat
  OBVIOUS
<1>1. PICK x \in (0 .. n) \ T : \A y \in (0 .. n) \ T : x <= y
  BY <1>0, SmallestOf
<1>2. x # 0 /\ x - 1 \in 0 .. n - 1 /\ x - 1 \in 0 .. n /\ ~(x <= x - 1)
  BY <1>1
<1>3. x - 1 \in T
  BY <1>1, <1>2
<1>4. (x - 1) + 1 \in T
  BY <1>2, <1>3
<1> QED
  BY <1>1, <1>4

-----------------------------------------------------------------------------
(* What NamedOf computes.                                                  *)
Taken(x) == IF Named(x) THEN <<x>> ELSE << >>
Kept(rows, n, f) == f = [i \in 0 .. n |-> IF i = 0 THEN << >> ELSE f[i - 1] \o Taken(rows[i])]

LEMMA TakenIs == ASSUME NEW x \in Nat PROVE Taken(x) \in Seq(Nat) /\ Len(Taken(x)) \in {0, 1}
  BY DEF Taken

LEMMA ConcatTwice ==
  ASSUME NEW s \in Seq(Nat), NEW t \in Seq(Nat), NEW u \in Seq(Nat)
  PROVE  (s \o t) \o u = s \o (t \o u)
<1>1. PICK l, r : l = (s \o t) \o u /\ r = s \o (t \o u)
  OBVIOUS
<1>2. /\ s \o t \in Seq(Nat) /\ Len(s \o t) = Len(s) + Len(t)
      /\ \A i \in 1 .. Len(s) + Len(t) : (s \o t)[i] = IF i <= Len(s) THEN s[i] ELSE t[i - Len(s)]
  OBVIOUS
<1>3. /\ t \o u \in Seq(Nat) /\ Len(t \o u) = Len(t) + Len(u)
      /\ \A i \in 1 .. Len(t) + Len(u) : (t \o u)[i] = IF i <= Len(t) THEN t[i] ELSE u[i - Len(t)]
  OBVIOUS
<1>4. l \in Seq(Nat) /\ r \in Seq(Nat) /\ Len(l) = Len(r) /\ Len(l) = Len(s) + Len(t) + Len(u)
  BY <1>1, <1>2, <1>3
<1>5. \A i \in 1 .. Len(l) : l[i] = r[i]
  BY <1>1, <1>2, <1>3, <1>4
<1>6. l = r
  BY <1>4, <1>5, SeqEqual
<1> QED
  BY <1>1, <1>6

LEMMA KeptExists ==
  ASSUME NEW rows, NEW n \in Nat
  PROVE  \E f : Kept(rows, n, f)
<1> DEFINE T == {k \in Nat : \E f : Kept(rows, k, f)}
<1>1. 0 \in T
  <2>1. Kept(rows, 0, [i \in 0 .. 0 |-> << >>])
    BY DEF Kept
  <2> QED
    BY <2>1
<1>2. ASSUME NEW k \in 0 .. n - 1, k \in T PROVE k + 1 \in T
  <2>1. PICK f : Kept(rows, k, f)
    BY <1>2
  <2> DEFINE g == [i \in 0 .. k + 1 |-> IF i = k + 1 THEN f[k] \o Taken(rows[k + 1]) ELSE f[i]]
  <2>2. \A i \in 0 .. k : f[i] = IF i = 0 THEN << >> ELSE f[i - 1] \o Taken(rows[i])
    BY <2>1, Zenon DEF Kept
  <2>3. \A i \in 0 .. k + 1 : g[i] = IF i = 0 THEN << >> ELSE g[i - 1] \o Taken(rows[i])
    <3>1. TAKE i \in 0 .. k + 1
    <3>2. CASE i = k + 1
      <4>1. i - 1 = k /\ i # 0 /\ k # k + 1 /\ k \in 0 .. k + 1
        BY <3>2
      <4> QED
        BY <3>2, <4>1
    <3>3. CASE i \in 0 .. k
      <4>1. i # k + 1 /\ (i # 0 => i - 1 \in 0 .. k + 1 /\ i - 1 # k + 1)
        BY <3>3
      <4> QED
        BY <2>2, <3>3, <4>1
    <3> QED
      BY <3>2, <3>3
  <2>4. Kept(rows, k + 1, g)
    BY <2>3 DEF Kept
  <2> HIDE DEF g
  <2> QED
    BY <2>4
<1> HIDE DEF T
<1>3. n \in T
  BY <1>1, <1>2, InductionUpTo
<1> QED
  BY <1>3 DEF T

LEMMA KeptAt ==
  ASSUME NEW rows \in Seq(Nat), NEW n \in Nat, n = Len(rows), NEW f, Kept(rows, n, f)
  PROVE  /\ f[0] = << >>
         /\ \A i \in 1 .. n : f[i] = f[i - 1] \o Taken(rows[i])
         /\ \A i \in 0 .. n : f[i] \in Seq(Nat)
<1>1. \A i \in 0 .. n : f[i] = IF i = 0 THEN << >> ELSE f[i - 1] \o Taken(rows[i])
  BY Zenon DEF Kept
<1>2. 0 \in 0 .. n /\ \A i \in 1 .. n : i \in 0 .. n /\ i # 0
  OBVIOUS
<1>3. f[0] = << >> /\ \A i \in 1 .. n : f[i] = f[i - 1] \o Taken(rows[i])
  BY <1>1, <1>2, Zenon
<1> DEFINE T == {k \in 0 .. n : f[k] \in Seq(Nat)}
<1>4. 0 \in T
  <2>1. << >> \in Seq(Nat)
    OBVIOUS
  <2> QED
    BY <1>2, <1>3, <2>1, Zenon
<1>5. ASSUME NEW k \in 0 .. n - 1, k \in T PROVE k + 1 \in T
  <2>1. k + 1 \in 1 .. n /\ k + 1 \in 0 .. n /\ (k + 1) - 1 = k
    OBVIOUS
  <2>2. PICK s : s = f[k]
    OBVIOUS
  <2>3. s \in Seq(Nat)
    BY <1>5, <2>2, Zenon
  <2>4. f[k + 1] = s \o Taken(rows[k + 1])
    BY <1>3, <2>1, <2>2, Zenon
  <2>5. s \o Taken(rows[k + 1]) \in Seq(Nat)
    BY <2>1, <2>3, TakenIs
  <2> QED
    BY <2>1, <2>4, <2>5, Zenon
<1> HIDE DEF T
<1>6. 0 .. n \subseteq T
  BY <1>4, <1>5, InductionUpTo
<1>7. \A i \in 0 .. n : f[i] \in Seq(Nat)
  BY <1>6, Zenon DEF T
<1> QED
  BY <1>3, <1>7, Zenon

LEMMA NamedIs ==
  ASSUME NEW rows \in Seq(Nat)
  PROVE  \E f : Kept(rows, Len(rows), f) /\ NamedOf(rows) = f[Len(rows)]
<1> DEFINE f == CHOOSE kept : Kept(rows, Len(rows), kept)
<1>1. Kept(rows, Len(rows), f)
  BY KeptExists
<1>2. NamedOf(rows) = f[Len(rows)]
  BY DEF NamedOf, Kept, Taken
<1> QED
  BY <1>1, <1>2

LEMMA NamedFrom ==
  ASSUME NEW rows \in Seq(Nat), NEW l, l = Len(rows)
  PROVE  \E f : /\ f[0] = << >> /\ \A i \in 1 .. l : f[i] = f[i - 1] \o Taken(rows[i])
               /\ NamedOf(rows) = f[l]
<1>1. PICK n \in Nat : n = Len(rows)
  OBVIOUS
<1>2. PICK f : Kept(rows, n, f) /\ NamedOf(rows) = f[n]
  BY <1>1, NamedIs
<1>3. f[0] = << >> /\ \A i \in 1 .. n : f[i] = f[i - 1] \o Taken(rows[i])
  BY <1>1, <1>2, KeptAt
<1> QED
  BY <1>1, <1>2, <1>3

(* What is kept of two parts is what is kept of each.                      *)
LEMMA NamedOfBoth ==
  ASSUME NEW a \in Seq(Nat), NEW b \in Seq(Nat)
  PROVE  NamedOf(a \o b) = NamedOf(a) \o NamedOf(b)
<1>1. PICK m \in Nat, n \in Nat : m = Len(a) /\ n = Len(b)
  OBVIOUS
<1>2. PICK f : Kept(a, m, f) /\ NamedOf(a) = f[m]
  BY <1>1, NamedIs
<1>3. PICK g : Kept(b, n, g) /\ NamedOf(b) = g[n]
  BY <1>1, NamedIs
<1>4. a \o b \in Seq(Nat) /\ Len(a \o b) = m + n
  BY <1>1, ConcatProperties
<1>5. PICK h : /\ h[0] = << >> /\ \A i \in 1 .. m + n : h[i] = h[i - 1] \o Taken((a \o b)[i])
               /\ NamedOf(a \o b) = h[m + n]
  <2>1. PICK c, l : c = a \o b /\ l = m + n
    OBVIOUS
  <2>2. c \in Seq(Nat) /\ l = Len(c)
    BY <1>4, <2>1
  <2>3. \E h : /\ h[0] = << >> /\ \A i \in 1 .. l : h[i] = h[i - 1] \o Taken(c[i])
               /\ NamedOf(c) = h[l]
    BY <2>2, NamedFrom
  <2> QED
    BY <2>1, <2>3, Zenon
<1> DEFINE T == {k \in 0 .. m : h[k] = f[k]}
           U == {k \in 0 .. n : h[m + k] = f[m] \o g[k]}
<1>6. /\ f[0] = << >> /\ \A i \in 1 .. m : f[i] = f[i - 1] \o Taken(a[i])
      /\ \A i \in 0 .. m : f[i] \in Seq(Nat)
  BY <1>1, <1>2, KeptAt
<1>7. /\ g[0] = << >> /\ \A i \in 1 .. n : g[i] = g[i - 1] \o Taken(b[i])
      /\ \A i \in 0 .. n : g[i] \in Seq(Nat)
  BY <1>1, <1>3, KeptAt
<1>8. h[0] = << >> /\ \A i \in 1 .. m + n : h[i] = h[i - 1] \o Taken((a \o b)[i])
  BY <1>5, Zenon
<1>9. 0 \in T
  BY <1>6, <1>8, 0 \in 0 .. m, Zenon
<1>10. ASSUME NEW k \in 0 .. m - 1, k \in T PROVE k + 1 \in T
  <2>1. k + 1 \in 0 .. m /\ k + 1 \in 1 .. m /\ k + 1 \in 1 .. m + n /\ (k + 1) - 1 = k
    OBVIOUS
  <2>2. (a \o b)[k + 1] = a[k + 1]
    BY <1>1, <2>1
  <2>3. f[k + 1] = f[k] \o Taken(a[k + 1]) /\ h[k + 1] = h[k] \o Taken(a[k + 1])
    BY <1>6, <1>8, <2>1, <2>2, Zenon
  <2> QED
    BY <1>10, <2>1, <2>3, Zenon
<1>11. h[m] = f[m] /\ f[m] \in Seq(Nat)
  <2> HIDE DEF T
  <2>1. 0 .. m \subseteq T
    BY <1>9, <1>10, InductionUpTo
  <2>2. m \in T /\ m \in 0 .. m
    BY <2>1
  <2> QED
    BY <1>6, <2>2, Zenon DEF T
<1>12. 0 \in U
  <2>1. 0 \in 0 .. n /\ m + 0 = m
    OBVIOUS
  <2>2. PICK s : s = f[m]
    OBVIOUS
  <2>3. s \o << >> = s
    BY <1>11, <2>2, ConcatEmptySeq
  <2> QED
    BY <1>7, <1>11, <2>1, <2>2, <2>3, Zenon
<1>13. ASSUME NEW k \in 0 .. n - 1, k \in U PROVE k + 1 \in U
  <2>1. /\ k \in 0 .. n /\ k + 1 \in 0 .. n /\ k + 1 \in 1 .. n /\ m + (k + 1) \in 1 .. m + n
        /\ (k + 1) - 1 = k /\ (m + (k + 1)) - 1 = m + k
    OBVIOUS
  <2>2. (a \o b)[m + (k + 1)] = b[k + 1] /\ b[k + 1] \in Nat
    BY <1>1, <2>1
  <2>3. PICK s, t, u : s = f[m] /\ t = g[k] /\ u = Taken(b[k + 1])
    OBVIOUS
  <2>4. s \in Seq(Nat) /\ t \in Seq(Nat) /\ u \in Seq(Nat)
    BY <1>7, <1>11, <2>1, <2>2, <2>3, TakenIs, Zenon
  <2>5. g[k + 1] = t \o u
    BY <1>7, <2>1, <2>3, Zenon
  <2>6. h[m + k] = s \o t
    BY <1>13, <2>3, Zenon
  <2>7. h[m + (k + 1)] = (s \o t) \o u
    BY <1>8, <2>1, <2>2, <2>3, <2>6, Zenon
  <2>8. (s \o t) \o u = s \o (t \o u)
    BY <2>4, ConcatTwice, SMTT(20)
  <2> QED
    BY <2>1, <2>3, <2>5, <2>7, <2>8, Zenon
<1>14. h[m + n] = f[m] \o g[n]
  <2> HIDE DEF U
  <2>1. 0 .. n \subseteq U
    BY <1>12, <1>13, InductionUpTo
  <2>2. n \in U
    BY <2>1
  <2> QED
    BY <2>2, Zenon DEF U
<1> QED
  BY <1>2, <1>3, <1>5, <1>14

LEMMA NamedOfType ==
  ASSUME NEW rows \in Seq(Nat) PROVE NamedOf(rows) \in Seq(Nat)
<1>1. PICK n \in Nat : n = Len(rows)
  OBVIOUS
<1>2. PICK f : Kept(rows, n, f) /\ NamedOf(rows) = f[n]
  BY <1>1, NamedIs
<1>3. \A i \in 0 .. n : f[i] \in Seq(Nat)
  BY <1>1, <1>2, KeptAt
<1>4. n \in 0 .. n
  OBVIOUS
<1> QED
  BY <1>2, <1>3, <1>4, Zenon

-----------------------------------------------------------------------------
(* Requests as the handlers see them, l being the page size and named      *)
(* whether a search has a criterion.                                       *)
OffsetOf(h, r) ==
  CASE h = "search_plants" -> Given(r.body, "offset", 0)
    [] h = "list_plants" -> OffsetFromCursor(Given(r.query, "cursor", None))
    [] OTHER -> Given(r.query, "offset", 0)

Asking(h, l, named, r) ==
  /\ r = [method |-> r.method, query |-> r.query, body |-> r.body]
  /\ h = "search_plants" =>
       /\ r.method = "POST" /\ {"offset", "limit"} \subseteq DOMAIN r.body
       /\ r.body["offset"] \in Nat /\ r.body["limit"] = l
       /\ named <=> "name" \in DOMAIN r.body
  /\ h # "search_plants" => r.method = "GET" /\ "limit" \in DOMAIN r.query /\ r.query["limit"] = l
  /\ h = "list_plants" => ("cursor" \in DOMAIN r.query => r.query["cursor"] \in Cursors)
  /\ h \in {"list_beds", "no_total"} => "offset" \in DOMAIN r.query /\ r.query["offset"] \in Nat

(* Overridden parameters have their new value, the others their old one.   *)
LEMMA Merged ==
  ASSUME NEW params, NEW overrides, NEW k
  PROVE  /\ k \in DOMAIN overrides /\ overrides[k] # None =>
              /\ k \in DOMAIN MergeParams(params, overrides)
              /\ MergeParams(params, overrides)[k] = overrides[k]
         /\ k \in DOMAIN params /\ k \notin DOMAIN overrides =>
              /\ k \in DOMAIN MergeParams(params, overrides)
              /\ MergeParams(params, overrides)[k] = params[k]
         /\ k \notin DOMAIN params /\ k \notin DOMAIN overrides =>
              k \notin DOMAIN MergeParams(params, overrides)
  BY DEF MergeParams

LEMMA LinkOf ==
  ASSUME NEW q, NEW at, at = [method |-> at.method, query |-> at.query, body |-> at.body],
         NEW body, NEW overrides
  PROVE  LET link == PageLink(q, at, body, overrides) IN
         /\ link.rel = q /\ link.to.method = at.method
         /\ link.to = [method |-> link.to.method, query |-> link.to.query, body |-> link.to.body]
         /\ at.method = "POST" =>
              link.to.query = at.query /\ link.to.body = MergeParams(body, overrides)
         /\ at.method # "POST" =>
              link.to.body = at.body /\ link.to.query = MergeParams(at.query, overrides)
  BY DEF PageLink

(* A token that was issued decodes to what was encoded, any other to a     *)
(* refusal.                                                                *)
LEMMA Decoded ==
  ASSUME NEW token \in Cursors \cup {None}
  PROVE  /\ OffsetFromCursor(token) \in (0 .. Rows + 1) \cup {ParamError}
         /\ \A o \in 0 .. Rows + 1 : token = EncodeCursor(o) => OffsetFromCursor(token) = o
<1>1. None \notin Cursors /\ {None, Text, ParamError} \cap Nat = {} /\ Rows \in Nat
  BY TokenAssumption, PagesAssumption
<1>2. CASE token = None
  <2>1. \A o \in 0 .. Rows + 1 : token # EncodeCursor(o)
    BY <1>1, <1>2 DEF Cursors
  <2>2. OffsetFromCursor(token) = 0 /\ 0 \in 0 .. Rows + 1
    BY <1>1, <1>2 DEF OffsetFromCursor
  <2> QED
    BY <2>1, <2>2
<1>3. ASSUME NEW o \in (0 .. Rows + 1) \cup {Text, -1}, token = EncodeCursor(o)
      PROVE  OffsetFromCursor(token) = IF o \in 0 .. Rows + 1 THEN o ELSE ParamError
  <2>1. IsCursor(token) /\ token.offset = o /\ token # None
    BY <1>1, <1>3 DEF EncodeCursor, IsCursor, Cursors
  <2>2. o \in Nat <=> o \in 0 .. Rows + 1
    BY <1>1
  <2> QED
    BY <2>1, <2>2 DEF OffsetFromCursor
<1>4. CASE token = [json |-> "array"] \/ token = [json |-> "broken"]
  <2>1. token.json # "object" /\ token # None
    BY <1>1, <1>4 DEF Cursors
  <2> QED
    BY <2>1 DEF OffsetFromCursor, IsCursor, EncodeCursor
<1> QED
  BY <1>2, <1>3, <1>4 DEF Cursors

LEMMA OffsetKnown ==
  ASSUME NEW h \in Handlers, NEW l, NEW named, NEW r, Asking(h, l, named, r)
  PROVE  OffsetOf(h, r) \in Nat \cup {ParamError}
<1>1. CASE h = "list_plants"
  <2>1. Given(r.query, "cursor", None) \in Cursors \cup {None}
    BY <1>1 DEF Asking, Given
  <2>2. 0 .. Rows + 1 \subseteq Nat
    BY PagesAssumption
  <2> QED
    BY <1>1, <2>1, <2>2, Decoded DEF OffsetOf
<1>2. CASE h # "list_plants"
  BY <1>2 DEF Asking, Given, OffsetOf, Handlers
<1> QED
  BY <1>1, <1>2

(* The handler's page of the rows T, from the offset c on: its items and   *)
(* where its links lead.                                                   *)
PageOf(h, l, named, T, c, page) ==
  /\ page.status = 200 /\ page.items = PageAt(T, c, l)
  /\ \A k \in page.links :
       /\ k.rel \in {"next", "prev", "last"} => Asking(h, l, named, k.to)
       /\ k.rel = "next" => OffsetOf(h, k.to) = c + l /\ (h = "no_total" \/ c + l < Len(T))
       /\ k.rel = "prev" => OffsetOf(h, k.to) = LargeOf(0, c - l) /\ c > 0
       /\ k.rel = "last" => OffsetOf(h, k.to) = LastPageOffset(Len(T), l) /\ h # "no_total"
  /\ h = "no_total" \/ c + l < Len(T) => \E k \in page.links : k.rel = "next"
  /\ c > 0 => \E k \in page.links : k.rel = "prev"

(* Of a GET request: its query is merged with an offset or a cursor and    *)
(* the limit.                                                              *)
LEMMA OffsetLink ==
  ASSUME NEW h \in {"list_beds", "no_total"}, NEW l \in Nat \ {0}, NEW named, NEW r,
         Asking(h, l, named, r), NEW q, NEW o \in Nat
  PROVE  LET link == PageLink(q, r, << >>, [offset |-> o, limit |-> l])
         IN link.rel = q /\ Asking(h, l, named, link.to) /\ OffsetOf(h, link.to) = o
<1> DEFINE link == PageLink(q, r, << >>, [offset |-> o, limit |-> l])
<1>1. o # None /\ l # None
  BY TokenAssumption
<1>2. PICK ov : ov = [offset |-> o, limit |-> l]
  OBVIOUS
<1>3. "offset" \in DOMAIN ov /\ "limit" \in DOMAIN ov /\ ov["offset"] = o /\ ov["limit"] = l
  BY <1>2
<1>4. r = [method |-> r.method, query |-> r.query, body |-> r.body] /\ r.method = "GET"
  BY DEF Asking
<1>5. /\ link.rel = q /\ link.to.method = "GET" /\ link.to.query = MergeParams(r.query, ov)
      /\ link.to = [method |-> link.to.method, query |-> link.to.query, body |-> link.to.body]
  BY <1>2, <1>4, LinkOf
<1> HIDE DEF link
<1>6. /\ "offset" \in DOMAIN link.to.query /\ link.to.query["offset"] = o
      /\ "limit" \in DOMAIN link.to.query /\ link.to.query["limit"] = l
  BY <1>1, <1>3, <1>5, Merged
<1>7. Asking(h, l, named, link.to)
  BY <1>5, <1>6 DEF Asking
<1>8. OffsetOf(h, link.to) = o
  BY <1>6 DEF OffsetOf, Given
<1> QED
  BY <1>5, <1>7, <1>8 DEF link

LEMMA CursorLink ==
  ASSUME NEW l \in Nat \ {0}, NEW named, NEW r, Asking("list_plants", l, named, r),
         NEW q, NEW o \in 0 .. Rows + 1
  PROVE  LET link == PageLink(q, r, None, [k \in {"cursor"} \cup {"limit"} |->
                                             IF k = "cursor" THEN EncodeCursor(o) ELSE l])
         IN link.rel = q /\ Asking("list_plants", l, named, link.to)
            /\ OffsetOf("list_plants", link.to) = o
<1> DEFINE link == PageLink(q, r, None, [k \in {"cursor"} \cup {"limit"} |->
                                           IF k = "cursor" THEN EncodeCursor(o) ELSE l])
<1>1. EncodeCursor(o) \in Cursors /\ EncodeCursor(o) # None /\ l # None
  BY TokenAssumption DEF Cursors
<1>2. PICK ov : ov = [k \in {"cursor"} \cup {"limit"} |-> IF k = "cursor" THEN EncodeCursor(o) ELSE l]
  OBVIOUS
<1>3. /\ "cursor" \in DOMAIN ov /\ "limit" \in DOMAIN ov
      /\ ov["cursor"] = EncodeCursor(o) /\ ov["limit"] = l
  BY <1>2
<1>4. r = [method |-> r.method, query |-> r.query, body |-> r.body] /\ r.method = "GET"
  BY DEF Asking
<1>5. /\ link.rel = q /\ link.to.method = "GET" /\ link.to.query = MergeParams(r.query, ov)
      /\ link.to = [method |-> link.to.method, query |-> link.to.query, body |-> link.to.body]
  BY <1>2, <1>4, LinkOf
<1> HIDE DEF link
<1>6. /\ "cursor" \in DOMAIN link.to.query /\ link.to.query["cursor"] = EncodeCursor(o)
      /\ "limit" \in DOMAIN link.to.query /\ link.to.query["limit"] = l
  BY <1>1, <1>3, <1>5, Merged
<1>7. Asking("list_plants", l, named, link.to)
  BY <1>1, <1>5, <1>6 DEF Asking
<1>8. OffsetOf("list_plants", link.to) = o
  BY <1>1, <1>6, Decoded DEF OffsetOf, Given
<1> QED
  BY <1>5, <1>7, <1>8 DEF link

(* The body of a search is given anew: the criteria, its offset, the limit.*)
LEMMA SearchLink ==
  ASSUME NEW l \in Nat \ {0}, NEW named, NEW r, Asking("search_plants", l, named, r),
         NEW base, {"offset", "limit"} \subseteq DOMAIN base,
         DOMAIN base \subseteq {"offset", "limit", "name"},
         "name" \in DOMAIN base <=> "name" \in DOMAIN r.body, NEW q, NEW o \in Nat
  PROVE  LET link == PageLink(q, r, base, [k \in {"offset"} \cup {"limit"} |->
                                             IF k = "offset" THEN o ELSE l])
         IN link.rel = q /\ Asking("search_plants", l, named, link.to)
            /\ OffsetOf("search_plants", link.to) = o
<1> DEFINE link == PageLink(q, r, base, [k \in {"offset"} \cup {"limit"} |->
                                           IF k = "offset" THEN o ELSE l])
<1>1. o # None /\ l # None
  BY TokenAssumption
<1>2. PICK ov : ov = [k \in {"offset"} \cup {"limit"} |-> IF k = "offset" THEN o ELSE l]
  OBVIOUS
<1>3. /\ "offset" \in DOMAIN ov /\ "limit" \in DOMAIN ov /\ "name" \notin DOMAIN ov
      /\ ov["offset"] = o /\ ov["limit"] = l
  BY <1>2
<1>4. r = [method |-> r.method, query |-> r.query, body |-> r.body] /\ r.method = "POST"
  BY DEF Asking
<1>5. /\ link.rel = q /\ link.to.method = "POST" /\ link.to.body = MergeParams(base, ov)
      /\ link.to = [method |-> link.to.method, query |-> link.to.query, body |-> link.to.body]
  BY <1>2, <1>4, LinkOf
<1> HIDE DEF link
<1>6. /\ "offset" \in DOMAIN link.to.body /\ link.to.body["offset"] = o
      /\ "limit" \in DOMAIN link.to.body /\ link.to.body["limit"] = l
  BY <1>1, <1>3, <1>5, Merged
<1>7. "name" \in DOMAIN link.to.body <=> "name" \in DOMAIN r.body
  BY <1>3, <1>5, Merged
<1>8. Asking("search_plants", l, named, link.to)
  BY <1>5, <1>6, <1>7 DEF Asking
<1>9. OffsetOf("search_plants", link.to) = o
  BY <1>6 DEF OffsetOf, Given
<1> QED
  BY <1>5, <1>8, <1>9 DEF link

LEMMA Paginated ==
  ASSUME NEW at, NEW body, NEW param, NEW tokens, NEW first, NEW l, l # None
  PROVE  LET links == Paginate(at, body, param, tokens, first, l)
             Link(q) == PageLink(q, at, body, [k \in {param} \cup {"limit"} |->
                                                 IF k = param THEN tokens[q] ELSE l])
         IN /\ \A link \in links : \/ link.rel \in {"self", "first"}
                                   \/ \E q \in DOMAIN tokens : tokens[q] # None /\ link = Link(q)
            /\ \A q \in DOMAIN tokens : tokens[q] # None => Link(q) \in links
<1> DEFINE To(q, token) ==
             PageLink(q, at, body, [k \in {param} \cup {"limit"} |-> IF k = param THEN token ELSE l])
<1>1. Paginate(at, body, param, tokens, first, l) =
        {To(q, tokens[q]) : q \in {q \in DOMAIN tokens : tokens[q] # None}}
        \cup {PageLink("self", at, body, << >>)} \cup (IF first THEN {To("first", None)} ELSE {})
  BY DEF Paginate
<1>2. To("first", None).rel = "first" /\ PageLink("self", at, body, << >>).rel = "self"
  BY DEF PageLink
<1> HIDE DEF To
<1>3. /\ \A link \in Paginate(at, body, param, tokens, first, l) :
             \/ link.rel \in {"self", "first"}
             \/ \E q \in DOMAIN tokens : tokens[q] # None /\ link = To(q, tokens[q])
      /\ \A q \in DOMAIN tokens :
           tokens[q] # None => To(q, tokens[q]) \in Paginate(at, body, param, tokens, first, l)
  BY <1>1, <1>2
<1> QED
  BY <1>3, Zenon DEF To

LEMMA SmallLarge ==
  ASSUME NEW a \in Nat, NEW b \in Int
  PROVE  /\ b >= 0 => SmallOf(a, b) \in Nat /\ SmallOf(a, b) <= a /\ SmallOf(a, b) <= b
         /\ LargeOf(0, b) \in Nat /\ LargeOf(0, b) >= b /\ (LargeOf(0, b) = 0 \/ LargeOf(0, b) = b)
         /\ b <= a => LargeOf(0, b) <= a
  BY DEF SmallOf, LargeOf

(* The last page starts within the rows, and no page follows it.           *)
LEMMA LastPage ==
  ASSUME NEW total \in Nat, NEW l \in Nat \ {0}
  PROVE  /\ LastPageOffset(total, l) \in Nat
         /\ total > 0 => LastPageOffset(total, l) < total
         /\ LastPageOffset(total, l) + l >= total
<1>1. CASE total = 0
  BY <1>1 DEF LastPageOffset
<1>2. CASE total > 0
  <2> DEFINE q == (total - 1) \div l
             m == (total - 1) % l
  <2>1. q \in Nat /\ m \in 0 .. l - 1
    BY <1>2
  <2>2. total - 1 = l * q + m
    BY <1>2
  <2>3. LastPageOffset(total, l) = q * l
    BY <1>2 DEF LastPageOffset
  <2> HIDE DEF q, m
  <2>4. PICK w : w = q * l
    OBVIOUS
  <2>5. w \in Nat /\ total - 1 = w + m
    BY <2>1, <2>2, <2>4
  <2> QED
    BY <2>1, <2>3, <2>4, <2>5
<1> QED
  BY <1>1, <1>2

LEMMA BedsPage ==
  ASSUME NEW l \in Nat \ {0}, NEW named, NEW r, NEW T \in Seq(Nat),
         NEW h \in {"list_beds", "no_total"}, Asking(h, l, named, r)
  PROVE  PageOf(h, l, named, T, OffsetOf(h, r),
                IF h = "list_beds" THEN ListBeds(r, T) ELSE NoTotal(r, T))
<1>1. PICK c \in Nat : c = r.query["offset"]
  BY DEF Asking
<1>2. OffsetOf(h, r) = c /\ Given(r.query, "offset", 0) = c /\ r.query["limit"] = l
  BY <1>1 DEF OffsetOf, Given, Asking
<1> DEFINE To(q, o) == PageLink(q, r, << >>, [offset |-> o, limit |-> l])
           total == IF h = "list_beds" THEN Len(T) ELSE None
           last == LastPageOffset(total, l)
           page == IF h = "list_beds" THEN ListBeds(r, T) ELSE NoTotal(r, T)
<1>3. /\ page.status = 200 /\ page.items = PageAt(T, c, l)
      /\ page.links = (IF c > 0 THEN {To("first", 0), To("prev", LargeOf(0, c - l))} ELSE {})
                      \cup (IF total = None \/ c + l < total THEN {To("next", c + l)} ELSE {})
                      \cup (IF total # None /\ last # c THEN {To("last", last)} ELSE {})
  BY <1>2 DEF ListBeds, NoTotal, Page, PaginateOffset
<1>4. \A q : \A o \in Nat : To(q, o).rel = q /\ Asking(h, l, named, To(q, o).to)
                            /\ OffsetOf(h, To(q, o).to) = o
  BY OffsetLink
<1>5. /\ h = "list_beds" => total = Len(T) /\ total # None /\ last \in Nat
      /\ h = "no_total" => total = None
      /\ LargeOf(0, c - l) \in Nat /\ c + l \in Nat
  <2>1. LastPageOffset(Len(T), l) \in Nat
    BY LastPage
  <2>2. Len(T) # None
    BY TokenAssumption
  <2>3. c - l \in Int /\ c + l \in Nat
    OBVIOUS
  <2> QED
    BY <2>1, <2>2, <2>3, SmallLarge
<1> HIDE DEF To, total, last, page
<1>6. ASSUME NEW k \in page.links
      PROVE  /\ k.rel \in {"next", "prev", "last"} => Asking(h, l, named, k.to)
             /\ k.rel = "next" => OffsetOf(h, k.to) = c + l /\ (h = "no_total" \/ c + l < Len(T))
             /\ k.rel = "prev" => OffsetOf(h, k.to) = LargeOf(0, c - l) /\ c > 0
             /\ k.rel = "last" => OffsetOf(h, k.to) = LastPageOffset(Len(T), l) /\ h # "no_total"
  <2>1. CASE k = To("first", 0)
    BY <1>4, <2>1
  <2>2. CASE k = To("prev", LargeOf(0, c - l)) /\ c > 0
    BY <1>4, <1>5, <2>2
  <2>3. CASE k = To("next", c + l) /\ (total = None \/ c + l < total)
    BY <1>4, <1>5, <2>3
  <2>4. CASE k = To("last", last) /\ total # None
    BY <1>4, <1>5, <2>4 DEF last
  <2> QED
    BY <1>3, <2>1, <2>2, <2>3, <2>4
<1>7. h = "no_total" \/ c + l < Len(T) => \E k \in page.links : k.rel = "next"
  <2>1. To("next", c + l).rel = "next"
    BY <1>4, <1>5
  <2> QED
    BY <1>3, <1>5, <2>1
<1>8. c > 0 => \E k \in page.links : k.rel = "prev"
  <2>1. To("prev", LargeOf(0, c - l)).rel = "prev"
    BY <1>4, <1>5
  <2> QED
    BY <1>3, <2>1
<1> QED
  BY <1>2, <1>3, <1>6, <1>7, <1>8 DEF PageOf, page

LEMMA PlantsPage ==
  ASSUME NEW l \in Nat \ {0}, NEW named, NEW r, NEW T \in Seq(Nat), Len(T) <= Rows,
         Asking("list_plants", l, named, r)
  PROVE  IF OffsetOf("list_plants", r) = ParamError THEN ListPlants(r, T) = Refusal
         ELSE PageOf("list_plants", l, named, T, OffsetOf("list_plants", r), ListPlants(r, T))
<1>1. PICK c : c = OffsetOf("list_plants", r)
  OBVIOUS
<1>2. OffsetFromCursor(Given(r.query, "cursor", None)) = c /\ r.query["limit"] = l
  BY <1>1 DEF OffsetOf, Asking
<1>3. c \in (0 .. Rows + 1) \cup {ParamError} /\ ParamError \notin Nat /\ Rows \in Nat
  <2>1. Given(r.query, "cursor", None) \in Cursors \cup {None}
    BY DEF Asking, Given
  <2> QED
    BY <1>2, <2>1, Decoded, TokenAssumption, PagesAssumption
<1>4. CASE c = ParamError
  BY <1>1, <1>2, <1>4 DEF ListPlants
<1>5. CASE c # ParamError
  <2> DEFINE last == LastPageOffset(Len(T), l)
             tokens == [next |-> IF c + l < Len(T) THEN EncodeCursor(c + l) ELSE None,
                        prev |-> IF c > 0 THEN EncodeCursor(LargeOf(0, c - l)) ELSE None,
                        last |-> IF last > c THEN EncodeCursor(last) ELSE None]
             page == ListPlants(r, T)
             links == Paginate(r, None, "cursor", tokens, c > 0, l)
             Link(q) == PageLink(q, r, None, [k \in {"cursor"} \cup {"limit"} |->
                                                IF k = "cursor" THEN tokens[q] ELSE l])
             To(q, o) == PageLink(q, r, None, [k \in {"cursor"} \cup {"limit"} |->
                                                IF k = "cursor" THEN EncodeCursor(o) ELSE l])
  <2>1. page.status = 200 /\ page.items = PageAt(T, c, l) /\ page.links = links
    BY <1>2, <1>5 DEF ListPlants, Page
  <2>2. /\ c \in Nat /\ LargeOf(0, c - l) \in 0 .. Rows + 1
        /\ c + l < Len(T) => c + l \in 0 .. Rows + 1
        /\ last > c => last \in 0 .. Rows + 1
    <3>1. c \in Nat /\ c <= Rows + 1 /\ c - l \in Int /\ c - l <= c /\ Len(T) \in Nat
      BY <1>3, <1>5
    <3>2. LargeOf(0, c - l) \in Nat /\ LargeOf(0, c - l) <= c
      BY <3>1, SmallLarge
    <3>3. last \in Nat /\ (Len(T) > 0 => last < Len(T)) /\ (Len(T) = 0 => last = 0)
      BY <3>1, LastPage DEF LastPageOffset
    <3> HIDE DEF last
    <3> QED
      BY <1>3, <3>1, <3>2, <3>3
  <2>3. /\ DOMAIN tokens = {"next", "prev", "last"}
        /\ tokens["next"] = IF c + l < Len(T) THEN EncodeCursor(c + l) ELSE None
        /\ tokens["prev"] = IF c > 0 THEN EncodeCursor(LargeOf(0, c - l)) ELSE None
        /\ tokens["last"] = IF last > c THEN EncodeCursor(last) ELSE None
    OBVIOUS
  <2>4. /\ \A link \in links : \/ link.rel \in {"self", "first"}
                               \/ \E q \in DOMAIN tokens : tokens[q] # None /\ link = Link(q)
        /\ \A q \in DOMAIN tokens : tokens[q] # None => Link(q) \in links
    <3>1. l # None
      BY TokenAssumption
    <3> HIDE DEF tokens
    <3> QED
      BY <3>1, Paginated
  <2>5. \A q, o : tokens[q] = EncodeCursor(o) => Link(q) = To(q, o)
    <3> HIDE DEF tokens
    <3> QED
      BY Zenon
  <2>6. \A q : \A o \in 0 .. Rows + 1 :
          /\ To(q, o).rel = q /\ Asking("list_plants", l, named, To(q, o).to)
          /\ OffsetOf("list_plants", To(q, o).to) = o /\ EncodeCursor(o) # None
    BY CursorLink, TokenAssumption DEF Cursors
  <2> HIDE DEF tokens, Link, To, links, page, last
  <2>7. ASSUME NEW k \in links
        PROVE  /\ k.rel \in {"next", "prev", "last"} => Asking("list_plants", l, named, k.to)
               /\ k.rel = "next" => OffsetOf("list_plants", k.to) = c + l /\ c + l < Len(T)
               /\ k.rel = "prev" => OffsetOf("list_plants", k.to) = LargeOf(0, c - l) /\ c > 0
               /\ k.rel = "last" => OffsetOf("list_plants", k.to) = last
    <3>1. CASE k.rel \in {"self", "first"}
      BY <3>1
    <3>2. ASSUME NEW q \in DOMAIN tokens, tokens[q] # None, k = Link(q)
          PROVE  /\ k.rel \in {"next", "prev", "last"} => Asking("list_plants", l, named, k.to)
                 /\ k.rel = "next" => OffsetOf("list_plants", k.to) = c + l /\ c + l < Len(T)
                 /\ k.rel = "prev" => OffsetOf("list_plants", k.to) = LargeOf(0, c - l) /\ c > 0
                 /\ k.rel = "last" => OffsetOf("list_plants", k.to) = last
      <4>1. CASE q = "next"
        <5>1. c + l < Len(T) /\ k = To(q, c + l)
          BY <2>3, <2>5, <3>2, <4>1
        <5> QED
          BY <2>2, <2>6, <4>1, <5>1
      <4>2. CASE q = "prev"
        <5>1. c > 0 /\ k = To(q, LargeOf(0, c - l))
          BY <2>3, <2>5, <3>2, <4>2
        <5> QED
          BY <2>2, <2>6, <4>2, <5>1
      <4>3. CASE q = "last"
        <5>1. last > c /\ k = To(q, last)
          BY <2>3, <2>5, <3>2, <4>3
        <5> QED
          BY <2>2, <2>6, <4>3, <5>1
      <4> QED
        BY <2>3, <4>1, <4>2, <4>3
    <3> QED
      BY <2>4, <3>1, <3>2
  <2>8. c + l < Len(T) => \E k \in links : k.rel = "next"
    <3>1. SUFFICES ASSUME c + l < Len(T) PROVE \E k \in links : k.rel = "next"
      OBVIOUS
    <3>2. Link("next") = To("next", c + l) /\ tokens["next"] # None /\ To("next", c + l).rel = "next"
      BY <2>2, <2>3, <2>5, <2>6, <3>1
    <3> QED
      BY <2>3, <2>4, <3>2
  <2>9. c > 0 => \E k \in links : k.rel = "prev"
    <3>1. SUFFICES ASSUME c > 0 PROVE \E k \in links : k.rel = "prev"
      OBVIOUS
    <3>2. PICK o : o = LargeOf(0, c - l)
      OBVIOUS
    <3>3. Link("prev") = To("prev", o) /\ tokens["prev"] # None /\ To("prev", o).rel = "prev"
      BY <2>2, <2>3, <2>5, <2>6, <3>1, <3>2
    <3> QED
      BY <2>3, <2>4, <3>3
  <2> QED
    BY <1>1, <1>5, <2>1, <2>7, <2>8, <2>9 DEF PageOf, page, last
<1> QED
  BY <1>4, <1>5

LEMMA SearchPage ==
  ASSUME NEW l \in Nat \ {0}, NEW named, NEW r, NEW T \in Seq(Nat),
         Asking("search_plants", l, named, r)
  PROVE  PageOf("search_plants", l, named, T, OffsetOf("search_plants", r), SearchPlants(r, T))
<1>1. PICK c \in Nat : c = r.body["offset"]
  BY DEF Asking
<1>2. /\ OffsetOf("search_plants", r) = c /\ Given(r.body, "offset", 0) = c /\ r.body["limit"] = l
  BY <1>1 DEF OffsetOf, Given, Asking
<1> DEFINE base == IF "name" \in DOMAIN r.body
                   THEN [offset |-> c, limit |-> l, name |-> r.body["name"]]
                   ELSE [offset |-> c, limit |-> l]
           tokens == [next |-> IF c + l < Len(T) THEN c + l ELSE None,
                      prev |-> IF c > 0 THEN LargeOf(0, c - l) ELSE None]
           page == SearchPlants(r, T)
           links == Paginate(r, base, "offset", tokens, c > 0, l)
           Link(q) == PageLink(q, r, base, [k \in {"offset"} \cup {"limit"} |->
                                              IF k = "offset" THEN tokens[q] ELSE l])
           To(q, o) == PageLink(q, r, base, [k \in {"offset"} \cup {"limit"} |->
                                              IF k = "offset" THEN o ELSE l])
<1>3. page.status = 200 /\ page.items = PageAt(T, c, l) /\ page.links = links
  BY <1>2 DEF SearchPlants, Page
<1>4. LargeOf(0, c - l) \in Nat /\ c + l \in Nat /\ None \notin Nat
  <2>1. LargeOf(0, c - l) \in Nat /\ c + l \in Nat
    BY DEF LargeOf
  <2>2. None \notin Nat
    BY TokenAssumption
  <2> QED
    BY <2>1, <2>2
<1>5. /\ DOMAIN tokens = {"next", "prev"}
      /\ tokens["next"] = IF c + l < Len(T) THEN c + l ELSE None
      /\ tokens["prev"] = IF c > 0 THEN LargeOf(0, c - l) ELSE None
  OBVIOUS
<1>6. /\ \A link \in links : \/ link.rel \in {"self", "first"}
                             \/ \E q \in DOMAIN tokens : tokens[q] # None /\ link = Link(q)
      /\ \A q \in DOMAIN tokens : tokens[q] # None => Link(q) \in links
  <2>1. l # None
    BY TokenAssumption
  <2> HIDE DEF tokens, base
  <2> QED
    BY <2>1, Paginated
<1>7. \A q, o : tokens[q] = o => Link(q) = To(q, o)
  <2> HIDE DEF tokens, base
  <2> QED
    BY Zenon
<1>8. /\ {"offset", "limit"} \subseteq DOMAIN base /\ DOMAIN base \subseteq {"offset", "limit", "name"}
      /\ "name" \in DOMAIN base <=> "name" \in DOMAIN r.body
  OBVIOUS
<1>9. \A q : \A o \in Nat :
        /\ To(q, o).rel = q /\ Asking("search_plants", l, named, To(q, o).to)
        /\ OffsetOf("search_plants", To(q, o).to) = o
  <2> HIDE DEF base
  <2> QED
    BY <1>8, SearchLink
<1> HIDE DEF tokens, Link, To, links, page, base
<1>10. ASSUME NEW k \in links
       PROVE  /\ k.rel \in {"next", "prev", "last"} => Asking("search_plants", l, named, k.to)
              /\ k.rel = "next" => OffsetOf("search_plants", k.to) = c + l /\ c + l < Len(T)
              /\ k.rel = "prev" => OffsetOf("search_plants", k.to) = LargeOf(0, c - l) /\ c > 0
              /\ k.rel # "last"
  <2>1. CASE k.rel \in {"self", "first"}
    BY <2>1
  <2>2. ASSUME NEW q \in DOMAIN tokens, tokens[q] # None, k = Link(q)
        PROVE  /\ k.rel \in {"next", "prev", "last"} => Asking("search_plants", l, named, k.to)
               /\ k.rel = "next" => OffsetOf("search_plants", k.to) = c + l /\ c + l < Len(T)
               /\ k.rel = "prev" => OffsetOf("search_plants", k.to) = LargeOf(0, c - l) /\ c > 0
               /\ k.rel # "last"
    <3>1. CASE q = "next"
      <4>1. c + l < Len(T) /\ k = To(q, c + l)
        BY <1>5, <1>7, <2>2, <3>1
      <4> QED
        BY <1>4, <1>9, <3>1, <4>1
    <3>2. CASE q = "prev"
      <4>1. c > 0 /\ k = To(q, LargeOf(0, c - l))
        BY <1>5, <1>7, <2>2, <3>2
      <4> QED
        BY <1>4, <1>9, <3>2, <4>1
    <3> QED
      BY <1>5, <3>1, <3>2
  <2> QED
    BY <1>6, <2>1, <2>2
<1>11. c + l < Len(T) => \E k \in links : k.rel = "next"
  <2>1. SUFFICES ASSUME c + l < Len(T) PROVE \E k \in links : k.rel = "next"
    OBVIOUS
  <2>2. Link("next") = To("next", c + l) /\ tokens["next"] # None /\ To("next", c + l).rel = "next"
    BY <1>4, <1>5, <1>7, <1>9, <2>1
  <2> QED
    BY <1>5, <1>6, <2>2
<1>12. c > 0 => \E k \in links : k.rel = "prev"
  <2>1. SUFFICES ASSUME c > 0 PROVE \E k \in links : k.rel = "prev"
    OBVIOUS
  <2>2. PICK o : o = LargeOf(0, c - l)
    OBVIOUS
  <2>3. Link("prev") = To("prev", o) /\ tokens["prev"] # None /\ To("prev", o).rel = "prev"
    BY <1>4, <1>5, <1>7, <1>9, <2>1, <2>2
  <2> QED
    BY <1>5, <1>6, <2>3
<1> QED
  BY <1>2, <1>3, <1>10, <1>11, <1>12 DEF PageOf, page

(* All handlers at once: a page, or a refusal of a cursor that is not one. *)
LEMMA Served ==
  ASSUME NEW h \in Handlers, NEW l \in Nat \ {0}, NEW named, NEW r, Asking(h, l, named, r),
         NEW rows, NEW T \in Seq(Nat), T = Matching(h, r, rows), h = "list_plants" => Len(T) <= Rows
  PROVE  IF OffsetOf(h, r) = ParamError THEN Serve(h, r, rows) = Refusal
         ELSE PageOf(h, l, named, T, OffsetOf(h, r), Serve(h, r, rows))
<1>1. h # "list_plants" => OffsetOf(h, r) # ParamError
  BY TokenAssumption DEF Asking, OffsetOf, Given, Handlers
<1>2. CASE h = "list_beds"
  BY <1>1, <1>2, BedsPage DEF Serve
<1>3. CASE h = "no_total"
  BY <1>1, <1>3, BedsPage DEF Serve
<1>4. CASE h = "list_plants"
  BY <1>4, PlantsPage DEF Serve
<1>5. CASE h = "search_plants"
  BY <1>1, <1>5, SearchPage DEF Serve
<1> QED
  BY <1>2, <1>3, <1>4, <1>5 DEF Handlers

-----------------------------------------------------------------------------
LEMMA BothIs ==
  ASSUME NEW a \in Seq(Nat), NEW b \in Seq(Nat), NEW m, NEW n, m = Len(a), n = Len(b)
  PROVE  /\ m \in Nat /\ n \in Nat /\ a \o b \in Seq(Nat) /\ Len(a \o b) = m + n
         /\ \A i \in 1 .. m + n : (a \o b)[i] = IF i <= m THEN a[i] ELSE b[i - m]
  OBVIOUS

LEMMA PartIs ==
  ASSUME NEW s \in Seq(Nat), NEW p \in Nat, NEW e \in Nat, p <= e, e <= Len(s)
  PROVE  LET b == SubSeq(s, p + 1, e) IN
         b \in Seq(Nat) /\ Len(b) = e - p /\ \A i \in 1 .. e - p : b[i] = s[p + i]
<1>1. \A i \in p + 1 .. e : i \in 1 .. Len(s) /\ s[i] \in Nat
  OBVIOUS
<1>2. PICK b : b = SubSeq(s, p + 1, e)
  OBVIOUS
<1>3. /\ b \in Seq(Nat) /\ Len(b) = IF p + 1 <= e THEN e - (p + 1) + 1 ELSE 0
      /\ \A i \in 1 .. e - (p + 1) + 1 : b[i] = s[p + 1 + i - 1]
  BY <1>1, <1>2, SubSeqProperties
<1>4. Len(b) = e - p
  BY <1>3
<1>5. ASSUME NEW i \in 1 .. e - p PROVE b[i] = s[p + i]
  <2>1. i \in 1 .. e - (p + 1) + 1 /\ p + 1 + i - 1 = p + i
    OBVIOUS
  <2> QED
    BY <1>3, <2>1
<1> QED
  BY <1>2, <1>3, <1>4, <1>5

(* The store: a new row is put in at some place, which moves no row ahead. *)
LEMMA InsertIs ==
  ASSUME NEW id, NEW rows \in Seq(Nat)
  PROVE  \E p \in 0 .. Len(rows) :
           Insert(id, rows) = (SubSeq(rows, 1, p) \o <<id>>) \o SubSeq(rows, p + 1, Len(rows))
<1> DEFINE T == {i \in DOMAIN rows : TextBefore(rows[i], id)}
           p == Cardinality(T)
<1>1. PICK m \in Nat : m = Len(rows) /\ DOMAIN rows = 1 .. m
  OBVIOUS
<1>2. IsFiniteSet(1 .. m) /\ Cardinality(1 .. m) = m
  <2>1. 1 \in Int /\ m \in Int
    BY <1>1
  <2>2. IsFiniteSet(1 .. m) /\ Cardinality(1 .. m) = IF 1 > m THEN 0 ELSE m - 1 + 1
    BY <2>1, FS_Interval
  <2>3. (IF 1 > m THEN 0 ELSE m - 1 + 1) = m
    OBVIOUS
  <2> QED
    BY <2>2, <2>3
<1>3. T \subseteq 1 .. m
  BY <1>1
<1> HIDE DEF T
<1>4. IsFiniteSet(T) /\ p <= m
  BY <1>2, <1>3, FS_Subset
<1>5. p \in Nat
  BY <1>4, FS_CardinalityType
<1>6. Insert(id, rows) = (SubSeq(rows, 1, p) \o <<id>>) \o SubSeq(rows, p + 1, Len(rows))
  BY DEF Insert, T
<1> HIDE DEF p
<1>7. p \in 0 .. Len(rows)
  BY <1>1, <1>4, <1>5
<1> QED
  BY <1>6, <1>7

(* The rows after it, one by one.                                          *)
Inserted(rows, p, id, new) ==
  /\ new \in Seq(Nat) /\ Len(new) = Len(rows) + 1
  /\ \A i \in 1 .. Len(rows) + 1 :
       new[i] = IF i <= p THEN rows[i] ELSE IF i = p + 1 THEN id ELSE rows[i - 1]

LEMMA InsertAt ==
  ASSUME NEW id \in Nat, NEW rows \in Seq(Nat), NEW p \in 0 .. Len(rows)
  PROVE  Inserted(rows, p, id, (SubSeq(rows, 1, p) \o <<id>>) \o SubSeq(rows, p + 1, Len(rows)))
<1>1. PICK m \in Nat : m = Len(rows)
  OBVIOUS
<1>2. PICK a, b : a = SubSeq(rows, 1, p) /\ b = SubSeq(rows, p + 1, m)
  OBVIOUS
<1>3. a \in Seq(Nat) /\ Len(a) = p /\ \A i \in 1 .. p : a[i] = rows[i]
  BY <1>1, <1>2
<1>4. b \in Seq(Nat) /\ Len(b) = m - p /\ \A i \in 1 .. m - p : b[i] = rows[p + i]
  BY <1>1, <1>2, PartIs
<1>5. PICK x : x = a \o <<id>>
  OBVIOUS
<1>6. x \in Seq(Nat) /\ Len(x) = p + 1
      /\ \A i \in 1 .. p + 1 : x[i] = IF i <= p THEN a[i] ELSE id
  BY <1>3, <1>5
<1>7. PICK new : new = x \o b
  OBVIOUS
<1>8. /\ new \in Seq(Nat) /\ Len(new) = m + 1
      /\ \A i \in 1 .. m + 1 : new[i] = IF i <= p + 1 THEN x[i] ELSE b[i - (p + 1)]
  <2>1. m - p \in Nat /\ p + 1 \in Nat /\ (p + 1) + (m - p) = m + 1
    BY <1>1
  <2>2. PICK k \in Nat, l \in Nat : k = p + 1 /\ l = m - p
    BY <2>1
  <2>3. /\ x \o b \in Seq(Nat) /\ Len(x \o b) = k + l
        /\ \A i \in 1 .. k + l : (x \o b)[i] = IF i <= k THEN x[i] ELSE b[i - k]
    <3>1. x \in Seq(Nat) /\ b \in Seq(Nat) /\ k = Len(x) /\ l = Len(b)
      BY <1>4, <1>6, <2>2
    <3> QED
      BY <3>1, BothIs
  <2> QED
    BY <1>7, <2>1, <2>2, <2>3
<1>9. ASSUME NEW i \in 1 .. m + 1
      PROVE  new[i] = IF i <= p THEN rows[i] ELSE IF i = p + 1 THEN id ELSE rows[i - 1]
  <2>1. CASE i <= p
    <3>1. i \in 1 .. p /\ i \in 1 .. p + 1 /\ i <= p + 1
      BY <2>1
    <3> QED
      BY <1>3, <1>6, <1>8, <2>1, <3>1
  <2>2. CASE i = p + 1
    <3>1. i \in 1 .. p + 1 /\ i <= p + 1 /\ ~(i <= p)
      BY <2>2
    <3> QED
      BY <1>6, <1>8, <2>2, <3>1
  <2>3. CASE i > p + 1
    <3>1. /\ i - (p + 1) \in 1 .. m - p /\ p + (i - (p + 1)) = i - 1
          /\ ~(i <= p + 1) /\ ~(i <= p) /\ i # p + 1
      BY <1>1, <2>3
    <3> QED
      BY <1>4, <1>8, <3>1
  <2> QED
    BY <2>1, <2>2, <2>3
<1> QED
  BY <1>1, <1>2, <1>5, <1>7, <1>8, <1>9 DEF Inserted

(* What a handler lists, and what the search leaves out.                   *)
Listed(h, rows) ==
  IF h = "search_plants" THEN SubSeq(rows, 1, SmallOf(SearchCap, Len(rows))) ELSE rows
OutOf(h, rows) ==
  IF h = "search_plants" THEN {rows[j] : j \in SearchCap + 1 .. Len(rows)} ELSE {}

Reach(h, n) == IF h = "search_plants" THEN SmallOf(SearchCap, n) ELSE n

LEMMA ListedIs ==
  ASSUME NEW h, NEW rows \in Seq(Nat), NEW n, n = Reach(h, Len(rows))
  PROVE  /\ n \in 0 .. Len(rows) /\ Listed(h, rows) \in Seq(Nat) /\ Len(Listed(h, rows)) = n
         /\ \A i \in 1 .. n : Listed(h, rows)[i] = rows[i]
<1>1. PICK m \in Nat : m = Len(rows)
  OBVIOUS
<1>2. n \in Nat /\ n <= m
  BY <1>1, PagesAssumption DEF SmallOf, Reach
<1>3. /\ SubSeq(rows, 1, n) \in Seq(Nat) /\ Len(SubSeq(rows, 1, n)) = n
      /\ \A i \in 1 .. n : SubSeq(rows, 1, n)[i] = rows[i]
  BY <1>1, <1>2
<1>4. CASE h = "search_plants"
  <2>1. Listed(h, rows) = SubSeq(rows, 1, n)
    BY <1>1, <1>4 DEF Listed, Reach
  <2> QED
    BY <1>1, <1>2, <1>3, <2>1
<1>5. CASE h # "search_plants"
  <2>1. Listed(h, rows) = rows /\ n = m
    BY <1>1, <1>5 DEF Listed, Reach
  <2> QED
    BY <1>1, <1>2, <2>1
<1> QED
  BY <1>4, <1>5

(* So the rows that a handler pages through are split by the new one, and  *)
(* what falls off their end is out of reach.                               *)
Splits(T, U, out, last) ==
  \E a, b, c, d \in Seq(Nat) :
    /\ T = (a \o b) \o d /\ U = (a \o c) \o b
    /\ d = << >> \/ \E x \in out : d = <<x>>
    /\ last => b = << >> /\ d = << >>

LEMMA ListedSplits ==
  ASSUME NEW h, NEW id \in Nat, NEW rows \in Seq(Nat), NEW p \in 0 .. Len(rows),
         NEW new, Inserted(rows, p, id, new)
  PROVE  Splits(Listed(h, rows), Listed(h, new), OutOf(h, new), p = Len(rows))
<1>1. PICK m \in Nat : m = Len(rows)
  OBVIOUS
<1>2. /\ new \in Seq(Nat) /\ Len(new) = m + 1 /\ p \in 0 .. m
      /\ \A i \in 1 .. m + 1 :
           new[i] = IF i <= p THEN rows[i] ELSE IF i = p + 1 THEN id ELSE rows[i - 1]
  BY <1>1 DEF Inserted
<1>3. PICK T, U, n, k :
        /\ T = Listed(h, rows) /\ U = Listed(h, new)
        /\ n = Reach(h, m) /\ k = Reach(h, m + 1)
  OBVIOUS
<1>4. /\ n \in 0 .. m /\ T \in Seq(Nat) /\ Len(T) = n /\ \A i \in 1 .. n : T[i] = rows[i]
  <2>1. n = Reach(h, Len(rows))
    BY <1>1, <1>3
  <2>2. /\ n \in 0 .. Len(rows) /\ Listed(h, rows) \in Seq(Nat) /\ Len(Listed(h, rows)) = n
        /\ \A i \in 1 .. n : Listed(h, rows)[i] = rows[i]
    BY <2>1, ListedIs
  <2>3. T = Listed(h, rows)
    BY <1>3
  <2> QED
    BY <1>1, <2>2, <2>3
<1>5. /\ k \in 0 .. m + 1 /\ U \in Seq(Nat) /\ Len(U) = k /\ \A i \in 1 .. k : U[i] = new[i]
  <2>1. new \in Seq(Nat) /\ k = Reach(h, Len(new))
    BY <1>2, <1>3
  <2>2. /\ k \in 0 .. Len(new) /\ Listed(h, new) \in Seq(Nat) /\ Len(Listed(h, new)) = k
        /\ \A i \in 1 .. k : Listed(h, new)[i] = new[i]
    BY <2>1, ListedIs
  <2>3. Len(new) = m + 1 /\ U = Listed(h, new)
    BY <1>2, <1>3
  <2> QED
    BY <2>2, <2>3, Zenon
<1>6. (n = m /\ k = m + 1) \/ (h = "search_plants" /\ n = SearchCap /\ k = SearchCap /\ SearchCap <= m)
  BY <1>3, PagesAssumption DEF SmallOf, Reach
<1>7. << >> \in Seq(Nat) /\ Len(<< >>) = 0 /\ <<id>> \in Seq(Nat) /\ Len(<<id>>) = 1 /\ <<id>>[1] = id
  OBVIOUS
<1>8. \A s \in Seq(Nat) : s \o << >> = s
  OBVIOUS
<1>9. CASE n = m /\ k = m + 1
  <2>1. PICK a, b : a = SubSeq(rows, 1, p) /\ b = SubSeq(rows, p + 1, m)
    OBVIOUS
  <2>2. a \in Seq(Nat) /\ Len(a) = p /\ \A i \in 1 .. p : a[i] = rows[i]
    BY <1>1, <2>1
  <2>3. b \in Seq(Nat) /\ Len(b) = m - p /\ \A i \in 1 .. m - p : b[i] = rows[p + i]
    <3>1. p \in Nat /\ p <= m /\ m <= Len(rows)
      BY <1>1, <1>2
    <3> QED
      BY <2>1, <3>1, PartIs
  <2>4. m - p \in Nat /\ p \in Nat /\ p + (m - p) = m
    BY <1>2
  <2>5. /\ a \o b \in Seq(Nat) /\ Len(a \o b) = m
        /\ \A i \in 1 .. m : (a \o b)[i] = IF i <= p THEN a[i] ELSE b[i - p]
    <3>1. PICK l \in Nat : l = m - p
      BY <2>4
    <3>2. /\ a \o b \in Seq(Nat) /\ Len(a \o b) = p + l
          /\ \A i \in 1 .. p + l : (a \o b)[i] = IF i <= p THEN a[i] ELSE b[i - p]
      <4>1. a \in Seq(Nat) /\ b \in Seq(Nat) /\ p = Len(a) /\ l = Len(b)
        BY <2>2, <2>3, <3>1
      <4> QED
        BY <4>1, BothIs
    <3> QED
      BY <2>4, <3>1, <3>2
  <2>6. T = a \o b
    <3>1. ASSUME NEW i \in 1 .. m PROVE T[i] = (a \o b)[i]
      <4>1. CASE i <= p
        <5>1. i \in 1 .. p
          BY <4>1
        <5> QED
          BY <1>4, <1>9, <2>2, <2>5, <4>1, <5>1
      <4>2. CASE ~(i <= p)
        <5>1. i - p \in 1 .. m - p /\ p + (i - p) = i
          BY <2>4, <4>2
        <5> QED
          BY <1>4, <1>9, <2>3, <2>5, <4>2, <5>1
      <4> QED
        BY <4>1, <4>2
    <3> QED
      BY <1>4, <1>9, <2>5, <3>1, SeqEqual
  <2>7. PICK u : u = (a \o <<id>>) \o b
    OBVIOUS
  <2>8. Inserted(rows, p, id, u)
    BY <1>1, <2>1, <2>7, InsertAt
  <2>9. U = u
    <3>1. u \in Seq(Nat) /\ Len(u) = m + 1 /\ \A i \in 1 .. m + 1 : u[i] = new[i]
      BY <1>1, <1>2, <2>8 DEF Inserted
    <3> QED
      BY <1>5, <1>9, <3>1, SeqEqual
  <2>10. p = m => b = << >>
    BY <2>3
  <2>11. T = (a \o b) \o << >>
    BY <1>8, <2>5, <2>6
  <2>12. Splits(T, U, OutOf(h, new), p = m)
    <3>1. a \in Seq(Nat) /\ b \in Seq(Nat) /\ <<id>> \in Seq(Nat) /\ << >> \in Seq(Nat)
      BY <1>7, <2>2, <2>3
    <3>2. U = (a \o <<id>>) \o b
      BY <2>7, <2>9
    <3> QED
      BY <2>10, <2>11, <3>1, <3>2, Zenon DEF Splits
  <2> QED
    BY <1>1, <1>3, <2>12
<1>10. CASE h = "search_plants" /\ n = SearchCap /\ k = SearchCap /\ SearchCap <= m /\ n <= p
  <2>1. ASSUME NEW i \in 1 .. n PROVE T[i] = U[i]
    <3>1. i \in 1 .. m + 1 /\ i <= p /\ i \in 1 .. k
      BY <1>4, <1>10, PagesAssumption
    <3> QED
      BY <1>2, <1>4, <1>5, <3>1
  <2>2. T = U
    BY <1>4, <1>5, <1>10, <2>1, SeqEqual
  <2>3. T = (T \o << >>) \o << >> /\ U = (T \o << >>) \o << >>
    BY <1>4, <1>8, <2>2
  <2> QED
    BY <1>3, <1>4, <1>7, <2>3, Zenon DEF Splits
<1>11. CASE h = "search_plants" /\ n = SearchCap /\ k = SearchCap /\ SearchCap <= m /\ p < n
  <2>0. n \in Nat /\ n - 1 \in Nat /\ p \in Nat /\ n <= m /\ n \in 1 .. m /\ p # m
    BY <1>2, <1>4, <1>11
  <2>1. PICK a, b, x : a = SubSeq(rows, 1, p) /\ b = SubSeq(rows, p + 1, n - 1) /\ x = rows[n]
    OBVIOUS
  <2>2. a \in Seq(Nat) /\ Len(a) = p /\ \A i \in 1 .. p : a[i] = rows[i]
    BY <1>1, <2>1
  <2>3. b \in Seq(Nat) /\ Len(b) = n - 1 - p /\ \A i \in 1 .. n - 1 - p : b[i] = rows[p + i]
    <3>1. p <= n - 1 /\ n - 1 <= Len(rows)
      BY <1>1, <1>11, <2>0
    <3> QED
      BY <2>0, <2>1, <3>1, PartIs
  <2>4. PICK l \in Nat : l = n - 1 - p
    BY <1>11, <2>0
  <2>5. PICK y : y = a \o b
    OBVIOUS
  <2>6. /\ y \in Seq(Nat) /\ Len(y) = n - 1
        /\ \A i \in 1 .. n - 1 : y[i] = IF i <= p THEN a[i] ELSE b[i - p]
    <3>1. /\ a \o b \in Seq(Nat) /\ Len(a \o b) = p + l
          /\ \A i \in 1 .. p + l : (a \o b)[i] = IF i <= p THEN a[i] ELSE b[i - p]
      <4>1. a \in Seq(Nat) /\ b \in Seq(Nat) /\ p = Len(a) /\ l = Len(b)
        BY <2>2, <2>3, <2>4
      <4> QED
        BY <4>1, BothIs
    <3>2. p + l = n - 1
      BY <2>0, <2>4
    <3> QED
      BY <2>5, <3>1, <3>2
  <2>7. \A i \in 1 .. n - 1 : y[i] = rows[i]
    <3>1. TAKE i \in 1 .. n - 1
    <3>2. CASE i <= p
      <4>1. i \in 1 .. p
        BY <2>0, <3>2
      <4> QED
        BY <2>2, <2>6, <3>2, <4>1
    <3>3. CASE ~(i <= p)
      <4>1. i - p \in 1 .. n - 1 - p /\ p + (i - p) = i
        BY <2>0, <3>3
      <4> QED
        BY <2>3, <2>6, <3>3, <4>1
    <3> QED
      BY <3>2, <3>3
  <2>8. x \in Nat /\ <<x>> \in Seq(Nat) /\ Len(<<x>>) = 1 /\ <<x>>[1] = x
    BY <1>1, <2>0, <2>1
  <2>9. PICK t : t = y \o <<x>>
    OBVIOUS
  <2>10. /\ t \in Seq(Nat) /\ Len(t) = n
         /\ \A i \in 1 .. n : t[i] = IF i <= n - 1 THEN y[i] ELSE x
    BY <2>0, <2>6, <2>8, <2>9
  <2>11. T = t
    <3>1. ASSUME NEW i \in 1 .. n PROVE T[i] = t[i]
      <4>1. CASE i <= n - 1
        <5>1. i \in 1 .. n - 1
          BY <2>0, <4>1
        <5> QED
          BY <1>4, <2>7, <2>10, <4>1, <5>1
      <4>2. CASE ~(i <= n - 1)
        <5>1. i = n
          BY <2>0, <4>2
        <5> QED
          BY <1>4, <2>1, <2>10, <4>2, <5>1
      <4> QED
        BY <4>1, <4>2
    <3> QED
      BY <1>4, <2>10, <3>1, SeqEqual
  <2>12. PICK z, u : z = a \o <<id>> /\ u = z \o b
    OBVIOUS
  <2>13. z \in Seq(Nat) /\ Len(z) = p + 1
         /\ \A i \in 1 .. p + 1 : z[i] = IF i <= p THEN a[i] ELSE id
    BY <2>0, <2>2, <2>12
  <2>14. /\ u \in Seq(Nat) /\ Len(u) = n
         /\ \A i \in 1 .. n : u[i] = IF i <= p + 1 THEN z[i] ELSE b[i - (p + 1)]
    <3>1. PICK w \in Nat : w = p + 1
      BY <2>0
    <3>2. /\ z \o b \in Seq(Nat) /\ Len(z \o b) = w + l
          /\ \A i \in 1 .. w + l : (z \o b)[i] = IF i <= w THEN z[i] ELSE b[i - w]
      <4>1. z \in Seq(Nat) /\ b \in Seq(Nat) /\ w = Len(z) /\ l = Len(b)
        BY <2>3, <2>4, <2>13, <3>1
      <4> QED
        BY <4>1, BothIs
    <3>3. w + l = n
      BY <2>0, <2>4, <3>1
    <3> QED
      BY <2>12, <3>1, <3>2, <3>3
  <2>15. U = u
    <3>1. ASSUME NEW i \in 1 .. n PROVE U[i] = u[i]
      <4>0. U[i] = new[i] /\ new[i] = (IF i <= p THEN rows[i] ELSE IF i = p + 1 THEN id ELSE rows[i - 1])
        <5>1. i \in 1 .. k /\ i \in 1 .. m + 1
          BY <1>11, <2>0
        <5> QED
          BY <1>2, <1>5, <5>1
      <4>1. CASE i <= p
        <5>1. i \in 1 .. p /\ i \in 1 .. p + 1 /\ i <= p + 1
          BY <2>0, <4>1
        <5> QED
          BY <2>2, <2>13, <2>14, <4>0, <4>1, <5>1
      <4>2. CASE i = p + 1
        <5>1. i \in 1 .. p + 1 /\ i <= p + 1 /\ ~(i <= p)
          BY <2>0, <4>2
        <5> QED
          BY <2>13, <2>14, <4>0, <4>2, <5>1
      <4>3. CASE i > p + 1
        <5>1. /\ i - (p + 1) \in 1 .. n - 1 - p /\ p + (i - (p + 1)) = i - 1
              /\ ~(i <= p) /\ i # p + 1 /\ ~(i <= p + 1)
          BY <2>0, <4>3
        <5> QED
          BY <2>3, <2>14, <4>0, <5>1
      <4> QED
        BY <2>0, <4>1, <4>2, <4>3
    <3> QED
      BY <1>5, <1>11, <2>14, <3>1, SeqEqual
  <2>16. x \in OutOf(h, new)
    <3>1. n + 1 \in SearchCap + 1 .. Len(new) /\ n + 1 \in 1 .. m + 1
      BY <1>2, <1>11, <2>0
    <3>2. ~(n + 1 <= p) /\ n + 1 # p + 1 /\ (n + 1) - 1 = n
      BY <1>11, <2>0
    <3>3. new[n + 1] = x
      <4>1. new[n + 1] = IF n + 1 <= p THEN rows[n + 1]
                         ELSE IF n + 1 = p + 1 THEN id ELSE rows[(n + 1) - 1]
        BY <1>2, <3>1
      <4> QED
        BY <2>1, <3>2, <4>1
    <3> QED
      BY <1>11, <3>1, <3>3 DEF OutOf
  <2>17. T = (a \o b) \o <<x>> /\ U = (a \o <<id>>) \o b
    BY <2>5, <2>9, <2>11, <2>12, <2>15
  <2>18. Splits(T, U, OutOf(h, new), p = m)
    <3>1. a \in Seq(Nat) /\ b \in Seq(Nat) /\ <<id>> \in Seq(Nat) /\ <<x>> \in Seq(Nat)
      BY <1>7, <2>2, <2>3, <2>8
    <3>2. p # m
      BY <2>0
    <3> QED
      BY <2>16, <2>17, <3>1, <3>2, Zenon DEF Splits
  <2> QED
    BY <1>1, <1>3, <2>18
<1> QED
  BY <1>2, <1>4, <1>6, <1>9, <1>10, <1>11

LEMMA OutStays ==
  ASSUME NEW h, NEW id \in Nat, NEW rows \in Seq(Nat), NEW p \in 0 .. Len(rows),
         NEW new, Inserted(rows, p, id, new)
  PROVE  OutOf(h, rows) \subseteq OutOf(h, new)
<1>1. PICK m \in Nat : m = Len(rows)
  OBVIOUS
<1>2. /\ Len(new) = m + 1
      /\ \A i \in 1 .. m + 1 :
           new[i] = IF i <= p THEN rows[i] ELSE IF i = p + 1 THEN id ELSE rows[i - 1]
  BY <1>1 DEF Inserted
<1>3. SUFFICES ASSUME h = "search_plants", NEW j \in SearchCap + 1 .. m
               PROVE  \E k \in SearchCap + 1 .. m + 1 : new[k] = rows[j]
  BY <1>1, <1>2 DEF OutOf
<1>4. SearchCap \in Nat
  BY PagesAssumption
<1>5. CASE j <= p
  <2>1. j \in SearchCap + 1 .. m + 1 /\ j \in 1 .. m + 1
    BY <1>4
  <2> QED
    BY <1>2, <1>5, <2>1
<1>6. CASE ~(j <= p)
  <2>1. /\ j + 1 \in SearchCap + 1 .. m + 1 /\ j + 1 \in 1 .. m + 1
        /\ ~(j + 1 <= p) /\ j + 1 # p + 1 /\ (j + 1) - 1 = j
    BY <1>4, <1>6
  <2> QED
    BY <1>2, <2>1
<1> QED
  BY <1>5, <1>6

LEMMA NamedOfOne ==
  /\ NamedOf(<< >>) = << >>
  /\ \A x \in Nat : NamedOf(<<x>>) = << >> \/ NamedOf(<<x>>) = <<x>>
<1>1. NamedOf(<< >>) = << >>
  <2>1. << >> \in Seq(Nat) /\ 0 = Len(<< >>)
    OBVIOUS
  <2> QED
    BY <2>1, NamedFrom
<1>2. ASSUME NEW x \in Nat PROVE NamedOf(<<x>>) = << >> \/ NamedOf(<<x>>) = <<x>>
  <2>1. PICK s : s = <<x>>
    OBVIOUS
  <2>2. s \in Seq(Nat) /\ Len(s) = 1 /\ s[1] = x /\ 1 \in Nat
    BY <2>1
  <2>3. PICK f : /\ f[0] = << >> /\ \A i \in 1 .. 1 : f[i] = f[i - 1] \o Taken(s[i])
                 /\ NamedOf(s) = f[1]
    BY <2>2, NamedFrom
  <2>5. 1 \in 1 .. 1 /\ 1 - 1 = 0
    OBVIOUS
  <2>6. f[1] = << >> \o Taken(x)
    BY <2>2, <2>3, <2>5, Zenon
  <2>7. Taken(x) = << >> \/ Taken(x) = <<x>>
    BY DEF Taken
  <2>8. << >> \o << >> = << >> /\ << >> \o <<x>> = <<x>>
    OBVIOUS
  <2> QED
    BY <2>1, <2>3, <2>6, <2>7, <2>8
<1> QED
  BY <1>1, <1>2

LEMMA MatchingIs ==
  ASSUME NEW h, NEW r, NEW rows
  PROVE  Matching(h, r, rows)
           = IF h = "search_plants" /\ "name" \in DOMAIN r.body THEN NamedOf(Listed(h, rows))
             ELSE Listed(h, rows)
  BY DEF Matching, Listed

LEMMA MatchingGrows ==
  ASSUME NEW h, NEW r, NEW id \in Nat, NEW rows \in Seq(Nat), NEW p \in 0 .. Len(rows),
         NEW new, Inserted(rows, p, id, new)
  PROVE  Splits(Matching(h, r, rows), Matching(h, r, new), OutOf(h, new), p = Len(rows))
<1>1. PICK T, U, out, last :
        /\ T = Listed(h, rows) /\ U = Listed(h, new) /\ out = OutOf(h, new)
        /\ last = (p = Len(rows))
  OBVIOUS
<1>2. Splits(T, U, out, last)
  BY <1>1, ListedSplits
<1>3. CASE h = "search_plants" /\ "name" \in DOMAIN r.body
  <2>1. PICK a, b, c, d :
          /\ a \in Seq(Nat) /\ b \in Seq(Nat) /\ c \in Seq(Nat) /\ d \in Seq(Nat)
          /\ T = (a \o b) \o d /\ U = (a \o c) \o b
          /\ d = << >> \/ \E x \in out : d = <<x>>
          /\ last => b = << >> /\ d = << >>
    BY <1>2, Zenon DEF Splits
  <2>2. PICK na, nb, nc, nd : na = NamedOf(a) /\ nb = NamedOf(b) /\ nc = NamedOf(c) /\ nd = NamedOf(d)
    OBVIOUS
  <2>3. na \in Seq(Nat) /\ nb \in Seq(Nat) /\ nc \in Seq(Nat) /\ nd \in Seq(Nat)
    BY <2>1, <2>2, NamedOfType
  <2>4. a \o b \in Seq(Nat) /\ a \o c \in Seq(Nat)
    BY <2>1
  <2>s. \A s1, s2 \in Seq(Nat) : NamedOf(s1 \o s2) = NamedOf(s1) \o NamedOf(s2)
    BY NamedOfBoth
  <2>5. NamedOf(T) = (na \o nb) \o nd
    <3>1. NamedOf((a \o b) \o d) = NamedOf(a \o b) \o NamedOf(d) /\ NamedOf(a \o b) = na \o nb
      BY <2>1, <2>2, <2>4, <2>s, Zenon
    <3> QED
      BY <2>1, <2>2, <3>1, Zenon
  <2>6. NamedOf(U) = (na \o nc) \o nb
    <3>1. NamedOf((a \o c) \o b) = NamedOf(a \o c) \o NamedOf(b) /\ NamedOf(a \o c) = na \o nc
      BY <2>1, <2>2, <2>4, <2>s, Zenon
    <3> QED
      BY <2>1, <2>2, <3>1, Zenon
  <2>7. nd = << >> \/ \E x \in out : nd = <<x>>
    <3>1. CASE d = << >>
      BY <2>2, <3>1, NamedOfOne
    <3>2. ASSUME NEW x \in out, d = <<x>> PROVE nd = << >> \/ nd = <<x>>
      <4>1. d[1] = x /\ d[1] \in Nat
        BY <2>1, <3>2
      <4> QED
        BY <2>2, <3>2, <4>1, NamedOfOne
    <3> QED
      BY <2>1, <3>1, <3>2
  <2>8. last => nb = << >> /\ nd = << >>
    BY <2>1, <2>2, NamedOfOne
  <2>9. Splits(NamedOf(T), NamedOf(U), out, last)
    BY <2>3, <2>5, <2>6, <2>7, <2>8, Zenon DEF Splits
  <2> QED
    BY <1>1, <1>3, <2>9, MatchingIs
<1>4. CASE ~(h = "search_plants" /\ "name" \in DOMAIN r.body)
  BY <1>1, <1>2, <1>4, MatchingIs
<1> QED
  BY <1>3, <1>4

Prolongs(T, U) == \E c \in Seq(Nat) : U = T \o c

-----------------------------------------------------------------------------
(* A page of the rows T, and the rows that a walk has come by.             *)
LEMMA PageIs ==
  ASSUME NEW T \in Seq(Nat), NEW cur \in Nat, NEW l \in Nat \ {0}
  PROVE  LET page == PageAt(T, cur, l) IN
         /\ page \in Seq(Nat)
         /\ Len(page) = IF cur >= Len(T) THEN 0 ELSE SmallOf(cur + l, Len(T)) - cur
         /\ \A i \in 1 .. Len(page) : page[i] = T[cur + i] /\ cur + i \in 1 .. Len(T)
<1>1. PICK n, e : n = Len(T) /\ n \in Nat /\ e = SmallOf(cur + l, n)
  OBVIOUS
<1>2. e \in Nat /\ e <= n /\ e <= cur + l /\ (cur < n => e > cur) /\ (cur >= n => e <= cur)
  BY <1>1 DEF SmallOf
<1>3. PICK page : page = SubSeq(T, cur + 1, e)
  OBVIOUS
<1>4. \A i \in cur + 1 .. e : i \in 1 .. Len(T) /\ T[i] \in Nat
  BY <1>1, <1>2
<1>5. /\ page \in Seq(Nat) /\ Len(page) = IF cur + 1 <= e THEN e - (cur + 1) + 1 ELSE 0
      /\ \A i \in 1 .. e - (cur + 1) + 1 : page[i] = T[cur + 1 + i - 1]
  BY <1>2, <1>3, <1>4, SubSeqProperties, SMTT(30)
<1>6. Len(page) = IF cur >= n THEN 0 ELSE e - cur
  BY <1>1, <1>2, <1>5
<1>7. ASSUME NEW i \in 1 .. Len(page) PROVE page[i] = T[cur + i] /\ cur + i \in 1 .. Len(T)
  <2>1. i \in 1 .. e - (cur + 1) + 1 /\ cur + 1 + i - 1 = cur + i /\ cur + i \in cur + 1 .. e
    BY <1>1, <1>2, <1>5
  <2> QED
    BY <1>4, <1>5, <2>1
<1> QED
  BY <1>1, <1>3, <1>5, <1>6, <1>7 DEF PageAt

Has(coll, x) == \E j \in DOMAIN coll : coll[j] = x

(* What is collected is a run of T from the offset o on.                   *)
RunOf(T, o, coll) ==
  /\ coll # << >> => o + Len(coll) <= Len(T)
  /\ \A j \in 1 .. Len(coll) : coll[j] = T[o + j]

(* And the next page is at its end, except past the end of rows that       *)
(* nobody counts.                                                          *)
AtOf(h, T, o, cur, coll) ==
  o + Len(coll) = cur \/ (h = "no_total" /\ o + Len(coll) >= Len(T) /\ cur >= Len(T))

(* Whatever there was from o on is collected, still ahead or out of reach. *)
AheadOf(had, T, o, cur, coll, lost) ==
  \A i \in o + 1 .. Len(had) : \/ Has(coll, had[i]) \/ had[i] \in lost
                               \/ \E j \in cur + 1 .. Len(T) : T[j] = had[i]

LEMMA RunIs ==
  ASSUME NEW T \in Seq(Nat), NEW o \in Nat, NEW coll \in Seq(Nat), RunOf(T, o, coll)
  PROVE  coll = SubSeq(T, o + 1, o + Len(coll))
<1>1. PICK n \in Nat, m \in Nat : n = Len(coll) /\ m = Len(T)
  OBVIOUS
<1>2. n # 0 => o + n <= m
  BY <1>1 DEF RunOf
<1>3. PICK u : u = SubSeq(T, o + 1, o + n)
  OBVIOUS
<1>4. \A i \in o + 1 .. o + n : T[i] \in Nat
  BY <1>1, <1>2
<1>5. /\ u \in Seq(Nat) /\ Len(u) = IF o + 1 <= o + n THEN (o + n) - (o + 1) + 1 ELSE 0
      /\ \A i \in 1 .. (o + n) - (o + 1) + 1 : u[i] = T[o + 1 + i - 1]
  BY <1>3, <1>4, SubSeqProperties
<1>6. Len(u) = n
  BY <1>5
<1>7. ASSUME NEW i \in 1 .. n PROVE coll[i] = u[i]
  <2>1. i \in 1 .. (o + n) - (o + 1) + 1 /\ o + 1 + i - 1 = o + i
    OBVIOUS
  <2>2. coll[i] = T[o + i]
    BY <1>1 DEF RunOf
  <2> QED
    BY <1>5, <2>1, <2>2
<1>8. coll = u
  BY <1>1, <1>5, <1>6, <1>7, SeqEqual
<1> QED
  BY <1>1, <1>3, <1>8

LEMMA PageHas ==
  ASSUME NEW T \in Seq(Nat), NEW cur \in Nat, NEW l \in Nat \ {0}
  PROVE  /\ PageAt(T, cur, l) \in Seq(Nat)
         /\ Len(PageAt(T, cur, l)) = IF cur >= Len(T) THEN 0 ELSE SmallOf(cur + l, Len(T)) - cur
         /\ \A i \in 1 .. Len(PageAt(T, cur, l)) : PageAt(T, cur, l)[i] = T[cur + i]
BY PageIs

LEMMA HasBoth ==
  ASSUME NEW a \in Seq(Nat), NEW b \in Seq(Nat), NEW x
  PROVE  Has(a, x) \/ Has(b, x) => Has(a \o b, x)
<1>1. PICK m \in Nat, n \in Nat : m = Len(a) /\ n = Len(b)
  OBVIOUS
<1>2. /\ DOMAIN a = 1 .. m /\ DOMAIN b = 1 .. n /\ DOMAIN (a \o b) = 1 .. m + n
      /\ \A i \in 1 .. m + n : (a \o b)[i] = IF i <= m THEN a[i] ELSE b[i - m]
  BY <1>1
<1>3. ASSUME NEW j \in 1 .. m PROVE j \in 1 .. m + n /\ (a \o b)[j] = a[j]
  BY <1>2
<1>4. ASSUME NEW j \in 1 .. n PROVE m + j \in 1 .. m + n /\ (a \o b)[m + j] = b[j]
  <2>1. m + j \in 1 .. m + n /\ ~(m + j <= m) /\ (m + j) - m = j
    OBVIOUS
  <2> QED
    BY <1>2, <2>1
<1> QED
  BY <1>2, <1>3, <1>4 DEF Has

(* A page that is fetched at the end of the run prolongs it.               *)
LEMMA FetchRuns ==
  ASSUME NEW h, NEW T \in Seq(Nat), NEW o \in Nat, NEW cur \in Nat, NEW l \in Nat \ {0},
         NEW coll \in Seq(Nat), RunOf(T, o, coll), AtOf(h, T, o, cur, coll)
  PROVE  /\ RunOf(T, o, coll \o PageAt(T, cur, l))
         /\ h = "no_total" \/ cur + l < Len(T) =>
              AtOf(h, T, o, cur + l, coll \o PageAt(T, cur, l))
<1>0. PICK n \in Nat, m \in Nat : n = Len(coll) /\ m = Len(T)
  OBVIOUS
<1>1. PICK page, all : page = PageAt(T, cur, l) /\ all = coll \o page
  OBVIOUS
<1>2. /\ page \in Seq(Nat)
      /\ Len(page) = IF cur >= m THEN 0 ELSE SmallOf(cur + l, m) - cur
      /\ \A i \in 1 .. Len(page) : page[i] = T[cur + i]
  <2>1. /\ PageAt(T, cur, l) \in Seq(Nat)
        /\ Len(PageAt(T, cur, l)) = IF cur >= Len(T) THEN 0 ELSE SmallOf(cur + l, Len(T)) - cur
        /\ \A i \in 1 .. Len(PageAt(T, cur, l)) : PageAt(T, cur, l)[i] = T[cur + i]
    BY PageHas
  <2> QED
    BY <1>0, <1>1, <2>1
<1>k. PICK k \in Nat : k = Len(page) /\ DOMAIN page = 1 .. k
  BY <1>2
<1>p. (cur >= m => k = 0) /\ (cur < m => k = SmallOf(cur + l, m) - cur)
  BY <1>2, <1>k
<1>q. \A i \in 1 .. k : page[i] = T[cur + i]
  BY <1>2, <1>k
<1>3. /\ Len(all) = n + k /\ all \in Seq(Nat)
      /\ \A i \in 1 .. n + k : all[i] = IF i <= n THEN coll[i] ELSE page[i - n]
  <2>1. coll \o page \in Seq(Nat) /\ Len(coll \o page) = n + k
        /\ \A i \in 1 .. n + k : (coll \o page)[i] = IF i <= n THEN coll[i] ELSE page[i - n]
    BY <1>0, <1>2, <1>k, BothIs
  <2> QED
    BY <1>1, <2>1
<1>4. /\ n # 0 => o + n <= m
      /\ \A j \in 1 .. n : coll[j] = T[o + j]
  BY <1>0 DEF RunOf
<1>a. o + n = cur \/ (h = "no_total" /\ o + n >= m /\ cur >= m)
  BY <1>0 DEF AtOf
<1>b. o + n = cur \/ cur >= m
  BY <1>a
<1>5. CASE k = 0
  <2>1. cur >= m
    BY <1>p, <1>5 DEF SmallOf
  <2>2. Len(all) = n /\ \A j \in 1 .. n : all[j] = T[o + j]
    <3>1. n + k = n
      BY <1>5
    <3>2. \A j \in 1 .. n : all[j] = coll[j]
      BY <1>3, <3>1
    <3> QED
      BY <1>3, <1>4, <3>1, <3>2
  <2>3. RunOf(T, o, all)
    <3>1. all # << >> => n # 0
      BY <1>3, <2>2
    <3>2. all # << >> => o + Len(all) <= Len(T)
      BY <1>0, <1>4, <2>2, <3>1
    <3> QED
      BY <2>2, <3>2 DEF RunOf
  <2>4. h = "no_total" \/ cur + l < m => AtOf(h, T, o, cur + l, all)
    BY <1>0, <1>a, <2>1, <2>2 DEF AtOf
  <2> QED
    BY <1>0, <1>1, <2>3, <2>4
<1>6. CASE k # 0
  <2>1. cur < m /\ o + n = cur /\ cur + k = SmallOf(cur + l, m)
    <3>1. ~(cur >= m)
      BY <1>6, <1>p
    <3>2. cur < m /\ o + n = cur
      BY <1>b, <3>1
    <3>3. PICK w \in Nat : w = SmallOf(cur + l, m)
      BY DEF SmallOf
    <3>4. k = w - cur
      BY <1>p, <3>2, <3>3
    <3>5. cur + k = w
      BY <3>4
    <3> QED
      BY <3>2, <3>3, <3>5
  <2>2. cur + k <= m /\ (cur + l < m => k = l) /\ (cur + l >= m => cur + k = m)
    BY <2>1 DEF SmallOf
  <2>3. ASSUME NEW j \in 1 .. n + k PROVE all[j] = T[o + j]
    <3>1. CASE j <= n
      <4>1. all[j] = coll[j] /\ j \in 1 .. n
        BY <1>3, <3>1
      <4> QED
        BY <1>4, <4>1
    <3>2. CASE j > n
      <4>1. PICK i \in 1 .. k : i = j - n /\ cur + i = o + j
        BY <2>1, <3>2
      <4>2. all[j] = page[i]
        BY <1>3, <3>2, <4>1
      <4>3. page[i] = T[cur + i]
        BY <1>q
      <4> QED
        BY <4>1, <4>2, <4>3
    <3> QED
      BY <3>1, <3>2
  <2>4. RunOf(T, o, all)
    BY <1>0, <1>3, <2>1, <2>2, <2>3 DEF RunOf
  <2>5. h = "no_total" \/ cur + l < m => AtOf(h, T, o, cur + l, all)
    <3>1. o + Len(all) = cur + k
      BY <1>3, <2>1
    <3>2. CASE cur + l < m
      BY <2>2, <3>1, <3>2 DEF AtOf
    <3>3. CASE cur + l >= m
      BY <1>0, <2>2, <3>1, <3>3 DEF AtOf
    <3> QED
      BY <3>2, <3>3
  <2> QED
    BY <1>0, <1>1, <2>4, <2>5
<1> QED
  BY <1>5, <1>6

(* What was ahead is on the page or still ahead of it.                     *)
LEMMA FetchAhead ==
  ASSUME NEW had \in Seq(Nat), NEW T \in Seq(Nat), NEW o \in Nat, NEW cur \in Nat,
         NEW l \in Nat \ {0}, NEW coll \in Seq(Nat), NEW lost, AheadOf(had, T, o, cur, coll, lost)
  PROVE  /\ AheadOf(had, T, o, cur + l, coll \o PageAt(T, cur, l), lost)
         /\ cur + l >= Len(T) =>
              \A i \in o + 1 .. Len(had) : Has(coll \o PageAt(T, cur, l), had[i]) \/ had[i] \in lost
<1>0. PICK m \in Nat : m = Len(T)
  OBVIOUS
<1>1. PICK page, all : page = PageAt(T, cur, l) /\ all = coll \o page
  OBVIOUS
<1>2. /\ page \in Seq(Nat)
      /\ Len(page) = IF cur >= m THEN 0 ELSE SmallOf(cur + l, m) - cur
      /\ \A i \in 1 .. Len(page) : page[i] = T[cur + i]
  <2>1. /\ PageAt(T, cur, l) \in Seq(Nat)
        /\ Len(PageAt(T, cur, l)) = IF cur >= Len(T) THEN 0 ELSE SmallOf(cur + l, Len(T)) - cur
        /\ \A i \in 1 .. Len(PageAt(T, cur, l)) : PageAt(T, cur, l)[i] = T[cur + i]
    BY PageHas
  <2> QED
    BY <1>0, <1>1, <2>1
<1>k. PICK k \in Nat : k = Len(page) /\ DOMAIN page = 1 .. k
  BY <1>2
<1>p. (cur >= m => k = 0) /\ (cur < m => k = SmallOf(cur + l, m) - cur)
  BY <1>2, <1>k
<1>q. \A i \in 1 .. k : page[i] = T[cur + i]
  BY <1>2, <1>k
<1>3. \A x : Has(coll, x) \/ Has(page, x) => Has(all, x)
  BY <1>1, <1>2, HasBoth
<1>4. ASSUME NEW j \in cur + 1 .. m, j <= cur + l PROVE Has(page, T[j])
  <2>1. j - cur \in 1 .. k /\ cur + (j - cur) = j
    BY <1>4, <1>p DEF SmallOf
  <2>2. page[j - cur] = T[j]
    BY <1>q, <2>1
  <2> QED
    BY <1>k, <2>1, <2>2 DEF Has
<1>5. ASSUME NEW i \in o + 1 .. Len(had)
      PROVE  Has(all, had[i]) \/ had[i] \in lost \/ \E j \in cur + l + 1 .. m : T[j] = had[i]
  <2>1. CASE Has(coll, had[i])
    BY <1>3, <2>1
  <2>2. ASSUME NEW j \in cur + 1 .. m, T[j] = had[i]
        PROVE  Has(all, had[i]) \/ \E k1 \in cur + l + 1 .. m : T[k1] = had[i]
    <3>1. CASE j <= cur + l
      BY <1>3, <1>4, <2>2, <3>1
    <3>2. CASE ~(j <= cur + l)
      <4>1. j \in cur + l + 1 .. m
        BY <3>2
      <4> QED
        BY <2>2, <4>1
    <3> QED
      BY <3>1, <3>2
  <2> QED
    BY <1>0, <2>1, <2>2 DEF AheadOf
<1>6. cur + l >= m => cur + l + 1 .. m = {}
  OBVIOUS
<1> QED
  BY <1>0, <1>1, <1>5, <1>6 DEF AheadOf

(* A new row pushes nothing back behind the page the walk is at.           *)
LEMMA CreateAhead ==
  ASSUME NEW had \in Seq(Nat), NEW o \in Nat, NEW cur \in Nat, NEW coll \in Seq(Nat),
         NEW T \in Seq(Nat), NEW U, NEW lost, NEW out, lost \subseteq out, NEW last,
         Splits(T, U, out, last), AheadOf(had, T, o, cur, coll, lost)
  PROVE  AheadOf(had, U, o, cur, coll, out)
<1>0. PICK a, b, c, d :
        /\ a \in Seq(Nat) /\ b \in Seq(Nat) /\ c \in Seq(Nat) /\ d \in Seq(Nat)
        /\ T = (a \o b) \o d /\ U = (a \o c) \o b
        /\ d = << >> \/ \E x \in out : d = <<x>>
  BY Zenon DEF Splits
<1>1. PICK k \in Nat, l \in Nat, m \in Nat, n \in Nat :
        k = Len(a) /\ l = Len(b) /\ m = Len(c) /\ n = Len(d)
  BY <1>0
<1>2. /\ a \o b \in Seq(Nat) /\ Len(a \o b) = k + l
      /\ \A i \in 1 .. k + l : (a \o b)[i] = IF i <= k THEN a[i] ELSE b[i - k]
  BY <1>0, <1>1, BothIs
<1>3. PICK e \in Seq(Nat) : e = a \o b
  BY <1>2
<1>4. /\ Len(T) = (k + l) + n
      /\ \A i \in 1 .. (k + l) + n : T[i] = IF i <= k + l THEN e[i] ELSE d[i - (k + l)]
  <2>1. PICK w \in Nat : w = k + l
    OBVIOUS
  <2>2. /\ Len(e \o d) = w + n
        /\ \A i \in 1 .. w + n : (e \o d)[i] = IF i <= w THEN e[i] ELSE d[i - w]
    <3>1. e \in Seq(Nat) /\ d \in Seq(Nat) /\ w = Len(e) /\ n = Len(d)
      BY <1>0, <1>1, <1>2, <1>3, <2>1
    <3> QED
      BY <3>1, BothIs
  <2> QED
    BY <1>0, <1>3, <2>1, <2>2
<1>5. PICK f \in Seq(Nat) : f = a \o c
  <2>1. a \in Seq(Nat) /\ c \in Seq(Nat)
    BY <1>0
  <2>2. a \o c \in Seq(Nat)
    BY <2>1
  <2> QED
    BY <2>2
<1>6. /\ Len(f) = k + m
      /\ \A i \in 1 .. k + m : f[i] = IF i <= k THEN a[i] ELSE c[i - k]
  BY <1>0, <1>1, <1>5, BothIs
<1>7. /\ Len(U) = (k + m) + l
      /\ \A i \in 1 .. (k + m) + l : U[i] = IF i <= k + m THEN f[i] ELSE b[i - (k + m)]
  <2>1. PICK w \in Nat : w = k + m
    OBVIOUS
  <2>2. /\ Len(f \o b) = w + l
        /\ \A i \in 1 .. w + l : (f \o b)[i] = IF i <= w THEN f[i] ELSE b[i - w]
    <3>1. f \in Seq(Nat) /\ b \in Seq(Nat) /\ w = Len(f) /\ l = Len(b)
      BY <1>0, <1>1, <1>6, <2>1
    <3> QED
      BY <3>1, BothIs
  <2> QED
    BY <1>0, <1>5, <2>1, <2>2
<1>8. ASSUME NEW j \in cur + 1 .. (k + l) + n
      PROVE  T[j] \in out \/ \E i \in cur + 1 .. (k + m) + l : U[i] = T[j]
  <2>1. CASE j <= k
    <3>1. /\ j \in 1 .. k + l /\ j <= k + l /\ j \in 1 .. (k + l) + n
          /\ j \in 1 .. k + m /\ j <= k + m /\ j \in 1 .. (k + m) + l /\ j \in cur + 1 .. (k + m) + l
      BY <2>1
    <3>2. T[j] = a[j]
      BY <1>2, <1>3, <1>4, <2>1, <3>1
    <3>3. U[j] = a[j]
      BY <1>6, <1>7, <2>1, <3>1
    <3> QED
      BY <3>1, <3>2, <3>3
  <2>2. CASE ~(j <= k) /\ j <= k + l
    <3>1. /\ j \in 1 .. k + l /\ j \in 1 .. (k + l) + n
          /\ j + m \in 1 .. (k + m) + l /\ ~(j + m <= k + m) /\ (j + m) - (k + m) = j - k
          /\ j + m \in cur + 1 .. (k + m) + l
      BY <2>2
    <3>2. T[j] = b[j - k]
      BY <1>2, <1>3, <1>4, <2>2, <3>1
    <3>3. U[j + m] = b[j - k]
      BY <1>7, <3>1
    <3> QED
      BY <3>1, <3>2, <3>3
  <2>3. CASE ~(j <= k + l)
    <3>1. j \in 1 .. (k + l) + n /\ j - (k + l) \in 1 .. n
      BY <2>3
    <3>2. T[j] = d[j - (k + l)]
      BY <1>4, <2>3, <3>1
    <3>3. PICK x \in out : d = <<x>>
      <4>1. d # << >>
        BY <1>1, <3>1
      <4> QED
        BY <1>0, <4>1
    <3>4. n = 1 /\ d[1] = x
      BY <1>1, <3>3
    <3>5. j - (k + l) = 1
      BY <3>1, <3>4
    <3> QED
      BY <3>2, <3>4, <3>5
  <2> QED
    BY <2>1, <2>2, <2>3
<1>9. ASSUME NEW i \in o + 1 .. Len(had)
      PROVE  \/ Has(coll, had[i]) \/ had[i] \in out
             \/ \E j \in cur + 1 .. Len(U) : U[j] = had[i]
  <2>1. \/ Has(coll, had[i]) \/ had[i] \in lost
        \/ \E j \in cur + 1 .. (k + l) + n : T[j] = had[i]
    BY <1>4 DEF AheadOf
  <2>2. ASSUME NEW j \in cur + 1 .. (k + l) + n, T[j] = had[i]
        PROVE  had[i] \in out \/ \E q \in cur + 1 .. Len(U) : U[q] = had[i]
    BY <1>7, <1>8, <2>2
  <2> QED
    BY <2>1, <2>2
<1> QED
  BY <1>9 DEF AheadOf

(* And one that goes last keeps the run.                                   *)
LEMMA CreateRuns ==
  ASSUME NEW T \in Seq(Nat), NEW c \in Seq(Nat), NEW o \in Nat, NEW coll \in Seq(Nat),
         RunOf(T, o, coll)
  PROVE  RunOf(T \o c, o, coll)
<1>1. PICK m \in Nat, k \in Nat, n \in Nat : m = Len(T) /\ k = Len(c) /\ n = Len(coll)
  OBVIOUS
<1>2. /\ Len(T \o c) = m + k
      /\ \A i \in 1 .. m + k : (T \o c)[i] = IF i <= m THEN T[i] ELSE c[i - m]
  BY <1>1
<1>3. (coll # << >> => n # 0) /\ (n # 0 => o + n <= m)
  BY <1>1 DEF RunOf
<1>4. ASSUME NEW j \in 1 .. n PROVE coll[j] = (T \o c)[o + j]
  <2>1. o + j \in 1 .. m /\ o + j <= m /\ o + j \in 1 .. m + k
    BY <1>3
  <2>2. coll[j] = T[o + j]
    BY <1>1 DEF RunOf
  <2> QED
    BY <1>2, <2>1, <2>2
<1>5. coll # << >> => o + Len(coll) <= Len(T \o c)
  BY <1>1, <1>2, <1>3
<1> QED
  BY <1>1, <1>4, <1>5 DEF RunOf

-----------------------------------------------------------------------------
(* What is true of a walk: S is its beginning, rows the store, r the next  *)
(* request and coll what it has collected.  Every request asks for pages   *)
(* of one size, none is refused unless the first one is, and while new     *)
(* rows go last the rows there were at the start are the first there are.  *)
LimitOf(h, S) == IF h = "search_plants" THEN S.req.body["limit"] ELSE S.req.query["limit"]
Criterion(S) == "name" \in DOMAIN S.req.body
TargetOf(h, S, rows) == Matching(h, S.req, rows)
HadOf(h, S) == Matching(h, S.req, S.rows)
Undisturbed(S, rows) ==
  /\ \A i \in 1 .. Len(S.rows) : rows[i] = S.rows[i]
  /\ \A j \in Len(S.rows) + 1 .. Len(rows) - 1 : rows[j] < rows[j + 1]
Placed(h, S) == OffsetOf(h, S.req) # ParamError

Grown(S, rows) ==
  /\ S.rows \in Seq(Nat) /\ rows \in Seq(Nat)
  /\ Len(S.rows) <= Len(rows) /\ Len(rows) <= Rows
  /\ \A i \in 1 .. Len(S.rows) : Has(rows, S.rows[i])

Kind(h, q, S, rows, r, coll) ==
  /\ h \in Handlers /\ q \in {"next", "prev"}
  /\ LimitOf(h, S) \in Nat \ {0} /\ coll \in Seq(Nat)
  /\ Asking(h, LimitOf(h, S), Criterion(S), S.req)
  /\ Asking(h, LimitOf(h, S), Criterion(S), r)
  /\ Placed(h, S) => OffsetOf(h, r) # ParamError
  /\ Grown(S, rows)
  /\ Undisturbed(S, rows) => Prolongs(HadOf(h, S), TargetOf(h, S, rows))

(* A walk by `next` has come by a run of the rows, as long as new rows go  *)
(* last, and whatever there was is collected, ahead of it or past the cap. *)
(* The requests it made asked for an earlier place than the one it is      *)
(* going to make.                                                          *)
Forward(h, S, rows, r, sn, coll, out) ==
  /\ out \notin {"loop", "refused"}
  /\ Undisturbed(S, rows) => RunOf(TargetOf(h, S, rows), OffsetOf(h, S.req), coll)
  /\ out = "walking" =>
       /\ Undisturbed(S, rows) =>
            AtOf(h, TargetOf(h, S, rows), OffsetOf(h, S.req), OffsetOf(h, r), coll)
       /\ AheadOf(HadOf(h, S), TargetOf(h, S, rows), OffsetOf(h, S.req), OffsetOf(h, r), coll,
                  OutOf(h, rows))
       /\ \A s \in sn : \E e : /\ Asking(h, LimitOf(h, S), Criterion(S), e) /\ s = Marker(e)
                               /\ OffsetOf(h, e) \in Nat /\ OffsetOf(h, e) < OffsetOf(h, r)
  /\ out = "done" =>
       \A i \in OffsetOf(h, S.req) + 1 .. Len(HadOf(h, S)) :
         Has(coll, HadOf(h, S)[i]) \/ HadOf(h, S)[i] \in OutOf(h, rows)

(* A walk by `prev` has come by all there was from the end of its next     *)
(* page to the end of its first one.                                       *)
Backward(h, S, rows, r, coll, out) ==
  Undisturbed(S, rows) =>
    LET end == SmallOf(OffsetOf(h, S.req) + LimitOf(h, S), Len(HadOf(h, S))) IN
    /\ out = "walking" =>
         \A i \in OffsetOf(h, r) + LimitOf(h, S) + 1 .. end : Has(coll, HadOf(h, S)[i])
    /\ out = "done" => \A i \in 1 .. end : Has(coll, HadOf(h, S)[i])

LEMMA RowsAre ==
  ASSUME NEW h, NEW S, NEW rows, Grown(S, rows)
  PROVE  TargetOf(h, S, rows) \in Seq(Nat) /\ HadOf(h, S) \in Seq(Nat)
<1>1. rows \in Seq(Nat) /\ S.rows \in Seq(Nat)
  BY DEF Grown
<1>2. ASSUME NEW s \in Seq(Nat) PROVE Matching(h, S.req, s) \in Seq(Nat)
  <2>1. Listed(h, s) \in Seq(Nat)
    BY ListedIs
  <2> QED
    BY <2>1, NamedOfType, MatchingIs
<1> QED
  BY <1>1, <1>2 DEF TargetOf, HadOf

(* One page serves any request of the walk.                                *)
LEMMA ServedTo ==
  ASSUME NEW h, NEW q, NEW S, NEW rows, NEW r, NEW coll, Kind(h, q, S, rows, r, coll),
         NEW e, Asking(h, LimitOf(h, S), Criterion(S), e)
  PROVE  IF OffsetOf(h, e) = ParamError THEN Serve(h, e, rows) = Refusal
         ELSE PageOf(h, LimitOf(h, S), Criterion(S), TargetOf(h, S, rows), OffsetOf(h, e),
                     Serve(h, e, rows))
<1>1. PICK l, d, T : l = LimitOf(h, S) /\ d = Criterion(S) /\ T = TargetOf(h, S, rows)
  OBVIOUS
<1>2. /\ h \in Handlers /\ l \in Nat \ {0} /\ Asking(h, l, d, e) /\ Asking(h, l, d, S.req)
      /\ Grown(S, rows)
  BY <1>1 DEF Kind
<1>3. T \in Seq(Nat) /\ (h = "list_plants" => Len(T) <= Rows)
  <2>1. T \in Seq(Nat) /\ Len(rows) <= Rows
    BY <1>1, <1>2, RowsAre DEF Grown
  <2>2. CASE h = "list_plants"
    <3>1. T = rows
      BY <1>1, <2>2, MatchingIs DEF TargetOf, Listed
    <3> QED
      BY <2>1, <3>1
  <2>3. CASE h # "list_plants"
    BY <2>1, <2>3
  <2> QED
    BY <2>2, <2>3
<1>4. T = Matching(h, e, rows)
  BY <1>1, <1>2 DEF TargetOf, Matching, Asking
<1> QED
  BY <1>1, <1>2, <1>3, <1>4, Served

(* A new row that goes last leaves the walk undisturbed, any other one     *)
(* disturbs it for good.                                                   *)
Arrives(id, rows) ==
  id \in Nat /\ Len(rows) < Rows /\ \A i \in 1 .. Len(rows) : rows[i] < id

LEMMA CreateSplits ==
  ASSUME NEW h, NEW S, NEW rows, Grown(S, rows), NEW id, Arrives(id, rows),
         NEW u, u = Insert(id, rows)
  PROVE  /\ Grown(S, u) /\ OutOf(h, rows) \subseteq OutOf(h, u)
         /\ \E last \in BOOLEAN :
              /\ Splits(TargetOf(h, S, rows), TargetOf(h, S, u), OutOf(h, u), last)
              /\ Undisturbed(S, u) => last /\ Undisturbed(S, rows)
<1>0. Len(rows) \in Nat /\ Len(S.rows) \in Nat
  <2>1. rows \in Seq(Nat) /\ S.rows \in Seq(Nat)
    BY DEF Grown
  <2> QED
    BY <2>1
<1>1. PICK m \in Nat, n \in Nat : m = Len(rows) /\ n = Len(S.rows)
  BY <1>0
<1>2. /\ rows \in Seq(Nat) /\ S.rows \in Seq(Nat) /\ n <= m /\ m < Rows /\ Rows \in Nat
      /\ id \in Nat /\ (\A i \in 1 .. m : rows[i] < id)
      /\ \A i \in 1 .. n : Has(rows, S.rows[i])
  BY <1>1, PagesAssumption DEF Grown, Arrives
<1>3. PICK p \in 0 .. m : u = (SubSeq(rows, 1, p) \o <<id>>) \o SubSeq(rows, p + 1, m)
  BY <1>1, <1>2, InsertIs
<1>4. Inserted(rows, p, id, u)
  BY <1>1, <1>2, <1>3, InsertAt
<1>5. /\ u \in Seq(Nat) /\ Len(u) = m + 1
      /\ \A i \in 1 .. m + 1 : u[i] = IF i <= p THEN rows[i] ELSE IF i = p + 1 THEN id ELSE rows[i - 1]
  BY <1>1, <1>4 DEF Inserted
<1>6. ASSUME NEW j \in 1 .. m PROVE \E k \in 1 .. m + 1 : u[k] = rows[j]
  <2>1. CASE j <= p
    BY <1>5, <2>1
  <2>2. CASE ~(j <= p)
    <3>1. j + 1 \in 1 .. m + 1 /\ ~(j + 1 <= p) /\ j + 1 # p + 1 /\ (j + 1) - 1 = j
      BY <2>2
    <3> QED
      BY <1>5, <3>1
  <2> QED
    BY <2>1, <2>2
<1>7. Grown(S, u)
  <2>1. ASSUME NEW i \in 1 .. n PROVE Has(u, S.rows[i])
    <3>1. PICK j \in 1 .. m : rows[j] = S.rows[i]
      <4>1. Has(rows, S.rows[i]) /\ DOMAIN rows = 1 .. m
        BY <1>1, <1>2
      <4> QED
        BY <4>1 DEF Has
    <3>2. PICK k \in 1 .. m + 1 : u[k] = rows[j]
      BY <1>6
    <3> QED
      BY <1>5, <3>1, <3>2 DEF Has
  <2> QED
    BY <1>1, <1>2, <1>5, <2>1 DEF Grown
<1>8. OutOf(h, rows) \subseteq OutOf(h, u)
  BY <1>1, <1>2, <1>4, OutStays
<1>9. Splits(TargetOf(h, S, rows), TargetOf(h, S, u), OutOf(h, u), p = Len(rows))
  BY <1>1, <1>2, <1>4, MatchingGrows DEF TargetOf
<1>10. ASSUME Undisturbed(S, u) PROVE p = m /\ Undisturbed(S, rows)
  <2>1. /\ \A i \in 1 .. n : u[i] = S.rows[i]
        /\ \A j \in n + 1 .. m : u[j] < u[j + 1]
    <3>1. Len(u) - 1 = m
      BY <1>5
    <3>2. /\ \A i \in 1 .. Len(S.rows) : u[i] = S.rows[i]
          /\ \A j \in Len(S.rows) + 1 .. Len(u) - 1 : u[j] < u[j + 1]
      BY <1>10 DEF Undisturbed
    <3> QED
      BY <1>1, <3>1, <3>2
  <2>2. p = m
    <3>1. SUFFICES ASSUME p < m PROVE FALSE
      OBVIOUS
    <3>2. p + 1 \in 1 .. m /\ p + 1 \in 1 .. m + 1 /\ ~(p + 1 <= p)
      BY <3>1
    <3>3. u[p + 1] = id
      BY <1>5, <3>2
    <3>4. CASE p + 1 <= n
      <4>1. p + 1 \in 1 .. n
        BY <3>4
      <4>2. PICK j \in 1 .. m : rows[j] = id
        <5>1. S.rows[p + 1] = id /\ Has(rows, S.rows[p + 1])
          BY <1>2, <2>1, <3>3, <4>1
        <5>2. DOMAIN rows = 1 .. m
          BY <1>1, <1>2
        <5> QED
          BY <5>1, <5>2 DEF Has
      <4> QED
        BY <1>2, <4>2
    <3>5. CASE ~(p + 1 <= n)
      <4>1. /\ p + 1 \in n + 1 .. m /\ (p + 1) + 1 \in 1 .. m + 1 /\ ~((p + 1) + 1 <= p)
            /\ (p + 1) + 1 # p + 1 /\ ((p + 1) + 1) - 1 = p + 1
        BY <3>1, <3>5
      <4>2. u[(p + 1) + 1] = rows[p + 1]
        BY <1>5, <4>1
      <4>3. id < rows[p + 1]
        BY <2>1, <3>3, <4>1, <4>2
      <4>4. rows[p + 1] < id /\ rows[p + 1] \in Nat
        BY <1>1, <1>2, <3>2
      <4> QED
        BY <1>2, <4>3, <4>4
    <3> QED
      BY <3>4, <3>5
  <2>3. \A i \in 1 .. m : u[i] = rows[i]
    BY <1>5, <2>2
  <2>4. \A i \in 1 .. n : rows[i] = S.rows[i]
    BY <1>2, <2>1, <2>3
  <2>5. ASSUME NEW j \in n + 1 .. m - 1 PROVE rows[j] < rows[j + 1]
    <3>1. j \in 1 .. m /\ j + 1 \in 1 .. m /\ j \in n + 1 .. m
      OBVIOUS
    <3> QED
      BY <2>1, <2>3, <3>1
  <2> QED
    BY <1>1, <2>2, <2>4, <2>5 DEF Undisturbed
<1>11. PICK last \in BOOLEAN : last = (p = Len(rows))
  OBVIOUS
<1>12. Splits(TargetOf(h, S, rows), TargetOf(h, S, u), OutOf(h, u), last)
  BY <1>9, <1>11
<1> QED
  BY <1>1, <1>7, <1>8, <1>10, <1>11, <1>12

(* Each step keeps what is true of the walk, and a page that was fetched   *)
(* refuses, ends the walk or leads it on.                                  *)
Moved(page, q, r, e, out) ==
  \/ page.status # 200 /\ out = "refused" /\ e = r
  \/ page.status = 200 /\ (\A k \in page.links : k.rel # q) /\ out = "done" /\ e = r
  \/ page.status = 200 /\ (\E k \in page.links : k.rel = q /\ e = k.to) /\ out = "walking"

LEMMA KindFetch ==
  ASSUME NEW h, NEW q, NEW S, NEW rows, NEW r, NEW coll, Kind(h, q, S, rows, r, coll),
         NEW page, page = Serve(h, r, rows),
         NEW e, e = r \/ \E k \in page.links : k.rel = q /\ e = k.to
  PROVE  Kind(h, q, S, rows, e, coll \o page.items)
<1>1. PICK l, d, T, c :
        l = LimitOf(h, S) /\ d = Criterion(S) /\ T = TargetOf(h, S, rows) /\ c = OffsetOf(h, r)
  OBVIOUS
<1>2. /\ h \in Handlers /\ l \in Nat \ {0} /\ q \in {"next", "prev"} /\ coll \in Seq(Nat)
      /\ Grown(S, rows) /\ Asking(h, l, d, r)
  BY <1>1 DEF Kind
<1>3. c \in Nat \cup {ParamError} /\ ParamError \notin Nat
  BY <1>1, <1>2, OffsetKnown, TokenAssumption
<1>4. IF c = ParamError THEN page = Refusal ELSE PageOf(h, l, d, T, c, page)
  BY <1>1, <1>2, ServedTo
<1>5. page.items \in Seq(Nat)
  <2>1. CASE c = ParamError
    <3>1. page = Refusal
      BY <1>4, <2>1
    <3>2. page.items = << >> /\ << >> \in Seq(Nat)
      BY <3>1 DEF Refusal
    <3> QED
      BY <3>2
  <2>2. CASE c # ParamError
    <3>1. c \in Nat /\ T \in Seq(Nat) /\ page.items = PageAt(T, c, l)
      BY <1>1, <1>2, <1>3, <1>4, <2>2, RowsAre DEF PageOf
    <3> QED
      BY <1>2, <3>1, PageIs
  <2> QED
    BY <2>1, <2>2
<1>6. coll \o page.items \in Seq(Nat)
  BY <1>2, <1>5
<1>7. ASSUME NEW k \in page.links, k.rel = q
      PROVE  Asking(h, l, d, k.to) /\ OffsetOf(h, k.to) # ParamError
  <2>1. c # ParamError
    BY <1>4 DEF Refusal
  <2>2. /\ Asking(h, l, d, k.to)
        /\ OffsetOf(h, k.to) \in {c + l, LargeOf(0, c - l)}
    BY <1>2, <1>4, <1>7, <2>1 DEF PageOf
  <2>3. c \in Nat /\ c + l \in Nat /\ LargeOf(0, c - l) \in Nat
    <3>1. c \in Nat /\ l \in Nat
      BY <1>2, <1>3, <2>1
    <3> QED
      BY <3>1 DEF LargeOf
  <2> QED
    BY <1>3, <2>2, <2>3
<1>8. Asking(h, l, d, e) /\ (Placed(h, S) => OffsetOf(h, e) # ParamError)
  BY <1>1, <1>2, <1>7 DEF Kind
<1> QED
  BY <1>1, <1>6, <1>8 DEF Kind

LEMMA ForwardFetch ==
  ASSUME NEW h, NEW S, NEW rows, NEW r, NEW coll, Kind(h, "next", S, rows, r, coll),
         Placed(h, S), NEW sn, Forward(h, S, rows, r, sn, coll, "walking"),
         NEW page, page = Serve(h, r, rows), NEW e, NEW out, Moved(page, "next", r, e, out)
  PROVE  Forward(h, S, rows, e, sn \cup {Marker(r)}, coll \o page.items, out)
<1>1. PICK l, d, T, c, o, had, lost :
        /\ l = LimitOf(h, S) /\ d = Criterion(S) /\ T = TargetOf(h, S, rows)
        /\ c = OffsetOf(h, r) /\ o = OffsetOf(h, S.req) /\ had = HadOf(h, S)
        /\ lost = OutOf(h, rows)
  OBVIOUS
<1>2. /\ h \in Handlers /\ l \in Nat \ {0} /\ coll \in Seq(Nat) /\ Asking(h, l, d, S.req)
      /\ Grown(S, rows) /\ Asking(h, l, d, r)
      /\ c # ParamError /\ o # ParamError
  BY <1>1 DEF Kind, Placed
<1>3. c \in Nat /\ o \in Nat /\ T \in Seq(Nat) /\ had \in Seq(Nat)
  BY <1>1, <1>2, OffsetKnown, RowsAre
<1>4. PageOf(h, l, d, T, c, page)
  BY <1>1, <1>2, ServedTo
<1>5. page.status = 200 /\ page.items = PageAt(T, c, l)
  BY <1>4 DEF PageOf
<1>6. PICK all : all = coll \o page.items
  OBVIOUS
<1>7. AheadOf(had, T, o, c, coll, lost)
  BY <1>1 DEF Forward
<1>8. /\ AheadOf(had, T, o, c + l, all, lost)
      /\ c + l >= Len(T) => \A i \in o + 1 .. Len(had) : Has(all, had[i]) \/ had[i] \in lost
  BY <1>2, <1>3, <1>5, <1>6, <1>7, FetchAhead
<1>9. Undisturbed(S, rows) => RunOf(T, o, coll) /\ AtOf(h, T, o, c, coll)
  BY <1>1 DEF Forward
<1>10. Undisturbed(S, rows) =>
         /\ RunOf(T, o, all)
         /\ h = "no_total" \/ c + l < Len(T) => AtOf(h, T, o, c + l, all)
  <2>1. SUFFICES ASSUME Undisturbed(S, rows)
                 PROVE  /\ RunOf(T, o, all)
                        /\ h = "no_total" \/ c + l < Len(T) => AtOf(h, T, o, c + l, all)
    OBVIOUS
  <2>2. RunOf(T, o, coll) /\ AtOf(h, T, o, c, coll)
    BY <1>9, <2>1
  <2>3. /\ RunOf(T, o, coll \o PageAt(T, c, l))
        /\ h = "no_total" \/ c + l < Len(T) => AtOf(h, T, o, c + l, coll \o PageAt(T, c, l))
    BY <1>2, <1>3, <2>2, FetchRuns
  <2> QED
    BY <1>5, <1>6, <2>3
<1>11. ASSUME \A k \in page.links : k.rel # "next"
       PROVE  Forward(h, S, rows, e, sn \cup {Marker(r)}, all, "done")
  <2>1. c + l >= Len(T)
    <3>1. ~(c + l < Len(T))
      BY <1>4, <1>11 DEF PageOf
    <3> QED
      BY <1>2, <1>3, <3>1
  <2>2. \A i \in o + 1 .. Len(had) : Has(all, had[i]) \/ had[i] \in lost
    BY <1>8, <2>1
  <2> QED
    BY <1>1, <1>10, <2>2 DEF Forward
<1>12. ASSUME NEW k \in page.links, k.rel = "next"
       PROVE  Forward(h, S, rows, k.to, sn \cup {Marker(r)}, all, "walking")
  <2>1. /\ OffsetOf(h, k.to) = c + l /\ (h = "no_total" \/ c + l < Len(T))
    BY <1>4, <1>12 DEF PageOf
  <2>2. Undisturbed(S, rows) => RunOf(T, o, all) /\ AtOf(h, T, o, c + l, all)
    BY <1>10, <2>1
  <2>3. c < c + l
    BY <1>2, <1>3
  <2>4. ASSUME NEW s \in sn \cup {Marker(r)}
        PROVE  \E x : /\ Asking(h, l, d, x) /\ s = Marker(x)
                      /\ OffsetOf(h, x) \in Nat /\ OffsetOf(h, x) < c + l
    <3>1. CASE s = Marker(r)
      BY <1>1, <1>2, <1>3, <2>3, <3>1
    <3>2. CASE s \in sn
      <4>1. PICK x : /\ Asking(h, l, d, x) /\ s = Marker(x)
                     /\ OffsetOf(h, x) \in Nat /\ OffsetOf(h, x) < c
        BY <1>1, <3>2 DEF Forward
      <4>2. PICK p \in Nat : p = OffsetOf(h, x)
        BY <4>1
      <4>3. p < c + l
        BY <1>2, <1>3, <4>1, <4>2
      <4> QED
        BY <4>1, <4>2, <4>3
    <3> QED
      BY <3>1, <3>2
  <2> QED
    BY <1>1, <1>8, <2>1, <2>2, <2>4 DEF Forward
<1>13. CASE out = "done"
  BY <1>6, <1>11, <1>13 DEF Moved
<1>14. CASE out # "done"
  <2>1. PICK k \in page.links : k.rel = "next" /\ e = k.to /\ out = "walking"
    BY <1>5, <1>14 DEF Moved
  <2> QED
    BY <1>6, <1>12, <2>1
<1> QED
  BY <1>13, <1>14

LEMMA BackwardFetch ==
  ASSUME NEW h, NEW S, NEW rows, NEW r, NEW coll, Kind(h, "prev", S, rows, r, coll),
         Placed(h, S), Backward(h, S, rows, r, coll, "walking"),
         NEW page, page = Serve(h, r, rows), NEW e, NEW out, Moved(page, "prev", r, e, out)
  PROVE  Backward(h, S, rows, e, coll \o page.items, out)
<1>1. PICK l, d, T, c, o, had :
        /\ l = LimitOf(h, S) /\ d = Criterion(S) /\ T = TargetOf(h, S, rows)
        /\ c = OffsetOf(h, r) /\ o = OffsetOf(h, S.req) /\ had = HadOf(h, S)
  OBVIOUS
<1>2. /\ h \in Handlers /\ l \in Nat \ {0} /\ coll \in Seq(Nat) /\ Asking(h, l, d, S.req)
      /\ Grown(S, rows) /\ Asking(h, l, d, r)
      /\ c # ParamError /\ o # ParamError
  BY <1>1 DEF Kind, Placed
<1>3. c \in Nat /\ o \in Nat /\ T \in Seq(Nat) /\ had \in Seq(Nat)
  BY <1>1, <1>2, OffsetKnown, RowsAre
<1>4. PageOf(h, l, d, T, c, page)
  BY <1>1, <1>2, ServedTo
<1>5. page.status = 200 /\ page.items = PageAt(T, c, l)
  BY <1>4 DEF PageOf
<1>6. PICK all, end : all = coll \o page.items /\ end = SmallOf(o + l, Len(had))
  OBVIOUS
<1>7. ASSUME Undisturbed(S, rows), NEW i \in c + 1 .. end PROVE Has(all, had[i])
  <2>1. i \in Nat /\ i >= c + 1 /\ i <= Len(had) /\ Len(had) \in Nat /\ i \in 1 .. Len(had)
    BY <1>2, <1>3, <1>6 DEF SmallOf
  <2>2. page.items \in Seq(Nat)
    BY <1>2, <1>3, <1>5, PageIs
  <2>3. CASE i > c + l
    <3>1. i \in c + l + 1 .. end
      BY <1>2, <1>3, <2>1, <2>3
    <3>2. Has(coll, had[i])
      BY <1>1, <1>6, <1>7, <3>1 DEF Backward
    <3> QED
      BY <1>2, <1>6, <2>2, <3>2, HasBoth
  <2>4. CASE i <= c + l
    <3>1. PICK t \in Seq(Nat) : T = had \o t
      BY <1>1, <1>7 DEF Kind, Prolongs
    <3>2. T[i] = had[i] /\ i <= Len(T) /\ Len(T) \in Nat
      BY <1>3, <2>1, <3>1
    <3>3. PICK page1, m : page1 = PageAt(T, c, l) /\ m = Len(T)
      OBVIOUS
    <3>4. /\ Len(page1) = IF c >= m THEN 0 ELSE SmallOf(c + l, m) - c
          /\ \A j \in 1 .. Len(page1) : page1[j] = T[c + j]
      <4>1. /\ PageAt(T, c, l) \in Seq(Nat)
            /\ Len(PageAt(T, c, l)) = IF c >= Len(T) THEN 0 ELSE SmallOf(c + l, Len(T)) - c
            /\ \A j \in 1 .. Len(PageAt(T, c, l)) : PageAt(T, c, l)[j] = T[c + j]
        BY <1>2, <1>3, PageHas
      <4> QED
        BY <3>3, <4>1
    <3>k. m \in Nat /\ i <= m /\ ~(c >= m)
      BY <1>3, <2>1, <3>2, <3>3
    <3>l. SmallOf(c + l, m) >= i /\ SmallOf(c + l, m) \in Nat
      BY <1>2, <1>3, <2>1, <2>4, <3>k DEF SmallOf
    <3>m. PICK w \in Nat : w = SmallOf(c + l, m)
      BY <3>l
    <3>n. Len(page1) = w - c
      BY <3>4, <3>k, <3>m
    <3>5. i - c \in 1 .. Len(page1) /\ c + (i - c) = i
      BY <1>3, <2>1, <3>l, <3>m, <3>n
    <3>6. page1[i - c] = had[i]
      BY <3>2, <3>4, <3>5
    <3>7. Has(page.items, had[i])
      BY <1>5, <2>2, <3>3, <3>5, <3>6 DEF Has
    <3> QED
      BY <1>2, <1>6, <2>2, <3>7, HasBoth
  <2> QED
    BY <1>2, <1>3, <2>1, <2>3, <2>4
<1>8. ASSUME \A k \in page.links : k.rel # "prev"
      PROVE  Backward(h, S, rows, e, all, "done")
  <2>1. ~(c > 0)
    BY <1>4, <1>8 DEF PageOf
  <2>2. c = 0
    BY <1>3, <2>1
  <2>3. c + 1 = 1
    BY <2>2
  <2> QED
    BY <1>1, <1>6, <1>7, <2>3 DEF Backward
<1>9. ASSUME NEW k \in page.links, k.rel = "prev"
      PROVE  Backward(h, S, rows, k.to, all, "walking")
  <2>1. PICK p : p = OffsetOf(h, k.to)
    OBVIOUS
  <2>2. p = LargeOf(0, c - l)
    BY <1>4, <1>9, <2>1 DEF PageOf
  <2>3. p \in Nat /\ p + l >= c
    BY <1>2, <1>3, <2>2 DEF LargeOf
  <2>4. ASSUME NEW i \in p + l + 1 .. end PROVE i \in c + 1 .. end
    BY <1>2, <1>3, <2>3, <2>4
  <2>5. Undisturbed(S, rows) => \A i \in p + l + 1 .. end : Has(all, had[i])
    BY <1>7, <2>4
  <2> QED
    BY <1>1, <1>6, <2>1, <2>5 DEF Backward
<1>10. CASE out = "done"
  BY <1>6, <1>8, <1>10 DEF Moved
<1>11. CASE out # "done"
  <2>1. PICK k \in page.links : k.rel = "prev" /\ e = k.to /\ out = "walking"
    BY <1>5, <1>11 DEF Moved
  <2> QED
    BY <1>6, <1>9, <2>1
<1> QED
  BY <1>10, <1>11

(* When new rows go last, they prolong the rows there were.                *)
LEMMA CreateProlongs ==
  ASSUME NEW h, NEW S, NEW rows, Grown(S, rows), NEW id, Arrives(id, rows),
         NEW u, u = Insert(id, rows), Undisturbed(S, u)
  PROVE  Undisturbed(S, rows) /\ Prolongs(TargetOf(h, S, rows), TargetOf(h, S, u))
<1>1. PICK T, U, out : T = TargetOf(h, S, rows) /\ U = TargetOf(h, S, u) /\ out = OutOf(h, u)
  OBVIOUS
<1>2. Undisturbed(S, rows) /\ Splits(T, U, out, TRUE)
  <2>1. PICK last \in BOOLEAN : Splits(T, U, out, last) /\ last /\ Undisturbed(S, rows)
    BY <1>1, CreateSplits
  <2>2. last = TRUE
    BY <2>1
  <2> QED
    BY <2>1, <2>2
<1>3. PICK a, b, c, d :
        /\ a \in Seq(Nat) /\ b \in Seq(Nat) /\ c \in Seq(Nat) /\ d \in Seq(Nat)
        /\ T = (a \o b) \o d /\ U = (a \o c) \o b /\ b = << >> /\ d = << >>
  BY <1>2, Zenon DEF Splits
<1>4. (a \o b) \o d = a /\ (a \o c) \o b = a \o c
  <2>1. \A s \in Seq(Nat) : s \o << >> = s
    OBVIOUS
  <2>2. a \o c \in Seq(Nat)
    BY <1>3
  <2> QED
    BY <1>3, <2>1, <2>2
<1>5. Prolongs(T, U)
  BY <1>3, <1>4, Zenon DEF Prolongs
<1> QED
  BY <1>1, <1>2, <1>5

LEMMA ProlongsTwice ==
  ASSUME NEW s \in Seq(Nat), NEW T, NEW U, Prolongs(s, T), Prolongs(T, U)
  PROVE  Prolongs(s, U)
<1>1. PICK e \in Seq(Nat) : T = s \o e
  BY Zenon DEF Prolongs
<1>2. PICK c \in Seq(Nat) : U = T \o c
  BY Zenon DEF Prolongs
<1>3. (s \o e) \o c = s \o (e \o c)
  BY ConcatTwice
<1>4. e \o c \in Seq(Nat)
  OBVIOUS
<1> QED
  BY <1>1, <1>2, <1>3, <1>4, Zenon DEF Prolongs

LEMMA KindCreate ==
  ASSUME NEW h, NEW q, NEW S, NEW rows, NEW r, NEW coll, Kind(h, q, S, rows, r, coll),
         NEW id, Arrives(id, rows), NEW u, u = Insert(id, rows)
  PROVE  Kind(h, q, S, u, r, coll)
<1>2. Grown(S, rows)
  BY DEF Kind
<1>3. Grown(S, u) /\ HadOf(h, S) \in Seq(Nat)
  <2>1. Grown(S, u)
    BY <1>2, CreateSplits
  <2>2. TargetOf(h, S, rows) \in Seq(Nat) /\ HadOf(h, S) \in Seq(Nat)
    BY <1>2, RowsAre
  <2> QED
    BY <2>1, <2>2
<1>4. ASSUME Undisturbed(S, u) PROVE Prolongs(HadOf(h, S), TargetOf(h, S, u))
  <2>1. Undisturbed(S, rows) /\ Prolongs(TargetOf(h, S, rows), TargetOf(h, S, u))
    BY <1>2, <1>4, CreateProlongs
  <2>2. Prolongs(HadOf(h, S), TargetOf(h, S, rows))
    BY <2>1 DEF Kind
  <2> QED
    BY <1>3, <2>1, <2>2, ProlongsTwice
<1> QED
  BY <1>3, <1>4 DEF Kind

LEMMA ForwardCreate ==
  ASSUME NEW h, NEW S, NEW rows, NEW r, NEW coll, Kind(h, "next", S, rows, r, coll),
         Placed(h, S), h # "no_total", NEW id, Arrives(id, rows), NEW u, u = Insert(id, rows),
         NEW sn, Forward(h, S, rows, r, sn, coll, "walking")
  PROVE  Forward(h, S, u, r, sn, coll, "walking")
<1>1. PICK l, d, T, c, o, had, U, lost, out :
        /\ l = LimitOf(h, S) /\ d = Criterion(S) /\ T = TargetOf(h, S, rows)
        /\ c = OffsetOf(h, r) /\ o = OffsetOf(h, S.req) /\ had = HadOf(h, S)
        /\ U = TargetOf(h, S, u) /\ lost = OutOf(h, rows) /\ out = OutOf(h, u)
  OBVIOUS
<1>2. /\ h \in Handlers /\ coll \in Seq(Nat) /\ Asking(h, l, d, S.req)
      /\ Grown(S, rows) /\ Asking(h, l, d, r)
      /\ c # ParamError /\ o # ParamError
  BY <1>1 DEF Kind, Placed
<1>3. c \in Nat /\ o \in Nat /\ T \in Seq(Nat) /\ had \in Seq(Nat)
  BY <1>1, <1>2, OffsetKnown, RowsAre
<1>4. AheadOf(had, U, o, c, coll, out)
  <2>1. PICK last \in BOOLEAN : Splits(T, U, out, last)
    BY <1>1, <1>2, CreateSplits
  <2>2. lost \subseteq out
    BY <1>1, <1>2, CreateSplits
  <2>3. AheadOf(had, T, o, c, coll, lost)
    BY <1>1 DEF Forward
  <2> QED
    BY <1>2, <1>3, <2>1, <2>2, <2>3, CreateAhead
<1>5. ASSUME Undisturbed(S, u) PROVE RunOf(U, o, coll) /\ AtOf(h, U, o, c, coll)
  <2>1. Undisturbed(S, rows) /\ Prolongs(T, U)
    BY <1>1, <1>2, <1>5, CreateProlongs
  <2>2. PICK e \in Seq(Nat) : U = T \o e
    BY <2>1, Zenon DEF Prolongs
  <2>3. RunOf(T, o, coll) /\ AtOf(h, T, o, c, coll)
    BY <1>1, <2>1 DEF Forward
  <2>4. RunOf(U, o, coll)
    BY <1>2, <1>3, <2>2, <2>3, CreateRuns
  <2>5. AtOf(h, U, o, c, coll)
    BY <2>3 DEF AtOf
  <2> QED
    BY <2>4, <2>5
<1> QED
  BY <1>1, <1>4, <1>5 DEF Forward

LEMMA BackwardCreate ==
  ASSUME NEW h, NEW S, NEW rows, NEW r, NEW coll, NEW out, Grown(S, rows),
         NEW id, Arrives(id, rows), NEW u, u = Insert(id, rows), Backward(h, S, rows, r, coll, out)
  PROVE  Backward(h, S, u, r, coll, out)
<1>1. Undisturbed(S, u) => Undisturbed(S, rows)
  BY CreateSplits
<1> QED
  BY <1>1 DEF Backward

(* A request that was made before is told from the next one.               *)
LEMMA NoLoop ==
  ASSUME NEW h, NEW S, NEW rows, NEW r, NEW coll, Kind(h, "next", S, rows, r, coll),
         NEW sn, Forward(h, S, rows, r, sn, coll, "walking")
  PROVE  Marker(r) \notin sn
<1>1. SUFFICES ASSUME Marker(r) \in sn PROVE FALSE
  OBVIOUS
<1>2. PICK e : /\ Asking(h, LimitOf(h, S), Criterion(S), e) /\ Marker(r) = Marker(e)
               /\ OffsetOf(h, e) \in Nat /\ OffsetOf(h, e) < OffsetOf(h, r)
  BY <1>1 DEF Forward
<1>3. Asking(h, LimitOf(h, S), Criterion(S), r) /\ h \in Handlers
  BY DEF Kind
<1>4. CASE h = "search_plants"
  <2>1. e.method = "POST" /\ r.method = "POST"
    BY <1>2, <1>3, <1>4 DEF Asking
  <2>2. r.body = e.body
    BY <1>2, <2>1 DEF Marker
  <2>3. OffsetOf(h, e) = OffsetOf(h, r)
    BY <1>4, <2>2 DEF OffsetOf
  <2> QED
    BY <1>2, <2>3
<1>5. CASE h # "search_plants"
  <2>1. e.method = "GET" /\ r.method = "GET"
    BY <1>2, <1>3, <1>5 DEF Asking
  <2>2. r.query = e.query
    BY <1>2, <2>1 DEF Marker
  <2>3. OffsetOf(h, e) = OffsetOf(h, r)
    BY <1>3, <1>5, <2>2 DEF OffsetOf, Handlers
  <2> QED
    BY <1>2, <2>3
<1> QED
  BY <1>4, <1>5

-----------------------------------------------------------------------------
(* The inductive invariant: the kind of the walk, and if its first request *)
(* is not refused, what a walk forward and one backward have come by.      *)
WalkInv ==
  /\ Kind(handler, rel, start, store, req, collected)
  /\ Placed(handler, start) /\ rel = "next" =>
       Forward(handler, start, store, req, seen, collected, outcome)
  /\ Placed(handler, start) /\ rel = "prev" =>
       Backward(handler, start, store, req, collected, outcome)

LEMMA StartIs ==
  ASSUME NEW h \in Handlers, NEW S, NEW r, r = S.req, r \in Starts(h)
  PROVE  LimitOf(h, S) \in Nat \ {0} /\ Asking(h, LimitOf(h, S), Criterion(S), r)
<1>1. 0 .. Rows + 1 \subseteq Nat /\ \A l \in Limits : l \in Nat \ {0}
  BY PagesAssumption
<1>2. CASE h = "search_plants"
  <2> DEFINE A == {Search([offset |-> o, limit |-> l]) : o \in 0 .. Rows + 1, l \in Limits}
             B == {Search([offset |-> o, limit |-> l, name |-> "even"]) : o \in 0 .. Rows + 1, l \in Limits}
  <2>1. Starts("search_plants") = A \cup B
    BY DEF Starts
  <2>2. CASE r \in A
    <3>1. PICK o \in 0 .. Rows + 1, l \in Limits : r = Search([offset |-> o, limit |-> l])
      BY <2>2
    <3> QED
      BY <1>1, <1>2, <3>1 DEF Search, Asking, LimitOf, Criterion
  <2>3. CASE r \in B
    <3>1. PICK o \in 0 .. Rows + 1, l \in Limits :
            r = Search([offset |-> o, limit |-> l, name |-> "even"])
      BY <2>3
    <3> QED
      BY <1>1, <1>2, <3>1 DEF Search, Asking, LimitOf, Criterion
  <2> HIDE DEF A, B
  <2> QED
    BY <1>2, <2>1, <2>2, <2>3
<1>3. CASE h = "list_plants"
  <2> DEFINE A == {Get([tag |-> Tag, limit |-> l]) : l \in Limits}
             B == {Get([tag |-> Tag, limit |-> l, cursor |-> c]) : l \in Limits, c \in Cursors}
  <2>1. Starts("list_plants") = A \cup B
    BY DEF Starts
  <2>2. CASE r \in A
    <3>1. PICK l \in Limits : r = Get([tag |-> Tag, limit |-> l])
      BY <2>2
    <3> QED
      BY <1>1, <1>3, <3>1 DEF Get, Asking, LimitOf, Criterion
  <2>3. CASE r \in B
    <3>1. PICK l \in Limits, c \in Cursors : r = Get([tag |-> Tag, limit |-> l, cursor |-> c])
      BY <2>3
    <3> QED
      BY <1>1, <1>3, <3>1 DEF Get, Asking, LimitOf, Criterion
  <2> HIDE DEF A, B
  <2> QED
    BY <1>3, <2>1, <2>2, <2>3
<1>4. CASE h \in {"list_beds", "no_total"}
  <2> DEFINE A == {Get([tag |-> Tag, limit |-> l, offset |-> o]) : l \in Limits, o \in 0 .. Rows + 1}
  <2>1. Starts(h) = A
    <3>1. h # "search_plants" /\ h # "list_plants"
      BY <1>4
    <3> HIDE DEF A
    <3>2. Starts(h) = {Get([tag |-> Tag, limit |-> l, offset |-> o]) : l \in Limits, o \in 0 .. Rows + 1}
      BY <3>1, SMTT(20) DEF Starts
    <3> QED
      BY <3>2 DEF A
  <2>2. r \in A
    <3> HIDE DEF A
    <3> QED
      BY <2>1
  <2>3. PICK l \in Limits, o \in 0 .. Rows + 1 : r = Get([tag |-> Tag, limit |-> l, offset |-> o])
    BY <2>2
  <2> QED
    BY <1>1, <1>4, <2>3 DEF Get, Asking, LimitOf, Criterion
<1> QED
  BY <1>2, <1>3, <1>4 DEF Handlers

LEMMA InitialStore == ASSUME Init PROVE store \in Seq(Nat) /\ Len(store) <= Rows
<1>1. PICK t \in Tenants(handler) : store \in Stores[t]
  BY DEF Init
<1>2. t \in {"public", "acme", "other"} /\ Seeds(t) \cup Ids \subseteq Nat
  BY PagesAssumption DEF Tenants, Seeds
<1>3. PICK Row : Row = Seeds(t) \cup Ids
  OBVIOUS
<1>4. store \in UNION {[1 .. n -> Row] : n \in 0 .. Rows}
  BY <1>1, <1>2, <1>3 DEF Stores
<1>5. PICK n \in 0 .. Rows : store \in [1 .. n -> Row]
  BY <1>4
<1>6. n \in Nat /\ n <= Rows /\ store \in [1 .. n -> Nat]
  BY <1>2, <1>3, <1>5, PagesAssumption
<1> QED
  BY <1>6

LEMMA InitWalk == Init => WalkInv
<1>1. SUFFICES ASSUME Init PROVE WalkInv
  OBVIOUS
<1>2. store \in Seq(Nat) /\ Len(store) <= Rows
  BY <1>1, InitialStore
<1>3. req \in Starts(handler) /\ start = [req |-> req, rows |-> store]
  BY <1>1 DEF Init
<1>4. PICK h, S, rows, r : h = handler /\ S = start /\ rows = store /\ r = req
  OBVIOUS
<1>5. /\ h \in Handlers /\ rel \in {"next", "prev"} /\ collected = << >> /\ seen = {}
      /\ outcome = "walking"
  BY <1>1, <1>4 DEF Init
<1>6. S.req = r /\ S.rows = rows
  BY <1>3, <1>4
<1>7. rows \in Seq(Nat) /\ Len(rows) <= Rows /\ Len(rows) \in Nat
  BY <1>2, <1>4
<1>8. LimitOf(h, S) \in Nat \ {0} /\ Asking(h, LimitOf(h, S), Criterion(S), r)
  BY <1>3, <1>4, <1>5, <1>6, StartIs
<1>9. Grown(S, rows)
  <2>1. \A i \in 1 .. Len(rows) : Has(rows, rows[i])
    BY <1>7 DEF Has
  <2> QED
    BY <1>6, <1>7, <2>1 DEF Grown
<1>10. Prolongs(HadOf(h, S), TargetOf(h, S, rows))
  <2>1. PICK had : had = HadOf(h, S)
    OBVIOUS
  <2>2. had \in Seq(Nat)
    BY <1>9, <2>1, RowsAre
  <2>3. TargetOf(h, S, rows) = had
    BY <1>6, <2>1 DEF TargetOf, HadOf
  <2>4. had = had \o << >> /\ << >> \in Seq(Nat)
    BY <2>2
  <2> QED
    BY <2>1, <2>3, <2>4, Zenon DEF Prolongs
<1>11. Kind(h, rel, S, rows, r, << >>)
  BY <1>5, <1>6, <1>8, <1>9, <1>10 DEF Kind, Placed
<1>12. PICK T, o, had : T = TargetOf(h, S, rows) /\ o = OffsetOf(h, r) /\ had = HadOf(h, S)
  OBVIOUS
<1>13. /\ o \in Nat \cup {ParamError} /\ T \in Seq(Nat) /\ had = T
  <2>1. o \in Nat \cup {ParamError}
    BY <1>5, <1>8, <1>12, OffsetKnown
  <2>2. T \in Seq(Nat)
    BY <1>9, <1>12, RowsAre
  <2>3. had = T
    BY <1>6, <1>12 DEF TargetOf, HadOf
  <2> QED
    BY <2>1, <2>2, <2>3
<1>14. ASSUME Placed(h, S) PROVE Forward(h, S, rows, r, {}, << >>, "walking")
  <2>1. o \in Nat
    <3>1. OffsetOf(h, S.req) # ParamError
      BY <1>14 DEF Placed
    <3> QED
      BY <1>6, <1>12, <1>13, <3>1
  <2>2. RunOf(T, o, << >>) /\ AtOf(h, T, o, o, << >>)
    BY <2>1 DEF RunOf, AtOf
  <2>3. AheadOf(had, T, o, o, << >>, OutOf(h, rows))
    BY <1>13, <2>1 DEF AheadOf
  <2> QED
    BY <1>6, <1>12, <2>2, <2>3 DEF Forward
<1>15. ASSUME Placed(h, S) PROVE Backward(h, S, rows, r, << >>, "walking")
  <2>1. o \in Nat
    <3>1. OffsetOf(h, S.req) # ParamError
      BY <1>15 DEF Placed
    <3> QED
      BY <1>6, <1>12, <1>13, <3>1
  <2>2. PICK l, m, end : /\ l = LimitOf(h, S) /\ l \in Nat
                        /\ m = Len(had) /\ m \in Nat /\ end = SmallOf(o + l, m)
    BY <1>8, <1>13
  <2>3. o + l + 1 .. end = {}
    BY <2>1, <2>2 DEF SmallOf
  <2> QED
    BY <1>6, <1>12, <2>2, <2>3 DEF Backward
<1> QED
  BY <1>4, <1>5, <1>6, <1>11, <1>14, <1>15 DEF WalkInv

LEMMA FetchStep == ASSUME WalkInv, Fetch PROVE WalkInv'
<1>1. PICK h, q, S, rows, r, coll, sn, page :
        /\ h = handler /\ q = rel /\ S = start /\ rows = store /\ r = req /\ coll = collected
        /\ sn = seen /\ page = Serve(h, r, rows)
  OBVIOUS
<1>2. PICK e, all, out : e = req' /\ all = collected' /\ out = outcome'
  OBVIOUS
<1>3. /\ handler' = h /\ rel' = q /\ start' = S /\ store' = rows /\ seen' = sn \cup {Marker(r)}
      /\ all = coll \o page.items /\ outcome = "walking"
  BY <1>1, <1>2 DEF Fetch
<1>4. Moved(page, q, r, e, out)
  <2> DEFINE served == Serve(handler, req, store)
             follow == {l.to : l \in {m \in served.links : m.rel = rel}}
  <2>1. /\ follow = {} => \A k \in served.links : k.rel # rel
        /\ \A x \in follow : \E k \in served.links : k.rel = rel /\ x = k.to
    OBVIOUS
  <2>2. \/ served.status # 200 /\ outcome' = "refused" /\ req' = req
        \/ served.status = 200 /\ follow = {} /\ outcome' = "done" /\ req' = req
        \/ served.status = 200 /\ req' \in follow /\ outcome' = outcome
    BY Zenon DEF Fetch
  <2>3. served = page
    BY <1>1
  <2> HIDE DEF follow, served
  <2>4. \/ page.status # 200 /\ out = "refused" /\ e = r
        \/ page.status = 200 /\ follow = {} /\ out = "done" /\ e = r
        \/ page.status = 200 /\ e \in follow /\ out = "walking"
    BY <1>1, <1>2, <1>3, <2>2, <2>3
  <2>5. /\ follow = {} => \A k \in page.links : k.rel # q
        /\ \A x \in follow : \E k \in page.links : k.rel = q /\ x = k.to
    BY <1>1, <2>1, <2>3
  <2> QED
    BY <2>4, <2>5 DEF Moved
<1>5. Kind(h, q, S, rows, r, coll) /\ q \in {"next", "prev"}
  BY <1>1 DEF WalkInv, Kind
<1>6. Kind(h, q, S, rows, e, all)
  <2>1. e = r \/ \E k \in page.links : k.rel = q /\ e = k.to
    BY <1>4 DEF Moved
  <2> QED
    BY <1>1, <1>3, <1>5, <2>1, KindFetch
<1>7. ASSUME Placed(h, S), q = "next"
      PROVE  Forward(h, S, rows, e, sn \cup {Marker(r)}, all, out)
  <2>1. Forward(h, S, rows, r, sn, coll, "walking")
    BY <1>1, <1>3, <1>7 DEF WalkInv
  <2> QED
    BY <1>1, <1>3, <1>4, <1>5, <1>7, <2>1, ForwardFetch
<1>8. ASSUME Placed(h, S), q = "prev" PROVE Backward(h, S, rows, e, all, out)
  <2>1. Backward(h, S, rows, r, coll, "walking")
    BY <1>1, <1>3, <1>8 DEF WalkInv
  <2> QED
    BY <1>1, <1>3, <1>4, <1>5, <1>8, <2>1, BackwardFetch
<1> QED
  BY <1>2, <1>3, <1>6, <1>7, <1>8 DEF WalkInv

LEMMA CreateStep == ASSUME WalkInv, CreatePlant PROVE WalkInv'
<1>1. PICK h, q, S, rows, r, coll, sn :
        /\ h = handler /\ q = rel /\ S = start /\ rows = store /\ r = req /\ coll = collected
        /\ sn = seen
  OBVIOUS
<1>2. /\ handler' = h /\ rel' = q /\ start' = S /\ req' = r
      /\ collected' = coll /\ seen' = sn /\ outcome = "walking" /\ outcome' = "walking"
      /\ h # "no_total" /\ Len(rows) < Rows
  BY <1>1 DEF CreatePlant
<1>3. Kind(h, q, S, rows, r, coll)
  BY <1>1 DEF WalkInv
<1>4. PICK u : u = store' /\ \E id \in Ids : Arrives(id, rows) /\ u = Insert(id, rows)
  <2>1. PICK id \in Ids : (\A i \in DOMAIN store : store[i] < id) /\ store' = Insert(id, store)
    BY DEF CreatePlant
  <2>2. rows \in Seq(Nat)
    BY <1>3 DEF Kind, Grown
  <2>3. \A i \in 1 .. Len(rows) : rows[i] < id
    BY <1>1, <2>1, <2>2
  <2>4. Arrives(id, rows)
    BY <1>2, <2>1, <2>3, PagesAssumption DEF Arrives
  <2> QED
    BY <1>1, <2>1, <2>4
<1>i. PICK id \in Ids : Arrives(id, rows) /\ u = Insert(id, rows)
  BY <1>4
<1>5. Kind(h, q, S, u, r, coll)
  BY <1>3, <1>i, KindCreate
<1>6. ASSUME Placed(h, S), q = "next" PROVE Forward(h, S, u, r, sn, coll, "walking")
  <2>1. Forward(h, S, rows, r, sn, coll, "walking")
    BY <1>1, <1>2, <1>6 DEF WalkInv
  <2> QED
    BY <1>2, <1>3, <1>i, <1>6, <2>1, ForwardCreate
<1>7. ASSUME Placed(h, S), q = "prev" PROVE Backward(h, S, u, r, coll, "walking")
  <2>1. Backward(h, S, rows, r, coll, "walking")
    BY <1>1, <1>2, <1>7 DEF WalkInv
  <2>2. Grown(S, rows)
    BY <1>3 DEF Kind
  <2> QED
    BY <1>i, <2>1, <2>2, BackwardCreate
<1> QED
  BY <1>2, <1>4, <1>5, <1>6, <1>7 DEF WalkInv

LEMMA StopStep == ASSUME WalkInv, Revisit \/ Runaway PROVE WalkInv'
<1>1. PICK h, q, S, rows, r, coll, sn, out :
        /\ h = handler /\ q = rel /\ S = start /\ rows = store /\ r = req /\ coll = collected
        /\ sn = seen /\ out = outcome'
  OBVIOUS
<1>2. /\ handler' = h /\ rel' = q /\ start' = S /\ store' = rows /\ req' = r
      /\ collected' = coll /\ seen' = sn /\ outcome = "walking"
      /\ (out = "loop" /\ Marker(r) \in sn) \/ out = "runaway"
  BY <1>1 DEF Revisit, Runaway, Stop
<1>3. Kind(h, q, S, rows, r, coll)
  BY <1>1 DEF WalkInv
<1>4. ASSUME Placed(h, S), q = "next" PROVE Forward(h, S, rows, r, sn, coll, out)
  <2>1. Forward(h, S, rows, r, sn, coll, "walking")
    BY <1>1, <1>2, <1>4 DEF WalkInv
  <2>2. out = "runaway"
    BY <1>2, <1>3, <1>4, <2>1, NoLoop
  <2> QED
    BY <2>1, <2>2 DEF Forward
<1>5. ASSUME Placed(h, S), q = "prev" PROVE Backward(h, S, rows, r, coll, out)
  BY <1>2 DEF Backward
<1> QED
  BY <1>1, <1>2, <1>3, <1>4, <1>5 DEF WalkInv

LEMMA NextWalk == ASSUME WalkInv, [Next]_vars PROVE WalkInv'
<1>1. CASE CreatePlant
  BY <1>1, CreateStep
<1>2. CASE Revisit \/ Runaway
  BY <1>2, StopStep
<1>3. CASE Fetch
  BY <1>3, FetchStep
<1>4. CASE UNCHANGED vars
  BY <1>4 DEF vars, WalkInv
<1> QED
  BY <1>1, <1>2, <1>3, <1>4 DEF Next, Over

THEOREM WalkInvariant == Spec => []WalkInv
<1>1. Init => WalkInv
  BY InitWalk
<1>2. WalkInv /\ [Next]_vars => WalkInv'
  BY NextWalk
<1> QED
  BY <1>1, <1>2, PTL DEF Spec

(* The state predicates of Pagination, said of the rigid parts.            *)
LEMMA WalkNames ==
  /\ \A r : Offset(r) = OffsetOf(handler, r)
  /\ Limit = LimitOf(handler, start) /\ Target = TargetOf(handler, start, store)
  /\ Had = HadOf(handler, start) /\ OutOfReach = OutOf(handler, store)
  /\ \A x : x \in Collected <=> Has(collected, x)
<1>1. \A r : Offset(r) = OffsetOf(handler, r)
  BY DEF Offset, OffsetOf
<1>2. Limit = LimitOf(handler, start)
  BY DEF Limit, LimitOf
<1>3. Target = TargetOf(handler, start, store) /\ Had = HadOf(handler, start)
  BY DEF Target, TargetOf, Had, HadOf
<1>4. \A x : x \in Collected <=> Has(collected, x)
  BY DEF Collected, Has
<1>5. OutOfReach = OutOf(handler, store)
  BY DEF OutOfReach, OutOf
<1> QED
  BY <1>1, <1>2, <1>3, <1>4, <1>5

LEMMA WalkUndisturbed ==
  ASSUME WalkInv, NewRowsWentLast PROVE Undisturbed(start, store)
<1>1. PICK S, rows : S = start /\ rows = store
  OBVIOUS
<1>2. Grown(S, rows)
  BY <1>1 DEF WalkInv, Kind
<1>3. /\ SubSeq(rows, 1, Len(S.rows)) = S.rows
      /\ \A j \in Len(S.rows) + 1 .. Len(rows) - 1 : rows[j] < rows[j + 1]
  BY <1>1 DEF NewRowsWentLast
<1>4. PICK n \in Nat : n = Len(S.rows)
  BY <1>2 DEF Grown
<1>5. rows \in Seq(Nat) /\ n <= Len(rows)
  BY <1>2, <1>4 DEF Grown
<1>6. \A i \in 1 .. n : SubSeq(rows, 1, n)[i] = rows[i]
  BY <1>5
<1> QED
  BY <1>1, <1>3, <1>4, <1>6 DEF Undisturbed

(* A walk forward is not taken for a loop, comes by a run of the matching  *)
(* rows while new rows go last, and in the end has all there were but      *)
(* those that are past the cap of the search by then.                      *)
THEOREM NextWalks == Spec => []NextWalkTakesEachRowOnce
<1>1. WalkInv => NextWalkTakesEachRowOnce
  <2>1. SUFFICES ASSUME WalkInv, rel = "next", Offset(start.req) # ParamError
                 PROVE  LET o == Offset(start.req) IN
                        /\ outcome \notin {"loop", "refused"}
                        /\ NewRowsWentLast => collected = SubSeq(Target, o + 1, o + Len(collected))
                        /\ outcome = "done" =>
                             \A i \in o + 1 .. Len(Had) : Had[i] \in Collected \cup OutOfReach
    BY DEF NextWalkTakesEachRowOnce
  <2>2. PICK h, S, rows, T, had, o :
          /\ h = handler /\ S = start /\ rows = store
          /\ T = TargetOf(h, S, rows) /\ had = HadOf(h, S) /\ o = OffsetOf(h, S.req)
    OBVIOUS
  <2>3. /\ Offset(start.req) = o /\ Target = T /\ Had = had /\ OutOfReach = OutOf(h, rows)
        /\ \A x : x \in Collected <=> Has(collected, x)
    BY <2>2, WalkNames
  <2>4. Placed(h, S)
    BY <2>1, <2>2, <2>3 DEF Placed
  <2>5. Forward(h, S, rows, req, seen, collected, outcome) /\ Kind(h, "next", S, rows, req, collected)
    BY <2>1, <2>2, <2>4 DEF WalkInv
  <2>6. o \in Nat /\ T \in Seq(Nat) /\ collected \in Seq(Nat)
    <3>1. /\ h \in Handlers /\ Asking(h, LimitOf(h, S), Criterion(S), S.req) /\ o # ParamError
          /\ Grown(S, rows) /\ collected \in Seq(Nat)
      BY <2>2, <2>4, <2>5 DEF Kind, Placed
    <3>2. o \in Nat
      BY <2>2, <3>1, OffsetKnown
    <3>3. T \in Seq(Nat)
      BY <2>2, <3>1, RowsAre
    <3> QED
      BY <3>1, <3>2, <3>3
  <2>7. ASSUME NewRowsWentLast PROVE collected = SubSeq(T, o + 1, o + Len(collected))
    <3>1. Undisturbed(S, rows)
      BY <2>1, <2>2, <2>7, WalkUndisturbed
    <3>2. RunOf(T, o, collected)
      BY <2>2, <2>5, <3>1 DEF Forward
    <3> QED
      BY <2>6, <3>2, RunIs
  <2>8. outcome \notin {"loop", "refused"}
    BY <2>5 DEF Forward
  <2>9. outcome = "done" =>
          \A i \in o + 1 .. Len(had) : Has(collected, had[i]) \/ had[i] \in OutOf(h, rows)
    BY <2>2, <2>5 DEF Forward
  <2> QED
    BY <2>3, <2>7, <2>8, <2>9
<1> QED
  BY <1>1, WalkInvariant, PTL

(* A walk back that is done has come by all there was before the end of    *)
(* its first page.                                                         *)
THEOREM PrevWalks == Spec => []PrevWalkReachesTheFirstRow
<1>1. WalkInv => PrevWalkReachesTheFirstRow
  <2>1. SUFFICES ASSUME WalkInv, rel = "prev", outcome = "done", Offset(start.req) # ParamError,
                        NewRowsWentLast
                 PROVE  \A i \in 1 .. SmallOf(Offset(start.req) + Limit, Len(Had)) : Had[i] \in Collected
    BY DEF PrevWalkReachesTheFirstRow
  <2>2. PICK h, S, rows, had, o, l :
          /\ h = handler /\ S = start /\ rows = store
          /\ had = HadOf(h, S) /\ o = OffsetOf(h, S.req) /\ l = LimitOf(h, S)
    OBVIOUS
  <2>3. /\ Offset(start.req) = o /\ Limit = l /\ Had = had
        /\ \A x : x \in Collected <=> Has(collected, x)
    BY <2>2, WalkNames
  <2>4. Placed(h, S) /\ Undisturbed(S, rows)
    BY <2>1, <2>2, <2>3, WalkUndisturbed DEF Placed
  <2>5. Backward(h, S, rows, req, collected, "done")
    BY <2>1, <2>2, <2>4 DEF WalkInv
  <2>6. \A i \in 1 .. SmallOf(o + l, Len(had)) : Has(collected, had[i])
    BY <2>2, <2>4, <2>5 DEF Backward
  <2> QED
    BY <2>3, <2>6
<1> QED
  BY <1>1, WalkInvariant, PTL

(* The last link of any page leads to one with the last row and no next.   *)
THEOREM LastLinks == Spec => []LastLinkEndsTheCollection
<1>1. WalkInv => LastLinkEndsTheCollection
  <2>1. SUFFICES ASSUME WalkInv, NEW k \in Serve(handler, req, store).links, k.rel = "last"
                 PROVE  LET page == Serve(handler, k.to, store) IN
                        /\ Target # << >> => /\ page.items # << >>
                                             /\ page.items[Len(page.items)] = Target[Len(Target)]
                        /\ \A m \in page.links : m.rel # "next"
    BY DEF LastLinkEndsTheCollection
  <2>2. PICK h, S, rows, r, T, l, d, page, last :
          /\ h = handler /\ S = start /\ rows = store /\ r = req
          /\ T = TargetOf(h, S, rows) /\ l = LimitOf(h, S) /\ d = Criterion(S)
          /\ page = Serve(h, k.to, rows) /\ last = LastPageOffset(Len(T), l)
    OBVIOUS
  <2>3. Target = T /\ Kind(h, rel, S, rows, r, collected)
    BY <2>1, <2>2, WalkNames DEF WalkInv
  <2>4. /\ l \in Nat \ {0} /\ Asking(h, l, d, r) /\ h \in Handlers
        /\ Grown(S, rows)
    BY <2>2, <2>3 DEF Kind
  <2>5. T \in Seq(Nat)
    BY <2>2, <2>4, RowsAre
  <2>6. /\ last \in Nat /\ Len(T) \in Nat /\ last # ParamError
        /\ (Len(T) > 0 => last < Len(T)) /\ last + l >= Len(T)
    <3>1. Len(T) \in Nat
      BY <2>5
    <3> QED
      BY <2>2, <2>4, <3>1, LastPage, TokenAssumption
  <2>7. OffsetOf(h, r) # ParamError
    <3>1. SUFFICES ASSUME OffsetOf(h, r) = ParamError PROVE FALSE
      OBVIOUS
    <3>2. Serve(h, r, rows) = Refusal
      BY <2>2, <2>3, <2>4, <3>1, ServedTo
    <3> QED
      BY <2>1, <2>2, <3>2 DEF Refusal
  <2>8. Asking(h, l, d, k.to) /\ OffsetOf(h, k.to) = last /\ h # "no_total"
    <3>1. PageOf(h, l, d, T, OffsetOf(h, r), Serve(h, r, rows))
      BY <2>2, <2>3, <2>4, <2>7, ServedTo
    <3>2. k \in Serve(h, r, rows).links /\ k.rel = "last"
      BY <2>1, <2>2
    <3> QED
      BY <2>2, <3>1, <3>2 DEF PageOf
  <2>9. PageOf(h, l, d, T, last, page)
    BY <2>2, <2>3, <2>4, <2>6, <2>8, ServedTo
  <2>10. ASSUME NEW m \in page.links, m.rel = "next" PROVE FALSE
    <3>1. last + l < Len(T)
      BY <2>8, <2>9, <2>10 DEF PageOf
    <3> QED
      BY <2>4, <2>6, <3>1
  <2>11. ASSUME T # << >> PROVE page.items # << >> /\ page.items[Len(page.items)] = T[Len(T)]
    <3>1. PICK items, n, w : items = PageAt(T, last, l) /\ n = Len(T) /\ w = SmallOf(last + l, n)
      OBVIOUS
    <3>2. n \in Nat /\ n > 0 /\ last < n /\ w = n
      BY <2>4, <2>5, <2>6, <2>11, <3>1 DEF SmallOf
    <3>3. /\ items \in Seq(Nat) /\ Len(items) = IF last >= n THEN 0 ELSE w - last
          /\ \A i \in 1 .. Len(items) : items[i] = T[last + i]
      BY <2>4, <2>5, <2>6, <3>1, PageIs
    <3>4. Len(items) = n - last /\ Len(items) \in 1 .. Len(items) /\ last + Len(items) = n
      BY <2>6, <3>2, <3>3
    <3>5. items # << >> /\ items[Len(items)] = T[n]
      BY <3>3, <3>4
    <3>6. page.items = items
      BY <2>9, <3>1 DEF PageOf
    <3> QED
      BY <3>1, <3>5, <3>6
  <2> QED
    BY <2>2, <2>3, <2>10, <2>11
<1> QED
  BY <1>1, WalkInvariant, PTL
=============================================================================
