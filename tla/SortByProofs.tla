----------------------------- MODULE SortByProofs -----------------------------
(***************************************************************************)
(* Proofs about SortBy: for any list of items, any number of terms and any *)
(* allow-list, one stable sort a term gives the lexicographic order.       *)
(***************************************************************************)
EXTENDS SortBy, SequenceTheorems, TLAPS

Terms == [field : Fields, desc : BOOLEAN]

(* What is sorted by so far: the terms after the first `left`.             *)
Ordered(m) == {p \in Items \X Items : Belongs(m, p[1], p[2])}

OrderInv ==
  /\ phase \in {"parsing", "sorting", "sorted", "ParamError"}
  /\ phase = "parsing" => terms = << >>
  /\ phase \in {"parsing", "sorted"} => left = 0
  /\ before = Ordered(left + 1)
  /\ StrictTotalOrder(before)

IInv == TypeOK /\ OrderInv

(* The keys are compared as one would expect of a total order with ties.   *)
LEMMA KeysAreOrdered ==
  ASSUME TypeOK, NEW t \in Terms, NEW i \in Items, NEW j \in Items, NEW k \in Items
  PROVE  /\ Precedes(t, i, j) \/ Precedes(t, j, i) \/ Ties(t, i, j)
         /\ Precedes(t, i, j) => ~Precedes(t, j, i) /\ ~Ties(t, i, j)
         /\ Ties(t, i, j) => Ties(t, j, i)
         /\ Precedes(t, i, j) /\ Precedes(t, j, k) => Precedes(t, i, k)
         /\ Precedes(t, i, j) /\ Ties(t, j, k) => Precedes(t, i, k)
         /\ Ties(t, i, j) /\ Precedes(t, j, k) => Precedes(t, i, k)
         /\ Ties(t, i, j) /\ Ties(t, j, k) => Ties(t, i, k)
<1> DEFINE u == item[i][t.field]
           v == item[j][t.field]
           w == item[k][t.field]
<1>1. u \in {Null} \cup Int /\ v \in {Null} \cup Int /\ w \in {Null} \cup Int
  <2>1. item[i] \in Records /\ item[j] \in Records /\ item[k] \in Records
    BY DEF TypeOK, Items
  <2>2. t.field \in Fields
    BY DEF Terms
  <2> QED
    BY <2>1, <2>2 DEF Records
<1>2. /\ Precedes(t, i, j) <=> IF t.desc THEN KeyLess(v, u) ELSE KeyLess(u, v)
      /\ Precedes(t, j, i) <=> IF t.desc THEN KeyLess(u, v) ELSE KeyLess(v, u)
      /\ Precedes(t, j, k) <=> IF t.desc THEN KeyLess(w, v) ELSE KeyLess(v, w)
      /\ Precedes(t, i, k) <=> IF t.desc THEN KeyLess(w, u) ELSE KeyLess(u, w)
      /\ Ties(t, i, j) <=> u = v
      /\ Ties(t, j, i) <=> v = u
      /\ Ties(t, j, k) <=> v = w
      /\ Ties(t, i, k) <=> u = w
  BY DEF Precedes, Ties
<1> HIDE DEF u, v, w
<1>3. ASSUME NEW x \in {Null} \cup Int, NEW y \in {Null} \cup Int, NEW z \in {Null} \cup Int
      PROVE  /\ KeyLess(x, y) \/ KeyLess(y, x) \/ x = y
             /\ KeyLess(x, y) => ~KeyLess(y, x) /\ x # y
             /\ KeyLess(x, y) /\ KeyLess(y, z) => KeyLess(x, z)
  BY DEF KeyLess
<1> QED
  BY <1>1, <1>2, <1>3

(* A stable sort by any term keeps every item once, in a total order.      *)
LEMMA StableSortKeepsTotal ==
  ASSUME TypeOK, StrictTotalOrder(before), NEW t \in Terms
  PROVE  StrictTotalOrder(StableSort(t)) /\ StableSort(t) \subseteq Items \X Items
<1> DEFINE R == StableSort(t)
<1>1. \A i, j \in Items : <<i, j>> \in R <=>
        (Precedes(t, i, j) \/ (Ties(t, i, j) /\ <<i, j>> \in before))
  BY DEF StableSort
<1> HIDE DEF R
<1>2. ASSUME NEW i \in Items, NEW j \in Items, i # j PROVE <<i, j>> \in R \/ <<j, i>> \in R
  BY <1>1, <1>2, KeysAreOrdered DEF StrictTotalOrder
<1>3. ASSUME NEW i \in Items, NEW j \in Items, <<i, j>> \in R PROVE <<j, i>> \notin R
  BY <1>1, <1>3, KeysAreOrdered DEF StrictTotalOrder
<1>4. ASSUME NEW i \in Items, NEW j \in Items, NEW k \in Items, <<i, j>> \in R, <<j, k>> \in R
      PROVE  <<i, k>> \in R
  BY <1>1, <1>4, KeysAreOrdered DEF StrictTotalOrder
<1>5. R \subseteq Items \X Items
  BY DEF R, StableSort
<1> QED
  BY <1>2, <1>3, <1>4, <1>5 DEF StrictTotalOrder, R

(* Sorting by one more significant term.                                   *)
LEMMA OneMoreTerm ==
  ASSUME TypeOK, left > 0, before = Ordered(left + 1)
  PROVE  StableSort(terms[left]) = Ordered(left)
<1>1. left \in 1 .. Len(terms) /\ Len(terms) \in Nat
  BY DEF TypeOK
<1>2. ASSUME NEW i \in Items, NEW j \in Items
      PROVE  Belongs(left, i, j) <=>
               (Precedes(terms[left], i, j) \/ (Ties(terms[left], i, j) /\ Belongs(left + 1, i, j)))
  <2> DEFINE P(k) == Precedes(terms[k], i, j)
             T(k) == Ties(terms[k], i, j)
  <2>1. Belongs(left, i, j) <=>
          \/ \E k \in left .. Len(terms) : P(k) /\ \A h \in left .. Len(terms) : h < k => T(h)
          \/ (\A k \in left .. Len(terms) : T(k)) /\ i < j
    BY DEF Belongs
  <2>2. Belongs(left + 1, i, j) <=>
          \/ \E k \in left + 1 .. Len(terms) : P(k) /\ \A h \in left + 1 .. Len(terms) : h < k => T(h)
          \/ (\A k \in left + 1 .. Len(terms) : T(k)) /\ i < j
    BY DEF Belongs
  <2>3. left .. Len(terms) = {left} \cup (left + 1 .. Len(terms))
    BY <1>1
  <2> HIDE DEF P, T
  <2>4. (\E k \in left .. Len(terms) : P(k) /\ \A h \in left .. Len(terms) : h < k => T(h))
          <=> \/ P(left)
              \/ T(left) /\ \E k \in left + 1 .. Len(terms) :
                              P(k) /\ \A h \in left + 1 .. Len(terms) : h < k => T(h)
    BY <1>1
  <2>5. (\A k \in left .. Len(terms) : T(k)) <=> T(left) /\ \A k \in left + 1 .. Len(terms) : T(k)
    BY <2>3
  <2> QED
    BY <2>1, <2>2, <2>4, <2>5 DEF P, T
<1>3. \A p \in Items \X Items : p \in StableSort(terms[left]) <=> p \in Ordered(left)
  BY <1>2 DEF StableSort, Ordered
<1> QED
  BY <1>3 DEF StableSort, Ordered

LEMMA InitInv == Init => IInv
<1> SUFFICES ASSUME Init PROVE IInv
  OBVIOUS
<1>1. DOMAIN item \subseteq Int
  BY DEF Init
<1>2. TypeOK
  BY DEF Init, TypeOK, Items
<1>3. Len(terms) = 0 /\ left = 0
  BY DEF Init
<1>4. before = Ordered(left + 1)
  BY <1>1, <1>3 DEF Init, Ordered, Belongs, Items
<1>5. StrictTotalOrder(before)
  BY <1>1 DEF Init, StrictTotalOrder, Items
<1> QED
  BY <1>2, <1>4, <1>5 DEF IInv, OrderInv, Init

LEMMA ParseKeeps == IInv /\ Parse => IInv'
<1> SUFFICES ASSUME IInv, Parse PROVE IInv'
  OBVIOUS
<1>1. raw \in Seq(RawTerms) /\ DOMAIN raw = 1 .. Len(raw) /\ Len(raw) \in Nat
  BY DEF IInv, TypeOK
<1>2. ASSUME NEW k \in DOMAIN raw
      PROVE  [field |-> raw[k].field, desc |-> raw[k].sign = "-"] \in Terms
  <2>1. raw[k] \in RawTerms
    BY <1>1
  <2>2. raw[k].field \in Fields
    BY <2>1 DEF Parse, GoodTerm, RawTerms
  <2> QED
    BY <2>2 DEF Terms
<1>3. Parsed \in [1 .. Len(raw) -> Terms]
  BY <1>1, <1>2 DEF Parsed
<1>4. Parsed \in Seq(Terms) /\ Len(Parsed) = Len(raw)
  BY <1>1, <1>3
<1>5. TypeOK'
  BY <1>1, <1>4 DEF IInv, TypeOK, Parse, Terms, input, Items
<1>6. before = {p \in Items \X Items : p[1] < p[2]}
  <2>1. left = 0 /\ Len(terms) = 0
    BY DEF IInv, OrderInv, Parse
  <2> QED
    BY <2>1 DEF IInv, OrderInv, Ordered, Belongs
<1>7. Items' = Items /\ before' = before /\ left' = Len(terms') /\ Len(terms') \in Nat
  BY <1>1, <1>4 DEF Parse, input, Items
<1>8. \A i, j : Belongs(left + 1, i, j)' <=> i < j
  BY <1>7 DEF Belongs
<1>9. Ordered(left + 1)' = {p \in Items \X Items : p[1] < p[2]}
  BY <1>7, <1>8 DEF Ordered
<1> QED
  BY <1>5, <1>6, <1>7, <1>9 DEF IInv, OrderInv, Parse, StrictTotalOrder

LEMMA ApplyKeeps == IInv /\ Apply => IInv'
<1> SUFFICES ASSUME IInv, Apply PROVE IInv'
  OBVIOUS
<1>1. left \in 1 .. Len(terms) /\ terms[left] \in Terms
  <2>1. terms \in Seq(Terms) /\ left \in 0 .. Len(terms) /\ left > 0
    BY DEF IInv, TypeOK, Apply, Terms
  <2> QED
    BY <2>1
<1>2. before' = Ordered(left) /\ StrictTotalOrder(before') /\ before' \subseteq Items \X Items
  BY <1>1, OneMoreTerm, StableSortKeepsTotal DEF IInv, OrderInv, Apply
<1>3. left' + 1 = left /\ UNCHANGED <<item, raw, terms, phase>> /\ Items' = Items
  BY <1>1 DEF Apply, input, Items
<1>4. Ordered(left + 1)' = Ordered(left)
  BY <1>3 DEF Ordered, Belongs, Precedes, Ties
<1>5. TypeOK'
  BY <1>1, <1>2, <1>3 DEF IInv, TypeOK, Apply
<1> QED
  BY <1>2, <1>3, <1>4, <1>5 DEF IInv, OrderInv, Apply, StrictTotalOrder

LEMMA OtherKeeps ==
  ASSUME IInv, ParseRaises \/ Return \/ UNCHANGED vars
  PROVE  IInv'
<1>1. /\ UNCHANGED <<item, raw, terms, left, before>> /\ Items' = Items
      /\ phase' \in {"sorted", "ParamError", phase}
      /\ phase' = "sorted" => left = 0
      /\ phase' = "parsing" => phase = "parsing"
  BY DEF ParseRaises, Return, vars, input, Items, IInv, OrderInv
<1>2. Ordered(left + 1)' = Ordered(left + 1)
  BY <1>1 DEF Ordered, Belongs, Precedes, Ties
<1> QED
  BY <1>1, <1>2 DEF IInv, TypeOK, OrderInv, StrictTotalOrder

(* The invariant: at each step the list is sorted by the terms from left+1 *)
(* on, the earlier of equal items first.                                   *)
THEOREM Invariant == Spec => []IInv
<1>1. IInv /\ [Next]_vars => IInv'
  BY ParseKeeps, ApplyKeeps, OtherKeeps DEF Next
<1> QED
  BY <1>1, InitInv, PTL DEF Spec

(* The items end up in the lexicographic order of the terms, whatever they *)
(* are and however many, and the list never loses or repeats one.          *)
THEOREM SortedLexicographically == Spec => []SortIsLexicographic
<1>1. IInv => SortIsLexicographic
  BY DEF IInv, OrderInv, Ordered, SortIsLexicographic
<1> QED
  BY <1>1, Invariant, PTL
=============================================================================
