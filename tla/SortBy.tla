-------------------------------- MODULE SortBy --------------------------------
(***************************************************************************)
(* gazebo.filtering.models: a sortby value is parsed into terms and items  *)
(* are sorted by them, one stable sort a term, the least significant term  *)
(* first.  The list is represented by the order of its items: the pairs of *)
(* places <<i, j>> of the input such that item i now stands before item j. *)
(***************************************************************************)
EXTENDS Integers, Sequences, FiniteSets

CONSTANTS
  Fields,      \* names that a term may give
  Null,        \* a missing or null value
  None         \* no field name in a term; no allow-list

VARIABLES
  item,        \* the items: at each place, the value under each field
  raw,         \* the raw value: its terms [sign, field]
  sortables,   \* the allow-list
  terms,       \* the parsed terms [field, desc]
  left,        \* terms not yet sorted by, those at 1..left
  before,
  phase        \* parsing, sorting, sorted or ParamError

input == <<item, raw, sortables>>
vars == <<input, terms, left, before, phase>>

Items == DOMAIN item
Records == [Fields -> {Null} \cup Int]
RawTerms == [sign : {"+", "-"}, field : Fields \cup {None}]

-----------------------------------------------------------------------------
(* A term is refused when it is empty or names no field, repeats a field   *)
(* or names one that is not in the allow-list.                             *)
GoodTerm(k) ==
  /\ raw[k].field # None
  /\ \A j \in 1 .. k - 1 : raw[j].field # raw[k].field
  /\ sortables # None => raw[k].field \in sortables
Parsed == [k \in DOMAIN raw |-> [field |-> raw[k].field, desc |-> raw[k].sign = "-"]]

Parse ==
  /\ phase = "parsing" /\ \A k \in DOMAIN raw : GoodTerm(k)
  /\ terms' = Parsed /\ left' = Len(raw)
  /\ phase' = "sorting"
  /\ UNCHANGED <<input, before>>

ParseRaises ==
  /\ phase = "parsing" /\ \E k \in DOMAIN raw : ~GoodTerm(k)
  /\ phase' = "ParamError"
  /\ UNCHANGED <<input, terms, left, before>>

(* The key of a null is a sentinel above every value.                      *)
KeyLess(v, w) == v # Null /\ (w = Null \/ v < w)
Precedes(t, i, j) ==
  LET v == item[i][t.field]  w == item[j][t.field]
  IN IF t.desc THEN KeyLess(w, v) ELSE KeyLess(v, w)
Ties(t, i, j) == item[i][t.field] = item[j][t.field]

(* A stable sort: by key, and as they stood where the keys are equal; with *)
(* reverse=True too (the mutant sorts and turns the list round instead).   *)
StableSortReversingTies(t) ==
  {p \in Items \X Items : Precedes(t, p[1], p[2])
     \/ (Ties(t, p[1], p[2]) /\ IF t.desc THEN <<p[2], p[1]>> \in before ELSE p \in before)}
StableSort(t) ==
  {p \in Items \X Items : Precedes(t, p[1], p[2]) \/ (Ties(t, p[1], p[2]) /\ p \in before)}

Apply ==
  /\ phase = "sorting" /\ left > 0
  /\ before' = StableSort(terms[left])
  /\ left' = left - 1
  /\ UNCHANGED <<input, terms, phase>>

Return ==
  /\ phase = "sorting" /\ left = 0
  /\ phase' = "sorted"
  /\ UNCHANGED <<input, terms, left, before>>

Init ==
  /\ item \in Seq(Records)
  /\ raw \in Seq(RawTerms)
  /\ sortables \in SUBSET Fields \cup {None}
  /\ terms = << >> /\ left = 0
  /\ before = {p \in Items \X Items : p[1] < p[2]}
  /\ phase = "parsing"

Next == Parse \/ ParseRaises \/ Apply \/ Return

Spec == Init /\ [][Next]_vars

-----------------------------------------------------------------------------
TypeOK ==
  /\ item \in Seq(Records) /\ raw \in Seq(RawTerms)
  /\ terms \in Seq([field : Fields, desc : BOOLEAN])
  /\ left \in 0 .. Len(terms)
  /\ before \subseteq Items \X Items

(* The reference: i belongs before j when the first of the terms from m on *)
(* that tells them apart says so, or none does and i came first.           *)
Belongs(m, i, j) ==
  \/ \E k \in m .. Len(terms) :
       /\ Precedes(terms[k], i, j)
       /\ \A h \in m .. Len(terms) : h < k => Ties(terms[h], i, j)
  \/ (\A k \in m .. Len(terms) : Ties(terms[k], i, j)) /\ i < j

StrictTotalOrder(R) ==
  /\ \A i, j \in Items : i # j => (<<i, j>> \in R \/ <<j, i>> \in R)
  /\ \A i, j \in Items : <<i, j>> \in R => <<j, i>> \notin R
  /\ \A i, j, k \in Items : <<i, j>> \in R /\ <<j, k>> \in R => <<i, k>> \in R

(* The items end up in the lexicographic order of the terms, nulls last    *)
(* ascending and first descending, equal items as they came, and at every  *)
(* step the list still holds each item once.                               *)
SortIsLexicographic ==
  /\ StrictTotalOrder(before)
  /\ phase = "sorted" => before = {p \in Items \X Items : Belongs(1, p[1], p[2])}
=============================================================================
