---------------------------- MODULE GraphCheckProofs ----------------------------
(***************************************************************************)
(* Every wiring, any number of keys, scopes and parameters: a container    *)
(* that accepts its graph has an acyclic one, whose dependencies all point *)
(* to the same scope or outward, and it calls no other graph circular.     *)
(* Every graph to walk, cyclic and dangling ones included: when the        *)
(* worklist is empty, the targets are the app-scoped keys that the entry   *)
(* types reach.                                                            *)
(***************************************************************************)
EXTENDS MCGraphCheck, SequenceTheorems, TLAPS

Members(s) == {s[i] : i \in DOMAIN s}
Distinct(s) == \A i, j \in 1..Len(s) : s[i] = s[j] => i = j

(* Key k has looked, in its visit, at a parameter that is bound to d. *)
Looked(k, d) ==
  \E j \in DOMAIN deps[k] : j < next[k] /\ deps[k][j].on = d

(* The loop of check: what it has passed over is good. *)
CheckInv ==
  /\ verdict = "merging" => path = <<>> /\ done = {}
  /\ verdict \notin {"merging", "KeyError"} =>
       \A k \in Bound \ unchecked : GoodKey(k)

(* The path goes along dependencies and never meets itself; what its keys  *)
(* have looked at is done, or is being visited just above.                 *)
PathInv ==
  /\ Distinct(path) /\ done \cap visiting = {}
  /\ \A k \in Keys \ (visiting \cup done) : next[k] = 1
  /\ \A i \in 1..(Len(path) - 1) :
       \E j \in DOMAIN deps[path[i]] : deps[path[i]][j].on = path[i + 1]
  /\ \A i \in 1..Len(path) : \A d \in Bound : Looked(path[i], d) =>
       d \in done \/ (i < Len(path) /\ d = path[i + 1])

(* What is done depends on done keys only, and without a cycle. *)
DoneInv ==
  /\ \A k \in done : \A i \in DOMAIN deps[k] :
       deps[k][i].on \in Bound => deps[k][i].on \in done
  /\ Acyclic(done)

VerdictInv ==
  /\ verdict = "accepted" => done = Bound /\ unchecked = {}
  /\ verdict = "CircularDependencyError" => ~Acyclic(Bound)

IInv == TypeOK /\ CheckInv /\ PathInv /\ DoneInv /\ VerdictInv

-----------------------------------------------------------------------------
LEMMA RecipeIsSeq ==
  ASSUME NEW r \in Recipes
  PROVE  /\ r \in Seq(Param) /\ Len(r) \in 0..MaxParams
         /\ DOMAIN r = 1..Len(r)
<1>1. PICK n \in 0..MaxParams : r \in [1..n -> Params]
  BY DEF Recipes
<1>2. r \in [1..n -> Param] /\ n \in Nat
  BY <1>1, WiringAssumption
<1>3. r \in Seq(Param)
  BY <1>2, IsASeq
<1>4. Len(r) = n /\ DOMAIN r = 1..n
  BY <1>2, <1>3, LenProperties
<1> QED
  BY <1>1, <1>3, <1>4

LEMMA PathFacts ==
  ASSUME TypeOK
  PROVE  /\ path \in Seq(Bound) /\ Len(path) \in Nat
         /\ DOMAIN path = 1..Len(path)
         /\ visiting = Members(path)
         /\ \A i \in 1..Len(path) : path[i] \in visiting /\ path[i] \in Bound
<1>1. path \in Seq(Bound) /\ visiting = Members(path)
  BY DEF TypeOK, Members
<1>2. Len(path) \in Nat /\ DOMAIN path = 1..Len(path)
  BY <1>1, LenProperties
<1> QED
  BY <1>1, <1>2, ElementOfSeq DEF Members

(* The key being visited, and the parameter it looks at.                   *)
LEMMA HereFacts ==
  ASSUME TypeOK, path # <<>>
  PROVE  /\ Len(path) \in Nat \ {0} /\ Here = path[Len(path)]
         /\ Here \in visiting /\ Here \in Bound /\ Here \in Keys
         /\ deps[Here] \in Seq(Param) /\ Len(deps[Here]) \in 0..MaxParams
         /\ DOMAIN deps[Here] = 1..Len(deps[Here])
         /\ next[Here] \in Nat \ {0}
         /\ AtParam => next[Here] \in DOMAIN deps[Here]
<1>1. Len(path) \in Nat \ {0}
  BY PathFacts, EmptySeq
<1>2. Here \in visiting /\ Here \in Bound /\ Here \in Keys
  BY <1>1, PathFacts DEF Here, TypeOK
<1>3. deps[Here] \in Recipes /\ next[Here] \in 1..(MaxParams + 1)
  BY <1>2 DEF TypeOK
<1>4. /\ deps[Here] \in Seq(Param) /\ Len(deps[Here]) \in 0..MaxParams
      /\ DOMAIN deps[Here] = 1..Len(deps[Here])
  BY <1>3, RecipeIsSeq
<1>5. next[Here] \in Nat \ {0}
  BY <1>3, WiringAssumption
<1> QED
  BY <1>1, <1>2, <1>4, <1>5, WiringAssumption DEF Here, AtParam

-----------------------------------------------------------------------------
(* A step that leaves the wiring and the search alone. *)
LEMMA SameSearch ==
  ASSUME IInv, UNCHANGED <<wiring, search>>
  PROVE  /\ PathInv' /\ DoneInv'
         /\ Acyclic(Bound)' <=> Acyclic(Bound)
         /\ \A k : GoodKey(k)' <=> GoodKey(k)
         /\ unchecked' \subseteq Bound /\ verdict' \in Outcomes \cup {"merging", "running"}
              => TypeOK'
<1> USE DEF wiring, search, Bound
<1>1. PathInv'
  BY DEF IInv, PathInv, Distinct, Looked
<1>2. DoneInv' /\ (Acyclic(Bound)' <=> Acyclic(Bound))
  BY DEF IInv, DoneInv, Acyclic, DependsInto
<1>3. \A k : GoodKey(k)' <=> GoodKey(k)
  BY DEF GoodKey, GoodParam, MismatchedParam, UnresolvedParam
<1>4. unchecked' \subseteq Bound /\ verdict' \in Outcomes \cup {"merging", "running"}
        => TypeOK'
  BY DEF IInv, TypeOK, Outcomes
<1> QED
  BY <1>1, <1>2, <1>3, <1>4

LEMMA MergeStep ==
  ASSUME IInv, Merge
  PROVE  IInv'
<1>1. /\ verdict = "merging" /\ verdict' = "running" /\ unchecked' = Bound
      /\ DOMAIN overrides \subseteq Bound
      /\ deps' = [k \in Bound |->
                    IF k \in DOMAIN overrides THEN overrides[k] ELSE deps[k]]
      /\ UNCHANGED <<scope, overrides, search>> /\ Bound' = Bound
  BY DEF Merge, Bound
<1>2. path = <<>> /\ done = {} /\ unchecked' = Bound'
  BY <1>1 DEF IInv, CheckInv
<1>3. UNCHANGED <<path, next, visiting, done>>
  BY <1>1 DEF search
<1>4. deps' \in [Bound -> Recipes]
  BY <1>1 DEF IInv, TypeOK
<1>5. TypeOK'
  BY <1>1, <1>3, <1>4 DEF IInv, TypeOK, Outcomes
<1>6. CheckInv'
  BY <1>1, <1>2 DEF CheckInv
<1>7. PathInv'
  <2>1. Len(path) = 0
    BY <1>2
  <2>2. Distinct(path') /\ done' \cap visiting' = {}
    BY <1>3 DEF IInv, PathInv, Distinct
  <2>3. Len(path') = 0
    BY <2>1, <1>3
  <2> QED
    BY <1>3, <2>2, <2>3 DEF IInv, PathInv
<1>8. DoneInv'
  BY <1>2, <1>3 DEF DoneInv, Acyclic
<1>9. VerdictInv'
  BY <1>1 DEF VerdictInv
<1> QED
  BY <1>5, <1>6, <1>7, <1>8, <1>9 DEF IInv

LEMMA MergeRaisesStep ==
  ASSUME IInv, MergeRaises
  PROVE  IInv'
<1>1. /\ verdict = "merging" /\ verdict' = "KeyError"
      /\ UNCHANGED <<wiring, search>> /\ unchecked' = unchecked
  BY DEF MergeRaises
<1>2. unchecked' \subseteq Bound /\ verdict' \in Outcomes
  BY <1>1 DEF IInv, TypeOK, Outcomes
<1>3. CheckInv' /\ VerdictInv'
  BY <1>1 DEF CheckInv, VerdictInv
<1> QED
  BY <1>1, <1>2, <1>3, SameSearch DEF IInv

LEMMA CheckKeyStep ==
  ASSUME IInv, NEW k \in Keys, CheckKey(k)
  PROVE  IInv'
<1>1. /\ verdict = "running" /\ verdict' = verdict /\ GoodKey(k)
      /\ UNCHANGED <<wiring, search>> /\ unchecked' = unchecked \ {k}
  BY DEF CheckKey
<1>2. unchecked' \subseteq Bound /\ verdict' \in Outcomes \cup {"running"}
  BY <1>1 DEF IInv, TypeOK
<1>3. \A j : GoodKey(j)' <=> GoodKey(j)
  BY <1>1, SameSearch
<1>4. Bound' = Bound
  BY <1>1 DEF wiring, Bound
<1>5. CheckInv' /\ VerdictInv'
  BY <1>1, <1>3, <1>4 DEF IInv, CheckInv, VerdictInv
<1> QED
  BY <1>1, <1>2, <1>5, SameSearch DEF IInv

(* A verdict is given: an exception of check, a cycle, or acceptance. *)
LEMMA VerdictStep ==
  ASSUME IInv, verdict = "running", UNCHANGED <<wiring, search, unchecked>>,
         verdict' \in Outcomes \ {"KeyError"},
         verdict' = "accepted" => done = Bound /\ unchecked = {},
         verdict' = "CircularDependencyError" => ~Acyclic(Bound)
  PROVE  IInv'
<1>1. Bound' = Bound /\ done' = done
  BY DEF wiring, search, Bound
<1>2. /\ PathInv' /\ DoneInv' /\ TypeOK'
      /\ Acyclic(Bound)' <=> Acyclic(Bound)
      /\ \A k : GoodKey(k)' <=> GoodKey(k)
  <2>1. unchecked' \subseteq Bound
    BY DEF IInv, TypeOK
  <2> QED
    BY <2>1, SameSearch
<1>3. CheckInv'
  BY <1>1, <1>2 DEF IInv, CheckInv, Outcomes
<1>4. VerdictInv'
  BY <1>1, <1>2 DEF VerdictInv
<1> QED
  BY <1>2, <1>3, <1>4 DEF IInv

LEMMA CheckRaisesStep ==
  ASSUME IInv, NEW k \in Keys, CheckRaises(k)
  PROVE  IInv'
<1>1. /\ verdict = "running" /\ UNCHANGED <<wiring, search, unchecked>>
      /\ verdict' \in {"UnresolvedDependencyError", "ScopeMismatchError"}
  BY DEF CheckRaises
<1> QED
  BY <1>1, VerdictStep DEF Outcomes

LEMMA AcceptStep ==
  ASSUME IInv, Accept
  PROVE  IInv'
BY VerdictStep DEF Accept, Outcomes

(* The search looks at a key of its own path: a cycle of dependencies. *)
LEMMA CycleRaisesStep ==
  ASSUME IInv, CycleRaises
  PROVE  IInv'
<1>1. /\ verdict = "running" /\ verdict' = "CircularDependencyError"
      /\ UNCHANGED <<wiring, search, unchecked>>
      /\ AtParam /\ LooksAt \in Bound /\ LooksAt \in visiting
  BY DEF CycleRaises
<1>2. path # <<>>
  BY <1>1 DEF AtParam
<1>3. PICK n : n = Len(path)
  OBVIOUS
<1>4. /\ n \in Nat \ {0} /\ \A i \in 1..n : path[i] \in Bound
      /\ next[path[n]] \in DOMAIN deps[path[n]]
      /\ LooksAt = deps[path[n]][next[path[n]]].on
  BY <1>1, <1>2, <1>3, PathFacts, HereFacts DEF IInv, LooksAt
<1>5. PICK m \in 1..n : path[m] = LooksAt
  BY <1>1, <1>3, PathFacts DEF IInv, Members
<1>6. PICK S : S = {path[i] : i \in m..n}
  OBVIOUS
<1>7. S \in SUBSET Bound /\ S # {}
  <2>1. \A i \in m..n : i \in 1..n
    BY <1>4
  <2>2. m \in m..n
    BY <1>4
  <2> QED
    BY <1>4, <1>6, <2>1, <2>2
<1>8. ASSUME NEW k \in S
      PROVE  DependsInto(k, S)
  <2>1. PICK i \in m..n : k = path[i]
    BY <1>6
  <2>2. CASE i = n
    <3>1. LooksAt \in S
      BY <1>4, <1>5, <1>6
    <3> QED
      BY <2>1, <2>2, <3>1, <1>4 DEF DependsInto
  <2>3. CASE i # n
    <3>1. i \in 1..(n - 1) /\ i + 1 \in m..n
      BY <2>3, <1>4
    <3>2. PICK j \in DOMAIN deps[k] : deps[k][j].on = path[i + 1]
      BY <2>1, <3>1, <1>3 DEF IInv, PathInv
    <3>3. path[i + 1] \in S
      BY <3>1, <1>6
    <3> QED
      BY <3>2, <3>3 DEF DependsInto
  <2> QED
    BY <2>2, <2>3
<1>9. ~Acyclic(Bound)
  BY <1>7, <1>8 DEF Acyclic
<1> QED
  BY <1>1, <1>9, VerdictStep DEF Outcomes

-----------------------------------------------------------------------------
(* The steps of the search leave the wiring and the verdict alone. *)
LEMMA SameVerdict ==
  ASSUME IInv, verdict = "running", UNCHANGED <<wiring, unchecked, verdict>>
  PROVE  CheckInv' /\ VerdictInv' /\ Bound' = Bound
<1> USE DEF wiring, Bound
<1>1. \A k : GoodKey(k)' <=> GoodKey(k)
  BY DEF GoodKey, GoodParam, MismatchedParam, UnresolvedParam
<1>2. CheckInv'
  BY <1>1 DEF IInv, CheckInv
<1>3. VerdictInv'
  BY DEF VerdictInv
<1> QED
  BY <1>2, <1>3

(* visit(k) begins: the path has one more key. *)
LEMMA EnterFacts ==
  ASSUME IInv, NEW k \in Bound, k \notin visiting, Enter(k)
  PROVE  /\ path' \in Seq(Bound) /\ Len(path') = Len(path) + 1
         /\ \A i \in 1..Len(path) : path'[i] = path[i]
         /\ path'[Len(path) + 1] = k
         /\ Distinct(path)' /\ visiting' = visiting \cup {k}
         /\ visiting' = {path'[i] : i \in DOMAIN path'}
<1>1. /\ path \in Seq(Bound) /\ Len(path) \in Nat /\ visiting = Members(path)
      /\ DOMAIN path = 1..Len(path)
      /\ \A i \in 1..Len(path) : path[i] \in visiting
  BY PathFacts DEF IInv
<1>2. /\ path' \in Seq(Bound) /\ Len(path') = Len(path) + 1
      /\ \A i \in 1..Len(path) : path'[i] = path[i]
      /\ path'[Len(path) + 1] = k
  BY <1>1, AppendProperties DEF Enter
<1>3. DOMAIN path' = 1..(Len(path) + 1)
  BY <1>2, LenProperties
<1>4. Distinct(path)'
  <2>1. \A i, j \in 1..Len(path) : path[i] = path[j] => i = j
    BY DEF IInv, PathInv, Distinct
  <2> SUFFICES ASSUME NEW i \in 1..(Len(path) + 1), NEW j \in 1..(Len(path) + 1),
                      path'[i] = path'[j]
               PROVE  i = j
    BY <1>2 DEF Distinct
  <2> QED
    BY <1>1, <1>2, <2>1
<1>5. {path'[i] : i \in DOMAIN path'} = {path[i] : i \in DOMAIN path} \cup {k}
  <2>1. 1..(Len(path) + 1) = (1..Len(path)) \cup {Len(path) + 1}
    BY <1>1
  <2>2. {path'[i] : i \in 1..(Len(path) + 1)} = {path'[i] : i \in 1..Len(path)} \cup {k}
    BY <2>1, <1>2
  <2>3. {path'[i] : i \in 1..Len(path)} = {path[i] : i \in 1..Len(path)}
    BY <1>2
  <2> QED
    BY <1>1, <1>3, <2>2, <2>3
<1>6. visiting' = visiting \cup {k} /\ visiting = {path[i] : i \in DOMAIN path}
  BY DEF Enter, IInv, TypeOK
<1> QED
  BY <1>2, <1>4, <1>5, <1>6

LEMMA VisitStep ==
  ASSUME IInv, NEW k \in Keys, Visit(k)
  PROVE  IInv'
<1>1. /\ verdict = "running" /\ path = <<>> /\ k \in Bound \ done /\ Enter(k)
      /\ UNCHANGED <<wiring, unchecked, next, done, verdict>>
  BY DEF Visit
<1>2. Len(path) = 0 /\ k \notin visiting
  BY <1>1, PathFacts DEF IInv, Members
<1>3. CheckInv' /\ VerdictInv' /\ Bound' = Bound
  BY <1>1, SameVerdict
<1>4. /\ path' \in Seq(Bound) /\ Len(path') = 1 /\ path'[1] = k
      /\ Distinct(path)' /\ visiting' = visiting \cup {k}
      /\ visiting' = {path'[i] : i \in DOMAIN path'}
  BY <1>1, <1>2, EnterFacts
<1>5. TypeOK'
  BY <1>1, <1>3, <1>4 DEF IInv, TypeOK, wiring, Outcomes
<1>6. next[k] = 1
  BY <1>1, <1>2 DEF IInv, PathInv
<1>7. \A d : ~Looked(k, d)'
  <2>1. deps[k] \in Seq(Param) /\ DOMAIN deps[k] = 1..Len(deps[k]) /\ Len(deps[k]) \in Nat
    BY <1>1, RecipeIsSeq, WiringAssumption DEF IInv, TypeOK
  <2> QED
    BY <2>1, <1>1, <1>6 DEF Looked, wiring
<1>8. PathInv'
  BY <1>1, <1>4, <1>7 DEF IInv, PathInv
<1>9. DoneInv'
  BY <1>1, <1>3 DEF IInv, DoneInv, Acyclic, DependsInto, wiring
<1> QED
  BY <1>3, <1>5, <1>8, <1>9 DEF IInv

(* Looking at one more parameter of the top key. *)
LEMMA LookedOnce ==
  ASSUME IInv, AtParam, next' = [next EXCEPT ![Here] = @ + 1],
         UNCHANGED wiring
  PROVE  /\ next' \in [Keys -> 1..(MaxParams + 1)]
         /\ \A k \in Keys \ {Here} : next'[k] = next[k]
         /\ \A k \in Keys \ {Here} : \A d : Looked(k, d)' <=> Looked(k, d)
         /\ \A d : Looked(Here, d) \/ d = LooksAt <=>
              \E j \in DOMAIN deps'[Here] : j < next'[Here] /\ deps'[Here][j].on = d
<1>0. path # <<>>
  BY DEF AtParam
<1>1. /\ Here \in Keys /\ Len(deps[Here]) \in 0..MaxParams
      /\ DOMAIN deps[Here] = 1..Len(deps[Here])
      /\ next[Here] \in Nat \ {0} /\ next[Here] \in DOMAIN deps[Here]
  BY <1>0, HereFacts DEF IInv
<1>2. next \in [Keys -> 1..(MaxParams + 1)]
  BY DEF IInv, TypeOK
<1>3. /\ next'[Here] = next[Here] + 1
      /\ \A k \in Keys \ {Here} : next'[k] = next[k]
      /\ next[Here] + 1 \in 1..(MaxParams + 1)
  BY <1>1, <1>2, WiringAssumption
<1>4. next' \in [Keys -> 1..(MaxParams + 1)]
  BY <1>1, <1>2, <1>3
<1>5. deps' = deps
  BY DEF wiring
<1>6. \A j \in DOMAIN deps[Here] : j < next[Here] + 1 <=> j < next[Here] \/ j = next[Here]
  BY <1>1
<1> QED
  BY <1>1, <1>3, <1>4, <1>5, <1>6 DEF Looked, LooksAt

LEMMA SkipParamStep ==
  ASSUME IInv, SkipParam
  PROVE  IInv'
<1>1. /\ verdict = "running" /\ AtParam /\ path # <<>>
      /\ LooksAt \notin visiting
      /\ LooksAt \notin Bound \/ LooksAt \in done
      /\ next' = [next EXCEPT ![Here] = @ + 1]
      /\ UNCHANGED <<wiring, unchecked, path, visiting, done, verdict>>
  BY DEF SkipParam, AtParam
<1>2. CheckInv' /\ VerdictInv' /\ Bound' = Bound
  BY <1>1, SameVerdict
<1>3. PICK h : h = Here
  OBVIOUS
<1>4. /\ next' \in [Keys -> 1..(MaxParams + 1)]
      /\ \A k \in Keys \ {h} : next'[k] = next[k]
      /\ \A k \in Keys \ {h} : \A d : Looked(k, d)' <=> Looked(k, d)
      /\ \A d : Looked(h, d)' <=> Looked(h, d) \/ d = LooksAt
  BY <1>1, <1>3, LookedOnce DEF Looked
<1>5. TypeOK'
  BY <1>1, <1>2, <1>4 DEF IInv, TypeOK, wiring
<1>6. h \in visiting /\ h \in Keys
  BY <1>1, <1>3, HereFacts DEF IInv
<1>7. \A k \in Keys \ (visiting \cup done) : next'[k] = 1
  BY <1>4, <1>6 DEF IInv, PathInv
<1>8. \A i \in 1..Len(path) : path[i] \in Keys
  BY PathFacts DEF IInv, TypeOK
<1>9. PathInv'
  <2>1. ASSUME NEW i \in 1..Len(path), NEW d \in Bound, Looked(path[i], d)'
        PROVE  d \in done \/ (i < Len(path) /\ d = path[i + 1])
    <3>1. Looked(path[i], d) \/ d \in done
      BY <2>1, <1>1, <1>4, <1>8
    <3> QED
      BY <3>1 DEF IInv, PathInv
  <2>2. \A k \in Keys \ (visiting' \cup done') : next'[k] = 1
    BY <1>1, <1>7
  <2>3. deps' = deps
    BY <1>1 DEF wiring
  <2>4. path' = path /\ done' = done /\ visiting' = visiting
    BY <1>1
  <2>5. \A i \in 1..Len(path') : \A d \in Bound' : Looked(path[i], d)' =>
          d \in done' \/ (i < Len(path') /\ d = path'[i + 1])
    BY <2>1, <2>4, <1>2
  <2> QED
    BY <2>2, <2>3, <2>4, <2>5 DEF IInv, PathInv, Distinct
<1>10. DoneInv'
  BY <1>1, <1>2 DEF IInv, DoneInv, Acyclic, DependsInto, wiring
<1> QED
  BY <1>2, <1>5, <1>9, <1>10 DEF IInv

LEMMA DescendStep ==
  ASSUME IInv, Descend
  PROVE  IInv'
<1>1. /\ verdict = "running" /\ AtParam /\ path # <<>>
      /\ LooksAt \in Bound /\ LooksAt \notin visiting \cup done
      /\ Enter(LooksAt)
      /\ next' = [next EXCEPT ![Here] = @ + 1]
      /\ UNCHANGED <<wiring, unchecked, done, verdict>>
  BY DEF Descend, AtParam
<1>2. CheckInv' /\ VerdictInv' /\ Bound' = Bound
  BY <1>1, SameVerdict
<1>3. PICK h, c, n : h = Here /\ c = LooksAt /\ n = Len(path)
  OBVIOUS
<1>4. /\ next' \in [Keys -> 1..(MaxParams + 1)]
      /\ \A k \in Keys \ {h} : next'[k] = next[k]
      /\ \A k \in Keys \ {h} : \A d : Looked(k, d)' <=> Looked(k, d)
      /\ \A d : Looked(h, d)' <=> Looked(h, d) \/ d = c
  <2>1. /\ next' \in [Keys -> 1..(MaxParams + 1)]
        /\ \A k \in Keys \ {h} : next'[k] = next[k]
        /\ \A k \in Keys \ {h} : \A d : Looked(k, d)' <=> Looked(k, d)
        /\ \A d : Looked(h, d) \/ d = c <=>
              \E j \in DOMAIN deps'[h] : j < next'[h] /\ deps'[h][j].on = d
    BY <1>1, <1>3, LookedOnce
  <2>2. \A d : Looked(h, d)' <=> \E j \in DOMAIN deps'[h] : j < next'[h] /\ deps'[h][j].on = d
    BY <1>1, <1>3 DEF Looked
  <2> QED
    BY <2>1, <2>2
<1>5. /\ path' \in Seq(Bound) /\ Len(path') = n + 1
      /\ \A i \in 1..n : path'[i] = path[i]
      /\ path'[n + 1] = c
      /\ Distinct(path)' /\ visiting' = visiting \cup {c}
      /\ visiting' = {path'[i] : i \in DOMAIN path'}
  BY <1>1, <1>3, EnterFacts
<1>6. TypeOK'
  BY <1>1, <1>2, <1>4, <1>5 DEF IInv, TypeOK, wiring
<1>7. /\ h \in visiting /\ h \in Keys /\ h = path[n] /\ n \in Nat \ {0}
      /\ c \in Keys /\ c # h /\ c \notin visiting \cup done
      /\ next[h] \in DOMAIN deps[h] /\ deps[h][next[h]].on = c
  BY <1>1, <1>3, HereFacts DEF IInv, TypeOK, LooksAt
<1>8. \A i \in 1..n : path[i] \in Keys /\ (path[i] = h => i = n)
  <2>1. \A i \in 1..n : path[i] \in Keys
    BY <1>3, PathFacts DEF IInv, TypeOK
  <2>2. n \in 1..n
    BY <1>7
  <2> QED
    BY <2>1, <2>2, <1>3, <1>7 DEF IInv, PathInv, Distinct
<1>9. deps' = deps /\ done' = done
  BY <1>1 DEF wiring
<1>10. \A d : ~Looked(c, d)'
  <2>1. next'[c] = 1
    BY <1>4, <1>7 DEF IInv, PathInv
  <2>2. DOMAIN deps[c] = 1..Len(deps[c]) /\ Len(deps[c]) \in Nat
    BY <1>1, <1>3, RecipeIsSeq, WiringAssumption DEF IInv, TypeOK
  <2> QED
    BY <2>1, <2>2, <1>9 DEF Looked
<1>11. PathInv'
  <2>1. done' \cap visiting' = {}
    BY <1>5, <1>7, <1>9 DEF IInv, PathInv
  <2>2. \A k \in Keys \ (visiting' \cup done') : next'[k] = 1
    BY <1>4, <1>5, <1>7, <1>9 DEF IInv, PathInv
  <2>3. ASSUME NEW i \in 1..n
        PROVE  \E j \in DOMAIN deps[path'[i]] : deps[path'[i]][j].on = path'[i + 1]
    <3>1. CASE i = n
      BY <3>1, <1>5, <1>7
    <3>2. CASE i # n
      <4>1. i \in 1..(n - 1) /\ i + 1 \in 1..n
        BY <3>2, <1>7
      <4> QED
        BY <4>1, <1>3, <1>5 DEF IInv, PathInv
    <3> QED
      BY <3>1, <3>2
  <2>4. ASSUME NEW i \in 1..(n + 1), NEW d \in Bound, Looked(path[i], d)'
        PROVE  d \in done \/ (i < n + 1 /\ d = path'[i + 1])
    <3>1. CASE i = n + 1
      <4>1. path'[i] = c
        BY <3>1, <1>5
      <4> QED
        BY <2>4, <4>1, <1>10 DEF Looked
    <3>2. CASE i = n
      <4>1. path'[i] = h /\ path'[i + 1] = c
        BY <3>2, <1>5, <1>7
      <4>2. Looked(h, d)'
        BY <2>4, <4>1 DEF Looked
      <4>3. Looked(path[n], d) \/ d = c
        BY <4>2, <1>4, <1>7
      <4>4. Looked(path[n], d) => d \in done
        BY <1>3, <1>7 DEF IInv, PathInv
      <4> QED
        BY <3>2, <4>1, <4>3, <4>4, <1>7
    <3>3. CASE i \in 1..(n - 1)
      <4>1. i \in 1..n /\ i # n /\ i + 1 \in 1..n
        BY <3>3, <1>7
      <4>2. path'[i] = path[i] /\ path'[i + 1] = path[i + 1] /\ path[i] \in Keys \ {h}
        BY <4>1, <1>5, <1>8
      <4>3. Looked(path[i], d)'
        BY <2>4, <4>2 DEF Looked
      <4>4. Looked(path[i], d)
        BY <4>2, <4>3, <1>4
      <4> QED
        BY <3>3, <4>1, <4>2, <4>4, <1>3, <1>7 DEF IInv, PathInv
    <3> QED
      BY <3>1, <3>2, <3>3, <1>7
  <2>5. \A i \in 1..Len(path') : \A d \in Bound' : Looked(path[i], d)' =>
          d \in done' \/ (i < Len(path') /\ d = path'[i + 1])
    BY <2>4, <1>2, <1>5, <1>9 DEF Looked
  <2>6. \A i \in 1..(Len(path') - 1) :
          \E j \in DOMAIN deps'[path'[i]] : deps'[path'[i]][j].on = path'[i + 1]
    BY <2>3, <1>5, <1>7, <1>9, SMTT(20)
  <2> QED
    BY <2>1, <2>2, <2>5, <2>6, <1>5 DEF PathInv
<1>12. DoneInv'
  BY <1>1, <1>2 DEF IInv, DoneInv, Acyclic, DependsInto, wiring
<1> QED
  BY <1>2, <1>6, <1>11, <1>12 DEF IInv

(* visit returns: all that its key depends on is done, and now it is too.  *)
LEMMA LeaveStep ==
  ASSUME IInv, Leave
  PROVE  IInv'
<1>1. /\ verdict = "running" /\ path # <<>> /\ ~AtParam
      /\ visiting' = visiting \ {Here} /\ done' = done \cup {Here}
      /\ path' = SubSeq(path, 1, Len(path) - 1)
      /\ UNCHANGED <<wiring, unchecked, next, verdict>>
  BY DEF Leave
<1>2. CheckInv' /\ VerdictInv' /\ Bound' = Bound /\ deps' = deps
  BY <1>1, SameVerdict DEF wiring
<1>3. PICK h, n : h = Here /\ n = Len(path)
  OBVIOUS
<1>4. /\ n \in Nat \ {0} /\ h = path[n] /\ h \in visiting /\ h \in Bound /\ h \in Keys
      /\ DOMAIN deps[h] = 1..Len(deps[h]) /\ Len(deps[h]) \in Nat
      /\ next[h] \in Nat \ {0} /\ next[h] > Len(deps[h])
  BY <1>1, <1>3, HereFacts, WiringAssumption DEF IInv, AtParam
<1>5. /\ path \in Seq(Bound) /\ DOMAIN path = 1..n
      /\ visiting = Members(path) /\ \A i \in 1..n : path[i] \in Bound
      /\ \A i, j \in 1..n : path[i] = path[j] => i = j
  BY <1>3, PathFacts DEF IInv, PathInv, Distinct
<1>6. /\ path' \in Seq(Bound) /\ Len(path') = n - 1
      /\ DOMAIN path' = 1..(n - 1)
      /\ \A i \in 1..(n - 1) : path'[i] = path[i]
  <2>1. /\ path' \in Seq(Bound) /\ Len(path') = n - 1
        /\ \A i \in 1..(n - 1) : path'[i] = path[i]
    BY <1>1, <1>3, <1>4, <1>5, SubSeqProperties
  <2> QED
    BY <2>1, LenProperties
<1>7. visiting' = {path'[i] : i \in DOMAIN path'}
  <2>1. 1..n = (1..(n - 1)) \cup {n}
    BY <1>4
  <2>2. visiting = {path[i] : i \in 1..n}
    BY <1>5 DEF Members
  <2>3. {path[i] : i \in 1..n} = {path[i] : i \in 1..(n - 1)} \cup {h}
    BY <2>1, <1>4
  <2>4. h \notin {path[i] : i \in 1..(n - 1)}
    <3>1. \A i \in 1..(n - 1) : i \in 1..n /\ n \in 1..n /\ i # n
      BY <1>4
    <3> QED
      BY <3>1, <1>4, <1>5
  <2>5. {path[i] : i \in 1..(n - 1)} = {path'[i] : i \in 1..(n - 1)}
    BY <1>6
  <2> QED
    BY <2>2, <2>3, <2>4, <2>5, <1>1, <1>3, <1>6
<1>8. TypeOK'
  BY <1>1, <1>2, <1>3, <1>4, <1>6, <1>7 DEF IInv, TypeOK, wiring
<1>9. \A d \in Bound : (\E i \in DOMAIN deps[h] : deps[h][i].on = d) => d \in done
  <2>1. \A d : (\E i \in DOMAIN deps[h] : deps[h][i].on = d) => Looked(h, d)
    BY <1>4 DEF Looked
  <2>2. \A d \in Bound : Looked(path[n], d) => d \in done
    BY <1>3, <1>4 DEF IInv, PathInv
  <2> QED
    BY <2>1, <2>2, <1>4
<1>10. \A k : \A d : Looked(k, d)' <=> Looked(k, d)
  BY <1>1, <1>2 DEF Looked
<1>11. PathInv'
  <2>1. Distinct(path)'
    BY <1>4, <1>5, <1>6 DEF Distinct
  <2>2. done' \cap visiting' = {}
    BY <1>1 DEF IInv, PathInv
  <2>3. \A k \in Keys \ (visiting' \cup done') : next'[k] = 1
    BY <1>1 DEF IInv, PathInv
  <2>4. \A i \in 1..(n - 1) : \A d \in Bound : Looked(path[i], d) =>
          d \in done' \/ (i < n - 1 /\ d = path'[i + 1])
    <3> SUFFICES ASSUME NEW i \in 1..(n - 1), NEW d \in Bound, Looked(path[i], d)
                 PROVE  d \in done' \/ (i < n - 1 /\ d = path'[i + 1])
      OBVIOUS
    <3>1. d \in done \/ d = path[i + 1]
      BY <1>3, <1>4 DEF IInv, PathInv
    <3>2. CASE i = n - 1
      BY <3>1, <3>2, <1>1, <1>3, <1>4
    <3>3. CASE i # n - 1
      <4>1. i + 1 \in 1..(n - 1) /\ i < n - 1
        BY <3>3, <1>4
      <4> QED
        BY <3>1, <4>1, <1>1, <1>6
    <3> QED
      BY <3>2, <3>3
  <2>5. \A i \in 1..Len(path') : \A d \in Bound' : Looked(path[i], d)' =>
          d \in done' \/ (i < Len(path') /\ d = path'[i + 1])
    <3> SUFFICES ASSUME NEW i \in 1..(n - 1), NEW d \in Bound, Looked(path[i], d)'
                 PROVE  Looked(path[i], d)
      BY <2>4, <1>2, <1>6
    <3>1. path'[i] = path[i] /\ next' = next
      BY <1>1, <1>6
    <3> QED
      BY <3>1, <1>2 DEF Looked
  <2>6. \A i \in 1..(Len(path') - 1) :
          \E j \in DOMAIN deps'[path'[i]] : deps'[path'[i]][j].on = path'[i + 1]
    <3>0. 1..(Len(path') - 1) = 1..(n - 2)
      BY <1>4, <1>6
    <3> SUFFICES ASSUME NEW i \in 1..(n - 2)
                 PROVE  \E j \in DOMAIN deps[path'[i]] :
                          deps[path'[i]][j].on = path'[i + 1]
      BY <1>2, <3>0, Zenon
    <3>1. i \in 1..(n - 1) /\ i + 1 \in 1..(n - 1)
      BY <1>4
    <3> QED
      BY <3>1, <1>3, <1>6 DEF IInv, PathInv
  <2> QED
    BY <2>1, <2>2, <2>3, <2>5, <2>6 DEF PathInv
<1>12. DoneInv'
  <2>1. \A k \in done \cup {h} : \A i \in DOMAIN deps[k] :
          deps[k][i].on \in Bound => deps[k][i].on \in done
    BY <1>9 DEF IInv, DoneInv
  <2>2. ASSUME NEW S \in SUBSET (done \cup {h}), S # {}
        PROVE  \E k \in S : ~DependsInto(k, S)
    <3>1. CASE S \cap done = {}
      <4>1. S = {h}
        BY <2>2, <3>1
      <4>2. h \notin done
        BY <1>4 DEF IInv, PathInv
      <4>3. ~DependsInto(h, {h})
        BY <4>2, <2>1, <1>4 DEF DependsInto
      <4> QED
        BY <4>1, <4>3
    <3>2. CASE S \cap done # {}
      <4>1. PICK k \in S \cap done : ~DependsInto(k, S \cap done)
        BY <3>2 DEF IInv, DoneInv, Acyclic
      <4>2. S \subseteq Bound
        BY <1>4 DEF IInv, TypeOK
      <4>3. ~DependsInto(k, S)
        BY <4>1, <4>2, <2>1 DEF DependsInto
      <4> QED
        BY <4>1, <4>3
    <3> QED
      BY <3>1, <3>2
  <2>3. done' = done \cup {h}
    BY <1>1, <1>3
  <2> QED
    BY <2>1, <2>2, <2>3, <1>2 DEF DoneInv, Acyclic, DependsInto
<1> QED
  BY <1>2, <1>8, <1>11, <1>12 DEF IInv

-----------------------------------------------------------------------------
LEMMA Initially == Init => IInv
<1> SUFFICES ASSUME Init PROVE IInv
  OBVIOUS
<1>1. path = <<>> /\ done = {} /\ visiting = {} /\ unchecked = {} /\ verdict = "merging"
      /\ next = [k \in Keys |-> 1]
  BY DEF Init
<1>2. PICK B \in SUBSET Keys : scope \in [B -> Bindable] /\ deps \in [B -> Recipes]
  BY DEF Init
<1>3. PICK O \in SUBSET Overridable : overrides \in [O -> Recipes]
  BY DEF Init
<1>4. Bound = B /\ DOMAIN overrides = O
  BY <1>2, <1>3 DEF Bound
<1>5. path \in Seq(Bound) /\ DOMAIN path = {} /\ Len(path) = 0
  BY <1>1, EmptySeq
<1>6. TypeOK
  <2>1. 1 \in 1..(MaxParams + 1)
    BY WiringAssumption
  <2>2. visiting = {path[i] : i \in DOMAIN path}
    BY <1>1, <1>5
  <2> QED
    BY <1>1, <1>2, <1>3, <1>4, <1>5, <2>1, <2>2 DEF TypeOK
<1>7. CheckInv /\ VerdictInv
  BY <1>1 DEF CheckInv, VerdictInv
<1>8. PathInv
  BY <1>1, <1>5 DEF PathInv, Distinct
<1>9. DoneInv
  BY <1>1 DEF DoneInv, Acyclic
<1> QED
  BY <1>6, <1>7, <1>8, <1>9 DEF IInv

LEMMA Stuttering ==
  ASSUME IInv, UNCHANGED vars
  PROVE  IInv'
<1>1. UNCHANGED <<wiring, search, unchecked, verdict>> /\ Bound' = Bound /\ done' = done
  BY DEF vars, search, wiring, Bound
<1>2. /\ PathInv' /\ DoneInv' /\ TypeOK'
      /\ Acyclic(Bound)' <=> Acyclic(Bound)
      /\ \A k : GoodKey(k)' <=> GoodKey(k)
  <2>1. unchecked' \subseteq Bound /\ verdict' \in Outcomes \cup {"merging", "running"}
    BY <1>1 DEF IInv, TypeOK
  <2> QED
    BY <1>1, <2>1, SameSearch
<1>3. CheckInv'
  <2>1. path' = path
    BY <1>1 DEF search
  <2> QED
    BY <2>1, <1>1, <1>2 DEF IInv, CheckInv
<1>4. VerdictInv'
  BY <1>1, <1>2 DEF IInv, VerdictInv
<1> QED
  BY <1>2, <1>3, <1>4 DEF IInv

(* What holds between any two steps of the validation.                     *)
THEOREM Invariant == Spec => []IInv
<1>1. Init => IInv
  BY Initially
<1>2. IInv /\ [Next]_vars => IInv'
  BY MergeStep, MergeRaisesStep, CheckKeyStep, CheckRaisesStep, VisitStep,
     SkipParamStep, DescendStep, CycleRaisesStep, LeaveStep, AcceptStep,
     Stuttering DEF Next, Over
<1> QED
  BY <1>1, <1>2, PTL DEF Spec

(* Every variable keeps its type, and the path holds the visiting keys.    *)
THEOREM Types == Spec => []TypeOK
<1>1. IInv => TypeOK
  BY DEF IInv
<1> QED
  BY <1>1, Invariant, PTL

(* On every wiring: an accepted graph has no cycle, and one that is        *)
(* refused as circular has one.                                            *)
THEOREM CyclesAreFound == Spec => []CyclesFound
<1>1. IInv => CyclesFound
  BY DEF IInv, VerdictInv, DoneInv, CyclesFound
<1> QED
  BY <1>1, Invariant, PTL

(* No accepted recipe depends on a key of an inner scope.                  *)
THEOREM AllOutward == Spec => []DependenciesOutward
<1>1. IInv => DependenciesOutward
  <2> SUFFICES ASSUME IInv, verdict = "accepted",
                      NEW k \in Bound, NEW i \in DOMAIN deps[k],
                      deps[k][i].on \in Bound
               PROVE  scope[deps[k][i].on] <= scope[k]
    BY DEF DependenciesOutward
  <2>1. GoodKey(k)
    BY DEF IInv, CheckInv, VerdictInv
  <2>2. /\ ~MismatchedParam(k, deps[k][i]) /\ ~UnresolvedParam(k, deps[k][i])
        /\ scope[k] # Undeclared
    BY <2>1 DEF GoodKey, GoodParam
  <2>3. scope[deps[k][i].on] # Undeclared
    BY <2>2 DEF UnresolvedParam
  <2>4. scope[deps[k][i].on] \in Levels /\ scope[k] \in Levels
    BY <2>2, <2>3, WiringAssumption DEF IInv, TypeOK
  <2>5. ~(scope[deps[k][i].on] > scope[k])
    BY <2>2, <2>3 DEF MismatchedParam
  <2> QED
    BY <2>4, <2>5, WiringAssumption DEF Levels
<1> QED
  BY <1>1, Invariant, PTL

(* Where a root given to a container is an instance of every class that    *)
(* check accepts in its place (no parameter is typed as a subclass of the  *)
(* declared root), an accepted graph has no parameter a build finds        *)
(* unresolvable.  The run graph_subclass shows the condition is needed.    *)
THEOREM AcceptedResolve ==
  ASSUME \A c \in Classes : \A s \in DOMAIN RootType :
           IsSubclass(c, RootType[s]) => IsSubclass(RootClass[s], c)
  PROVE  Spec => []AcceptedGraphsResolve
<1>1. IInv => AcceptedGraphsResolve
  <2> SUFFICES ASSUME IInv, verdict = "accepted",
                      NEW k \in Bound, NEW at \in scope[k] .. Scopes - 1,
                      NEW i \in DOMAIN deps[k], BuildRaises(deps[k][i], at)
               PROVE  FALSE
    BY DEF AcceptedGraphsResolve
  <2>0. PICK p : p = deps[k][i]
    OBVIOUS
  <2>1. GoodKey(k)
    BY DEF IInv, CheckInv, VerdictInv
  <2>2. scope[k] # Undeclared /\ ~UnresolvedParam(k, p)
    BY <2>0, <2>1 DEF GoodKey, GoodParam
  <2>3. /\ p.on \notin Bound /\ ~p.default
        /\ p.on = NoType \/ RootsFor(p.on, at) = {}
    BY <2>0 DEF BuildRaises
  <2>4. p.on \in Classes /\ RootSatisfies(p.on, scope[k]) /\ RootsFor(p.on, at) = {}
    BY <2>2, <2>3 DEF UnresolvedParam
  <2>5. PICK s \in DOMAIN RootType : s <= scope[k] /\ IsSubclass(p.on, RootType[s])
    BY <2>4 DEF RootSatisfies
  <2>6. s \in Levels /\ scope[k] \in Levels /\ s \in DOMAIN RootClass
    BY <2>2, <2>5, WiringAssumption DEF IInv, TypeOK
  <2>7. s <= at
    BY <2>5, <2>6, WiringAssumption DEF Levels
  <2>8. IsSubclass(RootClass[s], p.on)
    BY <2>4, <2>5
  <2> QED
    BY <2>4, <2>6, <2>7, <2>8 DEF RootsFor
<1> QED
  BY <1>1, Invariant, PTL

-----------------------------------------------------------------------------
(* The loop follows needs from the entries: what was seen is reachable, and *)
(* what it needs was seen or is still on the worklist.                      *)
SearchInv ==
  /\ entries \cap Keys \subseteq seen \cup pending
  /\ \A k \in seen : needs[k] \cap Keys \subseteq seen \cup pending
  /\ (seen \cup pending) \cap Keys \subseteq R!Reachable
  /\ targets = appKeys \cap seen

WalkInv == R!TypeOK /\ SearchInv

(* The reachable keys are themselves closed: what one needs is reachable. *)
LEMMA ReachableClosed ==
  ASSUME NEW k \in R!Reachable
  PROVE  needs[k] \cap Keys \subseteq R!Reachable
<1> SUFFICES ASSUME NEW d \in needs[k] \cap Keys, NEW S \in SUBSET Keys, R!Closed(S)
             PROVE  d \in S
  BY DEF R!Reachable
<1>1. k \in S
  BY DEF R!Reachable
<1> QED
  BY <1>1 DEF R!Closed

LEMMA EntriesReachable == entries \cap Keys \subseteq R!Reachable
BY DEF R!Reachable, R!Closed

LEMMA WalkInitially == R!Init => WalkInv
<1> SUFFICES ASSUME R!Init PROVE WalkInv
  OBVIOUS
<1>1. R!TypeOK
  BY DEF R!Init, R!graph, R!TypeOK
<1>2. SearchInv
  BY EntriesReachable DEF R!Init, R!graph, SearchInv
<1> QED
  BY <1>1, <1>2 DEF WalkInv

LEMMA SkipStep ==
  ASSUME WalkInv, NEW k \in Keys \cup Unbound, R!Skip(k)
  PROVE  WalkInv'
<1>1. R!TypeOK'
  BY DEF WalkInv, R!TypeOK, R!Skip, R!graph
<1>2. /\ seen' \cup pending' \subseteq seen \cup pending
      /\ (seen \cup pending) \cap Keys \subseteq seen' \cup pending'
  BY DEF R!Skip, R!graph
<1>3. R!Reachable' = R!Reachable
  BY DEF R!Skip, R!graph, R!Reachable, R!Closed
<1> QED
  BY <1>1, <1>2, <1>3 DEF WalkInv, SearchInv, R!Skip, R!graph

LEMMA ExpandStep ==
  ASSUME WalkInv, NEW k \in Keys, R!Expand(k)
  PROVE  WalkInv'
<1>1. R!TypeOK'
  BY DEF WalkInv, R!TypeOK, R!Expand, R!graph
<1>2. R!Reachable' = R!Reachable
  BY DEF R!Expand, R!graph, R!Reachable, R!Closed
<1>3. k \in R!Reachable
  BY DEF WalkInv, SearchInv, R!Expand, R!graph
<1>4. needs[k] \cap Keys \subseteq R!Reachable
  BY <1>3, ReachableClosed
<1>5. targets' = appKeys' \cap seen'
  BY DEF WalkInv, SearchInv, R!Expand, R!graph
<1>6. seen' \cup pending' = seen \cup pending \cup needs[k]
  BY DEF R!Expand, R!graph
<1>7. (seen' \cup pending') \cap Keys \subseteq R!Reachable'
  BY <1>2, <1>4, <1>6 DEF WalkInv, SearchInv
<1>8. \A d \in seen' : needs'[d] \cap Keys \subseteq seen' \cup pending'
  BY <1>6 DEF WalkInv, SearchInv, R!Expand, R!graph
<1>9. entries' \cap Keys \subseteq seen' \cup pending'
  BY <1>6 DEF WalkInv, SearchInv, R!Expand, R!graph
<1> QED
  BY <1>1, <1>5, <1>7, <1>8, <1>9 DEF WalkInv, SearchInv

LEMMA WalkStutters == ASSUME WalkInv, UNCHANGED R!vars PROVE WalkInv'
BY DEF WalkInv, R!TypeOK, SearchInv, R!Reachable, R!Closed, R!vars, R!graph

LEMMA WalkStep == WalkInv /\ [R!Next]_(R!vars) => WalkInv'
BY SkipStep, ExpandStep, WalkStutters DEF R!Next, R!Returned, R!vars, R!graph

(* Beside a validation as in the run, the search invariant always holds.   *)
THEOREM WalkInvariant == MCSpec => []WalkInv
<1>1. MCInit => WalkInv
  BY WalkInitially DEF MCInit, WalkInit, Walked, WalkInv, SearchInv, R!TypeOK
<1>2. WalkInv /\ [MCNext]_<<vars, walk>> => WalkInv'
  BY WalkStep DEF MCNext, walk, R!vars, R!graph
<1> QED
  BY <1>1, <1>2, PTL DEF MCSpec

LEMMA SeenAtTheEnd == WalkInv => TargetsAreReachableAppKeys
<1> SUFFICES ASSUME WalkInv, pending = {} PROVE targets = appKeys \cap R!Reachable
  BY DEF TargetsAreReachableAppKeys, R!TargetsAreReachableAppKeys
<1>1. seen \in SUBSET Keys /\ R!Closed(seen)
  BY DEF WalkInv, R!TypeOK, SearchInv, R!Closed
<1>2. R!Reachable \subseteq seen
  BY <1>1 DEF R!Reachable
<1>3. seen \subseteq R!Reachable
  BY <1>1 DEF WalkInv, SearchInv
<1> QED
  BY <1>2, <1>3 DEF WalkInv, SearchInv

(* reachable_app_keys returns exactly the app-scoped keys that the entry   *)
(* types reach, whatever the graph and the entries.                        *)
THEOREM EveryWalk == R!Spec => []TargetsAreReachableAppKeys
<1>1. R!Spec => []WalkInv
  BY WalkInitially, WalkStep, PTL DEF R!Spec
<1> QED
  BY <1>1, SeenAtTheEnd, PTL

(* The same beside a validation, as in the run.                            *)
THEOREM TargetsCorrect == MCSpec => []TargetsAreReachableAppKeys
BY SeenAtTheEnd, WalkInvariant, PTL
=============================================================================
