------------------------ MODULE ReplayableReceiveProofs ------------------------
(***************************************************************************)
(* What every number of forks and every body length share, whatever pulls  *)
(* overlap or are cancelled: only a fork that another's message overtook   *)
(* at its await returns messages out of place or waits for one that never  *)
(* comes.                                                                  *)
(***************************************************************************)
EXTENDS ReplayableReceive, TLAPS

(* The cache: messages are pulled and cached one by one, in order. *)
CacheInv ==
  /\ arrived \in 0..Body /\ taken \in 0..arrived
  /\ cache = Upto(taken)
  /\ cancels \in 0..MaxCancels

(* The forks: index counts what was returned, and a fork that has counted *)
(* as far as the cache reaches has returned the last message of it.       *)
ForksInv ==
  /\ index \in [Readers -> 0..taken]
  /\ got \in [Readers -> Seq(1..Body)]
  /\ misled \subseteq Readers
  /\ \A f \in Readers \ misled : got[f] = Upto(index[f])
  /\ \A f \in Readers :
       index[f] = taken /\ taken > 0 => \E i \in DOMAIN got[f] : got[f][i] = taken

(* The pulls: who awaits the channel wants more, and whose await no other *)
(* message overtook is level with the cache.                              *)
PullsInv ==
  /\ overtaken \subseteq pulling /\ pulling \subseteq Readers
  /\ \A f \in pulling : Wants(f)
  /\ \A f \in pulling \ overtaken : index[f] = taken

IInv == CacheInv /\ ForksInv /\ PullsInv

(* Appending the next message to a prefix of the body gives a prefix. *)
LEMMA UptoGrows ==
  ASSUME NEW n \in Nat
  PROVE  Append(Upto(n), n + 1) = Upto(n + 1)
<1>1. Upto(n) \in Seq(Nat) /\ Len(Upto(n)) = n
  BY DEF Upto
<1>2. Append(Upto(n), n + 1) = [i \in 1..(n + 1) |-> IF i = n + 1 THEN n + 1 ELSE Upto(n)[i]]
  BY <1>1
<1>3. \A i \in 1..(n + 1) : i # n + 1 => Upto(n)[i] = i
  BY DEF Upto
<1> QED
  BY <1>2, <1>3 DEF Upto

LEMMA UptoIsSeq ==
  ASSUME NEW n \in Nat
  PROVE  /\ Upto(n) \in Seq(1..n) /\ Len(Upto(n)) = n
         /\ \A i \in 1..n : Upto(n)[i] = i
  BY DEF Upto

LEMMA UptoInBody ==
  ASSUME NEW n \in 0..Body
  PROVE  Upto(n) \in Seq(1..Body)
  BY BodyAssumption DEF Upto

(* What a return adds: the message is the last of what the fork has. *)
LEMMA Appended ==
  ASSUME NEW s \in Seq(1..Body), NEW m \in 1..Body
  PROVE  /\ Append(s, m) \in Seq(1..Body)
         /\ \E i \in DOMAIN Append(s, m) : Append(s, m)[i] = m
<1>1. Append(s, m) \in Seq(1..Body)
  OBVIOUS
<1>2. Len(s) + 1 \in DOMAIN Append(s, m) /\ Append(s, m)[Len(s) + 1] = m
  OBVIOUS
<1> QED
  BY <1>1, <1>2

(* The inductive invariant. *)
LEMMA Invariant == Spec => []IInv
<1> USE BodyAssumption, CancelsAssumption
<1>1. Init => IInv
  BY DEF Init, IInv, CacheInv, ForksInv, PullsInv, Upto
<1>2. IInv /\ [Next]_vars => IInv'
  <2> SUFFICES ASSUME IInv, [Next]_vars PROVE IInv'
    OBVIOUS
  <2> USE DEF IInv, CacheInv, ForksInv, PullsInv
  <2>0. taken \in Nat /\ Len(cache) = taken /\ \A i \in 1..taken : cache[i] = i
    BY UptoIsSeq
  <2>1. CASE Arrive
    BY <2>1 DEF Arrive, history, Wants
  <2>2. ASSUME NEW f \in Readers, Replay(f) PROVE IInv'
    <3> DEFINE m == index[f] + 1
    <3>1. m \in 1..taken /\ m \in 1..Body /\ cache[m] = m /\ index[f] \in Nat
      BY <2>0, <2>2 DEF Replay
    <3>2. /\ index' = [index EXCEPT ![f] = m]
          /\ got' = [got EXCEPT ![f] = Append(got[f], m)]
          /\ UNCHANGED <<arrived, taken, cache, pulling, cancels, overtaken, misled>>
          /\ f \notin pulling
      BY <2>2, <3>1 DEF Replay, Return
    <3>3. /\ Append(got[f], m) \in Seq(1..Body)
          /\ \E i \in DOMAIN Append(got[f], m) : Append(got[f], m)[i] = m
      BY <3>1, Appended
    <3>4. f \notin misled => Append(got[f], m) = Upto(m)
      BY <3>1, UptoGrows
    <3>5. CacheInv' /\ PullsInv'
      BY <3>2 DEF Wants
    <3>6. ForksInv'
      <4>1. index' \in [Readers -> 0..taken'] /\ got' \in [Readers -> Seq(1..Body)]
        BY <3>1, <3>2, <3>3
      <4>2. \A g \in Readers \ misled' : got'[g] = Upto(index'[g])
        BY <3>2, <3>4
      <4>3. ASSUME NEW g \in Readers, index'[g] = taken', taken' > 0
            PROVE  \E i \in DOMAIN got'[g] : got'[g][i] = taken'
        <5>1. CASE g = f
          BY <3>2, <3>3, <4>3, <5>1
        <5>2. CASE g # f
          BY <3>2, <4>3, <5>2
        <5> QED
          BY <5>1, <5>2
      <4>4. misled' \subseteq Readers
        BY <3>2
      <4> QED
        BY <4>1, <4>2, <4>3, <4>4
    <3> QED
      BY <3>5, <3>6
  <2>3. ASSUME NEW f \in Readers, Pull(f) PROVE IInv'
    BY <2>0, <2>3 DEF Pull, history, Wants
  <2>4. ASSUME NEW f \in Readers, Pulled(f) PROVE IInv'
    <3> DEFINE m == taken + 1
    <3>1. f \in pulling /\ m \in 1..Body /\ m <= arrived /\ index[f] \in 0..taken
      BY <2>0, <2>4 DEF Pulled
    <3>2. /\ taken' = m /\ cache' = Append(cache, m)
          /\ index' = [index EXCEPT ![f] = index[f] + 1]
          /\ got' = [got EXCEPT ![f] = Append(got[f], m)]
          /\ pulling' = pulling \ {f}
          /\ overtaken' = (overtaken \cup pulling) \ {f}
          /\ misled' = misled \cup (overtaken \cap {f})
          /\ UNCHANGED <<arrived, cancels>>
      BY <2>4 DEF Pulled, Return
    <3>3. /\ Append(got[f], m) \in Seq(1..Body)
          /\ \E i \in DOMAIN Append(got[f], m) : Append(got[f], m)[i] = m
      BY <3>1, Appended
    <3>4. Append(Upto(taken), m) = Upto(m)
      BY <2>0, UptoGrows
    <3>5. f \notin misled' => got[f] = Upto(taken) /\ index[f] = taken
      BY <3>1, <3>2
    <3>6. CacheInv'
      BY <3>1, <3>2, <3>4
    <3>7. PullsInv'
      BY <3>2 DEF Wants
    <3>8. ForksInv'
      <4>1. index' \in [Readers -> 0..taken'] /\ got' \in [Readers -> Seq(1..Body)]
        BY <3>1, <3>2, <3>3
      <4>2. \A g \in Readers \ misled' : got'[g] = Upto(index'[g])
        BY <3>2, <3>4, <3>5
      <4>3. ASSUME NEW g \in Readers, index'[g] = taken', taken' > 0
            PROVE  \E i \in DOMAIN got'[g] : got'[g][i] = taken'
        <5>1. g = f
          BY <3>2, <4>3, <2>0
        <5> QED
          BY <3>2, <3>3, <5>1
      <4>4. misled' \subseteq Readers
        BY <3>2
      <4> QED
        BY <4>1, <4>2, <4>3, <4>4
    <3> QED
      BY <3>6, <3>7, <3>8
  <2>5. ASSUME NEW f \in Readers, Cancel(f) PROVE IInv'
    BY <2>5 DEF Cancel, Wants
  <2>6. CASE UNCHANGED vars
    BY <2>6 DEF vars, history, Wants
  <2> QED
    BY <2>1, <2>2, <2>3, <2>4, <2>5, <2>6 DEF Next, ReaderStep, AllRead
<1> QED
  BY <1>1, <1>2, PTL DEF Spec

(* The state has its type at every step. *)
THEOREM TypeCorrect == Spec => []TypeOK
<1>1. IInv => TypeOK
  <2> SUFFICES ASSUME IInv PROVE TypeOK
    OBVIOUS
  <2>1. Upto(taken) \in Seq(1..Body)
    BY BodyAssumption, UptoInBody DEF IInv, CacheInv
  <2> QED
    BY <2>1, BodyAssumption DEF IInv, CacheInv, ForksInv, PullsInv, TypeOK
<1> QED
  BY <1>1, Invariant, PTL

(* A fork that was never overtaken at its await returns the body from its *)
(* first message on, whatever the other forks pull, replay or cancel.     *)
THEOREM ReadersCorrect == Spec => []UndisturbedReadTheBody
<1>1. IInv => UndisturbedReadTheBody
  <2> SUFFICES ASSUME IInv, NEW f \in Readers \ misled
               PROVE  got[f] = Upto(Len(got[f]))
    BY DEF UndisturbedReadTheBody
  <2>1. index[f] \in Nat /\ got[f] = Upto(index[f])
    BY DEF IInv, CacheInv, ForksInv
  <2> QED
    BY <2>1, UptoIsSeq
<1> QED
  BY <1>1, Invariant, PTL

(* A fork that waits on a used-up channel was overtaken by the last       *)
(* message: one that reached it level with the cache has the end already. *)
THEOREM NoHanging == Spec => []HangsOnlyIfOvertaken
<1>1. IInv => HangsOnlyIfOvertaken
  <2> SUFFICES ASSUME IInv, NEW f \in pulling, taken = Body, f \notin overtaken
               PROVE  FALSE
    BY DEF HangsOnlyIfOvertaken, Hangs
  <2>1. f \in Readers /\ index[f] = taken /\ taken > 0
    BY BodyAssumption DEF IInv, PullsInv
  <2>2. \E i \in DOMAIN got[f] : got[f][i] = Body
    BY <2>1 DEF IInv, ForksInv
  <2> QED
    BY <2>2 DEF IInv, PullsInv, Wants
<1> QED
  BY <1>1, Invariant, PTL
=============================================================================
