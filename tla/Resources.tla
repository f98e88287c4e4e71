------------------------------ MODULE Resources ------------------------------
(***************************************************************************)
(* What a dependency-injection container promises about the resources it   *)
(* builds, with no word about scopes, caches or tasks: a resource is       *)
(* acquired only while everything it uses is live, it is released only     *)
(* when nothing live uses it any more, and in the end it is released.      *)
(* Scopes.tla is shown to implement this contract.                         *)
(***************************************************************************)
EXTENDS Integers, Sequences

CONSTANT Managed          \* the keys whose resources must be released

VARIABLES
  made,                   \* every instance ever built, in order: [key, owner, uses]
  live                    \* the instances acquired and not yet released

vars == <<made, live>>

NeedsRelease(n) == made[n].key \in Managed

(***************************************************************************)
(* The last element of made is the one this step appends; uses holds the   *)
(* indexes of every instance reachable through its arguments.              *)
(***************************************************************************)
Acquire ==
  LET n == Len(made) + 1 IN
  /\ Len(made') = n
  /\ \A i \in DOMAIN made : made'[i] = made[i]
  /\ made'[n].uses \subseteq DOMAIN made
  /\ \A i \in made'[n].uses : NeedsRelease(i) => i \in live
  /\ live' = IF made'[n].key \in Managed THEN live \cup {n} ELSE live

Release ==
  /\ \E n \in live : /\ \A m \in live : n \notin made[m].uses
                     /\ live' = live \ {n}
  /\ UNCHANGED made

Init == made = <<>> /\ live = {}

Next == Acquire \/ Release

SafeSpec == Init /\ [][Next]_vars

(* Whatever happens, a time always comes when nothing is left to release. *)
Spec == SafeSpec /\ []<>(live = {})
=============================================================================
