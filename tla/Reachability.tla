----------------------------- MODULE Reachability -----------------------------
(***************************************************************************)
(* Container.reachable_app_keys (src/src/gazebo/di/container.py): which    *)
(* app-scoped keys open_app_scope builds at once for a set of entry types. *)
(* The graph and the entries are chosen in Init.  The worklist is a set: its order and its  *)
(* duplicates change nothing, since a key already seen is skipped.         *)
(***************************************************************************)
EXTENDS Integers, FiniteSets

CONSTANTS
  Keys,       \* the bound keys
  Unbound     \* other keys that parameters and entry types may name

VARIABLES
  entries,    \* Key(t) of the entry types
  appKeys,    \* bound keys in the app scope
  needs,      \* keys of the typed parameters of each bound key's recipe
  pending,    \* the worklist: stack
  seen, targets

graph == <<entries, appKeys, needs>>
vars == <<graph, pending, seen, targets>>

(* pop; "if key in seen or key not in self.bindings: continue". *)
Skip(k) ==
  /\ k \in pending
  /\ k \in seen \/ k \notin Keys
  /\ pending' = pending \ {k}
  /\ UNCHANGED <<graph, seen, targets>>

(* Mutants: only the dependencies of app-scoped keys are followed; no key *)
(* is ever marked.                                                        *)
ExpandAppOnly(k) ==
  /\ k \in pending /\ k \in Keys \ seen
  /\ seen' = seen \cup {k}
  /\ targets' = IF k \in appKeys THEN targets \cup {k} ELSE targets
  /\ pending' = (pending \ {k}) \cup (IF k \in appKeys THEN needs[k] ELSE {})
  /\ UNCHANGED graph
ExpandForgetting(k) ==
  /\ k \in pending /\ k \in Keys \ seen
  /\ targets' = IF k \in appKeys THEN targets \cup {k} ELSE targets
  /\ pending' = (pending \ {k}) \cup needs[k]
  /\ UNCHANGED <<graph, seen>>

Expand(k) ==
  /\ k \in pending /\ k \in Keys \ seen
  /\ seen' = seen \cup {k}
  /\ targets' = IF k \in appKeys THEN targets \cup {k} ELSE targets
  /\ pending' = (pending \ {k}) \cup needs[k]
  /\ UNCHANGED graph

Init ==
  /\ entries \in SUBSET (Keys \cup Unbound)
  /\ appKeys \in SUBSET Keys
  /\ needs \in [Keys -> SUBSET (Keys \cup Unbound)]
  /\ pending = entries
  /\ seen = {} /\ targets = {}

(* The loop is over: targets is returned. *)
Returned == pending = {} /\ UNCHANGED vars

Next ==
  \/ \E k \in Keys \cup Unbound : Skip(k)
  \/ \E k \in Keys : Expand(k)
  \/ Returned

Spec == Init /\ [][Next]_vars /\ WF_vars(Next)

-----------------------------------------------------------------------------
(* The reference: the bound keys in every set that holds the entries and   *)
(* whatever its members need.                                              *)
Closed(S) ==
  /\ entries \cap Keys \subseteq S
  /\ \A k \in S : needs[k] \cap Keys \subseteq S
Reachable == {k \in Keys : \A S \in SUBSET Keys : Closed(S) => k \in S}

(* Every variable keeps its type. *)
TypeOK ==
  /\ entries \subseteq Keys \cup Unbound
  /\ appKeys \subseteq Keys
  /\ needs \in [Keys -> SUBSET (Keys \cup Unbound)]
  /\ pending \subseteq Keys \cup Unbound
  /\ seen \subseteq Keys /\ targets \subseteq Keys

(* What is built at once is exactly the app-scoped part of what the entry  *)
(* types reach: no dead provider is built, and no request that resolves an *)
(* entry type finds an app-scoped key it has still to build.               *)
TargetsAreReachableAppKeys == pending = {} => targets = appKeys \cap Reachable

(* The loop ends, on cyclic and dangling graphs as well. *)
Returns == <>(pending = {})
=============================================================================
