---------------------------- MODULE MCGraphCheck ----------------------------
(***************************************************************************)
(* Small families of wirings for the runs of GraphCheck, and beside them   *)
(* the graphs that Reachability walks: a behaviour of MCSpec validates one *)
(* wiring or collects the targets of one graph.                            *)
(***************************************************************************)
EXTENDS GraphCheck, TLC

CONSTANT Unbound
VARIABLES entries, appKeys, needs, pending, seen, targets

R == INSTANCE Reachability
walk == <<entries, appKeys, needs, pending, seen, targets>>

NoRoots == <<>>
RequestRoot == 1 :> "Request"

(* Every kind of parameter. *)
AllParams == Param

(* The root class, with a base class and with a subclass. *)
RequestBase == {<<"Request", "Connection">>}
RequestKinds == {<<"SignedRequest", "Request">>}

-----------------------------------------------------------------------------
(* Wirings of some keys by recipes with at most max of the parameters.     *)
Wirings(keys, levels, params, max, overridable) ==
  LET recipes == UNION {[1 .. n -> params] : n \in 0 .. max}
  IN /\ \E B \in SUBSET keys : scope \in [B -> levels] /\ deps \in [B -> recipes]
     /\ \E O \in SUBSET overridable : overrides \in [O -> recipes]

(* Three app keys with up to two bound parameters each; two keys with one  *)
(* parameter of any kind, in any scope, one of them overridden or not.     *)
CyclicInit == Wirings(Keys, {0}, [on : Keys, default : {FALSE}], 2, {}) /\ Init
MixedInit ==
  LET two == CHOOSE K \in SUBSET Keys : Overridable \subseteq K /\ Cardinality(K) = 2
  IN Wirings(two, Bindable, [on : two \cup Classes \cup {NoType}, default : BOOLEAN], 1,
             Overridable) /\ Init

Validated ==
  /\ scope = << >> /\ deps = << >> /\ overrides = << >>
  /\ unchecked = {} /\ path = << >> /\ next = [k \in Keys |-> 1]
  /\ visiting = {} /\ done = {} /\ verdict = "accepted"

(* Two entry types, one of them bound.                                     *)
WalkInit ==
  LET k == CHOOSE k \in Keys : TRUE
  IN entries = {k} \cup Unbound /\ R!Init
Walked ==
  /\ entries = {} /\ appKeys = {} /\ needs = [k \in Keys |-> {}]
  /\ pending = {} /\ seen = {} /\ targets = {}

MCInit == ((CyclicInit \/ MixedInit) /\ Walked) \/ (Validated /\ WalkInit)

MCNext == (Next /\ UNCHANGED walk) \/ (R!Next /\ UNCHANGED vars)

MCSpec ==
  /\ MCInit /\ [][MCNext]_<<vars, walk>>
  /\ WF_vars(Next) /\ WF_walk(R!Next)

(* Reachability: exactly the app-scoped keys the entry types reach.        *)
TargetsAreReachableAppKeys == R!TargetsAreReachableAppKeys

(* Reachability: the worklist loop ends.                                   *)
Returns == R!Returns
=============================================================================
