------------------------------ MODULE GraphCheck ------------------------------
(***************************************************************************)
(* What Container.__init__ does with a wiring before it lets anyone        *)
(* resolve from it (src/src/gazebo/di/container.py): merge the overrides,  *)
(* check every parameter, search for a cycle.  The wiring is chosen in     *)
(* Init; dictionaries are walked in any order.                             *)
(***************************************************************************)
EXTENDS Integers, Sequences, FiniteSets

CONSTANTS
  Keys,         \* keys a provider may bind
  Classes,      \* classes nobody binds
  NoType,       \* the type of a parameter whose annotation does not resolve
  Subclass,     \* issubclass on Classes, as a set of pairs <<class, base>>
  Scopes,       \* number of declared scopes; their indexes are 0..Scopes-1
  Undeclared,   \* a scope name that was not declared
  RootType,     \* Container.roots: the declared root class of some scopes
  RootClass,    \* the class of the root object each of these scopes is given
  Bindable,     \* the scopes providers name
  Overridable,  \* the keys that may be overridden
  Params,       \* the parameters a recipe may have
  MaxParams     \* bound on the parameters of one recipe

Levels == 0 .. Scopes - 1
Param == [on : Keys \cup Classes \cup {NoType}, default : BOOLEAN]

ASSUME WiringAssumption ==
  /\ Scopes \in Nat \ {0} /\ MaxParams \in Nat
  /\ Undeclared \notin Levels /\ Bindable \subseteq Levels \cup {Undeclared}
  /\ Overridable \subseteq Keys
  /\ Params \subseteq Param
  /\ Keys \cap Classes = {} /\ NoType \notin Keys \cup Classes
  /\ DOMAIN RootType \subseteq Levels /\ DOMAIN RootClass = DOMAIN RootType

VARIABLES
  scope,        \* bindings: the scope index of every bound key
  overrides,    \* parameters of the overriding recipes
  deps,         \* parameters of the recipe each bound key has
  unchecked,    \* bound keys the loop of check has still to look at
  path,         \* keys of the nested visit calls
  next,         \* next parameter each visit call looks at
  visiting, done,
  verdict       \* "running", "accepted", or the exception raised

wiring == <<scope, overrides, deps>>
search == <<path, next, visiting, done>>
vars == <<wiring, unchecked, search, verdict>>

Bound == DOMAIN scope
Recipes == UNION {[1..n -> Params] : n \in 0..MaxParams}

-----------------------------------------------------------------------------
(* _merge: an override keeps the scope and replaces the recipe. *)
Merge ==
  /\ verdict = "merging" /\ DOMAIN overrides \subseteq Bound
  /\ deps' = [k \in Bound |->
                IF k \in DOMAIN overrides THEN overrides[k] ELSE deps[k]]
  /\ unchecked' = Bound
  /\ verdict' = "running"
  /\ UNCHANGED <<scope, overrides, search>>

MergeRaises ==
  /\ verdict = "merging" /\ ~(DOMAIN overrides \subseteq Bound)
  /\ verdict' = "KeyError"
  /\ UNCHANGED <<wiring, unchecked, search>>

-----------------------------------------------------------------------------
IsSubclass(c, base) == c = base \/ <<c, base>> \in Subclass

(* Mutant: any declared root will do. *)
AnyRootSatisfies(class, level) ==
  \E s \in DOMAIN RootType : IsSubclass(class, RootType[s])

(* _root_satisfies: a root of this scope or of an outer one. *)
RootSatisfies(class, level) ==
  \E s \in DOMAIN RootType : s <= level /\ IsSubclass(class, RootType[s])

(* Mutant: the scopes are compared the wrong way round. *)
MismatchedInward(k, p) ==
  /\ p.on \in Bound /\ scope[p.on] # Undeclared
  /\ scope[p.on] < scope[k]

MismatchedParam(k, p) ==
  /\ p.on \in Bound /\ scope[p.on] # Undeclared
  /\ scope[p.on] > scope[k]

UnresolvedParam(k, p) ==
  \/ p.on = NoType /\ ~p.default
  \/ p.on \in Bound /\ scope[p.on] = Undeclared
  \/ /\ p.on \notin Bound /\ p.on # NoType /\ ~p.default
     /\ p.on \notin Classes \/ ~RootSatisfies(p.on, scope[k])

GoodParam(k, p) == ~MismatchedParam(k, p) /\ ~UnresolvedParam(k, p)
GoodKey(k) ==
  scope[k] # Undeclared /\ \A i \in DOMAIN deps[k] : GoodParam(k, deps[k][i])

(* check: the first bad parameter of a key decides the exception. *)
CheckKey(k) ==
  /\ verdict = "running" /\ k \in unchecked
  /\ GoodKey(k)
  /\ unchecked' = unchecked \ {k}
  /\ UNCHANGED <<wiring, search, verdict>>

CheckRaises(k) ==
  /\ verdict = "running" /\ k \in unchecked
  /\ \/ scope[k] = Undeclared /\ verdict' = "UnresolvedDependencyError"
     \/ /\ scope[k] # Undeclared
        /\ \E i \in DOMAIN deps[k] :
             /\ \A j \in 1..(i - 1) : GoodParam(k, deps[k][j])
             /\ \/ /\ MismatchedParam(k, deps[k][i])
                   /\ verdict' = "ScopeMismatchError"
                \/ /\ UnresolvedParam(k, deps[k][i])
                   /\ verdict' = "UnresolvedDependencyError"
  /\ UNCHANGED <<wiring, unchecked, search>>

-----------------------------------------------------------------------------
(* _check_cycles: a depth-first search from every key not yet done. *)
Here == path[Len(path)]
LooksAt == deps[Here][next[Here]].on
AtParam == path # <<>> /\ next[Here] <= Len(deps[Here])

Enter(k) ==
  /\ path' = Append(path, k)
  /\ visiting' = visiting \cup {k}

Visit(k) ==
  /\ verdict = "running" /\ unchecked = {} /\ path = <<>>
  /\ k \in Bound \ done
  /\ Enter(k)
  /\ UNCHANGED <<wiring, unchecked, next, done, verdict>>

(* Mutant: the search looks at the same parameter for ever. *)
SkipNothing ==
  /\ verdict = "running" /\ AtParam
  /\ LooksAt \notin visiting
  /\ LooksAt \notin Bound \/ LooksAt \in done
  /\ UNCHANGED vars

SkipParam ==
  /\ verdict = "running" /\ AtParam
  /\ LooksAt \notin visiting
  /\ LooksAt \notin Bound \/ LooksAt \in done
  /\ next' = [next EXCEPT ![Here] = @ + 1]
  /\ UNCHANGED <<wiring, unchecked, path, visiting, done, verdict>>

Descend ==
  /\ verdict = "running" /\ AtParam
  /\ LooksAt \in Bound /\ LooksAt \notin visiting \cup done
  /\ Enter(LooksAt)
  /\ next' = [next EXCEPT ![Here] = @ + 1]
  /\ UNCHANGED <<wiring, unchecked, done, verdict>>

CycleRaises ==
  /\ verdict = "running" /\ AtParam
  /\ LooksAt \in Bound /\ LooksAt \in visiting
  /\ verdict' = "CircularDependencyError"
  /\ UNCHANGED <<wiring, unchecked, search>>

(* Mutant: a key that was left still counts as being visited. *)
LeaveVisiting ==
  /\ verdict = "running" /\ path # <<>> /\ ~AtParam
  /\ done' = done \cup {Here}
  /\ path' = SubSeq(path, 1, Len(path) - 1)
  /\ UNCHANGED <<wiring, unchecked, next, visiting, verdict>>

Leave ==
  /\ verdict = "running" /\ path # <<>> /\ ~AtParam
  /\ visiting' = visiting \ {Here}
  /\ done' = done \cup {Here}
  /\ path' = SubSeq(path, 1, Len(path) - 1)
  /\ UNCHANGED <<wiring, unchecked, next, verdict>>

Accept ==
  /\ verdict = "running" /\ unchecked = {} /\ path = <<>>
  /\ done = Bound
  /\ verdict' = "accepted"
  /\ UNCHANGED <<wiring, unchecked, search>>

-----------------------------------------------------------------------------
Init ==
  /\ \E B \in SUBSET Keys :
       /\ scope \in [B -> Bindable]
       /\ deps \in [B -> Recipes]
  /\ \E O \in SUBSET Overridable : overrides \in [O -> Recipes]
  /\ unchecked = {} /\ path = <<>>
  /\ next = [k \in Keys |-> 1]
  /\ visiting = {} /\ done = {}
  /\ verdict = "merging"

Over == verdict \notin {"merging", "running"} /\ UNCHANGED vars

Next ==
  \/ Merge
  \/ MergeRaises
  \/ \E k \in Keys : CheckKey(k)
  \/ \E k \in Keys : CheckRaises(k)
  \/ \E k \in Keys : Visit(k)
  \/ SkipParam
  \/ Descend
  \/ CycleRaises
  \/ Leave
  \/ Accept
  \/ Over

Spec == Init /\ [][Next]_vars /\ WF_vars(Next)

-----------------------------------------------------------------------------
(* What get and _build do at run time with a parameter that is not bound:  *)
(* self is a scope of index at, and its lineage holds the outer ones too.  *)
RootsFor(class, at) ==
  {s \in DOMAIN RootClass : s <= at /\ IsSubclass(RootClass[s], class)}

BuildRaises(p, at) ==
  p.on \notin Bound /\ ~p.default /\ (p.on = NoType \/ RootsFor(p.on, at) = {})

(* The nearest scope whose root the parameter is given. *)
GivenRootOf(p, at, s) ==
  /\ p.on \notin Bound /\ p.on # NoType
  /\ s \in RootsFor(p.on, at) /\ \A t \in RootsFor(p.on, at) : t <= s

(* No set of keys in which each one has a parameter in the set again. *)
DependsInto(k, S) == \E i \in DOMAIN deps[k] : deps[k][i].on \in S
Acyclic(K) ==
  \A S \in SUBSET K : S # {} => \E k \in S : ~DependsInto(k, S)

Outcomes == {"accepted", "KeyError", "UnresolvedDependencyError",
             "ScopeMismatchError", "CircularDependencyError"}

(* Every variable keeps its type; path holds the visiting keys. *)
TypeOK ==
  /\ Bound \subseteq Keys /\ scope \in [Bound -> Bindable]
  /\ DOMAIN overrides \subseteq Overridable
  /\ \A k \in DOMAIN overrides : overrides[k] \in Recipes
  /\ deps \in [Bound -> Recipes]
  /\ unchecked \subseteq Bound
  /\ path \in Seq(Bound) /\ visiting = {path[i] : i \in DOMAIN path}
  /\ next \in [Keys -> 1 .. MaxParams + 1]
  /\ done \subseteq Bound
  /\ verdict \in Outcomes \cup {"merging", "running"}

(* docs/di/scopes.md: a cycle is refused when the container is built, and *)
(* only a cycle is refused as one (a diamond, say, is not).               *)
CyclesFound ==
  /\ verdict = "accepted" => Acyclic(Bound)
  /\ verdict = "CircularDependencyError" => ~Acyclic(Bound)

(* docs/di/scopes.md: no accepted recipe depends on a type of an inner    *)
(* scope, which it would outlive.                                         *)
DependenciesOutward ==
  verdict = "accepted" =>
    \A k \in Bound : \A i \in DOMAIN deps[k] :
      deps[k][i].on \in Bound => scope[deps[k][i].on] <= scope[k]

(* docs/di/scopes.md: "startup failures, not per-request surprises": once *)
(* the container exists no parameter is found unresolvable by a build.    *)
AcceptedGraphsResolve ==
  verdict = "accepted" =>
    \A k \in Bound : \A at \in scope[k] .. Scopes - 1 :
      \A i \in DOMAIN deps[k] : ~BuildRaises(deps[k][i], at)

(* docs/di/scopes.md: what an app-scoped recipe is given never belongs to *)
(* a request, which it would outlive: not the request's root either.      *)
RootsNotOutlived ==
  verdict = "accepted" =>
    \A k \in Bound : \A at \in scope[k] .. Scopes - 1 :
      \A i \in DOMAIN deps[k] : \A s \in Levels :
        GivenRootOf(deps[k][i], at, s) => s <= scope[k]

(* The validation comes to an end on every wiring, cyclic ones included. *)
Decides == <>(verdict \in Outcomes)
=============================================================================
