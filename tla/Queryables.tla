------------------------------ MODULE Queryables ------------------------------
(***************************************************************************)
(* gazebo.filtering.queryables: the dotted names that a model's schema     *)
(* advertises for filters and for sorting.  A node of the schema is [kind, *)
(* ref, of]: null, scalar, array, object (with no declared properties),    *)
(* geometry (a GeoJSON type or the discriminated union of them), model     *)
(* (whose fields defs has under ref) or union (of the branches in of).     *)
(***************************************************************************)
EXTENDS Integers, Sequences

CONSTANT None

(* A nullable node is the one branch that is not null; one with several    *)
(* branches besides null stays a union.                                    *)
UnwrapNullable(node) ==
  LET nonNull == {b \in node.of : b.kind # "null"}
  IN IF node.kind = "union" /\ \E b \in nonNull : nonNull = {b}
     THEN CHOOSE b \in nonNull : TRUE ELSE node

IsGeometry(node) ==
  \/ node.kind = "geometry"
  \/ node.kind = "union" /\ \A b \in node.of : b.kind = "geometry"

(* The names of a model's fields, deeper giving those of nested models;    *)
(* scalars_only leaves out geometries and arrays.                          *)
NamesIn(fields, deeper, scalarsOnly) ==
  LET Advertised(name, node) ==
        IF node.kind = "model" THEN {<<name>> \o p : p \in deeper[node.ref]}
        ELSE IF scalarsOnly /\ (IsGeometry(node) \/ node.kind = "array") THEN {}
        ELSE {<<name>>}
  IN UNION {Advertised(name, UnwrapNullable(fields[name])) : name \in DOMAIN fields}

(* Levels of nested models that are opened below the fields of the root,   *)
(* which are flattened whatever max_depth is.                              *)
LevelsOneMore(maxDepth) == maxDepth   \* mutant: max_depth is passed
Levels(maxDepth) == IF maxDepth = 0 THEN 0 ELSE maxDepth - 1

(* _flatten calls itself for each field of a nested model, down to models  *)
(* at max_depth, of which nothing is advertised.                           *)
Flatten(defs, model, maxDepth, scalarsOnly) ==
  LET below[left \in 0 .. Levels(maxDepth)] ==
        LET deeper == IF left = 0 THEN [m \in DOMAIN defs |-> {}] ELSE below[left - 1]
        IN [m \in DOMAIN defs |-> NamesIn(defs[m], deeper, scalarsOnly)]
  IN below[Levels(maxDepth)][model]

QueryablesFromModel(defs, model, maxDepth) == Flatten(defs, model, maxDepth, FALSE)
SortablesFromModel(defs, model, maxDepth) == Flatten(defs, model, maxDepth, TRUE)

(* The names that a filter refers to must all be on offer.                 *)
ValidateProperties(referenced, queryables) ==
  IF referenced \subseteq queryables THEN "ok" ELSE "FilterError"

(* _dotted_get: nested mappings are walked, anything else ends in None.    *)
(* An item has the kind of the value at each path that its mappings hold.  *)
DottedGet(item, path) ==
  IF /\ \A n \in 1 .. Len(path) - 1 :
          SubSeq(path, 1, n) \in DOMAIN item /\ item[SubSeq(path, 1, n)] = "dict"
     /\ path \in DOMAIN item
  THEN item[path] ELSE None

-----------------------------------------------------------------------------
(* The reference, from the root down and with no limit: the node that the  *)
(* fields of a path declare, None where the path leaves the models.        *)
NodeAt(defs, model, path) ==
  LET Step(node, name) ==
        IF node = None \/ node.kind # "model" THEN None
        ELSE IF name \in DOMAIN defs[node.ref] THEN UnwrapNullable(defs[node.ref][name]) ELSE None
      node[n \in 0 .. Len(path)] ==
        IF n = 0 THEN [kind |-> "model", ref |-> model, of |-> {}] ELSE Step(node[n - 1], path[n])
  IN node[Len(path)]

Paths(names, depth) == UNION {[1 .. n -> names] : n \in 1 .. depth}

(* A filter can refer to each value of an item that is nested no deeper    *)
(* than the limit and is no nested model itself, to nothing deeper and to  *)
(* nothing inside a geometry or a free mapping; a name that can be sorted  *)
(* by can be filtered by, and one that is declared an array never is one.  *)
(* A limit of 0 works as 1.                                                *)
NamesReachLeaves(defs, model, maxDepth, item) ==
  LET queryables == QueryablesFromModel(defs, model, maxDepth)
      sortables == SortablesFromModel(defs, model, maxDepth)
      Declared(p) == NodeAt(defs, model, p)
      limit == IF maxDepth = 0 THEN 1 ELSE maxDepth
  IN /\ \A p \in DOMAIN item :
          LET nested == Declared(p) = None \/ Declared(p).kind = "model"
          IN DottedGet(item, p) # None =>
               (ValidateProperties({p}, queryables) = "ok" <=> (Len(p) <= limit /\ ~nested))
     /\ \A p \in queryables : DottedGet(item, p) = "dict" => Declared(p).kind # "model"
     /\ sortables \subseteq queryables
     /\ \A p \in sortables : DottedGet(item, p) = "array" => Declared(p).kind = "union"
=============================================================================
