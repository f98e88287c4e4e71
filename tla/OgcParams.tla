------------------------------ MODULE OgcParams ------------------------------
(***************************************************************************)
(* The OGC query parameters: gazebo.params, and the adapters of            *)
(* ext/fastapi/params.py and ext/fastapi/filtering.py that a request meets *)
(* them through.  Longitudes and latitudes are integers on a globe of a    *)
(* few degrees, times are hours.  A date-time is [at, offset]: what its    *)
(* clock shows and the clock's offset from UTC, None for a naive one.      *)
(***************************************************************************)
EXTENDS Integers, Sequences, FiniteSets

CONSTANTS
  None,
  Text, Infinite,  \* a part that is no number; one that float() takes but is not finite
  Open, Invalid,   \* one side of an interval: '' or '..'; no RFC 3339 date-time
  CRS84

(* A call returns a record, or the exception it raises.                    *)
ParamErrorOf(parameter) == [error |-> "ParamError", parameter |-> parameter]
TypeError == [error |-> "TypeError"]
ValueError == [error |-> "ValueError"]
Failed(result) == "error" \in DOMAIN result

-----------------------------------------------------------------------------
(* BBox.parse and _check_order: x may wrap, y and z may not.               *)
BBoxParse(raw) ==
  LET D3 == Len(raw) = 6
      box == [minx |-> raw[1], miny |-> raw[2], maxx |-> raw[IF D3 THEN 4 ELSE 3],
              maxy |-> raw[IF D3 THEN 5 ELSE 4]]
  IN IF \/ Len(raw) \notin {4, 6}
        \/ \E i \in DOMAIN raw : raw[i] \in {Text, Infinite}
        \/ box.miny > box.maxy
        \/ D3 /\ raw[3] > raw[6]
     THEN ParamErrorOf("bbox") ELSE box

(* Mutant: a box that crosses the antimeridian is empty. *)
BoxContainsUnwrapped(box, lon, lat) ==
  box.miny <= lat /\ lat <= box.maxy /\ box.minx <= lon /\ lon <= box.maxx
BoxContains(box, lon, lat) ==
  /\ box.miny <= lat /\ lat <= box.maxy
  /\ IF box.minx <= box.maxx THEN box.minx <= lon /\ lon <= box.maxx
                             ELSE lon >= box.minx \/ lon <= box.maxx

-----------------------------------------------------------------------------
AsUtc(when) == IF when.offset = None THEN [when EXCEPT !.offset = 0] ELSE when

(* Python compares two aware values by their instants, two naive ones by   *)
(* their clocks, and a naive one with an aware one not at all.             *)
Comparable(v, w) == (v.offset = None) <=> (w.offset = None)
Later(v, w) == IF v.offset = None THEN v.at > w.at ELSE v.at - v.offset > w.at - w.offset

(* DatetimeInterval(start, end) with its validator.                        *)
Interval(start, end) ==
  IF start = None \/ end = None THEN [start |-> start, end |-> end]
  ELSE IF ~Comparable(start, end) THEN TypeError
  ELSE IF Later(start, end) THEN ParamErrorOf("datetime")
  ELSE [start |-> start, end |-> end]

ParseInstant(side) == IF side \in {Open, Invalid} THEN None ELSE AsUtc(side)

(* raw is its sides between the slashes; a second slash is in the end.     *)
IntervalParse(raw) ==
  LET sides == IF Len(raw) > 2 THEN <<raw[1], Invalid>> ELSE raw
      first == ParseInstant(sides[1])  last == ParseInstant(sides[Len(sides)])
  IN IF (\E i \in DOMAIN sides : sides[i] = Invalid) \/ (first = None /\ last = None)
     THEN ParamErrorOf("datetime") ELSE Interval(first, last)

(* Whether when lies in the interval; TypeError where the comparison is.   *)
IntervalContains(interval, when) ==
  LET w == AsUtc(when)
      bounds == {AsUtc(b) : b \in {interval.start, interval.end} \ {None}}
  IN IF \E b \in bounds : ~Comparable(w, b) THEN TypeError
     ELSE /\ interval.start # None => ~Later(AsUtc(interval.start), w)
          /\ interval.end # None => ~Later(w, AsUtc(interval.end))

-----------------------------------------------------------------------------
ValidateCrs(value, allowed, parameter, default) ==
  IF value = None
  THEN IF default = None THEN ParamErrorOf(parameter)
       ELSE IF default \notin allowed THEN ValueError ELSE [crs |-> default]
  ELSE IF value \in allowed THEN [crs |-> value] ELSE ParamErrorOf(parameter)

(* CrsParam: refuses a configuration when it is built, or falls back on    *)
(* CRS84 only where that is allowed.                                       *)
CrsConfigured(allowed, default) == allowed # {} /\ (default # None => default \in allowed)
(* Mutant: CRS84 is the default everywhere. *)
CrsParamAlways84(value, allowed, default) ==
  ValidateCrs(value, allowed, "crs", IF default = None THEN CRS84 ELSE default)
CrsParam(value, allowed, default) ==
  ValidateCrs(value, allowed, "crs",
    IF default # None THEN default ELSE IF CRS84 \in allowed THEN CRS84 ELSE None)

(* FilterParam.  A filter is [lang, valid, properties]: the encoding it is *)
(* written in, whether the engine compiles it, and what it refers to.      *)
FilterParam(value, lang, crs, crsAllowed, queryables) ==
  IF value = None THEN [filter |-> None]
  ELSE IF lang \notin {None, "cql2-json", "cql2-text"} THEN ParamErrorOf("filter-lang")
  ELSE LET resolved == ValidateCrs(crs, crsAllowed, "filter-crs", CRS84)
           asLang == IF lang = None THEN value.lang ELSE lang
       IN IF Failed(resolved) THEN resolved
          ELSE IF asLang # value.lang \/ ~value.valid \/ ~(value.properties \subseteq queryables)
          THEN ParamErrorOf("filter") ELSE [filter |-> value.properties, crs |-> resolved.crs]

(* _bbox_dep: an adapter lets ParamError pass on to its handler.  A folded *)
(* field reports it to pydantic, and the handler names the field's place.  *)
Adapter(raw, parsed) == IF raw = None THEN [value |-> None] ELSE parsed
FoldedField(raw, parsed, field) ==
  IF raw = None THEN [value |-> None]
  ELSE IF Failed(parsed) /\ parsed.error = "ParamError"
       THEN [error |-> "RequestValidationError", parameter |-> field]
  ELSE parsed

-----------------------------------------------------------------------------
(* Going east from minx one comes to maxx, and going on to minx again: two *)
(* boxes with the sides exchanged hold every longitude between them, and   *)
(* only those two both; whatever the height, no latitude but their own.    *)
BoxesSplitTheGlobe(raw, lons, lats) ==
  LET box == BBoxParse(raw)
      other == [box EXCEPT !.minx = box.maxx, !.maxx = box.minx]
  IN /\ Failed(box) <=> ~(/\ Len(raw) \in {4, 6} /\ \A i \in DOMAIN raw : raw[i] \in Int
                          /\ raw[2] <= raw[IF Len(raw) = 4 THEN 4 ELSE 5]
                          /\ Len(raw) = 6 => raw[3] <= raw[6])
     /\ ~Failed(box) => \A lon \in lons, lat \in lats :
          LET here == BoxContains(box, lon, lat)  there == BoxContains(other, lon, lat)
              between == raw[2] <= lat /\ lat <= box.maxy
          IN /\ (here \/ there) <=> (between /\ (box.minx # box.maxx \/ lon = box.minx))
             /\ (here /\ there) <=> (between /\ lon \in {box.minx, box.maxx})

(* The instant that a date-time stands for, a naive one being in UTC.      *)
Instant(when) == when.at - (IF when.offset = None THEN 0 ELSE when.offset)

(* However an interval came about, asking whether it holds a date-time     *)
(* never raises, and the answer depends on the instants only, not on the   *)
(* clocks they are written in; one that was parsed holds its own bounds    *)
(* and is bounded by at least one of them.                                 *)
IntervalsHoldInstants(raw, built, when) ==
  /\ \A interval \in {built, IntervalParse(raw)} :
       ~Failed(interval) =>
         IntervalContains(interval, when) =
           (/\ interval.start # None => Instant(interval.start) <= Instant(when)
            /\ interval.end # None => Instant(when) <= Instant(interval.end))
  /\ IntervalParse(raw) # TypeError
  /\ ~Failed(IntervalParse(raw)) =>
       LET bounds == {IntervalParse(raw).start, IntervalParse(raw).end} \ {None}
       IN bounds # {} /\ \A b \in bounds : IntervalContains(IntervalParse(raw), b)

(* A request for a crs or a filter, on a route that could be defined, gets *)
(* a value of the allow-lists or a 400 for the parameter that is wrong,    *)
(* never a server error (for a filter where CRS84 is allowed).  An adapter *)
(* and a folded field refuse and accept the same.                          *)
ServedOrRefused(value, allowed, default, filter, lang, queryables, raw) ==
  LET crs == CrsParam(value, allowed, default)
      found == FilterParam(filter, lang, value, allowed, queryables)
      box == IF raw = None THEN None ELSE BBoxParse(raw)
  IN /\ CrsConfigured(allowed, default) =>
          \/ crs = ParamErrorOf("crs") /\ value \notin allowed
          \/ crs # ValueError /\ "crs" \in DOMAIN crs /\ crs.crs \in allowed
     /\ CRS84 \in allowed =>
          \/ \E p \in {"filter", "filter-lang", "filter-crs"} : found = ParamErrorOf(p)
          \/ /\ ~Failed(found)
             /\ filter # None => found.crs \in allowed /\ found.filter \subseteq queryables
     /\ Failed(Adapter(raw, box)) <=> Failed(FoldedField(raw, box, "bbox"))
     /\ Failed(Adapter(raw, box)) =>
          Adapter(raw, box).parameter = FoldedField(raw, box, "bbox").parameter
     /\ ~Failed(Adapter(raw, box)) => Adapter(raw, box) = FoldedField(raw, box, "bbox")
=============================================================================
