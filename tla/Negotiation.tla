------------------------------ MODULE Negotiation ------------------------------
(***************************************************************************)
(* Content negotiation (gazebo.negotiation) and what a negotiated route    *)
(* documents (fold_negotiated_responses).  A media type is a pair <<type,  *)
(* subtype>>; quality values are counted in tenths.  An Accept header is a *)
(* sequence of parts [media, qs]: media is None when it has no slash, and  *)
(* qs has the values of its q parameters, Malformed when not a number.     *)
(***************************************************************************)
EXTENDS Integers, Sequences, FiniteSets, SequencesExt

CONSTANTS None, Malformed, ParamError, NotAcceptable

Max10 == 10

(* The last q counts; one that is no number between 0 and 1 is 0.          *)
QValue(qs) ==
  IF qs = << >> THEN Max10
  ELSE IF Last(qs) # Malformed /\ Last(qs) \in 0 .. Max10 THEN Last(qs) ELSE 0
ParseAccept(header) ==       \* header: None when there is none; ranges keep their places in it
  LET parts == IF header = None THEN << >> ELSE header
      places == {i \in DOMAIN parts : parts[i].media # None}
  IN [i \in places |-> [media |-> parts[i].media, q |-> QValue(parts[i].qs)]]

(* 2 for the type itself, 1 for type/*, 0 for */*, -1 for no match.        *)
Specificity(range, media) ==
  CASE range.media = <<"*", "*">> -> 0
    [] range.media # <<"*", "*">> /\ range.media = <<media[1], "*">> -> 1
    [] range.media = media -> 2
    [] OTHER -> -1

(* Mutant: the best of the matching ranges counts. *)
AcceptQualityHighest(media, ranges) ==
  LET qs == {0} \cup {ranges[i].q : i \in {j \in DOMAIN ranges : Specificity(ranges[j], media) >= 0}}
  IN CHOOSE q \in qs : \A p \in qs : p <= q
(* The first of the most specific ranges that match.                       *)
AcceptQuality(media, ranges) ==
  LET Of(i) == Specificity(ranges[i], media)
      best == {i \in DOMAIN ranges : Of(i) >= 0 /\ \A j \in DOMAIN ranges :
                 Of(j) < Of(i) \/ (Of(j) = Of(i) /\ i <= j)}
  IN IF best = {} THEN 0 ELSE ranges[CHOOSE i \in best : TRUE].q

(* The representation to serve.  accept is None when no header was passed: *)
(* that of the ambient request then counts.                                *)
Negotiate(available, f, accept, ambient, default) ==
  LET ranges == ParseAccept(IF accept = None THEN ambient ELSE accept)
      Q(i) == AcceptQuality(available[i].media, ranges)
      best == CHOOSE i \in DOMAIN available : \A j \in DOMAIN available :
                Q(j) < Q(i) \/ (Q(j) = Q(i) /\ i <= j)
      asked == {i \in DOMAIN available : available[i].key = f}
  IN CASE f # None /\ asked = {} -> ParamError
       [] f # None /\ asked # {} -> available[CHOOSE i \in asked : \A j \in asked : i <= j]
       [] f = None /\ ranges # << >> -> IF Q(best) > 0 THEN available[best] ELSE NotAcceptable
       [] OTHER -> IF default # None THEN default ELSE available[1]

(* Links to the other representations: the current url with f overridden.  *)
AlternateLinks(current, available) ==
  {[type |-> r.media, f |-> r.key] : r \in {s \in ToSet(available) : s.key # current.key}}

-----------------------------------------------------------------------------
Json == <<"application", "json">>
StringSchema == "string"    \* the schema of a body that no model describes

(* Mutant: None does not leave a media type out. *)
OpenapiResponsesKeepingAll(available, schemas) ==
  [m \in {r.media : r \in ToSet(available)} |-> StringSchema]

(* schemas maps a media type to its schema, or to None to leave it out.    *)
OpenapiResponses(available, schemas) ==
  [m \in {r.media : r \in ToSet(available)} \ {m \in DOMAIN schemas : schemas[m] = None}
     |-> IF m \in DOMAIN schemas THEN schemas[m] ELSE StringSchema]

(* What the caller documented stays; the response model owns JSON.         *)
FoldNegotiatedResponses(available, documented) ==
  LET offered == OpenapiResponses(available, [m \in {Json} |-> None])
  IN [m \in DOMAIN offered \cup DOMAIN documented |->
        IF m \in DOMAIN documented THEN documented[m] ELSE offered[m]]

-----------------------------------------------------------------------------
(* What the header says of a media type: the quality of a range that no    *)
(* more specific one overrules.  It may contradict itself when one range   *)
(* is given twice.                                                         *)
Says(ranges, media, q) ==
  \E i \in DOMAIN ranges :
    /\ ranges[i].q = q /\ Specificity(ranges[i], media) >= 0
    /\ \A j \in DOMAIN ranges : Specificity(ranges[j], media) <= Specificity(ranges[i], media)
Contradictory(ranges) ==
  \E i, j \in DOMAIN ranges : i # j /\ ranges[i].media = ranges[j].media

(* Without f, a client that names types is served one that it wants, and   *)
(* wants no less than any other on offer; a range with q=0 refuses what a  *)
(* wildcard accepts, and the client is refused only when it wants nothing  *)
(* on offer.  With f it is served that, whatever it accepts.               *)
ServesWhatIsWanted(available, f, header, default) ==
  LET served == Negotiate(available, f, None, header, default)
      ranges == ParseAccept(header)
      medias == {r.media : r \in ToSet(available)}
  IN /\ f = None /\ ranges # << >> =>
          IF served = NotAcceptable
          THEN \A m \in medias : Contradictory(ranges) \/ \A q \in 1 .. Max10 : ~Says(ranges, m, q)
          ELSE \E q \in 1 .. Max10 :
                 /\ Says(ranges, served.media, q)
                 /\ Contradictory(ranges) \/
                    \A m \in medias : \A p \in q + 1 .. Max10 : ~Says(ranges, m, p)
     /\ (f # None /\ served # ParamError) => served.key = f

(* Whoever is served one representation can switch to each other one by    *)
(* its alternate link and is then served just that, and every media type   *)
(* that can be served is documented once: JSON by the response model, the  *)
(* caller's own entries as the caller wrote them.                          *)
AlternatesAndDocsAgree(available, f, header, default, documented) ==
  LET served == Negotiate(available, f, None, header, default)
      docs == FoldNegotiatedResponses(available, documented)
  IN served \notin {ParamError, NotAcceptable} =>
       /\ {l.f : l \in AlternateLinks(served, available)} \cup {served.key}
            = {r.key : r \in ToSet(available)}
       /\ \A l \in AlternateLinks(served, available) :
            Negotiate(available, l.f, None, header, default).media = l.type
       /\ served.media = Json \/ served.media \in DOMAIN docs
       /\ Json \in DOMAIN docs => Json \in DOMAIN documented
       /\ \A m \in DOMAIN documented : docs[m] = documented[m]
=============================================================================
