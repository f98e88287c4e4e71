---------------------------- MODULE ConditionalGet ----------------------------
(***************************************************************************)
(* Conditional requests (gazebo.caching, ext/fastapi/responses.py): a      *)
(* resource that changes while time passes, an endpoint that offers        *)
(* validators, and a client that keeps what it was sent and asks again     *)
(* with them.  Time is counted in ticks, several to a second.              *)
(***************************************************************************)
EXTENDS Integers, FiniteSets

CONSTANTS
  Contents,     \* what the resource may contain
  Ticks,        \* ticks in a second
  EndOfTime,    \* bound on the clock
  MaxCopies,    \* bound on the copies a client keeps
  Asterisk, None,
  Text          \* a header value that is no date

VARIABLES
  offers,       \* the validators the endpoint gives: subset of {"etag", "date"}
  now,
  resource,     \* [content, modified]
  copies,       \* what the client keeps
  exchange      \* the last conditional exchange

vars == <<offers, now, resource, copies, exchange>>

-----------------------------------------------------------------------------
(* etag_for: the hash of the canonical bytes, marked weak unless asked.    *)
EtagFor(content, weak) == [weak |-> weak, of |-> content]
NormalizeEtag(tag) == tag.of

(* An HTTP date has a resolution of one second.                            *)
HttpDate(tick) == tick \div Ticks
ParseHttpDate(header) == IF header \in Nat THEN header * Ticks ELSE None

(* The well-formed tags found in the header, or the asterisk.              *)
IfNoneMatchSatisfied(etag, header) ==
  \/ header = {Asterisk}
  \/ \E tag \in header \ {Asterisk} : NormalizeEtag(tag) = NormalizeEtag(etag)

(* Mutant: either header will do. *)
IsNotModifiedByEither(method, etag, modified, ifNoneMatch, ifModifiedSince) ==
  /\ method \in {"GET", "HEAD"}
  /\ \/ ifNoneMatch # None /\ etag # None /\ IfNoneMatchSatisfied(etag, ifNoneMatch)
     \/ /\ ifModifiedSince # None /\ modified # None
        /\ ParseHttpDate(ifModifiedSince) # None
        /\ (modified \div Ticks) * Ticks <= ParseHttpDate(ifModifiedSince)
IsNotModified(method, etag, modified, ifNoneMatch, ifModifiedSince) ==
  /\ method \in {"GET", "HEAD"}
  /\ IF ifNoneMatch # None
     THEN etag # None /\ IfNoneMatchSatisfied(etag, ifNoneMatch)
     ELSE /\ ifModifiedSince # None /\ modified # None
          /\ LET since == ParseHttpDate(ifModifiedSince) IN
               since # None /\ (modified \div Ticks) * Ticks <= since

(* The validators set on a 200 by set_cache_headers, and on a 304.         *)
Etag(weak) == IF "etag" \in offers THEN EtagFor(resource.content, weak) ELSE None
Modified == IF "date" \in offers THEN resource.modified ELSE None
Validators(weak) ==
  [etag |-> Etag(weak), date |-> IF Modified = None THEN None ELSE HttpDate(Modified)]

-----------------------------------------------------------------------------
Init ==
  /\ offers \in SUBSET {"etag", "date"}
  /\ now = 0
  /\ \E c \in Contents : resource = [content |-> c, modified |-> 0]
  /\ copies = {} /\ exchange = None

Tick == now < EndOfTime /\ now' = now + 1 /\ UNCHANGED <<offers, resource, copies, exchange>>

(* A change, which may bring back what was there before.                   *)
Modify ==
  /\ \E c \in Contents \ {resource.content} : resource' = [content |-> c, modified |-> now]
  /\ exchange' = None
  /\ UNCHANGED <<offers, now, copies>>

Kept(weak) ==
  LET sent == Validators(weak)
      copy == [content |-> resource.content, etag |-> sent.etag, date |-> sent.date]
  IN {S \in {(copies \ {old}) \cup {copy} : old \in copies \cup {None}} :
        Cardinality(S) <= MaxCopies}

Get ==
  /\ \E weak \in BOOLEAN : copies' \in Kept(weak)
  /\ exchange' = None
  /\ UNCHANGED <<offers, now, resource>>

(* Ask again with the tags of some of the copies, with the date of one of  *)
(* them or what is no date, or with both, or for anything there is.  A 304 *)
(* stands for the copies whose validators it repeats; a 200 is kept.       *)
Revalidate ==
  \E asked \in SUBSET copies \ {{}}, weak \in BOOLEAN, method \in {"GET", "HEAD", "POST"} :
    \E header \in {None, {Asterisk}, {c.etag : c \in asked} \ {None}} \ {{}},
       date \in {None, Text} \cup {c.date : c \in asked} :
      LET unmodified == IsNotModified(method, Etag(weak), Modified, header, date)
          meant == IF header # None
                   THEN {c \in asked : c.etag # None /\ c.etag.of = Etag(weak).of}
                   ELSE {c \in asked : c.date = date}
      IN /\ exchange' = [status |-> IF unmodified THEN 304 ELSE 200,
                         by |-> IF header = None THEN "date"
                                ELSE IF header = {Asterisk} THEN "any" ELSE "tag",
                         stands |-> IF unmodified THEN meant ELSE {}]
         /\ IF unmodified \/ method # "GET" THEN copies' = copies
            ELSE copies' \in Kept(weak)
         /\ UNCHANGED <<offers, now, resource>>

Next == Tick \/ Modify \/ Get \/ Revalidate

-----------------------------------------------------------------------------
(* A 304 stands for a copy the client named, unless it asked for anything, *)
(* and is right about every one.  By tag the copy has the content of the   *)
(* resource, also when that came back after a change, and a date sent      *)
(* along does not make up for a tag that does not match.  By date alone    *)
(* the copy is the resource or was, in the very second of the last change: *)
(* no earlier change is ever missed.                                       *)
NotModifiedIsTrue ==
  (exchange # None /\ exchange.status = 304) =>
    /\ exchange.by # "any" => exchange.stands # {}
    /\ \A c \in exchange.stands :
         \/ c.content = resource.content
         \/ exchange.by = "date" /\ c.date = HttpDate(resource.modified)
=============================================================================
