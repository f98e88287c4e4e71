--------------------------- MODULE ReplayableReceive ---------------------------
(***************************************************************************)
(* _ReplayableReceive (src/src/gazebo/asgi.py): the ASGI receive channel   *)
(* of one request, read through forks that share a cache of the messages   *)
(* pulled so far.  Message i is the i-th the client sends, Body the last.  *)
(***************************************************************************)
EXTENDS Integers, Sequences

CONSTANTS
  Readers,     \* the forks
  Body,        \* number of messages of the request body
  MaxCancels   \* bound on cancelled pulls (a poll for disconnection, a timeout)

ASSUME BodyAssumption == Body \in Nat \ {0}
ASSUME CancelsAssumption == MaxCancels \in Nat

VARIABLES
  arrived,     \* messages of the client that reached the server
  taken,       \* messages the channel has handed out, each once
  cache,       \* _cache: the messages pulled, shared by the forks
  index,       \* index of each fork's closure
  pulling,     \* forks awaiting self._receive()
  cancels,     \* cancelled pulls so far
  got,         \* history: what each fork has returned
  overtaken,   \* history: pulling forks that another's message has overtaken
  misled       \* history: forks that were once handed a message out of place

history == <<got, overtaken, misled>>
vars == <<arrived, taken, cache, index, pulling, cancels, history>>

Upto(n) == [i \in 1..n |-> i]

(* A reader asks for more until it gets the message with more_body false. *)
Wants(f) == \A i \in DOMAIN got[f] : got[f][i] # Body

(* Mutant: a fork that stays where it is. *)
ReturnStaying(f, message) ==
  /\ got' = [got EXCEPT ![f] = Append(@, message)]
  /\ UNCHANGED index

Return(f, message) ==
  /\ got' = [got EXCEPT ![f] = Append(@, message)]
  /\ index' = [index EXCEPT ![f] = @ + 1]

(* The client's next message reaches the server. *)
Arrive ==
  /\ arrived < Body
  /\ arrived' = arrived + 1
  /\ UNCHANGED <<taken, cache, index, pulling, cancels, history>>

(* Mutant: a fork that retries for ever what the cache has for it. *)
ReplaySpinning(f) ==
  /\ f \notin pulling /\ Wants(f) /\ index[f] < Len(cache)
  /\ UNCHANGED vars

(* receive: index < len(cache), the message is replayed without an await. *)
Replay(f) ==
  /\ f \notin pulling /\ Wants(f)
  /\ index[f] < Len(cache)
  /\ Return(f, cache[index[f] + 1])
  /\ UNCHANGED <<arrived, taken, cache, pulling, cancels, overtaken, misled>>

(* Mutant: a fork that pulls before it has replayed the cache. *)
PullAlways(f) ==
  /\ f \notin pulling /\ Wants(f)
  /\ pulling' = pulling \cup {f}
  /\ UNCHANGED <<arrived, taken, cache, index, cancels, history>>

(* receive: nothing to replay, await the original channel. *)
Pull(f) ==
  /\ f \notin pulling /\ Wants(f)
  /\ index[f] >= Len(cache)
  /\ pulling' = pulling \cup {f}
  /\ UNCHANGED <<arrived, taken, cache, index, cancels, history>>

(* The await returns: append, advance and return, with no await between.  *)
(* The forks still awaiting the channel do not look at the cache again.   *)
Pulled(f) ==
  /\ f \in pulling /\ taken < arrived
  /\ taken' = taken + 1
  /\ cache' = Append(cache, taken + 1)
  /\ Return(f, taken + 1)
  /\ pulling' = pulling \ {f}
  /\ overtaken' = (overtaken \cup pulling) \ {f}
  /\ misled' = misled \cup (overtaken \cap {f})
  /\ UNCHANGED <<arrived, cancels>>

(* The task is cancelled at its await: nothing was consumed or cached. *)
Cancel(f) ==
  /\ f \in pulling /\ cancels < MaxCancels
  /\ pulling' = pulling \ {f}
  /\ cancels' = cancels + 1
  /\ overtaken' = overtaken \ {f}
  /\ UNCHANGED <<arrived, taken, cache, index, got, misled>>

ReaderStep(f) == Replay(f) \/ Pull(f) \/ Pulled(f)

Init ==
  /\ arrived = 0 /\ taken = 0 /\ cancels = 0
  /\ cache = <<>> /\ pulling = {}
  /\ index = [f \in Readers |-> 0]
  /\ got = [f \in Readers |-> <<>>]
  /\ overtaken = {} /\ misled = {}

(* A fork that awaits a channel with nothing left to hand out. *)
Hangs(f) == f \in pulling /\ taken = Body

(* Every reader has seen the end or hangs: the states meant to be last. *)
AllRead == (\A f \in Readers : ~Wants(f) \/ Hangs(f)) /\ UNCHANGED vars

Next ==
  \/ Arrive
  \/ \E f \in Readers : ReaderStep(f)
  \/ \E f \in Readers : Cancel(f)
  \/ AllRead

(* The client sends its whole body; the loop runs every ready task. *)
Fairness == WF_vars(Arrive) /\ \A f \in Readers : WF_vars(ReaderStep(f))

Spec == Init /\ [][Next]_vars /\ Fairness

-----------------------------------------------------------------------------
(* Every variable keeps its type. *)
TypeOK ==
  /\ arrived \in 0..Body /\ taken \in 0..arrived
  /\ cache \in Seq(1..Body)
  /\ index \in [Readers -> 0..Body]
  /\ pulling \subseteq Readers
  /\ cancels \in 0..MaxCancels
  /\ got \in [Readers -> Seq(1..Body)]

(* asgi.py, docstring: each fork "first replays the cache from its own    *)
(* position and only then pulls", so both readers "read the same body":   *)
(* what a fork has returned is the body from its first message on.        *)
EachReadsTheBody == \A f \in Readers : got[f] = Upto(Len(got[f]))

(* What holds of the code: a fork reads the body from its first message   *)
(* on whatever the others pull, replay or cancel meanwhile, unless it was *)
(* itself awaiting the channel when another fork's message came.          *)
UndisturbedReadTheBody ==
  \A f \in Readers \ misled : got[f] = Upto(Len(got[f]))

(* No fork waits on a channel that is used up, the deadlock of a second   *)
(* reader that the wrapper is there to prevent, unless the last message   *)
(* overtook it at its await: not even one misled before.                  *)
HangsOnlyIfOvertaken == \A f \in Readers : Hangs(f) => f \in overtaken

(* Every reader gets to the end of the body, or is one of those. *)
EveryReaderFinishes ==
  \A f \in Readers : <>[](~Wants(f) \/ (Hangs(f) /\ f \in overtaken))
=============================================================================
