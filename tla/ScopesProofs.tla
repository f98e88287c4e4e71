----------------------------- MODULE ScopesProofs -----------------------------
(***************************************************************************)
(* Every wiring, every number of requests and callers: when every scope    *)
(* waits for its callers (Detached = {}), a resource is torn down only     *)
(* after everything built from it, although builds may race and fail.      *)
(***************************************************************************)
EXTENDS Scopes, SequenceTheorems, TLAPS

(* An instance that a holder with owner s may use: built in s or in App,   *)
(* and not torn down.                                                      *)
Usable(n, s) ==
  /\ n \in DOMAIN made /\ made[n].owner \in {App, s}
  /\ NeedsExit(n) => n \in Live

(* Arguments are older than what they are passed to, of its scope or App.  *)
MadeInv ==
  /\ made \in Seq(Instance)
  /\ \A n \in DOMAIN made : \A m \in made[n].uses :
       m \in 1..(n - 1) /\ made[m].owner \in {App, made[n].owner}

(* Each exit stack is sorted by age; what is exiting was its newest.       *)
StackInv ==
  /\ stack \in [States -> Seq(DOMAIN made)]
  /\ exiting \in [States -> {0} \cup DOMAIN made]
  /\ \A s \in States : \A p, q \in DOMAIN stack[s] :
       p < q => stack[s][p] < stack[s][q]
  /\ \A s \in States : exiting[s] # 0 =>
       \A p \in DOMAIN stack[s] : stack[s][p] < exiting[s]
  /\ \A s \in States : \A n \in Entered(s) : made[n].owner = s

(* A scope holds entered resources only from opening to closing, a request *)
(* only while the app scope is open.                                       *)
StatusInv ==
  /\ status \in [States -> {"new", "opening", "open", "closing", "closed"}]
  /\ \A r \in Requests :
       /\ status[r] # "opening"
       /\ status[r] \in {"open", "closing"} => status[App] = "open"
  /\ \A s \in States : exiting[s] # 0 => status[s] = "closing"
  /\ \A s \in States : status[s] \in {"new", "closed"} => stack[s] = <<>>

(* Who has the event loop. *)
LoopInv ==
  /\ running \in States \cup Callers \cup {None}
  /\ \A s \in States : running = s => status[s] = "closing" /\ exiting[s] = 0
  /\ \A c \in Callers : running = c => frames[c] # <<>> /\ c \notin suspended
  /\ suspended \subseteq Callers /\ failed \subseteq Callers
  /\ todo \in [Callers -> SUBSET Keys]
  /\ \A c \in suspended : frames[c] # <<>>

(* A build under way belongs to an open scope; each frame builds what the  *)
(* one below asked for; its arguments are usable.                          *)
FrameInv ==
  /\ frames \in [Callers -> Seq(Frame)]
  /\ \A c \in Callers : frames[c] # <<>> => status[Home[c]] \in {"opening", "open"}
  /\ \A c \in Callers : \A i \in 1..(Len(frames[c]) - 1) :
       /\ frames[c][i].next <= Len(Deps[frames[c][i].key])
       /\ frames[c][i + 1].key = Deps[frames[c][i].key][frames[c][i].next]
  /\ \A c \in Callers : \A i \in DOMAIN frames[c] : \A n \in frames[c][i].uses :
       Usable(n, Owner(c, frames[c][i].key))

(* A cache answers with its own scope's instances, usable while it is open. *)
CacheInv ==
  /\ cache \in [States -> [Keys -> {0} \cup DOMAIN made]]
  /\ \A s \in States, k \in Keys : cache[s][k] # 0 =>
       /\ made[cache[s][k]].owner = s /\ status[s] # "new"
       /\ status[s] \in {"opening", "open"} =>
            \A n \in Reach(cache[s][k]) : Usable(n, s)

(* Whatever is live is usable together with all it was built from. *)
LiveInv == \A m \in Live : \A n \in made[m].uses : NeedsExit(n) => n \in Live

IInv ==
  /\ MadeInv /\ StackInv /\ StatusInv /\ LoopInv
  /\ FrameInv /\ CacheInv /\ LiveInv

-----------------------------------------------------------------------------
(* What is entered, live and usable hangs on made, stack and exiting only. *)
LEMMA SameResources ==
  ASSUME IInv, UNCHANGED <<made, stack, exiting>>
  PROVE  /\ MadeInv' /\ StackInv' /\ LiveInv'
         /\ \A n, s : Usable(n, s)' <=> Usable(n, s)
<1>1. Live' = Live /\ \A s \in States : Entered(s)' = Entered(s)
  BY DEF Live, Entered
<1>2. MadeInv'
  BY DEF IInv, MadeInv
<1>3. StackInv'
  BY <1>1 DEF IInv, StackInv
<1>4. LiveInv'
  BY <1>1 DEF IInv, LiveInv, NeedsExit
<1>5. \A n, s : Usable(n, s)' <=> Usable(n, s)
  BY <1>1 DEF Usable, NeedsExit
<1> QED
  BY <1>2, <1>3, <1>4, <1>5

(* Then a cache that does not change either stays right, if no scope opens. *)
LEMMA SameCache ==
  ASSUME IInv, UNCHANGED <<made, stack, exiting, cache>>,
         \A s \in States :
           /\ status'[s] \in {"opening", "open"} =>
                status[s] \in {"new", "opening", "open"}
           /\ status'[s] = "new" => status[s] = "new"
  PROVE  CacheInv'
<1>1. \A n, s : Usable(n, s)' <=> Usable(n, s)
  BY SameResources
<1> QED
  BY <1>1 DEF IInv, CacheInv, Reach

(* The owner of a parameter is the owner of what takes it, or App. *)
LEMMA DepOwner ==
  ASSUME NEW c \in Callers, NEW k \in Keys, NEW i \in DOMAIN Deps[k]
  PROVE  /\ Deps[k][i] \in Keys
         /\ Owner(c, Deps[k][i]) \in {App, Owner(c, k)}
         /\ Owner(c, k) \in States
<1>1. Deps[k] \in Seq(Keys)
  BY KeysAssumption
<1>2. Deps[k][i] \in Keys
  BY <1>1
<1> QED
  BY <1>2, ScopeMatchAssumption, CallersAssumption DEF Owner, States

(* While a caller builds, the scopes it builds in are open. *)
LEMMA OwnerOpen ==
  ASSUME IInv, NEW c \in Callers, NEW k \in Keys,
         status[Home[c]] \in {"opening", "open"}
  PROVE  status[Owner(c, k)] \in {"opening", "open"} /\ Owner(c, k) \in States
  BY CallersAssumption, NamesAssumption DEF IInv, StatusInv, Owner, States

-----------------------------------------------------------------------------
(* The frames of one caller: each builds what the one below asked for, and *)
(* holds usable arguments.                                                 *)
Nested(fs) ==
  \A i \in 1..(Len(fs) - 1) :
    /\ fs[i].next <= Len(Deps[fs[i].key])
    /\ fs[i + 1].key = Deps[fs[i].key][fs[i].next]

Holds(c, fs) ==
  \A i \in 1..Len(fs) : \A n \in fs[i].uses : Usable(n, Owner(c, fs[i].key))

GoodFrames(c, fs) == fs \in Seq(Frame) /\ Nested(fs) /\ Holds(c, fs)

LEMMA FramesGood ==
  ASSUME FrameInv
  PROVE  \A c \in Callers : GoodFrames(c, frames[c])
<1>1. \A c \in Callers : frames[c] \in Seq(Frame)
  BY DEF FrameInv
<1>2. \A c \in Callers : DOMAIN frames[c] = 1..Len(frames[c])
  BY <1>1, LenProperties
<1> QED
  BY <1>1, <1>2 DEF FrameInv, GoodFrames, Nested, Holds

LEMMA NewFrameGood ==
  ASSUME NEW c \in Callers, NEW k \in Keys
  PROVE  GoodFrames(c, <<NewFrame(k)>>)
<1>1. NewFrame(k) \in Frame
  BY DEF NewFrame, Frame
<1>2. <<NewFrame(k)>> \in Seq(Frame) /\ Len(<<NewFrame(k)>>) = 1
  BY <1>1
<1>3. \A i \in 1..1 : <<NewFrame(k)>>[i].uses = {}
  BY DEF NewFrame
<1> QED
  BY <1>2, <1>3 DEF GoodFrames, Nested, Holds

(* _build goes down: a frame for the parameter the last one asks for. *)
LEMMA PushGood ==
  ASSUME NEW c \in Callers, NEW fs, GoodFrames(c, fs), fs # <<>>,
         NEW f, f = fs[Len(fs)], f.next <= Len(Deps[f.key])
  PROVE  GoodFrames(c, Append(fs, NewFrame(Deps[f.key][f.next])))
<1> DEFINE d == Deps[f.key][f.next]
           gs == Append(fs, NewFrame(d))
<1>1. fs \in Seq(Frame) /\ Len(fs) \in Nat \ {0} /\ f \in Frame
  BY EmptySeq, ElementOfSeq DEF GoodFrames
<1>2. Deps[f.key] \in Seq(Keys) /\ f.next \in 1..Len(Deps[f.key])
  BY <1>1, KeysAssumption DEF Frame
<1>3. d \in Keys
  BY <1>2, ElementOfSeq
<1>4. NewFrame(d) \in Frame /\ NewFrame(d).uses = {} /\ NewFrame(d).key = d
  BY <1>3 DEF NewFrame, Frame
<1>5. /\ gs \in Seq(Frame) /\ Len(gs) = Len(fs) + 1
      /\ \A i \in 1..Len(fs) : gs[i] = fs[i]
      /\ gs[Len(fs) + 1] = NewFrame(d)
  BY <1>1, <1>4, AppendProperties
<1> HIDE DEF gs, d
<1>6. Nested(gs)
  <2> SUFFICES ASSUME NEW i \in 1..(Len(gs) - 1)
               PROVE  /\ gs[i].next <= Len(Deps[gs[i].key])
                      /\ gs[i + 1].key = Deps[gs[i].key][gs[i].next]
    BY DEF Nested
  <2>1. CASE i = Len(fs)
    BY <2>1, <1>1, <1>4, <1>5 DEF d
  <2>2. CASE i # Len(fs)
    BY <2>2, <1>1, <1>5 DEF GoodFrames, Nested
  <2> QED
    BY <2>1, <2>2
<1>7. Holds(c, gs)
  BY <1>1, <1>4, <1>5 DEF GoodFrames, Holds
<1> QED
  BY <1>5, <1>6, <1>7 DEF GoodFrames, gs, d

(* The last frame takes an argument and looks at its next parameter.       *)
LEMMA TookShape ==
  ASSUME NEW fs \in Seq(Frame), Nested(fs), fs # <<>>, NEW reach \in SUBSET Nat
  PROVE  LET f == fs[Len(fs)]
             gs == [fs EXCEPT ![Len(fs)] = Took(f, reach)] IN
         /\ gs \in Seq(Frame) /\ Nested(gs) /\ Len(gs) = Len(fs)
         /\ \A i \in 1..Len(fs) :
              /\ gs[i].key = fs[i].key
              /\ gs[i].uses = fs[i].uses \cup (IF i = Len(fs) THEN reach ELSE {})
<1> DEFINE f == fs[Len(fs)]
           gs == [fs EXCEPT ![Len(fs)] = Took(f, reach)]
<1>1. Len(fs) \in Nat \ {0} /\ f \in Frame
  BY EmptySeq, ElementOfSeq
<1>2. /\ Took(f, reach) \in Frame
      /\ Took(f, reach).key = f.key
      /\ Took(f, reach).uses = f.uses \cup reach
  <2>1. f.key \in Keys /\ f.next + 1 \in Nat \ {0} /\ f.uses \in SUBSET Nat
    BY <1>1 DEF Frame
  <2>2. f.uses \cup reach \in SUBSET Nat
    BY <2>1
  <2> QED
    BY <2>1, <2>2 DEF Took, Frame
<1>3. /\ gs \in Seq(Frame) /\ Len(gs) = Len(fs)
      /\ \A i \in 1..Len(fs) : gs[i] = IF i = Len(fs) THEN Took(f, reach) ELSE fs[i]
  BY <1>1, <1>2, ExceptSeq
<1> HIDE DEF gs
<1>4. \A i \in 1..Len(fs) :
        /\ gs[i].key = fs[i].key
        /\ gs[i].uses = fs[i].uses \cup (IF i = Len(fs) THEN reach ELSE {})
  BY <1>2, <1>3
<1>5. Nested(gs)
  <2> SUFFICES ASSUME NEW i \in 1..(Len(gs) - 1)
               PROVE  /\ gs[i].next <= Len(Deps[gs[i].key])
                      /\ gs[i + 1].key = Deps[gs[i].key][gs[i].next]
    BY DEF Nested
  <2>1. gs[i] = fs[i] /\ gs[i + 1].key = fs[i + 1].key
    BY <1>1, <1>3, <1>4
  <2> QED
    BY <2>1, <1>1, <1>3 DEF Nested
<1> QED
  BY <1>3, <1>4, <1>5 DEF gs

LEMMA TookGood ==
  ASSUME NEW c \in Callers, NEW fs, GoodFrames(c, fs), fs # <<>>,
         NEW f, f = fs[Len(fs)],
         NEW reach \in SUBSET Nat, \A n \in reach : Usable(n, Owner(c, f.key))
  PROVE  GoodFrames(c, [fs EXCEPT ![Len(fs)] = Took(f, reach)])
<1> DEFINE gs == [fs EXCEPT ![Len(fs)] = Took(f, reach)]
<1>1. fs \in Seq(Frame) /\ Nested(fs)
  BY DEF GoodFrames
<1>2. /\ gs \in Seq(Frame) /\ Nested(gs) /\ Len(gs) = Len(fs)
      /\ \A i \in 1..Len(fs) :
           /\ gs[i].key = fs[i].key
           /\ gs[i].uses = fs[i].uses \cup (IF i = Len(fs) THEN reach ELSE {})
  <2> DEFINE hs == [fs EXCEPT ![Len(fs)] = Took(fs[Len(fs)], reach)]
  <2>1. /\ hs \in Seq(Frame) /\ Nested(hs) /\ Len(hs) = Len(fs)
        /\ \A i \in 1..Len(fs) :
             /\ hs[i].key = fs[i].key
             /\ hs[i].uses = fs[i].uses \cup (IF i = Len(fs) THEN reach ELSE {})
    BY <1>1, TookShape
  <2>2. gs = hs
    OBVIOUS
  <2> HIDE DEF gs, hs
  <2> QED
    BY <2>1, <2>2
<1> HIDE DEF gs
<1>3. Holds(c, gs)
  <2> SUFFICES ASSUME NEW i \in 1..Len(gs), NEW n \in gs[i].uses
               PROVE  Usable(n, Owner(c, gs[i].key))
    BY DEF Holds
  <2> QED
    BY <1>2 DEF GoodFrames, Holds
<1> QED
  BY <1>2, <1>3 DEF GoodFrames, gs

(* The last frame is gone. *)
LEMMA PoppedGood ==
  ASSUME NEW c \in Callers, NEW fs, GoodFrames(c, fs), Len(fs) > 1
  PROVE  LET gs == SubSeq(fs, 1, Len(fs) - 1) IN
         /\ GoodFrames(c, gs) /\ gs # <<>> /\ Len(gs) = Len(fs) - 1
         /\ gs[Len(gs)] = fs[Len(fs) - 1]
<1> DEFINE gs == SubSeq(fs, 1, Len(fs) - 1)
<1>1. fs \in Seq(Frame) /\ Len(fs) \in Nat
  BY LenProperties DEF GoodFrames
<1>2. \A i \in 1..(Len(fs) - 1) : fs[i] \in Frame
  BY <1>1, ElementOfSeq
<1>3. /\ gs \in Seq(Frame) /\ Len(gs) = Len(fs) - 1
      /\ \A i \in 1..(Len(fs) - 1) : gs[i] = fs[i]
  BY <1>1, <1>2, SubSeqProperties
<1> HIDE DEF gs
<1>4. Nested(gs) /\ Holds(c, gs)
  BY <1>1, <1>3 DEF GoodFrames, Nested, Holds
<1>5. gs # <<>>
  BY <1>1, <1>3, EmptySeq
<1> QED
  BY <1>1, <1>3, <1>4, <1>5 DEF GoodFrames, gs

-----------------------------------------------------------------------------
(* A step that leaves every resource alone and gives at most one caller    *)
(* other frames, good ones, keeps FrameInv.                                *)
LEMMA FramesStep ==
  ASSUME IInv, UNCHANGED <<made, stack, exiting>>,
         NEW c \in Callers, NEW fs, GoodFrames(c, fs),
         frames' = [frames EXCEPT ![c] = fs],
         \A d \in Callers : frames'[d] # <<>> =>
           status'[Home[d]] \in {"opening", "open"}
  PROVE  FrameInv'
<1>1. \A d \in Callers : GoodFrames(d, frames'[d])
  <2>1. \A d \in Callers : GoodFrames(d, frames[d])
    BY FramesGood DEF IInv
  <2>2. frames'[c] = fs /\ \A d \in Callers \ {c} : frames'[d] = frames[d]
    BY DEF IInv, FrameInv
  <2> QED
    BY <2>1, <2>2
<1>2. frames' \in [Callers -> Seq(Frame)]
  BY <1>1 DEF IInv, FrameInv, GoodFrames
<1>3. \A d \in Callers : DOMAIN frames'[d] = 1..Len(frames'[d])
  BY <1>2, LenProperties
<1>4. \A n, s : Usable(n, s)' <=> Usable(n, s)
  BY SameResources
<1>5. ASSUME NEW d \in Callers, NEW i \in DOMAIN frames'[d],
             NEW n \in frames'[d][i].uses
      PROVE  Usable(n, Owner(d, frames[d][i].key))'
  BY <1>1, <1>3, <1>4 DEF GoodFrames, Holds, Owner
<1> QED
  BY <1>1, <1>2, <1>5 DEF FrameInv, GoodFrames, Nested

(* The same for a step that leaves all frames alone. *)
LEMMA FramesStay ==
  ASSUME IInv, UNCHANGED <<made, stack, exiting, frames>>,
         \A d \in Callers : frames[d] # <<>> =>
           status'[Home[d]] \in {"opening", "open"}
  PROVE  FrameInv'
<1>1. \A n, s : Usable(n, s)' <=> Usable(n, s)
  BY SameResources
<1> QED
  BY <1>1 DEF IInv, FrameInv, Owner

-----------------------------------------------------------------------------
LEMMA GetCachedStep ==
  ASSUME IInv, NEW c \in Callers, NEW k \in Keys, GetCached(c, k)
  PROVE  IInv'
<1> USE DEF GetCached, scopeVars
<1>1. MadeInv' /\ StackInv' /\ LiveInv'
  BY SameResources
<1>2. CacheInv'
  BY SameCache
<1>3. FrameInv'
  BY FramesStay DEF IInv, FrameInv
<1>4. StatusInv' /\ LoopInv'
  BY DEF IInv, StatusInv, LoopInv
<1> QED
  BY <1>1, <1>2, <1>3, <1>4 DEF IInv

LEMMA GetMissingStep ==
  ASSUME IInv, Detached = {}, NEW c \in Callers, NEW k \in Keys, GetMissing(c, k)
  PROVE  IInv'
<1> USE DEF GetMissing, scopeVars
<1>1. MadeInv' /\ StackInv' /\ LiveInv'
  BY SameResources
<1>2. CacheInv'
  BY SameCache
<1>3. FrameInv'
  <2>1. GoodFrames(c, <<NewFrame(k)>>)
    BY NewFrameGood
  <2>2. \A d \in Callers : frames'[d] # <<>> => status'[Home[d]] \in {"opening", "open"}
    BY DEF IInv, FrameInv, MayCall
  <2> QED
    BY <2>1, <2>2, FramesStep
<1>4. StatusInv' /\ LoopInv'
  BY NamesAssumption DEF IInv, StatusInv, LoopInv, FrameInv
<1> QED
  BY <1>1, <1>2, <1>3, <1>4 DEF IInv

LEMMA ResolveDepStep ==
  ASSUME IInv, NEW c \in Callers, ResolveDep(c)
  PROVE  IInv'
<1> DEFINE fs == frames[c]
           f == Top(c)
           d == Deps[f.key][f.next]
           n == cache[Owner(c, d)][d]
           gs == IF n # 0 THEN WithTop(c, Took(f, Reach(n)))
                          ELSE Append(fs, NewFrame(d))
<1>1. MadeInv' /\ StackInv' /\ LiveInv'
  BY SameResources DEF ResolveDep, scopeVars
<1>2. CacheInv'
  BY SameCache DEF ResolveDep, scopeVars
<1>3. GoodFrames(c, fs) /\ fs # <<>> /\ f = fs[Len(fs)]
  BY FramesGood, NamesAssumption DEF ResolveDep, IInv, LoopInv, Top
<1>4. ~(f.next > Len(Deps[f.key]))
  BY DEF ResolveDep, AllResolved
<1>5. frames' = [frames EXCEPT ![c] = gs]
  BY DEF ResolveDep
<1>6. status[Home[c]] \in {"opening", "open"}
  BY <1>3 DEF IInv, FrameInv
<1>7. n # 0 => gs = [fs EXCEPT ![Len(fs)] = Took(f, Reach(n))]
  BY DEF WithTop
<1>8. n = 0 => gs = Append(fs, NewFrame(d))
  OBVIOUS
<1> HIDE DEF fs, f, gs
<1>9. fs \in Seq(Frame) /\ f \in Frame /\ Len(fs) \in Nat \ {0}
  BY <1>3, EmptySeq, ElementOfSeq DEF GoodFrames
<1>10. /\ f.key \in Keys /\ f.next \in DOMAIN Deps[f.key]
       /\ f.next <= Len(Deps[f.key])
  <2>1. f.key \in Keys /\ f.next \in Nat \ {0}
    BY <1>9 DEF Frame
  <2>2. Deps[f.key] \in Seq(Keys)
    BY <2>1, KeysAssumption
  <2> QED
    BY <2>1, <2>2, <1>4
<1>11. /\ d \in Keys /\ Owner(c, d) \in {App, Owner(c, f.key)}
       /\ Owner(c, d) \in States
  <2>1. f.key \in Keys /\ f.next \in DOMAIN Deps[f.key]
    BY <1>10
  <2> QED
    BY <2>1, DepOwner DEF States
<1> HIDE DEF d
<1>12. GoodFrames(c, gs) /\ gs # <<>>
  <2>1. CASE n = 0
    <3>1. gs = Append(fs, NewFrame(d)) /\ GoodFrames(c, gs)
      BY <2>1, <1>3, <1>8, <1>10, PushGood DEF d
    <3>2. NewFrame(d) \in Frame
      BY <1>11 DEF NewFrame, Frame
    <3> QED
      BY <3>1, <3>2, <1>9, AppendProperties
  <2>2. CASE n # 0
    <3>1. \A m \in Reach(n) : Usable(m, Owner(c, d))
      BY <2>2, <1>6, <1>11, OwnerOpen DEF IInv, CacheInv
    <3>2. \A m \in Reach(n) : Usable(m, Owner(c, f.key))
      BY <3>1, <1>11 DEF Usable
    <3>3. Reach(n) \in SUBSET Nat
      BY <3>1 DEF Usable, IInv, MadeInv
    <3>4. gs = [fs EXCEPT ![Len(fs)] = Took(f, Reach(n))]
      BY <2>2, <1>7
    <3> HIDE DEF n
    <3>5. GoodFrames(c, gs)
      BY <3>2, <3>3, <3>4, <1>3, TookGood
    <3>6. gs # <<>>
      BY <3>4, <3>5, <1>9, LenProperties DEF GoodFrames
    <3> QED
      BY <3>5, <3>6
  <2> QED
    BY <2>1, <2>2
<1>13. FrameInv'
  <2>1. \A e \in Callers : frames'[e] # <<>> => status'[Home[e]] \in {"opening", "open"}
    BY <1>5, <1>6 DEF IInv, FrameInv, ResolveDep, scopeVars
  <2> QED
    BY <1>5, <1>12, <2>1, FramesStep DEF ResolveDep, scopeVars
<1>14. StatusInv' /\ LoopInv'
  BY <1>5, <1>12 DEF IInv, StatusInv, LoopInv, FrameInv, ResolveDep, scopeVars
<1> QED
  BY <1>1, <1>2, <1>13, <1>14 DEF IInv

LEMMA RecipeSuspendsStep ==
  ASSUME IInv, NEW c \in Callers, RecipeSuspends(c)
  PROVE  IInv'
<1> USE DEF RecipeSuspends, scopeVars
<1>1. MadeInv' /\ StackInv' /\ LiveInv'
  BY SameResources
<1>2. CacheInv'
  BY SameCache
<1>3. FrameInv'
  BY FramesStay DEF IInv, FrameInv
<1>4. StatusInv' /\ LoopInv'
  BY NamesAssumption DEF IInv, StatusInv, LoopInv
<1> QED
  BY <1>1, <1>2, <1>3, <1>4 DEF IInv

(* An exception drops the caller's frames, whichever recipe raised it. *)
LEMMA RaiseStep ==
  ASSUME IInv, NEW c \in Callers, Raise(c), suspended' = suspended \ {c},
         running \in {None, c}
  PROVE  IInv'
<1> USE DEF Raise, scopeVars
<1>1. MadeInv' /\ StackInv' /\ LiveInv'
  BY SameResources
<1>2. CacheInv'
  BY SameCache
<1>3. FrameInv'
  <2>1. GoodFrames(c, <<>>)
    BY EmptySeq DEF GoodFrames, Nested, Holds
  <2>2. \A d \in Callers : frames'[d] # <<>> => status'[Home[d]] \in {"opening", "open"}
    BY DEF IInv, FrameInv
  <2> QED
    BY <2>1, <2>2, FramesStep
<1>4. StatusInv' /\ LoopInv'
  BY NamesAssumption DEF IInv, StatusInv, LoopInv, FrameInv
<1> QED
  BY <1>1, <1>2, <1>3, <1>4 DEF IInv

-----------------------------------------------------------------------------
Members(st) == {st[p] : p \in DOMAIN st}

(* The action of TornDownNewestFirst. *)
NewestLeaves ==
  \A s \in States :
    \A n \in Members(stack[s]) \ Members(stack[s])' :
      \A m \in Members(stack[s])' : m < n

(* A build completes: the new instance is entered, cached and returned.    *)
LEMMA CompleteStep ==
  ASSUME IInv, NEW c \in Callers, frames[c] # <<>>, Complete(c),
         suspended' = suspended \ {c}, running \in {None, c}
  PROVE  IInv' /\ Contract!Acquire /\ NewestLeaves
<1>0. PICK fs, f, s, n :
        /\ fs = frames[c] /\ f = Top(c)
        /\ s = Owner(c, f.key) /\ n = Len(made) + 1
  OBVIOUS
<1> DEFINE new == [key |-> f.key, owner |-> s, uses |-> f.uses]
           gs == SubSeq(fs, 1, Len(fs) - 1)
           hs == [gs EXCEPT ![Len(fs) - 1] = Took(gs[Len(fs) - 1], {n} \cup f.uses)]
<1>1. /\ made' = Append(made, new)
      /\ stack' = IF f.key \in Managed THEN [stack EXCEPT ![s] = Append(@, n)]
                                       ELSE stack
      /\ cache' = [cache EXCEPT ![s][f.key] = n]
      /\ Len(fs) = 1 => /\ frames' = [frames EXCEPT ![c] = <<>>]
                        /\ todo' = [todo EXCEPT ![c] = @ \ {f.key}]
                        /\ running' = None
      /\ Len(fs) # 1 => todo' = todo /\ running' = c
      /\ UNCHANGED <<failed, status, exiting>>
  BY <1>0 DEF Complete
<1>2. /\ GoodFrames(c, fs) /\ fs # <<>> /\ f = fs[Len(fs)]
      /\ status[Home[c]] \in {"opening", "open"}
  BY <1>0, FramesGood DEF IInv, FrameInv, Top
<1>3. Len(fs) # 1 => frames' = [frames EXCEPT ![c] = hs]
  BY <1>0 DEF Complete, PassedUp
<1> HIDE DEF gs, hs
<1>4. fs \in Seq(Frame) /\ Len(fs) \in Nat \ {0} /\ f \in Frame
  BY <1>2, EmptySeq, ElementOfSeq DEF GoodFrames
<1>5. f.key \in Keys /\ f.uses \in SUBSET Nat
  BY <1>4 DEF Frame
<1>6. s \in States /\ status[s] \in {"opening", "open"}
  BY <1>0, <1>2, <1>5, OwnerOpen
<1>7. \A m \in f.uses : Usable(m, s)
  BY <1>0, <1>2, <1>4 DEF GoodFrames, Holds
<1>8. /\ made \in Seq(Instance) /\ Len(made) \in Nat /\ DOMAIN made = 1..Len(made)
      /\ new \in Instance
      /\ made' \in Seq(Instance) /\ DOMAIN made' = 1..n /\ Len(made') = n
      /\ \A m \in DOMAIN made : made'[m] = made[m]
      /\ made'[n] = new
  <2>1. made \in Seq(Instance) /\ new \in Instance
    BY <1>5, <1>6 DEF IInv, MadeInv, Instance
  <2>2. Len(made) \in Nat /\ DOMAIN made = 1..Len(made)
    BY <2>1, LenProperties
  <2> HIDE DEF new
  <2>3. /\ made' \in Seq(Instance) /\ Len(made') = n
        /\ \A m \in 1..Len(made) : made'[m] = made[m]
        /\ made'[n] = new
    BY <1>0, <1>1, <2>1, AppendProperties
  <2>4. DOMAIN made' = 1..n
    BY <2>3, LenProperties
  <2> QED
    BY <1>0, <2>1, <2>2, <2>3, <2>4
<1>9. new.key = f.key /\ new.owner = s /\ new.uses = f.uses
  BY DEF new
<1>10. n \in Nat /\ n = Len(made) + 1 /\ n \notin DOMAIN made
  BY <1>0, <1>8
<1> HIDE DEF new
<1>11. /\ stack' \in [States -> Seq(DOMAIN made')]
       /\ \A t \in States \ {s} : stack'[t] = stack[t]
       /\ f.key \notin Managed => stack'[s] = stack[s]
       /\ f.key \in Managed =>
            /\ Len(stack'[s]) = Len(stack[s]) + 1
            /\ \A p \in 1..Len(stack[s]) : stack'[s][p] = stack[s][p]
            /\ stack'[s][Len(stack[s]) + 1] = n
  <2>1. \A t \in States : stack[t] \in Seq(DOMAIN made')
    <3>1. DOMAIN made \subseteq DOMAIN made'
      BY <1>8, <1>10
    <3> QED
      BY <3>1, SeqMonotonic DEF IInv, StackInv
  <2>2. n \in DOMAIN made'
    BY <1>8, <1>10
  <2>3. /\ Append(stack[s], n) \in Seq(DOMAIN made')
        /\ Len(Append(stack[s], n)) = Len(stack[s]) + 1
        /\ \A p \in 1..Len(stack[s]) : Append(stack[s], n)[p] = stack[s][p]
        /\ Append(stack[s], n)[Len(stack[s]) + 1] = n
    BY <1>6, <2>1, <2>2, AppendProperties
  <2>4. stack \in [States -> Seq(DOMAIN made)]
    BY DEF IInv, StackInv
  <2> QED
    BY <1>1, <1>6, <2>1, <2>3, <2>4
<1>12. /\ \A t \in States : DOMAIN stack[t] = 1..Len(stack[t]) /\ Len(stack[t]) \in Nat
       /\ \A t \in States : DOMAIN stack'[t] = 1..Len(stack'[t])
  BY <1>11, LenProperties DEF IInv, StackInv
<1>13. /\ \A t \in States \ {s} : Entered(t)' = Entered(t)
       /\ f.key \notin Managed => Entered(s)' = Entered(s)
       /\ f.key \in Managed => Entered(s)' = Entered(s) \cup {n}
  <2> exiting' = exiting
    BY <1>1
  <2>1. \A t \in States : stack'[t] = stack[t] => Entered(t)' = Entered(t)
    BY DEF Entered
  <2>2. ASSUME f.key \in Managed
        PROVE  Entered(s)' = Entered(s) \cup {n}
    <3>1. {stack'[s][i] : i \in DOMAIN stack'[s]}
            = {stack[s][i] : i \in DOMAIN stack[s]} \cup {n}
      <4>1. /\ DOMAIN stack[s] = 1..Len(stack[s]) /\ Len(stack[s]) \in Nat
            /\ DOMAIN stack'[s] = 1..(Len(stack[s]) + 1)
        BY <1>6, <1>11, <1>12, <2>2
      <4>2. {stack'[s][i] : i \in 1..(Len(stack[s]) + 1)}
              = {stack[s][i] : i \in 1..Len(stack[s])} \cup {n}
        <5>1. /\ Len(stack[s]) \in Nat
              /\ \A p \in 1..Len(stack[s]) : stack'[s][p] = stack[s][p]
              /\ stack'[s][Len(stack[s]) + 1] = n
          BY <4>1, <1>11, <2>2
        <5>2. 1..(Len(stack[s]) + 1) = (1..Len(stack[s])) \cup {Len(stack[s]) + 1}
          BY <5>1
        <5>3. {stack'[s][i] : i \in 1..(Len(stack[s]) + 1)}
                = {stack'[s][i] : i \in 1..Len(stack[s])} \cup {stack'[s][Len(stack[s]) + 1]}
          BY <5>2
        <5>4. {stack'[s][i] : i \in 1..Len(stack[s])} = {stack[s][i] : i \in 1..Len(stack[s])}
          BY <5>1
        <5> QED
          BY <5>1, <5>3, <5>4
      <4> QED
        BY <4>1, <4>2
    <3>2. /\ Entered(s) = {stack[s][i] : i \in DOMAIN stack[s]} \cup ({exiting[s]} \ {0})
          /\ Entered(s)' = {stack'[s][i] : i \in DOMAIN stack'[s]} \cup ({exiting[s]} \ {0})
      BY DEF Entered
    <3> QED
      BY <3>1, <3>2
  <2>3. /\ \A t \in States \ {s} : stack'[t] = stack[t]
        /\ f.key \notin Managed => stack'[s] = stack[s]
    BY <1>11
  <2> HIDE DEF Entered
  <2> QED
    BY <1>6, <2>1, <2>2, <2>3
<1>14. Live' = IF f.key \in Managed THEN Live \cup {n} ELSE Live
  BY <1>6, <1>13 DEF Live
<1>15. \A t \in States : Entered(t) \subseteq DOMAIN made
  BY <1>12 DEF Entered, IInv, StackInv
<1>16. /\ \A m, t : Usable(m, t) => Usable(m, t)'
       /\ Usable(n, s)'
       /\ \A m \in DOMAIN made : NeedsExit(m)' <=> NeedsExit(m)
  BY <1>8, <1>9, <1>10, <1>14 DEF Usable, NeedsExit
<1>17. \A m \in f.uses : m \in DOMAIN made /\ m \in 1..(n - 1) /\ made[m].owner \in {App, s}
  BY <1>7, <1>8, <1>10 DEF Usable
<1>18. MadeInv'
  <2> SUFFICES ASSUME NEW m \in DOMAIN made', NEW l \in made'[m].uses
               PROVE  l \in 1..(m - 1) /\ made'[l].owner \in {App, made'[m].owner}
    BY <1>8 DEF MadeInv
  <2>1. CASE m = n
    BY <2>1, <1>8, <1>9, <1>17
  <2>2. CASE m # n
    <3>1. m \in DOMAIN made
      BY <2>2, <1>8, <1>10
    <3>2. l \in 1..(m - 1) /\ made[l].owner \in {App, made[m].owner}
      BY <3>1, <1>8 DEF IInv, MadeInv
    <3>3. l \in DOMAIN made
      BY <3>1, <3>2, <1>8
    <3> QED
      BY <3>1, <3>2, <3>3, <1>8
  <2> QED
    BY <2>1, <2>2
<1>19. StackInv'
  <2>1. exiting' \in [States -> {0} \cup DOMAIN made']
    BY <1>1, <1>8, <1>10 DEF IInv, StackInv
  <2>2. ASSUME NEW t \in States
        PROVE  \A p, q \in DOMAIN stack'[t] : p < q => stack'[t][p] < stack'[t][q]
    <3>1. CASE t # s \/ f.key \notin Managed
      BY <3>1, <1>6, <1>11 DEF IInv, StackInv
    <3>2. CASE t = s /\ f.key \in Managed
      <4>1. /\ Len(stack[s]) \in Nat /\ DOMAIN stack[s] = 1..Len(stack[s])
            /\ DOMAIN stack'[s] = 1..(Len(stack[s]) + 1)
        BY <3>2, <1>6, <1>11, <1>12
      <4>2. \A p \in 1..Len(stack[s]) : stack[s][p] \in 1..(n - 1)
        BY <4>1, <1>6, <1>8, <1>10, <1>12, ElementOfSeq DEF IInv, StackInv
      <4>3. \A p \in 1..Len(stack[s]) :
              stack'[s][p] = stack[s][p] /\ stack'[s][Len(stack[s]) + 1] = n
        BY <3>2, <1>11
      <4>4. \A p, q \in 1..Len(stack[s]) : p < q => stack[s][p] < stack[s][q]
        BY <4>1, <1>6 DEF IInv, StackInv
      <4> QED
        BY <3>2, <4>1, <4>2, <4>3, <4>4, <1>10
    <3> QED
      BY <3>1, <3>2
  <2>3. ASSUME NEW t \in States, exiting'[t] # 0
        PROVE  \A p \in DOMAIN stack'[t] : stack'[t][p] < exiting'[t]
    <3>1. t # s
      BY <2>3, <1>1, <1>6 DEF IInv, StatusInv
    <3> QED
      BY <2>3, <3>1, <1>1, <1>11 DEF IInv, StackInv
  <2>4. ASSUME NEW t \in States, NEW m \in Entered(t)'
        PROVE  made'[m].owner = t
    <3>1. CASE m \in Entered(t)
      BY <3>1, <1>8, <1>15 DEF IInv, StackInv
    <3>2. CASE m \notin Entered(t)
      <4>1. t = s /\ m = n
        BY <3>2, <2>4, <1>6, <1>13
      <4> QED
        BY <4>1, <1>8, <1>9
    <3> QED
      BY <3>1, <3>2
  <2> QED
    BY <1>11, <2>1, <2>2, <2>3, <2>4 DEF StackInv
<1>20. StatusInv'
  <2>1. \A t \in States : status[t] \in {"new", "closed"} => t # s
    BY <1>6
  <2> QED
    BY <2>1, <1>1, <1>6, <1>11 DEF IInv, StatusInv
<1>21. LiveInv'
  <2> SUFFICES ASSUME NEW m \in Live', NEW l \in made'[m].uses, NeedsExit(l)'
               PROVE  l \in Live'
    BY DEF LiveInv
  <2>1. CASE m = n
    BY <2>1, <1>7, <1>8, <1>9, <1>14, <1>16 DEF Usable
  <2>2. CASE m # n
    <3>1. m \in Live /\ m \in DOMAIN made
      BY <2>2, <1>14, <1>15 DEF Live
    <3>2. l \in made[m].uses /\ l \in DOMAIN made
      BY <3>1, <1>8 DEF IInv, MadeInv
    <3> QED
      BY <3>1, <3>2, <1>14, <1>16 DEF IInv, LiveInv
  <2> QED
    BY <2>1, <2>2
<1>22. CacheInv'
  <2>1. cache' \in [States -> [Keys -> {0} \cup DOMAIN made']]
    <3>1. DOMAIN made \subseteq DOMAIN made' /\ n \in DOMAIN made'
      BY <1>8, <1>10
    <3> QED
      BY <3>1, <1>1, <1>5, <1>6 DEF IInv, CacheInv
  <2>2. ASSUME NEW t \in States, NEW k \in Keys, cache'[t][k] # 0
        PROVE  /\ made'[cache'[t][k]].owner = t /\ status'[t] # "new"
               /\ status'[t] \in {"opening", "open"} =>
                    \A m \in Reach(cache[t][k])' : Usable(m, t)'
    <3>1. CASE t = s /\ k = f.key
      <4>1. cache'[t][k] = n
        BY <3>1, <1>1, <1>5, <1>6 DEF IInv, CacheInv
      <4>2. Reach(cache[t][k])' = {n} \cup f.uses
        BY <4>1, <1>8, <1>9 DEF Reach
      <4> QED
        <5>1. status' = status
          BY <1>1
        <5>2. made'[n].owner = s /\ \A m \in {n} \cup f.uses : Usable(m, s)'
          BY <1>7, <1>8, <1>9, <1>16
        <5> QED
          BY <3>1, <4>1, <4>2, <5>1, <5>2, <1>6
    <3>2. CASE ~(t = s /\ k = f.key)
      <4>1. cache'[t][k] = cache[t][k] /\ cache[t][k] \in DOMAIN made
        BY <2>2, <3>2, <1>1, <1>5, <1>6 DEF IInv, CacheInv
      <4>2. Reach(cache[t][k])' = Reach(cache[t][k])
        BY <4>1, <1>8 DEF Reach
      <4>3. \A m : Usable(m, t) => Usable(m, t)'
        BY <1>16
      <4>4. status' = status
        BY <1>1
      <4> QED
        BY <2>2, <4>1, <4>2, <4>3, <4>4, <1>8 DEF IInv, CacheInv
    <3> QED
      BY <3>1, <3>2
  <2> QED
    BY <2>1, <2>2 DEF CacheInv
<1>23. ASSUME Len(fs) # 1
       PROVE  /\ hs \in Seq(Frame) /\ hs # <<>> /\ Nested(hs)
              /\ \A i \in 1..Len(hs) : \A m \in hs[i].uses :
                   Usable(m, Owner(c, hs[i].key))'
  <2>0. PICK up, reach, g : up = Len(fs) - 1 /\ reach = {n} \cup f.uses /\ g = fs[up]
    OBVIOUS
  <2>1. Len(fs) > 1 /\ up \in 1..(Len(fs) - 1)
    <3>1. Len(fs) \in Nat /\ Len(fs) # 0 /\ Len(fs) # 1
      BY <1>4, <1>23
    <3> QED
      BY <3>1, <2>0
  <2>2. /\ GoodFrames(c, gs) /\ gs # <<>> /\ Len(gs) = up /\ gs[up] = g
    BY <2>0, <2>1, <1>2, PoppedGood DEF gs
  <2>3. hs = [gs EXCEPT ![Len(gs)] = Took(gs[Len(gs)], reach)]
    BY <2>0, <2>2 DEF hs
  <2>4. g \in Frame /\ g.next <= Len(Deps[g.key]) /\ f.key = Deps[g.key][g.next]
    BY <2>0, <2>1, <1>2, <1>4, ElementOfSeq DEF GoodFrames, Nested
  <2>5. g.key \in Keys /\ g.next \in DOMAIN Deps[g.key]
    <3>1. g.key \in Keys /\ g.next \in Nat \ {0}
      BY <2>4 DEF Frame
    <3>2. Deps[g.key] \in Seq(Keys)
      BY <3>1, KeysAssumption
    <3> QED
      BY <3>1, <3>2, <2>4
  <2>6. s \in {App, Owner(c, g.key)}
    BY <1>0, <2>4, <2>5, DepOwner
  <2>7. reach \in SUBSET Nat
    BY <2>0, <1>5, <1>10
  <2>8. /\ hs \in Seq(Frame) /\ Nested(hs) /\ Len(hs) = Len(gs)
        /\ \A i \in 1..Len(gs) :
             /\ hs[i].key = gs[i].key
             /\ hs[i].uses = gs[i].uses \cup
                  (IF i = Len(gs) THEN reach ELSE {})
    <3>1. gs \in Seq(Frame) /\ Nested(gs)
      BY <2>2 DEF GoodFrames
    <3> DEFINE ks == [gs EXCEPT ![Len(gs)] = Took(gs[Len(gs)], reach)]
    <3>2. /\ ks \in Seq(Frame) /\ Nested(ks) /\ Len(ks) = Len(gs)
          /\ \A i \in 1..Len(gs) :
               /\ ks[i].key = gs[i].key
               /\ ks[i].uses = gs[i].uses \cup (IF i = Len(gs) THEN reach ELSE {})
      BY <2>2, <2>7, <3>1, TookShape
    <3>3. hs = ks
      BY <2>3
    <3> HIDE DEF ks
    <3> QED
      BY <3>2, <3>3
  <2>9. hs # <<>>
    BY <2>2, <2>8, EmptySeq DEF GoodFrames
  <2>10. ASSUME NEW i \in 1..Len(hs), NEW m \in hs[i].uses
         PROVE  Usable(m, Owner(c, hs[i].key))'
    <3>1. CASE m \in gs[i].uses
      <4>1. Usable(m, Owner(c, gs[i].key))
        BY <3>1, <2>2, <2>8 DEF GoodFrames, Holds
      <4> QED
        BY <4>1, <2>8, <1>16 DEF Owner
    <3>2. CASE m \notin gs[i].uses
      <4>1. i = Len(gs) /\ m \in {n} \cup f.uses
        BY <3>2, <2>0, <2>8
      <4>2. Usable(m, s)'
        BY <4>1, <1>7, <1>16
      <4>3. hs[i].key = g.key
        BY <4>1, <2>2, <2>8
      <4> QED
        BY <4>2, <4>3, <2>6 DEF Usable, Owner
    <3> QED
      BY <3>1, <3>2
  <2> QED
    BY <2>8, <2>9, <2>10
<1>24. /\ frames' \in [Callers -> Seq(Frame)]
       /\ \A d \in Callers \ {c} : frames'[d] = frames[d]
       /\ Len(fs) = 1 => frames'[c] = <<>>
       /\ Len(fs) # 1 => frames'[c] = hs /\ frames'[c] # <<>>
  <2>1. <<>> \in Seq(Frame)
    BY EmptySeq
  <2> QED
    BY <2>1, <1>1, <1>3, <1>23 DEF IInv, FrameInv
<1>25. FrameInv'
  <2>1. ASSUME NEW d \in Callers
        PROVE  /\ Nested(frames'[d])
               /\ \A i \in 1..Len(frames'[d]) : \A m \in frames'[d][i].uses :
                    Usable(m, Owner(d, frames[d][i].key))'
    <3>1. CASE d # c
      <4>1. frames'[d] = frames[d] /\ GoodFrames(d, frames[d])
        BY <3>1, <1>24, FramesGood DEF IInv
      <4> QED
        BY <4>1, <1>16 DEF GoodFrames, Holds, Owner
    <3>2. CASE d = c /\ Len(fs) = 1
      BY <3>2, <1>24 DEF Nested
    <3>3. CASE d = c /\ Len(fs) # 1
      BY <3>3, <1>23, <1>24
    <3> QED
      BY <3>1, <3>2, <3>3
  <2>2. \A d \in Callers : DOMAIN frames'[d] = 1..Len(frames'[d])
    BY <1>24, LenProperties
  <2>3. ASSUME NEW d \in Callers, frames'[d] # <<>>
        PROVE  status'[Home[d]] \in {"opening", "open"}
    BY <2>3, <1>1, <1>2, <1>24 DEF IInv, FrameInv
  <2>4. ASSUME NEW d \in Callers, NEW i \in DOMAIN frames'[d], NEW m \in frames'[d][i].uses
        PROVE  Usable(m, Owner(d, frames[d][i].key))'
    BY <2>1, <2>2
  <2> QED
    BY <1>24, <2>1, <2>3, <2>4 DEF FrameInv, Nested
<1>26. LoopInv'
  <2>1. \A t \in States : t # c /\ t # None /\ c # None
    BY NamesAssumption
  <2>2. todo' \in [Callers -> SUBSET Keys]
    BY <1>1 DEF IInv, LoopInv
  <2>3. Len(fs) = 1 => running' = None
    BY <1>1
  <2>4. Len(fs) # 1 => running' = c
    BY <1>1
  <2>5. failed' = failed /\ status' = status /\ exiting' = exiting
    BY <1>1
  <2>6. \A d \in Callers : d # None
    BY NamesAssumption
  <2> QED
    BY <1>24, <2>1, <2>2, <2>3, <2>4, <2>5, <2>6 DEF IInv, LoopInv
<1>27. Contract!Acquire
  <2>1. /\ made'[n].uses \subseteq DOMAIN made
        /\ \A m \in made'[n].uses : made[m].key \in Managed => m \in Live
    BY <1>7, <1>8, <1>9, <1>17 DEF Usable, NeedsExit
  <2>2. Live' = IF made'[n].key \in Managed THEN Live \cup {n} ELSE Live
    BY <1>8, <1>9, <1>14
  <2> QED
    BY <1>0, <1>8, <2>1, <2>2 DEF Contract!Acquire, Contract!NeedsRelease
<1>28. NewestLeaves
  <2>1. \A t \in States : \A p \in DOMAIN stack[t] :
          p \in DOMAIN stack'[t] /\ stack'[t][p] = stack[t][p]
    BY <1>6, <1>11, <1>12
  <2>2. \A t \in States : Members(stack[t]) \subseteq Members(stack[t])'
    BY <2>1 DEF Members
  <2> QED
    BY <2>2 DEF NewestLeaves
<1> QED
  BY <1>18, <1>19, <1>20, <1>21, <1>22, <1>25, <1>26, <1>27, <1>28 DEF IInv

(* The statuses of the scopes: nothing is entered, built or cached.         *)
LEMMA StatusStep ==
  ASSUME IInv, Detached = {}, NEW s \in States, NEW from, NEW to,
         status[s] = from, status' = [status EXCEPT ![s] = to],
         UNCHANGED <<taskVars, cache, stack, exiting, made>>,
         \/ from = "new" /\ to \in {"opening", "open"}
         \/ from = "opening" /\ to = "open"
         \/ from \in {"opening", "open"} /\ to = "closing" /\ AwaitedCallersDone(s)
         \/ from = "closing" /\ to = "closed"
  PROVE  MadeInv' /\ StackInv' /\ LiveInv' /\ FrameInv' /\ CacheInv'
<1> USE DEF taskVars
<1>1. status \in [States -> {"new", "opening", "open", "closing", "closed"}]
  BY DEF IInv, StatusInv
<1>2. status'[s] = to /\ \A t \in States \ {s} : status'[t] = status[t]
  BY <1>1
<1>3. MadeInv' /\ StackInv' /\ LiveInv'
  BY SameResources
<1>4. CacheInv'
  <2>1. \A t \in States :
          /\ status'[t] \in {"opening", "open"} =>
               status[t] \in {"new", "opening", "open"}
          /\ status'[t] = "new" => status[t] = "new"
    BY <1>2
  <2> QED
    BY <2>1, SameCache
<1>5. FrameInv'
  <2> SUFFICES ASSUME NEW d \in Callers, frames[d] # <<>>
               PROVE  status'[Home[d]] \in {"opening", "open"}
    BY FramesStay
  <2>1. status[Home[d]] \in {"opening", "open"} /\ Home[d] \in States
    BY CallersAssumption DEF IInv, FrameInv
  <2>2. ~(Home[d] = s /\ AwaitedCallersDone(s))
    BY DEF AwaitedCallersDone, Done
  <2> QED
    BY <1>2, <2>1, <2>2
<1> QED
  BY <1>3, <1>4, <1>5

LEMMA OpenAppStep ==
  ASSUME IInv, Detached = {}, OpenApp
  PROVE  IInv'
<1> USE DEF OpenApp, SetStatus
<1>1. App \in States
  BY DEF States
<1>2. MadeInv' /\ StackInv' /\ LiveInv' /\ FrameInv' /\ CacheInv'
  BY <1>1, StatusStep
<1>3. StatusInv' /\ LoopInv'
  BY <1>1, NamesAssumption DEF IInv, StatusInv, LoopInv, taskVars
<1> QED
  BY <1>2, <1>3 DEF IInv

LEMMA AppReadyStep ==
  ASSUME IInv, Detached = {}, AppReady
  PROVE  IInv'
<1> USE DEF AppReady, SetStatus
<1>1. App \in States
  BY DEF States
<1>2. MadeInv' /\ StackInv' /\ LiveInv' /\ FrameInv' /\ CacheInv'
  BY <1>1, StatusStep
<1>3. StatusInv' /\ LoopInv'
  BY <1>1, NamesAssumption DEF IInv, StatusInv, LoopInv, taskVars
<1> QED
  BY <1>2, <1>3 DEF IInv

LEMMA OpenRequestStep ==
  ASSUME IInv, Detached = {}, NEW r \in Requests, OpenRequest(r)
  PROVE  IInv'
<1> USE DEF OpenRequest, SetStatus
<1>1. r \in States /\ r # App
  BY NamesAssumption DEF States
<1>2. MadeInv' /\ StackInv' /\ LiveInv' /\ FrameInv' /\ CacheInv'
  BY <1>1, StatusStep
<1>3. StatusInv' /\ LoopInv'
  BY <1>1, NamesAssumption DEF IInv, StatusInv, LoopInv, taskVars
<1> QED
  BY <1>2, <1>3 DEF IInv

LEMMA BeginCloseStep ==
  ASSUME IInv, Detached = {}, NEW s \in States, BeginClose(s)
  PROVE  IInv'
<1>1. /\ status[s] \in {"opening", "open"} /\ AwaitedCallersDone(s)
      /\ s = App => \A r \in Requests : status[r] \in {"new", "closed"}
      /\ status' = [status EXCEPT ![s] = "closing"] /\ running' = s
      /\ UNCHANGED <<taskVars, cache, stack, exiting, made>>
  BY DEF BeginClose, BodyOver
<1>2. MadeInv' /\ StackInv' /\ LiveInv' /\ FrameInv' /\ CacheInv'
  BY <1>1, StatusStep
<1>3. StatusInv'
  BY <1>1, NamesAssumption DEF IInv, StatusInv, States
<1>4. LoopInv'
  <2>1. exiting[s] = 0 /\ status'[s] = "closing"
    BY <1>1 DEF IInv, StatusInv
  <2>2. \A c \in Callers : c # s
    BY NamesAssumption
  <2> QED
    BY <1>1, <2>1, <2>2 DEF IInv, LoopInv, taskVars
<1> QED
  BY <1>2, <1>3, <1>4 DEF IInv

LEMMA EndCloseStep ==
  ASSUME IInv, Detached = {}, NEW s \in States, EndClose(s)
  PROVE  IInv'
<1>1. /\ status[s] = "closing" /\ exiting[s] = 0 /\ stack[s] = <<>>
      /\ status' = [status EXCEPT ![s] = "closed"] /\ running' = None
      /\ UNCHANGED <<taskVars, cache, stack, exiting, made>>
  BY DEF EndClose, IInv, LoopInv
<1>2. MadeInv' /\ StackInv' /\ LiveInv' /\ FrameInv' /\ CacheInv'
  BY <1>1, StatusStep
<1>3. StatusInv'
  BY <1>1 DEF IInv, StatusInv, States
<1>4. LoopInv'
  BY <1>1, NamesAssumption DEF IInv, LoopInv, taskVars
<1> QED
  BY <1>2, <1>3, <1>4 DEF IInv

-----------------------------------------------------------------------------
(* Nothing live, nothing being built and no open cache uses the newest     *)
(* entered resource of a scope that is closing.                            *)
LEMMA NobodyUses ==
  ASSUME IInv, NEW s \in States, status[s] = "closing",
         NEW n \in Entered(s), \A m \in Entered(s) : m <= n
  PROVE  /\ n \in DOMAIN made /\ made[n].owner = s
         /\ \A m \in Live : n \notin made[m].uses
         /\ \A d \in Callers : \A i \in DOMAIN frames[d] :
              n \notin frames[d][i].uses
         /\ \A t \in States, k \in Keys :
              cache[t][k] # 0 /\ status[t] \in {"opening", "open"} =>
                n \notin Reach(cache[t][k])
<1>1. /\ made \in Seq(Instance) /\ DOMAIN made = 1..Len(made) /\ Len(made) \in Nat
  BY LenProperties DEF IInv, MadeInv
<1>2. \A t \in States : Entered(t) \subseteq DOMAIN made
  <2>1. \A t \in States : stack[t] \in Seq(DOMAIN made) /\ exiting[t] \in {0} \cup DOMAIN made
    BY DEF IInv, StackInv
  <2>2. \A t \in States : \A i \in DOMAIN stack[t] : stack[t][i] \in DOMAIN made
    BY <2>1, LenProperties, ElementOfSeq
  <2> QED
    BY <2>1, <2>2 DEF Entered
<1>3. n \in DOMAIN made /\ made[n].owner = s
  BY <1>2 DEF IInv, StackInv
<1>4. s = App => \A t \in States \ {App} : status[t] \in {"new", "closed"}
  BY DEF IInv, StatusInv, States
<1>5. ASSUME NEW m \in Live, n \in made[m].uses
      PROVE  FALSE
  <2>1. PICK t \in States : m \in Entered(t)
    BY DEF Live
  <2>2. m \in DOMAIN made /\ made[m].owner = t
    BY <2>1, <1>2 DEF IInv, StackInv
  <2>3. n \in 1..(m - 1) /\ s \in {App, t}
    BY <1>3, <1>5, <2>2 DEF IInv, MadeInv
  <2>4. m \in Nat /\ n \in Nat /\ n < m
    BY <1>1, <2>2, <2>3
  <2>5. t # s
    BY <2>1, <2>4
  <2>6. status[t] \in {"new", "closed"}
    BY <1>4, <2>3, <2>5
  <2>7. stack[t] = <<>> /\ exiting[t] = 0
    BY <2>6 DEF IInv, StatusInv
  <2> QED
    BY <2>1, <2>7 DEF Entered
<1>6. ASSUME NEW d \in Callers, NEW i \in DOMAIN frames[d], n \in frames[d][i].uses
      PROVE  FALSE
  <2>1. /\ frames[d] \in Seq(Frame) /\ i \in 1..Len(frames[d])
        /\ Usable(n, Owner(d, frames[d][i].key))
    BY <1>6, LenProperties DEF IInv, FrameInv
  <2>2. frames[d] # <<>> /\ frames[d][i].key \in Keys
    <3>1. frames[d][i] \in Frame
      BY <2>1, ElementOfSeq
    <3>2. frames[d] # <<>>
      BY <2>1, EmptySeq
    <3> QED
      BY <3>1, <3>2 DEF Frame
  <2>3. status[Home[d]] \in {"opening", "open"} /\ Home[d] \in States
    BY <2>2, CallersAssumption DEF IInv, FrameInv
  <2>4. s \in {App, Home[d]}
    BY <2>1, <1>3 DEF Usable, Owner
  <2> QED
    BY <2>3, <2>4, <1>4
<1>7. ASSUME NEW t \in States, NEW k \in Keys, cache[t][k] # 0,
             status[t] \in {"opening", "open"}, n \in Reach(cache[t][k])
      PROVE  FALSE
  <2>1. s \in {App, t}
    BY <1>3, <1>7 DEF IInv, CacheInv, Usable
  <2> QED
    BY <2>1, <1>4, <1>7
<1> QED
  BY <1>3, <1>5, <1>6, <1>7

(* It may leave. *)
LEMMA GoneStep ==
  ASSUME IInv, NEW s \in States, status[s] = "closing",
         NEW n \in Entered(s), \A m \in Entered(s) : m <= n,
         UNCHANGED <<made, cache, frames, status>>, Live' = Live \ {n}
  PROVE  /\ MadeInv' /\ LiveInv' /\ FrameInv' /\ CacheInv'
         /\ Contract!Release
<1>1. /\ \A m \in Live : n \notin made[m].uses
      /\ \A d \in Callers : \A i \in DOMAIN frames[d] :
           n \notin frames[d][i].uses
      /\ \A t \in States, k \in Keys :
           cache[t][k] # 0 /\ status[t] \in {"opening", "open"} =>
             n \notin Reach(cache[t][k])
  BY NobodyUses
<1>2. \A m, t : m # n /\ Usable(m, t) => Usable(m, t)'
  BY DEF Usable, NeedsExit
<1>3. MadeInv'
  BY DEF IInv, MadeInv
<1>4. LiveInv'
  BY <1>1 DEF IInv, LiveInv, NeedsExit
<1>5. FrameInv'
  <2>1. ASSUME NEW d \in Callers, NEW i \in DOMAIN frames[d],
               NEW m \in frames[d][i].uses
        PROVE  Usable(m, Owner(d, frames[d][i].key))'
    BY <1>1, <1>2 DEF IInv, FrameInv, Owner
  <2> QED
    BY <2>1 DEF IInv, FrameInv
<1>6. CacheInv'
  <2>1. \A m : Reach(m)' = Reach(m)
    BY DEF Reach
  <2> QED
    BY <1>1, <1>2, <2>1 DEF IInv, CacheInv
<1>7. Contract!Release
  <2>1. n \in Live
    BY DEF Live
  <2> QED
    BY <1>1, <2>1 DEF Contract!Release
<1> QED
  BY <1>3, <1>4, <1>5, <1>6, <1>7


Sorted(st) == \A p, q \in DOMAIN st : p < q => st[p] < st[q]

(* The two sides of Entered, before and after a step. *)
LEMMA EnteredMembers ==
  ASSUME NEW s \in States
  PROVE  /\ Entered(s) = Members(stack[s]) \cup ({exiting[s]} \ {0})
         /\ Entered(s)' = Members(stack'[s]) \cup ({exiting'[s]} \ {0})
BY DEF Entered, Members

LEMMA EnteredNat ==
  ASSUME IInv, NEW s \in States
  PROVE  Members(stack[s]) \subseteq Nat
<1>1. \A m \in DOMAIN made : m \in Nat
  BY LenProperties DEF IInv, MadeInv
<1>2. stack[s] \in Seq(DOMAIN made)
  BY DEF IInv, StackInv
<1>3. \A p \in DOMAIN stack[s] : stack[s][p] \in DOMAIN made
  BY <1>2, LenProperties, ElementOfSeq
<1> QED
  BY <1>1, <1>3 DEF Members

(* aclose takes the newest callback off the stack. *)
LEMMA PoppedStack ==
  ASSUME IInv, NEW s \in States, stack[s] # <<>>,
         stack' = [stack EXCEPT ![s] = Popped(s)],
         NEW n, n = LastPushed(s)
  PROVE  /\ stack' \in [States -> Seq(DOMAIN made)]
         /\ \A t \in States \ {s} : stack'[t] = stack[t]
         /\ n \in DOMAIN made /\ n \in Nat \ {0}
         /\ Sorted(stack'[s]) /\ \A m \in Members(stack'[s]) : m < n
         /\ Members(stack[s]) = Members(stack'[s]) \cup {n}
<1>0. PICK st, L : st = stack[s] /\ L = Len(stack[s])
  OBVIOUS
<1>1. /\ st \in Seq(DOMAIN made) /\ L \in Nat \ {0} /\ L = Len(st)
      /\ DOMAIN st = 1..L
  <2>1. st \in Seq(DOMAIN made)
    BY <1>0 DEF IInv, StackInv
  <2> QED
    BY <1>0, <2>1, EmptySeq, LenProperties
<1>2. \A p \in 1..L : st[p] \in DOMAIN made
  BY <1>1, ElementOfSeq
<1>3. PICK ps : ps = Popped(s)
  OBVIOUS
<1>4. ps \in Seq(DOMAIN made) /\ DOMAIN ps = 1..(L - 1) /\ \A p \in 1..(L - 1) : ps[p] = st[p]
  <2>1. ps = SubSeq(st, 1, L - 1)
    BY <1>0, <1>3 DEF Popped
  <2>2. /\ ps \in Seq(DOMAIN made) /\ Len(ps) = L - 1
        /\ \A p \in 1..(L - 1) : ps[p] = st[p]
    BY <1>1, <1>2, <2>1, SubSeqProperties
  <2> QED
    BY <2>2, LenProperties
<1>5. n = st[L] /\ n \in DOMAIN made
  BY <1>0, <1>1, <1>2 DEF LastPushed
<1>6. n \in Nat \ {0}
  BY <1>5, LenProperties DEF IInv, MadeInv
<1>7. \A p, q \in 1..L : p < q => st[p] < st[q]
  BY <1>0, <1>1 DEF IInv, StackInv
<1>8. /\ stack'[s] = ps
      /\ stack' \in [States -> Seq(DOMAIN made)]
      /\ \A t \in States \ {s} : stack'[t] = stack[t]
  BY <1>3, <1>4 DEF IInv, StackInv
<1>9. \A m \in Members(ps) : m < n
  <2>1. \A p \in 1..(L - 1) : ps[p] < n
    BY <1>1, <1>4, <1>5, <1>7
  <2> QED
    BY <2>1, <1>4 DEF Members
<1>10. Sorted(ps)
  BY <1>1, <1>4, <1>7 DEF Sorted
<1>11. Members(st) = Members(ps) \cup {n}
  <2>1. 1..L = (1..(L - 1)) \cup {L}
    BY <1>1
  <2>2. {st[p] : p \in 1..L} = {st[p] : p \in 1..(L - 1)} \cup {n}
    BY <2>1, <1>5
  <2>3. {st[p] : p \in 1..(L - 1)} = {ps[p] : p \in 1..(L - 1)}
    BY <1>4
  <2>4. Members(st) = {st[p] : p \in 1..L} /\ Members(ps) = {ps[p] : p \in 1..(L - 1)}
    BY <1>1, <1>4 DEF Members
  <2> QED
    BY <2>2, <2>3, <2>4
<1> QED
  BY <1>0, <1>5, <1>6, <1>8, <1>9, <1>10, <1>11

(* What a scope has entered is owned by it alone: what leaves s leaves Live. *)
LEMMA LeavesLive ==
  ASSUME IInv, NEW s \in States, NEW n \in Entered(s),
         Entered(s)' = Entered(s) \ {n},
         \A t \in States \ {s} : Entered(t)' = Entered(t)
  PROVE  Live' = Live \ {n}
<1>1. \A t \in States \ {s} : n \notin Entered(t)
  BY DEF IInv, StackInv
<1> QED
  BY <1>1 DEF Live

LEMMA ExitReturnsStep ==
  ASSUME IInv, NEW s \in States, ExitReturns(s)
  PROVE  IInv' /\ Contract!Release /\ NewestLeaves
<1>0. PICK n : n = LastPushed(s)
  OBVIOUS
<1>1. /\ stack[s] # <<>> /\ status[s] = "closing" /\ exiting[s] = 0
      /\ stack' = [stack EXCEPT ![s] = Popped(s)]
      /\ UNCHANGED <<running, taskVars, status, cache, exiting, made>>
  BY DEF ExitReturns, IInv, LoopInv
<1>2. /\ stack' \in [States -> Seq(DOMAIN made)]
      /\ \A t \in States \ {s} : stack'[t] = stack[t]
      /\ n \in DOMAIN made /\ n \in Nat \ {0}
      /\ Sorted(stack'[s]) /\ \A m \in Members(stack'[s]) : m < n
      /\ Members(stack[s]) = Members(stack'[s]) \cup {n}
  BY <1>0, <1>1, PoppedStack
<1>3. \A t \in States \ {s} : Entered(t)' = Entered(t)
  BY <1>1, <1>2 DEF Entered
<1>4. Entered(s) = Members(stack'[s]) \cup {n} /\ Entered(s)' = Members(stack'[s])
  <2>1. exiting'[s] = 0
    BY <1>1
  <2> QED
    BY <2>1, <1>1, <1>2, EnteredMembers
<1>5. \A m \in Entered(s)' : m < n
  BY <1>2, <1>4
<1>6. /\ n \in Entered(s) /\ \A m \in Entered(s) : m <= n
      /\ Entered(s)' = Entered(s) \ {n}
  <2>1. n <= n /\ ~(n < n) /\ n \in Nat
    BY <1>2
  <2>2. \A m \in Members(stack[s]) : m < n => m <= n
    BY EnteredNat, <2>1
  <2>3. n \notin Entered(s)'
    BY <1>5, <2>1
  <2> QED
    BY <1>2, <1>4, <1>5, <2>1, <2>2, <2>3
<1>7. MadeInv' /\ LiveInv' /\ FrameInv' /\ CacheInv' /\ Contract!Release
  <2>1. Live' = Live \ {n}
    BY <1>3, <1>6, LeavesLive
  <2> QED
    BY <2>1, <1>1, <1>6, GoneStep DEF taskVars
<1>8. StackInv'
  <2>1. \A t \in States : Sorted(stack'[t])
    BY <1>2 DEF IInv, StackInv, Sorted
  <2>2. \A t \in States : exiting'[t] # 0 =>
          \A p \in DOMAIN stack'[t] : stack'[t][p] < exiting'[t]
    BY <1>1, <1>2 DEF IInv, StackInv
  <2>3. \A t \in States : Entered(t)' \subseteq Entered(t)
    BY <1>3, <1>6
  <2>4. \A t \in States : \A m \in Entered(t)' : made'[m].owner = t
    BY <1>1, <2>3 DEF IInv, StackInv
  <2>5. exiting' \in [States -> {0} \cup DOMAIN made']
    BY <1>1 DEF IInv, StackInv
  <2>6. stack' \in [States -> Seq(DOMAIN made')]
    BY <1>1, <1>2
  <2> QED
    BY <2>1, <2>2, <2>4, <2>5, <2>6 DEF StackInv, Sorted
<1>9. StatusInv' /\ LoopInv'
  <2>1. \A t \in States : status[t] \in {"new", "closed"} => stack'[t] = stack[t]
    BY <1>1, <1>2
  <2> QED
    BY <1>1, <2>1 DEF IInv, StatusInv, LoopInv, taskVars
<1>10. NewestLeaves
  BY <1>2 DEF NewestLeaves
<1> QED
  BY <1>7, <1>8, <1>9, <1>10 DEF IInv

LEMMA ExitSuspendsStep ==
  ASSUME IInv, NEW s \in States, ExitSuspends(s)
  PROVE  IInv' /\ UNCHANGED Contract!vars /\ NewestLeaves
<1>0. PICK n : n = LastPushed(s)
  OBVIOUS
<1>1. /\ stack[s] # <<>> /\ status[s] = "closing" /\ exiting[s] = 0
      /\ stack' = [stack EXCEPT ![s] = Popped(s)]
      /\ exiting'[s] = n /\ \A t \in States \ {s} : exiting'[t] = exiting[t]
      /\ exiting' = [exiting EXCEPT ![s] = n]
      /\ running' = None /\ UNCHANGED <<taskVars, status, cache, made>>
  BY <1>0 DEF ExitSuspends, IInv, LoopInv, StackInv
<1>2. /\ stack' \in [States -> Seq(DOMAIN made)]
      /\ \A t \in States \ {s} : stack'[t] = stack[t]
      /\ n \in DOMAIN made /\ n \in Nat \ {0}
      /\ Sorted(stack'[s]) /\ \A m \in Members(stack'[s]) : m < n
      /\ Members(stack[s]) = Members(stack'[s]) \cup {n}
  BY <1>0, <1>1, PoppedStack
<1>3. \A t \in States : Entered(t)' = Entered(t)
  <2>1. \A t \in States \ {s} : Entered(t)' = Entered(t)
    BY <1>1, <1>2 DEF Entered
  <2>2. /\ Entered(s) = Members(stack[s])
        /\ Entered(s)' = Members(stack'[s]) \cup {n}
    BY <1>1, <1>2, EnteredMembers
  <2> QED
    BY <2>1, <2>2, <1>2
<1>4. /\ Live' = Live
      /\ \A m, t : Usable(m, t)' <=> Usable(m, t)
  BY <1>1, <1>3 DEF Live, Usable, NeedsExit
<1>5. MadeInv' /\ LiveInv'
  BY <1>1, <1>4 DEF IInv, MadeInv, LiveInv, NeedsExit
<1>6. FrameInv'
  BY <1>1, <1>4 DEF IInv, FrameInv, Owner, taskVars
<1>7. CacheInv'
  BY <1>1, <1>4 DEF IInv, CacheInv, Reach
<1>8. StackInv'
  <2>1. \A t \in States : Sorted(stack'[t])
    BY <1>2 DEF IInv, StackInv, Sorted
  <2>2. \A t \in States : exiting'[t] # 0 =>
          \A p \in DOMAIN stack'[t] : stack'[t][p] < exiting'[t]
    BY <1>1, <1>2 DEF IInv, StackInv, Members
  <2>3. \A t \in States : \A m \in Entered(t)' : made'[m].owner = t
    BY <1>1, <1>3 DEF IInv, StackInv
  <2>4. exiting' \in [States -> {0} \cup DOMAIN made']
    BY <1>1, <1>2 DEF IInv, StackInv
  <2>5. stack' \in [States -> Seq(DOMAIN made')]
    BY <1>1, <1>2
  <2> QED
    BY <2>1, <2>2, <2>3, <2>4, <2>5 DEF StackInv, Sorted
<1>9. StatusInv' /\ LoopInv'
  <2>1. \A t \in States : status[t] \in {"new", "closed"} => stack'[t] = stack[t]
    BY <1>1, <1>2
  <2> QED
    BY <1>1, <2>1, NamesAssumption DEF IInv, StatusInv, LoopInv, taskVars
<1>10. NewestLeaves
  BY <1>2 DEF NewestLeaves
<1>11. UNCHANGED Contract!vars
  BY <1>1, <1>4 DEF Contract!vars
<1> QED
  BY <1>5, <1>6, <1>7, <1>8, <1>9, <1>10, <1>11 DEF IInv

LEMMA ExitResumesStep ==
  ASSUME IInv, NEW s \in States, ExitResumes(s)
  PROVE  IInv' /\ Contract!Release
<1>0. PICK n : n = exiting[s]
  OBVIOUS
<1>1. /\ n # 0 /\ status[s] = "closing"
      /\ exiting'[s] = 0 /\ \A t \in States \ {s} : exiting'[t] = exiting[t]
      /\ exiting' \in [States -> {0} \cup DOMAIN made]
      /\ running' = s /\ UNCHANGED <<taskVars, status, cache, stack, made>>
  BY <1>0 DEF ExitResumes, IInv, StatusInv, StackInv
<1>2. \A m \in Members(stack[s]) : m < n
  BY <1>0, <1>1 DEF IInv, StackInv, Members
<1>3. n \in Nat
  <2>1. n \in DOMAIN made
    BY <1>0, <1>1 DEF IInv, StackInv
  <2> QED
    BY <2>1, LenProperties DEF IInv, MadeInv
<1>4. /\ Entered(s) = Members(stack[s]) \cup {n}
      /\ Entered(s)' = Members(stack[s])
      /\ \A t \in States \ {s} : Entered(t)' = Entered(t)
  <2>1. \A t \in States \ {s} : Entered(t)' = Entered(t)
    BY <1>1 DEF Entered
  <2>2. stack' = stack
    BY <1>1
  <2> QED
    BY <2>1, <2>2, <1>0, <1>1, EnteredMembers
<1>5. /\ n \in Entered(s) /\ \A m \in Entered(s) : m <= n
      /\ Entered(s)' = Entered(s) \ {n}
  <2>1. n <= n /\ ~(n < n)
    BY <1>3
  <2>2. \A m \in Members(stack[s]) : m < n => m <= n
    BY EnteredNat, <1>3
  <2>3. \A m \in Entered(s)' : m < n
    BY <1>2, <1>4
  <2>4. n \notin Entered(s)'
    BY <2>1, <2>3
  <2> QED
    BY <1>2, <1>4, <2>1, <2>2, <2>3, <2>4
<1>6. MadeInv' /\ LiveInv' /\ FrameInv' /\ CacheInv' /\ Contract!Release
  <2>1. Live' = Live \ {n}
    BY <1>4, <1>5, LeavesLive
  <2> QED
    BY <2>1, <1>1, <1>5, GoneStep DEF taskVars
<1>7. StackInv'
  <2>1. \A t \in States : Entered(t)' \subseteq Entered(t)
    BY <1>4, <1>5
  <2>2. \A t \in States : \A m \in Entered(t)' : made'[m].owner = t
    BY <1>1, <2>1 DEF IInv, StackInv
  <2> QED
    BY <1>1, <2>2 DEF IInv, StackInv
<1>8. StatusInv' /\ LoopInv'
  BY <1>1, NamesAssumption DEF IInv, StatusInv, LoopInv, taskVars
<1> QED
  BY <1>6, <1>7, <1>8 DEF IInv


-----------------------------------------------------------------------------
LEMMA Initially == Init => IInv
<1> SUFFICES ASSUME Init PROVE IInv
  OBVIOUS
<1> USE DEF Init
<1>1. made = <<>> /\ made \in Seq(Instance) /\ DOMAIN made = {}
  BY EmptySeq
<1>2. MadeInv
  BY <1>1 DEF MadeInv
<1>3. <<>> \in Seq(DOMAIN made) /\ DOMAIN <<>> = {} /\ <<>> \in Seq(Frame)
  BY EmptySeq
<1>4. \A s \in States : Entered(s) = {}
  BY <1>3 DEF Entered
<1>5. StackInv
  BY <1>3, <1>4 DEF StackInv
<1>6. StatusInv
  BY DEF StatusInv, States
<1>7. LoopInv
  BY NamesAssumption, CallersAssumption DEF LoopInv
<1>8. FrameInv
  BY <1>3 DEF FrameInv
<1>9. CacheInv
  BY DEF CacheInv
<1>10. LiveInv
  BY <1>4 DEF LiveInv, Live
<1> QED
  BY <1>2, <1>5, <1>6, <1>7, <1>8, <1>9, <1>10 DEF IInv

(* A step that enters nothing and lets nothing leave is none of Resources. *)
LEMMA Quiet ==
  ASSUME UNCHANGED <<made, stack, exiting>>
  PROVE  UNCHANGED Contract!vars /\ NewestLeaves
<1>1. Live' = Live
  BY DEF Live, Entered
<1> QED
  BY <1>1 DEF Contract!vars, NewestLeaves, Members

(* What a step does: to the invariant, to the contract, to the stacks.     *)
Right == IInv' /\ [Contract!Next]_(Contract!vars) /\ NewestLeaves

LEMMA CallerSteps ==
  ASSUME IInv, Detached = {}, NEW c \in Callers, CallerStep(c)
  PROVE  Right
<1> USE DEF Right, scopeVars, Contract!Next
<1>1. ASSUME NEW k \in Keys, GetCached(c, k) PROVE Right
  BY <1>1, GetCachedStep, Quiet DEF GetCached
<1>2. ASSUME NEW k \in Keys, GetMissing(c, k) PROVE Right
  BY <1>2, GetMissingStep, Quiet DEF GetMissing
<1>3. CASE ResolveDep(c)
  BY <1>3, ResolveDepStep, Quiet DEF ResolveDep
<1>4. CASE RecipeSuspends(c)
  BY <1>4, RecipeSuspendsStep, Quiet DEF RecipeSuspends
<1>5. running = c => frames[c] # <<>> /\ suspended = suspended \ {c}
  BY DEF IInv, LoopInv
<1>6. c \in suspended => frames[c] # <<>>
  BY DEF IInv, LoopInv
<1>7. CASE RecipeReturns(c)
  BY <1>5, <1>7, CompleteStep DEF RecipeReturns
<1>8. CASE RecipeRaises(c)
  BY <1>5, <1>8, RaiseStep, Quiet DEF RecipeRaises, Raise
<1>9. CASE ResumeReturns(c)
  BY <1>6, <1>9, CompleteStep DEF ResumeReturns
<1>10. CASE ResumeRaises(c)
  BY <1>10, RaiseStep, Quiet DEF ResumeRaises, Raise
<1> QED
  BY <1>1, <1>2, <1>3, <1>4, <1>7, <1>8, <1>9, <1>10 DEF CallerStep

LEMMA CloseSteps ==
  ASSUME IInv, Detached = {}, NEW s \in States, CloseStep(s)
  PROVE  Right
<1> USE DEF Right, Contract!Next
<1>1. CASE BeginClose(s)
  BY <1>1, BeginCloseStep, Quiet DEF BeginClose
<1>2. CASE ExitReturns(s)
  BY <1>2, ExitReturnsStep
<1>3. CASE ExitSuspends(s)
  BY <1>3, ExitSuspendsStep
<1>4. CASE ExitResumes(s)
  <2>1. Members(stack[s]) = Members(stack[s])' /\ stack' = stack
    BY <1>4 DEF ExitResumes, Members
  <2>2. NewestLeaves
    BY <2>1 DEF NewestLeaves, Members
  <2> QED
    BY <1>4, <2>2, ExitResumesStep
<1>5. CASE EndClose(s)
  BY <1>5, EndCloseStep, Quiet DEF EndClose
<1> QED
  BY <1>1, <1>2, <1>3, <1>4, <1>5 DEF CloseStep

LEMMA Stuttering ==
  ASSUME IInv, UNCHANGED vars
  PROVE  IInv'
<1> USE DEF vars
<1>1. MadeInv' /\ StackInv' /\ LiveInv'
  BY SameResources
<1>2. CacheInv'
  BY SameCache
<1>3. FrameInv'
  BY FramesStay DEF IInv, FrameInv
<1>4. StatusInv' /\ LoopInv'
  BY DEF IInv, StatusInv, LoopInv
<1> QED
  BY <1>1, <1>2, <1>3, <1>4 DEF IInv

LEMMA EveryStep ==
  ASSUME IInv, Detached = {}, [Next]_vars
  PROVE  Right
<1> USE DEF Right, Contract!Next
<1>1. CASE OpenApp
  BY <1>1, OpenAppStep, Quiet DEF OpenApp, SetStatus
<1>2. CASE AppReady
  BY <1>2, AppReadyStep, Quiet DEF AppReady, SetStatus
<1>3. ASSUME NEW r \in Requests, OpenRequest(r) PROVE Right
  BY <1>3, OpenRequestStep, Quiet DEF OpenRequest, SetStatus
<1>4. ASSUME NEW c \in Callers, CallerStep(c) PROVE Right
  BY <1>4, CallerSteps
<1>5. ASSUME NEW s \in States, CloseStep(s) PROVE Right
  BY <1>5, CloseSteps
<1>6. CASE UNCHANGED vars
  BY <1>6, Stuttering, Quiet DEF vars
<1> QED
  BY <1>1, <1>2, <1>3, <1>4, <1>5, <1>6 DEF Next, AllOver

(* The inductive invariant: what a step of any task may rely on.           *)
THEOREM Invariant ==
  ASSUME Detached = {}
  PROVE  Spec => []IInv
<1>1. Init => IInv
  BY Initially
<1>2. IInv /\ [Next]_vars => IInv'
  BY EveryStep DEF Right
<1> QED
  BY <1>1, <1>2, PTL DEF Spec, SafeSpec

(* Every variable of the engine keeps its type.                            *)
THEOREM Types ==
  ASSUME Detached = {}
  PROVE  Spec => []TypeOK
<1>1. IInv => TypeOK
  <2> SUFFICES ASSUME IInv PROVE TypeOK
    OBVIOUS
  <2>1. DOMAIN made = 1..Len(made) /\ Len(made) \in Nat /\ made \in Seq(Instance)
    BY LenProperties DEF IInv, MadeInv
  <2>2. {0} \cup DOMAIN made = 0..Len(made)
    BY <2>1
  <2> QED
    BY <2>1, <2>2 DEF TypeOK, IInv, StackInv, StatusInv, LoopInv, FrameInv, CacheInv
<1> QED
  BY <1>1, Invariant, PTL

(* A resource is torn down only after every live resource built from it,   *)
(* whatever the wiring, the failures and the interleaving of the builds.   *)
THEOREM DependenciesOutlive ==
  ASSUME Detached = {}
  PROVE  Spec => []DependenciesOutliveDependents
<1>1. IInv => DependenciesOutliveDependents
  BY DEF IInv, LiveInv, DependenciesOutliveDependents
<1> QED
  BY <1>1, Invariant, PTL

(* No build goes on with an argument that was torn down under it.          *)
THEOREM HeldStaysLive ==
  ASSUME Detached = {}
  PROVE  Spec => []HeldIsLive
<1>1. IInv => HeldIsLive
  BY DEF IInv, FrameInv, Usable, HeldIsLive
<1> QED
  BY <1>1, Invariant, PTL

(* An open scope never answers from its cache with something torn down.    *)
THEOREM CacheStaysLive ==
  ASSUME Detached = {}
  PROVE  Spec => []CachedIsLive
<1>1. IInv => CachedIsLive
  BY DEF IInv, CacheInv, Usable, CachedIsLive
<1> QED
  BY <1>1, Invariant, PTL

(* A closed scope has run every teardown of what was entered in it.        *)
THEOREM ClosedIsEmpty ==
  ASSUME Detached = {}
  PROVE  Spec => []NothingLeaks
<1>1. IInv => NothingLeaks
  <2> SUFFICES ASSUME IInv, NEW s \in States, status[s] = "closed"
               PROVE  Entered(s) = {}
    BY DEF NothingLeaks
  <2>1. stack[s] = <<>> /\ exiting[s] = 0
    BY DEF IInv, StatusInv
  <2>2. \A i \in DOMAIN stack[s] : FALSE
    BY <2>1
  <2> QED
    BY <2>1, <2>2 DEF Entered
<1> QED
  BY <1>1, Invariant, PTL

(* Teardown is in reverse order of creation: an exit callback leaves its   *)
(* stack only when every newer one has left it.                            *)
THEOREM NewestFirst ==
  ASSUME Detached = {}
  PROVE  Spec => TornDownNewestFirst
<1>1. IInv /\ [Next]_vars => NewestLeaves
  BY EveryStep DEF Right
<1>2. NewestLeaves =>
        \A s \in States :
          LET before == {stack[s][i] : i \in DOMAIN stack[s]}
              after == {stack'[s][i] : i \in DOMAIN stack'[s]} IN
          \A n \in before \ after : \A m \in after : m < n
  BY DEF NewestLeaves, Members
<1>3. Spec => []IInv
  BY Invariant
<1> QED
  BY <1>1, <1>2, <1>3, PTL DEF Spec, SafeSpec, TornDownNewestFirst

(* The engine implements the contract of Resources: what it enters uses    *)
(* live things only, and it lets go only of what nothing live uses.        *)
THEOREM KeepsContract ==
  ASSUME Detached = {}
  PROVE  Spec => Contract!SafeSpec
<1>1. Init => Contract!Init
  <2> SUFFICES ASSUME Init PROVE Live = {}
    BY DEF Init, Contract!Init
  <2>1. \A s \in States : Entered(s) = {}
    BY EmptySeq DEF Init, Entered
  <2> QED
    BY <2>1 DEF Live
<1>2. IInv /\ [Next]_vars => [Contract!Next]_(Contract!vars)
  BY EveryStep DEF Right
<1>3. Spec => []IInv
  BY Invariant
<1> QED
  BY <1>1, <1>2, <1>3, PTL DEF Spec, SafeSpec, Contract!SafeSpec
=============================================================================
