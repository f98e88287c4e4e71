------------------------ MODULE RequestPipelineProofs ------------------------
(***************************************************************************)
(* Proofs about RequestPipeline, for any number of requests and tasks.     *)
(***************************************************************************)
EXTENDS RequestPipeline, SequenceTheorems, TLAPS

(* The layers that put something into a context variable. *)
Keepers == {"scope", "request_id"}

(* What follows of a sequence given by its elements is what is needed.     *)
LEMMA LayersDiffer ==
  /\ DOMAIN Layers = 1 .. Len(Layers) /\ Len(Layers) \in Nat
  /\ \A i, j \in DOMAIN Layers : Layers[i] = Layers[j] => i = j
  /\ Layers[1] = "errors" /\ 1 \in DOMAIN Layers
  /\ Len(Layers) \in DOMAIN Layers /\ Layers[Len(Layers)] = "endpoint"
  /\ Layers[Len(Layers) - 1] = "exceptions" /\ Layers[Len(Layers) - 2] = "proxy"
  /\ Layers[Len(Layers) - 3] = "scope" /\ Len(Layers) > 4
<1>1. CASE app.cors /\ app.ids
  <2>1. Reverse(Added) = <<"request_id", "cors", "scope", "proxy">>
    BY <1>1 DEF Added, Reverse
  <2>2. /\ DOMAIN Layers = 1 .. 7 /\ Len(Layers) = 7
        /\ Layers[1] = "errors"
        /\ Layers[2] = "request_id"
        /\ Layers[3] = "cors"
        /\ Layers[4] = "scope"
        /\ Layers[5] = "proxy"
        /\ Layers[6] = "exceptions"
        /\ Layers[7] = "endpoint"
    BY <2>1 DEF Layers
  <2> QED
    BY <2>2
<1>2. CASE app.cors /\ ~app.ids
  <2>1. Reverse(Added) = <<"cors", "scope", "proxy">>
    BY <1>2 DEF Added, Reverse
  <2>2. /\ DOMAIN Layers = 1 .. 6 /\ Len(Layers) = 6
        /\ Layers[1] = "errors"
        /\ Layers[2] = "cors"
        /\ Layers[3] = "scope"
        /\ Layers[4] = "proxy"
        /\ Layers[5] = "exceptions"
        /\ Layers[6] = "endpoint"
    BY <2>1 DEF Layers
  <2> QED
    BY <2>2
<1>3. CASE ~app.cors /\ app.ids
  <2>1. Reverse(Added) = <<"request_id", "scope", "proxy">>
    BY <1>3 DEF Added, Reverse
  <2>2. /\ DOMAIN Layers = 1 .. 6 /\ Len(Layers) = 6
        /\ Layers[1] = "errors"
        /\ Layers[2] = "request_id"
        /\ Layers[3] = "scope"
        /\ Layers[4] = "proxy"
        /\ Layers[5] = "exceptions"
        /\ Layers[6] = "endpoint"
    BY <2>1 DEF Layers
  <2> QED
    BY <2>2
<1>4. CASE ~app.cors /\ ~app.ids
  <2>1. Reverse(Added) = <<"scope", "proxy">>
    BY <1>4 DEF Added, Reverse
  <2>2. /\ DOMAIN Layers = 1 .. 5 /\ Len(Layers) = 5
        /\ Layers[1] = "errors"
        /\ Layers[2] = "scope"
        /\ Layers[3] = "proxy"
        /\ Layers[4] = "exceptions"
        /\ Layers[5] = "endpoint"
    BY <2>1 DEF Layers
  <2> QED
    BY <2>2
<1> QED
  BY <1>1, <1>2, <1>3, <1>4

-----------------------------------------------------------------------------
(* What the request at r may be, its result left open.                     *)
Record(x) ==
  [phase : {"idle", "down", "up", "done"}, pos : DOMAIN Layers, task : Tasks \cup {None},
   in : Inputs \cup {None}, origin : Origins \cup {None},
   savedLink : Contexts \cup {None}, savedId : Requests \cup {None},
   failed : {x.failed}, result : {x.result}]

TypeInv ==
  /\ stack \in [Tasks -> Seq(Requests)]
  /\ var \in [Tasks -> [link : Contexts \cup {None}, id : Requests \cup {None}]]
  /\ req = [r \in Requests |-> req[r]]
  /\ \A r \in Requests : req[r] \in Record(req[r])

(* A request under way is on the stack of its task, once.                  *)
StackInv ==
  /\ \A t \in Tasks : \A n \in 1 .. Len(stack[t]) :
       /\ req[stack[t][n]].task = t /\ req[stack[t][n]].phase \in {"down", "up"}
       /\ \A m \in 1 .. Len(stack[t]) : stack[t][m] = stack[t][n] => m = n
  /\ \A r \in Requests :
       /\ req[r].phase = "idle" => req[r].pos = 1
       /\ req[r].phase # "idle" =>
            req[r].task \in Tasks /\ req[r].in \in Inputs /\ req[r].origin \in Origins

(* The innermost of the first n requests of a task that is inside a layer, *)
(* whose context a task should see; what it sees; and what it will see     *)
(* once the request has left that layer.                                   *)
Greatest(S) == CHOOSE i \in S : \A j \in S : j <= i
InsideOf(t, n, layer) == {i \in 1 .. n : Inside(stack[t][i], layer)}
Inner(t, n, layer) ==
  IF InsideOf(t, n, layer) = {} THEN None ELSE stack[t][Greatest(InsideOf(t, n, layer))]
Of(link) == IF link = None THEN None ELSE link.of
Sees(t, layer) == IF layer = "scope" THEN Of(var[t].link) ELSE var[t].id
Saved(r, layer) == IF layer = "scope" THEN Of(req[r].savedLink) ELSE req[r].savedId

(* Each sees what it should.  That these finite sets have a greatest       *)
(* element is known along the way, as an induction would tell.             *)
Nested(t, layer) ==
  /\ Sees(t, layer) = Inner(t, Len(stack[t]), layer)
  /\ \A n \in 1 .. Len(stack[t]) :
       Inside(stack[t][n], layer) => Saved(stack[t][n], layer) = Inner(t, n - 1, layer)
  /\ \A n \in 0 .. Len(stack[t]) :
       InsideOf(t, n, layer) # {} => Greatest(InsideOf(t, n, layer)) \in InsideOf(t, n, layer)

NestInv == \A layer \in Keepers, t \in Tasks : Nested(t, layer)

(* The origin that a request is from, and from the proxy layer on.         *)
Applied(in) ==
  IF Trusts(app.trust, in) THEN Forwarded(in, Direct(in)) ELSE Direct(in)

OriginInv ==
  \A r \in Requests : req[r].phase = "down" =>
    req[r].origin = IF req[r].pos > LayerIndex("proxy") THEN Applied(req[r].in)
                                                       ELSE Direct(req[r].in)

IInv == TypeInv /\ StackInv /\ NestInv /\ OriginInv

-----------------------------------------------------------------------------
(* One layer on, or turned back, or one layer back.                        *)
Goes(r) ==
  /\ \A q \in Requests \ {r} : req'[q] = req[q]
  /\ req'[r].task = req[r].task /\ req'[r].in = req[r].in
  /\ \/ /\ req[r].phase = "down" /\ Layers[req[r].pos] # "endpoint"
        /\ req'[r].phase = "down" /\ req'[r].pos = req[r].pos + 1
     \/ /\ req[r].phase \in {"down", "up"} /\ Layers[req[r].pos] # "errors"
        /\ req'[r].phase = "up" /\ req'[r].pos = req[r].pos - 1

Passes(r, layer) == Layers[req[r].pos] = layer /\ req[r].in.type = "http"

LEMMA IndexOf ==
  ASSUME NEW layer \in ToSet(Layers)
  PROVE  /\ LayerIndex(layer) \in DOMAIN Layers
         /\ \A i \in DOMAIN Layers : Layers[i] = layer <=> i = LayerIndex(layer)
  BY LayersDiffer DEF LayerIndex, ToSet

(* A request gets into a layer, or out of it, when it passes it, and only  *)
(* then.                                                                   *)
LEMMA InsideStep ==
  ASSUME TypeInv, NEW r \in Requests, Goes(r), app' = app, NEW layer \in Keepers
  PROVE  /\ ~Passes(r, layer) \/ (req[r].phase = "down" /\ req'[r].phase = "up") =>
              (Inside(r, layer)' <=> Inside(r, layer))
         /\ Passes(r, layer) /\ req'[r].phase = "down" => ~Inside(r, layer) /\ Inside(r, layer)'
         /\ Passes(r, layer) /\ req[r].phase = "up" => Inside(r, layer) /\ ~Inside(r, layer)'
<1>1. Layers' = Layers /\ LayerIndex(layer)' = LayerIndex(layer)
  BY DEF Layers, Added, LayerIndex
<1>2. req[r].pos \in DOMAIN Layers /\ req[r].pos \in Int
  BY LayersDiffer DEF TypeInv, Record
<1>3. CASE layer \notin ToSet(Layers)
  <2>1. ~Inside(r, layer) /\ ~Inside(r, layer)' /\ ~Passes(r, layer)
    BY <1>1, <1>2, <1>3 DEF Inside, Passes, ToSet
  <2> QED
    BY <2>1
<1>4. CASE layer \in ToSet(Layers)
  <2> DEFINE k == LayerIndex(layer)
             p == req[r].pos
  <2>1. k \in Int /\ (Layers[p] = layer <=> p = k)
    BY <1>2, <1>4, IndexOf, LayersDiffer
  <2>2. Inside(r, layer) <=>
          req[r].in.type = "http" /\ (\/ req[r].phase = "down" /\ p > k
                                      \/ req[r].phase = "up" /\ p >= k)
    BY <1>4 DEF Inside
  <2>3. Inside(r, layer)' <=>
          req[r].in.type = "http" /\ (\/ req'[r].phase = "down" /\ req'[r].pos > k
                                      \/ req'[r].phase = "up" /\ req'[r].pos >= k)
    BY <1>1, <1>4 DEF Inside, Goes
  <2> HIDE DEF k, p
  <2>4. \/ req[r].phase = "down" /\ req'[r].phase = "down" /\ req'[r].pos = p + 1
        \/ req[r].phase \in {"down", "up"} /\ req'[r].phase = "up" /\ req'[r].pos = p - 1
    BY DEF Goes, p
  <2>5. p \in Int
    BY <1>2 DEF p
  <2>6. Passes(r, layer) <=> p = k /\ req[r].in.type = "http"
    BY <2>1 DEF Passes, p
  <2> QED
    BY <2>1, <2>2, <2>3, <2>4, <2>5, <2>6
<1> QED
  BY <1>3, <1>4

(* The innermost request inside is the top one, or the one below it.       *)
LEMMA GreatestIs ==
  ASSUME NEW S \in SUBSET Int, NEW n \in S, \A j \in S : j <= n
  PROVE  Greatest(S) = n
<1>1. \A i \in S : (\A j \in S : j <= i) => i = n
  OBVIOUS
<1> QED
  BY <1>1 DEF Greatest

LEMMA InsideOfTop ==
  ASSUME NEW t, NEW n \in Nat \ {0}, NEW layer
  PROVE  /\ Inside(stack[t][n], layer) =>
              n \in InsideOf(t, n, layer) /\ Greatest(InsideOf(t, n, layer)) = n
         /\ ~Inside(stack[t][n], layer) => InsideOf(t, n, layer) = InsideOf(t, n - 1, layer)
         /\ Inside(stack[t][n], layer)' =>
              n \in InsideOf(t, n, layer)' /\ Greatest(InsideOf(t, n, layer)') = n
         /\ ~Inside(stack[t][n], layer)' => InsideOf(t, n, layer)' = InsideOf(t, n - 1, layer)'
<1>1. ASSUME Inside(stack[t][n], layer)
      PROVE  n \in InsideOf(t, n, layer) /\ Greatest(InsideOf(t, n, layer)) = n
  <2>1. n \in InsideOf(t, n, layer) /\ InsideOf(t, n, layer) \in SUBSET Int
        /\ \A j \in InsideOf(t, n, layer) : j <= n
    BY <1>1 DEF InsideOf
  <2> QED
    BY <2>1, GreatestIs
<1>2. ASSUME ~Inside(stack[t][n], layer)
      PROVE  InsideOf(t, n, layer) = InsideOf(t, n - 1, layer)
  BY <1>2 DEF InsideOf
<1>3. ASSUME Inside(stack[t][n], layer)'
      PROVE  n \in InsideOf(t, n, layer)' /\ Greatest(InsideOf(t, n, layer)') = n
  <2>1. n \in InsideOf(t, n, layer)' /\ InsideOf(t, n, layer)' \in SUBSET Int
        /\ \A j \in InsideOf(t, n, layer)' : j <= n
    BY <1>3 DEF InsideOf
  <2> QED
    BY <2>1, GreatestIs
<1>4. ASSUME ~Inside(stack[t][n], layer)'
      PROVE  InsideOf(t, n, layer)' = InsideOf(t, n - 1, layer)'
  BY <1>4 DEF InsideOf
<1> QED
  BY <1>1, <1>2, <1>3, <1>4

LEMMA InnerTop ==
  ASSUME NEW t, NEW n \in Nat \ {0}, NEW layer
  PROVE  /\ Inner(t, n, layer) = IF Inside(stack[t][n], layer) THEN stack[t][n]
                                                               ELSE Inner(t, n - 1, layer)
         /\ Inner(t, n, layer)' = IF Inside(stack[t][n], layer)' THEN stack'[t][n]
                                                                 ELSE Inner(t, n - 1, layer)'
<1>1. Inner(t, n, layer) = IF Inside(stack[t][n], layer) THEN stack[t][n]
                                                         ELSE Inner(t, n - 1, layer)
  BY InsideOfTop DEF Inner
<1>2. Inner(t, n, layer)' = IF Inside(stack[t][n], layer)' THEN stack'[t][n]
                                                           ELSE Inner(t, n - 1, layer)'
  BY InsideOfTop DEF Inner
<1> QED
  BY <1>1, <1>2

(* What happens above does not matter.                                     *)
LEMMA InnerSame ==
  ASSUME NEW t \in Tasks, NEW layer, Nested(t, layer), NEW n \in 0 .. Len(stack[t]),
         \A i \in 1 .. n : stack'[t][i] = stack[t][i],
         \A i \in 1 .. n : Inside(stack[t][i], layer)' <=> Inside(stack[t][i], layer)
  PROVE  /\ InsideOf(t, n, layer)' = InsideOf(t, n, layer)
         /\ Inner(t, n, layer)' = Inner(t, n, layer)
<1>1. InsideOf(t, n, layer)' = InsideOf(t, n, layer)
  BY DEF InsideOf
<1>2. CASE InsideOf(t, n, layer) = {}
  BY <1>1, <1>2 DEF Inner
<1>3. CASE InsideOf(t, n, layer) # {}
  <2>1. Greatest(InsideOf(t, n, layer)) \in InsideOf(t, n, layer)
    BY <1>3 DEF Nested
  <2> QED
    BY <1>1, <1>3, <2>1 DEF Inner, InsideOf
<1> QED
  BY <1>1, <1>2, <1>3

(* A step of the request that a task is working on keeps the nesting, if   *)
(* the variable and what is saved of it go with being inside the layer.    *)
LEMMA NestStep ==
  ASSUME IInv, NEW t \in Tasks, NEW r \in Requests, NEW layer \in Keepers,
         stack[t] # << >>, stack[t][Len(stack[t])] = r,
         stack' = stack, app' = app, Goes(r), \A u \in Tasks \ {t} : var'[u] = var[u],
         \/ /\ Inside(r, layer)' <=> Inside(r, layer)
            /\ Sees(t, layer)' = Sees(t, layer) /\ Saved(r, layer)' = Saved(r, layer)
         \/ /\ ~Inside(r, layer) /\ Inside(r, layer)'
            /\ Sees(t, layer)' = r /\ Saved(r, layer)' = Sees(t, layer)
         \/ /\ Inside(r, layer) /\ ~Inside(r, layer)'
            /\ Sees(t, layer)' = Saved(r, layer)
  PROVE  \A u \in Tasks : Nested(u, layer)'
<1> DEFINE top == Len(stack[t])
<1>1. \A u \in Tasks : Len(stack[u]) \in Nat /\ \A n \in 1 .. Len(stack[u]) : stack[u][n] \in Requests
  BY DEF IInv, TypeInv
<1>2. top \in Nat \ {0}
  BY <1>1 DEF IInv, TypeInv
<1>3. \A q \in Requests \ {r} :
        (Inside(q, layer)' <=> Inside(q, layer)) /\ Saved(q, layer)' = Saved(q, layer)
  BY DEF Goes, Inside, LayerIndex, Layers, Added, Saved
<1>4. \A u \in Tasks : \A n \in 1 .. Len(stack[u]) : stack[u][n] = r => u = t /\ n = top
  BY <1>1, <1>2 DEF IInv, StackInv
<1>5. ASSUME NEW u \in Tasks, NEW n \in 0 .. Len(stack[u]), u = t => n < top
      PROVE  /\ Inner(u, n, layer)' = Inner(u, n, layer)
             /\ InsideOf(u, n, layer)' = InsideOf(u, n, layer)
  <2>1. \A i \in 1 .. n : stack[u][i] \in Requests \ {r}
    BY <1>1, <1>2, <1>4, <1>5
  <2>2. Nested(u, layer)
    BY DEF IInv, NestInv
  <2> QED
    BY <1>3, <2>1, <2>2, InnerSame
<1>6. ASSUME NEW u \in Tasks, NEW n \in 1 .. Len(stack[u]), u # t \/ n # top,
             Inside(stack[u][n], layer)'
      PROVE  Saved(stack[u][n], layer)' = Inner(u, n - 1, layer)'
  <2>1. stack[u][n] \in Requests \ {r}
    BY <1>1, <1>4, <1>6
  <2>2. Inner(u, n - 1, layer)' = Inner(u, n - 1, layer)
    BY <1>1, <1>2, <1>5, <1>6
  <2> QED
    BY <1>3, <1>6, <2>1, <2>2 DEF IInv, NestInv, Nested
<1>7. ASSUME NEW u \in Tasks, NEW n \in 0 .. Len(stack[u]), u = t => n < top,
             InsideOf(u, n, layer)' # {}
      PROVE  Greatest(InsideOf(u, n, layer)') \in InsideOf(u, n, layer)'
  BY <1>5, <1>7 DEF IInv, NestInv, Nested
<1>8. ASSUME NEW u \in Tasks, u # t PROVE Nested(u, layer)'
  <2>1. Inner(u, Len(stack[u]), layer)' = Inner(u, Len(stack[u]), layer)
    BY <1>1, <1>5, <1>8
  <2>2. Sees(u, layer)' = Sees(u, layer)
    BY <1>8 DEF Sees
  <2>3. Sees(u, layer)' = Inner(u, Len(stack[u]), layer)'
    BY <2>1, <2>2 DEF IInv, NestInv, Nested
  <2> QED
    BY <1>6, <1>7, <1>8, <2>3 DEF Nested
<1>9. Inner(t, top - 1, layer)' = Inner(t, top - 1, layer)
  BY <1>2, <1>5
<1>10. /\ Inner(t, top, layer) = IF Inside(r, layer) THEN r ELSE Inner(t, top - 1, layer)
       /\ Inner(t, top, layer)' = IF Inside(r, layer)' THEN r ELSE Inner(t, top - 1, layer)
  BY <1>2, <1>9, InnerTop
<1>11. /\ Sees(t, layer) = Inner(t, top, layer)
       /\ Inside(r, layer) => Saved(r, layer) = Inner(t, top - 1, layer)
  BY <1>2 DEF IInv, NestInv, Nested
<1>12. /\ Sees(t, layer)' = Inner(t, top, layer)'
       /\ Inside(r, layer)' => Saved(r, layer)' = Inner(t, top - 1, layer)'
  BY <1>9, <1>10, <1>11
<1>13. ASSUME InsideOf(t, top, layer)' # {}
       PROVE  Greatest(InsideOf(t, top, layer)') \in InsideOf(t, top, layer)'
  <2>1. CASE Inside(r, layer)'
    BY <1>2, <2>1, InsideOfTop
  <2>2. CASE ~Inside(r, layer)'
    <3>1. InsideOf(t, top, layer)' = InsideOf(t, top - 1, layer)'
      BY <1>2, <2>2, InsideOfTop
    <3> QED
      BY <1>2, <1>7, <1>13, <3>1
  <2> QED
    BY <2>1, <2>2
<1>14. Nested(t, layer)'
  BY <1>1, <1>2, <1>6, <1>7, <1>12, <1>13 DEF Nested
<1> QED
  BY <1>8, <1>14

-----------------------------------------------------------------------------
LEMMA NextPosition ==
  ASSUME NEW p \in DOMAIN Layers
  PROVE  /\ Layers[p] # "endpoint" => p + 1 \in DOMAIN Layers
         /\ Layers[p] # "errors" => p - 1 \in DOMAIN Layers
  BY LayersDiffer

(* A request that runs is on top of the stack of its task.                 *)
LEMMA RunsOnTop ==
  ASSUME IInv, NEW r \in Requests, Runs(r)
  PROVE  /\ req[r].task \in Tasks /\ stack[req[r].task] # << >>
         /\ stack[req[r].task][Len(stack[req[r].task])] = r
         /\ req[r].phase \in {"down", "up"} /\ req[r].in \in Inputs /\ req[r].origin \in Origins
<1>1. PICK t \in Tasks : stack[t] # << >> /\ stack[t][Len(stack[t])] = r
  BY DEF Runs, Last
<1>2. Len(stack[t]) \in 1 .. Len(stack[t])
  BY <1>1 DEF IInv, TypeInv
<1> QED
  BY <1>1, <1>2 DEF IInv, StackInv

(* A step that takes a request one layer on or back keeps the types and    *)
(* the stacks.                                                             *)
LEMMA GoesKeeps ==
  ASSUME IInv, NEW r \in Requests, Runs(r), NEW rec, req' = [req EXCEPT ![r] = rec],
         rec \in Record(rec), rec.task = req[r].task, rec.in = req[r].in, rec.origin \in Origins,
         rec.phase \in {"down", "up"}, stack' = stack, app' = app,
         var' \in [Tasks -> [link : Contexts \cup {None}, id : Requests \cup {None}]]
  PROVE  TypeInv' /\ StackInv'
<1>1. /\ DOMAIN req = Requests /\ DOMAIN req' = Requests
      /\ req'[r] = rec /\ \A q \in Requests \ {r} : req'[q] = req[q]
  BY DEF IInv, TypeInv
<1>2. TypeInv'
  <2>1. Layers' = Layers
    BY DEF Layers, Added
  <2>2. \A q \in Requests : req'[q] \in Record(req'[q])
    BY <1>1 DEF IInv, TypeInv
  <2>3. req' = [q \in Requests |-> req'[q]]
    BY <1>1
  <2> QED
    BY <2>2, <2>3, <2>1 DEF IInv, TypeInv, Record
<1>3. StackInv'
  <2>1. req[r].phase \in {"down", "up"} /\ req[r].task \in Tasks /\ req[r].in \in Inputs
    BY RunsOnTop
  <2>2. \A t \in Tasks : \A n \in 1 .. Len(stack[t]) : stack[t][n] \in Requests
    BY DEF IInv, TypeInv
  <2>3. \A q \in Requests : req'[q].task = req[q].task
    BY <1>1
  <2>4. \A q \in Requests : req[q].phase \in {"down", "up"} => req'[q].phase \in {"down", "up"}
    BY <1>1
  <2>5. ASSUME NEW t \in Tasks, NEW n \in 1 .. Len(stack[t])
        PROVE  /\ req'[stack[t][n]].task = t /\ req'[stack[t][n]].phase \in {"down", "up"}
               /\ \A m \in 1 .. Len(stack[t]) : stack[t][m] = stack[t][n] => m = n
    BY <2>2, <2>3, <2>4 DEF IInv, StackInv
  <2>6. ASSUME NEW q \in Requests
        PROVE  /\ req'[q].phase = "idle" => req'[q].pos = 1
               /\ req'[q].phase # "idle" =>
                    req'[q].task \in Tasks /\ req'[q].in \in Inputs /\ req'[q].origin \in Origins
    BY <1>1, <2>1 DEF IInv, StackInv
  <2> QED
    BY <2>5, <2>6 DEF StackInv
<1> QED
  BY <1>2, <1>3

(* The context variables go with the layers that a request passes.         *)
LEMMA StepKeeps ==
  ASSUME IInv, NEW r \in Requests, Runs(r), NEW t, t = req[r].task, TypeInv', StackInv', OriginInv',
         Goes(r), stack' = stack, app' = app, \A u \in Tasks \ {t} : var'[u] = var[u],
         \A layer \in Keepers :
           \/ /\ ~Passes(r, layer) \/ (req[r].phase = "down" /\ req'[r].phase = "up")
              /\ Sees(t, layer)' = Sees(t, layer) /\ Saved(r, layer)' = Saved(r, layer)
           \/ /\ Passes(r, layer) /\ req'[r].phase = "down"
              /\ Sees(t, layer)' = r /\ Saved(r, layer)' = Sees(t, layer)
           \/ /\ Passes(r, layer) /\ req[r].phase = "up"
              /\ Sees(t, layer)' = Saved(r, layer)
  PROVE  IInv'
<1>1. t \in Tasks /\ stack[t] # << >> /\ stack[t][Len(stack[t])] = r
  BY RunsOnTop
<1>2. ASSUME NEW layer \in Keepers PROVE \A u \in Tasks : Nested(u, layer)'
  <2>1. \/ /\ Inside(r, layer)' <=> Inside(r, layer)
           /\ Sees(t, layer)' = Sees(t, layer) /\ Saved(r, layer)' = Saved(r, layer)
        \/ /\ ~Inside(r, layer) /\ Inside(r, layer)'
           /\ Sees(t, layer)' = r /\ Saved(r, layer)' = Sees(t, layer)
        \/ /\ Inside(r, layer) /\ ~Inside(r, layer)'
           /\ Sees(t, layer)' = Saved(r, layer)
    BY InsideStep DEF IInv
  <2> QED
    BY <1>1, <2>1, NestStep
<1> QED
  BY <1>2 DEF IInv, NestInv

LEMMA OthersOrigin ==
  ASSUME OriginInv, NEW r \in Requests, app' = app,
         \A q \in Requests \ {r} : req'[q] = req[q] \/ req'[q].phase # "down",
         req'[r].phase = "down" =>
           req'[r].origin = IF req'[r].pos > LayerIndex("proxy") THEN Applied(req'[r].in)
                                                                ELSE Direct(req'[r].in)
  PROVE  OriginInv'
<1>1. Layers' = Layers /\ \A in : Applied(in)' = Applied(in)
  BY DEF Layers, Added, Applied
<1>2. LayerIndex("proxy")' = LayerIndex("proxy")
  BY <1>1 DEF LayerIndex
<1> QED
  BY <1>1, <1>2 DEF OriginInv

(* Turning back at a layer, or leaving one that keeps no context.          *)
LEMMA BackKeeps ==
  ASSUME IInv, NEW r \in Requests, Runs(r), Layers[req[r].pos] # "errors",
         NEW rec, rec \in Record(rec), req' = [req EXCEPT ![r] = rec],
         rec.phase = "up", rec.pos = req[r].pos - 1, rec.task = req[r].task, rec.in = req[r].in,
         rec.origin = req[r].origin, rec.savedLink = req[r].savedLink, rec.savedId = req[r].savedId,
         stack' = stack, app' = app, var' = var,
         req[r].phase = "down" \/ \A layer \in Keepers : ~Passes(r, layer)
  PROVE  IInv'
<1>1. req[r].phase \in {"down", "up"} /\ req[r].task \in Tasks /\ req[r].origin \in Origins
  BY RunsOnTop
<1>2. req'[r] = rec /\ \A q \in Requests \ {r} : req'[q] = req[q]
  BY DEF IInv, TypeInv
<1>3. TypeInv' /\ StackInv'
  BY <1>1, GoesKeeps DEF IInv, TypeInv
<1>4. Goes(r)
  BY <1>1, <1>2 DEF Goes
<1>5. \A layer \in Keepers :
        Sees(req[r].task, layer)' = Sees(req[r].task, layer) /\ Saved(r, layer)' = Saved(r, layer)
  BY <1>2 DEF Sees, Saved
<1>6. OriginInv'
  BY <1>2, OthersOrigin DEF IInv
<1> QED
  BY <1>1, <1>2, <1>3, <1>4, <1>5, <1>6, StepKeeps

LEMMA BackRecord ==
  ASSUME IInv, NEW r \in Requests, Runs(r), Layers[req[r].pos] # "errors", NEW result, Back(r, result)
  PROVE  LET rec == [req[r] EXCEPT !.phase = "up", !.pos = @ - 1, !.result = result]
         IN /\ req' = [req EXCEPT ![r] = rec] /\ rec \in Record(rec)
            /\ rec.phase = "up" /\ rec.pos = req[r].pos - 1 /\ rec.task = req[r].task
            /\ rec.in = req[r].in /\ rec.origin = req[r].origin
            /\ rec.savedLink = req[r].savedLink /\ rec.savedId = req[r].savedId
<1> DEFINE rec == [req[r] EXCEPT !.phase = "up", !.pos = @ - 1, !.result = result]
<1>1. req[r] \in Record(req[r]) /\ req = [q \in Requests |-> req[q]]
  BY DEF IInv, TypeInv
<1>2. req[r].pos - 1 \in DOMAIN Layers
  BY <1>1, NextPosition DEF Record
<1>3. rec \in Record(rec)
  BY <1>1, <1>2 DEF Record
<1>4. req' = [req EXCEPT ![r] = rec]
  BY <1>1 DEF Back
<1> QED
  BY <1>1, <1>3, <1>4 DEF Record

LEMMA TurnsBack ==
  ASSUME IInv, NEW r \in Requests, NEW layer, layer # "errors",
         At(r, "down", layer), NEW result, Back(r, result), UNCHANGED <<app, open, stack, var>>
  PROVE  IInv'
  BY BackRecord, BackKeeps DEF At

LEMMA ComesBack ==
  ASSUME IInv, NEW r \in Requests, NEW layer, layer \notin Keepers \cup {"errors"},
         At(r, "up", layer), NEW result, Back(r, result), UNCHANGED <<app, open, stack, var>>
  PROVE  IInv'
  BY BackRecord, BackKeeps DEF At, Passes

(* Handing a request on.                                                   *)
LEMMA DownKeeps ==
  ASSUME IInv, NEW r \in Requests, NEW layer, layer # "endpoint", At(r, "down", layer),
         NEW change, Down(r, change), change \in Record(change), change.phase = "down",
         change.pos = req[r].pos, change.task = req[r].task, change.in = req[r].in,
         change.origin = (IF layer = "proxy" THEN Applied(req[r].in) ELSE req[r].origin),
         stack' = stack, app' = app,
         \A u \in Tasks \ {req[r].task} : var'[u] = var[u],
         var' \in [Tasks -> [link : Contexts \cup {None}, id : Requests \cup {None}]],
         \A keeper \in Keepers :
           \/ /\ keeper # layer \/ req[r].in.type # "http"
              /\ Sees(req[r].task, keeper)' = Sees(req[r].task, keeper)
              /\ Saved(r, keeper)' = Saved(r, keeper)
           \/ /\ keeper = layer /\ req[r].in.type = "http"
              /\ Sees(req[r].task, keeper)' = r /\ Saved(r, keeper)' = Sees(req[r].task, keeper)
  PROVE  IInv'
<1> DEFINE rec == [change EXCEPT !.pos = @ + 1]
<1>1. Runs(r) /\ req[r].phase = "down" /\ Layers[req[r].pos] = layer
  BY DEF At
<1>2. req[r].pos \in DOMAIN Layers /\ req[r].pos + 1 \in DOMAIN Layers
  BY <1>1, NextPosition DEF IInv, TypeInv, Record
<1>3. change.origin \in Origins
  BY <1>1, RunsOnTop DEF Applied, Origins
<1>4. /\ rec \in Record(rec) /\ rec.phase = "down" /\ rec.pos = req[r].pos + 1
      /\ rec.task = req[r].task /\ rec.in = req[r].in /\ rec.origin = change.origin
  BY <1>2 DEF Record
<1>5. req' = [req EXCEPT ![r] = rec]
  BY DEF Down, IInv, TypeInv
<1>6. req'[r] = rec /\ \A q \in Requests \ {r} : req'[q] = req[q]
  BY <1>5 DEF IInv, TypeInv
<1> HIDE DEF rec
<1>7. TypeInv' /\ StackInv'
  BY <1>1, <1>3, <1>4, <1>5, GoesKeeps
<1>8. Goes(r)
  BY <1>1, <1>4, <1>6 DEF Goes
<1>9. \A keeper \in Keepers : Passes(r, keeper) <=> (keeper = layer /\ req[r].in.type = "http")
  BY <1>1 DEF Passes
<1>10. OriginInv'
  <2> DEFINE k == LayerIndex("proxy")
             p == req[r].pos
  <2>1. k \in Int /\ p \in Int /\ (p = k <=> layer = "proxy")
    <3>1. "proxy" \in ToSet(Layers)
      <4>1. Len(Layers) - 2 \in DOMAIN Layers
        BY LayersDiffer
      <4> QED
        BY <4>1, LayersDiffer DEF ToSet
    <3>2. DOMAIN Layers \subseteq Int
      BY LayersDiffer
    <3>3. k \in DOMAIN Layers /\ (Layers[p] = "proxy" <=> p = k)
      BY <1>2, <3>1, IndexOf
    <3> QED
      BY <1>1, <1>2, <3>2, <3>3
  <2>2. req[r].origin = IF p > k THEN Applied(req[r].in) ELSE Direct(req[r].in)
    BY <1>1 DEF IInv, OriginInv
  <2>3. rec.origin = IF p + 1 > k THEN Applied(req[r].in) ELSE Direct(req[r].in)
    BY <1>4, <2>1, <2>2
  <2> QED
    BY <1>4, <1>6, <2>3, OthersOrigin DEF IInv
<1> QED
  BY <1>1, <1>4, <1>6, <1>7, <1>8, <1>9, <1>10, StepKeeps

LEMMA ChangesNothing ==
  ASSUME IInv, NEW r \in Requests
  PROVE  req[r] \in Record(req[r]) /\ var \in [Tasks -> [link : Contexts \cup {None}, id : Requests \cup {None}]]
  BY DEF IInv, TypeInv

LEMMA OriginAtProxy ==
  ASSUME IInv, NEW r \in Requests, At(r, "down", "proxy")
  PROVE  req[r].origin = Direct(req[r].in)
<1>1. req[r].pos = LayerIndex("proxy") /\ LayerIndex("proxy") \in Int
  BY LayersDiffer, IndexOf DEF At, IInv, TypeInv, Record, ToSet
<1> QED
  BY <1>1 DEF At, IInv, OriginInv

LEMMA PassOnKeeps ==
  ASSUME IInv, NEW r \in Requests, PassOn(r) PROVE IInv'
<1>1. PICK layer \in {"errors", "exceptions", "cors", "scope", "proxy"} :
        At(r, "down", layer)
        /\ (layer = "scope" => req[r].in.type # "http")
        /\ (layer = "proxy" => ~Trusts(app.trust, req[r].in))
  BY DEF PassOn
<1>2. Down(r, req[r]) /\ UNCHANGED <<app, open, stack, var>>
  BY DEF PassOn
<1>3. /\ req[r].phase = "down"
      /\ req[r].origin = IF layer = "proxy" THEN Applied(req[r].in) ELSE req[r].origin
  BY <1>1, OriginAtProxy DEF At, Applied
<1>4. \A keeper \in Keepers :
        Sees(req[r].task, keeper)' = Sees(req[r].task, keeper) /\ Saved(r, keeper)' = Saved(r, keeper)
  BY <1>2, ChangesNothing DEF Sees, Saved, Down, IInv, TypeInv, Record
<1>5. \A keeper \in Keepers : keeper # layer \/ req[r].in.type # "http"
  BY <1>1 DEF Keepers
<1> QED
  BY <1>1, <1>2, <1>3, <1>4, <1>5, ChangesNothing, DownKeeps

LEMMA EnterProxyKeeps ==
  ASSUME IInv, NEW r \in Requests, EnterProxy(r) PROVE IInv'
<1> DEFINE change == [req[r] EXCEPT !.origin = Forwarded(req[r].in, @)]
<1>1. /\ At(r, "down", "proxy") /\ Trusts(app.trust, req[r].in)
      /\ Down(r, change) /\ UNCHANGED <<app, open, stack, var>>
  BY DEF EnterProxy
<1>2. req[r].phase = "down" /\ req[r].in \in Inputs /\ req[r].origin = Direct(req[r].in)
  BY <1>1, RunsOnTop, OriginAtProxy DEF At
<1>3. /\ change \in Record(change) /\ change.phase = "down" /\ change.pos = req[r].pos
      /\ change.task = req[r].task /\ change.in = req[r].in
      /\ change.origin = Applied(req[r].in)
      /\ change.savedLink = req[r].savedLink /\ change.savedId = req[r].savedId
  BY <1>1, <1>2, ChangesNothing DEF Record, Applied, Origins
<1> HIDE DEF change
<1>4. \A keeper \in Keepers :
        Sees(req[r].task, keeper)' = Sees(req[r].task, keeper) /\ Saved(r, keeper)' = Saved(r, keeper)
  BY <1>1, <1>3, ChangesNothing DEF Sees, Saved, Down, IInv, TypeInv, Record
<1>5. \A keeper \in Keepers : keeper # "proxy"
  BY DEF Keepers
<1> QED
  BY <1>1, <1>3, <1>4, <1>5, ChangesNothing, DownKeeps

LEMMA EnterRequestIdKeeps ==
  ASSUME IInv, NEW r \in Requests, EnterRequestId(r) PROVE IInv'
<1> DEFINE t == req[r].task
<1>1. At(r, "down", "request_id") /\ UNCHANGED <<app, open, stack>>
  BY DEF EnterRequestId
<1>2. /\ t \in Tasks /\ req[r].phase = "down"
      /\ var[t] \in [link : Contexts \cup {None}, id : Requests \cup {None}]
      /\ req = [q \in Requests |-> req[q]]
  BY <1>1, RunsOnTop, ChangesNothing DEF At, IInv, TypeInv
<1>3. CASE req[r].in.type # "http"
  <2>1. Down(r, req[r]) /\ UNCHANGED var
    BY <1>3 DEF EnterRequestId
  <2>2. \A keeper \in Keepers :
          Sees(t, keeper)' = Sees(t, keeper) /\ Saved(r, keeper)' = Saved(r, keeper)
    BY <1>2, <2>1, ChangesNothing DEF Sees, Saved, Down, Record
  <2> QED
    BY <1>1, <1>2, <1>3, <2>1, <2>2, ChangesNothing, DownKeeps
<1>4. CASE req[r].in.type = "http"
  <2> DEFINE change == [req[r] EXCEPT !.savedId = var[t].id]
  <2>1. Down(r, change) /\ var' = [var EXCEPT ![t].id = r]
    BY <1>4 DEF EnterRequestId
  <2>2. /\ change \in Record(change) /\ change.phase = "down" /\ change.pos = req[r].pos
        /\ change.task = t /\ change.in = req[r].in /\ change.origin = req[r].origin
        /\ change.savedLink = req[r].savedLink /\ change.savedId = var[t].id
    BY <1>2, ChangesNothing DEF Record
  <2> HIDE DEF change
  <2>3. /\ var' \in [Tasks -> [link : Contexts \cup {None}, id : Requests \cup {None}]]
        /\ var'[t].id = r /\ var'[t].link = var[t].link
        /\ \A u \in Tasks \ {t} : var'[u] = var[u]
    BY <1>2, <2>1, ChangesNothing
  <2>4. req'[r] = [change EXCEPT !.pos = @ + 1]
    BY <1>2, <2>1 DEF Down
  <2>5. /\ req'[r].savedLink = req[r].savedLink /\ req'[r].savedId = var[t].id
        /\ req'[r].task = req[r].task
    BY <2>2, <2>4 DEF Record
  <2>6. /\ Sees(t, "request_id")' = r /\ Saved(r, "request_id")' = Sees(t, "request_id")
        /\ Sees(t, "scope")' = Sees(t, "scope") /\ Saved(r, "scope")' = Saved(r, "scope")
    BY <2>3, <2>5 DEF Sees, Saved, Of
  <2>7. \A keeper \in Keepers : keeper = "scope" \/ keeper = "request_id"
    BY DEF Keepers
  <2> QED
    BY <1>1, <1>2, <1>4, <2>1, <2>2, <2>3, <2>6, <2>7, DownKeeps
<1> QED
  BY <1>3, <1>4

LEMMA EnterScopeKeeps ==
  ASSUME IInv, NEW r \in Requests, EnterScope(r) PROVE IInv'
<1> DEFINE t == req[r].task
           change == [req[r] EXCEPT !.savedLink = var[t].link]
<1>1. /\ At(r, "down", "scope") /\ req[r].in.type = "http" /\ UNCHANGED <<app, open, stack>>
      /\ Down(r, change) /\ var' = [var EXCEPT ![t].link = ContextFor(r)]
  BY DEF EnterScope
<1>2. /\ t \in Tasks /\ req[r].phase = "down" /\ req[r].origin \in Origins
      /\ var[t] \in [link : Contexts \cup {None}, id : Requests \cup {None}]
      /\ req = [q \in Requests |-> req[q]]
  BY <1>1, RunsOnTop, ChangesNothing DEF At, IInv, TypeInv
<1>3. ContextFor(r) \in Contexts /\ ContextFor(r) # None /\ ContextFor(r).of = r
  BY <1>2, NoneAssumption DEF ContextFor, Contexts
<1>4. /\ change \in Record(change) /\ change.phase = "down" /\ change.pos = req[r].pos
      /\ change.task = t /\ change.in = req[r].in /\ change.origin = req[r].origin
      /\ change.savedLink = var[t].link /\ change.savedId = req[r].savedId
  BY <1>2, ChangesNothing DEF Record
<1> HIDE DEF change
<1>5. /\ var' \in [Tasks -> [link : Contexts \cup {None}, id : Requests \cup {None}]]
      /\ var'[t].link = ContextFor(r) /\ var'[t].id = var[t].id
      /\ \A u \in Tasks \ {t} : var'[u] = var[u]
  BY <1>1, <1>2, <1>3, ChangesNothing
<1>6. req'[r] = [change EXCEPT !.pos = @ + 1]
  BY <1>1, <1>2 DEF Down
<1>7. /\ req'[r].savedLink = var[t].link /\ req'[r].savedId = req[r].savedId
      /\ req'[r].task = req[r].task
  BY <1>4, <1>6 DEF Record
<1>8. /\ Sees(t, "request_id")' = Sees(t, "request_id")
      /\ Saved(r, "request_id")' = Saved(r, "request_id")
      /\ Sees(t, "scope")' = r /\ Saved(r, "scope")' = Sees(t, "scope")
  BY <1>3, <1>5, <1>7 DEF Sees, Saved, Of
<1>9. \A keeper \in Keepers : keeper = "scope" \/ keeper = "request_id"
  BY DEF Keepers
<1> QED
  BY <1>1, <1>2, <1>4, <1>5, <1>8, <1>9, DownKeeps

LEMMA TurnKeeps ==
  ASSUME IInv, NEW r \in Requests, Preflight(r) \/ EnterScopeRaises(r) \/ Answer(r) PROVE IInv'
<1>1. CASE Preflight(r)
  BY <1>1, TurnsBack DEF Preflight
<1>2. CASE EnterScopeRaises(r)
  BY <1>2, TurnsBack DEF EnterScopeRaises
<1>3. CASE Answer(r)
  BY <1>3, TurnsBack DEF Answer
<1> QED
  BY <1>1, <1>2, <1>3

LEMMA FailKeeps ==
  ASSUME IInv, NEW r \in Requests, Fail(r) PROVE IInv'
<1>1. /\ At(r, "down", "endpoint") /\ UNCHANGED <<app, open, stack, var>>
  BY DEF Fail
<1>2. PICK e \in Errors :
        req' = [req EXCEPT ![r].phase = "up", ![r].pos = @ - 1, ![r].failed = e,
                           ![r].result = Raised(e)]
  BY DEF Fail
<1> DEFINE rec == [req[r] EXCEPT !.phase = "up", !.pos = @ - 1, !.failed = e, !.result = Raised(e)]
<1>3. req[r] \in Record(req[r]) /\ req = [q \in Requests |-> req[q]]
  BY DEF IInv, TypeInv
<1>4. Runs(r) /\ req[r].phase = "down" /\ Layers[req[r].pos] # "errors"
  BY <1>1 DEF At
<1>5. req[r].pos - 1 \in DOMAIN Layers
  BY <1>3, <1>4, NextPosition DEF Record
<1>6. /\ rec \in Record(rec) /\ rec.phase = "up" /\ rec.pos = req[r].pos - 1
      /\ rec.task = req[r].task /\ rec.in = req[r].in /\ rec.origin = req[r].origin
      /\ rec.savedLink = req[r].savedLink /\ rec.savedId = req[r].savedId
  BY <1>3, <1>5 DEF Record
<1>7. req' = [req EXCEPT ![r] = rec]
  BY <1>2, <1>3
<1> HIDE DEF rec
<1> QED
  BY <1>1, <1>4, <1>6, <1>7, BackKeeps

LEMMA LeavePlainKeeps ==
  ASSUME IInv, NEW r \in Requests, LeaveExceptions(r) \/ LeaveProxy(r) \/ LeaveCors(r) PROVE IInv'
<1>1. PICK layer \in {"exceptions", "proxy", "cors"} : At(r, "up", layer)
  BY DEF LeaveExceptions, LeaveProxy, LeaveCors
<1>2. \E result : Back(r, result) /\ UNCHANGED <<app, open, stack, var>>
  BY DEF LeaveExceptions, LeaveProxy, LeaveCors
<1>3. layer \notin Keepers \cup {"errors"}
  BY DEF Keepers
<1> QED
  BY <1>1, <1>2, <1>3, ComesBack

(* Leaving a layer that keeps a context restores what it saved.            *)
LEMMA LeaveKeeps ==
  ASSUME IInv, NEW r \in Requests, NEW layer \in Keepers, At(r, "up", layer), NEW t, t = req[r].task,
         NEW result, Back(r, result), stack' = stack, app' = app,
         \A u \in Tasks \ {t} : var'[u] = var[u],
         var' \in [Tasks -> [link : Contexts \cup {None}, id : Requests \cup {None}]],
         \A keeper \in Keepers :
           Sees(t, keeper)' = IF keeper = layer /\ req[r].in.type = "http" THEN Saved(r, keeper)
                                                                         ELSE Sees(t, keeper)
  PROVE  IInv'
<1>1. Runs(r) /\ req[r].phase = "up" /\ Layers[req[r].pos] = layer /\ layer # "errors"
  BY DEF At, Keepers
<1> DEFINE rec == [req[r] EXCEPT !.phase = "up", !.pos = @ - 1, !.result = result]
<1>2. /\ req' = [req EXCEPT ![r] = rec] /\ rec \in Record(rec)
      /\ rec.phase = "up" /\ rec.pos = req[r].pos - 1 /\ rec.task = req[r].task
      /\ rec.in = req[r].in /\ rec.origin = req[r].origin
      /\ rec.savedLink = req[r].savedLink /\ rec.savedId = req[r].savedId
  BY <1>1, BackRecord
<1> HIDE DEF rec
<1>3. req'[r] = rec /\ \A q \in Requests \ {r} : req'[q] = req[q]
  BY <1>2 DEF IInv, TypeInv
<1>4. req[r].origin \in Origins
  BY <1>1, RunsOnTop
<1>5. TypeInv' /\ StackInv'
  BY <1>1, <1>2, <1>4, GoesKeeps
<1>6. Goes(r)
  BY <1>1, <1>2, <1>3 DEF Goes
<1>7. OriginInv'
  BY <1>2, <1>3, OthersOrigin DEF IInv
<1>8. \A keeper \in Keepers : Saved(r, keeper)' = Saved(r, keeper)
  BY <1>2, <1>3 DEF Saved
<1>9. \A keeper \in Keepers : Passes(r, keeper) <=> (keeper = layer /\ req[r].in.type = "http")
  BY <1>1 DEF Passes
<1> QED
  BY <1>1, <1>5, <1>6, <1>7, <1>8, <1>9, StepKeeps

LEMMA LeaveScopeKeeps ==
  ASSUME IInv, NEW r \in Requests, LeaveScope(r) PROVE IInv'
<1>1. PICK t : t = req[r].task
  OBVIOUS
<1>2. /\ At(r, "up", "scope") /\ Back(r, req[r].result) /\ stack' = stack /\ app' = app
      /\ var' = IF req[r].in.type = "http"
                THEN [var EXCEPT ![t].link = req[r].savedLink] ELSE var
  BY <1>1 DEF LeaveScope
<1>3. /\ t \in Tasks /\ req[r].savedLink \in Contexts \cup {None}
      /\ var[t] \in [link : Contexts \cup {None}, id : Requests \cup {None}]
  BY <1>1, <1>2, RunsOnTop, ChangesNothing DEF At, Record
<1>4. /\ var' \in [Tasks -> [link : Contexts \cup {None}, id : Requests \cup {None}]]
      /\ var'[t].id = var[t].id
      /\ var'[t].link = IF req[r].in.type = "http" THEN req[r].savedLink ELSE var[t].link
      /\ \A u \in Tasks \ {t} : var'[u] = var[u]
  BY <1>2, <1>3, ChangesNothing
<1>5. \A keeper \in Keepers :
        Sees(t, keeper)' = IF keeper = "scope" /\ req[r].in.type = "http" THEN Saved(r, keeper)
                                                                          ELSE Sees(t, keeper)
  BY <1>4 DEF Sees, Saved, Of
<1>6. "scope" \in Keepers
  BY DEF Keepers
<1> QED
  BY <1>1, <1>2, <1>4, <1>5, <1>6, LeaveKeeps

LEMMA LeaveRequestIdKeeps ==
  ASSUME IInv, NEW r \in Requests, LeaveRequestId(r) PROVE IInv'
<1>1. PICK t : t = req[r].task
  OBVIOUS
<1>2. /\ At(r, "up", "request_id") /\ Back(r, req[r].result) /\ stack' = stack /\ app' = app
      /\ var' = IF req[r].in.type = "http"
                THEN [var EXCEPT ![t].id = req[r].savedId] ELSE var
  BY <1>1 DEF LeaveRequestId
<1>3. /\ t \in Tasks /\ req[r].savedId \in Requests \cup {None}
      /\ var[t] \in [link : Contexts \cup {None}, id : Requests \cup {None}]
  BY <1>1, <1>2, RunsOnTop, ChangesNothing DEF At, Record
<1>4. /\ var' \in [Tasks -> [link : Contexts \cup {None}, id : Requests \cup {None}]]
      /\ var'[t].link = var[t].link
      /\ var'[t].id = IF req[r].in.type = "http" THEN req[r].savedId ELSE var[t].id
      /\ \A u \in Tasks \ {t} : var'[u] = var[u]
  BY <1>2, <1>3, ChangesNothing
<1>5. \A keeper \in Keepers :
        Sees(t, keeper)' = IF keeper = "request_id" /\ req[r].in.type = "http" THEN Saved(r, keeper)
                                                                               ELSE Sees(t, keeper)
  BY <1>4 DEF Sees, Saved, Keepers
<1>6. "request_id" \in Keepers
  BY DEF Keepers
<1> QED
  BY <1>1, <1>2, <1>4, <1>5, <1>6, LeaveKeeps

-----------------------------------------------------------------------------
(* A request is inside no such layer when it has just come, or is about to *)
(* leave; the requests below it do not notice.                             *)
LEMMA OutsideAtErrors ==
  ASSUME NEW r \in Requests, NEW layer \in Keepers, app' = app
  PROVE  /\ req[r].pos = 1 => ~Inside(r, layer)
         /\ req'[r].pos = 1 => ~Inside(r, layer)'
<1>1. Layers' = Layers /\ LayerIndex(layer)' = LayerIndex(layer)
  BY DEF Layers, Added, LayerIndex
<1>2. layer \in ToSet(Layers) => LayerIndex(layer) \in Int /\ LayerIndex(layer) > 1
  BY IndexOf, LayersDiffer DEF Keepers
<1> QED
  BY <1>1, <1>2 DEF Inside

LEMMA Below ==
  ASSUME IInv, NEW u \in Tasks, NEW layer \in Keepers, NEW k \in 0 .. Len(stack[u]), app' = app,
         \A i \in 1 .. k : stack'[u][i] = stack[u][i] /\ req'[stack[u][i]] = req[stack[u][i]]
  PROVE  /\ \A n \in 0 .. k : Inner(u, n, layer)' = Inner(u, n, layer)
         /\ \A n \in 1 .. k :
              Inside(stack[u][n], layer)' => Saved(stack[u][n], layer)' = Inner(u, n - 1, layer)'
         /\ \A n \in 0 .. k :
              InsideOf(u, n, layer)' # {} => Greatest(InsideOf(u, n, layer)') \in InsideOf(u, n, layer)'
<1>1. Len(stack[u]) \in Nat /\ Nested(u, layer)
  BY DEF IInv, TypeInv, NestInv
<1>2. \A i \in 1 .. k : /\ Inside(stack[u][i], layer)' <=> Inside(stack[u][i], layer)
                        /\ Saved(stack[u][i], layer)' = Saved(stack[u][i], layer)
  BY DEF Inside, LayerIndex, Layers, Added, Saved, Of
<1>3. ASSUME NEW n \in 0 .. k
      PROVE  /\ Inner(u, n, layer)' = Inner(u, n, layer)
             /\ InsideOf(u, n, layer)' = InsideOf(u, n, layer)
  BY <1>1, <1>2, InnerSame
<1>4. ASSUME NEW n \in 1 .. k, Inside(stack[u][n], layer)'
      PROVE  Saved(stack[u][n], layer)' = Inner(u, n - 1, layer)'
  <2>1. Saved(stack[u][n], layer) = Inner(u, n - 1, layer)
    BY <1>1, <1>2, <1>4 DEF Nested
  <2> QED
    BY <1>2, <1>3, <2>1
<1>5. ASSUME NEW n \in 0 .. k, InsideOf(u, n, layer)' # {}
      PROVE  Greatest(InsideOf(u, n, layer)') \in InsideOf(u, n, layer)'
  BY <1>1, <1>3, <1>5 DEF Nested
<1> QED
  BY <1>3, <1>4, <1>5

LEMMA SameNested ==
  ASSUME IInv, NEW u \in Tasks, NEW layer \in Keepers, app' = app, stack'[u] = stack[u],
         var'[u] = var[u],
         \A i \in 1 .. Len(stack[u]) : req'[stack[u][i]] = req[stack[u][i]]
  PROVE  Nested(u, layer)'
<1>1. Len(stack[u]) \in Nat
  BY DEF IInv, TypeInv
<1>2. /\ \A n \in 0 .. Len(stack[u]) : Inner(u, n, layer)' = Inner(u, n, layer)
      /\ \A n \in 1 .. Len(stack[u]) :
           Inside(stack[u][n], layer)' => Saved(stack[u][n], layer)' = Inner(u, n - 1, layer)'
      /\ \A n \in 0 .. Len(stack[u]) :
           InsideOf(u, n, layer)' # {} => Greatest(InsideOf(u, n, layer)') \in InsideOf(u, n, layer)'
  BY <1>1, Below
<1>3. Sees(u, layer)' = Inner(u, Len(stack[u]), layer)'
  BY <1>1, <1>2 DEF Sees, Of, IInv, NestInv, Nested
<1> QED
  BY <1>2, <1>3 DEF Nested

LEMMA RespondKeeps ==
  ASSUME IInv, NEW r \in Requests, Respond(r) PROVE IInv'
<1>1. PICK t, below : t = req[r].task /\ below = Len(stack[t]) - 1
  OBVIOUS
<1>2. /\ At(r, "up", "errors") /\ stack' = [stack EXCEPT ![t] = Front(@)]
      /\ app' = app /\ var' = var
  BY <1>1 DEF Respond
<1>3. t \in Tasks /\ stack[t] # << >> /\ stack[t][Len(stack[t])] = r
      /\ req[r].phase = "up" /\ req[r].in \in Inputs /\ req[r].origin \in Origins
  BY <1>1, <1>2, RunsOnTop DEF At
<1>4. /\ stack[t] \in Seq(Requests) /\ below \in Nat /\ below + 1 = Len(stack[t])
      /\ stack'[t] \in Seq(Requests) /\ Len(stack'[t]) = below
      /\ \A i \in 1 .. below : stack'[t][i] = stack[t][i]
  <2>1. stack[t] \in Seq(Requests) /\ stack'[t] = SubSeq(stack[t], 1, Len(stack[t]) - 1)
    BY <1>2, <1>3 DEF IInv, TypeInv, Front
  <2> QED
    BY <1>1, <1>3, <2>1
<1>5. \A u \in Tasks \ {t} : stack'[u] = stack[u]
  BY <1>2 DEF IInv, TypeInv
<1>6. /\ req[r] \in Record(req[r]) /\ req = [q \in Requests |-> req[q]]
      /\ req[r].pos = 1
  BY <1>2, LayersDiffer DEF IInv, TypeInv, Record, At
<1>7. PICK result : req' = [req EXCEPT ![r].phase = "done", ![r].result = result]
  BY DEF Respond
<1> DEFINE rec == [req[r] EXCEPT !.phase = "done", !.result = result]
<1>8. /\ rec \in Record(rec) /\ rec.phase = "done" /\ rec.task = t
      /\ rec.in = req[r].in /\ rec.origin = req[r].origin
  BY <1>1, <1>6 DEF Record
<1>9. req'[r] = rec /\ (\A q \in Requests \ {r} : req'[q] = req[q]) /\ DOMAIN req' = Requests
      /\ req' = [q \in Requests |-> req'[q]]
  BY <1>6, <1>7
<1> HIDE DEF rec
<1>10. \A u \in Tasks : \A n \in 1 .. Len(stack'[u]) :
         /\ n \in 1 .. Len(stack[u]) /\ stack'[u][n] = stack[u][n]
         /\ stack[u][n] \in Requests \ {r}
  <2>1. ASSUME NEW u \in Tasks, NEW n \in 1 .. Len(stack'[u])
        PROVE  /\ n \in 1 .. Len(stack[u]) /\ stack'[u][n] = stack[u][n]
               /\ u = t => n # Len(stack[t])
    BY <1>4, <1>5
  <2>2. \A u \in Tasks : \A n \in 1 .. Len(stack[u]) : stack[u][n] \in Requests
    BY DEF IInv, TypeInv
  <2>3. \A u \in Tasks : \A n \in 1 .. Len(stack[u]) :
          stack[u][n] = r => u = t /\ n = Len(stack[t])
    <3>1. Len(stack[t]) \in 1 .. Len(stack[t])
      BY <1>4
    <3>2. /\ \A u \in Tasks : \A n \in 1 .. Len(stack[u]) : stack[u][n] = r => u = t
          /\ \A n \in 1 .. Len(stack[t]) : stack[t][n] = r => n = Len(stack[t])
      BY <1>1, <1>3, <3>1 DEF IInv, StackInv
    <3> QED
      BY <3>2
  <2> QED
    BY <2>1, <2>2, <2>3
<1>11. TypeInv'
  <2>1. Layers' = Layers
    BY <1>2 DEF Layers, Added
  <2>2. \A q \in Requests : req'[q] \in Record(req'[q])
    BY <1>8, <1>9 DEF IInv, TypeInv
  <2>3. stack' \in [Tasks -> Seq(Requests)]
    BY <1>2, <1>4, <1>5 DEF IInv, TypeInv
  <2> QED
    BY <1>2, <1>9, <2>1, <2>2, <2>3 DEF IInv, TypeInv, Record
<1>12. StackInv'
  <2>1. ASSUME NEW u \in Tasks, NEW n \in 1 .. Len(stack'[u])
        PROVE  /\ req'[stack'[u][n]].task = u /\ req'[stack'[u][n]].phase \in {"down", "up"}
               /\ \A m \in 1 .. Len(stack'[u]) : stack'[u][m] = stack'[u][n] => m = n
    BY <1>9, <1>10 DEF IInv, StackInv
  <2>2. ASSUME NEW q \in Requests
        PROVE  /\ req'[q].phase = "idle" => req'[q].pos = 1
               /\ req'[q].phase # "idle" =>
                    req'[q].task \in Tasks /\ req'[q].in \in Inputs /\ req'[q].origin \in Origins
    BY <1>3, <1>8, <1>9 DEF IInv, StackInv
  <2> QED
    BY <2>1, <2>2 DEF StackInv
<1>13. ASSUME NEW layer \in Keepers PROVE Nested(t, layer)'
  <2>1. \A i \in 1 .. below : stack'[t][i] = stack[t][i] /\ req'[stack[t][i]] = req[stack[t][i]]
    BY <1>3, <1>4, <1>9, <1>10
  <2>2. below \in 0 .. Len(stack[t])
    BY <1>4
  <2>3. /\ \A n \in 0 .. below : Inner(t, n, layer)' = Inner(t, n, layer)
        /\ \A n \in 1 .. below :
             Inside(stack[t][n], layer)' => Saved(stack[t][n], layer)' = Inner(t, n - 1, layer)'
        /\ \A n \in 0 .. below :
             InsideOf(t, n, layer)' # {} => Greatest(InsideOf(t, n, layer)') \in InsideOf(t, n, layer)'
    BY <1>2, <1>3, <2>1, <2>2, Below
  <2>4. Inner(t, Len(stack[t]), layer) = Inner(t, below, layer)
    <3>1. ~Inside(stack[t][Len(stack[t])], layer)
      BY <1>2, <1>3, <1>6, OutsideAtErrors
    <3>2. Len(stack[t]) \in Nat \ {0} /\ Len(stack[t]) - 1 = below
      BY <1>4
    <3> QED
      BY <3>1, <3>2, InnerTop
  <2>5. Sees(t, layer)' = Inner(t, below, layer)'
    BY <1>2, <1>3, <1>4, <2>3, <2>4 DEF Sees, Of, IInv, NestInv, Nested
  <2> QED
    BY <1>4, <2>3, <2>5 DEF Nested
<1>14. ASSUME NEW layer \in Keepers, NEW u \in Tasks \ {t} PROVE Nested(u, layer)'
  BY <1>2, <1>5, <1>9, <1>10, SameNested
<1>15. OriginInv'
  BY <1>2, <1>8, <1>9, OthersOrigin DEF IInv
<1> QED
  BY <1>11, <1>12, <1>13, <1>14, <1>15 DEF IInv, NestInv

LEMMA CallKeeps ==
  ASSUME IInv, NEW r \in Requests, NEW t \in Tasks, Call(r, t) PROVE IInv'
<1>1. PICK in \in Inputs :
        req' = [req EXCEPT ![r] = [@ EXCEPT !.phase = "down", !.task = t, !.in = in,
                                            !.origin = Direct(in)]]
  BY DEF Call
<1>2. /\ req[r].phase = "idle" /\ stack' = [stack EXCEPT ![t] = Append(@, r)]
      /\ app' = app /\ var' = var
  BY DEF Call
<1>3. PICK below : below = Len(stack[t])
  OBVIOUS
<1>4. /\ stack[t] \in Seq(Requests) /\ below \in Nat
      /\ stack'[t] \in Seq(Requests) /\ Len(stack'[t]) = below + 1 /\ stack'[t][below + 1] = r
      /\ \A i \in 1 .. below : stack'[t][i] = stack[t][i]
  <2>1. stack[t] \in Seq(Requests) /\ stack'[t] = Append(stack[t], r)
    BY <1>2 DEF IInv, TypeInv
  <2> QED
    BY <1>3, <2>1
<1>5. \A u \in Tasks \ {t} : stack'[u] = stack[u]
  BY <1>2 DEF IInv, TypeInv
<1>6. /\ req[r] \in Record(req[r]) /\ req = [q \in Requests |-> req[q]]
      /\ req[r].pos = 1
  BY <1>2 DEF IInv, TypeInv, StackInv
<1> DEFINE rec == [req[r] EXCEPT !.phase = "down", !.task = t, !.in = in, !.origin = Direct(in)]
<1>7. /\ rec \in Record(rec) /\ rec.phase = "down" /\ rec.task = t /\ rec.pos = 1
      /\ rec.in = in /\ rec.origin = Direct(in) /\ rec.origin \in Origins
  <2>1. Direct(in) \in Origins
    BY DEF Origins
  <2> QED
    BY <1>6, <2>1 DEF Record
<1>8. req'[r] = rec /\ (\A q \in Requests \ {r} : req'[q] = req[q])
      /\ req' = [q \in Requests |-> req'[q]]
  BY <1>1, <1>6
<1> HIDE DEF rec
<1>9. \A u \in Tasks : \A n \in 1 .. Len(stack[u]) : stack[u][n] \in Requests \ {r}
  <2>1. \A u \in Tasks : \A n \in 1 .. Len(stack[u]) : stack[u][n] \in Requests
    BY DEF IInv, TypeInv
  <2>2. \A u \in Tasks : \A n \in 1 .. Len(stack[u]) : req[stack[u][n]].phase # "idle"
    BY DEF IInv, StackInv
  <2> QED
    BY <1>2, <2>1, <2>2
<1>10. TypeInv'
  <2>1. Layers' = Layers
    BY <1>2 DEF Layers, Added
  <2>2. \A q \in Requests : req'[q] \in Record(req'[q])
    BY <1>7, <1>8 DEF IInv, TypeInv
  <2>3. stack' \in [Tasks -> Seq(Requests)]
    BY <1>2, <1>4, <1>5 DEF IInv, TypeInv
  <2> QED
    BY <1>2, <1>8, <2>1, <2>2, <2>3 DEF IInv, TypeInv, Record
<1>11. StackInv'
  <2>1. ASSUME NEW u \in Tasks, NEW n \in 1 .. Len(stack'[u])
        PROVE  \/ u = t /\ n = below + 1 /\ stack'[u][n] = r
               \/ /\ n \in 1 .. Len(stack[u]) /\ stack'[u][n] = stack[u][n]
                  /\ stack'[u][n] \in Requests \ {r}
    BY <1>3, <1>4, <1>5, <1>9
  <2>2. ASSUME NEW u \in Tasks, NEW n \in 1 .. Len(stack'[u])
        PROVE  req'[stack'[u][n]].task = u /\ req'[stack'[u][n]].phase \in {"down", "up"}
    BY <1>7, <1>8, <2>1 DEF IInv, StackInv
  <2>3. ASSUME NEW u \in Tasks, NEW n \in 1 .. Len(stack'[u]), NEW m \in 1 .. Len(stack'[u]),
               stack'[u][m] = stack'[u][n]
        PROVE  m = n
    <3>1. CASE stack'[u][n] = r
      BY <2>1, <2>3, <3>1
    <3>2. CASE stack'[u][n] # r
      <4>1. /\ n \in 1 .. Len(stack[u]) /\ m \in 1 .. Len(stack[u])
            /\ stack[u][m] = stack[u][n]
        BY <2>1, <2>3, <3>2
      <4> QED
        BY <4>1 DEF IInv, StackInv
    <3> QED
      BY <3>1, <3>2
  <2>4. ASSUME NEW q \in Requests
        PROVE  /\ req'[q].phase = "idle" => req'[q].pos = 1
               /\ req'[q].phase # "idle" =>
                    req'[q].task \in Tasks /\ req'[q].in \in Inputs /\ req'[q].origin \in Origins
    BY <1>7, <1>8 DEF IInv, StackInv
  <2> QED
    BY <2>2, <2>3, <2>4 DEF StackInv
<1>12. ASSUME NEW layer \in Keepers PROVE Nested(t, layer)'
  <2>1. \A i \in 1 .. below : stack'[t][i] = stack[t][i] /\ req'[stack[t][i]] = req[stack[t][i]]
    BY <1>3, <1>4, <1>8, <1>9
  <2>0. below \in 0 .. Len(stack[t])
    BY <1>3, <1>4
  <2>2. /\ \A n \in 0 .. below : Inner(t, n, layer)' = Inner(t, n, layer)
        /\ \A n \in 1 .. below :
             Inside(stack[t][n], layer)' => Saved(stack[t][n], layer)' = Inner(t, n - 1, layer)'
        /\ \A n \in 0 .. below :
             InsideOf(t, n, layer)' # {} => Greatest(InsideOf(t, n, layer)') \in InsideOf(t, n, layer)'
    BY <1>2, <2>0, <2>1, Below
  <2>3. ~Inside(stack[t][below + 1], layer)'
    BY <1>2, <1>4, <1>7, <1>8, OutsideAtErrors
  <2>4. /\ InsideOf(t, below + 1, layer)' = InsideOf(t, below, layer)'
        /\ Inner(t, below + 1, layer)' = Inner(t, below, layer)'
    <3>1. below + 1 \in Nat \ {0} /\ (below + 1) - 1 = below
      BY <1>4
    <3> QED
      BY <2>3, <3>1, InsideOfTop, InnerTop
  <2>5. Sees(t, layer)' = Inner(t, below + 1, layer)'
    BY <1>2, <1>3, <1>4, <2>2, <2>4 DEF Sees, Of, IInv, NestInv, Nested
  <2>6. ASSUME NEW n \in 0 .. below + 1
        PROVE  InsideOf(t, n, layer)' # {} =>
                 Greatest(InsideOf(t, n, layer)') \in InsideOf(t, n, layer)'
    <3>1. CASE n = below + 1
      <4>1. InsideOf(t, n, layer)' = InsideOf(t, below, layer)'
        BY <2>4, <3>1
      <4>2. InsideOf(t, below, layer)' \subseteq InsideOf(t, n, layer)'
        BY <4>1
      <4>3. below \in 0 .. below
        BY <1>4
      <4> QED
        BY <2>2, <4>1, <4>3
    <3>2. CASE n # below + 1
      BY <1>4, <2>2, <3>2
    <3> QED
      BY <3>1, <3>2
  <2>7. ASSUME NEW n \in 1 .. below + 1, Inside(stack[t][n], layer)'
        PROVE  Saved(stack[t][n], layer)' = Inner(t, n - 1, layer)'
    BY <1>4, <2>2, <2>3, <2>7
  <2> QED
    BY <1>4, <2>5, <2>6, <2>7 DEF Nested
<1>13. ASSUME NEW layer \in Keepers, NEW u \in Tasks \ {t} PROVE Nested(u, layer)'
  BY <1>2, <1>5, <1>8, <1>9, SameNested
<1>14. OriginInv'
  <2>1. Layers' = Layers /\ LayerIndex("proxy")' = LayerIndex("proxy")
    BY <1>2 DEF Layers, Added, LayerIndex
  <2>2. LayerIndex("proxy") \in Int /\ LayerIndex("proxy") > 1
    BY LayersDiffer, IndexOf DEF ToSet
  <2> QED
    BY <1>2, <1>7, <1>8, <2>2, OthersOrigin DEF IInv
<1> QED
  BY <1>10, <1>11, <1>12, <1>13, <1>14 DEF IInv, NestInv

-----------------------------------------------------------------------------
LEMMA InitIInv == Init => IInv
<1> SUFFICES ASSUME Init PROVE IInv
  OBVIOUS
<1>1. \A t \in Tasks : stack[t] = << >> /\ var[t] = [link |-> None, id |-> None]
  BY DEF Init
<1>2. TypeInv
  BY LayersDiffer DEF Init, TypeInv, Record
<1>3. StackInv
  BY <1>1 DEF Init, StackInv
<1>4. \A layer \in Keepers, t \in Tasks : Nested(t, layer)
  BY <1>1 DEF Nested, Inner, InsideOf, Sees, Of
<1>5. OriginInv
  BY DEF Init, OriginInv
<1> QED
  BY <1>2, <1>3, <1>4, <1>5 DEF IInv, NestInv

LEMMA QuietKeeps ==
  ASSUME IInv, UNCHANGED <<app, stack, var, req>> PROVE IInv'
<1>1. Layers' = Layers
  BY DEF Layers, Added
<1>2. TypeInv'
  BY <1>1 DEF IInv, TypeInv, Record
<1>3. StackInv'
  BY DEF IInv, StackInv
<1>4. \A layer \in Keepers, t \in Tasks : Nested(t, layer)'
  BY SameNested
<1>5. OriginInv'
  <2>1. LayerIndex("proxy")' = LayerIndex("proxy") /\ \A in : Applied(in)' = Applied(in)
    BY <1>1 DEF LayerIndex, Applied
  <2> QED
    BY <2>1 DEF IInv, OriginInv
<1> QED
  BY <1>2, <1>3, <1>4, <1>5 DEF IInv, NestInv

LEMMA NextIInv == IInv /\ [Next]_vars => IInv'
<1> SUFFICES ASSUME IInv, [Next]_vars PROVE IInv'
  OBVIOUS
<1>1. CASE Startup \/ Shutdown \/ UNCHANGED vars
  BY <1>1, QuietKeeps DEF Startup, Shutdown, vars
<1>2. CASE \E r \in Requests, t \in Tasks : Call(r, t)
  BY <1>2, CallKeeps
<1>3. CASE \E r \in Requests : Enter(r)
  BY <1>3, PassOnKeeps, EnterRequestIdKeeps, EnterScopeKeeps, EnterProxyKeeps, TurnKeeps, FailKeeps
     DEF Enter
<1>4. CASE \E r \in Requests : LeaveLayer(r)
  BY <1>4, LeavePlainKeeps, LeaveScopeKeeps, LeaveRequestIdKeeps, RespondKeeps DEF LeaveLayer
<1> QED
  BY <1>1, <1>2, <1>3, <1>4 DEF Next

(* The argument: what a layer saved on the way in is what the requests     *)
(* below were seeing, so the restores of any nesting undo each other; and  *)
(* no other task's layers touch this task's variables.                     *)
THEOREM Invariant == Spec => []IInv
<1>1. Init => IInv
  BY InitIInv
<1>2. IInv /\ [Next]_vars => IInv'
  BY NextIInv
<1> QED
  BY <1>1, <1>2, PTL DEF Spec

(* gazebo.context: for any number of tasks, of requests and of calls made  *)
(* within calls, the active context is that of the innermost request.      *)
THEOREM ContextsAreInnermost == Spec => []ContextIsTheInnermost
<1>1. ASSUME IInv PROVE ContextIsTheInnermost
  <2>1. ASSUME NEW t \in Tasks, NEW layer \in Keepers
        PROVE  Sees(t, layer) = InnermostInside(t, layer)
    <3>1. DOMAIN stack[t] = 1 .. Len(stack[t])
      BY <1>1 DEF IInv, TypeInv
    <3>2. InnermostInside(t, layer) = Inner(t, Len(stack[t]), layer)
      BY <3>1 DEF InnermostInside, Inner, InsideOf, Greatest
    <3> QED
      BY <1>1, <3>2 DEF IInv, NestInv, Nested
  <2>2. ASSUME NEW t \in Tasks
        PROVE  var[t].link = None \/ (var[t].link # None /\ var[t].link.of \in Requests)
    BY <1>1 DEF IInv, TypeInv, Contexts
  <2>3. "scope" \in Keepers /\ "request_id" \in Keepers
    BY DEF Keepers
  <2> QED
    BY <2>1, <2>2, <2>3, NoneAssumption DEF ContextIsTheInnermost, Sees, Of
<1> QED
  BY <1>1, Invariant, PTL

-----------------------------------------------------------------------------
(* For the links: a context of the default recipe has read nothing, and a  *)
(* response with links has those of the origin that applies.               *)
ReadNothing(link) == app.recipe = "default" /\ link # None => link.read = None
ReadInv ==
  /\ \A t \in Tasks : ReadNothing(var[t].link)
  /\ \A r \in Requests : ReadNothing(req[r].savedLink)

IsResponse(x) ==
  x = [kind |-> "response", status |-> x.status, problem |-> x.problem, cites |-> x.cites,
       cors |-> x.cors, link |-> x.link]
Good(in, result) ==
  result.kind = "response" =>
    /\ IsResponse(result)
    /\ (in.type = "http" /\ app.recipe = "default" /\ result.status = 200 /\ ~in.preflight) =>
         result.link = Applied(in)
ResultInv ==
  \A r \in Requests : req[r].phase \in {"up", "done"} => Good(req[r].in, req[r].result)

LinkInv == app \in Apps /\ ReadInv /\ ResultInv

LEMMA LinkStep ==
  ASSUME LinkInv, NEW r \in Requests, app' = app, \A q \in Requests \ {r} : req'[q] = req[q],
         req'[r].phase \in {"up", "done"} => Good(req'[r].in, req'[r].result),
         ReadNothing(req'[r].savedLink), \A t \in Tasks : ReadNothing(var'[t].link)
  PROVE  LinkInv'
<1>1. /\ \A in : Applied(in)' = Applied(in)
      /\ \A in, result : Good(in, result) <=> Good(in, result)'
  BY DEF Good, Applied
<1>2. ResultInv'
  BY <1>1 DEF LinkInv, ResultInv, Good, Applied
<1>3. ReadInv'
  BY DEF LinkInv, ReadInv, ReadNothing
<1> QED
  BY <1>2, <1>3 DEF LinkInv

LEMMA LinkBack ==
  ASSUME IInv, LinkInv, NEW r \in Requests, Runs(r), Layers[req[r].pos] # "errors",
         NEW result, Back(r, result), Good(req[r].in, result), app' = app,
         \A t \in Tasks : ReadNothing(var'[t].link)
  PROVE  LinkInv'
<1>1. /\ \A q \in Requests \ {r} : req'[q] = req[q]
      /\ req'[r] = [req[r] EXCEPT !.phase = "up", !.pos = @ - 1, !.result = result]
  BY DEF Back, IInv, TypeInv
<1>2. req'[r].in = req[r].in /\ req'[r].result = result /\ req'[r].savedLink = req[r].savedLink
  BY <1>1, ChangesNothing DEF Record
<1>3. ReadNothing(req'[r].savedLink)
  BY <1>2 DEF LinkInv, ReadInv
<1> QED
  BY <1>1, <1>2, <1>3, LinkStep

(* In its endpoint a request sees its own context, past the proxy layer.   *)
LEMMA AnswerLinks ==
  ASSUME IInv, LinkInv, NEW r \in Requests, At(r, "down", "endpoint"), req[r].in.type = "http",
         app.recipe = "default"
  PROVE  UrlOf(var[req[r].task].link) = Applied(req[r].in)
<1> DEFINE t == req[r].task
<1>1. t \in Tasks /\ stack[t] # << >> /\ stack[t][Len(stack[t])] = r
  BY RunsOnTop DEF At
<1>2. /\ req[r].pos \in DOMAIN Layers /\ req[r].phase = "down" /\ Layers[req[r].pos] = "endpoint"
      /\ req[r].pos = Len(Layers)
  BY ChangesNothing, LayersDiffer DEF At, Record
<1>3. "scope" \in ToSet(Layers)
  <2>1. Len(Layers) - 3 \in DOMAIN Layers
    BY LayersDiffer
  <2> QED
    BY <2>1, LayersDiffer DEF ToSet
<1>4. req[r].pos > LayerIndex("scope") /\ req[r].pos > LayerIndex("proxy")
  BY <1>2, <1>3, LayersDiffer, IndexOf, SMTT(20) DEF ToSet
<1>5. Inside(r, "scope")
  BY <1>2, <1>3, <1>4 DEF Inside
<1>6. Sees(t, "scope") = r
  <2>1. Len(stack[t]) \in Nat \ {0}
    BY <1>1 DEF IInv, TypeInv
  <2>2. Inner(t, Len(stack[t]), "scope") = r
    BY <1>1, <1>5, <2>1, InnerTop
  <2> QED
    BY <1>1, <2>2 DEF IInv, NestInv, Nested, Keepers
<1>7. var[t].link # None /\ var[t].link.of = r
  BY <1>6, NoneAssumption DEF Sees, Of
<1>8. var[t].link.read = None
  BY <1>1, <1>7 DEF LinkInv, ReadInv, ReadNothing
<1>9. req[r].origin = Applied(req[r].in)
  BY <1>2, <1>4 DEF IInv, OriginInv
<1> QED
  BY <1>7, <1>8, <1>9 DEF UrlOf

(* A request that is handed on has no result yet.                          *)
LEMMA LinkDown ==
  ASSUME IInv, LinkInv, NEW r \in Requests, NEW layer, At(r, "down", layer),
         NEW change, Down(r, change), change \in Record(change), change.phase = "down",
         ReadNothing(change.savedLink), app' = app, \A t \in Tasks : ReadNothing(var'[t].link)
  PROVE  LinkInv'
<1>1. /\ \A q \in Requests \ {r} : req'[q] = req[q]
      /\ req'[r] = [change EXCEPT !.pos = @ + 1]
  BY DEF Down, IInv, TypeInv
<1>2. req'[r].phase = "down" /\ req'[r].savedLink = change.savedLink
  BY <1>1 DEF Record
<1> QED
  BY <1>1, <1>2, LinkStep

LEMMA LinkEnter ==
  ASSUME IInv, LinkInv, NEW r \in Requests,
         PassOn(r) \/ EnterProxy(r) \/ EnterRequestId(r) \/ EnterScope(r)
  PROVE  LinkInv'
<1>0. PICK t : t = req[r].task
  OBVIOUS
<1>1. /\ req[r] \in Record(req[r]) /\ app' = app
      /\ var \in [Tasks -> [link : Contexts \cup {None}, id : Requests \cup {None}]]
      /\ ReadNothing(req[r].savedLink) /\ \A u \in Tasks : ReadNothing(var[u].link)
  BY ChangesNothing DEF LinkInv, ReadInv, PassOn, EnterProxy, EnterRequestId, EnterScope
<1>2. CASE PassOn(r)
  <2>1. PICK layer : At(r, "down", layer)
    BY <1>2 DEF PassOn
  <2> QED
    BY <1>1, <1>2, <2>1, LinkDown DEF PassOn, At
<1>3. CASE EnterProxy(r)
  <2> DEFINE change == [req[r] EXCEPT !.origin = Forwarded(req[r].in, @)]
  <2>1. At(r, "down", "proxy") /\ Down(r, change) /\ var' = var /\ req[r].phase = "down"
    BY <1>3 DEF EnterProxy, At
  <2>2. req[r].in \in Inputs /\ req[r].origin = Direct(req[r].in)
    BY <2>1, RunsOnTop, OriginAtProxy DEF At
  <2>3. Forwarded(req[r].in, req[r].origin) \in Origins
    BY <2>2 DEF Origins
  <2>4. change \in Record(change) /\ change.phase = "down" /\ change.savedLink = req[r].savedLink
    BY <1>1, <2>1, <2>3 DEF Record
  <2> HIDE DEF change
  <2> QED
    BY <1>1, <2>1, <2>4, LinkDown
<1>4. CASE EnterRequestId(r) /\ req[r].in.type # "http"
  BY <1>1, <1>4, LinkDown DEF EnterRequestId, At
<1>5. CASE EnterRequestId(r) /\ req[r].in.type = "http"
  <2> DEFINE change == [req[r] EXCEPT !.savedId = var[t].id]
  <2>1. /\ At(r, "down", "request_id") /\ Down(r, change) /\ var' = [var EXCEPT ![t].id = r]
        /\ req[r].phase = "down"
    BY <1>0, <1>5 DEF EnterRequestId, At
  <2>2. t \in Tasks
    BY <1>0, <2>1, RunsOnTop DEF At
  <2>3. change \in Record(change) /\ change.phase = "down" /\ change.savedLink = req[r].savedLink
    BY <1>1, <2>1, <2>2 DEF Record
  <2>4. \A u \in Tasks : var'[u].link = var[u].link
    BY <1>1, <2>1, <2>2
  <2> HIDE DEF change
  <2> QED
    BY <1>1, <2>1, <2>3, <2>4, LinkDown
<1>6. CASE EnterScope(r)
  <2> DEFINE change == [req[r] EXCEPT !.savedLink = var[t].link]
  <2>1. /\ At(r, "down", "scope") /\ Down(r, change) /\ req[r].phase = "down"
        /\ var' = [var EXCEPT ![t].link = ContextFor(r)]
    BY <1>0, <1>6 DEF EnterScope, At
  <2>2. t \in Tasks
    BY <1>0, <2>1, RunsOnTop DEF At
  <2>3. change \in Record(change) /\ change.phase = "down" /\ change.savedLink = var[t].link
    BY <1>1, <2>1, <2>2 DEF Record
  <2>4. ReadNothing(ContextFor(r))
    BY DEF ReadNothing, ContextFor
  <2>5. var'[t].link = ContextFor(r) /\ \A u \in Tasks \ {t} : var'[u] = var[u]
    BY <1>1, <2>1, <2>2
  <2>6. \A u \in Tasks : ReadNothing(var'[u].link)
    BY <1>1, <2>4, <2>5
  <2> HIDE DEF change
  <2> QED
    BY <1>1, <2>1, <2>2, <2>3, <2>6, LinkDown
<1> QED
  BY <1>2, <1>3, <1>4, <1>5, <1>6

LEMMA GoodRaised ==
  ASSUME NEW in, NEW e PROVE Good(in, Raised(e))
  BY DEF Good, Raised

LEMMA WithCors ==
  ASSUME NEW x, IsResponse(x), NEW cors PROVE IsResponse([x EXCEPT !.cors = cors])
  BY DEF IsResponse

LEMMA LinkTurn ==
  ASSUME IInv, LinkInv, NEW r \in Requests, Preflight(r) \/ EnterScopeRaises(r) \/ Answer(r)
  PROVE  LinkInv'
<1>1. \A t \in Tasks : ReadNothing(var[t].link)
  BY DEF LinkInv, ReadInv
<1>2. CASE Preflight(r)
  <2>1. Good(req[r].in, [Response(200, None) EXCEPT !.cors = TRUE])
    <3>1. req[r].in.preflight
      BY <1>2 DEF Preflight
    <3>2. IsResponse(Response(200, None))
      BY DEF Response, IsResponse
    <3>3. IsResponse([Response(200, None) EXCEPT !.cors = TRUE])
      BY <3>2, WithCors
    <3> QED
      BY <3>1, <3>3 DEF Good
  <2> QED
    BY <1>1, <1>2, <2>1, LinkBack DEF Preflight, At
<1>3. CASE EnterScopeRaises(r)
  BY <1>1, <1>3, GoodRaised, LinkBack DEF EnterScopeRaises, At
<1>4. CASE Answer(r)
  <2>1. Good(req[r].in, Response(200, UrlOf(var[req[r].task].link)))
    BY <1>4, AnswerLinks DEF Answer, Good, IsResponse, Response
  <2> QED
    BY <1>1, <1>4, <2>1, LinkBack DEF Answer, At
<1> QED
  BY <1>2, <1>3, <1>4

LEMMA LinkFail ==
  ASSUME IInv, LinkInv, NEW r \in Requests, Fail(r) PROVE LinkInv'
<1>1. PICK e \in Errors :
        req' = [req EXCEPT ![r].phase = "up", ![r].pos = @ - 1, ![r].failed = e,
                           ![r].result = Raised(e)]
  BY DEF Fail
<1>2. app' = app /\ var' = var /\ req[r] \in Record(req[r]) /\ req = [q \in Requests |-> req[q]]
  BY DEF Fail, IInv, TypeInv
<1>3. /\ \A q \in Requests \ {r} : req'[q] = req[q]
      /\ req'[r] = [req[r] EXCEPT !.phase = "up", !.pos = @ - 1, !.failed = e, !.result = Raised(e)]
  BY <1>1, <1>2
<1>4. req'[r].result = Raised(e) /\ req'[r].savedLink = req[r].savedLink
  BY <1>2, <1>3 DEF Record
<1>5. ReadNothing(req'[r].savedLink) /\ \A t \in Tasks : ReadNothing(var'[t].link)
  BY <1>2, <1>4 DEF LinkInv, ReadInv
<1>6. Good(req'[r].in, req'[r].result)
  BY <1>4, GoodRaised
<1> QED
  BY <1>2, <1>3, <1>5, <1>6, LinkStep

LEMMA LinkLeave ==
  ASSUME IInv, LinkInv, NEW r \in Requests,
         LeaveExceptions(r) \/ LeaveProxy(r) \/ LeaveCors(r) \/ LeaveScope(r) \/ LeaveRequestId(r)
  PROVE  LinkInv'
<1>0. PICK t, was : t = req[r].task /\ was = req[r].result
  OBVIOUS
<1>1. /\ Runs(r) /\ req[r].phase = "up" /\ Layers[req[r].pos] # "errors" /\ app' = app
  BY DEF LeaveExceptions, LeaveProxy, LeaveCors, LeaveScope, LeaveRequestId, At
<1>2. /\ Good(req[r].in, was) /\ ReadNothing(req[r].savedLink)
      /\ \A u \in Tasks : ReadNothing(var[u].link)
  BY <1>0, <1>1 DEF LinkInv, ReadInv, ResultInv
<1>3. /\ t \in Tasks
      /\ var \in [Tasks -> [link : Contexts \cup {None}, id : Requests \cup {None}]]
  BY <1>0, <1>1, RunsOnTop, ChangesNothing
<1>4. CASE LeaveProxy(r)
  BY <1>0, <1>1, <1>2, <1>4, LinkBack DEF LeaveProxy
<1>5. CASE LeaveScope(r)
  <2>1. \A u \in Tasks : ReadNothing(var'[u].link)
    BY <1>0, <1>2, <1>3, <1>5 DEF LeaveScope
  <2> QED
    BY <1>0, <1>1, <1>2, <1>5, <2>1, LinkBack DEF LeaveScope
<1>6. CASE LeaveRequestId(r)
  <2>1. \A u \in Tasks : var'[u].link = var[u].link
    BY <1>0, <1>3, <1>6 DEF LeaveRequestId
  <2> QED
    BY <1>0, <1>1, <1>2, <1>6, <2>1, LinkBack DEF LeaveRequestId
<1>7. CASE LeaveCors(r)
  <2> DEFINE new == IF was.kind = "response" THEN [was EXCEPT !.cors = req[r].in.origin] ELSE was
  <2>1. Good(req[r].in, new)
    BY <1>2 DEF Good, IsResponse
  <2>2. Back(r, new) /\ var' = var
    BY <1>0, <1>7 DEF LeaveCors
  <2> HIDE DEF new
  <2> QED
    BY <1>1, <1>2, <2>1, <2>2, LinkBack
<1>8. CASE LeaveExceptions(r)
  <2> DEFINE new ==
        IF was.kind = "raised" /\ HasHandler(was.error)
        THEN [Response(Problem(was.error).status, None) EXCEPT
                !.problem = TRUE, !.cites = Problem(was.error).cites]
        ELSE was
  <2>1. HasHandler(was.error) => Problem(was.error).status # 200
    BY DEF HasHandler, Problem, ValidationProblem
  <2>2. Good(req[r].in, new)
    BY <1>2, <2>1 DEF Good, IsResponse, Response
  <2>3. Back(r, new) /\ var' = var
    BY <1>0, <1>8 DEF LeaveExceptions
  <2> HIDE DEF new
  <2> QED
    BY <1>1, <1>2, <2>2, <2>3, LinkBack
<1> QED
  BY <1>4, <1>5, <1>6, <1>7, <1>8

LEMMA LinkOthers ==
  ASSUME IInv, LinkInv, Startup \/ Shutdown \/ UNCHANGED vars \/ (\E r \in Requests : Respond(r))
                        \/ \E r \in Requests, t \in Tasks : Call(r, t)
  PROVE  LinkInv'
<1>1. app' = app /\ var' = var /\ req = [q \in Requests |-> req[q]]
  BY DEF Startup, Shutdown, vars, Respond, Call, IInv, TypeInv
<1>2. CASE Startup \/ Shutdown \/ UNCHANGED vars
  <2>1. req' = req
    BY <1>2 DEF Startup, Shutdown, vars
  <2> QED
    BY <1>1, <2>1 DEF LinkInv, ReadInv, ReadNothing, ResultInv, Good, Applied
<1>3. ASSUME NEW r \in Requests, Respond(r) PROVE LinkInv'
  <2>1. req[r] \in Record(req[r]) /\ req[r].phase = "up"
    BY <1>3, ChangesNothing DEF Respond, At
  <2>2. PICK new : new = IF req[r].result.kind = "raised" THEN Response(500, None) ELSE req[r].result
    OBVIOUS
  <2>3. Good(req[r].in, new)
    <3>1. Good(req[r].in, req[r].result)
      BY <2>1 DEF LinkInv, ResultInv
    <3>2. Good(req[r].in, Response(500, None))
      BY DEF Good, Response, IsResponse
    <3> QED
      BY <2>2, <3>1, <3>2
  <2>4. /\ \A q \in Requests \ {r} : req'[q] = req[q]
        /\ req'[r] = [req[r] EXCEPT !.phase = "done", !.result = new]
    BY <1>1, <1>3, <2>2 DEF Respond
  <2>5. /\ req'[r].in = req[r].in /\ req'[r].result = new /\ req'[r].savedLink = req[r].savedLink
    BY <2>1, <2>4 DEF Record
  <2> QED
    BY <1>1, <2>3, <2>4, <2>5, LinkStep DEF LinkInv, ReadInv
<1>4. ASSUME NEW r \in Requests, NEW t \in Tasks, Call(r, t) PROVE LinkInv'
  <2>1. PICK in \in Inputs :
          req' = [req EXCEPT ![r] = [@ EXCEPT !.phase = "down", !.task = t, !.in = in,
                                              !.origin = Direct(in)]]
    BY <1>4 DEF Call
  <2>2. req[r] \in Record(req[r])
    BY ChangesNothing
  <2>3. /\ \A q \in Requests \ {r} : req'[q] = req[q]
        /\ req'[r] = [req[r] EXCEPT !.phase = "down", !.task = t, !.in = in, !.origin = Direct(in)]
    BY <1>1, <2>1
  <2>4. req'[r].phase = "down" /\ req'[r].savedLink = req[r].savedLink
    BY <2>2, <2>3 DEF Record
  <2> QED
    BY <1>1, <2>3, <2>4, LinkStep DEF LinkInv, ReadInv
<1> QED
  BY <1>2, <1>3, <1>4

LEMMA InitLinkInv == Init => LinkInv
  BY DEF Init, LinkInv, ReadInv, ReadNothing, ResultInv

LEMMA NextLinkInv == IInv /\ LinkInv /\ [Next]_vars => LinkInv'
<1> SUFFICES ASSUME IInv, LinkInv, [Next]_vars PROVE LinkInv'
  OBVIOUS
<1>1. CASE Startup \/ Shutdown \/ UNCHANGED vars \/ \E r \in Requests, t \in Tasks : Call(r, t)
  BY <1>1, LinkOthers
<1>2. CASE \E r \in Requests : Enter(r)
  BY <1>2, LinkEnter, LinkTurn, LinkFail DEF Enter
<1>3. CASE \E r \in Requests : LeaveLayer(r)
  BY <1>3, LinkLeave, LinkOthers DEF LeaveLayer
<1> QED
  BY <1>1, <1>2, <1>3 DEF Next

(* ProxyHeadersMiddleware: for any requests, of any tasks, whatever they   *)
(* forward, the links of a response have the origin that the policy lets a *)
(* client name, header by header, and the direct one otherwise.            *)
THEOREM LinksAreTheClients == Spec => []LinksNameTheClientsOrigin
<1>1. Init => LinkInv
  BY InitLinkInv
<1>2. IInv /\ LinkInv /\ [Next]_vars => LinkInv'
  BY NextLinkInv
<1>3. ASSUME IInv, LinkInv PROVE LinksNameTheClientsOrigin
  <2>1. SUFFICES ASSUME NEW r \in Requests,
                        req[r].phase \in {"up", "done"}, req[r].in.type = "http",
                        app.recipe = "default", req[r].result.kind = "response",
                        req[r].result.status = 200, ~req[r].in.preflight
                 PROVE  LET in == req[r].in  answer == req[r].result IN
                        /\ answer.link # None
                        /\ \A part \in DOMAIN answer.link :
                             answer.link[part] =
                               IF in[IF part = "scheme" THEN "proto" ELSE part] # << >>
                                  /\ (app.trust \in {"TrustedClient", "all_of"} => in.peer)
                                  /\ (app.trust \in {"SharedSecret", "all_of"} => in.secret)
                                  /\ (app.trust = "any_of" => in.peer \/ in.secret)
                                  /\ app.trust # "trust_none"
                               THEN in[IF part = "scheme" THEN "proto" ELSE part][1]
                               ELSE Direct(in)[part]
    BY DEF LinksNameTheClientsOrigin
  <2>2. req[r].result.link = Applied(req[r].in) /\ req[r].in \in Inputs
    BY <1>3, <2>1 DEF LinkInv, ResultInv, Good, IInv, StackInv
  <2>3. PICK in : in = req[r].in
    OBVIOUS
  <2>4. Applied(in) # None
    BY <2>2, <2>3, NoneAssumption DEF Applied, Origins
  <2>5. Trusts(app.trust, in) <=>
          /\ app.trust \in {"TrustedClient", "all_of"} => in.peer
          /\ app.trust \in {"SharedSecret", "all_of"} => in.secret
          /\ app.trust = "any_of" => in.peer \/ in.secret
          /\ app.trust # "trust_none"
    BY <1>3, AppsAssumption DEF LinkInv, Policies, Trusts
  <2>6. in.type = "http"
    BY <2>1, <2>3
  <2>7. /\ DOMAIN Applied(in) = {"scheme", "host", "prefix"}
        /\ Applied(in).scheme = IF Trusts(app.trust, in) THEN First(in.proto, Direct(in).scheme)
                                                        ELSE Direct(in).scheme
        /\ Applied(in).host = IF Trusts(app.trust, in) THEN First(in.host, Direct(in).host)
                                                      ELSE Direct(in).host
        /\ Applied(in).prefix = IF Trusts(app.trust, in) THEN First(in.prefix, Direct(in).prefix)
                                                        ELSE Direct(in).prefix
    BY <2>6 DEF Applied, Forwarded, Direct
  <2>8. /\ req[r].result.link = Applied(in) /\ in = req[r].in
    BY <2>2, <2>3
  <2>9. ASSUME NEW part \in DOMAIN Applied(in)
        PROVE  Applied(in)[part] =
                 IF /\ in[IF part = "scheme" THEN "proto" ELSE part] # << >>
                    /\ Trusts(app.trust, in)
                 THEN in[IF part = "scheme" THEN "proto" ELSE part][1]
                 ELSE Direct(in)[part]
    <3>1. CASE part = "scheme"
      BY <2>7, <3>1 DEF First
    <3>2. CASE part = "host"
      BY <2>7, <3>2 DEF First
    <3>3. CASE part = "prefix"
      BY <2>7, <3>3 DEF First
    <3> QED
      BY <2>7, <3>1, <3>2, <3>3
  <2> QED
    BY <2>4, <2>5, <2>8, <2>9
<1> QED
  BY <1>1, <1>2, <1>3, Invariant, PTL DEF Spec

-----------------------------------------------------------------------------
(* For the problems: what an endpoint raised is what the exceptions layer  *)
(* sees, and its answer is what the layers around that one hand on.        *)
Answers(e, result) ==
  HasHandler(e) =>
    /\ IsResponse(result) /\ result.kind = "response" /\ result.problem
    /\ result.status = Problem(e).status /\ result.cites = Problem(e).cites

Owed(x) ==
  /\ x.phase \in {"idle", "down"} => x.failed = None
  /\ x.phase = "up" => x.pos < Len(Layers)
  /\ x.failed # None =>
       /\ x.failed \in Errors
       /\ IF x.phase = "up" /\ x.pos = Len(Layers) - 1 THEN x.result = Raised(x.failed)
                                                      ELSE Answers(x.failed, x.result)

OwedInv == \A r \in Requests : Owed(req[r])

LEMMA OwedStep ==
  ASSUME OwedInv, NEW r \in Requests, app' = app, \A q \in Requests \ {r} : req'[q] = req[q],
         Owed(req'[r])
  PROVE  OwedInv'
<1>1. Layers' = Layers
  BY DEF Layers, Added
<1>2. \A q \in Requests : Owed(req'[q])
  BY DEF OwedInv
<1> QED
  BY <1>1, <1>2 DEF OwedInv, Owed

(* A layer on the way in hands on a request that did not fail.             *)
LEMMA OwedDown ==
  ASSUME IInv, OwedInv, NEW r \in Requests, NEW change, Down(r, change), change \in Record(change),
         change.phase = "down", change.failed = None, app' = app
  PROVE  OwedInv'
<1>1. /\ \A q \in Requests \ {r} : req'[q] = req[q]
      /\ req'[r] = [change EXCEPT !.pos = @ + 1]
  BY DEF Down, IInv, TypeInv
<1>2. req'[r].phase = "down" /\ req'[r].failed = None
  BY <1>1 DEF Record
<1> QED
  BY <1>1, <1>2, OwedStep DEF Owed

LEMMA OwedBack ==
  ASSUME IInv, OwedInv, NEW r \in Requests, req[r].phase \in {"down", "up"}, NEW result,
         Back(r, result), req[r].failed # None => Answers(req[r].failed, result), app' = app
  PROVE  OwedInv'
<1>1. /\ \A q \in Requests \ {r} : req'[q] = req[q]
      /\ req'[r] = [req[r] EXCEPT !.phase = "up", !.pos = @ - 1, !.result = result]
  BY DEF Back, IInv, TypeInv
<1>2. /\ req'[r].phase = "up" /\ req'[r].pos = req[r].pos - 1 /\ req'[r].failed = req[r].failed
      /\ req'[r].result = result /\ req[r].pos \in DOMAIN Layers
  BY <1>1, ChangesNothing DEF Record
<1>3. /\ req[r].pos \in 1 .. Len(Layers) /\ Len(Layers) \in Nat
  BY <1>2, LayersDiffer
<1>4. req[r].failed # None => req[r].pos < Len(Layers) /\ req[r].failed \in Errors
  BY DEF OwedInv, Owed
<1>5. req'[r].pos < Len(Layers) /\ (req[r].failed # None => req'[r].pos # Len(Layers) - 1)
  BY <1>2, <1>3, <1>4
<1> QED
  BY <1>1, <1>2, <1>4, <1>5, OwedStep DEF Owed

LEMMA OwedEnter ==
  ASSUME IInv, OwedInv, NEW r \in Requests,
         PassOn(r) \/ EnterProxy(r) \/ EnterRequestId(r) \/ EnterScope(r)
  PROVE  OwedInv'
<1>1. /\ req[r] \in Record(req[r]) /\ app' = app /\ req[r].phase = "down" /\ Runs(r)
  BY ChangesNothing DEF PassOn, EnterProxy, EnterRequestId, EnterScope, At
<1>2. req[r].failed = None /\ req[r].task \in Tasks
  BY <1>1, RunsOnTop DEF OwedInv, Owed
<1>3. PICK id, link : id = var[req[r].task].id /\ link = var[req[r].task].link
  OBVIOUS
<1>4. id \in Requests \cup {None} /\ link \in Contexts \cup {None}
  BY <1>2, <1>3, ChangesNothing
<1>5. CASE EnterProxy(r)
  <2> DEFINE change == [req[r] EXCEPT !.origin = Forwarded(req[r].in, @)]
  <2>1. At(r, "down", "proxy") /\ Down(r, change)
    BY <1>5 DEF EnterProxy
  <2>2. req[r].in \in Inputs /\ req[r].origin = Direct(req[r].in)
    BY <2>1, RunsOnTop, OriginAtProxy DEF At
  <2>3. change \in Record(change) /\ change.phase = "down" /\ change.failed = None
    BY <1>1, <1>2, <2>2 DEF Record, Origins
  <2> HIDE DEF change
  <2> QED
    BY <1>1, <2>1, <2>3, OwedDown
<1>6. CASE Down(r, req[r])
  BY <1>1, <1>2, <1>6, OwedDown
<1>7. CASE Down(r, [req[r] EXCEPT !.savedId = id])
  <2> DEFINE change == [req[r] EXCEPT !.savedId = id]
  <2>1. change \in Record(change) /\ change.phase = "down" /\ change.failed = None
    BY <1>1, <1>2, <1>4 DEF Record
  <2> HIDE DEF change
  <2> QED
    BY <1>1, <1>7, <2>1, OwedDown DEF change
<1>8. CASE Down(r, [req[r] EXCEPT !.savedLink = link])
  <2> DEFINE change == [req[r] EXCEPT !.savedLink = link]
  <2>1. change \in Record(change) /\ change.phase = "down" /\ change.failed = None
    BY <1>1, <1>2, <1>4 DEF Record
  <2> HIDE DEF change
  <2> QED
    BY <1>1, <1>8, <2>1, OwedDown DEF change
<1> QED
  BY <1>3, <1>5, <1>6, <1>7, <1>8 DEF PassOn, EnterRequestId, EnterScope

LEMMA OwedTurn ==
  ASSUME IInv, OwedInv, NEW r \in Requests, Preflight(r) \/ EnterScopeRaises(r) \/ Answer(r)
  PROVE  OwedInv'
<1>1. app' = app /\ req[r].phase = "down" /\ \E result : Back(r, result)
  BY DEF Preflight, EnterScopeRaises, Answer, At
<1>2. req[r].failed = None
  BY <1>1 DEF OwedInv, Owed
<1> QED
  BY <1>1, <1>2, OwedBack

LEMMA OwedFail ==
  ASSUME IInv, OwedInv, NEW r \in Requests, Fail(r) PROVE OwedInv'
<1>1. PICK e \in Errors :
        req' = [req EXCEPT ![r].phase = "up", ![r].pos = @ - 1, ![r].failed = e,
                           ![r].result = Raised(e)]
  BY DEF Fail
<1>2. app' = app /\ req[r] \in Record(req[r]) /\ req = [q \in Requests |-> req[q]]
  BY DEF Fail, IInv, TypeInv
<1>3. /\ \A q \in Requests \ {r} : req'[q] = req[q]
      /\ req'[r] = [req[r] EXCEPT !.phase = "up", !.pos = @ - 1, !.failed = e, !.result = Raised(e)]
  BY <1>1, <1>2
<1>4. /\ req'[r].phase = "up" /\ req'[r].pos = req[r].pos - 1 /\ req'[r].failed = e
      /\ req'[r].result = Raised(e) /\ req[r].pos \in DOMAIN Layers
  BY <1>2, <1>3 DEF Record
<1>5. req[r].pos = Len(Layers) /\ Len(Layers) \in Nat
  BY <1>4, LayersDiffer DEF Fail, At
<1>6. Owed(req'[r])
  BY <1>4, <1>5 DEF Owed
<1> QED
  BY <1>2, <1>3, <1>6, OwedStep

(* At the exceptions layer the error is there; around it, its answer.      *)
LEMMA OwedLeave ==
  ASSUME IInv, OwedInv, NEW r \in Requests,
         LeaveExceptions(r) \/ LeaveProxy(r) \/ LeaveCors(r) \/ LeaveScope(r) \/ LeaveRequestId(r)
  PROVE  OwedInv'
<1>0. PICK was, e : was = req[r].result /\ e = req[r].failed
  OBVIOUS
<1>1. req[r].phase = "up" /\ app' = app /\ req[r].pos \in DOMAIN Layers
  BY ChangesNothing DEF LeaveExceptions, LeaveProxy, LeaveCors, LeaveScope, LeaveRequestId, At, Record
<1>2. e # None =>
        IF Layers[req[r].pos] = "exceptions" THEN was = Raised(e) ELSE Answers(e, was)
  <2>1. PICK p, m : p = req[r].pos /\ m = Len(Layers)
    OBVIOUS
  <2>2. p \in DOMAIN Layers /\ m \in Nat /\ m > 4 /\ DOMAIN Layers = 1 .. m
    BY <1>1, <2>1, LayersDiffer
  <2>3. Layers[m - 1] = "exceptions" /\ m - 1 \in DOMAIN Layers
    BY <2>1, <2>2, LayersDiffer
  <2>4. Layers[p] = "exceptions" <=> p = m - 1
    BY <2>2, <2>3, LayersDiffer
  <2> QED
    BY <1>0, <1>1, <2>1, <2>4 DEF OwedInv, Owed
<1>3. CASE LeaveProxy(r) \/ LeaveScope(r) \/ LeaveRequestId(r)
  BY <1>0, <1>1, <1>2, <1>3, OwedBack DEF LeaveProxy, LeaveScope, LeaveRequestId, At
<1>4. CASE LeaveCors(r)
  <2> DEFINE new == IF was.kind = "response" THEN [was EXCEPT !.cors = req[r].in.origin] ELSE was
  <2>1. e # None => Answers(e, new)
    <3>1. e # None => Answers(e, was)
      BY <1>2, <1>4 DEF LeaveCors, At
    <3> QED
      BY <3>1 DEF Answers, IsResponse
  <2>2. Back(r, new)
    BY <1>0, <1>4 DEF LeaveCors
  <2> HIDE DEF new
  <2> QED
    BY <1>0, <1>1, <2>1, <2>2, OwedBack
<1>5. CASE LeaveExceptions(r)
  <2> DEFINE new ==
        IF was.kind = "raised" /\ HasHandler(was.error)
        THEN [Response(Problem(was.error).status, None) EXCEPT
                !.problem = TRUE, !.cites = Problem(was.error).cites]
        ELSE was
  <2>1. e # None => was = Raised(e)
    BY <1>2, <1>5 DEF LeaveExceptions, At
  <2>2. e # None => Answers(e, new)
    <3>1. SUFFICES ASSUME e # None, HasHandler(e) PROVE Answers(e, new)
      BY DEF Answers
    <3>2. PICK status, cites : status = Problem(e).status /\ cites = Problem(e).cites
      OBVIOUS
    <3>3. new = [kind |-> "response", status |-> status, problem |-> TRUE, cites |-> cites,
                 cors |-> FALSE, link |-> None]
      <4>1. was.kind = "raised" /\ was.error = e
        BY <2>1, <3>1 DEF Raised
      <4>2. new = [Response(status, None) EXCEPT !.problem = TRUE, !.cites = cites]
        BY <3>1, <3>2, <4>1, Zenon
      <4> HIDE DEF new
      <4> QED
        BY <4>2 DEF Response
    <3> HIDE DEF new
    <3> QED
      BY <3>2, <3>3 DEF Answers, IsResponse
  <2>3. Back(r, new)
    BY <1>0, <1>5 DEF LeaveExceptions
  <2> HIDE DEF new
  <2> QED
    BY <1>0, <1>1, <2>2, <2>3, OwedBack
<1> QED
  BY <1>3, <1>4, <1>5

LEMMA OwedOthers ==
  ASSUME IInv, OwedInv, Startup \/ Shutdown \/ UNCHANGED vars \/ (\E r \in Requests : Respond(r))
                        \/ \E r \in Requests, t \in Tasks : Call(r, t)
  PROVE  OwedInv'
<1>1. app' = app /\ req = [q \in Requests |-> req[q]] /\ Layers' = Layers
  BY DEF Startup, Shutdown, vars, Respond, Call, IInv, TypeInv, Layers, Added
<1>2. CASE Startup \/ Shutdown \/ UNCHANGED vars
  <2>1. req' = req
    BY <1>2 DEF Startup, Shutdown, vars
  <2> QED
    BY <1>1, <2>1 DEF OwedInv, Owed
<1>3. ASSUME NEW r \in Requests, Respond(r) PROVE OwedInv'
  <2>1. /\ req[r] \in Record(req[r]) /\ req[r].phase = "up" /\ Layers[req[r].pos] = "errors"
    BY <1>3, ChangesNothing DEF Respond, At
  <2>2. PICK was, new :
          was = req[r].result /\ new = IF was.kind = "raised" THEN Response(500, None) ELSE was
    OBVIOUS
  <2>3. /\ \A q \in Requests \ {r} : req'[q] = req[q]
        /\ req'[r] = [req[r] EXCEPT !.phase = "done", !.result = new]
    BY <1>1, <1>3, <2>2 DEF Respond
  <2>4. req'[r].phase = "done" /\ req'[r].failed = req[r].failed /\ req'[r].result = new
    BY <2>1, <2>3 DEF Record
  <2>5. req[r].pos # Len(Layers) - 1
    BY <2>1, LayersDiffer
  <2>6. req[r].failed # None => req[r].failed \in Errors /\ Answers(req[r].failed, was)
    BY <2>1, <2>2, <2>5 DEF OwedInv, Owed
  <2>7. req[r].failed # None => Answers(req[r].failed, new)
    BY <2>2, <2>6 DEF Answers
  <2> QED
    BY <1>1, <2>3, <2>4, <2>6, <2>7, OwedStep DEF Owed
<1>4. ASSUME NEW r \in Requests, NEW t \in Tasks, Call(r, t) PROVE OwedInv'
  <2>1. PICK in \in Inputs :
          req' = [req EXCEPT ![r] = [@ EXCEPT !.phase = "down", !.task = t, !.in = in,
                                              !.origin = Direct(in)]]
    BY <1>4 DEF Call
  <2>2. req[r] \in Record(req[r]) /\ req[r].failed = None
    BY <1>4, ChangesNothing DEF Call, OwedInv, Owed
  <2>3. /\ \A q \in Requests \ {r} : req'[q] = req[q]
        /\ req'[r] = [req[r] EXCEPT !.phase = "down", !.task = t, !.in = in, !.origin = Direct(in)]
    BY <1>1, <2>1
  <2>4. req'[r].phase = "down" /\ req'[r].failed = None
    BY <2>2, <2>3 DEF Record
  <2> QED
    BY <1>1, <2>3, <2>4, OwedStep DEF Owed
<1> QED
  BY <1>2, <1>3, <1>4

(* What the handler of validation errors answers.                          *)
LEMMA ValidationAnswer ==
  ASSUME NEW e \in Errors, e.class = "RequestValidationError"
  PROVE  /\ (Problem(e).status = 422)
              <=> (\A p \in e.places : p[1] \in {"body", "path", "header", "cookie"})
         /\ \A p \in e.places :
              p[1] = "query" /\ Len(p) > 1 => Problem(e).status = 400 /\ p[2] \in Problem(e).cites
         /\ \A c \in Problem(e).cites :
              \E p \in e.places : Len(p) > 1 /\ p[1] = "query" /\ p[2] = c
<1> DEFINE query == {q \in e.places : q[1] = "query"}
<1>1. /\ Problem(e).status = IF query # {} THEN 400 ELSE 422
      /\ Problem(e).cites = {q[2] : q \in {p \in query : Len(p) > 1}}
  BY DEF Problem, ValidationProblem
<1>2. \A p \in e.places : p[1] \in {"query", "body", "path", "header", "cookie"}
  BY ErrorsAssumption
<1> QED
  BY <1>1, <1>2

(* What the answer to an error has to say.                                 *)
Told(e, answer) ==
  /\ answer.kind = "response" /\ answer.problem
  /\ e.class = "RequestValidationError" =>
       /\ (answer.status = 422) <=> (\A p \in e.places : p[1] \in {"body", "path", "header", "cookie"})
       /\ \A p \in e.places :
            p[1] = "query" /\ Len(p) > 1 => answer.status = 400 /\ p[2] \in answer.cites
       /\ \A c \in answer.cites : \E p \in e.places : Len(p) > 1 /\ p[1] = "query" /\ p[2] = c
  /\ e.class = "ParamError" => answer.status = 400 /\ answer.cites = {e.parameter}

(* gazebo.problems: whatever an endpoint raises as a client's mistake, the *)
(* client gets the problem of that error, through any layers around it.    *)
THEOREM MistakesAreAnswered == Spec => []MistakesBecomeProblems
<1>1. Init => OwedInv
  BY DEF Init, OwedInv, Owed
<1>2. ASSUME IInv, OwedInv, [Next]_vars PROVE OwedInv'
  <2>1. CASE Startup \/ Shutdown \/ UNCHANGED vars \/ \E r \in Requests, t \in Tasks : Call(r, t)
    BY <1>2, <2>1, OwedOthers
  <2>2. CASE \E r \in Requests : Enter(r)
    BY <1>2, <2>2, OwedEnter, OwedTurn, OwedFail DEF Enter
  <2>3. CASE \E r \in Requests : LeaveLayer(r)
    BY <1>2, <2>3, OwedLeave, OwedOthers DEF LeaveLayer
  <2> QED
    BY <1>2, <2>1, <2>2, <2>3 DEF Next
<1>3. ASSUME OwedInv PROVE MistakesBecomeProblems
  <2>1. SUFFICES ASSUME NEW r \in Requests, NEW e, e = req[r].failed, NEW answer,
                        answer = req[r].result, req[r].phase = "done",
                        e # None, e.class # "TypeError"
                 PROVE  Told(e, answer)
    <3>1. \A r \in Requests :
            req[r].phase = "done" /\ req[r].failed # None /\ req[r].failed.class # "TypeError"
              => Told(req[r].failed, req[r].result)
      BY <2>1
    <3> QED
      BY <3>1 DEF MistakesBecomeProblems, Told
  <2>2. e \in Errors /\ Answers(e, answer)
    BY <1>3, <2>1 DEF OwedInv, Owed
  <2>3. HasHandler(e)
    BY <2>1, <2>2, ErrorsAssumption DEF HasHandler
  <2>4. /\ answer.kind = "response" /\ answer.problem
        /\ answer.status = Problem(e).status /\ answer.cites = Problem(e).cites
    BY <2>2, <2>3 DEF Answers
  <2>5. e.class = "ParamError" => Problem(e).status = 400 /\ Problem(e).cites = {e.parameter}
    BY DEF Problem
  <2> QED
    BY <2>2, <2>4, <2>5, ValidationAnswer DEF Told
<1> QED
  BY <1>1, <1>2, <1>3, Invariant, PTL DEF Spec
=============================================================================
