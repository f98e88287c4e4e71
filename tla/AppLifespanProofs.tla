-------------------------- MODULE AppLifespanProofs --------------------------
(***************************************************************************)
(* Proofs about AppLifespan, for any number of sub-apps, requests, probes  *)
(* and restarts.                                                           *)
(***************************************************************************)
EXTENDS AppLifespan, SequenceTheorems, TLAPS

Lives == {"opening", "open", "closing", "closed"}
ScopeRecords == [app : App, life : Lives]

(* What the lifespan of an app has made of its scope. *)
LifeOf(p) ==
  CASE p = "opening" -> "opening"
    [] p = "closing" -> "closing"
    [] p \in {"entering", "up", "leaving"} -> "open"
    [] p = "down" -> "closed"

(* The one scope of an app that is not closed is its latest. *)
Current(i, n) ==
  /\ n \in DOMAIN scopes /\ scopes[n].app = i /\ scopes[n].life # "closed"
  /\ \A m \in DOMAIN scopes : scopes[m].app = i /\ m # n => scopes[m].life = "closed" /\ m < n

ScopeInv ==
  \A i \in App :
    /\ phase[i] = "down" =>
         \A n \in DOMAIN scopes : scopes[n].app = i => scopes[n].life = "closed"
    /\ phase[i] # "down" =>
         Current(i, ScopeOf(i)) /\ scopes[ScopeOf(i)].life = LifeOf(phase[i])

RuntimeInv ==
  \A i \in App :
    runtime[i] = IF phase[i] \in {"entering", "up", "leaving"} THEN ScopeOf(i) ELSE 0

(* Where the lifespans can be, by what the server is doing. *)
ServerInv ==
  /\ server = "down" => \A i \in App : phase[i] = "down"
  /\ server = "serving" => \A i \in App : phase[i] = "up"
  /\ \A i \in App : phase[i] \in {"opening", "entering"} => server = "starting"
  /\ \A i \in App : phase[i] \in {"leaving", "closing"} => server = "stopping"

(* A polite server has requests under way only while it serves. *)
PoliteInv ==
  polite => \A r \in Requests : InFlight(r) =>
    server = "serving" /\ parent[r] = runtime[target[r]]

AnswerInv ==
  \A r \in Requests :
    /\ answer[r] # "none" => step[r] \in {"closing", "done"}
    /\ polite /\ answer[r] = "healthy" =>
         DOMAIN probed[r] = Probes /\ \A p \in Probes : probed[r][p] = "ok"

LifespanInv == ScopeInv /\ RuntimeInv /\ ServerInv /\ LaterAppsLeaveFirst
IInv == TypeOK /\ LifespanInv /\ PoliteInv /\ AnswerInv

-----------------------------------------------------------------------------
(* A scope that is current is the one that ScopeOf chooses. *)
LEMMA ScopeOfCurrent ==
  ASSUME NEW i \in App, NEW n, Current(i, n)
  PROVE  ScopeOf(i) = n
  BY DEF Current, ScopeOf

(* A step of the lifespan of app i that changes the life of its scope      *)
(* leaves that scope the current one, or none, and the others as they are. *)
LEMMA LifeStep ==
  ASSUME TypeOK, ScopeInv, NEW i \in App, phase[i] # "down",
         NEW p \in Phases, NEW l \in Lives, l = LifeOf(p),
         phase' = [phase EXCEPT ![i] = p],
         scopes' = [scopes EXCEPT ![ScopeOf(i)].life = l]
  PROVE  /\ ScopeInv'
         /\ scopes' \in Seq(ScopeRecords) /\ Len(scopes') = Len(scopes)
         /\ ScopeOf(i) \in DOMAIN scopes
         /\ p # "down" => ScopeOf(i)' = ScopeOf(i)
         /\ \A j \in App : j # i /\ phase[j] # "down" => ScopeOf(j)' = ScopeOf(j)
<1> DEFINE n == ScopeOf(i)
<1>1. Current(i, n)
  BY DEF ScopeInv
<1>2. /\ scopes' \in Seq(ScopeRecords) /\ Len(scopes') = Len(scopes)
      /\ DOMAIN scopes' = DOMAIN scopes /\ n \in DOMAIN scopes
      /\ scopes'[n].app = i /\ scopes'[n].life = l
      /\ \A m \in DOMAIN scopes : m # n => scopes'[m] = scopes[m]
      /\ phase'[i] = p /\ \A j \in App : j # i => phase'[j] = phase[j]
  <2>1. n \in DOMAIN scopes /\ scopes[n].app = i /\ scopes \in Seq(ScopeRecords)
    BY <1>1 DEF TypeOK, Current, ScopeRecords, Lives
  <2>2. scopes[n] \in ScopeRecords
    BY <2>1
  <2>3. scopes' = [scopes EXCEPT ![n].life = l]
    OBVIOUS
  <2> HIDE DEF n
  <2>4. [scopes[n] EXCEPT !.life = l] = [app |-> i, life |-> l]
    BY <2>1, <2>2 DEF ScopeRecords
  <2>5. scopes' = [scopes EXCEPT ![n] = [app |-> i, life |-> l]]
    BY <2>1, <2>3, <2>4
  <2>6. [app |-> i, life |-> l] \in ScopeRecords
    BY DEF ScopeRecords
  <2>7. /\ scopes' \in Seq(ScopeRecords) /\ Len(scopes') = Len(scopes)
        /\ DOMAIN scopes' = DOMAIN scopes
    <3> DEFINE e == [app |-> i, life |-> l]
    <3>1. n \in 1 .. Len(scopes)
      BY <2>1, LenProperties
    <3> HIDE DEF e
    <3>2. [scopes EXCEPT ![n] = e] \in Seq(ScopeRecords) /\ Len([scopes EXCEPT ![n] = e]) = Len(scopes)
      BY <2>1, <2>6, <3>1, ExceptSeq DEF e
    <3>3. scopes' \in Seq(ScopeRecords) /\ Len(scopes') = Len(scopes)
      BY <2>5, <3>2 DEF e
    <3> QED
      BY <2>1, <3>3, LenProperties
  <2>8. scopes'[n] = [app |-> i, life |-> l] /\ \A m \in DOMAIN scopes : m # n => scopes'[m] = scopes[m]
    BY <2>1, <2>5
  <2>9. phase'[i] = p /\ \A j \in App : j # i => phase'[j] = phase[j]
    <3>1. phase \in [App -> Phases]
      BY DEF TypeOK
    <3> QED
      BY <3>1
  <2> QED
    BY <2>1, <2>7, <2>8, <2>9
<1>3. ASSUME NEW j \in App, j # i, phase[j] # "down"
      PROVE  /\ Current(j, ScopeOf(j))' /\ ScopeOf(j)' = ScopeOf(j)
             /\ scopes'[ScopeOf(j)] = scopes[ScopeOf(j)]
  <2> DEFINE k == ScopeOf(j)
  <2>1. Current(j, k) /\ k # n
    BY <1>1, <1>3 DEF ScopeInv, Current
  <2> HIDE DEF k, n
  <2>2. /\ k \in DOMAIN scopes' /\ scopes'[k] = scopes[k]
        /\ \A m \in DOMAIN scopes' : scopes'[m].app = j /\ m # k
             => scopes'[m].life = "closed" /\ m < k
    BY <1>2, <1>3, <2>1 DEF Current
  <2>3. \A m : (/\ m \in DOMAIN scopes' /\ scopes'[m].app = j /\ scopes'[m].life # "closed") <=> m = k
    BY <1>2, <1>3, <2>1, <2>2 DEF Current
  <2>4. ScopeOf(j)' = k
    BY <2>3 DEF ScopeOf
  <2> QED
    BY <2>1, <2>2, <2>4 DEF Current, k
<1>4. ASSUME p # "down"
      PROVE  Current(i, ScopeOf(i))' /\ ScopeOf(i)' = n /\ scopes'[n].life = l
  <2> HIDE DEF n
  <2>1. l # "closed"
    BY <1>4 DEF LifeOf, Phases
  <2>2. \A m \in DOMAIN scopes' : scopes'[m].app = i /\ m # n
          => scopes'[m].life = "closed" /\ m < n
    BY <1>1, <1>2 DEF Current
  <2>3. \A m : (/\ m \in DOMAIN scopes' /\ scopes'[m].app = i /\ scopes'[m].life # "closed") <=> m = n
    BY <1>1, <1>2, <2>1, <2>2 DEF Current
  <2>4. ScopeOf(i)' = n
    BY <2>3 DEF ScopeOf
  <2> QED
    BY <1>1, <1>2, <2>1, <2>2, <2>4 DEF Current
<1>5. ASSUME p = "down", NEW m \in DOMAIN scopes', scopes'[m].app = i
      PROVE  scopes'[m].life = "closed"
  <2>1. l = "closed"
    BY <1>5 DEF LifeOf
  <2> HIDE DEF n
  <2> QED
    BY <1>1, <1>2, <1>5, <2>1 DEF Current
<1>6. ScopeInv'
  <2> SUFFICES ASSUME NEW j \in App
               PROVE /\ phase'[j] = "down" =>
                          \A m \in DOMAIN scopes' : scopes'[m].app = j => scopes'[m].life = "closed"
                     /\ phase'[j] # "down" =>
                          Current(j, ScopeOf(j))' /\ scopes'[ScopeOf(j)'].life = LifeOf(phase'[j])
    BY DEF ScopeInv
  <2>1. CASE j = i
    BY <1>2, <1>4, <1>5, <2>1
  <2>2. CASE j # i /\ phase[j] # "down"
    BY <1>2, <1>3, <2>2 DEF ScopeInv
  <2>3. CASE j # i /\ phase[j] = "down"
    <3> HIDE DEF n
    <3> QED
      BY <1>1, <1>2, <2>3 DEF ScopeInv, Current
  <2> QED
    BY <2>1, <2>2, <2>3
<1> QED
  BY <1>2, <1>3, <1>4, <1>6

(* A step that moves app i on while its scope lives as before. *)
LEMMA PhaseStep ==
  ASSUME TypeOK, ScopeInv, NEW i \in App, NEW p \in Phases,
         phase[i] # "down", p # "down", LifeOf(p) = LifeOf(phase[i]),
         phase' = [phase EXCEPT ![i] = p], scopes' = scopes
  PROVE  ScopeInv' /\ \A j \in App : ScopeOf(j)' = ScopeOf(j)
<1>1. phase'[i] = p /\ \A j \in App : j # i => phase'[j] = phase[j]
  <2>1. phase \in [App -> Phases]
    BY DEF TypeOK
  <2> QED
    BY <2>1
<1>2. \A j \in App : ScopeOf(j)' = ScopeOf(j)
  BY DEF ScopeOf
<1>3. ASSUME NEW j \in App, Current(j, ScopeOf(j)) PROVE Current(j, ScopeOf(j))'
  BY <1>2, <1>3 DEF Current
<1> QED
  BY <1>1, <1>2, <1>3 DEF ScopeInv

(* A scope that is opened becomes the current one of its app. *)
LEMMA OpenStep ==
  ASSUME TypeOK, ScopeInv, NEW i \in App, phase[i] = "down",
         phase' = [phase EXCEPT ![i] = "opening"],
         scopes' = Append(scopes, [app |-> i, life |-> "opening"])
  PROVE  /\ ScopeInv'
         /\ scopes' \in Seq(ScopeRecords) /\ Len(scopes') = Len(scopes) + 1
         /\ \A j \in App : phase[j] # "down" => ScopeOf(j)' = ScopeOf(j)
<1> DEFINE k == Len(scopes) + 1
<1>1. scopes \in Seq(ScopeRecords) /\ phase \in [App -> Phases]
  BY DEF TypeOK, ScopeRecords, Lives
<1>2. /\ scopes' \in Seq(ScopeRecords) /\ Len(scopes') = k /\ DOMAIN scopes' = 1 .. k
      /\ DOMAIN scopes = 1 .. Len(scopes) /\ Len(scopes) \in Nat
      /\ \A m \in DOMAIN scopes : scopes'[m] = scopes[m]
      /\ scopes'[k] = [app |-> i, life |-> "opening"]
  <2>1. [app |-> i, life |-> "opening"] \in ScopeRecords
    BY DEF ScopeRecords, Lives
  <2> QED
    BY <1>1, <2>1, AppendProperties, LenProperties
<1>3. phase'[i] = "opening" /\ \A j \in App : j # i => phase'[j] = phase[j]
  BY <1>1
<1> HIDE DEF k
<1>4. k = Len(scopes) + 1
  BY DEF k
<1>5. Current(i, ScopeOf(i))' /\ ScopeOf(i)' = k
  <2>1. \A m \in DOMAIN scopes' : scopes'[m].app = i /\ m # k
          => scopes'[m].life = "closed" /\ m < k
    BY <1>2, <1>4 DEF ScopeInv
  <2>2. k \in DOMAIN scopes' /\ scopes'[k].app = i /\ scopes'[k].life # "closed"
    BY <1>2, <1>4
  <2>3. \A m : (/\ m \in DOMAIN scopes' /\ scopes'[m].app = i /\ scopes'[m].life # "closed") <=> m = k
    BY <2>1, <2>2
  <2>4. ScopeOf(i)' = k
    BY <2>3 DEF ScopeOf
  <2> QED
    BY <2>1, <2>2, <2>4 DEF Current
<1>6. ASSUME NEW j \in App, phase[j] # "down"
      PROVE  /\ Current(j, ScopeOf(j))' /\ ScopeOf(j)' = ScopeOf(j)
             /\ scopes'[ScopeOf(j)] = scopes[ScopeOf(j)]
  <2> DEFINE n == ScopeOf(j)
  <2>1. Current(j, n) /\ j # i
    BY <1>6 DEF ScopeInv
  <2> HIDE DEF n
  <2>2. /\ n \in DOMAIN scopes' /\ scopes'[n] = scopes[n]
        /\ \A m \in DOMAIN scopes' : scopes'[m].app = j /\ m # n
             => scopes'[m].life = "closed" /\ m < n
    BY <1>2, <1>4, <2>1 DEF Current
  <2>3. \A m : (/\ m \in DOMAIN scopes' /\ scopes'[m].app = j /\ scopes'[m].life # "closed") <=> m = n
    BY <2>1, <2>2 DEF Current
  <2>4. ScopeOf(j)' = n
    BY <2>3 DEF ScopeOf
  <2> QED
    BY <2>1, <2>2, <2>4 DEF Current, n
<1>7. ScopeInv'
  <2> SUFFICES ASSUME NEW j \in App
               PROVE /\ phase'[j] = "down" =>
                          \A m \in DOMAIN scopes' : scopes'[m].app = j => scopes'[m].life = "closed"
                     /\ phase'[j] # "down" =>
                          Current(j, ScopeOf(j))' /\ scopes'[ScopeOf(j)'].life = LifeOf(phase'[j])
    BY DEF ScopeInv
  <2>1. CASE j = i
    BY <1>2, <1>3, <1>5, <2>1 DEF LifeOf
  <2>2. CASE j # i /\ phase[j] # "down"
    BY <1>3, <1>6, <2>2 DEF ScopeInv
  <2>3. CASE j # i /\ phase[j] = "down"
    BY <1>2, <1>3, <1>4, <2>3 DEF ScopeInv
  <2> QED
    BY <2>1, <2>2, <2>3
<1> QED
  BY <1>2, <1>4, <1>6, <1>7

-----------------------------------------------------------------------------
Inv == TypeOK /\ LifespanInv

(* It holds before the server is started. *)
LEMMA InitInv == Init => IInv
<1> SUFFICES ASSUME Init PROVE IInv
  OBVIOUS
<1>1. TypeOK
  BY SizesAssumption DEF Init, TypeOK, App, Phases, Steps
<1>2. LifespanInv
  BY DEF Init, LifespanInv, ScopeInv, RuntimeInv, ServerInv, LaterAppsLeaveFirst
<1>3. PoliteInv /\ AnswerInv
  BY DEF Init, PoliteInv, AnswerInv, InFlight
<1> QED
  BY <1>1, <1>2, <1>3 DEF IInv

(* The server's own steps. *)
LEMMA ServerStep ==
  ASSUME Inv, Start \/ Serve \/ Shutdown \/ Stopped
  PROVE  Inv'
<1>1. UNCHANGED <<phase, scopes, runtime, requestVars, polite>>
  BY DEF Start, Serve, Shutdown, Stopped
<1>2. \A j \in App : ScopeOf(j)' = ScopeOf(j)
  BY <1>1 DEF ScopeOf
<1>3. TypeOK'
  BY <1>1, SizesAssumption DEF Inv, TypeOK, Start, Serve, Shutdown, Stopped, requestVars
<1>4. ScopeInv' /\ RuntimeInv' /\ LaterAppsLeaveFirst'
  BY <1>1, <1>2 DEF Inv, LifespanInv, ScopeInv, RuntimeInv, LaterAppsLeaveFirst, Current
<1>5. ServerInv'
  BY <1>1 DEF Inv, LifespanInv, ServerInv, Start, Serve, Shutdown, Stopped
<1> QED
  BY <1>3, <1>4, <1>5 DEF Inv, LifespanInv

(* On the way up. *)
LEMMA UpStep ==
  ASSUME Inv, NEW i \in App,
         RoutesInvalid(i) \/ OpenScope(i) \/ ScopeOpens(i) \/ InnerStarts(i)
  PROVE  Inv'
<1> USE DEF Inv, LifespanInv
<1>0. /\ phase \in [App -> Phases] /\ scopes \in Seq(ScopeRecords) /\ App \subseteq Int
      /\ Len(scopes) \in Nat /\ DOMAIN scopes = 1 .. Len(scopes)
      /\ runtime \in [App -> 0 .. Len(scopes)] /\ parent \in [Requests -> 0 .. Len(scopes)]
  BY SizesAssumption DEF TypeOK, ScopeRecords, Lives, App
<1>1. CASE RoutesInvalid(i)
  <2>1. /\ UNCHANGED <<phase, scopes, runtime, requestVars, polite, starts>>
        /\ server = "starting" /\ server' = "stopping"
        /\ phase[i] = "down" /\ \A j \in App : j < i => phase[j] = "up"
    BY <1>0, <1>1 DEF RoutesInvalid, Turn, App
  <2>2. \A j \in App : ScopeOf(j)' = ScopeOf(j)
    BY <2>1 DEF ScopeOf
  <2>3. TypeOK'
    BY <2>1 DEF TypeOK, requestVars
  <2>4. ScopeInv' /\ RuntimeInv' /\ LaterAppsLeaveFirst'
    BY <2>1, <2>2 DEF ScopeInv, RuntimeInv, LaterAppsLeaveFirst, Current
  <2>5. \A j \in App : phase[j] \in {"up", "down"}
    BY <1>0, <2>1 DEF LaterAppsLeaveFirst, App
  <2>6. ServerInv'
    BY <2>1, <2>5 DEF ServerInv
  <2> QED
    BY <2>3, <2>4, <2>6
<1>2. CASE OpenScope(i)
  <2>1. /\ UNCHANGED <<runtime, requestVars, polite, starts, server>>
        /\ server = "starting" /\ phase[i] = "down" /\ \A j \in App : j < i => phase[j] = "up"
        /\ phase' = [phase EXCEPT ![i] = "opening"]
        /\ scopes' = Append(scopes, [app |-> i, life |-> "opening"])
    BY <1>0, <1>2 DEF OpenScope, Turn, App
  <2>2. /\ ScopeInv'
        /\ scopes' \in Seq(ScopeRecords) /\ Len(scopes') = Len(scopes) + 1
        /\ \A j \in App : phase[j] # "down" => ScopeOf(j)' = ScopeOf(j)
    BY <2>1, OpenStep
  <2>3. phase' \in [App -> Phases] /\ phase'[i] = "opening"
        /\ \A j \in App : j # i => phase'[j] = phase[j]
    BY <1>0, <2>1 DEF Phases
  <2>4. runtime' \in [App -> 0 .. Len(scopes')] /\ parent' \in [Requests -> 0 .. Len(scopes')]
    BY <1>0, <2>1, <2>2 DEF requestVars
  <2>5. TypeOK'
    BY <2>1, <2>2, <2>3, <2>4 DEF TypeOK, requestVars, ScopeRecords, Lives
  <2>6. RuntimeInv'
    BY <2>1, <2>2, <2>3 DEF RuntimeInv
  <2>7. LaterAppsLeaveFirst'
    BY <1>0, <2>1, <2>3 DEF LaterAppsLeaveFirst
  <2>8. ServerInv'
    BY <2>1, <2>3 DEF ServerInv
  <2> QED
    BY <2>2, <2>5, <2>6, <2>7, <2>8
<1>3. CASE ScopeOpens(i)
  <2>1. /\ UNCHANGED <<requestVars, polite, starts, server>>
        /\ phase[i] = "opening" /\ phase' = [phase EXCEPT ![i] = "entering"]
        /\ scopes' = [scopes EXCEPT ![ScopeOf(i)].life = "open"]
        /\ runtime' = [runtime EXCEPT ![i] = ScopeOf(i)]
    BY <1>3 DEF ScopeOpens
  <2>2. "open" = LifeOf("entering") /\ "entering" \in Phases /\ "open" \in Lives /\ phase[i] # "down"
    BY <2>1 DEF LifeOf, Phases, Lives
  <2>3. /\ ScopeInv'
        /\ scopes' \in Seq(ScopeRecords) /\ Len(scopes') = Len(scopes)
        /\ ScopeOf(i) \in DOMAIN scopes /\ ScopeOf(i)' = ScopeOf(i)
        /\ \A j \in App : j # i /\ phase[j] # "down" => ScopeOf(j)' = ScopeOf(j)
    BY <2>1, <2>2, LifeStep
  <2>4. phase' \in [App -> Phases] /\ phase'[i] = "entering"
        /\ \A j \in App : j # i => phase'[j] = phase[j]
    BY <1>0, <2>1, <2>2
  <2>5. /\ runtime' \in [App -> 0 .. Len(scopes')] /\ parent' \in [Requests -> 0 .. Len(scopes')]
        /\ runtime'[i] = ScopeOf(i) /\ \A j \in App : j # i => runtime'[j] = runtime[j]
    BY <1>0, <2>1, <2>3 DEF requestVars
  <2>6. TypeOK'
    BY <2>1, <2>3, <2>4, <2>5 DEF TypeOK, requestVars, ScopeRecords, Lives
  <2>7. RuntimeInv'
    BY <2>1, <2>3, <2>4, <2>5 DEF RuntimeInv
  <2>8. LaterAppsLeaveFirst'
    BY <1>0, <2>1, <2>4 DEF LaterAppsLeaveFirst
  <2>9. ServerInv'
    BY <2>1, <2>4 DEF ServerInv
  <2> QED
    BY <2>3, <2>6, <2>7, <2>8, <2>9
<1>4. CASE InnerStarts(i)
  <2>1. /\ UNCHANGED <<scopes, runtime, requestVars, polite, starts, server>>
        /\ phase[i] = "entering" /\ phase' = [phase EXCEPT ![i] = "up"]
    BY <1>4 DEF InnerStarts
  <2>2. /\ "up" \in Phases /\ phase[i] # "down" /\ LifeOf("up") = LifeOf(phase[i])
        /\ scopes' = scopes
    BY <2>1 DEF LifeOf, Phases
  <2>3. ScopeInv' /\ \A j \in App : ScopeOf(j)' = ScopeOf(j)
    BY <2>1, <2>2, PhaseStep
  <2>4. phase' \in [App -> Phases] /\ phase'[i] = "up"
        /\ \A j \in App : j # i => phase'[j] = phase[j]
    BY <1>0, <2>1, <2>2
  <2>5. TypeOK'
    BY <2>1, <2>4 DEF TypeOK, requestVars
  <2>6. RuntimeInv'
    BY <2>1, <2>3, <2>4 DEF RuntimeInv
  <2>7. LaterAppsLeaveFirst'
    BY <1>0, <2>1, <2>4 DEF LaterAppsLeaveFirst
  <2>8. ServerInv'
    BY <2>1, <2>4 DEF ServerInv
  <2> QED
    BY <2>3, <2>5, <2>6, <2>7, <2>8
<1> QED
  BY <1>1, <1>2, <1>3, <1>4

(* On the way down, after a failure or a stop. *)
LEMMA DownStep ==
  ASSUME Inv, NEW i \in App,
         \/ EagerBuildRaises(i) \/ InnerRaises(i)
         \/ LeaveInner(i) \/ InnerLeft(i) \/ ScopeCloses(i)
  PROVE  Inv'
<1> USE DEF Inv, LifespanInv
<1>0. /\ phase \in [App -> Phases] /\ scopes \in Seq(ScopeRecords) /\ App \subseteq Int
      /\ Len(scopes) \in Nat /\ DOMAIN scopes = 1 .. Len(scopes)
      /\ runtime \in [App -> 0 .. Len(scopes)] /\ parent \in [Requests -> 0 .. Len(scopes)]
  BY SizesAssumption DEF TypeOK, ScopeRecords, Lives, App
<1>1. CASE LeaveInner(i)
  <2>1. /\ UNCHANGED <<scopes, runtime, requestVars, polite, starts, server>>
        /\ phase[i] = "up" /\ phase' = [phase EXCEPT ![i] = "leaving"]
        /\ server = "stopping" /\ \A j \in App : j > i => phase[j] = "down"
    BY <1>0, <1>1, SizesAssumption DEF LeaveInner, App
  <2>2. /\ "leaving" \in Phases /\ phase[i] # "down" /\ LifeOf("leaving") = LifeOf(phase[i])
        /\ scopes' = scopes
    BY <2>1 DEF LifeOf, Phases
  <2>3. ScopeInv' /\ \A j \in App : ScopeOf(j)' = ScopeOf(j)
    BY <2>1, <2>2, PhaseStep
  <2>4. phase' \in [App -> Phases] /\ phase'[i] = "leaving"
        /\ \A j \in App : j # i => phase'[j] = phase[j]
    BY <1>0, <2>1, <2>2
  <2>5. TypeOK'
    BY <2>1, <2>4 DEF TypeOK, requestVars
  <2>6. RuntimeInv'
    BY <2>1, <2>3, <2>4 DEF RuntimeInv
  <2>7. LaterAppsLeaveFirst'
    BY <1>0, <2>1, <2>4 DEF LaterAppsLeaveFirst
  <2>8. ServerInv'
    BY <2>1, <2>4 DEF ServerInv
  <2> QED
    BY <2>3, <2>5, <2>6, <2>7, <2>8
<1>2. CASE EagerBuildRaises(i) \/ InnerRaises(i) \/ InnerLeft(i)
  <2>1. /\ UNCHANGED <<requestVars, polite, starts>>
        /\ phase[i] \in {"opening", "entering", "leaving"} /\ server' = "stopping"
        /\ runtime' = [runtime EXCEPT ![i] = 0]
        /\ phase' = [phase EXCEPT ![i] = "closing"]
        /\ scopes' = [scopes EXCEPT ![ScopeOf(i)].life = "closing"]
    <3>1. ASSUME EagerBuildRaises(i) PROVE runtime' = [runtime EXCEPT ![i] = 0]
      BY <1>0, <3>1 DEF EagerBuildRaises, RuntimeInv
    <3>2. ASSUME InnerLeft(i) PROVE server' = "stopping"
      BY <3>2 DEF InnerLeft, ServerInv
    <3> QED
      BY <1>2, <3>1, <3>2 DEF EagerBuildRaises, InnerRaises, InnerLeft, StartClosing
  <2>2. "closing" = LifeOf("closing") /\ "closing" \in Phases /\ "closing" \in Lives /\ phase[i] # "down"
    BY <2>1 DEF LifeOf, Phases, Lives
  <2>3. /\ ScopeInv'
        /\ scopes' \in Seq(ScopeRecords) /\ Len(scopes') = Len(scopes)
        /\ \A j \in App : j # i /\ phase[j] # "down" => ScopeOf(j)' = ScopeOf(j)
    BY <2>1, <2>2, LifeStep
  <2>4. phase' \in [App -> Phases] /\ phase'[i] = "closing"
        /\ \A j \in App : j # i => phase'[j] = phase[j]
    BY <1>0, <2>1, <2>2
  <2>5. /\ runtime' \in [App -> 0 .. Len(scopes')] /\ parent' \in [Requests -> 0 .. Len(scopes')]
        /\ runtime'[i] = 0 /\ \A j \in App : j # i => runtime'[j] = runtime[j]
    BY <1>0, <2>1, <2>3 DEF requestVars
  <2>6. TypeOK'
    BY <2>1, <2>3, <2>4, <2>5 DEF TypeOK, requestVars, ScopeRecords, Lives
  <2>7. RuntimeInv'
    BY <2>1, <2>3, <2>4, <2>5 DEF RuntimeInv
  <2>8. LaterAppsLeaveFirst'
    BY <1>0, <2>1, <2>4 DEF LaterAppsLeaveFirst
  <2>9. ASSUME NEW j \in App, j # i PROVE phase[j] \notin {"opening", "entering"}
    <3>1. j < i \/ i < j
      BY <1>0, <2>9
    <3>2. CASE j < i
      BY <2>1, <3>2 DEF LaterAppsLeaveFirst
    <3>3. CASE i < j
      BY <2>1, <3>3 DEF LaterAppsLeaveFirst
    <3> QED
      BY <3>1, <3>2, <3>3
  <2>10. ServerInv'
    BY <2>1, <2>4, <2>9 DEF ServerInv
  <2> QED
    BY <2>3, <2>6, <2>7, <2>8, <2>10
<1>3. CASE ScopeCloses(i)
  <2>1. /\ UNCHANGED <<runtime, requestVars, polite, starts, server>>
        /\ phase[i] = "closing" /\ phase' = [phase EXCEPT ![i] = "down"]
        /\ scopes' = [scopes EXCEPT ![ScopeOf(i)].life = "closed"]
    BY <1>3 DEF ScopeCloses
  <2>2. "closed" = LifeOf("down") /\ "down" \in Phases /\ "closed" \in Lives /\ phase[i] # "down"
    BY <2>1 DEF LifeOf, Phases, Lives
  <2>3. /\ ScopeInv'
        /\ scopes' \in Seq(ScopeRecords) /\ Len(scopes') = Len(scopes)
        /\ \A j \in App : j # i /\ phase[j] # "down" => ScopeOf(j)' = ScopeOf(j)
    BY <2>1, <2>2, LifeStep
  <2>4. phase' \in [App -> Phases] /\ phase'[i] = "down"
        /\ \A j \in App : j # i => phase'[j] = phase[j]
    BY <1>0, <2>1, <2>2
  <2>5. TypeOK'
    BY <1>0, <2>1, <2>3, <2>4 DEF TypeOK, requestVars, ScopeRecords, Lives
  <2>6. RuntimeInv'
    BY <2>1, <2>3, <2>4 DEF RuntimeInv
  <2>7. LaterAppsLeaveFirst'
    BY <1>0, <2>1, <2>4 DEF LaterAppsLeaveFirst
  <2>8. ServerInv'
    BY <2>1, <2>4 DEF ServerInv
  <2> QED
    BY <2>3, <2>5, <2>6, <2>7, <2>8
<1> QED
  BY <1>1, <1>2, <1>3

(* Requests leave the lifespans alone. *)
LEMMA RequestKeepsLifespan ==
  ASSUME LifespanInv, UNCHANGED lifespanVars
  PROVE  LifespanInv'
<1>1. \A j \in App : ScopeOf(j)' = ScopeOf(j)
  BY DEF ScopeOf, lifespanVars
<1> QED
  BY <1>1 DEF LifespanInv, ScopeInv, RuntimeInv, ServerInv, LaterAppsLeaveFirst, Current, lifespanVars

ArrivalStep(r, i) == Refuse(r, i) \/ Admit(r, i)

LEMMA ArrivalKeeps ==
  ASSUME IInv, NEW r \in Requests, NEW i \in App, ArrivalStep(r, i)
  PROVE  IInv'
<1> USE DEF ArrivalStep
<1>1. TypeOK /\ UNCHANGED lifespanVars /\ UNCHANGED <<probed, answer>> /\ LifespanInv'
  BY RequestKeepsLifespan DEF IInv, Refuse, Admit
<1>2. /\ step \in [Requests -> Steps] /\ target \in [Requests -> App]
      /\ parent \in [Requests -> 0 .. Len(scopes)] /\ runtime \in [App -> 0 .. Len(scopes)]
  BY <1>1 DEF TypeOK
<1>3. TypeOK'
  <2>1. /\ step' \in [Requests -> Steps] /\ target' \in [Requests -> App]
        /\ parent' \in [Requests -> 0 .. Len(scopes)]
    BY <1>2 DEF Refuse, Admit, Steps
  <2> QED
    BY <1>1, <2>1 DEF TypeOK, lifespanVars
<1>4. PoliteInv'
  <2> SUFFICES ASSUME polite, NEW q \in Requests, InFlight(q)'
               PROVE  server = "serving" /\ parent'[q] = runtime[target'[q]]
    BY <1>1 DEF PoliteInv, lifespanVars
  <2>1. CASE q # r
    BY <1>2, <2>1 DEF IInv, PoliteInv, InFlight, Refuse, Admit
  <2>2. CASE q = r
    <3>1. Admit(r, i)
      BY <1>2, <2>2 DEF InFlight, Refuse
    <3>2. server # "down"
      BY <3>1 DEF Admit, IInv, LifespanInv, ServerInv, RuntimeInv
    <3> QED
      BY <1>2, <2>2, <3>1, <3>2 DEF Admit, Delivers
  <2> QED
    BY <2>1, <2>2
<1>5. AnswerInv'
  <2> SUFFICES ASSUME NEW q \in Requests
               PROVE  /\ answer[q] # "none" => step'[q] \in {"closing", "done"}
                      /\ polite /\ answer[q] = "healthy" =>
                           DOMAIN probed[q] = Probes /\ \A p \in Probes : probed[q][p] = "ok"
    BY <1>1 DEF AnswerInv, lifespanVars
  <2>1. step[r] = "new" /\ (q # r => step'[q] = step[q])
    BY <1>2 DEF Refuse, Admit
  <2> QED
    BY <2>1 DEF IInv, AnswerInv
<1> QED
  BY <1>1, <1>3, <1>4, <1>5 DEF IInv

(* An app that is up has its scope published. *)
LEMMA UpIsPublished ==
  ASSUME TypeOK, LifespanInv, NEW i \in App, phase[i] = "up"
  PROVE  runtime[i] # 0
<1> DEFINE n == ScopeOf(i)
<1>1. runtime[i] = n
  BY DEF LifespanInv, RuntimeInv
<1>2. Current(i, n)
  BY DEF LifespanInv, ScopeInv
<1> HIDE DEF n
<1>3. scopes \in Seq(ScopeRecords)
  BY DEF TypeOK, ScopeRecords, Lives
<1>4. n \in 1 .. Len(scopes) /\ Len(scopes) \in Nat
  BY <1>2, <1>3, LenProperties DEF Current
<1> QED
  BY <1>1, <1>4

(* What a request under way does is between its own steps and the probes. *)
LEMMA RequestStepKeeps ==
  ASSUME IInv, NEW r \in Requests, RequestStep(r)
  PROVE  IInv'
<1>1. /\ TypeOK /\ UNCHANGED <<lifespanVars, target, parent>> /\ LifespanInv'
      /\ step[r] \in {"resolving", "handling", "probing", "closing"}
      /\ \A q \in Requests : q # r => step'[q] = step[q] /\ answer'[q] = answer[q] /\ probed'[q] = probed[q]
      /\ step' \in [Requests -> Steps] /\ answer' \in [Requests -> {"none", "healthy", "unhealthy"}]
  <2>1. TypeOK /\ UNCHANGED <<lifespanVars, target, parent>>
    BY DEF IInv, RequestStep, ContextReady, ContextRaises, Handled, RequestEnds,
           HealthWithoutScope, HealthBegins, HealthAnswers, Probe
  <2>2. LifespanInv'
    BY <2>1, RequestKeepsLifespan DEF IInv
  <2>3. step \in [Requests -> Steps] /\ answer \in [Requests -> {"none", "healthy", "unhealthy"}]
    BY <2>1 DEF TypeOK
  <2>4. /\ step[r] \in {"resolving", "handling", "probing", "closing"}
        /\ \A q \in Requests : q # r => step'[q] = step[q] /\ answer'[q] = answer[q]
        /\ step' \in [Requests -> Steps] /\ answer' \in [Requests -> {"none", "healthy", "unhealthy"}]
    BY <2>3 DEF RequestStep, ContextReady, ContextRaises, Handled, RequestEnds,
           HealthWithoutScope, HealthBegins, HealthAnswers, Probe, Goes, Steps
  <2>5. \A q \in Requests : q # r => probed'[q] = probed[q]
    BY <2>1 DEF RequestStep, ContextReady, ContextRaises, Handled, RequestEnds,
           HealthWithoutScope, HealthBegins, HealthAnswers, Probe, TypeOK
  <2> QED
    BY <2>1, <2>2, <2>4, <2>5
<1>2. CASE \E p \in Probes : Probe(r, p)
  <2>1. PICK p \in Probes : Probe(r, p)
    BY <1>2
  <2>2. step[r] = "probing" /\ UNCHANGED <<step, answer>>
    BY <2>1 DEF Probe
  <2>3. DOMAIN probed'[r] \subseteq Probes
    BY <1>1, <2>1 DEF TypeOK, Probe
  <2> QED
    <3>1. TypeOK'
      BY <1>1, <2>1, <2>2, <2>3 DEF TypeOK, Probe, lifespanVars
    <3>2. answer[r] = "none"
      BY <2>2 DEF IInv, AnswerInv
    <3>3. PoliteInv' /\ AnswerInv'
      BY <1>1, <2>2, <3>2 DEF IInv, PoliteInv, AnswerInv, InFlight, lifespanVars
    <3> QED
      BY <1>1, <3>1, <3>3 DEF IInv
<1>3. CASE HealthWithoutScope(r)
  <2>1. /\ UNCHANGED probed /\ step'[r] = "closing" /\ answer'[r] = "healthy"
        /\ step[r] = "handling" /\ runtime[target[r]] = 0
    BY <1>1, <1>3 DEF HealthWithoutScope, Goes, TypeOK
  <2>2. ~polite
    <3>1. ASSUME polite PROVE server = "serving" /\ target[r] \in App
      BY <1>1, <2>1, <3>1 DEF IInv, PoliteInv, InFlight, TypeOK
    <3>2. ASSUME polite PROVE phase[target[r]] = "up"
      BY <3>1, <3>2 DEF IInv, LifespanInv, ServerInv
    <3> QED
      BY <1>1, <2>1, <3>1, <3>2, UpIsPublished DEF IInv
  <2> QED
    BY <1>1, <2>1, <2>2 DEF IInv, TypeOK, PoliteInv, AnswerInv, InFlight, lifespanVars
<1>4. CASE HealthAnswers(r)
  <2>1. /\ UNCHANGED probed /\ step'[r] = "closing" /\ step[r] = "probing" /\ DOMAIN probed[r] = Probes
        /\ answer'[r] = "healthy" => \A p \in Probes : probed[r][p] = "ok"
    BY <1>1, <1>4 DEF HealthAnswers, Goes, TypeOK
  <2>2. TypeOK'
    BY <1>1, <2>1 DEF TypeOK, lifespanVars
  <2>3. PoliteInv'
    BY <1>1, <2>1 DEF IInv, PoliteInv, InFlight, lifespanVars
  <2>4. AnswerInv'
    BY <1>1, <2>1 DEF IInv, AnswerInv, lifespanVars
  <2> QED
    BY <1>1, <2>2, <2>3, <2>4 DEF IInv
<1>5. CASE ContextReady(r) \/ ContextRaises(r) \/ Handled(r) \/ RequestEnds(r) \/ HealthBegins(r)
  <2>1. /\ UNCHANGED <<probed, answer>>
        /\ step'[r] \in {"closing", "done"} \/ step[r] # "closing"
        /\ step[r] \in {"resolving", "handling", "closing"}
    BY <1>1, <1>5 DEF ContextReady, ContextRaises, Handled, RequestEnds, HealthBegins, Goes, TypeOK
  <2> QED
    BY <1>1, <2>1 DEF IInv, TypeOK, PoliteInv, AnswerInv, InFlight, lifespanVars
<1> QED
  BY <1>2, <1>3, <1>4, <1>5 DEF RequestStep

(* While a polite server serves, nothing moves the lifespans. *)
LEMMA LifespanKeepsRequests ==
  ASSUME IInv, Inv', UNCHANGED <<requestVars, polite>>,
         Start \/ Serve \/ Shutdown \/ Stopped \/ (\E i \in App : LifespanStep(i))
  PROVE  IInv'
<1>1. AnswerInv'
  BY DEF IInv, AnswerInv, requestVars
<1>2. PoliteInv'
  <2> SUFFICES ASSUME polite, NEW r \in Requests, InFlight(r)
               PROVE  server' = "serving" /\ parent[r] = runtime'[target[r]]
    BY DEF PoliteInv, InFlight, requestVars
  <2>1. server = "serving" /\ parent[r] = runtime[target[r]]
    BY DEF IInv, PoliteInv
  <2>2. \A i \in App : phase[i] = "up"
    BY <2>1 DEF IInv, LifespanInv, ServerInv
  <2>3. ~Start /\ ~Serve /\ ~Shutdown /\ ~Stopped
    BY <2>1 DEF Start, Serve, Shutdown, Stopped
  <2>4. ASSUME NEW i \in App, LifespanStep(i) PROVE FALSE
    BY <2>1, <2>2, <2>4 DEF LifespanStep, RoutesInvalid, OpenScope, Turn, ScopeOpens,
           EagerBuildRaises, InnerStarts, InnerRaises, LeaveInner, InnerLeft, ScopeCloses
  <2> QED
    BY <2>3, <2>4
<1> QED
  BY <1>1, <1>2 DEF IInv, Inv

LEMMA NextKeeps == IInv /\ [Next]_vars => IInv'
<1> SUFFICES ASSUME IInv, [Next]_vars PROVE IInv'
  OBVIOUS
<1>0. Inv
  BY DEF IInv, Inv
<1>1. CASE Start \/ Serve \/ Shutdown \/ Stopped
  BY <1>0, <1>1, ServerStep, LifespanKeepsRequests DEF Start, Serve, Shutdown, Stopped
<1>2. ASSUME NEW i \in App, LifespanStep(i) PROVE IInv'
  <2>1. Inv'
    BY <1>0, <1>2, UpStep, DownStep DEF LifespanStep
  <2>2. UNCHANGED <<requestVars, polite>>
    BY <1>2 DEF LifespanStep, RoutesInvalid, OpenScope, ScopeOpens, StartClosing,
           EagerBuildRaises, InnerStarts, InnerRaises, LeaveInner, InnerLeft, ScopeCloses
  <2> QED
    BY <1>2, <2>1, <2>2, LifespanKeepsRequests
<1>3. ASSUME NEW r \in Requests, NEW i \in App, Refuse(r, i) \/ Admit(r, i) PROVE IInv'
  BY <1>3, ArrivalKeeps DEF ArrivalStep
<1>4. ASSUME NEW r \in Requests, RequestStep(r) PROVE IInv'
  BY <1>4, RequestStepKeeps
<1>5. CASE UNCHANGED vars
  <2>1. UNCHANGED lifespanVars /\ UNCHANGED requestVars
    BY <1>5 DEF vars
  <2>2. LifespanInv'
    BY <2>1, RequestKeepsLifespan DEF IInv
  <2> QED
    BY <2>1, <2>2 DEF IInv, TypeOK, PoliteInv, AnswerInv, InFlight, lifespanVars, requestVars
<1> QED
  BY <1>1, <1>2, <1>3, <1>4, <1>5 DEF Next, AllOver

-----------------------------------------------------------------------------
(* What the invariant says of a published scope. *)
LEMMA PublishedIsOpen ==
  ASSUME IInv, NEW i \in App, runtime[i] # 0
  PROVE  /\ scopes[runtime[i]] = [app |-> i, life |-> "open"]
         /\ \A n \in (runtime[i] + 1)..Len(scopes) : scopes[n].app # i
<1> DEFINE n == ScopeOf(i)
<1>1. /\ runtime[i] = n /\ phase[i] # "down" /\ LifeOf(phase[i]) = "open"
  BY DEF IInv, LifespanInv, RuntimeInv, LifeOf
<1>2. Current(i, n) /\ scopes[n].life = "open"
  BY <1>1 DEF IInv, LifespanInv, ScopeInv
<1> HIDE DEF n
<1>3. scopes \in Seq(ScopeRecords) /\ DOMAIN scopes = 1 .. Len(scopes) /\ Len(scopes) \in Nat
  BY DEF IInv, TypeOK, ScopeRecords, Lives
<1>4. n \in DOMAIN scopes /\ scopes[n] \in ScopeRecords
  BY <1>2, <1>3 DEF Current
<1>5. scopes[n] = [app |-> i, life |-> "open"]
  BY <1>2, <1>4 DEF Current, ScopeRecords
<1>6. ASSUME NEW m \in (n + 1)..Len(scopes), scopes[m].app = i PROVE FALSE
  BY <1>2, <1>3, <1>4, <1>6 DEF Current
<1> QED
  BY <1>1, <1>5, <1>6

(* The invariant, for any number of sub-apps and requests. *)
THEOREM Invariant == Spec => []IInv
<1>1. IInv /\ [Next]_vars => IInv'
  BY NextKeeps
<1> QED
  BY <1>1, InitInv, PTL DEF Spec

(* Every variable of the glue keeps its type. *)
THEOREM Types == Spec => []TypeOK
<1>1. IInv => TypeOK
  BY DEF IInv
<1> QED
  BY <1>1, Invariant, PTL

(* runtime.app_state only ever names the open scope of its own app. *)
THEOREM PublishedScopesAreOpen == Spec => []RuntimeNamesOpenScope
<1>1. IInv => RuntimeNamesOpenScope
  BY PublishedIsOpen DEF RuntimeNamesOpenScope
<1> QED
  BY <1>1, Invariant, PTL

(* Under a polite server the scope stays open under its requests. *)
THEOREM ParentsStayOpen == Spec => []ParentStaysOpen
<1>1. ASSUME IInv, polite, NEW r \in Requests, InFlight(r)
      PROVE  scopes[parent[r]] = [app |-> target[r], life |-> "open"]
  <2>1. server = "serving" /\ parent[r] = runtime[target[r]] /\ target[r] \in App
    BY <1>1 DEF IInv, PoliteInv, TypeOK
  <2>2. runtime[target[r]] # 0
    BY <1>1, <2>1, UpIsPublished DEF IInv, LifespanInv, ServerInv
  <2> QED
    BY <1>1, <2>1, <2>2, PublishedIsOpen
<1>2. IInv => ParentStaysOpen
  BY <1>1 DEF ParentStaysOpen
<1> QED
  BY <1>2, Invariant, PTL

(* The server serves all the sub-apps or none, and leaves no scope behind. *)
THEOREM StartupIsAllOrNothing == Spec => []AllOrNothing
<1>1. ASSUME IInv, NEW i \in App, phase[i] = "up" PROVE runtime[i] # 0
  BY <1>1, UpIsPublished DEF IInv
<1>2. ASSUME IInv, \A i \in App : phase[i] = "down", NEW n \in DOMAIN scopes
      PROVE  scopes[n].life = "closed"
  <2>0. scopes \in Seq(ScopeRecords)
    BY <1>2 DEF IInv, TypeOK, ScopeRecords, Lives
  <2>1. scopes[n] \in ScopeRecords
    BY <1>2, <2>0
  <2>2. scopes[n].app \in App
    BY <2>1 DEF ScopeRecords
  <2> QED
    BY <1>2, <2>2 DEF IInv, LifespanInv, ScopeInv
<1>3. IInv => AllOrNothing
  BY <1>1, <1>2 DEF IInv, LifespanInv, ServerInv, RuntimeInv, AllOrNothing
<1> QED
  BY <1>3, Invariant, PTL

(* Sub-apps are nested, whichever of them fails at whatever point. *)
THEOREM AppsAreNested == Spec => []LaterAppsLeaveFirst
<1>1. IInv => LaterAppsLeaveFirst
  BY DEF IInv, LifespanInv
<1> QED
  BY <1>1, Invariant, PTL

(* Under a polite server "healthy" means that every probe answered ok. *)
THEOREM HealthyIsProbed == Spec => []HealthyMeansProbed
<1>1. IInv => HealthyMeansProbed
  BY DEF IInv, AnswerInv, HealthyMeansProbed
<1> QED
  BY <1>1, Invariant, PTL
=============================================================================
