------------------------ MODULE ServerLifecycleProofs ------------------------
(***************************************************************************)
(* Proofs about Serve, for any plugins, finders and requests and any       *)
(* capacity of errCh.                                                      *)
(***************************************************************************)
EXTENDS ServerLifecycle, FiniteSetTheorems, TLAPS

(***************************************************************************)
(* Whichever plugins are loaded, they are a list of registered ones.       *)
(***************************************************************************)
LEMMA LoadedRegistered == Init => plugins \in Seq(Registered)
<1> SUFFICES ASSUME Init
             PROVE  plugins \in Seq(Registered)
  OBVIOUS
<1>1. CASE NoneEnabled
  BY <1>1 DEF Init
<1>2. CASE ~NoneEnabled /\ Enabled = <<>>
  <2>1. plugins \in [1..Cardinality(Registered) -> Registered]
    BY <1>2 DEF Init, LoadPlugins
  <2> QED
    BY <2>1, FS_CardinalityType, ServerAssumption
<1>3. CASE ~NoneEnabled /\ Enabled # <<>>
  <2>1. PICK k \in 0..Len(Enabled) : plugins \in [1..k -> Registered]
    BY <1>3, ServerAssumption DEF Init, LoadPlugins, Lists
  <2> QED
    BY <2>1
<1> QED
  BY <1>1, <1>2, <1>3

(***************************************************************************)
(* The state is well typed.  That plugins are initialized and closed no    *)
(* more often than the list is long needs the place of Serve in it.        *)
(***************************************************************************)
PlaceInv ==
  /\ TypeOK
  /\ main = "init" => \A p \in Registered : inits[p] < next
  /\ main = "close" => \A p \in Registered : closes[p] < next
  /\ main \notin {"close", "wait", "returned"} => \A p \in Registered : closes[p] = 0

LEMMA PlaceStep == PlaceInv /\ [Next]_vars => PlaceInv'
<1> SUFFICES ASSUME PlaceInv, [Next]_vars
             PROVE  PlaceInv'
  OBVIOUS
<1> USE ServerAssumption
<1> USE DEF PlaceInv, TypeOK, pluginVars, mainVars, Goto
<1>0. /\ Len(plugins) \in Nat
      /\ next <= Len(plugins) => plugins[next] \in Registered
  OBVIOUS
<1>1. CASE InitializePlugin
  <2> DEFINE p == plugins[next]
  <2>1. next <= Len(plugins) /\ main = "init"
    BY <1>1 DEF InitializePlugin
  <2>2. /\ p \in Registered
        /\ next' = next + 1 /\ next' \in 1..(Len(plugins) + 1)
    BY <1>0, <1>1, <2>1 DEF InitializePlugin
  <2>3. inits' = [inits EXCEPT ![p] = inits[p] + 1]
    BY <1>1 DEF InitializePlugin
  <2> HIDE DEF p
  <2>4. /\ inits' \in [Registered -> 0..Len(plugins)]
        /\ \A q \in Registered : inits'[q] < next + 1
    BY <1>0, <2>1, <2>2, <2>3
  <2>5. finder' \in [Finders -> {"off", "run", "sending", "done"}]
    BY <1>1 DEF InitializePlugin
  <2> QED
    BY <1>1, <2>1, <2>2, <2>4, <2>5 DEF InitializePlugin
<1>2. CASE ClosePlugin
  <2> DEFINE p == plugins[next]
  <2>1. next <= Len(plugins) /\ main = "close"
    BY <1>2 DEF ClosePlugin
  <2>2. /\ p \in Registered
        /\ next' = next + 1 /\ next' \in 1..(Len(plugins) + 1)
    BY <1>0, <1>2, <2>1 DEF ClosePlugin
  <2>3. closes' = [closes EXCEPT ![p] = closes[p] + 1]
    BY <1>2 DEF ClosePlugin
  <2> HIDE DEF p
  <2>4. /\ closes' \in [Registered -> 0..Len(plugins)]
        /\ \A q \in Registered : closes'[q] < next + 1
    BY <1>0, <2>1, <2>2, <2>3
  <2> QED
    BY <1>2, <2>1, <2>2, <2>4 DEF ClosePlugin
<1>3. CASE StartFails
  BY <1>3 DEF StartFails
<1>4. CASE InitializeOIDC
  BY <1>4 DEF InitializeOIDC
<1>5. CASE Listen \/ OnError \/ Shutdown
  <2>1. CASE Listen
    BY <2>1 DEF Listen
  <2>2. CASE OnError
    BY <2>2 DEF OnError
  <2>3. CASE Shutdown
    BY <2>3 DEF Shutdown
  <2> QED
    BY <1>5, <2>1, <2>2, <2>3
<1>6. CASE Drained \/ CancelContext \/ Exit
  BY <1>0, <1>6 DEF Drained, CancelContext, Exit
<1>7. CASE Signal
  BY <1>7 DEF Signal, OnSignal, SecondSignal
<1>8. CASE ServeStops \/ ServeExits
  BY <1>8 DEF ServeStops, ServeExits
<1>9. ASSUME NEW f \in Finders, FinderStep(f)
      PROVE  PlaceInv'
  <2>1. CASE FinderStops(f)
    BY <2>1 DEF FinderStops
  <2>2. CASE FinderFails(f)
    BY <2>2 DEF FinderFails
  <2>3. CASE FinderSends(f)
    BY <2>3 DEF FinderSends
  <2> QED
    BY <1>9, <2>1, <2>2, <2>3 DEF FinderStep
<1>10. ASSUME NEW r \in Requests, Accept(r) \/ Hangup(r) \/ Request(r) \/ Respond(r)
       PROVE  PlaceInv'
  BY <1>10 DEF Accept, Hangup, Request, Respond
<1>11. CASE UNCHANGED vars
  BY <1>11 DEF vars
<1> QED
  BY <1>1, <1>2, <1>3, <1>4, <1>5, <1>6, <1>7, <1>8, <1>9, <1>10, <1>11
     DEF Next, Serve, ServeOn

LEMMA PlaceInit == Init => PlaceInv
<1> SUFFICES ASSUME Init
             PROVE  PlaceInv
  OBVIOUS
<1>1. plugins \in Seq(Registered) /\ Len(plugins) \in Nat
  BY LoadedRegistered
<1>2. /\ next = 1 /\ main = "init"
      /\ \A p \in Registered : inits[p] = 0 /\ closes[p] = 0
  BY DEF Init
<1>3. next \in 1..(Len(plugins) + 1)
  BY <1>1, <1>2
<1>4. /\ inits \in [Registered -> 0..Len(plugins)]
      /\ closes \in [Registered -> 0..Len(plugins)]
  BY <1>1 DEF Init
<1>5. /\ main = "init" /\ http = "off" /\ cause = "none" /\ down = "no"
      /\ finder \in [Finders -> {"off"}]
      /\ req \in [Requests -> {"new"}]
  BY Zenon DEF Init
<1>6. errors \in 0..ErrCap
  BY ServerAssumption DEF Init
<1>7. TypeOK
  BY <1>1, <1>3, <1>4, <1>5, <1>6 DEF TypeOK
<1> QED
  BY <1>2, <1>7 DEF PlaceInv

(***************************************************************************)
(* TypeOK, for any list of enabled plugins, one with repetitions included. *)
(***************************************************************************)
THEOREM TypeCorrect == Spec => []TypeOK
<1>1. PlaceInv => TypeOK
  BY DEF PlaceInv
<1> QED
  BY <1>1, PlaceInit, PlaceStep, PTL DEF Spec

(***************************************************************************)
(* Where Serve is tells which plugins are initialized and closed, as long  *)
(* as none is in the list twice; and whether the listener has started.     *)
(***************************************************************************)
Ran(ps, p, n) == \E i \in DOMAIN ps : i < n /\ ps[i] = p
Times(ps, n) == [p \in Registered |-> IF Ran(ps, p, n) THEN 1 ELSE 0]
All == Times(plugins, Len(plugins) + 1)
Never == [p \in Registered |-> 0]

ServeInv ==
  /\ Distinct(plugins)
  /\ main = "init" => inits = Times(plugins, next)
  /\ main \notin {"init", "returned"} => inits = All
  /\ main \notin {"close", "wait", "returned"} => closes = Never
  /\ main = "close" => closes = Times(plugins, next)
  /\ main = "wait" => closes = All
  /\ main = "returned" => \/ closes = Never /\ http = "off"
                          \/ closes = All /\ inits = All
  /\ main = "returned" => \A p \in Registered : inits[p] <= 1
  /\ main \in {"init", "oidc", "listen"} => http = "off"
  /\ main \in {"init", "oidc", "listen", "select", "shutdown"} => down = "no"
  /\ main = "drain" => down = "called"
  /\ main \in {"close", "wait"} => down \in {"clean", "timeout"}
  /\ main = "returned" => http = "off" \/ down \in {"clean", "timeout"}

LEMMA NextTime ==
  ASSUME PlaceInv, Distinct(plugins), next <= Len(plugins)
  PROVE  /\ plugins[next] \in Registered
         /\ [Times(plugins, next) EXCEPT ![plugins[next]] = @ + 1] = Times(plugins, next + 1)
<1> USE DEF PlaceInv, TypeOK
<1>1. plugins[next] \in Registered /\ next \in DOMAIN plugins
  OBVIOUS
<1>2. ~Ran(plugins, plugins[next], next) /\ Ran(plugins, plugins[next], next + 1)
  BY <1>1 DEF Ran, Distinct
<1>3. \A p \in Registered \ {plugins[next]} : Ran(plugins, p, next) <=> Ran(plugins, p, next + 1)
  <2>1. \A i \in DOMAIN plugins : i < next + 1 <=> i < next \/ i = next
    OBVIOUS
  <2> QED
    BY <2>1, Zenon DEF Ran
<1>4. /\ Times(plugins, next)[plugins[next]] = 0
      /\ Times(plugins, next + 1)[plugins[next]] = 1
  BY <1>1, <1>2 DEF Times
<1>5. \A p \in Registered \ {plugins[next]} :
        Times(plugins, next)[p] = Times(plugins, next + 1)[p]
  BY <1>3 DEF Times
<1>6. /\ Times(plugins, next) \in [Registered -> {0, 1}]
      /\ Times(plugins, next + 1) \in [Registered -> {0, 1}]
  BY DEF Times
<1> DEFINE p == plugins[next]
           before == Times(plugins, next)
           after == Times(plugins, next + 1)
<1>7. [before EXCEPT ![p] = before[p] + 1] = after
  <2> HIDE DEF p, before, after
  <2> SUFFICES p \in Registered /\ before[p] = 0 /\ after[p] = 1
               /\ (\A q \in Registered \ {p} : before[q] = after[q])
               /\ before \in [Registered -> {0, 1}] /\ after \in [Registered -> {0, 1}]
    OBVIOUS
  <2> QED
    BY <1>1, <1>4, <1>5, <1>6 DEF p, before, after
<1> QED
  BY <1>1, <1>7

LEMMA ServeInvStep == PlaceInv /\ ServeInv /\ [Next]_vars => ServeInv'
<1> SUFFICES ASSUME PlaceInv, ServeInv, [Next]_vars
             PROVE  ServeInv'
  OBVIOUS
<1> USE DEF pluginVars, mainVars, Goto, All
<1>0. next \in 1..(Len(plugins) + 1) /\ Len(plugins) \in Nat
  BY DEF PlaceInv, TypeOK
<1>1. CASE InitializePlugin
  <2>1. inits' = Times(plugins, next + 1) /\ next' = next + 1
    BY <1>1, NextTime DEF InitializePlugin, ServeInv
  <2> QED
    BY <1>1, <2>1 DEF InitializePlugin, ServeInv
<1>2. CASE ClosePlugin
  <2>1. closes' = Times(plugins, next + 1) /\ next' = next + 1
    BY <1>2, NextTime DEF ClosePlugin, ServeInv
  <2> QED
    BY <1>2, <2>1 DEF ClosePlugin, ServeInv
<1>3. CASE StartFails
  <2>1. \A p \in Registered : inits[p] <= 1
    BY <1>3 DEF StartFails, ServeInv, Times
  <2> QED
    BY <1>3, <2>1 DEF StartFails, ServeInv
<1>4. CASE InitializeOIDC
  <2>1. main = "init" => next = Len(plugins) + 1
    BY <1>0, <1>4 DEF InitializeOIDC
  <2> QED
    BY <1>4, <2>1 DEF InitializeOIDC, ServeInv
<1>5. CASE Listen \/ OnError \/ Shutdown
  BY <1>5 DEF Listen, OnError, Shutdown, ServeInv
<1>6. CASE Drained
  <2>1. Never = Times(plugins, 1)
    BY DEF Never, Times, Ran, PlaceInv, TypeOK
  <2> QED
    BY <1>6, <2>1 DEF Drained, ServeInv
<1>7. CASE CancelContext
  <2>1. next = Len(plugins) + 1
    BY <1>0, <1>7 DEF CancelContext
  <2> QED
    BY <1>7, <2>1 DEF CancelContext, ServeInv
<1>8. CASE Exit \/ SecondSignal
  <2>1. \A p \in Registered : inits[p] <= 1
    BY <1>8 DEF Exit, SecondSignal, ServeInv, Times
  <2> QED
    BY <1>8, <2>1 DEF Exit, SecondSignal, ServeInv
<1>9. CASE OnSignal
  BY <1>9 DEF OnSignal, ServeInv
<1>10. CASE ServeStops \/ ServeExits
  BY <1>10 DEF ServeStops, ServeExits, ServeInv, Running
<1>11. ASSUME NEW f \in Finders, FinderStep(f)
       PROVE  ServeInv'
  BY <1>11 DEF FinderStep, FinderStops, FinderFails, FinderSends, ServeInv
<1>12. ASSUME NEW r \in Requests, Accept(r) \/ Hangup(r) \/ Request(r) \/ Respond(r)
       PROVE  ServeInv'
  BY <1>12 DEF Accept, Hangup, Request, Respond, ServeInv
<1>13. CASE UNCHANGED vars
  BY <1>13 DEF vars, ServeInv
<1> QED
  BY <1>1, <1>2, <1>3, <1>4, <1>5, <1>6, <1>7, <1>8, <1>9, <1>10, <1>11, <1>12, <1>13
     DEF Next, Serve, ServeOn, Signal

THEOREM ServeCorrect == Spec /\ Distinct(plugins) => [](PlaceInv /\ ServeInv)
<1>1. Init /\ Distinct(plugins) => ServeInv
  <2> SUFFICES ASSUME Init, Distinct(plugins)
               PROVE  ServeInv
    OBVIOUS
  <2>1. Never = Times(plugins, 1)
    BY LoadedRegistered DEF Never, Times, Ran
  <2> QED
    BY <2>1 DEF Init, ServeInv, Never
<1> QED
  BY <1>1, PlaceInit, PlaceStep, ServeInvStep, PTL DEF Spec

(***************************************************************************)
(* No plugin is closed twice, and when Serve returns after it has served,  *)
(* each one it has initialized is closed.                                  *)
(***************************************************************************)
THEOREM EachClosedOnceCorrect == Spec /\ Distinct(plugins) => []EachClosedOnce
<1>1. PlaceInv /\ ServeInv => EachClosedOnce
  <2> SUFFICES ASSUME PlaceInv, ServeInv
               PROVE  EachClosedOnce
    OBVIOUS
  <2>1. \A p \in Registered : /\ Never[p] = 0
                             /\ Times(plugins, next)[p] \in {0, 1} /\ All[p] \in {0, 1}
                             /\ Times(plugins, next)[p] <= All[p]
    BY DEF Never, Times, All, Ran, PlaceInv, TypeOK
  <2>2. \A p \in Registered : inits[p] \in Nat
    BY DEF PlaceInv, TypeOK
  <2>3. main \in {"init", "oidc", "listen", "select", "shutdown", "drain", "close", "wait",
                 "returned"}
    BY DEF PlaceInv, TypeOK
  <2> QED
    BY <2>1, <2>2, <2>3 DEF EachClosedOnce, ServeInv
<1> QED
  BY <1>1, ServeCorrect, PTL

(***************************************************************************)
(* Connections come with the listener and, unless Shutdown gives them up,  *)
(* are gone when the first plugin is closed.                               *)
(***************************************************************************)
ConnectionInv ==
  /\ http = "off" => \A r \in Requests : req[r] = "new"
  /\ down = "clean" => UnderWay = {}

LEMMA ConnectionStep == PlaceInv /\ ServeInv /\ ConnectionInv /\ [Next]_vars => ConnectionInv'
<1> SUFFICES ASSUME PlaceInv, ServeInv, ConnectionInv, [Next]_vars
             PROVE  ConnectionInv'
  OBVIOUS
<1> USE DEF ConnectionInv, UnderWay
<1>1. CASE req' = req /\ down' = down /\ (http' = "off" => http = "off")
  BY <1>1
<1>2. CASE Shutdown
  BY <1>2 DEF Shutdown
<1>3. CASE Drained
  BY <1>3 DEF Drained
<1>4. CASE Serve \/ Signal \/ ServeStops \/ ServeExits
  BY <1>1, <1>2, <1>3, <1>4
  DEF Serve, ServeOn, Signal, InitializePlugin, StartFails, InitializeOIDC, Listen, OnError,
      ClosePlugin, CancelContext, Exit, OnSignal, SecondSignal, ServeStops, ServeExits
<1>5. ASSUME NEW f \in Finders, FinderStep(f)
      PROVE  ConnectionInv'
  BY <1>1, <1>5 DEF FinderStep, FinderStops, FinderFails, FinderSends
<1>6. ASSUME NEW r \in Requests, Accept(r) \/ Hangup(r) \/ Request(r) \/ Respond(r)
      PROVE  ConnectionInv'
  <2>1. http # "off" /\ http' = http /\ down' = down /\ down # "clean"
    BY <1>6 DEF Accept, Hangup, Request, Respond, PlaceInv, TypeOK
  <2> QED
    BY <2>1
<1>7. CASE UNCHANGED vars
  BY <1>1, <1>7 DEF vars
<1> QED
  BY <1>4, <1>5, <1>6, <1>7 DEF Next

(***************************************************************************)
(* A request in a handler finds all plugins initialized and none closed,   *)
(* unless Shutdown has given up waiting for requests.                      *)
(***************************************************************************)
THEOREM RequestsMeetPluginsCorrect == Spec /\ Distinct(plugins) => []RequestsMeetPlugins
<1>1. Init => ConnectionInv
  BY DEF Init, ConnectionInv
<1>2. PlaceInv /\ ServeInv /\ ConnectionInv => RequestsMeetPlugins
  <2> SUFFICES ASSUME PlaceInv, ServeInv, ConnectionInv,
                      NEW r \in Requests, req[r] = "open", NEW i \in DOMAIN plugins
               PROVE  /\ inits[plugins[i]] = 1
                      /\ down # "timeout" => closes[plugins[i]] = 0
    BY DEF RequestsMeetPlugins
  <2>1. http # "off" /\ down # "clean"
    BY DEF ConnectionInv, UnderWay
  <2>2. main \in {"select", "shutdown", "drain", "close", "wait", "returned"}
    BY <2>1 DEF ServeInv, PlaceInv, TypeOK
  <2>3. inits = All /\ (down # "timeout" => closes = Never)
    BY <2>1, <2>2 DEF ServeInv
  <2>4. plugins[i] \in Registered /\ i < Len(plugins) + 1
    BY DEF PlaceInv, TypeOK
  <2> QED
    BY <2>3, <2>4 DEF All, Times, Ran, Never
<1> QED
  BY <1>1, <1>2, ConnectionStep, ServeCorrect, PTL DEF Spec
===============================================================================
