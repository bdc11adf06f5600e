--------------------------- MODULE GrapiProxyProofs ---------------------------
(***************************************************************************)
(* Proofs about the grapi finders, for any number of kinds of sockets, of  *)
(* workers, requests and restarts, and any length of the pause.            *)
(***************************************************************************)
EXTENDS GrapiProxy, TLAPS

(***************************************************************************)
(* The state is well typed; above all, no proxy is made of no worker.      *)
(***************************************************************************)
THEOREM TypeCorrect == Spec => []TypeOK
<1> USE GrapiAssumption
<1>1. Init => TypeOK
  BY DEF Init, TypeOK, NoProxy
<1>2. TypeOK /\ [Next]_vars => TypeOK'
  <2> SUFFICES ASSUME TypeOK, [Next]_vars
               PROVE  TypeOK'
    OBVIOUS
  <2> USE DEF TypeOK, finderVars, fleetVars
  <2>1. ASSUME NEW k \in Kinds, Restart(k)
        PROVE  TypeOK'
    BY <2>1 DEF Restart
  <2>2. ASSUME NEW k \in Kinds, NEW w \in Workers, CreateFile(k, w)
        PROVE  TypeOK'
    BY <2>2 DEF CreateFile
  <2>3. ASSUME NEW k \in Kinds, LookInVain(k) \/ Wake(k) \/ Leave(k)
        PROVE  TypeOK'
    <3>1. CASE LookInVain(k)
      BY <3>1 DEF LookInVain, Goto
    <3>2. CASE Wake(k)
      BY <3>2 DEF Wake, Goto
    <3>3. CASE Leave(k)
      BY <3>3 DEF Leave, Goto
    <3> QED
      BY <2>3, <3>1, <3>2, <3>3
  <2>4. ASSUME NEW k \in Kinds, Look(k)
        PROVE  TypeOK'
    <3>1. CASE init[k]
      BY <2>4, <3>1 DEF Look, Goto
    <3>2. CASE ~init[k]
      BY <2>4, <3>2 DEF Look, Goto
    <3> QED
      BY <3>1, <3>2
  <2>5. ASSUME NEW k \in Kinds, Install(k) \/ InstallFails(k)
        PROVE  TypeOK'
    BY <2>5 DEF Install, InstallFails, Goto
  <2>6. CASE Tick
    <3>1. age' \in [Kinds -> 0..Burst]
      BY <2>6 DEF Tick, UpTo
    <3>2. slept' \in [Kinds -> 0..Pause]
      BY <2>6 DEF Tick, UpTo
    <3> QED
      BY <2>6, <3>1, <3>2 DEF Tick
  <2>7. CASE Close
    BY <2>7 DEF Close
  <2>8. ASSUME NEW r \in Requests, NEW k \in Kinds, Request(r, k)
        PROVE  TypeOK'
    BY <2>8 DEF Request, NoRequest
  <2>9. ASSUME NEW r \in Requests, Respond(r)
        PROVE  TypeOK'
    BY <2>9 DEF Respond, NoRequest
  <2>10. CASE UNCHANGED vars
    BY <2>10 DEF vars
  <2> QED
    BY <2>1, <2>2, <2>3, <2>4, <2>5, <2>6, <2>7, <2>8, <2>9, <2>10 DEF Next, FinderStep
<1> QED
  BY <1>1, <1>2, PTL DEF Spec

(***************************************************************************)
(* FinderInv is inductive.  Time does the work: the pause between the look *)
(* that takes notice and the next one is as long as the fleet may take.    *)
(***************************************************************************)
THEOREM FinderCorrect == Spec => []FinderInv
<1> USE GrapiAssumption
<1>1. Init => FinderInv
  BY DEF Init, FinderInv, NoProxy
<1>2. TypeOK /\ FinderInv /\ [Next]_vars => FinderInv'
  <2> SUFFICES ASSUME TypeOK, FinderInv, [Next]_vars
               PROVE  FinderInv'
    OBVIOUS
  <2> USE DEF FinderInv, Complete, TypeOK, finderVars, fleetVars, NoProxy
  <2>1. ASSUME NEW k \in Kinds, Restart(k)
        PROVE  FinderInv'
    BY <2>1 DEF Restart
  <2>2. ASSUME NEW k \in Kinds, NEW w \in Workers, CreateFile(k, w)
        PROVE  FinderInv'
    BY <2>2 DEF CreateFile
  <2>3. ASSUME NEW k \in Kinds, LookInVain(k) \/ Leave(k)
        PROVE  FinderInv'
    BY <2>3 DEF LookInVain, Leave, Goto
  <2>4. ASSUME NEW k \in Kinds, Wake(k)
        PROVE  FinderInv'
    BY <2>4 DEF Wake, Goto
  <2>5. ASSUME NEW k \in Kinds, Look(k)
        PROVE  FinderInv'
    BY <2>5 DEF Look, Goto
  <2>6. ASSUME NEW k \in Kinds, Install(k) \/ InstallFails(k)
        PROVE  FinderInv'
    BY <2>6 DEF Install, InstallFails, Goto
  <2>7. CASE Tick
    BY <2>7 DEF Tick, UpTo
  <2>8. CASE Close \/ (\E r \in Requests : Respond(r) \/ \E k \in Kinds : Request(r, k))
    BY <2>8 DEF Close, Respond, Request
  <2>9. CASE UNCHANGED vars
    BY <2>9 DEF vars
  <2> QED
    BY <2>1, <2>2, <2>3, <2>4, <2>5, <2>6, <2>7, <2>8, <2>9 DEF Next, FinderStep
<1> QED
  BY <1>1, <1>2, TypeCorrect, PTL DEF Spec

(***************************************************************************)
(* The second look catches every worker of a fleet that is not restarted.  *)
(***************************************************************************)
THEOREM EveryWorkerServesCorrect == Spec => []EveryWorkerServes
<1>1. FinderInv => EveryWorkerServes
  BY DEF FinderInv, EveryWorkerServes
<1> QED
  BY <1>1, FinderCorrect, PTL

(***************************************************************************)
(* The proxy a request has read under the lock is still the one in use     *)
(* when it is answered.                                                    *)
(***************************************************************************)
THEOREM SnapshotStaysCorrect == Spec => []SnapshotStays
<1>1. Init => SnapshotStays
  BY DEF Init, SnapshotStays, NoRequest
<1>2. TypeOK /\ FinderInv /\ SnapshotStays /\ [Next]_vars => SnapshotStays'
  <2> SUFFICES ASSUME TypeOK, FinderInv, SnapshotStays, [Next]_vars
               PROVE  SnapshotStays'
    OBVIOUS
  <2> USE DEF SnapshotStays
  <2>1. ASSUME NEW k \in Kinds, Install(k)
        PROVE  SnapshotStays'
    (* Before, there was none. *)
    <3>1. proxy[k] = NoProxy
      BY <2>1 DEF Install, Goto, FinderInv
    <3> QED
      BY <2>1, <3>1 DEF Install, TypeOK
  <2>2. ASSUME NEW r \in Requests, NEW k \in Kinds, Request(r, k)
        PROVE  SnapshotStays'
    BY <2>2 DEF Request, TypeOK
  <2>3. ASSUME NEW r \in Requests, Respond(r)
        PROVE  SnapshotStays'
    BY <2>3 DEF Respond, TypeOK
  <2>4. CASE UNCHANGED <<proxy, req>>
    BY <2>4
  <2>5. ASSUME NEW k \in Kinds,
               \/ Restart(k) \/ LookInVain(k) \/ Look(k) \/ Wake(k) \/ Leave(k)
               \/ InstallFails(k) \/ \E w \in Workers : CreateFile(k, w)
        PROVE  UNCHANGED <<proxy, req>>
    BY <2>5 DEF Restart, LookInVain, Look, Wake, Leave, InstallFails, CreateFile
  <2>6. CASE Tick \/ Close \/ UNCHANGED vars
    BY <2>4, <2>6 DEF Tick, Close, vars
  <2> QED
    BY <2>1, <2>2, <2>3, <2>4, <2>5, <2>6 DEF Next, FinderStep
<1> QED
  BY <1>1, <1>2, TypeCorrect, FinderCorrect, PTL DEF Spec
===============================================================================
