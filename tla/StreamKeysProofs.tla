--------------------------- MODULE StreamKeysProofs ---------------------------
(***************************************************************************)
(* Proofs about stream keys, for any number of keys, requests and users,   *)
(* any expiration and any interval of the cleanup.                         *)
(***************************************************************************)
EXTENDS StreamKeys, FiniteSetTheorems, TLAPS

-------------------------------------------------------------------------------
(* Lemmas about single steps. *)

(* Connect requests, requests for a stream and time leave alone what is not
   theirs.                                                                 *)
LEMMA KeyUse ==
  ASSUME NEW r \in Requests, UpgradeFails(r) \/ Upgrade(r) \/ NoConnection(r)
                             \/ Serve(r) \/ End(r)
  PROVE  UNCHANGED <<keyVars, timeVars>>
BY DEF UpgradeFails, Upgrade, NoConnection, Serve, End

LEMMA TimeOnly ==
  ASSUME Tick \/ Scan \/ Cancel \/ StopCleaning
  PROVE  UNCHANGED <<keyVars, reqVars>>
BY DEF Tick, Scan, Cancel, StopCleaning

(***************************************************************************)
(* The state is well typed; above all, connections are numbered within the *)
(* count of all connections so far.                                        *)
(***************************************************************************)
THEOREM TypeCorrect == Spec => []TypeOK
<1> USE KeysAssumption
<1>1. Init => TypeOK
  <2> SUFFICES ASSUME Init
               PROVE  TypeOK
    OBVIOUS
  <2>1. /\ age \in [Keys -> 0..MaxAge]
        /\ phase \in 0..(Interval - 1)
    BY DEF Init, MaxAge
  <2>2. /\ req \in [Requests -> [at   : {"idle", "popped", "starting", "serving", "done"},
                               key  : Keys \cup {NoKey},
                               user : Users \cup {NoUser}]]
        /\ id \in [Requests -> 0..count]
        /\ count \in Nat /\ active \subseteq 1..count
    BY DEF Init
  <2> QED
    BY <2>1, <2>2 DEF Init, TypeOK
<1>2. TypeOK /\ [Next]_vars => TypeOK'
  <2> SUFFICES ASSUME TypeOK, [Next]_vars
               PROVE  TypeOK'
    OBVIOUS
  <2> USE DEF TypeOK, keyVars, timeVars, reqVars
  <2>1. ASSUME NEW k \in Keys, NEW u \in Users \cup {NoUser}, Stamp(k, u)
        PROVE  TypeOK'
    BY <2>1 DEF Stamp
  <2>2. ASSUME NEW k \in Keys, Store(k)
        PROVE  TypeOK'
    BY <2>2 DEF Store
  <2>3. ASSUME NEW k \in Keys, Purge(k)
        PROVE  TypeOK'
    BY <2>3 DEF Purge
  <2>4. ASSUME NEW r \in Requests, NEW k \in Keys, PopKey(r, k)
        PROVE  TypeOK'
    BY <2>4 DEF PopKey, Ask
  <2>5. ASSUME NEW r \in Requests, UpgradeFails(r) \/ NoConnection(r)
        PROVE  TypeOK'
    BY <2>5 DEF UpgradeFails, NoConnection, Goto
  <2>6. ASSUME NEW r \in Requests, Upgrade(r)
        PROVE  TypeOK'
    BY <2>6 DEF Upgrade, Goto
  <2>7. ASSUME NEW r \in Requests, Serve(r)
        PROVE  TypeOK'
    BY <2>7 DEF Serve, Goto
  <2>8. ASSUME NEW r \in Requests, End(r)
        PROVE  TypeOK'
    BY <2>8 DEF End, Goto
  <2>9. CASE Tick
    <3>1. age' \in [Keys -> 0..MaxAge]
      BY <2>9 DEF Tick, AddAge, MaxAge
    <3>2. phase' \in 0..(Interval - 1) /\ tick' \in BOOLEAN /\ prompt' \in BOOLEAN
      BY <2>9 DEF Tick
    <3> QED
      BY <2>9, <3>1, <3>2 DEF Tick
  <2>10. CASE Scan
    BY <2>10 DEF Scan
  <2>11. CASE Cancel \/ StopCleaning
    BY <2>11 DEF Cancel, StopCleaning
  <2>12. CASE UNCHANGED vars
    BY <2>12 DEF vars
  <2> QED
    BY <2>1, <2>2, <2>3, <2>4, <2>5, <2>6, <2>7, <2>8, <2>9, <2>10, <2>11, <2>12
    DEF Next, RequestStep
<1> QED
  BY <1>1, <1>2, PTL DEF Spec

(***************************************************************************)
(* KeyInv is inductive: a key enters the table once and leaves it with the *)
(* first request that asks for it.                                         *)
(***************************************************************************)
THEOREM KeyCorrect == Spec => []KeyInv
<1> USE KeysAssumption
<1>1. Init => KeyInv
  BY DEF Init, KeyInv, Held
<1>2. TypeOK /\ KeyInv /\ [Next]_vars => KeyInv'
  <2> SUFFICES ASSUME TypeOK, KeyInv, [Next]_vars
               PROVE  KeyInv'
    OBVIOUS
  <2> USE DEF KeyInv, Held, TypeOK, keyVars, timeVars, reqVars
  <2>1. ASSUME NEW k \in Keys, NEW u \in Users \cup {NoUser}, Stamp(k, u)
        PROVE  KeyInv'
    BY <2>1 DEF Stamp
  <2>2. ASSUME NEW k \in Keys, Store(k)
        PROVE  KeyInv'
    BY <2>2 DEF Store
  <2>3. ASSUME NEW k \in Keys, Purge(k)
        PROVE  KeyInv'
    BY <2>3 DEF Purge
  <2>4. ASSUME NEW r \in Requests, NEW k \in Keys, PopKey(r, k)
        PROVE  KeyInv'
    (* If the key was in the table nobody held it, and now r alone does. *)
    <3>1. \A q \in Requests : q # r => req'[q] = req[q]
      BY <2>4 DEF PopKey, Ask
    <3>2. /\ req'[r].key = k /\ (req'[r].at = "popped" <=> k \in keys)
          /\ req'[r].at \in {"popped", "done"}
          /\ req'[r].at = "popped" => req'[r].user = record[k]
      BY <2>4 DEF PopKey, Ask
    <3>3. /\ id' = id /\ connect' = connect /\ user' = user /\ record' = record
          /\ keys' = keys \ {k}
      BY <2>4 DEF PopKey, Ask
    <3>4. id[r] = 0
      BY <2>4 DEF PopKey, Ask
    <3> QED
      BY <3>1, <3>2, <3>3, <3>4
  <2>5. ASSUME NEW r \in Requests, UpgradeFails(r) \/ NoConnection(r)
        PROVE  KeyInv'
    <3>1. CASE UpgradeFails(r)
      BY <3>1 DEF UpgradeFails, Goto
    <3>2. CASE NoConnection(r)
      BY <3>2 DEF NoConnection, Goto
    <3> QED
      BY <2>5, <3>1, <3>2
  <2>6. ASSUME NEW r \in Requests, Upgrade(r)
        PROVE  KeyInv'
    BY <2>6 DEF Upgrade, Goto
  <2>7. ASSUME NEW r \in Requests, Serve(r) \/ End(r)
        PROVE  KeyInv'
    BY <2>7 DEF Serve, End, Goto
  <2>8. CASE Tick \/ Scan \/ Cancel \/ StopCleaning \/ UNCHANGED vars
    BY <2>8, TimeOnly DEF vars
  <2> QED
    BY <2>1, <2>2, <2>3, <2>4, <2>5, <2>6, <2>7, <2>8 DEF Next, RequestStep
<1> QED
  BY <1>1, <1>2, TypeCorrect, PTL DEF Spec

(***************************************************************************)
(* A stream URL is used by one request at most.                            *)
(***************************************************************************)
THEOREM SingleUseCorrect == Spec => []SingleUse
<1>1. TypeOK /\ KeyInv => SingleUse
  <2> SUFFICES ASSUME TypeOK, KeyInv, NEW k \in Keys
               PROVE  /\ Cardinality(Holders(k)) <= 1
                      /\ Holders(k) # {} => k \notin keys
    BY DEF SingleUse
  <2>1. \A r \in Holders(k) : r \in Requests /\ Held(r) /\ req[r].key = k
    BY DEF Holders, Held
  <2>2. CASE Holders(k) = {}
    BY <2>2, FS_EmptySet
  <2>3. ASSUME NEW r \in Holders(k)
        PROVE  Cardinality(Holders(k)) <= 1 /\ k \notin keys
    <3>1. Holders(k) = {r}
      BY <2>1 DEF KeyInv
    <3>2. Cardinality({r}) = 1
      BY FS_Singleton
    <3>3. k \notin keys
      BY <2>1 DEF KeyInv
    <3> QED
      BY <3>1, <3>2, <3>3
  <2> QED
    BY <2>2, <2>3
<1> QED
  BY <1>1, TypeCorrect, KeyCorrect, PTL

(***************************************************************************)
(* Whoever has a connection, or is about to, is served for the user that   *)
(* the key was given to, and that user was authenticated.                  *)
(***************************************************************************)
THEOREM ServedForUserCorrect == Spec => []ServedForUser
<1>1. KeyInv => ServedForUser
  BY DEF KeyInv, Held, ServedForUser
<1> QED
  BY <1>1, KeyCorrect, PTL

(***************************************************************************)
(* TimeInv is inductive: within a cycle of the ticker keys age with its    *)
(* phase, and the cleanup at its end takes out what has become too old.    *)
(***************************************************************************)
THEOREM TimeCorrect == Spec => []TimeInv
<1> USE KeysAssumption
<1>1. Init => TimeInv
  BY DEF Init, TimeInv
<1>2. TypeOK /\ KeyInv /\ TimeInv /\ [Next]_vars => TimeInv'
  <2> SUFFICES ASSUME TypeOK, KeyInv, TimeInv, [Next]_vars
               PROVE  TimeInv'
    OBVIOUS
  <2> USE DEF TimeInv, TypeOK, keyVars, timeVars, reqVars
  <2>1. ASSUME NEW k \in Keys, NEW u \in Users \cup {NoUser}, Stamp(k, u)
        PROVE  TimeInv'
    BY <2>1 DEF Stamp
  <2>2. ASSUME NEW k \in Keys, Store(k)
        PROVE  TimeInv'
    BY <2>2 DEF Store
  <2>3. ASSUME NEW k \in Keys, Purge(k)
        PROVE  TimeInv'
    BY <2>3 DEF Purge
  <2>4. ASSUME NEW r \in Requests, NEW k \in Keys, PopKey(r, k)
        PROVE  TimeInv'
    BY <2>4 DEF PopKey, Ask
  <2>5. ASSUME NEW r \in Requests, UpgradeFails(r) \/ Upgrade(r) \/ NoConnection(r)
                                   \/ Serve(r) \/ End(r)
        PROVE  TimeInv'
    BY <2>5, KeyUse
  <2>6. CASE Tick
    <3>1. \A k \in Keys : /\ age[k] \in Nat /\ age'[k] \in Nat
                          /\ age'[k] >= age[k] /\ age'[k] <= age[k] + 1
      BY <2>6 DEF Tick, AddAge
    <3>2. alive' = alive /\ cleaning' = cleaning /\ expired' = expired /\ keys' = keys
          /\ connect' = connect
      BY <2>6 DEF Tick
    <3>3. \A k \in expired' : age'[k] > Expiration
      BY <3>1, <3>2
    <3>4. ASSUME alive', prompt'
          PROVE  /\ prompt /\ ~tick /\ expired = {}
                 /\ \A k \in Keys : connect[k] # "stamped"
      <4>1. prompt /\ ~Pending
        BY <2>6, <3>4 DEF Tick
      <4>2. cleaning
        BY <3>2, <3>4
      <4> QED
        BY <4>1, <4>2 DEF Pending
    <3>5. phase \in Nat /\ phase' \in Nat
          /\ \/ phase' = 0 /\ tick' /\ phase + 1 = Interval
             \/ phase' = phase + 1 /\ (~tick => ~tick')
      <4>1. phase \in 0..(Interval - 1) /\ Interval \in Nat
        OBVIOUS
      <4>2. phase' = IF phase + 1 = Interval THEN 0 ELSE phase + 1
        BY <2>6 DEF Tick
      <4>3. tick' <=> tick \/ phase' = 0
        BY <2>6 DEF Tick
      <4> QED
        BY <4>1, <4>2, <4>3
    <3>6. ASSUME alive', prompt', NEW k \in Keys, connect[k] \in {"no", "stamped"}
          PROVE  age'[k] = 0
      BY <2>6, <3>2, <3>4, <3>6 DEF Tick
    <3>7. ASSUME alive', prompt', NEW k \in keys
          PROVE  age'[k] <= (IF tick' THEN Expiration + Interval ELSE Expiration + phase')
      BY <3>1, <3>2, <3>4, <3>5, <3>7
    <3> QED
      BY <3>2, <3>3, <3>4, <3>5, <3>6, <3>7
  <2>7. CASE Scan
    BY <2>7 DEF Scan
  <2>8. CASE Cancel \/ StopCleaning
    BY <2>8 DEF Cancel, StopCleaning
  <2>9. CASE UNCHANGED vars
    BY <2>9 DEF vars
  <2> QED
    BY <2>1, <2>2, <2>3, <2>4, <2>5, <2>6, <2>7, <2>8, <2>9 DEF Next, RequestStep
<1> QED
  BY <1>1, <1>2, TypeCorrect, KeyCorrect, PTL DEF Spec

(***************************************************************************)
(* In good time, no key is usable for longer than the expiration and one   *)
(* interval of the cleanup.                                                *)
(***************************************************************************)
THEOREM LifetimeBoundedCorrect == Spec => []LifetimeBounded
<1>1. TypeOK /\ TimeInv => LifetimeBounded
  BY KeysAssumption DEF TypeOK, TimeInv, LifetimeBounded
<1> QED
  BY <1>1, TypeCorrect, TimeCorrect, PTL

(***************************************************************************)
(* The cleanup removes expired keys only, however late it is.              *)
(***************************************************************************)
THEOREM PurgeSparesFreshCorrect == Spec => PurgeSparesFresh
<1> DEFINE Spares ==
      \A k \in keys \ keys' :
        age[k] > Expiration \/ \E r \in Requests : req'[r].at = "popped" /\ req'[r].key = k
<1>1. TypeOK /\ TimeInv /\ [Next]_vars => [Spares]_vars
  <2> SUFFICES ASSUME TypeOK, TimeInv, Next, NEW k \in keys, k \notin keys'
               PROVE  \/ age[k] > Expiration
                      \/ \E r \in Requests : req'[r].at = "popped" /\ req'[r].key = k
    OBVIOUS
  <2>1. ASSUME NEW j \in Keys, Purge(j)
        PROVE  age[k] > Expiration
    BY <2>1 DEF Purge, TimeInv
  <2>2. ASSUME NEW r \in Requests, NEW j \in Keys, PopKey(r, j)
        PROVE  req'[r].at = "popped" /\ req'[r].key = k
    <3>1. j = k
      BY <2>2 DEF PopKey
    <3> QED
      BY <2>2, <3>1 DEF PopKey, Ask, TypeOK
  <2>3. ASSUME NEW j \in Keys, Store(j) \/ \E u \in Users \cup {NoUser} : Stamp(j, u)
        PROVE  FALSE
    BY <2>3 DEF Store, Stamp
  <2>4. ASSUME NEW r \in Requests, UpgradeFails(r) \/ Upgrade(r) \/ NoConnection(r)
                                   \/ Serve(r) \/ End(r)
        PROVE  FALSE
    BY <2>4, KeyUse DEF keyVars
  <2>5. CASE Tick \/ Scan \/ Cancel \/ StopCleaning
    BY <2>5, TimeOnly DEF keyVars
  <2> QED
    BY <2>1, <2>2, <2>3, <2>4, <2>5 DEF Next, RequestStep
<1> QED
  BY <1>1, TypeCorrect, TimeCorrect, PTL DEF Spec, PurgeSparesFresh

(***************************************************************************)
(* ActiveInv is inductive: the number a connection gets is above all       *)
(* numbers so far, and its end takes its own number out of the table.      *)
(***************************************************************************)
THEOREM ActiveCorrect == Spec => []ActiveInv
<1>1. Init => ActiveInv
  BY DEF Init, ActiveInv, Serving
<1>2. TypeOK /\ ActiveInv /\ [Next]_vars => ActiveInv'
  <2> SUFFICES ASSUME TypeOK, ActiveInv, [Next]_vars
               PROVE  ActiveInv'
    OBVIOUS
  <2> USE DEF TypeOK, ActiveInv, Serving, keyVars, timeVars, reqVars
  <2>1. ASSUME NEW k \in Keys, NEW u \in Users \cup {NoUser},
               Stamp(k, u) \/ Store(k) \/ Purge(k)
        PROVE  ActiveInv'
    BY <2>1 DEF Stamp, Store, Purge
  <2>2. ASSUME NEW r \in Requests, NEW k \in Keys, PopKey(r, k)
        PROVE  ActiveInv'
    <3>1. \A q \in Requests : req'[q].at = "serving" <=> req[q].at = "serving"
      BY <2>2 DEF PopKey, Ask
    <3> QED
      BY <2>2, <3>1 DEF PopKey, Ask
  <2>3. ASSUME NEW r \in Requests, UpgradeFails(r) \/ NoConnection(r)
        PROVE  ActiveInv'
    <3>1. \A q \in Requests : req'[q].at = "serving" <=> req[q].at = "serving"
      BY <2>3 DEF UpgradeFails, NoConnection, Goto
    <3> QED
      BY <2>3, <3>1 DEF UpgradeFails, NoConnection, Goto
  <2>4. ASSUME NEW r \in Requests, Upgrade(r)
        PROVE  ActiveInv'
    <3>1. \A q \in Requests : /\ req'[q].at = "serving" <=> req[q].at = "serving"
                              /\ id'[q] = IF q = r THEN count + 1 ELSE id[q]
      BY <2>4 DEF Upgrade, Goto
    <3>2. \A q \in Requests : id[q] \in Nat /\ id[q] <= count
      OBVIOUS
    <3>3. Serving' = Serving /\ r \notin Serving /\ active' = active
      BY <2>4, <3>1 DEF Upgrade, Goto
    <3>4. active' = {id'[q] : q \in Serving'}
      BY <3>1, <3>3
    <3>5. \A p, q \in Requests : id'[p] = id'[q] /\ id'[q] # 0 => p = q
      BY <3>1, <3>2
    <3> QED
      BY <3>4, <3>5
  <2>5. ASSUME NEW r \in Requests, Serve(r)
        PROVE  ActiveInv'
    <3>1. Serving' = Serving \cup {r}
      BY <2>5 DEF Serve, Goto
    <3> QED
      BY <2>5, <3>1 DEF Serve
  <2>6. ASSUME NEW r \in Requests, End(r)
        PROVE  ActiveInv'
    <3>1. Serving' = Serving \ {r}
      BY <2>6 DEF End, Goto
    <3>2. r \in Serving /\ id[r] # 0
      BY <2>6 DEF End, Goto
    <3> QED
      BY <2>6, <3>1, <3>2 DEF End
  <2>7. CASE Tick \/ Scan \/ Cancel \/ StopCleaning \/ UNCHANGED vars
    BY <2>7, TimeOnly DEF vars
  <2> QED
    BY <2>1, <2>2, <2>3, <2>4, <2>5, <2>6, <2>7, KeysAssumption DEF Next, RequestStep
<1> QED
  BY <1>1, <1>2, TypeCorrect, PTL DEF Spec

(***************************************************************************)
(* NumActive is the number of connections that are served: taking the      *)
(* number of a connection is a bijection from what is served to the table. *)
(***************************************************************************)
THEOREM ActiveIsServingCorrect == Spec => []ActiveIsServing
<1>1. TypeOK /\ ActiveInv => ActiveIsServing
  <2> SUFFICES ASSUME TypeOK, ActiveInv
               PROVE  Cardinality(active) = Cardinality(Serving)
    BY DEF ActiveIsServing, Serving
  <2> DEFINE holder == [n \in active |-> CHOOSE r \in Serving : id[r] = n]
  <2>1. IsFiniteSet(active)
    <3>1. IsFiniteSet(1..count)
      BY FS_Interval DEF TypeOK
    <3> QED
      BY <3>1, FS_Subset DEF TypeOK
  <2>2. \A n \in active : holder[n] \in Serving /\ id[holder[n]] = n
    BY DEF ActiveInv
  <2>3. \A r \in Serving : id[r] \in active /\ holder[id[r]] = r
    <3> SUFFICES ASSUME NEW r \in Serving
                 PROVE  id[r] \in active /\ holder[id[r]] = r
      OBVIOUS
    <3>1. id[r] \in active /\ id[r] # 0
      BY DEF ActiveInv, TypeOK, Serving
    <3>2. holder[id[r]] \in Serving /\ id[holder[id[r]]] = id[r]
      BY <2>2, <3>1
    <3> QED
      BY <3>1, <3>2 DEF ActiveInv, Serving
  <2> HIDE DEF holder
  <2>4. holder \in [active -> Serving]
    BY <2>2 DEF holder
  <2>5. holder \in Bijection(active, Serving)
    BY <2>2, <2>3, <2>4 DEF Bijection, Injection, Surjection, IsInjective
  <2>6. ExistsBijection(active, Serving)
    BY <2>5 DEF ExistsBijection
  <2> QED
    BY <2>1, <2>6, FS_Bijection
<1> QED
  BY <1>1, TypeCorrect, ActiveCorrect, PTL
===============================================================================
