-------------------------- MODULE KvLifecycleProofs --------------------------
(***************************************************************************)
(* Proofs about the life of the kvs store, for any number of requests of   *)
(* both kinds and any number of attempts to initialize.                    *)
(***************************************************************************)
EXTENDS KvLifecycle, TLAPS

(***************************************************************************)
(* The state is well typed; the mutex is held from the moment Close has it *)
(* until it has closed the handle, and at no other time between steps.     *)
(***************************************************************************)
THEOREM TypeCorrect == Spec => []TypeOK
<1>1. Init => TypeOK
  BY DEF Init, TypeOK
<1>2. TypeOK /\ [Next]_vars => TypeOK'
  <2> SUFFICES ASSUME TypeOK, [Next]_vars
               PROVE  TypeOK'
    OBVIOUS
  <2>1. CASE InitStep
    <3> USE DEF TypeOK, At, GiveUp, Publish, dbVars, kvVars
    <3>1. CASE Begin
      BY <3>1 DEF Begin, Quit
    <3>2. CASE Open \/ Ping \/ Version \/ Retry
      BY <3>2 DEF Open, Ping, Version, Retry
    <3>3. CASE RegisterMigrate
      BY <3>3 DEF RegisterMigrate
    <3>4. CASE Fail
      BY <3>4 DEF Fail
    <3>5. CASE Migrate
      BY <3>5 DEF Migrate
    <3>6. CASE MigrateFails
      BY <3>6 DEF MigrateFails
    <3>7. CASE Finish
      BY <3>7 DEF Finish
    <3>8. CASE FinishFails
      BY <3>8 DEF FinishFails
    <3>9. CASE FinishQuit
      BY <3>9 DEF FinishQuit
    <3> QED
      BY <2>1, <3>1, <3>2, <3>3, <3>4, <3>5, <3>6, <3>7, <3>8, <3>9 DEF InitStep
  <2>2. CASE CloseCall \/ CloseStep
    <3> USE DEF TypeOK, initVars, dbVars, kvVars
    <3>1. CASE CloseCall
      BY <3>1 DEF CloseCall
    <3>2. CASE CloseQuit
      BY <3>2 DEF CloseQuit
    <3>3. CASE CloseStmts
      BY <3>3 DEF CloseStmts
    <3>4. CASE CloseDB
      BY <3>4 DEF CloseDB
    <3> QED
      BY <2>2, <3>1, <3>2, <3>3, <3>4 DEF CloseStep
  <2>3. ASSUME NEW o \in Ops,
               Request(o) \/ StmtWait(o) \/ StmtGet(o) \/ StmtStart(o) \/ BatchBegin(o) \/ Execute(o)
        PROVE  TypeOK'
    BY <2>3 DEF TypeOK, Request, StmtWait, StmtGet, StmtStart, BatchBegin, Execute, OpStep,
                initVars, dbVars, kvVars
  <2>4. CASE UNCHANGED vars
    BY <2>4 DEF TypeOK, vars, initVars, dbVars, kvVars
  <2> QED
    BY <2>1, <2>2, <2>3, <2>4 DEF Next
<1> QED
  BY <1>1, <1>2, PTL DEF Spec

(***************************************************************************)
(* StoreInv is inductive: attempts come to their end before anything is    *)
(* published, and what is published goes with Close and never comes back.  *)
(***************************************************************************)
THEOREM StoreCorrect == Spec => []StoreInv
<1>1. Init => StoreInv
  BY DEF Init, StoreInv
<1>2. TypeOK /\ StoreInv /\ [Next]_vars => StoreInv'
  <2> SUFFICES ASSUME TypeOK, StoreInv, [Next]_vars
               PROVE  StoreInv'
    OBVIOUS
  <2>1. CASE InitStep
    <3> USE DEF StoreInv, At, GiveUp, dbVars, kvVars
    <3>1. CASE Begin \/ Open \/ Ping \/ Version \/ Retry
      BY <3>1 DEF Begin, Open, Ping, Version, Retry
    <3>2. CASE RegisterMigrate
      BY <3>2 DEF RegisterMigrate
    <3>3. CASE Fail
      BY <3>3 DEF Fail
    <3>4. CASE Migrate
      BY <3>4 DEF Migrate
    <3>5. CASE MigrateFails
      BY <3>5 DEF MigrateFails
    <3>6. CASE Finish
      (* Close has not begun its work: it cannot be done. *)
      BY <3>6 DEF Finish, Publish, Quit
    <3>7. CASE FinishFails \/ FinishQuit
      BY <3>7 DEF FinishFails, FinishQuit
    <3> QED
      BY <2>1, <3>1, <3>2, <3>3, <3>4, <3>5, <3>6, <3>7 DEF InitStep
  <2>2. CASE CloseCall \/ CloseQuit \/ CloseStmts
    BY <2>2 DEF StoreInv, CloseCall, CloseQuit, CloseStmts, initVars, dbVars, kvVars
  <2>3. CASE CloseDB
    BY <2>3 DEF StoreInv, TypeOK, CloseDB, dbVars
  <2>4. ASSUME NEW o \in Ops,
               Request(o) \/ StmtWait(o) \/ StmtGet(o) \/ StmtStart(o) \/ BatchBegin(o) \/ Execute(o)
        PROVE  StoreInv'
    BY <2>4 DEF StoreInv, Request, StmtWait, StmtGet, StmtStart, BatchBegin, Execute, OpStep,
                initVars, dbVars, kvVars
  <2>5. CASE UNCHANGED vars
    BY <2>5 DEF StoreInv, vars, initVars, dbVars, kvVars
  <2> QED
    BY <2>1, <2>2, <2>3, <2>4, <2>5 DEF Next, CloseStep
<1> QED
  BY <1>1, <1>2, TypeCorrect, PTL DEF Spec

(***************************************************************************)
(* After Close no attempt brings the store back.                           *)
(***************************************************************************)
THEOREM ClosedForGoodCorrect == Spec => []ClosedForGood
<1>1. StoreInv => ClosedForGood
  BY DEF StoreInv, ClosedForGood
<1> QED
  BY <1>1, StoreCorrect, PTL

(***************************************************************************)
(* A request that does not have to wait any more finds a handle, statements *)
(* and a table, until Close.                                               *)
(***************************************************************************)
THEOREM ReadyMeansUsableCorrect == Spec => []ReadyMeansUsable
<1>1. StoreInv => ReadyMeansUsable
  BY DEF StoreInv, ReadyMeansUsable
<1> QED
  BY <1>1, StoreCorrect, PTL

(***************************************************************************)
(* A batch crashes before the store is ready or after Close, never between. *)
(***************************************************************************)
THEOREM NoCrashInServiceCorrect == Spec => NoCrashInService
<1> DEFINE Safe ==
      (\E o \in Ops : op[o] # "crash" /\ op'[o] = "crash") => ~ready \/ close = "done"
<1>1. TypeOK /\ StoreInv /\ [Next]_vars => [Safe]_vars
  <2> SUFFICES ASSUME TypeOK, StoreInv, Next,
                      NEW o \in Ops, op[o] # "crash", op'[o] = "crash"
               PROVE  ~ready \/ close = "done"
    OBVIOUS
  <2>1. CASE InitStep \/ CloseCall \/ CloseStep
    <3>1. op' = op
      BY <2>1 DEF InitStep, CloseStep, Begin, Open, Ping, RegisterMigrate, Version, Fail,
                  Migrate, MigrateFails, Finish, FinishFails, FinishQuit, Retry,
                  CloseCall, CloseQuit, CloseStmts, CloseDB
    <3> QED
      BY <3>1
  <2>2. ASSUME NEW p \in Ops, Request(p) \/ StmtWait(p) \/ StmtGet(p) \/ StmtStart(p) \/ Execute(p)
        PROVE  FALSE
    BY <2>2 DEF TypeOK, Request, StmtWait, StmtGet, StmtStart, Execute, OpStep
  <2>3. ASSUME NEW p \in Ops, BatchBegin(p)
        PROVE  ~db
    BY <2>3 DEF TypeOK, BatchBegin, OpStep
  <2> QED
    BY <2>1, <2>2, <2>3 DEF Next, StoreInv
<1> QED
  BY <1>1, TypeCorrect, StoreCorrect, PTL DEF Spec, NoCrashInService

(***************************************************************************)
(* A database handle is lost before the store is ready or never: Close     *)
(* has every handle of a store in service.                                 *)
(***************************************************************************)
THEOREM LosesNoneInServiceCorrect == Spec => LosesNoneInService
<1>1. StoreInv /\ [Next]_vars => [ready => lost' = lost]_vars
  <2> SUFFICES ASSUME StoreInv, Next, ready
               PROVE  lost' = lost
    OBVIOUS
  <2>1. init = "end"
    BY DEF StoreInv
  <2>2. ~InitStep
    BY <2>1 DEF InitStep, Begin, Open, Ping, RegisterMigrate, Fail, Version, Migrate, MigrateFails,
       Finish, FinishFails, FinishQuit, Retry, At
  <2>3. CASE CloseCall \/ CloseStep
    BY <2>3 DEF CloseCall, CloseStep, CloseQuit, CloseStmts, CloseDB, initVars
  <2>4. ASSUME NEW o \in Ops,
               Request(o) \/ StmtWait(o) \/ StmtGet(o) \/ StmtStart(o) \/ BatchBegin(o) \/ Execute(o)
        PROVE  lost' = lost
    BY <2>4 DEF Request, StmtWait, StmtGet, StmtStart, BatchBegin, Execute, OpStep, initVars
  <2> QED
    BY <2>2, <2>3, <2>4 DEF Next
<1> QED
  BY <1>1, StoreCorrect, PTL DEF Spec, LosesNoneInService
===============================================================================
