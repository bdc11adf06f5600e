----------------------------- MODULE KvLifecycle -----------------------------
(***************************************************************************)
(* The life of the store of the kvs plugin: a goroutine of the plugin      *)
(* connects to the database, migrates it and prepares the statements,      *)
(* again and again until it succeeds; requests wait for that, or do not;   *)
(* Close may come at any time and races with both.                         *)
(*                                                                         *)
(* golang-migrate and database/sql are external: a migration marks the     *)
(* database dirty while it runs, GracefulStop is a channel of capacity 1,  *)
(* a closed handle makes every later use an error.                         *)
(***************************************************************************)
EXTENDS Naturals, FiniteSets

CONSTANTS
  StmtOps,   \* requests that use a prepared statement: Get, CreateOrUpdate, Delete
  BatchOps   \* batch requests

ASSUME LifecycleAssumption == StmtOps \cap BatchOps = {}

Ops == StmtOps \cup BatchOps

VARIABLES
  init,      \* where the initializing goroutine is
  handle,    \* the *sql.DB of the running attempt
  lost,      \* an open handle that nothing refers to any more
  migrate,   \* kv.migrate is set
  graceful,  \* a stop is buffered in kv.migrate.GracefulStop
  schema,    \* what the migrations have put into the database so far
  dirty,     \* a migration has failed half way
  db,        \* kv.db is set, to handle
  stmts,     \* kv.stmts is set, to statements of handle
  ready,     \* kv.initializing is closed
  locked,    \* Close holds the mutex
  close,     \* progress of KVSPlugin.Close and KV.Close
  op         \* op[o]: progress of request o

dbVars   == <<schema, dirty>>
kvVars   == <<migrate, graceful, db, stmts, ready>>
initVars == <<init, handle, lost>>
vars     == <<initVars, dbVars, kvVars, locked, close, op>>

TypeOK ==
  /\ init \in {"start", "open", "ping", "register", "version", "up", "finish",
               "retry", "end"}
  /\ handle \in {"none", "open", "closed"}
  /\ {lost, migrate, graceful, dirty, db, stmts, ready, locked} \subseteq BOOLEAN
  /\ schema \in {"none", "table", "full"}
  /\ close \in {"no", "called", "quit", "stmts", "done"}
  /\ locked <=> close \in {"quit", "stmts"}
  /\ op \in [Ops -> {"idle", "waiting", "reading", "starting", "executing",
                    "ok", "error", "crash"}]

Init ==
  /\ init = "start"
  /\ handle = "none"
  /\ lost = FALSE
  /\ migrate = FALSE
  /\ graceful = FALSE
  /\ schema \in {"none", "table", "full"}
  /\ dirty \in BOOLEAN
  /\ schema = "full" => ~dirty
  /\ db = FALSE
  /\ stmts = FALSE
  /\ ready = FALSE
  /\ locked = FALSE
  /\ close = "no"
  /\ op = [o \in Ops |-> "idle"]

Quit == close \in {"quit", "stmts", "done"}     \* kv.quit is closed

-------------------------------------------------------------------------------
(* The goroutine of KVSPlugin.Initialize: Initialize and initialize. *)

At(from, to) == init = from /\ init' = to

(* An attempt fails: nothing closes its handle. *)
GiveUp == lost' = (lost \/ handle = "open") /\ handle' = "none"

Begin ==
  /\ At("start", IF Quit THEN "end" ELSE "open")
  /\ ~locked
  /\ UNCHANGED <<handle, lost, dbVars, kvVars, locked, close, op>>

Open ==
  /\ At("open", "ping")
  /\ handle' = "open"
  /\ UNCHANGED <<lost, dbVars, kvVars, locked, close, op>>

(* The database answers and the migrations can be read. *)
Ping ==
  /\ At("ping", "register")
  /\ UNCHANGED <<handle, lost, dbVars, kvVars, locked, close, op>>

(* kv.migrate is set, under the lock, to allow Close to stop it. *)
RegisterMigrate ==
  /\ ~locked
  /\ IF Quit
     THEN At("register", "end") /\ GiveUp /\ UNCHANGED migrate
     ELSE At("register", "version") /\ migrate' = TRUE /\ UNCHANGED <<handle, lost>>
  /\ graceful' = FALSE
  /\ UNCHANGED <<dbVars, db, stmts, ready, locked, close, op>>

Version ==
  /\ At("version", "up")
  /\ UNCHANGED <<handle, lost, dbVars, kvVars, locked, close, op>>

(* Any of these steps may fail. *)
Fail ==
  /\ \E from \in {"open", "ping", "version"} : At(from, "retry")
  /\ GiveUp
  /\ UNCHANGED <<dbVars, kvVars, locked, close, op>>

(* Up goes through the migrations and does nothing with a dirty database. *)
Migrate ==
  /\ At("up", "finish")
  /\ ~dirty
  /\ schema' = "full"
  /\ UNCHANGED <<handle, lost, dirty, kvVars, locked, close, op>>

(* A failed or stopped migration is only logged; a failed one leaves the
   database dirty.                                                         *)
MigrateFails ==
  /\ At("up", "finish")
  /\ IF dirty
     THEN UNCHANGED dbVars
     ELSE /\ schema' \in {schema} \cup (IF schema = "none" THEN {"table"} ELSE {})
          /\ dirty' \in IF schema = "full" THEN {FALSE} ELSE BOOLEAN
  /\ UNCHANGED <<handle, lost, kvVars, locked, close, op>>

(* A bug: kv.db is not set. *)
PublishStmts ==
  /\ stmts' = TRUE
  /\ ready' = TRUE
  /\ UNCHANGED <<handle, lost, db>>

(* kv.db, kv.stmts and the closed kv.initializing. *)
Publish ==
  /\ db' = TRUE
  /\ stmts' = TRUE
  /\ ready' = TRUE
  /\ UNCHANGED <<handle, lost>>

(* Two bugs: a failed preparation is ignored; the quit channel is ignored. *)
FinishUnprepared ==
  /\ ~locked
  /\ ~Quit
  /\ At("finish", "end")
  /\ migrate' = FALSE
  /\ Publish
  /\ UNCHANGED <<graceful, dbVars, locked, close, op>>

FinishUnchecked ==
  /\ ~locked
  /\ schema # "none"
  /\ At("finish", "end")
  /\ migrate' = FALSE
  /\ Publish
  /\ UNCHANGED <<graceful, dbVars, locked, close, op>>

(* The end of initialize, in one critical section: the statements can be
   prepared if the table is there.                                         *)
Finish ==
  /\ ~locked
  /\ ~Quit
  /\ schema # "none"
  /\ At("finish", "end")
  /\ migrate' = FALSE
  /\ Publish
  /\ UNCHANGED <<graceful, dbVars, locked, close, op>>

(* A bug: an error keeps the lock. *)
FinishFailsLocked ==
  /\ ~locked
  /\ ~Quit
  /\ At("finish", "retry")
  /\ locked' = TRUE
  /\ migrate' = FALSE
  /\ GiveUp
  /\ UNCHANGED <<graceful, dbVars, db, stmts, ready, close, op>>

(* The statements cannot be prepared. *)
FinishFails ==
  /\ ~locked
  /\ ~Quit
  /\ At("finish", "retry")
  /\ migrate' = FALSE
  /\ GiveUp
  /\ UNCHANGED <<graceful, dbVars, db, stmts, ready, locked, close, op>>

(* Close was here: initialize returns without a store. *)
FinishQuit ==
  /\ ~locked
  /\ Quit
  /\ At("finish", "end")
  /\ migrate' = FALSE
  /\ GiveUp
  /\ UNCHANGED <<graceful, dbVars, db, stmts, ready, locked, close, op>>

(* A bug: the first failure is the last attempt. *)
RetryNever ==
  /\ At("retry", "end")
  /\ UNCHANGED <<handle, lost, dbVars, kvVars, locked, close, op>>

(* The plugin waits before the next attempt, or ends: p.quit is closed.  (Its
   context ends later, or together with the process.)                      *)
Retry ==
  /\ \/ At("retry", "start")
     \/ At("retry", "end") /\ close # "no"
  /\ UNCHANGED <<handle, lost, dbVars, kvVars, locked, close, op>>

-------------------------------------------------------------------------------
(* KVSPlugin.Close and KV.Close. *)

CloseCall ==
  /\ close = "no"
  /\ close' = "called"
  /\ UNCHANGED <<initVars, dbVars, kvVars, locked, op>>

(* The lock, GracefulStop, cancel and quit. *)
CloseQuit ==
  /\ close = "called"
  /\ ~locked
  /\ migrate => ~graceful
  /\ locked' = TRUE
  /\ graceful' = migrate
  /\ close' = "quit"
  /\ UNCHANGED <<initVars, dbVars, migrate, db, stmts, ready, op>>

(* The statements are closed; that waits for the calls that use them. *)
CloseStmts ==
  /\ close = "quit"
  /\ \A o \in StmtOps : op[o] # "executing"
  /\ close' = "stmts"
  /\ UNCHANGED <<initVars, dbVars, kvVars, locked, op>>

CloseDB ==
  /\ close = "stmts"
  /\ close' = "done"
  /\ handle' = IF db THEN "closed" ELSE handle
  /\ db' = FALSE
  /\ stmts' = FALSE
  /\ locked' = FALSE
  /\ UNCHANGED <<init, lost, dbVars, migrate, graceful, ready, op>>

-------------------------------------------------------------------------------
(* Requests.  They read kv.db and kv.stmts without the lock. *)

OpStep(o, from, to) ==
  /\ op[o] = from
  /\ op' = [op EXCEPT ![o] = to]
  /\ UNCHANGED <<initVars, dbVars, kvVars, locked, close>>

Request(o) == o \in StmtOps /\ OpStep(o, "idle", "waiting")

(* KV.Stmt waits for kv.initializing, 5 seconds at most. *)
StmtWait(o) ==
  \/ ready /\ OpStep(o, "waiting", "reading")
  \/ OpStep(o, "waiting", "error")

StmtGet(o) == OpStep(o, "reading", IF stmts THEN "starting" ELSE "error")

(* A statement that has been closed since it was taken is an error. *)
StmtStart(o) ==
  OpStep(o, "starting", IF close \in {"stmts", "done"} THEN "error" ELSE "executing")

(* BatchCreateOrUpdate takes kv.db as it is: nil is dereferenced. *)
BatchBegin(o) ==
  o \in BatchOps /\ OpStep(o, "idle", IF db THEN "executing" ELSE "crash")

(* The database or a closed handle fails the operation; a transaction that has
   begun keeps its connection and may still commit.                        *)
Execute(o) == \E outcome \in {"ok", "error"} : OpStep(o, "executing", outcome)

-------------------------------------------------------------------------------

InitStep ==
  \/ Begin \/ Open \/ Ping \/ RegisterMigrate \/ Version \/ Fail
  \/ Migrate \/ MigrateFails \/ Finish \/ FinishFails \/ FinishQuit \/ Retry

CloseStep == CloseQuit \/ CloseStmts \/ CloseDB

Next ==
  \/ InitStep
  \/ CloseCall \/ CloseStep
  \/ \E o \in Ops : \/ Request(o) \/ StmtWait(o) \/ StmtGet(o) \/ StmtStart(o)
                    \/ BatchBegin(o) \/ Execute(o)

Spec == Init /\ [][Next]_vars

(* Both goroutines go on when they can; the mutex is fair.  Of a database
   that is tried again and again each step succeeds some time, and a call of
   a statement returns.                                                    *)
FairSpec ==
  /\ Spec
  /\ WF_vars(InitStep) /\ SF_vars(CloseStep)
  /\ SF_vars(Open) /\ SF_vars(Ping) /\ SF_vars(Version)
  /\ SF_vars(Migrate) /\ SF_vars(Finish)
  /\ \A o \in StmtOps : WF_vars(Execute(o))

-------------------------------------------------------------------------------
(* Properties. *)

(* Close is final: the goroutine that was connecting when Close ran does not
   bring the store back (the comment "Continue locked to allow clean shut
   down" of initialize).                                                   *)
ClosedForGood == close = "done" => /\ ~db /\ ~stmts
                                   /\ ready => handle = "closed"

(* What KV.Stmt takes for "All good, initialized." is good: until Close there
   are a handle, statements of it, and a table to use them on.             *)
ReadyMeansUsable ==
  ready /\ close \in {"no", "called"} =>
    db /\ stmts /\ handle = "open" /\ schema # "none" /\ init = "end"

(* A batch, which waits for nothing, crashes only while the store is not
   initialized or after Close; never in between.                           *)
NoCrashInService ==
  [][(\E o \in Ops : op[o] # "crash" /\ op'[o] = "crash")
       => ~ready \/ close = "done"]_vars

(* Close is held up neither by the goroutine that connects and migrates nor
   by requests, and that goroutine ends after Close.                       *)
CloseReturns == close = "called" ~> close = "done" /\ init = "end"

(* The store becomes ready however often attempts have failed, unless it is
   closed; or the very first migration has failed half way, as no attempt
   repairs that.                                                           *)
ReadyEventually == <>(ready \/ close # "no" \/ (dirty /\ schema = "none"))

(* Why: an attempt on its way has a handle and nothing is published; what is
   published is the outcome of the last attempt, and only Close takes it away.
   With TypeOK this is inductive, and it implies the first two above.      *)
StoreInv ==
  /\ init \in {"ping", "register", "version", "up", "finish"} => handle = "open"
  /\ ready => init = "end"
  /\ stmts <=> db
  /\ db <=> ready /\ close # "done"
  /\ db => handle = "open" /\ schema # "none"
  /\ ready /\ close = "done" => handle = "closed"

(* Only an attempt that fails, or finds the store closed, loses its handle:
   from when the store is ready Close has all there is to close.           *)
LosesNoneInService == [][ready => lost' = lost]_vars

(* "Close closes the accociated KV including everything in it." (kv.go:220) *)
EverythingClosed == close = "done" /\ init = "end" => ~lost
===============================================================================
