------------------------------ MODULE GrapiProxy ------------------------------
(***************************************************************************)
(* How the grapi plugin finds its workers: a fleet of worker processes,    *)
(* started, stopped and restarted on its own, creates socket files; one    *)
(* finder goroutine per kind of socket looks for them every second, and    *)
(* makes a proxy of what it has found once and for all.  HTTP requests     *)
(* take the proxy of their kind, if there is one.                          *)
(*                                                                         *)
(* Time passes in ticks.  A fleet creates its files in a burst of less     *)
(* than Burst ticks after the first one.                                   *)
(***************************************************************************)
EXTENDS Naturals

CONSTANTS
  Kinds,        \* "rest*.sock" and "notify*.sock"
  Workers,      \* names of socket files of a kind
  Requests,     \* HTTP requests
  Pause,        \* ticks between two looks, 1 second
  Burst,        \* the time a fleet takes to create its files
  MaxRestarts   \* bound of the model: times a fleet is restarted

ASSUME GrapiAssumption ==
  /\ Pause \in Nat \ {0}
  /\ Burst \in 1..Pause
  /\ MaxRestarts \in Nat

VARIABLES
  files,     \* files[k]: the socket files in the directory
  age,       \* age[k]: ticks since the first of them was created
  restarts,  \* restarts[k]: times the fleet was restarted
  finder,    \* finder[k]: where the finder goroutine is
  slept,     \* slept[k]: ticks it has waited
  init,      \* init[k]: it has seen files before
  found,     \* found[k]: the files it makes a proxy of
  proxy,     \* proxy[k]: p.defaultProxy or p.subscriptionProxy
  quit,      \* what has ended: the plugin (p.exitCh is closed), the context
  req        \* req[r]: kind and proxy of request r, and how it ended

fleetVars  == <<files, age, restarts>>
finderVars == <<finder, slept, init, found>>
vars       == <<fleetVars, finderVars, proxy, quit, req>>

NoProxy == {}     \* nil: a proxy is made of one worker at least
NoRequest == [at |-> "new"]

TypeOK ==
  /\ files \in [Kinds -> SUBSET Workers]
  /\ age \in [Kinds -> 0..Burst]
  /\ restarts \in [Kinds -> 0..MaxRestarts]
  /\ finder \in [Kinds -> {"looking", "waiting", "found", "done"}]
  /\ slept \in [Kinds -> 0..Pause]
  /\ init \in [Kinds -> BOOLEAN]
  /\ found \in [Kinds -> SUBSET Workers]
  /\ \A k \in Kinds : finder[k] = "found" => found[k] # {}
  /\ proxy \in [Kinds -> SUBSET Workers]
  /\ quit \subseteq {"plugin", "context"}
  /\ req \in [Requests ->
       {NoRequest}
       \cup [at : {"open", "proxied", "502"}, kind : Kinds,
             proxy : SUBSET Workers]]

Init ==
  /\ files = [k \in Kinds |-> {}]
  /\ age = [k \in Kinds |-> 0]
  /\ restarts = [k \in Kinds |-> 0]
  /\ finder = [k \in Kinds |-> "looking"]
  /\ slept = [k \in Kinds |-> 0]
  /\ init = [k \in Kinds |-> FALSE]
  /\ found = [k \in Kinds |-> {}]
  /\ proxy = [k \in Kinds |-> NoProxy]
  /\ quit = {}
  /\ req = [r \in Requests |-> NoRequest]

-------------------------------------------------------------------------------
(* The fleet, and time. *)

CreateFile(k, w) ==
  /\ age[k] < Burst
  /\ w \notin files[k]
  /\ files' = [files EXCEPT ![k] = @ \cup {w}]
  /\ UNCHANGED <<age, restarts, finderVars, proxy, quit, req>>

(* The fleet is stopped, or cleans up what its last run has left. *)
Restart(k) ==
  /\ restarts[k] < MaxRestarts
  /\ files[k] # {}
  /\ restarts' = [restarts EXCEPT ![k] = @ + 1]
  /\ files' = [files EXCEPT ![k] = {}]
  /\ age' = [age EXCEPT ![k] = 0]
  /\ UNCHANGED <<finderVars, proxy, quit, req>>

UpTo(n, max) == IF n < max THEN n + 1 ELSE n

Tick ==
  /\ age' = [k \in Kinds |-> IF files[k] = {} THEN 0 ELSE UpTo(age[k], Burst)]
  /\ slept' = [k \in Kinds |-> IF finder[k] = "waiting" THEN UpTo(slept[k], Pause)
                                                       ELSE slept[k]]
  /\ UNCHANGED <<files, restarts, finder, init, found, proxy, quit, req>>

-------------------------------------------------------------------------------
(* A finder: initializeProxy and the goroutine of Initialize. *)

Goto(k, from, to) == finder[k] = from /\ finder' = [finder EXCEPT ![k] = to]

(* There is no directory or no file in it. *)
LookInVain(k) ==
  /\ Goto(k, "looking", "waiting")
  /\ files[k] = {}
  /\ UNCHANGED <<fleetVars, slept, init, found, proxy, quit, req>>

(* Three bugs: no file at all is taken for some; there is no second look;
   every look is a first one.                                              *)
LookEmpty(k) ==
  /\ IF init[k]
     THEN /\ Goto(k, "looking", "found")
          /\ found' = [found EXCEPT ![k] = files[k]]
          /\ UNCHANGED init
     ELSE /\ Goto(k, "looking", "waiting")
          /\ init' = [init EXCEPT ![k] = TRUE]
          /\ UNCHANGED found
  /\ UNCHANGED <<fleetVars, slept, proxy, quit, req>>

LookOnce(k) ==
  /\ Goto(k, "looking", "found")
  /\ files[k] # {}
  /\ found' = [found EXCEPT ![k] = files[k]]
  /\ UNCHANGED <<fleetVars, slept, init, proxy, quit, req>>

LookForever(k) ==
  /\ Goto(k, "looking", "waiting")
  /\ files[k] # {}
  /\ UNCHANGED <<fleetVars, slept, init, found, proxy, quit, req>>

(* The first time it sees files it only takes notice. *)
Look(k) ==
  /\ files[k] # {}
  /\ IF init[k]
     THEN /\ Goto(k, "looking", "found")
          /\ found' = [found EXCEPT ![k] = files[k]]
          /\ UNCHANGED init
     ELSE /\ Goto(k, "looking", "waiting")
          /\ init' = [init EXCEPT ![k] = TRUE]
          /\ UNCHANGED found
  /\ UNCHANGED <<fleetVars, slept, proxy, quit, req>>

(* After a second it looks again. *)
Wake(k) ==
  /\ Goto(k, "waiting", "looking")
  /\ slept[k] = Pause
  /\ slept' = [slept EXCEPT ![k] = 0]
  /\ UNCHANGED <<fleetVars, init, found, proxy, quit, req>>

(* A bug: only the context ends the finder. *)
LeaveWithContext(k) ==
  /\ Goto(k, "waiting", "done")
  /\ "context" \in quit
  /\ UNCHANGED <<fleetVars, slept, init, found, proxy, quit, req>>

(* When the plugin or the context ends, so does the finder. *)
Leave(k) ==
  /\ Goto(k, "waiting", "done")
  /\ quit # {}
  /\ UNCHANGED <<fleetVars, slept, init, found, proxy, quit, req>>

(* A bug: the finder looks again after it has installed a proxy. *)
InstallAgain(k) ==
  /\ Goto(k, "found", "looking")
  /\ proxy' = [proxy EXCEPT ![k] = found[k]]
  /\ UNCHANGED <<fleetVars, slept, init, found, quit, req>>

Install(k) ==
  /\ Goto(k, "found", "done")
  /\ proxy' = [proxy EXCEPT ![k] = found[k]]
  /\ UNCHANGED <<fleetVars, slept, init, found, quit, req>>

(* httpproxy.New fails; the error goes to the server. *)
InstallFails(k) ==
  /\ Goto(k, "found", "done")
  /\ UNCHANGED <<fleetVars, slept, init, found, proxy, quit, req>>

(* Close, or the end of the server's context. *)
Close ==
  /\ \E what \in {"plugin", "context"} \ quit : quit' = quit \cup {what}
  /\ UNCHANGED <<fleetVars, finderVars, proxy, req>>

-------------------------------------------------------------------------------
(* Requests: handleDefaultV1 and handleSubscriptionsV1. *)

(* The proxy is read under the lock. *)
Request(r, k) ==
  /\ req[r] = NoRequest
  /\ req' = [req EXCEPT ![r] = [at |-> "open", kind |-> k, proxy |-> proxy[k]]]
  /\ UNCHANGED <<fleetVars, finderVars, proxy, quit>>

(* HandleWithProxy: an upstream answers, or there is none: the proxy fails,
   or handleNoProxy is called, with 502.                                   *)
Respond(r) ==
  /\ req[r].at = "open"
  /\ \E at \in {"proxied", "502"} :
       /\ at = "proxied" => req[r].proxy \cap files[req[r].kind] # {}
       /\ req' = [req EXCEPT ![r].at = at]
  /\ UNCHANGED <<fleetVars, finderVars, proxy, quit>>

-------------------------------------------------------------------------------

FinderStep(k) ==
  LookInVain(k) \/ Look(k) \/ Wake(k) \/ Leave(k) \/ Install(k) \/ InstallFails(k)

Next ==
  \/ \E k \in Kinds : Restart(k) \/ FinderStep(k) \/ \E w \in Workers : CreateFile(k, w)
  \/ Tick
  \/ Close
  \/ \E r \in Requests : Respond(r) \/ \E k \in Kinds : Request(r, k)

Spec == Init /\ [][Next]_vars

(* Time passes and the finders go on; one that finds both the second over and
   the plugin ended takes either at random, so not always the former.      *)
FairSpec ==
  Spec /\ WF_vars(Tick) /\ \A k \in Kinds : WF_vars(FinderStep(k)) /\ SF_vars(Leave(k))

-------------------------------------------------------------------------------
(* Properties. *)

(* What a request has read under the lock stays right while it is handled,
   whatever happens to the fleet: a proxy is never replaced or taken away. *)
SnapshotStays ==
  \A r \in Requests : req[r].at = "open" /\ req[r].proxy # NoProxy
                        => proxy[req[r].kind] = req[r].proxy

(* Workers that stay get a proxy, unless that is an error or the plugin ends. *)
ProxyAppears ==
  \A k \in Kinds : <>[](files[k] # {}) => <>(finder[k] = "done")

(* Closing the plugin ends its goroutines, wherever they are. *)
FinderEnds == \A k \in Kinds : quit # {} ~> finder[k] = "done"

(* With the second look no worker is ever left out, provided the fleet is not
   restarted.                                                              *)
EveryWorkerServes ==
  \A k \in Kinds : proxy[k] # NoProxy /\ restarts[k] = 0 => proxy[k] = files[k]

(* Why: a finder that has taken notice of files looks again when the fleet is
   complete, what it has found is complete, and it ends when it has made a
   proxy of that.  With TypeOK this is inductive, and it implies EveryWorkerServes
   and SnapshotStays.                                                      *)
Complete(k) == files[k] # {} /\ age[k] = Burst
FinderInv ==
  \A k \in Kinds :
    /\ finder[k] = "looking" => slept[k] = 0
    /\ proxy[k] # NoProxy => finder[k] = "done"
    /\ restarts[k] = 0 =>
         /\ init[k] => files[k] # {}
         /\ finder[k] = "waiting" /\ init[k] => Complete(k) \/ slept[k] <= age[k]
         /\ finder[k] = "looking" /\ init[k] => Complete(k)
         /\ finder[k] = "found" => Complete(k) /\ found[k] = files[k]
         /\ proxy[k] # NoProxy => Complete(k) /\ proxy[k] = files[k]
===============================================================================
