--------------------------- MODULE ServerLifecycle ---------------------------
(***************************************************************************)
(* Server.Serve: the plugins are loaded and initialized one by one, the    *)
(* HTTP listener runs in a goroutine of its own, an error or a signal      *)
(* starts the shutdown, which stops the listener, closes the plugins and   *)
(* waits for the goroutine.                                                *)
(*                                                                         *)
(* A plugin is its Initialize, its Close and the goroutines ("finders", of *)
(* the grapi plugin) that may report an error to the server later on.  Its *)
(* Close returns here; KvLifecycle and PubsStream look into that.          *)
(***************************************************************************)
EXTENDS Naturals, Sequences, FiniteSets

CONSTANTS
  Registered,  \* ids of the plugins that registered themselves
  Enabled,     \* ids given with --plugins; empty enables all
  Finders,     \* goroutines that may send to errCh
  Owner,       \* Owner[f]: the plugin that starts f
  ErrCap,      \* capacity of errCh, 2
  Requests     \* HTTP requests

ASSUME ServerAssumption ==
  /\ Registered \subseteq STRING /\ IsFiniteSet(Registered)
  /\ Enabled \in Seq(STRING)
  /\ Owner \in [Finders -> Registered]
  /\ ErrCap \in Nat \ {0}

VARIABLES
  plugins,   \* s.plugins
  main,      \* where Serve is
  next,      \* the plugin Serve initializes or closes next
  inits,     \* inits[p]: how often p was initialized
  closes,    \* closes[p]: how often p was closed
  finder,    \* finder[f]: where finder f is
  errors,    \* number of errors in errCh
  http,      \* where the listener goroutine is; "exited" has closed exitCh
  down,      \* srv.Shutdown: not called yet, called, how it has returned
  cause,     \* why Serve left its select
  req        \* req[r]: progress of request r; "accepted" is its connection

pluginVars == <<plugins, inits, closes>>
mainVars   == <<main, next, cause>>
vars       == <<pluginVars, mainVars, finder, errors, http, down, req>>

TypeOK ==
  /\ plugins \in Seq(Registered)
  /\ main \in {"init", "oidc", "listen", "select", "shutdown", "drain", "close",
               "wait", "returned"}
  /\ next \in 1..(Len(plugins) + 1)
  /\ inits \in [Registered -> 0..Len(plugins)]
  /\ closes \in [Registered -> 0..Len(plugins)]
  /\ finder \in [Finders -> {"off", "run", "sending", "done"}]
  /\ errors \in 0..ErrCap
  /\ http \in {"off", "serving", "stopped", "exited"}
  /\ down \in {"no", "called", "clean", "timeout"}
  /\ cause \in {"none", "error", "signal"}
  /\ req \in [Requests -> {"new", "accepted", "open", "done"}]

(* The --plugins flag: "none" among its ids leaves no list of ids. *)
NoneEnabled == \E i \in DOMAIN Enabled : Enabled[i] = "none"

Lists(n) == UNION {[1..k -> Registered] : k \in 0..n}

Distinct(s) == \A i, j \in DOMAIN s : s[i] = s[j] => i = j

(* All registered plugins in any order (that of a Go map) if no id is given,
   otherwise those given and registered, in the order given.               *)
LoadPlugins ==
  IF Enabled = <<>>
  THEN {s \in [1..Cardinality(Registered) -> Registered] : Distinct(s)}
  ELSE {s \in Lists(Len(Enabled)) :
          s = SelectSeq(Enabled, LAMBDA id : id \in Registered)}

Init ==
  /\ plugins \in IF NoneEnabled THEN {<<>>} ELSE LoadPlugins
  /\ main = "init"
  /\ next = 1
  /\ inits = [p \in Registered |-> 0]
  /\ closes = [p \in Registered |-> 0]
  /\ finder = [f \in Finders |-> "off"]
  /\ errors = 0
  /\ http = "off"
  /\ down = "no"
  /\ cause = "none"
  /\ req = [r \in Requests |-> "new"]

-------------------------------------------------------------------------------
(* The body of Serve. *)

Goto(from, to) == main = from /\ main' = to

InitializePlugin ==
  /\ main = "init"
  /\ next <= Len(plugins)
  /\ next' = next + 1
  /\ inits' = [inits EXCEPT ![plugins[next]] = @ + 1]
  /\ finder' = [f \in Finders |-> IF Owner[f] = plugins[next] THEN "run" ELSE finder[f]]
  /\ UNCHANGED <<plugins, closes, main, cause, errors, http, down, req>>

(* Serve returns with an error, nothing is closed; the process ends. *)
StartFails ==
  /\ \/ Goto("init", "returned") /\ next <= Len(plugins)
     \/ Goto("oidc", "returned")
     \/ Goto("listen", "returned")
  /\ UNCHANGED <<pluginVars, next, cause, finder, errors, http, down, req>>

InitializeOIDC ==
  /\ \/ Goto("init", "oidc") /\ next > Len(plugins)
     \/ Goto("oidc", "listen")
  /\ UNCHANGED <<pluginVars, next, cause, finder, errors, http, down, req>>

(* A bug: the listener starts while OIDC and plugins are still to come. *)
ListenEarly ==
  /\ main = "init"
  /\ http = "off"
  /\ http' = "serving"
  /\ main' = "select"
  /\ UNCHANGED <<pluginVars, next, cause, finder, errors, down, req>>

Listen ==
  /\ Goto("listen", "select")
  /\ http' = "serving"
  /\ UNCHANGED <<pluginVars, next, cause, finder, errors, down, req>>

OnError ==
  /\ Goto("select", "shutdown")
  /\ errors > 0
  /\ errors' = errors - 1
  /\ cause' = "error"
  /\ UNCHANGED <<pluginVars, next, finder, http, down, req>>

(* A bug: a signal ends the plugins but not the listener. *)
OnSignalClose ==
  /\ Goto("select", "close")
  /\ cause' = "signal"
  /\ next' = 1
  /\ UNCHANGED <<pluginVars, finder, errors, http, down, req>>

(* signalCh has no buffer: only a waiting receiver gets a signal. *)
OnSignal ==
  /\ Goto("select", "shutdown")
  /\ cause' = "signal"
  /\ UNCHANGED <<pluginVars, next, finder, errors, http, down, req>>

(* A bug: the plugins are closed without stopping the listener first. *)
ShutdownLate ==
  /\ Goto("shutdown", "close")
  /\ next' = 1
  /\ UNCHANGED <<pluginVars, cause, finder, errors, http, down, req>>

(* A bug: the first plugin may be skipped. *)
DrainedSkip ==
  /\ Goto("drain", "close")
  /\ next' \in {1, 2} \cap 1..(Len(plugins) + 1)
  /\ UNCHANGED <<pluginVars, cause, finder, errors, http, down, req>>

(* A bug: srv.Shutdown is left to a goroutine, and nobody waits for it. *)
ShutdownAside ==
  /\ Goto("shutdown", "close")
  /\ down' = "called"
  /\ next' = 1
  /\ UNCHANGED <<pluginVars, cause, finder, errors, http, req>>

(* srv.Shutdown closes the listener ... *)
Shutdown ==
  /\ Goto("shutdown", "drain")
  /\ down' = "called"
  /\ UNCHANGED <<pluginVars, next, cause, finder, errors, http, req>>

(* ... and waits for the connections and their requests, 10 seconds at most. *)
UnderWay == {r \in Requests : req[r] \in {"accepted", "open"}}

Drained ==
  /\ Goto("drain", "close")
  /\ down' = IF UnderWay = {} THEN "clean" ELSE "timeout"
  /\ next' = 1
  /\ UNCHANGED <<pluginVars, cause, finder, errors, http, req>>

ClosePlugin ==
  /\ main = "close"
  /\ next <= Len(plugins)
  /\ next' = next + 1
  /\ closes' = [closes EXCEPT ![plugins[next]] = @ + 1]
  /\ UNCHANGED <<plugins, inits, main, cause, finder, errors, http, down, req>>

CancelContext ==
  /\ Goto("close", "wait")
  /\ next > Len(plugins)
  /\ UNCHANGED <<pluginVars, next, cause, finder, errors, http, down, req>>

(* The loop sees exitCh closed, or a further signal. *)
Exit ==
  /\ Goto("wait", "returned")
  /\ http = "exited"
  /\ UNCHANGED <<pluginVars, next, cause, finder, errors, http, down, req>>

SecondSignal ==
  /\ Goto("wait", "returned")
  /\ UNCHANGED <<pluginVars, next, cause, finder, errors, http, down, req>>

-------------------------------------------------------------------------------
(* The listener goroutine, finders and requests; they end with the process. *)

Running == main # "returned"

(* srv.Serve returns, always with an error. *)
ServeStops ==
  /\ Running
  /\ http = "serving"
  /\ http' = "stopped"
  /\ UNCHANGED <<pluginVars, mainVars, finder, errors, down, req>>

(* errCh <- serveErr waits for room; then exitCh is closed. *)
ServeExits ==
  /\ Running
  /\ http = "stopped"
  /\ errors < ErrCap
  /\ errors' = errors + 1
  /\ http' = "exited"
  /\ UNCHANGED <<pluginVars, mainVars, finder, down, req>>

(* A finder succeeds or fails; closing its plugin ends it, and so does the
   cancelled context.                                                      *)
FinderStops(f) ==
  /\ Running
  /\ finder[f] = "run"
  /\ finder' = [finder EXCEPT ![f] = "done"]
  /\ UNCHANGED <<pluginVars, mainVars, errors, http, down, req>>

FinderFails(f) ==
  /\ Running
  /\ finder[f] = "run"
  /\ finder' = [finder EXCEPT ![f] = "sending"]
  /\ UNCHANGED <<pluginVars, mainVars, errors, http, down, req>>

FinderSends(f) ==
  /\ Running
  /\ finder[f] = "sending"
  /\ errors < ErrCap
  /\ errors' = errors + 1
  /\ finder' = [finder EXCEPT ![f] = "done"]
  /\ UNCHANGED <<pluginVars, mainVars, http, down, req>>

(* net/http: the listener takes a connection; its request, if one comes, is
   dispatched, whatever has become of the listener meanwhile.              *)
Accept(r) ==
  /\ Running
  /\ http = "serving" /\ down = "no"
  /\ req[r] = "new"
  /\ req' = [req EXCEPT ![r] = "accepted"]
  /\ UNCHANGED <<pluginVars, mainVars, finder, errors, http, down>>

Hangup(r) ==
  /\ Running
  /\ req[r] = "accepted"
  /\ req' = [req EXCEPT ![r] = "new"]
  /\ UNCHANGED <<pluginVars, mainVars, finder, errors, http, down>>

Request(r) ==
  /\ Running
  /\ req[r] = "accepted"
  /\ req' = [req EXCEPT ![r] = "open"]
  /\ UNCHANGED <<pluginVars, mainVars, finder, errors, http, down>>

Respond(r) ==
  /\ Running
  /\ req[r] = "open"
  /\ req' = [req EXCEPT ![r] = "done"]
  /\ UNCHANGED <<pluginVars, mainVars, finder, errors, http, down>>

-------------------------------------------------------------------------------

ServeOn ==
  \/ StartFails \/ InitializeOIDC \/ Listen
  \/ OnError \/ Shutdown \/ Drained \/ ClosePlugin \/ CancelContext \/ Exit

Serve == InitializePlugin \/ ServeOn

Signal == OnSignal \/ SecondSignal

FinderStep(f) == FinderStops(f) \/ FinderFails(f) \/ FinderSends(f)

Next ==
  \/ Serve
  \/ Signal
  \/ ServeStops \/ ServeExits
  \/ \E f \in Finders : FinderStep(f)
  \/ \E r \in Requests : Accept(r) \/ Hangup(r) \/ Request(r) \/ Respond(r)

Spec == Init /\ [][Next]_vars

(* Serve and the goroutines go on when they can; no signal need ever come, no
   request needs an answer, the listener stops when it is shut down.       *)
FairSpec ==
  /\ Spec
  /\ WF_vars(Serve)
  /\ WF_vars(down # "no" /\ ServeStops) /\ WF_vars(ServeExits)
  /\ \A f \in Finders : WF_vars(FinderStep(f))

-------------------------------------------------------------------------------
(* Properties. *)

(* A request that a handler has finds every plugin initialized, once, and none
   closed, also if it was dispatched during the shutdown.  ("clean server
   shutdown": only when Shutdown had to give up on requests after 10 seconds
   are plugins closed while requests use them.)                            *)
RequestsMeetPlugins ==
  \A r \in Requests : req[r] = "open" =>
    \A i \in DOMAIN plugins : /\ inits[plugins[i]] = 1
                              /\ down # "timeout" => closes[plugins[i]] = 0

(* When Serve has served and returns, every plugin was closed, and none twice:
   their Close closes channels, which panics or blocks the second time.
   (Registry and loadPlugins see to that unless an id is given twice.)     *)
EachClosedOnce ==
  /\ \A p \in Registered : closes[p] <= inits[p] /\ closes[p] <= 1
  /\ main = "returned" /\ http # "off" =>
       \A p \in Registered : closes[p] = inits[p]

(* An error, of the listener or of a plugin, ends Serve: no sender fills errCh
   for the listener goroutine, as one error has been taken out.            *)
ErrorEndsServe == cause = "error" ~> main = "returned"

(* A signal ends Serve too, unless errCh is full: nobody receives from it any
   more, and the listener goroutine, and with it Serve, waits for ever.    *)
SignalEndsServe ==
  cause = "signal" ~> main = "returned" \/ (errors = ErrCap /\ http = "stopped")
===============================================================================
