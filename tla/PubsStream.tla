------------------------------ MODULE PubsStream ------------------------------
(***************************************************************************)
(* The event stream of the pubs plugin (plugins/pubs): websocket clients   *)
(* and webhook requests publish to topics through one hub goroutine, which *)
(* copies every event into the buffered channel of each subscribed         *)
(* connection, from which that connection's forwarder goroutine sends it.  *)
(*                                                                         *)
(* Goroutines and the variable that holds their program counter:           *)
(*   - per connection the read pump (pump), which runs OnConnect, OnText   *)
(*     and OnDisconnect, and the forwarder (fwd) started by onSubInit;     *)
(*   - per webhook publish request its HTTP handler (hook);                *)
(*   - the hub of github.com/cskr/pubsub (running, todo, target, msg): it  *)
(*     receives commands on an unbuffered channel, so that a caller and    *)
(*     the hub meet in one step, and blocks while a channel is full;       *)
(*   - the caller of PubsPlugin.Close (stop).                              *)
(***************************************************************************)
EXTENDS Naturals, Sequences, FiniteSets

CONSTANTS
  Conns,      \* websocket connections; each one is opened once
  Flaky,      \* the connections whose peer may fail, leave or send garbage
  Hooks,      \* concurrent webhook publish requests
  Topics,     \* topics clients can name
  Broadcast,  \* p.broadcast: a random topic no client knows
  Capacity,   \* capacity of a subscriber channel, pubsub.New(256)
  MaxPub      \* bound of the model: publish requests issued

ASSUME StreamAssumption ==
  /\ Flaky \subseteq Conns
  /\ IsFiniteSet(Topics)
  /\ Broadcast \notin Topics
  /\ Capacity \in Nat \ {0}
  /\ MaxPub \in Nat

VARIABLES
  pump,       \* pump[c]: where the read pump of connection c is
  cmd,        \* cmd[c]: the client message the pump is handling
  up,         \* up[c]: the connection accepts data (RawSend succeeds)
  fwd,        \* fwd[c]: where the forwarder of c is
  chan,       \* chan[c]: the pubsub channel of c
  buf,        \* buf[c]: events buffered in that channel
  sent,       \* sent[c]: events handed to the connection, oldest first
  subs,       \* subs[c]: topics the hub has registered for c's channel
  running,    \* the hub goroutine runs its command loop
  msg,        \* number of publish commands taken; it names the event
  todo,       \* deliveries of event msg the hub still has to make
  target,     \* the one it is making, <<>> if none
  hook,       \* hook[h]: {t} while the handler waits to publish to t
  stop        \* progress of PubsPlugin.Close

connVars == <<pump, cmd, up, fwd>>
chanVars == <<chan, buf, subs>>
hubVars  == <<running, msg, todo, target>>
vars     == <<connVars, chanVars, hubVars, sent, hook, stop>>

NoCmd == [op |-> "none", topics |-> {}, ack |-> FALSE]
Cmd   == [op : {"sub", "unsub", "pub"}, topics : (SUBSET Topics) \ {{}},
          ack : BOOLEAN]

(* The pump has returned from pubsub.Sub and not yet from pubsub.Unsub. *)
Bound == {"greeting", "reading", "calling", "acking", "leaving"}

TypeOK ==
  /\ pump \in [Conns -> {"new", "joining", "gone"} \cup Bound]
  /\ cmd \in [Conns -> Cmd \cup {NoCmd}]
  /\ up \in [Conns -> BOOLEAN]
  /\ fwd \in [Conns -> {"off", "run", "done"}]
  /\ chan \in [Conns -> {"none", "open", "closed"}]
  /\ buf \in [Conns -> Seq(Nat)]
  /\ \A c \in Conns : Len(buf[c]) <= Capacity
  /\ sent \in [Conns -> Seq(Nat)]
  /\ subs \in [Conns -> SUBSET (Topics \cup {Broadcast})]
  /\ running \in BOOLEAN
  /\ msg \in Nat
  /\ todo \subseteq Topics \X Conns
  /\ target \in IF todo = {} THEN {<<>>} ELSE todo
  /\ hook \in [Hooks -> {{}} \cup {{t} : t \in Topics}]
  /\ stop \in {"no", "calling", "done"}

Init ==
  /\ pump = [c \in Conns |-> "new"]
  /\ cmd = [c \in Conns |-> NoCmd]
  /\ up = [c \in Conns |-> TRUE]
  /\ fwd = [c \in Conns |-> "off"]
  /\ chan = [c \in Conns |-> "none"]
  /\ buf = [c \in Conns |-> <<>>]
  /\ sent = [c \in Conns |-> <<>>]
  /\ subs = [c \in Conns |-> {}]
  /\ running = TRUE
  /\ msg = 0
  /\ todo = {}
  /\ target = <<>>
  /\ hook = [h \in Hooks |-> {}]
  /\ stop = "no"

-------------------------------------------------------------------------------
(* The hub.  It takes a command only between two deliveries; sub, unsub and
   shutdown never block it, so taking and executing them is one step.      *)

HubReady == running /\ todo = {}

(* The channel of c is closed when its last topic is removed. *)
Register(c, T) ==
  /\ subs' = [subs EXCEPT ![c] = @ \cup T]
  /\ UNCHANGED hubVars

Deregister(c, T) ==
  /\ subs' = [subs EXCEPT ![c] = @ \ T]
  /\ chan' = [chan EXCEPT ![c] =
                IF subs[c] # {} /\ subs[c] \subseteq T THEN "closed" ELSE @]
  /\ UNCHANGED <<buf, hubVars>>

Pick(S) == IF S = {} THEN {<<>>} ELSE S

Accept(T) ==
  /\ msg' = msg + 1
  /\ todo' = {d \in T \X Conns : d[1] \in subs[d[2]]}
  /\ target' \in Pick(todo')
  /\ UNCHANGED <<running, chanVars>>

(* Two bugs: the hub drops what a full channel has no room for; it does not
   get to the next channel while one is left.                              *)
HubSendOrDrop ==
  /\ running
  /\ todo # {}
  /\ buf' = [buf EXCEPT ![target[2]] = IF Len(@) < Capacity THEN Append(@, msg) ELSE @]
  /\ todo' = todo \ {target}
  /\ target' \in Pick(todo')
  /\ UNCHANGED <<running, msg, chan, subs, connVars, sent, hook, stop>>

HubSendStays ==
  /\ running
  /\ todo # {}
  /\ Len(buf[target[2]]) < Capacity
  /\ buf' = [buf EXCEPT ![target[2]] = Append(@, msg)]
  /\ todo' = todo \ {target}
  /\ target' = IF todo' = {} THEN <<>> ELSE target
  /\ UNCHANGED <<running, msg, chan, subs, connVars, sent, hook, stop>>

(* ch <- msg of the hub: waits for room in the channel it is sending to.
   The hub goes through the topics in the order of the request and through
   the channels of a topic in any order; target may be taken from all.     *)
HubSend ==
  /\ running
  /\ todo # {}
  /\ Len(buf[target[2]]) < Capacity
  /\ buf' = [buf EXCEPT ![target[2]] = Append(@, msg)]
  /\ todo' = todo \ {target}
  /\ target' \in Pick(todo')
  /\ UNCHANGED <<running, msg, chan, subs, connVars, sent, hook, stop>>

-------------------------------------------------------------------------------
(* The read pump of a connection. *)

Step(c, from, to) == pump[c] = from /\ pump' = [pump EXCEPT ![c] = to]

(* serveWebsocketConnection: ServeWS calls OnConnect, which calls Sub. *)
Connect(c) ==
  /\ Step(c, "new", "joining")
  /\ UNCHANGED <<cmd, up, fwd, chanVars, hubVars, sent, hook, stop>>

(* A bug: the channel is made with no topic of its own. *)
JoinUnregistered(c) ==
  /\ Step(c, "joining", "greeting")
  /\ HubReady
  /\ Register(c, {})
  /\ chan' = [chan EXCEPT ![c] = "open"]
  /\ UNCHANGED <<cmd, up, fwd, buf, sent, hook, stop>>

(* onSubInit: pubsub.Sub(p.broadcast) makes and registers the channel. *)
Join(c) ==
  /\ Step(c, "joining", "greeting")
  /\ HubReady
  /\ Register(c, {Broadcast})
  /\ chan' = [chan EXCEPT ![c] = "open"]
  /\ UNCHANGED <<cmd, up, fwd, buf, sent, hook, stop>>

(* The connection is closed; RawSend has failed, or an error is returned to
   the connection, which closes itself.                                    *)
Drop(c) == c \in Flaky /\ up' = [up EXCEPT ![c] = FALSE]

(* A bug: no goroutine is started to forward events. *)
GreetNoForwarder(c) ==
  /\ Step(c, "greeting", IF up[c] THEN "reading" ELSE "leaving")
  /\ UNCHANGED <<cmd, up, fwd, chanVars, hubVars, sent, hook, stop>>

(* onSubInit: the hello is sent and the forwarder started, or OnConnect
   fails.                                                                  *)
Greet(c) ==
  /\ \/ /\ up[c]
        /\ Step(c, "greeting", "reading")
        /\ fwd' = [fwd EXCEPT ![c] = "run"]
        /\ UNCHANGED up
     \/ /\ Drop(c)
        /\ Step(c, "greeting", "leaving")
        /\ UNCHANGED fwd
  /\ UNCHANGED <<cmd, chanVars, hubVars, sent, hook, stop>>

(* Publish requests that wait for the hub. *)
Publishing == {c \in Conns : pump[c] = "calling" /\ cmd[c].op = "pub"}
              \cup {h \in Hooks : hook[h] # {}}
MayPublish == msg + Cardinality(Publishing) < MaxPub

(* A bug: the ack does not wait for the hub. *)
ReceiveAcksFirst(c) ==
  /\ Step(c, "reading", "acking")
  /\ up[c]
  /\ cmd' \in {[cmd EXCEPT ![c] = m] : m \in Cmd}
  /\ UNCHANGED <<up, fwd, chanVars, hubVars, sent, hook, stop>>

(* OnText with a well-formed sub, unsub or pub; one with a state wants an
   ack.  The handler then waits for the hub.                               *)
Receive(c) ==
  /\ Step(c, "reading", "calling")
  /\ up[c]
  /\ cmd' \in {[cmd EXCEPT ![c] = m] : m \in Cmd}
  /\ cmd'[c].op = "pub" => MayPublish
  /\ UNCHANGED <<up, fwd, chanVars, hubVars, sent, hook, stop>>

(* OnText fails (no JSON, no topics); OnError returns the error and the
   connection is closed.                                                   *)
Reject(c) ==
  /\ up[c]
  /\ Step(c, "reading", "leaving")
  /\ Drop(c)
  /\ UNCHANGED <<cmd, fwd, chanVars, hubVars, sent, hook, stop>>

(* The hub takes the command of c: the handler returns to OnText. *)
Called(c, op) ==
  /\ cmd[c].op = op
  /\ HubReady
  /\ Step(c, "calling", IF cmd[c].ack THEN "acking" ELSE "reading")
  /\ cmd' = [cmd EXCEPT ![c] = IF @.ack THEN @ ELSE NoCmd]
  /\ UNCHANGED <<up, fwd, sent, hook, stop>>

OnSub(c) ==
  /\ Called(c, "sub")
  /\ Register(c, cmd[c].topics)
  /\ UNCHANGED <<chan, buf>>

OnUnsub(c) ==
  /\ Called(c, "unsub")
  /\ Deregister(c, cmd[c].topics)

OnPub(c) ==
  /\ Called(c, "pub")
  /\ Accept(cmd[c].topics)

(* OnText replies with an ack, or fails to. *)
Ack(c) ==
  /\ \/ up[c] /\ Step(c, "acking", "reading") /\ UNCHANGED up
     \/ Drop(c) /\ Step(c, "acking", "leaving")
  /\ cmd' = [cmd EXCEPT ![c] = NoCmd]
  /\ UNCHANGED <<fwd, chanVars, hubVars, sent, hook, stop>>

(* The peer goes away or the network fails. *)
Fail(c) ==
  /\ up[c]
  /\ pump[c] \notin {"new", "gone"}
  /\ Drop(c)
  /\ UNCHANGED <<pump, cmd, fwd, chanVars, hubVars, sent, hook, stop>>

(* The pump notices that the connection is closed. *)
Hangup(c) ==
  /\ ~up[c]
  /\ Step(c, "reading", "leaving")
  /\ UNCHANGED <<cmd, up, fwd, chanVars, hubVars, sent, hook, stop>>

(* A bug: OnDisconnect removes what the client subscribed to. *)
DisconnectKeepsBroadcast(c) ==
  /\ Step(c, "leaving", "gone")
  /\ HubReady
  /\ Deregister(c, Topics)
  /\ UNCHANGED <<cmd, up, fwd, sent, hook, stop>>

(* OnDisconnect: pubsub.Unsub(ch) without topics removes them all. *)
Disconnect(c) ==
  /\ Step(c, "leaving", "gone")
  /\ HubReady
  /\ Deregister(c, Topics \cup {Broadcast})
  /\ UNCHANGED <<cmd, up, fwd, sent, hook, stop>>

-------------------------------------------------------------------------------
(* The forwarder of a connection. *)

(* The forwarder receives an event and hands it to the connection. *)
Take(c) ==
  /\ fwd[c] = "run"
  /\ buf[c] # <<>>
  /\ buf' = [buf EXCEPT ![c] = Tail(@)]
  /\ UNCHANGED <<pump, cmd, chan, subs, hubVars, hook, stop>>

ForwardSent(c) ==
  /\ up[c]
  /\ Take(c)
  /\ sent' = [sent EXCEPT ![c] = Append(@, Head(buf[c]))]
  /\ UNCHANGED <<up, fwd>>

(* A bug: after an error the forwarder goes on. *)
ForwardGoesOn(c) == Take(c) /\ Drop(c) /\ UNCHANGED <<fwd, sent>>

(* RawSend fails: the event is lost, the forwarder closes the connection and
   returns; nobody receives from the channel any more.                     *)
ForwardFails(c) ==
  /\ Take(c)
  /\ Drop(c)
  /\ fwd' = [fwd EXCEPT ![c] = "done"]
  /\ UNCHANGED sent

(* The channel is drained and closed: normal end. *)
ForwardEnd(c) ==
  /\ fwd[c] = "run"
  /\ buf[c] = <<>>
  /\ chan[c] = "closed"
  /\ fwd' = [fwd EXCEPT ![c] = "done"]
  /\ UNCHANGED <<pump, cmd, up, chanVars, hubVars, sent, hook, stop>>

-------------------------------------------------------------------------------
(* Webhook publish requests and the shutdown of the plugin. *)

HookRequest(h, t) ==
  /\ hook[h] = {}
  /\ MayPublish
  /\ hook' = [hook EXCEPT ![h] = {t}]
  /\ UNCHANGED <<connVars, chanVars, hubVars, sent, stop>>

HookPublish(h) ==
  /\ hook[h] # {}
  /\ HubReady
  /\ Accept(hook[h])
  /\ hook' = [hook EXCEPT ![h] = {}]
  /\ UNCHANGED <<connVars, sent, stop>>

(* A bug: Close leaves the hub alone. *)
CloseWithoutShutdown ==
  /\ stop = "no"
  /\ stop' = "done"
  /\ UNCHANGED <<connVars, chanVars, hubVars, sent, hook>>

(* PubsPlugin.Close calls pubsub.Shutdown. *)
CloseCall ==
  /\ stop = "no"
  /\ stop' = "calling"
  /\ UNCHANGED <<connVars, chanVars, hubVars, sent, hook>>

(* pubsub.Shutdown: the hub leaves its loop, removes every registration and
   so closes every channel.                                                *)
Shutdown ==
  /\ stop = "calling"
  /\ HubReady
  /\ stop' = "done"
  /\ running' = FALSE
  /\ subs' = [c \in Conns |-> {}]
  /\ chan' = [c \in Conns |-> IF subs[c] # {} THEN "closed" ELSE chan[c]]
  /\ UNCHANGED <<connVars, buf, msg, todo, target, sent, hook>>

-------------------------------------------------------------------------------

PumpStep(c) ==
  \/ Connect(c) \/ Join(c) \/ Greet(c)
  \/ Receive(c) \/ OnSub(c) \/ OnUnsub(c) \/ OnPub(c) \/ Ack(c) \/ Reject(c)
  \/ Fail(c) \/ Hangup(c) \/ Disconnect(c)

ForwarderStep(c) == ForwardSent(c) \/ ForwardFails(c) \/ ForwardEnd(c)

Next ==
  \/ HubSend
  \/ \E c \in Conns : PumpStep(c) \/ ForwarderStep(c)
  \/ \E h \in Hooks : HookPublish(h) \/ \E t \in Topics : HookRequest(h, t)
  \/ CloseCall
  \/ Shutdown

Spec == Init /\ [][Next]_vars

(* Go runs every goroutine that can run, and a goroutine blocked on the
   command channel is queued first come first served, so the hub takes its
   command eventually if it takes commands again and again.  Clients, their
   failures and the shutdown are under no obligation.                      *)
Fairness ==
  /\ WF_vars(HubSend)
  /\ SF_vars(Shutdown)
  /\ \A h \in Hooks : SF_vars(HookPublish(h))
  /\ \A c \in Conns :
       /\ WF_vars(Greet(c) \/ Ack(c) \/ Hangup(c))
       /\ SF_vars(Join(c) \/ OnSub(c) \/ OnUnsub(c) \/ OnPub(c) \/ Disconnect(c))
       /\ WF_vars(ForwarderStep(c))

FairSpec == Spec /\ Fairness

-------------------------------------------------------------------------------
(* Properties. *)

(* The hub never sends on a closed channel, which would panic the process:
   the channel of every delivery still to be made is open.  A client may
   drop all its topics, so this rests on the broadcast topic of onSubInit.  *)
NoSendOnClosed == \A d \in todo : chan[d[2]] = "open"

(* A connection between Sub and OnDisconnect keeps its channel registered as
   long as the hub runs; before and after, the hub holds nothing of it.    *)
ServedOrReleased ==
  \A c \in Conns :
    /\ pump[c] \in Bound /\ running => chan[c] = "open" /\ subs[c] # {}
    /\ pump[c] \notin Bound => chan[c] # "open" /\ subs[c] = {}

(* OnText acknowledges a message only when it has been executed.  Until the ack
   is sent the hub has the subscription, or no longer has it; and to the ack of
   a publish the pump gets only as the hub takes its event, for everybody who
   is subscribed at that moment.                                           *)
AckInv ==
  \A c \in Conns : pump[c] = "acking" /\ running =>
    /\ cmd[c].op = "sub"   => cmd[c].topics \subseteq subs[c]
    /\ cmd[c].op = "unsub" => cmd[c].topics \cap subs[c] = {}

EventTaken(T) ==
  /\ msg' = msg + 1
  /\ todo' = {d \in T \X Conns : d[1] \in subs[d[2]]}

AckAfterEffect ==
  [][/\ AckInv'
     /\ \A c \in Conns :
          pump[c] # "acking" /\ pump'[c] = "acking" /\ cmd'[c].op = "pub"
            => EventTaken(cmd'[c].topics)]_vars

(* Why: the hub knows a channel exactly as long as it is open, what it delivers
   is subscribed to, and a connection in service holds the broadcast topic.
   With TypeOK this is inductive, and it implies NoSendOnClosed,
   ServedOrReleased and AckInv.                                            *)
HubInv ==
  /\ ~running => todo = {}
  /\ \A d \in todo : d[1] \in subs[d[2]]
  /\ \A c \in Conns :
       /\ chan[c] = "open" <=> subs[c] # {}
       /\ pump[c] \in Bound /\ running => Broadcast \in subs[c]
       /\ pump[c] \notin Bound => subs[c] = {}
       /\ pump[c] \in {"calling", "acking"} => cmd[c].op # "none"
  /\ AckInv

(* The stream implements the atomic topic feed.  A feed is the channel's
   buffer and behind it what the hub still has to put there; the broadcast
   topic stays hidden.                                                     *)
Owed(c) == Cardinality({t \in Topics : <<t, c>> \in todo})

Feed == INSTANCE PubsFeed WITH
  seq  <- msg,
  subs <- [c \in Conns |-> subs[c] \ {Broadcast}],
  feed <- [c \in Conns |-> buf[c] \o [i \in 1..Owed(c) |-> msg]],
  sent <- sent,
  live <- [c \in Conns |-> fwd[c] # "done"]

(* What clients see of channels, hub and forwarders is the topic feed: events
   in the order the hub took them, once for each topic subscribed when the
   hub took the event, none lost before the connection fails.              *)
ImplementsFeed == Feed!Spec

(* The hub always gets through with an event: no subscriber blocks the
   sends of onPub and handleWebhookPublish for ever.                       *)
HubResponsive == todo # {} ~> todo = {}

(* An event reaches every subscriber whose connection does not fail. *)
EventsReachSubscribers ==
  \A c \in Conns, n \in 1..MaxPub :
    (msg = n /\ Owed(c) > 0) ~> (~up[c] \/ \E i \in DOMAIN sent[c] : sent[c][i] = n)

(* The forwarder that could not send has closed the connection
   (pubsub.go:78); the hub then loses its channel by OnDisconnect, unless
   the plugin is closed first.                                             *)
FailedConnectionIsReleased ==
  \A c \in Conns : fwd[c] = "done" ~> pump[c] = "gone" \/ ~running

(* PubsPlugin.Close returns, and then every forwarder comes to its end. *)
CloseEndsForwarders ==
  \A c \in Conns : stop # "no" ~> stop = "done" /\ [](fwd[c] # "run")
===============================================================================
