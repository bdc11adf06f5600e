------------------------------- MODULE PubsFeed -------------------------------
(***************************************************************************)
(* What the pubs plugin promises to the holder of a websocket stream: a    *)
(* topic feed.  Publishing is one atomic step that queues the event, once  *)
(* for every topic of the event the connection is subscribed to, on the    *)
(* feed of every subscriber; a feed is delivered in order, nothing of it   *)
(* is lost or repeated while the connection lives.                         *)
(*                                                                         *)
(* There is no hub, no channel, no goroutine here: PubsStream has them and *)
(* implements this specification.                                          *)
(***************************************************************************)
EXTENDS Naturals, Sequences, FiniteSets

CONSTANTS Conns,    \* websocket connections
          Topics    \* topics a client can name

VARIABLES seq,      \* number of events published so far; it names the events
          subs,     \* subs[c]: the topics connection c is subscribed to
          feed,     \* feed[c]: events queued for c, oldest first
          sent,     \* sent[c]: events delivered to c, oldest first
          live      \* live[c]: c still takes events

vars == <<seq, subs, feed, sent, live>>

Init ==
  /\ seq = 0
  /\ subs = [c \in Conns |-> {}]
  /\ feed = [c \in Conns |-> <<>>]
  /\ sent = [c \in Conns |-> <<>>]
  /\ live = [c \in Conns |-> TRUE]

(* n times the event e *)
Copies(e, n) == [i \in 1..n |-> e]

Subscribe(c, T) ==
  /\ subs' = [subs EXCEPT ![c] = @ \cup T]
  /\ UNCHANGED <<seq, feed, sent, live>>

Unsubscribe(c, T) ==
  /\ subs' = [subs EXCEPT ![c] = @ \ T]
  /\ UNCHANGED <<seq, feed, sent, live>>

UnsubscribeAll ==
  /\ subs' = [c \in Conns |-> {}]
  /\ UNCHANGED <<seq, feed, sent, live>>

Publish(T) ==
  /\ seq' = seq + 1
  /\ feed' = [c \in Conns |->
                feed[c] \o Copies(seq + 1, Cardinality(T \cap subs[c]))]
  /\ UNCHANGED <<subs, sent, live>>

Deliver(c) ==
  /\ live[c]
  /\ feed[c] # <<>>
  /\ sent' = [sent EXCEPT ![c] = Append(@, Head(feed[c]))]
  /\ feed' = [feed EXCEPT ![c] = Tail(@)]
  /\ UNCHANGED <<seq, subs, live>>

(* The connection stops taking events: the event being delivered, if any,
   is lost and the rest of the feed is abandoned.                          *)
Quit(c) ==
  /\ live[c]
  /\ live' = [live EXCEPT ![c] = FALSE]
  /\ feed' = [feed EXCEPT ![c] = IF @ = <<>> THEN @ ELSE Tail(@)]
  /\ UNCHANGED <<seq, subs, sent>>

Next ==
  \/ \E c \in Conns, T \in SUBSET Topics : Subscribe(c, T) \/ Unsubscribe(c, T)
  \/ UnsubscribeAll
  \/ \E T \in SUBSET Topics : Publish(T)
  \/ \E c \in Conns : Deliver(c) \/ Quit(c)

Spec == Init /\ [][Next]_vars
===============================================================================
