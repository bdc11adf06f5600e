------------------------- MODULE PubsStreamRefinement -------------------------
(***************************************************************************)
(* The event stream implements the topic feed, for any number of           *)
(* connections, webhook requests and topics, any channel capacity and any  *)
(* number of events.                                                       *)
(***************************************************************************)
EXTENDS PubsStreamProofs, FiniteSetTheorems, SequenceTheorems

-------------------------------------------------------------------------------
(* Lemmas about a channel's buffer followed by what the hub owes. *)

Copies(e, n) == [i \in 1..n |-> e]

(* n copies are a sequence of length n, none are the empty one. *)
LEMMA CopiesSeq ==
  ASSUME NEW e \in Nat, NEW n \in Nat
  PROVE  /\ Copies(e, n) \in Seq(Nat)
         /\ Len(Copies(e, n)) = n
         /\ n = 0 => Copies(e, n) = <<>>
<1>1. Copies(e, n) \in Seq(Nat) /\ Len(Copies(e, n)) = n
  BY DEF Copies
<1> QED
  BY <1>1, EmptySeq

(* One more copy in front. *)
LEMMA CopiesFirst ==
  ASSUME NEW e \in Nat, NEW n \in Nat
  PROVE  <<e>> \o Copies(e, n) = Copies(e, n + 1)
<1> DEFINE c == Copies(e, n)
           d == Copies(e, n + 1)
           u == <<e>> \o c
<1>1. n + 1 \in Nat
  OBVIOUS
<1>2. c \in Seq(Nat) /\ Len(c) = n /\ \A i \in 1..n : c[i] = e
  BY CopiesSeq DEF Copies
<1>3. d \in Seq(Nat) /\ Len(d) = n + 1 /\ \A i \in 1..(n + 1) : d[i] = e
  BY <1>1, CopiesSeq DEF Copies
<1>4. <<e>> \in Seq(Nat) /\ Len(<<e>>) = 1 /\ <<e>>[1] = e
  OBVIOUS
<1> HIDE DEF c, d
<1>5. /\ u \in Seq(Nat) /\ Len(u) = 1 + n
      /\ \A i \in 1..(1 + n) : u[i] = IF i <= 1 THEN <<e>>[i] ELSE c[i - 1]
  BY <1>2, <1>4, ConcatProperties
<1> HIDE DEF u
<1>6. ASSUME NEW i \in 1..Len(u)
      PROVE  u[i] = d[i]
  <2>1. CASE i = 1
    BY <1>3, <1>4, <1>5, <2>1
  <2>2. CASE i # 1
    <3>1. i \in 1..(1 + n) /\ i - 1 \in 1..n
      BY <1>5, <2>2
    <3>2. u[i] = c[i - 1]
      BY <1>5, <2>2, <3>1
    <3> QED
      BY <1>2, <1>3, <3>1, <3>2
  <2> QED
    BY <2>1, <2>2
<1>7. u = d
  BY <1>3, <1>5, <1>6, SeqEqual
<1> QED
  BY <1>7 DEF u, c, d

(* The hub makes a delivery: what was owed is in the buffer now. *)
LEMMA OwedBecomesBuffered ==
  ASSUME NEW s \in Seq(Nat), NEW e \in Nat, NEW n \in Nat
  PROVE  Append(s, e) \o Copies(e, n) = s \o Copies(e, n + 1)
<1>1. Append(s, e) = s \o <<e>>
  BY AppendIsConcat
<1>2. Copies(e, n) \in Seq(Nat) /\ <<e>> \in Seq(Nat)
  BY CopiesSeq
<1>3. (s \o <<e>>) \o Copies(e, n) = s \o (<<e>> \o Copies(e, n))
  BY <1>2, ConcatAssociative
<1> QED
  BY <1>1, <1>3, CopiesFirst

(* A sequence that begins with h. *)
LEMMA HeadTailCons ==
  ASSUME NEW h \in Nat, NEW x \in Seq(Nat)
  PROVE  /\ <<h>> \o x # <<>>
         /\ Head(<<h>> \o x) = h
         /\ Tail(<<h>> \o x) = x
<1> DEFINE u == <<h>> \o x
<1>1. <<h>> \in Seq(Nat) /\ Len(<<h>>) = 1 /\ <<h>>[1] = h
  OBVIOUS
<1>2. Len(x) \in Nat
  BY LenProperties
<1>3. /\ u \in Seq(Nat) /\ Len(u) = 1 + Len(x)
      /\ \A i \in 1..(1 + Len(x)) : u[i] = IF i <= 1 THEN <<h>>[i] ELSE x[i - 1]
  BY <1>1, ConcatProperties
<1>4. CASE Len(x) = 0
  <2>1. x = <<>>
    BY <1>4, EmptySeq
  <2>2. u = <<h>>
    BY <1>1, <2>1, ConcatEmptySeq
  <2> QED
    BY <2>1, <2>2
<1>5. CASE Len(x) # 0
  <2>1. SubSeq(u, 2, 1 + Len(x)) = SubSeq(x, 1, Len(x))
    <3>1. 2 \in (Len(<<h>>) + 1)..(Len(<<h>>) + Len(x))
          /\ 1 + Len(x) \in (Len(<<h>>) + 1)..(Len(<<h>>) + Len(x))
      BY <1>1, <1>2, <1>5
    <3>2. SubSeq(u, 2, 1 + Len(x))
            = SubSeq(x, 2 - Len(<<h>>), 1 + Len(x) - Len(<<h>>))
      BY <1>1, <3>1, SubSeqOfConcat2
    <3> QED
      BY <1>1, <1>2, <3>2
  <2>2. SubSeq(x, 1, Len(x)) = x
    BY SubSeqFull
  <2> HIDE DEF u
  <2>3. u # <<>>
    BY <1>2, <1>3, EmptySeq
  <2>4. Tail(u) = SubSeq(u, 2, Len(u))
    BY <1>3, <2>3, TailIsSubSeq
  <2>5. Head(u) = u[1]
    BY <1>3, <2>3
  <2>6. u[1] = h
    BY <1>1, <1>2, <1>3
  <2> QED
    BY <1>3, <2>1, <2>2, <2>3, <2>4, <2>5, <2>6 DEF u
<1> QED
  BY <1>4, <1>5

(* The forwarder takes the oldest event of the feed. *)
LEMMA FeedHeadTail ==
  ASSUME NEW s \in Seq(Nat), s # <<>>, NEW t \in Seq(Nat)
  PROVE  /\ s \o t # <<>>
         /\ Head(s \o t) = Head(s)
         /\ Tail(s \o t) = Tail(s) \o t
<1>1. /\ Head(s) \in Nat /\ Tail(s) \in Seq(Nat) /\ <<Head(s)>> \in Seq(Nat)
      /\ Tail(s) \o t \in Seq(Nat)
  BY HeadTailProperties, ConcatProperties
<1>2. s = <<Head(s)>> \o Tail(s)
  <2>1. Len(s) \in Nat /\ 1 \in 1..Len(s) /\ Len(s) \in 1..Len(s)
    BY EmptySeq
  <2>2. SubSeq(s, 1, Len(s)) = <<s[1]>> \o SubSeq(s, 1 + 1, Len(s))
    BY <2>1, SubSeqRecursiveFirst
  <2>3. SubSeq(s, 1, Len(s)) = s /\ SubSeq(s, 2, Len(s)) = Tail(s) /\ s[1] = Head(s)
    BY SubSeqFull, TailIsSubSeq
  <2> QED
    BY <2>2, <2>3
<1>3. s \o t = <<Head(s)>> \o (Tail(s) \o t)
  <2>1. (<<Head(s)>> \o Tail(s)) \o t = <<Head(s)>> \o (Tail(s) \o t)
    BY <1>1, ConcatAssociative
  <2> QED
    BY <1>2, <2>1
<1> QED
  BY <1>1, <1>3, HeadTailCons

-------------------------------------------------------------------------------
(* Lemmas about what the feed sees of a step. *)

FeedSubs == [c \in Conns |-> subs[c] \ {Broadcast}]
FeedOf   == [c \in Conns |-> buf[c] \o Copies(msg, Owed(c))]
FeedLive == [c \in Conns |-> fwd[c] # "done"]

(* What is owed to a connection is a number of topics; none if no delivery is
   left to be made.                                                        *)
LEMMA OwedCount ==
  ASSUME NEW c \in Conns
  PROVE  /\ IsFiniteSet({t \in Topics : <<t, c>> \in todo})
         /\ Owed(c) \in Nat
         /\ (\A t \in Topics : <<t, c>> \notin todo) => Owed(c) = 0
<1> DEFINE S == {t \in Topics : <<t, c>> \in todo}
<1>1. IsFiniteSet(S)
  BY StreamAssumption, FS_Subset
<1>2. Cardinality(S) \in Nat
  BY <1>1, FS_CardinalityType
<1>3. (\A t \in Topics : <<t, c>> \notin todo) => S = {}
  OBVIOUS
<1> QED
  BY <1>1, <1>2, <1>3, FS_EmptySet DEF Owed

(* Steps that touch neither events nor clients' subscriptions nor the end of
   a forwarder are invisible.                                              *)
LEMMA Invisible ==
  ASSUME UNCHANGED <<msg, todo, buf, sent>>, FeedSubs' = FeedSubs, FeedLive' = FeedLive
  PROVE  UNCHANGED Feed!vars
BY DEF Feed!vars, FeedSubs, FeedLive, Owed

(* While the hub waits for a command, feeds are buffers. *)
LEMMA FeedIsBuffer ==
  ASSUME TypeOK, todo = {}, NEW c \in Conns
  PROVE  FeedOf[c] = buf[c]
<1>1. Owed(c) = 0
  BY OwedCount
<1>2. Copies(msg, 0) = <<>>
  BY CopiesSeq DEF TypeOK
<1> QED
  BY <1>1, <1>2, ConcatEmptySeq DEF TypeOK, FeedOf

(* Taking an event is publishing it. *)
LEMMA AcceptPublishes ==
  ASSUME TypeOK, HubReady, NEW T \in SUBSET Topics, Accept(T), fwd' = fwd, sent' = sent
  PROVE  Feed!Publish(T)
<1>1. msg' = msg + 1 /\ subs' = subs /\ buf' = buf
  BY DEF Accept, chanVars
<1>2. ASSUME NEW c \in Conns
      PROVE  FeedOf'[c] = FeedOf[c] \o Copies(msg + 1, Cardinality(T \cap FeedSubs[c]))
  <2>1. {t \in Topics : <<t, c>> \in todo'} = T \cap FeedSubs[c]
    BY StreamAssumption DEF Accept, FeedSubs
  <2>2. Owed(c)' = Cardinality(T \cap FeedSubs[c])
    BY <2>1 DEF Owed
  <2>3. FeedOf[c] = buf[c]
    BY FeedIsBuffer DEF HubReady
  <2>4. FeedOf'[c] = buf[c] \o Copies(msg + 1, Owed(c)')
    BY <1>1 DEF FeedOf
  <2> QED
    BY <2>2, <2>3, <2>4
<1>3. FeedOf' = [c \in Conns |->
                   FeedOf[c] \o Copies(msg + 1, Cardinality(T \cap FeedSubs[c]))]
  BY <1>2 DEF FeedOf
<1>4. FeedSubs' = FeedSubs /\ FeedLive' = FeedLive
  BY <1>1 DEF FeedSubs, FeedLive
<1>5. Feed!Publish(T) <=>
        /\ msg' = msg + 1
        /\ FeedOf' = [c \in Conns |->
                        FeedOf[c] \o Copies(msg + 1, Cardinality(T \cap FeedSubs[c]))]
        /\ UNCHANGED <<FeedSubs, sent, FeedLive>>
  BY DEF Feed!Publish, Feed!Copies, Feed!Cardinality, Cardinality,
         FeedOf, FeedSubs, FeedLive, Copies
<1> QED
  BY <1>1, <1>3, <1>4, <1>5

(* Taking an event out of the buffer takes it from the feed. *)
LEMMA TakeAdvances ==
  ASSUME TypeOK, NEW c \in Conns, Take(c)
  PROVE  /\ FeedOf[c] # <<>>
         /\ Head(FeedOf[c]) = Head(buf[c])
         /\ FeedOf' = [FeedOf EXCEPT ![c] = Tail(@)]
         /\ FeedSubs' = FeedSubs
<1>1. UNCHANGED <<msg, todo, subs>> /\ buf' = [buf EXCEPT ![c] = Tail(@)] /\ buf[c] # <<>>
  BY DEF Take, hubVars
<1>2. buf[c] \in Seq(Nat) /\ Copies(msg, Owed(c)) \in Seq(Nat)
  BY OwedCount, CopiesSeq DEF TypeOK
<1>3. /\ FeedOf[c] # <<>>
      /\ Head(FeedOf[c]) = Head(buf[c])
      /\ Tail(FeedOf[c]) = Tail(buf[c]) \o Copies(msg, Owed(c))
  BY <1>1, <1>2, FeedHeadTail DEF FeedOf
<1>4. \A d \in Conns : Owed(d)' = Owed(d)
  BY <1>1 DEF Owed
<1>5. ASSUME NEW d \in Conns
      PROVE  FeedOf'[d] = IF d = c THEN Tail(FeedOf[c]) ELSE FeedOf[d]
  <2>1. FeedOf'[d] = buf'[d] \o Copies(msg, Owed(d))
    BY <1>1, <1>4 DEF FeedOf
  <2>2. CASE d = c
    BY <1>1, <1>3, <2>1, <2>2 DEF TypeOK
  <2>3. CASE d # c
    BY <1>1, <2>1, <2>3 DEF TypeOK, FeedOf
  <2> QED
    BY <2>2, <2>3
<1>6. FeedOf' = [FeedOf EXCEPT ![c] = Tail(@)]
  BY <1>5 DEF FeedOf
<1> QED
  BY <1>1, <1>3, <1>6 DEF FeedSubs

(* A delivery moves an event inside its feed. *)
LEMMA SendInvisible ==
  ASSUME TypeOK, HubSend
  PROVE  UNCHANGED Feed!vars
<1> PICK c \in Conns : c = target[2]
  BY TargetTyped DEF HubSend
<1>1. target \in todo /\ target = <<target[1], c>> /\ target[1] \in Topics /\ c \in Conns
  BY TargetTyped DEF HubSend
<1>2. /\ UNCHANGED <<msg, subs, fwd, sent>>
      /\ buf' = [buf EXCEPT ![c] = Append(@, msg)]
      /\ todo' = todo \ {target}
  BY DEF HubSend, connVars
<1>3. msg \in Nat
  BY DEF TypeOK
<1>4. ASSUME NEW d \in Conns
      PROVE  FeedOf'[d] = FeedOf[d]
  <2>1. CASE d = c
    <3> DEFINE S == {t \in Topics : <<t, c>> \in todo}
    <3>1. IsFiniteSet(S) /\ target[1] \in S
      BY <1>1, OwedCount
    <3>2. {t \in Topics : <<t, c>> \in todo'} = S \ {target[1]}
      BY <1>1, <1>2
    <3>3. Owed(c)' = Owed(c) - 1 /\ Owed(c) \in Nat /\ Owed(c)' \in Nat
      <4>1. IsFiniteSet(S \ {target[1]}) /\ Cardinality(S \ {target[1]}) = Cardinality(S) - 1
        BY <3>1, FS_RemoveElement
      <4>2. Cardinality(S \ {target[1]}) \in Nat /\ Cardinality(S) \in Nat
        BY <3>1, <4>1, FS_CardinalityType
      <4> QED
        BY <3>2, <4>1, <4>2 DEF Owed
    <3>4. FeedOf'[c] = Append(buf[c], msg) \o Copies(msg, Owed(c)')
      BY <1>1, <1>2 DEF FeedOf, TypeOK
    <3>5. FeedOf[c] = buf[c] \o Copies(msg, Owed(c)' + 1)
      <4>1. Owed(c)' + 1 = Owed(c)
        BY <3>3
      <4> QED
        BY <1>1, <4>1 DEF FeedOf
    <3>6. buf[c] \in Seq(Nat)
      BY <1>1 DEF TypeOK
    <3> QED
      BY <1>3, <2>1, <3>3, <3>4, <3>5, <3>6, OwedBecomesBuffered
  <2>2. CASE d # c
    <3>1. {t \in Topics : <<t, d>> \in todo'} = {t \in Topics : <<t, d>> \in todo}
      BY <1>1, <1>2, <2>2
    <3>2. Owed(d)' = Owed(d)
      BY <3>1 DEF Owed
    <3> QED
      BY <1>2, <2>2, <3>2 DEF FeedOf, TypeOK
  <2> QED
    BY <2>1, <2>2
<1>5. FeedOf' = FeedOf
  BY <1>4 DEF FeedOf
<1> QED
  BY <1>2, <1>5 DEF Feed!vars, FeedOf, Copies

-------------------------------------------------------------------------------
(* Lemmas about the steps the feed sees. *)

(* Sub and Unsub: only what a connection is subscribed to changes. *)
LEMMA FeedStays ==
  ASSUME UNCHANGED <<msg, todo, buf, sent, fwd>>
  PROVE  FeedOf' = FeedOf /\ FeedLive' = FeedLive
BY DEF FeedOf, FeedLive, Owed

(* The hub adds topics of a client. *)
LEMMA OnSubSubscribes ==
  ASSUME TypeOK, NEW c \in Conns, OnSub(c)
  PROVE  \E T \in SUBSET Topics : Feed!Subscribe(c, T)
<1> PICK T \in SUBSET Topics : T = cmd[c].topics
  BY CalledCmd DEF OnSub, Called
<1>1. UNCHANGED <<msg, todo, buf, sent, fwd>> /\ subs' = [subs EXCEPT ![c] = @ \cup T]
  BY DEF OnSub, Called, Register, hubVars
<1>2. FeedOf' = FeedOf /\ FeedLive' = FeedLive
  BY <1>1, FeedStays
<1>3. FeedSubs' = [FeedSubs EXCEPT ![c] = @ \cup T]
  BY <1>1, StreamAssumption DEF FeedSubs, TypeOK
<1>4. Feed!Subscribe(c, T)
  BY <1>1, <1>2, <1>3 DEF Feed!Subscribe, FeedSubs, FeedOf, FeedLive, Copies
<1> QED
  BY <1>4

(* The hub removes topics of a channel, with or without the broadcast topic. *)
LEMMA DeregisterUnsubscribes ==
  ASSUME TypeOK, NEW c \in Conns, NEW T \in SUBSET Topics,
         subs' = [subs EXCEPT ![c] = @ \ T]
           \/ subs' = [subs EXCEPT ![c] = @ \ (T \cup {Broadcast})],
         UNCHANGED <<msg, todo, buf, sent, fwd>>
  PROVE  Feed!Unsubscribe(c, T)
<1>1. FeedOf' = FeedOf /\ FeedLive' = FeedLive
  BY FeedStays
<1>2. FeedSubs' = [FeedSubs EXCEPT ![c] = @ \ T]
  BY DEF FeedSubs, TypeOK
<1> QED
  BY <1>1, <1>2 DEF Feed!Unsubscribe, FeedSubs, FeedOf, FeedLive, Copies

(* The hub removes every registration. *)
LEMMA ShutdownUnsubscribes ==
  ASSUME Shutdown
  PROVE  Feed!UnsubscribeAll
<1>1. UNCHANGED <<msg, todo, buf, sent, fwd>> /\ subs' = [c \in Conns |-> {}]
  BY DEF Shutdown, connVars
<1>2. FeedOf' = FeedOf /\ FeedLive' = FeedLive
  BY <1>1, FeedStays
<1>3. FeedSubs' = [c \in Conns |-> {}]
  BY <1>1 DEF FeedSubs
<1> QED
  BY <1>1, <1>2, <1>3 DEF Feed!UnsubscribeAll, FeedSubs, FeedOf, FeedLive, Copies

(* A forwarder hands its event to the connection. *)
LEMMA ForwardDelivers ==
  ASSUME TypeOK, NEW c \in Conns, ForwardSent(c)
  PROVE  Feed!Deliver(c)
<1>1. Take(c) /\ fwd' = fwd /\ sent' = [sent EXCEPT ![c] = Append(@, Head(buf[c]))]
  BY DEF ForwardSent
<1>2. msg' = msg /\ FeedLive[c] /\ FeedLive' = FeedLive
  BY <1>1 DEF Take, hubVars, FeedLive
<1>3. /\ FeedOf[c] # <<>> /\ Head(FeedOf[c]) = Head(buf[c])
      /\ FeedOf' = [FeedOf EXCEPT ![c] = Tail(@)] /\ FeedSubs' = FeedSubs
  BY <1>1, TakeAdvances
<1>4. sent' = [sent EXCEPT ![c] = Append(@, Head(FeedOf[c]))]
  BY <1>1, <1>3
<1> QED
  BY <1>2, <1>3, <1>4 DEF Feed!Deliver, FeedSubs, FeedOf, FeedLive, Copies

(* A forwarder ends, and with it the feed. *)
LEMMA QuitFeed ==
  ASSUME TypeOK, NEW c \in Conns, fwd[c] = "run", fwd' = [fwd EXCEPT ![c] = "done"],
         UNCHANGED <<msg, sent>>, FeedSubs' = FeedSubs,
         FeedOf' = [FeedOf EXCEPT ![c] = IF @ = <<>> THEN @ ELSE Tail(@)]
  PROVE  Feed!Quit(c)
<1>1. FeedLive[c] /\ FeedLive' = [FeedLive EXCEPT ![c] = FALSE]
  BY DEF FeedLive, TypeOK
<1> QED
  BY <1>1 DEF Feed!Quit, FeedSubs, FeedOf, FeedLive, Copies

(* A forwarder that fails loses the event in its hands. *)
LEMMA ForwardFailsQuits ==
  ASSUME TypeOK, NEW c \in Conns, ForwardFails(c)
  PROVE  Feed!Quit(c)
<1>1. /\ Take(c) /\ fwd[c] = "run" /\ fwd' = [fwd EXCEPT ![c] = "done"]
      /\ UNCHANGED <<msg, sent>>
  BY DEF ForwardFails, Take, hubVars
<1>2. /\ FeedOf[c] # <<>> /\ FeedSubs' = FeedSubs
      /\ FeedOf' = [FeedOf EXCEPT ![c] = Tail(@)]
  BY <1>1, TakeAdvances
<1>3. FeedOf' = [FeedOf EXCEPT ![c] = IF @ = <<>> THEN @ ELSE Tail(@)]
  BY <1>2
<1> QED
  BY <1>1, <1>2, <1>3, QuitFeed

(* A forwarder whose channel is closed has nothing left to come: the hub owes
   deliveries to open channels only.                                       *)
LEMMA ForwardEndQuits ==
  ASSUME TypeOK, HubInv, NEW c \in Conns, ForwardEnd(c)
  PROVE  Feed!Quit(c)
<1>1. /\ fwd[c] = "run" /\ fwd' = [fwd EXCEPT ![c] = "done"]
      /\ buf[c] = <<>> /\ chan[c] = "closed"
      /\ UNCHANGED <<msg, todo, buf, subs, sent>>
  BY DEF ForwardEnd, chanVars, hubVars
<1>2. Owed(c) = 0
  <2>1. subs[c] = {}
    BY <1>1 DEF HubInv
  <2>2. ASSUME NEW t \in Topics, <<t, c>> \in todo
        PROVE  FALSE
    <3>1. <<t, c>>[1] \in subs[<<t, c>>[2]]
      BY <2>2 DEF HubInv
    <3> QED
      BY <2>1, <3>1
  <2> QED
    BY <2>2, OwedCount
<1>3. FeedOf[c] = <<>>
  <2>1. Copies(msg, 0) = <<>>
    BY CopiesSeq DEF TypeOK
  <2> QED
    BY <1>1, <1>2, <2>1 DEF FeedOf
<1>4. FeedOf' = FeedOf /\ FeedSubs' = FeedSubs
  BY <1>1 DEF FeedOf, FeedSubs, Owed
<1>5. FeedOf' = [FeedOf EXCEPT ![c] = IF @ = <<>> THEN @ ELSE Tail(@)]
  BY <1>3, <1>4 DEF FeedOf
<1> QED
  BY <1>1, <1>4, <1>5, QuitFeed

(* A connection has no forwarder before onSubInit has started it: a feed does
   not come back to life.                                                  *)
ForwarderStartedOnce ==
  \A c \in Conns : pump[c] \in {"new", "joining", "greeting"} => fwd[c] = "off"

LEMMA ForwarderStartedOnceCorrect == Spec => []ForwarderStartedOnce
<1>1. Init => ForwarderStartedOnce
  BY DEF Init, ForwarderStartedOnce
<1>2. TypeOK /\ ForwarderStartedOnce /\ [Next]_vars => ForwarderStartedOnce'
  <2> SUFFICES ASSUME TypeOK, ForwarderStartedOnce, [Next]_vars
               PROVE  ForwarderStartedOnce'
    OBVIOUS
  <2>1. CASE UNCHANGED <<pump, fwd>>
    BY <2>1 DEF ForwarderStartedOnce
  <2>2. ASSUME NEW c \in Conns, PumpStep(c)
        PROVE  ForwarderStartedOnce'
    <3>1. /\ \A d \in Conns \ {c} : pump'[d] = pump[d] /\ fwd'[d] = fwd[d]
          /\ pump'[c] \in {"new", "joining", "greeting"} =>
               pump[c] \in {"new", "joining", "greeting"} /\ fwd'[c] = fwd[c]
      BY <2>2 DEF PumpStep, Connect, Join, Greet, Receive, OnSub, OnUnsub, OnPub, Called,
                  Ack, Reject, Fail, Hangup, Disconnect, Step, TypeOK
    <3> QED
      BY <3>1 DEF ForwarderStartedOnce
  <2>3. ASSUME NEW c \in Conns, ForwarderStep(c)
        PROVE  ForwarderStartedOnce'
    <3>1. pump' = pump /\ fwd[c] = "run" /\ fwd' \in {fwd, [fwd EXCEPT ![c] = "done"]}
      BY <2>3 DEF ForwarderStep, ForwardSent, ForwardFails, ForwardEnd, Take
    <3> QED
      BY <3>1 DEF ForwarderStartedOnce, TypeOK
  <2>4. \/ \E c \in Conns : PumpStep(c) \/ ForwarderStep(c)
        \/ UNCHANGED <<pump, fwd>>
    BY DEF Next, vars, connVars, HubSend, HookPublish, HookRequest, CloseCall, Shutdown
  <2> QED
    BY <2>1, <2>2, <2>3, <2>4
<1> QED
  BY <1>1, <1>2, TypeCorrect, PTL DEF Spec

(* Every step of the stream is a step of the feed, or invisible. *)
LEMMA StepRefines ==
  ASSUME TypeOK, HubInv, ForwarderStartedOnce, [Next]_vars
  PROVE  Feed!Next \/ UNCHANGED Feed!vars
<1>1. CASE HubSend
  BY <1>1, SendInvisible
<1>2. ASSUME NEW c \in Conns, Connect(c) \/ Greet(c) \/ Receive(c) \/ Ack(c) \/ Reject(c)
                                \/ Fail(c) \/ Hangup(c)
      PROVE  UNCHANGED Feed!vars
  <2>1. UNCHANGED <<msg, todo, buf, sent, subs>>
    BY <1>2 DEF Connect, Greet, Receive, Ack, Reject, Fail, Hangup, chanVars, hubVars
  <2>2. fwd' = fwd \/ (fwd[c] = "off" /\ fwd' = [fwd EXCEPT ![c] = "run"])
    BY <1>2 DEF Connect, Greet, Receive, Ack, Reject, Fail, Hangup, Step, ForwarderStartedOnce
  <2>3. FeedLive' = FeedLive
    BY <2>2 DEF FeedLive, TypeOK
  <2> QED
    BY <2>1, <2>3, Invisible DEF FeedSubs
<1>3. ASSUME NEW c \in Conns, Join(c)
      PROVE  UNCHANGED Feed!vars
  <2>1. UNCHANGED <<msg, todo, buf, sent, fwd>> /\ subs' = [subs EXCEPT ![c] = @ \cup {Broadcast}]
    BY <1>3 DEF Join, Register, hubVars
  <2>2. FeedSubs' = FeedSubs
    BY <2>1 DEF FeedSubs, TypeOK
  <2> QED
    BY <2>1, <2>2, Invisible DEF FeedLive
<1>4. ASSUME NEW c \in Conns, OnSub(c)
      PROVE  Feed!Next
  BY <1>4, OnSubSubscribes DEF Feed!Next
<1>5. ASSUME NEW c \in Conns, OnUnsub(c)
      PROVE  Feed!Next
  <2> PICK T \in SUBSET Topics : T = cmd[c].topics
    BY <1>5, CalledCmd DEF OnUnsub, Called
  <2>1. /\ subs' = [subs EXCEPT ![c] = @ \ T]
        /\ UNCHANGED <<msg, todo, buf, sent, fwd>>
    BY <1>5 DEF OnUnsub, Called, Deregister, hubVars
  <2>2. Feed!Unsubscribe(c, T)
    BY <2>1, DeregisterUnsubscribes
  <2> QED
    BY <2>2 DEF Feed!Next
<1>6. ASSUME NEW c \in Conns, Disconnect(c)
      PROVE  Feed!Next
  <2>1. /\ subs' = [subs EXCEPT ![c] = @ \ (Topics \cup {Broadcast})]
        /\ UNCHANGED <<msg, todo, buf, sent, fwd>>
    BY <1>6 DEF Disconnect, Deregister, hubVars
  <2>2. Feed!Unsubscribe(c, Topics)
    BY <2>1, DeregisterUnsubscribes
  <2> QED
    BY <2>2 DEF Feed!Next
<1>7. ASSUME NEW c \in Conns, OnPub(c)
      PROVE  Feed!Next
  <2> PICK T \in SUBSET Topics : T = cmd[c].topics
    BY <1>7, CalledCmd DEF OnPub, Called
  <2>1. HubReady /\ Accept(T) /\ fwd' = fwd /\ sent' = sent
    BY <1>7 DEF OnPub, Called
  <2>2. Feed!Publish(T)
    BY <2>1, AcceptPublishes
  <2> QED
    BY <2>2 DEF Feed!Next
<1>8. ASSUME NEW h \in Hooks, HookPublish(h)
      PROVE  Feed!Next
  <2>0. hook[h] \in SUBSET Topics
    <3>1. hook[h] \in {{}} \cup {{t} : t \in Topics}
      BY DEF TypeOK
    <3> QED
      BY <3>1
  <2> PICK T \in SUBSET Topics : T = hook[h]
    BY <2>0
  <2>1. HubReady /\ Accept(T) /\ fwd' = fwd /\ sent' = sent
    BY <1>8 DEF HookPublish, connVars
  <2>2. Feed!Publish(T)
    BY <2>1, AcceptPublishes
  <2> QED
    BY <2>2 DEF Feed!Next
<1>9. ASSUME NEW c \in Conns, ForwarderStep(c)
      PROVE  Feed!Next
  <2>1. Feed!Deliver(c) \/ Feed!Quit(c)
    BY <1>9, ForwardDelivers, ForwardFailsQuits, ForwardEndQuits DEF ForwarderStep
  <2> QED
    BY <2>1 DEF Feed!Next
<1>10. CASE Shutdown
  BY <1>10, ShutdownUnsubscribes DEF Feed!Next
<1>11. ASSUME NEW h \in Hooks, NEW t \in Topics, HookRequest(h, t)
       PROVE  UNCHANGED Feed!vars
  <2>1. UNCHANGED <<msg, todo, buf, sent, subs, fwd>>
    BY <1>11 DEF HookRequest, connVars, chanVars, hubVars
  <2> QED
    BY <2>1, Invisible DEF FeedSubs, FeedLive
<1>12. CASE CloseCall \/ UNCHANGED vars
  <2>1. UNCHANGED <<msg, todo, buf, sent, subs, fwd>>
    BY <1>12 DEF CloseCall, vars, connVars, chanVars, hubVars
  <2> QED
    BY <2>1, Invisible DEF FeedSubs, FeedLive
<1> QED
  BY <1>1, <1>2, <1>3, <1>4, <1>5, <1>6, <1>7, <1>8, <1>9, <1>10, <1>11, <1>12
  DEF Next, PumpStep

(***************************************************************************)
(* What clients see of hub, channels and goroutines is the atomic topic    *)
(* feed: onPub and handleWebhookPublish publish in one step to those       *)
(* subscribed at that moment, whatever the hub is still sending; nothing   *)
(* is lost, repeated or reordered as long as the forwarder runs.           *)
(***************************************************************************)
THEOREM ImplementsFeedCorrect == Spec => ImplementsFeed
<1>1. Init => Feed!Init
  <2> SUFFICES ASSUME Init
               PROVE  Feed!Init
    OBVIOUS
  <2>1. ASSUME NEW c \in Conns
        PROVE  FeedOf[c] = <<>>
    <3>1. Owed(c) = 0 /\ buf[c] = <<>> /\ Copies(msg, 0) = <<>>
      BY OwedCount, CopiesSeq DEF Init
    <3> QED
      BY <3>1 DEF FeedOf
  <2>2. FeedOf = [c \in Conns |-> <<>>]
    BY <2>1 DEF FeedOf
  <2>3. FeedSubs = [c \in Conns |-> {}] /\ FeedLive = [c \in Conns |-> TRUE]
    BY DEF Init, FeedSubs, FeedLive
  <2> QED
    BY <2>2, <2>3 DEF Init, Feed!Init, FeedOf, FeedSubs, FeedLive, Copies
<1>2. TypeOK /\ HubInv /\ ForwarderStartedOnce /\ [Next]_vars
        => [Feed!Next]_(Feed!vars)
  BY StepRefines
<1> QED
  BY <1>1, <1>2, TypeCorrect, HubCorrect, ForwarderStartedOnceCorrect, PTL DEF Spec, ImplementsFeed, Feed!Spec
===============================================================================
