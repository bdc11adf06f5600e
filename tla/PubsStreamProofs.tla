--------------------------- MODULE PubsStreamProofs ---------------------------
(***************************************************************************)
(* Proofs about the event stream, for any number of connections, webhook   *)
(* requests and topics, any channel capacity and any number of events.     *)
(***************************************************************************)
EXTENDS PubsStream, TLAPS

-------------------------------------------------------------------------------
(* Lemmas about single steps. *)

(* A pump that calls the hub has a well-formed client message. *)
LEMMA CalledCmd ==
  ASSUME TypeOK, NEW c \in Conns, cmd[c].op # "none"
  PROVE  /\ cmd[c] \in Cmd
         /\ cmd[c].topics \in SUBSET Topics
<1>1. cmd[c] \in Cmd
  BY DEF TypeOK, NoCmd
<1> QED
  BY <1>1 DEF Cmd

(* The hub chooses its next delivery among those left. *)
LEMMA PickTyped ==
  ASSUME NEW S, NEW x \in Pick(S)
  PROVE  x \in IF S = {} THEN {<<>>} ELSE S
BY DEF Pick

(* The deliveries of an event go to topics and connections that exist. *)
LEMMA AcceptTyped ==
  ASSUME TypeOK, NEW T \in SUBSET Topics, Accept(T)
  PROVE  /\ msg' \in Nat
         /\ todo' \subseteq Topics \X Conns
         /\ target' \in IF todo' = {} THEN {<<>>} ELSE todo'
<1>1. msg' \in Nat
  BY DEF Accept, TypeOK
<1>2. todo' \subseteq Topics \X Conns
  <2>1. T \X Conns \subseteq Topics \X Conns
    OBVIOUS
  <2> QED
    BY <2>1 DEF Accept
<1>3. target' \in Pick(todo')
  BY DEF Accept
<1> QED
  BY <1>1, <1>2, <1>3, PickTyped

(* While the hub delivers, its target is a topic and a connection. *)
LEMMA TargetTyped ==
  ASSUME TypeOK, todo # {}
  PROVE  /\ target \in todo
         /\ target = <<target[1], target[2]>>
         /\ target[1] \in Topics
         /\ target[2] \in Conns
<1>1. target \in todo /\ target \in Topics \X Conns
  BY DEF TypeOK
<1> QED
  BY <1>1

(* A forwarder takes an event out of its channel and leaves it within bounds. *)
LEMMA TakeTyped ==
  ASSUME TypeOK, NEW c \in Conns, Take(c)
  PROVE  /\ buf' \in [Conns -> Seq(Nat)]
         /\ \A d \in Conns : Len(buf'[d]) <= Capacity
         /\ Head(buf[c]) \in Nat
<1> DEFINE b == buf[c]
<1>1. b \in Seq(Nat) /\ b # <<>> /\ Len(b) <= Capacity
  BY DEF TypeOK, Take
<1>2. Tail(b) \in Seq(Nat) /\ Head(b) \in Nat /\ Len(Tail(b)) = Len(b) - 1
  BY <1>1
<1>3. Len(b) \in Nat /\ Capacity \in Nat
  BY <1>1, StreamAssumption
<1>4. Len(Tail(b)) <= Capacity
  BY <1>1, <1>2, <1>3
<1>5. buf' = [buf EXCEPT ![c] = Tail(b)]
  BY DEF Take
<1> HIDE DEF b
<1> QED
  BY <1>2, <1>4, <1>5 DEF TypeOK, b

(***************************************************************************)
(* The state is well typed: above all no channel ever holds more than its  *)
(* capacity, and the delivery the hub is making is one it has to make.     *)
(***************************************************************************)
THEOREM TypeCorrect == Spec => []TypeOK
<1>1. Init => TypeOK
  BY StreamAssumption DEF Init, TypeOK, NoCmd
<1>2. TypeOK /\ [Next]_vars => TypeOK'
  <2> SUFFICES ASSUME TypeOK, [Next]_vars
               PROVE  TypeOK'
    OBVIOUS
  <2> USE StreamAssumption DEF TypeOK, Bound, NoCmd, connVars, chanVars, hubVars
  <2>1. CASE HubSend
    <3> DEFINE c == target[2]
    <3>1. c \in Conns
      BY <2>1, TargetTyped DEF HubSend
    <3>2. buf' = [buf EXCEPT ![c] = Append(buf[c], msg)]
      BY <2>1 DEF HubSend
    <3>3. /\ Append(buf[c], msg) \in Seq(Nat)
          /\ Len(Append(buf[c], msg)) <= Capacity
      BY <2>1, <3>1 DEF HubSend
    <3> HIDE DEF c
    <3>4. buf' \in [Conns -> Seq(Nat)] /\ \A d \in Conns : Len(buf'[d]) <= Capacity
      BY <3>1, <3>2, <3>3
    <3>5. todo' \subseteq Topics \X Conns
      BY <2>1 DEF HubSend
    <3>6. target' \in Pick(todo')
      BY <2>1 DEF HubSend
    <3>7. target' \in IF todo' = {} THEN {<<>>} ELSE todo'
      BY <3>6, PickTyped
    <3> QED
      BY <2>1, <3>4, <3>5, <3>7 DEF HubSend
  <2>2. CASE CloseCall
    BY <2>2 DEF CloseCall
  <2>3. CASE Shutdown
    BY <2>3 DEF Shutdown, HubReady
  <2>4. ASSUME NEW c \in Conns, Connect(c)
        PROVE  TypeOK'
    BY <2>4 DEF Connect, Step
  <2>5. ASSUME NEW c \in Conns, Join(c)
        PROVE  TypeOK'
    BY <2>5 DEF Join, Step, HubReady, Register
  <2>6. ASSUME NEW c \in Conns, Greet(c)
        PROVE  TypeOK'
    BY <2>6 DEF Greet, Step, Drop
  <2>7. ASSUME NEW c \in Conns, Receive(c)
        PROVE  TypeOK'
    BY <2>7 DEF Receive, Step, Cmd
  <2>8. ASSUME NEW c \in Conns, OnSub(c)
        PROVE  TypeOK'
    BY <2>8, CalledCmd DEF OnSub, Called, Step, Register
  <2>9. ASSUME NEW c \in Conns, OnUnsub(c)
        PROVE  TypeOK'
    BY <2>9, CalledCmd DEF OnUnsub, Called, Step, Deregister
  <2>10. ASSUME NEW c \in Conns, OnPub(c)
        PROVE  TypeOK'
    <3>1. cmd[c].topics \in SUBSET Topics /\ cmd[c] \in Cmd
      BY <2>10, CalledCmd DEF OnPub, Called
    <3>2. Accept(cmd[c].topics)
      BY <2>10 DEF OnPub
    <3> QED
      BY <2>10, <3>1, <3>2, AcceptTyped DEF OnPub, Called, Step, Accept
  <2>11. ASSUME NEW c \in Conns, Ack(c)
        PROVE  TypeOK'
    BY <2>11 DEF Ack, Step, Drop
  <2>12. ASSUME NEW c \in Conns, Reject(c)
        PROVE  TypeOK'
    BY <2>12 DEF Reject, Step, Drop
  <2>13. ASSUME NEW c \in Conns, Fail(c)
        PROVE  TypeOK'
    BY <2>13 DEF Fail, Drop
  <2>14. ASSUME NEW c \in Conns, Hangup(c)
        PROVE  TypeOK'
    BY <2>14 DEF Hangup, Step
  <2>15. ASSUME NEW c \in Conns, Disconnect(c)
        PROVE  TypeOK'
    BY <2>15 DEF Disconnect, Step, Deregister
  <2>16. ASSUME NEW c \in Conns, ForwardSent(c)
        PROVE  TypeOK'
    <3>1. Take(c) /\ sent' = [sent EXCEPT ![c] = Append(sent[c], Head(buf[c]))]
      BY <2>16 DEF ForwardSent
    <3>2. Head(buf[c]) \in Nat
      BY <3>1, TakeTyped
    <3>3. Append(sent[c], Head(buf[c])) \in Seq(Nat)
      BY <3>2
    <3>4. sent' \in [Conns -> Seq(Nat)]
      BY <3>1, <3>3
    <3> QED
      BY <2>16, <3>1, <3>4, TakeTyped DEF ForwardSent, Take
  <2>17. ASSUME NEW c \in Conns, ForwardFails(c)
        PROVE  TypeOK'
    BY <2>17, TakeTyped DEF ForwardFails, Take, Drop
  <2>18. ASSUME NEW c \in Conns, ForwardEnd(c)
        PROVE  TypeOK'
    BY <2>18 DEF ForwardEnd
  <2>19. ASSUME NEW h \in Hooks, HookPublish(h)
        PROVE  TypeOK'
    <3>1. hook[h] \in {{}} \cup {{t} : t \in Topics}
      OBVIOUS
    <3>2. hook[h] \in SUBSET Topics /\ Accept(hook[h])
      BY <2>19, <3>1 DEF HookPublish
    <3> QED
      BY <2>19, <3>2, AcceptTyped DEF HookPublish, Accept
  <2>20. ASSUME NEW h \in Hooks, NEW t \in Topics, HookRequest(h, t)
        PROVE  TypeOK'
    BY <2>20 DEF HookRequest
  <2>21. CASE UNCHANGED vars
    BY <2>21 DEF vars
  <2>22. QED
    BY <2>1, <2>2, <2>3, <2>4, <2>5, <2>6, <2>7, <2>8, <2>9, <2>10, <2>11, <2>12, <2>13, <2>14, <2>15, <2>16, <2>17, <2>18, <2>19, <2>20, <2>21 DEF Next, PumpStep, ForwarderStep
<1>3. QED
  BY <1>1, <1>2, PTL DEF Spec
-------------------------------------------------------------------------------
(* The invariant of the hub. *)

(* A step of one pump that the hub has no part in, and that makes no ack due. *)
LEMMA HubInvPump ==
  ASSUME TypeOK, HubInv, NEW c \in Conns,
         UNCHANGED <<chanVars, hubVars>>,
         \A d \in Conns \ {c} : pump'[d] = pump[d] /\ cmd'[d] = cmd[d],
         pump[c] \in Bound, pump'[c] \in Bound, pump'[c] # "acking",
         pump'[c] = "calling" => cmd'[c].op # "none"
  PROVE  HubInv'
<1> USE DEF chanVars, hubVars
<1>1. ASSUME NEW d \in Conns
      PROVE  /\ chan'[d] = "open" <=> subs'[d] # {}
             /\ pump'[d] \in Bound /\ running' => Broadcast \in subs'[d]
             /\ pump'[d] \notin Bound => subs'[d] = {}
             /\ pump'[d] \in {"calling", "acking"} => cmd'[d].op # "none"
  BY DEF HubInv
<1>2. AckInv'
  BY DEF HubInv, AckInv
<1> QED
  BY <1>1, <1>2 DEF HubInv

(* When the hub takes an event it is about to send it to subscribers. *)
LEMMA AcceptKeepsHub ==
  ASSUME TypeOK, NEW T \in SUBSET Topics, Accept(T)
  PROVE  /\ \A d \in todo' : d[1] \in subs'[d[2]]
         /\ UNCHANGED <<running, chan, subs>>
         /\ msg' > 0
<1>1. msg \in Nat /\ msg' = msg + 1
  BY DEF Accept, TypeOK
<1> QED
  BY <1>1 DEF Accept, chanVars

(***************************************************************************)
(* HubInv is inductive: initially no channel exists, and every step of the *)
(* hub, a pump, a forwarder or Close keeps channels, registrations and     *)
(* pending deliveries in line.                                             *)
(***************************************************************************)
THEOREM HubCorrect == Spec => []HubInv
<1>1. Init => HubInv
  BY DEF Init, HubInv, AckInv, Bound
<1>2. TypeOK /\ HubInv /\ [Next]_vars => HubInv'
  <2> SUFFICES ASSUME TypeOK, HubInv, [Next]_vars
               PROVE  HubInv'
    OBVIOUS
  <2> USE StreamAssumption DEF TypeOK, HubInv, AckInv, Bound, NoCmd, connVars, chanVars, hubVars
  <2>1. CASE HubSend
    BY <2>1 DEF HubSend
  <2>2. CASE CloseCall
    BY <2>2 DEF CloseCall
  <2>3. CASE Shutdown
    BY <2>3 DEF Shutdown, HubReady
  <2>4. ASSUME NEW c \in Conns, Connect(c)
        PROVE  HubInv'
    BY <2>4 DEF Connect, Step
  <2>5. ASSUME NEW c \in Conns, Join(c)
        PROVE  HubInv'
    BY <2>5 DEF Join, Step, HubReady, Register
  <2>6. ASSUME NEW c \in Conns, Greet(c)
        PROVE  HubInv'
    <3> HIDE DEF TypeOK, HubInv, AckInv
    <3>1. pump[c] = "greeting" /\ pump' \in {[pump EXCEPT ![c] = "reading"], [pump EXCEPT ![c] = "leaving"]}
      BY <2>6 DEF Greet, Step
    <3>2. UNCHANGED <<cmd, chanVars, hubVars>>
      BY <2>6 DEF Greet
    <3> QED
      BY <3>1, <3>2, HubInvPump DEF TypeOK, Bound
  <2>7. ASSUME NEW c \in Conns, Receive(c)
        PROVE  HubInv'
    <3>1. pump[c] = "reading" /\ pump' = [pump EXCEPT ![c] = "calling"]
      BY <2>7 DEF Receive, Step
    <3>2. PICK m \in Cmd : cmd' = [cmd EXCEPT ![c] = m]
      BY <2>7 DEF Receive
    <3>3. m.op # "none"
      BY DEF Cmd
    <3>4. UNCHANGED <<chanVars, hubVars>>
      BY <2>7 DEF Receive
    <3> QED
      BY <3>1, <3>2, <3>3, <3>4, HubInvPump DEF TypeOK, Bound
  <2>8. ASSUME NEW c \in Conns, OnSub(c)
        PROVE  HubInv'
    BY <2>8, CalledCmd DEF OnSub, Called, Step, HubReady, Register
  <2>9. ASSUME NEW c \in Conns, OnUnsub(c)
        PROVE  HubInv'
    <3> DEFINE T == cmd[c].topics
    <3>1. T \in SUBSET Topics
      BY <2>9, CalledCmd DEF OnUnsub, Called
    <3>2. /\ running /\ todo = {} /\ running' = running /\ todo' = todo
          /\ subs' = [subs EXCEPT ![c] = subs[c] \ T]
          /\ chan' = [chan EXCEPT ![c] = IF subs[c] # {} /\ subs[c] \subseteq T
                                        THEN "closed" ELSE chan[c]]
      BY <2>9 DEF OnUnsub, Called, HubReady, Deregister
    <3>3. /\ pump[c] = "calling"
          /\ pump' = [pump EXCEPT ![c] = IF cmd[c].ack THEN "acking" ELSE "reading"]
          /\ cmd' = [cmd EXCEPT ![c] = IF cmd[c].ack THEN cmd[c] ELSE NoCmd]
          /\ cmd[c].op = "unsub"
      BY <2>9 DEF OnUnsub, Called, Step
    <3>4. Broadcast \in subs[c] /\ Broadcast \in subs'[c] /\ chan' = chan
      BY <3>1, <3>2, <3>3
    <3>5. pump'[c] = "acking" => cmd'[c] = cmd[c]
      BY <3>3
    <3>6. T \cap subs'[c] = {}
      BY <3>2
    <3>7. \A d \in Conns : d # c => /\ pump'[d] = pump[d]
                                    /\ cmd'[d] = cmd[d]
                                    /\ subs'[d] = subs[d]
      BY <3>2, <3>3
    <3>8. chan'[c] = "open" /\ subs'[c] # {} /\ pump'[c] \in {"acking", "reading"}
      BY <3>3, <3>4
    <3>9. pump'[c] = "acking" =>
            cmd'[c].op = "unsub" /\ cmd'[c].topics \cap subs'[c] = {}
      BY <3>3, <3>5, <3>6
    <3>10. AckInv'
      <4> SUFFICES ASSUME NEW d \in Conns, pump'[d] = "acking", running'
                   PROVE  /\ cmd'[d].op = "sub"   => cmd'[d].topics \subseteq subs'[d]
                          /\ cmd'[d].op = "unsub" => cmd'[d].topics \cap subs'[d] = {}
        BY DEF AckInv
      <4>1. msg' = msg
        BY <2>9 DEF OnUnsub, Deregister
      <4>2. CASE d = c
        BY <4>2, <3>9
      <4>3. CASE d # c
        BY <4>3, <4>1, <3>7, <3>2
      <4> QED
        BY <4>2, <4>3
    <3>11. ASSUME NEW d \in Conns
          PROVE  /\ chan'[d] = "open" <=> subs'[d] # {}
                 /\ pump'[d] \in Bound /\ running' => Broadcast \in subs'[d]
                 /\ pump'[d] \notin Bound => subs'[d] = {}
                 /\ pump'[d] \in {"calling", "acking"} => cmd'[d].op # "none"
      <4>1. CASE d = c
        BY <4>1, <3>4, <3>8, <3>9
      <4>2. CASE d # c
        BY <4>2, <3>2, <3>4, <3>7
      <4> QED
        BY <4>1, <4>2
    <3> HIDE DEF TypeOK, AckInv, Bound, T
    <3> QED
      BY <3>2, <3>10, <3>11
  <2>10. ASSUME NEW c \in Conns, OnPub(c)
        PROVE  HubInv'
    <3>1. cmd[c].topics \in SUBSET Topics /\ Accept(cmd[c].topics)
      BY <2>10, CalledCmd DEF OnPub, Called
    <3>2. /\ \A d \in todo' : d[1] \in subs'[d[2]]
          /\ UNCHANGED <<running, chan, subs>>
          /\ msg' > 0
      BY <3>1, AcceptKeepsHub
    <3>3. /\ running
          /\ pump[c] = "calling" /\ cmd[c].op = "pub"
          /\ pump' = [pump EXCEPT ![c] = IF cmd[c].ack THEN "acking" ELSE "reading"]
          /\ cmd' = [cmd EXCEPT ![c] = IF cmd[c].ack THEN cmd[c] ELSE NoCmd]
      BY <2>10 DEF OnPub, Called, HubReady, Step
    <3>4. AckInv'
      <4> SUFFICES ASSUME NEW d \in Conns, pump'[d] = "acking", running'
                   PROVE  /\ cmd'[d].op = "sub"   => cmd'[d].topics \subseteq subs'[d]
                          /\ cmd'[d].op = "unsub" => cmd'[d].topics \cap subs'[d] = {}
        BY DEF AckInv
      <4>1. subs'[d] = subs[d]
        BY <3>2
      <4>2. CASE d = c
        <5>1. cmd'[d].op = "pub"
          BY <4>2, <3>3
        <5> QED
          BY <5>1, <3>2
      <4>3. CASE ~(d = c)
        <5>1. pump'[d] = pump[d] /\ cmd'[d] = cmd[d]
          BY <4>3, <3>3
        <5> QED
          BY <5>1, <4>1, <3>2, <3>3
      <4> QED
        BY <4>2, <4>3
    <3> HIDE DEF TypeOK, AckInv
    <3>5. ASSUME NEW d \in Conns
          PROVE  /\ chan'[d] = "open" <=> subs'[d] # {}
                 /\ pump'[d] \in Bound /\ running' => Broadcast \in subs'[d]
                 /\ pump'[d] \notin Bound => subs'[d] = {}
                 /\ pump'[d] \in {"calling", "acking"} => cmd'[d].op # "none"
      BY <3>2, <3>3 DEF TypeOK
    <3> QED
      BY <3>2, <3>3, <3>4, <3>5
  <2>11. ASSUME NEW c \in Conns, Ack(c)
        PROVE  HubInv'
    <3>1. pump[c] = "acking" /\ pump' \in {[pump EXCEPT ![c] = "reading"], [pump EXCEPT ![c] = "leaving"]}
      BY <2>11 DEF Ack, Step
    <3>2. cmd' = [cmd EXCEPT ![c] = NoCmd] /\ UNCHANGED <<chanVars, hubVars>>
      BY <2>11 DEF Ack
    <3> QED
      BY <3>1, <3>2, HubInvPump DEF TypeOK, Bound
  <2>12. ASSUME NEW c \in Conns, Reject(c)
        PROVE  HubInv'
    BY <2>12 DEF Reject, Step, Drop
  <2>13. ASSUME NEW c \in Conns, Fail(c)
        PROVE  HubInv'
    BY <2>13 DEF Fail, Drop
  <2>14. ASSUME NEW c \in Conns, Hangup(c)
        PROVE  HubInv'
    BY <2>14 DEF Hangup, Step
  <2>15. ASSUME NEW c \in Conns, Disconnect(c)
        PROVE  HubInv'
    BY <2>15 DEF Disconnect, Step, HubReady, Deregister
  <2>16. ASSUME NEW c \in Conns, ForwardSent(c)
        PROVE  HubInv'
    BY <2>16 DEF ForwardSent, Take
  <2>17. ASSUME NEW c \in Conns, ForwardFails(c)
        PROVE  HubInv'
    BY <2>17 DEF ForwardFails, Take, Drop
  <2>18. ASSUME NEW c \in Conns, ForwardEnd(c)
        PROVE  HubInv'
    BY <2>18 DEF ForwardEnd
  <2>19. ASSUME NEW h \in Hooks, HookPublish(h)
        PROVE  HubInv'
    <3>1. hook[h] \in SUBSET Topics /\ Accept(hook[h])
      <4>1. hook[h] \in {{}} \cup {{t} : t \in Topics}
        OBVIOUS
      <4> QED
        BY <2>19, <4>1 DEF HookPublish
    <3>2. /\ \A d \in todo' : d[1] \in subs'[d[2]]
          /\ UNCHANGED <<running, chan, subs>>
          /\ msg' > 0
      BY <3>1, AcceptKeepsHub
    <3>3. running /\ UNCHANGED <<pump, cmd>>
      BY <2>19 DEF HookPublish, HubReady
    <3>4. AckInv'
      <4> SUFFICES ASSUME NEW d \in Conns, pump'[d] = "acking", running'
                   PROVE  /\ cmd'[d].op = "sub"   => cmd'[d].topics \subseteq subs'[d]
                          /\ cmd'[d].op = "unsub" => cmd'[d].topics \cap subs'[d] = {}
        BY DEF AckInv
      <4>1. subs'[d] = subs[d] /\ pump'[d] = pump[d] /\ cmd'[d] = cmd[d]
        BY <3>2, <3>3
      <4> QED
        BY <4>1, <3>2, <3>3
    <3> HIDE DEF TypeOK, AckInv
    <3> QED
      BY <3>2, <3>3, <3>4
  <2>20. ASSUME NEW h \in Hooks, NEW t \in Topics, HookRequest(h, t)
        PROVE  HubInv'
    BY <2>20 DEF HookRequest
  <2>21. CASE UNCHANGED vars
    BY <2>21 DEF vars
  <2>22. QED
    BY <2>1, <2>2, <2>3, <2>4, <2>5, <2>6, <2>7, <2>8, <2>9, <2>10, <2>11, <2>12, <2>13, <2>14, <2>15, <2>16, <2>17, <2>18, <2>19, <2>20, <2>21 DEF Next, PumpStep, ForwarderStep
<1>3. QED
  BY <1>1, <1>2, TypeCorrect, PTL DEF Spec

(***************************************************************************)
(* The hub never sends on a closed channel.                                *)
(***************************************************************************)
THEOREM NoSendOnClosedCorrect == Spec => []NoSendOnClosed
<1>1. TypeOK /\ HubInv => NoSendOnClosed
  BY DEF TypeOK, HubInv, NoSendOnClosed
<1> QED
  BY <1>1, TypeCorrect, HubCorrect, PTL

(***************************************************************************)
(* A connection has a channel from onSubInit to OnDisconnect, and the hub  *)
(* keeps nothing of it afterwards.                                         *)
(***************************************************************************)
THEOREM ServedOrReleasedCorrect == Spec => []ServedOrReleased
<1>1. HubInv => ServedOrReleased
  BY DEF HubInv, ServedOrReleased
<1> QED
  BY <1>1, HubCorrect, PTL

(***************************************************************************)
(* OnText acknowledges what has been executed: a subscription or its end   *)
(* holds until the ack is sent, and the ack of a publish becomes due in the *)
(* step in which the hub takes that very event for all its subscribers.    *)
(***************************************************************************)
THEOREM AckAfterEffectCorrect == Spec => AckAfterEffect
<1> DEFINE Due(c) == pump[c] # "acking" /\ pump'[c] = "acking" /\ cmd'[c].op = "pub"
           Taken == \A c \in Conns : Due(c) => EventTaken(cmd'[c].topics)
<1>1. TypeOK /\ [Next]_vars => [Taken]_vars
  <2> SUFFICES ASSUME TypeOK, Next,
                      NEW c \in Conns, Due(c)
               PROVE  EventTaken(cmd'[c].topics)
    OBVIOUS
  <2>1. ASSUME NEW d \in Conns, OnPub(d)
        PROVE  EventTaken(cmd'[c].topics)
    <3>1. c = d /\ cmd'[c] = cmd[c]
      BY <2>1 DEF OnPub, Called, Step, TypeOK
    <3> QED
      BY <2>1, <3>1 DEF OnPub, Accept, EventTaken
  <2>2. ASSUME NEW d \in Conns, OnSub(d) \/ OnUnsub(d)
        PROVE  FALSE
    BY <2>2 DEF OnSub, OnUnsub, Called, Step, TypeOK
  <2>3. ASSUME NEW d \in Conns,
               \/ Connect(d) \/ Join(d) \/ Greet(d) \/ Receive(d) \/ Ack(d)
               \/ Reject(d) \/ Fail(d) \/ Hangup(d) \/ Disconnect(d)
        PROVE  FALSE
    BY <2>3 DEF Connect, Join, Greet, Receive, Ack, Reject, Fail, Hangup, Disconnect,
                Step, TypeOK
  <2>4. ASSUME NEW d \in Conns, ForwarderStep(d)
        PROVE  FALSE
    BY <2>4 DEF ForwarderStep, ForwardSent, ForwardFails, ForwardEnd, Take
  <2>5. CASE HubSend \/ CloseCall \/ Shutdown
    BY <2>5 DEF HubSend, CloseCall, Shutdown, connVars
  <2>6. ASSUME NEW h \in Hooks,
               HookPublish(h) \/ \E t \in Topics : HookRequest(h, t)
        PROVE  FALSE
    BY <2>6 DEF HookPublish, HookRequest, connVars
  <2> QED
    BY <2>1, <2>2, <2>3, <2>4, <2>5, <2>6 DEF Next, PumpStep
<1>2. HubInv => AckInv
  BY DEF HubInv
<1> QED
  BY <1>1, <1>2, TypeCorrect, HubCorrect, PTL DEF AckAfterEffect, Spec
===============================================================================
