---------------------------- MODULE KvStoreProofs ----------------------------
(***************************************************************************)
(* Proofs about the documents of the kvs plugin, for any number of         *)
(* requests, users and clients, any keys and values, batches of any length *)
(* and any limit of the selection.                                         *)
(***************************************************************************)
EXTENDS KvStore, FiniteSetTheorems, WellFoundedInduction, TLAPS

-------------------------------------------------------------------------------
(* Lemmas about lengths, keys and what is asked for. *)

(* The decoding of a batch adds what is missing to a multiple of three
   bytes.                                                                  *)
LEMMA Padding ==
  ASSUME NEW n \in Nat
  PROVE  /\ DecodedLen(EncodedLen(n) + 2) - n \in 0..2
         /\ n % 3 = 0 => DecodedLen(EncodedLen(n) + 2) = n
<1> DEFINE m == (n + 2) \div 3
<1>1. m \in Nat /\ 3 * m \in n..(n + 2) /\ (n % 3 = 0 => 3 * m = n)
  OBVIOUS
<1> HIDE DEF m
<1>2. (4 * m + 2) \div 4 = m
  BY <1>1
<1>3. DecodedLen(EncodedLen(n) + 2) = 3 * m
  BY <1>2 DEF DecodedLen, EncodedLen, m
<1> QED
  BY <1>1, <1>3

(* What is stored of a batch entry is the value, and up to two bytes more. *)
LEMMA BatchValueStored ==
  ASSUME NEW v \in Values
  PROVE  /\ BatchValue(v) \in Stored
         /\ BatchValue(v)[1] = v
         /\ v \in Json \/ Length[v] % 3 = 0 => BatchValue(v) = <<v, 0>>
<1>1. Length[v] \in Nat
  BY StoreAssumption
<1>2. CASE v \in Json
  BY <1>2 DEF BatchValue, Stored
<1>3. CASE v \notin Json
  <2> DEFINE d == DecodedLen(EncodedLen(Length[v]) + 2)
  <2>1. d - Length[v] \in 0..2 /\ (Length[v] % 3 = 0 => d = Length[v])
    BY <1>1, Padding
  <2>2. BatchValue(v) = <<v, d - Length[v]>>
    BY <1>3 DEF BatchValue
  <2> HIDE DEF d
  <2>3. Length[v] % 3 = 0 => d - Length[v] = 0
    BY <1>1, <2>1
  <2> QED
    BY <1>3, <2>1, <2>2, <2>3 DEF Stored
<1> QED
  BY <1>2, <1>3

(* A batch gives every one of its documents the collection that a PUT of the
   same key gives it.                                                      *)
LEMMA SameCollection ==
  ASSUME NEW url \in Urls, NEW k \in Below(url)
  PROVE  BatchCollection(url) = PutCollection(k)
<1>1. /\ k \in Seq(Segments) /\ url \in Seq(Segments) /\ Len(url) > 0
      /\ k # url /\ Len(url) <= Len(k)
      /\ SubSeq(url, 1, Len(url)) = SubSeq(k, 1, Len(url))
  BY StoreAssumption DEF Below, IsPrefix, Urls
<1>2. \A i \in 1..Len(url) : url[i] = k[i]
  <2> SUFFICES ASSUME NEW i \in 1..Len(url)
               PROVE  url[i] = k[i]
    OBVIOUS
  <2>1. SubSeq(url, 1, Len(url))[i] = url[i] /\ SubSeq(k, 1, Len(url))[i] = k[i]
    BY <1>1
  <2> QED
    BY <1>1, <2>1
<1>3. Len(k) # Len(url)
  BY <1>1, <1>2
<1>4. Len(k) > 1
  BY <1>1, <1>3
<1>5. url[1] = k[1]
  BY <1>1, <1>2
<1> QED
  BY <1>4, <1>5 DEF BatchCollection, PutCollection

(* A PUT is of one document, a batch of documents strictly below its URL. *)
WellAsked(a) ==
  /\ a.op \in {"get", "delete", "put", "batch"}
  /\ a.by \in Who /\ a.key \in Urls /\ a.key \in Keys
  /\ Len(a.entries) \in Nat
  /\ \A i \in 1..Len(a.entries) : a.entries[i][1] \in Keys /\ a.entries[i][2] \in Values
  /\ a.op = "put" => Len(a.entries) = 1 /\ a.entries[1][1] = a.key
  /\ a.op = "batch" => \A i \in 1..Len(a.entries) : a.entries[i][1] \in Below(a.key)

(* Everything a request can ask for is like that. *)
LEMMA AskTyped ==
  ASSUME NEW a \in Asks
  PROVE  WellAsked(a)
<1>1. CASE a \in [op : {"get", "delete"}, by : Who, key : Urls, entries : {<<>>}]
  BY <1>1 DEF WellAsked, Urls
<1>2. ASSUME NEW k \in Urls,
             a \in [op : {"put"}, by : Who, key : {k}, entries : {<< <<k, v>> >> : v \in Values}]
      PROVE  WellAsked(a)
  <2>1. PICK v \in Values : a.entries = << <<k, v>> >>
    BY <1>2
  <2>2. Len(a.entries) = 1 /\ a.entries[1] = <<k, v>>
    BY <2>1
  <2>3. \A i \in 1..Len(a.entries) : a.entries[i] = <<k, v>>
    BY <2>2
  <2>4. a.op = "put" /\ a.by \in Who /\ a.key = k /\ k \in Keys
    BY <1>2 DEF Urls
  <2> QED
    BY <2>2, <2>3, <2>4 DEF WellAsked
<1>3. ASSUME NEW k \in Urls,
             a \in [op : {"batch"}, by : Who, key : {k}, entries : Entries(k)]
      PROVE  WellAsked(a)
  <2>1. a.op = "batch" /\ a.by \in Who /\ a.key = k /\ a.entries \in Entries(k)
    BY <1>3
  <2>2. PICK n \in 0..MaxBatch : a.entries \in [1..n -> Below(k) \X (Values \ Malformed)]
    BY <2>1, StoreAssumption DEF Entries, BoundedSeq, SeqOf
  <2>3. Len(a.entries) = n
    BY <2>2
  <2>4. \A i \in 1..n : /\ a.entries[i][1] \in Below(k)
                        /\ a.entries[i][2] \in Values
    BY <2>2
  <2>5. Below(k) \subseteq Keys
    BY DEF Below
  <2> QED
    BY <2>1, <2>3, <2>4, <2>5 DEF WellAsked, Urls
<1>4. ASSUME NEW k \in Urls, a \in Puts(k) \cup Batches(k)
      PROVE  WellAsked(a)
  BY <1>2, <1>3, <1>4 DEF Puts, Batches
<1> QED
  BY <1>1, <1>4 DEF Asks

-------------------------------------------------------------------------------
(* Lemmas about the last entry of a batch for a key. *)

(* A set of numbers has one maximum at most. *)
LEMMA MaxIs ==
  ASSUME NEW S \in SUBSET Nat, NEW m \in S, \A i \in S : m >= i
  PROVE  Max(S) = m
<1>1. \A i \in S : i \in Nat
  OBVIOUS
<1>2. \A i \in S : (\A j \in S : i >= j) => i = m
  BY <1>1
<1> QED
  BY <1>2 DEF Max

(* Some number of a set that is bounded and not empty is its maximum. *)
LEMMA MaxExists ==
  ASSUME NEW n \in Nat, NEW S \in SUBSET (1..n), S # {}
  PROVE  Max(S) \in S
<1> DEFINE T == {n - i : i \in S}
           R == OpToRel(<, Nat)
<1>1. IsWellFoundedOn(R, Nat)
  BY NatLessThanWellFounded
<1>2. T \subseteq Nat /\ T # {}
  <2>1. \A i \in S : n - i \in Nat
    OBVIOUS
  <2> QED
    BY <2>1
<1>3. PICK t \in T : \A u \in T : <<u, t>> \notin R
  BY <1>1, <1>2, WFMin
<1>4. \A u \in T : ~ (u < t)
  BY <1>2, <1>3 DEF OpToRel
<1>5. PICK m \in S : t = n - m
  BY <1>3
<1>6. \A i \in S : m >= i
  <2> SUFFICES ASSUME NEW i \in S
               PROVE  m >= i
    OBVIOUS
  <2>1. ~ (n - i < n - m)
    BY <1>4, <1>5
  <2> QED
    BY <2>1
<1>7. Max(S) = m
  BY <1>6, MaxIs
<1> QED
  BY <1>7

(* One more entry is the last one for its key, and for no other. *)
LEMMA NextPlace ==
  ASSUME NEW a, NEW n \in Nat, NEW k
  PROVE  IF a.entries[n + 1][1] = k
         THEN Places(a, k, n + 1) # {} /\ Max(Places(a, k, n + 1)) = n + 1
         ELSE Places(a, k, n + 1) = Places(a, k, n)
<1>1. CASE a.entries[n + 1][1] = k
  <2>1. n + 1 \in Places(a, k, n + 1)
    BY <1>1 DEF Places
  <2>2. Places(a, k, n + 1) \in SUBSET Nat
    BY DEF Places
  <2>3. \A i \in Places(a, k, n + 1) : n + 1 >= i
    BY DEF Places
  <2> QED
    BY <1>1, <2>1, <2>2, <2>3, MaxIs
<1>2. CASE a.entries[n + 1][1] # k
  <2>1. 1..(n + 1) = (1..n) \cup {n + 1}
    OBVIOUS
  <2> QED
    BY <1>2, <2>1 DEF Places
<1> QED
  BY <1>1, <1>2

(* What a request writes is typed, and a PUT writes its document. *)
LEMMA WrittenTyped ==
  ASSUME NEW a \in Asks
  PROVE  /\ Written(a) \in [Keys -> Stored \cup {None}]
         /\ a.op = "put" => Written(a) =
              [k \in Keys |-> IF k = a.key THEN <<a.entries[1][2], 0>> ELSE None]
<1> DEFINE stored(v) == IF a.op = "batch" THEN BatchValue(v) ELSE <<v, 0>>
           places(k) == Places(a, k, Len(a.entries))
<1>1. WellAsked(a)
  BY AskTyped
<1>2. \A v \in Values : stored(v) \in Stored
  BY BatchValueStored DEF Stored
<1>3. ASSUME NEW k \in Keys, places(k) # {}
      PROVE  Max(places(k)) \in places(k) /\ Max(places(k)) \in 1..Len(a.entries)
  <2>1. places(k) \in SUBSET (1..Len(a.entries)) /\ Len(a.entries) \in Nat
    BY <1>1 DEF Places, WellAsked
  <2> QED
    BY <1>3, <2>1, MaxExists
<1>4. Written(a) = [k \in Keys |-> IF places(k) = {} THEN None
                                   ELSE stored(a.entries[Max(places(k))][2])]
  BY DEF Written
<1> HIDE DEF places, stored
<1>5. \A k \in Keys : places(k) # {} => stored(a.entries[Max(places(k))][2]) \in Stored
  BY <1>1, <1>2, <1>3 DEF WellAsked
<1>6. Written(a) \in [Keys -> Stored \cup {None}]
  BY <1>4, <1>5
<1>7. ASSUME a.op = "put"
      PROVE  Written(a) = [k \in Keys |-> IF k = a.key THEN <<a.entries[1][2], 0>> ELSE None]
  <2>1. Len(a.entries) = 1 /\ a.entries[1][1] = a.key /\ 1..1 = {1}
    BY <1>1, <1>7 DEF WellAsked
  <2>2. \A k \in Keys : places(k) = IF k = a.key THEN {1} ELSE {}
    BY <2>1 DEF places, Places
  <2>3. Max({1}) = 1
    BY MaxIs
  <2>4. \A v : stored(v) = <<v, 0>>
    BY <1>7 DEF stored
  <2> QED
    BY <1>4, <2>2, <2>3, <2>4
<1> QED
  BY <1>6, <1>7

-------------------------------------------------------------------------------
(* Lemmas about rows. *)

(* The rows that PUT and a batch write are rows of their key. *)
LEMMA RowTyped ==
  ASSUME NEW a \in Asks
  PROVE  /\ a.op = "put" =>
              LET row == RowFor(a, <<a.entries[1][2], 0>>, PutCollection(a.key))
              IN  row \in Row /\ Filed(a.key, row)
         /\ a.op = "batch" =>
              \A i \in 1..Len(a.entries) :
                BatchRow(a, i) \in Row /\ Filed(a.entries[i][1], BatchRow(a, i))
<1>1. WellAsked(a)
  BY AskTyped
<1>2. \A k \in Keys : PutCollection(k) \in Segments
  BY StoreAssumption DEF PutCollection
<1>3. \A stored \in Stored, coll \in Segments :
        /\ RowFor(a, stored, coll) \in Row
        /\ RowFor(a, stored, coll).coll = coll
        /\ RowFor(a, stored, coll).value = stored
  BY <1>1 DEF RowFor, Row, WellAsked, Who
<1>4. CASE a.op = "put"
  <2>1. <<a.entries[1][2], 0>> \in Stored
    BY <1>1, <1>4 DEF WellAsked, Stored
  <2> QED
    BY <1>1, <1>2, <1>3, <1>4, <2>1 DEF WellAsked, Filed
<1>5. ASSUME a.op = "batch", NEW i \in 1..Len(a.entries)
      PROVE  BatchRow(a, i) \in Row /\ Filed(a.entries[i][1], BatchRow(a, i))
  <2>1. a.entries[i][1] \in Below(a.key) /\ a.entries[i][1] \in Keys
        /\ a.entries[i][2] \in Values /\ a.key \in Urls
    BY <1>1, <1>5 DEF WellAsked
  <2>2. /\ BatchValue(a.entries[i][2]) \in Stored
        /\ BatchValue(a.entries[i][2])[1] = a.entries[i][2]
    BY <2>1, BatchValueStored
  <2>3. BatchCollection(a.key) = PutCollection(a.entries[i][1])
    BY <2>1, SameCollection
  <2> QED
    BY <1>2, <1>3, <2>1, <2>2, <2>3 DEF BatchRow, Filed
<1> QED
  BY <1>4, <1>5

(***************************************************************************)
(* The state is well typed: rows stay rows, and only a batch that is not   *)
(* answered has an open transaction, with no more entries done than given. *)
(***************************************************************************)
THEOREM StoreTypeCorrect == Spec => []TypeOK
<1>1. Init => TypeOK
  BY DEF Init, TypeOK
<1>2. TypeOK /\ [Next]_vars => TypeOK'
  <2> SUFFICES ASSUME TypeOK, [Next]_vars
               PROVE  TypeOK'
    OBVIOUS
  <2> USE NoneAssumption DEF TypeOK
  <2>1. ASSUME NEW r \in Requests, Ask(r)
        PROVE  TypeOK'
    BY <2>1 DEF Ask
  <2>2. ASSUME NEW r \in Requests, ask[r] # None
        PROVE  ask[r] \in Asks /\ WellAsked(ask[r])
    BY <2>2, AskTyped
  <2>3. ASSUME NEW r \in Requests, NEW status \in {"ok", "error", "missing"}
        PROVE  [status |-> status] \in Answers
    BY DEF Answers
  <2>4. ASSUME NEW r \in Requests, Put(r)
        PROVE  TypeOK'
    <3> DEFINE row == RowFor(ask[r], <<ask[r].entries[1][2], 0>>, PutCollection(ask[r].key))
    <3>1. ask[r] \in Asks /\ WellAsked(ask[r]) /\ ask[r].op = "put"
      BY <2>2, <2>4 DEF Put, Handle
    <3>2. row \in Row
      BY <3>1, RowTyped
    <3>3. table' \in [Owners \X Keys -> Row \cup {None}]
      BY <2>4, <3>2 DEF Put, Replace
    <3>4. answer' \in [Requests -> Answers \cup {None}]
      BY <2>3, <2>4 DEF Put, Answer, Respond
    <3>5. \A q \in Requests : tx[q] # None => answer'[q] = None
      BY <2>4, <3>1 DEF Put, Answer, Respond
    <3> QED
      BY <2>4, <3>3, <3>4, <3>5 DEF Put
  <2>5. ASSUME NEW r \in Requests, Get(r)
        PROVE  TypeOK'
    <3>1. ask[r] \in Asks /\ WellAsked(ask[r]) /\ ask[r].op = "get"
      BY <2>2, <2>5 DEF Get, Handle
    <3>2. ASSUME Mine(ask[r])
          PROVE  [status |-> "ok", value |-> table[<<ask[r].by.owner, ask[r].key>>].value] \in Answers
      <4>1. <<ask[r].by.owner, ask[r].key>> \in Owners \X Keys
        BY <3>1 DEF WellAsked, Who
      <4>2. table[<<ask[r].by.owner, ask[r].key>>] \in Row
        BY <3>2, <4>1 DEF Mine
      <4> QED
        BY <4>2 DEF Answers, Row
    <3>3. answer' \in [Requests -> Answers \cup {None}]
      BY <2>3, <2>5, <3>2 DEF Get, Answer, Respond
    <3>4. \A q \in Requests : tx[q] # None => answer'[q] = None
      BY <2>5, <3>1 DEF Get, Answer, Respond
    <3> QED
      BY <2>5, <3>3, <3>4 DEF Get
  <2>6. ASSUME NEW r \in Requests, Delete(r)
        PROVE  TypeOK'
    <3>1. ask[r].op = "delete"
      BY <2>6 DEF Delete, Handle
    <3>2. table' \in [Owners \X Keys -> Row \cup {None}]
      BY <2>6 DEF Delete, Replace
    <3>3. answer' \in [Requests -> Answers \cup {None}]
      BY <2>3, <2>6 DEF Delete, Answer, Respond
    <3>4. \A q \in Requests : tx[q] # None => answer'[q] = None
      BY <2>6, <3>1 DEF Delete, Answer, Respond
    <3> QED
      BY <2>6, <3>2, <3>3, <3>4 DEF Delete
  <2>7. ASSUME NEW r \in Requests, Fail(r)
        PROVE  TypeOK'
    <3>1. answer' \in [Requests -> Answers \cup {None}]
      BY <2>3, <2>7 DEF Fail, Answer, Respond
    <3>2. \A q \in Requests : tx[q] # None => answer'[q] = None
      BY <2>7 DEF Fail, Answer, Respond
    <3> QED
      BY <2>7, <3>1, <3>2 DEF Fail
  <2>8. ASSUME NEW r \in Requests, Begin(r)
        PROVE  TypeOK'
    <3> DEFINE new == [done |-> 0, rows |-> [k \in Keys |-> None]]
    <3>1. new \in Tx /\ new.done = 0
      BY DEF Tx
    <3>2. ask[r] # None /\ ask[r].op = "batch" /\ answer[r] = None /\ 0 <= Len(ask[r].entries)
      BY <2>2, <2>8 DEF Begin, Handle, WellAsked
    <3>3. tx' = [tx EXCEPT ![r] = new] /\ UNCHANGED <<table, ask, answer>>
      BY <2>8 DEF Begin
    <3> HIDE DEF new
    <3> QED
      BY <3>1, <3>2, <3>3
  <2>9. ASSUME NEW r \in Requests, Exec(r)
        PROVE  TypeOK'
    <3> DEFINE i == tx[r].done + 1
               new == [done |-> i,
                       rows |-> [tx[r].rows EXCEPT ![ask[r].entries[i][1]] = BatchRow(ask[r], i)]]
    <3>1. /\ ask[r] \in Asks /\ WellAsked(ask[r]) /\ ask[r].op = "batch" /\ answer[r] = None
          /\ tx[r] \in Tx /\ tx[r].done < Len(ask[r].entries)
      BY <2>2, <2>9 DEF Exec, Open, Handle
    <3>2. i \in 1..Len(ask[r].entries)
      BY <3>1 DEF Tx, WellAsked
    <3>3. BatchRow(ask[r], i) \in Row
      BY <3>1, <3>2, RowTyped
    <3>4. new \in Tx /\ new.done <= Len(ask[r].entries)
      <4>1. tx[r].rows \in [Keys -> Row \cup {None}]
        BY <3>1 DEF Tx
      <4>2. [tx[r].rows EXCEPT ![ask[r].entries[i][1]] = BatchRow(ask[r], i)]
            \in [Keys -> Row \cup {None}]
        BY <3>3, <4>1
      <4>3. i \in Nat /\ i <= Len(ask[r].entries)
        BY <3>1, <3>2 DEF WellAsked
      <4> HIDE DEF i
      <4> QED
        BY <4>2, <4>3 DEF Tx
    <3>5. tx' = [tx EXCEPT ![r] = new] /\ UNCHANGED <<table, ask, answer>>
      BY <2>9 DEF Exec
    <3> HIDE DEF new
    <3> QED
      BY <3>1, <3>4, <3>5
  <2>10. ASSUME NEW r \in Requests, Commit(r)
         PROVE  TypeOK'
    <3>1. tx[r] \in Tx
      BY <2>10 DEF Commit, Open
    <3>2. table' \in [Owners \X Keys -> Row \cup {None}]
      BY <2>10, <3>1 DEF Commit, Apply, Tx
    <3>3. answer' \in [Requests -> Answers \cup {None}]
      BY <2>3, <2>10 DEF Commit, Answer, Respond
    <3>4. tx' = [tx EXCEPT ![r] = None] /\ \A q \in Requests \ {r} : answer'[q] = answer[q]
      BY <2>10 DEF Commit, Answer, Respond
    <3> QED
      BY <2>10, <3>2, <3>3, <3>4 DEF Commit
  <2>11. ASSUME NEW r \in Requests, Rollback(r)
         PROVE  TypeOK'
    <3>1. answer' \in [Requests -> Answers \cup {None}]
      BY <2>3, <2>11 DEF Rollback, Answer, Respond
    <3>2. tx' = [tx EXCEPT ![r] = None] /\ \A q \in Requests \ {r} : answer'[q] = answer[q]
      BY <2>11 DEF Rollback, Answer, Respond
    <3> QED
      BY <2>11, <3>1, <3>2 DEF Rollback
  <2>12. ASSUME NEW r \in Requests, BatchNothing(r)
         PROVE  TypeOK'
    <3>1. tx[r] = None
      BY <2>12 DEF BatchNothing
    <3>2. answer' \in [Requests -> Answers \cup {None}]
      BY <2>3, <2>12 DEF BatchNothing, Answer, Respond
    <3>3. \A q \in Requests : tx[q] # None => answer'[q] = None
      BY <2>12, <3>1 DEF BatchNothing, Answer, Respond
    <3> QED
      BY <2>12, <3>2, <3>3 DEF BatchNothing
  <2>13. CASE UNCHANGED vars
    BY <2>13 DEF vars
  <2> QED
    BY <2>1, <2>4, <2>5, <2>6, <2>7, <2>8, <2>9, <2>10, <2>11, <2>12, <2>13 DEF Next
<1> QED
  BY <1>1, <1>2, PTL DEF Spec

(* Asking, getting, failing, a batch of nothing and giving up a transaction
   leave all rows alone, those of other transactions too.                  *)
LEMMA RowsAlone ==
  ASSUME TypeOK, NEW r \in Requests, Ask(r) \/ Get(r) \/ Fail(r) \/ BatchNothing(r) \/ Rollback(r)
  PROVE  /\ table' = table
         /\ \A q \in Requests : tx'[q] = None \/ tx'[q] = tx[q]
BY DEF Ask, Get, Fail, BatchNothing, Rollback, TypeOK

(***************************************************************************)
(* RowInv is inductive: PUT, the entries of a batch and its commit file    *)
(* every document under the collection that its own key gives it.          *)
(***************************************************************************)
THEOREM RowCorrect == Spec => []RowInv
<1>1. Init => RowInv
  <2> SUFFICES ASSUME Init
               PROVE  RowInv
    OBVIOUS
  <2>1. \A o \in Owners, k \in Keys : <<o, k>> \in Owners \X Keys
    OBVIOUS
  <2> QED
    BY <2>1 DEF Init, RowInv, Filed
<1>2. TypeOK /\ RowInv /\ [Next]_vars => RowInv'
  <2> SUFFICES ASSUME TypeOK, RowInv, [Next]_vars
               PROVE  RowInv'
    OBVIOUS
  <2> USE NoneAssumption
  <2>1. ASSUME NEW r \in Requests, Ask(r) \/ Get(r) \/ Fail(r) \/ BatchNothing(r) \/ Rollback(r)
        PROVE  RowInv'
    BY <2>1, RowsAlone DEF RowInv, Filed
  <2>2. ASSUME NEW r \in Requests, ask[r] # None
        PROVE  ask[r] \in Asks /\ WellAsked(ask[r])
    BY <2>2, AskTyped DEF TypeOK
  <2>9. \A o \in Owners, k \in Keys : <<o, k>> \in Owners \X Keys
    OBVIOUS
  <2>3. ASSUME NEW r \in Requests, Put(r)
        PROVE  RowInv'
    <3> DEFINE row == RowFor(ask[r], <<ask[r].entries[1][2], 0>>, PutCollection(ask[r].key))
    <3>1. ask[r] \in Asks /\ ask[r].op = "put"
      BY <2>2, <2>3 DEF Put, Handle
    <3>2. Filed(ask[r].key, row)
      BY <3>1, RowTyped
    <3>3. table' = [table EXCEPT ![<<ask[r].by.owner, ask[r].key>>] = row] /\ tx' = tx
      BY <2>3 DEF Put, Replace
    <3> HIDE DEF row
    <3>4. \A o \in Owners, k \in Keys : table'[<<o, k>>] = table[<<o, k>>] \/ (k = ask[r].key /\ table'[<<o, k>>] = row)
      BY <2>9, <3>3 DEF TypeOK
    <3> QED
      BY <3>2, <3>3, <3>4 DEF RowInv, Filed
  <2>4. ASSUME NEW r \in Requests, Delete(r)
        PROVE  RowInv'
    <3>1. \A o \in Owners, k \in Keys : table'[<<o, k>>] = table[<<o, k>>] \/ table'[<<o, k>>] = None
      BY <2>4, <2>9 DEF Delete, Replace, TypeOK
    <3> QED
      BY <2>4, <3>1 DEF Delete, RowInv, Filed
  <2>5. ASSUME NEW r \in Requests, Begin(r)
        PROVE  RowInv'
    <3>1. \A k \in Keys : tx'[r].rows[k] = None
      BY <2>5 DEF Begin, TypeOK
    <3>2. table' = table /\ \A q \in Requests \ {r} : tx'[q] = tx[q]
      BY <2>5 DEF Begin, TypeOK
    <3> QED
      BY <3>1, <3>2 DEF RowInv, Filed
  <2>6. ASSUME NEW r \in Requests, Exec(r)
        PROVE  RowInv'
    <3> DEFINE i == tx[r].done + 1
               rows == [tx[r].rows EXCEPT ![ask[r].entries[i][1]] = BatchRow(ask[r], i)]
    <3>1. /\ ask[r] \in Asks /\ WellAsked(ask[r]) /\ ask[r].op = "batch"
          /\ tx[r] \in Tx /\ tx[r] # None /\ tx[r].done < Len(ask[r].entries)
      BY <2>2, <2>6 DEF Exec, Open, Handle, TypeOK
    <3>2. i \in 1..Len(ask[r].entries)
      BY <3>1 DEF Tx, WellAsked
    <3>3. Filed(ask[r].entries[i][1], BatchRow(ask[r], i))
      BY <3>1, <3>2, RowTyped
    <3>4. tx' = [tx EXCEPT ![r] = [done |-> i, rows |-> rows]] /\ table' = table
      BY <2>6 DEF Exec
    <3> HIDE DEF i
    <3>5. \A k \in Keys : Filed(k, rows[k])
      <4>1. tx[r].rows \in [Keys -> Row \cup {None}]
        BY <3>1 DEF Tx
      <4> QED
        BY <3>1, <3>3, <4>1 DEF RowInv, Filed
    <3> HIDE DEF rows
    <3>6. tx'[r].rows = rows /\ \A q \in Requests \ {r} : tx'[q] = tx[q]
      BY <3>4 DEF TypeOK
    <3> QED
      BY <3>4, <3>5, <3>6 DEF RowInv, Filed
  <2>7. ASSUME NEW r \in Requests, Commit(r)
        PROVE  RowInv'
    <3>1. \A o \in Owners, k \in Keys :
            table'[<<o, k>>] = table[<<o, k>>] \/ table'[<<o, k>>] = tx[r].rows[k]
      BY <2>7, <2>9 DEF Commit, Apply
    <3>2. tx[r] # None /\ \A q \in Requests : tx'[q] = None \/ tx'[q] = tx[q]
      BY <2>7 DEF Commit, Open, TypeOK
    <3> QED
      BY <3>1, <3>2 DEF RowInv, Filed
  <2>8. CASE UNCHANGED vars
    BY <2>8 DEF vars, RowInv, Filed
  <2> QED
    BY <2>1, <2>3, <2>4, <2>5, <2>6, <2>7, <2>8 DEF Next
<1> QED
  BY <1>1, <1>2, StoreTypeCorrect, PTL DEF Spec

(***************************************************************************)
(* A recursive GET finds nothing but documents of its prefix, and up to    *)
(* the limit all those in the collection of its URL, however they came in. *)
(***************************************************************************)
THEOREM RecursiveFindsCollectionCorrect == Spec => []RecursiveFindsCollection
<1>1. TypeOK /\ RowInv => RecursiveFindsCollection
  <2> SUFFICES ASSUME TypeOK, RowInv,
                      NEW o \in Owners, NEW c \in Clients, NEW k \in Urls,
                      NEW found \in Recursive(o, c, k)
               PROVE  /\ found \subseteq WithPrefix(o, c, k)
                      /\ Cardinality(Selected(o, c, k)) <= Limit =>
                           {x \in WithPrefix(o, c, k) : IF Len(x) > 1 THEN x[1] = k[1]
                                                        ELSE k = <<Empty>>}
                             \subseteq found
    BY DEF RecursiveFindsCollection
  <2> DEFINE S == Selected(o, c, k)
             n == IF Cardinality(S) < Limit THEN Cardinality(S) ELSE Limit
  <2>1. k \in Seq(Segments) /\ Len(k) \in Nat /\ Len(k) > 0 /\ k \in Keys
    BY StoreAssumption DEF Urls
  <2>2. PICK L \in SUBSET S :
          /\ Cardinality(L) = n
          /\ found = {x \in L : Encodable(o, x) /\ (Len(k) > 1 => HasPrefix(x, k))}
    BY DEF Recursive
  <2>3. \A x \in Keys : /\ x \in S <=> /\ table[<<o, x>>] # None
                                       /\ table[<<o, x>>].client = c
                                       /\ PutCollection(x) = k[1]
                        /\ x \in Seq(Segments) /\ Len(x) \in Nat /\ Len(x) > 0
    BY StoreAssumption DEF Selected, RowInv, Filed
  <2>4. S \subseteq Keys
    BY DEF Selected
  (* The filter by prefix is left out where the collection says it all. *)
  <2>5. ASSUME NEW x \in S, Len(k) = 1
        PROVE  HasPrefix(x, k)
    <3>1. CASE k[1] = Empty
      <4>1. k = <<Empty>>
        <5>1. k \in [1..1 -> Segments]
          BY <2>1, <2>5
        <5>2. <<Empty>> \in [1..1 -> Segments] /\ \A i \in 1..1 : k[i] = <<Empty>>[i]
          BY <3>1, StoreAssumption
        <5> QED
          BY <5>1, <5>2
      <4> QED
        BY <4>1 DEF HasPrefix
    <3>2. CASE k[1] # Empty
      <4>1. Len(x) > 1 /\ x[1] = k[1] /\ x \in Seq(Segments)
        BY <2>3, <2>4, <3>2 DEF PutCollection
      <4>2. SubSeq(k, 1, 1) = SubSeq(x, 1, 1)
        BY <2>1, <2>5, <4>1
      <4> QED
        BY <2>1, <2>5, <4>1, <4>2 DEF HasPrefix, IsPrefix
    <3> QED
      BY <3>1, <3>2
  <2>6. found \subseteq WithPrefix(o, c, k)
    <3> SUFFICES ASSUME NEW x \in found
                 PROVE  x \in WithPrefix(o, c, k)
      OBVIOUS
    <3>1. x \in S /\ x \in Keys /\ Encodable(o, x) /\ (Len(k) > 1 => HasPrefix(x, k))
      BY <2>2, <2>4
    <3>2. HasPrefix(x, k)
      <4>1. Len(k) = 1 \/ Len(k) > 1
        <5>1. \A m \in Nat : m > 0 => m = 1 \/ m > 1
          OBVIOUS
        <5> QED
          BY <2>1, <5>1, Zenon
      <4> QED
        BY <2>5, <3>1, <4>1, Zenon
    <3> QED
      BY <2>3, <3>1, <3>2 DEF WithPrefix
  <2>7. ASSUME Cardinality(S) <= Limit,
               NEW x \in WithPrefix(o, c, k), IF Len(x) > 1 THEN x[1] = k[1] ELSE k = <<Empty>>
        PROVE  x \in found
    <3>1. L = S
      <4>1. S \in SUBSET Keys /\ IsFiniteSet(S)
        BY <2>4, StoreAssumption, FS_Subset
      <4>2. Cardinality(S) \in Nat
        BY <4>1, FS_CardinalityType
      <4>3. n = Cardinality(S)
        BY <2>7, <4>2, StoreAssumption
      <4> QED
        BY <2>2, <4>1, <4>3, FS_Subset
    <3>2. /\ x \in Keys /\ table[<<o, x>>] # None /\ table[<<o, x>>].client = c
          /\ HasPrefix(x, k) /\ Encodable(o, x)
      BY DEF WithPrefix
    <3>3. PutCollection(x) = k[1]
      BY <2>7 DEF PutCollection
    <3>4. x \in S
      BY <2>3, <3>2, <3>3
    <3> QED
      BY <2>2, <3>1, <3>2, <3>4
  <2> QED
    BY <2>6, <2>7
<1> QED
  BY <1>1, StoreTypeCorrect, RowCorrect, PTL

(***************************************************************************)
(* TxInv is inductive: a transaction goes through the entries of its batch *)
(* in their order, and an entry replaces what an earlier one has written.  *)
(***************************************************************************)
THEOREM TxCorrect == Spec => []TxInv
<1>1. Init => TxInv
  BY DEF Init, TxInv
<1>2. TypeOK /\ TxInv /\ [Next]_vars => TxInv'
  <2> SUFFICES ASSUME TypeOK, TxInv, [Next]_vars
               PROVE  TxInv'
    OBVIOUS
  <2> USE NoneAssumption
  <2>1. \A r \in Requests : tx[r] # None =>
          /\ ask[r] # None
          /\ \A k \in Keys : tx[r].rows[k] = LastRow(ask[r], k, tx[r].done)
    BY Zenon DEF TxInv, TypeOK
  <2>2. SUFFICES ASSUME NEW r \in Requests, tx'[r] # None, NEW k \in Keys
                 PROVE  tx'[r].rows[k] = LastRow(ask'[r], k, tx'[r].done)
    BY Zenon DEF TxInv
  <2>3. ASSUME NEW q \in Requests, Begin(q), q = r
        PROVE  tx'[r].rows[k] = LastRow(ask'[r], k, tx'[r].done)
    <3>1. tx'[r].rows[k] = None /\ tx'[r].done = 0 /\ ask' = ask
      BY <2>3 DEF Begin, TypeOK
    <3>2. Places(ask[r], k, 0) = {}
      BY DEF Places
    <3> QED
      BY <3>1, <3>2 DEF LastRow
  <2>4. ASSUME NEW q \in Requests, Exec(q), q = r
        PROVE  tx'[r].rows[k] = LastRow(ask'[r], k, tx'[r].done)
    <3> DEFINE n == tx[r].done
    <3>1. /\ ask' = ask /\ n \in Nat /\ tx[r] \in Tx
          /\ tx[r].rows[k] = LastRow(ask[r], k, n)
      BY <2>1, <2>4 DEF Exec, Open, Tx, TypeOK
    <3>2. /\ tx'[r].done = n + 1
          /\ tx'[r].rows = [tx[r].rows EXCEPT ![ask[r].entries[n + 1][1]] = BatchRow(ask[r], n + 1)]
      BY <2>4 DEF Exec, TypeOK
    <3> HIDE DEF n
    <3>3. tx'[r].rows[k] = IF k = ask[r].entries[n + 1][1] THEN BatchRow(ask[r], n + 1)
                           ELSE tx[r].rows[k]
      BY <3>1, <3>2 DEF Tx
    <3>4. IF ask[r].entries[n + 1][1] = k
          THEN Places(ask[r], k, n + 1) # {} /\ Max(Places(ask[r], k, n + 1)) = n + 1
          ELSE Places(ask[r], k, n + 1) = Places(ask[r], k, n)
      BY <3>1, NextPlace
    <3> QED
      BY <3>1, <3>2, <3>3, <3>4 DEF LastRow
  <2>5. ASSUME tx'[r] = tx[r], ask'[r] = ask[r]
        PROVE  tx'[r].rows[k] = LastRow(ask'[r], k, tx'[r].done)
    BY <2>1, <2>2, <2>5
  <2>6. ASSUME NEW q \in Requests, Ask(q)
        PROVE  tx'[r] = tx[r] /\ ask'[r] = ask[r]
    BY <2>1, <2>2, <2>6 DEF Ask, TypeOK
  <2>7. ASSUME NEW q \in Requests, Put(q) \/ Get(q) \/ Delete(q) \/ Fail(q) \/ BatchNothing(q)
        PROVE  tx' = tx /\ ask' = ask
    BY <2>7 DEF Put, Get, Delete, Fail, BatchNothing, Answer, Respond
  <2>8. ASSUME NEW q \in Requests, Commit(q) \/ Rollback(q)
        PROVE  tx'[r] = tx[r] /\ ask'[r] = ask[r]
    BY <2>2, <2>8 DEF Commit, Rollback, Answer, Respond, TypeOK
  <2>9. ASSUME NEW q \in Requests, Begin(q) \/ Exec(q), q # r
        PROVE  tx'[r] = tx[r] /\ ask'[r] = ask[r]
    BY <2>9 DEF Begin, Exec, TypeOK
  <2>10. CASE UNCHANGED vars
    BY <2>5, <2>10 DEF vars
  <2> QED
    BY <2>3, <2>4, <2>5, <2>6, <2>7, <2>8, <2>9, <2>10, Zenon DEF Next
<1> QED
  BY <1>1, <1>2, StoreTypeCorrect, PTL DEF Spec

(***************************************************************************)
(* A batch stores more than it was given for one reason only: the length   *)
(* of a value that is not JSON is no multiple of three.                    *)
(***************************************************************************)
THEOREM GivenIsStoredCorrect ==
  ASSUME \A v \in Values \ Json : Length[v] % 3 = 0
  PROVE  Spec => []GivenIsStored
<1>1. TypeOK /\ RowInv => GivenIsStored
  <2> SUFFICES ASSUME TypeOK, RowInv, NEW o \in Owners, NEW k \in Keys,
                      table[<<o, k>>] # None
               PROVE  table[<<o, k>>].value \in Values \X {0}
    BY DEF GivenIsStored
  <2> DEFINE row == table[<<o, k>>]
  <2>1. row \in Row /\ row.value[1] \in Values
    BY DEF TypeOK, Row, Stored
  <2>2. row.value \in {<<row.value[1], 0>>, BatchValue(row.value[1])}
    BY DEF RowInv, Filed
  <2>3. BatchValue(row.value[1]) = <<row.value[1], 0>>
    BY <2>1, BatchValueStored
  <2> QED
    BY <2>1, <2>2, <2>3
<1> QED
  BY <1>1, StoreTypeCorrect, RowCorrect, PTL

(***************************************************************************)
(* What is stored changes only with the answer of a request, and only what *)
(* is stored for the user of that request.                                 *)
(***************************************************************************)
THEOREM UsersApartCorrect == Spec => UsersApart
<1> DEFINE Apart ==
      table' # table =>
        \E r \in Requests : /\ ask[r] # None /\ answer[r] = None /\ answer'[r] # None
                            /\ \A o \in Owners, k \in Keys :
                                 table'[<<o, k>>] # table[<<o, k>>] => o = ask[r].by.owner
<1>1. TypeOK /\ [Next]_vars => [Apart]_vars
  <2> SUFFICES ASSUME TypeOK, Next
               PROVE  Apart
    OBVIOUS
  <2>1. ASSUME NEW r \in Requests,
               \E status \in {"ok", "error"} : Answer(r, status)
        PROVE  answer'[r] # None
    <3>1. PICK status \in {"ok", "error"} : answer' = [answer EXCEPT ![r] = [status |-> status]]
      BY <2>1 DEF Answer, Respond
    <3>2. [status |-> status] \in Answers
      BY DEF Answers
    <3> QED
      BY <3>1, <3>2, NoneAssumption DEF TypeOK
  <2>2. ASSUME NEW r \in Requests, ask[r] # None,
               Put(r) \/ Commit(r) \/ (Delete(r) /\ Mine(ask[r]))
        PROVE  \A o \in Owners, k \in Keys :
                 table'[<<o, k>>] # table[<<o, k>>] => o = ask[r].by.owner
    <3> SUFFICES ASSUME NEW o \in Owners, NEW k \in Keys, o # ask[r].by.owner
                 PROVE  table'[<<o, k>>] = table[<<o, k>>]
      OBVIOUS
    <3>1. CASE Put(r)
      BY <3>1 DEF Put, Replace, TypeOK
    <3>2. CASE Commit(r)
      BY <3>2 DEF Commit, Apply
    <3>3. CASE Delete(r) /\ Mine(ask[r])
      BY <3>3 DEF Delete, Replace, TypeOK
    <3> QED
      BY <2>2, <3>1, <3>2, <3>3
  <2>3. ASSUME NEW r \in Requests, Put(r) \/ Commit(r) \/ (Delete(r) /\ Mine(ask[r]))
        PROVE  Apart
    <3>1. ask[r] # None /\ answer[r] = None /\ \E status \in {"ok", "error"} : Answer(r, status)
      BY <2>3 DEF Put, Commit, Delete, Open, Handle
    <3> QED
      BY <2>1, <2>2, <2>3, <3>1
  <2>4. ASSUME NEW r \in Requests,
               Ask(r) \/ Get(r) \/ Fail(r) \/ BatchNothing(r) \/ Rollback(r) \/ Begin(r) \/ Exec(r)
               \/ (Delete(r) /\ ~Mine(ask[r]))
        PROVE  table' = table
    BY <2>4 DEF Ask, Get, Fail, BatchNothing, Rollback, Begin, Exec, Delete
  <2> QED
    BY <2>3, <2>4, Zenon DEF Next
<1> QED
  BY <1>1, StoreTypeCorrect, PTL DEF Spec, UsersApart

-------------------------------------------------------------------------------
(* KvStore implements KvsDocs. *)

(* What a request asks for, as KvsDocs sees it. *)
LEMMA AskedIs ==
  ASSUME NEW a \in Asks
  PROVE  /\ Asked(a) \in Docs!Asks /\ Asked(a) # None
         /\ Asked(a).by = a.by
         /\ a.op \in {"get", "delete"} => Asked(a).op = a.op /\ Asked(a).to = a.key
         /\ a.op \in {"put", "batch"} => Asked(a).op = "write" /\ Asked(a).to = Written(a)
<1>1. WellAsked(a) /\ a # None
  BY AskTyped, NoneAssumption
<1>2. CASE a.op \in {"get", "delete"}
  <2>1. Asked(a) = [op |-> a.op, by |-> a.by, to |-> a.key]
    BY <1>1, <1>2 DEF Asked
  <2>2. Asked(a) \in Docs!Asks
    BY <1>1, <1>2, <2>1 DEF Docs!Asks, WellAsked, Who
  <2> QED
    BY <1>2, <2>1, <2>2, NoDocumentAssumption
<1>3. CASE a.op \in {"put", "batch"}
  <2>1. Asked(a) = [op |-> "write", by |-> a.by, to |-> Written(a)]
    BY <1>1, <1>3 DEF Asked
  <2>2. Written(a) \in [Keys -> Stored \cup {None}]
    BY WrittenTyped
  <2>3. Asked(a) \in Docs!Asks
    BY <1>1, <1>3, <2>1, <2>2 DEF Docs!Asks, WellAsked, Who
  <2> QED
    BY <1>3, <2>1, <2>3, NoDocumentAssumption
<1> QED
  BY <1>1, <1>2, <1>3 DEF WellAsked

(* What is in the table, as KvsDocs sees it. *)
LEMMA DocumentIs ==
  /\ Document(None) = None
  /\ \A row \in Row : /\ Document(row) # None
                      /\ Document(row) = [client |-> row.client, value |-> row.value]
<1>1. ASSUME NEW row \in Row
      PROVE  [client |-> row.client, value |-> row.value] \in [client : Clients, value : Stored]
  BY DEF Row
<1> QED
  BY <1>1, NoneAssumption, NoDocumentAssumption DEF Document

(* A request keeps being what it was, and KvsDocs knows it by its parts. *)
LEMMA AskedDocsIs ==
  ASSUME TypeOK, NEW r \in Requests, ask[r] # None
  PROVE  /\ ask[r] \in Asks
         /\ AskedDocs[r] = Asked(ask[r])
         /\ AskedDocs[r] # None
         /\ AskedDocs[r].by = ask[r].by
         /\ ask[r].by.owner \in Owners /\ ask[r].by.client \in Clients /\ ask[r].key \in Keys
<1>1. ask[r] \in Asks
  BY DEF TypeOK
<1> QED
  BY <1>1, AskTyped, AskedIs DEF AskedDocs, WellAsked, Who

(* The client that asks finds its document in the table where it is for
   KvsDocs.                                                                *)
LEMMA MineIs ==
  ASSUME TypeOK, NEW r \in Requests, ask[r] # None, ask[r].op \in {"get", "delete"}
  PROVE  /\ Mine(ask[r]) <=> Docs!Mine(AskedDocs[r])
         /\ Mine(ask[r]) => StoredDocs[<<AskedDocs[r].by.owner, AskedDocs[r].to>>].value
                              = table[<<ask[r].by.owner, ask[r].key>>].value
<1> DEFINE ok == <<ask[r].by.owner, ask[r].key>>
<1>1. ok \in Owners \X Keys /\ table[ok] \in Row \cup {None}
  BY AskedDocsIs DEF TypeOK
<1>2. StoredDocs[ok] = Document(table[ok])
  BY <1>1 DEF StoredDocs
<1>3. AskedDocs[r].by = ask[r].by /\ AskedDocs[r].to = ask[r].key
  BY AskedDocsIs, AskedIs
<1> HIDE DEF ok
<1>4. /\ table[ok] # None /\ table[ok].client = ask[r].by.client
         <=> StoredDocs[ok] # None /\ StoredDocs[ok].client = ask[r].by.client
      /\ table[ok] # None => StoredDocs[ok].value = table[ok].value
  BY <1>1, <1>2, DocumentIs
<1> QED
  BY <1>3, <1>4 DEF Mine, Docs!Mine, ok

(* PUT writes one document. *)
LEMMA PutWrites ==
  ASSUME TypeOK, NEW r \in Requests, Put(r)
  PROVE  Docs!Write(r)
<1> DEFINE a == ask[r]
           stored == <<a.entries[1][2], 0>>
           row == RowFor(a, stored, PutCollection(a.key))
<1>1. /\ a \in Asks /\ a # None /\ a.op = "put" /\ answer[r] = None
      /\ a.by.owner \in Owners /\ a.key \in Keys
  BY AskedDocsIs DEF Put, Handle
<1>2. /\ AskedDocs[r] # None /\ AskedDocs[r].by = a.by /\ AskedDocs[r].op = "write"
      /\ AskedDocs[r].to = [k \in Keys |-> IF k = a.key THEN stored ELSE None]
  BY <1>1, AskedDocsIs, AskedIs, WrittenTyped
<1>3. stored # None /\ row \in Row /\ row.client = a.by.client /\ row.value = stored
  <2>1. stored \in Stored
    BY <1>1, AskTyped DEF WellAsked, Stored
  <2> QED
    BY <1>1, <2>1, RowTyped, NoneAssumption DEF RowFor
<1>4. table' = [table EXCEPT ![<<a.by.owner, a.key>>] = row]
  BY DEF Put, Replace
<1>5. AskedDocs' = AskedDocs
  BY DEF Put, AskedDocs
<1>6. \E status \in {"ok", "error"} : answer' = [answer EXCEPT ![r] = [status |-> status]]
  BY DEF Put, Answer, Respond
<1> HIDE DEF stored, row
<1>7. ASSUME NEW o \in Owners, NEW k \in Keys
      PROVE  StoredDocs'[<<o, k>>] = Docs!Written(AskedDocs[r])[<<o, k>>]
  <2>1. StoredDocs'[<<o, k>>] = Document(table'[<<o, k>>])
    BY DEF StoredDocs
  <2>2. Docs!Written(AskedDocs[r])[<<o, k>>] =
          IF o = a.by.owner /\ k = a.key THEN [client |-> a.by.client, value |-> stored]
          ELSE Document(table[<<o, k>>])
    BY <1>2, <1>3 DEF Docs!Written, StoredDocs
  <2>3. table'[<<o, k>>] = IF o = a.by.owner /\ k = a.key THEN row ELSE table[<<o, k>>]
    BY <1>1, <1>4 DEF TypeOK
  <2> QED
    BY <1>3, <2>1, <2>2, <2>3, DocumentIs
<1>8. StoredDocs' = Docs!Written(AskedDocs[r])
  <2>1. \A ok \in Owners \X Keys : StoredDocs'[ok] = Docs!Written(AskedDocs[r])[ok]
    BY <1>7
  <2>2. StoredDocs' = [ok \in Owners \X Keys |-> StoredDocs'[ok]]
    BY Zenon DEF StoredDocs
  <2>3. Docs!Written(AskedDocs[r]) = [ok \in Owners \X Keys |-> Docs!Written(AskedDocs[r])[ok]]
    BY Zenon DEF Docs!Written
  <2> QED
    BY <2>1, <2>2, <2>3, Zenon
<1> QED
  BY <1>1, <1>2, <1>5, <1>6, <1>8 DEF Docs!Write, Docs!Answer, Docs!Respond

(* A batch of nothing writes nothing, and says it is done. *)
LEMMA NothingWrites ==
  ASSUME TypeOK, NEW r \in Requests, BatchNothing(r)
  PROVE  Docs!Write(r)
<1>1. /\ ask[r] \in Asks /\ ask[r] # None /\ ask[r].op = "batch" /\ answer[r] = None
      /\ Len(ask[r].entries) = 0
  BY AskedDocsIs DEF BatchNothing, Handle
<1>2. \A k \in Keys : Places(ask[r], k, Len(ask[r].entries)) = {}
  BY <1>1 DEF Places
<1>3. \A k \in Keys : Written(ask[r])[k] = None
  BY <1>2 DEF Written
<1>4. /\ AskedDocs[r] # None /\ AskedDocs[r].op = "write"
      /\ \A k \in Keys : AskedDocs[r].to[k] = None
  BY <1>1, <1>3, AskedDocsIs, AskedIs
<1>5. Docs!Written(AskedDocs[r]) = StoredDocs
  <2>1. \A ok \in Owners \X Keys : Docs!Written(AskedDocs[r])[ok] = StoredDocs[ok]
    BY <1>4 DEF Docs!Written
  <2>2. StoredDocs = [ok \in Owners \X Keys |-> StoredDocs[ok]]
    BY Zenon DEF StoredDocs
  <2>3. Docs!Written(AskedDocs[r]) = [ok \in Owners \X Keys |-> Docs!Written(AskedDocs[r])[ok]]
    BY Zenon DEF Docs!Written
  <2> QED
    BY <2>1, <2>2, <2>3, Zenon
<1>6. StoredDocs' = StoredDocs /\ AskedDocs' = AskedDocs
  BY DEF BatchNothing, StoredDocs, AskedDocs
<1>7. answer' = [answer EXCEPT ![r] = [status |-> "ok"]]
  BY DEF BatchNothing, Answer, Respond
<1> QED
  BY <1>1, <1>4, <1>5, <1>6, <1>7 DEF Docs!Write, Docs!Answer, Docs!Respond

(* A commit writes all documents of its batch, by the last entry for each. *)
LEMMA CommitWrites ==
  ASSUME TypeOK, TxInv, NEW r \in Requests, Commit(r)
  PROVE  Docs!Write(r)
<1> DEFINE a == ask[r]
           rows == tx[r].rows
           to == Written(a)
<1>1. /\ a \in Asks /\ a # None /\ a.op = "batch" /\ answer[r] = None
      /\ a.by.owner \in Owners /\ a.key \in Keys /\ WellAsked(a)
  BY AskedDocsIs, AskTyped DEF Commit, Open, Handle
<1>2. /\ AskedDocs[r] # None /\ AskedDocs[r].by = a.by /\ AskedDocs[r].op = "write"
      /\ AskedDocs[r].to = to
  BY <1>1, AskedDocsIs, AskedIs
<1>3. ASSUME NEW k \in Keys
      PROVE  /\ rows[k] = None <=> to[k] = None
             /\ rows[k] # None => /\ rows[k] \in Row
                                  /\ rows[k].client = a.by.client
                                  /\ rows[k].value = to[k]
  <2> DEFINE n == Len(a.entries)
             P == Places(a, k, n)
  <2>1. rows[k] = LastRow(a, k, n)
    BY DEF TxInv, Commit, Open
  <2>2. to[k] = IF P = {} THEN None ELSE BatchValue(a.entries[Max(P)][2])
    BY <1>1 DEF Written
  <2>3. CASE P = {}
    BY <2>1, <2>2, <2>3 DEF LastRow
  <2>4. CASE P # {}
    <3>1. Max(P) \in 1..n
      BY <1>1, <2>4, MaxExists DEF Places, WellAsked
    <3>2. BatchRow(a, Max(P)) \in Row
      BY <1>1, <3>1, RowTyped
    <3>3. BatchValue(a.entries[Max(P)][2]) \in Stored
      BY <1>1, <3>1, BatchValueStored DEF WellAsked
    <3>4. /\ BatchRow(a, Max(P)).client = a.by.client
          /\ BatchRow(a, Max(P)).value = BatchValue(a.entries[Max(P)][2])
      BY DEF BatchRow, RowFor
    <3>5. rows[k] = BatchRow(a, Max(P)) /\ to[k] = BatchValue(a.entries[Max(P)][2])
      BY <2>1, <2>2, <2>4 DEF LastRow
    <3> QED
      BY <3>2, <3>3, <3>4, <3>5, NoneAssumption
  <2> QED
    BY <2>3, <2>4
<1>4. table' = Apply(table, a.by.owner, rows)
  BY DEF Commit
<1>5. AskedDocs' = AskedDocs
  BY DEF Commit, AskedDocs
<1>6. \E status \in {"ok", "error"} : answer' = [answer EXCEPT ![r] = [status |-> status]]
  BY DEF Commit, Answer, Respond
<1> HIDE DEF rows, to
<1>7. ASSUME NEW o \in Owners, NEW k \in Keys
      PROVE  StoredDocs'[<<o, k>>] = Docs!Written(AskedDocs[r])[<<o, k>>]
  <2>1. StoredDocs'[<<o, k>>] = Document(table'[<<o, k>>])
    BY DEF StoredDocs
  <2>2. Docs!Written(AskedDocs[r])[<<o, k>>] =
          IF o = a.by.owner /\ to[k] # None THEN [client |-> a.by.client, value |-> to[k]]
          ELSE Document(table[<<o, k>>])
    BY <1>2 DEF Docs!Written, StoredDocs
  <2>3. table'[<<o, k>>] = IF o = a.by.owner /\ rows[k] # None THEN rows[k] ELSE table[<<o, k>>]
    BY <1>4 DEF Apply
  <2> QED
    BY <1>3, <2>1, <2>2, <2>3, DocumentIs
<1>8. StoredDocs' = Docs!Written(AskedDocs[r])
  <2>1. \A ok \in Owners \X Keys : StoredDocs'[ok] = Docs!Written(AskedDocs[r])[ok]
    BY <1>7
  <2>2. StoredDocs' = [ok \in Owners \X Keys |-> StoredDocs'[ok]]
    BY Zenon DEF StoredDocs
  <2>3. Docs!Written(AskedDocs[r]) = [ok \in Owners \X Keys |-> Docs!Written(AskedDocs[r])[ok]]
    BY Zenon DEF Docs!Written
  <2> QED
    BY <2>1, <2>2, <2>3, Zenon
<1> QED
  BY <1>1, <1>2, <1>5, <1>6, <1>8 DEF Docs!Write, Docs!Answer, Docs!Respond

(* GET answers with the document of the client, or that there is none. *)
LEMMA GetReads ==
  ASSUME TypeOK, NEW r \in Requests, Get(r)
  PROVE  Docs!Get(r)
<1>1. ask[r] # None /\ ask[r].op = "get" /\ answer[r] = None
  BY DEF Get, Handle
<1>2. AskedDocs[r] # None /\ AskedDocs[r].op = "get"
  BY <1>1, AskedDocsIs, AskedIs
<1>3. /\ Mine(ask[r]) <=> Docs!Mine(AskedDocs[r])
      /\ Mine(ask[r]) => StoredDocs[<<AskedDocs[r].by.owner, AskedDocs[r].to>>].value
                           = table[<<ask[r].by.owner, ask[r].key>>].value
  BY <1>1, MineIs
<1>4. StoredDocs' = StoredDocs /\ AskedDocs' = AskedDocs
  BY DEF Get, StoredDocs, AskedDocs
<1>5. CASE Mine(ask[r])
  <2>1. answer' = [answer EXCEPT ![r] =
          [status |-> "ok", value |-> table[<<ask[r].by.owner, ask[r].key>>].value]]
    BY <1>5 DEF Get, Respond
  <2> QED
    BY <1>1, <1>2, <1>3, <1>4, <1>5, <2>1 DEF Docs!Get, Docs!Respond
<1>6. CASE ~Mine(ask[r])
  <2>1. answer' = [answer EXCEPT ![r] = [status |-> "missing"]]
    BY <1>6 DEF Get, Answer, Respond
  <2> QED
    BY <1>1, <1>2, <1>3, <1>4, <1>6, <2>1 DEF Docs!Get, Docs!Answer, Docs!Respond
<1> QED
  BY <1>5, <1>6

(* DELETE removes the document of the client, or says that there is none. *)
LEMMA DeleteDeletes ==
  ASSUME TypeOK, NEW r \in Requests, Delete(r)
  PROVE  Docs!Delete(r)
<1>1. ask[r] # None /\ ask[r].op = "delete" /\ answer[r] = None
  BY DEF Delete, Handle
<1>2. /\ AskedDocs[r] # None /\ AskedDocs[r].op = "delete"
      /\ AskedDocs[r].by = ask[r].by /\ AskedDocs[r].to = ask[r].key
      /\ ask[r].by.owner \in Owners /\ ask[r].key \in Keys
  BY <1>1, AskedDocsIs, AskedIs
<1>3. Mine(ask[r]) <=> Docs!Mine(AskedDocs[r])
  BY <1>1, MineIs
<1>4. AskedDocs' = AskedDocs
  BY DEF Delete, AskedDocs
<1>5. CASE Mine(ask[r])
  <2> DEFINE at == <<ask[r].by.owner, ask[r].key>>
  <2>1. table' = [table EXCEPT ![at] = None]
    BY <1>5 DEF Delete, Replace
  <2>2. \E status \in {"ok", "error"} : answer' = [answer EXCEPT ![r] = [status |-> status]]
    BY <1>5 DEF Delete, Answer, Respond
  <2>3. at \in Owners \X Keys
    BY <1>2
  <2> HIDE DEF at
  <2>4. StoredDocs' = [StoredDocs EXCEPT ![at] = None]
    <3>1. \A ok \in Owners \X Keys :
            StoredDocs'[ok] = IF ok = at THEN None ELSE StoredDocs[ok]
      BY <2>1, <2>3, DocumentIs DEF StoredDocs, TypeOK
    <3> QED
      BY <3>1 DEF StoredDocs
  <2> QED
    BY <1>1, <1>2, <1>3, <1>4, <1>5, <2>2, <2>4
    DEF Docs!Delete, Docs!Answer, Docs!Respond, at
<1>6. CASE ~Mine(ask[r])
  <2>1. answer' = [answer EXCEPT ![r] = [status |-> "missing"]] /\ table' = table
    BY <1>6 DEF Delete, Answer, Respond
  <2>2. StoredDocs' = StoredDocs
    BY <2>1 DEF StoredDocs
  <2> QED
    BY <1>1, <1>2, <1>3, <1>4, <1>6, <2>1, <2>2 DEF Docs!Delete, Docs!Answer, Docs!Respond
<1> QED
  BY <1>5, <1>6

(* A request that fails, or whose batch is rolled back, changes nothing. *)
LEMMA FailsAlone ==
  ASSUME TypeOK, NEW r \in Requests, Fail(r) \/ Rollback(r)
  PROVE  Docs!Fail(r)
<1>1. /\ ask[r] # None /\ answer[r] = None /\ table' = table /\ ask' = ask
      /\ answer' = [answer EXCEPT ![r] = [status |-> "error"]]
  BY DEF Fail, Rollback, Open, Handle, Answer, Respond
<1>2. AskedDocs[r] # None
  BY <1>1, AskedDocsIs
<1>3. StoredDocs' = StoredDocs /\ AskedDocs' = AskedDocs
  BY <1>1 DEF StoredDocs, AskedDocs
<1> QED
  BY <1>1, <1>2, <1>3 DEF Docs!Fail, Docs!Answer, Docs!Respond

(* What a new request asks for is something to ask of KvsDocs. *)
LEMMA AskAsks ==
  ASSUME TypeOK, NEW r \in Requests, Ask(r)
  PROVE  Docs!Ask(r)
<1>1. PICK a \in Asks : ask' = [ask EXCEPT ![r] = a]
  BY DEF Ask
<1>2. Asked(a) \in Docs!Asks
  BY AskedIs
<1>3. ask[r] = None /\ Asked(None) = None
  BY DEF Ask, Asked
<1>4. AskedDocs[r] = None
  BY <1>3 DEF AskedDocs
<1>5. AskedDocs' = [AskedDocs EXCEPT ![r] = Asked(a)]
  <2>1. \A q \in Requests : ask'[q] = IF q = r THEN a ELSE ask[q]
    BY <1>1 DEF TypeOK
  <2>2. \A q \in Requests : AskedDocs'[q] = Asked(ask'[q]) /\ AskedDocs[q] = Asked(ask[q])
    BY DEF AskedDocs
  <2>3. \A q \in Requests : AskedDocs'[q] = IF q = r THEN Asked(a) ELSE AskedDocs[q]
    BY <2>1, <2>2
  <2> QED
    BY <2>3 DEF AskedDocs
<1>6. AskedDocs'[r] = Asked(a)
  BY <1>5 DEF AskedDocs
<1>7. StoredDocs' = StoredDocs /\ answer' = answer
  BY DEF Ask, StoredDocs
<1> QED
  BY <1>2, <1>4, <1>5, <1>6, <1>7 DEF Docs!Ask

(***************************************************************************)
(* Every handler, with its statements, its transaction and its errors, is  *)
(* one atomic step on documents.                                           *)
(***************************************************************************)
THEOREM ImplementsDocsCorrect == Spec => ImplementsDocs
<1>1. Init => Docs!Init
  <2> SUFFICES ASSUME Init
               PROVE  Docs!Init
    OBVIOUS
  <2>1. StoredDocs = [ok \in Owners \X Keys |-> None]
    BY DocumentIs DEF Init, StoredDocs
  <2>2. AskedDocs = [r \in Requests |-> None]
    BY DEF Init, AskedDocs, Asked
  <2> QED
    BY <2>1, <2>2 DEF Init, Docs!Init
<1>2. TypeOK /\ TxInv /\ [Next]_vars => [Docs!Next]_(Docs!vars)
  <2> SUFFICES ASSUME TypeOK, TxInv, [Next]_vars
               PROVE  Docs!Next \/ UNCHANGED Docs!vars
    OBVIOUS
  <2>1. ASSUME NEW r \in Requests, Ask(r)
        PROVE  Docs!Next
    BY <2>1, AskAsks DEF Docs!Next
  <2>2. ASSUME NEW r \in Requests, Put(r) \/ BatchNothing(r) \/ Commit(r)
        PROVE  Docs!Next
    BY <2>2, PutWrites, NothingWrites, CommitWrites DEF Docs!Next
  <2>3. ASSUME NEW r \in Requests, Get(r)
        PROVE  Docs!Next
    BY <2>3, GetReads DEF Docs!Next
  <2>4. ASSUME NEW r \in Requests, Delete(r)
        PROVE  Docs!Next
    BY <2>4, DeleteDeletes DEF Docs!Next
  <2>5. ASSUME NEW r \in Requests, Fail(r) \/ Rollback(r)
        PROVE  Docs!Next
    BY <2>5, FailsAlone DEF Docs!Next
  <2>6. ASSUME NEW r \in Requests, Begin(r) \/ Exec(r)
        PROVE  UNCHANGED Docs!vars
    BY <2>6 DEF Begin, Exec, Docs!vars, StoredDocs, AskedDocs
  <2>7. CASE UNCHANGED vars
    BY <2>7 DEF vars, Docs!vars, StoredDocs, AskedDocs
  <2> QED
    BY <2>1, <2>2, <2>3, <2>4, <2>5, <2>6, <2>7, Zenon DEF Next
<1> QED
  BY <1>1, <1>2, StoreTypeCorrect, TxCorrect, PTL DEF Spec, ImplementsDocs, Docs!Spec
===============================================================================
