------------------------------- MODULE KvStore -------------------------------
(***************************************************************************)
(* Storage of the kvs plugin: the handlers of plugins/kvs and the SQL      *)
(* statements of plugins/kvs/kv on the table kv, for the realm "user".     *)
(* Every statement is atomic; a batch is a transaction of statements that  *)
(* works on rows nobody else sees before its commit (ReadCommitted).  The  *)
(* outcome of a statement or a commit may be an error although it has been *)
(* executed.                                                               *)
(*                                                                         *)
(* A key is its path, a sequence of segments.  The empty one, "", is the    *)
(* whole key of the URL that ends with the realm, and the first segment of *)
(* keys written in a batch to that URL; it also stands for no collection.  *)
(***************************************************************************)
EXTENDS Naturals, Sequences, FiniteSets, SequencesExt

CONSTANTS
  Requests,   \* HTTP requests
  Owners,     \* user ids, owner_id
  Clients,    \* audiences of access tokens, client_id
  Segments,   \* segments of keys, none but Empty the beginning of another
  Empty,      \* the empty segment
  Keys,       \* keys in use
  Values,     \* values with their content types
  Json,       \* those of content type application/json
  Malformed,  \* those of Json that are not JSON
  Length,     \* Length[v]: the number of bytes of v
  None,       \* no row, no request, no answer
  MaxBatch,   \* bound of the model: entries of a batch
  Limit       \* LIMIT of the SELECT statements, 500

ASSUME StoreAssumption ==
  /\ IsFiniteSet(Keys) /\ Keys \subseteq Seq(Segments) \ {<<>>}
  /\ Empty \in Segments
  /\ \A k \in Keys : \A i \in 2..Len(k) : k[i] # Empty
  /\ MaxBatch \in Nat \ {0}
  /\ Limit \in Nat \ {0}
  /\ Malformed \subseteq Json /\ Json \subseteq Values
  /\ Length \in [Values -> Nat]

VARIABLES
  table,      \* the rows, by the unique index on owner, key (and realm)
  ask,        \* ask[r]: what request r asks for
  answer,     \* answer[r]: the response
  tx          \* tx[r]: what the open transaction of r has written

vars == <<table, ask, answer, tx>>

(* The keys that URLs have: the router cleans the path of double slashes. *)
Urls == {k \in Keys : Len(k) = 1 \/ k[1] # Empty}

(* strings.HasPrefix *)
HasPrefix(x, k) == k = <<Empty>> \/ IsPrefix(k, x)

(* What is stored of a value: the value and how many zero bytes follow it. *)
Stored == Values \X (0..2)
Row == [coll : Segments, client : Clients, value : Stored]

(* entries are the documents to write: key and value.  The keys of a batch
   are those of its entries behind that of its URL; it is JSON all through. *)
Who == [owner : Owners, client : Clients]
Below(url) == {k \in Keys : k # url /\ IsPrefix(url, k)}
Entries(url) == BoundedSeq(Below(url) \X (Values \ Malformed), MaxBatch)
Puts(k) == [op : {"put"}, by : Who, key : {k}, entries : {<< <<k, v>> >> : v \in Values}]
Batches(k) == [op : {"batch"}, by : Who, key : {k}, entries : Entries(k)]
Asks ==
  [op : {"get", "delete"}, by : Who, key : Urls, entries : {<<>>}]
  \cup UNION {Puts(k) \cup Batches(k) : k \in Urls}

Answers == [status : {"ok"}, value : Stored] \cup [status : {"ok", "error", "missing"}]

(* An open transaction: how many entries of the batch are done, and the rows
   it has written so far, None where the table is as before.               *)
Tx == [done : Nat, rows : [Keys -> Row \cup {None}]]

ASSUME NoneAssumption ==
  None \notin Stored \cup Row \cup Asks \cup Answers \cup Tx

(* Only a batch that is not answered has a transaction. *)
TypeOK ==
  /\ table \in [Owners \X Keys -> Row \cup {None}]
  /\ ask \in [Requests -> Asks \cup {None}]
  /\ answer \in [Requests -> Answers \cup {None}]
  /\ tx \in [Requests -> Tx \cup {None}]
  /\ \A r \in Requests : tx[r] # None =>
       /\ ask[r] # None /\ ask[r].op = "batch" /\ answer[r] = None
       /\ tx[r].done <= Len(ask[r].entries)

Init ==
  /\ table = [ok \in Owners \X Keys |-> None]
  /\ ask = [r \in Requests |-> None]
  /\ answer = [r \in Requests |-> None]
  /\ tx = [r \in Requests |-> None]

-------------------------------------------------------------------------------
(* Handlers. *)

Ask(r) ==
  /\ ask[r] = None
  /\ \E a \in Asks : ask' = [ask EXCEPT ![r] = a]
  /\ UNCHANGED <<table, answer, tx>>

Handle(r, op) == ask[r] # None /\ ask[r].op = op /\ answer[r] = None

Respond(r, a) == answer' = [answer EXCEPT ![r] = a]

Answer(r, status) == Respond(r, [status |-> status])

(* A bug: the whole key is the collection. *)
PutCollectionWhole(k) == IF Len(k) > 1 THEN k ELSE Empty

(* handleCreateOrUpdate: the first of several segments is the collection. *)
PutCollection(k) == IF Len(k) > 1 THEN k[1] ELSE Empty

(* A bug: a batch asks for several segments as well. *)
BatchCollectionNested(k) == IF Len(k) > 1 THEN k[1] ELSE Empty

(* handleBatchCreateOrUpdate: the first segment of the URL is.  *)
BatchCollection(k) == k[1]

(* base64.StdEncoding: the length of n bytes encoded, and the most that n bytes
   can be decoded to.                                                      *)
EncodedLen(n) == 4 * ((n + 2) \div 3)
DecodedLen(n) == 3 * (n \div 4)

(* The text of a value that is not JSON comes with its two quotes; the buffer
   it is decoded into is as long as that allows, and stored as a whole.    *)
BatchValue(v) ==
  <<v, IF v \in Json THEN 0 ELSE DecodedLen(EncodedLen(Length[v]) + 2) - Length[v]>>

RowFor(a, stored, coll) == [coll |-> coll, client |-> a.by.client, value |-> stored]

(* REPLACE takes the place of the row with the same owner and key. *)
Replace(t, o, k, row) == [t EXCEPT ![<<o, k>>] = row]

Put(r) ==
  /\ Handle(r, "put")
  /\ table' = Replace(table, ask[r].by.owner, ask[r].key,
                      RowFor(ask[r], <<ask[r].entries[1][2], 0>>, PutCollection(ask[r].key)))
  /\ \E status \in {"ok", "error"} : Answer(r, status)
  /\ UNCHANGED <<ask, tx>>

(* Rows are selected and deleted by owner, client and key. *)
Mine(a) == /\ table[<<a.by.owner, a.key>>] # None
           /\ table[<<a.by.owner, a.key>>].client = a.by.client

(* handleGet: 404 if there is no such row.  A malformed value can be had as it
   is (raw=1); to put it into JSON is an error, that of Fail.              *)
Get(r) ==
  /\ Handle(r, "get")
  /\ IF Mine(ask[r])
     THEN Respond(r, [status |-> "ok", value |-> table[<<ask[r].by.owner, ask[r].key>>].value])
     ELSE Answer(r, "missing")
  /\ UNCHANGED <<table, ask, tx>>

(* handleDelete: 404 if no row was affected. *)
Delete(r) ==
  /\ Handle(r, "delete")
  /\ IF Mine(ask[r])
     THEN /\ table' = Replace(table, ask[r].by.owner, ask[r].key, None)
          /\ \E status \in {"ok", "error"} : Answer(r, status)
     ELSE Answer(r, "missing") /\ UNCHANGED table
  /\ UNCHANGED <<ask, tx>>

(* A request is malformed, too large, or the database, or putting what is found
   into JSON, fails it.                                                    *)
Fail(r) ==
  /\ ask[r] # None /\ answer[r] = None /\ tx[r] = None
  /\ Answer(r, "error")
  /\ UNCHANGED <<table, ask, tx>>

-------------------------------------------------------------------------------
(* BatchCreateOrUpdate. *)

(* A batch without entries is answered at once. *)
BatchNothing(r) ==
  /\ Handle(r, "batch") /\ tx[r] = None /\ ask[r].entries = <<>>
  /\ Answer(r, "ok")
  /\ UNCHANGED <<table, ask, tx>>

Begin(r) ==
  /\ Handle(r, "batch") /\ tx[r] = None /\ ask[r].entries # <<>>
  /\ tx' = [tx EXCEPT ![r] = [done |-> 0, rows |-> [k \in Keys |-> None]]]
  /\ UNCHANGED <<table, ask, answer>>

Open(r) == Handle(r, "batch") /\ tx[r] # None

BatchRow(a, i) == RowFor(a, BatchValue(a.entries[i][2]), BatchCollection(a.key))

(* The table with the rows of a transaction over its own. *)
Apply(t, o, rows) ==
  [ok \in Owners \X Keys |-> IF ok[1] = o /\ rows[ok[2]] # None THEN rows[ok[2]]
                             ELSE t[ok]]

(* A bug: an error of one entry does not end the batch. *)
RollbackIgnored(r) ==
  /\ Open(r)
  /\ table' = Apply(table, ask[r].by.owner, tx[r].rows)
  /\ Answer(r, "ok")
  /\ tx' = [tx EXCEPT ![r] = None]
  /\ UNCHANGED ask

(* The next entry is written, over what another entry wrote to the same key. *)
Exec(r) ==
  /\ Open(r) /\ tx[r].done < Len(ask[r].entries)
  /\ LET i == tx[r].done + 1
     IN  tx' = [tx EXCEPT ![r] =
                  [done |-> i,
                   rows |-> [@.rows EXCEPT ![ask[r].entries[i][1]] = BatchRow(ask[r], i)]]]
  /\ UNCHANGED <<table, ask, answer>>

Commit(r) ==
  /\ Open(r) /\ tx[r].done = Len(ask[r].entries)
  /\ table' = Apply(table, ask[r].by.owner, tx[r].rows)
  /\ \E status \in {"ok", "error"} : Answer(r, status)
  /\ tx' = [tx EXCEPT ![r] = None]
  /\ UNCHANGED ask

(* Any entry, or the commit, fails: nothing of the batch is stored. *)
Rollback(r) ==
  /\ Open(r)
  /\ Answer(r, "error")
  /\ tx' = [tx EXCEPT ![r] = None]
  /\ UNCHANGED <<table, ask>>

-------------------------------------------------------------------------------

Next ==
  \E r \in Requests :
    \/ Ask(r) \/ Put(r) \/ Get(r) \/ Delete(r) \/ Fail(r)
    \/ BatchNothing(r) \/ Begin(r) \/ Exec(r) \/ Commit(r) \/ Rollback(r)

Spec == Init /\ [][Next]_vars

-------------------------------------------------------------------------------
(* GET with recurse=1: the rows whose collection is the first segment of the
   key, Limit of them at most, of these the ones under the key when it has
   several segments, and of these the ones that can be put into JSON.      *)
Encodable(o, x) == table[<<o, x>>].value[1] \notin Malformed

Selected(o, c, k) ==
  {x \in Keys : table[<<o, x>>] # None /\ table[<<o, x>>].client = c
                /\ table[<<o, x>>].coll = k[1]}

Recursive(o, c, k) ==
  LET S == Selected(o, c, k)
  IN  {{x \in L : Encodable(o, x) /\ (Len(k) > 1 => HasPrefix(x, k))} :
         L \in {L \in SUBSET S : Cardinality(L) = IF Cardinality(S) < Limit
                                                  THEN Cardinality(S) ELSE Limit}}

-------------------------------------------------------------------------------
(* Properties. *)

(* The documents that "have the same prefix as the given key": those of the
   user and the client that can be put into JSON.                          *)
WithPrefix(o, c, k) ==
  {x \in Keys : /\ table[<<o, x>>] # None /\ table[<<o, x>>].client = c
                /\ HasPrefix(x, k) /\ Encodable(o, x)}

(* Whether a document came in by PUT or in a batch, and at whatever depth: a
   recursive GET finds documents of its prefix only, and up to the limit it
   finds all of them that are in the collection of the URL, which are those
   with a path that begins with it, or without a path for the empty key.   *)
RecursiveFindsCollection ==
  \A o \in Owners, c \in Clients, k \in Urls : \A found \in Recursive(o, c, k) :
    /\ found \subseteq WithPrefix(o, c, k)
    /\ Cardinality(Selected(o, c, k)) <= Limit =>
         {x \in WithPrefix(o, c, k) : IF Len(x) > 1 THEN x[1] = k[1] ELSE k = <<Empty>>}
           \subseteq found

(* "?recurse=1 returns a JSON array returning all keys which have the same
   prefix as the given key": up to the limit, all that can be put into JSON. *)
RecursiveFindsAll ==
  \A o \in Owners, c \in Clients, k \in Urls :
    Cardinality(Selected(o, c, k)) <= Limit => Recursive(o, c, k) = {WithPrefix(o, c, k)}

(* The store implements atomic documents: a batch is all or nothing for every
   other request, an error leaves no part of it, "ok" means all of it.  The
   documents of a batch have the values it stores.                         *)
Places(a, k, n) == {i \in 1..n : a.entries[i][1] = k}
Written(a) ==
  LET stored(v) == IF a.op = "batch" THEN BatchValue(v) ELSE <<v, 0>>
      places(k) == Places(a, k, Len(a.entries))
  IN  [k \in Keys |-> IF places(k) = {} THEN None
                      ELSE stored(a.entries[Max(places(k))][2])]

Document(row) == IF row = None THEN None ELSE [client |-> row.client, value |-> row.value]

Asked(a) ==
  IF a = None THEN None
  ELSE IF a.op \in {"get", "delete"} THEN [op |-> a.op, by |-> a.by, to |-> a.key]
  ELSE [op |-> "write", by |-> a.by, to |-> Written(a)]

StoredDocs == [ok \in Owners \X Keys |-> Document(table[ok])]
AskedDocs == [r \in Requests |-> Asked(ask[r])]

Docs == INSTANCE KvsDocs WITH Values <- Stored, docs <- StoredDocs, ask <- AskedDocs

ASSUME NoDocumentAssumption ==
  None \notin Docs!Asks \cup [client : Clients, value : Stored]

ImplementsDocs == Docs!Spec

(* "The user realm limits data access to particular users": what is stored
   changes with the answer of a request only, and only for the user of it. *)
UsersApart ==
  [][table' # table =>
       \E r \in Requests : /\ ask[r] # None /\ answer[r] = None /\ answer'[r] # None
                           /\ \A o \in Owners, k \in Keys :
                                table'[<<o, k>>] # table[<<o, k>>] => o = ask[r].by.owner]_vars

(* Why: every row, also one of an open transaction, has the collection that
   its own key gives it, and its value is as PUT or a batch stores it.  With
   TypeOK this is inductive, and it implies RecursiveFindsCollection.      *)
Filed(k, row) ==
  row # None => /\ row.coll = PutCollection(k)
                /\ row.value \in {<<row.value[1], 0>>, BatchValue(row.value[1])}
RowInv ==
  /\ \A o \in Owners, k \in Keys : Filed(k, table[<<o, k>>])
  /\ \A r \in Requests : tx[r] # None => \A k \in Keys : Filed(k, tx[r].rows[k])

(* Why: an open transaction has written the last of the entries done for each
   key.  With TypeOK this is inductive, and a commit writes what KvsDocs says. *)
LastRow(a, k, n) ==
  IF Places(a, k, n) = {} THEN None ELSE BatchRow(a, Max(Places(a, k, n)))
TxInv ==
  \A r \in Requests : tx[r] # None =>
    \A k \in Keys : tx[r].rows[k] = LastRow(ask[r], k, tx[r].done)

(* "Creates or replaces a document identified by key with the given value":
   what is stored is what was given, by PUT or in a batch.                 *)
GivenIsStored ==
  \A o \in Owners, k \in Keys :
    table[<<o, k>>] # None => table[<<o, k>>].value \in Values \X {0}
===============================================================================
