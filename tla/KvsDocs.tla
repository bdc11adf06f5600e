------------------------------- MODULE KvsDocs -------------------------------
(***************************************************************************)
(* What the kvs plugin promises to HTTP clients: documents identified by   *)
(* user and key, each request one atomic step on them.  All documents of a *)
(* request are written together or not at all.                             *)
(***************************************************************************)
EXTENDS Naturals

CONSTANTS Requests, Owners, Clients, Keys, Values, None

VARIABLES docs,     \* docs[<<o, k>>]: the document of user o with key k, or None
          ask,      \* ask[r]: what request r asks for, or None
          answer    \* answer[r]: what it was answered, or None

vars == <<docs, ask, answer>>

(* The documents to write are given as a function, None for those to leave
   alone, the one to read or to delete as a key.                           *)
Asks ==
  LET Who == [owner : Owners, client : Clients]
  IN  [op : {"write"}, by : Who, to : [Keys -> Values \cup {None}]]
      \cup [op : {"get", "delete"}, by : Who, to : Keys]

Init ==
  /\ docs = [ok \in Owners \X Keys |-> None]
  /\ ask = [r \in Requests |-> None]
  /\ answer = [r \in Requests |-> None]

Ask(r) ==
  /\ ask[r] = None
  /\ ask'[r] \in Asks
  /\ ask' = [ask EXCEPT ![r] = ask'[r]]
  /\ UNCHANGED <<docs, answer>>

Respond(r, a) ==
  /\ ask[r] # None /\ answer[r] = None
  /\ answer' = [answer EXCEPT ![r] = a]
  /\ UNCHANGED ask

Answer(r, status) == Respond(r, [status |-> status])

Written(a) ==
  [ok \in Owners \X Keys |->
     IF ok[1] = a.by.owner /\ a.to[ok[2]] # None
     THEN [client |-> a.by.client, value |-> a.to[ok[2]]]
     ELSE docs[ok]]

(* Every client of a user writes the same documents; the writer is noted. *)
Write(r) ==
  /\ \E status \in {"ok", "error"} : Answer(r, status)
  /\ ask[r].op = "write"
  /\ docs' = Written(ask[r])

(* A document is read or deleted by the client that wrote it. *)
Mine(a) == /\ docs[<<a.by.owner, a.to>>] # None
           /\ docs[<<a.by.owner, a.to>>].client = a.by.client

Get(r) ==
  /\ ask[r] # None /\ ask[r].op = "get"
  /\ IF Mine(ask[r])
     THEN Respond(r, [status |-> "ok", value |-> docs[<<ask[r].by.owner, ask[r].to>>].value])
     ELSE Answer(r, "missing")
  /\ UNCHANGED docs

Delete(r) ==
  /\ ask[r] # None /\ ask[r].op = "delete"
  /\ IF Mine(ask[r])
     THEN /\ \E status \in {"ok", "error"} : Answer(r, status)
          /\ docs' = [docs EXCEPT ![<<ask[r].by.owner, ask[r].to>>] = None]
     ELSE Answer(r, "missing") /\ UNCHANGED docs

Fail(r) == Answer(r, "error") /\ UNCHANGED docs

Next == \E r \in Requests : Ask(r) \/ Write(r) \/ Get(r) \/ Delete(r) \/ Fail(r)

Spec == Init /\ [][Next]_vars
===============================================================================
