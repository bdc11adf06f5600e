--------------------------- MODULE MCHttpRequests ---------------------------
(* The plugins of this repository and some tokens, for TLC. *)
EXTENDS HttpRequests, TLC

CONSTANTS r1, r2, rest, notify, old, t1, alice, entry, bob

AllPlugins == <<>>

(* As given with --plugins; one id is not known. *)
SomePlugins == <<"kvs", "unknown", "grapi", "pubs">>
GrapiOwner == [f \in Finders |-> "grapi"]

Defaults == [grapi |-> {"profile", "email", "kopano/gc"}, pubs |-> {"kopano/pubs"},
             kvs |-> {"kopano/kvs"}]
GrapiConfigured == [grapi |-> {"profile", "admin"}, pubs |-> {}, kvs |-> {}]
KvsConfigured == [grapi |-> {}, pubs |-> {}, kvs |-> {"kopano/kvs", "admin"}]

(* A token with every scope, its identity without an entry id; one for each
   reason to refuse it; and two that lack what may be configured, or all else. *)
Good == [valid |-> TRUE, access |-> TRUE, subject |-> alice, entry |-> entry, name |-> alice,
         scopes |-> {"profile", "email", "kopano/gc", "kopano/pubs", "kopano/kvs", "admin"}]
NoSubject == [Good EXCEPT !.subject = None]
GrapiOnly == [Good EXCEPT !.scopes = {"profile", "admin"}]
NoAdmin == [Good EXCEPT !.scopes = @ \ {"admin"}]
SomeTokens ==
  {Good,
   [Good EXCEPT !.entry = None],
   NoSubject,
   [Good EXCEPT !.name = None],
   [Good EXCEPT !.valid = FALSE],
   [Good EXCEPT !.access = FALSE],
   NoAdmin,
   GrapiOnly}

Registered1 == {[id |-> old, topic |-> t1]}

(* r1 asks for anything, where what it sends may make a difference; meanwhile
   r2 registers a webhook that r1 may know of.                             *)
AnyCall(c) ==
  /\ c.route = "gc/v1" => c.header = bob
  /\ c.route = "gc/v0" => c.header = None /\ c.token \in {Good, NoSubject}
  /\ c.route = "kv" => c.token \in {Good, NoSubject, GrapiOnly, NoAdmin}
  /\ c.route = "connect" => c.token \in {Good, NoSubject, GrapiOnly}
  /\ c.route = "register" => c.token = Good
  /\ c.route = "publish" =>
       /\ r1 \notin {c.url, c.hook.id} /\ c.hook.topic = t1
       /\ c.body = "event" \/ (c.url = old /\ c.hook.id = old)

SomeCalls ==
  (r1 :> {c \in AllCalls : AnyCall(c)})
  @@ (r2 :> [route : {"register"}, token : {Good}, topic : {t1}])
===============================================================================
