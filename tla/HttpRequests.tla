---------------------------- MODULE HttpRequests ----------------------------
(***************************************************************************)
(* The server with its requests: ServerLifecycle, where a request goes to  *)
(* the plugin that serves its path, is checked for an access token         *)
(* (AccessTokenRequired) and handled on behalf of the token's user.        *)
(*                                                                         *)
(* Which scopes a token must have is configured per plugin; plugins read   *)
(* that when they are initialized, some after they have made their routes. *)
(* What a handler does with the state of its plugin is left to KvStore,    *)
(* PubsStream, StreamKeys and GrapiProxy.                                  *)
(***************************************************************************)
EXTENDS ServerLifecycle

CONSTANTS
  Tokens,    \* bearer tokens, by their claims; an invalid one for no token
  Default,   \* Default[p]: the scopes plugin p requires if not configured
  Setting,   \* Setting[p]: the scopes configured for p, {} for none
  ApiV0,     \* whether the API v0 of grapi is enabled
  Users,     \* user ids, entry ids and names
  Topics,    \* topics of webhooks
  Earlier,   \* webhooks of an earlier process with the same secret key
  Calls,     \* Calls[r]: what request r may ask for, some of AllCalls
  None

(* header is what the client sends in the headers that tell a worker its user,
   url the id in the URL of a publish request, hook its webhook token.     *)
Ids == Requests \cup {h.id : h \in Earlier}
Hooks == [id : Ids, topic : Topics \cup Requests]
AllCalls ==
  [route : {"health-check", "other"}]
  \cup [route : {"gc/v1", "gc/v0"}, token : Tokens, header : Users \cup {None}]
  \cup [route : {"kv", "connect"}, token : Tokens]
  \cup [route : {"register"}, token : Tokens, topic : Topics \cup {None}]
  \cup [route : {"publish"}, url : Ids, hook : Hooks,
        body : {"event", "malformed", "validation"}]

Statuses == {200, 204, 400, 403, 404, 422, 500, 501, 502}

ASSUME RequestsAssumption ==
  /\ {Default, Setting} \subseteq [Registered -> SUBSET STRING]
  /\ \A t \in Tokens : /\ {t.valid, t.access} \subseteq BOOLEAN
                       /\ t.scopes \subseteq STRING
                       /\ {t.subject, t.entry, t.name} \subseteq Users \cup {None}
  /\ Earlier \subseteq Hooks
  /\ Calls \in [Requests -> SUBSET AllCalls]
  /\ ApiV0 \in BOOLEAN
  /\ None \notin Users \cup Tokens \cup AllCalls \cup Hooks \cup Statuses

VARIABLES
  ready,      \* the OIDC provider can validate tokens
  required,   \* required[p]: scopesRequired of p
  routed,     \* routed[p]: what the handlers made by addRoutes of p require;
              \* grapi does not use it
  call,       \* call[r]: what request r asks for
  inside,     \* inside[r]: the token AccessTokenRequired has let r in for
  seen,       \* seen[r]: whom the worker or the handler takes the user for
  hooks,      \* the registered webhooks
  published,  \* published[r]: the webhook named in the event r publishes
  answer      \* answer[r]: the status of the response

configVars  == <<required, routed>>
requestVars == <<call, inside, seen, hooks, published, answer>>
allVars     == <<vars, ready, configVars, requestVars>>

HttpTypeOK ==
  /\ TypeOK
  /\ ready \in BOOLEAN
  /\ {required, routed} \subseteq [Registered -> SUBSET STRING]
  /\ call \in [Requests -> AllCalls \cup {None}]
  /\ inside \in [Requests -> Tokens \cup {None}]
  /\ seen \in [Requests -> [user : Users, name : Users \cup {None}] \cup {None}]
  /\ hooks \subseteq Hooks
  /\ published \in [Requests -> Hooks \cup {None}]
  /\ answer \in [Requests -> Statuses \cup {None}]
  /\ \A r \in Requests : req[r] \in {"new", "accepted"} <=> call[r] = None
  /\ \A r \in Requests : req[r] = "done" <=> answer[r] # None

HttpInit ==
  /\ Init
  /\ ready = FALSE
  /\ required = Default
  /\ routed = [p \in Registered |-> {}]
  /\ call = [r \in Requests |-> None]
  /\ inside = [r \in Requests |-> None]
  /\ seen = [r \in Requests |-> None]
  /\ hooks = Earlier
  /\ published = [r \in Requests |-> None]
  /\ answer = [r \in Requests |-> None]

-------------------------------------------------------------------------------
(* Startup. *)

(* A bug: the plugins share one scopesRequired. *)
ConfigureAll(p) ==
  /\ required' = [q \in Registered |-> IF Setting[p] = {} THEN required[q] ELSE Setting[p]]
  /\ routed' = [routed EXCEPT ![p] = required[p]]

(* pubs and kvs make their routes, then they read their setting; grapi makes
   its handlers at each request.                                           *)
Configure(p) ==
  /\ required' = [required EXCEPT ![p] = IF Setting[p] = {} THEN @ ELSE Setting[p]]
  /\ routed' = [routed EXCEPT ![p] = required[p]]

ServeStep ==
  /\ \/ InitializePlugin /\ Configure(plugins[next])
     \/ ServeOn /\ UNCHANGED configVars
  /\ UNCHANGED <<ready, requestVars>>

(* Serve waits 10 seconds for this and goes on without. *)
ProviderReady ==
  /\ Running /\ main # "init"
  /\ ready' = TRUE
  /\ UNCHANGED <<vars, configVars, requestVars>>

-------------------------------------------------------------------------------
(* Dispatch. *)

Connection(r) ==
  /\ Accept(r) \/ Hangup(r)
  /\ UNCHANGED <<ready, configVars, requestVars>>

Arrive(r) ==
  /\ Request(r)
  /\ \E c \in Calls[r] : call' = [call EXCEPT ![r] = c]
  /\ UNCHANGED <<ready, configVars, inside, seen, hooks, published, answer>>

PluginOf(route) ==
  CASE route \in {"gc/v1", "gc/v0"}                 -> "grapi"
    [] route = "kv"                                 -> "kvs"
    [] route \in {"connect", "register", "publish"} -> "pubs"
    [] OTHER                                        -> "none"

(* The plugins are asked in their order, but no two serve the same path. *)
Handled(route) ==
  /\ \E i \in DOMAIN plugins : plugins[i] = PluginOf(route)
  /\ route = "gc/v0" => ApiV0

Open(r) == Running /\ req[r] = "open"

Finish(r, status) ==
  /\ Respond(r)
  /\ answer' = [answer EXCEPT ![r] = status]
  /\ UNCHANGED <<ready, configVars, call, inside>>

NotHandled(r) ==
  /\ Open(r) /\ ~Handled(call[r].route)
  /\ Finish(r, IF call[r].route = "health-check" THEN 200 ELSE 404)
  /\ UNCHANGED <<seen, hooks, published>>

-------------------------------------------------------------------------------
(* AccessTokenRequired. *)

ProtectedRoutes == {"gc/v1", "gc/v0", "kv", "connect", "register"}
Protected(r) == call[r].route \in ProtectedRoutes

Required(route) ==
  CASE route = "gc/v1" -> required["grapi"]
    [] route = "gc/v0" -> {}
    [] OTHER           -> routed[PluginOf(route)]

Allowed(t, scopes) == ready /\ t.valid /\ t.access /\ scopes \subseteq t.scopes

(* A bug: 403 is written, and the handler goes on. *)
AuthorizeGoesOn(r) ==
  LET c == call[r]
  IN  /\ Open(r) /\ Handled(c.route) /\ Protected(r) /\ inside[r] = None
      /\ inside' = [inside EXCEPT ![r] = c.token]
      /\ answer' = IF Allowed(c.token, Required(c.route)) THEN answer
                   ELSE [answer EXCEPT ![r] = 403]
      /\ UNCHANGED <<vars, ready, configVars, call, seen, hooks, published>>

Authorize(r) ==
  LET c == call[r]
  IN  /\ Open(r) /\ Handled(c.route) /\ Protected(r) /\ inside[r] = None
      /\ IF Allowed(c.token, Required(c.route))
         THEN /\ inside' = [inside EXCEPT ![r] = c.token]
              /\ UNCHANGED <<vars, ready, configVars, call, answer>>
         ELSE Finish(r, 403)
      /\ UNCHANGED <<seen, hooks, published>>

(* The token of a request its handler has got, for a route of Routes.  There
   is an auth record for it only if it has a subject.                      *)
In(r, routes) == Open(r) /\ inside[r] # None /\ call[r].route \in routes

Refuse(r, status) == Finish(r, status) /\ UNCHANGED <<seen, hooks, published>>

-------------------------------------------------------------------------------
(* Handlers. *)

(* A bug: the headers are set only if the client has not sent them. *)
SetMissingHeaders(sent, t) ==
  [user |-> IF sent # None THEN sent ELSE IF t.entry # None THEN t.entry ELSE t.subject,
   name |-> IF sent # None THEN sent ELSE t.name]

(* injectAuthIntoRequestHeaders: the headers the worker gets, whatever was sent. *)
SetHeaders(sent, t) ==
  [user |-> IF t.entry # None THEN t.entry ELSE t.subject,
   name |-> t.name]

(* The worker gets the request, unless there is none. *)
Proxy(r) ==
  LET t == inside[r]
  IN  /\ In(r, {"gc/v1", "gc/v0"})
      /\ IF t.subject = None \/ t.name = None
         THEN Refuse(r, 403)
         ELSE \/ Refuse(r, 502)
              \/ /\ \E status \in {200, 502} : Finish(r, status)
                 /\ seen' = [seen EXCEPT ![r] = SetHeaders(call[r].header, t)]
                 /\ UNCHANGED <<hooks, published>>

(* The owner of the documents, or of the stream key, is the token's subject. *)
ActAs(r, status) ==
  /\ Finish(r, status)
  /\ seen' = [seen EXCEPT ![r] = [user |-> inside[r].subject, name |-> None]]
  /\ UNCHANGED <<hooks, published>>

HandleUserKV(r) ==
  /\ In(r, {"kv"})
  /\ IF inside[r].subject = None
     THEN Refuse(r, 403)
     ELSE \/ Refuse(r, 501)
          \/ \E status \in {200, 400, 404, 500} : ActAs(r, status)

Connect(r) ==
  /\ In(r, {"connect"})
  /\ IF inside[r].subject = None THEN Refuse(r, 500) ELSE ActAs(r, 200)

(* Id and, if none is given, topic are random; r stands for both. *)
NewHook(r) ==
  [id |-> r, topic |-> IF call[r].topic = None THEN r ELSE call[r].topic]

(* 500 if they cannot be encoded, a topic that is too long. *)
WebhookRegister(r) ==
  /\ In(r, {"register"})
  /\ \/ Refuse(r, 500)
     \/ /\ Finish(r, 200)
        /\ hooks' = hooks \cup {NewHook(r)}
        /\ UNCHANGED <<seen, published>>

(* A bug: the event names the webhook of the URL. *)
HookOfUrl(c) == [c.hook EXCEPT !.id = c.url]

(* The id in the URL has no meaning. *)
HookOf(c) == c.hook

(* The token of the URL can be decoded only if this server, or an earlier one
   with its key, has made it.  Publishing itself is HookPublish of PubsStream. *)
WebhookPublish(r) ==
  LET c == call[r]
  IN  /\ Open(r) /\ Handled(c.route) /\ c.route = "publish"
      /\ CASE c.hook \notin hooks      -> Refuse(r, 422)
           [] c.body = "validation"    -> Refuse(r, 200)
           [] c.body = "malformed"     -> Refuse(r, 400)
           [] OTHER -> /\ Finish(r, 204)
                       /\ published' = [published EXCEPT ![r] = HookOf(c)]
                       /\ UNCHANGED <<seen, hooks>>

-------------------------------------------------------------------------------

Handle(r) ==
  \/ NotHandled(r) \/ Authorize(r)
  \/ Proxy(r) \/ HandleUserKV(r) \/ Connect(r) \/ WebhookRegister(r) \/ WebhookPublish(r)

(* The rest of ServerLifecycle goes on as it did. *)
Environment ==
  /\ \/ Signal
     \/ ServeStops \/ ServeExits
     \/ \E f \in Finders : FinderStep(f)
  /\ UNCHANGED <<ready, configVars, requestVars>>

HttpNext ==
  \/ ServeStep
  \/ Environment
  \/ ProviderReady
  \/ \E r \in Requests : Connection(r) \/ Arrive(r) \/ Handle(r)

HttpSpec == HttpInit /\ [][HttpNext]_allVars

FairHttpSpec ==
  /\ HttpSpec
  /\ WF_allVars(ServeStep)
  /\ WF_allVars(Environment /\ down # "no" /\ ServeStops)
  /\ WF_allVars(Environment /\ ServeExits)
  /\ \A f \in Finders : WF_allVars(Environment /\ FinderStep(f))

-------------------------------------------------------------------------------
(* Properties. *)

(* A protected request that has any effect came with a valid access token,
   which the provider could check, and with the scopes that are in force:
   of grapi those configured, of the others those of the source.           *)
Acted(r) == seen[r] # None \/ (Protected(r) /\ answer[r] = 200)

Configured(p) == IF Setting[p] = {} THEN Default[p] ELSE Setting[p]

Authorized ==
  \A r \in Requests : call[r] # None /\ Acted(r) =>
    LET c == call[r]
    IN  /\ ready /\ c.token.valid /\ c.token.access
        /\ c.route = "gc/v1" => Configured("grapi") \subseteq c.token.scopes
        /\ c.route \in {"kv", "connect", "register"} =>
             Default[PluginOf(c.route)] \subseteq c.token.scopes

(* Workers, documents and streams belong to the user of the token, whatever the
   client has put into the headers.                                        *)
IdentityIsTokens ==
  \A r \in Requests : seen[r] # None =>
    LET t == call[r].token
    IN  /\ seen[r].user \in {t.subject, t.entry} \ {None}
        /\ PluginOf(call[r].route) = "grapi" => seen[r].name = t.name
        /\ PluginOf(call[r].route) # "grapi" => seen[r].user = t.subject

(* "Authorization and topic are encoded inside the token and cannot be changed":
   an event of a webhook carries id and topic of one that was registered by an
   authorized request, or by an earlier server.                            *)
EventsNameTheirHook ==
  \A r \in Requests : published[r] # None =>
    \/ published[r] \in Earlier
    \/ \E q \in Requests : /\ call[q] # None /\ call[q].route = "register" /\ answer[q] = 200
                           /\ published[r] = NewHook(q)

(* "KOPANO_KVS_REQUIRED_SCOPES is an environment variable which defines the
   required access token scopes to grant access to the API endpoints provided
   by this plugin." *)
ConfiguredScopesRequired ==
  \A r \in Requests : call[r] # None /\ Acted(r) /\ call[r].route # "gc/v0" =>
    Configured(PluginOf(call[r].route)) \subseteq call[r].token.scopes
===============================================================================
