-------------------------- MODULE HttpRequestsProofs --------------------------
(***************************************************************************)
(* Proofs about the requests of the server, for any plugins, settings,     *)
(* tokens and requests.                                                    *)
(***************************************************************************)
EXTENDS HttpRequests, ServerLifecycleProofs

(***************************************************************************)
(* Nothing the requests do disturbs Serve.                                 *)
(***************************************************************************)
LEMMA HttpStep == [HttpNext]_allVars => [Next]_vars
<1> SUFFICES ASSUME [HttpNext]_allVars
             PROVE  [Next]_vars
  OBVIOUS
<1>1. CASE ServeStep
  BY <1>1 DEF ServeStep, Next, Serve
<1>2. CASE Environment
  BY <1>2 DEF Environment, Next
<1>3. CASE ProviderReady
  BY <1>3 DEF ProviderReady
<1>4. ASSUME NEW r \in Requests, Arrive(r)
      PROVE  Next
  BY <1>4 DEF Arrive, Next
<1>5. ASSUME NEW r \in Requests, Handle(r)
      PROVE  Respond(r) \/ UNCHANGED vars
  BY <1>5 DEF Handle, NotHandled, Authorize, Proxy, HandleUserKV, Connect, WebhookRegister,
     WebhookPublish, Refuse, ActAs, Finish
<1>6. ASSUME NEW r \in Requests, Connection(r)
      PROVE  Next
  BY <1>6 DEF Connection, Next
<1> QED
  BY <1>1, <1>2, <1>3, <1>4, <1>5, <1>6 DEF HttpNext, Next, allVars

THEOREM ImplementsServe == HttpSpec => Spec
<1>1. HttpInit => Init
  BY DEF HttpInit
<1> QED
  BY <1>1, HttpStep, PTL DEF HttpSpec, Spec

(***************************************************************************)
(* Requests keep their shape: what they ask for, how far they are and what *)
(* is known of them.                                                       *)
(***************************************************************************)
LEMMA CallToken ==
  ASSUME NEW c \in AllCalls, c.route \in ProtectedRoutes
  PROVE  /\ c.token \in Tokens /\ c.token # None
         /\ {c.token.subject, c.token.entry, c.token.name} \subseteq Users \cup {None}
<1>1. c.token \in Tokens
  BY DEF AllCalls, ProtectedRoutes
<1> QED
  BY <1>1, RequestsAssumption

LEMMA CallHook ==
  ASSUME NEW c \in AllCalls, c.route = "publish"
  PROVE  c.hook \in Hooks
BY DEF AllCalls

LEMMA CallTopic ==
  ASSUME NEW c \in AllCalls, c.route = "register"
  PROVE  c.topic \in Topics \cup {None}
BY DEF AllCalls

LEMMA NotNone ==
  /\ None \notin Users /\ None \notin Tokens /\ None \notin AllCalls /\ None \notin Hooks
  /\ None \notin Statuses
BY RequestsAssumption

LEMMA HttpTypeStep == TypeOK' /\ HttpTypeOK /\ [HttpNext]_allVars => HttpTypeOK'
<1> SUFFICES ASSUME TypeOK', HttpTypeOK, [HttpNext]_allVars
             PROVE  HttpTypeOK'
  OBVIOUS
<1> USE DEF HttpTypeOK, configVars, requestVars
<1>1. CASE ServeStep
  <2>1. UNCHANGED <<ready, requestVars>>
    BY <1>1 DEF ServeStep
  <2>2. req' = req
    BY <1>1 DEF ServeStep, ServeOn, InitializePlugin, StartFails, InitializeOIDC, Listen, OnError,
       Shutdown, Drained, ClosePlugin, CancelContext, Exit
  <2>3. {required', routed'} \subseteq [Registered -> SUBSET STRING]
    <3>1. CASE UNCHANGED configVars
      BY <3>1
    <3>2. ASSUME NEW p, Configure(p)
          PROVE  {required', routed'} \subseteq [Registered -> SUBSET STRING]
      <4> DEFINE scopes == IF Setting[p] = {} THEN required[p] ELSE Setting[p]
      <4>1. /\ required' = [required EXCEPT ![p] = scopes]
            /\ routed' = [routed EXCEPT ![p] = required[p]]
        BY <3>2 DEF Configure
      <4>2. p \in Registered => scopes \in SUBSET STRING /\ required[p] \in SUBSET STRING
        BY RequestsAssumption
      <4> HIDE DEF scopes
      <4> QED
        BY <4>1, <4>2
    <3> QED
      BY <1>1, <3>1, <3>2 DEF ServeStep
  <2> QED
    BY <2>1, <2>2, <2>3
<1>2. CASE Environment
  <2>1. req' = req
    BY <1>2 DEF Environment, Signal, OnSignal, SecondSignal, ServeStops, ServeExits,
       FinderStep, FinderStops, FinderFails, FinderSends
  <2> QED
    BY <1>2, <2>1 DEF Environment
<1>3. CASE ProviderReady
  BY <1>3 DEF ProviderReady, vars
<1>8. ASSUME NEW r \in Requests, Connection(r)
      PROVE  HttpTypeOK'
  <2>1. /\ req[r] \in {"new", "accepted"}
        /\ \E step \in {"new", "accepted"} : req' = [req EXCEPT ![r] = step]
    BY <1>8 DEF Connection, Accept, Hangup
  <2>2. /\ \A q \in Requests : req'[q] \in {"new", "accepted"} <=> req[q] \in {"new", "accepted"}
        /\ \A q \in Requests : req'[q] = "done" <=> req[q] = "done"
    BY <2>1 DEF TypeOK
  <2> QED
    BY <1>8, <2>2 DEF Connection
<1>4. ASSUME NEW r \in Requests, Arrive(r)
      PROVE  HttpTypeOK'
  <2>1. PICK c \in AllCalls : call' = [call EXCEPT ![r] = c]
    BY <1>4, RequestsAssumption DEF Arrive
  <2>2. req[r] = "accepted" /\ req' = [req EXCEPT ![r] = "open"]
    BY <1>4 DEF Arrive, Request
  <2>3. UNCHANGED <<ready, configVars, inside, seen, hooks, published, answer>>
    BY <1>4 DEF Arrive
  <2>4. /\ \A q \in Requests : req'[q] \in {"new", "accepted"} <=> call'[q] = None
        /\ \A q \in Requests : req'[q] = "done" <=> answer'[q] # None
    BY <2>1, <2>2, <2>3, NotNone DEF TypeOK
  <2>5. call' \in [Requests -> AllCalls \cup {None}]
    BY <2>1
  <2> QED
    BY <2>3, <2>4, <2>5
<1>5. ASSUME NEW r \in Requests, NEW status \in Statuses,
             Finish(r, status),
             /\ seen' \in [Requests -> [user : Users, name : Users \cup {None}] \cup {None}]
             /\ hooks' \subseteq Hooks
             /\ published' \in [Requests -> Hooks \cup {None}]
      PROVE  HttpTypeOK'
  <2>1. req[r] = "open" /\ req' = [req EXCEPT ![r] = "done"]
    BY <1>5 DEF Finish, Respond
  <2>2. answer' = [answer EXCEPT ![r] = status]
    BY <1>5 DEF Finish
  <2>3. UNCHANGED <<ready, configVars, call, inside>>
    BY <1>5 DEF Finish
  <2>4. status # None
    BY NotNone
  <2>5. /\ \A q \in Requests : req'[q] \in {"new", "accepted"} <=> call'[q] = None
        /\ \A q \in Requests : req'[q] = "done" <=> answer'[q] # None
    BY <2>1, <2>2, <2>3, <2>4 DEF TypeOK
  <2>6. answer' \in [Requests -> Statuses \cup {None}]
    BY <2>2
  <2> QED
    BY <1>5, <2>3, <2>5, <2>6
<1>6. ASSUME NEW r \in Requests, Handle(r)
      PROVE  HttpTypeOK'
  <2> DEFINE Done == \E status \in Statuses : Finish(r, status)
             Unseen == UNCHANGED <<seen, hooks, published>>
  <2>0. req[r] = "open" /\ call[r] \in AllCalls
    BY <1>6, NotNone DEF Handle, NotHandled, Authorize, Open, In, Proxy, HandleUserKV, Connect,
       WebhookRegister, WebhookPublish
  <2>1. ASSUME NEW routes, In(r, routes)
        PROVE  inside[r] \in Tokens /\ call[r].route \in routes
    BY <2>1 DEF In
  <2>2. CASE Done /\ Unseen
    BY <1>5, <2>2
  <2>3. CASE NotHandled(r)
    BY <2>2, <2>3 DEF NotHandled, Statuses
  <2>4. CASE Authorize(r)
    <3>1. call[r].token \in Tokens
      BY <2>0, <2>4, CallToken DEF Authorize, Protected
    <3>2. CASE Allowed(call[r].token, Required(call[r].route))
      <4>1. inside' \in [Requests -> Tokens \cup {None}]
        BY <2>4, <3>1, <3>2 DEF Authorize
      <4> QED
        BY <2>4, <3>2, <4>1 DEF Authorize, vars
    <3>3. CASE ~Allowed(call[r].token, Required(call[r].route))
      BY <2>2, <2>4, <3>3 DEF Authorize, Statuses
    <3> QED
      BY <3>2, <3>3
  <2>5. ASSUME NEW user \in Users, NEW name \in Users \cup {None}, Done,
               seen' = [seen EXCEPT ![r] = [user |-> user, name |-> name]],
               UNCHANGED <<hooks, published>>
        PROVE  HttpTypeOK'
    <3>1. seen' \in [Requests -> [user : Users, name : Users \cup {None}] \cup {None}]
      BY <2>5
    <3> QED
      BY <1>5, <2>5, <3>1
  <2>6. ASSUME NEW routes, In(r, routes), routes \subseteq ProtectedRoutes
        PROVE  /\ inside[r] \in Tokens
               /\ {inside[r].subject, inside[r].entry, inside[r].name} \subseteq Users \cup {None}
    BY <2>1, <2>6, RequestsAssumption
  <2>7. CASE Proxy(r)
    <3> DEFINE t == inside[r]
               user == IF t.entry # None THEN t.entry ELSE t.subject
    <3>1. {t.subject, t.entry, t.name} \subseteq Users \cup {None}
      BY <2>6, <2>7 DEF Proxy, ProtectedRoutes
    <3>2. CASE Refuse(r, 403) \/ Refuse(r, 502)
      BY <2>2, <3>2 DEF Refuse, Statuses
    <3>3. CASE /\ t.subject # None /\ t.name # None /\ Done
               /\ seen' = [seen EXCEPT ![r] = SetHeaders(call[r].header, t)]
               /\ UNCHANGED <<hooks, published>>
      <4>1. SetHeaders(call[r].header, t) = [user |-> user, name |-> t.name]
        BY DEF SetHeaders
      <4>2. user \in Users /\ t.name \in Users
        BY <3>1, <3>3
      <4> HIDE DEF t, user, Done
      <4> QED
        BY <2>5, <3>3, <4>1, <4>2
    <3> QED
      BY <2>7, <3>2, <3>3 DEF Proxy, Statuses
  <2>8. ASSUME NEW status \in Statuses, NEW routes, In(r, routes), routes \subseteq ProtectedRoutes,
               inside[r].subject # None, ActAs(r, status)
        PROVE  HttpTypeOK'
    <3>1. inside[r].subject \in Users
      BY <2>6, <2>8
    <3> QED
      BY <2>5, <2>8, <3>1 DEF ActAs
  <2>9. CASE HandleUserKV(r)
    <3>1. CASE Refuse(r, 403) \/ Refuse(r, 501)
      BY <2>2, <3>1 DEF Refuse, Statuses
    <3>2. CASE inside[r].subject # None /\ \E status \in {200, 400, 404, 500} : ActAs(r, status)
      BY <2>8, <2>9, <3>2 DEF HandleUserKV, Statuses, ProtectedRoutes
    <3> QED
      BY <2>9, <3>1, <3>2 DEF HandleUserKV
  <2>10. CASE Connect(r)
    <3>1. CASE Refuse(r, 500)
      BY <2>2, <3>1 DEF Refuse, Statuses
    <3>2. CASE inside[r].subject # None
      BY <2>8, <2>10, <3>2 DEF Connect, Statuses, ProtectedRoutes
    <3> QED
      BY <2>10, <3>1, <3>2 DEF Connect
  <2>11. CASE WebhookRegister(r)
    <3>1. call[r].topic \in Topics \cup {None}
      BY <2>0, <2>1, <2>11, CallTopic DEF WebhookRegister
    <3>2. NewHook(r) \in Hooks
      BY <3>1 DEF NewHook, Hooks, Ids
    <3>3. CASE Refuse(r, 500)
      BY <2>2, <3>3 DEF Refuse, Statuses
    <3>4. CASE /\ Finish(r, 200) /\ hooks' = hooks \cup {NewHook(r)}
               /\ UNCHANGED <<seen, published>>
      BY <1>5, <3>2, <3>4 DEF Statuses
    <3> QED
      BY <2>11, <3>3, <3>4 DEF WebhookRegister
  <2>12. CASE WebhookPublish(r)
    <3>1. call[r].hook \in Hooks
      BY <2>0, <2>12, CallHook DEF WebhookPublish
    <3>2. CASE Refuse(r, 422) \/ Refuse(r, 200) \/ Refuse(r, 400)
      BY <2>2, <3>2 DEF Refuse, Statuses
    <3>3. CASE /\ Finish(r, 204)
               /\ published' = [published EXCEPT ![r] = HookOf(call[r])]
               /\ UNCHANGED <<seen, hooks>>
      BY <1>5, <3>1, <3>3 DEF HookOf, Statuses
    <3> QED
      BY <2>12, <3>2, <3>3 DEF WebhookPublish
  <2> QED
    BY <1>6, <2>3, <2>4, <2>7, <2>9, <2>10, <2>11, <2>12 DEF Handle
<1>7. CASE UNCHANGED allVars
  BY <1>7 DEF allVars, vars
<1> QED
  BY <1>1, <1>2, <1>3, <1>4, <1>6, <1>7, <1>8 DEF HttpNext

THEOREM HttpTypeCorrect == HttpSpec => []HttpTypeOK
<1>1. HttpInit /\ TypeOK => HttpTypeOK
  <2> SUFFICES ASSUME HttpInit, TypeOK
               PROVE  HttpTypeOK
    OBVIOUS
  <2>1. /\ \A r \in Requests : req[r] = "new" /\ call[r] = None /\ answer[r] = None
        /\ {required, routed} \subseteq [Registered -> SUBSET STRING]
    BY RequestsAssumption DEF HttpInit, Init
  <2>2. /\ ready \in BOOLEAN /\ hooks \subseteq Hooks
        /\ call \in [Requests -> AllCalls \cup {None}]
        /\ inside \in [Requests -> Tokens \cup {None}]
        /\ published \in [Requests -> Hooks \cup {None}]
        /\ answer \in [Requests -> Statuses \cup {None}]
    BY RequestsAssumption DEF HttpInit
  <2>3. seen \in [Requests -> [user : Users, name : Users \cup {None}] \cup {None}]
    BY DEF HttpInit
  <2> QED
    BY <2>1, <2>2, <2>3 DEF HttpTypeOK
<1>2. HttpSpec => []TypeOK
  BY ImplementsServe, TypeCorrect, PTL
<1> QED
  BY <1>1, <1>2, HttpTypeStep, PTL DEF HttpSpec

(***************************************************************************)
(* What the plugins require when the server has started: their setting, if *)
(* they look at it at each request, and else what the source says.  A      *)
(* plugin that was in the list twice would make its routes anew, with the  *)
(* setting it has read by then.                                            *)
(***************************************************************************)
ConfigInv ==
  \A p \in Registered :
    /\ required[p] = IF inits[p] = 0 THEN Default[p] ELSE Configured(p)
    /\ inits[p] # 0 => routed[p] = Default[p]

LEMMA ConfigStep ==
  PlaceInv /\ ServeInv /\ HttpTypeOK /\ ConfigInv /\ [HttpNext]_allVars => ConfigInv'
<1> SUFFICES ASSUME PlaceInv, ServeInv, HttpTypeOK, ConfigInv, [HttpNext]_allVars
             PROVE  ConfigInv'
  OBVIOUS
<1>1. CASE InitializePlugin /\ Configure(plugins[next])
  <2> DEFINE p == plugins[next]
  <2>1. p \in Registered /\ inits[p] = 0
    <3>1. main = "init" /\ next <= Len(plugins)
      BY <1>1 DEF InitializePlugin
    <3>2. next \in DOMAIN plugins /\ p \in Registered
      BY <3>1 DEF PlaceInv, TypeOK
    <3>3. ~Ran(plugins, p, next)
      BY <3>2 DEF Ran, ServeInv, Distinct, PlaceInv, TypeOK
    <3> QED
      BY <3>1, <3>2, <3>3 DEF ServeInv, Times
  <2>2. inits' = [inits EXCEPT ![p] = 1]
    BY <1>1, <2>1 DEF InitializePlugin
  <2>3. /\ required' = [required EXCEPT ![p] = Configured(p)]
        /\ routed' = [routed EXCEPT ![p] = Default[p]]
    BY <1>1, <2>1 DEF Configure, Configured, ConfigInv
  <2>4. /\ inits \in [Registered -> 0..Len(plugins)]
        /\ {required, routed} \subseteq [Registered -> SUBSET STRING]
    BY DEF PlaceInv, TypeOK, HttpTypeOK
  <2> HIDE DEF p
  <2> QED
    BY <2>1, <2>2, <2>3, <2>4 DEF ConfigInv, Configured
<1>2. CASE inits' = inits /\ UNCHANGED configVars
  BY <1>2 DEF configVars, ConfigInv, Configured
<1>3. CASE ServeStep
  <2>1. ServeOn => inits' = inits
    BY DEF ServeOn, StartFails, InitializeOIDC, Listen, OnError, Shutdown, Drained, ClosePlugin,
       CancelContext, Exit, pluginVars
  <2> QED
    BY <1>1, <1>2, <1>3, <2>1 DEF ServeStep
<1>4. CASE Environment
  <2>1. inits' = inits
    BY <1>4 DEF Environment, Signal, OnSignal, SecondSignal, ServeStops, ServeExits,
       FinderStep, FinderStops, FinderFails, FinderSends, pluginVars
  <2> QED
    BY <1>2, <1>4, <2>1 DEF Environment
<1>5. CASE ProviderReady
  BY <1>2, <1>5 DEF ProviderReady, vars, pluginVars
<1>6. ASSUME NEW r \in Requests, Connection(r) \/ Arrive(r)
      PROVE  ConfigInv'
  BY <1>2, <1>6 DEF Connection, Accept, Hangup, Arrive, Request, pluginVars
<1>7. ASSUME NEW r \in Requests, Handle(r)
      PROVE  ConfigInv'
  <2>1. UNCHANGED configVars
    BY <1>7 DEF Handle, NotHandled, Authorize, Proxy, HandleUserKV, Connect, WebhookRegister,
       WebhookPublish, Refuse, ActAs, Finish
  <2>2. Respond(r) \/ UNCHANGED vars
    BY <1>7 DEF Handle, NotHandled, Authorize, Proxy, HandleUserKV, Connect, WebhookRegister,
       WebhookPublish, Refuse, ActAs, Finish
  <2> QED
    BY <1>2, <2>1, <2>2 DEF Respond, vars, pluginVars
<1>8. CASE UNCHANGED allVars
  BY <1>2, <1>8 DEF allVars, vars, pluginVars
<1> QED
  BY <1>3, <1>4, <1>5, <1>6, <1>7, <1>8 DEF HttpNext

(***************************************************************************)
(* Whom a handler takes the user for is known only once the request has    *)
(* been let in, and then from the token it came with.                      *)
(***************************************************************************)
TokenInv ==
  \A r \in Requests :
    /\ inside[r] # None => call[r] # None /\ Protected(r) /\ inside[r] = call[r].token
    /\ seen[r] # None =>
         /\ inside[r] # None
         /\ seen[r].user \in {call[r].token.subject, call[r].token.entry} \ {None}
         /\ PluginOf(call[r].route) = "grapi" => seen[r].name = call[r].token.name
         /\ PluginOf(call[r].route) # "grapi" => seen[r].user = call[r].token.subject

LEMMA HandlersOf ==
  ASSUME NEW route
  PROVE  /\ route \in {"gc/v1", "gc/v0"} <=> PluginOf(route) = "grapi"
         /\ route = "kv" <=> PluginOf(route) = "kvs"
BY DEF PluginOf

LEMMA TokenStep == HttpTypeOK /\ TokenInv /\ [HttpNext]_allVars => TokenInv'
<1> SUFFICES ASSUME HttpTypeOK, TokenInv, [HttpNext]_allVars
             PROVE  TokenInv'
  OBVIOUS
<1>1. CASE UNCHANGED <<call, inside, seen>>
  BY <1>1 DEF TokenInv, Protected
<1>2. CASE ServeStep \/ Environment \/ ProviderReady \/ \E r \in Requests : Connection(r)
  BY <1>1, <1>2 DEF ServeStep, Environment, ProviderReady, Connection, requestVars
<1>3. ASSUME NEW r \in Requests, Arrive(r)
      PROVE  TokenInv'
  <2>1. PICK c : call' = [call EXCEPT ![r] = c]
    BY <1>3 DEF Arrive
  <2>2. call[r] = None
    BY <1>3 DEF Arrive, Request, HttpTypeOK
  <2>3. inside[r] = None /\ seen[r] = None
    BY <2>2 DEF TokenInv
  <2>4. call \in [Requests -> AllCalls \cup {None}] /\ UNCHANGED <<inside, seen>>
    BY <1>3 DEF Arrive, HttpTypeOK
  <2> QED
    BY <2>1, <2>3, <2>4 DEF TokenInv, Protected
<1>4. ASSUME NEW r \in Requests, Handle(r)
      PROVE  TokenInv'
  <2>1. ASSUME NEW status, Refuse(r, status)
        PROVE  TokenInv'
    BY <1>1, <2>1 DEF Refuse, Finish
  <2>2. CASE NotHandled(r)
    BY <1>1, <2>2 DEF NotHandled, Finish
  <2>3. CASE Authorize(r)
    <3>1. CASE inside' = [inside EXCEPT ![r] = call[r].token] /\ UNCHANGED <<call, seen>>
      <4>1. call[r] # None /\ Protected(r) /\ inside[r] = None
        BY <2>3 DEF Authorize, Open, HttpTypeOK
      <4>2. inside \in [Requests -> Tokens \cup {None}]
        BY DEF HttpTypeOK
      <4>3. call[r].token # None
        BY <4>1, CallToken DEF HttpTypeOK, Protected
      <4> QED
        BY <3>1, <4>1, <4>2, <4>3 DEF TokenInv, Protected
    <3> QED
      BY <1>1, <2>3, <3>1 DEF Authorize, Finish
  <2>4. ASSUME NEW user, NEW name,
               seen' = [seen EXCEPT ![r] = [user |-> user, name |-> name]],
               UNCHANGED <<call, inside>>,
               inside[r] # None,
               user \in {inside[r].subject, inside[r].entry} \ {None},
               PluginOf(call[r].route) = "grapi" => name = inside[r].name,
               PluginOf(call[r].route) # "grapi" => user = inside[r].subject
        PROVE  TokenInv'
    <3>1. seen \in [Requests -> [user : Users, name : Users \cup {None}] \cup {None}]
      BY DEF HttpTypeOK
    <3>2. inside[r] = call[r].token
      BY <2>4 DEF TokenInv
    <3>3. seen'[r].user = user /\ seen'[r].name = name
      BY <2>4, <3>1
    <3>4. \A q \in Requests : q # r => seen'[q] = seen[q]
      BY <2>4, <3>1
    <3>5. ASSUME NEW q \in Requests, q # r
          PROVE  seen'[q] = seen[q] /\ UNCHANGED <<call[q], inside[q]>>
      BY <2>4, <3>4, <3>5
    <3> QED
      BY <2>4, <3>2, <3>3, <3>4 DEF TokenInv, Protected
  <2>5. CASE Proxy(r)
    <3> DEFINE t == inside[r]
               user == IF t.entry # None THEN t.entry ELSE t.subject
    <3>1. CASE /\ t.subject # None
               /\ \E status \in {200, 502} : Finish(r, status)
               /\ seen' = [seen EXCEPT ![r] = SetHeaders(call[r].header, t)]
      <4>1. SetHeaders(call[r].header, t) = [user |-> user, name |-> t.name]
        BY DEF SetHeaders
      <4>2. user \in {t.subject, t.entry} \ {None}
        BY <3>1
      <4>3. t # None /\ PluginOf(call[r].route) = "grapi"
        BY <2>5, HandlersOf DEF Proxy, In
      <4>4. UNCHANGED <<call, inside>>
        BY <3>1 DEF Finish
      <4>5. seen' = [seen EXCEPT ![r] = [user |-> user, name |-> t.name]]
        BY <3>1, <4>1
      <4> HIDE DEF user
      <4> QED
        BY <2>4, <4>2, <4>3, <4>4, <4>5
    <3> QED
      BY <2>1, <2>5, <3>1 DEF Proxy
  <2>6. ASSUME NEW status, ActAs(r, status), NEW routes, In(r, routes),
               inside[r].subject # None, call[r].route \notin {"gc/v1", "gc/v0"}
        PROVE  TokenInv'
    <3>1. UNCHANGED <<call, inside>>
      BY <2>6 DEF ActAs, Finish
    <3>2. PluginOf(call[r].route) # "grapi"
      BY <2>6, HandlersOf
    <3> QED
      BY <2>4, <2>6, <3>1, <3>2 DEF ActAs, In
  <2>7. CASE HandleUserKV(r)
    <3>1. call[r].route = "kv" /\ In(r, {"kv"})
      BY <2>7 DEF HandleUserKV, In
    <3> QED
      BY <2>1, <2>6, <2>7, <3>1 DEF HandleUserKV
  <2>8. CASE Connect(r)
    <3>1. call[r].route = "connect" /\ In(r, {"connect"})
      BY <2>8 DEF Connect, In
    <3> QED
      BY <2>1, <2>6, <2>8, <3>1 DEF Connect
  <2>9. CASE WebhookRegister(r) \/ WebhookPublish(r)
    BY <1>1, <2>1, <2>9 DEF WebhookRegister, WebhookPublish, Refuse, Finish
  <2> QED
    BY <1>4, <2>2, <2>3, <2>5, <2>7, <2>8, <2>9 DEF Handle
<1> QED
  BY <1>1, <1>2, <1>3, <1>4 DEF HttpNext, allVars, requestVars

(***************************************************************************)
(* Workers and handlers act for the user of the request's token.           *)
(***************************************************************************)
THEOREM IdentityIsTokensCorrect == HttpSpec => []IdentityIsTokens
<1>1. HttpInit => TokenInv
  BY DEF HttpInit, TokenInv
<1>2. TokenInv => IdentityIsTokens
  BY DEF TokenInv, IdentityIsTokens
<1> QED
  BY <1>1, <1>2, TokenStep, HttpTypeCorrect, PTL DEF HttpSpec

(***************************************************************************)
(* Requests come after the last plugin has read its setting: what a request*)
(* is checked for is what its plugin required when the server started.     *)
(***************************************************************************)
Granted(c) ==
  /\ ready /\ c.token.valid /\ c.token.access
  /\ c.route = "gc/v1" => Configured("grapi") \subseteq c.token.scopes
  /\ c.route \in {"kv", "connect", "register"} => Default[PluginOf(c.route)] \subseteq c.token.scopes

GrantInv ==
  /\ main \in {"init", "oidc", "listen"} => \A r \in Requests : req[r] = "new"
  /\ \A r \in Requests :
       /\ inside[r] # None => Granted(call[r])
       /\ call[r] # None /\ Protected(r) /\ answer[r] = 200 => inside[r] # None

LEMMA Admission ==
  ASSUME PlaceInv, ServeInv, ConfigInv, GrantInv, NEW r \in Requests,
         Open(r), Handled(call[r].route), Protected(r),
         Allowed(call[r].token, Required(call[r].route))
  PROVE  Granted(call[r])
<1> DEFINE route == call[r].route
           p == PluginOf(route)
<1>1. main \notin {"init", "oidc", "listen"}
  BY DEF Open, GrantInv
<1>2. inits = All
  BY <1>1 DEF ServeInv, Open, Running
<1>3. p \in Registered /\ inits[p] # 0
  <2>1. PICK i \in DOMAIN plugins : plugins[i] = p
    BY DEF Handled
  <2>2. p \in Registered /\ i < Len(plugins) + 1
    BY <2>1 DEF PlaceInv, TypeOK
  <2>3. All[p] = 1
    BY <2>1, <2>2 DEF All, Times, Ran
  <2> QED
    BY <1>2, <2>2, <2>3
<1>4. required[p] = Configured(p) /\ routed[p] = Default[p]
  BY <1>3 DEF ConfigInv
<1>5. route = "gc/v1" => Required(route) = Configured("grapi")
  BY <1>4, HandlersOf DEF Required
<1>6. route \in {"kv", "connect", "register"} => Required(route) = Default[p]
  BY <1>4 DEF Required
<1> QED
  BY <1>5, <1>6 DEF Granted, Allowed

LEMMA GrantStep ==
  PlaceInv /\ ServeInv /\ ConfigInv /\ HttpTypeOK /\ TokenInv /\ TokenInv' /\ GrantInv
    /\ [HttpNext]_allVars => GrantInv'
<1> SUFFICES ASSUME PlaceInv, ServeInv, ConfigInv, HttpTypeOK, TokenInv, TokenInv', GrantInv,
                    [HttpNext]_allVars
             PROVE  GrantInv'
  OBVIOUS
<1>1. CASE req' = req /\ (main' \in {"init", "oidc", "listen"} => main \in {"init", "oidc", "listen"})
           /\ (ready => ready') /\ UNCHANGED requestVars
  BY <1>1 DEF GrantInv, Granted, Configured, Protected, requestVars
<1>2. CASE ServeStep
  <2>1. req' = req /\ (main' \in {"init", "oidc", "listen"} => main \in {"init", "oidc", "listen"})
    BY <1>2 DEF ServeStep, ServeOn, InitializePlugin, StartFails, InitializeOIDC, Listen, OnError,
       Shutdown, Drained, ClosePlugin, CancelContext, Exit, Goto
  <2> QED
    BY <1>1, <1>2, <2>1 DEF ServeStep
<1>3. CASE Environment
  <2>1. req' = req /\ (main' \in {"init", "oidc", "listen"} => main \in {"init", "oidc", "listen"})
    BY <1>3 DEF Environment, Signal, OnSignal, SecondSignal, ServeStops, ServeExits, Goto,
       FinderStep, FinderStops, FinderFails, FinderSends, mainVars
  <2> QED
    BY <1>1, <1>3, <2>1 DEF Environment
<1>4. CASE ProviderReady
  BY <1>1, <1>4 DEF ProviderReady, vars, mainVars
<1>8. ASSUME NEW r \in Requests, Connection(r)
      PROVE  GrantInv'
  <2>1. main' = main /\ UNCHANGED <<ready, requestVars>>
    BY <1>8 DEF Connection, Accept, Hangup, mainVars
  <2>2. main \notin {"init", "oidc", "listen"}
    BY <1>8 DEF Connection, Accept, Hangup, GrantInv, ServeInv
  <2> QED
    BY <2>1, <2>2 DEF GrantInv, Granted, Configured, Protected, requestVars
<1>5. ASSUME NEW r \in Requests, Arrive(r)
      PROVE  GrantInv'
  <2>1. PICK c : call' = [call EXCEPT ![r] = c]
    BY <1>5 DEF Arrive
  <2>2. /\ call[r] = None /\ answer[r] = None /\ inside[r] = None
    BY <1>5 DEF Arrive, Request, HttpTypeOK, TokenInv
  <2>3. /\ call \in [Requests -> AllCalls \cup {None}] /\ UNCHANGED <<ready, inside, answer>>
        /\ main' = main /\ main \notin {"init", "oidc", "listen"}
    BY <1>5 DEF Arrive, Request, HttpTypeOK, mainVars, GrantInv
  <2>4. None # 200
    BY NotNone DEF Statuses
  <2> QED
    BY <2>1, <2>2, <2>3, <2>4 DEF GrantInv, Granted, Configured, Protected
<1>6. ASSUME NEW r \in Requests, Handle(r)
      PROVE  GrantInv'
  <2>1. Open(r) /\ main \notin {"init", "oidc", "listen"}
    <3>1. Open(r)
      BY <1>6 DEF Handle, NotHandled, Authorize, In, Proxy, HandleUserKV, Connect,
         WebhookRegister, WebhookPublish
    <3> QED
      BY <3>1 DEF Open, GrantInv
  <2>2. ASSUME NEW status, Finish(r, status),
               Protected(r) /\ status = 200 => inside[r] # None
        PROVE  GrantInv'
    <3>1. /\ answer' = [answer EXCEPT ![r] = status]
          /\ UNCHANGED <<ready, call, inside, main>>
      BY <2>2 DEF Finish, Respond, mainVars
    <3>2. answer \in [Requests -> Statuses \cup {None}]
      BY DEF HttpTypeOK
    <3> QED
      BY <2>1, <2>2, <3>1, <3>2 DEF GrantInv, Granted, Configured, Protected
  <2>3. CASE NotHandled(r)
    <3>1. Protected(r) => call[r].route # "health-check"
      BY DEF Protected, ProtectedRoutes
    <3> QED
      BY <2>2, <2>3, <3>1 DEF NotHandled
  <2>4. CASE Authorize(r)
    <3>1. CASE Allowed(call[r].token, Required(call[r].route))
      <4>1. /\ inside' = [inside EXCEPT ![r] = call[r].token]
            /\ UNCHANGED <<ready, call, answer, main>>
        BY <2>4, <3>1 DEF Authorize, vars, mainVars
      <4>2. Granted(call[r])
        BY <2>4, <3>1, Admission DEF Authorize
      <4>3. call[r].token # None
        BY <2>1, <2>4, CallToken DEF HttpTypeOK, Authorize, Protected, Open
      <4>4. inside \in [Requests -> Tokens \cup {None}]
        BY DEF HttpTypeOK
      <4> QED
        BY <2>1, <4>1, <4>2, <4>3, <4>4 DEF GrantInv, Granted, Configured, Protected
    <3> QED
      BY <2>2, <2>4, <3>1 DEF Authorize
  <2>5. CASE Proxy(r) \/ HandleUserKV(r) \/ Connect(r) \/ WebhookRegister(r)
    <3>1. inside[r] # None /\ \E status : Finish(r, status)
      BY <2>5 DEF Proxy, HandleUserKV, Connect, WebhookRegister, In, Refuse, ActAs
    <3> QED
      BY <2>2, <3>1
  <2>6. CASE WebhookPublish(r)
    <3>1. ~Protected(r) /\ \E status : Finish(r, status)
      BY <2>6 DEF WebhookPublish, Refuse, Protected, ProtectedRoutes
    <3> QED
      BY <2>2, <3>1
  <2> QED
    BY <1>6, <2>3, <2>4, <2>5, <2>6 DEF Handle
<1>7. CASE UNCHANGED allVars
  BY <1>1, <1>7 DEF allVars, vars, mainVars
<1> QED
  BY <1>2, <1>3, <1>4, <1>5, <1>6, <1>7, <1>8 DEF HttpNext

(***************************************************************************)
(* Whoever is inside was let in by the scopes in force, unless a plugin is *)
(* loaded twice: then it has made its routes a second time, with what is   *)
(* configured.                                                             *)
(***************************************************************************)
THEOREM GrantCorrect == HttpSpec /\ Distinct(plugins) => [](TokenInv /\ GrantInv)
<1>1. HttpInit => ConfigInv /\ TokenInv /\ GrantInv
  <2> SUFFICES ASSUME HttpInit
               PROVE  ConfigInv /\ TokenInv /\ GrantInv
    OBVIOUS
  <2>1. ConfigInv
    BY DEF HttpInit, Init, ConfigInv
  <2>2. TokenInv /\ GrantInv
    BY DEF HttpInit, Init, TokenInv, GrantInv
  <2> QED
    BY <2>1, <2>2
<1> QED
  BY <1>1, ConfigStep, TokenStep, GrantStep, HttpTypeCorrect, ImplementsServe, ServeCorrect,
     PTL DEF HttpSpec

(***************************************************************************)
(* What takes effect is authorized.                                        *)
(***************************************************************************)
THEOREM AuthorizedCorrect == HttpSpec /\ Distinct(plugins) => []Authorized
<1>1. GrantInv /\ TokenInv => Authorized
  BY DEF GrantInv, TokenInv, Granted, Authorized, Acted, Protected
<1> QED
  BY <1>1, GrantCorrect, PTL

(***************************************************************************)
(* The scopes configured are required as long as kvs and pubs are not      *)
(* configured to require more than the source does.                        *)
(***************************************************************************)
THEOREM ConfiguredScopesRequiredCorrect ==
  ASSUME \A p \in {"kvs", "pubs"} : Configured(p) \subseteq Default[p]
  PROVE  HttpSpec /\ Distinct(plugins) => []ConfiguredScopesRequired
<1>1. GrantInv /\ TokenInv => ConfiguredScopesRequired
  <2> SUFFICES ASSUME GrantInv, TokenInv, NEW r \in Requests, call[r] # None, Acted(r),
                      call[r].route # "gc/v0"
               PROVE  Configured(PluginOf(call[r].route)) \subseteq call[r].token.scopes
    BY DEF ConfiguredScopesRequired
  <2> DEFINE c == call[r]
  <2>1. Protected(r) /\ Granted(c)
    BY DEF Acted, GrantInv, TokenInv
  <2>2. CASE c.route = "gc/v1"
    BY <2>1, <2>2, HandlersOf DEF Granted
  <2>3. CASE c.route \in {"kv", "connect", "register"}
    <3>1. PluginOf(c.route) \in {"kvs", "pubs"}
      BY <2>3 DEF PluginOf
    <3>2. Default[PluginOf(c.route)] \subseteq c.token.scopes
      BY <2>1, <2>3 DEF Granted
    <3> QED
      BY <3>1, <3>2
  <2> QED
    BY <2>1, <2>2, <2>3 DEF Protected, ProtectedRoutes
<1> QED
  BY <1>1, GrantCorrect, PTL

(***************************************************************************)
(* A webhook is known once its registration has been answered, and for     *)
(* good; events are published for known ones only.                         *)
(***************************************************************************)
RegisteredBy(q) == call[q] # None /\ call[q].route = "register" /\ answer[q] = 200

HookInv ==
  /\ \A h \in hooks : h \in Earlier \/ \E q \in Requests : RegisteredBy(q) /\ h = NewHook(q)
  /\ \A r \in Requests : published[r] # None => published[r] \in hooks

LEMMA HookStep == HttpTypeOK /\ HookInv /\ [HttpNext]_allVars => HookInv'
<1> SUFFICES ASSUME HttpTypeOK, HookInv, [HttpNext]_allVars
             PROVE  HookInv'
  OBVIOUS
<1>1. ASSUME \A q \in Requests : RegisteredBy(q) => RegisteredBy(q)' /\ NewHook(q)' = NewHook(q),
             \A h \in hooks' \ hooks : \E q \in Requests : RegisteredBy(q)' /\ h = NewHook(q)',
             hooks \subseteq hooks',
             \A q \in Requests : published'[q] \in {None, published[q]} \cup hooks'
      PROVE  HookInv'
  BY <1>1 DEF HookInv
<1>2. CASE UNCHANGED requestVars
  BY <1>2 DEF HookInv, RegisteredBy, NewHook, requestVars
<1>3. CASE ServeStep \/ Environment \/ ProviderReady \/ \E r \in Requests : Connection(r)
  BY <1>2, <1>3 DEF ServeStep, Environment, ProviderReady, Connection
<1>4. ASSUME NEW r \in Requests, Arrive(r)
      PROVE  HookInv'
  <2>1. PICK c : call' = [call EXCEPT ![r] = c]
    BY <1>4 DEF Arrive
  <2>2. call[r] = None
    BY <1>4 DEF Arrive, Request, HttpTypeOK
  <2>3. \A q \in Requests : q # r => call'[q] = call[q]
    BY <2>1 DEF HttpTypeOK
  <2>4. UNCHANGED <<hooks, published, answer>>
    BY <1>4 DEF Arrive
  <2>5. ASSUME NEW q \in Requests, RegisteredBy(q)
        PROVE  RegisteredBy(q)' /\ NewHook(q)' = NewHook(q)
    BY <2>2, <2>3, <2>4, <2>5 DEF RegisteredBy, NewHook
  <2> QED
    BY <1>1, <2>4, <2>5
<1>5. ASSUME NEW r \in Requests, Handle(r)
      PROVE  HookInv'
  <2>1. ASSUME NEW status, Finish(r, status)
        PROVE  /\ \A q \in Requests : RegisteredBy(q) => RegisteredBy(q)'
               /\ \A q \in Requests : NewHook(q)' = NewHook(q)
               /\ answer'[r] = status /\ call' = call
    <3>1. req[r] = "open" /\ answer' = [answer EXCEPT ![r] = status] /\ call' = call
      BY <2>1 DEF Finish, Respond
    <3>2. answer[r] = None /\ answer \in [Requests -> Statuses \cup {None}]
      BY <3>1 DEF HttpTypeOK
    <3>3. None # 200
      BY NotNone DEF Statuses
    <3> QED
      BY <3>1, <3>2, <3>3 DEF RegisteredBy, NewHook
  <2>2. CASE UNCHANGED <<hooks, published>> /\ \E status : Finish(r, status)
    BY <1>1, <2>1, <2>2
  <2>3. CASE NotHandled(r) \/ Proxy(r) \/ HandleUserKV(r) \/ Connect(r)
    BY <2>2, <2>3 DEF NotHandled, Proxy, HandleUserKV, Connect, Refuse, ActAs
  <2>4. CASE Authorize(r)
    <3>1. CASE UNCHANGED <<call, hooks, published, answer>>
      BY <3>1 DEF HookInv, RegisteredBy, NewHook
    <3> QED
      BY <2>2, <2>4, <3>1 DEF Authorize
  <2>5. CASE WebhookRegister(r)
    <3>1. CASE Refuse(r, 500)
      BY <2>2, <3>1 DEF Refuse
    <3>2. CASE /\ Finish(r, 200) /\ hooks' = hooks \cup {NewHook(r)}
               /\ UNCHANGED <<seen, published>>
      <4>1. call[r].route = "register" /\ req[r] = "open"
        BY <2>5 DEF WebhookRegister, In, Open
      <4>2. RegisteredBy(r)' /\ NewHook(r)' = NewHook(r)
        BY <2>1, <3>2, <4>1 DEF RegisteredBy, HttpTypeOK
      <4> QED
        BY <1>1, <2>1, <3>2, <4>2
    <3> QED
      BY <2>5, <3>1, <3>2 DEF WebhookRegister
  <2>6. CASE WebhookPublish(r)
    <3>1. CASE \E status : Refuse(r, status)
      BY <2>2, <3>1 DEF Refuse
    <3>2. CASE /\ call[r].hook \in hooks /\ Finish(r, 204) /\ UNCHANGED hooks
               /\ published' = [published EXCEPT ![r] = call[r].hook]
      <4>1. \A q \in Requests : published'[q] \in {None, published[q]} \cup hooks'
        BY <3>2 DEF HttpTypeOK
      <4> QED
        BY <1>1, <2>1, <3>2, <4>1
    <3> QED
      BY <2>6, <3>1, <3>2 DEF WebhookPublish, HookOf
  <2> QED
    BY <1>5, <2>3, <2>4, <2>5, <2>6 DEF Handle
<1>6. CASE UNCHANGED allVars
  BY <1>2, <1>6 DEF allVars
<1> QED
  BY <1>3, <1>4, <1>5, <1>6 DEF HttpNext

(***************************************************************************)
(* An event carries the id and the topic of a webhook as registered.       *)
(***************************************************************************)
THEOREM EventsNameTheirHookCorrect == HttpSpec => []EventsNameTheirHook
<1>1. HttpInit => HookInv
  BY DEF HttpInit, HookInv
<1>2. HookInv => EventsNameTheirHook
  BY DEF HookInv, RegisteredBy, EventsNameTheirHook
<1> QED
  BY <1>1, <1>2, HookStep, HttpTypeCorrect, PTL DEF HttpSpec
===============================================================================
