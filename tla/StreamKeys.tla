------------------------------ MODULE StreamKeys ------------------------------
(***************************************************************************)
(* How a client gets a websocket stream from the pubs plugin: an           *)
(* authorized connect request puts a random key in a table, a websocket    *)
(* request pops that key and becomes a connection, and a cleanup goroutine *)
(* purges the keys nobody used.                                            *)
(*                                                                         *)
(* Time passes in units; only the age of a key and the phase of the        *)
(* cleanup ticker matter, so no clock value is kept.                       *)
(***************************************************************************)
EXTENDS Naturals, FiniteSets

CONSTANTS
  Keys,        \* keys that connect requests generate, each one once
  Requests,    \* websocket requests
  Users,       \* authenticated user ids
  NoUser,      \* a request without user id, ""
  NoKey,       \* not a key
  Expiration,  \* connectExpiration, in units of time
  Interval     \* connectCleanupInterval, in units of time

ASSUME KeysAssumption ==
  /\ NoUser \notin Users
  /\ NoKey \notin Keys
  /\ Expiration \in Nat \ {0}
  /\ Interval \in Nat \ {0}

VARIABLES
  prompt,    \* so far handlers and cleanup took less than a unit of time
  connect,   \* connect[k]: progress of the connect request that generates k
  user,      \* user[k]: the authenticated user of that request
  record,    \* record[k]: the user in the record stored under k
  age,       \* age[k]: time since record.when, up to MaxAge
  keys,      \* p.keys, the keys in the table
  phase,     \* time since the ticker last fired
  tick,      \* the ticker's channel holds a tick
  expired,   \* keys the cleanup still has to remove
  alive,     \* the plugin's context is not cancelled
  cleaning,  \* the cleanup goroutine runs
  req,       \* req[r]: progress of websocket request r, its key and the user
             \* in the record it has popped
  id,        \* id[r]: number of its connection, 0 if none
  count,     \* p.count
  active     \* p.connections, the numbers in the table

keyVars  == <<connect, user, record, keys>>
timeVars == <<prompt, age, phase, tick, expired, alive, cleaning>>
reqVars  == <<req, id, count, active>>
vars     == <<keyVars, timeVars, reqVars>>

(* Older is as good as this old. *)
MaxAge == Expiration + Interval + 1

TypeOK ==
  /\ connect \in [Keys -> {"no", "stamped", "stored", "refused"}]
  /\ user \in [Keys -> Users \cup {NoUser}]
  /\ record \in [Keys -> Users \cup {NoUser}]
  /\ prompt \in BOOLEAN
  /\ age \in [Keys -> 0..MaxAge]
  /\ keys \subseteq Keys
  /\ phase \in 0..(Interval - 1)
  /\ tick \in BOOLEAN
  /\ expired \subseteq Keys
  /\ alive \in BOOLEAN
  /\ cleaning \in BOOLEAN
  /\ req \in [Requests -> [at   : {"idle", "popped", "starting", "serving", "done"},
                           key  : Keys \cup {NoKey},
                           user : Users \cup {NoUser}]]
  /\ id \in [Requests -> 0..count]
  /\ \A r \in Requests : /\ req[r].at \in {"idle", "popped"} => id[r] = 0
                         /\ req[r].at \in {"starting", "serving"} => id[r] # 0
  /\ count \in Nat
  /\ active \subseteq 1..count

Init ==
  /\ connect = [k \in Keys |-> "no"]
  /\ user = [k \in Keys |-> NoUser]
  /\ record = [k \in Keys |-> NoUser]
  /\ prompt = TRUE
  /\ age = [k \in Keys |-> 0]
  /\ keys = {}
  /\ phase = 0
  /\ tick = FALSE
  /\ expired = {}
  /\ alive = TRUE
  /\ cleaning = TRUE
  /\ req = [r \in Requests |-> [at |-> "idle", key |-> NoKey, user |-> NoUser]]
  /\ id = [r \in Requests |-> 0]
  /\ count = 0
  /\ active = {}

-------------------------------------------------------------------------------
(* Connect requests: handleWebsocketConnect. *)

(* The record is stamped; without an authenticated user it goes nowhere. *)
Stamp(k, u) ==
  /\ connect[k] = "no"
  /\ connect' = [connect EXCEPT ![k] = IF u = NoUser THEN "refused" ELSE "stamped"]
  /\ user' = [user EXCEPT ![k] = u]
  /\ UNCHANGED <<record, keys, timeVars, reqVars>>

(* A bug: connect requests under way share one record. *)
StoreShared(k) ==
  /\ connect[k] = "stamped"
  /\ connect' = [connect EXCEPT ![k] = "stored"]
  /\ \E j \in Keys : connect[j] = "stamped" /\ record' = [record EXCEPT ![k] = user[j]]
  /\ keys' = keys \cup {k}
  /\ UNCHANGED <<user, timeVars, reqVars>>

Store(k) ==
  /\ connect[k] = "stamped"
  /\ connect' = [connect EXCEPT ![k] = "stored"]
  /\ record' = [record EXCEPT ![k] = user[k]]
  /\ keys' = keys \cup {k}
  /\ UNCHANGED <<user, timeVars, reqVars>>

-------------------------------------------------------------------------------
(* Websocket requests: handleWebsocketConnection. *)

Goto(r, from, to) == req[r].at = from /\ req' = [req EXCEPT ![r].at = to]

Ask(r, k) ==
  /\ req[r].at = "idle"
  /\ req' = [req EXCEPT ![r] = IF k \in keys
                               THEN [at |-> "popped", key |-> k, user |-> record[k]]
                               ELSE [at |-> "done", key |-> k, user |-> NoUser]]
  /\ UNCHANGED <<connect, user, record, timeVars, id, count, active>>

(* A bug: the key is looked up and left in the table. *)
GetKey(r, k) == Ask(r, k) /\ UNCHANGED keys

(* The key is taken out of the table whatever comes next; 404 without it. *)
PopKey(r, k) == Ask(r, k) /\ keys' = keys \ {k}

(* 403 without a user, or the upgrade to a websocket fails. *)
UpgradeFails(r) ==
  /\ Goto(r, "popped", "done")
  /\ UNCHANGED <<keyVars, timeVars, id, count, active>>

(* Two bugs: the counter is read and not advanced; connections are numbered
   by how many there are. *)
UpgradeUncounted(r) ==
  /\ Goto(r, "popped", "starting")
  /\ req[r].user # NoUser
  /\ id' = [id EXCEPT ![r] = count + 1]
  /\ UNCHANGED <<keyVars, timeVars, count, active>>

UpgradeByActive(r) ==
  /\ Goto(r, "popped", "starting")
  /\ req[r].user # NoUser
  /\ count' = count + 1
  /\ id' = [id EXCEPT ![r] = Cardinality(active) + 1]
  /\ UNCHANGED <<keyVars, timeVars, active>>

Upgrade(r) ==
  /\ Goto(r, "popped", "starting")
  /\ req[r].user # NoUser
  /\ count' = count + 1
  /\ id' = [id EXCEPT ![r] = count']
  /\ UNCHANGED <<keyVars, timeVars, active>>

(* connection.New fails. *)
NoConnection(r) ==
  /\ Goto(r, "starting", "done")
  /\ UNCHANGED <<keyVars, timeVars, id, count, active>>

(* serveWebsocketConnection, a goroutine of its own. *)
Serve(r) ==
  /\ Goto(r, "starting", "serving")
  /\ active' = active \cup {id[r]}
  /\ UNCHANGED <<keyVars, timeVars, id, count>>

End(r) ==
  /\ Goto(r, "serving", "done")
  /\ active' = active \ {id[r]}
  /\ UNCHANGED <<keyVars, timeVars, id, count>>

-------------------------------------------------------------------------------
(* Time and the cleanup goroutine. *)

AddAge(a) == IF a < MaxAge THEN a + 1 ELSE a

(* A handler or the cleanup is not done with what it has begun. *)
Pending ==
  \/ tick /\ cleaning
  \/ expired # {}
  \/ \E k \in Keys : connect[k] = "stamped"

(* The ticker drops a tick if the last one was not received yet. *)
Tick ==
  /\ prompt' = (prompt /\ ~Pending)
  /\ age' = [k \in Keys |-> IF connect[k] \in {"stamped", "stored"}
                            THEN AddAge(age[k]) ELSE age[k]]
  /\ phase' = IF phase + 1 = Interval THEN 0 ELSE phase + 1
  /\ tick' = (tick \/ phase' = 0)
  /\ UNCHANGED <<keyVars, reqVars, expired, alive, cleaning>>

(* Two bugs: the deadline lies in the future; only what is older than
   a whole cycle is purged. *)
ScanAhead ==
  /\ cleaning /\ tick /\ expired = {}
  /\ tick' = FALSE
  /\ expired' = {k \in keys : age[k] + Expiration > 0}
  /\ UNCHANGED <<keyVars, reqVars, prompt, age, phase, alive, cleaning>>

ScanOldest ==
  /\ cleaning /\ tick /\ expired = {}
  /\ tick' = FALSE
  /\ expired' = {k \in keys : age[k] > Expiration + Interval}
  /\ UNCHANGED <<keyVars, reqVars, prompt, age, phase, alive, cleaning>>

(* purgeExpiredKeys: stamped before the deadline, which is Expiration ago. *)
Scan ==
  /\ cleaning /\ tick /\ expired = {}
  /\ tick' = FALSE
  /\ expired' = {k \in keys : age[k] > Expiration}
  /\ UNCHANGED <<keyVars, reqVars, prompt, age, phase, alive, cleaning>>

(* A bug: expired keys are logged and stay in the table. *)
PurgeNothing(k) ==
  /\ k \in expired
  /\ expired' = expired \ {k}
  /\ UNCHANGED <<keyVars, reqVars, prompt, age, phase, tick, alive, cleaning>>

(* A key may have been popped since the scan. *)
Purge(k) ==
  /\ k \in expired
  /\ expired' = expired \ {k}
  /\ keys' = keys \ {k}
  /\ UNCHANGED <<connect, user, record, reqVars, prompt, age, phase, tick, alive, cleaning>>

(* The context is cancelled. *)
Cancel ==
  /\ alive
  /\ alive' = FALSE
  /\ UNCHANGED <<keyVars, reqVars, prompt, age, phase, tick, expired, cleaning>>

(* The cleanup goroutine waits for a tick or the end of the context; when it
   has both it takes either.                                               *)
StopCleaning ==
  /\ cleaning /\ ~alive /\ expired = {}
  /\ cleaning' = FALSE
  /\ UNCHANGED <<keyVars, reqVars, prompt, age, phase, tick, expired, alive>>

-------------------------------------------------------------------------------

RequestStep(r) ==
  \/ \E k \in Keys : PopKey(r, k)
  \/ UpgradeFails(r) \/ Upgrade(r) \/ NoConnection(r) \/ Serve(r) \/ End(r)

Next ==
  \/ \E k \in Keys : Store(k) \/ Purge(k) \/ \E u \in Users \cup {NoUser} : Stamp(k, u)
  \/ \E r \in Requests : RequestStep(r)
  \/ Tick
  \/ Scan
  \/ Cancel
  \/ StopCleaning

Spec == Init /\ [][Next]_vars

(* Time passes, the cleanup goroutine runs when it can. *)
FairSpec ==
  Spec /\ WF_vars(Tick) /\ WF_vars(Scan) /\ \A k \in Keys : WF_vars(Purge(k))

-------------------------------------------------------------------------------
(* Properties. *)

Holders(k) == {r \in Requests : req[r].key = k /\ (id[r] # 0 \/ req[r].at = "popped")}

(* A stream URL can be used exactly one time (README of the plugin): a key is
   popped by one request at most, and is out of the table from then on.    *)
SingleUse ==
  \A k \in Keys : /\ Cardinality(Holders(k)) <= 1
                  /\ Holders(k) # {} => k \notin keys

(* A connection is served for whom its key was given to: the record a websocket
   request has popped names the user that connect has authenticated before it
   answered with that key, however many of them run at a time.  (So the 403 of
   handleWebsocketConnection is never needed.)                             *)
ServedForUser ==
  \A r \in Requests : req[r].at \in {"popped", "starting", "serving"} =>
    /\ connect[req[r].key] = "stored"
    /\ req[r].user = user[req[r].key]
    /\ req[r].user \in Users

(* NumActive counts the connections being served: ends of one connection
   never unregister another.                                               *)
ActiveIsServing ==
  Cardinality(active) = Cardinality({r \in Requests : req[r].at = "serving"})

(* A key can still be used after Expiration, as handleWebsocketConnection
   does not look at its age, but not after the second cleanup since connect. *)
LifetimeBounded == alive /\ prompt => \A k \in keys : age[k] <= Expiration + Interval

(* Cleanup takes only expired keys out of the table: within Expiration a key
   goes because a request popped it.                                       *)
PurgeSparesFresh ==
  [][\A k \in keys \ keys' :
       age[k] > Expiration \/ \E r \in Requests : req'[r].at = "popped" /\ req'[r].key = k]_vars

(* No key stays in the table for ever, however late handlers store it. *)
KeysGo == \A k \in Keys : k \in keys ~> (k \notin keys \/ ~alive)

(* Why: a key in the table has been stored once and is held by nobody, a key
   that is held has left the table for good.  With TypeOK this is inductive,
   and it implies SingleUse and ServedForUser.                             *)
Held(r) == req[r].at \in {"popped", "starting", "serving"} \/ id[r] # 0
KeyInv ==
  /\ \A k \in Keys : /\ k \in keys => connect[k] = "stored"
                     /\ connect[k] \in {"stamped", "stored"} => user[k] \in Users
                     /\ connect[k] = "stored" => record[k] = user[k]
  /\ \A r \in Requests : Held(r) => /\ req[r].key \in Keys \ keys
                                    /\ connect[req[r].key] = "stored"
                                    /\ req[r].user = user[req[r].key]
  /\ \A q, r \in Requests : Held(q) /\ Held(r) /\ req[q].key = req[r].key => q = r

(* Why: a connection keeps its number, which no other gets, and is in the table
   while it is served.  With TypeOK this is inductive, and it implies
   ActiveIsServing.                                                        *)
Serving == {r \in Requests : req[r].at = "serving"}
ActiveInv ==
  /\ active = {id[r] : r \in Serving}
  /\ \A q, r \in Requests : id[q] = id[r] /\ id[r] # 0 => q = r

(* Why: in good time, what is in the table after a cleanup is no older than
   Expiration, and grows older with the phase of the ticker until the next
   one.  With TypeOK this is inductive, and it implies LifetimeBounded.    *)
TimeInv ==
  /\ alive => cleaning
  /\ \A k \in expired : age[k] > Expiration
  /\ alive /\ prompt =>
       /\ tick \/ expired # {} => phase = 0
       /\ \A k \in Keys : connect[k] \in {"no", "stamped"} => age[k] = 0
       /\ \A k \in keys \ expired :
            age[k] <= (IF tick THEN Expiration + Interval ELSE Expiration + phase)
       /\ \A k \in keys \cap expired : age[k] <= Expiration + Interval
===============================================================================
