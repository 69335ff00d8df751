------------------------------- MODULE Access -------------------------------
(***************************************************************************)
(* Who gets in: the OAuth provider behind the MCP server, its connectors,  *)
(* the API keys of the client apps and the rate limit per minute.          *)
(*                                                                         *)
(* Every request is a handful of queries, each of which sees what was      *)
(* committed by then, and at most one commit, which overwrites what it     *)
(* read.  An authorization code or a token pair is named for the request   *)
(* that drew it: raw values are random and never drawn twice.              *)
(***************************************************************************)
EXTENDS Integers, FiniteSets

CONSTANTS
    Apps,        \* the client apps
    Connectors,  \* the OAuth clients
    AppOf,       \* the client app each connector is bound to
    Requests,    \* the requests that may come in
    Limits,      \* the values of rate_limit_per_minute
    Unlimited,   \* the null of that column
    Loads,       \* what the service may be put to, see Load
    MaxEdits,    \* bound: edits by administrators
    MaxWindow    \* bound: the last minute

(***************************************************************************)
(* The traffic of a behaviour: what clients ask for, how many of them,     *)
(* which connectors and apps there are and how they are limited, how often *)
(* administrators edit them, and the last minute.                          *)
(***************************************************************************)
Load == [ops    : SUBSET {"authorize", "exchange", "call", "post"},
         reqs   : 0 .. Cardinality(Requests),
         rows   : SUBSET (Connectors \cup Apps),
         limits : SUBSET Limits,
         edits  : 0 .. MaxEdits,
         window : 0 .. MaxWindow]

ASSUME AccessAssumption ==
    /\ AppOf \in [Connectors -> Apps]
    /\ Limits \subseteq Nat \cup {Unlimited}
    /\ Unlimited \notin Nat
    /\ Loads \subseteq Load
    /\ IsFiniteSet(Requests)
    /\ MaxEdits \in Nat
    /\ MaxWindow \in Nat

VARIABLES
    load,      \* chosen once
    live,      \* the connectors and apps whose is_active is set
    secret,    \* how often each connector's secret or app's key was rotated
    limit,     \* rate_limit_per_minute of each app
    grant,     \* what each request has drawn: nothing, a code or a token pair
    spent,     \* the codes that are used and the pairs that are revoked
    age,       \* "valid", "stale" (the access token is over) or "over"
    pc, ask,   \* where each request stands and what it asks for
    cap,       \* the limit a request read with its client,
    bucket,    \*   and the minute it reckons with
    counter,   \* the Redis counters
    ttl,       \* those that have a time to live
    clock,     \* the minute it is
    edits,
    origin,    \* history: the code a grant goes back to
    raced,     \* history: exchanges of something spent by the time of the commit
    barred,    \* history: requests that arrived with nothing that should let them in
    counted,   \* history: requests the limiter counted,
    late,      \*   those among them it counted after their minute,
    made       \*   and the requests that created a job

gateVars  == <<load, live, secret, limit, edits>>
grantVars == <<grant, spent, age, origin, raced>>
rateVars  == <<cap, bucket, counter, ttl, counted, late>>
vars == <<gateVars, grantVars, rateVars, pc, ask, clock, barred, made>>

Windows == 0 .. MaxWindow
None    == [op |-> "none"]

(***************************************************************************)
(* fits: the redirect URI and the PKCE verifier are those of the code.     *)
(* key: which of the secrets, in the order of rotation, is presented.      *)
(***************************************************************************)
Asks ==
    [op : {"authorize"}, conn : Connectors] \cup
    [op : {"exchange"}, conn : Connectors, key : 0 .. MaxEdits, grant : Requests, fits : BOOLEAN] \cup
    [op : {"call"}, grant : Requests] \cup
    [op : {"post"}, app : Apps, key : 0 .. MaxEdits]

PCs == {"new", "client", "issue", "grant", "mint", "token", "connector", "app", "key",
        "bucket", "incr", "ttl", "job", "done", "refused", "limited"}

TypeOK ==
    /\ load \in Loads
    /\ live \subseteq Connectors \cup Apps
    /\ secret \in [Connectors \cup Apps -> Nat]
    /\ limit \in [Apps -> Limits]
    /\ grant \in [Requests -> {"none", "code", "pair"}]
    /\ spent \subseteq {r \in Requests : grant[r] # "none"}
    /\ age \in [Requests -> {"valid", "stale", "over"}]
    /\ pc \in [Requests -> PCs]
    /\ ask \in [Requests -> Asks \cup {None}]
    /\ cap \in [Requests -> Limits \cup {Unlimited}]
    /\ bucket \in [Requests -> Windows]
    /\ counter \in [Apps \X Windows -> Nat]
    /\ ttl \subseteq Apps \X Windows
    /\ clock \in Windows
    /\ edits \in 0 .. MaxEdits
    /\ origin \in [Requests -> Requests]
    /\ raced \in [Requests -> Nat]
    /\ barred \subseteq Requests
    /\ late \subseteq counted
    /\ counted \subseteq Requests
    /\ made \subseteq Requests

Init ==
    /\ load \in Loads
    /\ live \in SUBSET load.rows
    /\ secret = [x \in Connectors \cup Apps |-> 0]
    /\ limit \in [Apps -> load.limits]
    /\ grant = [r \in Requests |-> "none"]
    /\ spent = {}
    /\ age = [r \in Requests |-> "valid"]
    /\ pc = [r \in Requests |-> "new"]
    /\ ask = [r \in Requests |-> None]
    /\ cap = [r \in Requests |-> Unlimited]
    /\ bucket = [r \in Requests |-> 0]
    /\ counter = [k \in Apps \X Windows |-> 0]
    /\ ttl = {}
    /\ clock = 0
    /\ edits = 0
    /\ origin = [r \in Requests |-> r]
    /\ raced = [r \in Requests |-> 0]
    /\ barred = {}
    /\ counted = {}
    /\ late = {}
    /\ made = {}

-----------------------------------------------------------------------------
(* What the rows say of a request. *)

Conn(q)   == IF q.op = "call" THEN ask[q.grant].conn ELSE q.conn
AppFor(q) == IF q.op = "post" THEN q.app ELSE AppOf[Conn(q)]

\* Mutant: an inactive connector is found all the same.
FindClient(c) == TRUE

GetActiveClient(c) == c \in live

AuthenticateClient(c, key) == GetActiveClient(c) /\ key = secret[c]

\* What redeem_authorization_code and refresh_token_grant refuse.
Redeemable(q) ==
    /\ grant[q.grant] = "code" => q.fits
    /\ q.grant \notin spent
    /\ ask[q.grant].conn = q.conn
    /\ age[q.grant] # "over"

CurrentClient(a, key) == key = secret[a] /\ a \in live

\* Nothing the request q brings is good at this moment.
Barred(q) ==
    \/ q.op # "post" /\ Conn(q) \notin live
    \/ q.op = "exchange" /\ (q.key # secret[q.conn] \/ q.grant \in spent \/ age[q.grant] = "over")
    \/ q.op = "call" /\ (q.grant \in spent \/ age[q.grant] # "valid")
    \/ q.op = "post" /\ q.key # secret[q.app]
    \/ q.op \in {"call", "post"} /\ AppFor(q) \notin live

-----------------------------------------------------------------------------
(* Steps of a request. *)

At(r, p)   == pc[r] = p
GoTo(r, p) == pc' = [pc EXCEPT ![r] = p]
Check(r, holds, p) == GoTo(r, IF holds THEN p ELSE "refused")

idle == <<gateVars, ask, clock, barred>>

\* A request arrives. Its caller has seen the secrets and grants it presents.
Arrive(r, q) ==
    /\ q.op \in load.ops
    /\ Cardinality({s \in Requests : pc[s] # "new"}) < load.reqs
    /\ q.op \in {"exchange", "call"} => grant[q.grant] # "none"
    /\ q.op = "exchange" => q.key <= secret[q.conn] /\ (grant[q.grant] = "pair" => q.fits)
    /\ q.op = "post" => q.key <= secret[q.app]
    /\ q.op = "call" => grant[q.grant] = "pair"
    /\ ask' = [ask EXCEPT ![r] = q]
    /\ barred' = IF Barred(q) THEN barred \cup {r} ELSE barred
    /\ GoTo(r, CASE q.op = "authorize" -> "client"
                 [] q.op = "exchange"  -> "client"
                 [] q.op = "call"      -> "token"
                 [] q.op = "post"      -> "key")
    /\ UNCHANGED <<gateVars, grantVars, rateVars, clock, made>>

\* POST /oauth/authorize by an administrator, and the first check of POST /oauth/token.
ReadClient(r) ==
    /\ At(r, "client")
    /\ LET q == ask[r] IN
       IF q.op = "authorize" THEN Check(r, GetActiveClient(q.conn), "issue")
                             ELSE Check(r, AuthenticateClient(q.conn, q.key), "grant")
    /\ UNCHANGED <<idle, grantVars, rateVars, made>>

IssueCode(r) ==
    /\ At(r, "issue")
    /\ grant' = [grant EXCEPT ![r] = "code"]
    /\ GoTo(r, "done")
    /\ UNCHANGED <<idle, rateVars, spent, age, origin, raced, made>>

\* The row of the code or of the refresh token is read ...
ReadGrant(r) ==
    /\ At(r, "grant")
    /\ Check(r, Redeemable(ask[r]), "mint")
    /\ UNCHANGED <<idle, grantVars, rateVars, made>>

\* Mutant: the refresh token that was used stays.
MintKeepingPair(r) ==
    /\ At(r, "mint")
    /\ LET g == ask[r].grant IN
       /\ spent' = IF grant[g] = "code" THEN spent \cup {g} ELSE spent
       /\ raced' = [raced EXCEPT ![origin[g]] = IF g \in spent THEN @ + 1 ELSE @]
       /\ origin' = [origin EXCEPT ![r] = origin[g]]
    /\ grant' = [grant EXCEPT ![r] = "pair"]
    /\ GoTo(r, "done")
    /\ UNCHANGED <<idle, rateVars, age, made>>

\* ... and marked in the commit that inserts the new pair.
Mint(r) ==
    /\ At(r, "mint")
    /\ LET g == ask[r].grant IN
       /\ spent' = spent \cup {g}
       /\ raced' = [raced EXCEPT ![origin[g]] = IF g \in spent THEN @ + 1 ELSE @]
       /\ origin' = [origin EXCEPT ![r] = origin[g]]
    /\ grant' = [grant EXCEPT ![r] = "pair"]
    /\ GoTo(r, "done")
    /\ UNCHANGED <<idle, rateVars, age, made>>

\* An MCP call: resolve_access_token reads the token, the connector and the app.
ReadToken(r) ==
    /\ At(r, "token")
    /\ LET g == ask[r].grant IN Check(r, g \notin spent /\ age[g] = "valid", "connector")
    /\ UNCHANGED <<idle, grantVars, rateVars, made>>

ReadConnector(r) ==
    /\ At(r, "connector")
    /\ Check(r, GetActiveClient(Conn(ask[r])), "app")
    /\ UNCHANGED <<idle, grantVars, rateVars, made>>

ReadApp(r) ==
    /\ At(r, "app")
    /\ Check(r, AppFor(ask[r]) \in live, "job")
    /\ UNCHANGED <<idle, grantVars, rateVars, made>>

\* A request with an API key: current_client, whose row has the limit too.
ReadKey(r) ==
    /\ At(r, "key")
    /\ LET q == ask[r] IN
       /\ Check(r, CurrentClient(q.app, q.key),
                IF limit[q.app] = Unlimited THEN "job" ELSE "bucket")
       /\ cap' = [cap EXCEPT ![r] = limit[q.app]]
    /\ UNCHANGED <<idle, grantVars, bucket, counter, ttl, counted, late, made>>

ReadClock(r) ==
    /\ At(r, "bucket")
    /\ bucket' = [bucket EXCEPT ![r] = clock]
    /\ GoTo(r, "incr")
    /\ UNCHANGED <<idle, grantVars, cap, counter, ttl, counted, late, made>>

\* Mutant: one counter for all minutes.
OneKey(r) == <<ask[r].app, 0>>

Key(r) == <<ask[r].app, bucket[r]>>

\* Mutant: the last request of the budget passes as well.
WithinOneMore(r, n) == n <= cap[r] + 1

Within(r, n) == n <= cap[r]

Verdict(r, n) == IF Within(r, n) THEN "job" ELSE "limited"

\* INCR; the first hit goes on to set the time to live, the others to the verdict.
Incr(r) ==
    /\ At(r, "incr")
    /\ LET n == counter[Key(r)] + 1 IN
       /\ counter' = [counter EXCEPT ![Key(r)] = n]
       /\ GoTo(r, IF n = 1 THEN "ttl" ELSE Verdict(r, n))
    /\ counted' = counted \cup {r}
    /\ late' = IF clock > bucket[r] THEN late \cup {r} ELSE late
    /\ UNCHANGED <<idle, grantVars, cap, bucket, ttl, made>>

\* Mutant: EXPIRE reckons the minute again.
SetTtlNow(r) ==
    /\ At(r, "ttl")
    /\ ttl' = ttl \cup {<<ask[r].app, clock>>}
    /\ GoTo(r, Verdict(r, 1))
    /\ UNCHANGED <<idle, grantVars, cap, bucket, counter, counted, late, made>>

\* EXPIRE is a call of its own. The form of the UI takes a limit of 0, too.
SetTtl(r) ==
    /\ At(r, "ttl")
    /\ ttl' = ttl \cup {Key(r)}
    /\ GoTo(r, Verdict(r, 1))
    /\ UNCHANGED <<idle, grantVars, cap, bucket, counter, counted, late, made>>

\* The row of the job is committed for the app that was found.
CreateJob(r) ==
    /\ At(r, "job")
    /\ made' = made \cup {r}
    /\ GoTo(r, "done")
    /\ UNCHANGED <<idle, grantVars, rateVars>>

\* Any await may raise (Postgres or Redis is down, the process dies): nothing more happens.
Fail(r) ==
    /\ pc[r] \notin {"new", "done", "refused", "limited"}
    /\ GoTo(r, "refused")
    /\ UNCHANGED <<idle, grantVars, rateVars, made>>

-----------------------------------------------------------------------------
(* Administrators, and the passing of time. *)

Edit ==
    /\ edits < load.edits
    /\ edits' = edits + 1
    /\ UNCHANGED <<load, grantVars, rateVars, pc, ask, clock, made>>

\* PATCH of a connector or a client app, and the buttons of the UI.
Withdraw(x) ==
    /\ Edit
    /\ x \in live
    /\ live' = live \ {x}
    /\ UNCHANGED <<secret, limit, barred>>

\* The same, or the row is created: one that is not there admits nobody, like one that is
\* not active. From here on a request that was barred may get in.
Reinstate(x) ==
    /\ Edit
    /\ x \in load.rows \ live
    /\ live' = live \cup {x}
    /\ barred' = {}
    /\ UNCHANGED <<secret, limit>>

Rotate(x) ==
    /\ Edit
    /\ x \in load.rows
    /\ secret' = [secret EXCEPT ![x] = @ + 1]
    /\ UNCHANGED <<live, limit, barred>>

SetLimit(a, n) ==
    /\ Edit
    /\ n \in load.limits
    /\ limit' = [limit EXCEPT ![a] = n]
    /\ UNCHANGED <<live, secret, barred>>

\* A code is over after 5 minutes, an access token after an hour, its refresh token after
\* 30 days.
Age(r) ==
    /\ grant[r] # "none"
    /\ age[r] # "over"
    /\ age' = [age EXCEPT ![r] = IF grant[r] = "pair" /\ @ = "valid" THEN "stale" ELSE "over"]
    /\ UNCHANGED <<idle, rateVars, pc, grant, spent, origin, raced, made>>

Tick ==
    /\ clock < load.window
    /\ clock' = clock + 1
    /\ UNCHANGED <<gateVars, grantVars, rateVars, pc, ask, barred, made>>

\* A counter lives for 65 seconds after its first hit, so it outlives its minute.
Expire(k) ==
    /\ k \in ttl
    /\ clock > k[2]
    /\ counter' = [counter EXCEPT ![k] = 0]
    /\ ttl' = ttl \ {k}
    /\ UNCHANGED <<idle, grantVars, pc, cap, bucket, counted, late, made>>

-----------------------------------------------------------------------------

Step(r) ==
    \/ ReadClient(r) \/ IssueCode(r) \/ ReadGrant(r) \/ Mint(r)
    \/ ReadToken(r) \/ ReadConnector(r) \/ ReadApp(r)
    \/ ReadKey(r) \/ ReadClock(r) \/ Incr(r) \/ SetTtl(r)
    \/ CreateJob(r) \/ Fail(r)

Next ==
    \/ \E r \in Requests : Step(r) \/ Age(r)
    \/ \E r \in {s \in Requests : At(s, "new")}, q \in Asks : Arrive(r, q)
    \/ \E x \in Connectors \cup Apps : Withdraw(x) \/ Reinstate(x) \/ Rotate(x)
    \/ \E a \in Apps, n \in Limits : SetLimit(a, n)
    \/ \E k \in Apps \X Windows : Expire(k)
    \/ Tick

Spec == Init /\ [][Next]_vars

-----------------------------------------------------------------------------
(* What lets in and what keeps out. *)

\* What may still be exchanged of all that goes back to the code k.
Unspent(k) == {g \in Requests : grant[g] # "none" /\ origin[g] = k /\ g \notin spent}

\* An approval is worth one code or one pair at a time, along any chain of refreshes:
\* it splits only by an exchange that commits on a row which another spent after it was
\* read, and by as much as there were of those.
ApprovalIsOne ==
    \A k \in Requests : grant[k] = "code" => Cardinality(Unspent(k)) = 1 + raced[k]

\* Who arrives after the connector or the app was deactivated, the secret rotated, the
\* grant spent or its time up, gets nothing out of any of the later steps, unless
\* something is reinstated meanwhile.
WithdrawnStaysOut == \A r \in barred : grant[r] = "none" /\ r \notin made

\* Of the requests that are counted within their minute no more pass than the limit that
\* one of them has read, whatever is edited and however late others are counted.
WindowHolds ==
    \A a \in Apps, w \in Windows :
        LET passed == {r \in counted \ late : /\ ask[r].app = a
                                             /\ bucket[r] = w
                                             /\ pc[r] \in {"job", "done"}}
        IN passed # {} => \E r \in passed : Cardinality(passed) <= cap[r]

\* 429 only if the app spent its limit in that very minute: no minute is charged for
\* another, not even by a counter that was left without a time to live.
RefusedForCause ==
    \A r \in Requests : pc[r] = "limited" =>
        Cardinality({s \in counted : ask[s].app = ask[r].app /\ bucket[s] = bucket[r]}) > cap[r]

=============================================================================
