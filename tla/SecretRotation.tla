--------------------------- MODULE SecretRotation ---------------------------
(***************************************************************************)
(* The credentials of a machine client: an app client of the user pool,    *)
(* the Secrets Manager secret that names it, and the authorizer's list of  *)
(* clients.  create_m2m_secret.py sets them up and rotate_m2m_secret.py    *)
(* exchanges the client, one call after the other, while a consumer        *)
(* fetches the secret, gets tokens with it and calls the API.  An operator *)
(* runs one script at a time, may stop it between any two calls, and may   *)
(* start it again with whatever --old-client-id.  Time is counted in ticks *)
(* of the buffer that ttl_seconds leaves beyond a token's lifetime.        *)
(***************************************************************************)
EXTENDS Authorizer, FiniteSets

CONSTANTS
    MaxClients,  \* bound on the app clients minted
    Lifetime,    \* ticks a token is valid
    Wait,        \* ticks the rotation sleeps, ttl_seconds
    Hold         \* ticks a consumer may hold a secret before it uses it

VARIABLES
    minted,    \* number of clients minted so far; clients are 1..minted
    clients,   \* those that exist
    secret,    \* the client the secret names, 0 while it has no value
    env,       \* environment of the authorizer
    deployed,  \* LEGACY_API_KEY of the last deployment
    job,       \* the script being run: where it is and its options
    launched,  \* the consumer was given the secret's ARN
    held,      \* the secret the consumer fetched: client, 0 if none, and age
    token,     \* the consumer's token
    raced,     \* a script wrote back a configuration deployed over meanwhile
    heeded     \* the operators have kept to what the documents ask of them

machine == <<minted, clients, secret>>
consumer == <<held, token>>
history == <<raced, heeded>>
vars == <<machine, env, deployed, job, launched, consumer, history>>

\* The app clients serverless.yml creates for people and for automation.
Scientist == 100
Automation == 101

\* The clients minted are other ones, and the sleep outlasts a token got with
\* a secret fetched before it ("Sleep between cutover and old-client delete
\* (>= access-token TTL)").
ASSUME RotationAssumption ==
    /\ {MaxClients, Lifetime, Wait, Hold} \subseteq Nat
    /\ MaxClients < Scientist
    /\ Lifetime > 0 /\ Lifetime + Hold <= Wait

TokenOf(client, left) ==
    [client |-> client, left |-> left, use |-> "access", genuine |-> TRUE,
     scopes |-> {Read, Write}, groups |-> {}]
Environment(list, key) == [allowlist |-> list, legacyKey |-> key]
NoJob == [pc |-> "idle", old |-> 0, new |-> 0, lam |-> FALSE, skip |-> FALSE,
          wait |-> 0, read |-> Environment({}, NoKey)]

Init ==
    /\ minted = 0
    /\ clients = {}
    /\ secret = 0
    /\ \E list \in {{}, {Scientist, Automation}} : env = Environment(list, "k1")
    /\ deployed = "k1"
    /\ job = NoJob
    /\ launched = FALSE
    /\ held = [client |-> 0, age |-> 0]
    /\ token = TokenOf(0, 0)
    /\ raced = FALSE
    /\ heeded = TRUE

Idle == job.pc \in {"idle", "done", "stopped"}
At(pc) == job.pc = pc
Go(pc) == job' = [job EXCEPT !.pc = pc]
Allows(list, client) == list = {} \/ client \in list

\* Clients the consumer may still show a token of, or get one from.
InFlight == ({token.client} \ IF token.left = 0 THEN {token.client} ELSE {})
                \union ({held.client} \ {0})

\* create_user_pool_client, in both scripts.
Mint(next) ==
    /\ minted < MaxClients
    /\ minted' = minted + 1
    /\ clients' = clients \union {minted'}
    /\ job' = [job EXCEPT !.pc = next, !.new = minted']
    /\ UNCHANGED <<secret, env, deployed, launched, consumer, history>>

-----------------------------------------------------------------------------
(* create_m2m_secret.py, meant to be run once. *)
StartCreate ==
    /\ Idle
    /\ job' = [NoJob EXCEPT !.pc = "create"]
    /\ heeded' = (heeded /\ ~launched)
    /\ UNCHANGED <<machine, env, deployed, launched, consumer, raced>>

\* put_secret_value on the container the stack provisions, or create_secret
\* where there is none yet; a call that raises may have been made.
StoreFirst ==
    /\ At("storeFirst")
    /\ \/ secret' = job.new /\ Go("describe")
       \/ secret = 0 /\ secret' = job.new /\ Go("done")
       \/ secret' \in {secret, job.new} /\ Go("rollback")
    /\ UNCHANGED <<minted, clients, env, deployed, launched, consumer, history>>

\* describe_secret for the ARN that is printed.
Describe ==
    /\ At("describe")
    /\ Go("done") \/ Go("rollback")
    /\ UNCHANGED <<machine, env, deployed, launched, consumer, history>>

\* The new client is deleted; when that fails too the script says so.
Rollback ==
    /\ At("rollback")
    /\ clients' \in {clients, clients \ {job.new}}
    /\ Go("stopped")
    /\ UNCHANGED <<minted, secret, env, deployed, launched, consumer, history>>

-----------------------------------------------------------------------------
(* rotate_m2m_secret.py *)

\* The operator is to name the client in use ("capture the current
\* --old-client-id"), to have the list changed if there is one, and not to
\* start while tokens of a client before it are around.
StartRotation(old, lam, skip) ==
    /\ Idle
    /\ job' = [NoJob EXCEPT !.pc = "mint", !.old = old, !.lam = lam, !.skip = skip]
    /\ heeded' = (heeded /\ old = secret /\ (lam \/ env.allowlist = {}) /\ InFlight \subseteq {old})
    /\ UNCHANGED <<machine, env, deployed, launched, consumer, raced>>

AfterMint == IF job.lam THEN "extend" ELSE "put"

\* update_authorizer_allowlist: the configuration is read, changed in one
\* variable and written back whole.
ReadConfig(pc, next) ==
    /\ At(pc)
    /\ job' = [job EXCEPT !.pc = next, !.read = env]
    /\ UNCHANGED <<machine, env, deployed, launched, consumer, history>>

\* Mutant: only the variable that changes is sent, and replaces them all.
SentAlone(list) == Environment(list, NoKey)
Sent(list) == [job.read EXCEPT !.allowlist = list]

WriteConfig(pc, list, next) ==
    /\ At(pc)
    /\ env' = Sent(list)
    /\ Go(next)
    /\ raced' = (raced \/ env # job.read)
    /\ UNCHANGED <<machine, deployed, launched, consumer, heeded>>

\* Mutants: the list is narrowed at once; the new client is left out.
OldOnly == {job.old}
NewOnly == {job.new}
Extended == {job.old, job.new}
Extend == ReadConfig("extend", "extending") \/ WriteConfig("extending", Extended, "put")

PutSecret ==
    /\ At("put")
    /\ secret' = job.new
    /\ job' = [job EXCEPT !.pc = IF job.skip THEN "done" ELSE "sleep", !.wait = Wait]
    /\ UNCHANGED <<minted, clients, env, deployed, launched, consumer, history>>

\* Mutant: the sleep is skipped.
NoSleep == At("sleep")
Slept == At("sleep") /\ job.wait = 0

\* delete_user_pool_client, which raises when the client is gone.
DeleteOld ==
    /\ Slept
    /\ clients' = clients \ {job.old}
    /\ Go(IF job.old \notin clients THEN "stopped" ELSE IF job.lam THEN "narrow" ELSE "done")
    /\ UNCHANGED <<minted, secret, env, deployed, launched, consumer, history>>

Narrow == ReadConfig("narrow", "narrowing") \/ WriteConfig("narrowing", NewOnly, "done")

\* An exception, or the operator, ends the script.
Stop ==
    /\ ~Idle
    /\ Go("stopped")
    /\ UNCHANGED <<machine, env, deployed, launched, consumer, history>>

-----------------------------------------------------------------------------
(* Around the scripts *)

\* serverless deploy sets the whole environment: the two clients of the
\* template, with the secret's client if it was folded in, and the legacy key.
\* It is to list the clients in use, and not to take a new client off the list
\* between its extension and the cut-over.
Deploy(folded, key) ==
    LET list == {Scientist, Automation} \union ((IF folded THEN {secret} ELSE {}) \ {0})
    IN  /\ env' = Environment(list, key)
        /\ deployed' = key
        /\ heeded' = (heeded /\ ~At("put") /\ (At("mint") => job.lam)
                               /\ (launched => secret \in list) /\ InFlight \subseteq list)
        /\ UNCHANGED <<machine, job, launched, consumer, raced>>

\* The ARN is given to the consumer after a run that reported success and a
\* look at the list ("allowlist must include"): whether the client the secret
\* names still exists is not asked.
Launch ==
    /\ ~launched /\ Idle /\ secret # 0
    /\ launched' = TRUE
    /\ heeded' = (heeded /\ At("done") /\ Allows(env.allowlist, secret))
    /\ UNCHANGED <<machine, env, deployed, job, consumer, raced>>

\* What --skip-delete leaves to the operator.
DeleteByHand(client) ==
    /\ Idle /\ client \in clients
    /\ clients' = clients \ {client}
    /\ heeded' = (heeded /\ client # secret /\ held.client # client)
    /\ UNCHANGED <<minted, secret, env, deployed, job, launched, consumer, raced>>

FetchSecret ==
    /\ launched
    /\ held' = [client |-> secret, age |-> 0]
    /\ UNCHANGED <<machine, env, deployed, job, launched, token, history>>

\* client_credentials_flow, with the secret just fetched.
RequestToken ==
    /\ held.client # 0
    /\ token' = IF held.client \in clients THEN TokenOf(held.client, Lifetime) ELSE token
    /\ held' = [client |-> 0, age |-> 0]
    /\ UNCHANGED <<machine, env, deployed, job, launched, history>>

\* A fetched secret is used within Hold ticks.
Tick ==
    /\ held.client # 0 => held.age < Hold
    /\ held' = [held EXCEPT !.age = IF held.client = 0 THEN 0 ELSE @ + 1]
    /\ token' = IF token.left <= 1 THEN TokenOf(0, 0) ELSE [token EXCEPT !.left = @ - 1]
    /\ job' = [job EXCEPT !.wait = IF @ > 0 THEN @ - 1 ELSE 0]
    /\ UNCHANGED <<machine, env, deployed, launched, history>>

Scripts ==
    \/ At("create") /\ Mint("storeFirst")
    \/ StoreFirst
    \/ Describe
    \/ Rollback
    \/ At("mint") /\ Mint(AfterMint)
    \/ Extend
    \/ PutSecret
    \/ DeleteOld
    \/ Narrow

Next ==
    \/ Scripts
    \/ Stop
    \/ StartCreate
    \/ \E old \in 1..minted, lam, skip \in BOOLEAN : StartRotation(old, lam, skip)
    \/ \E folded \in BOOLEAN, key \in {NoKey, "k1", "k2"} : Deploy(folded, key)
    \/ Launch
    \/ \E client \in clients : DeleteByHand(client)
    \/ FetchSecret
    \/ RequestToken
    \/ Tick

Spec == Init /\ [][Next]_vars
-----------------------------------------------------------------------------
\* While the operators heed the documents, a token the consumer holds is good
\* for queries and mutations until it expires: no order of the steps, no stop
\* in between and no second rotation refuses an in-flight caller ("so
\* in-flight callers stay valid").
TokensStayServed ==
    heeded /\ token.left > 0 =>
        \A operation \in {"query", "mutation"} : Served(env, Bearing(token), operation)

\* And a token the consumer gets now is one it will be able to use: once it
\* was given the secret after a run that reported success, the secret, and the
\* copy of it in the consumer's hands, names a client that exists and is
\* allowed.  Runs of create_m2m_secret.py that failed before that, their
\* rollbacks of a stored client included, do not matter; a run after it is
\* what the script is not meant for, and heeded is then FALSE.
SecretStaysUsable ==
    heeded /\ launched => \A client \in {secret, held.client} \ {0} :
        client \in clients /\ Allows(env.allowlist, client)

\* A rotation run to its end retires the old client: nobody can get a token
\* with it and none is left.
OldIsRetired ==
    heeded /\ At("done") /\ job.old # 0 /\ ~job.skip =>
        job.old \notin clients /\ job.old \notin InFlight

(* Requests to try in an environment: people log in with a password and are *)
(* in groups, machines ask for scopes.                                     *)
Settings == (SUBSET ({Scientist, Automation} \union 1..MaxClients)) \X {NoKey, "k1", "k2"}
People == [client : {Scientist}, left : {0, 1}, use : {"access", "id"}, genuine : BOOLEAN,
           scopes : {{Admin}}, groups : {{}, {"toshi-readers"}, {"toshi-writers"}}]
Machines == [client : {Automation, 1}, left : {0, 1}, use : {"access"}, genuine : BOOLEAN,
             scopes : {{}, {Read}, {Read, Write}}, groups : {{}}]
Headers(schemes, keys, tokens) ==
    [apiKey : {NoKey, "k1", "k2"}, scheme : schemes, key : keys, token : tokens,
     claimed : {{}, {Read, Write}}]
Presented ==
    Headers({"none", "other"}, {NoKey}, {TokenOf(0, 0)})
        \union Headers({"apikey"}, {NoKey, "k1", "k2"}, {TokenOf(0, 0)})
        \union Headers({"bearer"}, {NoKey}, People \union Machines)

\* The scopes the credentials in a request stand for.
Permitted(e, request) ==
    LET shown == {request.apiKey, request.key}
        t == request.token
        accepted == t.genuine /\ t.left > 0 /\ t.use = "access" /\ Allows(e.allowlist, t.client)
    IN  IF e.legacyKey # NoKey /\ e.legacyKey \in shown THEN {Read, Write}
        ELSE IF ~accepted THEN {}
        ELSE IF t \in Machines THEN t.scopes
        ELSE IF "toshi-writers" \in t.groups THEN {Read, Write}
        ELSE IF "toshi-readers" \in t.groups THEN {Read} ELSE {}

Needs == [query |-> {Read}, mutation |-> {Read, Write}]
ServesAsPermitted(e) ==
    \A request \in Presented, operation \in DOMAIN Needs :
        Served(e, request, operation) <=>
          request.apiKey \in {NoKey, e.legacyKey} /\ Needs[operation] \subseteq Permitted(e, request)
Sound == {Environment(x[1], x[2]) : x \in {y \in Settings : ServesAsPermitted(Environment(y[1], y[2]))}}

\* In every environment that deployments and rotations produce, a request is
\* served exactly what its credentials permit: the legacy key everything, a
\* machine's token its scopes, a person's token what the groups of the account
\* say; an X-Auth-Scopes header adds nothing, and a wrong x-api-key header is
\* refused whatever else the request carries.
ServedAsPermitted == env \in Sound

\* A rotation leaves the other settings of the authorizer as the last
\* deployment made them, whoever deploys, stops and starts again and when,
\* until a script writes back a configuration it read before a deployment
\* changed it: update_function_configuration has no condition.
SettingsSurvive == ~raced => env.legacyKey = deployed
=============================================================================
