------------------------ MODULE SecretRotationProofs ------------------------
(***************************************************************************)
(* Proofs about SecretRotation, for any number of clients and any times    *)
(* that RotationAssumption allows: while the operators heed the documents, *)
(* a consumer is served throughout create_m2m_secret.py, rotations in any  *)
(* number, stops and deployments; a completed rotation leaves nobody with  *)
(* the old client; and in every environment the authorizer is given, the   *)
(* scopes of a request's credentials decide on it.                         *)
(***************************************************************************)
EXTENDS SecretRotation, TLAPS

Keys == {NoKey, "k1", "k2"}
Lists == SUBSET ({Scientist, Automation} \union 1..MaxClients)
Environments == [allowlist : Lists, legacyKey : Keys]

CreateSteps == {"create", "storeFirst", "describe", "rollback"}
BeforeCutover == {"extend", "extending", "put"}
AfterCutover == {"sleep", "narrow", "narrowing"}
Steps == {"idle", "done", "stopped", "mint"} \union CreateSteps
            \union BeforeCutover \union AfterCutover
Jobs == [pc : Steps,
         old : 0..MaxClients, new : 0..MaxClients,
         lam : BOOLEAN, skip : BOOLEAN, wait : Nat, read : Environments]

Tokens == [client : 0..MaxClients, left : 0..Lifetime, use : {"access"}, genuine : {TRUE},
           scopes : {{Read, Write}}, groups : {{}}]

\* Types, and which of the clients minted the variables may name.
TypeInv ==
    /\ minted \in 0..MaxClients
    /\ clients \subseteq 1..minted
    /\ secret \in 0..minted
    /\ env \in Environments
    /\ deployed \in Keys
    /\ job \in Jobs
    /\ job.old <= minted /\ job.new <= minted
    /\ launched \in BOOLEAN
    /\ held \in [client : 0..MaxClients, age : 0..Hold] /\ held.client <= minted
    /\ token \in Tokens /\ token.client <= minted
    /\ raced \in BOOLEAN /\ heeded \in BOOLEAN

\* A rotation goes from one client to a newer one.
NewerInv ==
    /\ job.pc \in {"mint"} \union BeforeCutover \union AfterCutover => job.old > 0
    /\ job.pc \in BeforeCutover \union AfterCutover => job.old < job.new
    /\ job.pc \in CreateSteps => job.old = 0

\* A script that writes back what is still there changes the list alone.
ConfigInv == ~raced => env.legacyKey = deployed

\* What the consumer has, and what it may fetch, is good.
ConsumerInv ==
    heeded =>
        /\ \A c \in InFlight : Allows(env.allowlist, c)
        /\ held.client # 0 => held.client \in clients
        /\ launched => secret \in clients /\ Allows(env.allowlist, secret)
        /\ ~launched => InFlight = {}

\* How far a script has got decides which clients are around.
PhaseInv ==
    heeded =>
        /\ job.pc \in CreateSteps => ~launched
        /\ job.pc \in {"mint"} \union BeforeCutover =>
              secret = job.old /\ InFlight \subseteq {job.old} /\ (job.lam \/ env.allowlist = {})
        /\ job.pc \in {"storeFirst"} \union BeforeCutover => job.new \in clients
        /\ job.pc \in {"describe", "done"} \union AfterCutover => secret \in clients
        /\ job.pc \in {"extend", "extending", "narrow", "narrowing"} => job.lam
        /\ job.pc = "put" => Allows(env.allowlist, job.new)
        /\ job.pc \in AfterCutover => secret = job.new
        /\ job.pc = "sleep" => InFlight \subseteq {job.old, job.new}
        /\ job.pc \in {"narrow", "narrowing"} => InFlight \subseteq {job.new} /\ job.old \notin clients
        /\ job.pc = "done" /\ job.old # 0 /\ ~job.skip =>
              job.old \notin clients /\ job.old \notin InFlight /\ secret # job.old

\* The sleep outlasts what the consumer holds of the old client.
SleepInv ==
    heeded /\ job.pc = "sleep" =>
        /\ token.client = job.old => token.left <= job.wait
        /\ held.client = job.old => Lifetime + Hold <= job.wait + held.age

RotationInv == TypeInv /\ NewerInv /\ ConfigInv /\ ConsumerInv /\ PhaseInv /\ SleepInv

LEMMA Numbers ==
    /\ MaxClients \in Nat /\ Lifetime \in Nat /\ Wait \in Nat /\ Hold \in Nat
    /\ MaxClients < 100 /\ Lifetime > 0 /\ Lifetime + Hold <= Wait
BY RotationAssumption DEF Scientist

-----------------------------------------------------------------------------
(* What the actions do, step by step of a script. *)

LEMMA InitHolds == Init => RotationInv
<1> SUFFICES ASSUME Init PROVE RotationInv
  OBVIOUS
<1> USE Numbers
<1>1. /\ env \in Environments /\ env.legacyKey = "k1" /\ Environment({}, NoKey) \in Environments
  BY DEF Init, Environment, Environments, Lists, Keys, NoKey
<1>2. NoJob \in Jobs /\ NoJob.pc = "idle" /\ NoJob.old = 0 /\ NoJob.new = 0
  BY <1>1 DEF NoJob, Jobs, Steps
<1>3. InFlight = {} /\ token.client = 0 /\ token.left = 0 /\ held.client = 0
  BY DEF InFlight, Init, TokenOf
<1> QED
  <2>1. TypeInv
    <3>1. token \in Tokens /\ held \in [client : 0..MaxClients, age : 0..Hold]
      BY DEF Init, TokenOf, Tokens
    <3>2. /\ minted = 0 /\ secret = 0 /\ clients = {} /\ deployed \in Keys /\ launched \in BOOLEAN
          /\ raced \in BOOLEAN /\ heeded \in BOOLEAN /\ job = NoJob
      BY DEF Init, Keys
    <3> QED BY <1>1, <1>2, <1>3, <3>1, <3>2 DEF TypeInv
  <2>2. job.pc = "idle" /\ job.old = 0 /\ deployed = "k1" /\ ~launched
    BY <1>2 DEF Init
  <2> QED
    BY <1>1, <1>3, <2>1, <2>2 DEF RotationInv, NewerInv, ConfigInv, ConsumerInv, PhaseInv,
       SleepInv, CreateSteps, BeforeCutover, AfterCutover

\* A job goes on to another step with what it has; the others are where they
\* were.
LEMMA GoJob ==
    ASSUME TypeInv, NEW pc, Go(pc)
    PROVE  /\ job' = [job EXCEPT !.pc = pc] /\ job'.pc = pc
           /\ job'.old = job.old /\ job'.new = job.new /\ job'.lam = job.lam
           /\ job'.skip = job.skip /\ job'.wait = job.wait /\ job'.read = job.read
BY DEF TypeInv, Jobs, Go

\* The environments that are written are in Environments.
LEMMA Written ==
    ASSUME TypeInv, NEW list \in Lists
    PROVE  /\ Sent(list) \in Environments /\ Sent(list).allowlist = list
           /\ Sent(list).legacyKey = job.read.legacyKey
BY DEF TypeInv, Jobs, Sent, Environments

LEMMA ScriptTypes ==
    ASSUME TypeInv, NewerInv, Scripts
    PROVE  TypeInv' /\ NewerInv'
<1> USE Numbers
<1> DEFINE CInv == TypeInv' /\ NewerInv'
<1>1. ASSUME NEW next \in {"storeFirst", "extend", "put"}, Mint(next), job.pc \in {"create", "mint"},
             job.pc = "create" <=> next = "storeFirst"
      PROVE  CInv
  <2>1. next \in Steps /\ minted + 1 \in 0..MaxClients /\ minted' = minted + 1
    BY <1>1 DEF Mint, TypeInv, Steps, CreateSteps, BeforeCutover
  <2>2. job' \in Jobs /\ job'.new = minted + 1 /\ job'.old = job.old /\ job'.pc = next
    <3>1. job \in Jobs /\ job' = [job EXCEPT !.pc = next, !.new = minted + 1]
      BY <1>1, <2>1 DEF Mint, TypeInv
    <3> QED BY <2>1, <3>1 DEF Jobs
  <2>3. UNCHANGED <<secret, env, deployed, launched, held, token, raced, heeded>>
        /\ clients' = clients \union {minted + 1}
    BY <1>1 DEF Mint, consumer, history
  <2>4. TypeInv'
    <3>1. /\ minted \in Nat /\ secret \in Nat /\ job.old \in Nat
          /\ held.client \in Nat /\ token.client \in Nat
      BY DEF TypeInv, Jobs, Tokens
    <3>2. clients' \subseteq 1..minted' /\ secret' \in 0..minted'
      BY <2>1, <2>3, <3>1 DEF TypeInv
    <3>3. job'.old <= minted' /\ job'.new <= minted' /\ held'.client <= minted' /\ token'.client <= minted'
      BY <2>1, <2>2, <2>3, <3>1 DEF TypeInv
    <3> QED BY <2>1, <2>2, <2>3, <3>2, <3>3 DEF TypeInv
  <2>5. minted \in Nat /\ job.old \in 0..minted /\ (next = "storeFirst" => job.old = 0) /\ (next # "storeFirst" => job.old > 0)
    BY <1>1 DEF NewerInv, TypeInv, Jobs, CreateSteps
  <2>6. NewerInv'
    BY <1>1, <2>1, <2>2, <2>5 DEF NewerInv, CreateSteps, BeforeCutover, AfterCutover
  <2> QED BY <2>4, <2>6
<1>2. CASE StoreFirst
  BY <1>2 DEF StoreFirst, TypeInv, NewerInv, Jobs, Steps, consumer, history, At, Go, CreateSteps, BeforeCutover, AfterCutover
<1>3. CASE Describe
  BY <1>3 DEF Describe, TypeInv, NewerInv, Jobs, Steps, consumer, history, machine, At, Go, CreateSteps, BeforeCutover, AfterCutover
<1>4. CASE Rollback
  BY <1>4 DEF Rollback, TypeInv, NewerInv, Jobs, Steps, consumer, history, At, Go, CreateSteps, BeforeCutover, AfterCutover
<1>5. ASSUME NEW pc \in {"extend", "narrow"}, NEW next \in {"extending", "narrowing"}, ReadConfig(pc, next)
      PROVE  CInv
  BY <1>5 DEF ReadConfig, TypeInv, NewerInv, Jobs, Steps, consumer, history, machine, At, CreateSteps, BeforeCutover, AfterCutover
<1>6. ASSUME NEW pc \in {"extending", "narrowing"}, NEW next \in {"put", "done"}, NEW list,
             list \in {Extended, NewOnly}, WriteConfig(pc, list, next)
      PROVE  CInv
  <2>1. list \in Lists
    BY <1>6 DEF Extended, NewOnly, Lists, WriteConfig, At, TypeInv, NewerInv, Jobs, BeforeCutover, AfterCutover
  <2>2. env' \in Environments /\ Go(next)
    BY <1>6, <2>1, Written DEF WriteConfig
  <2> QED
    BY <1>6, <2>2 DEF WriteConfig, TypeInv, NewerInv, Jobs, Steps, consumer, history, machine, At, Go,
       CreateSteps, BeforeCutover, AfterCutover
<1>7. CASE PutSecret
  <2>1. /\ job' \in Jobs /\ job'.old = job.old /\ job'.new = job.new
        /\ job'.pc \in {"done", "sleep"} /\ job.pc = "put"
    BY <1>7 DEF PutSecret, At, TypeInv, Jobs, Steps, AfterCutover
  <2>2. UNCHANGED <<minted, clients, env, deployed, launched, held, token, raced, heeded>> /\ secret' = job.new
    BY <1>7 DEF PutSecret, consumer, history
  <2>3. TypeInv'
    BY <2>1, <2>2 DEF TypeInv, Jobs
  <2> QED BY <2>1, <2>3 DEF NewerInv, CreateSteps, BeforeCutover, AfterCutover
<1>8. CASE DeleteOld
  BY <1>8 DEF DeleteOld, Slept, TypeInv, NewerInv, Jobs, Steps, consumer, history, At, Go, CreateSteps, BeforeCutover, AfterCutover
<1> QED
  BY <1>1, <1>2, <1>3, <1>4, <1>5, <1>6, <1>7, <1>8
     DEF Scripts, Extend, Narrow, AfterMint, At

LEMMA OtherTypes ==
    ASSUME TypeInv, NewerInv,
           \/ Stop \/ StartCreate \/ Launch \/ FetchSecret \/ RequestToken \/ Tick
           \/ \E old \in 1..minted, lam, skip \in BOOLEAN : StartRotation(old, lam, skip)
           \/ \E folded \in BOOLEAN, key \in Keys : Deploy(folded, key)
           \/ \E client \in clients : DeleteByHand(client)
    PROVE  TypeInv' /\ NewerInv'
<1> USE Numbers
<1>0. NoJob \in Jobs /\ \A c \in 0..MaxClients, n \in 0..Lifetime :
                             TokenOf(c, n) \in Tokens /\ TokenOf(c, n).client = c
  <2>1. Environment({}, NoKey) \in Environments
    BY DEF Environment, Environments, Lists, Keys
  <2> QED BY <2>1 DEF NoJob, Jobs, Steps, TokenOf, Tokens
<1>1. CASE Stop
  BY <1>1 DEF Stop, TypeInv, NewerInv, Jobs, Steps, consumer, history, machine, Go, CreateSteps, BeforeCutover, AfterCutover
<1>2. CASE StartCreate
  <2>1. job' \in Jobs /\ job'.pc = "create" /\ job'.old = 0 /\ job'.new = 0
    BY <1>0, <1>2 DEF StartCreate, NoJob, Jobs, Steps, CreateSteps
  <2>2. UNCHANGED <<minted, clients, secret, env, deployed, launched, held, token, raced>> /\ heeded' \in BOOLEAN
    BY <1>2 DEF StartCreate, machine, consumer, history
  <2> QED BY <2>1, <2>2 DEF TypeInv, NewerInv, CreateSteps, BeforeCutover, AfterCutover
<1>3. CASE Launch
  BY <1>3 DEF Launch, TypeInv, NewerInv, consumer, history, machine
<1>4. CASE FetchSecret
  BY <1>4 DEF FetchSecret, TypeInv, NewerInv, machine, history
<1>5. CASE RequestToken
  BY <1>0, <1>5 DEF RequestToken, TypeInv, NewerInv, machine, history
<1>6. CASE Tick
  <2>1. job' \in Jobs /\ job'.pc = job.pc /\ job'.old = job.old /\ job'.new = job.new
    BY <1>6 DEF Tick, TypeInv, Jobs
  <2>2. held' \in [client : 0..MaxClients, age : 0..Hold] /\ held'.client <= minted
    BY <1>6 DEF Tick, TypeInv
  <2>3. token' \in Tokens /\ token'.client <= minted
    <3>1. CASE token.left <= 1
      BY <1>6, <1>0, <3>1 DEF Tick, TypeInv
    <3>2. CASE ~(token.left <= 1)
      <4>1. /\ token \in Tokens /\ token' = [token EXCEPT !.left = token.left - 1]
            /\ token.client <= minted /\ minted' = minted
        BY <1>6, <3>2 DEF Tick, TypeInv, machine
      <4>2. token.left - 1 \in 0..Lifetime
        BY <3>2, <4>1 DEF Tokens
      <4> QED BY <4>1, <4>2 DEF Tokens
    <3> QED BY <3>1, <3>2
  <2> QED BY <1>6, <2>1, <2>2, <2>3 DEF Tick, TypeInv, NewerInv, machine, history
<1>7. ASSUME NEW old \in 1..minted, NEW lam \in BOOLEAN, NEW skip \in BOOLEAN, StartRotation(old, lam, skip)
      PROVE  TypeInv' /\ NewerInv'
  <2>1. old \in 0..MaxClients /\ old <= minted /\ old > 0
    BY <1>7 DEF TypeInv
  <2>2. job' \in Jobs /\ job'.pc = "mint" /\ job'.old = old /\ job'.new = 0
    BY <1>0, <1>7, <2>1 DEF StartRotation, NoJob, Jobs, Steps
  <2>3. UNCHANGED <<minted, clients, secret, env, deployed, launched, held, token, raced>> /\ heeded' \in BOOLEAN
    BY <1>7 DEF StartRotation, machine, consumer, history
  <2> QED BY <2>1, <2>2, <2>3 DEF TypeInv, NewerInv, CreateSteps, BeforeCutover, AfterCutover
<1>8. ASSUME NEW folded \in BOOLEAN, NEW key \in Keys, Deploy(folded, key)
      PROVE  TypeInv' /\ NewerInv'
  <2>1. env' \in Environments
    BY <1>8 DEF Deploy, Environment, Environments, Lists, TypeInv
  <2> QED BY <1>8, <2>1 DEF Deploy, TypeInv, NewerInv, consumer, history, machine
<1>9. ASSUME NEW client \in clients, DeleteByHand(client) PROVE TypeInv' /\ NewerInv'
  BY <1>9 DEF DeleteByHand, TypeInv, NewerInv, consumer, history, machine
<1> QED BY <1>1, <1>2, <1>3, <1>4, <1>5, <1>6, <1>7, <1>8, <1>9

-----------------------------------------------------------------------------
(* What the operators' care keeps. *)

SafeInv == ConfigInv /\ ConsumerInv /\ PhaseInv /\ SleepInv

LEMMA WhoIsInFlight ==
    \A c : c \in InFlight <=> (c = token.client /\ token.left # 0) \/ (c = held.client /\ c # 0)
BY DEF InFlight

LEMMA SameInFlight == UNCHANGED consumer => InFlight' = InFlight
BY DEF InFlight, consumer

LEMMA ScriptsSafe ==
    ASSUME TypeInv, NewerInv, SafeInv, Scripts
    PROVE  SafeInv'
<1> USE Numbers DEF SafeInv, ConfigInv, ConsumerInv, PhaseInv, SleepInv,
                    CreateSteps, BeforeCutover, AfterCutover
<1>0. /\ minted \in Nat /\ clients \subseteq 1..minted /\ job \in Jobs /\ heeded \in BOOLEAN
      /\ job.old \in Nat /\ job.old <= minted /\ job.new \in Nat /\ job.new <= minted /\ job.wait \in Nat
      /\ token.left \in Nat /\ held.client \in Nat /\ held.age \in Nat /\ held.age <= Hold
  BY DEF TypeInv, Jobs, Tokens
<1>1. ASSUME NEW next \in {"storeFirst", "extend", "put"}, Mint(next), job.pc \in {"create", "mint"},
             job.pc = "create" <=> next = "storeFirst", next = "extend" <=> job.pc = "mint" /\ job.lam
      PROVE  SafeInv'
  <2>1. /\ job'.pc = next /\ job'.new = minted + 1 /\ job'.old = job.old /\ job'.lam = job.lam
        /\ clients' = clients \union {minted + 1} /\ InFlight' = InFlight
        /\ UNCHANGED <<secret, env, deployed, launched, held, token, raced, heeded>>
    BY <1>0, <1>1, SameInFlight DEF Mint, Jobs, consumer, history
  <2> QED BY <1>0, <1>1, <2>1 DEF Allows
<1>2. CASE StoreFirst
  <2>1. /\ job.pc = "storeFirst" /\ job'.pc \in {"done", "describe", "rollback"} /\ job'.old = job.old
        /\ job'.pc \in {"done", "describe"} => secret' = job.new
        /\ InFlight' = InFlight /\ job.old = 0
        /\ UNCHANGED <<clients, env, deployed, launched, held, token, raced, heeded>>
    BY <1>0, <1>2, SameInFlight DEF StoreFirst, At, Go, Jobs, consumer, history, NewerInv
  <2> QED BY <1>0, <2>1
<1>3. CASE Describe
  <2>1. /\ job.pc = "describe" /\ job'.pc \in {"done", "rollback"} /\ job'.old = job.old
        /\ InFlight' = InFlight /\ job.old = 0
        /\ UNCHANGED <<clients, secret, env, deployed, launched, held, token, raced, heeded>>
    BY <1>0, <1>3, SameInFlight DEF Describe, At, Go, Jobs, consumer, history, machine, NewerInv
  <2> QED BY <1>0, <2>1
<1>4. CASE Rollback
  <2>1. /\ job.pc = "rollback" /\ job'.pc = "stopped"
        /\ InFlight' = InFlight
        /\ UNCHANGED <<secret, env, deployed, launched, held, token, raced, heeded>>
    BY <1>0, <1>4, SameInFlight DEF Rollback, At, Go, Jobs, consumer, history
  <2> QED BY <1>0, <2>1, WhoIsInFlight
<1>5. ASSUME ReadConfig("extend", "extending") \/ ReadConfig("narrow", "narrowing")
      PROVE  SafeInv'
  <2>1. /\ \/ job.pc = "extend" /\ job'.pc = "extending"
           \/ job.pc = "narrow" /\ job'.pc = "narrowing"
        /\ job'.read = env /\ job'.old = job.old /\ job'.new = job.new /\ job'.lam = job.lam
        /\ InFlight' = InFlight
        /\ UNCHANGED <<clients, secret, env, deployed, launched, held, token, raced, heeded>>
    BY <1>0, <1>5, SameInFlight DEF ReadConfig, At, Jobs, consumer, history, machine
  <2> QED BY <1>0, <2>1
<1>6. ASSUME WriteConfig("extending", Extended, "put") PROVE SafeInv'
  <2>1. /\ job.pc = "extending" /\ job'.pc = "put"
        /\ job'.old = job.old /\ job'.new = job.new /\ job'.lam = job.lam
        /\ env' = [job.read EXCEPT !.allowlist = {job.old, job.new}]
        /\ InFlight' = InFlight
        /\ raced' = (raced \/ env # job.read)
        /\ UNCHANGED <<clients, secret, deployed, launched, held, token, heeded>>
    BY <1>0, <1>6, SameInFlight DEF WriteConfig, At, Go, Jobs, consumer, history, machine, Sent, Extended
  <2>2. env'.allowlist = {job.old, job.new} /\ env'.legacyKey = job.read.legacyKey
    BY <1>0, <2>1 DEF Jobs, Environments
  <2> QED BY <1>0, <2>1, <2>2 DEF Allows
<1>7. ASSUME WriteConfig("narrowing", NewOnly, "done") PROVE SafeInv'
  <2>1. /\ job.pc = "narrowing" /\ job'.pc = "done"
        /\ job'.old = job.old /\ job'.new = job.new /\ job'.lam = job.lam /\ job.old < job.new
        /\ env' = [job.read EXCEPT !.allowlist = {job.new}]
        /\ InFlight' = InFlight
        /\ raced' = (raced \/ env # job.read)
        /\ UNCHANGED <<clients, secret, deployed, launched, held, token, heeded>>
    BY <1>0, <1>7, SameInFlight DEF WriteConfig, At, Go, Jobs, consumer, history, machine, Sent, NewOnly, NewerInv
  <2>2. env'.allowlist = {job.new} /\ env'.legacyKey = job.read.legacyKey
    BY <1>0, <2>1 DEF Jobs, Environments
  <2> QED BY <1>0, <2>1, <2>2 DEF Allows
<1>8. CASE PutSecret
  <2>1. /\ job.pc = "put" /\ job'.pc \in {"done", "sleep"} /\ (job'.pc = "done" => job'.skip)
        /\ job'.old = job.old /\ job'.new = job.new /\ job'.lam = job.lam /\ job'.wait = Wait
        /\ secret' = job.new /\ InFlight' = InFlight
        /\ UNCHANGED <<clients, env, deployed, launched, held, token, raced, heeded>>
    BY <1>0, <1>8, SameInFlight DEF PutSecret, At, Jobs, consumer, history
  <2>2. token.left <= Wait /\ Lifetime + Hold <= Wait + held.age
    BY <1>0 DEF TypeInv, Tokens
  <2> QED BY <1>0, <2>1, <2>2
<1>9. CASE DeleteOld
  <2>1. /\ job.pc = "sleep" /\ job.wait = 0 /\ job'.pc \in {"stopped", "narrow", "done"}
        /\ job.old < job.new /\ (job'.pc = "narrow" => job.lam)
        /\ job'.old = job.old /\ job'.new = job.new /\ job'.lam = job.lam
        /\ clients' = clients \ {job.old} /\ InFlight' = InFlight
        /\ UNCHANGED <<secret, env, deployed, launched, held, token, raced, heeded>>
    BY <1>0, <1>9, SameInFlight DEF DeleteOld, Slept, At, Go, Jobs, consumer, history, NewerInv
  <2>2. heeded => job.old \notin InFlight
    <3>1. ASSUME heeded, held.client = job.old PROVE FALSE
      BY <1>0, <2>1, <3>1
    <3>2. ASSUME heeded, token.client = job.old, token.left # 0 PROVE FALSE
      BY <1>0, <2>1, <3>2
    <3> QED BY <3>1, <3>2, WhoIsInFlight
  <2>3. heeded => held.client # job.old
    BY <1>0, <2>1
  <2> QED BY <1>0, <2>1, <2>2, <2>3
<1> QED
  BY <1>1, <1>2, <1>3, <1>4, <1>5, <1>6, <1>7, <1>8, <1>9
     DEF Scripts, Extend, Narrow, AfterMint, At

LEMMA OthersSafe ==
    ASSUME TypeInv, NewerInv, SafeInv,
           \/ Stop \/ StartCreate \/ Launch \/ FetchSecret \/ RequestToken \/ Tick
           \/ \E old \in 1..minted, lam, skip \in BOOLEAN : StartRotation(old, lam, skip)
           \/ \E folded \in BOOLEAN, key \in Keys : Deploy(folded, key)
           \/ \E client \in clients : DeleteByHand(client)
    PROVE  SafeInv'
<1> USE Numbers DEF SafeInv, ConfigInv, ConsumerInv, PhaseInv, SleepInv,
                    CreateSteps, BeforeCutover, AfterCutover
<1>0. /\ minted \in Nat /\ clients \subseteq 1..minted /\ secret \in Nat /\ job \in Jobs
      /\ heeded \in BOOLEAN /\ launched \in BOOLEAN
      /\ job.old \in Nat /\ job.wait \in Nat /\ job.lam \in BOOLEAN
      /\ token.left \in Nat /\ token.left <= Lifetime
      /\ held.client \in Nat /\ held.age \in Nat /\ held.age <= Hold
  BY DEF TypeInv, Jobs, Tokens
<1>1. CASE Stop
  <2>1. /\ job'.pc = "stopped" /\ InFlight' = InFlight
        /\ UNCHANGED <<clients, secret, env, deployed, launched, held, token, raced, heeded>>
    BY <1>0, <1>1, SameInFlight DEF Stop, Go, Jobs, machine, consumer, history
  <2> QED BY <1>0, <2>1
<1>2. CASE StartCreate
  <2>1. /\ job'.pc = "create" /\ InFlight' = InFlight
        /\ heeded' => heeded /\ ~launched
        /\ UNCHANGED <<clients, secret, env, deployed, launched, held, token, raced>>
    BY <1>0, <1>2, SameInFlight DEF StartCreate, NoJob, machine, consumer, history
  <2> QED BY <1>0, <2>1
<1>3. ASSUME NEW old \in 1..minted, NEW lam \in BOOLEAN, NEW skip \in BOOLEAN, StartRotation(old, lam, skip)
      PROVE  SafeInv'
  <2>1. /\ job'.pc = "mint" /\ job'.old = old /\ job'.lam = lam /\ InFlight' = InFlight
        /\ heeded' => heeded /\ old = secret /\ (lam \/ env.allowlist = {}) /\ InFlight \subseteq {old}
        /\ UNCHANGED <<clients, secret, env, deployed, launched, held, token, raced>>
    BY <1>0, <1>3, SameInFlight DEF StartRotation, NoJob, machine, consumer, history
  <2> QED BY <1>0, <2>1
<1>4. ASSUME NEW folded \in BOOLEAN, NEW key \in Keys, Deploy(folded, key) PROVE SafeInv'
  <2> DEFINE list == {Scientist, Automation} \union ((IF folded THEN {secret} ELSE {}) \ {0})
  <2>1. /\ env'.allowlist = list /\ env'.legacyKey = key /\ deployed' = key
        /\ heeded' => heeded /\ job.pc # "put" /\ (job.pc = "mint" => job.lam)
                      /\ (launched => secret \in list) /\ InFlight \subseteq list
        /\ InFlight' = InFlight
        /\ UNCHANGED <<clients, secret, job, launched, held, token, raced>>
    BY <1>0, <1>4, SameInFlight DEF Deploy, At, Environment, machine, consumer, history
  <2> HIDE DEF list
  <2> QED BY <1>0, <2>1 DEF Allows
<1>5. CASE Launch
  <2>1. /\ Idle /\ launched' /\ InFlight' = InFlight
        /\ heeded' => heeded /\ job.pc = "done" /\ Allows(env.allowlist, secret)
        /\ UNCHANGED <<clients, secret, env, deployed, job, held, token, raced>>
    BY <1>0, <1>5, SameInFlight DEF Launch, At, machine, consumer, history
  <2> QED BY <1>0, <2>1 DEF Idle
<1>6. ASSUME NEW client \in clients, DeleteByHand(client) PROVE SafeInv'
  <2>1. /\ Idle /\ clients' = clients \ {client} /\ InFlight' = InFlight
        /\ heeded' => heeded /\ client # secret /\ held.client # client
        /\ UNCHANGED <<secret, env, deployed, job, launched, held, token, raced>>
    BY <1>0, <1>6, SameInFlight DEF DeleteByHand, machine, consumer, history
  <2> QED BY <1>0, <2>1 DEF Idle
<1>7. CASE FetchSecret
  <2>1. /\ launched /\ held'.client = secret /\ held'.age = 0
        /\ UNCHANGED <<clients, secret, env, deployed, job, launched, token, raced, heeded>>
    BY <1>7 DEF FetchSecret, machine, history
  <2>2. InFlight' \subseteq InFlight \union {secret}
    BY <2>1, WhoIsInFlight, WhoIsInFlight' DEF InFlight
  <2> QED BY <1>0, <2>1, <2>2 DEF NewerInv
<1>8. CASE RequestToken
  <2>1. /\ held.client # 0 /\ held'.client = 0
        /\ token' = token \/ (token'.client = held.client /\ token'.left = Lifetime)
        /\ UNCHANGED <<clients, secret, env, deployed, job, launched, raced, heeded>>
    BY <1>8 DEF RequestToken, machine, history, TokenOf
  <2>2. InFlight' \subseteq InFlight
    BY <2>1 DEF InFlight
  <2> QED BY <1>0, <2>1, <2>2 DEF NewerInv
<1>9. CASE Tick
  <2>1. /\ job'.pc = job.pc /\ job'.old = job.old /\ job'.new = job.new /\ job'.lam = job.lam
        /\ job'.skip = job.skip /\ job'.read = job.read
        /\ job'.wait = (IF job.wait > 0 THEN job.wait - 1 ELSE 0)
        /\ UNCHANGED <<clients, secret, env, deployed, launched, raced, heeded>>
    BY <1>0, <1>9 DEF Tick, Jobs, machine, history
  <2>2. /\ held'.client = held.client
        /\ held.client # 0 => held'.age = held.age + 1 /\ held.age < Hold
    BY <1>0, <1>9 DEF Tick, TypeInv
  <2>3. /\ token'.left = (IF token.left <= 1 THEN 0 ELSE token.left - 1)
        /\ token.left > 1 => token'.client = token.client
    BY <1>0, <1>9 DEF Tick, TypeInv, Tokens, TokenOf
  <2>4. InFlight' \subseteq InFlight
    BY <1>0, <2>2, <2>3 DEF InFlight
  <2>5. SleepInv'
    BY <1>0, <2>1, <2>2, <2>3 DEF NewerInv
  <2> QED BY <1>0, <2>1, <2>2, <2>4, <2>5
<1> QED BY <1>1, <1>2, <1>3, <1>4, <1>5, <1>6, <1>7, <1>8, <1>9

\* The inductive invariant.
LEMMA RotationInvariant == Spec => []RotationInv
<1>1. RotationInv /\ [Next]_vars => RotationInv'
  <2> SUFFICES ASSUME TypeInv, NewerInv, SafeInv, [Next]_vars
               PROVE  TypeInv' /\ NewerInv' /\ SafeInv'
    BY DEF RotationInv, SafeInv
  <2>1. CASE Scripts
    BY <2>1, ScriptTypes, ScriptsSafe
  <2>2. CASE UNCHANGED vars
    <3>1. InFlight' = InFlight
      BY <2>2 DEF vars, consumer, InFlight
    <3>2. UNCHANGED <<minted, clients, secret, env, deployed, job, launched, held, token, raced, heeded>>
      BY <2>2 DEF vars, machine, consumer, history
    <3> QED BY <3>1, <3>2 DEF TypeInv, NewerInv, SafeInv, ConfigInv, ConsumerInv, PhaseInv, SleepInv
  <2> QED BY <2>1, <2>2, OtherTypes, OthersSafe DEF Next, Keys
<1> QED BY <1>1, InitHolds, PTL DEF Spec

\* The types of the scripts' job and of what the consumer holds.
THEOREM TypeCorrect == Spec => []TypeInv
<1>1. RotationInv => TypeInv
  BY DEF RotationInv
<1> QED BY <1>1, RotationInvariant, PTL

\* A deployment's settings are those of the authorizer after any number of
\* allowlist updates of rotate_m2m_secret.py, deployments at any moment
\* included, until an update overwrites one made since it read.
THEOREM RotationKeepsSettings == Spec => []SettingsSurvive
<1>1. RotationInv => SettingsSurvive
  BY DEF RotationInv, ConfigInv, SettingsSurvive
<1> QED BY <1>1, RotationInvariant, PTL

\* "in-flight callers stay valid": a token is served until it expires,
\* whatever rotations, stops and deployments come in between, as long as
\* operators heed the documents: no rotation starts while tokens of a client
\* before the one it replaces are around, and a deployment lists the clients
\* in use and does not come between the extension and the cut-over.
THEOREM CallersStayValid == Spec => []TokensStayServed
<1>1. RotationInv => TokensStayServed
  <2> SUFFICES ASSUME RotationInv, heeded, token.left > 0, NEW operation \in {"query", "mutation"}
               PROVE  Served(env, Bearing(token), operation)
    BY DEF TokensStayServed
  <2> DEFINE request == Bearing(token)
  <2>1. Allows(env.allowlist, token.client)
    <3>1. token.left \in Nat
      BY Numbers DEF RotationInv, TypeInv, Tokens
    <3> QED BY <3>1, WhoIsInFlight DEF RotationInv, ConsumerInv
  <2>2. /\ token.genuine /\ token.use = "access" /\ token.scopes = {Read, Write}
    BY DEF RotationInv, TypeInv, Tokens
  <2>3. ValidToken(env, token) /\ TokenScopes(token) = {Read, Write}
    BY <2>1, <2>2 DEF ValidToken, Allows, TokenScopes, Read, Write, Admin
  <2>4. request.apiKey = NoKey /\ request.scheme = "bearer" /\ request.token = token
    BY DEF Bearing
  <2>5. Context(env, request) = Allow({Read, Write})
    BY <2>3, <2>4 DEF Context
  <2>6. Allow({Read, Write}) # Unauthorized /\ Allow({Read, Write}).scopes = {Read, Write}
    BY DEF Allow, Unauthorized
  <2> QED BY <2>5, <2>6 DEF Served, ScopesOf, Executes
<1> QED BY <1>1, RotationInvariant, PTL

\* Once the consumer was given the secret after a run that reported success,
\* the secret, and a copy of it that a consumer holds, name a client that
\* exists and that the authorizer allows, while operators heed the documents.
\* Creates that rolled back before, after a put that took effect or not, are
\* covered; a create after it is excluded by heeded.
THEOREM SecretNamesUsableClient == Spec => []SecretStaysUsable
<1>1. RotationInv => SecretStaysUsable
  BY WhoIsInFlight DEF RotationInv, ConsumerInv, SecretStaysUsable
<1> QED BY <1>1, RotationInvariant, PTL

\* A rotation that ran to its end left no token of the old client, no copy of
\* its secret and no client to get one with.
THEOREM RotationRetiresOld == Spec => []OldIsRetired
<1>1. RotationInv => OldIsRetired
  BY DEF RotationInv, PhaseInv, OldIsRetired, At
<1> QED BY <1>1, RotationInvariant, PTL

-----------------------------------------------------------------------------
(* What the authorizer serves in any environment. *)

\* A legacy key counts for everything, and no other key for anything.
LEMMA KeysServe ==
    ASSUME NEW e, NEW key, NEW request, NEW operation \in {"query", "mutation"},
           Context(e, request) = KeyContext(e, key)
    PROVE  Served(e, request, operation) <=> e.legacyKey # NoKey /\ key = e.legacyKey
<1>1. Allow({Read, Write}) # Unauthorized /\ Allow({Read, Write}).scopes = {Read, Write}
  BY DEF Allow, Unauthorized
<1> QED BY <1>1 DEF Served, KeyContext, ValidKey, ScopesOf, Executes

\* A token counts for its scopes.
LEMMA TokensServe ==
    ASSUME NEW e, NEW request, NEW operation \in {"query", "mutation"},
           request.apiKey = NoKey, request.scheme = "bearer"
    PROVE  Served(e, request, operation) <=>
             ValidToken(e, request.token) /\ Executes(operation, TokenScopes(request.token))
<1>1. \A scopes : Allow(scopes) # Unauthorized /\ Allow(scopes).scopes = scopes
  BY DEF Allow, Unauthorized
<1>2. Context(e, request) =
        IF ValidToken(e, request.token) THEN Allow(TokenScopes(request.token)) ELSE Unauthorized
  BY DEF Context
<1> QED BY <1>1, <1>2 DEF Served, ScopesOf

LEMMA NeedsMet ==
    ASSUME NEW scopes, NEW operation \in {"query", "mutation"}
    PROVE  Executes(operation, scopes) <=> Needs[operation] \subseteq scopes
BY DEF Executes, Needs

\* The scopes of a token that the model's requests carry.
LEMMA ScopesOfPeopleAndMachines ==
    /\ \A t \in Machines : TokenScopes(t) = t.scopes
    /\ \A t \in People :
          /\ t \notin Machines
          /\ "toshi-writers" \in t.groups => TokenScopes(t) = {Read, Write}
          /\ "toshi-writers" \notin t.groups /\ "toshi-readers" \in t.groups => TokenScopes(t) = {Read}
          /\ t.groups = {} => TokenScopes(t) = {Admin}
          /\ t.groups \in {{}, {"toshi-readers"}, {"toshi-writers"}}
<1>1. ASSUME NEW t \in Machines PROVE TokenScopes(t) = t.scopes
  BY DEF Machines, TokenScopes, Read, Write, Admin
<1>2. ASSUME NEW t \in People PROVE t \notin Machines
  BY DEF People, Machines, Scientist, Automation
<1>3. ASSUME NEW t \in People
      PROVE  Admin \in t.scopes /\ t.scopes = {Admin}
             /\ t.groups \in {{}, {"toshi-readers"}, {"toshi-writers"}}
  BY DEF People
<1>4. ASSUME NEW t \in People, t.groups = {"toshi-writers"} PROVE TokenScopes(t) = {Read, Write}
  <2>1. GroupScopes(t.groups) = {Read, Write}
    BY <1>4 DEF GroupScopes
  <2> QED BY <1>3, <2>1 DEF TokenScopes
<1>5. ASSUME NEW t \in People, t.groups = {"toshi-readers"} PROVE TokenScopes(t) = {Read}
  <2>1. GroupScopes(t.groups) = {Read}
    BY <1>5 DEF GroupScopes
  <2> QED BY <1>3, <2>1 DEF TokenScopes
<1>6. ASSUME NEW t \in People, t.groups = {} PROVE TokenScopes(t) = {Admin}
  <2>1. GroupScopes(t.groups) = {}
    BY <1>6 DEF GroupScopes
  <2> QED BY <1>3, <2>1 DEF TokenScopes
<1> QED BY <1>1, <1>2, <1>3, <1>4, <1>5, <1>6

\* The request's headers, by where its credentials are.
LEMMA PresentedHeaders ==
    ASSUME NEW request \in Presented
    PROVE  /\ request.apiKey \in {NoKey, "k1", "k2"}
           /\ \/ request.scheme \in {"none", "other"} /\ request.key = NoKey /\ request.token.left = 0
              \/ request.scheme = "apikey" /\ request.token.left = 0
              \/ request.scheme = "bearer" /\ request.key = NoKey /\ request.token \in People \union Machines
<1>1. TokenOf(0, 0).left = 0
  BY DEF TokenOf
<1>2. \/ request \in Headers({"none", "other"}, {NoKey}, {TokenOf(0, 0)})
      \/ request \in Headers({"apikey"}, {NoKey, "k1", "k2"}, {TokenOf(0, 0)})
      \/ request \in Headers({"bearer"}, {NoKey}, People \union Machines)
  BY DEF Presented
<1> QED BY <1>1, <1>2 DEF Headers

LEMMA ScopesDecide ==
    ASSUME NEW e \in Environments
    PROVE  ServesAsPermitted(e)
<1> DEFINE Decided(request, operation) ==
               /\ request.apiKey \in {NoKey, e.legacyKey}
               /\ Needs[operation] \subseteq Permitted(e, request)
<1> SUFFICES ASSUME NEW request \in Presented, NEW operation \in {"query", "mutation"}
             PROVE  Served(e, request, operation) <=> Decided(request, operation)
  <2>1. DOMAIN Needs = {"query", "mutation"}
    BY DEF Needs
  <2> QED BY <2>1 DEF ServesAsPermitted
<1> DEFINE t == request.token
           Keyed == e.legacyKey # NoKey /\ e.legacyKey \in {request.apiKey, request.key}
           Accepted == t.genuine /\ t.left > 0 /\ t.use = "access" /\ Allows(e.allowlist, t.client)
<1>1. Needs[operation] \subseteq {Read, Write} /\ Needs[operation] # {} /\ Read \in Needs[operation]
  BY DEF Needs
<1>2. Keyed => Permitted(e, request) = {Read, Write}
  BY DEF Permitted
<1>3. ~Keyed /\ ~Accepted => Permitted(e, request) = {}
  BY DEF Permitted
<1>4. ~Keyed /\ Accepted =>
        Permitted(e, request) = IF t \in Machines THEN t.scopes
                                ELSE IF "toshi-writers" \in t.groups THEN {Read, Write}
                                ELSE IF "toshi-readers" \in t.groups THEN {Read} ELSE {}
  BY DEF Permitted
<1>5. t.left = 0 => ~Accepted
  OBVIOUS
<1>6. Accepted <=> ValidToken(e, t)
  BY DEF ValidToken, Allows
<1> HIDE DEF Accepted
<1>7. CASE request.apiKey # NoKey
  <2>1. Served(e, request, operation) <=> e.legacyKey # NoKey /\ request.apiKey = e.legacyKey
    BY <1>7, KeysServe DEF Context
  <2> QED BY <1>1, <1>2, <1>7, <2>1
<1>8. CASE request.apiKey = NoKey /\ request.scheme = "apikey"
  <2>1. Served(e, request, operation) <=> e.legacyKey # NoKey /\ request.key = e.legacyKey
    BY <1>8, KeysServe DEF Context
  <2>2. ~Accepted
    BY <1>5, <1>8, PresentedHeaders
  <2> QED BY <1>1, <1>2, <1>3, <1>8, <2>1, <2>2
<1>9. CASE request.apiKey = NoKey /\ request.scheme \in {"none", "other"}
  <2>1. ~Served(e, request, operation)
    BY <1>9 DEF Served, Context
  <2>2. ~Accepted /\ ~Keyed
    BY <1>5, <1>9, PresentedHeaders
  <2> QED BY <1>1, <1>3, <1>9, <2>1, <2>2
<1>10. CASE request.apiKey = NoKey /\ request.scheme = "bearer"
  <2>1. t \in People \union Machines /\ ~Keyed
    BY <1>10, PresentedHeaders
  <2>2. Served(e, request, operation) <=> Accepted /\ Needs[operation] \subseteq TokenScopes(t)
    BY <1>6, <1>10, TokensServe, NeedsMet
  <2>3. CASE ~Accepted
    BY <1>1, <1>3, <2>1, <2>2, <2>3
  <2>4. CASE Accepted /\ t \in Machines
    BY <1>4, <1>10, <2>1, <2>2, <2>4, ScopesOfPeopleAndMachines
  <2>5. CASE Accepted /\ t \in People
    <3>1. Read \notin {Admin}
      BY DEF Read, Admin
    <3> QED BY <1>1, <1>4, <1>10, <2>1, <2>2, <2>5, <3>1, ScopesOfPeopleAndMachines
  <2> QED BY <2>1, <2>3, <2>4, <2>5
<1> QED BY <1>7, <1>8, <1>9, <1>10, PresentedHeaders

\* Deployments and rotations only make environments in which a request is
\* served exactly what its credentials permit, and in those the handler does.
THEOREM CredentialsDecide == Spec => []ServedAsPermitted
<1>1. RotationInv => ServedAsPermitted
  <2> SUFFICES ASSUME RotationInv PROVE env \in Sound
    BY DEF ServedAsPermitted
  <2> DEFINE x == <<env.allowlist, env.legacyKey>>
  <2>1. env \in Environments
    BY DEF RotationInv, TypeInv
  <2>2. env = Environment(x[1], x[2])
    BY <2>1 DEF Environments, Environment
  <2>3. x \in Settings
    BY <2>1 DEF Environments, Lists, Keys, Settings
  <2>4. ServesAsPermitted(Environment(x[1], x[2]))
    BY <2>1, <2>2, ScopesDecide
  <2> QED BY <2>2, <2>3, <2>4 DEF Sound
<1> QED BY <1>1, RotationInvariant, PTL
=============================================================================
