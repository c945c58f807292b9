------------------------------ MODULE FxService ------------------------------
(***************************************************************************)
(* The FX service of QuetzalShip (services/fx): exchange rates from a      *)
(* Redis cache, else from the primary provider, else from the fallback     *)
(* provider, else from constants in the code.                              *)
(*                                                                         *)
(* getExchangeRate (and convert, which multiplies its rate) reaches a      *)
(* provider through a circuit breaker with a time limit, and repeats a     *)
(* failed attempt; getRates calls the providers directly, once.  An HTTP   *)
(* request outlives the time limit of the breaker: it ends by itself, and  *)
(* then only tells the health flag of its provider.                        *)
(*                                                                         *)
(* The clock counts seconds.  The service itself takes no time; waiting    *)
(* for a provider, the delay between attempts and commands to Redis do.    *)
(* Nothing limits a command: while the connection is being made again, or  *)
(* while Redis hangs, the call that gave it waits (cache.service.ts sets   *)
(* delays and a number of reconnections, and no time limit).               *)
(***************************************************************************)
EXTENDS Integers

CONSTANTS
    Call,            \* gRPC calls; each is made at most once
    PairKey,         \* cache keys of currency pairs
    BaseKey,         \* cache keys of base currencies
    Known,           \* keys of the pairs that have a default rate
    Reliable,        \* providers that answer every request at once
    Attempts,        \* FX_MAX_RETRIES: attempts at each provider
    BreakerTimeout,  \* CB_TIMEOUT_MS
    ResetTimeout,    \* CB_RESET_TIMEOUT_MS
    ApiTimeout,      \* FX_API_TIMEOUT_MS
    BaseDelay,       \* delay after the first failed attempt
    TTL,             \* REDIS_TTL_SECONDS
    LastArrival,     \* bound on the time at which calls arrive
    MaxDelay,        \* bound on the time that Redis keeps a call
    MaxNow,          \* bound on the clock
    None

VARIABLES
    now,        \* the clock
    connected,  \* the connection to Redis is up
    cache,      \* cache[k]: the rate stored under k, or None
    breaker,    \* breaker[p]: state of the circuit breaker of provider p
    since,      \* since[p]: when the breaker last opened
    healthy,    \* healthy[p]: the flag isHealthy of the client of p
    http,       \* HTTP requests under way
    pc,         \* pc[c]: where the handler of call c is
    key,        \* key[c]: what c asks for
    began,      \* began[c]: when c arrived
    provider,   \* provider[c]: the provider c is trying
    failed,     \* failed[c]: its failed attempts at that provider
    due,        \* due[c]: when c stops waiting
    rate,       \* rate[c]: the rate c got from a provider or the cache
    ans,        \* ans[c]: the answer of c
    waited      \* waited[c]: the time c spent at Redis, read by no code

fxVars == <<now, connected, cache, breaker, since, healthy, http,
            pc, key, began, provider, failed, due, rate, ans, waited>>

Key == PairKey \cup BaseKey
Provider == {"primary", "fallback"}

\* A rate is told apart by who gave it, to which call, for which key, and when.
Rate == [source : Provider, call : Call, of : Key, asOf : Nat]
CacheEntry == [rate : Rate, storedAt : Nat]
HttpRequest == [call : Call, provider : Provider, attempt : Nat, sent : Nat]
\* label is the field provider of the answer.
Answer == [label : Provider \cup {"DEFAULT", "ERROR"}, rate : Rate \cup {None},
           fromCache : BOOLEAN, at : Nat]

Breaker == {"closed", "open", "halfOpen", "probing"}
Location == {"idle", "reading", "hit", "calling", "waiting", "backoff", "storing", "answered"}
\* Where a handler waits for Redis.
AtRedis == {"reading", "hit", "storing"}

ASSUME NoRateAssumption == None \notin Rate \cup CacheEntry \cup Answer \cup Key
ASSUME TimeAssumption ==
    /\ Attempts \in Nat \ {0}
    /\ BreakerTimeout \in Nat \ {0} /\ ApiTimeout \in Nat \ {0}
    /\ ResetTimeout \in Nat /\ BaseDelay \in Nat /\ TTL \in Nat
    /\ LastArrival \in Nat /\ MaxDelay \in Nat /\ MaxNow \in Nat
ASSUME KnownAssumption == Known \subseteq PairKey

Rates(c) == key[c] \in BaseKey  \* a getRates call

Answered(c, a) == ans' = [ans EXCEPT ![c] = a] /\ pc' = [pc EXCEPT ![c] = "answered"]
Given(label, r, cached) == [label |-> label, rate |-> r, fromCache |-> cached, at |-> now]

(***************************************************************************)
(* The cache                                                               *)
(***************************************************************************)
\* The flag of the connection is read before a command is given: without a
\* connection there is none.
Arrive(c, k) ==
    /\ pc[c] = "idle" /\ now <= LastArrival
    /\ key' = [key EXCEPT ![c] = k]
    /\ began' = [began EXCEPT ![c] = now]
    /\ pc' = [pc EXCEPT ![c] = IF connected THEN "reading" ELSE "calling"]
    /\ UNCHANGED <<now, connected, cache, breaker, since, healthy, http,
                   provider, failed, due, rate, ans, waited>>

\* Mutant: an entry is stored without a lifetime.
FreshForEver(k) == cache[k] # None

\* Redis forgets an entry at the end of its lifetime.
Fresh(k) == cache[k] # None /\ now - cache[k].storedAt < TTL

\* Redis executes the GET of c; its reply is on its way.
RedisReads(c) ==
    /\ pc[c] = "reading" /\ connected /\ Fresh(key[c])
    /\ rate' = [rate EXCEPT ![c] = cache[key[c]].rate]
    /\ pc' = [pc EXCEPT ![c] = "hit"]
    /\ UNCHANGED <<now, connected, cache, breaker, since, healthy, http,
                   key, began, provider, failed, due, ans, waited>>

\* The reply is lost with the connection; ioredis gives the command again.
ReplyLost(c) ==
    /\ pc[c] = "hit" /\ ~connected
    /\ pc' = [pc EXCEPT ![c] = "reading"]
    /\ UNCHANGED <<now, connected, cache, breaker, since, healthy, http,
                   key, began, provider, failed, due, rate, ans, waited>>

CacheHit(c) ==
    /\ pc[c] = "hit"
    /\ Answered(c, Given(rate[c].source, rate[c], TRUE))
    /\ UNCHANGED <<now, connected, cache, breaker, since, healthy, http,
                   key, began, provider, failed, due, rate, waited>>

\* No entry, an error of Redis, or no more reconnections for this command, at
\* any time after it was given: all are a miss.
CacheMiss(c) ==
    /\ pc[c] = "reading"
    /\ pc' = [pc EXCEPT ![c] = "calling"]
    /\ UNCHANGED <<now, connected, cache, breaker, since, healthy, http,
                   key, began, provider, failed, due, rate, ans, waited>>

\* Redis executes the SETEX of c, again if its reply was lost: the lifetime of
\* the entry begins now.
RedisStores(c) ==
    /\ pc[c] = "storing" /\ connected
    /\ cache' = [cache EXCEPT ![key[c]] = [rate |-> rate[c], storedAt |-> now]]
    /\ UNCHANGED <<now, connected, breaker, since, healthy, http,
                   pc, key, began, provider, failed, due, rate, ans, waited>>

\* Stored or failed, at any time after the command was given.
StoreEnds(c) ==
    /\ pc[c] = "storing"
    /\ Answered(c, Given(provider[c], rate[c], FALSE))
    /\ UNCHANGED <<now, connected, cache, breaker, since, healthy, http,
                   key, began, provider, failed, due, rate, waited>>

(***************************************************************************)
(* An attempt at a provider                                                *)
(***************************************************************************)
Send(c, limit) ==
    /\ http' = http \cup {[call |-> c, provider |-> provider[c],
                           attempt |-> failed[c], sent |-> now]}
    /\ due' = [due EXCEPT ![c] = now + limit]
    /\ pc' = [pc EXCEPT ![c] = "waiting"]
    /\ UNCHANGED <<now, connected, cache, since, healthy,
                   key, began, provider, failed, rate, ans, waited>>

\* Mutant: an open breaker lets requests through.
FireAnyway(c) ==
    /\ pc[c] = "calling" /\ ~Rates(c)
    /\ breaker' = [breaker EXCEPT ![provider[c]] = IF @ = "halfOpen" THEN "probing" ELSE @]
    /\ Send(c, BreakerTimeout)

\* breaker.fire: a closed breaker lets every request through, a half-open one
\* lets one through to probe the provider.
Fire(c) ==
    /\ pc[c] = "calling" /\ ~Rates(c)
    /\ breaker[provider[c]] \in {"closed", "halfOpen"}
    /\ breaker' = [breaker EXCEPT ![provider[c]] = IF @ = "halfOpen" THEN "probing" ELSE @]
    /\ Send(c, BreakerTimeout)

\* getRates calls the client of the provider itself.
CallDirectly(c) ==
    /\ pc[c] = "calling" /\ Rates(c)
    /\ Send(c, ApiTimeout)
    /\ UNCHANGED breaker

\* BaseDelay * 2^n: the delay doubles with every failed attempt.
Backoff[n \in 0..Attempts] == IF n = 0 THEN BaseDelay ELSE 2 * Backoff[n - 1]

\* Mutant: the exponent counts attempts from one.
DelayFromOne(n) == Backoff[n + 1]

\* The delay after n + 1 failed attempts.
Delay(n) == Backoff[n]

\* Mutant: one attempt more than configured.
AfterFailureOnceMore(c) ==
    IF ~Rates(c) /\ failed[c] < Attempts
    THEN /\ failed' = [failed EXCEPT ![c] = @ + 1]
         /\ due' = [due EXCEPT ![c] = now + Delay(failed[c])]
         /\ pc' = [pc EXCEPT ![c] = "backoff"]
         /\ UNCHANGED <<provider, ans>>
    ELSE /\ failed' = [failed EXCEPT ![c] = 0]
         /\ IF provider[c] = "primary"
            THEN /\ provider' = [provider EXCEPT ![c] = "fallback"]
                 /\ pc' = [pc EXCEPT ![c] = "calling"]
                 /\ UNCHANGED ans
            ELSE /\ Answered(c, [label |-> IF Rates(c) \/ key[c] \in Known
                                           THEN "DEFAULT" ELSE "ERROR",
                                 rate |-> None, fromCache |-> FALSE, at |-> now])
                 /\ UNCHANGED provider
         /\ UNCHANGED due

\* Mutant: an open breaker of the primary provider leads to the default rates.
AfterFailureGivingUp(c) ==
    IF ~Rates(c) /\ failed[c] + 1 < Attempts
    THEN /\ failed' = [failed EXCEPT ![c] = @ + 1]
         /\ due' = [due EXCEPT ![c] = now + Delay(failed[c])]
         /\ pc' = [pc EXCEPT ![c] = "backoff"]
         /\ UNCHANGED <<provider, ans>>
    ELSE /\ failed' = [failed EXCEPT ![c] = 0]
         /\ IF provider[c] = "primary" /\ breaker["primary"] # "open"
            THEN /\ provider' = [provider EXCEPT ![c] = "fallback"]
                 /\ pc' = [pc EXCEPT ![c] = "calling"]
                 /\ UNCHANGED ans
            ELSE /\ Answered(c, [label |-> "DEFAULT", rate |-> None,
                                 fromCache |-> FALSE, at |-> now])
                 /\ UNCHANGED provider
         /\ UNCHANGED due

\* When an attempt has failed: again after a delay, or on to the fallback
\* provider, or the default rates, or an error.
AfterFailure(c) ==
    IF ~Rates(c) /\ failed[c] + 1 < Attempts
    THEN /\ failed' = [failed EXCEPT ![c] = @ + 1]
         /\ due' = [due EXCEPT ![c] = now + Delay(failed[c])]
         /\ pc' = [pc EXCEPT ![c] = "backoff"]
         /\ UNCHANGED <<provider, ans>>
    ELSE /\ failed' = [failed EXCEPT ![c] = 0]
         /\ IF provider[c] = "primary"
            THEN /\ provider' = [provider EXCEPT ![c] = "fallback"]
                 /\ pc' = [pc EXCEPT ![c] = "calling"]
                 /\ UNCHANGED ans
            ELSE /\ Answered(c, [label |-> IF Rates(c) \/ key[c] \in Known
                                           THEN "DEFAULT" ELSE "ERROR",
                                 rate |-> None, fromCache |-> FALSE, at |-> now])
                 /\ UNCHANGED provider
         /\ UNCHANGED due

\* An open breaker rejects at once, and so does one that is probing.
Reject(c) ==
    /\ pc[c] = "calling" /\ ~Rates(c)
    /\ breaker[provider[c]] \in {"open", "probing"}
    /\ AfterFailure(c)
    /\ UNCHANGED <<now, connected, cache, breaker, since, healthy, http, key, began, rate, waited>>

Wake(c) ==
    /\ pc[c] = "backoff" /\ now = due[c]
    /\ pc' = [pc EXCEPT ![c] = "calling"]
    /\ UNCHANGED <<now, connected, cache, breaker, since, healthy, http,
                   key, began, provider, failed, due, rate, ans, waited>>

\* A failure opens a breaker that is not closed, and a closed one when the
\* failures of the last seconds are too many, which is left open here.
Trip(c) ==
    LET p == provider[c] IN
    IF Rates(c) \/ breaker[p] = "open" THEN UNCHANGED <<breaker, since>>
    ELSE \/ /\ breaker' = [breaker EXCEPT ![p] = "open"]
            /\ since' = [since EXCEPT ![p] = now]
         \/ /\ breaker[p] = "closed"
            /\ UNCHANGED <<breaker, since>>

\* Timeout of the breaker: the HTTP request goes on.
BreakerTimesOut(c) ==
    /\ pc[c] = "waiting" /\ ~Rates(c) /\ now = due[c]
    /\ Trip(c)
    /\ AfterFailure(c)
    /\ UNCHANGED <<now, connected, cache, healthy, http, key, began, rate, waited>>

(***************************************************************************)
(* A provider                                                              *)
(***************************************************************************)
\* Mutant: a late answer is taken for the answer to the current attempt.
AwaitedByCall(h) == pc[h.call] = "waiting"

\* The attempt that sent h still waits for it.
Awaited(h) ==
    /\ pc[h.call] = "waiting"
    /\ provider[h.call] = h.provider
    /\ failed[h.call] = h.attempt

\* The rate is stored and answered, or answered at once without a connection.
ProviderAnswers(h) ==
    /\ http' = http \ {h}
    /\ healthy' = [healthy EXCEPT ![h.provider] = TRUE]
    /\ LET c == h.call
           r == [source |-> h.provider, call |-> c, of |-> key[c], asOf |-> now] IN
       IF Awaited(h)
       THEN /\ rate' = [rate EXCEPT ![c] = r]
            /\ IF connected
               THEN pc' = [pc EXCEPT ![c] = "storing"] /\ UNCHANGED ans
               ELSE Answered(c, Given(provider[c], r, FALSE))
            /\ breaker' = [breaker EXCEPT ![h.provider] =
                             IF @ = "open" \/ Rates(c) THEN @ ELSE "closed"]
       ELSE UNCHANGED <<rate, pc, breaker, ans>>
    /\ UNCHANGED <<now, connected, cache, since, key, began, provider, failed, due, waited>>

\* The provider answers with an error, cannot be reached, or is given up by
\* axios.
ProviderFails(h) ==
    /\ h.provider \notin Reliable
    /\ http' = http \ {h}
    /\ healthy' = [healthy EXCEPT ![h.provider] = FALSE]
    /\ IF Awaited(h)
       THEN Trip(h.call) /\ AfterFailure(h.call)
       ELSE UNCHANGED <<breaker, since, pc, provider, failed, due, ans>>
    /\ UNCHANGED <<now, connected, cache, key, began, rate, waited>>

(***************************************************************************)
(* The environment                                                         *)
(***************************************************************************)
\* The reset timer of an open breaker.
HalfOpen(p) ==
    /\ breaker[p] = "open" /\ now - since[p] >= ResetTimeout
    /\ breaker' = [breaker EXCEPT ![p] = "halfOpen"]
    /\ UNCHANGED <<now, connected, cache, since, healthy, http,
                   pc, key, began, provider, failed, due, rate, ans, waited>>

RedisToggles ==
    /\ connected' = ~connected
    /\ UNCHANGED <<now, cache, breaker, since, healthy, http,
                   pc, key, began, provider, failed, due, rate, ans, waited>>

\* Time passes when no handler can go on at once, no timer is due, and no
\* reliable provider has a request to answer.  Redis may keep calls waiting.
Tick ==
    /\ now < MaxNow
    /\ \A c \in Call :
        /\ pc[c] # "calling"
        /\ pc[c] = "backoff" \/ (pc[c] = "waiting" /\ ~Rates(c)) => now < due[c]
    /\ \A c \in Call : pc[c] \in AtRedis => waited[c] < MaxDelay
    /\ \A h \in http : now - h.sent < ApiTimeout /\ h.provider \notin Reliable
    /\ now' = now + 1
    /\ waited' = [c \in Call |-> IF pc[c] \in AtRedis THEN waited[c] + 1 ELSE waited[c]]
    /\ UNCHANGED <<connected, cache, breaker, since, healthy, http,
                   pc, key, began, provider, failed, due, rate, ans>>

(***************************************************************************)
(* The specification                                                       *)
(***************************************************************************)
FxInit ==
    /\ now = 0
    /\ connected = TRUE
    /\ cache = [k \in Key |-> None]
    /\ breaker = [p \in Provider |-> "closed"]
    /\ since = [p \in Provider |-> 0]
    /\ healthy = [p \in Provider |-> TRUE]
    /\ http = {}
    /\ pc = [c \in Call |-> "idle"]
    /\ key = [c \in Call |-> None]
    /\ began = [c \in Call |-> 0]
    /\ provider = [c \in Call |-> "primary"]
    /\ failed = [c \in Call |-> 0]
    /\ due = [c \in Call |-> 0]
    /\ rate = [c \in Call |-> None]
    /\ ans = [c \in Call |-> None]
    /\ waited = [c \in Call |-> 0]

Handle(c) ==
    \/ ReplyLost(c) \/ CacheHit(c) \/ CacheMiss(c) \/ StoreEnds(c)
    \/ Fire(c) \/ CallDirectly(c) \/ Reject(c) \/ Wake(c) \/ BreakerTimesOut(c)

Redis == \E c \in Call : RedisReads(c) \/ RedisStores(c)

Provide == \E h \in http : ProviderAnswers(h) \/ ProviderFails(h)

FxNext ==
    \/ \E c \in Call, k \in Key : Arrive(c, k)
    \/ \E c \in Call : Handle(c)
    \/ Redis
    \/ Provide
    \/ \E p \in Provider : HalfOpen(p)
    \/ RedisToggles
    \/ Tick

FxSpec == FxInit /\ [][FxNext]_fxVars

(***************************************************************************)
(* Correctness                                                             *)
(***************************************************************************)
\* The shape of the state of the service, its cache and its breakers.
FxTypeOK ==
    /\ now \in 0..MaxNow
    /\ connected \in BOOLEAN
    /\ cache \in [Key -> CacheEntry \cup {None}]
    /\ breaker \in [Provider -> Breaker]
    /\ since \in [Provider -> 0..MaxNow]
    /\ healthy \in [Provider -> BOOLEAN]
    /\ http \subseteq HttpRequest
    /\ pc \in [Call -> Location]
    /\ key \in [Call -> Key \cup {None}]
    /\ began \in [Call -> 0..MaxNow]
    /\ provider \in [Call -> Provider]
    /\ failed \in [Call -> 0..(Attempts - 1)]
    /\ due \in [Call -> Int]
    /\ rate \in [Call -> Rate \cup {None}]
    /\ ans \in [Call -> Answer \cup {None}]
    /\ waited \in [Call -> 0..MaxDelay]

\* An answer names the provider that really gave its rate, for the key that was
\* asked for; a rate that is not from the cache was given to this call.  Answers
\* of attempts that were given up are not mixed in, however late they come.
SourceIsTrue ==
    \A c \in Call : ans[c] # None /\ ans[c].label \in Provider =>
        /\ ans[c].rate # None
        /\ ans[c].rate.source = ans[c].label
        /\ ans[c].rate.of = key[c]
        /\ ~ans[c].fromCache => ans[c].rate.call = c /\ ans[c].rate.asOf >= began[c]

\* A rate is never answered after its time in the cache, however often it was
\* read, and stored again by concurrent calls.  What Redis delays adds to its
\* age: the lifetime begins when the entry is stored, which the call that got
\* the rate waited for, and the call that reads it waits for the reply.
Age(r, t) == t - r.asOf
Lifetime(r, c) == TTL + waited[c] + waited[r.call]
AnswersAreFresh ==
    \A c \in Call : ans[c] # None /\ ans[c].fromCache =>
        Age(ans[c].rate, ans[c].at) < Lifetime(ans[c].rate, c)

\* While its breaker is open a provider gets no new conversion request, and a
\* half-open breaker lets a single one through.
Conversions(p) == {h \in http : h.provider = p /\ ~Rates(h.call)}
BreakerShields ==
    \A p \in Provider :
        /\ breaker[p] = "open" => \A h \in Conversions(p) : h.sent <= since[p]
        /\ breaker[p] \in {"halfOpen", "probing"} =>
              \A g, h \in Conversions(p) :
                  g.sent >= since[p] + ResetTimeout /\ h.sent >= since[p] + ResetTimeout
                    => breaker[p] = "probing" /\ g = h

\* A call lasts no longer than its attempts and delays add up to and Redis keeps
\* it: however the providers hang and the breakers trip, the two rounds of
\* attempts with doubling delays of executeWithRetry bound a conversion, and the
\* time limit of axios bounds a getRates call.  Nothing bounds its commands to
\* Redis: that time is set apart.
LongestCall(c) ==
    IF Rates(c) THEN 2 * ApiTimeout
    ELSE 2 * (Attempts * BreakerTimeout + Backoff[Attempts - 1] - BaseDelay)
OnlyRedisDelays ==
    \A c \in Call : pc[c] \notin {"idle", "answered"} =>
        now - began[c] <= LongestCall(c) + waited[c]

\* While the fallback provider answers, no call ends with default rates or an
\* error, whatever the primary provider, its breaker and Redis do.
FallbackIsUsed ==
    "fallback" \in Reliable =>
        \A c \in Call : ans[c] # None => ans[c].label \notin {"DEFAULT", "ERROR"}
=============================================================================
