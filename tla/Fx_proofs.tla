------------------------------- MODULE Fx_proofs -------------------------------
(***************************************************************************)
(* Proofs about the FX service and the gateway's use of it, for any        *)
(* numbers of calls, keys and attempts and any time limits: however calls  *)
(* overlap, providers hang and Redis comes and goes, answers name their    *)
(* true source, cached rates are young, open breakers shield their         *)
(* provider, every call ends in time, and what clients are shown is true.  *)
(***************************************************************************)
EXTENDS FxFlow, Sums

(***************************************************************************)
(* The FX service                                                          *)
(***************************************************************************)
\* The delays between attempts, as the equation that defines them.
Doubles(f, m) == f = [n \in 0..m |-> IF n = 0 THEN BaseDelay ELSE 2 * f[n - 1]]

LEMMA DoublesExtend ==
    ASSUME NEW m \in Nat \ {0}, NEW f, Doubles(f, m - 1)
    PROVE  \E g : Doubles(g, m)
<1> DEFINE g == [n \in 0..m |-> IF n = 0 THEN BaseDelay ELSE 2 * f[n - 1]]
<1>1. \A n \in 0..(m - 1) : f[n] = IF n = 0 THEN BaseDelay ELSE 2 * f[n - 1]
  <2>1. \A n \in 0..(m - 1) : [k \in 0..(m - 1) |-> IF k = 0 THEN BaseDelay ELSE 2 * f[k - 1]][n]
                              = IF n = 0 THEN BaseDelay ELSE 2 * f[n - 1]
    OBVIOUS
  <2> QED
    BY <2>1 DEF Doubles
<1>2. \A n \in 0..(m - 1) : g[n] = f[n]
  BY <1>1
<1>3. \A n \in 0..m : n # 0 => n - 1 \in 0..(m - 1)
  OBVIOUS
<1>4. g = [n \in 0..m |-> IF n = 0 THEN BaseDelay ELSE 2 * g[n - 1]]
  BY <1>2, <1>3
<1> QED
  BY <1>4 DEF Doubles

LEMMA BackoffDoubles == Doubles(Backoff, Attempts)
<1> DEFINE Unsolved == {m \in Nat : ~\E f : Doubles(f, m)}
<1>1. Unsolved = {}
  <2> SUFFICES ASSUME Unsolved # {} PROVE FALSE
    OBVIOUS
  <2>1. PICK m \in Unsolved : \A k \in Unsolved : m <= k
    BY LeastNumber
  <2>2. m # 0
    <3>1. Doubles([n \in 0..0 |-> BaseDelay], 0)
      BY DEF Doubles
    <3> QED
      BY <3>1
  <2>3. m - 1 \in Nat /\ m - 1 \notin Unsolved /\ m \in Nat \ {0}
    BY <2>1, <2>2
  <2>4. PICK f : Doubles(f, m - 1)
    BY <2>3
  <2> QED
    BY <2>1, <2>3, <2>4, DoublesExtend
<1>2. \E f : Doubles(f, Attempts)
  BY <1>1, TimeAssumption
<1>3. Backoff = CHOOSE f : Doubles(f, Attempts)
  BY DEF Backoff, Doubles
<1> QED
  BY <1>2, <1>3

\* Delays grow, and are known by the one before.
LEMMA BackoffIs ==
    /\ Backoff \in [0..Attempts -> Nat] /\ Backoff[0] = BaseDelay
    /\ \A n \in 1..Attempts : Backoff[n] = 2 * Backoff[n - 1]
<1>1. /\ \A n \in 0..Attempts : Backoff[n] = IF n = 0 THEN BaseDelay ELSE 2 * Backoff[n - 1]
      /\ DOMAIN Backoff = 0..Attempts /\ Backoff = [n \in 0..Attempts |-> Backoff[n]]
  <2>1. \A f : Doubles(f, Attempts) =>
          /\ \A n \in 0..Attempts : f[n] = IF n = 0 THEN BaseDelay ELSE 2 * f[n - 1]
          /\ DOMAIN f = 0..Attempts /\ f = [n \in 0..Attempts |-> f[n]]
    <3> SUFFICES ASSUME NEW f, Doubles(f, Attempts)
                 PROVE  /\ \A n \in 0..Attempts : f[n] = IF n = 0 THEN BaseDelay ELSE 2 * f[n - 1]
                        /\ DOMAIN f = 0..Attempts /\ f = [n \in 0..Attempts |-> f[n]]
      OBVIOUS
    <3>1. PICK g : g = f
      OBVIOUS
    <3>2. f = [n \in 0..Attempts |-> IF n = 0 THEN BaseDelay ELSE 2 * g[n - 1]]
      BY <3>1 DEF Doubles
    <3> QED
      BY <3>1, <3>2
  <2> QED
    BY <2>1, BackoffDoubles
<1> DEFINE Wrong == {n \in 0..Attempts : Backoff[n] \notin Nat}
<1>2. Wrong = {}
  <2> SUFFICES ASSUME Wrong # {} PROVE FALSE
    OBVIOUS
  <2>1. Wrong \in SUBSET Nat
    BY TimeAssumption
  <2>2. PICK n \in Wrong : \A k \in Wrong : n <= k
    BY <2>1, LeastNumber
  <2>3. n # 0
    BY <1>1, <2>2, TimeAssumption
  <2>4. n - 1 \in 0..Attempts /\ n - 1 \notin Wrong
    BY <2>2, <2>3, TimeAssumption
  <2>5. Backoff[n] = 2 * Backoff[n - 1] /\ Backoff[n - 1] \in Nat
    BY <1>1, <2>2, <2>3, <2>4
  <2> QED
    BY <2>2, <2>5
<1>3. Backoff \in [0..Attempts -> Nat]
  BY <1>1, <1>2
<1>4. Backoff[0] = BaseDelay
  <2>1. 0 \in 0..Attempts
    BY TimeAssumption
  <2> QED
    BY <1>1, <2>1
<1>5. ASSUME NEW n \in 1..Attempts PROVE Backoff[n] = 2 * Backoff[n - 1]
  <2>1. n \in 0..Attempts /\ n # 0
    BY TimeAssumption
  <2> QED
    BY <1>1, <2>1
<1> QED
  BY <1>3, <1>4, <1>5

\* What a suspended handler relies on.
HandlerInv ==
    \A c \in Call :
        /\ pc[c] # "idle" => key[c] \in Key
        /\ began[c] <= now
        /\ ans[c] # None => pc[c] = "answered"
        /\ ans[c] # None /\ ans[c].fromCache => ans[c].label \in Provider
        /\ ans[c] # None /\ ans[c].label \in Provider /\ ~ans[c].fromCache =>
             Age(ans[c].rate, ans[c].at) <= waited[c]
        /\ pc[c] = "hit" =>
             /\ rate[c] \in Rate /\ rate[c].of = key[c]
             /\ Age(rate[c], now) < Lifetime(rate[c], c)
        /\ pc[c] = "storing" =>
             /\ rate[c] \in Rate
             /\ rate[c].source = provider[c] /\ rate[c].call = c /\ rate[c].of = key[c]
             /\ rate[c].asOf >= began[c] /\ Age(rate[c], now) <= waited[c]

\* No request under way is from the future or from a call that never was.
HttpInv == \A h \in http : pc[h.call] # "idle" /\ h.sent <= now

\* What lies between getting a rate and storing it is what Redis keeps the call
\* that got it.
CacheInv ==
    \A k \in Key : cache[k] # None =>
        /\ cache[k].rate.of = k
        /\ Age(cache[k].rate, cache[k].storedAt) <= waited[cache[k].rate.call]
        /\ cache[k].storedAt <= now

ServiceInv ==
    /\ FxTypeOK /\ HandlerInv /\ HttpInv /\ CacheInv
    /\ SourceIsTrue /\ AnswersAreFresh

LEMMA AnswerType ==
    ASSUME FxTypeOK, NEW label \in Provider \cup {"DEFAULT", "ERROR"},
           NEW r \in Rate \cup {None}, NEW b \in BOOLEAN
    PROVE  [label |-> label, rate |-> r, fromCache |-> b, at |-> now] \in Answer
BY DEF FxTypeOK, Answer

LEMMA GivenType ==
    ASSUME FxTypeOK, NEW label \in Provider, NEW r \in Rate, NEW b \in BOOLEAN
    PROVE  /\ Given(label, r, b) \in Answer /\ Given(label, r, b).label = label
           /\ Given(label, r, b).rate = r /\ Given(label, r, b).fromCache = b
           /\ Given(label, r, b).at = now
BY AnswerType DEF Given

\* What a rate is made of, and that its age and lifetime are numbers.
LEMMA RateIs ==
    ASSUME FxTypeOK, NEW r \in Rate, NEW c \in Call
    PROVE  /\ r.call \in Call /\ r.source \in Provider /\ r.of \in Key /\ r.asOf \in Nat
           /\ r # None
           /\ waited[c] \in Nat /\ waited[r.call] \in Nat /\ TTL \in Nat /\ now \in Nat
           /\ Lifetime(r, c) = TTL + waited[c] + waited[r.call]
<1>1. r.call \in Call /\ r.source \in Provider /\ r.of \in Key /\ r.asOf \in Nat
  BY DEF Rate
<1> QED
  BY <1>1, TimeAssumption, NoRateAssumption DEF FxTypeOK, Lifetime

LEMMA AfterFailureStep ==
    ASSUME ServiceInv, NEW c \in Call, AfterFailure(c), key[c] \in Key
    PROVE  /\ pc' \in [Call -> Location] /\ provider' \in [Call -> Provider]
           /\ failed' \in [Call -> 0..(Attempts - 1)] /\ due' \in [Call -> Int]
           /\ ans' \in [Call -> Answer \cup {None}]
           /\ pc'[c] \in {"backoff", "calling", "answered"}
           /\ ans'[c] # ans[c] => /\ pc'[c] = "answered" /\ ans'[c] # None
                                  /\ ans'[c].label \in {"DEFAULT", "ERROR"} /\ ~ans'[c].fromCache
           /\ \A d \in Call \ {c} :
                pc'[d] = pc[d] /\ provider'[d] = provider[d] /\ ans'[d] = ans[d]
<1> USE TimeAssumption DEF ServiceInv
<1>1. CASE ~Rates(c) /\ failed[c] + 1 < Attempts
  <2>1. Delay(failed[c]) \in Int
    BY BackoffIs DEF Delay, FxTypeOK
  <2>2. /\ failed' = [failed EXCEPT ![c] = @ + 1]
        /\ due' = [due EXCEPT ![c] = now + Delay(failed[c])]
        /\ pc' = [pc EXCEPT ![c] = "backoff"]
        /\ UNCHANGED <<provider, ans>>
    BY <1>1 DEF AfterFailure
  <2> QED
    BY <1>1, <2>1, <2>2 DEF FxTypeOK, Location
<1>2. CASE ~(~Rates(c) /\ failed[c] + 1 < Attempts) /\ provider[c] = "primary"
  BY <1>2 DEF AfterFailure, FxTypeOK, Location, Provider
<1>3. CASE ~(~Rates(c) /\ failed[c] + 1 < Attempts) /\ provider[c] # "primary"
  <2> DEFINE a == [label |-> IF Rates(c) \/ key[c] \in Known THEN "DEFAULT" ELSE "ERROR",
                   rate |-> None, fromCache |-> FALSE, at |-> now]
  <2>1. a \in Answer /\ a # None /\ a.label \in {"DEFAULT", "ERROR"} /\ ~a.fromCache
    BY AnswerType, NoRateAssumption
  <2>2. /\ ans' = [ans EXCEPT ![c] = a] /\ pc' = [pc EXCEPT ![c] = "answered"]
        /\ failed' = [failed EXCEPT ![c] = 0]
        /\ UNCHANGED <<provider, due>>
    BY <1>3 DEF AfterFailure, Answered
  <2> HIDE DEF a
  <2> QED
    BY <2>1, <2>2 DEF FxTypeOK, Location
<1> QED
  BY <1>1, <1>2, <1>3

LEMMA TripStep ==
    ASSUME FxTypeOK, NEW c \in Call, Trip(c)
    PROVE  breaker' \in [Provider -> Breaker] /\ since' \in [Provider -> 0..MaxNow]
BY DEF FxTypeOK, Trip, Breaker

\* A step that gives no answer from a provider keeps what the answers say.
LEMMA AnswersKept ==
    ASSUME ServiceInv, UNCHANGED <<began, waited>>,
           \A d \in Call : pc[d] # "idle" => key'[d] = key[d],
           \A d \in Call : ans'[d] = ans[d] \/ (ans'[d].label \in {"DEFAULT", "ERROR"} /\ ~ans'[d].fromCache)
    PROVE  SourceIsTrue' /\ AnswersAreFresh'
BY DEF ServiceInv, HandlerInv, SourceIsTrue, AnswersAreFresh, Provider, Age, Lifetime

\* An attempt fails, by the breaker, a time limit or the provider.
LEMMA FailureStep ==
    ASSUME ServiceInv, NEW c \in Call, AfterFailure(c), pc[c] \in {"calling", "waiting"},
           Trip(c) \/ UNCHANGED <<breaker, since>>,
           http' \subseteq http, healthy' \in [Provider -> BOOLEAN],
           UNCHANGED <<now, connected, cache, key, began, rate, waited>>
    PROVE  ServiceInv'
<1> USE DEF ServiceInv
<1>1. key[c] \in Key
  BY DEF HandlerInv
<1>2. breaker' \in [Provider -> Breaker] /\ since' \in [Provider -> 0..MaxNow]
  BY TripStep DEF FxTypeOK
<1>3. FxTypeOK'
  BY <1>1, <1>2, AfterFailureStep DEF FxTypeOK
<1>4. HandlerInv'
  BY <1>1, AfterFailureStep DEF HandlerInv, Provider, Age, Lifetime
<1>5. HttpInv'
  BY <1>1, AfterFailureStep DEF HttpInv, FxTypeOK, HttpRequest
<1>6. CacheInv'
  BY DEF CacheInv, Age
<1>7. SourceIsTrue' /\ AnswersAreFresh'
  BY <1>1, AfterFailureStep, AnswersKept
<1> QED
  BY <1>3, <1>4, <1>5, <1>6, <1>7

LEMMA ArriveInv ==
    ASSUME ServiceInv, NEW c \in Call, NEW k \in Key, Arrive(c, k)
    PROVE  ServiceInv'
<1> USE TimeAssumption DEF ServiceInv, Arrive
<1>1. FxTypeOK'
  BY DEF FxTypeOK, Location
<1>2. HandlerInv' /\ HttpInv' /\ CacheInv'
  BY DEF FxTypeOK, HandlerInv, HttpInv, CacheInv, Age, Lifetime
<1>3. SourceIsTrue' /\ AnswersAreFresh'
  BY DEF FxTypeOK, HandlerInv, SourceIsTrue, AnswersAreFresh, Age, Lifetime
<1> QED
  BY <1>1, <1>2, <1>3

\* A handler waits, gives an answer with the rate of a provider, or Redis works
\* for it.
LEMMA AnswerStep ==
    ASSUME ServiceInv, NEW c \in Call, NEW a \in Answer, Answered(c, a),
           pc[c] \in {"hit", "waiting", "storing"},
           rate' \in [Call -> Rate \cup {None}], \A d \in Call \ {c} : rate'[d] = rate[d],
           http' \subseteq http, healthy' \in [Provider -> BOOLEAN],
           breaker' \in [Provider -> Breaker],
           a.label \in Provider, a.rate \in Rate, a.rate.source = a.label, a.rate.of = key[c],
           a.fromCache => Age(a.rate, a.at) < Lifetime(a.rate, c),
           ~a.fromCache => /\ a.rate.call = c /\ a.rate.asOf >= began[c]
                           /\ Age(a.rate, a.at) <= waited[c],
           UNCHANGED <<now, connected, cache, since, key, began, provider, failed, due, waited>>
    PROVE  ServiceInv'
<1> USE DEF ServiceInv
<1>1. /\ pc' = [pc EXCEPT ![c] = "answered"] /\ ans' = [ans EXCEPT ![c] = a] /\ a # None
      /\ a.rate # None
  BY NoRateAssumption DEF Answered
<1>2. FxTypeOK'
  BY <1>1 DEF FxTypeOK, Location
<1>3. HandlerInv' /\ HttpInv' /\ CacheInv'
  BY <1>1 DEF FxTypeOK, HandlerInv, HttpInv, CacheInv, HttpRequest, Age, Lifetime
<1>4. SourceIsTrue' /\ AnswersAreFresh'
  BY <1>1 DEF FxTypeOK, SourceIsTrue, AnswersAreFresh, Age, Lifetime
<1> QED
  BY <1>2, <1>3, <1>4

LEMMA CacheHitInv ==
    ASSUME ServiceInv, NEW c \in Call, CacheHit(c)
    PROVE  ServiceInv'
<1> DEFINE r == rate[c]
           a == Given(r.source, r, TRUE)
<1>1. /\ r \in Rate /\ r.of = key[c] /\ Age(r, now) < Lifetime(r, c)
  BY DEF CacheHit, ServiceInv, HandlerInv
<1>2. r.source \in Provider
  BY <1>1, RateIs DEF ServiceInv
<1> HIDE DEF r
<1>3. a \in Answer /\ a.label = r.source /\ a.rate = r /\ a.fromCache = TRUE /\ a.at = now
  BY <1>1, <1>2, GivenType DEF ServiceInv
<1>4. Answered(c, a)
  BY DEF CacheHit, r
<1>5. /\ rate' \in [Call -> Rate \cup {None}] /\ healthy' \in [Provider -> BOOLEAN]
      /\ breaker' \in [Provider -> Breaker]
  BY DEF CacheHit, ServiceInv, FxTypeOK
<1> HIDE DEF a
<1> QED
  BY <1>1, <1>2, <1>3, <1>4, <1>5, AnswerStep DEF CacheHit

LEMMA StoreEndsInv ==
    ASSUME ServiceInv, NEW c \in Call, StoreEnds(c)
    PROVE  ServiceInv'
<1> DEFINE r == rate[c]
           a == Given(provider[c], r, FALSE)
<1>1. /\ r \in Rate /\ r.source = provider[c] /\ r.call = c /\ r.of = key[c]
      /\ r.asOf >= began[c] /\ Age(r, now) <= waited[c]
  BY DEF StoreEnds, ServiceInv, HandlerInv
<1>2. provider[c] \in Provider
  BY DEF ServiceInv, FxTypeOK
<1> HIDE DEF r
<1>3. a \in Answer /\ a.label = provider[c] /\ a.rate = r /\ a.fromCache = FALSE /\ a.at = now
  BY <1>1, <1>2, GivenType DEF ServiceInv
<1>4. Answered(c, a)
  BY DEF StoreEnds, r
<1>5. /\ rate' \in [Call -> Rate \cup {None}] /\ healthy' \in [Provider -> BOOLEAN]
      /\ breaker' \in [Provider -> Breaker]
  BY DEF StoreEnds, ServiceInv, FxTypeOK
<1> HIDE DEF a
<1> QED
  BY <1>1, <1>2, <1>3, <1>4, <1>5, AnswerStep DEF StoreEnds

\* Redis finds a living entry, or the reply is lost: c waits on.
LEMMA RedisReadsInv ==
    ASSUME ServiceInv, NEW c \in Call, RedisReads(c) \/ ReplyLost(c)
    PROVE  ServiceInv'
<1> USE DEF ServiceInv
<1>1. CASE RedisReads(c)
  <2> DEFINE entry == cache[key[c]]
             r == entry.rate
  <2>1. key[c] \in Key /\ entry \in CacheEntry /\ now - entry.storedAt < TTL
    BY <1>1 DEF RedisReads, Fresh, HandlerInv, FxTypeOK
  <2>2. /\ r \in Rate /\ entry.storedAt \in Nat /\ r.of = key[c]
        /\ Age(r, entry.storedAt) <= waited[r.call]
    BY <1>1, <2>1 DEF RedisReads, Fresh, CacheEntry, CacheInv
  <2>3. /\ rate' = [rate EXCEPT ![c] = r] /\ pc' = [pc EXCEPT ![c] = "hit"] /\ pc[c] = "reading"
        /\ UNCHANGED <<now, connected, cache, breaker, since, healthy, http,
                       key, began, provider, failed, due, ans, waited>>
    BY <1>1 DEF RedisReads
  <2>4. now - entry.storedAt < TTL /\ entry.storedAt \in Nat
    BY <2>1, <2>2
  <2> HIDE DEF r
  <2>5. Age(r, now) < Lifetime(r, c)
    BY <2>2, <2>4, RateIs DEF Age
  <2>6. FxTypeOK'
    BY <2>2, <2>3 DEF FxTypeOK, Location
  <2>7. HandlerInv' /\ HttpInv' /\ CacheInv'
    BY <2>2, <2>3, <2>5 DEF FxTypeOK, HandlerInv, HttpInv, CacheInv, Age, Lifetime
  <2>8. SourceIsTrue' /\ AnswersAreFresh'
    BY <2>3, AnswersKept
  <2> QED
    BY <2>6, <2>7, <2>8
<1>2. CASE ReplyLost(c)
  <2>1. FxTypeOK'
    BY <1>2 DEF ReplyLost, FxTypeOK, Location
  <2>2. HandlerInv' /\ HttpInv' /\ CacheInv'
    BY <1>2 DEF ReplyLost, FxTypeOK, HandlerInv, HttpInv, CacheInv, Age, Lifetime
  <2>3. SourceIsTrue' /\ AnswersAreFresh'
    BY <1>2, AnswersKept DEF ReplyLost
  <2> QED
    BY <2>1, <2>2, <2>3
<1> QED
  BY <1>1, <1>2

LEMMA RedisStoresInv ==
    ASSUME ServiceInv, NEW c \in Call, RedisStores(c)
    PROVE  ServiceInv'
<1> USE DEF ServiceInv
<1> DEFINE entry == [rate |-> rate[c], storedAt |-> now]
<1>1. /\ rate[c] \in Rate /\ rate[c].call = c /\ rate[c].of = key[c] /\ key[c] \in Key
      /\ Age(rate[c], now) <= waited[c] /\ now \in Nat
  BY DEF RedisStores, HandlerInv, FxTypeOK
<1>2. entry \in CacheEntry /\ entry.rate = rate[c] /\ entry.storedAt = now
  BY <1>1 DEF CacheEntry
<1>3. /\ cache' = [cache EXCEPT ![key[c]] = entry]
      /\ UNCHANGED <<now, connected, breaker, since, healthy, http,
                     pc, key, began, provider, failed, due, rate, ans, waited>>
  BY DEF RedisStores
<1> HIDE DEF entry
<1>4. FxTypeOK'
  BY <1>1, <1>2, <1>3 DEF FxTypeOK
<1>5. HandlerInv' /\ HttpInv'
  BY <1>3 DEF HandlerInv, HttpInv, Age, Lifetime
<1>6. CacheInv'
  BY <1>1, <1>2, <1>3 DEF FxTypeOK, CacheInv, Age
<1>7. SourceIsTrue' /\ AnswersAreFresh'
  BY <1>3, AnswersKept
<1> QED
  BY <1>4, <1>5, <1>6, <1>7

\* A handler goes on without an answer.
LEMMA MoveStep ==
    ASSUME ServiceInv, NEW c \in Call, pc[c] \notin {"idle", "answered"},
           NEW l \in {"calling", "waiting"}, pc' = [pc EXCEPT ![c] = l],
           breaker' \in [Provider -> Breaker],
           due' \in [Call -> Int],
           http' \subseteq HttpRequest,
           \A h \in http' \ http : h.call = c /\ h.sent = now,
           UNCHANGED <<now, connected, cache, since, healthy, key, began, provider,
                       failed, rate, ans, waited>>
    PROVE  ServiceInv'
<1> USE DEF ServiceInv
<1>1. FxTypeOK'
  BY DEF FxTypeOK, Location, Provider
<1>2. HandlerInv' /\ CacheInv'
  BY DEF FxTypeOK, HandlerInv, CacheInv, Age, Lifetime
<1>3. HttpInv'
  BY DEF FxTypeOK, HttpInv, HttpRequest
<1>4. SourceIsTrue' /\ AnswersAreFresh'
  BY AnswersKept
<1> QED
  BY <1>1, <1>2, <1>3, <1>4

LEMMA SendInv ==
    ASSUME ServiceInv, NEW c \in Call, Fire(c) \/ CallDirectly(c)
    PROVE  ServiceInv'
<1> DEFINE h == [call |-> c, provider |-> provider[c], attempt |-> failed[c], sent |-> now]
<1>1. PICK limit \in {BreakerTimeout, ApiTimeout} : Send(c, limit)
  BY DEF Fire, CallDirectly
<1>2. h \in HttpRequest /\ h.call = c /\ h.sent = now
  BY TimeAssumption DEF ServiceInv, FxTypeOK, HttpRequest
<1>3. breaker' \in [Provider -> Breaker]
  BY DEF Fire, CallDirectly, ServiceInv, FxTypeOK, Breaker
<1>4. due' \in [Call -> Int]
  BY <1>1, TimeAssumption DEF Send, ServiceInv, FxTypeOK
<1>5. http' = http \cup {h}
  BY <1>1 DEF Send
<1> HIDE DEF h
<1>6. http' \subseteq HttpRequest /\ \A g \in http' \ http : g.call = c /\ g.sent = now
  BY <1>2, <1>5 DEF ServiceInv, FxTypeOK
<1>7. pc[c] = "calling"
  BY DEF Fire, CallDirectly
<1> QED
  BY <1>1, <1>3, <1>4, <1>6, <1>7, MoveStep DEF Send

LEMMA HandleInv ==
    ASSUME ServiceInv, NEW c \in Call, Handle(c)
    PROVE  ServiceInv'
<1>1. CASE CacheMiss(c)
  <2>1. breaker' \in [Provider -> Breaker] /\ due' \in [Call -> Int] /\ http' \subseteq HttpRequest
    BY <1>1 DEF CacheMiss, ServiceInv, FxTypeOK
  <2> QED
    BY <1>1, <2>1, MoveStep DEF CacheMiss
<1>2. CASE Wake(c)
  <2>1. breaker' \in [Provider -> Breaker] /\ due' \in [Call -> Int] /\ http' \subseteq HttpRequest
    BY <1>2 DEF Wake, ServiceInv, FxTypeOK
  <2> QED
    BY <1>2, <2>1, MoveStep DEF Wake
<1>3. CASE Reject(c) \/ BreakerTimesOut(c)
  <2>1. healthy' \in [Provider -> BOOLEAN]
    BY <1>3 DEF Reject, BreakerTimesOut, ServiceInv, FxTypeOK
  <2> QED
    BY <1>3, <2>1, FailureStep DEF Reject, BreakerTimesOut
<1> QED
  BY <1>1, <1>2, <1>3, CacheHitInv, StoreEndsInv, RedisReadsInv, SendInv DEF Handle

LEMMA ProvideInv ==
    ASSUME ServiceInv, NEW h \in http, ProviderAnswers(h) \/ ProviderFails(h)
    PROVE  ServiceInv'
<1> USE DEF ServiceInv
<1>1. /\ h.call \in Call /\ h.provider \in Provider /\ pc[h.call] # "idle"
      /\ http' = http \ {h} /\ healthy' \in [Provider -> BOOLEAN]
  BY DEF ProviderAnswers, ProviderFails, FxTypeOK, HttpRequest, HttpInv
<1>2. CASE Awaited(h) /\ ProviderFails(h)
  BY <1>1, <1>2, FailureStep DEF Awaited, ProviderFails
<1>3. CASE Awaited(h) /\ ProviderAnswers(h)
  <2> DEFINE c == h.call
             r == [source |-> h.provider, call |-> c, of |-> key[c], asOf |-> now]
  <2>1. /\ r \in Rate /\ r.source = provider[c] /\ r.call = c /\ r.of = key[c] /\ r.asOf = now
        /\ c \in Call /\ provider[c] \in Provider /\ now \in Nat /\ waited[c] \in Nat
        /\ began[c] <= now
    BY <1>1, <1>3 DEF Awaited, HandlerInv, FxTypeOK, Rate
  <2>2. /\ rate' = [rate EXCEPT ![c] = r] /\ breaker' \in [Provider -> Breaker]
        /\ UNCHANGED <<now, connected, cache, since, key, began, provider, failed, due, waited>>
        /\ pc[c] = "waiting"
        /\ \/ pc' = [pc EXCEPT ![c] = "storing"] /\ UNCHANGED ans
           \/ Answered(c, Given(provider[c], r, FALSE))
    BY <1>1, <1>3 DEF ProviderAnswers, Awaited, FxTypeOK, Breaker
  <2> HIDE DEF r, c
  <2>3. rate' \in [Call -> Rate \cup {None}] /\ \A d \in Call \ {c} : rate'[d] = rate[d]
    BY <2>1, <2>2 DEF FxTypeOK
  <2>4. Age(r, now) <= waited[c] /\ r.asOf >= began[c]
    BY <2>1 DEF Age, FxTypeOK
  <2>5. CASE pc' = [pc EXCEPT ![c] = "storing"] /\ UNCHANGED ans
    <3>1. FxTypeOK'
      BY <1>1, <2>1, <2>2, <2>3, <2>5 DEF FxTypeOK, Location
    <3>2. HandlerInv' /\ CacheInv' /\ HttpInv'
      BY <1>1, <2>1, <2>2, <2>4, <2>5 DEF FxTypeOK, HandlerInv, CacheInv, HttpInv, HttpRequest,
                                         Age, Lifetime
    <3>3. SourceIsTrue' /\ AnswersAreFresh'
      BY <2>2, <2>5, AnswersKept
    <3> QED
      BY <3>1, <3>2, <3>3
  <2>6. CASE Answered(c, Given(provider[c], r, FALSE))
    <3> DEFINE a == Given(provider[c], r, FALSE)
    <3>1. a \in Answer /\ a.label = provider[c] /\ a.rate = r /\ a.fromCache = FALSE /\ a.at = now
      BY <2>1, GivenType
    <3> HIDE DEF a
    <3> QED
      BY <1>1, <2>1, <2>2, <2>3, <2>4, <2>6, <3>1, AnswerStep DEF a
  <2> QED
    BY <2>2, <2>5, <2>6
<1>4. CASE ~Awaited(h)
  <2>1. UNCHANGED <<now, connected, cache, breaker, since, pc, key, began,
                    provider, failed, due, rate, ans, waited>>
    BY <1>4 DEF ProviderAnswers, ProviderFails
  <2>2. FxTypeOK' /\ HandlerInv' /\ CacheInv' /\ HttpInv'
    BY <1>1, <2>1 DEF FxTypeOK, HandlerInv, CacheInv, HttpInv, Age, Lifetime
  <2>3. SourceIsTrue' /\ AnswersAreFresh'
    BY <2>1, AnswersKept
  <2> QED
    BY <2>2, <2>3
<1> QED
  BY <1>2, <1>3, <1>4

\* While time passes a rate that is read or stored grows older, and so does the
\* call that waits for Redis.
LEMMA TickInv ==
    ASSUME ServiceInv, Tick
    PROVE  ServiceInv'
<1> USE DEF ServiceInv
<1>1. /\ now' = now + 1 /\ now' \in 0..MaxNow /\ now \in Nat
      /\ UNCHANGED <<connected, cache, breaker, since, healthy, http,
                     pc, key, began, provider, failed, due, rate, ans>>
  BY TimeAssumption DEF Tick, FxTypeOK
<1>2. ASSUME NEW c \in Call
      PROVE  /\ waited[c] \in 0..MaxDelay /\ waited'[c] \in 0..MaxDelay /\ waited[c] <= waited'[c]
             /\ pc[c] \in AtRedis => waited'[c] = waited[c] + 1
  <2>1. waited'[c] = IF pc[c] \in AtRedis THEN waited[c] + 1 ELSE waited[c]
    BY DEF Tick
  <2>2. waited[c] \in 0..MaxDelay /\ (pc[c] \in AtRedis => waited[c] < MaxDelay)
    BY DEF Tick, FxTypeOK
  <2> QED
    BY <1>1, <2>1, <2>2, TimeAssumption
<1>3. FxTypeOK'
  <2>1. waited' \in [Call -> 0..MaxDelay]
    BY <1>2 DEF Tick
  <2> QED
    BY <1>1, <2>1 DEF FxTypeOK
<1>4. HandlerInv'
  <2> SUFFICES ASSUME NEW c \in Call
               PROVE  /\ began[c] <= now'
                      /\ ans[c] # None /\ ans[c].label \in Provider /\ ~ans[c].fromCache =>
                           Age(ans[c].rate, ans[c].at) <= waited'[c]
                      /\ pc[c] = "hit" => Age(rate[c], now') < Lifetime(rate[c], c)'
                      /\ pc[c] = "storing" => Age(rate[c], now') <= waited'[c]
    BY <1>1 DEF HandlerInv, Age
  <2>1. began[c] \in Nat /\ waited[c] \in Nat /\ waited'[c] \in Nat /\ waited[c] <= waited'[c]
    BY <1>2, TimeAssumption DEF FxTypeOK
  <2>2. began[c] <= now'
    BY <1>1, <2>1 DEF HandlerInv
  <2>3. ans[c] # None /\ ans[c].label \in Provider /\ ~ans[c].fromCache =>
          Age(ans[c].rate, ans[c].at) <= waited'[c]
    <3> SUFFICES ASSUME ans[c] # None, ans[c].label \in Provider, ~ans[c].fromCache
                 PROVE  Age(ans[c].rate, ans[c].at) <= waited'[c]
      OBVIOUS
    <3>1. ans[c] \in Answer /\ ans[c].rate # None
      BY DEF FxTypeOK, SourceIsTrue
    <3>2. ans[c].at \in Nat /\ ans[c].rate.asOf \in Nat
      BY <3>1 DEF Answer, Rate
    <3>3. Age(ans[c].rate, ans[c].at) <= waited[c]
      BY DEF HandlerInv
    <3> QED
      BY <2>1, <3>2, <3>3 DEF Age
  <2>4. ASSUME pc[c] = "hit"
        PROVE  Age(rate[c], now') < Lifetime(rate[c], c)'
    <3>1. rate[c] \in Rate /\ Age(rate[c], now) < Lifetime(rate[c], c)
      BY <2>4 DEF HandlerInv
    <3>2. rate[c].call \in Call /\ rate[c].asOf \in Nat /\ TTL \in Nat
      BY <3>1, RateIs
    <3>3. waited'[c] = waited[c] + 1
      BY <1>2, <2>4 DEF AtRedis
    <3>4. /\ waited[rate[c].call] \in Nat /\ waited'[rate[c].call] \in Nat
          /\ waited[rate[c].call] <= waited'[rate[c].call]
      BY <1>2, <3>2, TimeAssumption DEF FxTypeOK
    <3>5. Lifetime(rate[c], c)' = TTL + waited'[c] + waited'[rate[c].call]
      BY <1>1 DEF Lifetime
    <3> QED
      BY <1>1, <2>1, <3>1, <3>2, <3>3, <3>4, <3>5 DEF Age, Lifetime
  <2>5. ASSUME pc[c] = "storing"
        PROVE  Age(rate[c], now') <= waited'[c]
    <3>1. rate[c] \in Rate /\ Age(rate[c], now) <= waited[c]
      BY <2>5 DEF HandlerInv
    <3>2. rate[c].asOf \in Nat
      BY <3>1, RateIs
    <3>3. waited'[c] = waited[c] + 1
      BY <1>2, <2>5 DEF AtRedis
    <3> QED
      BY <1>1, <2>1, <3>1, <3>2, <3>3 DEF Age
  <2> QED
    BY <2>2, <2>3, <2>4, <2>5
<1>5. HttpInv'
  BY <1>1 DEF FxTypeOK, HttpInv, HttpRequest
<1>6. CacheInv'
  <2> SUFFICES ASSUME NEW k \in Key, cache[k] # None
               PROVE  /\ Age(cache[k].rate, cache[k].storedAt) <= waited'[cache[k].rate.call]
                      /\ cache[k].storedAt <= now'
    BY <1>1 DEF CacheInv, Age
  <2>1. cache[k].rate \in Rate /\ cache[k].storedAt \in Nat
    BY DEF FxTypeOK, CacheEntry
  <2>2. /\ cache[k].rate.call \in Call /\ cache[k].rate.asOf \in Nat
        /\ waited[cache[k].rate.call] \in Nat
        /\ waited'[cache[k].rate.call] \in Nat
        /\ waited[cache[k].rate.call] <= waited'[cache[k].rate.call]
    BY <1>2, <2>1, TimeAssumption DEF FxTypeOK, Rate
  <2>3. Age(cache[k].rate, cache[k].storedAt) <= waited[cache[k].rate.call] /\ cache[k].storedAt <= now
    BY DEF CacheInv
  <2> QED
    BY <1>1, <2>1, <2>2, <2>3 DEF Age
<1>7. SourceIsTrue'
  BY <1>1 DEF SourceIsTrue
<1>8. AnswersAreFresh'
  <2> SUFFICES ASSUME NEW c \in Call, ans[c] # None, ans[c].fromCache
               PROVE  Age(ans[c].rate, ans[c].at) < Lifetime(ans[c].rate, c)'
    BY <1>1 DEF AnswersAreFresh, Age
  <2>1. ans[c] \in Answer /\ ans[c].rate \in Rate
    BY DEF FxTypeOK, Answer, SourceIsTrue, HandlerInv
  <2>2. ans[c].at \in Nat
    BY <2>1 DEF Answer
  <2>3. ans[c].rate.call \in Call /\ ans[c].rate.asOf \in Nat /\ TTL \in Nat
    BY <2>1, RateIs
  <2>4. /\ \A d \in {c, ans[c].rate.call} : /\ waited[d] \in Nat /\ waited'[d] \in Nat
                                            /\ waited[d] <= waited'[d]
    BY <1>2, <2>3, TimeAssumption DEF FxTypeOK
  <2>5. Age(ans[c].rate, ans[c].at) < Lifetime(ans[c].rate, c)
    BY DEF AnswersAreFresh
  <2>6. Lifetime(ans[c].rate, c)' = TTL + waited'[c] + waited'[ans[c].rate.call]
    BY <1>1 DEF Lifetime
  <2> QED
    BY <2>2, <2>3, <2>4, <2>5, <2>6 DEF Age, Lifetime
<1> QED
  BY <1>3, <1>4, <1>5, <1>6, <1>7, <1>8

LEMMA FxInitInv == FxInit => ServiceInv
<1> SUFFICES ASSUME FxInit PROVE ServiceInv
  OBVIOUS
<1> USE DEF FxInit
<1>1. FxTypeOK
  BY TimeAssumption DEF FxTypeOK, Breaker, Location, Provider
<1>2. HandlerInv /\ HttpInv /\ CacheInv
  BY DEF HandlerInv, HttpInv, CacheInv
<1>3. SourceIsTrue /\ AnswersAreFresh
  BY DEF SourceIsTrue, AnswersAreFresh
<1> QED
  BY <1>1, <1>2, <1>3 DEF ServiceInv

LEMMA FxNextInv == ServiceInv /\ [FxNext]_fxVars => ServiceInv'
<1> SUFFICES ASSUME ServiceInv, [FxNext]_fxVars PROVE ServiceInv'
  OBVIOUS
<1>1. CASE UNCHANGED fxVars \/ RedisToggles \/ \E p \in Provider : HalfOpen(p)
  <2>1. UNCHANGED <<now, cache, since, healthy, http, pc, key, began, provider, failed, due, rate, ans,
                    waited>>
    BY <1>1 DEF fxVars, RedisToggles, HalfOpen
  <2>2. FxTypeOK'
    BY <1>1, <2>1 DEF fxVars, RedisToggles, HalfOpen, ServiceInv, FxTypeOK, Breaker
  <2>3. HandlerInv' /\ HttpInv' /\ CacheInv'
    BY <2>1 DEF ServiceInv, HandlerInv, HttpInv, CacheInv, Age, Lifetime
  <2>4. SourceIsTrue' /\ AnswersAreFresh'
    BY <2>1, AnswersKept
  <2> QED
    BY <2>2, <2>3, <2>4 DEF ServiceInv
<1>2. CASE \E c \in Call, k \in Key : Arrive(c, k)
  BY <1>2, ArriveInv
<1>3. CASE \E c \in Call : Handle(c)
  BY <1>3, HandleInv
<1>4. CASE Provide
  BY <1>4, ProvideInv DEF Provide
<1>5. CASE Tick
  BY <1>5, TickInv
<1>6. CASE Redis
  BY <1>6, RedisReadsInv, RedisStoresInv DEF Redis
<1> QED
  BY <1>1, <1>2, <1>3, <1>4, <1>5, <1>6 DEF FxNext

LEMMA FxInvariance == FxSpec => []ServiceInv
BY FxInitInv, FxNextInv, PTL DEF FxSpec
-----------------------------------------------------------------------------

\* The state of the FX service always has the shape FxTypeOK gives.
THEOREM FxTypeCorrect == FxSpec => []FxTypeOK
<1>1. ServiceInv => FxTypeOK
  BY DEF ServiceInv
<1> QED
  BY <1>1, FxInvariance, PTL

\* No answer carries a rate of another provider, another key or another call.
THEOREM SourcesAreTrue == FxSpec => []SourceIsTrue
<1>1. ServiceInv => SourceIsTrue
  BY DEF ServiceInv
<1> QED
  BY <1>1, FxInvariance, PTL

\* No answer from the cache is older than the lifetime of an entry.
THEOREM CachedAnswersAreFresh == FxSpec => []AnswersAreFresh
<1>1. ServiceInv => AnswersAreFresh
  BY DEF ServiceInv
<1> QED
  BY <1>1, FxInvariance, PTL
-----------------------------------------------------------------------------

\* Why open breakers shield: when a breaker opens, every request is older; none
\* is added until a half-open breaker lets its probe through.
Shielded(p) ==
    /\ since[p] <= now
    /\ breaker[p] \in {"open", "halfOpen"} => \A h \in Conversions(p) : h.sent <= since[p]
    /\ breaker[p] = "probing" =>
          \A g, h \in Conversions(p) :
              g.sent >= since[p] + ResetTimeout /\ h.sent >= since[p] + ResetTimeout => g = h

BreakerInv == \A p \in Provider : Shielded(p)

\* Requests that were conversions before are the only ones a step that sends
\* nothing leaves behind.
LEMMA ConversionsKept ==
    ASSUME ServiceInv, http' \subseteq http, NEW p \in Provider,
           \A d \in Call : pc[d] # "idle" => key'[d] = key[d]
    PROVE  Conversions(p)' \subseteq Conversions(p)
BY DEF ServiceInv, FxTypeOK, HttpInv, HttpRequest, Conversions, Rates

LEMMA BreakersKept ==
    ASSUME ServiceInv, BreakerInv, http' \subseteq http, now' \in Nat, now <= now',
           \A d \in Call : pc[d] # "idle" => key'[d] = key[d],
           since' = since,
           \A p \in Provider : breaker'[p] = breaker[p] \/ breaker'[p] = "closed"
    PROVE  BreakerInv'
<1> SUFFICES ASSUME NEW p \in Provider PROVE Shielded(p)'
  BY DEF BreakerInv
<1>1. Conversions(p)' \subseteq Conversions(p)
  BY ConversionsKept
<1>2. since[p] <= now /\ since[p] \in Nat /\ now \in Nat
  BY TimeAssumption DEF BreakerInv, Shielded, ServiceInv, FxTypeOK
<1> QED
  BY <1>1, <1>2 DEF BreakerInv, Shielded

LEMMA TripShields ==
    ASSUME ServiceInv, BreakerInv, NEW c \in Call, Trip(c),
           http' \subseteq http, UNCHANGED <<now, key>>
    PROVE  BreakerInv'
<1>1. CASE UNCHANGED <<breaker, since>>
  BY <1>1, BreakersKept, TimeAssumption DEF ServiceInv, FxTypeOK
<1>2. CASE /\ breaker' = [breaker EXCEPT ![provider[c]] = "open"]
           /\ since' = [since EXCEPT ![provider[c]] = now]
  <2> SUFFICES ASSUME NEW p \in Provider PROVE Shielded(p)'
    BY DEF BreakerInv
  <2>1. Conversions(p)' \subseteq Conversions(p)
    BY ConversionsKept
  <2>2. CASE p = provider[c]
    <3>1. breaker'[p] = "open" /\ since'[p] = now /\ now \in Nat
      BY <1>2, <2>2, TimeAssumption DEF ServiceInv, FxTypeOK
    <3>2. \A h \in Conversions(p) : h.sent <= now
      BY DEF Conversions, ServiceInv, HttpInv
    <3> QED
      BY <2>1, <3>1, <3>2 DEF Shielded
  <2>3. CASE p # provider[c]
    <3>1. breaker'[p] = breaker[p] /\ since'[p] = since[p]
      BY <1>2, <2>3 DEF ServiceInv, FxTypeOK
    <3> QED
      BY <2>1, <3>1 DEF BreakerInv, Shielded
  <2> QED
    BY <2>2, <2>3
<1> QED
  BY <1>1, <1>2 DEF Trip

\* The only request that joins those of a breaker that is not closed is the one
\* that makes a half-open breaker probe.
LEMMA FireShields ==
    ASSUME ServiceInv, BreakerInv, ResetTimeout > 0, NEW c \in Call, Fire(c)
    PROVE  BreakerInv'
<1> DEFINE new == [call |-> c, provider |-> provider[c], attempt |-> failed[c], sent |-> now]
<1>1. /\ http' = http \cup {new} /\ since' = since /\ now' = now /\ key' = key
      /\ provider[c] \in Provider /\ now \in Nat
      /\ new.provider = provider[c]
  BY TimeAssumption DEF Fire, Send, ServiceInv, FxTypeOK
<1> HIDE DEF new
<1> SUFFICES ASSUME NEW p \in Provider PROVE Shielded(p)'
  BY DEF BreakerInv
<1>2. since[p] <= now /\ since[p] \in Nat /\ ResetTimeout \in Nat
  BY TimeAssumption DEF BreakerInv, Shielded, ServiceInv, FxTypeOK
<1>3. Conversions(p)' \subseteq Conversions(p) \cup (IF p = provider[c] THEN {new} ELSE {})
  BY <1>1 DEF Conversions, Rates
<1>4. \A h \in Conversions(p) : h.sent \in Nat
  BY DEF Conversions, ServiceInv, FxTypeOK, HttpRequest
<1>5. CASE p # provider[c]
  <2>1. breaker'[p] = breaker[p]
    BY <1>5 DEF Fire, ServiceInv, FxTypeOK
  <2> QED
    BY <1>1, <1>3, <1>5, <2>1 DEF BreakerInv, Shielded
<1>6. CASE p = provider[c] /\ breaker[p] = "closed"
  <2>1. breaker'[p] = "closed"
    BY <1>6 DEF Fire, ServiceInv, FxTypeOK
  <2> QED
    BY <1>1, <1>2, <2>1 DEF Shielded
<1>7. CASE p = provider[c] /\ breaker[p] = "halfOpen"
  <2>1. breaker'[p] = "probing"
    BY <1>7 DEF Fire, ServiceInv, FxTypeOK
  <2>2. \A h \in Conversions(p) : ~(h.sent >= since[p] + ResetTimeout)
    BY <1>2, <1>4, <1>7 DEF BreakerInv, Shielded
  <2> QED
    BY <1>1, <1>2, <1>3, <1>7, <2>1, <2>2 DEF Shielded
<1> QED
  BY <1>5, <1>6, <1>7 DEF Fire

\* A getRates call passes the breakers by, and is not counted among what they shield.
LEMMA DirectShields ==
    ASSUME ServiceInv, BreakerInv, NEW c \in Call, CallDirectly(c)
    PROVE  BreakerInv'
<1> SUFFICES ASSUME NEW p \in Provider PROVE Shielded(p)'
  BY DEF BreakerInv
<1>1. Conversions(p)' \subseteq Conversions(p)
  BY DEF CallDirectly, Send, Conversions, Rates
<1> QED
  BY <1>1 DEF CallDirectly, Send, BreakerInv, Shielded

LEMMA BreakerStep ==
    ASSUME ServiceInv, BreakerInv, ResetTimeout > 0, [FxNext]_fxVars
    PROVE  BreakerInv'
<1>0. now \in Nat
  BY TimeAssumption DEF ServiceInv, FxTypeOK
<1>1. CASE UNCHANGED fxVars \/ RedisToggles \/ Tick \/ Redis
  <2>1. UNCHANGED <<http, key, since, breaker>> /\ (now' = now \/ now' = now + 1)
    BY <1>1 DEF fxVars, RedisToggles, Tick, Redis, RedisReads, RedisStores
  <2>2. now' \in Nat /\ now <= now'
    BY <1>0, <2>1
  <2> QED
    BY <2>1, <2>2, BreakersKept
<1>2. ASSUME NEW p \in Provider, HalfOpen(p)
      PROVE  BreakerInv'
  <2> SUFFICES ASSUME NEW q \in Provider PROVE Shielded(q)'
    BY DEF BreakerInv
  <2>1. Conversions(q)' \subseteq Conversions(q)
    BY <1>2, ConversionsKept DEF HalfOpen
  <2>2. breaker'[q] = breaker[q] \/ (breaker[q] = "open" /\ breaker'[q] = "halfOpen")
    BY <1>2 DEF HalfOpen, ServiceInv, FxTypeOK
  <2> QED
    BY <1>2, <2>1, <2>2 DEF HalfOpen, BreakerInv, Shielded
<1>3. ASSUME NEW c \in Call, NEW k \in Key, Arrive(c, k)
      PROVE  BreakerInv'
  BY <1>3, BreakersKept DEF Arrive, ServiceInv, FxTypeOK
<1>4. ASSUME NEW c \in Call, Handle(c)
      PROVE  BreakerInv'
  <2>1. CASE ReplyLost(c) \/ CacheHit(c) \/ CacheMiss(c) \/ StoreEnds(c) \/ Reject(c) \/ Wake(c)
    <3>1. UNCHANGED <<now, http, key, since, breaker>>
      BY <2>1 DEF ReplyLost, CacheHit, CacheMiss, StoreEnds, Reject, Wake
    <3>2. now' \in Nat /\ now <= now'
      BY <1>0, <3>1
    <3> QED
      BY <3>1, <3>2, BreakersKept
  <2>2. CASE BreakerTimesOut(c)
    BY <2>2, TripShields DEF BreakerTimesOut
  <2> QED
    BY <1>4, <2>1, <2>2, FireShields, DirectShields DEF Handle
<1>5. ASSUME NEW h \in http, ProviderAnswers(h) \/ ProviderFails(h)
      PROVE  BreakerInv'
  <2>1. CASE ProviderAnswers(h)
    <3>1. \A p \in Provider : breaker'[p] = breaker[p] \/ breaker'[p] = "closed"
      BY <2>1 DEF ProviderAnswers, ServiceInv, FxTypeOK
    <3> QED
      BY <2>1, <3>1, BreakersKept DEF ProviderAnswers, ServiceInv, FxTypeOK
  <2>2. CASE ProviderFails(h) /\ Awaited(h)
    BY <2>2, TripShields DEF ProviderFails, ServiceInv, FxTypeOK, HttpRequest
  <2>3. CASE ProviderFails(h) /\ ~Awaited(h)
    BY <2>3, BreakersKept DEF ProviderFails, ServiceInv, FxTypeOK
  <2> QED
    BY <1>5, <2>1, <2>2, <2>3
<1> QED
  BY <1>1, <1>2, <1>3, <1>4, <1>5 DEF FxNext, Provide

\* While the breaker of a provider is open no conversion reaches it, and a
\* half-open one lets a single request through, if it stays open for any time.
THEOREM BreakersShield ==
    ASSUME ResetTimeout > 0
    PROVE  FxSpec => []BreakerShields
<1>1. FxInit => BreakerInv
  BY DEF FxInit, BreakerInv, Shielded, Conversions
<1>2. ServiceInv /\ BreakerInv /\ [FxNext]_fxVars => BreakerInv'
  BY BreakerStep
<1>3. ServiceInv /\ BreakerInv => BreakerShields
  <2> SUFFICES ASSUME ServiceInv, BreakerInv, NEW p \in Provider
               PROVE  /\ breaker[p] = "open" => \A h \in Conversions(p) : h.sent <= since[p]
                      /\ breaker[p] \in {"halfOpen", "probing"} =>
                            \A g, h \in Conversions(p) :
                                g.sent >= since[p] + ResetTimeout /\ h.sent >= since[p] + ResetTimeout
                                  => breaker[p] = "probing" /\ g = h
    BY DEF BreakerShields
  <2>1. since[p] \in Nat /\ ResetTimeout \in Nat /\ \A h \in Conversions(p) : h.sent \in Nat
    BY TimeAssumption DEF Conversions, ServiceInv, FxTypeOK, HttpRequest
  <2> QED
    BY <2>1 DEF BreakerInv, Shielded
<1> QED
  BY <1>1, <1>2, <1>3, FxInvariance, PTL DEF FxSpec
-----------------------------------------------------------------------------

\* Why a fallback provider that answers at once is always enough: its breaker
\* never opens, and time does not pass while a call waits for it.
AwaitedAtFallback(c) ==
    /\ due[c] > now
    /\ \E h \in http : h.call = c /\ h.provider = "fallback" /\ h.attempt = failed[c]

FallbackInv ==
    /\ breaker["fallback"] = "closed"
    /\ \A c \in Call : pc[c] = "waiting" /\ provider[c] = "fallback" => AwaitedAtFallback(c)
    /\ \A c \in Call : ans[c] # None => ans[c].label \notin {"DEFAULT", "ERROR"}

\* Only attempts at the primary provider fail.
LEMMA PrimaryFails ==
    ASSUME ServiceInv, FallbackInv, NEW c \in Call, AfterFailure(c), provider[c] = "primary",
           Trip(c) \/ UNCHANGED breaker,
           http' \subseteq http, \A h \in http \ http' : h.call = c,
           now' = now
    PROVE  FallbackInv'
<1>1. breaker'["fallback"] = "closed"
  BY DEF Trip, FallbackInv, ServiceInv, FxTypeOK, Provider
<1>2. /\ pc'[c] # "waiting" /\ ans' = ans
      /\ \A d \in Call \ {c} :
           pc'[d] = pc[d] /\ provider'[d] = provider[d] /\ failed'[d] = failed[d] /\ due'[d] = due[d]
  BY DEF AfterFailure, ServiceInv, FxTypeOK
<1>3. ASSUME NEW d \in Call, pc'[d] = "waiting", provider'[d] = "fallback"
      PROVE  AwaitedAtFallback(d)'
  BY <1>2, <1>3 DEF FallbackInv, AwaitedAtFallback
<1> QED
  BY <1>1, <1>2, <1>3 DEF FallbackInv

LEMMA FallbackHandle ==
    ASSUME "fallback" \in Reliable, ServiceInv, FallbackInv, NEW c \in Call, Handle(c)
    PROVE  FallbackInv'
<1> USE DEF ServiceInv
<1>1. CASE CacheHit(c) \/ StoreEnds(c)
  <2>1. /\ now' = now /\ UNCHANGED <<breaker, http, provider, failed, due>>
        /\ pc' = [pc EXCEPT ![c] = "answered"]
    BY <1>1 DEF CacheHit, StoreEnds, Answered
  <2>2. \E a : ans' = [ans EXCEPT ![c] = a] /\ a.label \in Provider
    <3>1. CASE CacheHit(c)
      <4>1. rate[c] \in Rate
        BY <3>1 DEF CacheHit, HandlerInv
      <4>2. Given(rate[c].source, rate[c], TRUE).label \in Provider
        BY <4>1, RateIs, GivenType
      <4> QED
        BY <3>1, <4>2 DEF CacheHit, Answered
    <3>2. CASE StoreEnds(c)
      <4>1. rate[c] \in Rate /\ provider[c] \in Provider
        BY <3>2 DEF StoreEnds, HandlerInv, FxTypeOK
      <4>2. Given(provider[c], rate[c], FALSE).label \in Provider
        BY <4>1, GivenType
      <4> QED
        BY <3>2, <4>2 DEF StoreEnds, Answered
    <3> QED
      BY <1>1, <3>1, <3>2
  <2>3. \A d \in Call : ans'[d] # None => ans'[d].label \notin {"DEFAULT", "ERROR"}
    BY <2>2 DEF FallbackInv, FxTypeOK, Provider
  <2>4. ASSUME NEW d \in Call, pc'[d] = "waiting", provider'[d] = "fallback"
        PROVE  AwaitedAtFallback(d)'
    BY <2>1, <2>4 DEF FallbackInv, AwaitedAtFallback, FxTypeOK
  <2> QED
    BY <2>1, <2>3, <2>4 DEF FallbackInv
<1>2. CASE ReplyLost(c) \/ CacheMiss(c) \/ Wake(c)
  <2>1. /\ now' = now /\ UNCHANGED <<breaker, http, provider, failed, due, ans>>
        /\ \E l \in {"reading", "calling"} : pc' = [pc EXCEPT ![c] = l]
    BY <1>2 DEF ReplyLost, CacheMiss, Wake
  <2>2. ASSUME NEW d \in Call, pc'[d] = "waiting", provider'[d] = "fallback"
        PROVE  AwaitedAtFallback(d)'
    BY <2>1, <2>2 DEF FallbackInv, AwaitedAtFallback, FxTypeOK
  <2> QED
    BY <2>1, <2>2 DEF FallbackInv
<1>3. CASE Fire(c) \/ CallDirectly(c)
  <2> DEFINE h == [call |-> c, provider |-> provider[c], attempt |-> failed[c], sent |-> now]
  <2>1. PICK limit \in {BreakerTimeout, ApiTimeout} : Send(c, limit)
    BY <1>3 DEF Fire, CallDirectly
  <2>2. /\ now' = now /\ UNCHANGED <<provider, failed, ans>>
        /\ pc' = [pc EXCEPT ![c] = "waiting"]
        /\ due' = [due EXCEPT ![c] = now + limit]
        /\ http' = http \cup {h}
    BY <2>1 DEF Send
  <2>3. breaker'["fallback"] = "closed"
    BY <1>3 DEF Fire, CallDirectly, FallbackInv, FxTypeOK, Provider
  <2>4. h.call = c /\ h.provider = provider[c] /\ h.attempt = failed[c]
    OBVIOUS
  <2> HIDE DEF h
  <2>5. now + limit > now
    BY <2>1, TimeAssumption DEF FxTypeOK
  <2>6. ASSUME NEW d \in Call, pc'[d] = "waiting", provider'[d] = "fallback"
        PROVE  AwaitedAtFallback(d)'
    <3>1. CASE d = c
      BY <2>2, <2>4, <2>5, <2>6, <3>1 DEF AwaitedAtFallback, FxTypeOK
    <3>2. CASE d # c
      BY <2>2, <2>6, <3>2 DEF FallbackInv, AwaitedAtFallback, FxTypeOK
    <3> QED
      BY <3>1, <3>2
  <2> QED
    BY <2>2, <2>3, <2>6 DEF FallbackInv
<1>4. CASE Reject(c) \/ BreakerTimesOut(c)
  <2>1. provider[c] = "primary"
    BY <1>4 DEF Reject, BreakerTimesOut, FallbackInv, AwaitedAtFallback, FxTypeOK, Provider
  <2> QED
    BY <1>4, <2>1, PrimaryFails DEF Reject, BreakerTimesOut
<1> QED
  BY <1>1, <1>2, <1>3, <1>4 DEF Handle

LEMMA FallbackProvide ==
    ASSUME "fallback" \in Reliable, ServiceInv, FallbackInv,
           NEW h \in http, ProviderAnswers(h) \/ ProviderFails(h)
    PROVE  FallbackInv'
<1> USE DEF ServiceInv
<1>1. h.call \in Call /\ h.provider \in Provider /\ http' = http \ {h} /\ now' = now
  BY DEF ProviderAnswers, ProviderFails, FxTypeOK, HttpRequest
<1>2. CASE ProviderFails(h) /\ Awaited(h)
  BY <1>1, <1>2, PrimaryFails DEF ProviderFails, Awaited, Provider
<1>3. CASE ~Awaited(h)
  <2>1. UNCHANGED <<breaker, pc, provider, failed, due, ans>>
    BY <1>3 DEF ProviderAnswers, ProviderFails
  <2>2. ASSUME NEW d \in Call, pc'[d] = "waiting", provider'[d] = "fallback"
        PROVE  AwaitedAtFallback(d)'
    BY <1>1, <1>3, <2>1, <2>2 DEF FallbackInv, AwaitedAtFallback, Awaited
  <2> QED
    BY <2>1, <2>2 DEF FallbackInv
<1>4. CASE ProviderAnswers(h) /\ Awaited(h)
  <2> DEFINE r == [source |-> h.provider, call |-> h.call, of |-> key[h.call], asOf |-> now]
             a == Given(provider[h.call], r, FALSE)
  <2>1. /\ UNCHANGED <<provider, failed, due>>
        /\ \/ pc' = [pc EXCEPT ![h.call] = "storing"] /\ UNCHANGED ans
           \/ Answered(h.call, a)
        /\ breaker'["fallback"] = "closed"
    BY <1>4 DEF ProviderAnswers, FallbackInv, FxTypeOK, Provider
  <2>3. a.label \in Provider
    BY <1>1 DEF Given, FxTypeOK
  <2> HIDE DEF a
  <2>4. \E l \in {"storing", "answered"} : pc' = [pc EXCEPT ![h.call] = l]
    BY <2>1 DEF Answered
  <2>5. \A d \in Call : ans'[d] # None => ans'[d].label \notin {"DEFAULT", "ERROR"}
    BY <1>1, <2>1, <2>3 DEF Answered, FallbackInv, FxTypeOK, Provider
  <2>2. ASSUME NEW d \in Call, pc'[d] = "waiting", provider'[d] = "fallback"
        PROVE  AwaitedAtFallback(d)'
    BY <1>1, <2>1, <2>2, <2>4 DEF FallbackInv, AwaitedAtFallback, FxTypeOK
  <2> QED
    BY <2>1, <2>2, <2>5 DEF FallbackInv
<1> QED
  BY <1>2, <1>3, <1>4

LEMMA FallbackStep ==
    ASSUME "fallback" \in Reliable, ServiceInv, FallbackInv, [FxNext]_fxVars
    PROVE  FallbackInv'
<1>1. CASE \/ UNCHANGED fxVars \/ RedisToggles \/ (\E p \in Provider : HalfOpen(p))
           \/ (\E c \in Call, k \in Key : Arrive(c, k)) \/ Redis
  <2>1. now' = now /\ UNCHANGED <<http, provider, failed, due, ans>>
    BY <1>1 DEF fxVars, RedisToggles, HalfOpen, Arrive, Redis, RedisReads, RedisStores
  <2>2. breaker'["fallback"] = "closed"
    BY <1>1 DEF fxVars, RedisToggles, HalfOpen, Arrive, Redis, RedisReads, RedisStores,
                FallbackInv, ServiceInv, FxTypeOK, Provider
  <2>3. \A d \in Call : pc'[d] = "waiting" => pc[d] = "waiting"
    BY <1>1 DEF fxVars, RedisToggles, HalfOpen, Arrive, Redis, RedisReads, RedisStores,
                ServiceInv, FxTypeOK
  <2>4. ASSUME NEW d \in Call, pc'[d] = "waiting", provider'[d] = "fallback"
        PROVE  AwaitedAtFallback(d)'
    BY <2>1, <2>3, <2>4 DEF FallbackInv, AwaitedAtFallback
  <2> QED
    BY <2>1, <2>2, <2>4 DEF FallbackInv
<1>2. CASE Tick
  <2>1. \A c \in Call : ~(pc[c] = "waiting" /\ provider[c] = "fallback")
    BY <1>2 DEF Tick, FallbackInv, AwaitedAtFallback
  <2> QED
    BY <1>2, <2>1 DEF Tick, FallbackInv
<1> QED
  BY <1>1, <1>2, FallbackHandle, FallbackProvide DEF FxNext, Provide

\* While the fallback provider answers at once, no call ends with a default rate
\* or an error, whatever the primary provider, the breakers and Redis do.
THEOREM FallbackServes == FxSpec => []FallbackIsUsed
<1>1. CASE "fallback" \in Reliable
  <2>1. FxInit => FallbackInv
    BY DEF FxInit, FallbackInv, Provider
  <2>2. ServiceInv /\ FallbackInv /\ [FxNext]_fxVars => FallbackInv'
    BY <1>1, FallbackStep
  <2>3. FallbackInv => FallbackIsUsed
    BY DEF FallbackInv, FallbackIsUsed
  <2> QED
    BY <2>1, <2>2, <2>3, FxInvariance, PTL DEF FxSpec
<1>2. CASE "fallback" \notin Reliable
  <2>1. FallbackIsUsed
    BY <1>2 DEF FallbackIsUsed
  <2> QED
    BY <2>1, PTL
<1> QED
  BY <1>1, <1>2
-----------------------------------------------------------------------------

(***************************************************************************)
(* Why calls end: the time a call has taken is bounded by the attempts and *)
(* delays it has behind it and by the time Redis kept it, and time does    *)
(* not pass beyond a timer.                                                *)
(***************************************************************************)
\* The longest that n failed attempts and the delays after them take, and all
\* the attempts at a provider.
Tries[n \in 0..(Attempts - 1)] == (n * BreakerTimeout) + (Backoff[n] - BaseDelay)
Round == (Attempts * BreakerTimeout) + (Backoff[Attempts - 1] - BaseDelay)

LEMMA TriesAddUp ==
    /\ Round \in Nat /\ Tries[0] = 0
    /\ \A n \in 0..(Attempts - 1) : Tries[n] \in Nat /\ Tries[n] + BreakerTimeout <= Round
    /\ \A n \in 0..(Attempts - 1) :
         n + 1 < Attempts => Tries[n + 1] = Tries[n] + BreakerTimeout + Backoff[n]
<1>1. /\ Backoff \in [0..Attempts -> Nat] /\ Backoff[0] = BaseDelay
      /\ \A n \in 1..Attempts : Backoff[n] = 2 * Backoff[n - 1]
      /\ Attempts \in Nat \ {0} /\ BreakerTimeout \in Nat \ {0} /\ BaseDelay \in Nat
  BY BackoffIs, TimeAssumption
<1>8. \A n \in 0..(Attempts - 1) : Tries[n] = (n * BreakerTimeout) + (Backoff[n] - BaseDelay)
  BY DEF Tries
<1>2. Tries[0] = 0
  <2>1. 0 \in 0..(Attempts - 1) /\ Backoff[0] - BaseDelay = 0 /\ 0 * BreakerTimeout = 0
    BY <1>1
  <2> QED
    BY <1>8, <2>1
<1>3. ASSUME NEW n \in 0..(Attempts - 1), n + 1 < Attempts
      PROVE  Tries[n + 1] = Tries[n] + BreakerTimeout + Backoff[n]
  <2>1. n + 1 \in 1..Attempts /\ (n + 1) - 1 = n
    BY <1>1, <1>3
  <2>2. Backoff[n + 1] = 2 * Backoff[n] /\ Backoff[n] \in Nat
    BY <1>1, <1>3, <2>1
  <2>3. (n + 1) * BreakerTimeout = (n * BreakerTimeout) + BreakerTimeout
    BY <1>1
  <2>7. n + 1 \in 0..(Attempts - 1)
    BY <1>1, <1>3
  <2> DEFINE x == n * BreakerTimeout
             y == Backoff[n]
             z == Backoff[n + 1]
  <2>4. x \in Int /\ y \in Nat /\ z = 2 * y
    BY <1>1, <2>2
  <2>5. Tries[n] = x + (y - BaseDelay) /\ Tries[n + 1] = (x + BreakerTimeout) + (z - BaseDelay)
    BY <1>3, <1>8, <2>3, <2>7
  <2> HIDE DEF x, y, z
  <2>6. Tries[n + 1] = Tries[n] + BreakerTimeout + y
    BY <1>1, <2>4, <2>5
  <2> QED
    BY <2>6 DEF y
<1>4. Tries[Attempts - 1] + BreakerTimeout = Round /\ Tries[Attempts - 1] \in Int
  <2>1. Attempts * BreakerTimeout = ((Attempts - 1) * BreakerTimeout) + BreakerTimeout
    BY <1>1
  <2> DEFINE x == (Attempts - 1) * BreakerTimeout
             y == Backoff[Attempts - 1]
  <2>2. x \in Int /\ y \in Nat
    BY <1>1
  <2>3. Tries[Attempts - 1] = x + (y - BaseDelay) /\ Round = (x + BreakerTimeout) + (y - BaseDelay)
    BY <1>1, <1>8, <2>1 DEF Round
  <2> HIDE DEF x, y
  <2> QED
    BY <1>1, <2>2, <2>3
<1> HIDE DEF Round
<1>9. ASSUME NEW n \in 0..(Attempts - 1), n # 0
      PROVE  /\ n - 1 \in 0..(Attempts - 1) /\ n - 1 \in Nat /\ n - 1 < n /\ n \in Nat
             /\ Backoff[n - 1] \in Nat
             /\ Tries[n] = Tries[n - 1] + BreakerTimeout + Backoff[n - 1]
  <2>1. n - 1 \in 0..(Attempts - 1) /\ (n - 1) + 1 < Attempts /\ (n - 1) + 1 = n
    BY <1>1, <1>9
  <2>2. PICK m \in 0..(Attempts - 1) : m = n - 1
    BY <2>1
  <2>4. m + 1 = n /\ m + 1 < Attempts /\ m \in 0..Attempts
    BY <1>1, <2>1, <2>2
  <2>5. Tries[m + 1] = Tries[m] + BreakerTimeout + Backoff[m]
    BY <1>3, <2>4
  <2>6. Backoff[m] \in Nat
    BY <1>1, <2>4
  <2>3. Tries[m + 1] = Tries[m] + BreakerTimeout + Backoff[m] /\ m + 1 = n /\ Backoff[m] \in Nat
    BY <2>4, <2>5, <2>6
  <2> QED
    BY <2>1, <2>2, <2>3
<1>5. \A n \in 0..(Attempts - 1) : Tries[n] \in Nat
  <2> DEFINE Wrong == {n \in 0..(Attempts - 1) : Tries[n] \notin Nat}
  <2> SUFFICES ASSUME Wrong # {} PROVE FALSE
    OBVIOUS
  <2>1. Wrong \in SUBSET Nat
    OBVIOUS
  <2>2. PICK n \in Wrong : \A k \in Wrong : n <= k
    BY <2>1, LeastNumber
  <2>3. n \in 0..(Attempts - 1) /\ n # 0 /\ Tries[n] \notin Nat
    BY <1>2, <2>2
  <2>4. PICK m \in 0..(Attempts - 1) :
          /\ m < n /\ m \in Nat /\ n \in Nat /\ Backoff[m] \in Nat
          /\ Tries[n] = Tries[m] + BreakerTimeout + Backoff[m]
    BY <1>9, <2>3
  <2>5. Tries[m] \in Nat
    BY <2>2, <2>4
  <2>6. ASSUME NEW x \in Nat, NEW y \in Nat PROVE x + BreakerTimeout + y \in Nat
    BY <1>1
  <2>7. Tries[m] + BreakerTimeout + Backoff[m] \in Nat
    BY <2>4, <2>5, <2>6
  <2> QED
    BY <2>3, <2>4, <2>7
<1>6. ASSUME NEW first \in 0..(Attempts - 1) PROVE Tries[first] + BreakerTimeout <= Round
  <2> DEFINE Wrong == {n \in first..(Attempts - 1) : ~(Tries[first] <= Tries[n])}
  <2>1. Wrong = {}
    <3> SUFFICES ASSUME Wrong # {} PROVE FALSE
      OBVIOUS
    <3>1. Wrong \in SUBSET Nat
      OBVIOUS
    <3>2. PICK n \in Wrong : \A k \in Wrong : n <= k
      BY <3>1, LeastNumber
    <3>3. n \in 0..(Attempts - 1) /\ n \in first..(Attempts - 1) /\ ~(Tries[first] <= Tries[n])
      BY <3>2
    <3>4. Tries[first] \in Nat /\ Tries[n] \in Nat
      BY <1>5, <3>3
    <3>8. n # first
      <4>1. ASSUME NEW x \in Nat PROVE x <= x
        OBVIOUS
      <4> QED
        BY <3>3, <3>4, <4>1
    <3>5. n # 0 /\ n - 1 \in first..(Attempts - 1)
      BY <1>1, <3>3, <3>8
    <3>6. PICK m \in 0..(Attempts - 1) :
            /\ m = n - 1 /\ m < n /\ m \in Nat /\ n \in Nat /\ Backoff[m] \in Nat
            /\ Tries[n] = Tries[m] + BreakerTimeout + Backoff[m]
      BY <1>9, <3>3, <3>5
    <3>7. Tries[first] <= Tries[m] /\ Tries[m] \in Nat
      BY <1>5, <3>2, <3>5, <3>6
    <3>9. ASSUME NEW x \in Nat, NEW y \in Nat, NEW z \in Nat, x <= y PROVE x <= y + BreakerTimeout + z
      BY <1>1, <3>9
    <3>10. Tries[first] <= Tries[m] + BreakerTimeout + Backoff[m]
      BY <3>4, <3>6, <3>7, <3>9
    <3> QED
      BY <3>3, <3>6, <3>10
  <2>2. Attempts - 1 \in first..(Attempts - 1) /\ Attempts - 1 \in 0..(Attempts - 1)
    BY <1>1
  <2>3. Tries[first] <= Tries[Attempts - 1]
    BY <2>1, <2>2
  <2>4. Tries[first] \in Nat /\ Tries[Attempts - 1] \in Nat
    BY <1>5, <2>2
  <2> QED
    BY <1>1, <1>4, <2>3, <2>4
<1>7. Round \in Nat
  <2>1. Attempts - 1 \in 0..(Attempts - 1)
    BY <1>1
  <2> QED
    BY <1>1, <1>4, <1>5, <2>1
<1> QED
  BY <1>2, <1>3, <1>5, <1>6, <1>7

\* The longest that c may have taken before its current attempt, and the time
\* limit of an attempt.
Spent(c) ==
    IF Rates(c) THEN (IF provider[c] = "primary" THEN 0 ELSE ApiTimeout)
    ELSE (IF provider[c] = "primary" THEN 0 ELSE Round) + Tries[failed[c]]
Limit(c) == IF Rates(c) THEN ApiTimeout ELSE BreakerTimeout

\* The request that c waits for is under way, and ends when c stops waiting.
UnderWay(c) == \E h \in http : h.call = c /\ Awaited(h) /\ h.sent + ApiTimeout = due[c]

InTime(c) ==
    /\ pc[c] \in {"idle", "reading", "hit"} => failed[c] = 0 /\ provider[c] = "primary"
    /\ Rates(c) => failed[c] = 0
    /\ pc[c] \in {"reading", "hit"} => now - began[c] <= waited[c]
    /\ pc[c] = "calling" => now - began[c] <= Spent(c) + waited[c]
    /\ pc[c] = "backoff" =>
         ~Rates(c) /\ now <= due[c] /\ due[c] - began[c] <= Spent(c) + waited[c]
    /\ pc[c] = "waiting" =>
         /\ now <= due[c] /\ due[c] - began[c] <= Spent(c) + Limit(c) + waited[c]
         /\ Rates(c) => UnderWay(c)
    /\ pc[c] = "storing" => now - began[c] <= Spent(c) + Limit(c) + waited[c]

TimeInv == \A c \in Call : InTime(c)

LEMMA SpentIs ==
    ASSUME FxTypeOK, NEW c \in Call
    PROVE  /\ Spent(c) \in Nat /\ Limit(c) \in Nat
           /\ Spent(c) + Limit(c) <= LongestCall(c)
<1>1. failed[c] \in 0..(Attempts - 1)
  BY DEF FxTypeOK
<1>2. /\ Round \in Nat /\ Tries[failed[c]] \in Nat /\ Tries[failed[c]] + BreakerTimeout <= Round
      /\ BreakerTimeout \in Nat /\ ApiTimeout \in Nat
  BY <1>1, TriesAddUp, TimeAssumption
<1>3. LongestCall(c) = IF Rates(c) THEN 2 * ApiTimeout ELSE 2 * Round
  <2>1. Attempts * BreakerTimeout \in Int /\ Backoff[Attempts - 1] \in Int /\ BaseDelay \in Int
    BY BackoffIs, TimeAssumption
  <2> DEFINE x == Attempts * BreakerTimeout
             y == Backoff[Attempts - 1]
  <2> HIDE DEF x, y
  <2>2. x \in Int /\ y \in Int /\ BaseDelay \in Int
    BY <2>1 DEF x, y
  <2>3. (x + y) - BaseDelay = x + (y - BaseDelay) /\ x + (y - BaseDelay) = (x + y) - BaseDelay
    BY <2>2
  <2>4. Round = x + (y - BaseDelay)
    BY DEF Round, x, y
  <2>5. LongestCall(c) = IF Rates(c) THEN 2 * ApiTimeout ELSE 2 * (x + y - BaseDelay)
    BY DEF LongestCall, x, y
  <2>6. x + y - BaseDelay = x + (y - BaseDelay)
    BY <2>2
  <2> QED
    BY <2>4, <2>5, <2>6
<1> QED
  BY <1>2, <1>3 DEF Spent, Limit

\* A step that does not concern d.
LEMMA OthersInTime ==
    ASSUME NEW d \in Call, InTime(d), now' = now,
           pc'[d] = pc[d], key'[d] = key[d], began'[d] = began[d], provider'[d] = provider[d],
           failed'[d] = failed[d], due'[d] = due[d], waited'[d] = waited[d],
           \A h \in http \ http' : h.call = d => ~Awaited(h)
    PROVE  InTime(d)'
<1>1. Rates(d)' = Rates(d) /\ Spent(d)' = Spent(d) /\ Limit(d)' = Limit(d)
  BY DEF Rates, Spent, Limit
<1>2. ASSUME UnderWay(d) PROVE UnderWay(d)'
  BY <1>2 DEF UnderWay, Awaited
<1> QED
  BY <1>1, <1>2 DEF InTime

LEMMA FailureInTime ==
    ASSUME ServiceInv, NEW c \in Call, InTime(c), AfterFailure(c), pc[c] \in {"calling", "waiting"},
           now - began[c] <= Spent(c) + Limit(c) + waited[c], UNCHANGED <<now, key, began, waited>>
    PROVE  InTime(c)'
<1>1. /\ failed[c] \in 0..(Attempts - 1) /\ now \in Nat /\ began[c] \in Nat /\ Attempts \in Nat \ {0}
      /\ provider[c] \in Provider /\ Rates(c)' = Rates(c)
      /\ pc \in [Call -> Location] /\ failed \in [Call -> 0..(Attempts - 1)]
      /\ provider \in [Call -> Provider] /\ due \in [Call -> Int]
      /\ ApiTimeout \in Nat /\ BreakerTimeout \in Nat /\ waited[c] \in Nat
  BY TimeAssumption DEF ServiceInv, FxTypeOK, Rates
<1> DEFINE f == failed[c]
<1>2. CASE ~Rates(c) /\ f + 1 < Attempts
  <2>1. /\ failed'[c] = f + 1 /\ due'[c] = now + Backoff[f] /\ pc'[c] = "backoff"
        /\ provider' = provider
    BY <1>1, <1>2 DEF AfterFailure, Delay
  <2>2. Backoff[f] \in Nat
    BY <1>1, BackoffIs
  <2>3. Tries[f] \in Nat /\ Tries[f + 1] = Tries[f] + BreakerTimeout + Backoff[f] /\ Round \in Nat
    BY <1>1, <1>2, TriesAddUp
  <2> DEFINE before == IF provider[c] = "primary" THEN 0 ELSE Round
             t == Tries[f]
             u == Tries[f + 1]
             w == Backoff[f]
  <2>4. Spent(c) = before + t /\ Spent(c)' = before + u /\ Limit(c) = BreakerTimeout
    BY <1>1, <1>2, <2>1 DEF Spent, Limit
  <2>5. before \in Nat /\ t \in Nat /\ w \in Nat /\ u = t + BreakerTimeout + w
    BY <2>2, <2>3
  <2>6. due'[c] = now + w
    BY <2>1
  <2> HIDE DEF before, t, u, w
  <2>7. now' <= due'[c] /\ due'[c] - began'[c] <= Spent(c)' + waited'[c]
    BY <1>1, <2>4, <2>5, <2>6
  <2> QED
    BY <1>1, <1>2, <2>1, <2>7 DEF InTime
<1>3. CASE ~(~Rates(c) /\ f + 1 < Attempts) /\ provider[c] = "primary"
  <2>1. failed'[c] = 0 /\ provider'[c] = "fallback" /\ pc'[c] = "calling"
    BY <1>1, <1>3 DEF AfterFailure
  <2>2. Tries[0] = 0 /\ Round \in Nat /\ Tries[f] \in Nat /\ Tries[f] + BreakerTimeout <= Round
    BY <1>1, TriesAddUp
  <2>3. Spent(c) + Limit(c) <= Spent(c)' /\ Spent(c) \in Nat /\ Limit(c) \in Nat /\ Spent(c)' \in Nat
    BY <1>1, <1>3, <2>1, <2>2 DEF Spent, Limit
  <2>4. now' - began'[c] <= Spent(c)' + waited'[c]
    BY <1>1, <2>3
  <2> QED
    BY <1>1, <2>1, <2>4 DEF InTime
<1>4. CASE ~(~Rates(c) /\ f + 1 < Attempts) /\ provider[c] # "primary"
  <2>1. failed'[c] = 0 /\ pc'[c] = "answered"
    BY <1>1, <1>4 DEF AfterFailure, Answered
  <2> QED
    BY <2>1 DEF InTime
<1> QED
  BY <1>2, <1>3, <1>4

\* A failure of c leaves the others alone.
LEMMA FailureTimes ==
    ASSUME ServiceInv, TimeInv, NEW c \in Call, AfterFailure(c), pc[c] \in {"calling", "waiting"},
           \A h \in http \ http' : h.call = c, UNCHANGED <<now, key, began, waited>>
    PROVE  TimeInv'
<1>1. now - began[c] <= Spent(c) + Limit(c) + waited[c]
  <2>1. /\ Spent(c) \in Nat /\ Limit(c) \in Nat /\ now \in Nat /\ began[c] \in Nat /\ due[c] \in Int
        /\ waited[c] \in Nat
    BY SpentIs, TimeAssumption DEF ServiceInv, FxTypeOK
  <2> QED
    BY <2>1 DEF TimeInv, InTime
<1>2. InTime(c)'
  BY <1>1, FailureInTime DEF TimeInv
<1>3. ASSUME NEW d \in Call \ {c} PROVE InTime(d)'
  <2>1. pc'[d] = pc[d] /\ provider'[d] = provider[d] /\ failed'[d] = failed[d] /\ due'[d] = due[d]
    BY <1>3 DEF AfterFailure, Answered, ServiceInv, FxTypeOK
  <2> QED
    BY <1>3, <2>1, OthersInTime DEF TimeInv
<1> QED
  BY <1>2, <1>3 DEF TimeInv

LEMMA HandleTimes ==
    ASSUME ServiceInv, TimeInv, NEW c \in Call, Handle(c)
    PROVE  TimeInv'
<1>1. /\ pc \in [Call -> Location] /\ failed \in [Call -> 0..(Attempts - 1)]
      /\ provider \in [Call -> Provider] /\ due \in [Call -> Int] /\ now \in Nat
      /\ began \in [Call -> Nat] /\ ApiTimeout \in Nat /\ BreakerTimeout \in Nat /\ InTime(c)
      /\ waited \in [Call -> Nat]
  BY TimeAssumption DEF ServiceInv, FxTypeOK, TimeInv
<1>2. Spent(c) \in Nat /\ Limit(c) \in Nat
  BY SpentIs DEF ServiceInv
<1>3. CASE CacheHit(c) \/ StoreEnds(c) \/ ReplyLost(c)
  <2>1. /\ \/ pc' = [pc EXCEPT ![c] = "answered"]
           \/ pc[c] = "hit" /\ pc' = [pc EXCEPT ![c] = "reading"]
        /\ UNCHANGED <<now, http, key, began, provider, failed, due, waited>>
    BY <1>3 DEF CacheHit, StoreEnds, ReplyLost, Answered
  <2>2. InTime(c)'
    BY <1>1, <2>1 DEF InTime, Rates
  <2> QED
    BY <1>1, <2>1, <2>2, OthersInTime DEF TimeInv
<1>4. CASE CacheMiss(c)
  <2>1. /\ pc[c] = "reading" /\ pc' = [pc EXCEPT ![c] = "calling"]
        /\ UNCHANGED <<now, http, key, began, provider, failed, due, waited>>
    BY <1>4 DEF CacheMiss
  <2>2. now - began[c] <= waited[c] /\ failed[c] = 0 /\ provider[c] = "primary" /\ Tries[0] = 0
    BY <1>1, <2>1, TriesAddUp DEF InTime
  <2>3. Spent(c)' = 0 /\ now' - began'[c] <= waited'[c] /\ pc'[c] = "calling"
    BY <1>1, <2>1, <2>2 DEF Spent
  <2>4. InTime(c)'
    BY <1>1, <2>1, <2>2, <2>3 DEF InTime, Rates
  <2> QED
    BY <1>1, <2>1, <2>4, OthersInTime DEF TimeInv
<1>5. CASE Wake(c)
  <2>1. /\ pc[c] = "backoff" /\ pc' = [pc EXCEPT ![c] = "calling"] /\ now = due[c]
        /\ UNCHANGED <<now, http, key, began, provider, failed, due, waited>>
    BY <1>5 DEF Wake
  <2>2. Spent(c)' = Spent(c) /\ now' - began'[c] <= Spent(c)' + waited'[c] /\ pc'[c] = "calling"
    BY <1>1, <2>1 DEF Spent, Rates, InTime
  <2>3. InTime(c)'
    BY <1>1, <2>1, <2>2 DEF InTime, Rates
  <2> QED
    BY <1>1, <2>1, <2>3, OthersInTime DEF TimeInv
<1>6. CASE Fire(c) \/ CallDirectly(c)
  <2> DEFINE h == [call |-> c, provider |-> provider[c], attempt |-> failed[c], sent |-> now]
             limit == IF Rates(c) THEN ApiTimeout ELSE BreakerTimeout
  <2>1. Send(c, limit) /\ pc[c] = "calling"
    BY <1>6 DEF Fire, CallDirectly
  <2>2. /\ http' = http \cup {h} /\ due' = [due EXCEPT ![c] = now + limit]
        /\ pc' = [pc EXCEPT ![c] = "waiting"]
        /\ UNCHANGED <<now, key, began, provider, failed, waited>>
    BY <2>1 DEF Send
  <2>3. h \in http' /\ h.call = c /\ h.provider = provider[c] /\ h.attempt = failed[c] /\ h.sent = now
    BY <2>2
  <2>4. limit = Limit(c) /\ Limit(c)' = Limit(c) /\ Spent(c)' = Spent(c) /\ Rates(c)' = Rates(c)
    BY <2>2 DEF Limit, Spent, Rates
  <2> HIDE DEF h, limit
  <2>5. /\ pc'[c] = "waiting" /\ due'[c] = now + limit
        /\ now' <= due'[c] /\ due'[c] - began'[c] <= Spent(c)' + Limit(c)' + waited'[c]
    BY <1>1, <1>2, <2>1, <2>2, <2>4 DEF InTime
  <2>6. Rates(c) => UnderWay(c)'
    <3>1. Rates(c) => limit = ApiTimeout
      BY DEF limit
    <3>2. provider'[c] = provider[c] /\ failed'[c] = failed[c]
      BY <2>2
    <3>3. PICK g : g = h
      OBVIOUS
    <3>4. g.call = c /\ g.provider = provider[c] /\ g.attempt = failed[c] /\ g.sent = now /\ g \in http'
      BY <2>3, <3>3
    <3>5. Awaited(g)'
      BY <2>5, <3>2, <3>4 DEF Awaited
    <3>6. Rates(c) => g.sent + ApiTimeout = due'[c]
      BY <2>5, <3>1, <3>4
    <3> QED
      BY <3>4, <3>5, <3>6 DEF UnderWay
  <2>7. InTime(c)'
    BY <1>1, <2>2, <2>4, <2>5, <2>6 DEF InTime
  <2> QED
    BY <1>1, <2>2, <2>7, OthersInTime DEF TimeInv
<1>7. CASE Reject(c) \/ BreakerTimesOut(c)
  BY <1>7, FailureTimes DEF Reject, BreakerTimesOut
<1> QED
  BY <1>3, <1>4, <1>5, <1>6, <1>7 DEF Handle

LEMMA ProvideTimes ==
    ASSUME ServiceInv, TimeInv, NEW h \in http, ProviderAnswers(h) \/ ProviderFails(h)
    PROVE  TimeInv'
<1>1. h.call \in Call /\ http' = http \ {h} /\ UNCHANGED <<now, key, began, waited>>
  BY DEF ProviderAnswers, ProviderFails, ServiceInv, FxTypeOK, HttpRequest
<1>2. CASE ~Awaited(h)
  <2>1. UNCHANGED <<pc, provider, failed, due>>
    BY <1>2 DEF ProviderAnswers, ProviderFails
  <2> QED
    BY <1>1, <1>2, <2>1, OthersInTime DEF TimeInv
<1>3. CASE Awaited(h) /\ ProviderFails(h)
  BY <1>1, <1>3, FailureTimes DEF ProviderFails, Awaited
<1>4. CASE Awaited(h) /\ ProviderAnswers(h)
  <2> DEFINE c == h.call
  <2>1. /\ pc[c] = "waiting"
        /\ \E l \in {"storing", "answered"} : pc' = [pc EXCEPT ![c] = l]
        /\ UNCHANGED <<provider, failed, due>>
    BY <1>4 DEF ProviderAnswers, Awaited, Answered
  <2>2. /\ c \in Call /\ InTime(c) /\ pc \in [Call -> Location] /\ now \in Nat /\ began[c] \in Nat
        /\ due[c] \in Int /\ Spent(c) \in Nat /\ Limit(c) \in Nat /\ waited[c] \in Nat
    BY <1>1, SpentIs, TimeAssumption DEF TimeInv, ServiceInv, FxTypeOK
  <2>3. Spent(c)' = Spent(c) /\ Limit(c)' = Limit(c) /\ Rates(c)' = Rates(c)
    BY <1>1, <2>1 DEF Spent, Limit, Rates
  <2>4. pc'[c] \in {"storing", "answered"} /\ now' - began'[c] <= Spent(c)' + Limit(c)' + waited'[c]
    BY <1>1, <2>1, <2>2, <2>3 DEF InTime
  <2>5. InTime(c)'
    BY <1>1, <2>1, <2>2, <2>3, <2>4 DEF InTime
  <2> HIDE DEF c
  <2>6. ASSUME NEW d \in Call \ {c} PROVE InTime(d)'
    <3>1. pc'[d] = pc[d] /\ h.call # d
      BY <2>1, <2>2, <2>6 DEF c
    <3> QED
      BY <1>1, <2>1, <2>6, <3>1, OthersInTime DEF TimeInv
  <2> QED
    BY <2>5, <2>6 DEF TimeInv
<1> QED
  BY <1>2, <1>3, <1>4

LEMMA TimeStep == ServiceInv /\ TimeInv /\ [FxNext]_fxVars => TimeInv'
<1> SUFFICES ASSUME ServiceInv, TimeInv, [FxNext]_fxVars PROVE TimeInv'
  OBVIOUS
<1>1. CASE \/ UNCHANGED fxVars \/ RedisToggles \/ (\E p \in Provider : HalfOpen(p))
           \/ \E c \in Call : RedisStores(c)
  <2>1. UNCHANGED <<now, http, pc, key, began, provider, failed, due, waited>>
    BY <1>1 DEF fxVars, RedisToggles, HalfOpen, RedisStores
  <2> QED
    BY <2>1, OthersInTime DEF TimeInv
<1>4. ASSUME NEW c \in Call, RedisReads(c) PROVE TimeInv'
  <2>1. /\ pc[c] = "reading" /\ pc' = [pc EXCEPT ![c] = "hit"] /\ pc \in [Call -> Location]
        /\ UNCHANGED <<now, http, key, began, provider, failed, due, waited>>
    BY <1>4 DEF RedisReads, ServiceInv, FxTypeOK
  <2>2. InTime(c)'
    BY <2>1 DEF TimeInv, InTime, Rates
  <2> QED
    BY <2>1, <2>2, OthersInTime DEF TimeInv
<1>2. ASSUME NEW c \in Call, NEW k \in Key, Arrive(c, k) PROVE TimeInv'
  <2>1. /\ pc[c] = "idle" /\ began' = [began EXCEPT ![c] = now]
        /\ \E l \in {"reading", "calling"} : pc' = [pc EXCEPT ![c] = l]
        /\ key' = [key EXCEPT ![c] = k] /\ UNCHANGED <<now, http, provider, failed, due, waited>>
    BY <1>2 DEF Arrive
  <2>6. /\ pc \in [Call -> Location] /\ began \in [Call -> 0..MaxNow] /\ key \in [Call -> Key \cup {None}]
        /\ now \in Nat /\ waited[c] \in Nat
    BY TimeAssumption DEF ServiceInv, FxTypeOK
  <2>2. /\ pc'[c] \in {"reading", "calling"} /\ began'[c] = now /\ failed'[c] = 0
        /\ provider'[c] = "primary"
    BY <2>1, <2>6 DEF TimeInv, InTime
  <2>5. Spent(c)' = 0
    BY <2>2, TriesAddUp DEF Spent
  <2>3. InTime(c)'
    BY <2>1, <2>2, <2>5, <2>6 DEF InTime
  <2>4. ASSUME NEW d \in Call \ {c} PROVE InTime(d)'
    <3>1. pc'[d] = pc[d] /\ key'[d] = key[d] /\ began'[d] = began[d]
      BY <2>1, <2>4, <2>6
    <3> QED
      BY <2>1, <2>4, <3>1, OthersInTime DEF TimeInv
  <2> QED
    BY <2>3, <2>4 DEF TimeInv
<1>3. CASE Tick
  <2> SUFFICES ASSUME NEW c \in Call PROVE InTime(c)'
    BY DEF TimeInv
  <2>1. /\ now' = now + 1 /\ UNCHANGED <<http, pc, key, began, provider, failed, due>>
        /\ pc[c] # "calling"
        /\ waited'[c] = IF pc[c] \in AtRedis THEN waited[c] + 1 ELSE waited[c]
        /\ pc[c] = "backoff" \/ (pc[c] = "waiting" /\ ~Rates(c)) => now < due[c]
        /\ \A h \in http : now - h.sent < ApiTimeout
        /\ now \in Nat /\ due[c] \in Int /\ ApiTimeout \in Nat /\ InTime(c)
        /\ began[c] \in Nat /\ waited[c] \in Nat
        /\ \A h \in http : h.sent \in Nat
    BY <1>3, TimeAssumption DEF Tick, ServiceInv, FxTypeOK, TimeInv, HttpRequest
  <2>2. Spent(c)' = Spent(c) /\ Limit(c)' = Limit(c) /\ Rates(c)' = Rates(c)
    BY <2>1 DEF Spent, Limit, Rates
  <2>3. UnderWay(c) => UnderWay(c)' /\ now < due[c]
    BY <2>1 DEF UnderWay, Awaited
  <2>4. pc[c] \in {"backoff", "waiting"} => now' <= due'[c]
    BY <2>1, <2>3 DEF InTime
  <2>5. Spent(c) \in Nat /\ Limit(c) \in Nat
    BY SpentIs DEF ServiceInv
  <2> QED
    BY <2>1, <2>2, <2>3, <2>4, <2>5 DEF InTime, AtRedis
<1> QED
  BY <1>1, <1>2, <1>3, <1>4, HandleTimes, ProvideTimes DEF FxNext, Provide, Redis

\* However the providers hang and the breakers trip, a conversion ends within
\* the attempts and the doubling delays of its two rounds, and a getRates call
\* within the time limits of its two requests, but for the time that its
\* commands to Redis take.
THEOREM CallsWaitOnlyForRedis == FxSpec => []OnlyRedisDelays
<1>1. FxInit => TimeInv
  BY NoRateAssumption DEF FxInit, TimeInv, InTime, Rates, Key
<1>2. ServiceInv /\ TimeInv => OnlyRedisDelays
  <2> SUFFICES ASSUME ServiceInv, TimeInv, NEW c \in Call, pc[c] \notin {"idle", "answered"}
               PROVE  now - began[c] <= LongestCall(c) + waited[c]
    BY DEF OnlyRedisDelays
  <2>1. /\ Spent(c) \in Nat /\ Limit(c) \in Nat /\ Spent(c) + Limit(c) <= LongestCall(c)
        /\ now \in Nat /\ began[c] \in Nat /\ due[c] \in Int /\ pc[c] \in Location
        /\ InTime(c) /\ waited[c] \in Nat
    BY SpentIs, TimeAssumption DEF ServiceInv, FxTypeOK, TimeInv
  <2>2. now - began[c] <= Spent(c) + Limit(c) + waited[c]
    BY <2>1 DEF InTime, Location
  <2>3. LongestCall(c) \in Int
    <3>1. Backoff[Attempts - 1] \in Int
      BY BackoffIs, TimeAssumption
    <3> QED
      BY <3>1, TimeAssumption DEF LongestCall
  <2> QED
    BY <2>1, <2>2, <2>3
<1> QED
  BY <1>1, <1>2, TimeStep, FxInvariance, PTL DEF FxSpec
-----------------------------------------------------------------------------

(***************************************************************************)
(* The gateway: FxFlow only adds steps that leave the FX service alone, so *)
(* everything proved of it holds behind the gateway as well.               *)
(***************************************************************************)
LEMMA FlowStepsAreFxSteps == [FlowNext]_flowVars => [FxNext]_fxVars
BY DEF FlowNext, flowVars, fxVars, FxNext, Show, GiveUp, LoseCall, FlowTick

LEMMA FlowInvariance == FlowSpec => []ServiceInv
<1>1. FlowInit => ServiceInv
  BY FxInitInv DEF FlowInit
<1>2. ServiceInv /\ [FlowNext]_flowVars => ServiceInv'
  BY FxNextInv, FlowStepsAreFxSteps
<1> QED
  BY <1>1, <1>2, PTL DEF FlowSpec

\* A waiting client is in time, and the answer that waits for it is new: time
\* does not pass before it is shown.
FlowInv ==
    /\ shown \in [Call -> Shown \cup {None}]
    /\ \A c \in Call : Waiting(c) =>
         /\ now - began[c] <= GatewayTimeout
         /\ ans[c] # None => ans[c].at = now
    /\ \A c \in Call : shown[c] # None =>
         /\ pc[c] # "idle"
         /\ shown[c].by = "service" /\ shown[c].answer.label \in Provider =>
              shown[c].answer.rate \in Rate
    /\ ShownIsTrue

\* The steps of the FX service that take no time.
ServiceStep ==
    \/ \E c \in Call, k \in Key : Arrive(c, k)
    \/ \E c \in Call : Handle(c)
    \/ Redis
    \/ Provide
    \/ \E p \in Provider : HalfOpen(p)
    \/ RedisToggles

\* An attempt that fails for good is answered now.
LEMMA FailureAnswersNow ==
    ASSUME ServiceInv, NEW c \in Call, AfterFailure(c)
    PROVE  \A d \in Call : ans'[d] = ans[d] \/ ans'[d].at = now
BY DEF AfterFailure, Answered, ServiceInv, FxTypeOK

LEMMA HandlerAnswersNow ==
    ASSUME ServiceInv, NEW c \in Call, Handle(c)
    PROVE  \A d \in Call : ans'[d] = ans[d] \/ ans'[d].at = now
<1>1. CASE CacheHit(c) \/ StoreEnds(c)
  BY <1>1 DEF CacheHit, StoreEnds, Answered, Given, ServiceInv, FxTypeOK
<1>2. CASE ReplyLost(c) \/ CacheMiss(c) \/ Fire(c) \/ CallDirectly(c) \/ Wake(c)
  BY <1>2 DEF ReplyLost, CacheMiss, Fire, CallDirectly, Send, Wake
<1>3. CASE Reject(c) \/ BreakerTimesOut(c)
  BY <1>3, FailureAnswersNow DEF Reject, BreakerTimesOut
<1> QED
  BY <1>1, <1>2, <1>3 DEF Handle

LEMMA ServiceAnswersNow ==
    ASSUME ServiceInv, ServiceStep
    PROVE  /\ now' = now /\ waited' = waited
           /\ \A d \in Call : ans'[d] = ans[d] \/ ans'[d].at = now
           /\ \A d \in Call :
                \/ pc[d] # "idle" /\ began'[d] = began[d] /\ key'[d] = key[d] /\ pc'[d] # "idle"
                \/ pc[d] = "idle" /\ pc'[d] = "idle"
                \/ pc[d] = "idle" /\ began'[d] = now
<1> USE DEF ServiceInv
<1>1. CASE \E c \in Call, k \in Key : Arrive(c, k)
  BY <1>1 DEF Arrive, FxTypeOK
<1>2. ASSUME NEW c \in Call, Handle(c)
      PROVE  /\ now' = now /\ UNCHANGED <<began, key, waited>>
             /\ \A d \in Call : pc[d] # "idle" <=> pc'[d] # "idle"
  <2>1. now' = now /\ UNCHANGED <<began, key, waited>> /\ pc[c] # "idle"
    BY <1>2 DEF Handle, ReplyLost, CacheHit, CacheMiss, StoreEnds, Fire, CallDirectly, Reject, Wake,
                BreakerTimesOut, Send
  <2>2. \E l \in Location \ {"idle"} : pc' = [pc EXCEPT ![c] = l]
    BY <1>2 DEF Handle, ReplyLost, CacheHit, CacheMiss, StoreEnds, Fire, CallDirectly, Reject, Wake,
                BreakerTimesOut, Send, Answered, AfterFailure, Location
  <2> QED
    BY <2>1, <2>2 DEF FxTypeOK
<1>3. ASSUME NEW h \in http, ProviderAnswers(h) \/ ProviderFails(h)
      PROVE  /\ now' = now /\ UNCHANGED <<began, key, waited>>
             /\ \A d \in Call : ans'[d] = ans[d] \/ ans'[d].at = now
             /\ \A d \in Call : pc[d] # "idle" <=> pc'[d] # "idle"
  <2>1. now' = now /\ UNCHANGED <<began, key, waited>> /\ h.call \in Call /\ pc[h.call] # "idle"
    BY <1>3 DEF ProviderAnswers, ProviderFails, HttpInv, FxTypeOK, HttpRequest
  <2>2. pc' = pc \/ \E l \in Location \ {"idle"} : pc' = [pc EXCEPT ![h.call] = l]
    BY <1>3 DEF ProviderAnswers, ProviderFails, AfterFailure, Answered, Location
  <2>3. \A d \in Call : ans'[d] = ans[d] \/ ans'[d].at = now
    <3>1. \/ ans' = ans \/ AfterFailure(h.call)
          \/ \E l, r : Answered(h.call, Given(l, r, FALSE))
      BY <1>3 DEF ProviderAnswers, ProviderFails
    <3>2. ASSUME NEW l, NEW r, Answered(h.call, Given(l, r, FALSE))
          PROVE  \A d \in Call : ans'[d] = ans[d] \/ ans'[d].at = now
      BY <3>2 DEF Answered, Given, FxTypeOK
    <3> QED
      BY <2>1, <3>1, <3>2, FailureAnswersNow
  <2> QED
    BY <2>1, <2>2, <2>3 DEF FxTypeOK
<1>4. CASE RedisToggles \/ \E p \in Provider : HalfOpen(p)
  BY <1>4 DEF RedisToggles, HalfOpen
<1>5. CASE Redis
  BY <1>5 DEF Redis, RedisReads, RedisStores, FxTypeOK
<1> QED
  BY <1>1, <1>2, <1>3, <1>4, <1>5, HandlerAnswersNow DEF ServiceStep, Provide

\* What was shown stays true of the call it was shown to.
LEMMA ShownKept ==
    ASSUME ServiceInv, FlowInv, shown' = shown,
           \A d \in Call : waited'[d] \in Nat /\ waited[d] <= waited'[d],
           \A d \in Call : pc[d] # "idle" => began'[d] = began[d] /\ key'[d] = key[d]
    PROVE  ShownIsTrue'
<1> SUFFICES ASSUME NEW c \in Call, shown[c] # None, shown[c].by = "service",
                    shown[c].answer.label \in Provider
             PROVE  Age(shown[c].answer.rate, shown[c].at) < Lifetime(shown[c].answer.rate, c)'
  BY DEF FlowInv, ShownIsTrue, Age
<1> DEFINE r == shown[c].answer.rate
           at == shown[c].at
<1>1. r \in Rate /\ at \in Nat /\ Age(r, at) < Lifetime(r, c)
  BY DEF FlowInv, ShownIsTrue, Shown
<1>2. Lifetime(r, c)' = TTL + waited'[c] + waited'[r.call]
  BY DEF Lifetime
<1> HIDE DEF r, at
<1>3. /\ r.call \in Call /\ r.asOf \in Nat /\ TTL \in Nat
      /\ waited[c] \in Nat /\ waited[r.call] \in Nat
      /\ Lifetime(r, c) = TTL + waited[c] + waited[r.call]
  BY <1>1, RateIs DEF ServiceInv
<1>4. Age(r, at) < TTL + waited'[c] + waited'[r.call]
  BY <1>1, <1>3 DEF Age
<1> QED
  BY <1>2, <1>4 DEF r, at

LEMMA ServiceFlow ==
    ASSUME ServiceInv, FlowInv, ServiceStep, UNCHANGED <<shown, lost>>
    PROVE  FlowInv'
<1>1. /\ now' = now /\ now \in Nat /\ GatewayTimeout \in Nat /\ waited' = waited
      /\ \A d \in Call : waited[d] \in Nat
      /\ \A d \in Call : ans'[d] = ans[d] \/ ans'[d].at = now
      /\ \A d \in Call :
           \/ pc[d] # "idle" /\ began'[d] = began[d] /\ key'[d] = key[d] /\ pc'[d] # "idle"
           \/ pc[d] = "idle" /\ pc'[d] = "idle"
           \/ pc[d] = "idle" /\ began'[d] = now
  BY ServiceAnswersNow, TimeAssumption, GatewayTimeoutAssumption DEF ServiceInv, FxTypeOK
<1>2. ShownIsTrue'
  BY <1>1, ShownKept
<1>3. ASSUME NEW c \in Call, Waiting(c)'
      PROVE  now' - began'[c] <= GatewayTimeout /\ (ans'[c] # None => ans'[c].at = now')
  <2>1. CASE pc[c] # "idle"
    <3>1. Waiting(c)
      BY <1>3, <2>1 DEF Waiting
    <3> QED
      BY <1>1, <2>1, <3>1 DEF FlowInv
  <2>2. CASE pc[c] = "idle"
    <3>1. began'[c] = now /\ ans[c] = None
      BY <1>1, <1>3, <2>2 DEF Waiting, ServiceInv, HandlerInv
    <3> QED
      BY <1>1, <3>1
  <2> QED
    BY <2>1, <2>2
<1> QED
  BY <1>1, <1>2, <1>3 DEF FlowInv

LEMMA ShowFlow ==
    ASSUME ServiceInv, FlowInv, TTL > 0, NEW c \in Call, Show(c) \/ GiveUp(c) \/ LoseCall(c)
    PROVE  FlowInv'
<1>1. /\ Waiting(c) /\ UNCHANGED fxVars /\ now \in Nat /\ TTL \in Nat
      /\ UNCHANGED <<now, pc, began, key, ans, waited>>
      /\ now - began[c] <= GatewayTimeout
  BY TimeAssumption DEF Show, GiveUp, LoseCall, fxVars, FlowInv, ServiceInv, FxTypeOK
<1>2. PICK s \in Shown :
        /\ shown' = [shown EXCEPT ![c] = s] /\ s.at = now
        /\ s.by = "service" => /\ s.answer = ans[c] /\ ans[c] # None /\ s.answer \in Answer
  <2>1. CASE ShowOwn(c)
    <3> DEFINE s == [by |-> "gateway", answer |-> None, at |-> now]
    <3>1. s \in Shown /\ s.at = now /\ s.by # "service"
      BY <1>1 DEF Shown
    <3> QED
      BY <2>1, <3>1 DEF ShowOwn
  <2>2. CASE Show(c) /\ ~ShowOwn(c)
    <3> DEFINE s == [by |-> "service", answer |-> ans[c], at |-> now]
    <3>1. ans[c] # None /\ ans[c] \in Answer
      BY <2>2 DEF Show, ServiceInv, FxTypeOK
    <3>2. s \in Shown /\ s.at = now /\ s.answer = ans[c]
      BY <1>1, <3>1 DEF Shown
    <3>3. shown' = [shown EXCEPT ![c] = s]
      BY <2>2 DEF Show
    <3> QED
      BY <3>1, <3>2, <3>3
  <2> QED
    BY <2>1, <2>2 DEF Show, GiveUp, LoseCall
<1>3. /\ shown' \in [Call -> Shown \cup {None}] /\ shown'[c] = s
      /\ \A d \in Call \ {c} : shown'[d] = shown[d]
  BY <1>2 DEF FlowInv
<1>4. s.by = "service" /\ s.answer.label \in Provider =>
        /\ s.answer.rate \in Rate /\ s.answer.rate.of = key[c]
        /\ Age(s.answer.rate, s.at) < Lifetime(s.answer.rate, c)
  <2> SUFFICES ASSUME s.by = "service", s.answer.label \in Provider
               PROVE  /\ s.answer.rate \in Rate /\ s.answer.rate.of = key[c]
                      /\ Age(s.answer.rate, s.at) < Lifetime(s.answer.rate, c)
    OBVIOUS
  <2> DEFINE r == ans[c].rate
  <2>1. s.answer = ans[c] /\ ans[c] # None /\ ans[c].at = now /\ s.at = now /\ ans[c] \in Answer
    BY <1>1, <1>2 DEF FlowInv
  <2>2. r \in Rate /\ r.of = key[c]
    BY <2>1 DEF ServiceInv, SourceIsTrue, Answer
  <2>3. CASE ans[c].fromCache
    BY <2>1, <2>2, <2>3 DEF ServiceInv, AnswersAreFresh
  <2>4. CASE ~ans[c].fromCache
    <3>1. Age(r, now) <= waited[c]
      BY <2>1, <2>4 DEF ServiceInv, HandlerInv
    <3> HIDE DEF r
    <3>2. Age(r, now) < Lifetime(r, c)
      BY <1>1, <2>2, <3>1, RateIs DEF Age, ServiceInv
    <3> QED
      BY <2>1, <2>2, <3>2 DEF r
  <2> QED
    BY <2>3, <2>4
<1>5. ShownIsTrue'
  <2> SUFFICES ASSUME NEW d \in Call, shown'[d] # None, shown'[d].by = "service"
               PROVE  /\ shown'[d] \in Shown
                      /\ shown'[d].at - began[d] <= GatewayTimeout
                      /\ shown'[d].answer.label \in Provider =>
                            /\ shown'[d].answer.rate.of = key[d]
                            /\ Age(shown'[d].answer.rate, shown'[d].at)
                                 < Lifetime(shown'[d].answer.rate, d)
    BY <1>1 DEF ShownIsTrue, Age, Lifetime
  <2>1. CASE d = c
    BY <1>1, <1>2, <1>3, <1>4, <2>1
  <2>2. CASE d # c
    BY <1>1, <1>3, <2>2 DEF FlowInv, ShownIsTrue
  <2> QED
    BY <2>1, <2>2
<1>6. s # None
  BY ShownAssumption
<1>7. ASSUME NEW d \in Call, Waiting(d)'
      PROVE  Waiting(d)
  BY <1>1, <1>3, <1>6, <1>7 DEF Waiting
<1>8. ASSUME NEW d \in Call, shown'[d] # None
      PROVE  /\ pc'[d] # "idle"
             /\ shown'[d].by = "service" /\ shown'[d].answer.label \in Provider =>
                  shown'[d].answer.rate \in Rate
  <2>1. CASE d = c
    BY <1>1, <1>3, <1>4, <2>1 DEF Waiting
  <2>2. CASE d # c
    BY <1>1, <1>3, <1>8, <2>2 DEF FlowInv
  <2> QED
    BY <2>1, <2>2
<1> QED
  BY <1>1, <1>3, <1>5, <1>7, <1>8 DEF FlowInv, Waiting

LEMMA TickFlow ==
    ASSUME ServiceInv, FlowInv, FlowTick
    PROVE  FlowInv'
<1>1. /\ UNCHANGED <<shown, pc, began, key, ans>> /\ now' = now + 1 /\ now \in Nat
      /\ GatewayTimeout \in Nat /\ began \in [Call -> 0..MaxNow]
  BY TimeAssumption, GatewayTimeoutAssumption DEF FlowTick, Tick, ServiceInv, FxTypeOK
<1>4. \A d \in Call : waited'[d] \in Nat /\ waited[d] <= waited'[d]
  BY TimeAssumption DEF FlowTick, Tick, ServiceInv, FxTypeOK
<1>2. ShownIsTrue'
  BY <1>1, <1>4, ShownKept
<1>3. \A c \in Call : Waiting(c)' => now' - began'[c] <= GatewayTimeout /\ ans'[c] = None
  BY <1>1 DEF FlowTick, Waiting
<1> QED
  BY <1>1, <1>2, <1>3 DEF FlowInv

\* Clients are shown answers to their own calls, in time, with rates no older
\* than the cache keeps them, whatever they share with concurrent calls.
THEOREM ShownAnswersAreTrue ==
    ASSUME TTL > 0
    PROVE  FlowSpec => []ShownIsTrue
<1>1. FlowInit => FlowInv
  BY DEF FlowInit, FxInit, FlowInv, Waiting, ShownIsTrue
<1>2. ServiceInv /\ FlowInv /\ [FlowNext]_flowVars => FlowInv'
  <2>1. ServiceInv /\ FlowInv /\ UNCHANGED flowVars => FlowInv'
    BY DEF flowVars, FlowInv, Waiting, ShownIsTrue, Age, Lifetime
  <2> QED
    BY <2>1, ServiceFlow, ShowFlow, TickFlow DEF FlowNext, ServiceStep
<1>3. FlowInv => ShownIsTrue
  BY DEF FlowInv
<1> QED
  BY <1>1, <1>2, <1>3, FlowInvariance, PTL DEF FlowSpec
=============================================================================
