------------------------------- MODULE FxFlow -------------------------------
(***************************************************************************)
(* The FX endpoints of the gateway (services/gateway, fx.service.ts) in    *)
(* front of the FX service: a call is waited for at most FX_TIMEOUT_MS and *)
(* not repeated; whatever goes wrong, the gateway answers its own default  *)
(* rate.  The FX service does not notice that a call was given up.         *)
(***************************************************************************)
EXTENDS FxService

CONSTANT GatewayTimeout  \* FX_TIMEOUT_MS

ASSUME GatewayTimeoutAssumption == GatewayTimeout \in Nat \ {0}

VARIABLES
    shown,  \* shown[c]: the answer the client got, or None
    lost    \* calls whose connection failed before they were answered

flowVars == <<now, connected, cache, breaker, since, healthy, http, pc, key, began,
              provider, failed, due, rate, ans, waited, shown, lost>>

\* What the client gets; by says whose default rate it is, if it is one.
Shown == [by : {"service", "gateway"}, answer : Answer \cup {None}, at : Nat]

ASSUME ShownAssumption == None \notin Shown

Waiting(c) == pc[c] # "idle" /\ shown[c] = None

ShowOwn(c) ==
    shown' = [shown EXCEPT ![c] = [by |-> "gateway", answer |-> None, at |-> now]]

\* Mutant: a late answer replaces the default rate.
ShowLate(c) ==
    /\ pc[c] # "idle" /\ ans[c] # None
    /\ IF ans[c].label = "ERROR"
       THEN ShowOwn(c)
       ELSE shown' = [shown EXCEPT ![c] = [by |-> "service", answer |-> ans[c], at |-> now]]
    /\ UNCHANGED <<fxVars, lost>>

\* The answer arrives in time; an error is caught.
Show(c) ==
    /\ Waiting(c) /\ ans[c] # None
    /\ IF ans[c].label = "ERROR"
       THEN ShowOwn(c)
       ELSE shown' = [shown EXCEPT ![c] = [by |-> "service", answer |-> ans[c], at |-> now]]
    /\ UNCHANGED <<fxVars, lost>>

\* The operator timeout of rxjs.
GiveUp(c) ==
    /\ Waiting(c) /\ ans[c] = None
    /\ now - began[c] = GatewayTimeout
    /\ ShowOwn(c)
    /\ UNCHANGED <<fxVars, lost>>

\* The connection fails; the FX service goes on with the call.
LoseCall(c) ==
    /\ Waiting(c)
    /\ ShowOwn(c)
    /\ lost' = lost \cup {c}
    /\ UNCHANGED fxVars

\* Time passes when no client is due an answer.
FlowTick ==
    /\ \A c \in Call : Waiting(c) => ans[c] = None /\ now - began[c] < GatewayTimeout
    /\ Tick
    /\ UNCHANGED <<shown, lost>>

FlowInit ==
    /\ FxInit
    /\ shown = [c \in Call |-> None]
    /\ lost = {}

FlowNext ==
    \/ /\ \/ \E c \in Call, k \in Key : Arrive(c, k)
          \/ \E c \in Call : Handle(c)
          \/ Redis
          \/ Provide
          \/ \E p \in Provider : HalfOpen(p)
          \/ RedisToggles
       /\ UNCHANGED <<shown, lost>>
    \/ \E c \in Call : Show(c) \/ GiveUp(c) \/ LoseCall(c)
    \/ FlowTick

FlowSpec == FlowInit /\ [][FlowNext]_flowVars

(***************************************************************************)
(* Correctness                                                             *)
(***************************************************************************)
\* A client is shown the answer to its own call, while it waits for it, and the
\* rate in it is then not older than the cache keeps rates and Redis delayed
\* them, although the answer was computed earlier and by concurrent calls.
ShownIsTrue ==
    \A c \in Call : shown[c] # None /\ shown[c].by = "service" =>
        /\ shown[c] \in Shown
        /\ shown[c].at - began[c] <= GatewayTimeout
        /\ shown[c].answer.label \in Provider =>
              /\ shown[c].answer.rate.of = key[c]
              /\ Age(shown[c].answer.rate, shown[c].at) < Lifetime(shown[c].answer.rate, c)

\* While the fallback provider answers, a failure of the primary provider is not
\* seen by the client: docs/FX_SERVICE_VALIDATION.md:25, "Cambio automático al
\* fallback si primaria falla".  The code violates it: the attempts at a primary
\* provider that hangs take longer than the gateway waits for the whole call,
\* with a Redis that takes no time.
FallbackReachesClient ==
    "fallback" \in Reliable =>
        \A c \in Call \ lost : shown[c] # None /\ waited[c] = 0 =>
            shown[c].by = "service" /\ shown[c].answer.label \in Provider
=============================================================================
