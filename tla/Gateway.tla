------------------------------- MODULE Gateway -------------------------------
(***************************************************************************)
(* The order endpoints of the API gateway (GatewayService): each HTTP      *)
(* request makes one gRPC call at a time, gives it a time limit, and       *)
(* repeats it after any error until the retries are used up.  A receipt    *)
(* takes two calls in a row, each with its own retries.  What the called   *)
(* service does is left open: see OrderFlow.                               *)
(***************************************************************************)
EXTENDS Integers

CONSTANTS
    Client,      \* HTTP requests; each is made at most once
    Wish,        \* what an HTTP request can ask for
    MaxRetries,  \* MAX_RETRIES: calls that may follow the first one
    None         \* no wish, no answer yet

VARIABLES
    wish,     \* wish[g]: what request g asks for
    phase,    \* phase[g]: where its handler is
    stage,    \* stage[g]: the service it is calling
    attempt,  \* attempt[g][s]: calls made to service s so far
    body,     \* body[g]: the answer of the orders service
    http      \* http[g]: the status sent to the client, or None

gatewayVars == <<wish, phase, stage, attempt, body, http>>

ASSUME RetryAssumption == MaxRetries \in Nat
ASSUME NoWishAssumption == None \notin Wish

Attempt == 1..(MaxRetries + 1)
Phase == {"idle", "waiting", "backoff", "done"}
Stage == {"orders", "receipt"}
HttpStatus == {200, 400, 404, 409, 500, 503, 504}

ASSUME NoAnswerAssumption == None \notin HttpStatus

\* Mutant: codes the switch does not name are the client's fault.
MapGrpcErrorBlamingClient(e) ==
    CASE e = "TIMEOUT" -> 504
      [] e = "NOT_FOUND" -> 404
      [] e \in {"ALREADY_EXISTS", "FAILED_PRECONDITION"} -> 409
      [] e \in {"DEADLINE_EXCEEDED", "UNAVAILABLE"} -> 503
      [] OTHER -> 400

MapGrpcError(e) ==
    CASE e = "TIMEOUT" -> 504
      [] e = "INVALID_ARGUMENT" -> 400
      [] e = "NOT_FOUND" -> 404
      [] e \in {"ALREADY_EXISTS", "FAILED_PRECONDITION"} -> 409
      [] e \in {"DEADLINE_EXCEEDED", "UNAVAILABLE"} -> 503
      [] OTHER -> 500

Begin(g, w) ==
    /\ phase[g] = "idle"
    /\ wish' = [wish EXCEPT ![g] = w]
    /\ phase' = [phase EXCEPT ![g] = "waiting"]
    /\ attempt' = [attempt EXCEPT ![g]["orders"] = 1]
    /\ UNCHANGED <<stage, body, http>>

Respond(g, status) ==
    /\ phase' = [phase EXCEPT ![g] = "done"]
    /\ http' = [http EXCEPT ![g] = status]

\* The orders service answers.  For a receipt, the order it answered with is
\* sent on to the receipt service.
GotOrder(g, b) ==
    /\ phase[g] = "waiting" /\ stage[g] = "orders"
    /\ body' = [body EXCEPT ![g] = b]
    /\ IF wish[g].op = "receipt"
       THEN /\ stage' = [stage EXCEPT ![g] = "receipt"]
            /\ attempt' = [attempt EXCEPT ![g]["receipt"] = 1]
            /\ UNCHANGED <<phase, http>>
       ELSE /\ Respond(g, 200)
            /\ UNCHANGED <<stage, attempt>>
    /\ UNCHANGED wish

GotReceipt(g) ==
    /\ phase[g] = "waiting" /\ stage[g] = "receipt"
    /\ Respond(g, 200)
    /\ UNCHANGED <<wish, stage, attempt, body>>

\* Mutant: one retry too many.
GotErrorOnceMore(g, e) ==
    /\ phase[g] = "waiting"
    /\ IF attempt[g][stage[g]] <= MaxRetries + 1
       THEN phase' = [phase EXCEPT ![g] = "backoff"] /\ UNCHANGED http
       ELSE Respond(g, MapGrpcError(e))
    /\ UNCHANGED <<wish, stage, attempt, body>>

\* Any error, the service's refusals included, is retried while retries are
\* left; the last one is what the client gets to see.
GotError(g, e) ==
    /\ phase[g] = "waiting"
    /\ IF attempt[g][stage[g]] <= MaxRetries
       THEN phase' = [phase EXCEPT ![g] = "backoff"] /\ UNCHANGED http
       ELSE Respond(g, MapGrpcError(e))
    /\ UNCHANGED <<wish, stage, attempt, body>>

\* timeout(TIMEOUT_MS): the gateway stops waiting for the call.
TimeOut(g) == GotError(g, "TIMEOUT")

\* Mutant: the retries are not counted.
ResendUncounted(g) ==
    /\ phase[g] = "backoff"
    /\ phase' = [phase EXCEPT ![g] = "waiting"]
    /\ UNCHANGED <<wish, stage, attempt, body, http>>

\* After the delay between two attempts.
Resend(g) ==
    /\ phase[g] = "backoff"
    /\ phase' = [phase EXCEPT ![g] = "waiting"]
    /\ attempt' = [attempt EXCEPT ![g][stage[g]] = @ + 1]
    /\ UNCHANGED <<wish, stage, body, http>>

GatewayInit ==
    /\ wish = [g \in Client |-> None]
    /\ phase = [g \in Client |-> "idle"]
    /\ stage = [g \in Client |-> "orders"]
    /\ attempt = [g \in Client |-> [s \in Stage |-> 0]]
    /\ body = [g \in Client |-> None]
    /\ http = [g \in Client |-> None]

GatewayTypeOK ==
    /\ wish \in [Client -> Wish \cup {None}]
    /\ phase \in [Client -> Phase]
    /\ stage \in [Client -> Stage]
    /\ attempt \in [Client -> [Stage -> Attempt \cup {0}]]
    /\ http \in [Client -> HttpStatus \cup {None}]
=============================================================================
