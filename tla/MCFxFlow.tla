------------------------------ MODULE MCFxFlow ------------------------------
(***************************************************************************)
(* Small instances of FxFlow.                                              *)
(***************************************************************************)
EXTENDS FxFlow, TLC

Symmetry == Permutations(Call)

\* States that differ only in what is never read again are one: no handler reads
\* the health flags, a rate or a timer it no longer needs, the last opening of a
\* closed breaker, or an expired entry, and no property of these runs reads the
\* lost calls or when the gateway gave its own answer.
View ==
    <<now, connected, breaker, http, pc, key, began, failed, ans, waited,
      [c \in Call |-> IF shown[c] # None /\ shown[c].by = "gateway" THEN "gateway" ELSE shown[c]],
      [k \in Key |-> IF Fresh(k) THEN cache[k] ELSE None],
      [p \in Provider |-> IF breaker[p] = "closed" THEN 0 ELSE since[p]],
      [c \in Call |-> IF pc[c] \in {"hit", "storing"} THEN rate[c] ELSE None],
      [c \in Call |-> IF pc[c] = "answered" THEN "primary" ELSE provider[c]],
      [c \in Call |-> IF pc[c] \in {"waiting", "backoff"} THEN due[c] ELSE 0]>>
=============================================================================
