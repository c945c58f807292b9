----------------------------- MODULE MCFxService -----------------------------
(***************************************************************************)
(* Small instances of FxService: one currency pair and one base currency.  *)
(***************************************************************************)
EXTENDS FxService, TLC

Symmetry == Permutations(Call)

\* States that differ only in what is never read again are one: no handler reads
\* the health flags, a rate or a timer it no longer needs, the last
\* opening of a closed breaker, or an expired entry.
View ==
    <<now, connected, breaker, http, pc, key, began, failed, ans, waited,
      [k \in Key |-> IF Fresh(k) THEN cache[k] ELSE None],
      [p \in Provider |-> IF breaker[p] = "closed" THEN 0 ELSE since[p]],
      [c \in Call |-> IF pc[c] \in {"hit", "storing"} THEN rate[c] ELSE None],
      [c \in Call |-> IF pc[c] = "answered" THEN "primary" ELSE provider[c]],
      [c \in Call |-> IF pc[c] \in {"waiting", "backoff"} THEN due[c] ELSE 0]>>
=============================================================================
