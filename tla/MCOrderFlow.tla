----------------------------- MODULE MCOrderFlow -----------------------------
(***************************************************************************)
(* Small instances of OrderFlow: what the HTTP requests may ask for.       *)
(***************************************************************************)
EXTENDS OrderFlow, TLC

CONSTANTS k1, p1, p2, o1

Create(k, p) == [op |-> "create", key |-> k, payload |-> p, order |-> None]
Lookup(op, o) == [op |-> op, key |-> None, payload |-> None, order |-> o]

Creates == {Create(k, p) : k \in {k1, None}, p \in {p1, p2}}
KeyedCreates == {Create(k1, p1)}
Retried == KeyedCreates \cup {Lookup("receipt", o1)}
Lifecycle == {Create(None, p1), Lookup("cancel", o1), Lookup("receipt", o1)}

OrderSymmetry ==
    Permutations(Client) \cup Permutations(OrderId) \cup Permutations(Replica)
=============================================================================
