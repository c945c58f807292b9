------------------------------ MODULE MCOrders -------------------------------
(***************************************************************************)
(* Symmetry sets, a bound and a view for the small instances of Orders     *)
(* that TLC checks.  The payloads are not symmetric: one of them is not    *)
(* valid.                                                                  *)
(***************************************************************************)
EXTENDS Orders, TLC

Symmetry == Permutations(Call) \cup Permutations(OrderId)
ReplicaSymmetry == Symmetry \cup Permutations(Replica)

\* A bound of orders_replicas: in one behaviour replicas crash, once each, or the
\* clock ticks, at any moment of any interleaving of the calls.
CrashOrTick == now = 0 \/ \A r \in Replica : incarnation[r] = 0

\* What a step or a property may still read: the count of packages during the
\* inserts, the copy of a row until it is used, and the time of an answer when
\* it is that of a create.
View ==
    <<now, incarnation, store, orders, packages, pc, req, proc, made,
      [c \in Call |-> IF pc[c] = "inserting" THEN inserted[c] ELSE 0],
      [c \in Call |-> IF pc[c] = "loading" THEN copy[c] ELSE None],
      [c \in Call |-> IF ans[c] = None \/ (Answered(c, "OK") /\ IsCreate(c)) THEN ans[c]
                      ELSE [ans[c] EXCEPT !.at = 0]]>>
=============================================================================
