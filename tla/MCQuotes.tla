------------------------------- MODULE MCQuotes -------------------------------
(***************************************************************************)
(* Bodies around the edges of what the gateway, pricing and the monolith   *)
(* accept, with amounts that do not come out even.                         *)
(***************************************************************************)
EXTENDS Quotes

Package(w, h, wd, l, f, d) ==
    [weight |-> w, height |-> h, width |-> wd, length |-> l, fragile |-> f, declared |-> d]

Light == Package(100, 1, 1, 1, FALSE, 0)          \* 10 g, half a centimetre high
Fragile == [Light EXCEPT !.fragile = TRUE, !.declared = 90001]
Bulky == Package(12300, 57, 31, 13, TRUE, 33333)  \* volume counts, half centimetres
Heavy == Package(71234, 20, 10, 10, FALSE, 9999)  \* weight counts, 7.1234 kg
Plain == Package(20000, 60, 20, 15, TRUE, 1)      \* whole units, one cent declared

\* Packages whose price falls on either side of a cent, at every rate.
Odd == {Package(31700 + 100 * k + j, 1, 1, 1, FALSE, 10 * k + 19) : k \in 1..5, j \in {0, 29, 31, 47}}

MCBodies ==
    [originZone      : {"METRO", "ATLANTIS"},
     destinationZone : {"METRO", "INTERIOR", "FRONTERA", "ATLANTIS"},
     serviceType     : {"STANDARD", "EXPRESS", "SAME_DAY"},
     packages        : {<<>>, <<Light>>, <<Fragile>>, <<Bulky>>, <<Heavy>>, <<Plain>>,
                        <<Plain, Bulky>>, <<Heavy, Light>>, <<[Light EXCEPT !.weight = 0]>>,
                        <<[Light EXCEPT !.declared = -1]>>},
     discount        : {None, [type |-> "NONE", value |-> 5], [type |-> "PERCENT", value |-> 0],
                        [type |-> "PERCENT", value |-> 7], [type |-> "PERCENT", value |-> 35],
                        [type |-> "PERCENT", value |-> 36], [type |-> "FIXED", value |-> 1234],
                        [type |-> "FIXED", value |-> 100000], [type |-> "FIXED", value |-> -1]},
     insured         : BOOLEAN]
    \cup
    [originZone      : {"METRO"},
     destinationZone : {"METRO", "INTERIOR", "FRONTERA"},
     serviceType     : {"STANDARD", "EXPRESS", "SAME_DAY"},
     packages        : {<<p>> : p \in Odd} \cup {<<p, Plain>> : p \in Odd},
     discount        : {None, [type |-> "PERCENT", value |-> 3], [type |-> "PERCENT", value |-> 33],
                        [type |-> "FIXED", value |-> 99]},
     insured         : BOOLEAN]
=============================================================================
