---------------------------- MODULE MCLiveOrders ----------------------------
(* Instances of LiveOrders for TLC. *)
EXTENDS LiveOrders

CONSTANTS e1, e2

\* Kantu and TrendLimit on one account.
KantuAndLimit == [i \in {e1, e2} |-> IF i = e1 THEN {"long", "exit"} ELSE {"uptrend"}]
OneAndTwo == [i \in {e1, e2} |-> IF i = e1 THEN 1 ELSE 2]
TwoAndOne == [i \in {e1, e2} |-> IF i = e1 THEN 2 ELSE 1]

\* One instance.
KantuAlone == [i \in {e1} |-> {"long", "short", "trail"}]
GridAlone == [i \in {e1} |-> {"grid"}]
One == [i \in {e1} |-> 1]
Two == [i \in {e1} |-> 2]
Three == [i \in {e1} |-> 3]
=============================================================================
