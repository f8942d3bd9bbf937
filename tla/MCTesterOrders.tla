--------------------------- MODULE MCTesterOrders ---------------------------
(* Instances of TesterOrders for TLC. *)
EXTENDS TesterOrders, TLC

Market == {"BUY", "SELL"}
\* A pending type and a market one; what triggers becomes the market type of its side.
LimitAndMarket == {"BUYLIMIT", "SELL"}
Loss == {-1}
MinusOne == -1
NoTicks == [n \in 1..2 |-> -1]
OneSystem == [n \in {1} |-> -1]
=============================================================================
