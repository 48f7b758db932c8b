------------------------------ MODULE MCOrder ------------------------------
EXTENDS Order

(* With a moderator, an order may wait in offline storage and be sent again; *)
(* without one, most messages may, and either trader may restart.           *)
SlowTypes == [m \in Method |->
    IF m = "MODERATED" THEN {"ORDER"}
    ELSE {"ORDER", "ORDER_FULFILLMENT", "ORDER_CONFIRMATION", "ORDER_CANCEL", "ERROR"}]
Repeated == [m \in Method |->
    IF m = "DIRECT" THEN {"ORDER_CONFIRMATION", "ORDER_CANCEL", "REFUND"} ELSE {"ORDER"}]
Waiting == {"AWAITING_PAYMENT", "PENDING", "AWAITING_FULFILLMENT", "CANCELED"}
Restarting == [m \in Method |-> IF m = "MODERATED" THEN {} ELSE Trader]
=============================================================================
