------------------------ MODULE MCTradeServiceSafety ------------------------
(* TradeService with failures of both sides, or of one side and orders. *)
EXTENDS TradeService

\* "orders": an order, its cancellation and curl across failures of the HTTP side only,
\* with the first heartbeat.  "context": no orders and no curl, but a failure of either
\* side, also of both at once, and a heartbeat at any time.
VARIABLE slice

Within ==
  CASE slice = "orders" -> faults'.ws = 0 /\ beats' <= 1
    [] slice = "context" -> faults'.http <= 1 /\ placed' = {} /\ svc'.syncs = 0

SliceInit == Init /\ slice \in {"orders", "context"}

SliceNext == Next /\ Within /\ UNCHANGED slice

SliceSpec == SliceInit /\ [][SliceNext]_<<vars, slice>>
=============================================================================
