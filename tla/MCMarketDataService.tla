------------------------ MODULE MCMarketDataService ------------------------
(* A small instance of MarketDataService: price 5 does not fit an int of -4..3. *)
EXTENDS MarketDataService

\* "feed": messages of the exchange and the first heartbeat, without failures.
\* "session": at most one message, but failures and more heartbeats at any time.
VARIABLE slice

Within ==
  CASE slice = "feed" -> faults' = 0 /\ id_' <= 2
    [] slice = "session" -> msgs' <= 1

SliceInit == Init /\ slice \in {"feed", "session"}

SliceNext == Next /\ Within /\ UNCHANGED slice

\* Neither bound stops a Stage or a Write: after each the heartbeat may stay away, but
\* the first.
SliceSpec == SliceInit /\ [][SliceNext]_<<vars, slice>> /\ WF_vars(Stage) /\ WF_vars(Write)
=============================================================================
