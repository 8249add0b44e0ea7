---------------------------- MODULE MCTradingLoop ----------------------------
(* Instances of TradingLoop: two currency pairs quoted in the same currency. *)
EXTENDS TradingLoop

MCInstruments == <<"EURUSD", "GBPUSD">>
OneInstrument == <<"EURUSD">>
MCBase  == [e \in {"EURUSD", "GBPUSD"} |-> IF e = "EURUSD" THEN "EUR" ELSE "GBP"]
MCQuote == [e \in {"EURUSD", "GBPUSD"} |-> "USD"]
LossOrProfit == {-1, 1}
Losses == {-1}
=============================================================================
