---------------------------- MODULE MCRiskEngine ----------------------------
(* Three instruments in two classes; equities on both sides of the drawdown *)
(* thresholds of a peak of 100, losses that reach the daily limit together. *)
EXTENDS RiskEngine

MCReadings ==
    [src \in Sources |->
       CASE src = "vix" -> {[vix |-> 26, mean |-> 20, std |-> 2]}
         [] src = "portfolio_loss" -> {20}
         [] src = "drawdown" -> {15, 16}
         [] src = "crisis" -> {29}
         [] src = "manual" -> {}]

MCNotional == [e \in {"EURUSD", "GBPUSD", "US500"} |->
                 IF e = "US500" THEN 25 ELSE 20]
MCClass == [e \in DOMAIN MCNotional |-> IF e = "US500" THEN "indices" ELSE "forex"]
MCRegion == [e \in DOMAIN MCNotional |-> "europe"]
MCAtr == [e \in DOMAIN MCNotional |-> IF e = "EURUSD" THEN 1 ELSE 2]

Sig(e, reward, atr, spike) ==
    [instrument |-> e, risk |-> 2, reward |-> reward, atr |-> atr,
     spike |-> spike, risk_pct |-> IF e = "US500" THEN 0 ELSE 1]

MCPnls == {-2}

MCSignals == {Sig("EURUSD", 3, 10, FALSE), Sig("GBPUSD", 3, 10, TRUE),
              Sig("US500", 3, 10, FALSE), Sig("EURUSD", 2, 10, FALSE)}
=============================================================================
