------------------------------ MODULE MCPrices ------------------------------
(***************************************************************************)
(* From prices to decisions: the price stream, the candles made of its     *)
(* ticks, the liquidity sweep read off the candles, the trading hours, the *)
(* stops moved with prices and news, and the three parts of the high-      *)
(* frequency path.                                                         *)
(*                                                                         *)
(* The parts share no state, so one behaviour follows one of them while    *)
(* the others rest.                                                        *)
(***************************************************************************)
EXTENDS MarketStream, CandleBuffer, LiquiditySweep, MarketHours, Stops, HFTPipeline,
        HFTRateLimiter, HFTRisk

VARIABLE part   \* the part that moves

\* Shapes around a previous day between 4 and 6, and a breakout of it to either side.
Shape(o, h, l, c) == [open |-> o, high |-> h, low |-> l, close |-> c]
MCShapes == {Shape(5, 6, 4, 5), Shape(4, 4, 2, 2), Shape(2, 4, 2, 3), Shape(3, 5, 3, 4),
             Shape(6, 8, 6, 8), Shape(8, 8, 6, 7)}

\* A quote each of the two strategies reacts to, and one neither does.
QuoteOf(epic, bids, asks, spread, average, move) ==
  [instrument |-> epic, bid_volume |-> bids, ask_volume |-> asks, spread |-> spread,
   avg_spread |-> average, move |-> move]
MCQuotes == {QuoteOf("EURUSD", 9, 1, 1, 4, 0), QuoteOf("GBPUSD", 8, 2, 2, 5, -11),
             QuoteOf("GBPUSD", 0, 0, 0, 5, 10)}

\* A loss of 3 crosses the threshold, one of 2 does so only together with another.
MCThreshold == -2
LossesAndGain == {-3, -2, 2}

Symmetry == Permutations(Epics) \cup Permutations(Clients)

Init ==
  /\ part \in {"stream", "candles", "sweep", "hours", "stops", "pipeline", "limiter",
               "hft_risk"}
  /\ StreamInit
  /\ CandleInit
  /\ SweepInit
  /\ HoursInit /\ (part # "hours" => minute = 0)
  /\ StopsInit /\ (part # "stops" => side = 1)
  /\ PipeInit
  /\ LimiterInit
  /\ HftRiskInit

Next ==
  \/ /\ part = "stream" /\ StreamNext
     /\ UNCHANGED <<part, candleVars, sweepVars, minute, stopVars, pipeVars, limiterVars,
                    hftRiskVars>>
  \/ /\ part = "candles" /\ CandleNext
     /\ UNCHANGED <<part, streamVars, sweepVars, minute, stopVars, pipeVars, limiterVars,
                    hftRiskVars>>
  \/ /\ part = "sweep" /\ SweepNext
     /\ UNCHANGED <<part, streamVars, candleVars, minute, stopVars, pipeVars, limiterVars,
                    hftRiskVars>>
  \/ /\ part = "hours" /\ HoursNext
     /\ UNCHANGED <<part, streamVars, candleVars, sweepVars, stopVars, pipeVars, limiterVars,
                    hftRiskVars>>
  \/ /\ part = "stops" /\ StopsNext
     /\ UNCHANGED <<part, streamVars, candleVars, sweepVars, minute, pipeVars, limiterVars,
                    hftRiskVars>>
  \/ /\ part = "pipeline" /\ PipeNext
     /\ UNCHANGED <<part, streamVars, candleVars, sweepVars, minute, stopVars, limiterVars,
                    hftRiskVars>>
  \/ /\ part = "limiter" /\ LimiterNext
     /\ UNCHANGED <<part, streamVars, candleVars, sweepVars, minute, stopVars, pipeVars,
                    hftRiskVars>>
  \/ /\ part = "hft_risk" /\ HftRiskNext
     /\ UNCHANGED <<part, streamVars, candleVars, sweepVars, minute, stopVars, pipeVars,
                    limiterVars>>

vars == <<part, streamVars, candleVars, sweepVars, minute, stopVars, pipeVars, limiterVars,
          hftRiskVars>>

Spec == Init /\ [][Next]_vars
=============================================================================
