----------------------------- MODULE MCBacktest -----------------------------
(* Both engines, short and long holds, latencies 0 to 2, for TLC. *)
EXTENDS Backtest

MCConfigs == [options : BOOLEAN, maxHold : {1, 2}, latency : 0..2]
=============================================================================
