----------------------------- MODULE MCExposure -----------------------------
(* Three contracts on two underlyings for TLC. *)
EXTENDS Exposure

CONSTANTS spyCall, spyPut, qqqCall

MCUnderlying == [c \in Contracts |-> IF c = qqqCall THEN "QQQ" ELSE "SPY"]
MCPrice      == [c \in Contracts |-> IF c = spyPut THEN 1 ELSE 2]
MCStopPrice  == [c \in Contracts |-> 1]
=============================================================================
