----------------------------- MODULE MCHLCClock -----------------------------
(* HLCClock with a bound on the logical counters, which re-ingesting a row  *)
(* raises without end.                                                      *)
EXTENDS HLCClock

CONSTANT MaxLogical

Shallow == \A d \in Device : hlc_last[d].l <= MaxLogical
=============================================================================
