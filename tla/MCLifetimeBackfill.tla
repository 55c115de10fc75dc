------------------------ MODULE MCLifetimeBackfill ------------------------
(***************************************************************************)
(* LifetimeBackfill for TLC: which wallets are indexed.                    *)
(***************************************************************************)
EXTENDS LifetimeBackfill

HistoriesBoth == {{}, {8, 10}}          \* an unused wallet, a used one
HistoriesBusy == {1..FirstHead}
HistoriesLate == {{8, 10, 11}}          \* blocks with one and with two digits
=============================================================================
