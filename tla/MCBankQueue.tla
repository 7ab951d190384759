----------------------------- MODULE MCBankQueue -----------------------------
(* Two windows, a day of three minutes, up to four customers per run, with *)
(* simultaneous events, services that last beyond closing time and a queue   *)
(* that is not empty when the bank closes.                                   *)
EXTENDS BankQueue

MCGaps == {0, 1, 3}
MCDurations == {0, 2}
=============================================================================
