----------------------------- MODULE MCApplyLoop -----------------------------
(* Small instances of ApplyLoop: two units of time make a notice, one the   *)
(* apply window.                                                            *)
EXTENDS ApplyLoop, TLC

CONSTANTS a, b, c1, c2

EscalateOverdue == [BOOK_NOT_FRESH |-> 1, LEG_STALE |-> 1, CHANGE_UNCHECKED |-> 1]
Codes    == {"SEND_FAILED", "NO_PENDING_CHANGE"}
OtherCodes == {"NO_PENDING_CHANGE", "MISSING_CUSTODY", "WRONG_PORTFOLIO", "LOW_SOL"}
=============================================================================
