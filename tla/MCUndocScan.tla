---------------------------- MODULE MCUndocScan -----------------------------
(***************************************************************************)
(* Small instance of UndocScan: a few workers, four ranges of two (the     *)
(* last one cut short by Until, the second one without unknown             *)
(* instructions), buffers of two lines, and every choice of what the       *)
(* client knows.                                                           *)
(***************************************************************************)
EXTENDS UndocScan

MCUnknown == {0, 1, 4, 5, 6}
=============================================================================
