---------------------------- MODULE MCYProvider ----------------------------
(* Values for the constants of YProvider: the tabs of one browser.         *)
EXTENDS YProvider

CONSTANTS t1, t2, e1, e2
=============================================================================
