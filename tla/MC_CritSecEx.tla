---------------------------- MODULE MC_CritSecEx ----------------------------
(* Three threads, of which one enters with a timeout.                       *)
EXTENDS CritSecEx
CONSTANTS t1, t2, t3
MC_Threads == {t1, t2, t3}
MC_Timed   == {t3}
=============================================================================
