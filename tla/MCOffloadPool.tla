---------------------------- MODULE MCOffloadPool ----------------------------
(* An instance of OffloadPool for TLC: twice as many calls as threads, so that *)
(* two can wait in the queue while two others occupy every thread.            *)
EXTENDS OffloadPool

CONSTANTS c1, c2, c3, c4, w1, w2

FourCalls  == {c1, c2, c3, c4}
TwoWorkers == {w1, w2}
==============================================================================
