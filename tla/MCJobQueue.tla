----------------------------- MODULE MCJobQueue -----------------------------
(* Instance of JobQueue for TLC *)
EXTENDS JobQueue

CONSTANTS j1, j2, w1, w2

TwoJobs == {j1, j2}
TwoWorkers == {w1, w2}
=============================================================================
