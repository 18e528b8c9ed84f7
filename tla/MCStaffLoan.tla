---------------------------- MODULE MCStaffLoan ----------------------------
(* Instances of StaffLoan for TLC *)
EXTENDS StaffLoan, TLC

CONSTANTS c1, c2, w1, w2

Interchangeable == Permutations(Requests) \union Permutations(Workers)
=============================================================================
