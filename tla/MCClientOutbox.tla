--------------------------- MODULE MCClientOutbox ---------------------------
(* Instance of ClientOutbox for TLC *)
EXTENDS ClientOutbox

CONSTANTS e1, e2, bad

ThreeRows == {e1, e2, bad}
OnlyBad == {bad}

(* A deployment that refuses no batch, one whose body limit two rows exceed, *)
(* and one that refuses every batch                                          *)
ThreeDeployments == {{}, {{e1, e2}}, SUBSET ThreeRows}
=============================================================================
