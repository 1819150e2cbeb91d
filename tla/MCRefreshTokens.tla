--------------------------- MODULE MCRefreshTokens ---------------------------
(* Instances of RefreshTokens for TLC.                                     *)
EXTENDS RefreshTokens

CONSTANTS o1, o2

MCNoOld == {}
MCTwoOld == {o1, o2}
===============================================================================
