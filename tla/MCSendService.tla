--------------------------- MODULE MCSendService ---------------------------
(* Instances of SendService for TLC: one caller that acts for a request and *)
(* one that recovers, with as many claim tokens as callers (a claim takes a *)
(* token no caller and no row still holds).                                 *)
EXTENDS SendService, TLC

CONSTANTS o1, r1, t1, t2

MCOperators == {o1}
MCRecoverers == {r1}
MCCallers == {o1, r1}
MCTokens == {t1, t2}
MCNone == {}

TokenSymmetry == Permutations(MCTokens)
=============================================================================
