-------------------------- MODULE MCBreakglassChain --------------------------
(* Small instances of BreakglassChain.  Requests are interchangeable, and   *)
(* so are clients.                                                          *)
EXTENDS BreakglassChain, TLC

RequestSymmetry == Permutations(Threads) \cup Permutations(Holders)
=============================================================================
