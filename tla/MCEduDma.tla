------------------------------ MODULE MCEduDma ------------------------------
(* A small lease for TLC: addresses 2..4 under a supported mask of 7.      *)
EXTENDS EduDma

MCMasks == 0..8
MCSizes == 0..4
MCAllSteps == 1..3

\* Every request the comparisons of dmad and of WrongTupleRefused tell apart.
MCRawTuples ==
  [token : {0, Token, Token + 1},
   addr  : {0, LeaseAddr, LeaseAddr + LeaseSize},
   size  : {0, LeaseSize, LeaseSize + 1}]
=============================================================================
