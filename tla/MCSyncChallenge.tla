--------------------------- MODULE MCSyncChallenge ---------------------------
(***************************************************************************)
(* Instance of SyncChallenge: limbs of six bits, three in a difficulty.    *)
(***************************************************************************)
EXTENDS SyncChallenge

\* At the minimum, across a limb boundary, and close to the maximum.
MCGenesisDifficulties == {<<5, 0, 0>>, <<62, 63, 0>>, <<3, 40, 63>>}
=============================================================================
