---------------------------- MODULE MCMtabUpdate ----------------------------
(***************************************************************************)
(* Instances of MtabUpdate for TLC.                                        *)
(***************************************************************************)
EXTENDS MtabUpdate, TLC

CONSTANTS u1, u2, u3

MCSymmetry == Permutations(Proc)

OldFault == {"old"}
=============================================================================
