--------------------------- MODULE MCPrivateMount ---------------------------
(***************************************************************************)
(* Instances of PrivateMount for TLC: two aliases.  "Private" is the       *)
(* default one and encrypts file names, "-f" has a one-line .sig file.     *)
(***************************************************************************)
EXTENDS PrivateMount, TLC

CONSTANTS p1, p2, p3

WithForce == {"Private", "-f"}
OnlyForce == {"-f"}

MCForceDest == [a \in Alias |-> IF a = "-f" THEN "forced" ELSE "Private"]
MCForceSrc == [a \in Alias |-> IF a = "-f" THEN ".forced" ELSE ".Private"]

MCFekek == [a \in Alias |-> "fekek"]
MCFnek == [a \in Alias |-> IF a = "Private" THEN "fnek" ELSE NoKey]

AllFaultsButProc == FaultNames \ {"proc"}
=============================================================================
