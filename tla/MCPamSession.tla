---------------------------- MODULE MCPamSession ----------------------------
(***************************************************************************)
(* Instances of PamSession for TLC: the default alias, with both keys.     *)
(***************************************************************************)
EXTENDS PamSession, TLC

CONSTANTS s1, s2, s3

MCSymmetry == Permutations(Proc)

OneAlias == {Default}
NoAlias == {}
MCSrc == [a \in Alias |-> ".Private"]
MCDest == [a \in Alias |-> "Private"]
MCFekek == [a \in Alias |-> "fekek"]
MCFnek == [a \in Alias |-> "fnek"]

\* One failure of each kind: before and after the count, of the mount, of the
\* exec'd umount, and a kill.
SessionFaults == {"lock", "mount", "keyctl", "exec", "umount", "kill"}
NoFaults == {}
=============================================================================
