-------------------------- MODULE RefCountedMount --------------------------
(***************************************************************************)
(* What the private mount helper promises, without processes, locks or     *)
(* keys: every private directory has a counter and is mounted at most      *)
(* once; it is only ever attached while the counter is positive and only   *)
(* ever detached while the counter is zero.                                *)
(***************************************************************************)
EXTENDS Naturals

CONSTANT Alias      \* the private directories of one user

VARIABLES count,    \* [Alias -> Nat]: the mount counters
          mounts    \* [Alias -> Nat]: ecryptfs mounts of each directory

vars == <<count, mounts>>

Init ==
    /\ count = [a \in Alias |-> 0]
    /\ mounts = [a \in Alias |-> 0]

\* A mount run announces itself before it looks at the mount table.
Hold(a) ==
    /\ count' = [count EXCEPT ![a] = @ + 1]
    /\ UNCHANGED mounts

\* An unmount run takes one hold back; the counter stays at zero once there.
Drop(a) ==
    /\ count' = [count EXCEPT ![a] = IF @ > 0 THEN @ - 1 ELSE 0]
    /\ UNCHANGED mounts

\* A forced unmount run takes all holds back.
DropAll(a) ==
    /\ count' = [count EXCEPT ![a] = 0]
    /\ UNCHANGED mounts

Attach(a) ==
    /\ count[a] > 0
    /\ mounts[a] = 0
    /\ mounts' = [mounts EXCEPT ![a] = 1]
    /\ UNCHANGED count

Detach(a) ==
    /\ count[a] = 0
    /\ mounts[a] = 1
    /\ mounts' = [mounts EXCEPT ![a] = 0]
    /\ UNCHANGED count

Next ==
    \E a \in Alias :
        Hold(a) \/ Drop(a) \/ DropAll(a) \/ Attach(a) \/ Detach(a)

Spec == Init /\ [][Next]_vars
=============================================================================
