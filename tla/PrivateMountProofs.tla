------------------------- MODULE PrivateMountProofs -------------------------
(***************************************************************************)
(* Proofs about PrivateMount, for any number of processes and aliases.     *)
(***************************************************************************)
EXTENDS PrivateMount, TLAPS

\* The initial states have their types.
LEMMA InitType == Init => TypeOK
<1> SUFFICES ASSUME Init PROVE TypeOK
  OBVIOUS
<1>1. (CHOOSE a \in Alias : TRUE) \in Alias
  BY ConstantsAssumption
<1> QED
  BY <1>1 DEF Init, TypeOK, Locked

\* Every action keeps the types of all variables.
LEMMA TypeStep == ASSUME TypeOK, [Next]_vars PROVE TypeOK'
<1> USE DEF TypeOK, Locked, At, Goto, Unlock
<1>1. ASSUME NEW p \in Proc, NEW o \in {"mount", "umount"}, NEW a \in Alias,
             Start(p, o, a)
      PROVE  TypeOK'
  BY <1>1 DEF Start
<1>2. ASSUME NEW p \in Proc, Step(p) PROVE TypeOK'
  <2>1. CASE Reject(p) BY <2>1 DEF Reject
  <2>2. CASE LockCounter(p) BY <2>2 DEF LockCounter
  <2>3. CASE LockCounterFails(p) BY <2>3 DEF LockCounterFails
  <2>4. CASE CheckFails(p) BY <2>4 DEF CheckFails
  <2>5. CASE FetchFekek(p) BY <2>5 DEF FetchFekek, HaveSigs, NoSigs
  <2>6. CASE FetchFnek(p) BY <2>6 DEF FetchFnek, HaveSigs, NoSigs
  <2>7. CASE CheckOwnership(p) BY <2>7 DEF CheckOwnership
  <2>8. CASE Increment(p) BY <2>8 DEF Increment, Bump
  <2>9. CASE CheckMounting(p) BY <2>9 DEF CheckMounting
  <2>10. CASE Mount(p) BY <2>10 DEF Mount
  <2>11. CASE MountFails(p) BY <2>11 DEF MountFails
  <2>12. CASE UpdateMtab(p) BY <2>12 DEF UpdateMtab
  <2>13. CASE Decrement(p) BY <2>13 DEF Decrement, Bump, MAXINT
  <2>14. CASE RemoveFekek(p) BY <2>14 DEF RemoveFekek, RemoveKey
  <2>15. CASE RemoveFnek(p) BY <2>15 DEF RemoveFnek, RemoveKey
  <2>16. CASE CheckUnmounting(p) BY <2>16 DEF CheckUnmounting
  <2>17. CASE Umount(p) BY <2>17 DEF Umount
  <2>18. CASE UmountFails(p) BY <2>18 DEF UmountFails
  <2>19. CASE Exit(p) BY <2>19 DEF Exit
  <2> QED
    BY <1>2, <2>1, <2>2, <2>3, <2>4, <2>5, <2>6, <2>7, <2>8, <2>9, <2>10,
       <2>11, <2>12, <2>13, <2>14, <2>15, <2>16, <2>17, <2>18, <2>19 DEF Step
<1>3. ASSUME NEW p \in Proc, Kill(p) PROVE TypeOK'
  BY <1>3 DEF Kill
<1>4. ASSUME NEW k \in Keys, LinkKey(k) \/ UnlinkKey(k) PROVE TypeOK'
  BY <1>4 DEF LinkKey, UnlinkKey, local
<1>5. CASE UNCHANGED vars
  BY <1>5 DEF vars
<1> QED
  BY <1>1, <1>2, <1>3, <1>4, <1>5 DEF Next

\* Every variable keeps its type, whatever the processes, aliases and faults.
THEOREM TypeCorrect == Spec => []TypeOK
<1>1. Init => TypeOK
  BY InitType
<1>2. TypeOK /\ [Next]_vars => TypeOK'
  BY TypeStep
<1> QED
  BY <1>1, <1>2, PTL DEF Spec
-----------------------------------------------------------------------------

\* The lock follows the run that holds it through every action.
LEMMA LockStep ==
    ASSUME TypeOK, LockMatchesRun, [Next]_vars PROVE LockMatchesRun'
<1> USE ConstantsAssumption DEF TypeOK, LockMatchesRun, Locked, At, Goto
<1>1. ASSUME NEW p \in Proc, NEW o \in {"mount", "umount"}, NEW a \in Alias,
             Start(p, o, a)
      PROVE  LockMatchesRun'
  BY <1>1 DEF Start
<1>2. ASSUME NEW p \in Proc, Step(p) PROVE LockMatchesRun'
  <2>1. CASE Reject(p) BY <2>1 DEF Reject
  <2>2. CASE LockCounter(p) BY <2>2 DEF LockCounter
  <2>3. CASE LockCounterFails(p) BY <2>3 DEF LockCounterFails
  <2>4. CASE CheckFails(p) BY <2>4 DEF CheckFails
  <2>5. CASE FetchFekek(p) BY <2>5 DEF FetchFekek, HaveSigs, NoSigs
  <2>6. CASE FetchFnek(p) BY <2>6 DEF FetchFnek, HaveSigs, NoSigs
  <2>7. CASE CheckOwnership(p) BY <2>7 DEF CheckOwnership
  <2>8. CASE Increment(p) BY <2>8 DEF Increment
  <2>9. CASE CheckMounting(p) BY <2>9 DEF CheckMounting
  <2>10. CASE Mount(p) BY <2>10 DEF Mount
  <2>11. CASE MountFails(p) BY <2>11 DEF MountFails
  <2>12. CASE UpdateMtab(p) BY <2>12 DEF UpdateMtab
  <2>13. CASE Decrement(p) BY <2>13 DEF Decrement
  <2>14. CASE RemoveFekek(p) BY <2>14 DEF RemoveFekek
  <2>15. CASE RemoveFnek(p) BY <2>15 DEF RemoveFnek
  <2>16. CASE CheckUnmounting(p) BY <2>16 DEF CheckUnmounting
  <2>17. CASE Umount(p) BY <2>17 DEF Umount
  <2>18. CASE UmountFails(p) BY <2>18 DEF UmountFails
  <2>19. CASE Exit(p) BY <2>19 DEF Exit, Unlock
  <2> QED
    BY <1>2, <2>1, <2>2, <2>3, <2>4, <2>5, <2>6, <2>7, <2>8, <2>9, <2>10,
       <2>11, <2>12, <2>13, <2>14, <2>15, <2>16, <2>17, <2>18, <2>19 DEF Step
<1>3. ASSUME NEW p \in Proc, Kill(p) PROVE LockMatchesRun'
  BY <1>3 DEF Kill, Unlock
<1>4. ASSUME NEW k \in Keys, LinkKey(k) \/ UnlinkKey(k)
      PROVE  LockMatchesRun'
  BY <1>4 DEF LinkKey, UnlinkKey, local
<1>5. CASE UNCHANGED vars
  BY <1>5 DEF vars
<1> QED
  BY <1>1, <1>2, <1>3, <1>4, <1>5 DEF Next

\* At any time the lock of an alias is held by exactly the run that is in the
\* locked part of main() for it.
THEOREM LockSafe == Spec => []LockMatchesRun
<1>1. Init => TypeOK /\ LockMatchesRun
  BY InitType, ConstantsAssumption DEF Init, LockMatchesRun, Locked
<1>2. TypeOK /\ LockMatchesRun /\ [Next]_vars => (TypeOK /\ LockMatchesRun)'
  BY TypeStep, LockStep
<1> QED
  BY <1>1, <1>2, PTL DEF Spec

\* Two runs that are both in the locked part of main() work on different
\* aliases: the step of one leaves the counter of the other alone.
LEMMA LockedApart ==
    ASSUME TypeOK, LockMatchesRun, NEW p \in Proc, NEW q \in Proc, p # q,
           pc[p] \in Locked, pc[q] \in Locked
    PROVE  alias[p] # alias[q]
BY DEF TypeOK, LockMatchesRun

\* What runs know of the counter survives every action.
LEMMA CountStep ==
    ASSUME TypeOK, LockMatchesRun, CountMatchesRun, [Next]_vars
    PROVE  CountMatchesRun'
<1> USE LockedApart DEF TypeOK, CountMatchesRun, Locked, At, Goto
<1>1. ASSUME NEW p \in Proc, NEW o \in {"mount", "umount"}, NEW a \in Alias,
             Start(p, o, a)
      PROVE  CountMatchesRun'
  BY <1>1 DEF Start
<1>2. ASSUME NEW p \in Proc, Step(p) PROVE CountMatchesRun'
  <2>1. CASE Reject(p) BY <2>1 DEF Reject
  <2>2. CASE LockCounter(p) BY <2>2 DEF LockCounter
  <2>3. CASE LockCounterFails(p) BY <2>3 DEF LockCounterFails
  <2>4. CASE CheckFails(p) BY <2>4 DEF CheckFails
  <2>5. CASE FetchFekek(p) BY <2>5 DEF FetchFekek, HaveSigs, NoSigs
  <2>6. CASE FetchFnek(p) BY <2>6 DEF FetchFnek, HaveSigs, NoSigs
  <2>7. CASE CheckOwnership(p) BY <2>7 DEF CheckOwnership
  <2>8. CASE Increment(p) BY <2>8 DEF Increment, Bump, MAXINT
  <2>9. CASE CheckMounting(p) BY <2>9 DEF CheckMounting
  <2>10. CASE Mount(p) BY <2>10 DEF Mount
  <2>11. CASE MountFails(p) BY <2>11 DEF MountFails
  <2>12. CASE UpdateMtab(p) BY <2>12 DEF UpdateMtab
  <2>13. CASE Decrement(p) BY <2>13 DEF Decrement, Bump, MAXINT, Forced
  <2>14. CASE RemoveFekek(p) BY <2>14 DEF RemoveFekek
  <2>15. CASE RemoveFnek(p) BY <2>15 DEF RemoveFnek
  <2>16. CASE CheckUnmounting(p) BY <2>16 DEF CheckUnmounting
  <2>17. CASE Umount(p) BY <2>17 DEF Umount
  <2>18. CASE UmountFails(p) BY <2>18 DEF UmountFails
  <2>19. CASE Exit(p) BY <2>19 DEF Exit
  <2> QED
    BY <1>2, <2>1, <2>2, <2>3, <2>4, <2>5, <2>6, <2>7, <2>8, <2>9, <2>10,
       <2>11, <2>12, <2>13, <2>14, <2>15, <2>16, <2>17, <2>18, <2>19 DEF Step
<1>3. ASSUME NEW p \in Proc, Kill(p) PROVE CountMatchesRun'
  BY <1>3 DEF Kill
<1>4. ASSUME NEW k \in Keys, LinkKey(k) \/ UnlinkKey(k)
      PROVE  CountMatchesRun'
  BY <1>4 DEF LinkKey, UnlinkKey, local
<1>5. CASE UNCHANGED vars
  BY <1>5 DEF vars
<1> QED
  BY <1>1, <1>2, <1>3, <1>4, <1>5 DEF Next

\* The part of the invariant that needs nothing of the configurations.
RunInv == TypeOK /\ LockMatchesRun /\ CountMatchesRun

\* It holds initially and is kept by every step.
LEMMA RunInvHolds ==
    /\ Init => RunInv
    /\ RunInv /\ [Next]_vars => RunInv'
<1>1. Init => RunInv
  BY InitType, ConstantsAssumption
  DEF Init, RunInv, LockMatchesRun, CountMatchesRun, Locked, MAXINT
<1>2. RunInv /\ [Next]_vars => RunInv'
  BY TypeStep, LockStep, CountStep DEF RunInv
<1> QED
  BY <1>1, <1>2

\* No run acts on a count that another run has changed since it was read.
THEOREM CountSafe == Spec => []CountMatchesRun
<1>1. RunInv => CountMatchesRun
  BY DEF RunInv
<1> QED
  BY <1>1, RunInvHolds, PTL DEF Spec

\* Keys leave the keyring by an unmount run only while no session is counted.
THEOREM KeysSafe == Spec => KeysRemovedAtZero
<1>1. RunInv /\ [Next]_vars =>
        [\A p \in Proc :
           (pc[p] \in {"rmFekek", "rmFnek"} /\ pc'[p] # pc[p]
               /\ keyring' # keyring) => count[alias[p]] = 0]_vars
  BY DEF RunInv, CountMatchesRun
<1> QED
  BY <1>1, RunInvHolds, PTL DEF Spec, KeysRemovedAtZero
-----------------------------------------------------------------------------

\* With directories of their own for every alias and a readable mount table,
\* what runs know of the mount table survives every action.
LEMMA MountStep ==
    ASSUME DisjointDirs, "proc" \notin Faults,
           RunInv, MountMatchesRun, [Next]_vars
    PROVE  MountMatchesRun'
<1> USE LockedApart
    DEF RunInv, TypeOK, MountMatchesRun, CountMatchesRun, Locked, At, Goto
<1>1. ASSUME NEW p \in Proc, NEW o \in {"mount", "umount"}, NEW a \in Alias,
             Start(p, o, a)
      PROVE  MountMatchesRun'
  BY <1>1 DEF Start
<1>2. ASSUME NEW p \in Proc, Step(p) PROVE MountMatchesRun'
  <2>1. CASE Reject(p) BY <2>1 DEF Reject
  <2>2. CASE LockCounter(p) BY <2>2 DEF LockCounter
  <2>3. CASE LockCounterFails(p) BY <2>3 DEF LockCounterFails
  <2>4. CASE CheckFails(p) BY <2>4 DEF CheckFails
  <2>5. CASE FetchFekek(p) BY <2>5 DEF FetchFekek, HaveSigs, NoSigs
  <2>6. CASE FetchFnek(p) BY <2>6 DEF FetchFnek, HaveSigs, NoSigs
  <2>7. CASE CheckOwnership(p) BY <2>7 DEF CheckOwnership
  <2>8. CASE Increment(p) BY <2>8 DEF Increment
  <2>9. CASE CheckMounting(p) BY <2>9 DEF CheckMounting, InUse, DisjointDirs
  <2>10. CASE Mount(p) BY <2>10 DEF Mount
  <2>11. CASE MountFails(p) BY <2>11 DEF MountFails
  <2>12. CASE UpdateMtab(p) BY <2>12 DEF UpdateMtab
  <2>13. CASE Decrement(p) BY <2>13 DEF Decrement
  <2>14. CASE RemoveFekek(p) BY <2>14 DEF RemoveFekek
  <2>15. CASE RemoveFnek(p) BY <2>15 DEF RemoveFnek
  <2>16. CASE CheckUnmounting(p) BY <2>16 DEF CheckUnmounting, IsMounted, DisjointDirs
  <2>17. CASE Umount(p) BY <2>17 DEF Umount, DisjointDirs
  <2>18. CASE UmountFails(p) BY <2>18 DEF UmountFails
  <2>19. CASE Exit(p) BY <2>19 DEF Exit
  <2> QED
    BY <1>2, <2>1, <2>2, <2>3, <2>4, <2>5, <2>6, <2>7, <2>8, <2>9, <2>10,
       <2>11, <2>12, <2>13, <2>14, <2>15, <2>16, <2>17, <2>18, <2>19 DEF Step
<1>3. ASSUME NEW p \in Proc, Kill(p) PROVE MountMatchesRun'
  BY <1>3 DEF Kill
<1>4. ASSUME NEW k \in Keys, LinkKey(k) \/ UnlinkKey(k)
      PROVE  MountMatchesRun'
  BY <1>4 DEF LinkKey, UnlinkKey, local
<1>5. CASE UNCHANGED vars
  BY <1>5 DEF vars
<1> QED
  BY <1>1, <1>2, <1>3, <1>4, <1>5 DEF Next

\* The whole inductive invariant.
LEMMA MountInvHolds ==
    ASSUME DisjointDirs, "proc" \notin Faults
    PROVE  /\ Init => RunInv /\ MountMatchesRun
           /\ RunInv /\ MountMatchesRun /\ [Next]_vars
                => (RunInv /\ MountMatchesRun)'
<1>1. Init => MountMatchesRun
  BY InitType DEF Init, TypeOK, MountMatchesRun
<1> QED
  BY <1>1, RunInvHolds, MountStep

\* Mount and unmount runs in any interleaving, and killed anywhere, never put
\* two ecryptfs mounts on one mount point.
THEOREM NoStackedMountHolds ==
    ASSUME DisjointDirs, "proc" \notin Faults
    PROVE  Spec => []NoStackedMount
<1>1. RunInv /\ MountMatchesRun => NoStackedMount
  BY DEF RunInv, TypeOK, MountMatchesRun, NoStackedMount, DisjointDirs
<1> QED
  BY <1>1, MountInvHolds, PTL DEF Spec

\* A mount run that returns success leaves the directory in use.
THEOREM SuccessHolds ==
    ASSUME DisjointDirs, "proc" \notin Faults
    PROVE  Spec => []SuccessMeansInUse
<1>1. RunInv /\ MountMatchesRun => SuccessMeansInUse
  BY DEF RunInv, TypeOK, MountMatchesRun, SuccessMeansInUse, InUse
<1> QED
  BY <1>1, MountInvHolds, PTL DEF Spec

\* Every step of the helper is a step of the reference-counted mount or
\* changes neither counter nor mounts.
LEMMA RefinementStep ==
    ASSUME DisjointDirs, "proc" \notin Faults,
           RunInv, MountMatchesRun, [Next]_vars
    PROVE  [RefCount!Next]_(RefCount!vars)
<1> USE DEF RunInv, TypeOK, MountMatchesRun, CountMatchesRun, At,
            RefCount!vars
<1>1. ASSUME NEW p \in Proc, NEW o \in {"mount", "umount"}, NEW a \in Alias,
             Start(p, o, a)
      PROVE  [RefCount!Next]_(RefCount!vars)
  BY <1>1 DEF Start
<1>2. ASSUME NEW p \in Proc, Step(p) PROVE [RefCount!Next]_(RefCount!vars)
  <2>1. CASE Reject(p) BY <2>1 DEF Reject
  <2>2. CASE LockCounter(p) BY <2>2 DEF LockCounter
  <2>3. CASE LockCounterFails(p) BY <2>3 DEF LockCounterFails
  <2>4. CASE CheckFails(p) BY <2>4 DEF CheckFails
  <2>5. CASE FetchFekek(p) BY <2>5 DEF FetchFekek
  <2>6. CASE FetchFnek(p) BY <2>6 DEF FetchFnek
  <2>7. CASE CheckOwnership(p) BY <2>7 DEF CheckOwnership
  <2>8. CASE Increment(p)
    <3>1. Bump(count[alias[p]], 1) = count[alias[p]] + 1
      BY DEF Bump
    <3>2. RefCount!Hold(alias[p])
      BY <2>8, <3>1 DEF Increment, RefCount!Hold
    <3> QED
      BY <3>2 DEF RefCount!Next
  <2>9. CASE CheckMounting(p) BY <2>9 DEF CheckMounting
  <2>10. CASE Mount(p)
    <3>1. count[alias[p]] > 0 /\ mounts[alias[p]] = 0
      BY <2>10 DEF Mount
    <3>2. mounts[alias[p]] + 1 = 1
      BY <3>1
    <3>3. RefCount!Attach(alias[p])
      BY <2>10, <3>1, <3>2 DEF Mount, RefCount!Attach
    <3> QED
      BY <3>3 DEF RefCount!Next
  <2>11. CASE MountFails(p) BY <2>11 DEF MountFails
  <2>12. CASE UpdateMtab(p) BY <2>12 DEF UpdateMtab
  <2>13. CASE Decrement(p)
    <3>1. CASE Forced(p)
      <4>0. Bump(count[alias[p]], -MAXINT + 1) = 0
        BY SMT DEF Bump, MAXINT
      <4>1. RefCount!DropAll(alias[p])
        BY <2>13, <3>1, <4>0 DEF Decrement, RefCount!DropAll
      <4> QED
        BY <4>1 DEF RefCount!Next
    <3>2. CASE ~Forced(p)
      <4>0. Bump(count[alias[p]], -1)
              = IF count[alias[p]] > 0 THEN count[alias[p]] - 1 ELSE 0
        BY DEF Bump
      <4>1. RefCount!Drop(alias[p])
        BY <2>13, <3>2, <4>0 DEF Decrement, RefCount!Drop
      <4> QED
        BY <4>1 DEF RefCount!Next
    <3> QED
      BY <3>1, <3>2
  <2>14. CASE RemoveFekek(p) BY <2>14 DEF RemoveFekek
  <2>15. CASE RemoveFnek(p) BY <2>15 DEF RemoveFnek
  <2>16. CASE CheckUnmounting(p) BY <2>16 DEF CheckUnmounting
  <2>17. CASE Umount(p)
    <3>1. count[alias[p]] = 0 /\ mounts[alias[p]] = 1
      BY <2>17 DEF Umount
    <3>2. mounts' = [mounts EXCEPT ![alias[p]] = mounts[alias[p]] - 1]
      BY <2>17 DEF Umount, DisjointDirs
    <3>3. mounts' = [mounts EXCEPT ![alias[p]] = 0]
      BY <3>1, <3>2
    <3>4. RefCount!Detach(alias[p])
      BY <2>17, <3>1, <3>3 DEF Umount, RefCount!Detach
    <3> QED
      BY <3>4 DEF RefCount!Next
  <2>18. CASE UmountFails(p) BY <2>18 DEF UmountFails
  <2>19. CASE Exit(p) BY <2>19 DEF Exit
  <2> QED
    BY <1>2, <2>1, <2>2, <2>3, <2>4, <2>5, <2>6, <2>7, <2>8, <2>9, <2>10,
       <2>11, <2>12, <2>13, <2>14, <2>15, <2>16, <2>17, <2>18, <2>19 DEF Step
<1>3. ASSUME NEW p \in Proc, Kill(p) PROVE [RefCount!Next]_(RefCount!vars)
  BY <1>3 DEF Kill
<1>4. ASSUME NEW k \in Keys, LinkKey(k) \/ UnlinkKey(k)
      PROVE  [RefCount!Next]_(RefCount!vars)
  BY <1>4 DEF LinkKey, UnlinkKey
<1>5. CASE UNCHANGED vars
  BY <1>5 DEF vars
<1> QED
  BY <1>1, <1>2, <1>3, <1>4, <1>5 DEF Next

\* The helper implements the reference-counted mount: it attaches only while
\* the counter is positive and detaches only while it is zero.
THEOREM Refinement ==
    ASSUME DisjointDirs, "proc" \notin Faults
    PROVE  Spec => ImplementsRefCount
<1>1. Init => RefCount!Init
  BY DEF Init, RefCount!Init
<1>2. RunInv /\ MountMatchesRun /\ [Next]_vars
        => [RefCount!Next]_(RefCount!vars)
  BY RefinementStep
<1> QED
  BY <1>1, <1>2, MountInvHolds, PTL DEF Spec, ImplementsRefCount, RefCount!Spec
=============================================================================
