-------------------------- MODULE PamSessionProofs --------------------------
(***************************************************************************)
(* Proofs about PamSession: login sessions only use the mount helper as    *)
(* PrivateMount allows, so what is proved of the helper holds for them;    *)
(* and its counter never exceeds the sessions that are counted.            *)
(***************************************************************************)
EXTENDS PamSession, PrivateMountProofs, FiniteSetTheorems

\* The keys pam_ecryptfs adds are keys of the default alias.
LEMMA DefaultKeys == Default \in Alias /\ {Fekek[Default], Fnek[Default]} \subseteq Keys
BY ConstantsAssumption, PamAssumption DEF Keys

\* Adding a key is a step of PrivateMount's environment, or changes nothing.
LEMMA AddKeyStep ==
    ASSUME NEW k \in Keys, AddKey(k) PROVE [Next]_vars
<1>1. CASE k \in keyring
  <2>1. keyring' = keyring
    BY <1>1 DEF AddKey
  <2> QED
    BY <2>1 DEF AddKey, vars, local
<1>2. CASE k \notin keyring
  <2>1. LinkKey(k)
    BY <1>2 DEF AddKey, LinkKey
  <2> QED
    BY <2>1 DEF Next
<1> QED
  BY <1>1, <1>2

\* Starting a helper for the default alias is a step of PrivateMount.
LEMMA StartStep ==
    ASSUME NEW p \in Proc, NEW o \in {"mount", "umount"}, Start(p, o, Default)
    PROVE  Next
BY DefaultKeys DEF Next

\* Every step of the sessions is a step of PrivateMount or leaves its
\* variables alone.
LEMMA SessionStep == ASSUME [PamNext]_pamVars PROVE [Next]_vars
<1>1. CASE UNCHANGED pamVars
  BY <1>1 DEF pamVars
<1>2. ASSUME NEW p \in Proc, Authenticate(p) PROVE [Next]_vars
  BY <1>2 DEF Authenticate
<1>3. ASSUME NEW p \in Proc, InsertFnek(p) PROVE [Next]_vars
  BY <1>3, DefaultKeys, AddKeyStep DEF InsertFnek
<1>4. ASSUME NEW p \in Proc, InsertFekek(p) PROVE [Next]_vars
  BY <1>4, DefaultKeys, AddKeyStep DEF InsertFekek
<1>5. ASSUME NEW p \in Proc, OpenSession(p) PROVE [Next]_vars
  BY <1>5, StartStep DEF OpenSession
<1>6. ASSUME NEW p \in Proc, CloseSession(p) PROVE [Next]_vars
  BY <1>6, StartStep DEF CloseSession
<1>7. ASSUME NEW p \in Proc, HelperStep(p) PROVE [Next]_vars
  <2>1. Step(p) \/ Kill(p)
    BY <1>7 DEF HelperStep
  <2> QED
    BY <2>1 DEF Next
<1> QED
  BY <1>1, <1>2, <1>3, <1>4, <1>5, <1>6, <1>7 DEF PamNext

\* The login sessions implement the specification of the helper alone.
THEOREM SessionsUseHelper == PamSpec => Spec
<1>1. PamInit => Init
  BY DEF PamInit
<1>2. [PamNext]_pamVars => [Next]_vars
  BY SessionStep
<1> QED
  BY <1>1, <1>2, PTL DEF PamSpec, Spec

\* With any number of overlapping login sessions the directory is a
\* reference-counted mount: attached only while the counter is positive,
\* detached only while it is zero.
THEOREM SessionsRefCount ==
    ASSUME DisjointDirs, "proc" \notin Faults
    PROVE  PamSpec => ImplementsRefCount
<1>1. Spec => ImplementsRefCount
  BY Refinement
<1> QED
  BY <1>1, SessionsUseHelper, PTL
-----------------------------------------------------------------------------

\* Where mount runs and unmount runs can be, and where one is that decided to unmount.
MountPos == {"lock", "reject", "fekek", "fnek", "own", "inc", "chkM", "mount", "mtab", "exit0", "exit1"}
UmountPos == {"lock", "reject", "fekek", "fnek", "own", "dec", "rmFekek", "rmFnek", "chkU", "umount",
              "exit0", "exit1"}
Deciding == {"rmFekek", "rmFnek", "chkU", "umount"}

\* The helper of a session runs while the session opens or closes, for the default
\* alias.
Match(p) ==
    /\ sess[p] \notin {"opening", "closing"} => pc[p] = "idle"
    /\ sess[p] = "opening" => pc[p] \in MountPos /\ op[p] = "mount" /\ alias[p] = Default
    /\ sess[p] = "closing" => pc[p] \in UmountPos /\ op[p] = "umount" /\ alias[p] = Default
SessInv ==
    /\ sess \in [Proc -> {"out", "fnek", "fekek", "authed", "opening", "open", "bare", "closing"}]
    /\ lost \in BOOLEAN
    /\ \A p \in Proc : Match(p)

\* Until an unmount run is lost: every count is a session's, and the directory is
\* mounted only for sessions that are counted or until the run of the last one, which
\* has counted itself out, has unmounted it.
Leaving == \E p \in Proc : sess[p] = "closing" /\ pc[p] \in Deciding
CountInv ==
    ~lost => /\ count[Default] <= Cardinality(Counted)
             /\ mounts[Default] > 0 => count[Default] > 0 \/ Leaving

\* How a count bounded by one set of sessions stays bounded by the next.
LEMMA Bound ==
    ASSUME NEW S \in SUBSET Proc, NEW T \in SUBSET Proc, NEW p \in Proc,
           NEW c \in Nat, NEW d \in Nat, c <= Cardinality(S),
           \/ S \subseteq T /\ d <= c
           \/ p \notin S /\ S \cup {p} \subseteq T /\ d <= c + 1
           \/ p \in S /\ S \ {p} \subseteq T /\ (d = c - 1 \/ d = 0)
    PROVE  d <= Cardinality(T)
<1>0. /\ IsFiniteSet(S) /\ IsFiniteSet(T) /\ IsFiniteSet(S \cup {p}) /\ IsFiniteSet(S \ {p})
      /\ Cardinality(S) \in Nat /\ Cardinality(T) \in Nat
      /\ Cardinality(S \cup {p}) \in Nat /\ Cardinality(S \ {p}) \in Nat
  BY PamAssumption, FS_Subset, FS_AddElement, FS_RemoveElement, FS_CardinalityType
<1>1. CASE S \subseteq T /\ d <= c
  <2>1. Cardinality(S) <= Cardinality(T)
    BY <1>0, <1>1, FS_Subset
  <2> QED
    BY <1>0, <1>1, <2>1
<1>2. CASE p \notin S /\ S \cup {p} \subseteq T /\ d <= c + 1
  <2>1. Cardinality(S \cup {p}) <= Cardinality(T)
    BY <1>0, <1>2, FS_Subset
  <2>2. Cardinality(S \cup {p}) = Cardinality(S) + 1
    BY <1>0, <1>2, FS_AddElement
  <2> QED
    BY <1>0, <1>2, <2>1, <2>2
<1>3. CASE p \in S /\ S \ {p} \subseteq T /\ (d = c - 1 \/ d = 0)
  <2>1. Cardinality(S \ {p}) <= Cardinality(T)
    BY <1>0, <1>3, FS_Subset
  <2>2. Cardinality(S \ {p}) = Cardinality(S) - 1
    BY <1>0, <1>3, FS_RemoveElement, SMTT(20)
  <2> QED
    BY <1>0, <1>3, <2>1, <2>2
<1> QED
  BY <1>1, <1>2, <1>3

\* Where a run of the helper goes, and what it does to the counter and the mounts of
\* the default alias.
Moves(p) ==
    /\ UNCHANGED <<op, alias>> /\ pc' = [pc EXCEPT ![p] = pc'[p]] /\ pc[p] # "idle"
    /\ op[p] = "mount" /\ pc[p] \in MountPos => pc'[p] \in MountPos \cup {"idle"}
    /\ op[p] = "umount" /\ pc[p] \in UmountPos => pc'[p] \in UmountPos \cup {"idle"}
    /\ pc[p] \in {"chkM", "mount", "mtab"} => pc'[p] \in {"mount", "mtab", "exit0", "exit1"}
    /\ pc[p] \in {"exit0", "exit1", "reject"} => pc'[p] = "idle"
    /\ pc[p] \in {"rmFekek", "rmFnek"} => pc'[p] \in {"rmFnek", "chkU"}
    /\ pc[p] \in {"chkU", "umount"} => pc'[p] # pc[p]
Counts(p) ==
    /\ pc[p] = "inc" => pc'[p] = "chkM" /\ count'[Default] = count[Default] + 1
    /\ pc[p] = "dec" => /\ count'[Default] = count[Default] - 1 \/ count'[Default] = 0
                        /\ pc'[p] = "rmFekek" \/ (pc'[p] = "exit1" /\ count'[Default] > 0)
    /\ pc[p] \notin {"inc", "dec"} => count'[Default] = count[Default]
    /\ pc[p] # "mount" => mounts'[Default] <= mounts[Default]

\* One step of the helper does that.
LEMMA StepMoves ==
    ASSUME TypeOK, NEW p \in Proc, alias[p] = Default, Step(p) PROVE Moves(p) /\ Counts(p)
<1>0. Default \in Alias /\ Default \notin ForceAliases
  BY DefaultKeys, PamAssumption
<1> USE <1>0 DEF TypeOK, Moves, Counts, MountPos, UmountPos, Locked, At, Goto
<1>1. CASE Reject(p) BY <1>1 DEF Reject
<1>2. CASE LockCounter(p) BY <1>2 DEF LockCounter
<1>3. CASE LockCounterFails(p) BY <1>3 DEF LockCounterFails
<1>4. CASE CheckFails(p) BY <1>4 DEF CheckFails
<1>5. CASE FetchFekek(p) BY <1>5 DEF FetchFekek, HaveSigs, NoSigs
<1>6. CASE FetchFnek(p) BY <1>6 DEF FetchFnek, HaveSigs, NoSigs
<1>7. CASE CheckOwnership(p) BY <1>7 DEF CheckOwnership
<1>8. CASE Increment(p) BY <1>8 DEF Increment, Bump
<1>9. CASE CheckMounting(p) BY <1>9 DEF CheckMounting
<1>10. CASE Mount(p) BY <1>10 DEF Mount
<1>11. CASE MountFails(p) BY <1>11 DEF MountFails
<1>12. CASE UpdateMtab(p) BY <1>12 DEF UpdateMtab
<1>13. CASE Decrement(p) BY <1>13 DEF Decrement, Bump, Forced
<1>14. CASE RemoveFekek(p) BY <1>14 DEF RemoveFekek
<1>15. CASE RemoveFnek(p) BY <1>15 DEF RemoveFnek
<1>16. CASE CheckUnmounting(p) BY <1>16 DEF CheckUnmounting
<1>17. CASE Umount(p) BY <1>17 DEF Umount
<1>18. CASE UmountFails(p) BY <1>18 DEF UmountFails
<1>19. CASE Exit(p) BY <1>19 DEF Exit
<1> QED
  BY <1>1, <1>2, <1>3, <1>4, <1>5, <1>6, <1>7, <1>8, <1>9, <1>10, <1>11, <1>12, <1>13,
     <1>14, <1>15, <1>16, <1>17, <1>18, <1>19, Zenon DEF Step

\* Killing a run only ends it.
LEMMA KillMoves ==
    ASSUME TypeOK, NEW p \in Proc, Kill(p)
    PROVE  /\ UNCHANGED <<op, alias>> /\ pc' = [pc EXCEPT ![p] = "idle"] /\ pc[p] # "idle"
BY DEF TypeOK, Kill, At, Goto

\* Only what is true of a session's own helper run can be disturbed by its step.
LEMMA HelperMatches ==
    ASSUME TypeOK, SessInv, NEW p \in Proc, HelperStep(p) PROVE SessInv'
<1> USE DEF SessInv
<1>0. lost' \in BOOLEAN
  BY Zenon DEF HelperStep
<1>1. /\ UNCHANGED <<op, alias>> /\ pc' = [pc EXCEPT ![p] = pc'[p]] /\ pc[p] # "idle"
      /\ sess[p] = "opening" => pc'[p] \in MountPos \cup {"idle"}
      /\ sess[p] = "closing" => pc'[p] \in UmountPos \cup {"idle"}
  <2>1. CASE Kill(p)
    BY <2>1, KillMoves DEF TypeOK
  <2>2. CASE Step(p)
    <3>1. pc[p] # "idle"
      BY <2>2
      DEF Step, Reject, LockCounter, LockCounterFails, CheckFails, FetchFekek, FetchFnek, CheckOwnership,
          Increment, CheckMounting, Mount, MountFails, UpdateMtab, Decrement, RemoveFekek, RemoveFnek,
          CheckUnmounting, Umount, UmountFails, Exit, At, Locked
    <3>2. alias[p] = Default /\ Match(p) /\ sess[p] \in {"opening", "closing"}
      BY <3>1 DEF Match
    <3>3. Moves(p)
      BY <2>2, <3>2, StepMoves
    <3> QED
      BY <3>2, <3>3 DEF Moves, Match
  <2> QED
    BY <2>1, <2>2 DEF HelperStep
<1>2. /\ pc'[p] = "idle" => sess' = [sess EXCEPT ![p] = AfterHelper(p, pc[p])]
      /\ pc'[p] # "idle" => sess' = sess
      /\ AfterHelper(p, pc[p]) \in {"open", "bare", "out"}
  BY DEF HelperStep, Become, AfterHelper
<1>3. sess' \in [Proc -> {"out", "fnek", "fekek", "authed", "opening", "open", "bare", "closing"}]
  BY <1>2
<1>4. ASSUME NEW q \in Proc PROVE Match(q)'
  <2>0. Match(q)
    OBVIOUS
  <2>1. CASE q # p
    BY <2>0, <2>1, <1>1, <1>2 DEF Match, TypeOK
  <2>2. CASE q = p /\ pc'[p] = "idle"
    <3>1. sess'[p] \in {"open", "bare", "out"}
      BY <1>2, <2>2
    <3> QED
      BY <2>2, <3>1 DEF Match
  <2>3. CASE q = p /\ pc'[p] # "idle"
    BY <2>0, <2>3, <1>1, <1>2 DEF Match, TypeOK
  <2> QED
    BY <2>1, <2>2, <2>3
<1> QED
  BY <1>0, <1>3, <1>4

\* The steps of pam_ecryptfs itself start helper runs for the default alias.
LEMMA PamMatches ==
    ASSUME TypeOK, SessInv, NEW p \in Proc,
           \/ Authenticate(p) \/ InsertFnek(p) \/ InsertFekek(p) \/ OpenSession(p) \/ CloseSession(p)
    PROVE  SessInv'
<1> USE DEF SessInv
<1>0. Default \in Alias /\ Default \in Configured
  BY DefaultKeys, PamAssumption
<1>1. PICK s \in {"out", "fnek", "fekek", "authed", "opening", "open", "bare", "closing"} :
        sess' = [sess EXCEPT ![p] = s]
  <2>1. CASE Authenticate(p) BY <2>1, Zenon DEF Authenticate, Become
  <2>2. CASE InsertFnek(p) BY <2>2 DEF InsertFnek, Become
  <2>3. CASE InsertFekek(p) BY <2>3 DEF InsertFekek, Become
  <2>4. CASE OpenSession(p) BY <2>4 DEF OpenSession, Become
  <2>5. CASE CloseSession(p) BY <2>5 DEF CloseSession, Become
  <2> QED
    BY <2>1, <2>2, <2>3, <2>4, <2>5
<1>2. /\ lost' \in BOOLEAN
      /\ \A q \in Proc \ {p} : pc'[q] = pc[q] /\ op'[q] = op[q] /\ alias'[q] = alias[q]
  BY Zenon DEF TypeOK, Authenticate, InsertFnek, InsertFekek, OpenSession, CloseSession, AddKey, Start, Goto,
         vars, local
<1>3. Match(p)'
  <2>0. Match(p)
    OBVIOUS
  <2>1. CASE Authenticate(p) BY <2>0, <2>1 DEF Authenticate, Become, Match, vars, local
  <2>2. CASE InsertFnek(p) BY <2>0, <2>2 DEF InsertFnek, AddKey, Become, Match, vars, local
  <2>3. CASE InsertFekek(p) BY <2>0, <2>3 DEF InsertFekek, AddKey, Become, Match, vars, local
  <2>4. CASE OpenSession(p)
    BY <1>0, <2>0, <2>4 DEF OpenSession, Start, At, Goto, Become, Match, vars, local, TypeOK, MountPos
  <2>5. CASE CloseSession(p)
    BY <1>0, <2>0, <2>5 DEF CloseSession, Start, At, Goto, Become, Match, vars, local, TypeOK, UmountPos
  <2> QED
    BY <2>1, <2>2, <2>3, <2>4, <2>5
<1>4. ASSUME NEW q \in Proc, q # p PROVE Match(q)'
  <2>1. Match(q) /\ sess'[q] = sess[q]
    BY <1>1, <1>4
  <2> QED
    BY <1>2, <1>4, <2>1 DEF Match
<1> QED
  BY <1>1, <1>2, <1>3, <1>4

\* They take no session out of the count; they may add one, that opens without a helper
\* run; an unmount run that they do not start is lost.
LEMMA PamCounts ==
    ASSUME TypeOK, TypeOK', SessInv, SessInv', CountInv, NEW p \in Proc,
           \/ Authenticate(p) \/ InsertFnek(p) \/ InsertFekek(p) \/ OpenSession(p) \/ CloseSession(p)
    PROVE  CountInv'
<1> SUFFICES ASSUME ~lost' PROVE count'[Default] <= Cardinality(Counted')
                              /\ (mounts'[Default] > 0 => count'[Default] > 0 \/ Leaving')
  BY DEF CountInv
<1>0. Default \in Alias /\ Default \in Configured
  BY DefaultKeys, PamAssumption
<1>1. ~lost /\ count' = count /\ mounts' = mounts
  BY DEF Authenticate, InsertFnek, InsertFekek, OpenSession, CloseSession, AddKey, Start, vars, local
<1>2. count[Default] \in Nat /\ Counted \in SUBSET Proc /\ Counted' \in SUBSET Proc
  BY <1>0 DEF TypeOK, Counted
<1>3. \A q \in Proc \ {p} : pc'[q] = pc[q] /\ sess'[q] = sess[q]
  BY DEF TypeOK, SessInv, Authenticate, InsertFnek, InsertFekek, OpenSession, CloseSession, AddKey, Start,
         Goto, Become, vars, local
<1>4. p \in Counted => p \in Counted'
  BY <1>0 DEF Counted, TypeOK, SessInv, Authenticate, InsertFnek, InsertFekek, OpenSession, CloseSession,
         Start, Goto, Become
<1>5. Counted \subseteq Counted'
  BY <1>3, <1>4 DEF Counted
<1>6. count[Default] <= Cardinality(Counted)
  BY <1>1 DEF CountInv
<1>7. count[Default] <= Cardinality(Counted')
  BY <1>2, <1>5, <1>6, Bound
<1>8. Leaving => Leaving'
  <2>1. sess[p] # "closing"
    BY DEF Authenticate, InsertFnek, InsertFekek, OpenSession, CloseSession
  <2> QED
    BY <1>3, <2>1 DEF Leaving
<1> QED
  BY <1>1, <1>7, <1>8 DEF CountInv

\* A mount run that is killed leaves a session that is counted.
LEMMA KillCounts ==
    ASSUME TypeOK, TypeOK', SessInv, SessInv', CountInv, NEW p \in Proc, HelperStep(p),
           Kill(p), sess[p] # "closing", ~lost
    PROVE  count'[Default] <= Cardinality(Counted')
           /\ (mounts'[Default] > 0 => count'[Default] > 0 \/ Leaving')
<1>0. Default \in Alias
  BY DefaultKeys
<1>1. count' = count /\ mounts' = mounts
  BY DEF Kill
<1>2. pc' = [pc EXCEPT ![p] = "idle"] /\ pc[p] # "idle" /\ pc'[p] = "idle"
  BY KillMoves DEF TypeOK
<1>3. sess' = [sess EXCEPT ![p] = AfterHelper(p, pc[p])] /\ sess[p] = "opening"
  BY <1>2 DEF HelperStep, Become, SessInv, Match
<1>4. \A q \in Proc \ {p} : pc'[q] = pc[q] /\ sess'[q] = sess[q]
  BY <1>2, <1>3 DEF TypeOK, SessInv
<1>5. Counted \in SUBSET Proc /\ Counted' \in SUBSET Proc /\ Counted \subseteq Counted'
  BY <1>3, <1>4 DEF Counted, AfterHelper, SessInv
<1>6. count[Default] \in Nat /\ count[Default] <= Cardinality(Counted)
  BY <1>0 DEF CountInv, TypeOK
<1>7. count[Default] <= Cardinality(Counted')
  BY <1>5, <1>6, Bound
<1>8. Leaving => Leaving'
  BY <1>3, <1>4 DEF Leaving
<1> QED
  BY <1>1, <1>7, <1>8 DEF CountInv

\* A helper run counts its session in and out as CountInv says, or loses the unmount.
LEMMA HelperCounts ==
    ASSUME RunInv, TypeOK', SessInv, SessInv', CountInv, NEW p \in Proc, HelperStep(p)
    PROVE  CountInv'
<1> SUFFICES ASSUME ~lost' PROVE count'[Default] <= Cardinality(Counted')
                              /\ (mounts'[Default] > 0 => count'[Default] > 0 \/ Leaving')
  BY DEF CountInv
<1>0. Default \in Alias /\ TypeOK
  BY DefaultKeys DEF RunInv
<1>a. CASE Kill(p) /\ sess[p] # "closing" /\ ~lost
  BY <1>0, <1>a, KillCounts
<1> SUFFICES ASSUME ~(Kill(p) /\ sess[p] # "closing" /\ ~lost) PROVE CountInv'
  BY <1>a DEF CountInv
<1>1. Step(p) /\ ~lost /\ ~EndsEarly(p)
  BY SMTT(20) DEF HelperStep, SessInv
<1>2. pc[p] # "idle"
  BY <1>1, Zenon
  DEF Step, Reject, LockCounter, LockCounterFails, CheckFails, FetchFekek, FetchFnek, CheckOwnership,
      Increment, CheckMounting, Mount, MountFails, UpdateMtab, Decrement, RemoveFekek, RemoveFnek,
      CheckUnmounting, Umount, UmountFails, Exit, At, Locked
<1>3. alias[p] = Default /\ Match(p) /\ sess[p] \in {"opening", "closing"}
  BY <1>2 DEF SessInv, Match
<1>4. Moves(p) /\ Counts(p)
  BY <1>0, <1>1, <1>3, StepMoves
<1>5. /\ pc'[p] = "idle" => sess' = [sess EXCEPT ![p] = AfterHelper(p, pc[p])]
      /\ pc'[p] # "idle" => sess' = sess
  BY DEF HelperStep, Become
<1>6. \A q \in Proc \ {p} : pc'[q] = pc[q] /\ sess'[q] = sess[q]
  BY <1>0, <1>4, <1>5 DEF Moves, TypeOK, SessInv
<1>7. /\ count[Default] \in Nat /\ count'[Default] \in Nat /\ mounts[Default] \in Nat
      /\ mounts'[Default] \in Nat /\ Counted \in SUBSET Proc /\ Counted' \in SUBSET Proc
  BY <1>0 DEF TypeOK, Counted
<1>8. Counted \ {p} \subseteq Counted'
  BY <1>6 DEF Counted
<1>9. sess[p] = "opening" /\ p \in Counted => p \in Counted'
  <2>1. CASE pc'[p] = "idle"
    BY <1>5, <2>1 DEF AfterHelper, Counted, SessInv
  <2>2. CASE pc'[p] # "idle"
    BY <1>3, <1>4, <1>5, <2>2 DEF Moves, Counted
  <2> QED
    BY <2>1, <2>2
<1>10. sess[p] = "closing" /\ p \in Counted /\ pc[p] # "dec" => p \in Counted'
  <2> SUFFICES ASSUME sess[p] = "closing", p \in Counted, pc[p] # "dec" PROVE p \in Counted'
    OBVIOUS
  <2>1. pc[p] \in {"lock", "fekek", "fnek", "own"}
    BY DEF Counted
  <2>2. pc'[p] \in {"lock", "fekek", "fnek", "own", "dec"}
    BY <1>1, <2>1 DEF EndsEarly
  <2> QED
    BY <1>5, <2>2 DEF Counted
<1>11. count[Default] <= Cardinality(Counted)
  BY <1>1 DEF CountInv
<1>12. count'[Default] <= Cardinality(Counted')
  <2>1. CASE pc[p] = "inc"
    <3>1. p \notin Counted
      BY <1>3, <2>1 DEF Counted, Match, UmountPos
    <3>2. p \in Counted'
      BY <1>3, <1>4, <1>5, <2>1 DEF Counts, Counted, Match, UmountPos
    <3>3. count'[Default] = count[Default] + 1
      BY <1>4, <2>1 DEF Counts
    <3> QED
      BY <1>7, <1>8, <1>11, <3>1, <3>2, <3>3, Bound
  <2>2. CASE pc[p] = "dec"
    <3>1. p \in Counted
      BY <1>3, <2>2 DEF Counted, Match, MountPos
    <3>2. count'[Default] = count[Default] - 1 \/ count'[Default] = 0
      BY <1>4, <2>2 DEF Counts
    <3> QED
      BY <1>7, <1>8, <1>11, <3>1, <3>2, Bound
  <2>3. CASE pc[p] \notin {"inc", "dec"}
    <3>1. Counted \subseteq Counted'
      BY <1>3, <1>8, <1>9, <1>10, <2>3
    <3>2. count'[Default] = count[Default]
      BY <1>4, <2>3 DEF Counts
    <3> QED
      BY <1>7, <1>11, <3>1, <3>2, Bound
  <2> QED
    BY <2>1, <2>2, <2>3
<1>13. mounts'[Default] > 0 => count'[Default] > 0 \/ Leaving'
  <2> SUFFICES ASSUME mounts'[Default] > 0 PROVE count'[Default] > 0 \/ Leaving'
    OBVIOUS
  <2>1. CASE pc[p] = "mount"
    <3>1. count[Default] > 0
      BY <1>3, <2>1 DEF RunInv, CountMatchesRun
    <3> QED
      BY <1>4, <2>1, <3>1 DEF Counts
  <2>2. CASE pc[p] # "mount" /\ count[Default] > 0
    <3>1. CASE pc[p] = "inc"
      BY <1>4, <1>7, <3>1 DEF Counts
    <3>2. CASE pc[p] = "dec"
      <4>1. sess[p] = "closing"
        BY <1>3, <3>2 DEF Match, MountPos
      <4>2. CASE pc'[p] = "rmFekek"
        BY <1>5, <4>1, <4>2 DEF Leaving, Deciding
      <4> QED
        BY <1>4, <3>2, <4>2 DEF Counts
    <3> QED
      BY <1>4, <2>2, <3>1, <3>2 DEF Counts
  <2>3. CASE pc[p] # "mount" /\ Leaving
    <3>1. PICK q \in Proc : sess[q] = "closing" /\ pc[q] \in Deciding
      BY <2>3 DEF Leaving
    <3>2. CASE q # p
      BY <1>6, <3>1, <3>2 DEF Leaving
    <3>3. CASE q = p
      <4>1. pc'[p] \in Deciding
        <5>1. CASE pc[p] \in {"chkU", "umount"}
          BY <1>1, <3>1, <3>3, <5>1 DEF EndsEarly, Deciding
        <5>2. CASE pc[p] \in {"rmFekek", "rmFnek"}
          BY <1>4, <5>2 DEF Moves, Deciding
        <5> QED
          BY <3>1, <3>3, <5>1, <5>2 DEF Deciding
      <4>2. sess'[p] = "closing"
        BY <1>5, <3>1, <3>3, <4>1 DEF Deciding
      <4> QED
        BY <4>1, <4>2 DEF Leaving
    <3> QED
      BY <3>2, <3>3
  <2>4. pc[p] # "mount" => mounts[Default] > 0
    BY <1>4, <1>7 DEF Counts
  <2>5. mounts[Default] > 0 => count[Default] > 0 \/ Leaving
    BY <1>1 DEF CountInv
  <2> QED
    BY <2>1, <2>2, <2>3, <2>4, <2>5
<1> QED
  BY <1>12, <1>13 DEF CountInv

\* The invariant of the sessions and the helper holds initially and is kept.
LEMMA CountInvHolds ==
    /\ PamInit => RunInv /\ SessInv /\ CountInv
    /\ RunInv /\ SessInv /\ CountInv /\ [PamNext]_pamVars => (RunInv /\ SessInv /\ CountInv)'
<1>1. ASSUME PamInit PROVE RunInv /\ SessInv /\ CountInv
  <2>1. RunInv
    BY <1>1, RunInvHolds DEF PamInit
  <2>2. SessInv
    BY <1>1, Zenon DEF PamInit, Init, SessInv, Match
  <2>3. Counted = {} /\ count[Default] = 0 /\ mounts[Default] = 0
    BY <1>1, DefaultKeys DEF PamInit, Init, Counted
  <2> QED
    BY <2>1, <2>2, <2>3, FS_EmptySet DEF CountInv
<1>2. ASSUME RunInv, SessInv, CountInv, [PamNext]_pamVars PROVE (RunInv /\ SessInv /\ CountInv)'
  <2>0. TypeOK
    BY <1>2 DEF RunInv
  <2>1. RunInv' /\ TypeOK'
    BY <1>2, SessionStep, RunInvHolds DEF RunInv
  <2>2. CASE UNCHANGED pamVars
    <3>1. SessInv'
      BY <1>2, <2>2 DEF SessInv, Match, pamVars, vars, local
    <3>2. Counted' = Counted /\ Leaving' = Leaving
      BY <2>2 DEF Counted, Leaving, pamVars, vars, local
    <3>3. CountInv'
      BY <1>2, <2>2, <3>2 DEF CountInv, pamVars, vars
    <3> QED
      BY <2>1, <3>1, <3>3
  <2>3. ASSUME NEW p \in Proc,
               \/ Authenticate(p) \/ InsertFnek(p) \/ InsertFekek(p) \/ OpenSession(p)
               \/ CloseSession(p)
        PROVE  SessInv' /\ CountInv'
    BY <1>2, <2>0, <2>1, <2>3, PamMatches, PamCounts
  <2>4. ASSUME NEW p \in Proc, HelperStep(p) PROVE SessInv' /\ CountInv'
    BY <1>2, <2>0, <2>1, <2>4, HelperMatches, HelperCounts
  <2> QED
    BY <1>2, <2>1, <2>2, <2>3, <2>4 DEF PamNext
<1> QED
  BY <1>1, <1>2

\* However login sessions overlap and whichever of their mounts fail, the counter of
\* mount.ecryptfs_private never exceeds the sessions that will take it down, and the
\* directory is not mounted when the last has closed, unless an unmount was lost.
THEOREM CountBoundsSessionsHolds == PamSpec => []CountBoundsSessions
<1>1. ASSUME RunInv, SessInv, CountInv PROVE CountBoundsSessions
  <2>1. ASSUME ~lost, \A p \in Proc : sess[p] = "out" PROVE mounts[Default] = 0
    <3>1. Counted = {} /\ ~Leaving
      BY <2>1 DEF Counted, Leaving
    <3>2. count[Default] <= 0
      BY <1>1, <2>1, <3>1, FS_EmptySet DEF CountInv
    <3>3. count[Default] \in Nat /\ mounts[Default] \in Nat
      BY <1>1, DefaultKeys DEF RunInv, TypeOK
    <3> QED
      BY <1>1, <2>1, <3>1, <3>2, <3>3 DEF CountInv
  <2> QED
    BY <1>1, <2>1 DEF CountInv, CountBoundsSessions
<1> QED
  BY <1>1, CountInvHolds, PTL DEF PamSpec
=============================================================================
