-------------------------- MODULE MtabUpdateProofs --------------------------
(***************************************************************************)
(* Proofs about MtabUpdate, for any number of helpers and table lengths.   *)
(***************************************************************************)
EXTENDS MtabUpdate, TLAPS

\* Who is between creating and removing the lock file is alone there, and the
\* lock file exists.
Exclusive ==
    \A p \in Proc :
        pc[p] \in Critical =>
            /\ lockFile
            /\ \A q \in Proc : pc[q] \in Critical => q = p

\* The helper that copies has the current table open, and the new file holds
\* the part of it that has been copied: all of it when the copying has ended,
\* unless by a read error.
CopyInv ==
    \A p \in Proc :
        /\ pc[p] \in {"tmp", "copy", "add", "rename"} => old[p] = mtab
        /\ pc[p] \in {"idle", "lock", "old", "tmp"} => pos[p] = 0
        /\ pc[p] \in {"copy", "add", "rename"} => pos[p] <= Len(mtab)
        /\ pc[p] \in {"add", "rename"} => p \in cut \/ pos[p] = Len(mtab)
        /\ pc[p] \in {"copy", "add"} => tmp = SubSeq(mtab, 1, pos[p])
        /\ pc[p] = "rename" => tmp = Append(SubSeq(mtab, 1, pos[p]), p)

\* Copying one more entry extends the copied part by one.
LEMMA SubSeqExtend ==
    ASSUME NEW S, NEW s \in Seq(S), NEW n \in Nat, n < Len(s)
    PROVE  Append(SubSeq(s, 1, n), s[n + 1]) = SubSeq(s, 1, n + 1)
OBVIOUS

\* The part that is as long as the table is the table.
LEMMA SubSeqAll ==
    ASSUME NEW S, NEW s \in Seq(S)
    PROVE  SubSeq(s, 1, Len(s)) = s
OBVIOUS

\* Removing an entry leaves a table of entries.
LEMMA RemoveAtType ==
    ASSUME NEW S, NEW s \in Seq(S), NEW i \in 1 .. Len(s)
    PROVE  RemoveAt(s, i) \in Seq(S)
<1>1. SubSeq(s, 1, i - 1) \in Seq(S)
  OBVIOUS
<1>2. SubSeq(s, i + 1, Len(s)) \in Seq(S)
  OBVIOUS
<1> QED
  BY <1>1, <1>2 DEF RemoveAt

\* Every action keeps the types of all variables.
LEMMA TypeStep == ASSUME TypeOK, [Next]_vars PROVE TypeOK'
<1> USE DEF TypeOK, Critical, At, Goto, Leave, Entry
<1>1. ASSUME NEW p \in Proc, Begin(p) PROVE TypeOK'
  BY <1>1 DEF Begin
<1>2. ASSUME NEW p \in Proc, Step(p) PROVE TypeOK'
  <2>1. CASE Lock(p) BY <2>1 DEF Lock
  <2>2. CASE LockFails(p) BY <2>2 DEF LockFails
  <2>3. CASE OpenOld(p) BY <2>3 DEF OpenOld
  <2>4. CASE OpenOldFails(p) BY <2>4 DEF OpenOldFails, Fails
  <2>5. CASE OpenTmp(p) BY <2>5 DEF OpenTmp
  <2>6. CASE OpenTmpFails(p) BY <2>6 DEF OpenTmpFails, Fails
  <2>7. CASE Copy(p)
    <3>1. old[p][pos[p] + 1] \in Entry
      BY <2>7 DEF Copy
    <3> QED
      BY <2>7, <3>1 DEF Copy
  <2>8. CASE CopyFails(p) BY <2>8 DEF CopyFails, Fails
  <2>9. CASE CopyDone(p) BY <2>9 DEF CopyDone
  <2>10. CASE AddNew(p) BY <2>10 DEF AddNew
  <2>11. CASE AddNewFails(p) BY <2>11 DEF AddNewFails, Fails
  <2>12. CASE Rename(p) BY <2>12 DEF Rename
  <2>13. CASE RenameFails(p) BY <2>13 DEF RenameFails, Fails
  <2>14. CASE Unlock(p) BY <2>14 DEF Unlock
  <2>15. CASE FailLate(p) BY <2>15 DEF FailLate
  <2>16. CASE FailEarly(p) BY <2>16 DEF FailEarly
  <2>17. CASE AbortOnDoubleClose(p) BY <2>17 DEF AbortOnDoubleClose
  <2>18. CASE Return(p) BY <2>18 DEF Return
  <2>19. CASE ReadFails(p) BY <2>19 DEF ReadFails
  <2> QED
    BY <1>2, <2>1, <2>2, <2>3, <2>4, <2>5, <2>6, <2>7, <2>8, <2>9, <2>10,
       <2>11, <2>12, <2>13, <2>14, <2>15, <2>16, <2>17, <2>18, <2>19 DEF Step
<1>3. ASSUME NEW p \in Proc, Kill(p) PROVE TypeOK'
  BY <1>3 DEF Kill
<1>4. ASSUME NEW p \in Proc, RemoveEntry(p) PROVE TypeOK'
  BY <1>4, RemoveAtType DEF RemoveEntry
<1>5. CASE UNCHANGED vars
  BY <1>5 DEF vars
<1> QED
  BY <1>1, <1>2, <1>3, <1>4, <1>5 DEF Next

\* The lock file keeps a second helper out, through every action.
LEMMA ExclusiveStep ==
    ASSUME TypeOK, Exclusive, [Next]_vars PROVE Exclusive'
<1> USE DEF TypeOK, Exclusive, Critical, At, Goto, Leave
<1>1. ASSUME NEW p \in Proc, Begin(p) PROVE Exclusive'
  BY <1>1 DEF Begin
<1>2. ASSUME NEW p \in Proc, Step(p) PROVE Exclusive'
  <2>1. CASE Lock(p) BY <2>1 DEF Lock
  <2>2. CASE LockFails(p) BY <2>2 DEF LockFails
  <2>3. CASE OpenOld(p) BY <2>3 DEF OpenOld
  <2>4. CASE OpenOldFails(p) BY <2>4 DEF OpenOldFails, Fails
  <2>5. CASE OpenTmp(p) BY <2>5 DEF OpenTmp
  <2>6. CASE OpenTmpFails(p) BY <2>6 DEF OpenTmpFails, Fails
  <2>7. CASE Copy(p) BY <2>7 DEF Copy
  <2>8. CASE CopyFails(p) BY <2>8 DEF CopyFails, Fails
  <2>9. CASE CopyDone(p) BY <2>9 DEF CopyDone
  <2>10. CASE AddNew(p) BY <2>10 DEF AddNew
  <2>11. CASE AddNewFails(p) BY <2>11 DEF AddNewFails, Fails
  <2>12. CASE Rename(p) BY <2>12 DEF Rename
  <2>13. CASE RenameFails(p) BY <2>13 DEF RenameFails, Fails
  <2>14. CASE Unlock(p) BY <2>14 DEF Unlock
  <2>15. CASE FailLate(p) BY <2>15 DEF FailLate
  <2>16. CASE FailEarly(p) BY <2>16 DEF FailEarly
  <2>17. CASE AbortOnDoubleClose(p) BY <2>17 DEF AbortOnDoubleClose
  <2>18. CASE Return(p) BY <2>18 DEF Return
  <2>19. CASE ReadFails(p) BY <2>19 DEF ReadFails
  <2> QED
    BY <1>2, <2>1, <2>2, <2>3, <2>4, <2>5, <2>6, <2>7, <2>8, <2>9, <2>10,
       <2>11, <2>12, <2>13, <2>14, <2>15, <2>16, <2>17, <2>18, <2>19 DEF Step
<1>3. ASSUME NEW p \in Proc, Kill(p) PROVE Exclusive'
  BY <1>3 DEF Kill
<1>4. ASSUME NEW p \in Proc, RemoveEntry(p) PROVE Exclusive'
  BY <1>4 DEF RemoveEntry
<1>5. CASE UNCHANGED vars
  BY <1>5 DEF vars
<1> QED
  BY <1>1, <1>2, <1>3, <1>4, <1>5 DEF Next

\* The initial states satisfy the invariant.
LEMMA InitInv == Init => TypeOK /\ Exclusive /\ CopyInv
<1> SUFFICES ASSUME Init PROVE TypeOK /\ Exclusive /\ CopyInv
  OBVIOUS
<1>1. <<Root>> \in Seq(Entry) /\ <<>> \in Seq(Entry)
  BY DEF Entry
<1>2. TypeOK
  BY <1>1 DEF Init, TypeOK
<1>3. Exclusive /\ CopyInv
  BY DEF Init, Exclusive, CopyInv, Critical
<1> QED
  BY <1>2, <1>3

\* However many helpers there are and whatever fails, at most one of them is
\* between the creation and the removal of the lock file.
THEOREM MutualExclusionHolds == Spec => []MutualExclusion
<1>1. Init => TypeOK /\ Exclusive
  BY InitInv
<1>2. TypeOK /\ Exclusive /\ [Next]_vars => (TypeOK /\ Exclusive)'
  BY TypeStep, ExclusiveStep
<1>3. Exclusive => MutualExclusion
  BY DEF Exclusive, MutualExclusion
<1> QED
  BY <1>1, <1>2, <1>3, PTL DEF Spec
-----------------------------------------------------------------------------

\* The copy stays a copy of the current table, through every action.
LEMMA CopyStep ==
    ASSUME TypeOK, Exclusive, CopyInv, [Next]_vars PROVE CopyInv'
<1> USE DEF TypeOK, Exclusive, CopyInv, Critical, At, Goto, Leave
<1>1. ASSUME NEW p \in Proc, Begin(p) PROVE CopyInv'
  BY <1>1 DEF Begin
<1>2. ASSUME NEW p \in Proc, Step(p) PROVE CopyInv'
  <2>1. CASE Lock(p) BY <2>1 DEF Lock
  <2>2. CASE LockFails(p) BY <2>2 DEF LockFails
  <2>3. CASE OpenOld(p) BY <2>3 DEF OpenOld
  <2>4. CASE OpenOldFails(p) BY <2>4 DEF OpenOldFails, Fails
  <2>5. CASE OpenTmp(p)
    <3>1. SubSeq(mtab, 1, 0) = <<>>
      OBVIOUS
    <3> QED
      BY <2>5, <3>1 DEF OpenTmp
  <2>6. CASE OpenTmpFails(p) BY <2>6 DEF OpenTmpFails, Fails
  <2>7. CASE Copy(p)
    <3>1. Append(SubSeq(mtab, 1, pos[p]), mtab[pos[p] + 1])
            = SubSeq(mtab, 1, pos[p] + 1)
      BY <2>7, SubSeqExtend DEF Copy
    <3> QED
      BY <2>7, <3>1 DEF Copy
  <2>8. CASE CopyFails(p) BY <2>8 DEF CopyFails, Fails
  <2>9. CASE CopyDone(p) BY <2>9 DEF CopyDone
  <2>10. CASE AddNew(p) BY <2>10 DEF AddNew
  <2>11. CASE AddNewFails(p) BY <2>11 DEF AddNewFails, Fails
  <2>12. CASE Rename(p) BY <2>12 DEF Rename
  <2>13. CASE RenameFails(p) BY <2>13 DEF RenameFails, Fails
  <2>14. CASE Unlock(p) BY <2>14 DEF Unlock
  <2>15. CASE FailLate(p) BY <2>15 DEF FailLate
  <2>16. CASE FailEarly(p) BY <2>16 DEF FailEarly
  <2>17. CASE AbortOnDoubleClose(p) BY <2>17 DEF AbortOnDoubleClose
  <2>18. CASE Return(p) BY <2>18 DEF Return
  <2>19. CASE ReadFails(p) BY <2>19 DEF ReadFails
  <2> QED
    BY <1>2, <2>1, <2>2, <2>3, <2>4, <2>5, <2>6, <2>7, <2>8, <2>9, <2>10,
       <2>11, <2>12, <2>13, <2>14, <2>15, <2>16, <2>17, <2>18, <2>19 DEF Step
<1>3. ASSUME NEW p \in Proc, Kill(p) PROVE CopyInv'
  BY <1>3 DEF Kill
<1>4. ASSUME NEW p \in Proc, RemoveEntry(p) PROVE CopyInv'
  BY <1>4 DEF RemoveEntry
<1>5. CASE UNCHANGED vars
  BY <1>5 DEF vars
<1> QED
  BY <1>1, <1>2, <1>3, <1>4, <1>5 DEF Next

\* What OnlyAppends says of a step of q that changes the table.
Appended(q) ==
    /\ mtab' = Append(SubSeq(mtab, 1, pos[q]), q)
    /\ q \notin cut => mtab' = Append(mtab, q)

\* A helper's step leaves the table alone or appends its own entry.
LEMMA AppendStep ==
    ASSUME TypeOK, CopyInv, [Next]_vars, NEW q \in Proc,
           pc[q] # "idle", pc'[q] # pc[q], mtab' # mtab
    PROVE  Appended(q)
<1> USE DEF TypeOK, CopyInv, At, Goto, Leave, Appended
<1>1. ASSUME NEW p \in Proc, Begin(p) PROVE Appended(q)
  BY <1>1 DEF Begin
<1>2. ASSUME NEW p \in Proc, Step(p) PROVE Appended(q)
  <2>1. CASE Lock(p) BY <2>1 DEF Lock
  <2>2. CASE LockFails(p) BY <2>2 DEF LockFails
  <2>3. CASE OpenOld(p) BY <2>3 DEF OpenOld
  <2>4. CASE OpenOldFails(p) BY <2>4 DEF OpenOldFails, Fails
  <2>5. CASE OpenTmp(p) BY <2>5 DEF OpenTmp
  <2>6. CASE OpenTmpFails(p) BY <2>6 DEF OpenTmpFails, Fails
  <2>7. CASE Copy(p) BY <2>7 DEF Copy
  <2>8. CASE CopyFails(p) BY <2>8 DEF CopyFails, Fails
  <2>9. CASE CopyDone(p) BY <2>9 DEF CopyDone
  <2>10. CASE AddNew(p) BY <2>10 DEF AddNew
  <2>11. CASE AddNewFails(p) BY <2>11 DEF AddNewFails, Fails
  <2>12. CASE Rename(p)
    <3>1. q = p
      BY <2>12 DEF Rename
    <3> QED
      BY <2>12, <3>1, SubSeqAll DEF Rename
  <2>13. CASE RenameFails(p) BY <2>13 DEF RenameFails, Fails
  <2>14. CASE Unlock(p) BY <2>14 DEF Unlock
  <2>15. CASE FailLate(p) BY <2>15 DEF FailLate
  <2>16. CASE FailEarly(p) BY <2>16 DEF FailEarly
  <2>17. CASE AbortOnDoubleClose(p) BY <2>17 DEF AbortOnDoubleClose
  <2>18. CASE Return(p) BY <2>18 DEF Return
  <2>19. CASE ReadFails(p) BY <2>19 DEF ReadFails
  <2> QED
    BY <1>2, <2>1, <2>2, <2>3, <2>4, <2>5, <2>6, <2>7, <2>8, <2>9, <2>10,
       <2>11, <2>12, <2>13, <2>14, <2>15, <2>16, <2>17, <2>18, <2>19 DEF Step
<1>3. ASSUME NEW p \in Proc, Kill(p) PROVE Appended(q)
  BY <1>3 DEF Kill
<1>4. ASSUME NEW p \in Proc, RemoveEntry(p) PROVE Appended(q)
  BY <1>4 DEF RemoveEntry
<1>5. CASE UNCHANGED vars
  BY <1>5 DEF vars
<1> QED
  BY <1>1, <1>2, <1>3, <1>4, <1>5 DEF Next

\* No update of /etc/mtab by a helper changes or reorders an entry, and none loses
\* one unless getmntent() took an error of its own reading for the end of the table.
THEOREM OnlyAppendsHolds == Spec => OnlyAppends
<1>1. Init => TypeOK /\ Exclusive /\ CopyInv
  BY InitInv
<1>2. TypeOK /\ Exclusive /\ CopyInv /\ [Next]_vars
        => (TypeOK /\ Exclusive /\ CopyInv)'
  BY TypeStep, ExclusiveStep, CopyStep
<1>3. TypeOK /\ Exclusive /\ CopyInv /\ [Next]_vars
        => [\A p \in Proc :
              (pc[p] # "idle" /\ pc'[p] # pc[p] /\ mtab' # mtab)
                  => Appended(p)]_vars
  BY AppendStep
<1> QED
  BY <1>1, <1>2, <1>3, PTL DEF Spec, OnlyAppends, Appended
-----------------------------------------------------------------------------

\* A helper that has replaced /etc/mtab and not removed the lock file is in it.
Recorded == \A p \in Proc : pc[p] = "unlock" => p \in Range(mtab)

\* The part of a table that has been copied is a table.
LEMMA SubSeqType ==
    ASSUME NEW S, NEW s \in Seq(S), NEW n \in Nat, n <= Len(s)
    PROVE  SubSeq(s, 1, n) \in Seq(S)
OBVIOUS

\* An entry that is added is there.
LEMMA AppendEnds ==
    ASSUME NEW S, NEW s \in Seq(S), NEW x \in S
    PROVE  x \in Range(Append(s, x))
<1>1. Append(s, x)[Len(s) + 1] = x /\ Len(s) + 1 \in DOMAIN Append(s, x)
  OBVIOUS
<1> QED
  BY <1>1 DEF Range

\* No action takes a recorded entry out while its helper holds the lock file.
LEMMA RecordedStep ==
    ASSUME TypeOK, Exclusive, CopyInv, Recorded, [Next]_vars PROVE Recorded'
<1> USE DEF TypeOK, Exclusive, Recorded, Critical, At, Goto, Leave
<1>1. ASSUME NEW p \in Proc, Begin(p) PROVE Recorded'
  BY <1>1 DEF Begin
<1>2. ASSUME NEW p \in Proc, Step(p) PROVE Recorded'
  <2>1. CASE Lock(p) BY <2>1 DEF Lock
  <2>2. CASE LockFails(p) BY <2>2 DEF LockFails
  <2>3. CASE OpenOld(p) BY <2>3 DEF OpenOld
  <2>4. CASE OpenOldFails(p) BY <2>4 DEF OpenOldFails, Fails
  <2>5. CASE OpenTmp(p) BY <2>5 DEF OpenTmp
  <2>6. CASE OpenTmpFails(p) BY <2>6 DEF OpenTmpFails, Fails
  <2>7. CASE Copy(p) BY <2>7 DEF Copy
  <2>8. CASE CopyFails(p) BY <2>8 DEF CopyFails, Fails
  <2>9. CASE CopyDone(p) BY <2>9 DEF CopyDone
  <2>10. CASE AddNew(p) BY <2>10 DEF AddNew
  <2>11. CASE AddNewFails(p) BY <2>11 DEF AddNewFails, Fails
  <2>12. CASE Rename(p)
    <3>1. tmp = Append(SubSeq(mtab, 1, pos[p]), p) /\ p \in Entry
      BY <2>12 DEF Rename, CopyInv, Entry
    <3>2. p \in Range(tmp)
      <4>1. pos[p] \in Nat /\ pos[p] <= Len(mtab)
        BY <2>12 DEF Rename, CopyInv
      <4>2. SubSeq(mtab, 1, pos[p]) \in Seq(Entry)
        BY <4>1, SubSeqType
      <4> QED
        BY <3>1, <4>2, AppendEnds
    <3>3. ASSUME NEW q \in Proc, pc'[q] = "unlock" PROVE q = p
      BY <2>12, <3>3 DEF Rename
    <3>4. p \in Range(mtab')
      BY <2>12, <3>2 DEF Rename
    <3> QED
      BY <3>3, <3>4 DEF Recorded
  <2>13. CASE RenameFails(p) BY <2>13 DEF RenameFails, Fails
  <2>14. CASE Unlock(p) BY <2>14 DEF Unlock
  <2>15. CASE FailLate(p) BY <2>15 DEF FailLate
  <2>16. CASE FailEarly(p) BY <2>16 DEF FailEarly
  <2>17. CASE AbortOnDoubleClose(p) BY <2>17 DEF AbortOnDoubleClose
  <2>18. CASE Return(p) BY <2>18 DEF Return
  <2>19. CASE ReadFails(p) BY <2>19 DEF ReadFails
  <2> QED
    BY <1>2, <2>1, <2>2, <2>3, <2>4, <2>5, <2>6, <2>7, <2>8, <2>9, <2>10,
       <2>11, <2>12, <2>13, <2>14, <2>15, <2>16, <2>17, <2>18, <2>19 DEF Step
<1>3. ASSUME NEW p \in Proc, Kill(p) PROVE Recorded'
  BY <1>3 DEF Kill
<1>4. ASSUME NEW p \in Proc, RemoveEntry(p) PROVE Recorded'
  BY <1>4 DEF RemoveEntry
<1>5. CASE UNCHANGED vars
  BY <1>5 DEF vars
<1> QED
  BY <1>1, <1>2, <1>3, <1>4, <1>5 DEF Next

\* The step with which update_mtab() returns 0 leaves the table as it is.
LEMMA RecordedReturn ==
    ASSUME TypeOK, Recorded, [Next]_vars, NEW q \in Proc,
           UseMtab, pc[q] # "ok", pc'[q] = "ok"
    PROVE  q \in Range(mtab')
<1> USE DEF TypeOK, Recorded, At, Goto, Leave
<1>1. ASSUME NEW p \in Proc, Begin(p) PROVE q \in Range(mtab')
  BY <1>1 DEF Begin
<1>2. ASSUME NEW p \in Proc, Step(p) PROVE q \in Range(mtab')
  <2>1. CASE Lock(p) BY <2>1 DEF Lock
  <2>2. CASE LockFails(p) BY <2>2 DEF LockFails
  <2>3. CASE OpenOld(p) BY <2>3 DEF OpenOld
  <2>4. CASE OpenOldFails(p) BY <2>4 DEF OpenOldFails, Fails
  <2>5. CASE OpenTmp(p) BY <2>5 DEF OpenTmp
  <2>6. CASE OpenTmpFails(p) BY <2>6 DEF OpenTmpFails, Fails
  <2>7. CASE Copy(p) BY <2>7 DEF Copy
  <2>8. CASE CopyFails(p) BY <2>8 DEF CopyFails, Fails
  <2>9. CASE CopyDone(p) BY <2>9 DEF CopyDone
  <2>10. CASE AddNew(p) BY <2>10 DEF AddNew
  <2>11. CASE AddNewFails(p) BY <2>11 DEF AddNewFails, Fails
  <2>12. CASE Rename(p) BY <2>12 DEF Rename
  <2>13. CASE RenameFails(p) BY <2>13 DEF RenameFails, Fails
  <2>14. CASE Unlock(p) BY <2>14 DEF Unlock
  <2>15. CASE FailLate(p) BY <2>15 DEF FailLate
  <2>16. CASE FailEarly(p) BY <2>16 DEF FailEarly
  <2>17. CASE AbortOnDoubleClose(p) BY <2>17 DEF AbortOnDoubleClose
  <2>18. CASE Return(p) BY <2>18 DEF Return
  <2>19. CASE ReadFails(p) BY <2>19 DEF ReadFails
  <2> QED
    BY <1>2, <2>1, <2>2, <2>3, <2>4, <2>5, <2>6, <2>7, <2>8, <2>9, <2>10,
       <2>11, <2>12, <2>13, <2>14, <2>15, <2>16, <2>17, <2>18, <2>19 DEF Step
<1>3. ASSUME NEW p \in Proc, Kill(p) PROVE q \in Range(mtab')
  BY <1>3 DEF Kill
<1>4. ASSUME NEW p \in Proc, RemoveEntry(p) PROVE q \in Range(mtab')
  BY <1>4 DEF RemoveEntry
<1>5. CASE UNCHANGED vars
  BY <1>5 DEF vars
<1> QED
  BY <1>1, <1>2, <1>3, <1>4, <1>5 DEF Next

\* When update_mtab() returns 0 the entry is in /etc/mtab, whatever the helpers of
\* other users and umount(8) do to the table in the meantime.
THEOREM SuccessRecordedHolds == Spec => SuccessRecorded
<1> DEFINE Inv == TypeOK /\ Exclusive /\ CopyInv /\ Recorded
<1>1. Init => Inv
  <2>1. Init => Recorded
    BY DEF Init, Recorded
  <2> QED
    BY <2>1, InitInv
<1>2. Inv /\ [Next]_vars => Inv'
  BY TypeStep, ExclusiveStep, CopyStep, RecordedStep
<1>3. Inv /\ [Next]_vars
        => [\A p \in Proc :
              (UseMtab /\ pc[p] # "ok" /\ pc'[p] = "ok") => p \in Range(mtab')]_vars
  BY RecordedReturn
<1> QED
  BY <1>1, <1>2, <1>3, PTL DEF Spec, SuccessRecorded

\* The step with which a helper returns, from anywhere behind the opening of the
\* old table, removes the lock file.
LEMMA RemovedStep ==
    ASSUME TypeOK, [Next]_vars, NEW q \in Proc,
           pc[q] \in Critical \ {"old"}, pc'[q] \in {"ok", "failed"}
    PROVE  ~lockFile'
<1> USE DEF TypeOK, Critical, At, Goto, Leave
<1>1. ASSUME NEW p \in Proc, Begin(p) PROVE ~lockFile'
  BY <1>1 DEF Begin
<1>2. ASSUME NEW p \in Proc, Step(p) PROVE ~lockFile'
  <2>1. CASE Lock(p) BY <2>1 DEF Lock
  <2>2. CASE LockFails(p) BY <2>2 DEF LockFails
  <2>3. CASE OpenOld(p) BY <2>3 DEF OpenOld
  <2>4. CASE OpenOldFails(p) BY <2>4 DEF OpenOldFails, Fails
  <2>5. CASE OpenTmp(p) BY <2>5 DEF OpenTmp
  <2>6. CASE OpenTmpFails(p) BY <2>6 DEF OpenTmpFails, Fails
  <2>7. CASE Copy(p) BY <2>7 DEF Copy
  <2>8. CASE CopyFails(p) BY <2>8 DEF CopyFails, Fails
  <2>9. CASE CopyDone(p) BY <2>9 DEF CopyDone
  <2>10. CASE AddNew(p) BY <2>10 DEF AddNew
  <2>11. CASE AddNewFails(p) BY <2>11 DEF AddNewFails, Fails
  <2>12. CASE Rename(p) BY <2>12 DEF Rename
  <2>13. CASE RenameFails(p) BY <2>13 DEF RenameFails, Fails
  <2>14. CASE Unlock(p) BY <2>14 DEF Unlock
  <2>15. CASE FailLate(p) BY <2>15 DEF FailLate
  <2>16. CASE FailEarly(p) BY <2>16 DEF FailEarly
  <2>17. CASE AbortOnDoubleClose(p) BY <2>17 DEF AbortOnDoubleClose
  <2>18. CASE Return(p) BY <2>18 DEF Return
  <2>19. CASE ReadFails(p) BY <2>19 DEF ReadFails
  <2> QED
    BY <1>2, <2>1, <2>2, <2>3, <2>4, <2>5, <2>6, <2>7, <2>8, <2>9, <2>10,
       <2>11, <2>12, <2>13, <2>14, <2>15, <2>16, <2>17, <2>18, <2>19 DEF Step
<1>3. ASSUME NEW p \in Proc, Kill(p) PROVE ~lockFile'
  BY <1>3 DEF Kill
<1>4. ASSUME NEW p \in Proc, RemoveEntry(p) PROVE ~lockFile'
  BY <1>4 DEF RemoveEntry
<1>5. CASE UNCHANGED vars
  BY <1>5 DEF vars
<1> QED
  BY <1>1, <1>2, <1>3, <1>4, <1>5 DEF Next

\* update_mtab() leaves no lock file behind on any path but the one on which
\* /etc/mtab cannot be opened, however many helpers compete for it.
THEOREM LockRemovedHolds == Spec => LockRemoved
<1>1. Init => TypeOK
  BY InitInv
<1>2. TypeOK /\ [Next]_vars => TypeOK'
  BY TypeStep
<1>3. TypeOK /\ [Next]_vars
        => [\A p \in Proc :
              (pc[p] \in Critical \ {"old"} /\ pc'[p] \in {"ok", "failed"})
                  => ~lockFile']_vars
  BY RemovedStep
<1> QED
  BY <1>1, <1>2, <1>3, PTL DEF Spec, LockRemoved
=============================================================================
