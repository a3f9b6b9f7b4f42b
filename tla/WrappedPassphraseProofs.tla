---------------------- MODULE WrappedPassphraseProofs ----------------------
(***************************************************************************)
(* Proofs about WrappedPassphrase, for any number of programs and any      *)
(* wrapping passphrases.                                                   *)
(***************************************************************************)
EXTENDS WrappedPassphrase, TLAPS

\* What the files and the buffers hold while no write() is cut short: a body
\* that is not empty is complete.
WholeInv ==
    /\ \A i \in Inode : file[i].body \in {"none", "mount"}
    /\ \A p \in Proc : buf[p] \in {"none", "mount"}
    /\ \A p \in Proc : pc[p] \in {"encrypt", "addkey", "unlink", "create", "wsig", "wbody"}
                        => buf[p] = "mount"
    /\ keyring \subseteq {"mount"}

\* Every file in the directory is complete or being completed by the run that
\* created it; without one, a run is about to create it, or the cleartext is
\* there and nobody has got as far as removing it.
FileInv ==
    /\ \A p \in Proc : pc[p] = "wbody" => file[p].sig = new[p]
    /\ link # None => Readable(link) \/ torn # {}
                      \/ (link \in Proc /\ pc[link] \in {"wsig", "wbody"})
    /\ link = None => \/ torn # {}
                      \/ \E p \in Proc : pc[p] = "create"
                      \/ clear /\ \A p \in Proc : pc[p] \notin {"wsig", "wbody", "rmclear"}

IInv == TypeOK /\ WholeInv /\ FileInv

\* The three properties follow from the inductive invariant.
LEMMA IInvImplies == IInv => UnwrapExact /\ PassphraseInHand /\ NothingLost
  BY WrappingAssumption DEF IInv, TypeOK, WholeInv, FileInv, UnwrapExact, PassphraseInHand,
     NothingLost, InWindow, Inode

\* The initial states satisfy it.
LEMMA InitIInv == Init => IInv
<1> SUFFICES ASSUME Init PROVE IInv
  OBVIOUS
<1> USE WrappingAssumption DEF Init, EmptyFile, Inode, Plain, Body, Pos
<1>1. PICK w \in Wrapping \ TooLong :
        file = [i \in Inode |-> IF i = First THEN [sig |-> w, body |-> "mount"]
                                             ELSE EmptyFile]
  OBVIOUS
<1>2. TypeOK
  BY <1>1 DEF TypeOK
<1>3. WholeInv
  BY <1>1 DEF WholeInv
<1>4. FileInv
  BY <1>1 DEF FileInv, Readable
<1> QED
  BY <1>2, <1>3, <1>4 DEF IInv

\* Every action keeps the types.
LEMMA TypeStep == ASSUME TypeOK, [Next]_vars PROVE TypeOK'
<1> USE WrappingAssumption DEF TypeOK, Go, Inode, Plain, Body, Pos, Op, args, reading, stored
<1>1. ASSUME NEW p \in Proc, Step(p) PROVE TypeOK'
  <2>1. CASE Authenticate(p) BY <2>1 DEF Authenticate, Begin
  <2>15. CASE ChAuthTok(p) BY <2>15 DEF ChAuthTok, Begin
  <2>16. CASE RewrapMain(p) BY <2>16 DEF RewrapMain, Begin, Checked
  <2>17. CASE WrapMain(p) BY <2>17 DEF WrapMain, Begin, Checked
  <2>18. CASE UnwrapMain(p) BY <2>18 DEF UnwrapMain, Begin, Checked
  <2>19. CASE InsertMain(p) BY <2>19 DEF InsertMain, Begin, Checked
  <2>2. CASE NeedClear(p) BY <2>2 DEF NeedClear, AfterNeed
  <2>3. CASE NeedWrapped(p) BY <2>3 DEF NeedWrapped, AfterNeed
  <2>4. CASE OpenClear(p) BY <2>4 DEF OpenClear
  <2>5. CASE Encrypt(p) BY <2>5 DEF Encrypt
  <2>6. CASE Unlink(p) BY <2>6 DEF Unlink
  <2>7. CASE Create(p) BY <2>7 DEF Create, EmptyFile
  <2>8. CASE WriteSig(p) BY <2>8 DEF WriteSig
  <2>9. CASE WriteBody(p) BY <2>9 DEF WriteBody
  <2>10. CASE RemoveClear(p) BY <2>10 DEF RemoveClear, AfterNeed
  <2>11. CASE OpenWrapped(p) BY <2>11 DEF OpenWrapped
  <2>12. CASE ReadSig(p) BY <2>12 DEF ReadSig
  <2>13. CASE ReadBody(p) BY <2>13 DEF ReadBody
  <2>14. CASE AddKeys(p) BY <2>14 DEF AddKeys
  <2> QED
    BY <1>1, <2>1, <2>2, <2>3, <2>4, <2>5, <2>6, <2>7, <2>8, <2>9, <2>10, <2>11,
       <2>12, <2>13, <2>14, <2>15, <2>16, <2>17, <2>18, <2>19 DEF Step
<1>2. ASSUME NEW p \in Proc, Error(p) \/ Kill(p) PROVE TypeOK'
  <2>1. Fail(p) /\ pc[p] # "idle"
    BY <1>2 DEF Error, Kill, OpenClearFails, EncryptFails, CreateFails, WriteSigFails,
       WriteBodyFails, OpenWrappedFails, ReadSigFails, ReadBodyFails, AddKeysFails
  <2> QED
    BY <2>1 DEF Fail, InWindow
<1>3. CASE UNCHANGED vars
  BY <1>3 DEF vars
<1> QED
  BY <1>1, <1>2, <1>3 DEF Next, AllDone

\* Every action keeps bodies and buffers whole: a body is written at once.
LEMMA WholeStep ==
  ASSUME "short" \notin Faults, TypeOK, WholeInv, [Next]_vars PROVE WholeInv'
<1> USE WrappingAssumption DEF TypeOK, WholeInv, Go, Inode, Plain, Body, Pos, args, reading,
        stored
<1>1. ASSUME NEW p \in Proc, Step(p) PROVE WholeInv'
  <2>1. CASE Authenticate(p) BY <2>1 DEF Authenticate, Begin
  <2>15. CASE ChAuthTok(p) BY <2>15 DEF ChAuthTok, Begin
  <2>16. CASE RewrapMain(p) BY <2>16 DEF RewrapMain, Begin, Checked
  <2>17. CASE WrapMain(p) BY <2>17 DEF WrapMain, Begin, Checked
  <2>18. CASE UnwrapMain(p) BY <2>18 DEF UnwrapMain, Begin, Checked
  <2>19. CASE InsertMain(p) BY <2>19 DEF InsertMain, Begin, Checked
  <2>2. CASE NeedClear(p) BY <2>2 DEF NeedClear, AfterNeed
  <2>3. CASE NeedWrapped(p) BY <2>3 DEF NeedWrapped, AfterNeed
  <2>4. CASE OpenClear(p) BY <2>4 DEF OpenClear
  <2>5. CASE Encrypt(p) BY <2>5 DEF Encrypt
  <2>6. CASE Unlink(p) BY <2>6 DEF Unlink
  <2>7. CASE Create(p) BY <2>7 DEF Create, EmptyFile
  <2>8. CASE WriteSig(p) BY <2>8 DEF WriteSig
  <2>9. CASE WriteBody(p) BY <2>9 DEF WriteBody
  <2>10. CASE RemoveClear(p) BY <2>10 DEF RemoveClear, AfterNeed
  <2>11. CASE OpenWrapped(p) BY <2>11 DEF OpenWrapped
  <2>12. CASE ReadSig(p) BY <2>12 DEF ReadSig
  <2>13. CASE ReadBody(p) BY <2>13 DEF ReadBody
  <2>14. CASE AddKeys(p)
    <3>1. buf[p] = "mount"
      BY <2>14 DEF AddKeys
    <3>2. keyring' = keyring \cup {"mount"}
      BY <2>14, <3>1 DEF AddKeys
    <3>3. keyring' \subseteq {"mount"}
      BY <3>2
    <3>4. UNCHANGED <<buf, file>> /\ pc' = [pc EXCEPT ![p] = "done"]
      BY <2>14 DEF AddKeys
    <3> QED
      BY <3>3, <3>4
  <2> QED
    BY <1>1, <2>1, <2>2, <2>3, <2>4, <2>5, <2>6, <2>7, <2>8, <2>9, <2>10,
       <2>11, <2>12, <2>13, <2>14, <2>15, <2>16, <2>17, <2>18, <2>19 DEF Step
<1>2. ASSUME NEW p \in Proc, Error(p) \/ Kill(p) PROVE WholeInv'
  <2>1. Fail(p) /\ pc[p] # "idle"
    BY <1>2 DEF Error, Kill, OpenClearFails, EncryptFails, CreateFails, WriteSigFails,
       WriteBodyFails, OpenWrappedFails, ReadSigFails, ReadBodyFails, AddKeysFails
  <2> QED
    BY <2>1 DEF Fail, InWindow
<1>3. CASE UNCHANGED vars
  BY <1>3 DEF vars
<1> QED
  BY <1>1, <1>2, <1>3 DEF Next, AllDone

\* Every action keeps what is known of the directory entry.
LEMMA FileStep ==
  ASSUME "short" \notin Faults, TypeOK, WholeInv, FileInv, [Next]_vars PROVE FileInv'
<1> USE WrappingAssumption DEF TypeOK, WholeInv, FileInv, Readable, Go, Inode, Plain, Body,
        Pos, args, reading, stored
<1>1. ASSUME NEW p \in Proc, Step(p) PROVE FileInv'
  <2>1. CASE Authenticate(p) BY <2>1 DEF Authenticate, Begin
  <2>15. CASE ChAuthTok(p) BY <2>15 DEF ChAuthTok, Begin
  <2>16. CASE RewrapMain(p) BY <2>16 DEF RewrapMain, Begin, Checked
  <2>17. CASE WrapMain(p) BY <2>17 DEF WrapMain, Begin, Checked
  <2>18. CASE UnwrapMain(p) BY <2>18 DEF UnwrapMain, Begin, Checked
  <2>19. CASE InsertMain(p) BY <2>19 DEF InsertMain, Begin, Checked
  <2>2. CASE NeedClear(p) BY <2>2 DEF NeedClear, AfterNeed
  <2>3. CASE NeedWrapped(p) BY <2>3 DEF NeedWrapped, AfterNeed
  <2>4. CASE OpenClear(p) BY <2>4 DEF OpenClear
  <2>5. CASE Encrypt(p) BY <2>5 DEF Encrypt
  <2>6. CASE Unlink(p) BY <2>6 DEF Unlink
  <2>7. CASE Create(p) BY <2>7 DEF Create, EmptyFile
  <2>8. CASE WriteSig(p) BY <2>8 DEF WriteSig
  <2>9. CASE WriteBody(p) BY <2>9 DEF WriteBody
  <2>10. CASE RemoveClear(p) BY <2>10 DEF RemoveClear, AfterNeed
  <2>11. CASE OpenWrapped(p) BY <2>11 DEF OpenWrapped
  <2>12. CASE ReadSig(p) BY <2>12 DEF ReadSig
  <2>13. CASE ReadBody(p) BY <2>13 DEF ReadBody
  <2>14. CASE AddKeys(p) BY <2>14 DEF AddKeys
  <2> QED
    BY <1>1, <2>1, <2>2, <2>3, <2>4, <2>5, <2>6, <2>7, <2>8, <2>9, <2>10,
       <2>11, <2>12, <2>13, <2>14, <2>15, <2>16, <2>17, <2>18, <2>19 DEF Step
<1>2. ASSUME NEW p \in Proc, Error(p) \/ Kill(p) PROVE FileInv'
  <2>1. Fail(p) /\ pc[p] # "idle"
    BY <1>2 DEF Error, Kill, OpenClearFails, EncryptFails, CreateFails, WriteSigFails,
       WriteBodyFails, OpenWrappedFails, ReadSigFails, ReadBodyFails, AddKeysFails
  <2> QED
    BY <2>1 DEF Fail, InWindow
<1>3. CASE UNCHANGED vars
  BY <1>3 DEF vars
<1> QED
  BY <1>1, <1>2, <1>3 DEF Next, AllDone

\* Types, for any programs, passphrases and faults, short writes included.
THEOREM TypeCorrect == Spec => []TypeOK
  BY InitIInv, TypeStep, PTL DEF Spec, IInv

\* The inductive invariant holds in every reachable state, unless a write() is
\* cut short and counts as a success.
LEMMA IInvHolds == ASSUME "short" \notin Faults PROVE Spec => []IInv
<1>1. Init => IInv
  BY InitIInv
<1>2. IInv /\ [Next]_vars => IInv'
  BY TypeStep, WholeStep, FileStep DEF IInv
<1> QED
  BY <1>1, <1>2, PTL DEF Spec

\* No unwrapping run ever gets a part of the passphrase, and no key made from a
\* part of it enters the keyring, for any number of programs at once.
THEOREM UnwrapExactHolds == ASSUME "short" \notin Faults PROVE Spec => []UnwrapExact
  BY IInvHolds, IInvImplies, PTL

\* The wrapped passphrase is only unlinked and rewritten by a run that holds the
\* mount passphrase, whatever passphrases the programs were given.
THEOREM PassphraseInHandHolds ==
  ASSUME "short" \notin Faults PROVE Spec => []PassphraseInHand
  BY IInvHolds, IInvImplies, PTL

\* The passphrase can be lost only by a run that ends between unlink() and its last
\* write(), for every interleaving, failure and kill.
THEOREM NothingLostHolds == ASSUME "short" \notin Faults PROVE Spec => []NothingLost
  BY IInvHolds, IInvImplies, PTL
=============================================================================
