----------------------------- MODULE MtabUpdate -----------------------------
(***************************************************************************)
(* update_mtab() of mount.ecryptfs_private, step by step: the helpers of   *)
(* different users, which share no counter lock, each add their entry to   *)
(* /etc/mtab by copying it to /etc/mtab.tmp and renaming the copy.  The    *)
(* lock is the existence of the file /etc/mtab~.                           *)
(***************************************************************************)
EXTENDS Integers, Sequences, Functions

CONSTANTS
    Proc,           \* helper runs; p is also the entry that p adds
    Root,           \* an entry that is there from the start
    UseMtab,        \* /etc/mtab is a file, not a symbolic link
    Faults,         \* the calls that may fail in the instance
    MaxEntries      \* bound: no update starts on a table this long

FaultNames == {"lock", "old", "tmp", "read", "copy", "add", "rename", "kill"}

ASSUME MtabAssumption ==
    /\ Root \notin Proc
    /\ UseMtab \in BOOLEAN
    /\ Faults \subseteq FaultNames
    /\ MaxEntries \in Nat

VARIABLES
    pc,             \* where each helper is in update_mtab()
    lockFile,       \* /etc/mtab~ exists
    mtab,           \* the entries of /etc/mtab
    tmp,            \* the entries of /etc/mtab.tmp; <<>> if there is none
    old,            \* [Proc -> entries]: the table open as old_mtab
    pos,            \* [Proc -> Nat]: how many of them getmntent() has returned
    closed,         \* [Proc -> BOOLEAN]: endmntent(old_mtab) has been called
    cut             \* history: helpers whose reading of old_mtab ended by an error

vars == <<pc, lockFile, mtab, tmp, old, pos, closed, cut>>

Entry == Proc \cup {Root}

\* Between the creation of the lock file and its removal.
Critical == {"old", "tmp", "copy", "add", "rename", "unlock",
             "fail", "failEarly"}

TypeOK ==
    /\ pc \in [Proc -> Critical \cup {"idle", "lock", "ok", "failed"}]
    /\ lockFile \in BOOLEAN
    /\ mtab \in Seq(Entry)
    /\ tmp \in Seq(Entry)
    /\ old \in [Proc -> Seq(Entry)]
    /\ pos \in [Proc -> Nat]
    /\ closed \in [Proc -> BOOLEAN]
    /\ cut \subseteq Proc

Init ==
    /\ pc = [p \in Proc |-> "idle"]
    /\ lockFile = FALSE
    /\ mtab = <<Root>>
    /\ tmp = <<>>
    /\ old = [p \in Proc |-> <<>>]
    /\ pos = [p \in Proc |-> 0]
    /\ closed = [p \in Proc |-> FALSE]
    /\ cut = {}
-----------------------------------------------------------------------------

At(p, l) == pc[p] = l
Goto(p, l) == pc' = [pc EXCEPT ![p] = l]

\* The helper has ended, and its local variables with it.
Leave(p) ==
    /\ Goto(p, "idle")
    /\ old' = [old EXCEPT ![p] = <<>>]
    /\ pos' = [pos EXCEPT ![p] = 0]
    /\ closed' = [closed EXCEPT ![p] = FALSE]
    /\ cut' = cut \ {p}

\* A call that returns an error and leaves every file alone.
Fails(p, l, fault, next) ==
    /\ At(p, l)
    /\ fault \in Faults
    /\ Goto(p, next)
    /\ UNCHANGED <<lockFile, mtab, tmp, old, pos, closed, cut>>

\* main() calls update_mtab() after a successful mount(2).
Begin(p) ==
    /\ At(p, "idle")
    /\ Len(mtab) < MaxEntries
    /\ Goto(p, IF UseMtab THEN "lock" ELSE "ok")
    /\ UNCHANGED <<lockFile, mtab, tmp, old, pos, closed, cut>>

\* Mutant of Lock: the lock file is created without O_EXCL.
LockNotExclusive(p) ==
    /\ At(p, "lock")
    /\ lockFile' = TRUE
    /\ Goto(p, "old")
    /\ UNCHANGED <<mtab, tmp, old, pos, closed, cut>>

\* open("/etc/mtab~", O_CREAT | O_EXCL): does not wait.
Lock(p) ==
    /\ At(p, "lock")
    /\ ~lockFile
    /\ lockFile' = TRUE
    /\ Goto(p, "old")
    /\ UNCHANGED <<mtab, tmp, old, pos, closed, cut>>

LockFails(p) ==
    /\ At(p, "lock")
    /\ lockFile \/ "lock" \in Faults
    /\ Goto(p, "failed")
    /\ UNCHANGED <<lockFile, mtab, tmp, old, pos, closed, cut>>

\* setmntent("/etc/mtab", "r"); on failure update_mtab() returns at once.
OpenOld(p) ==
    /\ At(p, "old")
    /\ old' = [old EXCEPT ![p] = mtab]
    /\ Goto(p, "tmp")
    /\ UNCHANGED <<lockFile, mtab, tmp, pos, closed, cut>>

OpenOldFails(p) == Fails(p, "old", "old", "failed")

\* setmntent("/etc/mtab.tmp", "w") creates or truncates the file.
OpenTmp(p) ==
    /\ At(p, "tmp")
    /\ tmp' = <<>>
    /\ Goto(p, "copy")
    /\ UNCHANGED <<lockFile, mtab, old, pos, closed, cut>>

\* Mutant of OpenTmpFails: the lock file is forgotten.
OpenTmpFailsAtOnce(p) == Fails(p, "tmp", "tmp", "failed")

OpenTmpFails(p) == Fails(p, "tmp", "tmp", "failEarly")

\* One turn of the loop: getmntent() and addmntent().
Copy(p) ==
    /\ At(p, "copy")
    /\ pos[p] < Len(old[p])
    /\ tmp' = Append(tmp, old[p][pos[p] + 1])
    /\ pos' = [pos EXCEPT ![p] = @ + 1]
    /\ UNCHANGED <<pc, lockFile, mtab, old, closed, cut>>

\* Mutant of CopyFails: an error ends the loop like the end of the file.
CopyFailsQuietly(p) ==
    pos[p] < Len(old[p]) /\ Fails(p, "copy", "copy", "add")

CopyFails(p) ==
    pos[p] < Len(old[p]) /\ Fails(p, "copy", "copy", "fail")

\* getmntent() returns NULL at the end of the file: endmntent(old_mtab).
CopyDone(p) ==
    /\ At(p, "copy")
    /\ pos[p] = Len(old[p])
    /\ closed' = [closed EXCEPT ![p] = TRUE]
    /\ Goto(p, "add")
    /\ UNCHANGED <<lockFile, mtab, tmp, old, pos, cut>>

\* It returns NULL for a read error too, and the loop cannot tell the two apart.
ReadFails(p) ==
    /\ At(p, "copy")
    /\ pos[p] < Len(old[p])
    /\ "read" \in Faults
    /\ closed' = [closed EXCEPT ![p] = TRUE]
    /\ cut' = cut \cup {p}
    /\ Goto(p, "add")
    /\ UNCHANGED <<lockFile, mtab, tmp, old, pos>>

\* addmntent() of the new entry, fchmod(), endmntent(new_mtab).
AddNew(p) ==
    /\ At(p, "add")
    /\ tmp' = Append(tmp, p)
    /\ Goto(p, "rename")
    /\ UNCHANGED <<lockFile, mtab, old, pos, closed, cut>>

AddNewFails(p) == Fails(p, "add", "add", "fail")

\* Mutant of Rename: the error of rename() is not looked at.
RenameUnchecked(p) ==
    /\ At(p, "rename")
    /\ \/ mtab' = tmp /\ tmp' = <<>>
       \/ "rename" \in Faults /\ UNCHANGED <<mtab, tmp>>
    /\ Goto(p, "unlock")
    /\ UNCHANGED <<lockFile, old, pos, closed, cut>>

\* rename("/etc/mtab.tmp", "/etc/mtab").
Rename(p) ==
    /\ At(p, "rename")
    /\ mtab' = tmp
    /\ tmp' = <<>>
    /\ Goto(p, "unlock")
    /\ UNCHANGED <<lockFile, old, pos, closed, cut>>

RenameFails(p) == Fails(p, "rename", "rename", "fail")

\* unlink("/etc/mtab~") and return 0.
Unlock(p) ==
    /\ At(p, "unlock")
    /\ lockFile' = FALSE
    /\ Goto(p, "ok")
    /\ UNCHANGED <<mtab, tmp, old, pos, closed, cut>>

\* The labels fail and fail_late: unlink("/etc/mtab.tmp").
FailLate(p) ==
    /\ At(p, "fail")
    /\ tmp' = <<>>
    /\ Goto(p, "failEarly")
    /\ UNCHANGED <<lockFile, mtab, old, pos, closed, cut>>

\* The label fail_early: endmntent(old_mtab), unlink("/etc/mtab~"), return 1.
FailEarly(p) ==
    /\ At(p, "failEarly")
    /\ lockFile' = FALSE
    /\ Goto(p, "failed")
    /\ UNCHANGED <<mtab, tmp, old, pos, closed, cut>>

\* If old_mtab has been closed before, closing it again is undefined: it may
\* go unnoticed (FailEarly) or abort the program.
AbortOnDoubleClose(p) ==
    /\ At(p, "failEarly")
    /\ closed[p]
    /\ Leave(p)
    /\ UNCHANGED <<lockFile, mtab, tmp>>

Return(p) ==
    /\ pc[p] \in {"ok", "failed"}
    /\ Leave(p)
    /\ UNCHANGED <<lockFile, mtab, tmp>>

\* A signal ends the helper; its files stay.
Kill(p) ==
    /\ "kill" \in Faults
    /\ ~At(p, "idle")
    /\ Leave(p)
    /\ UNCHANGED <<lockFile, mtab, tmp>>

\* As in SequencesExt, most of which the proofs have no use for.
RemoveAt(s, i) == SubSeq(s, 1, i - 1) \o SubSeq(s, i + 1, Len(s))

\* umount(8) removes the entry of a helper that has returned; it honours the
\* lock file.
RemoveEntry(p) ==
    /\ ~lockFile
    /\ At(p, "idle")
    /\ \E i \in 1 .. Len(mtab) : mtab[i] = p /\ mtab' = RemoveAt(mtab, i)
    /\ UNCHANGED <<pc, lockFile, tmp, old, pos, closed, cut>>

\* What update_mtab() does by itself once it has been called.
Step(p) ==
    \/ Lock(p) \/ LockFails(p) \/ OpenOld(p) \/ OpenOldFails(p)
    \/ OpenTmp(p) \/ OpenTmpFails(p) \/ Copy(p) \/ CopyFails(p) \/ CopyDone(p)
    \/ ReadFails(p)
    \/ AddNew(p) \/ AddNewFails(p) \/ Rename(p) \/ RenameFails(p)
    \/ Unlock(p) \/ FailLate(p) \/ FailEarly(p) \/ AbortOnDoubleClose(p)
    \/ Return(p)

Next == \E p \in Proc : Begin(p) \/ Step(p) \/ Kill(p) \/ RemoveEntry(p)

Spec == Init /\ [][Next]_vars
-----------------------------------------------------------------------------

\* Two helpers are never between the creation and the removal of the lock
\* file at once, whatever fails and whoever is killed.
MutualExclusion ==
    \A p, q \in Proc :
        (pc[p] \in Critical /\ pc[q] \in Critical) => p = q

\* A helper's step on /etc/mtab keeps what it has read of the table, in its order,
\* and adds its entry at the end.  That is the whole table unless its own reading
\* ended by an error: no entry of another user is lost by a copy that failed, or by
\* a table that was read before another helper replaced it.
OnlyAppends ==
    [][\A p \in Proc :
          (pc[p] # "idle" /\ pc'[p] # pc[p] /\ mtab' # mtab)
              => /\ mtab' = Append(SubSeq(mtab, 1, pos[p]), p)
                 /\ p \notin cut => mtab' = Append(mtab, p)]_vars

\* If /etc/mtab is a file, the entry of a helper is in it at the moment its
\* update_mtab() returns 0.
SuccessRecorded ==
    [][\A p \in Proc :
          (UseMtab /\ pc[p] # "ok" /\ pc'[p] = "ok") => p \in Range(mtab')]_vars

\* The lock file belongs to a helper that is going to remove it.
LockHasOwner == lockFile => \E p \in Proc : pc[p] \in Critical

\* update_mtab() never returns with the lock file in place, on whichever of its
\* error paths, once it has opened the old table.
LockRemoved ==
    [][\A p \in Proc :
          (pc[p] \in Critical \ {"old"} /\ pc'[p] \in {"ok", "failed"}) => ~lockFile']_vars
=============================================================================
