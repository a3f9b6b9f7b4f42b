---------------------------- MODULE PrivateMount ----------------------------
(***************************************************************************)
(* The setuid helper installed as mount.ecryptfs_private and               *)
(* umount.ecryptfs_private (src/utils/mount.ecryptfs_private.c): any       *)
(* number of concurrent runs of it by one user.                            *)
(*                                                                         *)
(* A run names an alias, the configuration it works on.  Every alias has   *)
(* its own counter file under /dev/shm, which is also the lock file: a run *)
(* flock()s it, and keeps the lock until it exits or, when it has become   *)
(* /bin/umount by execl(), until that program exits (the descriptor is not *)
(* close-on-exec).  The keyring, the mount table and, if two               *)
(* configurations name the same directory, the directories are shared by   *)
(* runs that hold different locks.                                         *)
(***************************************************************************)
EXTENDS Integers, FiniteSets

CONSTANTS
    Proc,           \* process slots: each runs the helper any number of times
    Alias,          \* the aliases a run can be given
    Configured,     \* those whose ALIAS.conf exists and is well formed, and
                    \* the default alias, which needs no .conf file
    ForceAliases,   \* those whose name starts with "-f"
    Src, Dest,      \* [Alias -> directory]: encrypted directory, mount point
    Fekek, Fnek,    \* [Alias -> key]: the one or two lines of ALIAS.sig
    NoKey,          \* Fnek[a] when ALIAS.sig has only one line
    Nobody,         \* holder of a free lock
    Faults,         \* the calls that may fail in the instance
    MaxSessions     \* bound: no mount run starts on a counter this high

\* The calls a run makes whose failure the code handles, and "kill" for a
\* run that is ended by a signal.
FaultNames == {"lock", "check", "sigfile", "ownership", "proc", "mount",
               "mtab", "keyctl", "exec", "umount", "kill"}

ASSUME ConstantsAssumption ==
    /\ Nobody \notin Proc
    /\ Alias # {}
    /\ Configured \subseteq Alias
    /\ ForceAliases \subseteq Alias
    /\ DOMAIN Src = Alias /\ DOMAIN Dest = Alias
    /\ DOMAIN Fekek = Alias /\ DOMAIN Fnek = Alias
    /\ \A a \in Alias : Fekek[a] # NoKey
    /\ Faults \subseteq FaultNames
    /\ MaxSessions \in Nat \ {0}

VARIABLES
    pc,             \* where each process is in main()
    op,             \* "mount" or "umount", by the name it was invoked with
    alias,          \* the alias of its run
    sigs,           \* did fetch_sig() return the signatures (else NULL)?
    holder,         \* [Alias -> Proc or Nobody]: the flock on the counter file
    count,          \* [Alias -> Nat]: what fscanf() reads from that file
    keyring,        \* keys linked to the user keyring
    mounts          \* [Alias -> Nat]: mounts made of Src[a] on Dest[a]

local == <<pc, op, alias, sigs>>
vars == <<pc, op, alias, sigs, holder, count, keyring, mounts>>

Keys == {Fekek[a] : a \in Alias} \cup ({Fnek[a] : a \in Alias} \ {NoKey})

\* The signatures of an alias: fetch_sig() reads up to two.
SigsOf(a) == {Fekek[a], Fnek[a]} \ {NoKey}

\* The code positions at which the run holds the lock of its alias.
Locked == {"fekek", "fnek", "own", "inc", "chkM", "mount", "mtab",
           "dec", "rmFekek", "rmFnek", "chkU", "umount", "exit0", "exit1"}

TypeOK ==
    /\ pc \in [Proc -> Locked \cup {"idle", "lock", "reject"}]
    /\ op \in [Proc -> {"mount", "umount"}]
    /\ alias \in [Proc -> Alias]
    /\ sigs \in [Proc -> BOOLEAN]
    /\ holder \in [Alias -> Proc \cup {Nobody}]
    /\ count \in [Alias -> Nat]
    /\ keyring \subseteq Keys
    /\ mounts \in [Alias -> Nat]

Init ==
    /\ pc = [p \in Proc |-> "idle"]
    /\ op = [p \in Proc |-> "mount"]
    /\ alias = [p \in Proc |-> CHOOSE a \in Alias : TRUE]
    /\ sigs = [p \in Proc |-> FALSE]
    /\ holder = [a \in Alias |-> Nobody]
    /\ count = [a \in Alias |-> 0]
    /\ keyring = {}
    /\ mounts = [a \in Alias |-> 0]
-----------------------------------------------------------------------------

\* The largest int; the model stops one increment short of it, see Increment.
MAXINT == 2147483647

\* Mutant of Bump: the counter may become negative.
BumpBelowZero(c, delta) == c + delta

\* bump_counter(): the count is never set below zero.
Bump(c, delta) == IF c + delta < 0 THEN 0 ELSE c + delta

\* A private directory is in use if an ecryptfs mount has its source or its
\* mount point: ecryptfs_private_is_mounted() with mounting = 1.
InUse(a) ==
    \E b \in Alias : mounts[b] > 0 /\ (Src[b] = Src[a] \/ Dest[b] = Dest[a])

\* It is mounted if source, mount point and, if p read any, signature agree:
\* ecryptfs_private_is_mounted() with mounting = 0.
IsMounted(p, a) ==
    \E b \in Alias :
        /\ mounts[b] > 0
        /\ Src[b] = Src[a] /\ Dest[b] = Dest[a]
        /\ sigs[p] => Fekek[b] = Fekek[a]

At(p, l) == pc[p] = l
Goto(p, l) == pc' = [pc EXCEPT ![p] = l]

\* The kernel drops the flock when the last descriptor of the file is closed.
Unlock(p) ==
    holder' = [a \in Alias |-> IF holder[a] = p THEN Nobody ELSE holder[a]]

\* The user, a PAM session or a script runs the helper.  An alias without a
\* well-formed ALIAS.conf ends the run before it touches anything.
Start(p, o, a) ==
    /\ At(p, "idle")
    /\ o = "mount" => count[a] < MaxSessions
    /\ op' = [op EXCEPT ![p] = o]
    /\ alias' = [alias EXCEPT ![p] = a]
    /\ sigs' = [sigs EXCEPT ![p] = FALSE]
    /\ Goto(p, IF a \in Configured THEN "lock" ELSE "reject")
    /\ UNCHANGED <<holder, count, keyring, mounts>>

\* exit() before the counter is locked.
Reject(p) ==
    /\ At(p, "reject")
    /\ Goto(p, "idle")
    /\ UNCHANGED <<op, alias, sigs, holder, count, keyring, mounts>>

\* lock_counter(): open or create the counter file, then flock(LOCK_EX),
\* which blocks until the lock is free.
LockCounter(p) ==
    /\ At(p, "lock")
    /\ holder[alias[p]] = Nobody
    /\ holder' = [holder EXCEPT ![alias[p]] = p]
    /\ Goto(p, "fekek")
    /\ UNCHANGED <<op, alias, sigs, count, keyring, mounts>>

LockCounterFails(p) ==
    /\ "lock" \in Faults
    /\ At(p, "lock")
    /\ Goto(p, "reject")
    /\ UNCHANGED <<op, alias, sigs, holder, count, keyring, mounts>>

\* The bad user name, and the allocation failures, that end a run which holds
\* the lock.
CheckFails(p) ==
    /\ "check" \in Faults
    /\ At(p, "fekek")
    /\ Goto(p, "exit1")
    /\ UNCHANGED <<op, alias, sigs, holder, count, keyring, mounts>>

\* fetch_sig() returned NULL: a mount run fails, "if umounting, no sig is ok".
NoSigs(p) ==
    /\ Goto(p, IF op[p] = "mount" THEN "exit1" ELSE "own")
    /\ UNCHANGED sigs

\* fetch_sig() returned what it read.
HaveSigs(p) ==
    /\ sigs' = [sigs EXCEPT ![p] = TRUE]
    /\ Goto(p, "own")

\* fetch_sig(), first line: the signature must name a key in the keyring.
FetchFekek(p) ==
    /\ At(p, "fekek")
    /\ \/ /\ Fekek[alias[p]] \in keyring
          /\ IF Fnek[alias[p]] = NoKey
               THEN HaveSigs(p)
               ELSE Goto(p, "fnek") /\ UNCHANGED sigs
       \/ /\ Fekek[alias[p]] \notin keyring \/ "sigfile" \in Faults
          /\ NoSigs(p)
    /\ UNCHANGED <<op, alias, holder, count, keyring, mounts>>

\* fetch_sig(), second line: a second search of the keyring.
FetchFnek(p) ==
    /\ At(p, "fnek")
    /\ \/ Fnek[alias[p]] \in keyring /\ HaveSigs(p)
       \/ Fnek[alias[p]] \notin keyring /\ NoSigs(p)
    /\ UNCHANGED <<op, alias, holder, count, keyring, mounts>>

\* check_ownership_mnt(): enter the mount point; it must be the user's.
CheckOwnership(p) ==
    /\ At(p, "own")
    /\ \/ Goto(p, IF op[p] = "mount" THEN "inc" ELSE "dec")
       \/ "ownership" \in Faults /\ Goto(p, "exit1")
    /\ UNCHANGED <<op, alias, sigs, holder, count, keyring, mounts>>
-----------------------------------------------------------------------------

(***************************************************************************)
(* Mounting                                                                *)
(***************************************************************************)

\* Mutant of Increment: the lock is held for the counter only.
IncrementAndUnlock(p) ==
    /\ At(p, "inc")
    /\ count[alias[p]] + 1 < MAXINT
    /\ count' = [count EXCEPT ![alias[p]] = Bump(@, 1)]
    /\ Unlock(p)
    /\ Goto(p, "chkM")
    /\ UNCHANGED <<op, alias, sigs, keyring, mounts>>

\* increment(): the counter goes up before the mount table is looked at, and
\* nothing takes it down again when the run fails.  An int that overflows is
\* undefined behaviour; the model has no run that counts past MAXINT - 1.
Increment(p) ==
    /\ At(p, "inc")
    /\ count[alias[p]] + 1 < MAXINT
    /\ count' = [count EXCEPT ![alias[p]] = Bump(@, 1)]
    /\ Goto(p, "chkM")
    /\ UNCHANGED <<op, alias, sigs, holder, keyring, mounts>>

\* "Mounting, so exit if already mounted": that is a success.  The test
\* answers "not mounted" when /proc/mounts cannot be read.
CheckMounting(p) ==
    /\ At(p, "chkM")
    /\ \/ InUse(alias[p]) /\ Goto(p, "exit0")
       \/ (~InUse(alias[p]) \/ "proc" \in Faults) /\ Goto(p, "mount")
    /\ UNCHANGED <<op, alias, sigs, holder, count, keyring, mounts>>

\* mount(2); the kernel looks the signatures up in the keyring once more.
Mount(p) ==
    /\ At(p, "mount")
    /\ SigsOf(alias[p]) \subseteq keyring
    /\ mounts' = [mounts EXCEPT ![alias[p]] = @ + 1]
    /\ Goto(p, "mtab")
    /\ UNCHANGED <<op, alias, sigs, holder, count, keyring>>

\* Mutant of MountFails: the error of mount(2) is only reported.
MountFailsQuietly(p) ==
    /\ At(p, "mount")
    /\ ~ (SigsOf(alias[p]) \subseteq keyring) \/ "mount" \in Faults
    /\ Goto(p, "exit0")
    /\ UNCHANGED <<op, alias, sigs, holder, count, keyring, mounts>>

MountFails(p) ==
    /\ At(p, "mount")
    /\ ~ (SigsOf(alias[p]) \subseteq keyring) \/ "mount" \in Faults
    /\ Goto(p, "exit1")
    /\ UNCHANGED <<op, alias, sigs, holder, count, keyring, mounts>>

\* update_mtab(): modelled step by step in MtabUpdate.  Its failure makes the
\* run fail although the directory is mounted.
UpdateMtab(p) ==
    /\ At(p, "mtab")
    /\ \/ Goto(p, "exit0")
       \/ "mtab" \in Faults /\ Goto(p, "exit1")
    /\ UNCHANGED <<op, alias, sigs, holder, count, keyring, mounts>>
-----------------------------------------------------------------------------

(***************************************************************************)
(* Unmounting                                                              *)
(***************************************************************************)

Forced(p) == alias[p] \in ForceAliases

\* Mutants of Decrement: a counter of one is taken for the last session, a
\* counter of zero for an open one, a forced run leaves the counter alone.
DecrementOffByOne(p) ==
    LET a == alias[p]
        c == Bump(count[a], IF Forced(p) THEN -MAXINT + 1 ELSE -1)
    IN  /\ At(p, "dec")
        /\ count' = [count EXCEPT ![a] = c]
        /\ Goto(p, IF ~Forced(p) /\ c > 1 THEN "exit1" ELSE "rmFekek")
        /\ UNCHANGED <<op, alias, sigs, holder, keyring, mounts>>

DecrementZeroIsOpen(p) ==
    LET a == alias[p]
        c == Bump(count[a], IF Forced(p) THEN -MAXINT + 1 ELSE -1)
    IN  /\ At(p, "dec")
        /\ count' = [count EXCEPT ![a] = c]
        /\ Goto(p, IF ~Forced(p) /\ c >= 0 THEN "exit1" ELSE "rmFekek")
        /\ UNCHANGED <<op, alias, sigs, holder, keyring, mounts>>

DecrementForcedKeeps(p) ==
    LET a == alias[p]
        c == Bump(count[a], IF Forced(p) THEN 0 ELSE -1)
    IN  /\ At(p, "dec")
        /\ count' = [count EXCEPT ![a] = c]
        /\ Goto(p, IF ~Forced(p) /\ c > 0 THEN "exit1" ELSE "rmFekek")
        /\ UNCHANGED <<op, alias, sigs, holder, keyring, mounts>>

\* zero() when forced, else decrement(): "Sessions still open, not unmounting"
\* if the counter is still positive.
Decrement(p) ==
    LET a == alias[p]
        c == Bump(count[a], IF Forced(p) THEN -MAXINT + 1 ELSE -1)
    IN  /\ At(p, "dec")
        /\ count' = [count EXCEPT ![a] = c]
        /\ Goto(p, IF ~Forced(p) /\ c > 0 THEN "exit1" ELSE "rmFekek")
        /\ UNCHANGED <<op, alias, sigs, holder, keyring, mounts>>

\* ecryptfs_remove_auth_tok_from_keyring(), on a best-effort basis, for the
\* signatures the run has read.
RemoveKey(p, k) ==
    \/ keyring' = IF sigs[p] THEN keyring \ {k} ELSE keyring
    \/ "keyctl" \in Faults /\ UNCHANGED keyring

RemoveFekek(p) ==
    /\ At(p, "rmFekek")
    /\ RemoveKey(p, Fekek[alias[p]])
    /\ Goto(p, "rmFnek")
    /\ UNCHANGED <<op, alias, sigs, holder, count, mounts>>

RemoveFnek(p) ==
    /\ At(p, "rmFnek")
    /\ RemoveKey(p, Fnek[alias[p]])
    /\ Goto(p, "chkU")
    /\ UNCHANGED <<op, alias, sigs, holder, count, mounts>>

\* Mutant of CheckUnmounting: the descriptor is closed on exec.
CheckUnmountingCloexec(p) ==
    /\ At(p, "chkU")
    /\ \/ IsMounted(p, alias[p]) /\ Goto(p, "umount") /\ Unlock(p)
       \/ /\ ~IsMounted(p, alias[p]) \/ {"proc", "exec"} \cap Faults # {}
          /\ Goto(p, "exit1") /\ UNCHANGED holder
    /\ UNCHANGED <<op, alias, sigs, count, keyring, mounts>>

\* "Unmounting, so exit if not mounted"; otherwise become /bin/umount.
CheckUnmounting(p) ==
    /\ At(p, "chkU")
    /\ \/ IsMounted(p, alias[p]) /\ Goto(p, "umount")
       \/ /\ ~IsMounted(p, alias[p]) \/ {"proc", "exec"} \cap Faults # {}
          /\ Goto(p, "exit1")
    /\ UNCHANGED <<op, alias, sigs, holder, count, keyring, mounts>>

\* umount -i -l "." detaches a mount of the directory the run has entered.
\* It still has the counter file open, and so the lock.
Umount(p) ==
    /\ At(p, "umount")
    /\ \E b \in Alias :
          /\ Dest[b] = Dest[alias[p]]
          /\ mounts[b] > 0
          /\ mounts' = [mounts EXCEPT ![b] = @ - 1]
    /\ Goto(p, "exit0")
    /\ UNCHANGED <<op, alias, sigs, holder, count, keyring>>

\* It fails if the directory is no longer a mount point, or for its own reasons.
UmountFails(p) ==
    /\ At(p, "umount")
    /\ \/ \A b \in Alias : Dest[b] = Dest[alias[p]] => mounts[b] = 0
       \/ "umount" \in Faults
    /\ Goto(p, "exit1")
    /\ UNCHANGED <<op, alias, sigs, holder, count, keyring, mounts>>
-----------------------------------------------------------------------------

\* Mutant of Exit: something keeps the descriptor of the counter file open.
ExitKeepsLock(p) ==
    /\ pc[p] \in {"exit0", "exit1"}
    /\ Goto(p, "idle")
    /\ UNCHANGED <<op, alias, sigs, holder, count, keyring, mounts>>

\* The labels success and fail: unlock_counter() and return.
Exit(p) ==
    /\ pc[p] \in {"exit0", "exit1"}
    /\ Unlock(p)
    /\ Goto(p, "idle")
    /\ UNCHANGED <<op, alias, sigs, count, keyring, mounts>>

\* A signal ends the run, wherever it is; the kernel closes its descriptors.
Kill(p) ==
    /\ "kill" \in Faults
    /\ ~At(p, "idle")
    /\ Unlock(p)
    /\ Goto(p, "idle")
    /\ UNCHANGED <<op, alias, sigs, count, keyring, mounts>>

\* Other programs add and remove the user's keys at any time: PAM, the
\* passphrase utilities, ecryptfs-umount-private, keyctl.
LinkKey(k) ==
    /\ k \notin keyring
    /\ keyring' = keyring \cup {k}
    /\ UNCHANGED <<local, holder, count, mounts>>

UnlinkKey(k) ==
    /\ k \in keyring
    /\ keyring' = keyring \ {k}
    /\ UNCHANGED <<local, holder, count, mounts>>

\* What main() does by itself once it has been started.
Step(p) ==
    \/ Reject(p) \/ LockCounter(p) \/ LockCounterFails(p) \/ CheckFails(p)
    \/ FetchFekek(p) \/ FetchFnek(p) \/ CheckOwnership(p)
    \/ Increment(p) \/ CheckMounting(p) \/ Mount(p) \/ MountFails(p)
    \/ UpdateMtab(p)
    \/ Decrement(p) \/ RemoveFekek(p) \/ RemoveFnek(p) \/ CheckUnmounting(p)
    \/ Umount(p) \/ UmountFails(p)
    \/ Exit(p)

Next ==
    \/ \E p \in Proc, o \in {"mount", "umount"}, a \in Alias : Start(p, o, a)
    \/ \E p \in Proc : Step(p) \/ Kill(p)
    \/ \E k \in Keys : LinkKey(k) \/ UnlinkKey(k)

Spec == Init /\ [][Next]_vars

\* A started run keeps running.  Nothing is assumed of the order in which
\* flock() serves its waiters.
Fairness == \A p \in Proc : WF_vars(Step(p))

LiveSpec == Spec /\ Fairness
-----------------------------------------------------------------------------

(***************************************************************************)
(* Properties                                                              *)
(***************************************************************************)

\* No two configurations name the same encrypted directory or mount point.
\* Every alias has a lock of its own, so this is what makes the lock protect
\* the directory.
DisjointDirs ==
    \A a, b \in Alias : a # b => Src[a] # Src[b] /\ Dest[a] # Dest[b]

\* The lock of an alias belongs to exactly the run that is inside main()'s
\* locked part, the exec'd umount included: it is not lost on any of the
\* paths through the unmount, and not leaked by an early exit or a kill.
LockMatchesRun ==
    \A p \in Proc, a \in Alias :
        holder[a] = p <=> (pc[p] \in Locked /\ alias[p] = a)

\* What a run has learnt of the counter stays true while it acts on it: the
\* count is positive from a mount run's increment() until it ends, and zero
\* from the moment an unmount run has decided to unmount until it ends.
CountMatchesRun ==
    /\ \A a \in Alias : count[a] < MAXINT
    /\ \A p \in Proc :
          /\ pc[p] \in {"inc", "chkM", "mount", "mtab"} => op[p] = "mount"
          /\ pc[p] \in {"dec", "rmFekek", "rmFnek", "chkU", "umount"}
                => op[p] = "umount"
          /\ pc[p] \in {"chkM", "mount", "mtab"} => count[alias[p]] > 0
          /\ (pc[p] = "exit0" /\ op[p] = "mount") => count[alias[p]] > 0
          /\ pc[p] \in {"rmFekek", "rmFnek", "chkU", "umount"}
                => count[alias[p]] = 0

\* What a run has read in the mount table stays true while it acts on it.
MountMatchesRun ==
    /\ \A a \in Alias : mounts[a] <= 1
    /\ \A p \in Proc :
          /\ pc[p] = "mount" => mounts[alias[p]] = 0
          /\ pc[p] \in {"mtab", "umount"} => mounts[alias[p]] = 1
          /\ (pc[p] = "exit0" /\ op[p] = "mount") => mounts[alias[p]] = 1

\* However mount runs interleave, a mount point carries at most one ecryptfs
\* mount: the test for "already mounted" is not stale when mount() is called.
NoStackedMount ==
    \A a, b \in Alias :
        (mounts[a] > 0 /\ mounts[b] > 0 /\ Dest[a] = Dest[b])
            => (a = b /\ mounts[a] = 1)

\* The counter and the mount table together behave as a reference-counted
\* mount: attached only while the counter is positive, detached only while it
\* is zero, so that no unmount run takes the directory away from a session
\* that counted itself in after the unmount run had read the counter.
RefCount == INSTANCE RefCountedMount
ImplementsRefCount == RefCount!Spec

\* A mount run that is about to return success leaves the user with the
\* directory in use, whether it mounted it or found it mounted.
SuccessMeansInUse ==
    \A p \in Proc :
        (pc[p] \in {"mtab", "exit0"} /\ op[p] = "mount") => InUse(alias[p])

\* An unmount run takes keys off the keyring only while the counter of its
\* alias is zero: never while a session is counted in that may need them.
KeysRemovedAtZero ==
    [][\A p \in Proc :
          (pc[p] \in {"rmFekek", "rmFnek"} /\ pc'[p] # pc[p]
              /\ keyring' # keyring) => count[alias[p]] = 0]_vars

\* No run waits for a lock that nobody will release: on every path through
\* main(), the one through execl() included, a lock that is taken is released.
LockReleased ==
    \A a \in Alias : (holder[a] # Nobody) ~> (holder[a] = Nobody)
=============================================================================
