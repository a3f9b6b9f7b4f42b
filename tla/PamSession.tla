----------------------------- MODULE PamSession -----------------------------
(***************************************************************************)
(* The login sessions of one user, as pam_ecryptfs                         *)
(* (src/pam_ecryptfs/pam_ecryptfs.c) drives them, composed with the mount  *)
(* helper of PrivateMount: authentication loads the keys, the opening of a *)
(* session runs mount.ecryptfs_private, its closing runs                   *)
(* umount.ecryptfs_private.  A session runs one helper at a time and waits *)
(* for it, so the helper run of session p is process p of PrivateMount.    *)
(***************************************************************************)
EXTENDS PrivateMount

CONSTANTS
    Default,        \* the alias of a helper run without arguments
    AutoMount,      \* ~/.ecryptfs/auto-mount exists
    AutoUmount,     \* ~/.ecryptfs/auto-umount exists
    PamFaults       \* the calls of pam_ecryptfs that may fail

PamFaultNames == {"unwrap", "addkey", "forkMount", "forkUmount"}

ASSUME PamAssumption ==
    /\ IsFiniteSet(Proc)
    /\ Default \in Configured \ ForceAliases
    /\ Fnek[Default] # NoKey
    /\ AutoMount \in BOOLEAN /\ AutoUmount \in BOOLEAN
    /\ PamFaults \subseteq PamFaultNames

VARIABLES
    sess,       \* sess[p]: "out", "fnek", "fekek", "authed", "opening", "open", "bare"
                \* or "closing"; "open" and "bare" are both open sessions, because
                \* pam_ecryptfs ignores the status of the mount helper, which
                \* succeeded for the one and not for the other
    lost        \* history: an unmount run did not happen, or did not get to its end

pamVars == <<vars, sess, lost>>

PamInit == Init /\ sess = [p \in Proc |-> "out"] /\ lost = FALSE
-----------------------------------------------------------------------------

Become(p, s) == sess' = [sess EXCEPT ![p] = s]

\* ecryptfs_private_is_mounted(NULL, private_mnt, NULL, 1).
DestInUse == \E b \in Alias : mounts[b] > 0 /\ Dest[b] = Dest[Default]

\* pam_sm_authenticate(), up to the fork: without auto-mount no keys are
\* loaded; nor are they when the directory is mounted at this moment ("we can
\* skip costly loading of keys").
Authenticate(p) ==
    /\ sess[p] = "out"
    /\ Become(p, IF AutoMount /\ ~DestInUse THEN "fnek" ELSE "authed")
    /\ UNCHANGED <<vars, lost>>

\* One key is added, or found in the keyring.
AddKey(k) ==
    /\ keyring' = keyring \cup {k}
    /\ UNCHANGED <<local, holder, count, mounts>>

\* The child: ecryptfs_insert_wrapped_passphrase_into_keyring() unwraps the
\* passphrase and adds the file name key first.
InsertFnek(p) ==
    /\ sess[p] = "fnek"
    /\ \/ AddKey(Fnek[Default]) /\ Become(p, "fekek")
       \/ /\ {"unwrap", "addkey"} \cap PamFaults # {}
          /\ Become(p, "authed") /\ UNCHANGED vars
    /\ UNCHANGED lost

\* Then the file contents key.  If that fails, the first key stays.  The
\* parent has waited for the child, and ignores how it ended.
InsertFekek(p) ==
    /\ sess[p] = "fekek"
    /\ \/ AddKey(Fekek[Default])
       \/ "addkey" \in PamFaults /\ UNCHANGED vars
    /\ Become(p, "authed") /\ UNCHANGED lost

\* pam_sm_open_session(): cron and the like open a session of a user who has
\* not authenticated.  Without auto-mount, or when the fork fails, the session
\* opens without a helper run.
OpenSession(p) ==
    /\ sess[p] \in {"out", "authed"}
    /\ \/ AutoMount /\ Start(p, "mount", Default) /\ Become(p, "opening")
       \/ /\ ~AutoMount \/ "forkMount" \in PamFaults
          /\ Become(p, "bare") /\ UNCHANGED vars
    /\ UNCHANGED lost

\* Mutant of CloseSession: a session that could not mount does not unmount.
CloseSessionIfMounted(p) ==
    /\ sess[p] \in {"open", "bare"}
    /\ IF sess[p] = "open"
         THEN Start(p, "umount", Default) /\ Become(p, "closing")
         ELSE Become(p, "out") /\ UNCHANGED vars
    /\ UNCHANGED lost

\* pam_sm_close_session(): the umount helper runs for every session, except
\* without auto-umount or when the fork fails.
CloseSession(p) ==
    /\ sess[p] \in {"open", "bare"}
    /\ \/ AutoUmount /\ Start(p, "umount", Default) /\ Become(p, "closing") /\ UNCHANGED lost
       \/ /\ ~AutoUmount \/ "forkUmount" \in PamFaults
          /\ Become(p, "out") /\ lost' = TRUE /\ UNCHANGED vars

\* What becomes of the session when its helper run returns from position l:
\* waitpid() returns.
AfterHelper(p, l) ==
    CASE sess[p] = "opening" /\ l = "exit0" -> "open"
      [] sess[p] = "opening" /\ l # "exit0" -> "bare"
      [] OTHER -> "out"

\* An unmount run that ends before it has counted itself out, or with the
\* directory mounted although it was to unmount it.
EndsEarly(p) ==
    LET before == {"lock", "fekek", "fnek", "own"}
    IN  /\ sess[p] = "closing"
        /\ \/ pc[p] \in before /\ pc'[p] \notin before \cup {"dec"}
           \/ pc[p] \in {"chkU", "umount"} /\ pc'[p] # "umount" /\ mounts'[Default] > 0

\* A step of the helper run of session p, or its end by a signal.  A mount run
\* that is killed loses nothing: the session opens and unmounts like any other.
HelperStep(p) ==
    /\ \/ Step(p) /\ lost' = (lost \/ EndsEarly(p))
       \/ Kill(p) /\ lost' = (lost \/ sess[p] = "closing")
    /\ IF pc'[p] = "idle" THEN Become(p, AfterHelper(p, pc[p]))
                          ELSE UNCHANGED sess

PamNext ==
    \E p \in Proc :
        \/ Authenticate(p) \/ InsertFnek(p) \/ InsertFekek(p)
        \/ OpenSession(p) \/ CloseSession(p) \/ HelperStep(p)

PamSpec == PamInit /\ [][PamNext]_pamVars

\* Every step of a helper takes it to another position.  It waits only for the lock.
Running(p) ==
    /\ pc[p] # "idle" /\ (pc[p] = "lock" => holder[alias[p]] = Nobody)
    /\ \E l \in (Locked \cup {"idle"}) \ {pc[p]} : pc' = [pc EXCEPT ![p] = l]

\* A started helper keeps running; nothing makes a session open or close.
PamLiveSpec == PamSpec /\ \A p \in Proc : WF_pc(Running(p))
-----------------------------------------------------------------------------

\* The sessions that have counted themselves in and not yet out.
Counted ==
    {p \in Proc :
        \/ sess[p] = "opening" /\ pc[p] \in {"chkM", "mount", "mtab", "exit0",
                                             "exit1"}
        \/ sess[p] \in {"open", "bare"}
        \/ sess[p] = "closing" /\ pc[p] \in {"lock", "fekek", "fnek", "own",
                                             "dec"}}

\* Until an unmount run is lost, the counter never exceeds the number of sessions
\* that are going to take it down again, whichever mounts, mtab updates and key
\* operations fail.  So the directory does not stay mounted for sessions that do
\* not exist: when the last one has closed, it is unmounted, however the
\* sessions overlapped.
CountBoundsSessions ==
    ~lost => /\ count[Default] <= Cardinality(Counted)
             /\ (\A p \in Proc : sess[p] = "out") => mounts[Default] = 0

\* The unmount run of the last session that is counted in leads to the directory
\* being unmounted, unless the run is killed or umount fails.
LastCloseDetaches ==
    \A p \in Proc :
        (sess[p] = "closing" /\ pc[p] = "dec" /\ count[Default] <= 1)
            ~> (mounts[Default] = 0 \/ lost)

\* A session whose mount helper succeeded has its directory as long as it is
\* open.  debian/changelog:1045 says of the counter lock that it "solves a
\* longstanding bug about "random" umount caused by cronjobs".
SessionKeepsDirectory ==
    \A p \in Proc : sess[p] = "open" => mounts[Default] > 0
=============================================================================
