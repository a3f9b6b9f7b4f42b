---------------------------- MODULE MountEcryptfs ----------------------------
(***************************************************************************)
(* mount.ecryptfs and umount.ecryptfs (src/utils), several runs at once:   *)
(* the option string for the kernel, the cache of signatures the user has  *)
(* mounted with (~/.ecryptfs/sig-cache.txt, src/libecryptfs/               *)
(* key_management.c), the mount table, and the keys in the user keyring.   *)
(* The walk over the decision graph is one step here; DecisionGraph models *)
(* it, and says what stack it can leave.                                   *)
(***************************************************************************)
EXTENDS Integers, Sequences, FiniteSets, Functions

CONSTANTS
    Procs,          \* runs of the two programs, one after the other per process
    Dirs,           \* mount points
    OptLists,       \* what follows -o: sequences of options
    Stacks,         \* mnt_params as the walk leaves it: options, oldest first
    Known,          \* keys in the keyring at the start
    Faults,         \* subset of FaultNames
    MaxTries,       \* answers taken to one question (5)
    MaxMounts,      \* bound on the mount table
    MaxCells        \* bound on the cache file

FaultNames == {"graph", "input", "open", "short", "mount", "umount", "unlink"}

ASSUME MountAssumption ==
    Faults \subseteq FaultNames /\ MaxTries \in Nat \ {0} /\ MaxMounts \in Nat /\ MaxCells \in Nat

\* An option is a pair of name and value; the value is "" if there is none.
Sig(s) == <<"ecryptfs_sig", s>>
Fnek(s) == <<"ecryptfs_fnek_sig", s>>
Unlink == <<"ecryptfs_unlink_sigs", "">>
Option == (UNION {Range(s) : s \in OptLists \cup Stacks}) \cup {Unlink}
Names(o) == {o[i][1] : i \in 1..Len(o)}
FekekSigs(o) == {o[i][2] : i \in {k \in 1..Len(o) : o[k][1] = "ecryptfs_sig"}}
FnekSigs(o) == {o[i][2] : i \in {k \in 1..Len(o) : o[k][1] = "ecryptfs_fnek_sig"}}
Keys(o) == FekekSigs(o) \cup FnekSigs(o)

\* strstr(n, q) == n
Begins(n, q) == Len(q) <= Len(n) /\ SubSeq(n, 1, Len(q)) = q

\* parameters_to_scrub holds prefixes; the two that end in "=" are whole names that
\* have a value.
ScrubbedPrefixes ==
    {"passthrough", "ecryptfs_passthrough", "hmac", "ecryptfs_hmac", "xattr", "ecryptfs_xattr",
     "encrypted_view", "ecryptfs_encrypted_view", "user", "sig", "no_sig_cache", "verbose",
     "verbosity", "ecryptfs_enable_filename_crypto"}
ScrubbedWithValue == {"key", "cipher"}

parameter_should_be_scrubbed(x) ==
    /\ \/ x[1] \in ScrubbedWithValue /\ x[2] # ""
       \/ \E q \in ScrubbedPrefixes : Begins(x[1], q)
    /\ ~Begins(x[1], "xattr_user")

\* strstr(): the text of option v is at the beginning of the text of option x.  (That
\* a name begins in the middle of another option is left out.)
Inside(v, x) ==
    \/ v = x
    \/ v[1] = x[1] /\ Begins(x[2], v[2])
    \/ v[2] = "" /\ Begins(x[1], v[1])

\* No key has an empty signature; signatures are of one length, so that the option of
\* one is inside no other, and ecryptfs_unlink_sigs begins no other option.
ASSUME OptionAssumption ==
    /\ \A x \in Option : x = <<x[1], x[2]>>
    /\ \A s \in OptLists \cup Stacks : s \in Seq(Option)
    /\ "" \notin Known /\ \A s \in Stacks : "" \notin FekekSigs(s)
    /\ \A v, x \in Option : (v[1] = "ecryptfs_sig" \/ v = Unlink) /\ Inside(v, x) => v = x

VARIABLES
    pc,             \* pc[p]
    job,            \* job[p]: what the run of p works on
    keyring,        \* signatures of the keys in the user keyring
    cache,          \* sig-cache.txt: half records <<sig, 1>>, <<sig, 2>>
    mnt,            \* mounts in the order they were made, as in /etc/mtab
    confirmed,      \* history: signatures the user agreed to mount with
    torn,           \* history: a write to the cache was cut short
    used,           \* history, until spoilt: signatures that have been mounted with
    spoilt          \* history: see KeysGone

vars == <<pc, job, keyring, cache, mnt, confirmed, torn, used, spoilt>>

NoJob == [dir |-> "", opts |-> <<>>, check |-> FALSE, walk |-> <<>>, stack |-> <<>>, new |-> <<>>,
          tries |-> 0, off |-> 0, sig |-> "", fnek |-> "", stale |-> FALSE]

Init ==
    /\ pc = [p \in Procs |-> "idle"] /\ job = [p \in Procs |-> NoJob]
    /\ keyring = Known /\ cache = <<>> /\ mnt = <<>>
    /\ confirmed = {} /\ torn = FALSE /\ used = {} /\ spoilt = FALSE

Goto(p, l) == pc' = [pc EXCEPT ![p] = l]
History == <<confirmed, torn, used, spoilt>>

Spoil(b) == spoilt' = (spoilt \/ b) /\ used' = IF spoilt' THEN {} ELSE used

\* The run is over; a mount run that has inserted its key and does not mount
\* leaves the key behind.
Leave(p) == Goto(p, "idle") /\ job' = [job EXCEPT ![p] = NoJob]
GiveUp(p) == Leave(p) /\ Spoil(TRUE) /\ UNCHANGED <<keyring, cache, mnt, confirmed, torn>>
-----------------------------------------------------------------------------

\* A prefix is enough here too.
opts_str_contains_option(o, name) == \E x \in Range(o) : Begins(x[1], name)
Quiet(o) == \E x \in Range(o) : x[1] = "verbosity" /\ Begins(x[2], "0")

\* main() of mount.ecryptfs.  A remount, and the failures before the walk, end the
\* run at once and change nothing.
Start(p) ==
    /\ pc[p] = "idle" /\ Len(mnt) < MaxMounts
    /\ \E d \in Dirs, o \in OptLists :
          /\ ~opts_str_contains_option(o, "remount")
          /\ job' = [job EXCEPT ![p] = [NoJob EXCEPT !.dir = d, !.opts = o,
                 !.check = /\ ~Quiet(o)
                           /\ \A n \in {"no_sig_cache", "no_prompt", "wild_ass_guess"} :
                                 ~opts_str_contains_option(o, n)]]
    /\ Goto(p, "graph")
    /\ UNCHANGED <<keyring, cache, mnt, History>>

\* Sequences as in SequencesExt, most of which the proofs have no use for.
SetToSortedSeq(S) ==
    CHOOSE f \in [1..Cardinality(S) -> S] : \A i, k \in 1..Cardinality(S) : i < k => f[i] < f[k]
Front(s) == SubSeq(s, 1, Len(s) - 1)
Last(s) == s[Len(s)]
RemoveAt(s, i) == SubSeq(s, 1, i - 1) \o SubSeq(s, i + 1, Len(s))

\* What is not scrubbed stays, in its order and as often as it was given.
strip_userland_opts(o) ==
    LET at == SetToSortedSeq({i \in 1..Len(o) : ~parameter_should_be_scrubbed(o[i])})
    IN  [i \in 1..Len(at) |-> o[at[i]]]

\* ecryptfs_process_decision_graph() adds the keys it makes and leaves a stack;
\* ecryptfs_do_mount() puts one more option on it and strips what was given.
ProcessGraph(p) ==
    /\ pc[p] = "graph"
    /\ \E s \in Stacks :
          /\ keyring' = keyring \cup FekekSigs(s)
          /\ job' = [job EXCEPT ![p].walk = s, ![p].stack = Append(s, Unlink),
                                ![p].new = strip_userland_opts(job[p].opts)]
    /\ Goto(p, "pop")
    /\ UNCHANGED <<cache, mnt, History>>

ProcessGraphFails(p) == pc[p] = "graph" /\ "graph" \in Faults /\ GiveUp(p)

\* Mutant of Prepend: an option the user gave is added again.
PrependAlways(v, o) == <<v>> \o o

\* The option goes in front unless the string contains it.
Prepend(v, o) == IF \E x \in Range(o) : Inside(v, x) THEN o ELSE <<v>> \o o

\* One round of the loop of ecryptfs_do_mount(): a signature is checked if the
\* cache is in use.
Pop(p) ==
    /\ pc[p] = "pop" /\ job[p].stack # <<>>
    /\ LET v == Last(job[p].stack)
           check == job[p].check /\ v[1] = "ecryptfs_sig"
       IN  /\ job' = [job EXCEPT ![p].stack = Front(@), ![p].new = Prepend(v, @),
                                 ![p].sig = IF check THEN v[2] ELSE ""]
           /\ Goto(p, IF check THEN "check" ELSE "pop")
    /\ UNCHANGED <<keyring, cache, mnt, History>>

\* ecryptfs_check_sig(): whole records only, from the start of the file.
Cached(s) == \E i \in 1..(Len(cache) \div 2) : cache[2*i - 1] = <<s, 1>> /\ cache[2*i] = <<s, 2>>

\* Mutant of CheckSig: a record of which only the first half was written counts.
CheckSigHalf(p) ==
    /\ pc[p] = "check"
    /\ Goto(p, IF \E i \in 1..Len(cache) : cache[i][2] = 1 THEN "pop" ELSE "ask")
    /\ job' = [job EXCEPT ![p].tries = 0]
    /\ UNCHANGED <<keyring, cache, mnt, History>>

CheckSig(p) ==
    /\ pc[p] = "check"
    /\ Goto(p, IF Cached(job[p].sig) THEN "pop" ELSE "ask")
    /\ job' = [job EXCEPT ![p].tries = 0]
    /\ UNCHANGED <<keyring, cache, mnt, History>>

Yes(p) ==
    /\ pc[p] = "ask"
    /\ Goto(p, "ask_append") /\ job' = [job EXCEPT ![p].tries = 0]
    /\ confirmed' = confirmed \cup {job[p].sig}
    /\ UNCHANGED <<keyring, cache, mnt, torn, used, spoilt>>

\* Neither answer: asked again, MaxTries times at most.
Mumble(p) ==
    /\ pc[p] \in {"ask", "ask_append"} /\ job[p].tries < MaxTries - 1
    /\ job' = [job EXCEPT ![p].tries = @ + 1]
    /\ UNCHANGED <<pc, keyring, cache, mnt, History>>

\* "no" to the mount, the last useless answer to either question, or no input.
Cancel(p) ==
    /\ \/ pc[p] = "ask"
       \/ pc[p] = "ask_append" /\ job[p].tries = MaxTries - 1
       \/ pc[p] = "ask_append" /\ "input" \in Faults
    /\ GiveUp(p)

DontAppend(p) ==
    /\ pc[p] = "ask_append"
    /\ Goto(p, "pop") /\ job' = [job EXCEPT ![p].tries = 0]
    /\ UNCHANGED <<keyring, cache, mnt, History>>

\* Mutant of Seek: the last character of the file is left out of account.
SeekShort(p) ==
    /\ pc[p] = "ask_append" /\ Len(cache) + 2 <= MaxCells
    /\ Goto(p, "append")
    /\ job' = [job EXCEPT ![p].tries = 0, ![p].off = IF cache = <<>> THEN 0 ELSE Len(cache) - 1]
    /\ UNCHANGED <<keyring, cache, mnt, History>>

\* ecryptfs_append_sig(): open and lseek, without O_APPEND, and later the write.
Seek(p) ==
    /\ pc[p] = "ask_append" /\ Len(cache) + 2 <= MaxCells
    /\ Goto(p, "append") /\ job' = [job EXCEPT ![p].tries = 0, ![p].off = Len(cache)]
    /\ UNCHANGED <<keyring, cache, mnt, History>>

OpenCacheFails(p) == pc[p] = "ask_append" /\ "open" \in Faults /\ GiveUp(p)

Overlay(f, off, cells) ==
    [i \in 1..(IF off + Len(cells) > Len(f) THEN off + Len(cells) ELSE Len(f)) |->
        IF i \in (off + 1)..(off + Len(cells)) THEN cells[i - off] ELSE f[i]]

WriteSig(p) ==
    /\ pc[p] = "append"
    /\ cache' = Overlay(cache, job[p].off, <<<<job[p].sig, 1>>, <<job[p].sig, 2>>>>)
    /\ Goto(p, "pop") /\ job' = [job EXCEPT ![p].off = 0]
    /\ UNCHANGED <<keyring, mnt, History>>

WriteSigFails(p) ==
    /\ pc[p] = "append" /\ "short" \in Faults
    /\ cache' = Overlay(cache, job[p].off, <<<<job[p].sig, 1>>>>)
    /\ torn' = TRUE /\ Spoil(TRUE) /\ Leave(p)
    /\ UNCHANGED <<keyring, mnt, confirmed>>

\* ecryptfs_validate_mount_opts()
Valid(o) == "ecryptfs_key_bytes" \in Names(o)

\* A mount with two keys of a kind: umount.ecryptfs knows the first only.
TwoKeys(o) == \/ \E a, b \in FekekSigs(o) : a # b
              \/ \E a, b \in FnekSigs(o) : a # b

\* The kernel wants a signature and looks the keys up.
Accepts(o) == FekekSigs(o) # {} /\ Keys(o) \subseteq keyring

\* ecryptfs_mount().  The run of umount.ecryptfs that
\* has read the table for this directory does not know this mount.
Mount(p) ==
    /\ pc[p] = "pop" /\ job[p].stack = <<>>
    /\ Valid(job[p].new) /\ Accepts(job[p].new)
    /\ mnt' = Append(mnt, [dir |-> job[p].dir, opts |-> job[p].new, checked |-> job[p].check,
                           given |-> job[p].opts, walk |-> job[p].walk])
    /\ spoilt' = (spoilt \/ TwoKeys(job[p].new) \/ \E i \in 1..Len(mnt) : mnt[i].dir = job[p].dir)
    /\ used' = IF spoilt' THEN {} ELSE used \cup Keys(job[p].new)
    /\ Goto(p, "idle")
    /\ job' = [q \in Procs |->
                  IF q = p THEN NoJob
                  ELSE [job[q] EXCEPT !.stale = @ \/ (/\ pc[q] \in {"unlink", "unlink_fnek", "umount"}
                                                     /\ job[q].dir = job[p].dir)]]
    /\ UNCHANGED <<keyring, cache, confirmed, torn>>

MountFails(p) ==
    /\ pc[p] = "pop" /\ job[p].stack = <<>>
    /\ ~Valid(job[p].new) \/ ~Accepts(job[p].new) \/ "mount" \in Faults
    /\ GiveUp(p)
-----------------------------------------------------------------------------

\* umount.ecryptfs: the first entry for the mount point.  A directory that is not in
\* the table, or not with ecryptfs_unlink_sigs, is unmounted all the same.
ReadMtab(p) ==
    /\ pc[p] = "idle"
    /\ \E d \in Dirs :
          LET hits == {i \in 1..Len(mnt) : mnt[i].dir = d}
              o == mnt[CHOOSE i \in hits : \A k \in hits : i <= k].opts
              first(S) == o[CHOOSE i \in S : \A k \in S : i <= k][2]
              fekek == {i \in 1..Len(o) : o[i][1] = "ecryptfs_sig"}
              fnek == {i \in 1..Len(o) : o[i][1] = "ecryptfs_fnek_sig"}
          IN  IF hits = {} \/ Unlink \notin Range(o)
              THEN Goto(p, "umount") /\ job' = [job EXCEPT ![p].dir = d]
              ELSE /\ Goto(p, "unlink")
                   /\ job' = [job EXCEPT ![p].dir = d, ![p].sig = first(fekek),
                                         ![p].fnek = IF fnek = {} THEN "" ELSE first(fnek)]
    /\ UNCHANGED <<keyring, cache, mnt, History>>

\* Mutant of UnlinkSig: the key for file names is forgotten.
UnlinkSigFirst(p) ==
    /\ pc[p] = "unlink" /\ keyring' = keyring \ {job[p].sig} /\ Goto(p, "umount")
    /\ UNCHANGED <<job, cache, mnt, History>>

UnlinkSig(p) ==
    /\ pc[p] = "unlink"
    /\ keyring' = keyring \ {job[p].sig}
    /\ Goto(p, IF job[p].fnek \in {"", job[p].sig} THEN "umount" ELSE "unlink_fnek")
    /\ UNCHANGED <<job, cache, mnt, History>>

UnlinkFnek(p) ==
    /\ pc[p] = "unlink_fnek"
    /\ keyring' = keyring \ {job[p].fnek} /\ Goto(p, "umount")
    /\ UNCHANGED <<job, cache, mnt, History>>

\* A failure to unlink is reported and has no other effect.
UnlinkFails(p) ==
    /\ pc[p] \in {"unlink", "unlink_fnek"} /\ "unlink" \in Faults
    /\ Goto(p, IF pc[p] = "unlink_fnek" \/ job[p].fnek \in {"", job[p].sig}
               THEN "umount" ELSE "unlink_fnek")
    /\ Spoil(TRUE) /\ UNCHANGED <<job, keyring, cache, mnt, confirmed, torn>>

\* execv(): /bin/umount takes the newest mount of the directory away, if there is one.
Umount(p) ==
    /\ pc[p] = "umount"
    /\ LET hits == {i \in 1..Len(mnt) : mnt[i].dir = job[p].dir}
       IN  /\ mnt' = IF hits = {} THEN mnt
                     ELSE RemoveAt(mnt, CHOOSE i \in hits : \A k \in hits : k <= i)
           /\ Spoil(hits # {} /\ job[p].stale)
    /\ Leave(p)
    /\ UNCHANGED <<keyring, cache, confirmed, torn>>

UmountFails(p) ==
    /\ pc[p] = "umount" /\ "umount" \in Faults
    /\ Leave(p) /\ UNCHANGED <<keyring, cache, mnt, History>>
-----------------------------------------------------------------------------

Step(p) ==
    \/ Start(p) \/ ProcessGraph(p) \/ ProcessGraphFails(p) \/ Pop(p) \/ CheckSig(p) \/ Yes(p)
    \/ Mumble(p) \/ Cancel(p) \/ DontAppend(p) \/ Seek(p) \/ OpenCacheFails(p) \/ WriteSig(p)
    \/ WriteSigFails(p) \/ Mount(p) \/ MountFails(p) \/ ReadMtab(p) \/ UnlinkSig(p)
    \/ UnlinkFnek(p) \/ UnlinkFails(p) \/ Umount(p) \/ UmountFails(p)

Next == \E p \in Procs : Step(p)

Spec == Init /\ [][Next]_vars

-----------------------------------------------------------------------------

\* String o ends in the options kept; before them are options of S, none of which is
\* there twice or among the ones kept.
Assembled(o, kept, S) ==
    LET n == Len(o) - Len(kept)
    IN  /\ n >= 0
        /\ \A i \in 1..Len(kept) : o[n + i] = kept[i]
        /\ \A i \in 1..n : o[i] \in S \ Range(kept)
        /\ \A i, k \in 1..n : o[i] = o[k] => i = k

\* The kernel gets the user's options without the scrubbed ones, in the order and as
\* often as they were given; every option of the walk, a scrubbed name included, and
\* ecryptfs_unlink_sigs, once also if the user gave it too, unless its text is inside
\* that of another; and nothing else.
MountOptsExact ==
    \A i \in 1..Len(mnt) :
        LET made == Range(mnt[i].walk) \cup {Unlink}
        IN  /\ Assembled(mnt[i].opts, strip_userland_opts(mnt[i].given), made)
            /\ \A v \in made : \E x \in Range(mnt[i].opts) : Inside(v, x)

\* With the cache in use, nothing is mounted with a signature the user has neither
\* agreed to in an answer nor given with -o in this run, whatever overlapping or
\* interrupted appends did to the file.
MountConfirmed ==
    \A i \in 1..Len(mnt) : mnt[i].checked =>
        \A s \in FekekSigs(mnt[i].opts) : s \in confirmed \/ Sig(s) \in Range(mnt[i].given)

\* Appends that overlap may lose a record but never mix two: until a write is cut
\* short the cache is a sequence of whole records.
CacheIsRecords ==
    ~torn => /\ Len(cache) % 2 = 0
             /\ \A i \in 1..(Len(cache) \div 2) : \E s \in confirmed :
                    cache[2*i - 1] = <<s, 1>> /\ cache[2*i] = <<s, 2>>

\* Once everything is unmounted, no key a mount has used is left in the keyring,
\* also if runs overlap and mounts share keys.  Spoilt: a mount run gave up after
\* it had inserted its key, a mount had two keys or was stacked on another, a key
\* could not be unlinked, or a mount was detached by a run that had read the table
\* before it was made.
KeysGone ==
    (\A p \in Procs : pc[p] = "idle") /\ mnt = <<>> /\ ~spoilt => keyring \cap used = {}
=============================================================================
