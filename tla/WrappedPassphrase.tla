------------------------- MODULE WrappedPassphrase -------------------------
(***************************************************************************)
(* The wrapped passphrase file of one user, ~/.ecryptfs/wrapped-passphrase *)
(* and the programs that work on it: ecryptfs_wrap_passphrase(),           *)
(* ecryptfs_unwrap_passphrase() and ecryptfs_wrap_passphrase_file() of     *)
(* src/libecryptfs/key_management.c, called by pam_ecryptfs at login and   *)
(* at a change of password, and by the ecryptfs-{wrap,unwrap,rewrap,       *)
(* insert-wrapped}-passphrase programs.  A process runs one program once.  *)
(*                                                                         *)
(* The file is a directory entry and a set of inodes: wrapping unlinks the *)
(* entry and creates a new file, so every wrapping run writes an inode of  *)
(* its own, and a reader may hold an inode that is no longer linked.       *)
(***************************************************************************)
EXTENDS Naturals

CONSTANTS
    Proc,           \* the running programs
    Wrapping,       \* wrapping passphrases
    TooLong,        \* those above ECRYPTFS_MAX_PASSWORD_LENGTH
    Empty,          \* the empty one
    First,          \* the inode the file has at the start
    None,           \* no inode, no signature
    Faults          \* the calls that may fail

FaultNames == {"nss", "readClear", "unlink", "create", "write", "short", "addkey",
               "kill"}

ASSUME WrappingAssumption ==
    /\ TooLong \subseteq Wrapping /\ Empty \subseteq Wrapping
    /\ First \notin Proc /\ None \notin Proc /\ None # First
    /\ None \notin Wrapping
    /\ Faults \subseteq FaultNames

Inode == Proc \cup {First}

VARIABLES
    pc, op, stage,  \* position, program, and what a wrapping run wraps
    old, new,       \* the wrapping passphrases the program was given
    buf,            \* decrypted_passphrase
    fd, sig,        \* the file being read, the signature read from it
    link,           \* the inode the directory entry names
    file,           \* [Inode -> [sig, body]]
    clear,          \* /dev/shm/.ecryptfs-USER exists
    keyring,        \* the passphrases whose keys are in the keyring
    torn            \* history: the runs that ended after unlinking the file
                    \* and before their own was complete

args == <<op, old, new>>
reading == <<fd, sig>>
stored == <<link, file, clear, keyring>>
vars == <<pc, args, stage, buf, reading, stored, torn>>

\* What decrypted_passphrase or a file body can hold: the mount passphrase,
\* its first blocks only, or a body that is no multiple of the block size.
Plain == {"none", "mount", "fragment"}
Body == Plain \cup {"ragged"}
Op == {"login", "chauthtok", "rewrap", "wrap", "unwrap", "insert"}
Pos == {"idle", "need", "need2", "openClear", "encrypt", "unlink", "create",
        "wsig", "wbody", "rmclear", "open", "rsig", "rbody", "addkey", "done"}

TypeOK ==
    /\ pc \in [Proc -> Pos] /\ op \in [Proc -> Op \cup {None}]
    /\ stage \in [Proc -> {"clear", "main"}]
    /\ old \in [Proc -> Wrapping \cup {None}] /\ new \in [Proc -> Wrapping \cup {None}]
    /\ buf \in [Proc -> Plain]
    /\ fd \in [Proc -> Inode \cup {None}]
    /\ sig \in [Proc -> Wrapping \cup {None, "torn"}]
    /\ link \in Inode \cup {None}
    /\ file \in [Inode -> [sig : Wrapping \cup {None, "torn"}, body : Body]]
    /\ clear \in BOOLEAN /\ torn \subseteq Proc
    /\ keyring \subseteq Plain
    /\ \A p \in Proc : pc[p] # "idle" => op[p] \in Op /\ {old[p], new[p]} \subseteq Wrapping
    /\ \A p \in Proc : pc[p] \in {"rsig", "rbody"} => fd[p] \in Inode

EmptyFile == [sig |-> None, body |-> "none"]

\* Set up either way: a wrapped passphrase, or one in the clear that waits for
\* the first login (ecryptfs-setup-private).
Init ==
    /\ pc = [p \in Proc |-> "idle"] /\ op = [p \in Proc |-> None]
    /\ stage = [p \in Proc |-> "main"]
    /\ old = [p \in Proc |-> None] /\ new = [p \in Proc |-> None]
    /\ buf = [p \in Proc |-> "none"]
    /\ fd = [p \in Proc |-> None] /\ sig = [p \in Proc |-> None]
    /\ keyring = {} /\ torn = {}
    /\ clear \in BOOLEAN
    /\ link = IF clear THEN None ELSE First
    /\ \E w \in Wrapping \ TooLong :
         file = [i \in Inode |-> IF i = First THEN [sig |-> w, body |-> "mount"]
                                              ELSE EmptyFile]
-----------------------------------------------------------------------------

Go(p, l) == pc' = [pc EXCEPT ![p] = l]

\* The run has unlinked the file and not completed its own.
InWindow(p) == \/ pc[p] = "create" /\ link = None
               \/ pc[p] \in {"wsig", "wbody"} /\ link = p

\* The library function returns an error and the program ends; pam_ecryptfs
\* returns all the same, and nobody retries.
Fail(p) ==
    /\ Go(p, "done")
    /\ torn' = torn \cup IF InWindow(p) THEN {p} ELSE {}
    /\ UNCHANGED <<args, stage, buf, reading, stored>>

\* Program o starts with the wrapping passphrases x and y, which are one
\* unless it changes it, and gets to l.
Begin(p, o, x, y, l) ==
    /\ pc[p] = "idle"
    /\ op' = [op EXCEPT ![p] = o]
    /\ old' = [old EXCEPT ![p] = x] /\ new' = [new EXCEPT ![p] = y]
    /\ Go(p, l)
    /\ UNCHANGED <<stage, reading, stored, torn>>

\* pam_sm_authenticate() with the argument unwrap, and pam_sm_chauthtok().
Authenticate(p) ==
    /\ \E x \in Wrapping : Begin(p, "login", x, x, "need")
    /\ UNCHANGED buf

ChAuthTok(p) ==
    /\ \E x, y \in Wrapping : Begin(p, "chauthtok", x, y, "need")
    /\ UNCHANGED buf

\* The command line programs refuse a passphrase that is too long.
Checked(x, l) == IF x \in TooLong THEN "done" ELSE l

RewrapMain(p) ==
    /\ \E x, y \in Wrapping : Begin(p, "rewrap", x, y, Checked(x, Checked(y, "open")))
    /\ UNCHANGED buf

\* The user gives the mount passphrase as well.
WrapMain(p) ==
    /\ \E x \in Wrapping : Begin(p, "wrap", x, x, Checked(x, "encrypt"))
    /\ buf' = [buf EXCEPT ![p] = "mount"]

UnwrapMain(p) ==
    /\ \E x \in Wrapping : Begin(p, "unwrap", x, x, Checked(x, "open"))
    /\ UNCHANGED buf

InsertMain(p) ==
    /\ \E x \in Wrapping : Begin(p, "insert", x, x, Checked(x, "open"))
    /\ UNCHANGED buf

\* What follows wrap_passphrase_if_necessary(): the insertion of the keys, or
\* the child that unwraps with the old passphrase, which pam_sm_chauthtok()
\* does not create for an empty new one.
AfterNeed(p) == IF op[p] = "chauthtok" /\ new[p] \in Empty THEN "done" ELSE "open"

\* wrap_passphrase_if_necessary(): is there a cleartext passphrase ...
NeedClear(p) ==
    /\ pc[p] = "need"
    /\ Go(p, IF clear THEN "need2" ELSE AfterNeed(p))
    /\ UNCHANGED <<args, stage, buf, reading, stored, torn>>

\* ... and no wrapped one, and a passphrase to wrap it with?
NeedWrapped(p) ==
    /\ pc[p] = "need2"
    /\ LET wrap == link = None /\ new[p] \notin Empty
       IN  /\ Go(p, IF wrap THEN "openClear" ELSE AfterNeed(p))
           /\ stage' = [stage EXCEPT ![p] = IF wrap THEN "clear" ELSE "main"]
    /\ UNCHANGED <<args, buf, reading, stored, torn>>

\* Mutant of OpenClear: the cleartext is removed as soon as it has been read.
OpenClearRemoving(p) ==
    /\ pc[p] = "openClear" /\ clear
    /\ Go(p, "encrypt") /\ buf' = [buf EXCEPT ![p] = "mount"]
    /\ clear' = FALSE
    /\ UNCHANGED <<args, stage, reading, link, file, keyring, torn>>

\* ecryptfs_wrap_passphrase_file(): open and read the cleartext.
OpenClear(p) ==
    /\ pc[p] = "openClear"
    /\ clear
    /\ Go(p, "encrypt") /\ buf' = [buf EXCEPT ![p] = "mount"]
    /\ UNCHANGED <<args, stage, reading, stored, torn>>

OpenClearFails(p) ==
    /\ pc[p] = "openClear"
    /\ ~clear \/ "readClear" \in Faults
    /\ Fail(p)

\* ecryptfs_wrap_passphrase() before it touches the file: signature of the
\* wrapping passphrase, padding, encryption.
Encrypt(p) ==
    /\ pc[p] = "encrypt"
    /\ new[p] \notin TooLong
    /\ Go(p, "unlink")
    /\ UNCHANGED <<args, stage, buf, reading, stored, torn>>

EncryptFails(p) ==
    /\ pc[p] = "encrypt"
    /\ new[p] \in TooLong \/ "nss" \in Faults
    /\ Fail(p)

\* unlink(), whose result is not looked at.
Unlink(p) ==
    /\ pc[p] = "unlink"
    /\ Go(p, "create")
    /\ link' \in {None} \cup IF "unlink" \in Faults THEN {link} ELSE {}
    /\ UNCHANGED <<args, stage, buf, reading, file, clear, keyring, torn>>

\* open() with O_CREAT | O_EXCL: it fails if someone else created the file.
Create(p) ==
    /\ pc[p] = "create"
    /\ link = None
    /\ Go(p, "wsig") /\ link' = p
    /\ file' = [file EXCEPT ![p] = EmptyFile]
    /\ UNCHANGED <<args, stage, buf, reading, clear, keyring, torn>>

CreateFails(p) ==
    /\ pc[p] = "create"
    /\ link # None \/ "create" \in Faults
    /\ Fail(p)

\* The first write(); one that is cut short counts as a success.
WriteSig(p) ==
    /\ pc[p] = "wsig"
    /\ Go(p, "wbody")
    /\ \E s \in {new[p]} \cup IF "short" \in Faults THEN {"torn"} ELSE {} :
         file' = [file EXCEPT ![p].sig = s]
    /\ UNCHANGED <<args, stage, buf, reading, link, clear, keyring, torn>>

WriteSigFails(p) ==
    /\ pc[p] = "wsig"
    /\ "write" \in Faults
    /\ Fail(p)

\* Mutant of WriteBody: the body is written in pieces.
WriteBodyInPieces(p) ==
    /\ pc[p] = "wbody"
    /\ LET first == file[p].body = "none"
       IN  /\ file' = [file EXCEPT ![p].body = IF first THEN "fragment" ELSE buf[p]]
           /\ Go(p, CASE first -> "wbody"
                      [] stage[p] = "clear" -> "rmclear"
                      [] OTHER -> "done")
    /\ UNCHANGED <<args, stage, buf, reading, link, clear, keyring, torn>>

\* The second write(), the same; then the function returns 0, and a program
\* that wrapped the cleartext goes on to unlink that.
WriteBody(p) ==
    /\ pc[p] = "wbody"
    /\ Go(p, IF stage[p] = "clear" THEN "rmclear" ELSE "done")
    /\ \E b \in {buf[p]} \cup IF "short" \in Faults THEN {"fragment", "ragged"}
                                                  ELSE {} :
         file' = [file EXCEPT ![p].body = b]
    /\ UNCHANGED <<args, stage, buf, reading, link, clear, keyring, torn>>

WriteBodyFails(p) ==
    /\ pc[p] = "wbody"
    /\ "write" \in Faults
    /\ Fail(p)

\* unlink() of the cleartext; login and change of password go on.
RemoveClear(p) ==
    /\ pc[p] = "rmclear"
    /\ clear' = FALSE
    /\ Go(p, AfterNeed(p)) /\ stage' = [stage EXCEPT ![p] = "main"]
    /\ buf' = [buf EXCEPT ![p] = "none"]
    /\ UNCHANGED <<args, reading, link, file, keyring, torn>>

\* ecryptfs_unwrap_passphrase(): open() ...
OpenWrapped(p) ==
    /\ pc[p] = "open"
    /\ old[p] \notin TooLong /\ link # None
    /\ Go(p, "rsig") /\ fd' = [fd EXCEPT ![p] = link]
    /\ UNCHANGED <<args, stage, buf, sig, stored, torn>>

OpenWrappedFails(p) ==
    /\ pc[p] = "open"
    /\ old[p] \in TooLong \/ link = None
    /\ Fail(p)

\* ... read() of the signature ...
ReadSig(p) ==
    /\ pc[p] = "rsig"
    /\ file[fd[p]].sig # None
    /\ Go(p, "rbody") /\ sig' = [sig EXCEPT ![p] = file[fd[p]].sig]
    /\ UNCHANGED <<args, stage, buf, fd, stored, torn>>

ReadSigFails(p) ==
    /\ pc[p] = "rsig"
    /\ file[fd[p]].sig = None
    /\ Fail(p)

\* Mutant of ReadBody: a change of passphrase goes on whatever the result.
ReadBodyUnchecked(p) ==
    /\ pc[p] = "rbody"
    /\ Go(p, IF op[p] \in {"rewrap", "chauthtok"} THEN "encrypt" ELSE "done")
    /\ buf' = [buf EXCEPT ![p] = IF sig[p] = old[p] THEN "mount" ELSE "none"]
    /\ UNCHANGED <<args, stage, reading, stored, torn>>

\* ... read() of the rest, comparison of the signatures, decryption.
ReadBody(p) ==
    LET b == file[fd[p]].body
    IN  /\ pc[p] = "rbody"
        /\ b \in {"mount", "fragment"} /\ sig[p] = old[p]
        /\ buf' = [buf EXCEPT ![p] = b]
        /\ Go(p, CASE op[p] \in {"login", "insert"} -> "addkey"
                   [] op[p] \in {"rewrap", "chauthtok"} -> "encrypt"
                   [] OTHER -> "done")
        /\ UNCHANGED <<args, stage, reading, stored, torn>>

ReadBodyFails(p) ==
    LET b == file[fd[p]].body
    IN  /\ pc[p] = "rbody"
        /\ b \in {"none", "ragged"} \/ sig[p] # old[p] \/ "nss" \in Faults
        /\ Fail(p)

\* ecryptfs_add_passphrase_key_to_keyring(), twice.
AddKeys(p) ==
    /\ pc[p] = "addkey"
    /\ keyring' = keyring \cup {buf[p]}
    /\ Go(p, "done")
    /\ UNCHANGED <<args, stage, buf, reading, link, file, clear, torn>>

AddKeysFails(p) ==
    /\ pc[p] = "addkey"
    /\ "addkey" \in Faults
    /\ Fail(p)

\* A signal ends the program.
Kill(p) ==
    /\ "kill" \in Faults /\ pc[p] \notin {"idle", "done"}
    /\ Fail(p)

Step(p) ==
    \/ Authenticate(p) \/ ChAuthTok(p) \/ RewrapMain(p) \/ WrapMain(p)
    \/ UnwrapMain(p) \/ InsertMain(p)
    \/ NeedClear(p) \/ NeedWrapped(p) \/ OpenClear(p) \/ Encrypt(p)
    \/ Unlink(p) \/ Create(p) \/ WriteSig(p) \/ WriteBody(p) \/ RemoveClear(p)
    \/ OpenWrapped(p) \/ ReadSig(p) \/ ReadBody(p) \/ AddKeys(p)

Error(p) ==
    \/ OpenClearFails(p) \/ EncryptFails(p) \/ CreateFails(p) \/ WriteSigFails(p)
    \/ WriteBodyFails(p) \/ OpenWrappedFails(p) \/ ReadSigFails(p) \/ ReadBodyFails(p)
    \/ AddKeysFails(p)

AllDone == (\A p \in Proc : pc[p] = "done") /\ UNCHANGED vars

Next == (\E p \in Proc : Step(p) \/ Error(p) \/ Kill(p)) \/ AllDone

Spec == Init /\ [][Next]_vars
-----------------------------------------------------------------------------

Readable(i) == file[i].body = "mount" /\ file[i].sig \in Wrapping

\* Whatever programs run at the same time, and wherever they are killed, a
\* successful ecryptfs_unwrap_passphrase() yields the whole mount passphrase,
\* never a part of it, and only keys made from it enter the keyring: a reader
\* that meets a file in the middle of being written gets an error.
UnwrapExact == /\ \A p \in Proc : buf[p] # "fragment"
               /\ keyring \subseteq {"mount"}

\* A program that is about to unlink the wrapped passphrase, or has done so and
\* is writing the new file, has the mount passphrase in memory: a wrong
\* passphrase never destroys the file.
PassphraseInHand ==
    \A p \in Proc : pc[p] \in {"unlink", "create", "wsig", "wbody"} => buf[p] = "mount"

\* The mount passphrase can be read from the wrapped file or from the
\* cleartext file, or a program is between unlink() and its last write(), or
\* one ended there: that is the only way to lose it, whatever the
\* interleaving of logins, password changes and command line programs.
NothingLost == \/ torn # {} \/ clear
               \/ link # None /\ Readable(link)
               \/ \E p \in Proc : InWindow(p)
=============================================================================
