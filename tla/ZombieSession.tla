--------------------------- MODULE ZombieSession ---------------------------
(***************************************************************************)
(* The placeholder ("zombie") processes that keep a session keyring alive: *)
(* src/libecryptfs/main.c, from zombie_semaphore_get() to                  *)
(* ecryptfs_list_zombie_session_placeholders().  A placeholder registers   *)
(* its session and process id in a table in System V shared memory, sleeps *)
(* and removes the entry; another function kills the placeholder of the    *)
(* caller's session; a third lists the table.  A semaphore is meant to     *)
(* exclude them from each other, but a caller that has waited RetryLimit   *)
(* seconds for it goes on without it, and raises it afterwards all the     *)
(* same.                                                                   *)
(***************************************************************************)
EXTENDS Integers, FiniteSets

CONSTANTS
    Placeholder,    \* processes that register
    Caller,         \* processes that kill a placeholder or list the table
    Sid,            \* [Placeholder \cup Caller -> session]
    Slots,          \* pairs that fit into ECRYPTFS_SHM_SIZE
    RetryLimit,     \* RETRY_LIMIT
    Other, Null,    \* an entry of another session, an empty slot
    Faults          \* subset of {"shm", "kill", "sem"}

Proc == Placeholder \cup Caller

ASSUME ZombieAssumption ==
    /\ Slots \in Nat \ {0} /\ RetryLimit \in Nat \ {0}
    /\ Other # Null /\ {Other, Null} \cap Proc = {}
    /\ Placeholder \cap Caller = {}

VARIABLES
    pc,             \* position
    task,           \* what its visit to the table is for
    tries,          \* attempts made at the semaphore
    idx, found,     \* i and pid: the slot and the process a search ended at
    semState, sem,  \* whether the semaphore exists and is initialised; its value
    table,          \* the shared memory
    gaveUp,         \* history: who went on without the semaphore
    left            \* history: who ended with its work on the table unfinished

search == <<idx, found>>
semaphore == <<semState, sem>>
history == <<gaveUp, left>>
vars == <<pc, task, tries, search, semaphore, table, history>>

Slot == 1..Slots
Critical == {"attach", "add", "put", "search", "kill", "find", "drop", "list", "unlock"}
Pos == Critical \cup {"idle", "semget", "seminit", "poll", "lock", "sleep", "done", "dead"}

\* The segment exists (the kernel zeroes a new one), and any number of slots may
\* be taken by other sessions.
Init ==
    /\ pc = [p \in Proc |-> "idle"] /\ task = [p \in Proc |-> "add"]
    /\ tries = [p \in Proc |-> 0]
    /\ idx = [p \in Proc |-> 0] /\ found = [p \in Proc |-> Null]
    /\ semState = "absent" /\ sem = 0
    /\ \E n \in 0..Slots : table = [i \in Slot |-> IF i <= n THEN Other ELSE Null]
    /\ gaveUp = {} /\ left = {}
-----------------------------------------------------------------------------

Go(p, l) == pc' = [pc EXCEPT ![p] = l]

\* A placeholder between the entry it made and the end of its last visit.
Registered(p) == p \in Placeholder /\ (task[p] = "remove" \/ pc[p] \in {"unlock", "sleep"})

\* The locals go out of scope when the table is let go.
Forget(p) == /\ tries' = [tries EXCEPT ![p] = 0]
             /\ idx' = [idx EXCEPT ![p] = 0] /\ found' = [found EXCEPT ![p] = Null]

\* The process ends with rc # 0, or a signal ends it.
End(p, l) ==
    /\ Go(p, l) /\ Forget(p)
    /\ left' = left \cup IF Registered(p) \/ pc[p] \in Critical THEN {p} ELSE {}

\* A function of the library is called and gets to zombie_semaphore_get(): the
\* three below are the only ones that touch the table.
Begin(p, t) ==
    /\ pc[p] = "idle"
    /\ Go(p, "semget") /\ task' = [task EXCEPT ![p] = t]
    /\ UNCHANGED <<tries, search, semaphore, table, history>>

SetPlaceholder(p) == p \in Placeholder /\ Begin(p, "add")
KillAndClear(p) == p \in Caller /\ Begin(p, "clear")
ListPlaceholders(p) == p \in Caller /\ Begin(p, "list")

\* zombie_semaphore_get(): create it, or find it there.
SemGet(p) ==
    /\ pc[p] = "semget"
    /\ Go(p, IF semState = "absent" THEN "seminit" ELSE "poll")
    /\ semState' = IF semState = "absent" THEN "created" ELSE semState
    /\ tries' = [tries EXCEPT ![p] = 0]
    /\ UNCHANGED <<task, search, sem, table, history>>

SemInit(p) ==
    /\ pc[p] = "seminit"
    /\ Go(p, "lock")
    /\ semState' = "ready" /\ sem' = sem + 1
    /\ UNCHANGED <<task, tries, search, table, history>>

\* Wait for the creator to initialise it, RetryLimit times.
Poll(p) ==
    /\ pc[p] = "poll"
    /\ tries[p] < RetryLimit
    /\ IF semState = "ready"
         THEN Go(p, "lock") /\ tries' = [tries EXCEPT ![p] = 0]
         ELSE UNCHANGED pc /\ tries' = [tries EXCEPT ![p] = @ + 1]
    /\ UNCHANGED <<task, search, semaphore, table, history>>

\* Not tested again after the last wait: -EIO.
PollFails(p) ==
    /\ pc[p] = "poll" /\ tries[p] = RetryLimit
    /\ End(p, "done")
    /\ UNCHANGED <<task, semaphore, table, gaveUp>>

\* Mutant of Lock: the semaphore is waited for without a limit.
LockBlocking(p) ==
    /\ pc[p] = "lock" /\ sem > 0
    /\ sem' = sem - 1 /\ Go(p, "attach")
    /\ UNCHANGED <<task, tries, search, semState, table, history>>

\* Mutant of Lock: a failed attempt is taken for a success.
LockUntested(p) ==
    /\ pc[p] = "lock"
    /\ sem' = IF sem > 0 THEN sem - 1 ELSE 0
    /\ Go(p, "attach")
    /\ UNCHANGED <<task, tries, search, semState, table, history>>

\* zombie_semaphore_lock(): one attempt.
Lock(p) ==
    /\ pc[p] = "lock"
    /\ tries[p] < RetryLimit
    /\ IF sem > 0
         THEN sem' = sem - 1 /\ Go(p, "attach") /\ tries' = [tries EXCEPT ![p] = 0]
         ELSE tries' = [tries EXCEPT ![p] = @ + 1] /\ UNCHANGED <<pc, sem>>
    /\ UNCHANGED <<task, search, semState, table, history>>

\* zombie_semaphore_lock() returns without the semaphore: it is void, its caller goes on.
GoOnUnlocked(p) ==
    /\ Go(p, "attach") /\ tries' = [tries EXCEPT ![p] = 0]
    /\ gaveUp' = gaveUp \cup {p}
    /\ UNCHANGED <<task, search, semaphore, table, left>>

\* "hit max retries", without another attempt after the last wait.
GiveUp(p) == pc[p] = "lock" /\ tries[p] = RetryLimit /\ GoOnUnlocked(p)

\* semop() fails for a reason other than EAGAIN.
LockFails(p) ==
    pc[p] = "lock" /\ tries[p] < RetryLimit /\ "sem" \in Faults /\ GoOnUnlocked(p)

\* The rest of get_zombie_shared_mem_locked(), and the branch of the caller.
Attach(p) ==
    /\ pc[p] = "attach"
    /\ Go(p, CASE task[p] = "add" -> "add"
               [] task[p] = "remove" -> "find"
               [] task[p] = "clear" -> "search"
               [] OTHER -> "list")
    /\ UNCHANGED <<task, tries, search, semaphore, table, history>>

\* Shared memory cannot be had or attached, or memory is short: unlock, return.
TableFails(p) ==
    /\ "shm" \in Faults /\ pc[p] \in Critical \ {"put", "kill", "unlock"}
    /\ End(p, "done") /\ sem' = sem + 1
    /\ UNCHANGED <<task, semState, table, gaveUp>>

Free == {i \in Slot : table[i] = Null}
Least(S) == CHOOSE i \in S : \A j \in S : i <= j

\* add_sid_pid_pair_to_shm(): the first empty slot, or -ENOMEM ...
Add(p) ==
    /\ pc[p] = "add" /\ Free # {}
    /\ idx' = [idx EXCEPT ![p] = Least(Free)]
    /\ Go(p, "put")
    /\ UNCHANGED <<task, tries, found, semaphore, table, history>>

NoSpace(p) ==
    /\ pc[p] = "add" /\ Free = {}
    /\ Go(p, "done") /\ sem' = sem + 1 /\ Forget(p)
    /\ UNCHANGED <<task, semState, table, history>>

\* The memset() that ends it clears idx + 1 slots instead of one (its length is
\* the offset it starts at plus the size of a pair) if there is one more slot.
Cleared(i) == IF i < Slots THEN i + 1 .. 2 * i + 1 ELSE {}

\* ... the entry is written, and the slots behind it cleared.
Put(p) ==
    /\ pc[p] = "put"
    /\ table' = [i \in Slot |-> IF i = idx[p] THEN p
                                ELSE IF i \in Cleared(idx[p]) THEN Null ELSE table[i]]
    /\ Go(p, "unlock")
    /\ UNCHANGED <<task, tries, search, semaphore, history>>

\* The memset() passes the end of the segment: the process may crash.
PutCrashes(p) ==
    /\ pc[p] = "put" /\ ~(Cleared(idx[p]) \subseteq Slot)
    /\ table' = [i \in Slot |-> IF i = idx[p] THEN p
                                ELSE IF i \in Cleared(idx[p]) THEN Null ELSE table[i]]
    /\ End(p, "dead")
    /\ UNCHANGED <<task, semaphore, gaveUp>>

\* The slots before the first empty one that hold an entry of p's session.
Mine(p) == {i \in Slot : /\ \A j \in 1..i : table[j] # Null
                         /\ table[i] # Other /\ Sid[table[i]] = Sid[p]}

\* find_pid_for_this_sid()
Search(p) ==
    /\ pc[p] = "search"
    /\ found' = [found EXCEPT ![p] = IF Mine(p) = {} THEN Null ELSE table[Least(Mine(p))]]
    /\ Go(p, IF Mine(p) = {} THEN "unlock" ELSE "kill")
    /\ UNCHANGED <<task, tries, idx, semaphore, table, history>>

\* kill() with SIGKILL; a process that has ended already is not there to kill.
KillFound(p) ==
    /\ pc[p] = "kill"
    /\ pc' = [pc EXCEPT ![p] = "find",
                        ![found[p]] = IF @ \in {"done", "dead"} THEN @ ELSE "dead"]
    /\ UNCHANGED <<task, tries, search, semaphore, table, history>>

\* remove_pid_for_this_sid(): the first entry of this session ...
Find(p) ==
    /\ pc[p] = "find"
    /\ idx' = [idx EXCEPT ![p] = IF Mine(p) = {} THEN 0 ELSE Least(Mine(p))]
    /\ Go(p, IF Mine(p) = {} THEN "unlock" ELSE "drop")
    /\ UNCHANGED <<task, tries, found, semaphore, table, history>>

\* Mutant of Drop: the entry is cleared, the rest is not moved up.
DropInPlace(p) ==
    /\ pc[p] = "drop"
    /\ table' = [table EXCEPT ![idx[p]] = Null]
    /\ Go(p, "unlock")
    /\ UNCHANGED <<task, tries, search, semaphore, history>>

\* ... and the entries behind it move up.
Drop(p) ==
    /\ pc[p] = "drop"
    /\ table' = [i \in Slot |-> IF i < idx[p] THEN table[i]
                                ELSE IF i < Slots THEN table[i + 1] ELSE Null]
    /\ Go(p, "unlock")
    /\ UNCHANGED <<task, tries, search, semaphore, history>>

\* list_pid_sid_pairs() only reads.
List(p) ==
    /\ pc[p] = "list"
    /\ Go(p, "unlock")
    /\ UNCHANGED <<task, tries, search, semaphore, table, history>>

\* zombie_semaphore_unlock(), whether or not the semaphore was obtained.
Unlock(p) ==
    /\ pc[p] = "unlock"
    /\ sem' = sem + 1 /\ Forget(p)
    /\ Go(p, IF task[p] = "add" THEN "sleep" ELSE "done")
    /\ UNCHANGED <<task, semState, table, history>>

\* Mutant of WakeUp: the placeholder exits without removing its entry.
WakeUpExits(p) ==
    /\ pc[p] = "sleep"
    /\ Go(p, "done")
    /\ UNCHANGED <<task, tries, search, semaphore, table, history>>

\* The sleep is over.
WakeUp(p) ==
    /\ pc[p] = "sleep"
    /\ Go(p, "semget") /\ task' = [task EXCEPT ![p] = "remove"]
    /\ UNCHANGED <<tries, search, semaphore, table, history>>

\* Any other signal that ends the process.
Kill(p) ==
    /\ "kill" \in Faults /\ pc[p] \notin {"idle", "done", "dead"}
    /\ End(p, "dead")
    /\ UNCHANGED <<task, semaphore, table, gaveUp>>

Step(p) ==
    \/ SemGet(p) \/ SemInit(p) \/ Poll(p) \/ PollFails(p) \/ Lock(p) \/ GiveUp(p)
    \/ Attach(p) \/ TableFails(p) \/ Add(p) \/ NoSpace(p) \/ Put(p) \/ PutCrashes(p)
    \/ Search(p) \/ KillFound(p) \/ Find(p) \/ Drop(p) \/ List(p) \/ Unlock(p)
    \/ WakeUp(p)

AllOver == (\A p \in Proc : pc[p] \in {"done", "dead"}) /\ UNCHANGED vars

Call(p) == SetPlaceholder(p) \/ KillAndClear(p) \/ ListPlaceholders(p)

Next == (\E p \in Proc : Call(p) \/ Step(p) \/ LockFails(p) \/ Kill(p)) \/ AllOver

Spec == Init /\ [][Next]_vars

\* A process that runs keeps running; sleep() ends.  Nothing makes semop() fail.
FairSpec == Spec /\ \A p \in Proc : WF_vars(Step(p))
-----------------------------------------------------------------------------

\* As long as nobody has given up waiting, one process at a time is at the
\* table, wherever processes are killed: a holder that dies keeps the others
\* out until one of them gives up.
MutualExclusion ==
    gaveUp = {} => \A p, q \in Proc : pc[p] \in Critical /\ pc[q] \in Critical => p = q

\* Placeholder q is the only one of its session.
Alone(q) == \A p \in Placeholder \ {q} : Sid[p] # Sid[q]

\* While nobody gave up and nobody ended in the middle of its work, the table
\* has no gap, and the placeholder of a session with only one is in it exactly
\* while it lives and is registered.  (Its killer removes the entry right
\* after killing it.)
TableExact ==
    gaveUp = {} /\ left = {} =>
      /\ \A i, j \in Slot : i < j /\ table[i] = Null => table[j] = Null
      /\ \A q \in Placeholder : Alone(q) /\ pc[q] # "dead" =>
           LET in == Registered(q) /\ pc[q] # "done" /\ ~(pc[q] = "unlock" /\ task[q] = "remove")
           IN  (\E i \in Slot : table[i] = q) <=> in

\* ecryptfs_kill_and_clear_zombie_session_placeholder() kills nothing but a live
\* placeholder of the caller's session, under the same conditions.
KillsPlaceholder ==
    gaveUp = {} /\ left = {} =>
      \A p \in Caller : pc[p] = "kill" /\ Alone(found[p])
                         => Sid[found[p]] = Sid[p] /\ pc[found[p]] \notin {"done", "dead"}

\* Every call returns or ends, even if the holder of the semaphore or its creator
\* was killed: what the limited number of attempts is for.
CallsReturn == \A p \in Proc : pc[p] = "semget" ~> pc[p] \in {"sleep", "done", "dead"}
=============================================================================
