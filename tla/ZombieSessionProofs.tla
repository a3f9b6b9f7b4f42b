------------------------ MODULE ZombieSessionProofs ------------------------
(***************************************************************************)
(* Proofs about ZombieSession, for any number of processes and slots.      *)
(***************************************************************************)
EXTENDS ZombieSession, WellFoundedInduction, TLAPS

\* The types the argument needs.
SemType == pc \in [Proc -> Pos] /\ sem \in Nat

\* While nobody gave up: before the semaphore is ready its value is zero and
\* nobody waits for it or is past it; afterwards it is one only if nobody is
\* at the table.
SemInv ==
    gaveUp = {} =>
      /\ semState # "ready" =>
           sem = 0 /\ \A p \in Proc : pc[p] \notin Critical \cup {"lock"}
      /\ \A p \in Proc : pc[p] = "seminit" => semState = "created"
      /\ \A p, q \in Proc : pc[p] = "seminit" /\ pc[q] = "seminit" => p = q
      /\ sem \in {0, 1}
      /\ sem = 1 => \A p \in Proc : pc[p] \notin Critical
      /\ \A p, q \in Proc : pc[p] \in Critical /\ pc[q] \in Critical => p = q

\* The initial states satisfy the invariant.
LEMMA InitSem == Init => SemType /\ SemInv
  BY DEF Init, SemType, SemInv, Pos, Critical

\* Every step keeps it.
LEMMA SemStep == ASSUME SemType, SemInv, [Next]_vars PROVE SemType' /\ SemInv'
<1> USE ZombieAssumption DEF SemType, SemInv, Go, Pos, Critical, search, semaphore, history
<1>1. ASSUME NEW p \in Proc, Call(p) \/ Step(p) \/ LockFails(p) \/ Kill(p) PROVE SemType' /\ SemInv'
  <2>1. CASE Call(p)
    BY <2>1 DEF Call, SetPlaceholder, KillAndClear, ListPlaceholders, Begin
  <2>2. CASE SemGet(p) BY <2>2 DEF SemGet
  <2>3. CASE SemInit(p) BY <2>3 DEF SemInit
  <2>4. CASE Poll(p) BY <2>4 DEF Poll
  <2>5. CASE PollFails(p) BY <2>5 DEF PollFails, End
  <2>6. CASE Lock(p) BY <2>6 DEF Lock
  <2>7. CASE GiveUp(p) BY <2>7 DEF GiveUp, GoOnUnlocked
  <2>8. CASE Attach(p) BY <2>8 DEF Attach
  <2>9. CASE TableFails(p) BY <2>9 DEF TableFails, End
  <2>10. CASE Add(p) BY <2>10 DEF Add
  <2>11. CASE NoSpace(p) BY <2>11 DEF NoSpace
  <2>12. CASE Put(p) BY <2>12 DEF Put
  <2>13. CASE PutCrashes(p) BY <2>13 DEF PutCrashes, End
  <2>14. CASE Search(p) BY <2>14 DEF Search
  <2>15. CASE KillFound(p)
    <3> DEFINE f == [pc EXCEPT ![p] = "find"]
    <3>a. f \in [Proc -> Pos] /\ pc[p] = "kill"
      BY <2>15 DEF KillFound
    <3>b. pc' = [f EXCEPT ![found[p]] = IF @ \in {"done", "dead"} THEN @ ELSE "dead"]
      BY <2>15, Zenon DEF KillFound
    <3>c. \A q \in Proc : f[q] = IF q = p THEN "find" ELSE pc[q]
      OBVIOUS
    <3> HIDE DEF f
    <3>1. /\ pc' \in [Proc -> Pos] /\ pc[p] = "kill"
          /\ \A q \in Proc : pc'[q] \in {pc[q], "dead"} \/ (q = p /\ pc'[q] = "find")
      BY <3>a, <3>b, <3>c, Zenon
    <3>2. UNCHANGED <<semState, sem, gaveUp>>
      BY <2>15 DEF KillFound
    <3> QED
      BY <3>1, <3>2
  <2>16. CASE Find(p) BY <2>16 DEF Find
  <2>17. CASE Drop(p) BY <2>17 DEF Drop
  <2>18. CASE List(p) BY <2>18 DEF List
  <2>19. CASE Unlock(p) BY <2>19 DEF Unlock
  <2>20. CASE WakeUp(p) BY <2>20 DEF WakeUp
  <2>21. CASE Kill(p) BY <2>21 DEF Kill, End
  <2>22. CASE LockFails(p) BY <2>22 DEF LockFails, GoOnUnlocked
  <2> QED
    BY <1>1, <2>1, <2>2, <2>3, <2>4, <2>5, <2>6, <2>7, <2>8, <2>9, <2>10, <2>11,
       <2>12, <2>13, <2>14, <2>15, <2>16, <2>17, <2>18, <2>19, <2>20, <2>21, <2>22, Zenon DEF Step
<1>2. CASE UNCHANGED vars
  BY <1>2 DEF vars
<1> QED
  BY <1>1, <1>2, SMTT(20) DEF Next, AllOver

\* The semaphore excludes processes from each other as long as nobody gives up
\* waiting, for any number of processes, sessions and slots, wherever
\* processes are killed or crash.
THEOREM Exclusion == Spec => []MutualExclusion
<1>1. Init => SemType /\ SemInv
  BY InitSem
<1>2. SemType /\ SemInv /\ [Next]_vars => (SemType /\ SemInv)'
  BY SemStep
<1>3. SemInv => MutualExclusion
  BY DEF SemInv, MutualExclusion
<1> QED
  BY <1>1, <1>2, <1>3, PTL DEF Spec
-----------------------------------------------------------------------------

\* What a process is at the table for, and what a slot may hold.
TaskInv ==
    /\ pc \in [Proc -> Pos] /\ task \in [Proc -> {"add", "remove", "clear", "list"}]
    /\ idx \in [Proc -> Nat] /\ found \in [Proc -> Placeholder \cup {Null}]
    /\ table \in [Slot -> Placeholder \cup {Other, Null}]
    /\ \A p \in Proc :
         /\ p \in Placeholder => task[p] \in {"add", "remove"}
         /\ p \in Caller /\ pc[p] # "idle" => task[p] \in {"clear", "list"}
         /\ pc[p] \in {"idle", "add", "put", "sleep"} => task[p] = "add"
         /\ pc[p] \in {"search", "kill"} => task[p] = "clear"
         /\ pc[p] \in {"find", "drop"} => task[p] \in {"remove", "clear"}
         /\ pc[p] = "list" => task[p] = "list"

\* The placeholder should be in the table; it is there.
In(q) == Registered(q) /\ pc[q] # "done" /\ ~(pc[q] = "unlock" /\ task[q] = "remove")
Listed(q) == \E i \in Slot : table[i] = q

NoGap == \A i, j \in Slot : i < j /\ table[i] = Null => table[j] = Null

\* The placeholder has one entry while it should have one.  The entry of one that
\* was killed is there only while its killer is about to remove it.
Exact(q) ==
    /\ \A i, j \in Slot : table[i] = q /\ table[j] = q => i = j
    /\ pc[q] # "dead" => (Listed(q) <=> In(q))
    /\ pc[q] = "dead" /\ Listed(q) =>
         \E p \in Caller : pc[p] \in {"find", "drop"} /\ Sid[p] = Sid[q]

\* What a process has found in the table is still true when it uses it, and a
\* killer removes the entry of nobody who lives.
Current(p) ==
    /\ pc[p] = "put" => /\ idx[p] \in Slot /\ table[idx[p]] = Null
                        /\ \A j \in Slot : j < idx[p] => table[j] # Null
    /\ pc[p] = "kill" => \E i \in Mine(p) : table[i] = found[p]
    /\ pc[p] = "drop" => idx[p] \in Mine(p)
Spares(p) ==
    p \in Caller /\ pc[p] \in {"find", "drop"} =>
      \A q \in Placeholder : Alone(q) /\ Sid[q] = Sid[p] /\ Listed(q) => pc[q] = "dead"

TableInv ==
    gaveUp = {} /\ left = {} =>
      /\ NoGap
      /\ \A q \in Placeholder : Alone(q) => Exact(q)
      /\ \A p \in Proc : Current(p) /\ Spares(p)

\* The searches for a slot end at one.
LEMMA LeastIn ==
    ASSUME NEW S \in SUBSET Slot, S # {} PROVE Least(S) \in S /\ \A j \in S : Least(S) <= j
<1>0. S \in SUBSET Nat
  BY ZombieAssumption DEF Slot
<1>1. PICK x \in S : \A y \in S : ~(<<y, x>> \in OpToRel(<, Nat))
  BY <1>0, NatLessThanWellFounded, WFMin, Zenon
<1>2. \A y \in Nat : y < x => <<y, x>> \in OpToRel(<, Nat)
  BY <1>0, Zenon DEF OpToRel
<1>3. \A y \in S : ~(y < x)
  BY <1>0, <1>1, <1>2, Zenon
<1>4. \E i \in S : \A j \in S : i <= j
  BY <1>0, <1>3
<1> QED
  BY <1>4 DEF Least

\* Where the first entry of a session is.
LEMMA MineIn ==
    ASSUME NEW p, Mine(p) # {}
    PROVE  Least(Mine(p)) \in Mine(p) /\ Least(Mine(p)) \in Slot
<1>1. Mine(p) \in SUBSET Slot
  BY DEF Mine
<1> QED
  BY <1>1, LeastIn

\* An entry of p's session is a placeholder's.
LEMMA MineEntry ==
    ASSUME TaskInv, NEW p, NEW i \in Mine(p)
    PROVE  i \in Slot /\ table[i] \in Placeholder /\ Sid[table[i]] = Sid[p]
<1>1. /\ i \in Slot /\ table[i] # Other /\ Sid[table[i]] = Sid[p]
      /\ \A j \in 1..i : table[j] # Null
  BY DEF Mine
<1>2. i \in 1..i
  BY <1>1, ZombieAssumption DEF Slot
<1>3. table[i] # Null
  BY <1>1, <1>2
<1> QED
  BY <1>1, <1>3 DEF TaskInv

\* The initial states satisfy both parts of the invariant.
LEMMA InitTable == Init => TaskInv /\ TableInv
<1> SUFFICES ASSUME Init PROVE TaskInv /\ TableInv
  OBVIOUS
<1>1. PICK n \in 0..Slots : table = [i \in Slot |-> IF i <= n THEN Other ELSE Null]
  BY DEF Init
<1>2. TaskInv
  BY <1>1, ZombieAssumption DEF Init, TaskInv, Pos, Proc
<1>3. \A q \in Placeholder : ~Listed(q) /\ ~In(q) /\ q \in Proc
  BY <1>1, ZombieAssumption DEF Init, Listed, In, Registered, Proc
<1>4. NoGap
  BY <1>1, ZombieAssumption DEF NoGap, Slot
<1>5. \A q \in Placeholder : Exact(q)
  BY <1>3 DEF Exact, Listed, Init
<1>6. \A p \in Proc : Current(p) /\ Spares(p)
  BY DEF Init, Current, Spares
<1> QED
  BY <1>2, <1>4, <1>5, <1>6 DEF TableInv

\* The tasks and the slots keep their types.
LEMMA TaskStep == ASSUME TaskInv, [Next]_vars PROVE TaskInv'
<1> USE ZombieAssumption DEF TaskInv, Go, Forget, End, Pos, Critical, Proc, search, semaphore, history
<1>1. ASSUME NEW p \in Proc, Call(p) \/ Step(p) \/ LockFails(p) \/ Kill(p) PROVE TaskInv'
  <2>1. CASE Call(p)
    BY <2>1 DEF Call, SetPlaceholder, KillAndClear, ListPlaceholders, Begin
  <2>2. CASE SemGet(p) BY <2>2 DEF SemGet
  <2>3. CASE SemInit(p) BY <2>3 DEF SemInit
  <2>4. CASE Poll(p) BY <2>4 DEF Poll
  <2>5. CASE PollFails(p) BY <2>5 DEF PollFails
  <2>6. CASE Lock(p) BY <2>6 DEF Lock
  <2>7. CASE GiveUp(p) BY <2>7 DEF GiveUp, GoOnUnlocked
  <2>8. CASE Attach(p) BY <2>8 DEF Attach
  <2>9. CASE TableFails(p) BY <2>9 DEF TableFails
  <2>10. CASE Add(p)
    <3>1. Free \in SUBSET Slot /\ Free # {}
      BY <2>10 DEF Add, Free
    <3>2. Least(Free) \in Slot
      BY ONLY <3>1, LeastIn
    <3> QED BY <2>10, <3>2 DEF Add, Slot
  <2>11. CASE NoSpace(p) BY <2>11 DEF NoSpace
  <2>12. CASE Put(p)
    <3>1. p \in Placeholder
      BY <2>12 DEF Put
    <3>2. table' \in [Slot -> Placeholder \cup {Other, Null}]
      BY <2>12, <3>1 DEF Put
    <3> QED BY <2>12, <3>2 DEF Put
  <2>13. CASE PutCrashes(p)
    <3>1. p \in Placeholder
      BY <2>13 DEF PutCrashes
    <3>2. table' \in [Slot -> Placeholder \cup {Other, Null}]
      BY <2>13, <3>1 DEF PutCrashes
    <3> QED BY <2>13, <3>2 DEF PutCrashes
  <2>14. CASE Search(p)
    <3>1. Mine(p) # {} => table[Least(Mine(p))] \in Placeholder
      BY MineIn, MineEntry
    <3> QED BY <2>14, <3>1 DEF Search
  <2>15. CASE KillFound(p)
    <3> DEFINE f == [pc EXCEPT ![p] = "find"]
    <3>a. f \in [Proc -> Pos] /\ pc[p] = "kill"
      BY <2>15 DEF KillFound
    <3>b. pc' = [f EXCEPT ![found[p]] = IF @ \in {"done", "dead"} THEN @ ELSE "dead"]
      BY ONLY <2>15, Zenon DEF KillFound
    <3>c. \A q \in Proc : f[q] = IF q = p THEN "find" ELSE pc[q]
      OBVIOUS
    <3> HIDE DEF f
    <3>1. /\ pc' \in [Proc -> Pos]
          /\ \A q \in Proc : pc'[q] \in {pc[q], "dead"} \/ (q = p /\ pc'[q] = "find")
      BY <3>a, <3>b, <3>c, Zenon
    <3>2. \A q \in Proc : pc'[q] # "idle" => pc[q] # "idle" \/ pc'[q] = "dead"
      BY <3>1, <3>a
    <3>3. UNCHANGED <<task, idx, found, table>>
      BY <2>15 DEF KillFound
    <3>4. \A q \in Caller : pc[q] # "idle" \/ pc'[q] = pc[q]
      <4>1. found[p] \notin Caller
        OBVIOUS
      <4> QED
        BY <3>a, <3>b, <3>c, <4>1
    <3> QED
      BY <3>a, <3>1, <3>3, <3>4
  <2>16. CASE Find(p)
    <3>1. Mine(p) # {} => Least(Mine(p)) \in Nat
      BY MineIn DEF Slot
    <3> QED BY <2>16, <3>1 DEF Find
  <2>17. CASE Drop(p)
    <3>1. table' \in [Slot -> Placeholder \cup {Other, Null}]
      <4>1. \A i \in Slot : i < Slots => i + 1 \in Slot
        BY DEF Slot
      <4> QED BY <2>17, <4>1 DEF Drop
    <3> QED BY <2>17, <3>1 DEF Drop
  <2>18. CASE List(p) BY <2>18 DEF List
  <2>19. CASE Unlock(p) BY <2>19 DEF Unlock
  <2>20. CASE WakeUp(p) BY <2>20 DEF WakeUp
  <2>21. CASE Kill(p) BY <2>21 DEF Kill
  <2>22. CASE LockFails(p) BY <2>22 DEF LockFails, GoOnUnlocked
  <2> QED
    BY <1>1, <2>1, <2>2, <2>3, <2>4, <2>5, <2>6, <2>7, <2>8, <2>9, <2>10, <2>11,
       <2>12, <2>13, <2>14, <2>15, <2>16, <2>17, <2>18, <2>19, <2>20, <2>21, <2>22, Zenon DEF Step
<1>2. CASE UNCHANGED vars
  BY <1>2 DEF vars
<1> QED
  BY <1>1, <1>2, SMTT(20) DEF Next, AllOver

\* Only p moves.
Only(p) == \A q \in Proc \ {p} : /\ pc'[q] = pc[q] /\ task'[q] = task[q]
                                 /\ idx'[q] = idx[q] /\ found'[q] = found[q]

\* Once somebody has given up, or ended in the middle of its work, nothing is said
\* of the table.
LEMMA Spoilt == ASSUME gaveUp' # {} \/ left' # {} PROVE TableInv'
BY SMTT(20) DEF TableInv

\* A step that leaves the table alone keeps the invariant if it changes neither
\* whether its process should be in it nor who is about to be removed.
LEMMA Quiet ==
    ASSUME TaskInv, TableInv, NEW p \in Proc, Only(p), table' = table, pc[p] # "dead",
           gaveUp' = {} /\ left' = {} => gaveUp = {} /\ left = {},
           gaveUp' = {} /\ left' = {} =>
             /\ p \in Placeholder /\ Alone(p) =>
                  IF pc'[p] = "dead" THEN ~In(p) ELSE In(p)' = In(p)
             /\ p \in Caller /\ pc'[p] \in {"find", "drop"} => pc[p] \in {"find", "drop"}
             /\ p \in Caller /\ pc[p] \in {"find", "drop"} /\ pc'[p] \notin {"find", "drop"} =>
                  \A q \in Placeholder : Alone(q) /\ Sid[q] = Sid[p] => ~Listed(q)
             /\ Current(p)'
    PROVE  TableInv'
<1> SUFFICES ASSUME gaveUp' = {}, left' = {} PROVE TableInv'
  BY Spoilt, SMTT(20)
<1>0. /\ NoGap /\ \A q \in Placeholder : Alone(q) => Exact(q)
      /\ \A q \in Proc : Current(q) /\ Spares(q)
      /\ Placeholder \subseteq Proc /\ Caller \subseteq Proc
  BY DEF TableInv, Proc
<1>1. NoGap' /\ \A q \in Placeholder : Listed(q)' = Listed(q)
  BY <1>0 DEF NoGap, Listed
<1>2. ASSUME NEW q \in Placeholder, Alone(q) PROVE Exact(q)'
  <2>0. Exact(q)
    BY <1>0, <1>2
  <2>1. \A i, j \in Slot : table'[i] = q /\ table'[j] = q => i = j
    BY <2>0 DEF Exact
  <2>2. CASE q = p
    <3>1. pc'[q] # "dead" => (Listed(q)' <=> In(q)')
      BY <1>1, <1>2, <2>0, <2>2 DEF Exact
    <3>2. pc'[q] = "dead" => ~Listed(q)'
      BY <1>1, <1>2, <2>0, <2>2 DEF Exact
    <3> QED
      BY <2>1, <3>1, <3>2 DEF Exact
  <2>3. CASE q # p
    <3>1. pc'[q] = pc[q] /\ In(q)' = In(q)
      BY <1>0, <2>3 DEF Only, In, Registered
    <3>2. ASSUME pc[q] = "dead", Listed(q)
          PROVE  \E c \in Caller : pc'[c] \in {"find", "drop"} /\ Sid[c] = Sid[q]
      <4>1. PICK c \in Caller : pc[c] \in {"find", "drop"} /\ Sid[c] = Sid[q]
        BY <2>0, <3>2, SMTT(20) DEF Exact
      <4>2. CASE c = p
        BY <1>2, <3>2, <4>1, <4>2
      <4>3. CASE c # p
        BY <1>0, <4>1, <4>3 DEF Only
      <4> QED
        BY <4>2, <4>3, SMTT(20)
    <3> QED
      BY <1>1, <2>0, <2>1, <3>1, <3>2 DEF Exact
  <2> QED
    BY <2>2, <2>3
<1>3. ASSUME NEW q \in Proc PROVE Current(q)'
  <2>1. CASE q = p
    BY <2>1
  <2>2. CASE q # p
    BY <1>0, <2>2, SMTT(20) DEF Only, Current, Mine
  <2> QED
    BY <2>1, <2>2
<1>4. ASSUME NEW c \in Proc PROVE Spares(c)'
  <2> SUFFICES ASSUME c \in Caller, pc'[c] \in {"find", "drop"},
                      NEW q \in Placeholder, Alone(q), Sid[q] = Sid[c], Listed(q)'
               PROVE  pc'[q] = "dead"
    BY DEF Spares
  <2>1. pc[c] \in {"find", "drop"}
    <3>1. CASE c = p
      BY <3>1
    <3>2. CASE c # p
      BY <3>2 DEF Only
    <3> QED
      BY <3>1, <3>2
  <2>2. pc[q] = "dead"
    BY <1>0, <1>1, <2>1 DEF Spares
  <2> QED
    BY <1>0, <2>2 DEF Only
<1> QED
  BY <1>1, <1>2, <1>3, <1>4, ZenonT(40) DEF TableInv

\* A placeholder of a session with one that is in a table without gaps is found.
LEMMA Findable ==
    ASSUME TaskInv, NoGap, NEW p \in Proc, NEW q \in Placeholder, Sid[q] = Sid[p], Listed(q)
    PROVE  Mine(p) # {}
<1>1. PICK i \in Slot : table[i] = q
  BY DEF Listed
<1>2. q # Null /\ q # Other
  BY ZombieAssumption DEF Proc
<1>3. ASSUME NEW j \in 1..i PROVE table[j] # Null
  <2>1. j \in Slot /\ (j < i \/ j = i)
    BY <1>1, ZombieAssumption DEF Slot
  <2> QED
    BY <1>1, <1>2, <2>1 DEF NoGap
<1>4. i \in Mine(p)
  BY <1>1, <1>2, <1>3 DEF Mine
<1> QED
  BY <1>4

\* The steps that leave the table alone.
LEMMA QuietSteps ==
    ASSUME TaskInv, TableInv, NEW p \in Proc,
           \/ Call(p) \/ SemGet(p) \/ SemInit(p) \/ Poll(p) \/ PollFails(p) \/ Lock(p) \/ GiveUp(p)
           \/ Attach(p) \/ TableFails(p) \/ NoSpace(p) \/ List(p) \/ Unlock(p) \/ WakeUp(p) \/ Kill(p)
           \/ LockFails(p)
    PROVE  TableInv'
<1> USE ZombieAssumption DEF TaskInv, Go, Forget, End, Pos, Critical, Proc, search, semaphore, history,
        Only, In, Registered, Current
<1>1. CASE Call(p)
  BY <1>1, Quiet, SMTT(20) DEF Call, SetPlaceholder, KillAndClear, ListPlaceholders, Begin
<1>2. CASE SemGet(p) BY <1>2, Quiet, ZenonT(40) DEF SemGet
<1>3. CASE SemInit(p) BY <1>3, Quiet, ZenonT(40) DEF SemInit
<1>4. CASE Poll(p) BY <1>4, Quiet, ZenonT(40) DEF Poll
<1>5. CASE PollFails(p) BY <1>5, Quiet DEF PollFails
<1>6. CASE Lock(p) BY <1>6, Quiet, ZenonT(40) DEF Lock
<1>7. CASE GiveUp(p) BY <1>7, Spoilt DEF GiveUp, GoOnUnlocked
<1>8. CASE Attach(p) BY <1>8, Quiet DEF Attach
<1>9. CASE TableFails(p) BY <1>9, Spoilt DEF TableFails
<1>10. CASE NoSpace(p) BY <1>10, Quiet DEF NoSpace
<1>11. CASE List(p) BY <1>11, Quiet, Zenon DEF List
<1>12. CASE Unlock(p) BY <1>12, Quiet, SMTT(20) DEF Unlock
<1>13. CASE WakeUp(p) BY <1>13, Quiet, Zenon DEF WakeUp
<1>14. CASE Kill(p) BY <1>14, Quiet, SMTT(20) DEF Kill
<1>15. CASE LockFails(p) BY <1>15, Spoilt DEF LockFails, GoOnUnlocked
<1> QED
  BY <1>1, <1>2, <1>3, <1>4, <1>5, <1>6, <1>7, <1>8, <1>9, <1>10, <1>11, <1>12, <1>13, <1>14, <1>15,
     SMTT(20)

\* The searches: what they end at is there.
LEMMA SearchSteps ==
    ASSUME TaskInv, TableInv, NEW p \in Proc, Add(p) \/ Search(p) \/ Find(p) PROVE TableInv'
<1> SUFFICES ASSUME gaveUp' = {}, left' = {} PROVE TableInv'
  BY Spoilt
<1>0. /\ UNCHANGED <<task, table, gaveUp, left>> /\ pc' = [pc EXCEPT ![p] = pc'[p]]
      /\ pc[p] \in {"add", "search", "find"} /\ pc'[p] # "dead" /\ pc \in [Proc -> Pos]
  BY DEF Add, Search, Find, Go, history, search, TaskInv
<1>1. NoGap /\ p \in Proc /\ gaveUp = {} /\ left = {}
  BY <1>0 DEF TableInv
<1>2. CASE Add(p)
  <2>1. Free \in SUBSET Slot /\ Free # {}
    BY <1>2 DEF Add, Free
  <2>2. Least(Free) \in Free /\ \A j \in Free : Least(Free) <= j
    BY ONLY <2>1, LeastIn
  <2>3. \A j \in Slot : j < Least(Free) => j \notin Free
    <3>1. Slot \subseteq Nat
      BY ZombieAssumption DEF Slot
    <3>2. Least(Free) \in Nat
      BY <2>1, <2>2, <3>1, ZenonT(40)
    <3> QED
      BY <2>2, <3>1, <3>2
  <2>4. pc'[p] = "put" /\ pc[p] = "add" /\ idx'[p] = Least(Free) /\ Only(p)
    BY <1>2 DEF Add, Go, TaskInv, Only
  <2>5. Current(p)'
    BY <1>0, <2>2, <2>3, <2>4 DEF Current, Free
  <2>6. In(p)' = In(p)
    BY <1>0, <2>4 DEF In, Registered
  <2> QED
    BY <1>0, <1>1, <2>4, <2>5, <2>6, Quiet
<1>3. CASE Search(p)
  <2>1. pc[p] = "search" /\ p \in Caller /\ p \notin Placeholder /\ Only(p)
    BY <1>3, ZombieAssumption DEF Search, Go, TaskInv, Only, Proc
  <2>2. pc'[p] = (IF Mine(p) = {} THEN "unlock" ELSE "kill")
      /\ (Mine(p) # {} => found'[p] = table[Least(Mine(p))])
    BY <1>3 DEF Search, Go, TaskInv
  <2>3. Mine(p)' = Mine(p)
    BY <1>0, SMTT(20) DEF Mine
  <2>4. Current(p)'
    BY <1>0, <2>2, <2>3, MineIn, SMTT(20) DEF Current
  <2> QED
    BY <1>0, <1>1, <2>1, <2>2, <2>4, Quiet, Zenon
<1>4. CASE Find(p)
  <2>1. pc[p] = "find" /\ Only(p) /\ (p \in Placeholder => task[p] = "remove")
    BY <1>4 DEF Find, Go, TaskInv, Only
  <2>2. pc'[p] = (IF Mine(p) = {} THEN "unlock" ELSE "drop")
      /\ (Mine(p) # {} => idx'[p] = Least(Mine(p)))
    BY <1>4 DEF Find, Go, TaskInv
  <2>3. Mine(p)' = Mine(p)
    BY <1>0 DEF Mine
  <2>4. Current(p)'
    BY <1>0, <2>2, <2>3, MineIn DEF Current
  <2>5. \A q \in Placeholder : Mine(p) = {} /\ Sid[q] = Sid[p] => ~Listed(q)
    BY <1>1, Findable
  <2>6. ASSUME p \in Placeholder, Alone(p) PROVE In(p)' = In(p)
    <3>1. Listed(p)
      BY <1>1, <2>1, <2>6 DEF TableInv, Exact, In, Registered
    <3>2. pc'[p] = "drop"
      BY <2>2, <2>5, <2>6, <3>1
    <3> QED
      BY <1>0, <2>1, <3>2, SMTT(20) DEF In, Registered
  <2> QED
    BY <1>0, <1>1, <2>1, <2>2, <2>4, <2>5, <2>6, Quiet
<1> QED
  BY <1>2, <1>3, <1>4

\* A process that is at the table is alone there.
LEMMA Sole ==
    ASSUME SemInv, gaveUp = {}, NEW p \in Proc, pc[p] \in Critical
    PROVE  \A q \in Proc : pc[q] \in Critical => q = p
BY DEF SemInv

\* The entry is written: the slots the memset() clears were empty.
LEMMA PutStep ==
    ASSUME TaskInv, SemInv, TableInv, NEW p \in Proc, Put(p) PROVE TableInv'
<1> DEFINE n == idx[p]
<1> SUFFICES ASSUME gaveUp' = {}, left' = {} PROVE TableInv'
  BY Spoilt
<1>0. /\ UNCHANGED <<task, gaveUp, left>> /\ pc' = [pc EXCEPT ![p] = "unlock"] /\ pc[p] = "put"
      /\ pc \in [Proc -> Pos] /\ gaveUp = {} /\ left = {} /\ p \in Placeholder /\ task[p] = "add"
      /\ Placeholder \subseteq Proc /\ Caller \subseteq Proc /\ p # Null
  BY ZombieAssumption, SMTT(20) DEF Put, Go, history, search, TaskInv, Proc
<1>1. /\ NoGap /\ \A q \in Placeholder : Alone(q) => Exact(q)
      /\ n \in Slot /\ table[n] = Null /\ \A j \in Slot : j < n => table[j] # Null
  BY <1>0, Zenon DEF TableInv, Current
<1>2. \A q \in Proc : q # p => pc'[q] = pc[q] /\ pc[q] \notin Critical
  BY <1>0, Sole DEF Critical
<1>3. \A i \in Slot : table'[i] = IF i = n THEN p ELSE table[i]
  <2>1. ASSUME NEW i \in Slot, i \in Cleared(n), i # n PROVE table[i] = Null
    <3>1. i > n
      BY <1>1, <2>1, ZombieAssumption DEF Cleared, Slot
    <3> QED
      BY <1>1, <3>1, ZombieAssumption DEF NoGap, Slot
  <2>2. \A i \in Slot : table'[i] = IF i = n THEN p ELSE IF i \in Cleared(n) THEN Null ELSE table[i]
    BY DEF Put
  <2> QED
    BY <2>1, <2>2
<1> HIDE DEF n
<1>4. NoGap'
  <2> SUFFICES ASSUME NEW i \in Slot, NEW j \in Slot, i < j, table'[i] = Null PROVE table'[j] = Null
    BY DEF NoGap
  <2>1. i # n /\ table[i] = Null
    BY <1>0, <1>3
  <2>2. n < i
    BY <1>1, <2>1, ZombieAssumption DEF Slot
  <2>3. j # n
    BY <1>1, <2>2, ZombieAssumption DEF Slot
  <2> QED
    BY <1>1, <1>3, <2>1, <2>3 DEF NoGap
<1>5. ASSUME NEW q \in Placeholder, Alone(q) PROVE Exact(q)'
  <2>0. Exact(q) /\ q # Null
    BY <1>0, <1>1, <1>5, ZombieAssumption
  <2>1. CASE q = p
    <3>1. ~Listed(p)
      BY <1>0, <2>0, <2>1 DEF Exact, In, Registered
    <3>2. \A i \in Slot : table'[i] = p <=> i = n
      BY <1>3, <3>1 DEF Listed
    <3>3. Listed(p)' /\ In(p)' /\ pc'[p] # "dead"
      BY <1>0, <1>1, <3>2, SMTT(20) DEF Listed, In, Registered
    <3> QED
      BY <2>1, <3>2, <3>3 DEF Exact
  <2>2. CASE q # p
    <3>1. \A i \in Slot : table'[i] = q <=> table[i] = q
      BY <1>1, <1>3, <2>0, <2>2
    <3>2. Listed(q)' = Listed(q) /\ In(q)' = In(q) /\ pc'[q] = pc[q]
      BY <1>0, <1>2, <2>2, <3>1 DEF Listed, In, Registered
    <3>3. ~(pc[q] = "dead" /\ Listed(q))
      BY <1>0, <1>2, <2>0, ZombieAssumption DEF Exact, Critical
    <3> QED
      BY <2>0, <3>1, <3>2, <3>3 DEF Exact
  <2> QED
    BY <2>1, <2>2
<1>6. \A q \in Proc : pc'[q] \notin {"put", "kill", "drop", "find"}
  BY <1>0, <1>2 DEF Critical
<1>7. \A q \in Proc : Current(q)' /\ Spares(q)'
  BY <1>6 DEF Current, Spares
<1> QED
  BY <1>4, <1>5, <1>7 DEF TableInv

\* The kill: who is alone in its session and in the table lives, and the killer is
\* about to remove its entry.
LEMMA KillStep ==
    ASSUME TaskInv, SemInv, TableInv, NEW p \in Proc, KillFound(p) PROVE TableInv'
<1> DEFINE v == found[p]
<1> SUFFICES ASSUME gaveUp' = {}, left' = {} PROVE TableInv'
  BY Spoilt
<1>0. /\ UNCHANGED <<task, idx, found, table, gaveUp, left>> /\ pc[p] = "kill"
      /\ pc \in [Proc -> Pos] /\ gaveUp = {} /\ left = {} /\ p \in Caller /\ p \notin Placeholder
      /\ Placeholder \subseteq Proc /\ Caller \subseteq Proc
  BY ZombieAssumption, SMTT(20) DEF KillFound, history, search, TaskInv, Proc
<1>1. /\ NoGap /\ \A q \in Placeholder : Alone(q) => Exact(q)
      /\ \E i \in Mine(p) : table[i] = v
  BY <1>0 DEF TableInv, Current
<1>2. v \in Placeholder /\ Sid[v] = Sid[p] /\ Listed(v)
  BY <1>1, MineEntry DEF Listed
<1>3. \A q \in Proc : q # p => pc[q] \notin Critical
  BY <1>0, Sole DEF Critical
<1>4. /\ pc'[p] = "find" /\ pc'[v] = IF pc[v] \in {"done", "dead"} THEN pc[v] ELSE "dead"
      /\ \A q \in Proc : q # p /\ q # v => pc'[q] = pc[q]
  <2> DEFINE f == [pc EXCEPT ![p] = "find"]
  <2>1. pc' = [f EXCEPT ![v] = IF @ \in {"done", "dead"} THEN @ ELSE "dead"]
    BY Zenon DEF KillFound
  <2>2. f \in [Proc -> Pos] /\ \A q \in Proc : f[q] = IF q = p THEN "find" ELSE pc[q]
    BY <1>0 DEF Pos, Critical
  <2>3. v # p /\ v \in Proc
    BY <1>0, <1>2
  <2> HIDE DEF f, v
  <2> QED
    BY <2>1, <2>2, <2>3
<1> HIDE DEF v
<1>5. NoGap' /\ \A q \in Placeholder : Listed(q)' = Listed(q)
  BY <1>0, <1>1 DEF NoGap, Listed
<1>6. \A q \in Placeholder : Alone(q) /\ Listed(q) => In(q) /\ pc[q] \notin {"done", "dead"}
  <2> SUFFICES ASSUME NEW q \in Placeholder, Alone(q), Listed(q)
               PROVE  In(q) /\ pc[q] \notin {"done", "dead"}
    OBVIOUS
  <2>1. pc[q] # "dead"
    BY <1>0, <1>1, <1>3 DEF Exact, Critical
  <2> QED
    BY <1>1, <2>1 DEF Exact, In
<1>7. ASSUME NEW q \in Placeholder, Alone(q) PROVE Exact(q)'
  <2>0. Exact(q) /\ q \in Proc /\ q # p
    BY <1>0, <1>1, <1>7
  <2>1. \A i, j \in Slot : table'[i] = q /\ table'[j] = q => i = j
    BY <1>0, <2>0 DEF Exact
  <2>2. CASE q = v
    <3>1. pc'[q] = "dead"
      BY <1>2, <1>4, <1>6, <1>7, <2>2
    <3>2. p \in Caller /\ pc'[p] \in {"find", "drop"} /\ Sid[p] = Sid[q]
      BY <1>0, <1>2, <1>4, <2>2
    <3> QED
      BY <2>1, <3>1, <3>2 DEF Exact
  <2>3. CASE q # v
    <3>1. pc'[q] = pc[q] /\ In(q)' = In(q)
      BY <1>0, <1>4, <2>0, <2>3 DEF In, Registered
    <3>2. pc'[q] = "dead" => ~Listed(q)'
      BY <1>5, <1>6, <1>7, <3>1, Zenon
    <3> QED
      BY <1>5, <2>0, <2>1, <3>1, <3>2 DEF Exact
  <2> QED
    BY <2>2, <2>3
<1>8. \A q \in Proc : pc'[q] \notin {"put", "kill", "drop"} /\ (q # p => pc'[q] # "find")
  BY <1>3, <1>4 DEF Critical
<1>9. \A q \in Proc : Current(q)'
  BY <1>8 DEF Current
<1>10. ASSUME NEW c \in Proc PROVE Spares(c)'
  <2> SUFFICES ASSUME c = p, NEW q \in Placeholder, Alone(q), Sid[q] = Sid[c], Listed(q)'
               PROVE  pc'[q] = "dead"
    BY <1>8 DEF Spares
  <2>1. q = v
    BY <1>2 DEF Alone
  <2> QED
    BY <1>4, <1>5, <1>6, <2>1
<1> QED
  BY <1>5, <1>7, <1>9, <1>10 DEF TableInv

\* The entry goes and the others move up.
LEMMA DropStep ==
    ASSUME TaskInv, SemInv, TableInv, NEW p \in Proc, Drop(p) PROVE TableInv'
<1> DEFINE n == idx[p]
<1> SUFFICES ASSUME gaveUp' = {}, left' = {} PROVE TableInv'
  BY Spoilt
<1>0. /\ UNCHANGED <<task, gaveUp, left>> /\ pc' = [pc EXCEPT ![p] = "unlock"] /\ pc[p] = "drop"
      /\ pc \in [Proc -> Pos] /\ gaveUp = {} /\ left = {}
      /\ (p \in Placeholder => task[p] = "remove")
      /\ Placeholder \subseteq Proc /\ Caller \subseteq Proc /\ Placeholder \cap Caller = {}
  BY ZombieAssumption, SMTT(20) DEF Drop, Go, history, search, TaskInv, Proc
<1>1. /\ NoGap /\ \A q \in Placeholder : Alone(q) => Exact(q)
      /\ n \in Mine(p) /\ Spares(p)
  BY <1>0, Zenon DEF TableInv, Current
<1>2. \A q \in Proc : q # p => pc'[q] = pc[q] /\ pc[q] \notin Critical
  BY <1>0, Sole DEF Critical
<1>3. n \in Slot /\ table[n] \in Placeholder /\ Sid[table[n]] = Sid[p]
  BY <1>1, MineEntry
<1>4. \A i \in Slot : table'[i] = IF i < n THEN table[i] ELSE IF i < Slots THEN table[i + 1] ELSE Null
  BY DEF Drop
<1> HIDE DEF n
<1>5. NoGap'
  <2> SUFFICES ASSUME NEW i \in Slot, NEW j \in Slot, i < j, table'[i] = Null PROVE table'[j] = Null
    BY DEF NoGap
  <2>0. i \in Nat /\ j \in Nat /\ n \in Nat /\ Slots \in Nat /\ i < Slots /\ j <= Slots /\ i + 1 \in Slot
    BY <1>3, ZombieAssumption DEF Slot
  <2>1. CASE i < n
    <3>1. table[i] = Null
      BY <1>4, <2>1
    <3>2. table[n] = Null
      BY <1>1, <1>3, <2>1, <3>1 DEF NoGap
    <3> QED
      BY <1>0, <1>3, <3>2, ZombieAssumption DEF Proc
  <2>2. CASE ~(i < n)
    <3>1. table[i + 1] = Null /\ ~(j < n)
      BY <1>4, <2>0, <2>2
    <3>2. CASE j < Slots
      <4>1. j + 1 \in Slot /\ i + 1 < j + 1 /\ table'[j] = table[j + 1]
        BY <1>4, <2>0, <3>1, <3>2 DEF Slot
      <4> QED
        BY <1>1, <2>0, <3>1, <4>1 DEF NoGap
    <3>3. CASE ~(j < Slots)
      BY <1>4, <3>1, <3>3
    <3> QED
      BY <3>2, <3>3
  <2> QED
    BY <2>1, <2>2
<1>6. ASSUME NEW q \in Placeholder, NEW i \in Slot, table'[i] = q
      PROVE  \E k \in Slot : table[k] = q /\ k # n /\ k = IF i < n THEN i ELSE i + 1
  <2>0. q # Null /\ i \in Nat /\ n \in Nat /\ Slots \in Nat /\ i <= Slots
    BY <1>3, ZombieAssumption DEF Slot, Proc
  <2>1. CASE i < n
    BY <1>4, <1>6, <2>0, <2>1
  <2>2. CASE ~(i < n)
    <3>1. i < Slots /\ table[i + 1] = q
      BY <1>4, <1>6, <2>0, <2>2
    <3>2. i + 1 \in Slot /\ i + 1 # n
      BY <2>0, <2>2, <3>1 DEF Slot
    <3> QED
      BY <2>2, <3>1, <3>2
  <2> QED
    BY <2>1, <2>2
<1>7. ASSUME NEW q \in Placeholder, NEW k \in Slot, k # n, table[k] = q PROVE Listed(q)'
  <2>0. k \in Nat /\ n \in Nat /\ Slots \in Nat /\ k <= Slots /\ 1 <= k /\ 1 <= n
    BY <1>3, ZombieAssumption DEF Slot
  <2>1. CASE k < n
    BY <1>4, <1>7, <2>1 DEF Listed
  <2>2. CASE k > n
    <3>1. k - 1 \in Slot /\ ~(k - 1 < n) /\ k - 1 < Slots /\ (k - 1) + 1 = k
      BY <2>0, <2>2 DEF Slot
    <3>2. table'[k - 1] = q
      BY <1>4, <1>7, <3>1
    <3> QED
      BY <3>1, <3>2 DEF Listed
  <2> QED
    BY <1>7, <2>0, <2>1, <2>2
<1>8. ASSUME NEW q \in Placeholder, Alone(q) PROVE Exact(q)'
  <2>0. Exact(q) /\ q \in Proc
    BY <1>0, <1>1, <1>8
  <2>1. \A i, j \in Slot : table'[i] = q /\ table'[j] = q => i = j
    <3> SUFFICES ASSUME NEW i \in Slot, NEW j \in Slot, table'[i] = q, table'[j] = q PROVE i = j
      OBVIOUS
    <3>1. PICK k \in Slot : table[k] = q /\ k # n /\ k = IF i < n THEN i ELSE i + 1
      BY <1>6
    <3>2. PICK l \in Slot : table[l] = q /\ l # n /\ l = IF j < n THEN j ELSE j + 1
      BY <1>6
    <3>3. k = l
      BY <2>0, <3>1, <3>2 DEF Exact
    <3>4. i \in Nat /\ j \in Nat /\ n \in Nat
      BY <1>3, ZombieAssumption DEF Slot
    <3> QED
      BY <3>1, <3>2, <3>3, <3>4
  <2>2. CASE q = table[n]
    <3>1. ~Listed(q)'
      <4> SUFFICES ASSUME NEW i \in Slot, table'[i] = q PROVE FALSE
        BY DEF Listed
      <4>1. PICK k \in Slot : table[k] = q /\ k # n
        BY <1>6
      <4> QED
        BY <1>3, <2>0, <2>2, <4>1 DEF Exact
    <3>2. pc'[q] # "dead" => ~In(q)'
      <4>1. CASE p \in Placeholder
        <5>1. q = p
          BY <1>3, <1>8, <2>2, <4>1 DEF Alone
        <5> QED
          BY <1>0, <4>1, <5>1 DEF In
      <4>2. CASE p \notin Placeholder
        <5>1. p \in Caller /\ q # p /\ Listed(q)
          BY <1>3, <2>2, <4>2 DEF Proc, Listed
        <5>2. pc[q] = "dead"
          BY <1>0, <1>1, <1>3, <1>8, <2>2, <5>1 DEF Spares
        <5> QED
          BY <1>2, <2>0, <5>1, <5>2
      <4> QED
        BY <4>1, <4>2
    <3> QED
      BY <2>1, <3>1, <3>2 DEF Exact
  <2>3. CASE q # table[n]
    <3>1. Listed(q)' = Listed(q)
      <4>1. Listed(q)' => Listed(q)
        BY <1>6 DEF Listed
      <4>2. Listed(q) => Listed(q)'
        BY <1>7, <2>3 DEF Listed
      <4> QED
        BY <4>1, <4>2 DEF Listed
    <3>2. Sid[q] # Sid[p]
      BY <1>3, <1>8, <2>3 DEF Alone
    <3>3. q # p /\ pc'[q] = pc[q] /\ In(q)' = In(q)
      BY <1>0, <1>2, <2>0, <3>2 DEF In, Registered
    <3>4. pc[q] = "dead" => ~Listed(q)
      BY <1>0, <1>2, <2>0, <3>2 DEF Exact, Critical
    <3> QED
      BY <2>0, <2>1, <3>1, <3>3, <3>4 DEF Exact
  <2> QED
    BY <2>2, <2>3
<1>9. \A q \in Proc : pc'[q] \notin {"put", "kill", "drop", "find"}
  BY <1>0, <1>2 DEF Critical
<1>10. \A q \in Proc : Current(q)' /\ Spares(q)'
  BY <1>9 DEF Current, Spares
<1> QED
  BY <1>5, <1>8, <1>10 DEF TableInv

\* Every step keeps what is said of the table.
LEMMA TableStep == ASSUME TaskInv, SemInv, TableInv, [Next]_vars PROVE TableInv'
<1>1. ASSUME NEW p \in Proc, Call(p) \/ Step(p) \/ LockFails(p) \/ Kill(p) PROVE TableInv'
  <2>1. CASE PutCrashes(p)
    <3>1. left' # {}
      BY <2>1, Zenon DEF PutCrashes, End, Critical
    <3> QED
      BY <3>1, Spoilt, SMTT(20)
  <2> QED
    BY <1>1, <2>1, QuietSteps, SearchSteps, PutStep, KillStep, DropStep DEF Step
<1>2. CASE UNCHANGED vars
  <2>1. UNCHANGED <<pc, task, idx, found, table, gaveUp, left>>
    BY <1>2 DEF vars, search, history
  <2>2. \A q \in Placeholder : Exact(q)' = Exact(q)
    BY <2>1 DEF Exact, Listed, In, Registered
  <2>3. \A q \in Proc : Current(q)' = Current(q) /\ Spares(q)' = Spares(q)
    BY <2>1 DEF Current, Spares, Mine, Listed
  <2> QED
    BY <2>1, <2>2, <2>3 DEF TableInv, NoGap
<1> QED
  BY <1>1, <1>2 DEF Next, AllOver

\* The invariant holds throughout.
LEMMA TableHolds == Spec => [](TaskInv /\ SemInv /\ TableInv)
<1> DEFINE I == SemType /\ SemInv /\ TaskInv /\ TableInv
<1>1. Init => I
  BY InitSem, InitTable
<1>2. I /\ [Next]_vars => I'
  BY SemStep, TaskStep, TableStep
<1>3. I => TaskInv /\ SemInv /\ TableInv
  OBVIOUS
<1> HIDE DEF I
<1> QED
  BY <1>1, <1>2, <1>3, PTL DEF Spec

\* While nobody gave up waiting and nobody ended in the middle of its work,
\* add_sid_pid_pair_to_shm() and remove_pid_for_this_sid() of any number of
\* placeholders and killers keep a table of any size without gaps, in which the only
\* placeholder of a session is listed exactly while it lives and is registered.
THEOREM TableExactHolds == Spec => []TableExact
<1>1. TableInv => TableExact
  BY Zenon DEF TableInv, NoGap, Exact, TableExact, Listed, In
<1> QED
  BY <1>1, TableHolds, PTL

\* Under the same conditions ecryptfs_kill_and_clear_zombie_session_placeholder(), in
\* a session with one placeholder, kills only a placeholder that lives and is of the
\* caller's session, for any number of processes.
THEOREM KillsPlaceholderHolds == Spec => []KillsPlaceholder
<1>1. ASSUME TaskInv, SemInv, TableInv PROVE KillsPlaceholder
  <2> SUFFICES ASSUME gaveUp = {}, left = {}, NEW p \in Caller, pc[p] = "kill", Alone(found[p])
               PROVE  Sid[found[p]] = Sid[p] /\ pc[found[p]] \notin {"done", "dead"}
    BY DEF KillsPlaceholder
  <2> DEFINE v == found[p]
  <2>1. p \in Proc /\ Caller \subseteq Proc
    BY SMTT(20) DEF Proc
  <2>2. \E i \in Mine(p) : table[i] = v
    BY <1>1, <2>1 DEF TableInv, Current
  <2>3. v \in Placeholder /\ Sid[v] = Sid[p] /\ Listed(v)
    BY <1>1, <2>2, MineEntry, SMTT(20) DEF Listed
  <2>4. Exact(v)
    BY <1>1, <2>3, Zenon DEF TableInv
  <2>5. \A q \in Proc : q # p => pc[q] \notin Critical
    BY <1>1, <2>1, Sole DEF Critical
  <2>6. pc[v] # "dead"
    BY <2>1, <2>3, <2>4, <2>5 DEF Exact, Critical
  <2> QED
    BY <2>3, <2>4, <2>6 DEF Exact, In
<1> QED
  BY <1>1, TableHolds, PTL
=============================================================================
