------------------------- MODULE MountEcryptfsProofs -------------------------
(***************************************************************************)
(* Proofs about MountEcryptfs, for any number of runs, any options, any    *)
(* stacks a walk may leave and any failing calls.                          *)
(***************************************************************************)
EXTENDS MountEcryptfs, FiniteSetTheorems, SequenceTheorems, WellFoundedInduction, TLAPS

Mounting == {"pop", "check", "ask", "ask_append", "append"}
Unmounting == {"unlink", "unlink_fnek", "umount"}
Label == {"idle", "graph"} \cup Mounting \cup Unmounting

Text == {x[2] : x \in Option} \cup {""}
Job == [dir : Dirs \cup {""}, opts : OptLists \cup {<<>>}, check : BOOLEAN,
        walk : Stacks \cup {<<>>}, stack : Seq(Option), new : Seq(Option), tries : Nat,
        off : Nat, sig : Text, fnek : Text, stale : BOOLEAN]
Mounted == [dir : Dirs \cup {""}, opts : Seq(Option), checked : BOOLEAN,
            given : OptLists \cup {<<>>}, walk : Stacks \cup {<<>>}]

TypeInv ==
    /\ pc \in [Procs -> Label] /\ job \in [Procs -> Job]
    /\ cache \in Seq(Text \X {1, 2}) /\ mnt \in Seq(Mounted)
    /\ torn \in BOOLEAN /\ spoilt \in BOOLEAN
    /\ \A p \in Procs : pc[p] = "idle" => job[p] = NoJob

\* What the walk made is on the stack still, or in the string already.
Made(j) == Range(j.walk) \cup {Unlink}
Ready(j) ==
    /\ Assembled(j.new, strip_userland_opts(j.opts), Made(j))
    /\ Range(j.stack) \subseteq Made(j)
    /\ \A v \in Made(j) : v \in Range(j.stack) \/ \E x \in Range(j.new) : Inside(v, x)
OptInv == /\ MountOptsExact
          /\ \A i \in 1..Len(mnt) : FekekSigs(mnt[i].opts) # {}
          /\ \A p \in Procs : pc[p] \in Mounting => Ready(job[p])

\* A signature in the string is agreed to, given, or about to be asked for; every
\* cell of the cache, also of half a record, is of a signature agreed to.
Agreed(p, s) == \/ s \in confirmed \/ Sig(s) \in Range(job[p].opts)
                \/ pc[p] \in {"check", "ask"} /\ s = job[p].sig
ConfirmInv ==
    /\ MountConfirmed
    /\ \A i \in 1..Len(cache) : cache[i][1] \in confirmed
    /\ \A p \in Procs : pc[p] \in {"ask_append", "append"} => job[p].sig \in confirmed
    /\ \A p \in Procs : pc[p] \in Mounting /\ job[p].check =>
          \A s \in FekekSigs(job[p].new) : Agreed(p, s)

\* The file never shrinks, so an offset once taken lies in it; offsets and the
\* length are those of whole records.
Even(n) == \E k \in Nat : n = 2 * k
CacheInv ==
    /\ \A p \in Procs : pc[p] = "append" => job[p].off <= Len(cache)
    /\ ~torn => /\ Even(Len(cache)) /\ CacheIsRecords
                /\ \A p \in Procs : pc[p] = "append" => Even(job[p].off)

\* A run of umount.ecryptfs that has unlinked k, or does not know it, and is about
\* to detach the mount it read.
Gives(q, k) == ~job[q].stale /\ (pc[q] = "umount" \/ (pc[q] = "unlink_fnek" /\ k = job[q].sig))

\* Who will see to it that key k goes: a run that has inserted it and will mount
\* with it, or a mount that nobody is detaching without it.
Owned(k) ==
    \/ \E p \in Procs : pc[p] \in Mounting /\ k \in FekekSigs(job[p].stack) \cup FekekSigs(job[p].new)
    \/ \E i \in 1..Len(mnt) : /\ k \in Keys(mnt[i].opts)
                              /\ \A q \in Procs : mnt[i].dir = job[q].dir => ~Gives(q, k)

\* A run of umount.ecryptfs knows the keys of the mount it will detach.
Knows(q) ==
    pc[q] \in Unmounting /\ ~job[q].stale => \A i \in 1..Len(mnt) :
        mnt[i].dir = job[q].dir => Keys(mnt[i].opts) \subseteq {job[q].sig, job[q].fnek}

\* Until something is spoilt every key in use is owned.
KeyInv ==
    /\ "" \notin keyring
    /\ ~spoilt =>
          /\ \A i, k \in 1..Len(mnt) : mnt[i].dir = mnt[k].dir => i = k
          /\ \A i \in 1..Len(mnt) : ~TwoKeys(mnt[i].opts)
          /\ \A q \in Procs : Knows(q)
          /\ \A k \in used \cap keyring : Owned(k)

IInv == TypeInv /\ OptInv /\ ConfirmInv /\ CacheInv /\ KeyInv
-----------------------------------------------------------------------------

\* A set of numbers that is not empty has a least one: the CHOOSE of ReadMtab has a
\* witness.
LEMMA Least == ASSUME NEW S \in SUBSET Nat, S # {} PROVE \E i \in S : \A k \in S : i <= k
<1>1. PICK x \in S : \A y \in S : ~(<<y, x>> \in OpToRel(<, Nat))
  BY NatLessThanWellFounded, WFMin, Zenon
<1>2. \A y \in Nat : y < x => <<y, x>> \in OpToRel(<, Nat)
  BY Zenon DEF OpToRel
<1>3. \A y \in S : ~(y < x)
  BY <1>1, <1>2, Zenon
<1> QED
  BY <1>3

\* A set of positions that is not empty has a last one: so does Umount's.
LEMMA Greatest ==
    ASSUME NEW n \in Nat, NEW S \in SUBSET (1..n), S # {} PROVE \E i \in S : \A k \in S : k <= i
<1> DEFINE T == {n - i : i \in S}
<1>0. \A i \in S : n - i \in Nat
  OBVIOUS
<1>1. T \in SUBSET Nat /\ T # {}
  BY <1>0, Zenon
<1>2. PICK t \in T : \A u \in T : t <= u
  BY <1>1, Least, Zenon
<1>3. PICK i \in S : t = n - i
  BY <1>2
<1>4. \A k \in S : n - k \in T
  OBVIOUS
<1>5. \A k \in S : n - i <= n - k
  BY <1>2, <1>3, <1>4, Zenon
<1> QED
  BY <1>5

\* The elements of a sequence are those at its positions.
LEMMA RangeOf ==
    ASSUME NEW S, NEW s \in Seq(S)
    PROVE  Range(s) = {s[i] : i \in 1..Len(s)} /\ Range(s) \subseteq S
BY DEF Range

\* Positions can be put in order: the CHOOSE of SetToSortedSeq has a witness.
Sorts(f, K) ==
    f \in [1..Cardinality(K) -> K] /\ \A i, k \in 1..Cardinality(K) : i < k => f[i] < f[k]

\* One position more, behind all others, goes to the end.
LEMMA SortExtends ==
    ASSUME NEW m \in Nat, NEW L \in SUBSET (1..m), NEW f, Sorts(f, L)
    PROVE  \E g : Sorts(g, L \cup {m + 1})
<1> DEFINE n == Cardinality(L)
           K == L \cup {m + 1}
           g == [i \in 1..(n + 1) |-> IF i = n + 1 THEN m + 1 ELSE f[i]]
<1>1. IsFiniteSet(L) /\ n \in Nat
  <2>1. IsFiniteSet(1..m)
    BY FS_Interval
  <2> QED
    BY <2>1, FS_Subset, FS_CardinalityType
<1>2. Cardinality(K) = n + 1
  <2>1. m + 1 \notin L
    OBVIOUS
  <2> QED
    BY <1>1, <2>1, FS_AddElement
<1>3. \A i \in 1..n : f[i] \in L /\ f[i] \in 1..m
  BY DEF Sorts
<1>4. \A i, k \in 1..n : i < k => f[i] < f[k]
  BY DEF Sorts
<1> HIDE DEF n
<1>5. g \in [1..(n + 1) -> K]
  BY <1>1, <1>3
<1>6. \A i, k \in 1..(n + 1) : i < k => g[i] < g[k]
  BY <1>1, <1>3, <1>4
<1>7. Sorts(g, K)
  BY <1>2, <1>5, <1>6 DEF Sorts
<1> QED
  BY <1>7

\* By least counterexample: a set of positions without the last one can be sorted.
LEMMA SortExists ==
    ASSUME NEW n \in Nat, NEW K \in SUBSET (1..n) PROVE \E f : Sorts(f, K)
<1> DEFINE Bad == {m \in Nat : \E L \in SUBSET (1..m) : ~ \E f : Sorts(f, L)}
<1> SUFFICES ASSUME Bad # {} PROVE FALSE
  BY Zenon
<1>1. Bad \in SUBSET Nat
  BY Zenon
<1>2. PICK m \in Bad : \A k \in Bad : m <= k
  BY <1>1, Least, Zenon
<1>3. PICK L \in SUBSET (1..m) : ~ \E f : Sorts(f, L)
  BY <1>2, Zenon
<1>4. m \in Nat
  BY <1>1, <1>2
<1>5. CASE m = 0
  <2>1. L = {}
    BY <1>5
  <2>2. Cardinality(L) = 0
    BY <2>1, FS_EmptySet, Zenon
  <2>3. Sorts([i \in 1..0 |-> i], L)
    BY <2>1, <2>2 DEF Sorts
  <2> QED
    BY <1>3, <2>3, Zenon
<1>6. CASE m # 0
  <2>1. m - 1 \in Nat /\ m - 1 \notin Bad
    BY <1>2, <1>4, <1>6
  <2>2. \A M \in SUBSET (1..(m - 1)) : \E f : Sorts(f, M)
    BY <2>1, Zenon
  <2>3. L \ {m} \in SUBSET (1..(m - 1))
    BY <1>4
  <2>4. PICK f : Sorts(f, L \ {m})
    BY <2>2, <2>3, Zenon
  <2>5. CASE m \in L
    <3>1. L = (L \ {m}) \cup {(m - 1) + 1}
      BY <1>4, <2>5
    <3> QED
      BY <1>3, <2>1, <2>3, <2>4, <3>1, SortExtends
  <2>6. CASE m \notin L
    <3>1. L \ {m} = L
      BY <2>6
    <3> QED
      BY <1>3, <2>4, <3>1, Zenon
  <2> QED
    BY <2>5, <2>6
<1> QED
  BY <1>5, <1>6

\* What strip_userland_opts() leaves is of what the user gave.
LEMMA Strip ==
    ASSUME NEW o \in Seq(Option)
    PROVE  LET s == strip_userland_opts(o) IN
           /\ s \in Seq(Option)
           /\ \A x \in FekekSigs(s) : Sig(x) \in Range(o)
<1> DEFINE K == {i \in 1..Len(o) : ~parameter_should_be_scrubbed(o[i])}
           at == SetToSortedSeq(K)
           n == Cardinality(K)
           s == strip_userland_opts(o)
<1>1. Len(o) \in Nat /\ K \in SUBSET (1..Len(o))
  OBVIOUS
<1>2. n \in Nat
  <2>1. IsFiniteSet(1..Len(o))
    BY <1>1, FS_Interval
  <2>2. IsFiniteSet(K)
    BY <1>1, <2>1, FS_Subset, Zenon
  <2> QED
    BY <2>2, FS_CardinalityType, Zenon
<1>3. at \in [1..n -> K]
  BY <1>1, SortExists, Zenon DEF SetToSortedSeq, Sorts
<1>4. s = [i \in 1..Len(at) |-> o[at[i]]]
  BY Zenon DEF strip_userland_opts
<1> HIDE DEF at, n, s
<1>5. Len(at) = n
  <2> HIDE DEF K
  <2> QED
    BY <1>2, <1>3
<1>6. \A i \in 1..n : at[i] \in 1..Len(o)
  BY <1>1, <1>3
<1> HIDE DEF K
<1>7. s \in [1..n -> Option] /\ \A i \in 1..n : s[i] \in Range(o)
  BY <1>4, <1>5, <1>6, RangeOf
<1>8. s \in Seq(Option) /\ Len(s) = n
  BY <1>2, <1>7
<1>9. \A x \in FekekSigs(s) : Sig(x) \in Range(o)
  <2> SUFFICES ASSUME NEW i \in 1..Len(s), s[i][1] = "ecryptfs_sig" PROVE Sig(s[i][2]) \in Range(o)
    BY Zenon DEF FekekSigs
  <2>1. s[i] \in Option /\ s[i] \in Range(o)
    BY <1>7, <1>8
  <2>2. s[i] = <<s[i][1], s[i][2]>>
    BY <2>1, OptionAssumption, Zenon
  <2> QED
    BY <2>1, <2>2, Zenon DEF Sig
<1> QED
  BY <1>8, <1>9 DEF s

\* What one option more in front of the string changes.
LEMMA PrependFacts ==
    ASSUME NEW v \in Option, NEW o \in Seq(Option)
    PROVE  /\ Prepend(v, o) \in Seq(Option)
           /\ Range(o) \subseteq Range(Prepend(v, o))
           /\ \E x \in Range(Prepend(v, o)) : Inside(v, x)
           /\ FekekSigs(Prepend(v, o)) = FekekSigs(o) \cup {s \in {v[2]} : v[1] = "ecryptfs_sig"}
<1>1. CASE \E x \in Range(o) : Inside(v, x)
  <2>1. Prepend(v, o) = o
    BY <1>1, Zenon DEF Prepend
  <2>2. ASSUME v[1] = "ecryptfs_sig" PROVE v[2] \in FekekSigs(o)
    <3>1. v \in Range(o)
      BY <1>1, <2>2, RangeOf, OptionAssumption, Zenon
    <3> QED
      BY <2>2, <3>1, RangeOf DEF FekekSigs
  <2> QED
    BY <1>1, <2>1, <2>2
<1>2. CASE ~ \E x \in Range(o) : Inside(v, x)
  <2> DEFINE n == <<v>> \o o
  <2>1. Prepend(v, o) = n
    BY <1>2, Zenon DEF Prepend
  <2>2. /\ n \in Seq(Option) /\ Len(n) = Len(o) + 1 /\ n[1] = v
        /\ \A i \in 1..Len(o) : i + 1 \in 1..Len(n) /\ n[i + 1] = o[i]
        /\ \A i \in 1..Len(n) : i = 1 \/ (i - 1 \in 1..Len(o) /\ n[i] = o[i - 1])
    OBVIOUS
  <2> HIDE DEF n
  <2>3. Range(o) \subseteq Range(n)
    BY <2>2, RangeOf
  <2>4. v \in Range(n) /\ Inside(v, v)
    <3>1. v \in Range(n)
      BY <2>2, RangeOf
    <3> QED
      BY <3>1, Zenon DEF Inside
  <2>5. FekekSigs(n) = FekekSigs(o) \cup {s \in {v[2]} : v[1] = "ecryptfs_sig"}
    <3>1. \A s : s \in FekekSigs(o) => s \in FekekSigs(n)
      <4> SUFFICES ASSUME NEW i \in 1..Len(o), o[i][1] = "ecryptfs_sig" PROVE o[i][2] \in FekekSigs(n)
        BY Zenon DEF FekekSigs
      <4>1. i + 1 \in 1..Len(n) /\ n[i + 1] = o[i]
        BY <2>2, Zenon
      <4> QED
        BY <4>1, Zenon DEF FekekSigs
    <3>2. v[1] = "ecryptfs_sig" => v[2] \in FekekSigs(n)
      BY <2>2 DEF FekekSigs
    <3>3. ASSUME NEW i \in 1..Len(n), n[i][1] = "ecryptfs_sig"
          PROVE  n[i][2] \in FekekSigs(o) \cup {s \in {v[2]} : v[1] = "ecryptfs_sig"}
      <4>1. CASE i = 1
        BY <2>2, <3>3, <4>1
      <4>2. CASE i - 1 \in 1..Len(o) /\ n[i] = o[i - 1]
        BY <3>3, <4>2 DEF FekekSigs
      <4> QED
        BY <2>2, <4>1, <4>2
    <3>4. \A s : s \in FekekSigs(n) => \E i \in 1..Len(n) : n[i][1] = "ecryptfs_sig" /\ s = n[i][2]
      BY Zenon DEF FekekSigs
    <3> QED
      BY <3>1, <3>2, <3>3, <3>4
  <2> QED
    BY <2>1, <2>2, <2>3, <2>4, <2>5, Zenon
<1> QED
  BY <1>1, <1>2

\* The string stays assembled: what is put in front is not in it yet.
LEMMA PrependAssembles ==
    ASSUME NEW v \in Option, NEW o \in Seq(Option), NEW kept \in Seq(Option), NEW S, v \in S,
           Assembled(o, kept, S)
    PROVE  Assembled(Prepend(v, o), kept, S)
<1>1. CASE \E x \in Range(o) : Inside(v, x)
  BY <1>1, Zenon DEF Prepend
<1>2. CASE ~ \E x \in Range(o) : Inside(v, x)
  <2> DEFINE n == <<v>> \o o
             a == Len(o) - Len(kept)
  <2>1. Prepend(v, o) = n
    BY <1>2, Zenon DEF Prepend
  <2>2. /\ n \in Seq(Option) /\ Len(n) = Len(o) + 1 /\ n[1] = v
        /\ \A i \in 1..Len(n) : i = 1 \/ (i - 1 \in 1..Len(o) /\ n[i] = o[i - 1])
    OBVIOUS
  <2>3. \A i \in 1..Len(o) : o[i] # v
    <3>1. v \notin Range(o)
      BY <1>2, Zenon DEF Inside
    <3> QED
      BY <3>1, RangeOf
  <2>4. /\ Len(o) \in Nat /\ Len(kept) \in Nat /\ a \in Nat
        /\ \A i \in 1..Len(kept) : o[a + i] = kept[i]
        /\ \A i \in 1..a : o[i] \in S \ Range(kept)
        /\ \A i, k \in 1..a : o[i] = o[k] => i = k
    BY DEF Assembled
  <2>5. v \notin Range(kept)
    <3>1. \A i \in 1..Len(kept) : a + i \in 1..Len(o)
      BY <2>4
    <3>2. \A i \in 1..Len(kept) : kept[i] # v
      BY <2>3, <2>4, <3>1
    <3> QED
      BY <3>2, RangeOf
  <2> HIDE DEF n
  <2>6. Len(n) - Len(kept) = a + 1
    BY <2>2, <2>4
  <2>7. \A i \in 1..Len(kept) : n[a + 1 + i] = kept[i]
    BY <2>2, <2>4
  <2>8. \A i \in 1..(a + 1) : n[i] \in S \ Range(kept)
    BY <2>2, <2>4, <2>5
  <2>9. \A i, k \in 1..(a + 1) : n[i] = n[k] => i = k
    <3>1. \A i \in 1..(a + 1) : i = 1 \/ (i - 1 \in 1..a /\ i - 1 \in 1..Len(o) /\ n[i] = o[i - 1])
      BY <2>2, <2>4
    <3> SUFFICES ASSUME NEW i \in 1..(a + 1), NEW k \in 1..(a + 1), n[i] = n[k] PROVE i = k
      OBVIOUS
    <3>2. CASE i = 1 \/ k = 1
      BY <2>2, <2>3, <3>1, <3>2
    <3>3. CASE i # 1 /\ k # 1
      <4>1. i - 1 \in 1..a /\ k - 1 \in 1..a /\ o[i - 1] = o[k - 1]
        BY <3>1, <3>3
      <4>2. i - 1 = k - 1
        BY <2>4, <4>1, Zenon
      <4> QED
        BY <4>2
    <3> QED
      BY <3>2, <3>3
  <2>10. Len(n) - Len(kept) >= 0
    BY <2>4, <2>6
  <2> HIDE DEF a
  <2> QED
    BY <2>1, <2>6, <2>7, <2>8, <2>9, <2>10, Zenon DEF Assembled
<1> QED
  BY <1>1, <1>2

\* What one option less on the stack changes.
LEMMA PopFacts ==
    ASSUME NEW s \in Seq(Option), s # <<>>
    PROVE  /\ Last(s) \in Option /\ Front(s) \in Seq(Option)
           /\ Range(s) = Range(Front(s)) \cup {Last(s)}
           /\ FekekSigs(s) = FekekSigs(Front(s)) \cup {x \in {Last(s)[2]} : Last(s)[1] = "ecryptfs_sig"}
<1> DEFINE f == Front(s)
           n == Len(s)
<1>1. /\ n \in Nat \ {0} /\ f \in Seq(Option) /\ Len(f) = n - 1 /\ Last(s) = s[n]
      /\ Last(s) \in Option /\ \A i \in 1..Len(f) : f[i] = s[i]
  <2>1. n \in Nat \ {0} /\ \A i \in 1..n : s[i] \in Option
    BY EmptySeq, ElementOfSeq
  <2>2. n - 1 \in Int /\ \A i \in 1..(n - 1) : s[i] \in Option
    BY <2>1
  <2>3. /\ SubSeq(s, 1, n - 1) \in Seq(Option)
        /\ Len(SubSeq(s, 1, n - 1)) = IF 1 <= n - 1 THEN n - 1 - 1 + 1 ELSE 0
        /\ \A i \in 1..(n - 1 - 1 + 1) : SubSeq(s, 1, n - 1)[i] = s[1 + i - 1]
    BY <2>2, SubSeqProperties
  <2>4. f = SubSeq(s, 1, n - 1)
    BY DEF Front
  <2> HIDE DEF f, n
  <2>5. Len(f) = n - 1
    BY <2>1, <2>3, <2>4
  <2>6. \A i \in 1..(n - 1) : i \in 1..(n - 1 - 1 + 1) /\ 1 + i - 1 = i
    BY <2>1
  <2>7. \A i \in 1..(n - 1) : f[i] = s[i]
    BY <2>3, <2>4, <2>6
  <2> QED
    BY <2>1, <2>3, <2>4, <2>5, <2>7 DEF Last, n
<1> HIDE DEF f
<1>2. Range(s) = Range(f) \cup {Last(s)}
  BY <1>1, RangeOf
<1>3. FekekSigs(s) = FekekSigs(f) \cup {x \in {Last(s)[2]} : Last(s)[1] = "ecryptfs_sig"}
  BY <1>1 DEF FekekSigs
<1> QED
  BY <1>1, <1>2, <1>3 DEF f

\* What ecryptfs_do_mount() finds on the stack once it has put its own option there.
LEMMA PushFacts ==
    ASSUME NEW s \in Seq(Option)
    PROVE  /\ Append(s, Unlink) \in Seq(Option)
           /\ Range(Append(s, Unlink)) = Range(s) \cup {Unlink}
           /\ FekekSigs(Append(s, Unlink)) = FekekSigs(s)
<1> DEFINE a == Append(s, Unlink)
<1>0. Unlink[1] = "ecryptfs_unlink_sigs"
  BY DEF Unlink
<1>1. /\ a \in Seq(Option) /\ Len(a) = Len(s) + 1 /\ a[Len(a)] = Unlink
      /\ \A i \in 1..Len(s) : i \in 1..Len(a) /\ a[i] = s[i]
      /\ \A i \in 1..Len(a) : i = Len(a) \/ (i \in 1..Len(s) /\ a[i] = s[i])
  <2>1. Unlink \in Option
    BY Zenon DEF Option
  <2> QED
    BY <2>1
<1> HIDE DEF a
<1>2. Range(a) = Range(s) \cup {Unlink}
  <2>1. \A i \in 1..Len(a) : a[i] \in Range(s) \cup {Unlink}
    BY <1>1, RangeOf
  <2>2. \A i \in 1..Len(s) : s[i] \in Range(a)
    BY <1>1, RangeOf
  <2>3. Unlink \in Range(a)
    BY <1>1, RangeOf
  <2> QED
    BY <1>1, <2>1, <2>2, <2>3, RangeOf
<1>3. FekekSigs(a) = FekekSigs(s)
  <2>1. \A i \in 1..Len(a) : a[i][1] = "ecryptfs_sig" => a[i][2] \in FekekSigs(s)
    BY <1>0, <1>1 DEF FekekSigs
  <2>2. \A i \in 1..Len(s) : s[i][1] = "ecryptfs_sig" => s[i][2] \in FekekSigs(a)
    BY <1>1 DEF FekekSigs
  <2> QED
    BY <2>1, <2>2 DEF FekekSigs
<1> QED
  BY <1>1, <1>2, <1>3 DEF a

\* Before anything runs the invariant holds.
LEMMA InitIInv == Init => IInv
<1> SUFFICES ASSUME Init PROVE IInv
  OBVIOUS
<1>1. NoJob \in Job
  BY DEF NoJob, Job, Text
<1>2. TypeInv
  <2>1. pc \in [Procs -> Label] /\ job \in [Procs -> Job] /\ torn \in BOOLEAN /\ spoilt \in BOOLEAN
    BY <1>1, Zenon DEF Init, Label
  <2>2. cache \in Seq(Text \X {1, 2}) /\ mnt \in Seq(Mounted)
    BY EmptySeq DEF Init
  <2>3. \A p \in Procs : job[p] = NoJob
    BY DEF Init
  <2> QED
    BY <2>1, <2>2, <2>3 DEF TypeInv
<1>3. OptInv /\ ConfirmInv
  BY DEF Init, OptInv, MountOptsExact, ConfirmInv, MountConfirmed, Mounting
<1>4. CacheInv
  BY DEF Init, CacheInv, CacheIsRecords, Even
<1>5. KeyInv
  <2>1. "" \notin keyring
    BY OptionAssumption, Zenon DEF Init
  <2>2. 1..Len(mnt) = {} /\ used = {} /\ \A q \in Procs : Knows(q)
    BY DEF Init, Unmounting, Knows
  <2> QED
    BY <2>1, <2>2, Zenon DEF KeyInv
<1> QED
  BY <1>2, <1>3, <1>4, <1>5 DEF IInv

\* The invariant implies what the run checks.
LEMMA IInvImplies == IInv => MountOptsExact /\ MountConfirmed /\ CacheIsRecords /\ KeysGone
<1> SUFFICES ASSUME IInv PROVE MountOptsExact /\ MountConfirmed /\ CacheIsRecords /\ KeysGone
  OBVIOUS
<1>1. MountOptsExact /\ MountConfirmed
  BY DEF IInv, OptInv, ConfirmInv
<1>2. CacheIsRecords
  BY DEF IInv, CacheInv, CacheIsRecords
<1>3. KeysGone
  <2> SUFFICES ASSUME \A p \in Procs : pc[p] = "idle", mnt = <<>>, ~spoilt, NEW k \in used \cap keyring
               PROVE  FALSE
    BY DEF KeysGone
  <2>1. Owned(k)
    BY Zenon DEF IInv, KeyInv
  <2> QED
    BY <2>1 DEF Owned, Mounting
<1> QED
  BY <1>1, <1>2, <1>3

\* What ReadMtab reads of a mount: the keys, if there are not two of a kind.
LEMMA FirstFacts ==
    ASSUME NEW o \in Seq(Option), NEW name,
           NEW S, S = {i \in 1..Len(o) : o[i][1] = name}, S # {}
    PROVE  LET x == o[CHOOSE i \in S : \A k \in S : i <= k] IN
           x \in Option /\ x[2] \in Text /\ x[2] \in {o[i][2] : i \in S}
<1>1. S \in SUBSET Nat
  OBVIOUS
<1>2. PICK m \in S : \A k \in S : m <= k
  BY <1>1, Least, Zenon
<1> DEFINE c == CHOOSE i \in S : \A k \in S : i <= k
<1>3. c \in S
  BY <1>2, Zenon
<1> HIDE DEF c
<1>4. o[c] \in Option
  BY <1>3
<1>5. o[c][2] \in Text
  BY <1>4, Zenon DEF Text
<1> QED
  BY <1>3, <1>4, <1>5, Zenon DEF c

-----------------------------------------------------------------------------
\* Process p comes to label l with job j; nobody else moves.
Move(p, l, j) == pc' = [pc EXCEPT ![p] = l] /\ job' = [job EXCEPT ![p] = j]
Alone(p) == \A q \in Procs : q # p => pc'[q] = pc[q] /\ job'[q] = job[q]

\* A move keeps the types.
LEMMA Moved ==
    ASSUME TypeInv, NEW p \in Procs, NEW l \in Label, NEW j \in Job, Move(p, l, j),
           l = "idle" => j = NoJob,
           cache' \in Seq(Text \X {1, 2}), mnt' \in Seq(Mounted), torn' \in BOOLEAN,
           spoilt' \in BOOLEAN
    PROVE  TypeInv' /\ Alone(p) /\ pc'[p] = l /\ job'[p] = j
BY DEF TypeInv, Move, Alone

\* A run that does not touch its options keeps what is said of them.
LEMMA OptKeeps ==
    ASSUME OptInv, NEW p \in Procs, Alone(p), mnt' = mnt,
           pc'[p] \in Mounting => Ready(job'[p])
    PROVE  OptInv'
BY DEF OptInv, Alone, MountOptsExact

\* Agreement is never withdrawn.
LEMMA ConfirmKeeps ==
    ASSUME ConfirmInv, NEW p \in Procs, Alone(p), mnt' = mnt, confirmed \subseteq confirmed',
           \A i \in 1..Len(cache') : cache'[i][1] \in confirmed',
           pc'[p] \in {"ask_append", "append"} => job'[p].sig \in confirmed',
           pc'[p] \in Mounting /\ job'[p].check => \A s \in FekekSigs(job'[p].new) : Agreed(p, s)'
    PROVE  ConfirmInv'
<1>1. MountConfirmed'
  BY DEF ConfirmInv, MountConfirmed
<1>2. \A q \in Procs : pc'[q] \in {"ask_append", "append"} => job'[q].sig \in confirmed'
  BY DEF ConfirmInv, Alone
<1>3. ASSUME NEW q \in Procs, pc'[q] \in Mounting, job'[q].check, NEW s \in FekekSigs(job'[q].new)
      PROVE  Agreed(q, s)'
  BY <1>3 DEF ConfirmInv, Alone, Agreed
<1> QED
  BY <1>1, <1>2, <1>3 DEF ConfirmInv

\* The file stays as it is.
LEMMA CacheKeeps ==
    ASSUME CacheInv, NEW p \in Procs, Alone(p), cache' = cache, torn' = torn,
           confirmed \subseteq confirmed', pc'[p] # "append"
    PROVE  CacheInv'
BY DEF CacheInv, CacheIsRecords, Alone

\* A run of mount.ecryptfs keeps the keys it owns and takes none away.
LEMMA KeyKeeps ==
    ASSUME KeyInv, NEW p \in Procs, Alone(p), UNCHANGED <<keyring, mnt, used, spoilt>>,
           pc[p] \notin Unmounting, pc'[p] \notin Unmounting,
           pc[p] \in Mounting =>
              /\ pc'[p] \in Mounting
              /\ FekekSigs(job[p].stack) \cup FekekSigs(job[p].new)
                   \subseteq FekekSigs(job'[p].stack) \cup FekekSigs(job'[p].new)
    PROVE  KeyInv'
<1> SUFFICES ASSUME ~spoilt PROVE KeyInv'
  BY Zenon DEF KeyInv
<1>1. \A q \in Procs : pc'[q] \in Unmounting /\ ~job'[q].stale =>
         pc[q] \in Unmounting /\ job'[q] = job[q]
  BY DEF Alone
<1>2. ASSUME NEW k \in used \cap keyring PROVE Owned(k)'
  <2>1. Owned(k)
    BY Zenon DEF KeyInv
  <2>2. CASE \E q \in Procs : pc[q] \in Mounting /\ k \in FekekSigs(job[q].stack) \cup FekekSigs(job[q].new)
    BY <2>2 DEF Owned, Alone
  <2>3. ASSUME NEW i \in 1..Len(mnt), k \in Keys(mnt[i].opts),
               \A q \in Procs : mnt[i].dir = job[q].dir => ~Gives(q, k)
        PROVE  Owned(k)'
    <3>1. \A q \in Procs : mnt[i].dir = job'[q].dir => ~Gives(q, k)'
      BY <2>3 DEF Gives, Alone, Unmounting
    <3> QED
      BY <2>3, <3>1 DEF Owned
  <2> QED
    BY <2>1, <2>2, <2>3 DEF Owned
<1>3. \A q \in Procs : Knows(q)'
  BY <1>1, Zenon DEF KeyInv, Knows
<1> QED
  BY <1>2, <1>3, Zenon DEF KeyInv

\* Once something is spoilt nothing is said of the keys.
LEMMA KeySpoilt == ASSUME KeyInv, keyring' \subseteq keyring, spoilt' PROVE KeyInv'
BY Zenon DEF KeyInv

\* What a job is when there is none.
LEMMA NoJobType == NoJob \in Job
BY DEF NoJob, Job, Text

\* The options a run was given are options.
LEMMA GivenFacts == ASSUME NEW j \in Job PROVE j.opts \in Seq(Option)
<1>1. j.opts \in OptLists \/ j.opts = <<>>
  BY Zenon DEF Job
<1>2. ASSUME j.opts \in OptLists PROVE j.opts \in Seq(Option)
  BY <1>2, OptionAssumption, Zenon
<1> QED
  BY <1>1, <1>2, EmptySeq

\* A mount run that gives up.
LEMMA GiveUpStep == ASSUME IInv, NEW p \in Procs, GiveUp(p) PROVE IInv'
<1>1. Move(p, "idle", NoJob) /\ spoilt' = TRUE
  BY Zenon DEF GiveUp, Leave, Goto, Move, Spoil
<1>2. TypeInv' /\ Alone(p) /\ pc'[p] = "idle" /\ job'[p] = NoJob
  BY <1>1, Moved, NoJobType DEF IInv, TypeInv, GiveUp, Label
<1>3. OptInv'
  BY <1>2, OptKeeps DEF IInv, GiveUp, Mounting
<1>4. ConfirmInv'
  BY <1>2, ConfirmKeeps DEF IInv, GiveUp, Mounting, ConfirmInv
<1>5. CacheInv'
  BY <1>2, CacheKeeps DEF IInv, GiveUp
<1>6. KeyInv'
  BY <1>1, KeySpoilt DEF IInv, GiveUp
<1> QED
  BY <1>2, <1>3, <1>4, <1>5, <1>6 DEF IInv

\* main() of mount.ecryptfs.
LEMMA StartStep == ASSUME IInv, NEW p \in Procs, Start(p) PROVE IInv'
<1>1. PICK d \in Dirs, o \in OptLists, c \in BOOLEAN :
         Move(p, "graph", [NoJob EXCEPT !.dir = d, !.opts = o, !.check = c])
  BY Zenon DEF Start, Goto, Move
<1> DEFINE j == [NoJob EXCEPT !.dir = d, !.opts = o, !.check = c]
<1>2. j \in Job
  BY NoJobType, Zenon DEF Job
<1>3. TypeInv' /\ Alone(p) /\ pc'[p] = "graph"
  BY <1>1, <1>2, Moved, Zenon DEF IInv, TypeInv, Start, Label, History
<1>4. OptInv'
  BY <1>3, OptKeeps DEF IInv, Start, Mounting
<1>5. ConfirmInv'
  BY <1>3, ConfirmKeeps DEF IInv, Start, Mounting, ConfirmInv, History
<1>6. CacheInv'
  BY <1>3, CacheKeeps DEF IInv, Start, History
<1>7. KeyInv'
  BY <1>3, KeyKeeps DEF IInv, Start, Mounting, Unmounting, History
<1> QED
  BY <1>3, <1>4, <1>5, <1>6, <1>7 DEF IInv

\* One round of the loop of ecryptfs_do_mount().
LEMMA PopStep == ASSUME IInv, NEW p \in Procs, Pop(p) PROVE IInv'
<1> DEFINE v == Last(job[p].stack)
           c == job[p].check /\ v[1] = "ecryptfs_sig"
           s == IF c THEN v[2] ELSE ""
           j == [job[p] EXCEPT !.stack = Front(job[p].stack), !.new = Prepend(v, job[p].new), !.sig = s]
           l == IF c THEN "check" ELSE "pop"
<1>1. Move(p, l, j) /\ pc[p] = "pop" /\ job[p].stack # <<>> /\ job[p] \in Job
  BY Zenon DEF Pop, Goto, Move, IInv, TypeInv
<1>2. job[p].stack \in Seq(Option) /\ job[p].new \in Seq(Option)
  BY <1>1, Zenon DEF Job
<1>3. /\ v \in Option /\ Front(job[p].stack) \in Seq(Option)
      /\ Range(job[p].stack) = Range(Front(job[p].stack)) \cup {v}
      /\ FekekSigs(job[p].stack)
           = FekekSigs(Front(job[p].stack)) \cup {x \in {v[2]} : v[1] = "ecryptfs_sig"}
  BY <1>1, <1>2, PopFacts
<1> HIDE DEF v
<1>4. /\ Prepend(v, job[p].new) \in Seq(Option)
      /\ Range(job[p].new) \subseteq Range(Prepend(v, job[p].new))
      /\ \E x \in Range(Prepend(v, job[p].new)) : Inside(v, x)
      /\ FekekSigs(Prepend(v, job[p].new))
           = FekekSigs(job[p].new) \cup {x \in {v[2]} : v[1] = "ecryptfs_sig"}
  BY <1>2, <1>3, PrependFacts
<1>5. s \in Text
  BY <1>3, Zenon DEF Text
<1> HIDE DEF s
<1>6. /\ j \in Job /\ j.stack = Front(job[p].stack) /\ j.new = Prepend(v, job[p].new)
      /\ j.sig = s /\ j.opts = job[p].opts /\ j.check = job[p].check /\ j.walk = job[p].walk
  BY <1>1, <1>3, <1>4, <1>5, Zenon DEF Job
<1> HIDE DEF j
<1>7. TypeInv' /\ Alone(p) /\ pc'[p] = l /\ job'[p] = j
  <2>1. l \in Label /\ l # "idle"
    BY DEF Label, Mounting
  <2>2. UNCHANGED <<cache, mnt, torn, spoilt>>
    BY Zenon DEF Pop, History
  <2> QED
    BY <2>1, <2>2, <1>1, <1>6, Moved DEF IInv, TypeInv
<1>8. OptInv'
  <2>1. Ready(job[p])
    BY <1>1 DEF IInv, OptInv, Mounting
  <2>2. Assembled(j.new, strip_userland_opts(j.opts), Made(j))
    <3>1. Assembled(job[p].new, strip_userland_opts(job[p].opts), Made(job[p])) /\ v \in Made(job[p])
      BY <2>1, <1>3, Zenon DEF Ready
    <3>2. strip_userland_opts(job[p].opts) \in Seq(Option)
      BY <1>1, GivenFacts, Strip
    <3>3. Made(j) = Made(job[p])
      BY <1>6, Zenon DEF Made
    <3> QED
      BY <1>2, <1>3, <1>6, <3>1, <3>2, <3>3, PrependAssembles
  <2>3. Ready(j)
    BY <2>1, <2>2, <1>3, <1>4, <1>6, ZenonT(40) DEF Ready, Made
  <2> QED
    BY <2>3, <1>7, OptKeeps, Zenon DEF IInv, Pop
<1>9. ConfirmInv'
  <2>1. job[p].check => \A x \in FekekSigs(job[p].new) :
                           x \in confirmed \/ Sig(x) \in Range(job[p].opts)
    BY <1>1 DEF IInv, ConfirmInv, Agreed, Mounting
  <2>2. job[p].check /\ v[1] = "ecryptfs_sig" => l = "check" /\ s = v[2]
    BY DEF s
  <2>3. j.check => \A x \in FekekSigs(j.new) : Agreed(p, x)'
    BY <2>1, <2>2, <1>4, <1>6, <1>7, Zenon DEF Agreed, Pop, History
  <2> QED
    BY <2>3, <1>7, ConfirmKeeps, Zenon DEF IInv, Pop, History, ConfirmInv
<1>10. CacheInv'
  BY <1>7, CacheKeeps, Zenon DEF IInv, Pop, History
<1>11. KeyInv'
  BY <1>1, <1>3, <1>4, <1>6, <1>7, KeyKeeps, Zenon DEF IInv, Pop, Mounting, Unmounting, History
<1> QED
  BY <1>7, <1>8, <1>9, <1>10, <1>11 DEF IInv

\* The steps of process_sig() leave the options alone.
LEMMA LocalStep ==
    ASSUME IInv, NEW p \in Procs, NEW l \in Mounting, NEW j \in Job, Move(p, l, j),
           pc[p] \in Mounting, UNCHANGED <<keyring, mnt, used, spoilt>>, torn' \in BOOLEAN,
           j.stack = job[p].stack, j.new = job[p].new, j.sig = job[p].sig,
           j.opts = job[p].opts, j.check = job[p].check, j.walk = job[p].walk,
           confirmed \subseteq confirmed', cache' \in Seq(Text \X {1, 2}),
           \A i \in 1..Len(cache') : cache'[i][1] \in confirmed',
           l \in {"check", "ask"} \/ pc[p] \notin {"check", "ask"} \/ job[p].sig \in confirmed',
           l \in {"ask_append", "append"} => job[p].sig \in confirmed'
    PROVE  TypeInv' /\ Alone(p) /\ pc'[p] = l /\ job'[p] = j /\ OptInv' /\ ConfirmInv' /\ KeyInv'
<1>1. TypeInv' /\ Alone(p) /\ pc'[p] = l /\ job'[p] = j
  <2>1. l \in Label /\ l # "idle"
    BY DEF Label, Mounting
  <2> QED
    BY <2>1, Moved DEF IInv, TypeInv
<1>2. OptInv'
  <2>1. Ready(job[p])
    BY DEF IInv, OptInv
  <2>2. Ready(j)
    BY <2>1, Zenon DEF Ready, Made
  <2> QED
    BY <2>2, <1>1, OptKeeps DEF IInv
<1>3. ConfirmInv'
  <2>1. job[p].check => \A s \in FekekSigs(job[p].new) : Agreed(p, s)
    BY DEF IInv, ConfirmInv
  <2>2. j.check => \A s \in FekekSigs(j.new) : Agreed(p, s)'
    BY <2>1, <1>1 DEF Agreed
  <2> QED
    BY <2>2, <1>1, ConfirmKeeps DEF IInv
<1>4. KeyInv'
  BY <1>1, KeyKeeps DEF IInv, Mounting, Unmounting
<1> QED
  BY <1>1, <1>2, <1>3, <1>4

\* A step of process_sig() that does not open the cache for writing.
LEMMA AskStep ==
    ASSUME IInv, NEW p \in Procs, CheckSig(p) \/ Yes(p) \/ Mumble(p) \/ DontAppend(p) PROVE IInv'
<1>0. /\ TypeInv /\ ConfirmInv /\ job[p] \in Job /\ cache \in Seq(Text \X {1, 2}) /\ torn \in BOOLEAN
      /\ \A i \in 1..Len(cache) : cache[i][1] \in confirmed
  BY DEF IInv, TypeInv, ConfirmInv
<1>1. ASSUME NEW t \in Nat
      PROVE  LET j == [job[p] EXCEPT !.tries = t] IN
             /\ j \in Job /\ j.stack = job[p].stack /\ j.new = job[p].new
             /\ j.sig = job[p].sig /\ j.opts = job[p].opts /\ j.check = job[p].check
  BY <1>0, Zenon DEF Job
<1>2. job[p].tries \in Nat /\ job[p].tries + 1 \in Nat
  <2>1. job[p].tries \in Nat
    BY <1>0, Zenon DEF Job
  <2> QED
    BY <2>1
<1>3. CASE CheckSig(p)
  <2> DEFINE l == IF Cached(job[p].sig) THEN "pop" ELSE "ask"
             j == [job[p] EXCEPT !.tries = 0]
  <2>1. Move(p, l, j) /\ pc[p] = "check" /\ UNCHANGED <<keyring, cache, mnt, confirmed, torn, used, spoilt>>
    BY <1>3 DEF CheckSig, Goto, Move, History
  <2>2. Cached(job[p].sig) => job[p].sig \in confirmed
    <3> SUFFICES ASSUME Cached(job[p].sig) PROVE job[p].sig \in confirmed
      OBVIOUS
    <3>1. PICK i \in 1..(Len(cache) \div 2) : cache[2*i] = <<job[p].sig, 2>>
      BY DEF Cached
    <3>2. Len(cache) \in Nat /\ 2*i \in 1..Len(cache)
      BY <1>0, <3>1
    <3>3. cache[2*i][1] = job[p].sig
      BY <3>1
    <3> QED
      BY <1>0, <3>2, <3>3
  <2>3. l \in Mounting /\ pc[p] \in Mounting /\ l # "append" /\ l # "ask_append"
    BY <2>1 DEF Mounting
  <2>4. l \in {"check", "ask"} \/ job[p].sig \in confirmed
    BY <2>2
  <2> HIDE DEF l
  <2>5. /\ j \in Job /\ j.stack = job[p].stack /\ j.new = job[p].new
        /\ j.sig = job[p].sig /\ j.opts = job[p].opts /\ j.check = job[p].check
        /\ j.walk = job[p].walk
    BY <1>1
  <2> HIDE DEF j
  <2>6. TypeInv' /\ Alone(p) /\ pc'[p] = l /\ OptInv' /\ ConfirmInv' /\ KeyInv'
    BY <1>0, <2>1, <2>3, <2>4, <2>5, LocalStep
  <2>7. CacheInv'
    BY <2>1, <2>3, <2>6, CacheKeeps DEF IInv
  <2> QED
    BY <2>6, <2>7 DEF IInv
<1>4. CASE Yes(p)
  <2> DEFINE j == [job[p] EXCEPT !.tries = 0]
  <2>1. /\ Move(p, "ask_append", j) /\ pc[p] = "ask"
        /\ UNCHANGED <<keyring, cache, mnt, torn, used, spoilt>> /\ confirmed' = confirmed \cup {job[p].sig}
    BY <1>4 DEF Yes, Goto, Move, History
  <2>2. "ask_append" \in Mounting /\ "ask_append" # "append" /\ pc[p] \in Mounting
    BY <2>1 DEF Mounting
  <2>3. "ask_append" = "ask_append" => job[p].sig \in confirmed'
    BY <2>1, <1>0 DEF ConfirmInv
  <2>4. /\ j \in Job /\ j.stack = job[p].stack /\ j.new = job[p].new
        /\ j.sig = job[p].sig /\ j.opts = job[p].opts /\ j.check = job[p].check
        /\ j.walk = job[p].walk
    BY <1>1, <1>2
  <2> HIDE DEF j
  <2>5. TypeInv' /\ Alone(p) /\ pc'[p] = "ask_append" /\ OptInv' /\ ConfirmInv' /\ KeyInv'
    BY <1>0, <2>1, <2>2, <2>3, <2>4, LocalStep
  <2>6. CacheInv'
    BY <2>1, <2>2, <2>5, CacheKeeps DEF IInv
  <2> QED
    BY <2>5, <2>6 DEF IInv
<1>5. CASE Mumble(p)
  <2> DEFINE j == [job[p] EXCEPT !.tries = job[p].tries + 1]
  <2>1. /\ Move(p, pc[p], j) /\ pc[p] \in {"ask", "ask_append"}
        /\ UNCHANGED <<keyring, cache, mnt, torn, used, spoilt>> /\ confirmed' = confirmed
    BY <1>5, <1>0 DEF Mumble, Goto, Move, History, TypeInv
  <2>2. pc[p] \in Mounting /\ pc[p] # "append" /\ pc[p] \in Mounting
    BY <2>1 DEF Mounting
  <2>3. pc[p] = "ask_append" => job[p].sig \in confirmed'
    BY <2>1, <1>0 DEF ConfirmInv
  <2>4. /\ j \in Job /\ j.stack = job[p].stack /\ j.new = job[p].new
        /\ j.sig = job[p].sig /\ j.opts = job[p].opts /\ j.check = job[p].check
        /\ j.walk = job[p].walk
    BY <1>1, <1>2
  <2> HIDE DEF j
  <2>5. TypeInv' /\ Alone(p) /\ pc'[p] = pc[p] /\ OptInv' /\ ConfirmInv' /\ KeyInv'
    BY <1>0, <2>1, <2>2, <2>3, <2>4, LocalStep, SMTT(20)
  <2>6. CacheInv'
    BY <2>1, <2>2, <2>5, CacheKeeps DEF IInv
  <2> QED
    BY <2>5, <2>6 DEF IInv
<1>6. CASE DontAppend(p)
  <2> DEFINE j == [job[p] EXCEPT !.tries = 0]
  <2>1. /\ Move(p, "pop", j) /\ pc[p] = "ask_append"
        /\ UNCHANGED <<keyring, cache, mnt, torn, used, spoilt>> /\ confirmed' = confirmed
    BY <1>6 DEF DontAppend, Goto, Move, History
  <2>2. "pop" \in Mounting /\ "pop" # "append" /\ pc[p] \in Mounting
    BY <2>1 DEF Mounting
  <2>3. "pop" = "ask_append" => job[p].sig \in confirmed'
    BY <2>1, <1>0 DEF ConfirmInv
  <2>4. /\ j \in Job /\ j.stack = job[p].stack /\ j.new = job[p].new
        /\ j.sig = job[p].sig /\ j.opts = job[p].opts /\ j.check = job[p].check
        /\ j.walk = job[p].walk
    BY <1>1, <1>2
  <2> HIDE DEF j
  <2>5. TypeInv' /\ Alone(p) /\ pc'[p] = "pop" /\ OptInv' /\ ConfirmInv' /\ KeyInv'
    BY <1>0, <2>1, <2>2, <2>3, <2>4, LocalStep
  <2>6. CacheInv'
    BY <2>1, <2>2, <2>5, CacheKeeps DEF IInv
  <2> QED
    BY <2>5, <2>6 DEF IInv
<1> QED
  BY <1>3, <1>4, <1>5, <1>6

\* ecryptfs_append_sig() takes the length of the file for its offset.
LEMMA SeekStep == ASSUME IInv, NEW p \in Procs, Seek(p) PROVE IInv'
<1>0. /\ TypeInv /\ ConfirmInv /\ CacheInv /\ job[p] \in Job
      /\ cache \in Seq(Text \X {1, 2}) /\ torn \in BOOLEAN /\ Len(cache) \in Nat
      /\ \A i \in 1..Len(cache) : cache[i][1] \in confirmed
  BY DEF IInv, TypeInv, ConfirmInv
<1> DEFINE j == [job[p] EXCEPT !.tries = 0, !.off = Len(cache)]
<1>1. /\ Move(p, "append", j) /\ pc[p] = "ask_append"
      /\ UNCHANGED <<keyring, cache, mnt, confirmed, torn, used, spoilt>>
  BY Zenon DEF Seek, Goto, Move, History
<1>2. /\ j \in Job /\ j.stack = job[p].stack /\ j.new = job[p].new
      /\ j.sig = job[p].sig /\ j.opts = job[p].opts /\ j.check = job[p].check /\ j.off = Len(cache)
      /\ j.walk = job[p].walk
  BY <1>0, Zenon DEF Job
<1> HIDE DEF j
<1>3. "append" \in Mounting /\ pc[p] \in Mounting /\ job[p].sig \in confirmed
  BY <1>0, <1>1 DEF Mounting, ConfirmInv
<1>4. TypeInv' /\ Alone(p) /\ pc'[p] = "append" /\ job'[p] = j /\ OptInv' /\ ConfirmInv' /\ KeyInv'
  BY <1>0, <1>1, <1>2, <1>3, LocalStep
<1>5. CacheInv'
  <2>1. \A q \in Procs : pc'[q] = "append" => job'[q].off <= Len(cache)
    BY <1>0, <1>2, <1>4 DEF CacheInv, Alone
  <2>2. ~torn => \A q \in Procs : pc'[q] = "append" => Even(job'[q].off)
    BY <1>0, <1>2, <1>4 DEF CacheInv, Alone
  <2>3. ~torn => CacheIsRecords'
    BY <1>0, <1>1 DEF CacheInv, CacheIsRecords
  <2> QED
    BY <1>0, <1>1, <2>1, <2>2, <2>3 DEF CacheInv
<1> QED
  BY <1>4, <1>5 DEF IInv

\* write() at an offset inside the file.
LEMMA OverlayFacts ==
    ASSUME NEW C, NEW f \in Seq(C), NEW off \in Nat, off <= Len(f), NEW w \in Seq(C)
    PROVE  LET o == Overlay(f, off, w) IN
           /\ o \in Seq(C)
           /\ Len(o) = IF off + Len(w) > Len(f) THEN off + Len(w) ELSE Len(f)
           /\ \A i \in 1..Len(o) : o[i] = IF i \in (off + 1)..(off + Len(w)) THEN w[i - off] ELSE f[i]
<1> DEFINE n == IF off + Len(w) > Len(f) THEN off + Len(w) ELSE Len(f)
           e(i) == IF i \in (off + 1)..(off + Len(w)) THEN w[i - off] ELSE f[i]
           o == Overlay(f, off, w)
<1>1. Len(f) \in Nat /\ Len(w) \in Nat /\ n \in Nat
  OBVIOUS
<1>2. \A i \in 1..n : e(i) \in C
  BY <1>1
<1>3. o = [i \in 1..n |-> e(i)]
  BY DEF Overlay
<1> HIDE DEF n, e, o
<1>4. o \in [1..n -> C] /\ \A i \in 1..n : o[i] = e(i)
  BY <1>2, <1>3
<1>5. o \in Seq(C)
  BY <1>1, <1>4, SeqDef
<1>6. Len(o) = n
  <2>1. DOMAIN o = 1..n /\ DOMAIN o = 1..Len(o) /\ Len(o) \in Nat
    BY <1>4, <1>5, LenProperties
  <2> QED
    BY <1>1, <2>1
<1> QED
  BY <1>4, <1>5, <1>6 DEF n, e, o

\* The write of a whole record.
LEMMA WriteStep == ASSUME IInv, NEW p \in Procs, WriteSig(p) PROVE IInv'
<1> DEFINE s == job[p].sig
           off == job[p].off
           w == <<<<s, 1>>, <<s, 2>>>>
           j == [job[p] EXCEPT !.off = 0]
<1>0. /\ TypeInv /\ ConfirmInv /\ CacheInv /\ job[p] \in Job
      /\ cache \in Seq(Text \X {1, 2}) /\ torn \in BOOLEAN /\ Len(cache) \in Nat
      /\ \A i \in 1..Len(cache) : cache[i][1] \in confirmed
  BY DEF IInv, TypeInv, ConfirmInv
<1>1. /\ Move(p, "pop", j) /\ pc[p] = "append" /\ cache' = Overlay(cache, off, w)
      /\ UNCHANGED <<keyring, mnt, confirmed, torn, used, spoilt>>
  BY DEF WriteSig, Goto, Move, History
<1>2. /\ j \in Job /\ j.stack = job[p].stack /\ j.new = job[p].new
      /\ j.sig = job[p].sig /\ j.opts = job[p].opts /\ j.check = job[p].check /\ j.walk = job[p].walk
  BY <1>0, Zenon DEF Job
<1>3. "pop" \in Mounting /\ pc[p] \in Mounting /\ s \in confirmed /\ pc[p] \notin {"check", "ask"}
  BY <1>0, <1>1 DEF Mounting, ConfirmInv
<1>4. off \in Nat /\ off <= Len(cache) /\ s \in Text /\ (~torn => Even(off) /\ Even(Len(cache)))
  BY <1>0, <1>1, Zenon DEF CacheInv, Job
<1> HIDE DEF j, s, off
<1>5. w \in Seq(Text \X {1, 2}) /\ Len(w) = 2 /\ w[1] = <<s, 1>> /\ w[2] = <<s, 2>>
  BY <1>4
<1> HIDE DEF w
<1>6. /\ cache' \in Seq(Text \X {1, 2}) /\ Len(cache') \in Nat
      /\ Len(cache') = IF off + 2 > Len(cache) THEN off + 2 ELSE Len(cache)
      /\ \A i \in 1..Len(cache') : cache'[i] = IF i \in (off + 1)..(off + 2) THEN w[i - off] ELSE cache[i]
  <2> DEFINE o == Overlay(cache, off, w)
  <2>1. /\ o \in Seq(Text \X {1, 2})
        /\ Len(o) = IF off + Len(w) > Len(cache) THEN off + Len(w) ELSE Len(cache)
        /\ \A i \in 1..Len(o) : o[i] = IF i \in (off + 1)..(off + Len(w)) THEN w[i - off] ELSE cache[i]
    <3>1. cache \in Seq(Text \X {1, 2}) /\ off \in Nat /\ off <= Len(cache) /\ w \in Seq(Text \X {1, 2})
      BY <1>0, <1>4, <1>5
    <3> DEFINE C == Text \X {1, 2}
    <3>2. cache \in Seq(C) /\ w \in Seq(C)
      BY <3>1
    <3> HIDE DEF C
    <3>3. /\ o \in Seq(C)
          /\ Len(o) = IF off + Len(w) > Len(cache) THEN off + Len(w) ELSE Len(cache)
          /\ \A i \in 1..Len(o) : o[i] = IF i \in (off + 1)..(off + Len(w)) THEN w[i - off] ELSE cache[i]
      BY ONLY <3>1, <3>2, OverlayFacts
    <3> QED
      BY <3>3 DEF C
  <2>2. o = cache'
    BY <1>1
  <2> HIDE DEF o
  <2>3. Len(o) \in Nat
    BY <2>1
  <2> QED
    BY <1>5, <2>1, <2>2, <2>3
<1>7. cache'[off + 1] = <<s, 1>> /\ cache'[off + 2] = <<s, 2>>
  <2>1. off + 1 \in 1..Len(cache') /\ off + 2 \in 1..Len(cache') /\ off + 1 - off = 1 /\ off + 2 - off = 2
        /\ off + 1 \in (off + 1)..(off + 2) /\ off + 2 \in (off + 1)..(off + 2)
    BY <1>0, <1>4, <1>6
  <2>2. ASSUME NEW i \in {off + 1, off + 2} PROVE cache'[i] = w[i - off]
    BY ONLY <1>6, <2>1, <2>2
  <2> QED
    BY ONLY <1>4, <1>5, <2>2
<1>8. \A i \in 1..Len(cache') : i \in {off + 1, off + 2} \/ (i \in 1..Len(cache) /\ cache'[i] = cache[i])
  BY <1>0, <1>4, <1>6
<1>9. \A i \in 1..Len(cache') : cache'[i][1] \in confirmed'
  BY <1>0, <1>1, <1>3, <1>7, <1>8
<1>10. TypeInv' /\ Alone(p) /\ pc'[p] = "pop" /\ job'[p] = j /\ OptInv' /\ ConfirmInv' /\ KeyInv'
  BY <1>0, <1>1, <1>2, <1>3, <1>6, <1>9, LocalStep
<1>11. CacheInv'
  <2>1. \A q \in Procs : pc'[q] = "append" => job'[q].off <= Len(cache')
    <3>1. \A q \in Procs : pc'[q] = "append" => pc[q] = "append" /\ job'[q] = job[q] /\ job[q] \in Job
      BY <1>0, <1>10 DEF Alone, TypeInv
    <3>2. \A q \in Procs : pc'[q] = "append" => job[q].off <= Len(cache) /\ job[q].off \in Nat
      BY <1>0, <3>1, Zenon DEF CacheInv, Job
    <3>3. Len(cache) <= Len(cache')
      BY <1>0, <1>4, <1>6
    <3> QED
      BY <1>0, <1>6, <3>1, <3>2, <3>3
  <2>2. ~torn => \A q \in Procs : pc'[q] = "append" => Even(job'[q].off)
    BY <1>0, <1>10 DEF CacheInv, Alone
  <2>3. ASSUME ~torn PROVE Even(Len(cache')) /\ CacheIsRecords'
    <3>1. PICK n \in Nat : Len(cache) = 2 * n
      BY <1>4, <2>3 DEF Even
    <3>2. PICK m \in Nat : off = 2 * m
      BY <1>4, <2>3, Zenon DEF Even
    <3>3. Len(cache') = IF m + 1 > n THEN 2 * (m + 1) ELSE 2 * n
      BY <1>6, <3>1, <3>2
    <3>4. ASSUME NEW i \in 1..(Len(cache') \div 2)
          PROVE  \E x \in confirmed : cache'[2*i - 1] = <<x, 1>> /\ cache'[2*i] = <<x, 2>>
      <4>1. i \in Nat /\ 2*i - 1 \in 1..Len(cache') /\ 2*i \in 1..Len(cache')
        BY <1>6, <3>3
      <4>2. CASE i = m + 1
        <5>1. 2*i - 1 = off + 1 /\ 2*i = off + 2
          BY <3>2, <4>2
        <5> QED
          BY <1>3, <1>7, <5>1
      <4>3. CASE i # m + 1
        <5>1. 2*i - 1 \notin {off + 1, off + 2} /\ 2*i \notin {off + 1, off + 2}
          BY <3>2, <4>1, <4>3
        <5>2. cache'[2*i - 1] = cache[2*i - 1] /\ cache'[2*i] = cache[2*i] /\ 2*i \in 1..Len(cache)
          BY <1>8, <4>1, <5>1
        <5>3. i \in 1..(Len(cache) \div 2)
          BY <3>1, <4>1, <5>2
        <5>4. \E x \in confirmed : cache[2*i - 1] = <<x, 1>> /\ cache[2*i] = <<x, 2>>
          BY <1>0, <2>3, <5>3 DEF CacheInv, CacheIsRecords
        <5> QED
          BY <5>2, <5>4
      <4> QED
        BY <4>2, <4>3
    <3>5. Even(Len(cache'))
      BY <3>3 DEF Even
    <3>6. Len(cache') % 2 = 0
      <4>1. PICK k \in Nat : Len(cache') = 2 * k
        BY <3>3
      <4> QED
        BY <4>1
    <3> QED
      BY <1>1, <3>4, <3>5, <3>6 DEF CacheIsRecords
  <2> QED
    BY <1>1, <2>1, <2>2, <2>3 DEF CacheInv
<1> QED
  BY <1>10, <1>11 DEF IInv

\* A write that is cut short: the cell it leaves is of a signature agreed to.
LEMMA WriteFailsStep == ASSUME IInv, NEW p \in Procs, WriteSigFails(p) PROVE IInv'
<1> DEFINE s == job[p].sig
           off == job[p].off
           w == <<<<s, 1>>>>
           C == Text \X {1, 2}
<1>0. /\ TypeInv /\ ConfirmInv /\ CacheInv /\ job[p] \in Job
      /\ cache \in Seq(C) /\ torn \in BOOLEAN /\ Len(cache) \in Nat
      /\ \A i \in 1..Len(cache) : cache[i][1] \in confirmed
  BY DEF IInv, TypeInv, ConfirmInv
<1>1. /\ Move(p, "idle", NoJob) /\ pc[p] = "append" /\ cache' = Overlay(cache, off, w)
      /\ torn' = TRUE /\ spoilt' = TRUE /\ UNCHANGED <<keyring, mnt, confirmed>>
  BY Zenon DEF WriteSigFails, Leave, Goto, Move, Spoil
<1>2. s \in confirmed /\ off \in Nat /\ off <= Len(cache) /\ s \in Text
  BY <1>0, <1>1, Zenon DEF CacheInv, ConfirmInv, Job
<1> HIDE DEF s, off
<1>3. w \in Seq(C) /\ Len(w) = 1 /\ w[1] = <<s, 1>>
  BY <1>2
<1> HIDE DEF w, C
<1>4. /\ Overlay(cache, off, w) \in Seq(C)
      /\ Len(Overlay(cache, off, w)) = IF off + Len(w) > Len(cache) THEN off + Len(w) ELSE Len(cache)
      /\ \A i \in 1..Len(Overlay(cache, off, w)) : Overlay(cache, off, w)[i]
            = IF i \in (off + 1)..(off + Len(w)) THEN w[i - off] ELSE cache[i]
  <2>1. cache \in Seq(C) /\ off \in Nat /\ off <= Len(cache) /\ w \in Seq(C)
    BY <1>0, <1>2, <1>3
  <2> QED
    BY ONLY <2>1, OverlayFacts
<1>5. /\ cache' \in Seq(C) /\ Len(cache') \in Nat
      /\ Len(cache') = IF off + 1 > Len(cache) THEN off + 1 ELSE Len(cache)
      /\ \A i \in 1..Len(cache') : cache'[i] = IF i \in (off + 1)..(off + 1) THEN w[i - off] ELSE cache[i]
  BY <1>1, <1>3, <1>4
<1>6. \A i \in 1..Len(cache') : cache'[i][1] \in confirmed'
  <2> SUFFICES ASSUME NEW i \in 1..Len(cache') PROVE cache'[i][1] \in confirmed
    BY <1>1
  <2>1. CASE i = off + 1
    <3>1. i \in (off + 1)..(off + 1) /\ i - off = 1
      BY <1>2, <2>1
    <3>2. cache'[i] = w[i - off]
      BY <1>5, <3>1, Zenon
    <3> QED
      BY <1>2, <1>3, <3>1, <3>2
  <2>2. CASE i # off + 1
    <3>1. i \notin (off + 1)..(off + 1) /\ i \in 1..Len(cache)
      BY <1>0, <1>2, <1>5, <2>2
    <3>2. cache'[i] = cache[i]
      BY <1>5, <3>1, Zenon
    <3> QED
      BY <1>0, <3>1, <3>2
  <2> QED
    BY <2>1, <2>2
<1>7. TypeInv' /\ Alone(p) /\ pc'[p] = "idle" /\ job'[p] = NoJob
  BY <1>0, <1>1, <1>5, Moved, NoJobType DEF TypeInv, Label, C
<1>8. OptInv'
  BY <1>1, <1>7, OptKeeps DEF IInv, Mounting
<1>9. ConfirmInv'
  BY <1>1, <1>6, <1>7, ConfirmKeeps DEF IInv, Mounting
<1>10. CacheInv'
  <2>1. Len(cache) <= Len(cache')
    BY <1>0, <1>2, <1>5
  <2>2. \A q \in Procs : pc'[q] = "append" => pc[q] = "append" /\ job'[q] = job[q] /\ job[q] \in Job
    BY <1>0, <1>7 DEF Alone, TypeInv
  <2>3. \A q \in Procs : pc'[q] = "append" => job[q].off <= Len(cache) /\ job[q].off \in Nat
    BY <1>0, <2>2, Zenon DEF CacheInv, Job
  <2>4. \A q \in Procs : pc'[q] = "append" => job'[q].off <= Len(cache')
    BY <1>0, <1>5, <2>1, <2>2, <2>3
  <2> QED
    BY <1>1, <2>4 DEF CacheInv
<1>11. KeyInv'
  BY <1>1, KeySpoilt DEF IInv
<1> QED
  BY <1>7, <1>8, <1>9, <1>10, <1>11 DEF IInv

\* The walk and what ecryptfs_do_mount() makes of its stack before the loop.
LEMMA GraphStep == ASSUME IInv, NEW p \in Procs, ProcessGraph(p) PROVE IInv'
<1> DEFINE n == strip_userland_opts(job[p].opts)
<1>0. job[p] \in Job /\ TypeInv /\ ConfirmInv /\ KeyInv /\ CacheInv
  BY DEF IInv, TypeInv
<1>1. PICK s \in Stacks :
         /\ keyring' = keyring \cup FekekSigs(s)
         /\ job' = [job EXCEPT ![p].walk = s, ![p].stack = Append(s, Unlink), ![p].new = n]
  BY Zenon DEF ProcessGraph
<1> DEFINE a == Append(s, Unlink)
           j == [job[p] EXCEPT !.walk = s, !.stack = a, !.new = n]
<1>2. Move(p, "pop", j) /\ pc[p] = "graph" /\ UNCHANGED <<cache, mnt, confirmed, torn, used, spoilt>>
  BY <1>1, Zenon DEF ProcessGraph, Goto, Move, History
<1>3. s \in Seq(Option) /\ "" \notin FekekSigs(s)
  BY OptionAssumption, Zenon
<1>4. /\ a \in Seq(Option) /\ Range(a) = Range(s) \cup {Unlink}
      /\ FekekSigs(a) = FekekSigs(s)
  BY <1>3, PushFacts, Zenon
<1>5. n \in Seq(Option) /\ \A x \in FekekSigs(n) : Sig(x) \in Range(job[p].opts)
  BY <1>0, GivenFacts, Strip
<1>6. Assembled(n, n, Range(a))
  BY <1>5 DEF Assembled
<1> HIDE DEF a, n
<1>7. /\ j \in Job /\ j.walk = s /\ j.stack = a /\ j.new = n
      /\ j.sig = job[p].sig /\ j.opts = job[p].opts /\ j.check = job[p].check
  BY <1>0, <1>4, <1>5, Zenon DEF Job
<1> HIDE DEF j
<1>8. TypeInv' /\ Alone(p) /\ pc'[p] = "pop" /\ job'[p] = j
  BY <1>0, <1>2, <1>7, Moved DEF TypeInv, Label, Mounting
<1>9. OptInv'
  <2>1. Ready(j)
    BY <1>4, <1>6, <1>7, Zenon DEF Ready, Made, n
  <2> QED
    BY <1>2, <1>8, <2>1, OptKeeps DEF IInv
<1>10. ConfirmInv'
  <2>1. \A x \in FekekSigs(j.new) : Agreed(p, x)'
    BY <1>5, <1>7, <1>8 DEF Agreed
  <2> QED
    BY <1>2, <1>8, <2>1, ConfirmKeeps, Zenon DEF IInv, ConfirmInv
<1>11. CacheInv'
  BY <1>2, <1>8, CacheKeeps DEF IInv
<1>12. KeyInv'
  <2>1. "" \notin keyring'
    BY <1>0, <1>1, <1>3, Zenon DEF KeyInv
  <2>2. pc[p] \notin Unmounting /\ pc[p] \notin Mounting /\ pc'[p] \notin Unmounting /\ pc'[p] \in Mounting
    BY <1>2, <1>8 DEF Mounting, Unmounting
  <2>3. ASSUME ~spoilt, NEW k \in used \cap keyring' PROVE Owned(k)'
    <3>1. CASE k \in FekekSigs(s)
      BY <1>4, <1>7, <1>8, <2>2, <3>1, SMTT(20) DEF Owned
    <3>2. CASE k \in keyring
      <4>1. Owned(k)
        BY <1>0, <2>3, <3>2, ZenonT(40) DEF KeyInv
      <4>2. ASSUME NEW q \in Procs, pc[q] \in Mounting,
                   k \in FekekSigs(job[q].stack) \cup FekekSigs(job[q].new)
            PROVE  Owned(k)'
        BY <1>8, <2>2, <4>2 DEF Owned, Alone
      <4>3. ASSUME NEW i \in 1..Len(mnt), k \in Keys(mnt[i].opts),
                   \A q \in Procs : mnt[i].dir = job[q].dir => ~Gives(q, k)
            PROVE  Owned(k)'
        <5>1. \A q \in Procs : mnt[i].dir = job'[q].dir => ~Gives(q, k)'
          BY <1>8, <2>2, <4>3 DEF Gives, Alone, Unmounting
        <5> QED
          BY <1>2, <4>3, <5>1 DEF Owned
      <4> QED
        BY <4>1, <4>2, <4>3 DEF Owned
    <3> QED
      BY <1>1, <3>1, <3>2
  <2>4. \A q \in Procs : pc'[q] \in Unmounting /\ ~job'[q].stale =>
           pc[q] \in Unmounting /\ job'[q] = job[q]
    BY <1>8, <2>2 DEF Alone
  <2>5. ~spoilt => \A q \in Procs : Knows(q)'
    BY <1>0, <1>2, <2>4, Zenon DEF KeyInv, Knows
  <2> QED
    BY <1>0, <1>2, <2>1, <2>3, <2>5, Zenon DEF KeyInv
<1> QED
  BY <1>8, <1>9, <1>10, <1>11, <1>12 DEF IInv

\* What is in no option string.
LEMMA NothingIn == Range(<<>>) = {} /\ FekekSigs(<<>>) = {}
BY DEF Range, FekekSigs

\* ecryptfs_mount(): a mount gets what its run has put together, and takes the run's
\* keys over.
LEMMA MountStep == ASSUME IInv, NEW p \in Procs, Mount(p) PROVE IInv'
<1> DEFINE m == [dir |-> job[p].dir, opts |-> job[p].new, checked |-> job[p].check,
                 given |-> job[p].opts, walk |-> job[p].walk]
           n == job[p].new
           N == Len(mnt)
           hit(q) == pc[q] \in Unmounting /\ job[q].dir = job[p].dir
<1>0. /\ TypeInv /\ OptInv /\ ConfirmInv /\ CacheInv /\ KeyInv /\ job[p] \in Job
      /\ mnt \in Seq(Mounted) /\ N \in Nat
  BY DEF IInv, TypeInv
<1>1. /\ pc[p] = "pop" /\ job[p].stack = <<>> /\ Accepts(n)
      /\ mnt' = Append(mnt, m) /\ pc' = [pc EXCEPT ![p] = "idle"]
      /\ UNCHANGED <<keyring, cache, confirmed, torn>>
  BY DEF Mount, Goto
<1>2. /\ spoilt' = (spoilt \/ TwoKeys(n) \/ \E i \in 1..N : mnt[i].dir = job[p].dir)
      /\ used' = IF spoilt' THEN {} ELSE used \cup Keys(n)
  BY DEF Mount
<1>3. job' = [q \in Procs |-> IF q = p THEN NoJob ELSE [job[q] EXCEPT !.stale = job[q].stale \/ hit(q)]]
  BY DEF Mount, Unmounting
<1>4. /\ m \in Mounted /\ m.dir = job[p].dir /\ m.opts = n /\ m.checked = job[p].check
      /\ m.given = job[p].opts /\ m.walk = job[p].walk
  BY <1>0, Zenon DEF Job, Mounted
<1> HIDE DEF m
<1>5. /\ mnt' \in Seq(Mounted) /\ Len(mnt') = N + 1 /\ mnt'[N + 1] = m
      /\ \A i \in 1..N : mnt'[i] = mnt[i]
      /\ \A i \in 1..(N + 1) : i = N + 1 \/ i \in 1..N
  BY <1>0, <1>1, <1>4
<1>6. pc'[p] = "idle" /\ job'[p] = NoJob /\ \A q \in Procs : q # p => pc'[q] = pc[q]
  BY <1>0, <1>1, <1>3 DEF TypeInv
<1>7. ASSUME NEW q \in Procs, q # p
      PROVE  /\ job'[q] \in Job /\ job'[q].dir = job[q].dir /\ job'[q].opts = job[q].opts
             /\ job'[q].check = job[q].check /\ job'[q].stack = job[q].stack
             /\ job'[q].new = job[q].new /\ job'[q].off = job[q].off /\ job'[q].sig = job[q].sig
             /\ job'[q].fnek = job[q].fnek /\ job'[q].stale = (job[q].stale \/ hit(q))
             /\ job'[q].walk = job[q].walk
  <2>1. job[q] \in Job /\ (job[q].stale \/ hit(q)) \in BOOLEAN
    BY <1>0, Zenon DEF TypeInv, Job
  <2>2. job'[q] = [job[q] EXCEPT !.stale = job[q].stale \/ hit(q)]
    BY <1>3, <1>7
  <2> HIDE DEF hit
  <2> QED
    BY <2>1, <2>2, Zenon DEF Job
<1>8. TypeInv'
  <2>1. job' \in [Procs -> Job]
    BY <1>3, <1>6, <1>7, NoJobType
  <2>2. pc' \in [Procs -> Label] /\ spoilt' \in BOOLEAN
    BY <1>0, <1>1, <1>2 DEF TypeInv, Label
  <2>3. ASSUME NEW q \in Procs, pc'[q] = "idle" PROVE job'[q] = NoJob
    <3>1. CASE q = p
      BY <1>6, <3>1
    <3>2. CASE q # p
      <4>1. pc[q] = "idle" /\ job[q] = NoJob
        BY <1>0, <1>6, <2>3, <3>2 DEF TypeInv
      <4>2. (job[q].stale \/ hit(q)) = FALSE
        <5>1. NoJob.stale = FALSE
          BY DEF NoJob
        <5>2. hit(q) = FALSE
          BY <4>1 DEF Unmounting
        <5> QED
          BY <4>1, <5>1, <5>2, Zenon
      <4>3. job'[q] = [NoJob EXCEPT !.stale = FALSE]
        BY <1>3, <3>2, <4>1, <4>2, Zenon
      <4> QED
        BY <4>3, Zenon DEF NoJob
    <3> QED
      BY <3>1, <3>2
  <2> QED
    BY <1>0, <1>1, <1>5, <2>1, <2>2, <2>3 DEF TypeInv
<1>9. OptInv'
  <2>1. Ready(job[p])
    BY <1>0, <1>1 DEF OptInv, Mounting
  <2>2. /\ Assembled(m.opts, strip_userland_opts(m.given), Range(m.walk) \cup {Unlink})
        /\ \A v \in Range(m.walk) \cup {Unlink} : \E x \in Range(m.opts) : Inside(v, x)
    BY <1>1, <1>4, <2>1, NothingIn, Zenon DEF Ready, Made
  <2>3. MountOptsExact'
    BY <1>0, <1>5, <2>2, ZenonT(40) DEF OptInv, MountOptsExact
  <2>4. \A i \in 1..Len(mnt') : FekekSigs(mnt'[i].opts) # {}
    BY <1>0, <1>1, <1>4, <1>5, Zenon DEF OptInv, Accepts
  <2>5. \A q \in Procs : pc'[q] \in Mounting => Ready(job'[q])
    <3> SUFFICES ASSUME NEW q \in Procs, pc'[q] \in Mounting PROVE Ready(job'[q])
      OBVIOUS
    <3>1. q # p
      BY <1>6 DEF Mounting
    <3>2. Ready(job[q])
      BY <1>0, <1>6, <3>1 DEF OptInv
    <3> QED
      BY <1>7, <3>1, <3>2, Zenon DEF Ready, Made
  <2> QED
    BY <2>3, <2>4, <2>5 DEF OptInv
<1>10. ConfirmInv'
  <2>1. job[p].check => \A s \in FekekSigs(n) : s \in confirmed \/ Sig(s) \in Range(job[p].opts)
    BY <1>0, <1>1, SMTT(20) DEF ConfirmInv, Agreed, Mounting
  <2>2. MountConfirmed'
    BY <1>0, <1>1, <1>4, <1>5, <2>1, ZenonT(40) DEF ConfirmInv, MountConfirmed
  <2>3. \A q \in Procs : pc'[q] \in {"ask_append", "append"} => job'[q].sig \in confirmed
    BY <1>0, <1>6, <1>7 DEF ConfirmInv
  <2>4. ASSUME NEW q \in Procs, pc'[q] \in Mounting, job'[q].check, NEW s \in FekekSigs(job'[q].new)
        PROVE  Agreed(q, s)'
    <3>1. q # p
      BY <1>6, <2>4 DEF Mounting
    <3>2. /\ pc[q] \in Mounting /\ job[q].check /\ s \in FekekSigs(job[q].new)
          /\ pc'[q] = pc[q] /\ job'[q].opts = job[q].opts /\ job'[q].sig = job[q].sig
      BY <1>6, <1>7, <2>4, <3>1, SMTT(20)
    <3>3. Agreed(q, s)
      BY <1>0, <3>2 DEF ConfirmInv
    <3> QED
      BY <1>1, <3>2, <3>3 DEF Agreed
  <2> QED
    BY <1>0, <1>1, <2>2, <2>3, <2>4, ZenonT(40) DEF ConfirmInv
<1>11. CacheInv'
  <2>1. \A q \in Procs : pc'[q] = "append" => pc[q] = "append" /\ job'[q].off = job[q].off
    BY <1>6, <1>7
  <2> QED
    BY <1>0, <1>1, <2>1 DEF CacheInv, CacheIsRecords
<1>12. KeyInv'
  <2>1. "" \notin keyring'
    BY <1>0, <1>1, Zenon DEF KeyInv
  <2> SUFFICES ASSUME ~spoilt' PROVE KeyInv'
    BY <2>1, Zenon DEF KeyInv
  <2>2. ~spoilt /\ ~TwoKeys(n) /\ used' = used \cup Keys(n) /\ \A i \in 1..N : mnt[i].dir # job[p].dir
    BY <1>2, Zenon
  <2>3. \A i, k \in 1..Len(mnt') : mnt'[i].dir = mnt'[k].dir => i = k
    <3>1. \A i, k \in 1..N : mnt[i].dir = mnt[k].dir => i = k
      BY <1>0, <2>2, Zenon DEF KeyInv
    <3>2. \A i \in 1..N : mnt'[i].dir # mnt'[N + 1].dir
      BY <1>4, <1>5, <2>2
    <3> QED
      BY <1>5, <3>1, <3>2
  <2>4. \A i \in 1..Len(mnt') : ~TwoKeys(mnt'[i].opts)
    BY <1>0, <1>4, <1>5, <2>2, Zenon DEF KeyInv
  <2>5. ASSUME NEW q \in Procs, pc'[q] \in Unmounting, ~job'[q].stale
        PROVE  q # p /\ pc[q] \in Unmounting /\ ~job[q].stale /\ job[q].dir # job[p].dir
    <3>1. q # p
      BY <1>6, <2>5 DEF Unmounting
    <3>2. pc'[q] = pc[q] /\ job'[q].stale = (job[q].stale \/ hit(q))
      BY <1>6, <1>7, <3>1
    <3>3. ~(job[q].stale \/ hit(q))
      BY <2>5, <3>2, Zenon
    <3> QED
      BY <2>5, <3>1, <3>2, <3>3
  <2>6. ASSUME NEW q \in Procs PROVE Knows(q)'
    <3> SUFFICES ASSUME pc'[q] \in Unmounting, ~job'[q].stale,
                        NEW i \in 1..Len(mnt'), mnt'[i].dir = job'[q].dir
                 PROVE  Keys(mnt'[i].opts) \subseteq {job'[q].sig, job'[q].fnek}
      BY Zenon DEF Knows
    <3>1. i \in 1..N /\ mnt'[i] = mnt[i]
      BY <1>4, <1>5, <1>7, <2>5
    <3> QED
      BY <1>0, <1>7, <2>2, <2>5, <3>1, ZenonT(40) DEF KeyInv, Knows
  <2>7. ASSUME NEW k \in Keys(n) PROVE Owned(k)'
    <3>1. \A q \in Procs : mnt'[N + 1].dir = job'[q].dir => ~Gives(q, k)'
      BY <1>4, <1>5, <1>6, <1>7, <2>5 DEF Gives, Unmounting
    <3>2. N + 1 \in 1..Len(mnt') /\ k \in Keys(mnt'[N + 1].opts)
      BY <1>0, <1>4, <1>5
    <3> QED
      BY <3>1, <3>2 DEF Owned
  <2>8. ASSUME NEW k \in used \cap keyring PROVE Owned(k)'
    <3>1. Owned(k)
      BY <1>0, <2>2, <2>8, Zenon DEF KeyInv
    <3>2. ASSUME NEW q \in Procs, pc[q] \in Mounting,
                 k \in FekekSigs(job[q].stack) \cup FekekSigs(job[q].new)
          PROVE  Owned(k)'
      <4>1. CASE q = p
        <5>1. k \in Keys(n)
          BY <1>1, <3>2, <4>1, NothingIn, SMTT(20) DEF Keys
        <5> QED
          BY <5>1, <2>7
      <4>2. CASE q # p
        BY <1>6, <1>7, <3>2, <4>2 DEF Owned
      <4> QED
        BY <4>1, <4>2
    <3>3. ASSUME NEW i \in 1..N, k \in Keys(mnt[i].opts),
                 \A q \in Procs : mnt[i].dir = job[q].dir => ~Gives(q, k)
          PROVE  Owned(k)'
      <4>1. \A q \in Procs : mnt[i].dir = job'[q].dir => ~Gives(q, k)'
        BY <1>6, <1>7, <2>5, <3>3 DEF Gives, Unmounting
      <4>2. i \in 1..Len(mnt') /\ mnt'[i] = mnt[i]
        BY <1>0, <1>5
      <4> QED
        BY <3>3, <4>1, <4>2, ZenonT(40) DEF Owned
    <3> QED
      BY <3>1, <3>2, <3>3, Zenon DEF Owned
  <2>9. \A k \in used' \cap keyring' : Owned(k)'
    BY <1>1, <2>2, <2>7, <2>8
  <2> QED
    BY <2>1, <2>3, <2>4, <2>6, <2>9, Zenon DEF KeyInv
<1> QED
  BY <1>8, <1>9, <1>10, <1>11, <1>12 DEF IInv

\* A run of umount.ecryptfs comes to give a key away only as it leaves the keyring.
Keeps(p) == \A i \in 1..Len(mnt), k \in keyring' :
    k \in Keys(mnt[i].opts) /\ mnt[i].dir = job'[p].dir /\ Gives(p, k)'
        => mnt[i].dir = job[p].dir /\ Gives(p, k)

\* A step of umount.ecryptfs up to the umount.
LEMMA KeyReleases ==
    ASSUME KeyInv, NEW p \in Procs, Alone(p), UNCHANGED <<mnt, used, spoilt>>,
           keyring' \subseteq keyring, pc[p] \notin Mounting, ~spoilt => Knows(p)' /\ Keeps(p)
    PROVE  KeyInv'
<1>0. "" \notin keyring'
  BY Zenon DEF KeyInv
<1> SUFFICES ASSUME ~spoilt PROVE KeyInv'
  BY <1>0, Zenon DEF KeyInv
<1>1. ASSUME NEW q \in Procs PROVE Knows(q)'
  <2>1. CASE q = p
    BY <2>1
  <2>2. CASE q # p
    BY <2>2, ZenonT(40) DEF KeyInv, Knows, Alone
  <2> QED
    BY <2>1, <2>2
<1>2. ASSUME NEW k \in used \cap keyring' PROVE Owned(k)'
  <2>1. Owned(k)
    BY Zenon DEF KeyInv
  <2>2. ASSUME NEW q \in Procs, pc[q] \in Mounting,
               k \in FekekSigs(job[q].stack) \cup FekekSigs(job[q].new)
        PROVE  Owned(k)'
    BY <2>2 DEF Owned, Alone
  <2>3. ASSUME NEW i \in 1..Len(mnt), k \in Keys(mnt[i].opts),
               \A q \in Procs : mnt[i].dir = job[q].dir => ~Gives(q, k)
        PROVE  Owned(k)'
    <3>1. ASSUME NEW q \in Procs, mnt[i].dir = job'[q].dir, Gives(q, k)' PROVE FALSE
      <4>1. CASE q = p
        BY <2>3, <3>1, <4>1 DEF Keeps
      <4>2. CASE q # p
        BY <2>3, <3>1, <4>2 DEF Gives, Alone
      <4> QED
        BY <4>1, <4>2
    <3> QED
      BY <2>3, <3>1, Zenon DEF Owned
  <2> QED
    BY <2>1, <2>2, <2>3, Zenon DEF Owned
<1> QED
  BY <1>0, <1>1, <1>2, Zenon DEF KeyInv

\* A run of umount.ecryptfs that leaves the table alone keeps what the mounts need.
LEMMA UnmountKeeps ==
    ASSUME IInv, NEW p \in Procs, Alone(p), TypeInv', UNCHANGED <<cache, mnt, confirmed, torn>>,
           pc'[p] \notin Mounting
    PROVE  OptInv' /\ ConfirmInv' /\ CacheInv'
<1>1. pc'[p] \notin {"ask_append", "append"}
  BY DEF Mounting
<1>2. OptInv'
  BY OptKeeps DEF IInv
<1>3. ConfirmInv'
  BY <1>1, ConfirmKeeps, Zenon DEF IInv, ConfirmInv
<1>4. CacheInv'
  BY <1>1, CacheKeeps DEF IInv
<1> QED
  BY <1>2, <1>3, <1>4

\* keyctl_unlink() of the two keys, or its failure.
LEMMA UnlinkStep ==
    ASSUME IInv, NEW p \in Procs, UnlinkSig(p) \/ UnlinkFnek(p) \/ UnlinkFails(p) PROVE IInv'
<1>0. TypeInv /\ KeyInv /\ job[p] \in Job /\ pc \in [Procs -> Label] /\ job \in [Procs -> Job]
  BY DEF IInv, TypeInv
<1>1. PICK l \in {"unlink_fnek", "umount"} : pc' = [pc EXCEPT ![p] = l]
  BY Zenon DEF UnlinkSig, UnlinkFnek, UnlinkFails, Goto
<1>2. /\ UNCHANGED <<job, cache, mnt, confirmed, torn>> /\ keyring' \subseteq keyring
      /\ pc[p] \in {"unlink", "unlink_fnek"} /\ spoilt' \in BOOLEAN
  BY <1>0, Zenon DEF UnlinkSig, UnlinkFnek, UnlinkFails, Spoil, History, TypeInv
<1>3. Alone(p) /\ pc'[p] = l /\ job'[p] = job[p] /\ pc' \in [Procs -> Label]
  BY <1>0, <1>1, <1>2 DEF Alone, Label, Unmounting
<1>4. TypeInv'
  BY <1>0, <1>2, <1>3 DEF TypeInv, Alone
<1>5. OptInv' /\ ConfirmInv' /\ CacheInv'
  <2>1. pc'[p] \notin Mounting
    BY <1>3 DEF Mounting
  <2> QED
    BY <1>2, <1>3, <1>4, <2>1, UnmountKeeps
<1>6. CASE UnlinkFails(p)
  <2>1. spoilt' = TRUE
    BY <1>6, Zenon DEF UnlinkFails, Spoil
  <2> QED
    BY <1>0, <1>2, <1>4, <1>5, <2>1, KeySpoilt DEF IInv
<1>7. CASE UnlinkSig(p) \/ UnlinkFnek(p)
  <2>1. UNCHANGED <<used, spoilt>> /\ pc[p] \notin Mounting
    BY <1>2, <1>7, Zenon DEF UnlinkSig, UnlinkFnek, History, Mounting
  <2>2. ASSUME ~spoilt PROVE Knows(p)'
    BY <1>0, <1>2, <1>3, <2>2, Zenon DEF KeyInv, Knows, Unmounting
  <2>3. ASSUME ~spoilt PROVE Keeps(p)
    <3> SUFFICES ASSUME NEW i \in 1..Len(mnt), NEW k \in keyring', k \in Keys(mnt[i].opts),
                        mnt[i].dir = job[p].dir, Gives(p, k)'
                 PROVE  Gives(p, k)
      BY <1>2 DEF Keeps
    <3>1. ~job[p].stale /\ (l = "umount" \/ k = job[p].sig)
      BY <1>2, <1>3 DEF Gives
    <3>2. k # "" /\ k \in {job[p].sig, job[p].fnek}
      BY <1>0, <1>2, <2>3, <3>1, Zenon DEF KeyInv, Knows, Unmounting
    <3>3. CASE UnlinkSig(p)
      <4>1. k # job[p].sig /\ l = IF job[p].fnek \in {"", job[p].sig} THEN "umount" ELSE "unlink_fnek"
        BY <1>0, <1>1, <3>3, Zenon DEF UnlinkSig, Goto
      <4> QED
        BY <3>1, <3>2, <4>1, Zenon
    <3>4. CASE UnlinkFnek(p)
      <4>1. k # job[p].fnek /\ pc[p] = "unlink_fnek"
        BY <3>4 DEF UnlinkFnek
      <4> QED
        BY <3>1, <3>2, <4>1, Zenon DEF Gives
    <3> QED
      BY <1>7, <3>3, <3>4
  <2>4. KeyInv'
    BY <1>0, <1>2, <1>3, <2>1, <2>2, <2>3, KeyReleases
  <2> QED
    BY <1>4, <1>5, <2>4 DEF IInv
<1> QED
  BY <1>6, <1>7

\* umount.ecryptfs reads the table: the keys of the only mount of the directory.
LEMMA ReadStep == ASSUME IInv, NEW p \in Procs, ReadMtab(p) PROVE IInv'
<1>0. /\ TypeInv /\ KeyInv /\ OptInv /\ MountOptsExact /\ job[p] = NoJob /\ pc[p] = "idle"
      /\ mnt \in Seq(Mounted) /\ Len(mnt) \in Nat /\ NoJob \in Job
      /\ UNCHANGED <<keyring, cache, mnt, confirmed, torn, used, spoilt>>
  <2>1. pc[p] = "idle" /\ UNCHANGED <<keyring, cache, mnt, History>>
    BY Zenon DEF ReadMtab
  <2>2. UNCHANGED <<confirmed, torn, used, spoilt>>
    BY <2>1 DEF History
  <2> QED
    BY <2>1, <2>2, NoJobType DEF IInv, TypeInv, OptInv
<1> DEFINE hits(d) == {i \in 1..Len(mnt) : mnt[i].dir = d}
           o(d) == mnt[CHOOSE i \in hits(d) : \A k \in hits(d) : i <= k].opts
           of(d, name) == {i \in 1..Len(o(d)) : o(d)[i][1] = name}
           first(d, S) == o(d)[CHOOSE i \in S : \A k \in S : i <= k][2]
           sig(d) == first(d, of(d, "ecryptfs_sig"))
           fnek(d) == IF of(d, "ecryptfs_fnek_sig") = {} THEN ""
                      ELSE first(d, of(d, "ecryptfs_fnek_sig"))
<1>1. PICK d \in Dirs :
         IF hits(d) = {} \/ Unlink \notin Range(o(d))
         THEN Goto(p, "umount") /\ job' = [job EXCEPT ![p].dir = d]
         ELSE Goto(p, "unlink") /\ job' = [job EXCEPT ![p].dir = d, ![p].sig = sig(d), ![p].fnek = fnek(d)]
  BY Zenon DEF ReadMtab
<1>2. CASE hits(d) = {}
  <2> DEFINE j == [NoJob EXCEPT !.dir = d]
  <2>1. Move(p, "umount", j)
    BY <1>0, <1>1, <1>2, Zenon DEF Move, Goto
  <2>2. j \in Job /\ j.dir = d
    BY <1>0, Zenon DEF Job
  <2> HIDE DEF j
  <2>3. TypeInv' /\ Alone(p) /\ pc'[p] = "umount" /\ job'[p] = j
    BY <1>0, <2>1, <2>2, Moved DEF TypeInv, Label, Unmounting
  <2>4. OptInv' /\ ConfirmInv' /\ CacheInv'
    <3>1. pc'[p] \notin Mounting
      BY <2>3 DEF Mounting
    <3> QED
      BY <1>0, <2>3, <3>1, UnmountKeeps, Zenon
  <2>5. Knows(p)' /\ Keeps(p)
    BY <1>0, <1>2, <2>2, <2>3, Zenon DEF Knows, Keeps
  <2>6. KeyInv'
    <3>1. pc[p] \notin Mounting
      BY <1>0 DEF Mounting
    <3> QED
      BY <1>0, <2>3, <2>5, <3>1, KeyReleases, Zenon
  <2> QED
    BY <2>3, <2>4, <2>6 DEF IInv
<1>3. CASE hits(d) # {}
  <2> DEFINE j == [NoJob EXCEPT !.dir = d, !.sig = sig(d), !.fnek = fnek(d)]
             c == CHOOSE i \in hits(d) : \A k \in hits(d) : i <= k
  <2>2. c \in 1..Len(mnt) /\ mnt[c].dir = d /\ o(d) = mnt[c].opts /\ o(d) \in Seq(Option)
    <3>1. hits(d) \in SUBSET Nat
      OBVIOUS
    <3>2. \E i \in hits(d) : \A k \in hits(d) : i <= k
      BY <1>3, <3>1, Least, Zenon
    <3>3. c \in hits(d)
      BY <3>2
    <3> HIDE DEF c
    <3>4. c \in 1..Len(mnt) /\ mnt[c].dir = d
      BY <3>3
    <3>5. mnt[c] \in Mounted
      BY <1>0, <3>4
    <3> QED
      BY <3>4, <3>5, Zenon DEF Mounted, c
  <2>1. Move(p, "unlink", j)
    <3>1. PICK x \in Range(o(d)) : Inside(Unlink, x)
      BY <1>0, <2>2, Zenon DEF MountOptsExact
    <3>2. x \in Option /\ Unlink \in Option
      BY <2>2, RangeOf, Zenon DEF Option
    <3>3. x = Unlink
      BY <3>1, <3>2, OptionAssumption, Zenon
    <3> QED
      BY <1>0, <1>1, <1>3, <3>1, <3>3, Zenon DEF Move, Goto
  <2> HIDE DEF c, o, hits
  <2>3. of(d, "ecryptfs_sig") # {}
    BY <1>0, <2>2, Zenon DEF OptInv, FekekSigs
  <2>4. sig(d) \in Text /\ sig(d) \in FekekSigs(o(d))
    <3> DEFINE S == of(d, "ecryptfs_sig")
               x == o(d)[CHOOSE i \in S : \A k \in S : i <= k]
    <3>1. o(d) \in Seq(Option) /\ S = {i \in 1..Len(o(d)) : o(d)[i][1] = "ecryptfs_sig"} /\ S # {}
      BY <2>2, <2>3
    <3> HIDE DEF S
    <3>2. x[2] \in Text /\ x[2] \in {o(d)[i][2] : i \in S}
      BY ONLY <3>1, FirstFacts, Zenon
    <3> QED
      BY <3>1, <3>2, Zenon DEF FekekSigs, S
  <2>5. fnek(d) \in Text /\ (FnekSigs(o(d)) # {} => fnek(d) \in FnekSigs(o(d)))
    <3>1. CASE of(d, "ecryptfs_fnek_sig") = {}
      BY <3>1, Zenon DEF FnekSigs, Text
    <3>2. CASE of(d, "ecryptfs_fnek_sig") # {}
      <4> DEFINE S == of(d, "ecryptfs_fnek_sig")
                 x == o(d)[CHOOSE i \in S : \A k \in S : i <= k]
      <4>1. o(d) \in Seq(Option) /\ S = {i \in 1..Len(o(d)) : o(d)[i][1] = "ecryptfs_fnek_sig"} /\ S # {}
        BY <2>2, <3>2
      <4> HIDE DEF S
      <4>2. x[2] \in Text /\ x[2] \in {o(d)[i][2] : i \in S}
        BY ONLY <4>1, FirstFacts, Zenon
      <4> QED
        BY <3>2, <4>1, <4>2, Zenon DEF FnekSigs, S
    <3> QED
      BY <3>1, <3>2, Zenon
  <2> HIDE DEF sig, fnek, of
  <2>6. j \in Job /\ j.dir = d /\ j.sig = sig(d) /\ j.fnek = fnek(d)
    BY <1>0, <2>4, <2>5, Zenon DEF Job
  <2> HIDE DEF j
  <2>7. TypeInv' /\ Alone(p) /\ pc'[p] = "unlink" /\ job'[p] = j
    BY <1>0, <2>1, <2>6, Moved DEF TypeInv, Label, Unmounting
  <2>8. OptInv' /\ ConfirmInv' /\ CacheInv'
    <3>1. pc'[p] \notin Mounting
      BY <2>7 DEF Mounting
    <3> QED
      BY <1>0, <2>7, <3>1, UnmountKeeps, Zenon
  <2>9. ASSUME ~spoilt PROVE Knows(p)'
    <3>1. ~TwoKeys(o(d)) /\ \A i \in 1..Len(mnt) : mnt[i].dir = d => i = c
      BY <1>0, <2>2, <2>9, Zenon DEF KeyInv
    <3>2. Keys(o(d)) \subseteq {sig(d), fnek(d)}
      BY <2>4, <2>5, <3>1 DEF TwoKeys, Keys
    <3> QED
      BY <1>0, <2>2, <2>6, <2>7, <3>1, <3>2, Zenon DEF Knows
  <2>10. Keeps(p)
    BY <2>7 DEF Keeps, Gives
  <2>11. KeyInv'
    <3>1. pc[p] \notin Mounting
      BY <1>0 DEF Mounting
    <3> QED
      BY <1>0, <2>7, <2>9, <2>10, <3>1, KeyReleases, Zenon
  <2> QED
    BY <2>7, <2>8, <2>11 DEF IInv
<1> QED
  BY <1>2, <1>3

\* umount fails: the mount stays, without its keys.
LEMMA UmountFailsStep == ASSUME IInv, NEW p \in Procs, UmountFails(p) PROVE IInv'
<1>0. /\ TypeInv /\ KeyInv /\ pc[p] = "umount" /\ Move(p, "idle", NoJob) /\ NoJob \in Job
      /\ UNCHANGED <<keyring, cache, mnt, confirmed, torn, used, spoilt>>
  BY NoJobType DEF IInv, UmountFails, Leave, Goto, Move, History
<1>1. TypeInv' /\ Alone(p) /\ pc'[p] = "idle"
  BY <1>0, Moved DEF TypeInv, Label
<1>2. pc'[p] \notin Mounting /\ pc[p] \notin Mounting /\ Knows(p)' /\ Keeps(p)
  BY <1>0, <1>1 DEF Mounting, Knows, Keeps, Gives, Unmounting
<1>3. OptInv' /\ ConfirmInv' /\ CacheInv'
  BY <1>0, <1>1, <1>2, UnmountKeeps
<1>4. KeyInv'
  BY <1>0, <1>1, <1>2, KeyReleases
<1> QED
  BY <1>1, <1>3, <1>4 DEF IInv

\* Removing an entry of the mount table shifts the ones after it.
LEMMA RemoveFacts ==
    ASSUME NEW S, NEW s \in Seq(S), NEW c \in 1..Len(s)
    PROVE  LET r == RemoveAt(s, c) IN
           /\ r \in Seq(S) /\ Len(r) = Len(s) - 1
           /\ \A i \in 1..Len(r) : r[i] = s[IF i < c THEN i ELSE i + 1]
<1> DEFINE a == SubSeq(s, 1, c - 1)
           b == SubSeq(s, c + 1, Len(s))
<1>0. Len(s) \in Nat /\ c - 1 \in Nat
  OBVIOUS
<1>1. a \in Seq(S) /\ Len(a) = c - 1 /\ \A i \in 1..(c - 1) : a[i] = s[i]
  BY <1>0
<1>2. b \in Seq(S) /\ Len(b) = Len(s) - c /\ \A i \in 1..(Len(s) - c) : b[i] = s[c + i]
  BY <1>0
<1>3. RemoveAt(s, c) = a \o b
  BY DEF RemoveAt
<1> HIDE DEF a, b
<1>4. /\ a \o b \in Seq(S) /\ Len(a \o b) = Len(s) - 1
      /\ \A i \in 1..Len(a \o b) : (a \o b)[i] = IF i <= Len(a) THEN a[i] ELSE b[i - Len(a)]
  <2>1. a \o b \in Seq(S) /\ Len(a \o b) = Len(a) + Len(b)
    <3>1. a \in Seq(S) /\ b \in Seq(S)
      BY <1>1, <1>2
    <3> QED
      BY ONLY <3>1, ConcatProperties
  <2>2. Len(a) + Len(b) = Len(s) - 1
    BY <1>0, <1>1, <1>2
  <2>3. \A i \in 1..(Len(a) + Len(b)) : (a \o b)[i] = IF i <= Len(a) THEN a[i] ELSE b[i - Len(a)]
    BY <1>1, <1>2
  <2> QED
    BY <2>1, <2>2, <2>3
<1>5. ASSUME NEW i \in 1..(Len(s) - 1) PROVE (a \o b)[i] = s[IF i < c THEN i ELSE i + 1]
  <2>1. CASE i < c
    BY <1>0, <1>1, <1>4, <2>1
  <2>2. CASE ~(i < c)
    BY <1>0, <1>1, <1>2, <1>4, <2>2
  <2> QED
    BY <2>1, <2>2, Zenon
<1> QED
  BY <1>3, <1>4, <1>5

\* The umount: with the mount goes what its keys were needed for, unless somebody
\* else has mounted over it.
LEMMA UmountStep == ASSUME IInv, NEW p \in Procs, Umount(p) PROVE IInv'
<1> DEFINE hits == {i \in 1..Len(mnt) : mnt[i].dir = job[p].dir}
           c == CHOOSE i \in hits : \A k \in hits : k <= i
<1>0. /\ TypeInv /\ OptInv /\ ConfirmInv /\ CacheInv /\ KeyInv /\ mnt \in Seq(Mounted) /\ Len(mnt) \in Nat
      /\ job[p] \in Job /\ NoJob \in Job /\ spoilt \in BOOLEAN /\ job[p].stale \in BOOLEAN
  <2>1. job[p] \in Job
    BY DEF IInv, TypeInv
  <2>2. job[p].stale \in BOOLEAN
    BY <2>1, Zenon DEF Job
  <2> QED
    BY <2>1, <2>2, NoJobType DEF IInv, TypeInv
<1>1. /\ pc[p] = "umount" /\ Move(p, "idle", NoJob) /\ UNCHANGED <<keyring, cache, confirmed, torn>>
      /\ mnt' = IF hits = {} THEN mnt ELSE RemoveAt(mnt, c)
      /\ spoilt' = (spoilt \/ (hits # {} /\ job[p].stale)) /\ used' = IF spoilt' THEN {} ELSE used
  BY DEF Umount, Leave, Goto, Move, Spoil
<1>2. CASE hits = {}
  <2>1. mnt' = mnt /\ spoilt' = spoilt /\ (~spoilt => used' = used)
    BY <1>0, <1>1, <1>2
  <2>2. TypeInv' /\ Alone(p) /\ pc'[p] = "idle"
    BY <1>0, <1>1, <2>1, Moved, Zenon DEF TypeInv, Label
  <2>3. pc'[p] \notin Mounting /\ pc[p] \notin Mounting /\ Knows(p)' /\ Keeps(p)
    BY <1>1, <2>2, Zenon DEF Mounting, Knows, Keeps, Gives, Unmounting
  <2>4. OptInv' /\ ConfirmInv' /\ CacheInv'
    BY <1>1, <2>1, <2>2, <2>3, UnmountKeeps, Zenon
  <2>5. KeyInv'
    <3>1. CASE spoilt
      BY <1>0, <1>1, <2>1, <3>1, KeySpoilt, Zenon
    <3>2. CASE ~spoilt
      BY <1>0, <1>1, <2>1, <2>2, <2>3, <3>2, KeyReleases, Zenon
    <3> QED
      BY <3>1, <3>2
  <2> QED
    BY <2>2, <2>4, <2>5 DEF IInv
<1>3. CASE hits # {}
  <2>1. c \in 1..Len(mnt) /\ mnt[c].dir = job[p].dir
    <3>1. hits \in SUBSET (1..Len(mnt))
      OBVIOUS
    <3>2. \E i \in hits : \A k \in hits : k <= i
      BY <1>0, <1>3, <3>1, Greatest, Zenon
    <3>3. c \in hits
      BY <3>2
    <3> QED
      BY <3>3
  <2>2. mnt' = RemoveAt(mnt, c) /\ spoilt' = (spoilt \/ job[p].stale)
    BY <1>0, <1>1, <1>3, SMTT(20)
  <2> HIDE DEF c, hits
  <2> DEFINE at(i) == IF i < c THEN i ELSE i + 1
  <2>3. /\ mnt' \in Seq(Mounted) /\ Len(mnt') = Len(mnt) - 1
        /\ \A i \in 1..Len(mnt') : mnt'[i] = mnt[at(i)]
    BY <1>0, <2>1, <2>2, RemoveFacts, Zenon
  <2>4. /\ \A i \in 1..Len(mnt') : at(i) \in 1..Len(mnt)
        /\ \A i, k \in 1..Len(mnt') : at(i) = at(k) => i = k
        /\ \A i \in 1..Len(mnt) : i # c => \E k \in 1..Len(mnt') : at(k) = i
    <3>1. \A i \in 1..Len(mnt') : at(i) \in 1..Len(mnt)
      BY <1>0, <2>1, <2>3
    <3>2. \A i, k \in 1..Len(mnt') : at(i) = at(k) => i = k
      BY <1>0, <2>1, <2>3
    <3>3. ASSUME NEW i \in 1..Len(mnt), i # c PROVE \E k \in 1..Len(mnt') : at(k) = i
      <4>1. CASE i < c
        <5>1. i \in 1..Len(mnt') /\ at(i) = i
          BY <1>0, <2>1, <2>3, <4>1
        <5> QED
          BY <5>1
      <4>2. CASE i > c
        <5>1. i - 1 \in 1..Len(mnt') /\ at(i - 1) = i
          BY <1>0, <2>1, <2>3, <4>2
        <5> QED
          BY <5>1
      <4> QED
        BY <1>0, <2>1, <3>3, <4>1, <4>2
    <3> QED
      BY <3>1, <3>2, <3>3
  <2> HIDE DEF at
  <2>5. TypeInv' /\ Alone(p) /\ pc'[p] = "idle"
    BY <1>0, <1>1, <2>2, <2>3, Moved DEF TypeInv, Label
  <2>6. pc[p] \notin Mounting /\ pc'[p] \notin Mounting
    BY <1>1, <2>5, Zenon DEF Mounting
  <2>7. OptInv'
    <3>1. MountOptsExact'
      BY <1>0, <2>3, <2>4, ZenonT(40) DEF OptInv, MountOptsExact
    <3>2. \A i \in 1..Len(mnt') : FekekSigs(mnt'[i].opts) # {}
      BY <1>0, <2>3, <2>4, ZenonT(40) DEF OptInv
    <3>3. \A q \in Procs : pc'[q] \in Mounting => Ready(job'[q])
      BY <1>0, <2>5, <2>6, Zenon DEF OptInv, Alone
    <3> QED
      BY <3>1, <3>2, <3>3, Zenon DEF OptInv
  <2>8. ConfirmInv'
    <3>1. MountConfirmed'
      BY <1>0, <1>1, <2>3, <2>4, Zenon DEF ConfirmInv, MountConfirmed
    <3>2. \A q \in Procs : pc'[q] \in {"ask_append", "append"} => job'[q].sig \in confirmed'
      BY <1>0, <1>1, <2>5, ZenonT(40) DEF ConfirmInv, Alone
    <3>3. \A q \in Procs : pc'[q] \in Mounting /\ job'[q].check =>
             \A s \in FekekSigs(job'[q].new) : Agreed(q, s)'
      BY <1>0, <1>1, <2>5, <2>6 DEF ConfirmInv, Alone, Agreed
    <3> QED
      BY <1>0, <1>1, <3>1, <3>2, <3>3 DEF ConfirmInv
  <2>9. CacheInv'
    BY <1>0, <1>1, <2>5, CacheKeeps, Zenon
  <2>10. CASE spoilt'
    <3>1. KeyInv'
      BY <1>0, <1>1, <2>10, KeySpoilt, Zenon
    <3> QED
      BY <2>5, <2>7, <2>8, <2>9, <3>1 DEF IInv
  <2>11. CASE ~spoilt'
    <3>0. ~spoilt /\ ~job[p].stale /\ used' = used /\ keyring' = keyring /\ "" \notin keyring
      BY <1>0, <1>1, <2>2, <2>11, Zenon DEF KeyInv
    <3>1. ASSUME NEW i \in 1..Len(mnt'), NEW k \in 1..Len(mnt'), mnt'[i].dir = mnt'[k].dir
          PROVE  i = k
      <4>1. mnt[at(i)].dir = mnt[at(k)].dir /\ at(i) \in 1..Len(mnt) /\ at(k) \in 1..Len(mnt)
        BY <2>3, <2>4, <3>1, Zenon
      <4>2. at(i) = at(k)
        BY <1>0, <3>0, <4>1, Zenon DEF KeyInv
      <4> QED
        BY <2>4, <4>2
    <3>2. \A i \in 1..Len(mnt') : ~TwoKeys(mnt'[i].opts)
      BY <1>0, <2>3, <2>4, <3>0, Zenon DEF KeyInv
    <3>3. ASSUME NEW q \in Procs PROVE Knows(q)'
      <4>1. CASE q = p
        BY <2>5, <4>1 DEF Knows, Unmounting
      <4>2. CASE q # p
        <5>1. Knows(q) /\ pc'[q] = pc[q] /\ job'[q] = job[q]
          BY <1>0, <2>5, <3>0, <4>2, Zenon DEF KeyInv, Alone
        <5>2. \A i \in 1..Len(mnt') : mnt'[i] = mnt[at(i)] /\ at(i) \in 1..Len(mnt)
          BY <2>3, <2>4, Zenon
        <5> QED
          BY <5>1, <5>2, Zenon DEF Knows
      <4> QED
        BY <4>1, <4>2
    <3>4. ASSUME NEW k \in used' \cap keyring' PROVE Owned(k)'
      <4>0. Owned(k)
        BY <1>0, <3>0, Zenon DEF KeyInv
      <4>1. CASE \E r \in Procs : pc[r] \in Mounting /\ k \in FekekSigs(job[r].stack) \cup FekekSigs(job[r].new)
        BY <2>5, <2>6, <4>1, Zenon DEF Owned, Alone
      <4>2. CASE \E i \in 1..Len(mnt) : /\ k \in Keys(mnt[i].opts)
                                        /\ \A q \in Procs : mnt[i].dir = job[q].dir => ~Gives(q, k)
        <5>1. PICK i \in 1..Len(mnt) : /\ k \in Keys(mnt[i].opts)
                                       /\ \A q \in Procs : mnt[i].dir = job[q].dir => ~Gives(q, k)
          BY <4>2
        <5>2. i # c
          BY <1>1, <2>1, <3>0, <5>1, Zenon DEF Gives
        <5>3. PICK m \in 1..Len(mnt') : at(m) = i
          BY <2>4, <5>2
        <5>4. ASSUME NEW q \in Procs, mnt'[m].dir = job'[q].dir PROVE ~Gives(q, k)'
          <6>1. CASE q = p
            BY <2>5, <6>1 DEF Gives
          <6>2. CASE q # p
            BY <2>3, <2>5, <5>1, <5>3, <5>4, <6>2 DEF Gives, Alone
          <6> QED
            BY <6>1, <6>2
        <5>5. k \in Keys(mnt'[m].opts)
          BY <2>3, <5>1, <5>3
        <5> QED
          BY <5>4, <5>5 DEF Owned
      <4> QED
        BY <4>0, <4>1, <4>2, Zenon DEF Owned
    <3>5. KeyInv'
      BY <3>0, <3>1, <3>2, <3>3, <3>4, Zenon DEF KeyInv
    <3> QED
      BY <2>5, <2>7, <2>8, <2>9, <3>5 DEF IInv
  <2> QED
    BY <2>10, <2>11
<1> QED
  BY <1>2, <1>3

\* Every step of every run keeps the invariant.
LEMMA IInvStep == ASSUME IInv, [Next]_vars PROVE IInv'
<1>1. CASE Next
  <2>1. PICK p \in Procs : Step(p)
    BY <1>1 DEF Next
  <2>2. CASE Start(p)
    BY <2>2, StartStep
  <2>3. CASE ProcessGraph(p)
    BY <2>3, GraphStep
  <2>4. CASE ProcessGraphFails(p) \/ Cancel(p) \/ OpenCacheFails(p) \/ MountFails(p)
    <3>1. GiveUp(p)
      BY <2>4 DEF ProcessGraphFails, Cancel, OpenCacheFails, MountFails
    <3> QED
      BY <3>1, GiveUpStep
  <2>5. CASE Pop(p)
    BY <2>5, PopStep
  <2>6. CASE CheckSig(p) \/ Yes(p) \/ Mumble(p) \/ DontAppend(p)
    BY <2>6, AskStep
  <2>7. CASE Seek(p)
    BY <2>7, SeekStep
  <2>8. CASE WriteSig(p)
    BY <2>8, WriteStep
  <2>9. CASE WriteSigFails(p)
    BY <2>9, WriteFailsStep
  <2>10. CASE Mount(p)
    BY <2>10, MountStep
  <2>11. CASE ReadMtab(p)
    BY <2>11, ReadStep
  <2>12. CASE UnlinkSig(p) \/ UnlinkFnek(p) \/ UnlinkFails(p)
    BY <2>12, UnlinkStep
  <2>13. CASE Umount(p)
    BY <2>13, UmountStep
  <2>14. CASE UmountFails(p)
    BY <2>14, UmountFailsStep
  <2> QED
    BY <2>1, <2>2, <2>3, <2>4, <2>5, <2>6, <2>7, <2>8, <2>9, <2>10, <2>11, <2>12, <2>13, <2>14
    DEF Step
<1>2. CASE UNCHANGED vars
  <2>1. UNCHANGED <<pc, job, keyring, cache, mnt, confirmed, torn, used, spoilt>>
    BY <1>2 DEF vars
  <2>2. TypeInv'
    BY <2>1 DEF IInv, TypeInv
  <2>3. OptInv'
    BY <2>1 DEF IInv, OptInv, MountOptsExact
  <2>4. ConfirmInv'
    BY <2>1 DEF IInv, ConfirmInv, MountConfirmed, Agreed
  <2>5. CacheInv'
    BY <2>1 DEF IInv, CacheInv, CacheIsRecords
  <2>6. KeyInv'
    <3>1. /\ \A q \in Procs : Knows(q)' = Knows(q)
          /\ \A q \in Procs : \A k \in keyring : Gives(q, k)' = Gives(q, k)
      BY <2>1 DEF Knows, Gives
    <3>2. \A k \in keyring : Owned(k) => Owned(k)'
      BY <2>1, <3>1, ZenonT(40) DEF Owned
    <3> QED
      BY <2>1, <3>1, <3>2, Zenon DEF IInv, KeyInv
  <2> QED
    BY <2>2, <2>3, <2>4, <2>5, <2>6 DEF IInv
<1> QED
  BY <1>1, <1>2

\* The invariant holds throughout.
LEMMA IInvHolds == Spec => []IInv
BY InitIInv, IInvStep, PTL DEF Spec

\* What ecryptfs_do_mount() hands to the kernel is made of the options given, those that
\* it does not scrub, in their order and as often as they were given, and of each option
\* of the walk's stack and ecryptfs_unlink_sigs once, unless strstr() finds its text in
\* the string.  Nothing else is in it.
THEOREM MountOptsExactHolds == Spec => []MountOptsExact
<1>1. IInv => MountOptsExact
  BY IInvImplies
<1> QED
  BY <1>1, IInvHolds, PTL

\* With the cache of signatures in use nothing is mounted with a signature that was
\* neither given nor agreed to, now or when process_sig() put it in the cache, also
\* when other runs write to the cache between the search and the mount.
THEOREM MountConfirmedHolds == Spec => []MountConfirmed
<1>1. IInv => MountConfirmed
  BY IInvImplies
<1> QED
  BY <1>1, IInvHolds, PTL

\* ecryptfs_append_sig() of any number of runs, each seeking and writing without a
\* lock, leaves a file of whole records until a write is cut short.
THEOREM CacheIsRecordsHolds == Spec => []CacheIsRecords
<1>1. IInv => CacheIsRecords
  BY IInvImplies
<1> QED
  BY <1>1, IInvHolds, PTL

\* When everything is unmounted again umount.ecryptfs has removed every key a mount
\* has used, unless a call failed or two runs met on one directory.
THEOREM KeysGoneHolds == Spec => []KeysGone
<1>1. IInv => KeysGone
  BY IInvImplies
<1> QED
  BY <1>1, IInvHolds, PTL
=============================================================================
