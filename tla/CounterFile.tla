---------------------------- MODULE CounterFile ----------------------------
(***************************************************************************)
(* The text of the counter file of mount.ecryptfs_private, under the       *)
(* holder's exclusive lock.  bump_counter() writes the new count over the  *)
(* start of the file and never truncates it, so what a longer number left  *)
(* behind stays in the file.  PrivateMount keeps the count as a number;    *)
(* this module shows that the text always reads back as that number.       *)
(***************************************************************************)
EXTENDS Integers, SequencesExt

CONSTANT CountLimit     \* bound: the largest count the instance reaches

ASSUME CountLimitAssumption == CountLimit \in Nat

VARIABLES file,         \* the characters of the file
          ret           \* what the last bump_counter() returned

vars == <<file, ret>>

Digit == 0 .. 9
NL == 10                \* the newline character
MAXINT == 2147483647

Init == file = <<>> /\ ret = 0
-----------------------------------------------------------------------------

\* The decimal digits of n: printf's "%d".
Digits[n \in 0 .. CountLimit] ==
    IF n < 10 THEN <<n>> ELSE Append(Digits[n \div 10], n % 10)

\* Mutant of Format: the number is not terminated.
FormatBare(n) == Digits[n]

\* printf's "%d\n".
Format(n) == Append(Digits[n], NL)

\* fscanf's "%d\n" for what bump_counter() writes: the digits the text starts
\* with.  Without any digit the count defaults to 0.
Scan(text) ==
    LET n == CHOOSE k \in 0 .. Len(text) :
                 /\ \A i \in 1 .. k : text[i] \in Digit
                 /\ k < Len(text) => text[k + 1] \notin Digit
    IN  FoldLeft(LAMBDA v, d : 10 * v + d, 0, SubSeq(text, 1, n))

\* rewind() and fprintf(): the rest of a longer text stays in place.
Overwrite(old, new) == new \o SubSeq(old, Len(new) + 1, Len(old))

\* bump_counter(): one call, made under the lock.
Bump(delta) ==
    LET n == Scan(file) + delta
        c == IF n < 0 THEN 0 ELSE n
    IN  /\ c <= CountLimit
        /\ file' = Overwrite(file, Format(c))
        /\ ret' = c

increment == Bump(1)
decrement == Bump(-1)
zero == Bump(-MAXINT + 1)

Next == increment \/ decrement \/ zero

Spec == Init /\ [][Next]_vars
-----------------------------------------------------------------------------

\* However long the numbers that were in the file before, the count main()
\* decides on, which bump_counter() returns, is the counter of the abstract
\* specification: it goes up and down by one, stops at zero and is cleared by
\* zero().
Counter == INSTANCE RefCountedMount WITH
    Alias <- {"alias"},
    count <- [a \in {"alias"} |-> ret],
    mounts <- [a \in {"alias"} |-> 0]
ImplementsCounter == Counter!Spec
=============================================================================
