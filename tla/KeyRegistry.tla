----------------------------- MODULE KeyRegistry -----------------------------
(***************************************************************************)
(* The list of key modules (src/libecryptfs/key_mod.c): registration from  *)
(* the module directory and of the built-in passphrase module, and lookup  *)
(* by alias.  An alias is a sequence of letters.                           *)
(***************************************************************************)
EXTENDS Integers, SequencesExt

\* What can become of an entry of the module directory.
Fates == {"no .so", "no library", "no symbol", "no memory", "no operations", "init fails",
          "no init", "loads"}

Passphrase == <<"p", "w">>
NoAlias == <<>>             \* the alias a dummy init() leaves: a NULL pointer

Operations == {"init", "get_gen_key_subgraph_trans_node", "get_param_subgraph_trans_node", "encrypt",
               "decrypt", "finalize"}

\* ecryptfs_fill_in_dummy_ops(): a module's own operations, or dummies.
fill_in_dummy_ops(own) == [o \in Operations |-> IF o \in own THEN "own" ELSE "dummy"]

\* The operations the passphrase module has; which of its own another module has
\* makes no difference once the rest is filled in.
Own == {"init", "get_param_subgraph_trans_node", "finalize"}

\* One turn of the loop over the directory.  A module that cannot be used is left
\* out; only a lack of memory ends the registration.
Load(r, e) ==
    IF r.rc # 0 THEN r
    ELSE IF e.fate = "no memory" THEN [r EXCEPT !.rc = -12]
    ELSE IF e.fate \notin {"no init", "loads"} THEN r
    ELSE [r EXCEPT !.list = Append(@,
              [alias |-> IF e.fate = "no init" THEN NoAlias ELSE e.alias, from |-> "file",
               ops |-> fill_in_dummy_ops(IF e.fate = "no init" THEN Own \ {"init"} ELSE Own)])]

\* The built-in module, unless a file has its alias.  The comparison walks the
\* list and dereferences every alias up to a match.
Builtin(r) ==
    LET hit == SelectInSeq(r.list, LAMBDA k : k.alias = Passphrase)
        null == SelectInSeq(r.list, LAMBDA k : k.alias = NoAlias)
    IN  IF r.rc # 0 THEN r
        ELSE IF null # 0 /\ (hit = 0 \/ null < hit) THEN [r EXCEPT !.crash = TRUE]
        ELSE IF hit # 0 THEN r
        ELSE [r EXCEPT !.list = Append(@, [alias |-> Passphrase, from |-> "library", ops |-> [o \in Own |-> "own"]])]

\* ecryptfs_register_key_modules()
register_key_modules(dir, opens) ==
    LET start == [list |-> <<>>, rc |-> 0, crash |-> FALSE]
    IN  IF opens THEN Builtin(FoldLeft(Load, start, dir)) ELSE [start EXCEPT !.rc = -1]

\* Mutant of Matches: as many letters as the alias looked for has.
MatchesQuery(alias, query) == IsPrefix(query, alias)

\* strncmp() over the letters of the alias in the list.
Matches(alias, query) == IsPrefix(alias, query)

\* ecryptfs_find_key_mod(): the position in the list; 0 is "not found".  A module
\* without alias ends the search, and the program.
find_key_mod(list, query) == SelectInSeq(list, LAMBDA k : k.alias = NoAlias \/ Matches(k.alias, query))
-----------------------------------------------------------------------------

\* Whatever else is in the module directory and fails to load, there is exactly
\* one place the passphrase module comes from: the files that have its alias, or
\* else the library.
PassphraseOnceAt(dir) ==
    LET r == register_key_modules(dir, TRUE)
        from == {r.list[i].from : i \in {k \in 1 .. Len(r.list) : r.list[k].alias = Passphrase}}
    IN  r.rc = 0 /\ ~r.crash =>
            from = IF \E i \in 1 .. Len(dir) : dir[i].fate = "loads" /\ dir[i].alias = Passphrase
                   THEN {"file"} ELSE {"library"}

\* Every usable module of the directory is found by its alias, in whatever order
\* the directory is read and whatever else in it cannot be used, unless another
\* alias is the beginning of its own; and the module found has every operation
\* the daemon calls.
FindsModuleAt(dir) ==
    LET r == register_key_modules(dir, TRUE)
        loads == {i \in 1 .. Len(dir) : dir[i].fate = "loads"}
    IN  (\A i \in 1 .. Len(dir) : dir[i].fate \notin {"no memory", "no init"}) =>
            /\ r.rc = 0 /\ ~r.crash
            /\ \A i \in loads :
                 LET k == find_key_mod(r.list, dir[i].alias)
                 IN  (\A j \in loads : ~IsStrictPrefix(dir[j].alias, dir[i].alias)) =>
                         /\ k # 0 /\ r.list[k].alias = dir[i].alias /\ r.list[k].from = "file"
                         /\ {"encrypt", "decrypt", "finalize"} \subseteq DOMAIN r.list[k].ops
=============================================================================
