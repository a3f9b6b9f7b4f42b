----------------------------- MODULE OptionParser -----------------------------
(***************************************************************************)
(* The parser of mount options and of options files                        *)
(* (src/libecryptfs/cmd_ln_parser.c), as functions.  A text is a sequence  *)
(* of symbols; the word "key" is one symbol, any other letter another.     *)
(* An option is <<name, value>>, and the value NULL is the empty sequence. *)
(***************************************************************************)
EXTENDS Integers, SequencesExt

CONSTANTS
    MaxTok,         \* MAX_TOK_LEN: longest token, in symbols
    MaxFile         \* MAX_FILE_SIZE

ASSUME ParserAssumption == MaxTok \in Nat \ {0} /\ MaxFile \in Nat

NULL == <<>>
Printed == <<"n">>          \* "%s" of a NULL pointer: "(null)"

\* The state of a parse: the list so far, the token so far, the return code, and
\* whether the scan was given up.
Fresh == [list |-> <<>>, tok |-> <<>>, rc |-> 0, stop |-> FALSE]

\* process_nv_pair: the last = separates name and value.
nv_pair(tok) ==
    LET eq == SelectLastInSeq(tok, LAMBDA c : c = "=")
        j == IF eq = 0 THEN Len(tok) + 1 ELSE eq
    IN  <<SubSeq(tok, 1, j - 1), SubSeq(tok, j + 1, Len(tok))>>

\* process_comma_tok() of a token that is no list.
process_nv_tok(p, tok) ==
    IF p.rc # 0 \/ tok = <<>> THEN p
    ELSE IF tok[1] \in {"=", ":"} THEN [p EXCEPT !.rc = -22]
    ELSE [p EXCEPT !.list = Append(@, nv_pair(tok))]

IsKeyList(tok) ==
    /\ Len(tok) > 2 /\ SubSeq(tok, 1, 2) = <<"key", "=">>
    /\ \E i \in 3 .. Len(tok) : tok[i] = ":"

\* The parts of a list: the text between colons.
Parts(tok) ==
    FoldLeft(LAMBDA parts, c : IF c = ":" THEN Append(parts, <<>>)
                               ELSE [parts EXCEPT ![Len(parts)] = Append(@, c)],
             <<<<>>>>, tok)

process_comma_tok(p, tok) ==
    IF IsKeyList(tok) THEN FoldLeft(process_nv_tok, p, Parts(tok)) ELSE process_nv_tok(p, tok)

\* One character of generate_nv_list().  A token that fills the buffer ends the
\* scan, without an error.
Char(p, c) ==
    IF p.stop THEN p
    ELSE IF c \in {",", "nl"}
         THEN LET q == process_comma_tok(p, p.tok) IN [q EXCEPT !.tok = <<>>, !.stop = q.rc # 0]
         ELSE [p EXCEPT !.tok = Append(@, c), !.stop = Len(p.tok) + 1 = MaxTok]

generate_nv_list(text) ==
    LET p == FoldLeft(Char, Fresh, text)
    IN  IF p.stop THEN p ELSE process_comma_tok(p, p.tok)

\* parse_options_file(): the buffer has no terminating NUL of its own, so beyond
\* is whatever the memory after the file holds, up to a NUL.
parse_options_file(file, beyond) ==
    IF Len(file) > MaxFile THEN [Fresh EXCEPT !.rc = -27] ELSE generate_nv_list(file \o beyond)

\* copy_nv_pair(), and the assignment of a value: through asprintf("%s").
Copied(v) == IF v = NULL THEN Printed ELSE v

\* Mutant of Merge: only the first option of the name is replaced.
MergeFirst(dups, dst, o) ==
    LET i == SelectInSeq(dst, LAMBDA d : d[1] = o[1])
    IN  IF o[1] \in dups \/ i = 0 THEN Append(dst, <<o[1], Copied(o[2])>>)
        ELSE [dst EXCEPT ![i] = <<o[1], Copied(o[2])>>]

\* One option of the second list: added, or written over every option of its name.
Merge(dups, dst, o) ==
    IF o[1] \in dups \/ \A i \in 1 .. Len(dst) : dst[i][1] # o[1]
    THEN Append(dst, <<o[1], Copied(o[2])>>)
    ELSE [i \in 1 .. Len(dst) |-> IF dst[i][1] = o[1] THEN <<o[1], Copied(o[2])>> ELSE dst[i]]

nvp_list_union(dst, src, dups) == FoldLeft(LAMBDA d, o : Merge(dups, d, o), dst, src)

\* ecryptfs_process_decision_graph(): ~/.ecryptfsrc and the command line.  The
\* return code of neither parse is looked at.
Options(file, beyond, line, dups) ==
    nvp_list_union(parse_options_file(file, beyond).list, generate_nv_list(line).list, dups)
-----------------------------------------------------------------------------

\* A layout is a sequence of words of the grammar in README:128: an attribute,
\* or a key with attributes.  Text is the option string, Attrs what it says.
WordText(w) == FlattenSeq([i \in 1 .. Len(w) |->
                   (IF i = 1 THEN <<>> ELSE <<":">>) \o w[i][1] \o <<"=">> \o w[i][2]])
Text(l, sep) == FlattenSeq([i \in 1 .. Len(l) |-> (IF i = 1 THEN <<>> ELSE <<sep>>) \o WordText(l[i])])
Attrs(l) == FlattenSeq(l)

\* The grammar allows = in a value.  Such an attribute is taken apart at its last =.
AtLastEq(o) ==
    LET eq == SelectLastInSeq(o[2], LAMBDA c : c = "=")
    IN  IF eq = 0 THEN o
        ELSE <<o[1] \o <<"=">> \o SubSeq(o[2], 1, eq - 1), SubSeq(o[2], eq + 1, Len(o[2]))>>

\* The attributes of the words before the first that does not fit into the buffer.
Readable(l) ==
    LET long == {i \in 1 .. Len(l) : Len(WordText(l[i])) >= MaxTok}
        upto == IF long = {} THEN Len(l) ELSE Min(long) - 1
        attrs == Attrs(SubSeq(l, 1, upto))
    IN  [i \in 1 .. Len(attrs) |-> AtLastEq(attrs[i])]

\* A well-formed option string is read as what it says, but for values with an = in
\* them, up to the first word that does not fit into the token buffer; from there
\* on nothing is read, and no error is reported.
ParseExactAt(l, sep) ==
    LET p == generate_nv_list(Text(l, sep)) IN p.rc = 0 /\ p.list = Readable(l)

\* Likewise the options of a file whose last line is complete are read, in their
\* order, whatever the memory behind the buffer holds.  A file that is too large is
\* refused, and nothing of it is read.
FileKeptAt(l, beyond) ==
    LET file == Text(l, "nl") \o <<"nl">>
        p == parse_options_file(file, beyond)
    IN  IF Len(file) > MaxFile THEN p.rc # 0 /\ p.list = <<>> ELSE IsPrefix(Readable(l), p.list)

\* An option given on the command line overrules every setting of it in the file,
\* and no other option of the file is touched.  Only options that may be repeated
\* are kept beside each other, those of the file first.
CommandLineWinsAt(file, line, dups) ==
    LET dst == Attrs(file)
        src == Attrs(line)
        all == Options(Text(file, "nl"), <<>>, Text(line, ","), dups)
        named(s, n) == SelectSeq(s, LAMBDA o : o[1] = n)
        copied(s) == [i \in 1 .. Len(s) |-> <<s[i][1], Copied(s[i][2])>>]
        Name(s) == {s[i][1] : i \in 1 .. Len(s)}
    IN  /\ \A n \in Name(dst) \cup Name(src) :
             LET mine == named(all, n)
             IN  IF n \in dups THEN mine = named(dst, n) \o copied(named(src, n))
                 ELSE IF n \notin Name(src) THEN mine = named(dst, n)
                 ELSE \A i \in 1 .. Len(mine) : mine[i] = Last(copied(named(src, n)))
        /\ Name(all) = Name(dst) \cup Name(src)
=============================================================================
