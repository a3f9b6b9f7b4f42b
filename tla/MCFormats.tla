------------------------------ MODULE MCFormats ------------------------------
(***************************************************************************)
(* One instance for what is read from and written to files, options and    *)
(* messages.  A behaviour either uses the counter file, or is one input of *)
(* one of the parsers.                                                     *)
(***************************************************************************)
EXTENDS CounterFile, Encodings, OptionParser, FileHeader, KeyRegistry

VARIABLE probe

Near(S) == UNION {(n - 2) .. (n + 2) : n \in S}

\* Around every boundary of the two encodings.
Lengths == 0 .. 10 \cup Near({192, 448, 1024, 8384, 16576, 65535})
Beyond == {0, 1, 191, 192, 223, 224, 255}

Vals == {<<>>, <<"v">>}
AttrWords == {<<<<n, v>>>> : n \in {<<"a">>, <<"b", "c">>}, v \in Vals \cup {<<"v", "w">>}}
KeyWord == <<<<"key">>, <<"p">>>>
KeyWords == {<<KeyWord>>} \cup {<<KeyWord, <<<<"a">>, v>>>> : v \in Vals \cup {<<"=">>}}
            \cup {<<KeyWord, <<<<"a">>, v>>, <<<<"d">>, w>>>> : v \in Vals, w \in Vals}
\* Words below, at and above the length of a token; values with an =.
EdgeWords == {<<<<<<"a">>, [i \in 1 .. n |-> "v"]>>>> : n \in MaxTok - 4 .. MaxTok - 1}
EqWords == {<<<<<<"a">>, v>>>> : v \in {<<"=">>, <<"v", "=", "w">>, <<"=", "v", "=">>}}
Words == AttrWords \cup EdgeWords \cup EqWords
Layouts(words, n) == UNION {[1 .. k -> words] : k \in 0 .. n}
Short == {<<<<n, v>>>> : n \in {<<"a">>, <<"b">>}, v \in Vals}

Headers == [file_size : {<<0, 0, 0, 0, 0, 1, 2, 3>>, <<9, 0, 0, 0, 0, 0, 0, 255>>},
            m : {<<1, 2, 3, 4>>, <<255, 0, 128, 245>>}, version : {0, 3}, flags : {0, 1, 5, 6},
            extent : {0, 4096, 8192}, extents : {1, 2, 255}]

Entries == [alias : {Passphrase, <<"p">>, <<"o", "s">>}, fate : Fates]

Probes ==
         [kind : {"length"}, size : Lengths]
    \cup [kind : {"options"}, layout : Layouts(Words \cup KeyWords, 3), sep : {",", "nl"}]
    \cup [kind : {"file"}, file : Layouts(Words, 2),
          beyond : {<<>>, <<"x">>, <<"=">>, <<"a", "=", "x">>, <<"nl", "a", "=", "x">>}]
    \cup [kind : {"merge"}, first : Layouts(Short, 2), second : Layouts(Short, 2), dups : {{}, {<<"b">>}}]
    \cup [kind : {"header"}, host : Hosts, h : Headers, at : {1, 8, 9, 13, 16, 19}, unknown : {0, 255}]
    \cup [kind : {"registry"},
          dir : Layouts(Entries, 2) \cup Layouts([alias : {Passphrase, <<"o", "s">>}, fate : Fates], 3)]

Start == Init /\ probe \in {[kind |-> "counter"]} \cup Probes
FormatsNext == probe.kind = "counter" /\ Next /\ UNCHANGED probe
Formats == Start /\ [][FormatsNext]_<<file, ret, probe>>
-----------------------------------------------------------------------------

\* What passes between kernel, daemon and key modules is read as it was written.
\* Packet lengths, at every boundary of their encoding, are read back from as many
\* bytes or refused, never misread.  ecryptfs_recv_miscdev() hands a request on
\* whole or not at all: never after a short read, never with bytes left over,
\* whatever the buffer holds besides.  ecryptfs_openssl_deserialize() finds the
\* passphrase where ecryptfs_openssl_serialize() put it.
MessagesExact ==
    probe.kind = "length" =>
        /\ LengthExactAt(probe.size) /\ BlobExactAt(probe.size)
        /\ \A read \in 0 .. 12 \cup Near({Frame(probe.size)}), b \in Beyond :
               read >= 0 => FrameExactAt(probe.size, read, b)

\* The options a program ends up with are those that were written.
\* generate_nv_list() reads a well-formed option string as what it says, keys with
\* their attributes included, up to a word that is too long, except that it takes an
\* attribute with an = in its value apart at the last one; parse_options_file()
\* reads every complete line up to such a word, whatever the memory behind its
\* unterminated buffer holds, or refuses the file; and ecryptfs_nvp_list_union()
\* lets an option on the command line overrule all settings of it in
\* ~/.ecryptfsrc, or stand beside them if it may be repeated.
OptionsExact ==
    /\ probe.kind = "options" => ParseExactAt(probe.layout, probe.sep)
    /\ probe.kind = "file" => FileKeptAt(probe.file, probe.beyond)
    /\ probe.kind = "merge" => CommandLineWinsAt(probe.first, probe.second, probe.dups)

\* ecryptfs_parse_stat() reads a header alike on hosts of both byte orders, and
\* refuses one that is damaged, too small or cut off (HeaderExactAt).
HeadersExact == probe.kind = "header" => HeaderExactAt(probe.host, probe.h, probe.at, probe.unknown)

\* ecryptfs_find_key_mod() finds every module that could be loaded by its alias,
\* whatever failed to load before it, unless another alias is the beginning of its
\* own; and ecryptfs_register_key_modules() takes the
\* passphrase module from the directory or else from the library, never from both.
FindsModule == probe.kind = "registry" => FindsModuleAt(probe.dir) /\ PassphraseOnceAt(probe.dir)
=============================================================================
