---------------------------- MODULE DecisionGraph ----------------------------
(***************************************************************************)
(* How mount.ecryptfs and ecryptfs-manager find the value of every option: *)
(* the engine (src/libecryptfs/decision_graph.c), the nodes and callbacks  *)
(* of src/libecryptfs/module_mgr.c and of the passphrase and openssl key   *)
(* modules (src/key_mod), and the graph made up for a module that has only *)
(* a parameter list.  A node looks its value up in the name/value list,    *)
(* takes a default or asks the user; a transition runs a callback, which   *)
(* may push mount options and rewire the graph.                            *)
(***************************************************************************)
EXTENDS Integers, Sequences, FiniteSetsExt, Functions, TLC

CONSTANTS
    Walks,          \* set of [gen, opts, features]: what a walk starts from
    MaxKeys,        \* bound: signatures with which a walk comes back for one key more
    Faults          \* subset of FaultNames

FaultNames == {"keyring", "file", "input", "rsa"}

\* do_transition() takes an option with the name of a menu entry for a choice of that
\* entry; "default" would be one at almost every node.
ASSUME GraphAssumption ==
    /\ Faults \subseteq FaultNames /\ MaxKeys \in Nat
    /\ \A w \in Walks : \A i \in 1..Len(w.opts) : w.opts[i].name # "default"

\* A value that is missing: of an option in .ecryptfsrc, of a node; and what
\* asprintf() makes of it for an option given with -o.
Null == "null"
Bare == "(null)"

\* A transition: value, target, callback.  A node: option names, default value,
\* flags, transitions.
T(v, next, tf) == [v |-> v, next |-> next, tf |-> tf]
N(names, dflt, flags, tl) == [names |-> names, dflt |-> dflt, flags |-> flags, tl |-> tl]
Default(next, tf) == <<T("default", next, tf)>>

\* The callbacks' return codes; every -errno is -1.
NULL_TOK == 1
DEFAULT_TOK == 2
MOUNT_ERROR == 3
WRONG_VALUE == 4
EINVAL == 22
ENOSYS == 38
Crash == 99

passphrase_param_nodes == [
    type |-> N(<<"passphrase_type">>, "passphrase_passwd", {"NO_VALUE", "IMPLICIT", "OVERRIDE"},
        <<T("passphrase_passwd", "passwd", Null), T("passphrase_passwd_file", "passfile", Null),
          T("passphrase_passwd_fd", "passfd", Null)>>),
    passwd |-> N(<<"passphrase_passwd", "passwd">>, Null, {"NONEMPTY"},
        <<T("passphrase_salt", "salt", "tf_passwd"), T("default", "salt", "tf_passwd")>>),
    passfile |-> N(<<"passphrase_passwd_file", "passfile">>, Null, {"NONEMPTY"},
        <<T("passphrase_salt", "salt", "tf_pass_file"), T("default", "salt", "tf_pass_file")>>),
    passfd |-> N(<<"passphrase_passwd_fd", "passfd">>, Null, {"NONEMPTY"},
        <<T("salt", "salt", "tf_pass_file"), T("default", "salt", "tf_pass_file")>>),
    salt |-> N(<<"passphrase_salt", "salt">>, "salt0", {}, Default("another", "tf_salt"))]

ssl_param_nodes == [
    ksource |-> N(<<"openssl_keysource", "keysource">>, "keyfile", {"NO_VALUE"}, Default("kfile", Null)),
    kfile |-> N(<<"openssl_keyfile", "keyfile">>, Null, {}, Default("method", "tf_ssl_keyfile")),
    method |-> N(<<"openssl_passwd_specification_method", "passwd_specification_method">>, Null,
        {"DISPLAY", "IMPLICIT"},
        <<T("openssl_passwd", "spasswd", Null), T("openssl_passwd_file", "sfile", Null),
          T("openssl_passwd_fd", "sfd", Null)>>),
    spasswd |-> N(<<"openssl_passwd", "passwd">>, Null, {"STDIN"}, Default("another", "tf_ssl_passwd")),
    sfile |-> N(<<"openssl_passwd_file", "passwd_file">>, Null, {"STDIN", "NONEMPTY"},
        Default("another", "tf_ssl_passwd_file")),
    sfd |-> N(<<"openssl_passwd_fd", "passwd_fd">>, Null, {"STDIN", "NONEMPTY"},
        Default("another", "tf_ssl_passwd_fd"))]

ecryptfs_openssl_gen_key_param_nodes == [
    gfile |-> N(<<"keyfile">>, Null, {}, Default("gpass", "tf_gen_keyfile")),
    gpass |-> N(<<"passphrase">>, Null, {"VERIFY"}, Default("dummy", "tf_gen_passphrase"))]

\* ecryptfs_build_linear_subgraph(), for a module with one parameter.
linear_subgraph == [
    param |-> N(<<"param">>, Null, {}, Default("lexit", "linear_val_tf")),
    lexit |-> N(<<"linear_subgraph_exit_dummy_node">>, Null, {"NO_VALUE"},
        Default("another", "exit_linear_tf"))]

YesNo(name, dflt, next, tf) == N(<<name>>, dflt, {}, Default(next, tf))

\* module_mgr.c; the targets of the first four and of the feature nodes vary.
mount_nodes == [
    sig |-> N(<<"sig">>, Null, {"NO_VALUE"}, Default(Null, "sig_param_node_callback")),
    another |-> N(<<"another_key">>, Null, {"NO_VALUE"}, Default(Null, "another_key_callback")),
    fnek |-> N(<<"ecryptfs_fnek_sig">>, Null, {}, Default(Null, "fnek_sig_callback")),
    enable |-> YesNo("ecryptfs_enable_filename_crypto", Null, Null, "get_enable_filename_crypto"),
    version |-> N(<<"end">>, Null, {"NO_VALUE"}, Default(Null, Null)),
    passthrough |-> YesNo("ecryptfs_passthrough", Null, Null, "push_if_yes"),
    hmac |-> YesNo("ecryptfs_hmac", Null, Null, "push_if_yes"),
    xattr |-> YesNo("ecryptfs_xattr", "n", Null, "push_if_yes"),
    encview |-> YesNo("ecryptfs_encrypted_view", "n", Null, "push_if_yes"),
    end |-> N(<<"end">>, Null, {"NO_VALUE"}, <<>>),
    dummy |-> N(<<"dummy">>, Null, {"NO_VALUE"}, <<>>),
    key |-> N(<<"key">>, Null, {"DISPLAY"}, <<>>),
    cipher |-> N(<<"ecryptfs_cipher">>, Null, {"DISPLAY"}, <<>>),
    bytes |-> N(<<"ecryptfs_key_bytes">>, Null, {"DISPLAY", "FORCE"}, <<>>)]

Node == DOMAIN passphrase_param_nodes \cup DOMAIN ssl_param_nodes \cup DOMAIN linear_subgraph
        \cup DOMAIN ecryptfs_openssl_gen_key_param_nodes \cup DOMAIN mount_nodes
Graph == [n \in Node |-> CASE n \in DOMAIN passphrase_param_nodes -> passphrase_param_nodes[n]
                           [] n \in DOMAIN ssl_param_nodes -> ssl_param_nodes[n]
                           [] n \in DOMAIN linear_subgraph -> linear_subgraph[n]
                           [] n \in DOMAIN mount_nodes -> mount_nodes[n]
                           [] OTHER -> ecryptfs_openssl_gen_key_param_nodes[n]]

YesNoNode == {"enable", "passthrough", "hmac", "xattr", "encview"}

\* cipher_descriptors, and their rows of supported_key_bytes.
Ciphers == <<"aes", "blowfish", "des3_ede", "twofish", "cast6", "cast5">>
supported_key_bytes == [
    aes |-> <<"b16", "b32", "b24">>, blowfish |-> <<"b16", "b32", "b56">>,
    des3_ede |-> <<"b24">>, twofish |-> <<"b16", "b32">>, cast6 |-> <<"b16", "b32">>,
    cast5 |-> <<"b16">>]
Bytes == [b16 |-> 16, b24 |-> 24, b32 |-> 32, b56 |-> 56]

\* fill_in_decision_graph_based_on_version_support(): the nodes of the features
\* the kernel has, in this order, behind the version node.
FeatureOrder == <<"passthrough", "hmac", "xattr", "encview", "fnek">>
FeatureChain(f) == SelectSeq(FeatureOrder, LAMBDA n : n \in f)
FeatureNext(f) ==
    LET c == <<"version">> \o FeatureChain(f)
        i(n) == CHOOSE k \in 1..Len(c) : c[k] = n
    IN  [n \in {"version"} \cup {FeatureOrder[k] : k \in 1..5} |->
            IF n \notin f \cup {"version"} THEN "end"
            ELSE IF i(n) < Len(c) THEN c[i(n) + 1]
            ELSE IF n = "version" THEN Null ELSE "end"]

VARIABLES
    walk,           \* what this walk started from
    pc,             \* "start", "get", "ask", "go", "done", "crashed"
    node,           \* the current param_node
    g,              \* the mutable state of graph, list and stack
    tries,          \* prompts at this node
    rc              \* what ecryptfs_eval_decision_graph() returns

vars == <<walk, pc, node, g, tries, rc>>

\* val, set (PARAMETER_SET), next: of the nodes; used: ECRYPTFS_PROCESSED;
\* stack: mnt_params, newest last; foo: subgraph context; sizes: the
\* transitions of the key-bytes node; sugg: suggested_val of the nodes that have
\* one on the heap; alias: nodes whose val is their suggested_val; last,
\* repeated: static variables of do_transition().
Fresh(w) == [
    val |-> [n \in Node |-> Null], set |-> {}, used |-> {}, stack |-> <<>>, foo |-> Null,
    next |-> [sig |-> "cipher", another |-> "cipher", enable |-> "fnek"] @@ FeatureNext(w.features),
    fnekAsks |-> FALSE, sizes |-> <<>>, alias |-> {}, last |-> Null, repeated |-> 0,
    sugg |-> [kfile |-> "live", gfile |-> "live", passthrough |-> "live", enable |-> "live",
              fnek |-> Null]]

Init ==
    /\ walk \in Walks
    /\ pc = "start" /\ node = (IF walk.gen THEN "key" ELSE "sig")
    /\ g = Fresh(walk) /\ tries = 0 /\ rc = 0
-----------------------------------------------------------------------------

\* The transitions of a node now.  Key modules: the three kinds, or, to generate
\* a key, openssl alone.
Tl(h, n) ==
    CASE n = "key" /\ walk.gen -> <<T("openssl", "gfile", "subgraph_enter")>>
      [] n = "key" -> <<T("passphrase", "type", Null), T("openssl", "ksource", "subgraph_enter"),
                        T("linear", "param", "subgraph_enter")>>
      [] n = "cipher" -> [i \in 1..Len(Ciphers) |-> T(Ciphers[i], "bytes", "tf_ecryptfs_cipher")]
      [] n = "bytes" -> [i \in 1..Len(h.sizes) |-> T(h.sizes[i], "version", "tf_ecryptfs_key_bytes")]
      [] n \in DOMAIN h.next -> Default(h.next[n], Graph[n].tl[1].tf)
      [] OTHER -> Graph[n].tl

Flags(h, n) == Graph[n].flags \cup (IF n = "fnek" /\ ~h.fnekAsks THEN {"NO_VALUE"} ELSE {})

\* suggested_val as the user sees it.
Suggested(h, n) == CASE n = "cipher" -> Ciphers[1]
                     [] n = "bytes" -> h.sizes[1]
                     [] n = "method" -> "openssl_passwd"
                     [] n \in DOMAIN h.sugg -> h.sugg[n]
                     [] OTHER -> Null

Opts == walk.opts
Pairs(names) == {i \in 1..Len(Opts) : Opts[i].name \in names}
NoValue(i) == Opts[i].value \in {Null, Bare}

\* 1 unless given; atoi() of what is not a number is 0, of a missing value it crashes.
get_verbosity ==
    IF Pairs({"verbosity"}) = {} THEN 1
    ELSE LET v == Opts[Min(Pairs({"verbosity"}))].value
         IN  IF v = Null THEN Crash ELSE IF v = "1" THEN 1 ELSE 0

\* Mutant of Unused: the mark of a consumed pair is not looked at.
UnusedOrUsed(h, name) == Pairs({name})

\* The pairs of this name that have not been consumed.
Unused(h, name) == Pairs({name}) \ h.used

\* retrieve_val(): the last alias first, then the default.
Retrieve(h, n) ==
    LET names == Graph[n].names
        hits == {k \in 1..Len(names) : Unused(h, names[k]) # {}}
        i == Min(Unused(h, names[Max(hits)]))
    IN  IF hits # {} THEN
             [hit |-> TRUE,
              h |-> [h EXCEPT !.used = @ \cup {i},
                              !.val[n] = IF NoValue(i) THEN @ ELSE Opts[i].value,
                              !.set = IF NoValue(i) THEN @ \cup {n} ELSE @]]
        ELSE [hit |-> Graph[n].dflt # Null,
              h |-> IF Graph[n].dflt # Null THEN [h EXCEPT !.val[n] = Graph[n].dflt] ELSE h]

\* The first successor that has a value is the one chosen.
Implicit(h, n) ==
    LET tl == Tl(h, n)
        hits == {i \in 1..Len(tl) : Retrieve(h, tl[i].next).hit}
        next == tl[Min(hits)].next
    IN  IF hits = {} THEN [hit |-> FALSE, h |-> h]
        ELSE [hit |-> TRUE, h |-> [Retrieve(h, next).h EXCEPT !.val[n] = Graph[next].names[1]]]

Finish(code) ==
    /\ pc' = IF code = Crash THEN "crashed" ELSE "done"
    /\ rc' = code

\* ecryptfs_eval_decision_graph(): most positive codes are success.
Result(code) == IF code > 0 /\ code # MOUNT_ERROR THEN 0 ELSE code

\* eval_param_tree() up to its loop.
Start ==
    /\ pc = "start"
    /\ IF get_verbosity = Crash THEN Finish(Crash) ELSE pc' = "get" /\ UNCHANGED rc
    /\ UNCHANGED <<walk, node, g, tries>>

Count(h, name) == Cardinality({k \in 1..Len(h.stack) : h.stack[k][1] = name})

\* alloc_and_get_val() up to the prompt.
GetVal ==
    /\ pc = "get" /\ (node = "key" => Count(g, "ecryptfs_sig") <= MaxKeys)
    /\ LET f == Flags(g, node)
           had == g.val[node] # Null
       IN  \E r \in {IF had THEN [hit |-> TRUE, h |-> g] ELSE Retrieve(g, node)} :
           \E kept \in {had \/ (r.hit /\ ~({"IMPLICIT", "OVERRIDE"} \subseteq f))} :
           \E s \in {IF kept \/ "IMPLICIT" \notin f THEN [hit |-> FALSE, h |-> r.h]
                                                  ELSE Implicit(r.h, node)} :
              /\ g' = s.h
              /\ pc' = IF \/ kept \/ s.hit \/ "NO_VALUE" \in f
                          \/ "STDIN" \notin f /\ (get_verbosity = 0 \/ node \in s.h.set)
                       THEN "go" ELSE "ask"
    /\ tries' = 0
    /\ UNCHANGED <<walk, node, rc>>

Give(v) == g' = [g EXCEPT !.val[node] = v] /\ pc' = "go" /\ UNCHANGED <<walk, node, tries, rc>>

\* A menu: the only entry is taken unasked; anything but an entry or, if there
\* is a suggestion, Enter is asked for again.
Select ==
    /\ pc = "ask" /\ "DISPLAY" \in Flags(g, node)
    /\ LET tl == Tl(g, node) IN
       IF Len(tl) = 1 /\ "FORCE" \notin Flags(g, node) THEN Give(tl[1].v)
       ELSE \E v \in {tl[i].v : i \in 1..Len(tl)} \cup ({Suggested(g, node)} \ {Null}) : Give(v)

\* Free text, which may be the word "default".  Enter stands for the suggested value
\* itself, not for a copy.
Enter ==
    /\ pc = "ask" /\ "DISPLAY" \notin Flags(g, node)
    /\ \E v \in {"text", "default"} \cup IF node \in YesNoNode THEN {"y", "n"} ELSE {} : Give(v)

EnterNothing ==
    /\ pc = "ask" /\ {"DISPLAY", "NONEMPTY"} \cap Flags(g, node) = {}
    /\ g' = IF Suggested(g, node) = Null THEN g
            ELSE [g EXCEPT !.val[node] = IF node = "fnek" THEN Suggested(g, node)
                                         ELSE IF node \in {"kfile", "gfile"} THEN "text" ELSE "n",
                           !.alias = @ \cup {node}]
    /\ pc' = "go" /\ UNCHANGED <<walk, node, tries, rc>>

\* Nothing where something is required, or a second answer that differs: three
\* times at most, then EINVAL.
Retry ==
    /\ pc = "ask" /\ "DISPLAY" \notin Flags(g, node) /\ {"NONEMPTY", "VERIFY"} \cap Flags(g, node) # {}
    /\ tries' = tries + 1
    /\ IF tries' = 3 THEN Finish(EINVAL) ELSE UNCHANGED <<pc, rc>>
    /\ UNCHANGED <<walk, node, g>>

InputFails ==
    /\ pc = "ask" /\ "input" \in Faults
    /\ Finish(-1)
    /\ UNCHANGED <<walk, node, g, tries>>
-----------------------------------------------------------------------------

\* The callbacks: the set of their outcomes [rc, h].
Return(code, h) == {[rc |-> code, h |-> h]}
Unless(fault, code, h, otherwise) ==
    otherwise \cup IF fault \in Faults THEN Return(code, h) ELSE {}
Push(h, name, v) == [h EXCEPT !.stack = Append(@, <<name, v>>)]

\* free(node->val); node->val = NULL.  If val was the suggestion, that goes too.
FreeVal(h, n) == [h EXCEPT !.val[n] = Null, !.alias = @ \ {n},
                           !.sugg = IF n \in h.alias THEN [@ EXCEPT ![n] = "freed"] ELSE @]
Has(h, name) == \E i \in 1..Len(h.stack) : h.stack[i][1] = name

tf_passwd(h, n) ==
    IF h.val[n] = Null THEN Return(-1, h)
    ELSE Return(DEFAULT_TOK, [Push(h, "passwd", h.val[n]) EXCEPT !.val[n] = Null])

\* open(NULL) fails, strtol(NULL) crashes.
tf_pass_file(h, n) ==
    IF h.val[n] = Null THEN Return(IF n = "passfd" THEN Crash ELSE -1, h)
    ELSE LET f == FreeVal(h, n)
         IN  Unless("file", -1, f, Unless("file", MOUNT_ERROR, f, Return(0, Push(f, "passwd", "file"))))

\* Mutant of tf_salt: the passphrase stays on the stack.
tf_salt_keeps(h, n) ==
    LET f == FreeVal(h, n)
    IN  Unless("keyring", -1, f, Return(DEFAULT_TOK, Push(f, "ecryptfs_sig", "sig")))

\* Takes the passphrase off the stack, adds the key, pushes its signature.
tf_salt(h, n) ==
    LET f == [FreeVal(h, n) EXCEPT !.stack = SubSeq(@, 1, Len(@) - 1)]
    IN  Unless("keyring", -1, f, Return(DEFAULT_TOK, Push(f, "ecryptfs_sig", "sig")))

\* Enter the subgraph of the openssl module or of a linear one.
subgraph_enter(h, n) == Return(0, [h EXCEPT !.foo = "entered"])

tf_ssl_keyfile(h, n) == Return(DEFAULT_TOK, [FreeVal(h, n) EXCEPT !.foo = "path"])

\* ecryptfs_openssl_process_key() and limit_key_size(), whose failure goes
\* unnoticed: keys of 1024 bits or of 512.
process_key(h) ==
    LET k == Push([h EXCEPT !.foo = Null], "ecryptfs_sig", "sig")
    IN  Unless("keyring", -1, h,
            Unless("rsa", DEFAULT_TOK, k,
                Unless("rsa", DEFAULT_TOK, Push(k, "max_key_bytes", 20),
                    Return(DEFAULT_TOK, Push(k, "max_key_bytes", 84)))))

tf_ssl_passwd(h, n) == process_key(FreeVal(h, n))

tf_ssl_passwd_file(h, n) ==
    LET f == FreeVal(h, n)
    IN  IF h.val[n] = Null THEN Return(MOUNT_ERROR, f)
        ELSE Unless("file", -1, f, Unless("file", MOUNT_ERROR, f, process_key(f)))

tf_ssl_passwd_fd(h, n) == Return(ENOSYS, h)

tf_gen_keyfile(h, n) == Return(DEFAULT_TOK, [h EXCEPT !.foo = "path"])
tf_gen_passphrase(h, n) ==
    Unless("file", MOUNT_ERROR, h, Return(0, [h EXCEPT !.foo = "written"]))

\* Parameters without a value are left out; without parameters there is no key.
linear_val_tf(h, n) ==
    Return(0, IF h.val[n] = Null THEN h ELSE [h EXCEPT !.foo = "values"])
exit_linear_tf(h, n) ==
    LET f == [h EXCEPT !.foo = "freed"]
    IN  IF h.foo # "values" THEN Return(0, f)
        ELSE Unless("keyring", -1, f, Return(0, Push(f, "ecryptfs_sig", "sig")))


sig_param_node_callback(h, n) ==
    IF h.val[n] = Null THEN Return(0, [h EXCEPT !.next[n] = "key"])
    ELSE Return(0, Push(h, "ecryptfs_sig", h.val[n]))

\* Is another key module named in the list?  A key without a value is compared too.
another_key_callback(h, n) ==
    LET modules == {Tl(h, "key")[j].v : j \in 1..Len(Tl(h, "key"))}
        hits == {i \in Unused(h, "key") : Opts[i].value \in modules \cup {Null}}
    IN  IF hits # {} /\ Opts[Min(hits)].value = Null THEN Return(Crash, h)
        ELSE Return(0, [h EXCEPT !.next[n] = IF hits # {} THEN "key" ELSE "cipher"])

\* Takes the limit of the key module, if any, and offers what fits.  No cipher, as for
\* an option with the name of one, is compared too.
tf_ecryptfs_cipher(h, n) ==
    LET limits == SelectSeq(h.stack, LAMBDA o : o[1] = "max_key_bytes")
        max == IF limits = <<>> THEN 999999 ELSE limits[1][2]
        sizes == h.sizes \o SelectSeq(supported_key_bytes[h.val[n]], LAMBDA b : Bytes[b] <= max)
        f == [h EXCEPT !.stack = SelectSeq(@, LAMBDA o : o[1] # "max_key_bytes"), !.sizes = sizes]
    IN  IF h.val[n] = Null THEN Return(Crash, h)
        ELSE IF sizes = <<>> THEN Return(-1, f)
        ELSE Return(0, Push(FreeVal(f, n), "ecryptfs_cipher", h.val[n]))

tf_ecryptfs_key_bytes(h, n) == Return(0, Push(FreeVal(h, n), "ecryptfs_key_bytes", h.val[n]))

\* Mutant of push_if_yes: "n" is not a known answer.
push_if_yes_only(h, n) ==
    LET f == FreeVal(h, n)
    IN  IF h.val[n] = "y" \/ n \in h.set THEN Return(0, Push(f, n, "y"))
        ELSE Return(IF h.val[n] = Null THEN 0 ELSE WRONG_VALUE, f)

\* stack_push_if_yes()
push_if_yes(h, n) ==
    LET f == FreeVal(h, n)
    IN  IF h.val[n] = "y" \/ n \in h.set THEN Return(0, Push(f, n, "y"))
        ELSE Return(IF h.val[n] \in {"n", Null} THEN 0 ELSE WRONG_VALUE, f)

\* Without a signature: ask whether file names are to be encrypted, and come
\* back to this node, which then asks, only if they are.
fnek_sig_callback(h, n) ==
    IF h.val[n] # Null THEN Return(0, Push(h, "ecryptfs_fnek_sig", h.val[n]))
    ELSE Return(0, [h EXCEPT !.fnekAsks = TRUE, !.set = @ \ {n}, !.next["enable"] = h.next[n],
                             !.next[n] = "enable"])

\* The suggestion is the newest signature; with none, NULL is compared.
get_enable_filename_crypto(h, n) ==
    LET f == FreeVal(h, n)
        yes == h.val[n] = "y" \/ n \in h.set
    IN  IF yes /\ ~Has(h, "ecryptfs_sig") THEN Return(Crash, h)
        ELSE IF yes THEN Return(0, [f EXCEPT !.next["fnek"] = h.next[n], !.next[n] = "fnek",
                                             !.sugg["fnek"] = "sig"])
        ELSE Return(IF h.val[n] \in {"n", Null} THEN 0 ELSE WRONG_VALUE, f)

Call(tf, h, n) ==
    CASE tf = "tf_passwd" -> tf_passwd(h, n)
      [] tf = "tf_pass_file" -> tf_pass_file(h, n)
      [] tf = "tf_salt" -> tf_salt(h, n)
      [] tf = "subgraph_enter" -> subgraph_enter(h, n)
      [] tf = "tf_ssl_keyfile" -> tf_ssl_keyfile(h, n)
      [] tf = "tf_ssl_passwd" -> tf_ssl_passwd(h, n)
      [] tf = "tf_ssl_passwd_file" -> tf_ssl_passwd_file(h, n)
      [] tf = "tf_ssl_passwd_fd" -> tf_ssl_passwd_fd(h, n)
      [] tf = "tf_gen_keyfile" -> tf_gen_keyfile(h, n)
      [] tf = "tf_gen_passphrase" -> tf_gen_passphrase(h, n)
      [] tf = "linear_val_tf" -> linear_val_tf(h, n)
      [] tf = "exit_linear_tf" -> exit_linear_tf(h, n)
      [] tf = "sig_param_node_callback" -> sig_param_node_callback(h, n)
      [] tf = "another_key_callback" -> another_key_callback(h, n)
      [] tf = "tf_ecryptfs_cipher" -> tf_ecryptfs_cipher(h, n)
      [] tf = "tf_ecryptfs_key_bytes" -> tf_ecryptfs_key_bytes(h, n)
      [] tf = "push_if_yes" -> push_if_yes(h, n)
      [] tf = "fnek_sig_callback" -> fnek_sig_callback(h, n)
      [] tf = "get_enable_filename_crypto" -> get_enable_filename_crypto(h, n)
      [] OTHER -> Return(NULL_TOK, h)
-----------------------------------------------------------------------------

\* The end of do_transition(): [rc, h, next].
Move(code, h, next) == {[rc |-> code, h |-> h, next |-> next]}

\* Mutant of Follow: a missing successor gives a positive code, as for a named one.
FollowPositive(h, next) == Move(IF next = Null THEN EINVAL ELSE 0, h, next)

Follow(h, next) == Move(IF next = Null THEN -1 ELSE 0, h, next)

\* Second pass: the "default" transition.  A wrong value is asked for again, five
\* times at most, if there is someone to ask.
ByDefault(h, n) ==
    LET tl == Tl(h, n)
        d == {i \in 1..Len(tl) : tl[i].v = "default"}
        i == CHOOSE x \in d : TRUE
        asks == get_verbosity # 0 \/ "STDIN" \in Flags(h, n)
    IN  IF d = {} THEN Move(IF tl = <<>> THEN NULL_TOK ELSE MOUNT_ERROR, h, n)
        ELSE UNION {IF r.rc = WRONG_VALUE THEN
                         IF asks /\ r.h.repeated < 4
                         THEN Move(0, [r.h EXCEPT !.repeated = @ + 1], n)
                         ELSE Move(-1, r.h, n)
                    ELSE IF r.rc \in {MOUNT_ERROR, Crash} \/ r.rc < 0 THEN Move(r.rc, r.h, n)
                    ELSE Follow(r.h, Tl(r.h, n)[i].next) : r \in Call(tl[i].tf, h, n)}

\* First pass, transition i: the value of the node, or else the names in the list:
\* k more of them are called for.  A callback that succeeds with 0 is called again.
RECURSIVE ByName(_, _, _, _)
ByName(h, n, i, k) ==
    LET tl == Tl(h, n)
        times(x) == IF x > Len(tl) THEN 0 ELSE Cardinality(Pairs({tl[x].v}))
    IN  IF i > Len(tl) THEN ByDefault(h, n)
        ELSE IF i > 0 /\ h.val[n] = tl[i].v THEN
             UNION {IF Tl(r.h, n)[i].next = Null THEN Move(IF r.rc = Crash THEN Crash ELSE EINVAL, r.h, n)
                    ELSE Move(IF tl[i].tf = Null THEN 0 ELSE r.rc, r.h, Tl(r.h, n)[i].next)
                    : r \in Call(tl[i].tf, h, n)}
        ELSE IF k = 0 THEN UNION {ByName(h, n, x, times(x)) : x \in {i + 1}}
        ELSE UNION {IF r.rc \in {MOUNT_ERROR, Crash} THEN Move(r.rc, r.h, n)
                    ELSE IF r.rc \in {DEFAULT_TOK, NULL_TOK} THEN Follow(r.h, Tl(r.h, n)[i].next)
                    ELSE UNION {ByName(r.h, n, i, x) : x \in {k - 1}} : r \in Call(tl[i].tf, h, n)}

do_transition(h, n) ==
    UNION {ByName(k, n, 0, 0) : k \in {[h EXCEPT !.last = n,
                                                !.repeated = IF h.last = n THEN @ ELSE 0]}}

\* One turn of the loop of eval_param_tree().
Transition ==
    /\ pc = "go"
    /\ \E m \in do_transition(g, node) :
          /\ g' = m.h
          /\ IF m.rc = 0 THEN node' = m.next /\ pc' = "get" /\ UNCHANGED rc
                          ELSE Finish(m.rc) /\ UNCHANGED node
    /\ tries' = 0 /\ UNCHANGED walk

Next == Start \/ GetVal \/ Select \/ Enter \/ EnterNothing \/ Retry \/ InputFails \/ Transition

\* Fairness: the program runs, and the user, who may give as many useless answers
\* as the program takes, at last gives one it can use or ends the input.
Moves == /\ pc \in {"start", "get", "go", "ask"}
         /\ pc' \in {"get", "go", "ask", "done", "crashed"} \ {pc}
Spec == Init /\ [][Next]_vars /\ WF_pc(Moves)

-----------------------------------------------------------------------------

Values(name) == {g.stack[i][2] : i \in {k \in 1..Len(g.stack) : g.stack[k][1] = name}}
Success == pc = "done" /\ Result(rc) = 0

\* A key that comes without a signature: one with a descriptor for the openssl
\* passphrase, which is not implemented, or of a linear module without values.
Unsigned == g.foo = "path" \/ (g.val["key"] = "linear" /\ g.val["param"] = Null)

\* A walk that reaches the end leaves a stack that describes one mount: one
\* cipher, one key size that this cipher has, a signature, and nothing of what
\* the callbacks pass to each other through the stack (passphrases, limits).
MountComplete ==
    Success /\ node = "end" =>
        /\ Count(g, "ecryptfs_cipher") = 1 /\ Count(g, "ecryptfs_key_bytes") = 1
        /\ \A c \in Values("ecryptfs_cipher"), b \in Values("ecryptfs_key_bytes") :
              b \in Range(supported_key_bytes[c])
        /\ Has(g, "ecryptfs_sig") \/ Unsigned
        /\ ~Has(g, "passwd") /\ ~Has(g, "max_key_bytes")

\* Giving up after three empty answers is reported as success.  What mount.ecryptfs
\* tests afterwards, whether there is a key size, tells such a walk from a complete
\* one, but for the walk that stops, as a success, where a yes/no question, or an
\* option named "end", has the value "default".
PartialDetected ==
    Success /\ ~walk.gen =>
        (Has(g, "ecryptfs_key_bytes") <=> \/ node = "end"
                                          \/ node \in YesNoNode /\ rc = WRONG_VALUE
                                          \/ node = "version" /\ g.val[node] = "default")

Keys == Pairs({"key"})
Descriptors == Pairs({"passphrase_passwd_fd", "passfd"})


\* A prompt never shows a suggestion that was freed as the value of its node, but
\* where a second key leads back to the question for the key file.
NoStaleSuggestion ==
    pc = "ask" /\ node \in DOMAIN g.sugg /\ g.sugg[node] = "freed" =>
        node = "kfile" /\ Cardinality(Keys) > 1

\* Walks that may go on for ever: a second key is never taken from the list, so that
\* the walk comes back for it as long as there are answers, or none are needed; a
\* passphrase that may not be asked for ends it.  And with file name encryption
\* enabled by an option without a value, its two nodes send the walk to each other as
\* long as no signature is given and none may be asked for.
Endless ==
    \/ Cardinality(Keys) > 1 /\ ~(get_verbosity = 0 /\ Opts[Min(Keys)].value = "passphrase")
    \/ /\ get_verbosity = 0 /\ "fnek" \in walk.features
       /\ \E i \in Pairs({"ecryptfs_enable_filename_crypto"}) : NoValue(i)
       /\ \A i \in Pairs({"ecryptfs_fnek_sig"}) : NoValue(i)

\* Every other walk ends: rewired nodes, repeated questions and the search for further
\* keys never make it go round for ever.
WalkEnds == Endless \/ <>(pc \in {"done", "crashed"})

\* Two keys of the same type are both processed.
BothKeys == pc = "done" => Result(rc) = 0 /\ Count(g, "ecryptfs_sig") = 2
=============================================================================
