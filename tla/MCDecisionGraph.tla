--------------------------- MODULE MCDecisionGraph ---------------------------
EXTENDS DecisionGraph

AllFeatures == {"passthrough", "hmac", "xattr", "encview", "fnek"}
Given(name, values) == {<<>>} \cup {<<[name |-> name, value |-> v]>> : v \in values}
Opt(name, v) == <<[name |-> name, value |-> v]>>
One(name) == Opt(name, "text")
Key(k) == Opt("key", k)
Cat(A, B) == {a \o b : a \in A, b \in B}

\* Ways to name a key, complete and incomplete.
KeyOpts == {
    One("sig"), <<>>, Key("bogus"),
    Key("passphrase"), Key("passphrase") \o One("passphrase_passwd"),
    Key("passphrase") \o One("passwd") \o One("passphrase_salt"),
    Key("passphrase") \o One("passphrase_passwd_file"),
    Key("passphrase") \o One("passfile") \o One("passphrase_salt"),
    Key("passphrase") \o One("passfd"), Key("passphrase") \o One("passfd") \o One("salt"),
    Key("openssl"), Key("openssl") \o One("keyfile") \o One("openssl_passwd"),
    Key("openssl") \o One("openssl_keyfile") \o One("passwd"),
    Key("openssl") \o One("keyfile") \o One("openssl_passwd_file"),
    Key("openssl") \o One("keyfile") \o One("openssl_passwd_fd"),
    Key("linear"), Key("linear") \o One("param"),
    Key("passphrase") \o One("passwd") \o Key("linear")}

FileNames == Cat(Given("ecryptfs_enable_filename_crypto", {"y", "n", "maybe"}),
                 Given("ecryptfs_fnek_sig", {"text"}))
              \cup {Opt("ecryptfs_enable_filename_crypto", Bare) \o One("ecryptfs_fnek_sig")}

Walk(gen, opts, features) == {[gen |-> gen, opts |-> o, features |-> f] : o \in opts, f \in features}
Quiet == {Opt("verbosity", "0")}

QuietWalks ==
    Walk(FALSE,
         Cat(Cat(Quiet, KeyOpts), Cat(Cat(Given("ecryptfs_cipher", {"aes", "des3_ede", "rot13"}),
                              Given("ecryptfs_key_bytes", {"b16", "b24"})),
             Cat(Given("ecryptfs_hmac", {"maybe", Null}), FileNames))),
         {{}, AllFeatures})

AskingWalks ==
    Walk(FALSE, {One("sig"), Key("passphrase"), Key("openssl") \o One("openssl_passwd_file"), <<>>},
         {{"passthrough"}, {"hmac", "fnek"}})
    \cup Walk(TRUE, {<<>>}, {{}})

\* Options without a value, in .ecryptfsrc (Null) or with -o (Bare), without a value
\* that is needed, named after a menu entry, or with the value "default".
Aes == Opt("ecryptfs_cipher", "aes") \o Opt("ecryptfs_key_bytes", "b16")
Passphrase == Key("passphrase") \o One("passwd")
OddOpts ==
    {Opt("verbosity", Null) \o One("sig"), Opt("verbosity", Bare) \o One("sig") \o Aes, Key(Bare), Key(Null)}
    \cup Cat(Quiet \cup {<<>>, Opt("verbosity", "1")},
             {Key("passphrase") \o Opt("passfd", Bare), Key("passphrase") \o Opt("passwd", Null),
              Key("passphrase") \o Opt("passphrase_type", "passphrase_passwd_fd"),
              Key("passphrase") \o Opt("passphrase_type", "passphrase_passwd_file"),
              Key("openssl") \o One("keyfile") \o Opt("openssl_passwd", Bare),
              One("sig") \o Aes \o Opt("ecryptfs_enable_filename_crypto", Bare),
              One("sig") \o Aes \o Opt("ecryptfs_fnek_sig", Null),
              One("sig") \o Aes \o Opt("ecryptfs_passthrough", "default"),
              One("sig") \o Aes \o Opt("ecryptfs_enable_filename_crypto", "default"),
              One("sig") \o Aes \o Opt("end", "default"),
              One("sig") \o One("aes"), One("sig") \o Opt("ecryptfs_cipher", "twofish") \o One("aes"),
              One("passphrase") \o One("passwd"), One("openssl")})

\* More than one key.
SeveralKeys ==
    Cat(Quiet \cup {<<>>},
        {Passphrase \o Key(Null) \o Aes, Passphrase \o Key(Bare) \o Aes, Passphrase \o Passphrase \o Aes,
         Key("passphrase") \o One("passfd") \o Key("passphrase") \o One("passfd"),
         Key("openssl") \o Key("openssl"), Key("linear") \o Key("linear") \o Aes,
         Key("linear") \o One("param") \o Key("linear") \o Aes})

MCWalks ==
    QuietWalks \cup AskingWalks \cup Walk(FALSE, OddOpts, {{}, {"passthrough", "fnek"}})
    \cup Walk(FALSE, SeveralKeys, {{"hmac"}})

TwoKeyWalks ==
    Walk(FALSE,
         Cat({<<>>} \cup Quiet, {Key("passphrase") \o Opt("passwd", "pass1") \o
                                 Key("passphrase") \o Opt("passwd", "pass2") \o Aes}),
         {{"passthrough"}})
=============================================================================
