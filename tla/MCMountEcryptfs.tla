--------------------------- MODULE MCMountEcryptfs ---------------------------
EXTENDS MountEcryptfs, TLC

Cipher(c) == <<"ecryptfs_cipher", c>>
Size == <<"ecryptfs_key_bytes", "16">>
View == <<"ecryptfs_encrypted_view", "">>

\* Interactive: the excepted option given twice, a scrubbed one, a cipher
\* whose name begins with another's.  Quiet: the signature given, and an option that
\* is scrubbed and comes back from the walk.
MCOptLists ==
    {<<<<"xattr_user", "">>, <<"key", "passphrase">>, Cipher("des3_ede"), <<"xattr_user", "">>>>,
     <<<<"no_prompt", "">>, <<"verbosity", "0">>, Sig("s"), View, Size>>}

\* File names with a key of their own, or with the same; a walk that gave up.
MCStacks == {<<Sig("s"), Size, Fnek("t")>>, <<Sig("u"), Cipher("des"), Size, Fnek("u")>>,
             <<Sig("s"), View>>}
Symmetry == Permutations(Procs)
=============================================================================
