------------------------------ MODULE FileHeader ------------------------------
(***************************************************************************)
(* The parser of the header of an encrypted file                           *)
(* (src/libecryptfs/ecryptfs-stat.c, src/utils/ecryptfs-stat.c) on hosts   *)
(* of both byte orders.  A machine word is the sequence of its bytes, most *)
(* significant first.                                                      *)
(***************************************************************************)
EXTENDS Integers, SequencesExt, Bitwise

Hosts == {"little", "big"}
MAGIC_ECRYPTFS_MARKER == <<60, 129, 183, 245>>
MinimumHeader == 8192

\* memcpy() of bytes into a word, and of a word into bytes.
Word(host, bytes) == IF host = "little" THEN Reverse(bytes) ELSE bytes

\* The number 1 in memory.
host_is_big_endian(host) == Word(host, <<0, 0, 0, 1>>)[1] # 1

\* Mutant of Swapped: short words are left as they are read.
SwappedLong(host, w) == IF ~host_is_big_endian(host) /\ Len(w) > 2 THEN Reverse(w) ELSE w

\* swab64(), ntohl() and ntohs(), each called on little endian hosts only.
Swapped(host, w) == IF ~host_is_big_endian(host) THEN Reverse(w) ELSE w

Field(host, buf, at, n) == Swapped(host, Word(host, SubSeq(buf, at + 1, at + n)))

Value(w) == FoldLeft(LAMBDA v, b : 256 * v + b, 0, w)

contains_ecryptfs_marker(host, buf) ==
    LET m_1 == Field(host, buf, 8, 4)
        m_2 == Field(host, buf, 12, 4)
    IN  \A i \in 1 .. 4 : m_1[i] ^^ MAGIC_ECRYPTFS_MARKER[i] = m_2[i]

flag_map == <<<<1, "hmac">>, <<2, "encrypted">>, <<4, "xattr">>>>

process_flags(flags) ==
    {flag_map[i][2] : i \in {k \in 1 .. 3 : (flags[4] \div flag_map[k][1]) % 2 = 1}}

parse_header_metadata(host, buf) == Value(Field(host, buf, 20, 4)) * Value(Field(host, buf, 24, 2))

\* ecryptfs_parse_stat() of a buffer into which size bytes were read; the result
\* is empty for -EINVAL.
parse_stat(host, buf, size) ==
    IF \/ size < 8 + 8 + 4 \/ ~contains_ecryptfs_marker(host, buf)
       \/ parse_header_metadata(host, buf) < MinimumHeader
    THEN {}
    ELSE {[file_size |-> Field(host, buf, 0, 8), flags |-> process_flags(Field(host, buf, 16, 4)),
           version |-> Field(host, buf, 16, 4)[1], header |-> parse_header_metadata(host, buf)]}

\* main() of ecryptfs-stat: what it prints of a file, of which at most 4096 bytes
\* are read into a buffer with unknown contents.
ecryptfs_stat(host, file, unknown) ==
    parse_stat(host, file \o [i \in 1 .. 26 - Len(file) |-> unknown], Len(file))
-----------------------------------------------------------------------------

\* The header the kernel writes: big endian, the marker as a random word m and m
\* xor the magic number.
Header(h) ==
    h.file_size \o h.m \o [i \in 1 .. 4 |-> h.m[i] ^^ MAGIC_ECRYPTFS_MARKER[i]]
    \o <<h.version, 0, 0, h.flags>> \o <<0, 0, h.extent \div 256, h.extent % 256>> \o <<0, h.extents>>

\* Hosts of both byte orders read the same header: the sizes, flags and version
\* that were written, and none at all if the header is too small, if a byte of
\* the marker is wrong, or if the file ends before the flags.
HeaderExactAt(host, h, damaged, unknown) ==
    LET whole == Header(h)
        file == [whole EXCEPT ![damaged] = (@ + 1) % 256]
        small == h.extent * h.extents < MinimumHeader
    IN  /\ ecryptfs_stat(host, whole, unknown) =
             IF small THEN {}
             ELSE {[file_size |-> h.file_size, version |-> h.version, header |-> h.extent * h.extents,
                    flags |-> {f \in {"hmac", "encrypted", "xattr"} :
                                  \E i \in 1 .. 3 : /\ flag_map[i][2] = f
                                                    /\ (h.flags \div (2^(i-1))) % 2 = 1}]}
        /\ damaged \in 9 .. 16 => ecryptfs_stat(host, file, unknown) = {}
        /\ damaged \in 1 .. 19 => ecryptfs_stat(host, SubSeq(whole, 1, damaged), unknown) = {}
=============================================================================
