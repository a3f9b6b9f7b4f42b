------------------------------ MODULE Encodings ------------------------------
(***************************************************************************)
(* Lengths written as bytes and read back: packet lengths                  *)
(* (src/libecryptfs/messaging.c), the frame around a message on            *)
(* /dev/ecryptfs (src/libecryptfs/miscdev.c), and the blob of the openssl  *)
(* key module (src/key_mod/ecryptfs_key_mod_openssl.c).                    *)
(***************************************************************************)
EXTENDS Integers, Sequences

Byte == 0 .. 255

\* Mutant of write_packet_length: the first length of two bytes is taken for one byte.
write_packet_length_inclusive(size) ==
    IF size <= 192 THEN <<size>>
    ELSE IF size < 65536 THEN <<((size - 192) \div 256 + 192) % 256, (size - 192) % 256>>
    ELSE <<>>

\* The bytes written; none for a size that is refused.  The first byte is stored
\* in a char and loses what does not fit.
write_packet_length(size) ==
    IF size < 192 THEN <<size>>
    ELSE IF size < 65536 THEN <<((size - 192) \div 256 + 192) % 256, (size - 192) % 256>>
    ELSE <<>>

\* From the first two bytes of the data; used = 0 is -EINVAL.
parse_packet_length(d0, d1) ==
    IF d0 < 192 THEN [size |-> d0, used |-> 1]
    ELSE IF d0 < 224 THEN [size |-> (d0 - 192) * 256 + d1 + 192, used |-> 2]
    ELSE [size |-> 0, used |-> 0]

\* ecryptfs_send_miscdev(): the bytes of a message of the given size on the wire;
\* 0: not sent.
Frame(size) ==
    LET len == Len(write_packet_length(size)) IN IF len = 0 THEN 0 ELSE 1 + 4 + len + size

\* ecryptfs_recv_miscdev() of a request of which read bytes have arrived: the
\* size of the message handed on, or -1.  A byte of the buffer that was not read,
\* or that belongs to the message, is beyond.
Received(size, read, beyond) ==
    LET w == write_packet_length(size)
        d(i) == IF 5 + i <= read /\ i <= Len(w) THEN w[i] ELSE beyond
        p == parse_packet_length(d(1), d(2))
    IN  IF read < 1 + 4 \/ p.used = 0 \/ 1 + 4 + p.used + p.size # read THEN -1 ELSE p.size

\* ecryptfs_openssl_serialize(), for a path of so many characters: the two bytes
\* of its length, and where the passphrase starts in the blob.
serialize(path) ==
    LET path_length == path + 1
    IN  [low |-> path_length % 256, high |-> (path_length \div 256) % 256,
         passphrase |-> 2 + path_length + 2]

\* ecryptfs_openssl_deserialize(): where the passphrase is looked for.
deserialize(low, high) == 2 + (low + 256 * high) + 2
-----------------------------------------------------------------------------

\* Every length up to 8383 is read back as it was written, and from the same
\* number of bytes; no length from 8384 to 16575 is misread, it is refused.
LengthExactAt(size) ==
    LET w == write_packet_length(size)
        p == parse_packet_length(w[1], IF Len(w) = 2 THEN w[2] ELSE 0)
    IN  /\ size < 8384 => p = [size |-> size, used |-> Len(w)]
        /\ size \in 8384 .. 16575 => p.used = 0

\* A request of up to 8383 bytes is handed on if and only if exactly its bytes have arrived, whatever
\* else the buffer holds: not if the read was short, not if something follows.
FrameExactAt(size, read, beyond) ==
    size < 8384 => Received(size, read, beyond) = IF read = Frame(size) THEN size ELSE -1

\* The passphrase is found in the blob where it was put, for every path that has
\* fewer than 65535 characters.
BlobExactAt(path) ==
    path < 65535 => deserialize(serialize(path).low, serialize(path).high) = serialize(path).passphrase
=============================================================================
