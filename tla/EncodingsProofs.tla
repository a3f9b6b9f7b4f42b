--------------------------- MODULE EncodingsProofs ---------------------------
(***************************************************************************)
(* The properties of Encodings for every length, not only for those near   *)
(* the boundaries.                                                         *)
(***************************************************************************)
EXTENDS Encodings, TLAPS

\* The quotient and the remainder of a two-byte length are bytes.
LEMMA TwoBytes ==
    ASSUME NEW size \in Nat, 192 <= size, size < 16576
    PROVE  /\ (size - 192) \div 256 \in 0 .. 63
           /\ (size - 192) % 256 \in Byte
           /\ 256 * ((size - 192) \div 256) + ((size - 192) % 256) = size - 192
           /\ ((size - 192) \div 256 + 192) % 256 = (size - 192) \div 256 + 192
BY SMT DEF Byte

\* ecryptfs_parse_packet_length() reads back what ecryptfs_write_packet_length()
\* wrote, up to 8383, and misreads nothing up to 16575.
THEOREM LengthExact == \A size \in Nat : LengthExactAt(size)
<1> TAKE size \in Nat
<1>0. CASE size >= 16576
  BY <1>0 DEF LengthExactAt
<1>1. CASE size < 192
  <2>1. write_packet_length(size) = <<size>>
    BY <1>1 DEF write_packet_length
  <2>2. parse_packet_length(size, 0) = [size |-> size, used |-> 1]
    BY <1>1 DEF parse_packet_length
  <2>3. LengthExactAt(size) <=>
          /\ size < 8384 => parse_packet_length(size, 0) = [size |-> size, used |-> 1]
          /\ size \in 8384 .. 16575 => parse_packet_length(size, 0).used = 0
    BY <2>1 DEF LengthExactAt
  <2> QED BY <1>1, <2>2, <2>3
<1>2. CASE 192 <= size /\ size < 16576
  <2> DEFINE q == (size - 192) \div 256
             r == (size - 192) % 256
  <2>1. q \in 0 .. 63 /\ r \in Byte /\ 256 * q + r = size - 192 /\ (q + 192) % 256 = q + 192
    BY <1>2, TwoBytes
  <2>2. write_packet_length(size) = <<q + 192, r>>
    BY <1>2, <2>1 DEF write_packet_length
  <2> HIDE DEF q, r
  <2>3. LengthExactAt(size) <=>
          /\ size < 8384 => parse_packet_length(q + 192, r) = [size |-> size, used |-> 2]
          /\ size \in 8384 .. 16575 => parse_packet_length(q + 192, r).used = 0
    BY <2>2 DEF LengthExactAt
  <2>4. CASE q < 32
    <3>1. parse_packet_length(q + 192, r) = [size |-> size, used |-> 2]
      BY <2>1, <2>4 DEF parse_packet_length, Byte
    <3>2. size < 8384
      BY <2>1, <2>4 DEF Byte
    <3> QED BY <2>3, <3>1, <3>2
  <2>5. CASE q >= 32
    <3>1. parse_packet_length(q + 192, r).used = 0
      BY <2>1, <2>5 DEF parse_packet_length, Byte
    <3>2. size >= 8384
      BY <2>1, <2>5 DEF Byte
    <3> QED BY <2>3, <3>1, <3>2
  <2> QED BY <2>1, <2>4, <2>5
<1> QED BY <1>0, <1>1, <1>2

\* The openssl key module finds the passphrase where it put it.
THEOREM BlobExact == \A path \in Nat : BlobExactAt(path)
<1> SUFFICES ASSUME NEW path \in Nat, path < 65535
             PROVE deserialize(serialize(path).low, serialize(path).high) = serialize(path).passphrase
  BY DEF BlobExactAt
<1> DEFINE n == path + 1
<1>1. n \in Nat /\ n < 65536
  OBVIOUS
<1>2. (n \div 256) % 256 = n \div 256 /\ (n % 256) + 256 * (n \div 256) = n
  BY <1>1, SMT
<1>3. serialize(path) = [low |-> n % 256, high |-> (n \div 256) % 256, passphrase |-> 2 + n + 2]
  BY DEF serialize
<1> HIDE DEF n
<1> QED BY <1>1, <1>2, <1>3 DEF deserialize

\* ecryptfs_recv_miscdev() hands on a request if and only if all of it arrived and
\* nothing more.
THEOREM FrameExact ==
    \A size \in Nat, read \in Nat, beyond \in Byte : FrameExactAt(size, read, beyond)
<1> TAKE size \in Nat, read \in Nat, beyond \in Byte
<1>0. CASE size >= 8384
  BY <1>0 DEF FrameExactAt
<1>1. CASE size < 192
  <2>1. write_packet_length(size) = <<size>>
    BY <1>1 DEF write_packet_length
  <2>2. Frame(size) = 6 + size
    BY <2>1 DEF Frame
  <2>3. Received(size, read, beyond) =
          LET d == IF 6 <= read THEN size ELSE beyond
              p == parse_packet_length(d, beyond)
          IN  IF read < 5 \/ p.used = 0 \/ 5 + p.used + p.size # read THEN -1 ELSE p.size
    BY <2>1 DEF Received
  <2>4. CASE read >= 6
    BY <1>1, <2>2, <2>3, <2>4 DEF FrameExactAt, parse_packet_length
  <2>5. CASE read < 6
    BY <1>1, <2>2, <2>3, <2>5 DEF FrameExactAt, parse_packet_length, Byte
  <2> QED BY <2>4, <2>5
<1>2. CASE 192 <= size /\ size < 8384
  <2> DEFINE q == (size - 192) \div 256
             r == (size - 192) % 256
  <2>1. q \in 0 .. 63 /\ r \in Byte /\ 256 * q + r = size - 192 /\ (q + 192) % 256 = q + 192
    BY <1>2, TwoBytes
  <2>2. write_packet_length(size) = <<q + 192, r>>
    BY <1>2, <2>1 DEF write_packet_length
  <2>3. Frame(size) = 7 + size
    BY <2>2 DEF Frame
  <2> HIDE DEF q, r
  <2>4. Received(size, read, beyond) =
          LET d0 == IF 6 <= read THEN q + 192 ELSE beyond
              d1 == IF 7 <= read THEN r ELSE beyond
              p == parse_packet_length(d0, d1)
          IN  IF read < 5 \/ p.used = 0 \/ 5 + p.used + p.size # read THEN -1 ELSE p.size
    BY <2>2 DEF Received
  <2>5. q < 32
    BY <1>2, <2>1 DEF Byte
  <2>6. CASE read >= 7
    BY <1>2, <2>1, <2>3, <2>4, <2>5, <2>6 DEF FrameExactAt, parse_packet_length, Byte
  <2>7. CASE read < 7
    BY <1>2, <2>1, <2>3, <2>4, <2>5, <2>7 DEF FrameExactAt, parse_packet_length, Byte
  <2> QED BY <2>6, <2>7
<1> QED BY <1>0, <1>1, <1>2
=============================================================================
