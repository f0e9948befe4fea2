------------------------------- MODULE Endian -------------------------------
(***************************************************************************)
(* Numbers and characters in a packet.  What is read is told by the bytes  *)
(* it is made of: the positions in the packet, the most significant first  *)
(* for a number, the first character first for an array.                   *)
(***************************************************************************)
EXTENDS Integers, Sequences

\* (p[0] << 8 * (n - 1)) | ... | p[n - 1]
BigEndian(p, n) == [i \in 1..n |-> p + i - 1]

read_u16_be(p) == BigEndian(p, 2)
read_u32_be(p) == BigEndian(p, 4)
read_u48_be(p) == BigEndian(p, 6)
read_u64_be(p) == BigEndian(p, 8)
read_i32_be(p) == BigEndian(p, 4)
read_i64_be(p) == BigEndian(p, 8)

byte(p) == <<p>>
memcpy(p, n) == [i \in 1..n |-> p + i - 1]
=============================================================================
