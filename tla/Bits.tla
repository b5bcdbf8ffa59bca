-------------------------------- MODULE Bits --------------------------------
(***************************************************************************)
(* Machine words and byte buffers as the packet builder and decoder use    *)
(* them.                                                                   *)
(*                                                                         *)
(* A word (uint64_t in the code) is the set of the indices of its one bits *)
(* (bit 0 is the least significant), so that masking is intersection and   *)
(* no arithmetic on powers of two is needed.                               *)
(*                                                                         *)
(* A buffer (std::vector<uint8_t>) is its size in bytes and the set of the *)
(* positions of its one bits in wire order: position p is bit 7 - (p % 8)  *)
(* of byte p \div 8, the bit the code reaches with bitOffset = p.          *)
(***************************************************************************)
EXTENDS Integers

CONSTANT WordBits       \* width of a field value; 64 in the code

ASSUME WordBitsAssumption == WordBits \in Nat \ {0}

Word == SUBSET (0 .. WordBits - 1)

\* Unsigned comparison: the highest bit in which s and t differ is in t.
WordLeq(s, t) == s = t \/ \E i \in t \ s : \A j \in s \ t : j < i

\* The n low bits of a word.
Low(w, n) == {i \in w : i < n}

Buffer == [size : Nat, ones : SUBSET Nat]

EmptyBuffer == [size |-> 0, ones |-> {}]

\* The number of bytes that n bits occupy.
CeilBytes(n) == (n + 7) \div 8

(***************************************************************************)
(* PacketBuilder::appendBits: bit i of the value goes to wire position     *)
(* bitOffset + (numBits - 1 - i); bits past the word are zero.  A byte is  *)
(* pushed whenever the position reached is past the end of the buffer, so  *)
(* a buffer whose end is at or after bitOffset grows to the byte of the    *)
(* last position.                                                          *)
(***************************************************************************)
AppendBits(buf, bitOffset, value, numBits) ==
  [size |-> IF CeilBytes(bitOffset + numBits) > buf.size
              THEN CeilBytes(bitOffset + numBits)
              ELSE buf.size,
   ones |-> buf.ones \cup
              {bitOffset + (numBits - 1 - i) : i \in Low(value, numBits)}]

(***************************************************************************)
(* PacketDecoder::extractBits: the inverse read.  Positions past the end   *)
(* of the buffer read as zero; bits of a field wider than the word are     *)
(* consumed and dropped.                                                   *)
(***************************************************************************)
ExtractBits(buf, bitOffset, numBits) ==
  {i \in 0 .. WordBits - 1 :
     /\ i < numBits
     /\ (bitOffset + (numBits - 1 - i)) \div 8 < buf.size
     /\ bitOffset + (numBits - 1 - i) \in buf.ones}

\* std::vector::insert(end, ...): the bytes of b after those of a.
Concat(a, b) ==
  [size |-> a.size + b.size,
   ones |-> a.ones \cup {8 * a.size + p : p \in b.ones}]

\* The bytes from offset "from" up to, and without, offset "to".
Slice(buf, from, to) ==
  [size |-> to - from,
   ones |-> {p \in 0 .. 8 * (to - from) - 1 : 8 * from + p \in buf.ones}]

\* The first n bytes of a buffer, or all of it when it is shorter.
Truncate(buf, n) ==
  [size |-> IF n < buf.size THEN n ELSE buf.size,
   ones |-> {p \in buf.ones : p < 8 * n}]
=============================================================================
