------------------------------- MODULE Memory -------------------------------
(***************************************************************************)
(* Words, register values and the byte-addressed memory (cpu/memory.hpp,   *)
(* Value in utils/isa.hpp).  Everything is as in the code but for scale: a *)
(* byte has ByteBase values instead of 256, a word is still four bytes, a  *)
(* vector register has Lanes lanes, and memory has MemSize bytes.          *)
(***************************************************************************)
EXTENDS Integers

CONSTANTS
  ByteBase,   \* values of a byte (256)
  MemSize,    \* bytes of memory (MEM_SIZE)
  Lanes       \* lanes of a value (MAX_VECTOR_LANES)

ASSUME MemoryAssumption ==
  /\ ByteBase \in Nat /\ ByteBase >= 2
  /\ MemSize \in Nat \ {0}
  /\ Lanes \in Nat \ {0}

Byte == 0..(ByteBase - 1)
Base(n) == IF n = 0 THEN 1 ELSE IF n = 1 THEN ByteBase
           ELSE IF n = 2 THEN ByteBase * ByteBase
           ELSE IF n = 3 THEN ByteBase * ByteBase * ByteBase
           ELSE ByteBase * ByteBase * ByteBase * ByteBase
WordMod == Base(4)
Word == 0..(WordMod - 1)

\* A Value is its lanes; a scalar lives in lane 0.
Lane  == 0..(Lanes - 1)
Value == [Lane -> Word]
scalar(w) == [l \in Lane |-> IF l = 0 THEN w ELSE 0]

MemState == [0..(MemSize - 1) -> Byte]

\* Byte k of word w, and the word of n bytes, a function of their index.
ByteOf(w, k) == (w \div Base(k)) % ByteBase
Join(bytes, n) == LET at(k) == IF k < n THEN bytes[k] * Base(k) ELSE 0
                  IN  at(0) + at(1) + at(2) + at(3)

\* An access of n bytes at addr is in range when its last byte is.
InMemory(addr, n) == addr + n - 1 < MemSize

\* What the code checks: the address of the last byte as a word.  At the end of
\* the address space that sum wraps, and an access out of range goes through.
Checked(addr, n) == (addr + n - 1) % WordMod < MemSize
Wild(addr, n) == Checked(addr, n) /\ ~InMemory(addr, n)

\* Memory m and what a wild access may find behind it: bytes b.
Beyond(m, b) ==
  [a \in DOMAIN m \cup (WordMod - 3)..(WordMod - 1) |-> IF a \in DOMAIN m THEN m[a] ELSE b]

\* loadb, loadh, loadw (n = 1, 2, 4): nothing of an access that ends out of
\* range is read.
load(m, addr, n) ==
  IF Checked(addr, n) THEN Join([k \in 0..(n-1) |-> m[(addr + k) % WordMod]], n) ELSE 0

\* sign_extend of the low n bytes of w.
sign_extend(w, n) ==
  LET low == w % Base(n)
  IN  IF 2 * low >= Base(n) THEN WordMod - Base(n) + low ELSE low
=============================================================================
