------------------------------- MODULE Words --------------------------------
(***************************************************************************)
(* The integers of the machine (include/types.h): 32-bit words, unsigned   *)
(* bytes, and the signed and unsigned readings of one and two code bytes.  *)
(*                                                                         *)
(* WordMax is 2^31 - 1 in the program.  It is a parameter so that a small  *)
(* instance can reach both ends of the range.                              *)
(***************************************************************************)
EXTENDS Integers

CONSTANT WordMax

(* Every unsigned byte, and so every character, is a word. *)
ASSUME WordMaxAssumption == WordMax \in Nat /\ WordMax >= 255

WordMin == -WordMax - 1

(* word_t: all memory but the code is typed as a signed integer. *)
Word == WordMin .. WordMax

(* byte_t: code memory. *)
Byte == 0 .. 255

(* The conversion (word_t) of a sum or difference of two words: at most    *)
(* one wrap around the range.                                              *)
ToWord(x) ==
    IF x > WordMax THEN x - 2 * (WordMax + 1)
    ELSE IF x < WordMin THEN x + 2 * (WordMax + 1)
    ELSE x

(* (int8_t) b *)
Signed8(b) == IF b > 127 THEN b - 256 ELSE b

(* (int16_t) x, for an x that is at most one wrap away from the range. *)
Signed16(x) ==
    IF x > 32767 THEN x - 65536
    ELSE IF x < -32768 THEN x + 65536
    ELSE x

(* (short)((b1 << 8) | b2) *)
Short(b1, b2) == Signed16(256 * b1 + b2)

(* (uint16_t) s *)
Unsigned16(s) == IF s < 0 THEN s + 65536 ELSE s
=============================================================================
