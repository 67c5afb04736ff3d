------------------------------ MODULE Checksum ------------------------------
(***************************************************************************)
(* lib/gtable: the two checksums computed over packed data, the CRC-32     *)
(* that guards every table of a static configuration and the CRC-8 that    *)
(* places an address in the forwarding database of an E/T chip.  Both are  *)
(* shift registers; what stays in them is meant to be the remainder of a   *)
(* division of polynomials over {0, 1}.  A polynomial is the set of its    *)
(* exponents.                                                              *)
(***************************************************************************)
EXTENDS Gtable

Xor(a, b) == (a \ b) \cup (b \ a)
ShiftLeft(v, width) == {b + 1 : b \in v} \cap 0..width - 1
BitReverse(v, width) == {width - 1 - b : b \in v}

\* One turn of the loops of crc32_add and crc8_add.
Turn(crc, bit, poly, width) ==
    LET shifted == ShiftLeft(crc, width)
    IN  IF (width - 1 \in crc) # bit THEN Xor(shifted, poly) ELSE shifted

\* The register after the first n bits.
Shifted(seed, bits, n, poly, width) ==
    LET crc[k \in 0..n] == IF k = 0 THEN seed ELSE Turn(crc[k - 1], bits[k], poly, width)
    IN  crc[n]

(***************************************************************************)
(* ether_crc32_le.  It reads a word at a time with gtable_unpack, which    *)
(* has byte k of a word of its own at address 3 - k, and feeds the bytes   *)
(* from the least significant one, the bits of each reversed.              *)
(***************************************************************************)
EtherPoly == {26, 23, 22, 16, 12, 11, 10, 8, 7, 5, 4, 2, 1, 0}

\* Mutant: the bytes are fed in the order of their addresses.
EtherCrc32_ByAddress(buffer) ==
    LET bits == [n \in 1..8 * TblLen |-> (n - 1) % 8 \in buffer[(n - 1) \div 8]]
    IN  BitReverse((0..31) \ Shifted(0..31, bits, 8 * TblLen, EtherPoly, 32), 32)

EtherCrc32(buffer) ==
    LET ByteOf(n) == buffer[4 * (n \div 4) + 3 - (n % 4)]
        bits == [n \in 1..8 * TblLen |-> (n - 1) % 8 \in ByteOf((n - 1) \div 8)]
    IN  BitReverse((0..31) \ Shifted(0..31, bits, 8 * TblLen, EtherPoly, 32), 32)

(***************************************************************************)
(* fdb_hash.  The polynomial is kept without its lowest bit (Koopman's     *)
(* notation), the register without its highest.                            *)
(***************************************************************************)
\* Mutant: the polynomial is used as it is kept.
FdbHash_Koopman(vlanid, macaddr, poly) ==
    LET input == {b + 48 : b \in vlanid} \cup macaddr
        bits == [n \in 1..64 |-> 64 - n \in input]
    IN  Shifted({}, bits, 64, poly, 8) \cap Byte

FdbHash(vlanid, macaddr, poly) ==
    LET input == {b + 48 : b \in vlanid} \cup macaddr
        bits == [n \in 1..64 |-> 64 - n \in input]
    IN  Shifted({}, bits, 64, ({0} \cup ShiftLeft(poly, 9)) \cap Byte, 8) \cap Byte
-----------------------------------------------------------------------------
\* Division, by hand: g has degree deg, and p is of degree top at most.
Subtract(rest, g, shift) == Xor(rest, {e + shift : e \in g})

Remainder(p, g, deg, top) ==
    LET Divide(rest, d) == IF d \in rest THEN Subtract(rest, g, d - deg) ELSE rest
        left[d \in deg..top + 1] == IF d = top + 1 THEN p ELSE Divide(left[d + 1], d)
    IN  left[deg]

(***************************************************************************)
(* ether_crc32_le is the CRC-32 of IEEE 802.3, taken over the bits of the  *)
(* data sheet from number 0 on: the reset value and the reflections agree, *)
(* and reading word by word undoes the byte order of the wire.             *)
(***************************************************************************)
CrcIsIeee8023 ==
    LET message == {8 * TblLen + 31 - p : p \in BitsOf(buf)}
        preset == 8 * TblLen..8 * TblLen + 31
        rest == Remainder(Xor(message, preset), {32} \cup EtherPoly, 32, 8 * TblLen + 31)
    IN  EtherCrc32(buf) = {31 - e : e \in (0..31) \ rest}
=============================================================================
