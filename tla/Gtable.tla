------------------------------- MODULE Gtable -------------------------------
(***************************************************************************)
(* lib/gtable: access to the bit fields of a packed table.                 *)
(*                                                                         *)
(* The data sheet numbers the bits of a table from 8 * len - 1 down to 0;  *)
(* the SPI wire carries the table as 32-bit words, the least significant   *)
(* word first and the bytes of a word most significant first.              *)
(* gtable_field_access visits the bytes ("boxes") that a field touches and *)
(* moves, in each, the part of the value that belongs there.  The boxes    *)
(* are visited once each, at distinct addresses, so the loop is one step.  *)
(*                                                                         *)
(* Only QUIRK_LSW32_IS_FIRST is modelled: it is what g_quirks holds from   *)
(* the start and what main.c passes to gtable_configure.  An integer is    *)
(* the set of the numbers of its bits that are 1, a byte a subset of 0..7. *)
(***************************************************************************)
EXTENDS Integers

CONSTANTS
    TblLen,         \* length of the buffer in bytes (tbl_len_bytes)
    Fields,         \* <<start, end>>: the accesses the program makes
    Values          \* the values it stores

(***************************************************************************)
(* Every SIZE_*_ENTRY of the program is a whole number of words, and the   *)
(* field numbers of every call lie inside its table.                       *)
(***************************************************************************)
ASSUME LenAssumption == TblLen \in Nat /\ TblLen > 0 /\ TblLen % 4 = 0

ASSUME FieldsAssumption ==
    \A f \in Fields : f \in (0..8 * TblLen - 1) \X (0..8 * TblLen - 1)

ASSUME ValuesAssumption == \A v \in Values : v \subseteq 0..63

VARIABLE buf      \* the packed table: byte address -> set of bits

Byte == 0..7
Addresses == 0..TblLen - 1

TypeOK == buf \in [Addresses -> SUBSET Byte]

Init == buf = [a \in Addresses |-> {}]

(***************************************************************************)
(* get_reverse_lsw32_offset, applied to the address TblLen - box - 1 of the   *)
(* box counted from the least significant byte.                            *)
(***************************************************************************)
\* Mutant: the words stay in the order of the data sheet.
ReverseLsw32_WordsInPlace(offset) == offset

ReverseLsw32(offset) ==
    LET word == offset \div 4
    IN  4 * (TblLen \div 4 - word - 1) + (offset - 4 * word)

BoxAddr(box) == ReverseLsw32(TblLen - box - 1)

(***************************************************************************)
(* The boxes of field start..end, and the bits of a box that belong to it. *)
(***************************************************************************)
Boxes(start, end) == (end \div 8)..(start \div 8)

BoxBits(start, end, box) ==
    LET first == IF box = start \div 8 THEN start % 8 ELSE 7
        last  == IF box = end \div 8 THEN end % 8 ELSE 0
    IN  last..first

(***************************************************************************)
(* The checks at the top of gtable_field_access.                           *)
(***************************************************************************)
Legal(start, end) == start >= end /\ start - end + 1 <= 64

Truncate(v, width) == v \cap 0..width - 1

(***************************************************************************)
(* home_bit_mask, the bits of the value that a box may hold.  For the top  *)
(* box of a 64-bit field ONES_TO_RIGHT_OF(63) shifts by 64, which C leaves *)
(* undefined: x86-64 and AArch64 shift by 0 and the mask is empty, 32-bit  *)
(* ARM shifts everything out and the mask is all ones.                     *)
(***************************************************************************)
ShiftBy64 == {{}, 0..63}

HomeMask(start, end, box, top) ==
    IF box = start \div 8 /\ start - end = 63 THEN top ELSE 0..63

(***************************************************************************)
(* GTABLE_PACK: bit b of a box holds bit 8 * box + b - end of the          *)
(* truncated value; everything else in the buffer is left alone.           *)
(***************************************************************************)
Packed(buffer, v, start, end, top) ==
    LET w == Truncate(v, start - end + 1)
        Stored(a) == {b \in Byte : \E box \in Boxes(start, end) :
                         /\ BoxAddr(box) = a
                         /\ b \in BoxBits(start, end, box)
                         /\ 8 * box + b - end \in w \cap HomeMask(start, end, box, top)}
        Masked(a) == {b \in Byte : \E box \in Boxes(start, end) :
                         BoxAddr(box) = a /\ b \in BoxBits(start, end, box)}
    IN  [a \in Addresses |-> (buffer[a] \ Masked(a)) \cup Stored(a)]

(***************************************************************************)
(* GTABLE_UNPACK: the value gathered from the boxes.  home_bit_mask only   *)
(* clears what is clear already.                                           *)
(***************************************************************************)
\* Mutant: the bits of the first and the last box are not masked.
Unpacked_Unmasked(buffer, start, end) ==
    UNION {{8 * box + b - end : b \in buffer[BoxAddr(box)]} : box \in Boxes(start, end)}

Unpacked(buffer, start, end) ==
    UNION {{8 * box + b - end :
                b \in buffer[BoxAddr(box)] \cap BoxBits(start, end, box)} :
           box \in Boxes(start, end)}

(***************************************************************************)
(* gtable_pack.  An illegal field is refused before the buffer is touched. *)
(***************************************************************************)
Pack(v, start, end) ==
    \E top \in ShiftBy64 :
        buf' = IF Legal(start, end) THEN Packed(buf, v, start, end, top) ELSE buf

Next == \E f \in Fields, v \in Values : Pack(v, f[1], f[2])

Spec == Init /\ [][Next]_buf

-----------------------------------------------------------------------------
(***************************************************************************)
(* The data sheet's view of a buffer: the set of its bit numbers that are  *)
(* 1.  Word q of the table is at address 4 * q, most significant byte      *)
(* first, so bit p is in byte 4 * (p \div 32) + (3 - ((p \div 8) % 4)).   *)
(***************************************************************************)
WireAddr(p) == 4 * (p \div 32) + (3 - ((p \div 8) % 4))

BitsOf(buffer) == {p \in 0..8 * TblLen - 1 : p % 8 \in buffer[WireAddr(p)]}

FieldBits(start, end) == end..start

(***************************************************************************)
(* Storing a field writes the value's bits at the data sheet's bit numbers *)
(* of that field and disturbs no other bit of the table, whichever bytes   *)
(* and words the field crosses (gtable.c:176-230).  This is said of the    *)
(* fields of less than 64 bits, which are all those of the tables.         *)
(***************************************************************************)
Written(f, v) ==
    BitsOf(buf') = (BitsOf(buf) \ FieldBits(f[1], f[2]))
                     \cup {p \in FieldBits(f[1], f[2]) : p - f[2] \in v}

PackWritesTheField ==
    [][\A f \in Fields, v \in Values :
         Pack(v, f[1], f[2]) /\ Legal(f[1], f[2]) /\ f[1] - f[2] < 63 => Written(f, v)]_buf

(***************************************************************************)
(* The same of every field, the 64-bit registers of the PTP clock too: the *)
(* comment at gtable.c:159-161 has "any 64-bit value will surely fit".     *)
(***************************************************************************)
EveryValueFits ==
    [][\A f \in Fields, v \in Values :
         Pack(v, f[1], f[2]) /\ Legal(f[1], f[2]) => Written(f, v)]_buf

(***************************************************************************)
(* A field reads back as the data sheet's bits of that field, whoever      *)
(* wrote them: what gtable_unpack returns agrees with the wire order.      *)
(***************************************************************************)
UnpackReadsTheField ==
    \A f \in Fields : Legal(f[1], f[2]) =>
        Unpacked(buf, f[1], f[2]) =
            {p - f[2] : p \in BitsOf(buf) \cap FieldBits(f[1], f[2])}
=============================================================================
