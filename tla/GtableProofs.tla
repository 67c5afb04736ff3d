---------------------------- MODULE GtableProofs ----------------------------
(***************************************************************************)
(* Bit packing, the bins of the forwarding table, and the checksums.       *)
(***************************************************************************)
EXTENDS Fdb, FiniteSetTheorems, WellFoundedInduction, TLAPS

(***************************************************************************)
(* lib/gtable, for a table of any whole number of words and any field:     *)
(* the byte loop implements the data sheet's bit numbering.                *)
(***************************************************************************)

(***************************************************************************)
(* The composition of the two address computations in gtable_field_access  *)
(* is the wire order.                                                      *)
(***************************************************************************)
LEMMA BoxAddrIsWireOrder ==
  ASSUME NEW box \in 0..TblLen - 1
  PROVE  BoxAddr(box) = 4 * (box \div 4) + (3 - (box % 4))
  <1> DEFINE q == box \div 4
             r == box % 4
             n == TblLen \div 4
  <1>1. q \in Nat /\ r \in 0..3 /\ box = 4 * q + r
    BY DEF q, r
  <1>2. n \in Nat /\ TblLen = 4 * n
    BY LenAssumption
  <1>3. (TblLen - box - 1) \div 4 = n - q - 1
    <2>1. TblLen - box - 1 = 4 * (n - q - 1) + (3 - r)
      BY <1>1, <1>2
    <2> HIDE DEF q, r, n
    <2>2. n - q - 1 \in Int /\ 3 - r \in 0..3
      BY <1>1, <1>2
    <2> QED
      BY <2>1, <2>2
  <1> HIDE DEF q, r, n
  <1>4. BoxAddr(box) = 4 * (n - (n - q - 1) - 1) + ((TblLen - box - 1) - 4 * (n - q - 1))
    BY <1>3 DEF BoxAddr, ReverseLsw32, n
  <1> QED
    BY <1>1, <1>2, <1>4 DEF q, r

LEMMA BoxAddrIsAnAddress ==
  ASSUME NEW box \in 0..TblLen - 1
  PROVE  BoxAddr(box) \in Addresses
  <1>1. BoxAddr(box) = 4 * (box \div 4) + (3 - (box % 4))
    BY BoxAddrIsWireOrder
  <1> DEFINE n == TblLen \div 4
  <1>2. n \in Nat /\ TblLen = 4 * n
    BY LenAssumption
  <1> HIDE DEF n
  <1>3. box \div 4 \in Nat /\ box \div 4 < n /\ box % 4 \in 0..3
    BY <1>2
  <1> QED
    BY <1>1, <1>2, <1>3 DEF Addresses

(***************************************************************************)
(* No two boxes share a byte, so the loop never overwrites its own work.   *)
(***************************************************************************)
LEMMA BoxAddrIsInjective ==
  ASSUME NEW box1 \in 0..TblLen - 1, NEW box2 \in 0..TblLen - 1,
         BoxAddr(box1) = BoxAddr(box2)
  PROVE  box1 = box2
  <1>1. 4 * (box1 \div 4) + (3 - (box1 % 4)) = 4 * (box2 \div 4) + (3 - (box2 % 4))
    BY BoxAddrIsWireOrder
  <1>2. /\ box1 = 4 * (box1 \div 4) + (box1 % 4)
        /\ box2 = 4 * (box2 \div 4) + (box2 % 4)
        /\ box1 % 4 \in 0..3 /\ box2 % 4 \in 0..3
        /\ box1 \div 4 \in Int /\ box2 \div 4 \in Int
    BY LenAssumption
  <1> QED
    BY <1>1, <1>2

(***************************************************************************)
(* The bit number p splits into a box and a bit of that box.               *)
(***************************************************************************)
LEMMA BitSplits ==
  ASSUME NEW p \in 0..8 * TblLen - 1
  PROVE  /\ p \div 8 \in 0..TblLen - 1
         /\ p % 8 \in Byte
         /\ p = 8 * (p \div 8) + (p % 8)
  BY LenAssumption DEF Byte

LEMMA WireAddrIsBoxAddr ==
  ASSUME NEW p \in 0..8 * TblLen - 1
  PROVE  WireAddr(p) = BoxAddr(p \div 8) /\ WireAddr(p) \in Addresses
  <1>1. p \div 8 \in 0..TblLen - 1
    BY BitSplits
  <1>2. p \div 32 = (p \div 8) \div 4
    BY LenAssumption
  <1> QED
    BY <1>1, <1>2, BoxAddrIsWireOrder, BoxAddrIsAnAddress DEF WireAddr

(***************************************************************************)
(* The boxes and their bit ranges cut the field start..end exactly.        *)
(***************************************************************************)
LEMMA BoxesCutTheField ==
  ASSUME NEW start \in 0..8 * TblLen - 1, NEW end \in 0..8 * TblLen - 1, start >= end,
         NEW p \in 0..8 * TblLen - 1
  PROVE  p \in FieldBits(start, end) <=>
             /\ p \div 8 \in Boxes(start, end)
             /\ p % 8 \in BoxBits(start, end, p \div 8)
  <1> DEFINE pq == p \div 8
             pr == p % 8
             sq == start \div 8
             sr == start % 8
             eq == end \div 8
             er == end % 8
  <1>1. /\ pq \in Nat /\ pr \in 0..7 /\ p = 8 * pq + pr
        /\ sq \in Nat /\ sr \in 0..7 /\ start = 8 * sq + sr
        /\ eq \in Nat /\ er \in 0..7 /\ end = 8 * eq + er
    BY LenAssumption
  <1>2. pq \in Boxes(start, end) <=> eq <= pq /\ pq <= sq
    BY <1>1 DEF Boxes
  <1>3. pr \in BoxBits(start, end, pq) <=>
            /\ (IF pq = eq THEN er ELSE 0) <= pr
            /\ pr <= (IF pq = sq THEN sr ELSE 7)
    BY <1>1 DEF BoxBits
  <1>4. p \in FieldBits(start, end) <=> end <= p /\ p <= start
    BY LenAssumption DEF FieldBits
  <1> HIDE DEF pq, pr, sq, sr, eq, er
  <1>5. (end <= p /\ p <= start) <=>
            /\ eq <= pq /\ pq <= sq
            /\ (IF pq = eq THEN er ELSE 0) <= pr
            /\ pr <= (IF pq = sq THEN sr ELSE 7)
    BY <1>1
  <1> QED
    BY <1>2, <1>3, <1>4, <1>5 DEF pq, pr

LEMMA BoxesAreInTheTable ==
  ASSUME NEW start \in 0..8 * TblLen - 1, NEW end \in 0..8 * TblLen - 1,
         NEW box \in Boxes(start, end)
  PROVE  box \in 0..TblLen - 1
  BY LenAssumption DEF Boxes

LEMMA BoxBitsAreByteBits ==
  ASSUME NEW start \in 0..8 * TblLen - 1, NEW end \in 0..8 * TblLen - 1,
         NEW box \in Boxes(start, end)
  PROVE  BoxBits(start, end, box) \subseteq Byte
  BY LenAssumption DEF BoxBits, Byte, Boxes

LEMMA PackedTyped ==
  ASSUME NEW buffer \in [Addresses -> SUBSET Byte], NEW v, NEW start, NEW end, NEW top
  PROVE  Packed(buffer, v, start, end, top) \in [Addresses -> SUBSET Byte]
  BY DEF Packed

(***************************************************************************)
(* Storing a value replaces the bits of the field and nothing else, if the *)
(* field is narrow enough for the mask to be defined.                      *)
(***************************************************************************)
LEMMA PackedBits ==
  ASSUME NEW buffer \in [Addresses -> SUBSET Byte], NEW v \in SUBSET Int,
         NEW start \in 0..8 * TblLen - 1, NEW end \in 0..8 * TblLen - 1, start >= end,
         start - end < 63, NEW top
  PROVE  BitsOf(Packed(buffer, v, start, end, top)) =
             (BitsOf(buffer) \ FieldBits(start, end))
               \cup {p \in FieldBits(start, end) : p - end \in v}
  <1> DEFINE new == Packed(buffer, v, start, end, top)
             w == Truncate(v, start - end + 1)
             InField(p) == p \in FieldBits(start, end)
  <1>1. ASSUME NEW p \in 0..8 * TblLen - 1
        PROVE  p \in BitsOf(new) <=>
                   \/ p \in BitsOf(buffer) /\ ~InField(p)
                   \/ InField(p) /\ p - end \in v
    <2> DEFINE a == WireAddr(p)
               bit == p % 8
               pbox == p \div 8
               Hits(box) == BoxAddr(box) = a /\ bit \in BoxBits(start, end, box)
    <2>1. /\ a = BoxAddr(pbox) /\ a \in Addresses
          /\ pbox \in 0..TblLen - 1 /\ bit \in Byte /\ p = 8 * pbox + bit
      BY WireAddrIsBoxAddr, BitSplits
    <2>2. ASSUME NEW box \in Boxes(start, end), BoxAddr(box) = a
          PROVE  box = pbox
      <3>1. box \in 0..TblLen - 1
        BY BoxesAreInTheTable
      <3>2. BoxAddr(box) = BoxAddr(pbox)
        BY <2>1, <2>2
      <3> HIDE DEF pbox
      <3> QED
        BY <2>1, <3>1, <3>2, BoxAddrIsInjective
    <2>3. InField(p) <=> pbox \in Boxes(start, end) /\ bit \in BoxBits(start, end, pbox)
      BY BoxesCutTheField
    <2>4. (\E box \in Boxes(start, end) : Hits(box)) <=> InField(p)
      BY <2>1, <2>2, <2>3
    <2> DEFINE kept(box) == w \cap HomeMask(start, end, box, top)
    <2>10. ASSUME NEW box \in Boxes(start, end) PROVE kept(box) = w
      BY LenAssumption DEF HomeMask, Truncate
    <2>5. (\E box \in Boxes(start, end) : Hits(box) /\ 8 * box + bit - end \in kept(box))
            <=> InField(p) /\ p - end \in w
      <3> HIDE DEF kept, w
      <3> QED
        BY <2>1, <2>2, <2>3, <2>10
    <2>6. InField(p) => (p - end \in w <=> p - end \in v)
      BY LenAssumption DEF FieldBits, Truncate
    <2>7. new[a] =
            (buffer[a] \ {b \in Byte : \E box \in Boxes(start, end) :
                             BoxAddr(box) = a /\ b \in BoxBits(start, end, box)})
            \cup {b \in Byte : \E box \in Boxes(start, end) :
                             /\ BoxAddr(box) = a
                             /\ b \in BoxBits(start, end, box)
                             /\ 8 * box + b - end \in kept(box)}
      BY <2>1 DEF Packed
    <2>8. bit \in new[a] <=>
            \/ bit \in buffer[a] /\ ~InField(p)
            \/ InField(p) /\ p - end \in w
      <3> HIDE DEF a, bit, pbox, w, new, InField, kept
      <3> QED
        BY <2>1, <2>4, <2>5, <2>7
    <2>9. /\ p \in BitsOf(new) <=> bit \in new[a]
          /\ p \in BitsOf(buffer) <=> bit \in buffer[a]
      BY DEF BitsOf
    <2> HIDE DEF a, bit, new, w, InField
    <2> QED
      BY <2>6, <2>8, <2>9
  <1>2. BitsOf(new) \subseteq 0..8 * TblLen - 1 /\ BitsOf(buffer) \subseteq 0..8 * TblLen - 1
    BY DEF BitsOf
  <1>3. FieldBits(start, end) \subseteq 0..8 * TblLen - 1
    BY LenAssumption DEF FieldBits
  <1> HIDE DEF new
  <1>4. BitsOf(new) = (BitsOf(buffer) \ FieldBits(start, end))
               \cup {p \in FieldBits(start, end) : p - end \in v}
    BY <1>1, <1>2, <1>3
  <1> QED
    BY <1>4 DEF new

(***************************************************************************)
(* Reading a field gives the bits of the field, numbered from its end.     *)
(***************************************************************************)
LEMMA UnpackedBits ==
  ASSUME NEW buffer \in [Addresses -> SUBSET Byte],
         NEW start \in 0..8 * TblLen - 1, NEW end \in 0..8 * TblLen - 1, start >= end
  PROVE  Unpacked(buffer, start, end) =
             {p - end : p \in BitsOf(buffer) \cap FieldBits(start, end)}
  <1> DEFINE Read == {p - end : p \in BitsOf(buffer) \cap FieldBits(start, end)}
  <1>1. ASSUME NEW x \in Read PROVE x \in Unpacked(buffer, start, end)
    <2>1. PICK p \in BitsOf(buffer) \cap FieldBits(start, end) : x = p - end
      OBVIOUS
    <2>2. p \in 0..8 * TblLen - 1 /\ p % 8 \in buffer[WireAddr(p)]
      BY DEF BitsOf
    <2> DEFINE box == p \div 8
               bit == p % 8
    <2>3. box \in Boxes(start, end) /\ bit \in BoxBits(start, end, box)
      BY <2>2, BoxesCutTheField
    <2>4. p = 8 * box + bit /\ WireAddr(p) = BoxAddr(box)
      BY <2>2, BitSplits, WireAddrIsBoxAddr
    <2>5. bit \in buffer[BoxAddr(box)] \cap BoxBits(start, end, box)
      BY <2>2, <2>3, <2>4
    <2>6. x = 8 * box + bit - end
      BY <2>1, <2>2, <2>4, BitSplits, LenAssumption
    <2> HIDE DEF box, bit
    <2> QED
      BY <2>3, <2>5, <2>6 DEF Unpacked
  <1>2. ASSUME NEW x \in Unpacked(buffer, start, end) PROVE x \in Read
    <2>0. PICK box \in Boxes(start, end) :
              \E bit \in buffer[BoxAddr(box)] \cap BoxBits(start, end, box) :
                  x = 8 * box + bit - end
      BY DEF Unpacked
    <2>1. PICK bit \in buffer[BoxAddr(box)] \cap BoxBits(start, end, box) :
              x = 8 * box + bit - end
      BY <2>0
    <2>2. box \in 0..TblLen - 1 /\ bit \in 0..7
      BY BoxesAreInTheTable, BoxBitsAreByteBits DEF Byte
    <2> DEFINE p == 8 * box + bit
    <2>3. p \in 0..8 * TblLen - 1 /\ p \div 8 = box /\ p % 8 = bit
      BY <2>2, LenAssumption
    <2>4. WireAddr(p) = BoxAddr(box)
      BY <2>3, WireAddrIsBoxAddr
    <2>5. p \in FieldBits(start, end)
      BY <2>1, <2>3, BoxesCutTheField
    <2>6. p \in BitsOf(buffer)
      BY <2>1, <2>3, <2>4 DEF BitsOf
    <2>7. x = p - end
      BY <2>1, <2>2, LenAssumption
    <2> HIDE DEF p
    <2> QED
      BY <2>5, <2>6, <2>7
  <1> QED
    BY <1>1, <1>2

(***************************************************************************)
(* A field read back after it was stored is the value cut to the width of  *)
(* the field, whatever was in the buffer before.                           *)
(***************************************************************************)
THEOREM StoredFieldReadsBack ==
  ASSUME NEW buffer \in [Addresses -> SUBSET Byte], NEW v \in SUBSET Nat,
         NEW start \in 0..8 * TblLen - 1, NEW end \in 0..8 * TblLen - 1, start >= end,
         start - end < 63, NEW top
  PROVE  Unpacked(Packed(buffer, v, start, end, top), start, end) =
             Truncate(v, start - end + 1)
  <1> DEFINE new == Packed(buffer, v, start, end, top)
             bits == {p \in FieldBits(start, end) : p - end \in v}
  <1>1. BitsOf(new) \cap FieldBits(start, end) = bits
    BY PackedBits
  <1>2. Unpacked(new, start, end) = {p - end : p \in bits}
    BY <1>1, PackedTyped, UnpackedBits
  <1>3. {p - end : p \in bits} = Truncate(v, start - end + 1)
    <2>1. ASSUME NEW x \in Truncate(v, start - end + 1)
          PROVE  x \in {p - end : p \in bits}
      <3>1. x \in v /\ x \in 0..start - end /\ x \in Nat
        BY <2>1, LenAssumption DEF Truncate
      <3>2. x + end \in FieldBits(start, end) /\ (x + end) - end = x
        BY <3>1, LenAssumption DEF FieldBits
      <3> QED
        BY <3>1, <3>2
    <2>2. ASSUME NEW p \in bits PROVE p - end \in Truncate(v, start - end + 1)
      BY LenAssumption DEF Truncate, FieldBits
    <2> QED
      BY <2>1, <2>2
  <1> QED
    BY <1>2, <1>3

(***************************************************************************)
(* A byte of the buffer stays a byte: no bit is stored outside its box.    *)
(***************************************************************************)
THEOREM GtableTypeCorrect == Spec => []TypeOK
  <1>1. Init => TypeOK
    BY DEF Init, TypeOK
  <1>2. TypeOK /\ [Next]_buf => TypeOK'
    BY PackedTyped DEF TypeOK, Next, Pack
  <1> QED
    BY <1>1, <1>2, PTL DEF Spec

(***************************************************************************)
(* The byte loop of gtable_pack writes the data sheet's bits of the field  *)
(* and no others, in a table of any length.                                *)
(***************************************************************************)
THEOREM PackIsTheDataSheets == Spec => PackWritesTheField
  <1>1. TypeOK /\ [Next]_buf =>
          [\A f \in Fields, v \in Values :
             Pack(v, f[1], f[2]) /\ Legal(f[1], f[2]) /\ f[1] - f[2] < 63 => Written(f, v)]_buf
    <2> SUFFICES ASSUME TypeOK,
                        NEW f \in Fields, NEW v \in Values,
                        Pack(v, f[1], f[2]), Legal(f[1], f[2]), f[1] - f[2] < 63
                 PROVE  Written(f, v)
      OBVIOUS
    <2>1. f[1] \in 0..8 * TblLen - 1 /\ f[2] \in 0..8 * TblLen - 1 /\ f[1] >= f[2]
      BY FieldsAssumption DEF Legal
    <2>2. v \in SUBSET Int
      BY ValuesAssumption
    <2>3. PICK top \in ShiftBy64 : buf' = Packed(buf, v, f[1], f[2], top)
      BY DEF Pack
    <2> QED
      BY <2>1, <2>2, <2>3, PackedBits DEF TypeOK, Written
  <1> QED
    BY <1>1, GtableTypeCorrect, PTL DEF Spec, PackWritesTheField

(***************************************************************************)
(* The byte loop of gtable_unpack returns the data sheet's bits of the     *)
(* field, for any table that packs have produced.                          *)
(***************************************************************************)
THEOREM UnpackIsTheDataSheets == Spec => []UnpackReadsTheField
  <1>1. TypeOK => UnpackReadsTheField
    <2> SUFFICES ASSUME TypeOK, NEW f \in Fields, Legal(f[1], f[2])
                 PROVE  Unpacked(buf, f[1], f[2]) =
                          {p - f[2] : p \in BitsOf(buf) \cap FieldBits(f[1], f[2])}
      BY DEF UnpackReadsTheField
    <2>1. f[1] \in 0..8 * TblLen - 1 /\ f[2] \in 0..8 * TblLen - 1 /\ f[1] >= f[2]
      BY FieldsAssumption DEF Legal
    <2> QED
      BY <2>1, UnpackedBits DEF TypeOK
  <1> QED
    BY <1>1, GtableTypeCorrect, PTL
-----------------------------------------------------------------------------
(***************************************************************************)
(* No two entries of a bin that is not over-full share a place: for tables *)
(* of any length, any hash values and any counters to start from.  The     *)
(* proof counts: what lies before an entry in its bin is one more for each *)
(* later entry, and four numbers in a row differ modulo four.              *)
(***************************************************************************)

Table(bins) == \E n \in Nat : DOMAIN bins = 1..n
Counters(count) == count \in [SUBSET Byte -> 0..CounterMod - 1]

LEMMA CountsInABin ==
  ASSUME NEW bins, Table(bins), NEW b
  PROVE  /\ IsFiniteSet({k \in DOMAIN bins : bins[k] = b})
         /\ Cardinality({k \in DOMAIN bins : bins[k] = b}) \in Nat
  <1>1. IsFiniteSet(DOMAIN bins)
    BY FS_Interval DEF Table
  <1>2. {k \in DOMAIN bins : bins[k] = b} \subseteq DOMAIN bins
    OBVIOUS
  <1> QED
    BY <1>1, <1>2, FS_Subset, FS_CardinalityType

(***************************************************************************)
(* Of two entries of a bin, more of the bin's entries lie before the later *)
(* one, and all of them beside itself.                                     *)
(***************************************************************************)
LEMMA EarlierGrows ==
  ASSUME NEW bins, Table(bins),
         NEW i \in DOMAIN bins, NEW j \in DOMAIN bins,
         i < j, bins[i] = bins[j]
  PROVE  /\ Cardinality(Earlier(bins, i)) \in Nat
         /\ Cardinality(Earlier(bins, j)) \in Nat
         /\ Cardinality(Earlier(bins, i)) < Cardinality(Earlier(bins, j))
         /\ Cardinality(Earlier(bins, j)) < Cardinality({k \in DOMAIN bins : bins[k] = bins[i]})
  <1> DEFINE S == {k \in DOMAIN bins : bins[k] = bins[i]}
             A == Earlier(bins, i)
             B == Earlier(bins, j)
  <1>1. PICK n \in Nat : DOMAIN bins = 1..n
    BY DEF Table
  <1>2. A \cup {i} \subseteq B /\ i \notin A
    BY <1>1 DEF Earlier
  <1>3. B \cup {j} \subseteq S /\ j \notin B
    BY <1>1 DEF Earlier
  <1>4. IsFiniteSet(S) /\ Cardinality(S) \in Nat
    BY CountsInABin
  <1> HIDE DEF S, A, B
  <1>5. IsFiniteSet(B) /\ IsFiniteSet(A)
    BY <1>2, <1>3, <1>4, FS_Subset
  <1>6. /\ Cardinality(A) \in Nat /\ Cardinality(B) \in Nat
        /\ IsFiniteSet(A \cup {i}) /\ Cardinality(A \cup {i}) = Cardinality(A) + 1
        /\ IsFiniteSet(B \cup {j}) /\ Cardinality(B \cup {j}) = Cardinality(B) + 1
    BY <1>2, <1>3, <1>5, FS_AddElement, FS_CardinalityType
  <1>7. Cardinality(A \cup {i}) <= Cardinality(B)
    BY <1>2, <1>5, FS_Subset
  <1>8. Cardinality(B \cup {j}) <= Cardinality(S)
    BY <1>3, <1>4, FS_Subset
  <1> QED
    BY <1>4, <1>6, <1>7, <1>8 DEF S, A, B

LEMMA CountersWrap ==
  ASSUME NEW n \in Nat
  PROVE  n % 256 \in 0..255
  OBVIOUS

LEMMA CountersGoOn ==
  ASSUME NEW bins, Table(bins), NEW count, Counters(count)
  PROVE  Counters(CountedOn(bins, count))
  <1>1. /\ DOMAIN count = SUBSET Byte
        /\ \A b \in SUBSET Byte : count[b] \in Nat
    BY DEF Counters, CounterMod
  <1>2. ASSUME NEW b \in SUBSET Byte
        PROVE  CountedOn(bins, count)[b] \in 0..255
    <2> DEFINE here == Cardinality({i \in DOMAIN bins : bins[i] = b})
    <2>1. CountedOn(bins, count)[b] = (count[b] + here) % 256
      BY <1>1 DEF CountedOn, CounterMod
    <2>2. here \in Nat
      BY CountsInABin
    <2> HIDE DEF here
    <2>3. count[b] + here \in Nat
      BY <1>1, <2>2
    <2> QED
      BY <2>1, <2>3, CountersWrap
  <1> DEFINE after == CountedOn(bins, count)
  <1>3. after = [b \in SUBSET Byte |-> after[b]]
    BY <1>1 DEF CountedOn
  <1>4. \A b \in SUBSET Byte : after[b] \in 0..255
    BY <1>2
  <1> HIDE DEF after
  <1>5. after \in [SUBSET Byte -> 0..255]
    BY <1>3, <1>4
  <1> QED
    BY <1>5 DEF Counters, CounterMod, after

LEMMA FourInARow ==
  ASSUME NEW c \in Nat, NEW a \in Nat, NEW b \in Nat, a < b, b < 4
  PROVE  ((c + a) % 256) % 4 # ((c + b) % 256) % 4
  OBVIOUS

(***************************************************************************)
(* sja1105_static_config_patch_fdb gives the entries of a bin different    *)
(* places, whatever the counters were when it began.                       *)
(***************************************************************************)
THEOREM PatchKeepsApart ==
  ASSUME NEW bins, Table(bins), \A i \in DOMAIN bins : bins[i] \in SUBSET Byte,
         NEW count, Counters(count)
  PROVE  Apart([i \in DOMAIN bins |-> Place(bins, count, i)])
  <1> DEFINE places == [i \in DOMAIN bins |-> Place(bins, count, i)]
  <1>1. \A k \in DOMAIN bins : places[k].bin = bins[k]
    BY DEF Place
  <1>2. ASSUME NEW i \in DOMAIN bins, NEW j \in DOMAIN bins, i < j, bins[i] = bins[j],
               Cardinality({k \in DOMAIN bins : bins[k] = bins[i]}) <= 4
        PROVE  places[i].position # places[j].position
    <2>1. count[bins[i]] \in Nat
      BY DEF Counters, CounterMod
    <2> DEFINE c == count[bins[i]]
               a == Cardinality(Earlier(bins, i))
               b == Cardinality(Earlier(bins, j))
    <2>2. /\ places[i].position = ((c + a) % 256) % 4
          /\ places[j].position = ((c + b) % 256) % 4
      BY <1>2 DEF Place, CounterMod, SJA1105ET_FDB_BIN_SIZE
    <2>3. Cardinality({k \in DOMAIN bins : bins[k] = bins[i]}) \in Nat
      BY CountsInABin
    <2>4. a \in Nat /\ b \in Nat /\ a < b /\ b < 4
      BY <1>2, <2>3, EarlierGrows
    <2> HIDE DEF places, a, b, c
    <2> QED
      BY <2>1, <2>2, <2>4, FourInARow DEF c
  <1>3. SUFFICES ASSUME NEW i \in DOMAIN bins, NEW j \in DOMAIN bins, i # j,
                        places[i].bin = places[j].bin,
                        Cardinality({k \in DOMAIN places : places[k].bin = places[i].bin}) <= 4
                 PROVE  places[i].position # places[j].position
    BY DEF Apart, SJA1105ET_FDB_BIN_SIZE
  <1>4. bins[i] = bins[j]
    BY <1>1, <1>3
  <1>5. {k \in DOMAIN places : places[k].bin = places[i].bin} = {k \in DOMAIN bins : bins[k] = bins[i]}
    BY <1>1, <1>3
  <1>6. i \in Int /\ j \in Int
    BY DEF Table
  <1>7. Cardinality({k \in DOMAIN bins : bins[k] = bins[i]}) <= 4
    BY <1>3, <1>5
  <1>8. CASE i < j
    BY <1>2, <1>4, <1>7, <1>8
  <1>9. CASE j < i
    BY <1>2, <1>4, <1>7, <1>9
  <1> QED
    BY <1>3, <1>6, <1>8, <1>9

(***************************************************************************)
(* Packing never gives two entries the same place, after any edit of the   *)
(* last entry and however often the table is packed.                       *)
(***************************************************************************)
THEOREM EntriesAlwaysKeepApart == Spec => []EntriesKeepApart
  <1>1. EntriesKeepApart
    <2> SUFFICES ASSUME NEW shared \in BOOLEAN, NEW poly \in Polys,
                        NEW places \in Places(buf, shared, poly)
                 PROVE  Apart(places)
      BY DEF EntriesKeepApart
    <2> DEFINE entries == Entries(buf)
               bins == Bins(entries, shared, poly)
    <2>1. DOMAIN entries = 1..Last /\ Last \in Nat
      BY NeighboursAssumption, FS_CardinalityType DEF Entries, Last
    <2>2. DOMAIN bins = 1..Last /\ \A i \in DOMAIN bins : bins[i] \in SUBSET Byte
      BY <2>1 DEF Bins, FdbHash
    <2>3. Table(bins) /\ IsFiniteSet(DOMAIN entries)
      BY <2>1, <2>2, FS_Interval DEF Table
    <2>4. Counters(Counted(entries))
      <3>1. \A b : Cardinality({i \in DOMAIN entries : StoredBin(entries[i]) = b}) \in Nat
        BY <2>3, FS_Subset, FS_CardinalityType
      <3> DEFINE InBin(b) == Cardinality({i \in DOMAIN entries : StoredBin(entries[i]) = b})
      <3>2. \A b : InBin(b) % 256 \in 0..255
        <4> HIDE DEF entries
        <4> QED BY <3>1, CountersWrap
      <3>3. Counted(entries) = [b \in SUBSET Byte |-> InBin(b) % 256]
        BY DEF Counted, CounterMod
      <3> HIDE DEF InBin, entries
      <3> QED
        BY <3>2, <3>3 DEF Counters, CounterMod
    <2>5. Counters(CountedOn(bins, Counted(entries)))
      <3> HIDE DEF bins, entries
      <3> QED
        BY <2>3, <2>4, CountersGoOn
    <2>6. places \in { [i \in DOMAIN bins |-> Place(bins, Counted(entries), i)],
                       [i \in DOMAIN bins |-> Place(bins, CountedOn(bins, Counted(entries)), i)] }
      BY DEF Places
    <2> HIDE DEF bins, entries
    <2> QED
      BY <2>2, <2>3, <2>4, <2>5, <2>6, PatchKeepsApart
  <1> QED
    BY <1>1, PTL
-----------------------------------------------------------------------------
(***************************************************************************)
(* The checksums, for registers of any width and polynomials and messages  *)
(* of any length: what stays in the register is the remainder of a         *)
(* division.  One turn of the register is one step of the division; both   *)
(* are recursive functions, so their steps are taken by induction, in the  *)
(* form of a set.                                                          *)
(***************************************************************************)
Below == {ss \in Nat \X Nat : ss[1] < ss[2]}

LEMMA LeastNumber ==
  ASSUME NEW T \in SUBSET Nat, T # {}
  PROVE  \E n \in T : \A m \in T : n <= m
  <1>1. IsWellFoundedOn(Below, Nat)
    BY NatLessThanWellFounded, Zenon DEF OpToRel, Below
  <1>2. \E n \in T : \A m \in T : ~ (<<m, n>> \in Below)
    BY <1>1, WFMin, Zenon
  <1>3. PICK n \in T : \A m \in T : ~ (<<m, n>> \in Below)
    BY <1>2
  <1>4. ASSUME NEW m \in T, m < n PROVE FALSE
    <2>1. <<m, n>> \in Nat \X Nat /\ <<m, n>>[1] < <<m, n>>[2]
      BY <1>4
    <2>2. <<m, n>> \in Below
      BY <2>1, Zenon DEF Below
    <2> QED BY <1>3, <2>2
  <1> QED BY <1>4

LEMMA SetInduction ==
  ASSUME NEW S, 0 \in S, \A n \in Nat : n \in S => n + 1 \in S
  PROVE  \A n \in Nat : n \in S
  <1> DEFINE T == Nat \ S
  <1> SUFFICES ASSUME T # {} PROVE FALSE
    OBVIOUS
  <1>1. PICK n \in T : \A m \in T : n <= m
    BY LeastNumber
  <1>2. n # 0 /\ n - 1 \in Nat /\ n - 1 \notin T
    BY <1>1
  <1> QED BY <1>1, <1>2

(***************************************************************************)
(* A value that is changed N times has its history.                        *)
(***************************************************************************)
History(c, first, step, N) ==
    /\ DOMAIN c = 0..N
    /\ c[0] = first
    /\ \A k \in 1..N : c[k] = step[k][c[k - 1]]

LEMMA HistoryExists ==
  ASSUME NEW X, NEW first \in X, NEW N \in Nat, NEW step \in [1..N -> [X -> X]]
  PROVE  \E c \in [0..N -> X] : History(c, first, step, N)
  <1> DEFINE T == {n \in Nat : n <= N => \E c \in [0..n -> X] : History(c, first, step, n)}
  <1>1. 0 \in T
    <2>1. [i \in 0..0 |-> first] \in [0..0 -> X] /\ History([i \in 0..0 |-> first], first, step, 0)
      BY DEF History
    <2> QED BY <2>1
  <1>2. ASSUME NEW n \in Nat, n \in T PROVE n + 1 \in T
    <2>0. n + 1 \in Nat
      OBVIOUS
    <2> SUFFICES ASSUME n + 1 <= N
                 PROVE  \E c \in [0..n + 1 -> X] : History(c, first, step, n + 1)
      BY <2>0, Zenon
    <2>1. PICK c \in [0..n -> X] : History(c, first, step, n)
      BY <1>2
    <2>2. step[n + 1][c[n]] \in X
      <3>1. c[n] \in X /\ n + 1 \in 1..N
        BY <2>1
      <3> QED BY <3>1
    <2>3. PICK d : d = [k \in 0..n + 1 |-> IF k = n + 1 THEN step[n + 1][c[n]] ELSE c[k]]
      OBVIOUS
    <2>4. d \in [0..n + 1 -> X]
      BY <2>1, <2>2, <2>3
    <2>5. DOMAIN d = 0..n + 1 /\ d[0] = first
      BY <2>1, <2>3 DEF History
    <2>6. ASSUME NEW k \in 1..n + 1 PROVE d[k] = step[k][d[k - 1]]
      <3>1. CASE k = n + 1
        <4>1. d[k] = step[n + 1][c[n]] /\ d[k - 1] = c[n]
          BY <2>3, <3>1
        <4> QED BY <3>1, <4>1
      <3>2. CASE k \in 1..n
        <4>1. d[k] = c[k] /\ d[k - 1] = c[k - 1]
          BY <2>3, <3>2
        <4>2. c[k] = step[k][c[k - 1]]
          BY <2>1, <3>2 DEF History
        <4> QED BY <4>1, <4>2
      <3> QED BY <3>1, <3>2
    <2> QED BY <2>4, <2>5, <2>6 DEF History
  <1> HIDE DEF T
  <1>3. \A n \in Nat : n \in T
    BY <1>1, <1>2, SetInduction
  <1>4. N \in T
    BY <1>3
  <1> QED BY <1>4 DEF T
(***************************************************************************)
(* Polynomials over {0, 1}, by their exponents.                            *)
(***************************************************************************)
Times(p, n) == {e + n : e \in p}        \* p * x^n

LEMMA Timed ==
  ASSUME NEW p \in SUBSET Int, NEW n \in Int, NEW x \in Int
  PROVE  x \in Times(p, n) <=> x - n \in p
  <1>1. ASSUME NEW e \in p, x = e + n PROVE x - n = e
    BY <1>1
  <1>2. (x - n) + n = x
    OBVIOUS
  <1> QED BY <1>1, <1>2 DEF Times

LEMMA TimesTyped ==
  ASSUME NEW p \in SUBSET Int, NEW n \in Int
  PROVE  Times(p, n) \in SUBSET Int
  BY DEF Times

LEMMA Xored ==
  ASSUME NEW a, NEW b, NEW x
  PROVE  x \in Xor(a, b) <=> ~ (x \in a <=> x \in b)
  BY DEF Xor

LEMMA Turned ==
  ASSUME NEW w \in Nat \ {0}, NEW crc \in SUBSET (0..w - 1), NEW poly \in SUBSET (0..w - 1),
         NEW bit \in BOOLEAN
  PROVE  /\ Turn(crc, bit, poly, w) \in SUBSET (0..w - 1)
         /\ \A x \in Int :
              x \in Turn(crc, bit, poly, w) <=>
              ~ ((x - 1 \in crc /\ x # w) <=> (~ (w - 1 \in crc <=> bit) /\ x \in poly))
  <1>1. ShiftLeft(crc, w) \in SUBSET (0..w - 1)
    BY DEF ShiftLeft
  <1>2. Turn(crc, bit, poly, w) \in SUBSET (0..w - 1)
    BY <1>1 DEF Turn, Xor
  <1> DEFINE fed == ~ (w - 1 \in crc <=> bit)
  <1>3. ((w - 1 \in crc) # bit) <=> fed
    <2>1. (w - 1 \in crc) \in BOOLEAN
      OBVIOUS
    <2> QED BY <2>1
  <1>4. ASSUME NEW x \in Int
        PROVE  x \in Turn(crc, bit, poly, w) <=>
                 ~ ((x - 1 \in crc /\ x # w) <=> (fed /\ x \in poly))
    <2>1. x \in ShiftLeft(crc, w) <=> x - 1 \in crc /\ x # w
      <3>1. x \in {b + 1 : b \in crc} <=> x - 1 \in crc
        <4>1. {b + 1 : b \in crc} = Times(crc, 1)
          BY DEF Times
        <4> QED BY <4>1, Timed
      <3> QED BY <3>1 DEF ShiftLeft
    <2>2. x \in Turn(crc, bit, poly, w) <=> ~ (x \in ShiftLeft(crc, w) <=> (fed /\ x \in poly))
      <3> HIDE DEF fed
      <3>1. CASE fed
        <4>1. Turn(crc, bit, poly, w) = Xor(ShiftLeft(crc, w), poly)
          BY <1>3, <3>1, Zenon DEF Turn
        <4> QED BY <3>1, <4>1, Xored
      <3>2. CASE ~ fed
        <4>1. Turn(crc, bit, poly, w) = ShiftLeft(crc, w)
          BY <1>3, <3>2, Zenon DEF Turn
        <4> QED BY <3>2, <4>1
      <3> QED BY <3>1, <3>2
    <2>3. x \in Turn(crc, bit, poly, w) <=>
            ~ ((x - 1 \in crc /\ x # w) <=> (fed /\ x \in poly))
      <3> HIDE DEF fed
      <3> QED BY <2>1, <2>2
    <2> QED BY <2>3
  <1> QED BY <1>2, <1>4 DEF fed

(***************************************************************************)
(* One turn of the register is one step of the division.  The register     *)
(* stands for its contents times x^s, over the bits m still to come; the   *)
(* next of them has the exponent w + s - 1.                                *)
(***************************************************************************)
Divided(rest, g, w, d) == IF d \in rest THEN Subtract(rest, g, d - w) ELSE rest

TurnDivides(w, s, crc, poly, bit, m) ==
    Divided(Xor(Times(crc, s), m \cup {e \in {w + s - 1} : bit}), {w} \cup poly, w, w + s - 1)
      = Xor(Times(Turn(crc, bit, poly, w), s - 1), m)

LEMMA OneTurn ==
  ASSUME NEW w \in Nat \ {0}, NEW s \in Nat \ {0},
         NEW crc \in SUBSET (0..w - 1), NEW poly \in SUBSET (0..w - 1), NEW bit \in BOOLEAN,
         NEW m \in SUBSET (0..w + s - 2)
  PROVE  TurnDivides(w, s, crc, poly, bit, m)
  <1> DEFINE next == {e \in {w + s - 1} : bit}
             p == Xor(Times(crc, s), m \cup next)
             d == w + s - 1
             turned == Turn(crc, bit, poly, w)
             fed == ~ (w - 1 \in crc <=> bit)
  <1>1. crc \in SUBSET Int /\ poly \in SUBSET Int
    OBVIOUS
  <1>2. /\ turned \in SUBSET (0..w - 1)
        /\ \A y \in Int : y \in turned <=> ~ ((y - 1 \in crc /\ y # w) <=> (fed /\ y \in poly))
    BY Turned
  <1>3. crc \in SUBSET Int /\ poly \in SUBSET Int /\ turned \in SUBSET Int
    <2> HIDE DEF turned
    <2> QED BY <1>1, <1>2
  <1>4. d \in Int /\ d - w = s - 1 /\ s - 1 \in Nat
    OBVIOUS
  <1>5. Times(crc, s) \in SUBSET Int /\ Times(turned, s - 1) \in SUBSET Int
    BY <1>3, TimesTyped
  <1>6. p \in SUBSET Int
    <2>1. m \cup next \in SUBSET Int
      <3>1. m \in SUBSET Int /\ next \in SUBSET {w + s - 1} /\ w + s - 1 \in Int
        OBVIOUS
      <3> HIDE DEF next
      <3> QED BY <3>1
    <2> HIDE DEF next
    <2> QED BY <1>5, <2>1 DEF Xor
  <1>7. ASSUME NEW x \in Int
        PROVE  x \in p <=> ~ (x - s \in crc <=> (x \in m \/ (x = d /\ bit)))
    <2>1. x \in Times(crc, s) <=> x - s \in crc
      BY <1>3, Timed
    <2>2. x \in m \cup next <=> x \in m \/ (x = d /\ bit)
      OBVIOUS
    <2> QED BY <2>1, <2>2, Xored
  <1>8. d \in p <=> fed
    <2>1. d \notin m /\ d - s = w - 1
      OBVIOUS
    <2> QED BY <1>4, <1>7, <2>1
  <1>9. ASSUME NEW x \in Int
        PROVE  x \in Subtract(p, {w} \cup poly, s - 1) <=>
                 ~ (x \in p <=> (x = d \/ x - (s - 1) \in poly))
    <2>1. Subtract(p, {w} \cup poly, s - 1) = Xor(p, Times({w} \cup poly, s - 1))
      BY DEF Subtract, Times
    <2>2. x \in Times({w} \cup poly, s - 1) <=> x = d \/ x - (s - 1) \in poly
      <3>1. {w} \cup poly \in SUBSET Int
        OBVIOUS
      <3>2. x \in Times({w} \cup poly, s - 1) <=> x - (s - 1) \in {w} \cup poly
        BY <1>4, <3>1, Timed
      <3> QED BY <3>2
    <2> QED BY <2>1, <2>2, Xored
  <1>10. ASSUME NEW x \in Int
        PROVE  x \in Xor(Times(turned, s - 1), m) <=>
                 ~ (~ ((x - s \in crc /\ x # d) <=> (fed /\ x - (s - 1) \in poly)) <=> x \in m)
    <2>1. x \in Times(turned, s - 1) <=> x - (s - 1) \in turned
      <3>1. turned \in SUBSET Int
        BY <1>3
      <3> HIDE DEF turned
      <3> QED BY <1>4, <3>1, Timed
    <2>2. x - (s - 1) \in turned <=>
            ~ ((x - s \in crc /\ x # d) <=> (fed /\ x - (s - 1) \in poly))
      <3>1. x - (s - 1) \in Int /\ (x - (s - 1)) - 1 = x - s /\ (x - (s - 1) # w <=> x # d)
        OBVIOUS
      <3>2. x - (s - 1) \in turned <=>
              ~ (((x - (s - 1)) - 1 \in crc /\ x - (s - 1) # w) <=> (fed /\ x - (s - 1) \in poly))
        <4> HIDE DEF fed, turned
        <4> QED BY <1>2, <3>1
      <3> HIDE DEF fed, turned, d
      <3> QED BY <3>1, <3>2
    <2> QED BY <2>1, <2>2, Xored
  <1>11. ASSUME NEW x \in Int
        PROVE  x \in Divided(p, {w} \cup poly, w, d) <=> x \in Xor(Times(turned, s - 1), m)
    <2>1. x \in Divided(p, {w} \cup poly, w, d) <=>
            ~ (x \in p <=> (fed /\ (x = d \/ x - (s - 1) \in poly)))
      <3> HIDE DEF p, d
      <3>1. CASE d \in p
        <4>1. Divided(p, {w} \cup poly, w, d) = Subtract(p, {w} \cup poly, s - 1)
          BY <1>4, <3>1, Zenon DEF Divided
        <4> HIDE DEF fed
        <4>2. fed
          BY <1>8, <3>1, Zenon
        <4> QED BY <1>9, <4>1, <4>2
      <3>2. CASE d \notin p
        <4>1. Divided(p, {w} \cup poly, w, d) = p
          BY <3>2, Zenon DEF Divided
        <4> HIDE DEF fed
        <4>2. ~ fed
          BY <1>8, <3>2, Zenon
        <4> QED BY <4>1, <4>2
      <3> QED BY <3>1, <3>2
    <2>2. x = d => x \notin m /\ (x - s \in crc <=> w - 1 \in crc) /\ x - (s - 1) \notin poly
      OBVIOUS
    <2> HIDE DEF p, d, turned
    <2>3. CASE x = d
      BY <1>7, <1>10, <2>1, <2>2, <2>3
    <2>4. CASE x # d
      BY <1>7, <1>10, <2>1, <2>4
    <2> QED BY <2>3, <2>4
  <1>12. Divided(p, {w} \cup poly, w, d) \in SUBSET Int
    BY <1>4, <1>6 DEF Divided, Subtract, Xor
  <1>13. Xor(Times(turned, s - 1), m) \in SUBSET Int
    <2>1. m \in SUBSET Int
      OBVIOUS
    <2> HIDE DEF turned
    <2> QED BY <1>5, <2>1 DEF Xor
  <1> QED
    BY <1>11, <1>12, <1>13 DEF TurnDivides
LEMMA HistoryTyped ==
  ASSUME NEW X, NEW N \in Nat, NEW c, c[0] \in X,
         \A k \in 1..N : c[k - 1] \in X => c[k] \in X
  PROVE  \A k \in 0..N : c[k] \in X
  <1> DEFINE T == {n \in Nat : n <= N => c[n] \in X}
  <1>3. 0 \in T
    OBVIOUS
  <1>4. ASSUME NEW n \in Nat, n \in T PROVE n + 1 \in T
    <2>0. n + 1 \in Nat
      OBVIOUS
    <2> SUFFICES ASSUME n + 1 <= N PROVE c[n + 1] \in X
      BY <2>0, Zenon
    <2>1. n + 1 \in 1..N /\ (n + 1) - 1 = n /\ c[n] \in X
      BY <1>4
    <2> QED BY <2>1
  <1> HIDE DEF T
  <1>5. \A n \in Nat : n \in T
    BY <1>3, <1>4, SetInduction
  <1>6. ASSUME NEW k \in 0..N PROVE c[k] \in X
    <2>1. k \in T /\ k <= N
      BY <1>5
    <2> QED BY <2>1 DEF T
  <1> QED BY <1>6

(***************************************************************************)
(* The register, turn by turn.                                             *)
(***************************************************************************)
Register(crc, seed, bits, n, poly, w) ==
    crc = [k \in 0..n |-> IF k = 0 THEN seed ELSE Turn(crc[k - 1], bits[k], poly, w)]

Turns(crc, seed, bits, N, poly, w) ==
    /\ crc \in [0..N -> SUBSET (0..w - 1)]
    /\ crc[0] = seed
    /\ \A k \in 1..N : crc[k] = Turn(crc[k - 1], bits[k], poly, w)
    /\ Shifted(seed, bits, N, poly, w) = crc[N]

LEMMA TurnByTurn ==
  ASSUME NEW w \in Nat \ {0}, NEW N \in Nat, NEW seed \in SUBSET (0..w - 1),
         NEW poly \in SUBSET (0..w - 1), NEW bits \in [1..N -> BOOLEAN]
  PROVE  \E crc : Turns(crc, seed, bits, N, poly, w)
  <1> DEFINE X == SUBSET (0..w - 1)
             step == [k \in 1..N |-> [x \in X |-> Turn(x, bits[k], poly, w)]]
             crc == CHOOSE c : Register(c, seed, bits, N, poly, w)
  <1>1. ASSUME NEW x \in X, NEW k \in 1..N
        PROVE  Turn(x, bits[k], poly, w) \in X
    <2>1. bits[k] \in BOOLEAN
      OBVIOUS
    <2> QED BY <2>1, Turned
  <1>2. step \in [1..N -> [X -> X]]
    <2> HIDE DEF X
    <2> QED BY <1>1
  <1>3. \E c : Register(c, seed, bits, N, poly, w)
    <2>1. PICK c \in [0..N -> X] : History(c, seed, step, N)
      <3> HIDE DEF step
      <3>1. seed \in X
        OBVIOUS
      <3> HIDE DEF X
      <3> QED BY <1>2, <3>1, HistoryExists
    <2>2. ASSUME NEW k \in 1..N
          PROVE  c[k] = Turn(c[k - 1], bits[k], poly, w)
      <3>1. c[k] = step[k][c[k - 1]]
        <4> HIDE DEF step, X
        <4> QED BY <2>1 DEF History
      <3>2. c[k - 1] \in X
        <4> HIDE DEF step, X
        <4> QED BY <2>1
      <3> HIDE DEF X
      <3> QED BY <3>1, <3>2
    <2>3. c[0] = seed
      <3> HIDE DEF step, X
      <3> QED BY <2>1 DEF History
    <2>4. ASSUME NEW k \in 0..N
          PROVE  c[k] = IF k = 0 THEN seed ELSE Turn(c[k - 1], bits[k], poly, w)
      <3> HIDE DEF step, X
      <3> QED BY <2>2, <2>3
    <2> HIDE DEF step, X
    <2>5. c = [k \in 0..N |-> c[k]]
      BY <2>1
    <2>6. c = [k \in 0..N |-> IF k = 0 THEN seed ELSE Turn(c[k - 1], bits[k], poly, w)]
      BY <2>4, <2>5
    <2> QED BY <2>6 DEF Register
  <1>4. Register(crc, seed, bits, N, poly, w)
    BY <1>3
  <1>5. Shifted(seed, bits, N, poly, w) = crc[N]
    BY DEF Shifted, Register
  <1> HIDE DEF crc, step
  <1>6. DOMAIN crc = 0..N /\ crc[0] = seed
    BY <1>4 DEF Register
  <1>7. ASSUME NEW k \in 1..N
        PROVE  crc[k] = Turn(crc[k - 1], bits[k], poly, w)
    <2>1. k \in 0..N /\ k # 0
      OBVIOUS
    <2>2. crc[k] = IF k = 0 THEN seed ELSE Turn(crc[k - 1], bits[k], poly, w)
      BY <1>4, <2>1 DEF Register
    <2> QED BY <2>1, <2>2
  <1>8. \A k \in 0..N : crc[k] \in X
    <2>1. crc[0] \in X
      BY <1>6
    <2> HIDE DEF X
    <2>2. ASSUME NEW k \in 1..N, crc[k - 1] \in X PROVE crc[k] \in X
      BY <1>1, <1>7, <2>2
    <2> QED BY <2>1, <2>2, HistoryTyped
  <1>9. crc = [k \in 0..N |-> crc[k]]
    BY <1>4, <1>6 DEF Register
  <1>10. crc \in [0..N -> X]
    <2> HIDE DEF X
    <2> QED BY <1>8, <1>9
  <1> QED BY <1>5, <1>6, <1>7, <1>10 DEF Turns

(***************************************************************************)
(* The division, exponent by exponent.                                     *)
(***************************************************************************)
Division(left, p, g, deg, top) ==
    left = [d \in deg..top + 1 |->
              IF d = top + 1 THEN p ELSE Divided(left[d + 1], g, deg, d)]

LEMMA DividedTyped ==
  ASSUME NEW rest \in SUBSET Int, NEW g \in SUBSET Int, NEW w \in Int, NEW d \in Int
  PROVE  Divided(rest, g, w, d) \in SUBSET Int
  <1>1. Subtract(rest, g, d - w) = Xor(rest, Times(g, d - w))
    BY DEF Subtract, Times
  <1>2. Times(g, d - w) \in SUBSET Int
    BY TimesTyped
  <1> QED BY <1>1, <1>2 DEF Divided, Xor

Divides(rest, p, g, deg, N) ==
    /\ rest \in [0..N -> SUBSET Int]
    /\ rest[0] = p
    /\ \A k \in 1..N : rest[k] = Divided(rest[k - 1], g, deg, deg + N - k)
    /\ Remainder(p, g, deg, deg + N - 1) = rest[N]

LEMMA ExponentByExponent ==
  ASSUME NEW deg \in Nat, NEW N \in Nat, NEW p \in SUBSET Int, NEW g \in SUBSET Int
  PROVE  \E rest : Divides(rest, p, g, deg, N)
  <1> DEFINE X == SUBSET Int
             top == deg + N - 1
             step == [k \in 1..N |-> [x \in X |-> Divided(x, g, deg, deg + N - k)]]
             left == CHOOSE l : Division(l, p, g, deg, top)
  <1>1. ASSUME NEW x \in X, NEW k \in 1..N
        PROVE  Divided(x, g, deg, deg + N - k) \in X
    <2>1. deg + N - k \in Int
      OBVIOUS
    <2> QED BY <2>1, DividedTyped
  <1>2. step \in [1..N -> [X -> X]]
    <2> HIDE DEF X
    <2> QED BY <1>1
  <1>3. \E l : Division(l, p, g, deg, top)
    <2>1. PICK c \in [0..N -> X] : History(c, p, step, N)
      <3> HIDE DEF step
      <3>1. p \in X
        OBVIOUS
      <3> HIDE DEF X
      <3> QED BY <1>2, <3>1, HistoryExists
    <2>2. ASSUME NEW k \in 1..N
          PROVE  c[k] = Divided(c[k - 1], g, deg, deg + N - k)
      <3>1. c[k] = step[k][c[k - 1]]
        <4> HIDE DEF step, X
        <4> QED BY <2>1 DEF History
      <3>2. c[k - 1] \in X
        <4> HIDE DEF step, X
        <4> QED BY <2>1
      <3> HIDE DEF X
      <3> QED BY <3>1, <3>2
    <2>3. c[0] = p
      <3> HIDE DEF step, X
      <3> QED BY <2>1 DEF History
    <2> HIDE DEF step, X
    <2>4. PICK l : l = [d \in deg..top + 1 |-> c[deg + N - d]]
      OBVIOUS
    <2>5. ASSUME NEW d \in deg..top + 1
          PROVE  l[d] = IF d = top + 1 THEN p ELSE Divided(l[d + 1], g, deg, d)
      <3>1. CASE d = top + 1
        <4>1. l[d] = c[deg + N - d] /\ deg + N - d = 0
          BY <2>4, <3>1
        <4> QED BY <2>3, <3>1, <4>1
      <3>2. CASE d # top + 1
        <4>1. /\ d + 1 \in deg..top + 1
              /\ deg + N - d \in 1..N
              /\ deg + N - (d + 1) = (deg + N - d) - 1
              /\ deg + N - (deg + N - d) = d
          BY <3>2
        <4>2. l[d] = c[deg + N - d] /\ l[d + 1] = c[(deg + N - d) - 1]
          BY <2>4, <4>1
        <4>3. c[deg + N - d] = Divided(c[(deg + N - d) - 1], g, deg, d)
          BY <2>2, <4>1
        <4> QED BY <3>2, <4>2, <4>3
      <3> QED BY <3>1, <3>2
    <2>6. l = [d \in deg..top + 1 |-> l[d]]
      BY <2>4
    <2> HIDE DEF top
    <2>7. l = [d \in deg..top + 1 |-> IF d = top + 1 THEN p ELSE Divided(l[d + 1], g, deg, d)]
      BY <2>5, <2>6
    <2> QED BY <2>7 DEF Division
  <1>4. Division(left, p, g, deg, top)
    BY <1>3
  <1>5. Remainder(p, g, deg, top) = left[deg]
    BY DEF Remainder, Division, Divided
  <1> HIDE DEF left, step
  <1>6. ASSUME NEW d \in deg..top + 1
        PROVE  left[d] = IF d = top + 1 THEN p ELSE Divided(left[d + 1], g, deg, d)
    BY <1>4 DEF Division
  <1> DEFINE rest == [k \in 0..N |-> left[deg + N - k]]
  <1>7. rest[0] = p /\ rest[N] = left[deg]
    <2>1. /\ top + 1 \in deg..top + 1 /\ deg + N - 0 = top + 1
          /\ deg + N - N = deg /\ 0 \in 0..N /\ N \in 0..N
      OBVIOUS
    <2>2. left[top + 1] = p
      BY <1>6, <2>1, Zenon
    <2> QED BY <2>1, <2>2
  <1>8. ASSUME NEW k \in 1..N
        PROVE  rest[k] = Divided(rest[k - 1], g, deg, deg + N - k)
    <2>1. /\ deg + N - k \in deg..top + 1 /\ deg + N - k # top + 1
          /\ (deg + N - k) + 1 = deg + N - (k - 1)
          /\ k \in 0..N /\ k - 1 \in 0..N
      OBVIOUS
    <2>2. left[deg + N - k] = Divided(left[deg + N - (k - 1)], g, deg, deg + N - k)
      BY <1>6, <2>1, Zenon
    <2> QED BY <2>1, <2>2
  <1> HIDE DEF top
  <1>9. \A k \in 0..N : rest[k] \in X
    <2>1. rest[0] \in X
      BY <1>7
    <2>2. ASSUME NEW k \in 1..N, rest[k - 1] \in X PROVE rest[k] \in X
      <3> HIDE DEF rest, X
      <3> QED BY <1>1, <1>8, <2>2
    <2> HIDE DEF X, rest
    <2> QED BY <2>1, <2>2, HistoryTyped
  <1>10. rest \in [0..N -> X]
    <2> HIDE DEF X
    <2> QED BY <1>9
  <1> HIDE DEF rest
  <1> QED BY <1>5, <1>7, <1>8, <1>10 DEF top, Divides
(***************************************************************************)
(* What the bits after the k-th contribute to the polynomial divided.      *)
(***************************************************************************)
Ahead(bits, N, w, k) == {e \in w..w + N - k - 1 : bits[w + N - e]}

LEMMA NextOfThem ==
  ASSUME NEW w \in Nat \ {0}, NEW N \in Nat, NEW bits \in [1..N -> BOOLEAN],
         NEW k \in Nat, k + 1 <= N
  PROVE  /\ Ahead(bits, N, w, k)
              = Ahead(bits, N, w, k + 1) \cup {e \in {w + (N - k) - 1} : bits[k + 1]}
         /\ Ahead(bits, N, w, k + 1) \in SUBSET (0..w + (N - k) - 2)
  <1>1. /\ w + N - k - 1 = w + (N - k) - 1
        /\ w + N - (k + 1) - 1 = w + (N - k) - 2
        /\ w + N - (w + (N - k) - 1) = k + 1
        /\ w..w + (N - k) - 1 = (w..w + (N - k) - 2) \cup {w + (N - k) - 1}
    OBVIOUS
  <1>2. w..w + (N - k) - 2 \subseteq 0..w + (N - k) - 2
    OBVIOUS
  <1> QED BY <1>1, <1>2 DEF Ahead

(***************************************************************************)
(* The shift registers of lib/gtable divide, whatever their width, their   *)
(* first contents, the polynomial and the message.                         *)
(***************************************************************************)
THEOREM ShiftRegisterDivides ==
  ASSUME NEW w \in Nat \ {0}, NEW N \in Nat, NEW seed \in SUBSET (0..w - 1),
         NEW poly \in SUBSET (0..w - 1), NEW bits \in [1..N -> BOOLEAN]
  PROVE  /\ Shifted(seed, bits, N, poly, w) \in SUBSET (0..w - 1)
         /\ Shifted(seed, bits, N, poly, w)
              = Remainder(Xor(Times(seed, N), Ahead(bits, N, w, 0)), {w} \cup poly, w, w + N - 1)
  <1> DEFINE p == Xor(Times(seed, N), Ahead(bits, N, w, 0))
             g == {w} \cup poly
  <1>1. PICK crc : Turns(crc, seed, bits, N, poly, w)
    BY TurnByTurn
  <1>2. /\ crc \in [0..N -> SUBSET (0..w - 1)]
        /\ crc[0] = seed
        /\ \A k \in 1..N : crc[k] = Turn(crc[k - 1], bits[k], poly, w)
        /\ Shifted(seed, bits, N, poly, w) = crc[N]
    BY <1>1 DEF Turns
  <1>3. p \in SUBSET Int /\ g \in SUBSET Int
    <2>1. seed \in SUBSET Int /\ Times(seed, N) \in SUBSET Int
      BY TimesTyped
    <2>2. Ahead(bits, N, w, 0) \in SUBSET Int
      BY DEF Ahead
    <2> QED BY <2>1, <2>2 DEF Xor
  <1> HIDE DEF p, g
  <1>4. PICK rest : Divides(rest, p, g, w, N)
    BY <1>3, ExponentByExponent
  <1>5. /\ rest \in [0..N -> SUBSET Int]
        /\ rest[0] = p
        /\ \A k \in 1..N : rest[k] = Divided(rest[k - 1], g, w, w + N - k)
        /\ Remainder(p, g, w, w + N - 1) = rest[N]
    BY <1>4 DEF Divides
  <1> DEFINE Stands(k) == rest[k] = Xor(Times(crc[k], N - k), Ahead(bits, N, w, k))
             T == {k \in Nat : k <= N => Stands(k)}
  <1>6. 0 \in T
    <2>1. N - 0 = N
      OBVIOUS
    <2>2. rest[0] = Xor(Times(crc[0], N - 0), Ahead(bits, N, w, 0))
      BY <1>2, <1>5, <2>1, Zenon DEF p
    <2> QED BY <2>2
  <1>7. ASSUME NEW k \in Nat, k \in T PROVE k + 1 \in T
    <2>0. k + 1 \in Nat
      OBVIOUS
    <2> SUFFICES ASSUME k + 1 <= N PROVE Stands(k + 1)
      BY <2>0, Zenon
    <2>1. rest[k] = Xor(Times(crc[k], N - k), Ahead(bits, N, w, k))
      BY <1>7
    <2>2. /\ k + 1 \in 1..N /\ (k + 1) - 1 = k /\ k \in 0..N
          /\ N - k \in Nat \ {0} /\ (N - k) - 1 = N - (k + 1)
          /\ w + N - (k + 1) = w + (N - k) - 1
      OBVIOUS
    <2>3. crc[k] \in SUBSET (0..w - 1) /\ bits[k + 1] \in BOOLEAN
      BY <1>2, <2>2
    <2>4. crc[k + 1] = Turn(crc[k], bits[k + 1], poly, w)
      BY <1>2, <2>2, Zenon
    <2>5. rest[k + 1] = Divided(rest[k], g, w, w + (N - k) - 1)
      BY <1>5, <2>2, Zenon
    <2> HIDE DEF T
    <2>6. /\ Ahead(bits, N, w, k)
               = Ahead(bits, N, w, k + 1) \cup {e \in {w + (N - k) - 1} : bits[k + 1]}
          /\ Ahead(bits, N, w, k + 1) \in SUBSET (0..w + (N - k) - 2)
      BY NextOfThem
    <2>7. Divided(Xor(Times(crc[k], N - k),
                      Ahead(bits, N, w, k + 1) \cup {e \in {w + (N - k) - 1} : bits[k + 1]}),
                  {w} \cup poly, w, w + (N - k) - 1)
            = Xor(Times(Turn(crc[k], bits[k + 1], poly, w), (N - k) - 1), Ahead(bits, N, w, k + 1))
      <3>1. TurnDivides(w, N - k, crc[k], poly, bits[k + 1], Ahead(bits, N, w, k + 1))
        <4> PICK s, r, b, m : s = N - k /\ r = crc[k] /\ b = bits[k + 1] /\ m = Ahead(bits, N, w, k + 1)
          OBVIOUS
        <4>1. /\ w \in Nat \ {0} /\ poly \in SUBSET (0..w - 1)
              /\ s \in Nat \ {0} /\ m \in SUBSET (0..w + s - 2)
              /\ r \in SUBSET (0..w - 1) /\ b \in BOOLEAN
          BY <2>2, <2>3, <2>6, Zenon
        <4>2. TurnDivides(w, s, r, poly, b, m)
          BY ONLY <4>1, OneTurn
        <4> QED BY <4>2
      <3> QED BY <3>1 DEF TurnDivides
    <2>8. rest[k + 1] = Xor(Times(crc[k + 1], N - (k + 1)), Ahead(bits, N, w, k + 1))
      BY <2>1, <2>2, <2>4, <2>5, <2>6, <2>7, Zenon DEF g
    <2> QED BY <2>8
  <1> HIDE DEF T
  <1>8. \A k \in Nat : k \in T
    BY <1>6, <1>7, SetInduction
  <1>9. rest[N] = Xor(Times(crc[N], N - N), Ahead(bits, N, w, N))
    <2>1. N \in T /\ N <= N
      BY <1>8
    <2> QED BY <2>1 DEF T
  <1>10. Times(crc[N], N - N) = crc[N]
    <2>1. N - N = 0 /\ crc[N] \in SUBSET Int
      BY <1>2
    <2> QED BY <2>1 DEF Times
  <1>11. Ahead(bits, N, w, N) = {}
    BY DEF Ahead
  <1>12. rest[N] = crc[N]
    BY <1>9, <1>10, <1>11 DEF Xor
  <1>13. crc[N] \in SUBSET (0..w - 1)
    BY <1>2
  <1> QED BY <1>2, <1>5, <1>12, <1>13, Zenon DEF p, g
(***************************************************************************)
(* The forwarding table: the hash of an address is the remainder by which  *)
(* the chip looks for it, for every address and polynomial.                *)
(***************************************************************************)
LEMMA HashIsRemainder ==
  ASSUME NEW vlanid \in SUBSET (0..11), NEW macaddr \in SUBSET (0..47), NEW poly \in SUBSET Byte
  PROVE  FdbHash(vlanid, macaddr, poly)
           = Remainder({b + 56 : b \in vlanid} \cup {b + 8 : b \in macaddr},
                       {0, 8} \cup {b + 1 : b \in poly}, 8, 71)
  <1> DEFINE input == {b + 48 : b \in vlanid} \cup macaddr
             bits == [n \in 1..64 |-> 64 - n \in input]
             normal == ({0} \cup ShiftLeft(poly, 9)) \cap Byte
  <1>1. input \in SUBSET (0..63)
    <2>1. ASSUME NEW b \in vlanid PROVE b + 48 \in 0..63
      OBVIOUS
    <2>2. macaddr \in SUBSET (0..63)
      OBVIOUS
    <2> QED BY <2>1, <2>2
  <1>2. bits \in [1..64 -> BOOLEAN]
    <2> HIDE DEF input
    <2> QED OBVIOUS
  <1>3. normal \in SUBSET (0..8 - 1)
    BY DEF Byte
  <1>4. /\ Shifted({}, bits, 64, normal, 8) \in SUBSET (0..8 - 1)
        /\ Shifted({}, bits, 64, normal, 8)
             = Remainder(Xor(Times({}, 64), Ahead(bits, 64, 8, 0)), {8} \cup normal, 8, 8 + 64 - 1)
    <2>1. 8 \in Nat \ {0} /\ 64 \in Nat /\ {} \in SUBSET (0..8 - 1)
      OBVIOUS
    <2> HIDE DEF bits, normal
    <2> QED BY <1>2, <1>3, <2>1, ShiftRegisterDivides
  <1>5. {8} \cup normal = {0, 8} \cup {b + 1 : b \in poly}
    <2>1. \A b \in poly : b \in 0..7
      BY DEF Byte
    <2> QED BY <2>1 DEF Byte, ShiftLeft
  <1>6. Ahead(bits, 64, 8, 0) = {b + 8 : b \in input}
    <2>1. ASSUME NEW e \in 8..71 PROVE bits[8 + 64 - e] <=> e - 8 \in input
      <3>1. 8 + 64 - e \in 1..64 /\ 64 - (8 + 64 - e) = e - 8
        OBVIOUS
      <3> HIDE DEF input
      <3> QED BY <3>1
    <2>2. Ahead(bits, 64, 8, 0) = {e \in 8..71 : e - 8 \in input}
      <3>1. 8 + 64 - 0 - 1 = 71
        OBVIOUS
      <3> HIDE DEF bits, input
      <3> QED BY <2>1, <3>1 DEF Ahead
    <2> HIDE DEF bits, input
    <2>3. ASSUME NEW b \in input PROVE b + 8 \in 8..71 /\ (b + 8) - 8 = b
      BY <1>1
    <2>4. ASSUME NEW e \in 8..71 PROVE e = (e - 8) + 8
      OBVIOUS
    <2> QED BY <2>2, <2>3, <2>4
  <1>7. {b + 8 : b \in input} = {b + 56 : b \in vlanid} \cup {b + 8 : b \in macaddr}
    <2>1. ASSUME NEW b \in vlanid PROVE (b + 48) + 8 = b + 56
      OBVIOUS
    <2> QED BY <2>1
  <1>8. Xor(Times({}, 64), Ahead(bits, 64, 8, 0)) = Ahead(bits, 64, 8, 0)
    BY DEF Xor, Times
  <1>9. FdbHash(vlanid, macaddr, poly) = Shifted({}, bits, 64, normal, 8) \cap Byte
    BY DEF FdbHash
  <1>10. 8 + 64 - 1 = 71 /\ 0..8 - 1 = Byte
    BY DEF Byte
  <1> HIDE DEF bits, normal, input
  <1> QED BY <1>4, <1>5, <1>6, <1>7, <1>8, <1>9, <1>10

LEMMA AddressesOfEntries ==
  ASSUME NEW buffer, NEW i \in 1..Last
  PROVE  /\ Entries(buffer)[i].vlanid \in SUBSET (0..11)
         /\ Entries(buffer)[i].macaddr \in SUBSET (0..47)
  <1>1. Unpacked(buffer, 95, 84) \in SUBSET (0..11)
    BY DEF Unpacked, Boxes, BoxBits
  <1>2. Unpacked(buffer, 83, 36) \in SUBSET (0..47)
    BY DEF Unpacked, Boxes, BoxBits
  <1>3. Last \in Nat /\ DOMAIN Neighbours = 1..Last - 1
    BY NeighboursAssumption, FS_CardinalityType DEF Last
  <1>4. CASE i = Last
    BY <1>1, <1>2, <1>4 DEF Entries, Edited
  <1>5. CASE i # Last
    <2>1. i \in DOMAIN Neighbours /\ Entries(buffer)[i] = Neighbours[i]
      BY <1>3, <1>5 DEF Entries
    <2> QED BY <2>1, NeighboursAssumption
  <1> QED BY <1>4, <1>5

(***************************************************************************)
(* sja1105_static_config_patch_fdb puts every entry of a table of any      *)
(* length into the bin where the chip looks for its address, whatever      *)
(* polynomial is set, after any edit and at every packing.                 *)
(***************************************************************************)
THEOREM EntriesAreInTheirBins == Spec => []EveryEntryInItsBin
  <1>1. EveryEntryInItsBin
    <2> SUFFICES ASSUME NEW shared \in BOOLEAN, NEW poly \in Polys,
                        NEW places \in Places(buf, shared, poly), NEW i \in DOMAIN places
                 PROVE  places[i].bin = ChipBin(Entries(buf)[i], shared, poly)
      BY DEF EveryEntryInItsBin
    <2> DEFINE entries == Entries(buf)
               bins == Bins(entries, shared, poly)
               vlanid == IF shared THEN {} ELSE entries[i].vlanid
    <2>1. DOMAIN entries = 1..Last /\ DOMAIN bins = 1..Last
      BY DEF Entries, Bins
    <2>2. PICK count : places = [j \in DOMAIN bins |-> Place(bins, count, j)]
      BY DEF Places
    <2>3. i \in 1..Last /\ places[i].bin = bins[i]
      BY <2>1, <2>2 DEF Place
    <2>4. bins[i] = FdbHash(vlanid, entries[i].macaddr, poly)
      BY <2>1, <2>3 DEF Bins
    <2>5. /\ vlanid \in SUBSET (0..11)
          /\ entries[i].macaddr \in SUBSET (0..47)
          /\ poly \in SUBSET Byte
      BY <2>3, AddressesOfEntries, PolysAssumption
    <2>6. ChipBin(entries[i], shared, poly)
            = Remainder({b + 56 : b \in vlanid} \cup {b + 8 : b \in entries[i].macaddr},
                        {0, 8} \cup {b + 1 : b \in poly}, 8, 71)
      BY DEF ChipBin
    <2> HIDE DEF entries, bins, vlanid
    <2> QED BY <2>3, <2>4, <2>5, <2>6, HashIsRemainder DEF entries
  <1> QED BY <1>1, PTL
(***************************************************************************)
(* The CRC of a table: bit n + 1 that the register gets is bit n of the    *)
(* data sheet's numbering.                                                 *)
(***************************************************************************)
LEMMA BitsAreFedInOrder ==
  ASSUME NEW p \in 0..8 * TblLen - 1
  PROVE  4 * ((p \div 8) \div 4) + 3 - ((p \div 8) % 4) = WireAddr(p)
  <1>1. p \div 32 = (p \div 8) \div 4
    BY LenAssumption
  <1>2. (p \div 8) \div 4 \in Int /\ (p \div 8) % 4 \in Int
    BY LenAssumption
  <1> QED BY <1>1, <1>2 DEF WireAddr

(***************************************************************************)
(* ether_crc32_le computes the CRC-32 of IEEE 802.3 of any table,          *)
(* whatever its length and contents.                                       *)
(***************************************************************************)
THEOREM CrcIsAlwaysIeee8023 == Spec => []CrcIsIeee8023
  <1>1. CrcIsIeee8023
    <2> DEFINE N == 8 * TblLen
               message == {8 * TblLen + 31 - p : p \in BitsOf(buf)}
               preset == 8 * TblLen..8 * TblLen + 31
               ByteOf(n) == buf[4 * (n \div 4) + 3 - (n % 4)]
               bits == [n \in 1..8 * TblLen |-> (n - 1) % 8 \in ByteOf((n - 1) \div 8)]
               crc == Shifted(0..31, bits, 8 * TblLen, EtherPoly, 32)
               rest == Remainder(Xor(message, preset), {32} \cup EtherPoly, 32, 8 * TblLen + 31)
    <2>1. N \in Nat /\ TblLen \in Nat
      BY LenAssumption
    <2>2. bits \in [1..N -> BOOLEAN]
      <3> HIDE DEF ByteOf
      <3> QED OBVIOUS
    <2>3. EtherPoly \in SUBSET (0..32 - 1) /\ 0..31 \in SUBSET (0..32 - 1) /\ 32 \in Nat \ {0}
      BY DEF EtherPoly
    <2>4. /\ crc \in SUBSET (0..32 - 1)
          /\ crc = Remainder(Xor(Times(0..31, N), Ahead(bits, N, 32, 0)),
                             {32} \cup EtherPoly, 32, 32 + N - 1)
      <3> HIDE DEF bits
      <3> QED BY <2>1, <2>2, <2>3, ShiftRegisterDivides
    <2>5. Times(0..31, N) = preset
      <3>1. ASSUME NEW e \in preset PROVE e - N \in 0..31 /\ e = (e - N) + N
        BY <2>1
      <3>2. ASSUME NEW e \in 0..31 PROVE e + N \in preset
        BY <2>1
      <3> HIDE DEF N, preset
      <3> QED BY <3>1, <3>2 DEF Times
    <2>6. Ahead(bits, N, 32, 0) = message
      <3>1. ASSUME NEW e \in 32..N + 31
            PROVE  bits[32 + N - e] <=> N + 31 - e \in BitsOf(buf)
        <4>1. PICK p : p = N + 31 - e
          OBVIOUS
        <4>2. p \in 0..8 * TblLen - 1 /\ 32 + N - e = p + 1 /\ p + 1 \in 1..8 * TblLen /\ (p + 1) - 1 = p
          BY <2>1, <4>1
        <4>3. bits[p + 1] = (p % 8 \in ByteOf(p \div 8))
          <5> HIDE DEF ByteOf
          <5> QED BY <4>2
        <4>4. ByteOf(p \div 8) = buf[WireAddr(p)]
          BY <4>2, BitsAreFedInOrder
        <4>5. p \in BitsOf(buf) <=> p % 8 \in buf[WireAddr(p)]
          BY <4>2 DEF BitsOf
        <4> HIDE DEF bits, ByteOf, N
        <4> QED BY <4>1, <4>2, <4>3, <4>4, <4>5
      <3>2. Ahead(bits, N, 32, 0) = {e \in 32..N + 31 : N + 31 - e \in BitsOf(buf)}
        <4>1. 32 + N - 0 - 1 = N + 31
          BY <2>1
        <4> HIDE DEF bits, N
        <4> QED BY <3>1, <4>1 DEF Ahead
      <3>3. ASSUME NEW p \in BitsOf(buf)
            PROVE  N + 31 - p \in 32..N + 31 /\ N + 31 - (N + 31 - p) = p
        BY <2>1 DEF BitsOf
      <3>4. ASSUME NEW e \in 32..N + 31 PROVE N + 31 - (N + 31 - e) = e
        BY <2>1
      <3>5. message = {N + 31 - p : p \in BitsOf(buf)}
        OBVIOUS
      <3> HIDE DEF bits, N, message
      <3> QED BY <3>2, <3>3, <3>4, <3>5
    <2>7. Xor(preset, message) = Xor(message, preset)
      BY DEF Xor
    <2>8. crc = rest
      <3>1. 32 + N - 1 = 8 * TblLen + 31
        BY <2>1
      <3> HIDE DEF N, message, preset, bits, crc
      <3> QED BY <2>4, <2>5, <2>6, <2>7, <3>1
    <2>9. EtherCrc32(buf) = BitReverse((0..31) \ crc, 32)
      BY DEF EtherCrc32
    <2>10. BitReverse((0..31) \ crc, 32) = {31 - e : e \in (0..31) \ crc}
      <3> HIDE DEF crc
      <3>1. \A e \in 0..31 : 32 - 1 - e = 31 - e
        OBVIOUS
      <3> QED BY <3>1 DEF BitReverse
    <2> HIDE DEF message, preset, crc, bits, N
    <2> QED BY <2>8, <2>9, <2>10 DEF CrcIsIeee8023, message, preset
  <1> QED BY <1>1, PTL
=============================================================================
