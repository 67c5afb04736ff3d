-------------------------- MODULE TableEntryProofs ---------------------------
(***************************************************************************)
(* One entry of a table through the commands: what packing and unpacking   *)
(* do for any layout, that an edit changes the field it names and nothing  *)
(* else, and that a command about something else changes nothing; for any  *)
(* values, tables and number of edits.                                     *)
(***************************************************************************)
EXTENDS TableEntry, TLAPS

IsEntry(layout, entry) ==
    /\ Ids(layout) \subseteq DOMAIN entry
    /\ \A id \in DOMAIN entry : entry[id] \subseteq Nat

(***************************************************************************)
(* When no two fields share a bit, the bits of a field in the packed entry *)
(* are those of its value, whatever was stored before and after it.        *)
(***************************************************************************)
LEMMA PackedBitsOfField ==
    ASSUME NEW layout, IsLayout(layout), Disjoint(layout),
           NEW entry, IsEntry(layout, entry),
           NEW k \in DOMAIN layout
    PROVE  Pack(layout, entry) \cap Bits(layout[k])
             = {layout[k].end + v : v \in entry[layout[k].id]} \cap Bits(layout[k])
<1> DEFINE Later(i) == UNION {Bits(layout[j]) : j \in i + 1..Len(layout)}
           Shifted(i) == {layout[i].end + v : v \in entry[layout[i].id]} \cap Bits(layout[i])
<1>1. DOMAIN layout = 1..Len(layout) /\ Len(layout) \in Nat
  BY DEF IsLayout
<1>2. \A j \in DOMAIN layout : j # k => Bits(layout[j]) \cap Bits(layout[k]) = {}
  BY DEF Disjoint
<1>3. Later(k) \cap Bits(layout[k]) = {}
  <2>1. \A j \in k + 1..Len(layout) : j \in DOMAIN layout /\ j # k
    BY <1>1
  <2> QED BY <1>2, <2>1
<1>4. Pack(layout, entry) = UNION {Shifted(i) \ Later(i) : i \in DOMAIN layout}
  BY DEF Pack
<1>5. ASSUME NEW b \in Pack(layout, entry), b \in Bits(layout[k])
      PROVE  b \in Shifted(k)
  <2>1. PICK i \in DOMAIN layout : b \in Shifted(i) \ Later(i)
    BY <1>4, <1>5
  <2>2. b \in Bits(layout[i])
    BY <2>1
  <2>3. i = k
    BY <1>2, <1>5, <2>2
  <2> QED BY <2>1, <2>3
<1>6. ASSUME NEW b \in Shifted(k)
      PROVE  b \in Pack(layout, entry)
  <2>1. b \in Shifted(k) \ Later(k)
    BY <1>3, <1>6
  <2> HIDE DEF Shifted, Later
  <2> QED BY <1>4, <2>1
<1> QED BY <1>5, <1>6

(***************************************************************************)
(* The bits of a value that fall inside a field, counted from the end of   *)
(* the field, are the value cut to the width of the field.                 *)
(***************************************************************************)
LEMMA ShiftBack ==
    ASSUME NEW f, f.start \in Nat, f.end \in Nat, NEW v, v \subseteq Nat
    PROVE  {b - f.end : b \in {f.end + x : x \in v} \cap Bits(f)} = v \cap 0..Width(f) - 1
<1>1. ASSUME NEW x \in v \cap 0..Width(f) - 1
      PROVE  x \in {b - f.end : b \in {f.end + y : y \in v} \cap Bits(f)}
  <2>1. f.end + x \in {f.end + y : y \in v} \cap Bits(f)
    BY <1>1 DEF Bits, Width
  <2>2. x = (f.end + x) - f.end
    BY <1>1
  <2> QED BY <2>1, <2>2
<1>2. ASSUME NEW y \in {b - f.end : b \in {f.end + x : x \in v} \cap Bits(f)}
      PROVE  y \in v \cap 0..Width(f) - 1
  <2>1. PICK b \in {f.end + x : x \in v} \cap Bits(f) : y = b - f.end
    BY <1>2
  <2>2. PICK x \in v : b = f.end + x
    BY <2>1
  <2> QED BY <2>1, <2>2 DEF Bits, Width
<1> QED BY <1>1, <1>2

(***************************************************************************)
(* Packing an entry in a layout whose fields do not overlap and unpacking  *)
(* it gives the entry back, with every value cut to the width of its field *)
(* and the fields outside the layout cleared: what the load and the save   *)
(* around every command do to the entries they are not about.              *)
(***************************************************************************)
THEOREM LayoutRoundTrip ==
    ASSUME NEW layout, IsLayout(layout), Disjoint(layout),
           NEW entry, IsEntry(layout, entry)
    PROVE  Unpack(layout, Pack(layout, entry), DOMAIN entry) = Stored(layout, entry)
<1> DEFINE Of(id) == {k \in DOMAIN layout : layout[k].id = id}
           Read(k) == {b - layout[k].end : b \in Pack(layout, entry) \cap Bits(layout[k])}
           Cut(id, k) == entry[id] \cap 0..Width(layout[k]) - 1
<1>1. ASSUME NEW id \in DOMAIN entry, NEW k \in Of(id)
      PROVE  Read(k) = Cut(id, k)
  <2>1. /\ layout[k].start \in Nat
        /\ layout[k].end \in Nat
        /\ layout[k].id = id
        /\ entry[id] \subseteq Nat
    <3>1. k \in DOMAIN layout /\ layout[k].id = id
      OBVIOUS
    <3>2. layout[k].start \in Nat /\ layout[k].end \in Nat
      BY <3>1 DEF IsLayout, Parts
    <3>3. entry[id] \subseteq Nat
      BY DEF IsEntry
    <3> QED BY <3>1, <3>2, <3>3
  <2>2. Pack(layout, entry) \cap Bits(layout[k])
          = {layout[k].end + v : v \in entry[id]} \cap Bits(layout[k])
    BY <2>1, PackedBitsOfField
  <2>3. Read(k) = {b - layout[k].end :
                     b \in {layout[k].end + v : v \in entry[id]} \cap Bits(layout[k])}
    BY <2>2
  <2> HIDE DEF Read
  <2> QED BY <2>1, <2>3, ShiftBack
<1>2. ASSUME NEW id \in DOMAIN entry
      PROVE  UNION {Read(k) : k \in Of(id)} = UNION {Cut(id, k) : k \in Of(id)}
  <2> HIDE DEF Read, Cut, Of
  <2> QED BY <1>1
<1>3. Unpack(layout, Pack(layout, entry), DOMAIN entry)
        = [id \in DOMAIN entry |-> UNION {Read(k) : k \in Of(id)}]
  BY DEF Unpack
<1>4. Stored(layout, entry) = [id \in DOMAIN entry |-> UNION {Cut(id, k) : k \in Of(id)}]
  BY DEF Stored
<1> HIDE DEF Read, Cut, Of
<1> QED BY <1>2, <1>3, <1>4
-----------------------------------------------------------------------------
(***************************************************************************)
(* A layout by its fields.                                                 *)
(***************************************************************************)
LEMMA PartsAreFields ==
    ASSUME NEW layout, IsLayout(layout), NEW f \in Parts(layout)
    PROVE  /\ f.id \in Ids(layout) /\ f.start \in Nat /\ f.end \in Nat /\ f.end <= f.start
           /\ Width(f) - 1 \in Nat
<1>1. f.start \in Nat /\ f.end \in Nat /\ f.end <= f.start
  BY DEF IsLayout
<1>2. f.id \in Ids(layout)
  BY DEF Parts, Ids
<1> QED BY <1>1, <1>2 DEF Width

LEMMA IdsOfParts ==
    ASSUME NEW layout
    PROVE  Ids(layout) = {f.id : f \in Parts(layout)}
BY DEF Ids, Parts

LEMMA PartsApart ==
    ASSUME NEW layout, Disjoint(layout), NEW f \in Parts(layout), NEW g \in Parts(layout), f # g
    PROVE  f.id # g.id /\ Bits(f) \cap Bits(g) = {}
BY DEF Parts, Disjoint

\* The field of an id is the only one.
LEMMA FieldOfId ==
    ASSUME NEW layout, Disjoint(layout), NEW k \in DOMAIN layout
    PROVE  {i \in DOMAIN layout : layout[i].id = layout[k].id} = {k}
BY DEF Disjoint

LEMMA UnpackedField ==
    ASSUME NEW layout, IsLayout(layout), Disjoint(layout), NEW f \in Parts(layout),
           NEW bits, NEW ids, f.id \in ids
    PROVE  Unpack(layout, bits, ids)[f.id] = {b - f.end : b \in bits \cap Bits(f)}
<1>1. PICK k \in DOMAIN layout : f = layout[k]
  BY DEF Parts
<1>2. {i \in DOMAIN layout : layout[i].id = f.id} = {k}
  BY <1>1, FieldOfId
<1>3. PICK u : u = [i \in DOMAIN layout |-> {b - layout[i].end : b \in bits \cap Bits(layout[i])}]
  OBVIOUS
<1>4. Unpack(layout, bits, ids)[f.id] = UNION {u[i] : i \in {k}}
  BY <1>2, <1>3 DEF Unpack
<1>5. UNION {u[i] : i \in {k}} = u[k]
  OBVIOUS
<1> QED BY <1>1, <1>3, <1>4, <1>5

LEMMA UnpackedNothing ==
    ASSUME NEW layout, NEW bits, NEW ids, NEW id \in ids, id \notin Ids(layout)
    PROVE  Unpack(layout, bits, ids)[id] = {}
BY DEF Unpack, Ids

LEMMA StoredField ==
    ASSUME NEW layout, IsLayout(layout), Disjoint(layout), NEW f \in Parts(layout),
           NEW entry, f.id \in DOMAIN entry
    PROVE  Stored(layout, entry)[f.id] = entry[f.id] \cap 0..Width(f) - 1
<1>1. PICK k \in DOMAIN layout : f = layout[k]
  BY DEF Parts
<1>2. {i \in DOMAIN layout : layout[i].id = f.id} = {k}
  BY <1>1, FieldOfId
<1>3. PICK u : u = [i \in DOMAIN layout |-> entry[f.id] \cap 0..Width(layout[i]) - 1]
  OBVIOUS
<1>4. Stored(layout, entry)[f.id] = UNION {u[i] : i \in {k}}
  BY <1>2, <1>3 DEF Stored
<1>5. UNION {u[i] : i \in {k}} = u[k]
  OBVIOUS
<1> QED BY <1>1, <1>3, <1>4, <1>5

LEMMA FittedField ==
    ASSUME NEW layout, IsLayout(layout), Disjoint(layout), NEW f \in Parts(layout), NEW v
    PROVE  Fitted(v, f.id, layout) = v \cap 0..Width(f) - 1
<1>1. PICK k \in DOMAIN layout : f = layout[k]
  BY DEF Parts
<1>2. {i \in DOMAIN layout : layout[i].id = f.id} = {k}
  BY <1>1, FieldOfId
<1>3. PICK u : u = [i \in DOMAIN layout |-> 0..Width(layout[i]) - 1]
  OBVIOUS
<1>4. Fitted(v, f.id, layout) = v \cap UNION {u[i] : i \in {k}}
  BY <1>2, <1>3 DEF Fitted
<1>5. UNION {u[i] : i \in {k}} = u[k]
  OBVIOUS
<1> QED BY <1>1, <1>3, <1>4, <1>5

LEMMA PackedField ==
    ASSUME NEW layout, IsLayout(layout), Disjoint(layout), NEW f \in Parts(layout),
           NEW entry, IsEntry(layout, entry)
    PROVE  Pack(layout, entry) \cap Bits(f) = {f.end + v : v \in entry[f.id]} \cap Bits(f)
BY PackedBitsOfField DEF Parts

LEMMA PackedInside ==
    ASSUME NEW layout, NEW entry, NEW b \in Pack(layout, entry)
    PROVE  \E f \in Parts(layout) : b \in Bits(f)
BY DEF Pack, Parts

\* A field read where it was packed.
LEMMA ReadBack ==
    ASSUME NEW layout, IsLayout(layout), Disjoint(layout), NEW f \in Parts(layout),
           NEW entry, IsEntry(layout, entry),
           NEW bits, bits \cap Bits(f) = Pack(layout, entry) \cap Bits(f)
    PROVE  {b - f.end : b \in bits \cap Bits(f)} = entry[f.id] \cap 0..Width(f) - 1
<1>1. bits \cap Bits(f) = {f.end + v : v \in entry[f.id]} \cap Bits(f)
  BY PackedField
<1>2. entry[f.id] \subseteq Nat /\ f.start \in Nat /\ f.end \in Nat
  BY PartsAreFields DEF IsEntry
<1>3. {b - f.end : b \in {f.end + v : v \in entry[f.id]} \cap Bits(f)}
        = entry[f.id] \cap 0..Width(f) - 1
  BY <1>2, ShiftBack
<1> QED BY <1>1, <1>3
-----------------------------------------------------------------------------
(***************************************************************************)
(* The layouts of the code.                                                *)
(***************************************************************************)
Field(name, start, end) == [id |-> <<name, 0>>, start |-> start, end |-> end]

\* A layout made of some fields.
MadeOf(layout, parts) == layout \in Seq(parts) /\ Parts(layout) = parts

LEMMA MadeOfOne ==
    ASSUME NEW name, NEW start, NEW end
    PROVE  MadeOf(Scalar(name, start, end), {Field(name, start, end)})
BY DEF Scalar, Parts, Field, MadeOf

LEMMA MadeOfNone == MadeOf(<< >>, {})
BY DEF Parts, MadeOf

LEMMA MadeOfBoth ==
    ASSUME NEW a, NEW parts, MadeOf(a, parts), NEW b, NEW more, MadeOf(b, more)
    PROVE  MadeOf(a \o b, parts \cup more)
<1>1. a \in Seq(parts \cup more) /\ b \in Seq(parts \cup more)
  BY DEF MadeOf
<1>2. /\ a \o b \in Seq(parts \cup more) /\ Len(a \o b) = Len(a) + Len(b)
      /\ \A i \in 1..Len(a) + Len(b) : (a \o b)[i] = IF i <= Len(a) THEN a[i] ELSE b[i - Len(a)]
  BY <1>1
<1>3. PICK c \in Seq(parts \cup more) : c = a \o b
  BY <1>2
<1>4. DOMAIN a = 1..Len(a) /\ DOMAIN b = 1..Len(b) /\ Len(a) \in Nat /\ Len(b) \in Nat
      /\ DOMAIN c = 1..Len(a) + Len(b)
  BY <1>1, <1>2, <1>3
<1>5. ASSUME NEW i \in DOMAIN a PROVE a[i] \in Parts(c)
  <2>1. i \in DOMAIN c /\ c[i] = a[i]
    BY <1>2, <1>3, <1>4
  <2> QED BY <2>1 DEF Parts
<1>6. ASSUME NEW i \in DOMAIN b PROVE b[i] \in Parts(c)
  <2>1. i + Len(a) \in 1..Len(a) + Len(b) /\ ~(i + Len(a) <= Len(a)) /\ (i + Len(a)) - Len(a) = i
    BY <1>4
  <2>2. c[i + Len(a)] = b[i] /\ i + Len(a) \in DOMAIN c
    BY <1>2, <1>3, <1>4, <2>1
  <2> QED BY <2>2 DEF Parts
<1>7. Parts(c) \subseteq parts \cup more
  BY <1>3 DEF Parts
<1>8. parts \subseteq Parts(c) /\ more \subseteq Parts(c)
  <2>1. parts = {a[i] : i \in DOMAIN a} /\ more = {b[i] : i \in DOMAIN b}
    BY DEF MadeOf, Parts
  <2> QED BY <1>5, <1>6, <2>1
<1> QED BY <1>2, <1>3, <1>7, <1>8 DEF MadeOf

LEMMA PartsOfMade ==
    ASSUME NEW a, NEW parts, MadeOf(a, parts)
    PROVE  Parts(a) = parts
BY DEF MadeOf

LEMMA MadeOfMore ==
    ASSUME NEW a, NEW parts, MadeOf(a, parts), NEW name, NEW start, NEW end
    PROVE  MadeOf(a \o Scalar(name, start, end), Parts(a) \cup {Field(name, start, end)})
<1>1. Parts(a) = parts
  BY DEF MadeOf
<1> QED BY <1>1, MadeOfOne, MadeOfBoth

LEMMA VlLookupParts ==
    /\ Parts(vl_lookup(0)) = {Field("destports", 95, 91), Field("iscritical", 90, 90),
                              Field("macaddr", 89, 42), Field("vlanid", 41, 30),
                              Field("port", 29, 27), Field("vlanprior", 26, 24)}
    /\ Parts(vl_lookup(1)) = {Field("destports", 95, 91), Field("iscritical", 90, 90),
                              Field("macaddr", 57, 42), Field("port", 29, 27)}
<1>1. PICK a : a = Scalar("destports", 95, 91) /\ MadeOf(a, {Field("destports", 95, 91)})
  BY MadeOfOne
<1>2. PICK b : /\ b = a \o Scalar("iscritical", 90, 90)
               /\ MadeOf(b, Parts(a) \cup {Field("iscritical", 90, 90)})
  <2>1. \A x, y : MadeOf(a \o Scalar("iscritical", x, y), Parts(a) \cup {Field("iscritical", x, y)})
    BY <1>1, MadeOfMore, Zenon
  <2> QED BY <2>1
<1>3. PICK c : /\ c = b \o Scalar("macaddr", 89, 42)
               /\ MadeOf(c, Parts(b) \cup {Field("macaddr", 89, 42)})
  <2>1. \A x, y : MadeOf(b \o Scalar("macaddr", x, y), Parts(b) \cup {Field("macaddr", x, y)})
    BY <1>2, MadeOfMore, Zenon
  <2> QED BY <2>1
<1>4. PICK d : /\ d = c \o Scalar("vlanid", 41, 30)
               /\ MadeOf(d, Parts(c) \cup {Field("vlanid", 41, 30)})
  <2>1. \A x, y : MadeOf(c \o Scalar("vlanid", x, y), Parts(c) \cup {Field("vlanid", x, y)})
    BY <1>3, MadeOfMore, Zenon
  <2> QED BY <2>1
<1>5. PICK e : /\ e = d \o Scalar("port", 29, 27)
               /\ MadeOf(e, Parts(d) \cup {Field("port", 29, 27)})
  <2>1. \A x, y : MadeOf(d \o Scalar("port", x, y), Parts(d) \cup {Field("port", x, y)})
    BY <1>4, MadeOfMore, Zenon
  <2> QED BY <2>1
<1>6. PICK f : /\ f = e \o Scalar("vlanprior", 26, 24)
               /\ MadeOf(f, Parts(e) \cup {Field("vlanprior", 26, 24)})
  <2>1. \A x, y : MadeOf(e \o Scalar("vlanprior", x, y), Parts(e) \cup {Field("vlanprior", x, y)})
    BY <1>5, MadeOfMore, Zenon
  <2> QED BY <2>1
<1>7. PICK g : /\ g = b \o Scalar("macaddr", 57, 42)
               /\ MadeOf(g, Parts(b) \cup {Field("macaddr", 57, 42)})
  <2>1. \A x, y : MadeOf(b \o Scalar("macaddr", x, y), Parts(b) \cup {Field("macaddr", x, y)})
    BY <1>2, MadeOfMore, Zenon
  <2> QED BY <2>1
<1>8. PICK h : /\ h = g \o Scalar("port", 29, 27)
               /\ MadeOf(h, Parts(g) \cup {Field("port", 29, 27)})
  <2>1. \A x, y : MadeOf(g \o Scalar("port", x, y), Parts(g) \cup {Field("port", x, y)})
    BY <1>7, MadeOfMore, Zenon
  <2> QED BY <2>1
<1>9. vl_lookup(0) = f /\ vl_lookup(1) = h
  BY <1>1, <1>2, <1>3, <1>4, <1>5, <1>6, <1>7, <1>8 DEF vl_lookup
<1>10. Parts(b) = {Field("destports", 95, 91), Field("iscritical", 90, 90)}
  BY <1>1, <1>2 DEF MadeOf
<1>11. Parts(f) = Parts(b) \cup {Field("macaddr", 89, 42), Field("vlanid", 41, 30),
                                 Field("port", 29, 27), Field("vlanprior", 26, 24)}
  BY <1>3, <1>4, <1>5, <1>6 DEF MadeOf
<1>12. Parts(h) = Parts(b) \cup {Field("macaddr", 57, 42), Field("port", 29, 27)}
  BY <1>7, <1>8 DEF MadeOf
<1> QED BY <1>9, <1>10, <1>11, <1>12

LEMMA VlPolicingParts ==
    /\ Parts(vl_policing({})) = {Field("type", 63, 63), Field("maxlen", 62, 52),
                                 Field("sharindx", 51, 42), Field("bag", 41, 28),
                                 Field("jitter", 27, 18)}
    /\ Parts(vl_policing({0})) = {Field("type", 63, 63), Field("maxlen", 62, 52),
                                  Field("sharindx", 51, 42)}
<1>1. PICK a : a = Scalar("type", 63, 63) /\ MadeOf(a, {Field("type", 63, 63)})
  BY MadeOfOne
<1>2. PICK b : /\ b = a \o Scalar("maxlen", 62, 52)
               /\ MadeOf(b, Parts(a) \cup {Field("maxlen", 62, 52)})
  <2>1. \A x, y : MadeOf(a \o Scalar("maxlen", x, y), Parts(a) \cup {Field("maxlen", x, y)})
    BY <1>1, MadeOfMore, Zenon
  <2> QED BY <2>1
<1>3. PICK c : /\ c = b \o Scalar("sharindx", 51, 42)
               /\ MadeOf(c, Parts(b) \cup {Field("sharindx", 51, 42)})
  <2>1. \A x, y : MadeOf(b \o Scalar("sharindx", x, y), Parts(b) \cup {Field("sharindx", x, y)})
    BY <1>2, MadeOfMore, Zenon
  <2> QED BY <2>1
<1>4. PICK d : d = Scalar("bag", 41, 28) /\ MadeOf(d, {Field("bag", 41, 28)})
  BY MadeOfOne
<1>5. PICK e : /\ e = d \o Scalar("jitter", 27, 18)
               /\ MadeOf(e, Parts(d) \cup {Field("jitter", 27, 18)})
  <2>1. \A x, y : MadeOf(d \o Scalar("jitter", x, y), Parts(d) \cup {Field("jitter", x, y)})
    BY <1>4, MadeOfMore, Zenon
  <2> QED BY <2>1
<1>6. vl_policing({}) = c \o e
  BY <1>1, <1>2, <1>3, <1>4, <1>5 DEF vl_policing
<1>7. vl_policing({0}) = c \o << >>
  <2>1. {0} # {}
    OBVIOUS
  <2> QED BY <1>1, <1>2, <1>3, <2>1 DEF vl_policing
<1>8. Parts(c \o e) = Parts(c) \cup Parts(e) /\ Parts(c \o << >>) = Parts(c)
  <2>1. MadeOf(c, Parts(c)) /\ MadeOf(e, Parts(e))
    BY <1>3, <1>5 DEF MadeOf
  <2>2. MadeOf(c \o e, Parts(c) \cup Parts(e)) /\ MadeOf(c \o << >>, Parts(c) \cup {})
    BY <2>1, MadeOfBoth, MadeOfNone, Zenon
  <2> QED BY <2>2, PartsOfMade
<1>9. Parts(c) = {Field("type", 63, 63), Field("maxlen", 62, 52), Field("sharindx", 51, 42)}
  BY <1>1, <1>2, <1>3 DEF MadeOf
<1>10. Parts(e) = {Field("bag", 41, 28), Field("jitter", 27, 18)}
  BY <1>4, <1>5 DEF MadeOf
<1> QED BY <1>6, <1>7, <1>8, <1>9, <1>10

Types == {{}, {0}}

LEMMA LayoutFacts ==
    ASSUME NEW t, NEW p, <<t, p>> \in Followed, NEW fmt \in {0, 1}, NEW type \in Types
    PROVE  /\ IsLayout(Layout(t, p, fmt, type)) /\ Disjoint(Layout(t, p, fmt, type))
           /\ \A f \in Parts(Layout(t, p, fmt, type)) :
                /\ Bits(f) \subseteq 0..8 * Size(t, p) - 1
                /\ t = "sgmii" => Bits(f) \cap SgmiiReserved = {}
<1>1. PICK l : l = Layout(t, p, fmt, type)
  OBVIOUS
<1>2. /\ IsLayout(l) /\ Disjoint(l)
      /\ \A i \in DOMAIN l :
           /\ Bits(l[i]) \subseteq 0..8 * Size(t, p) - 1
           /\ t = "sgmii" => Bits(l[i]) \cap SgmiiReserved = {}
  <2>1. <<t, p>>[1] = t /\ <<t, p>>[2] = p
    OBVIOUS
  <2> QED BY <1>1, <2>1, LayoutsAssumption, Zenon DEF Types
<1> QED BY <1>1, <1>2 DEF Parts

LEMMA TwoVary ==
    ASSUME NEW t \in TableNames, t # "vl_lookup", t # "vl_policing",
           NEW p, NEW fmt, NEW type, NEW other, NEW kind
    PROVE  Layout(t, p, fmt, type) = Layout(t, p, other, kind)
BY DEF Layout, TableNames

LEMMA FollowedTables ==
    ASSUME NEW t, NEW p, <<t, p>> \in Followed
    PROVE  t \in TableNames /\ p \in BOOLEAN
BY FollowedAssumption

LEMMA IdsAreFields ==
    ASSUME NEW t, NEW p, <<t, p>> \in Followed, NEW fmt \in {0, 1}, NEW type \in Types
    PROVE  Ids(Layout(t, p, fmt, type)) \subseteq Fields(t)
<1>1. t \in TableNames /\ p \in BOOLEAN
  BY FollowedTables
<1>2. CASE t = "vl_lookup"
  <2>1. Layout(t, p, fmt, type) = vl_lookup(fmt) /\ Layout(t, TRUE, 0, {}) = vl_lookup(0)
    BY <1>2 DEF Layout
  <2>2. Ids(vl_lookup(1)) \subseteq Ids(vl_lookup(0))
    <3>1. \A f \in Parts(vl_lookup(1)) : \E g \in Parts(vl_lookup(0)) : g.id = f.id
      <4>1. Field("macaddr", 57, 42).id = Field("macaddr", 89, 42).id
        BY DEF Field
      <4>2. \A f \in Parts(vl_lookup(1)) : f = Field("macaddr", 57, 42) \/ f \in Parts(vl_lookup(0))
        BY VlLookupParts
      <4>3. Field("macaddr", 89, 42) \in Parts(vl_lookup(0))
        BY VlLookupParts
      <4> QED BY <4>1, <4>2, <4>3
    <3> QED BY <3>1, IdsOfParts
  <2> QED BY <2>1, <2>2 DEF Fields
<1>3. CASE t = "vl_policing"
  <2>1. Layout(t, p, fmt, type) = vl_policing(type) /\ Layout(t, TRUE, 0, {}) = vl_policing({})
    BY <1>3 DEF Layout
  <2>2. Ids(vl_policing({0})) \subseteq Ids(vl_policing({}))
    BY VlPolicingParts, IdsOfParts DEF Field
  <2> QED BY <2>1, <2>2 DEF Fields, Types
<1>4. CASE t # "vl_lookup" /\ t # "vl_policing"
  <2>1. Layout(t, p, fmt, type) = Layout(t, p, 0, {})
    BY <1>1, <1>4, TwoVary
  <2> QED BY <1>1, <2>1 DEF Fields
<1> QED BY <1>2, <1>3, <1>4

Entries(t) == [Fields(t) -> SUBSET Nat]

LEMMA EntryFits ==
    ASSUME NEW t, NEW p, <<t, p>> \in Followed, NEW fmt \in {0, 1}, NEW type \in Types,
           NEW entry \in Entries(t)
    PROVE  IsEntry(Layout(t, p, fmt, type), entry)
BY IdsAreFields DEF IsEntry, Entries

LEMMA UnpackedEntry ==
    ASSUME NEW t, NEW p, <<t, p>> \in Followed, NEW fmt \in {0, 1}, NEW type \in Types,
           NEW bits
    PROVE  Unpack(Layout(t, p, fmt, type), bits, Fields(t)) \in Entries(t)
<1>1. PICK l : l = Layout(t, p, fmt, type)
  OBVIOUS
<1>2. IsLayout(l) /\ Disjoint(l)
  BY <1>1, LayoutFacts
<1>3. ASSUME NEW id \in Fields(t) PROVE Unpack(l, bits, Fields(t))[id] \subseteq Nat
  <2>1. CASE id \notin Ids(l)
    BY <2>1, UnpackedNothing
  <2>2. CASE id \in Ids(l)
    <3>1. PICK f \in Parts(l) : f.id = id
      BY <2>2, IdsOfParts
    <3>2. Unpack(l, bits, Fields(t))[id] = {b - f.end : b \in bits \cap Bits(f)}
      BY <1>2, <3>1, UnpackedField
    <3>3. f.start \in Nat /\ f.end \in Nat
      BY <1>2, PartsAreFields
    <3>4. \A b \in Bits(f) : b - f.end \in Nat
      BY <3>3 DEF Bits
    <3> QED BY <3>2, <3>4
  <2> QED BY <2>1, <2>2
<1>4. Unpack(l, bits, Fields(t)) = [id \in Fields(t) |-> Unpack(l, bits, Fields(t))[id]]
  BY DEF Unpack
<1> QED BY <1>1, <1>3, <1>4 DEF Entries

LEMMA Reread ==
    ASSUME NEW t, NEW p, <<t, p>> \in Followed, NEW fmt \in {0, 1}, NEW type \in Types,
           NEW entry \in Entries(t), NEW bits,
           \A f \in Parts(Layout(t, p, fmt, type)) :
             bits \cap Bits(f) = Pack(Layout(t, p, fmt, type), entry) \cap Bits(f),
           NEW f \in Parts(Layout(t, p, fmt, type))
    PROVE  Unpack(Layout(t, p, fmt, type), bits, Fields(t))[f.id] = entry[f.id] \cap 0..Width(f) - 1
<1>1. PICK l : l = Layout(t, p, fmt, type)
  OBVIOUS
<1>2. IsLayout(l) /\ Disjoint(l) /\ IsEntry(l, entry)
  BY <1>1, LayoutFacts, EntryFits
<1>3. f \in Parts(l) /\ f.id \in Fields(t)
  BY <1>1, <1>2, PartsAreFields, IdsAreFields
<1>4. Unpack(l, bits, Fields(t))[f.id] = {b - f.end : b \in bits \cap Bits(f)}
  <2>1. PICK ids : ids = Fields(t)
    OBVIOUS
  <2>2. IsLayout(l) /\ Disjoint(l) /\ f \in Parts(l) /\ f.id \in ids
    BY <1>2, <1>3, <2>1
  <2>3. Unpack(l, bits, ids)[f.id] = {b - f.end : b \in bits \cap Bits(f)}
    BY ONLY <2>2, UnpackedField
  <2> QED BY <2>1, <2>3
<1>5. bits \cap Bits(f) = Pack(l, entry) \cap Bits(f)
  BY <1>1
<1>6. {b - f.end : b \in bits \cap Bits(f)} = entry[f.id] \cap 0..Width(f) - 1
  BY <1>1, <1>2, <1>5, ReadBack
<1> QED BY <1>1, <1>4, <1>6

\* The type bit of a packed VL policing entry, as unpack finds it.
TypeBit(bits) == {b - 63 : b \in bits \cap {63}}

LEMMA TypeBitType == \A bits : TypeBit(bits) \in Types
<1> SUFFICES ASSUME NEW bits PROVE TypeBit(bits) \in Types
  OBVIOUS
<1>1. CASE 63 \in bits
  <2>1. bits \cap {63} = {63} /\ 63 - 63 = 0
    BY <1>1
  <2> QED BY <2>1 DEF TypeBit, Types
<1>2. CASE 63 \notin bits
  BY <1>2 DEF TypeBit, Types
<1> QED BY <1>1, <1>2

LEMMA TypeField ==
    ASSUME NEW type \in Types
    PROVE  Field("type", 63, 63) \in Parts(vl_policing(type))
<1>1. Field("type", 63, 63) \in Parts(vl_policing({})) /\ Field("type", 63, 63) \in Parts(vl_policing({0}))
  BY VlPolicingParts
<1> QED BY <1>1 DEF Types

LEMMA TypeIsStored ==
    ASSUME NEW p, <<"vl_policing", p>> \in Followed, NEW fmt \in {0, 1}, NEW type \in Types,
           NEW entry \in Entries("vl_policing")
    PROVE  TypeBit(Pack(Layout("vl_policing", p, fmt, type), entry)) = entry[Type] \cap {0}
<1>1. PICK l : l = Layout("vl_policing", p, fmt, type)
  OBVIOUS
<1>2. IsLayout(l) /\ Disjoint(l) /\ IsEntry(l, entry)
  BY <1>1, LayoutFacts, EntryFits
<1>3. l = vl_policing(type)
  BY <1>1 DEF Layout
<1>4. PICK f \in Parts(l) : f = Field("type", 63, 63)
  BY <1>3, TypeField
<1>5. f.id = Type /\ f.end = 63 /\ f.start = 63
  BY <1>4 DEF Field, Type
<1>6. Bits(f) = {63} /\ 0..Width(f) - 1 = {0}
  BY <1>5 DEF Bits, Width
<1>7. {b - f.end : b \in Pack(l, entry) \cap Bits(f)} = entry[f.id] \cap 0..Width(f) - 1
  BY <1>2, ReadBack
<1> QED BY <1>1, <1>5, <1>6, <1>7 DEF TypeBit

\* In force: the layout that packs entry.
LEMMA LayoutInForce ==
    ASSUME <<table, pqrs>> \in Followed, NEW fmt \in {0, 1}, NEW entry \in Entries(table)
    PROVE  \E type \in Types :
             /\ PackLayout(entry, fmt) = Layout(table, pqrs, fmt, type)
             /\ table = "vl_policing" => type = entry[Type] \cap {0}
<1>1. entry[Type] \cap {0} \in Types
  BY DEF Types
<1>2. {} \in Types
  BY DEF Types
<1> QED BY <1>1, <1>2 DEF PackLayout

\* What a save of entry and a load of it leave: the layout, and every value
\* as far as its field holds it.
Survives(entry, fmt) ==
    LET again == Loaded(PackEntry(entry, fmt))
        layout == PackLayout(entry, fmt)
    IN  /\ again \in Entries(table)
        /\ PackLayout(again, fmt) = layout
        /\ \A f \in Parts(layout) :
             again[f.id] \cap 0..Width(f) - 1 = entry[f.id] \cap 0..Width(f) - 1

LEMMA SurvivesInTheSame ==
    ASSUME <<table, pqrs>> \in Followed, NEW fmt \in {0, 1}, NEW entry \in Entries(table),
           table # "vl_lookup" \/ fmt = 0
    PROVE  Survives(entry, fmt)
<1>1. PICK type \in Types : /\ PackLayout(entry, fmt) = Layout(table, pqrs, fmt, type)
                            /\ table = "vl_policing" => type = entry[Type] \cap {0}
  BY LayoutInForce
<1>2. PICK l : l = Layout(table, pqrs, fmt, type)
  OBVIOUS
<1>3. PICK bits : bits = PackEntry(entry, fmt)
  OBVIOUS
<1>4. \A f \in Parts(l) : bits \cap Bits(f) = Pack(l, entry) \cap Bits(f)
  <2>1. CASE table = "sgmii"
    <3>1. bits = Pack(l, entry) \cup SgmiiReserved
      BY <1>1, <1>2, <1>3, <2>1 DEF PackEntry
    <3>2. \A f \in Parts(l) : Bits(f) \cap SgmiiReserved = {}
      BY <1>2, <2>1, LayoutFacts
    <3> QED BY <3>1, <3>2
  <2>2. CASE table # "sgmii"
    BY <1>1, <1>2, <1>3, <2>2 DEF PackEntry
  <2> QED BY <2>1, <2>2
<1>5. Layout(table, pqrs, 0, TypeBit(bits)) = l
  <2>1. table \in TableNames
    BY FollowedTables
  <2>2. CASE table = "vl_policing"
    <3>1. bits = Pack(l, entry)
      BY <1>1, <1>2, <1>3, <2>2 DEF PackEntry
    <3>2. TypeBit(bits) = type
      <4>1. <<"vl_policing", pqrs>> \in Followed /\ entry \in Entries("vl_policing")
        BY <2>2
      <4>2. TypeBit(Pack(Layout("vl_policing", pqrs, fmt, type), entry)) = entry[Type] \cap {0}
        BY <1>1, <4>1, TypeIsStored
      <4> QED BY <1>1, <1>2, <2>2, <3>1, <4>2
    <3> QED BY <1>2, <2>2, <3>2 DEF Layout
  <2>3. CASE table = "vl_lookup"
    BY <1>2, <2>3 DEF Layout
  <2>4. CASE table # "vl_lookup" /\ table # "vl_policing"
    BY <1>2, <2>1, <2>4, TwoVary
  <2> QED BY <2>2, <2>3, <2>4
<1>6. PICK again : again = Loaded(bits)
  OBVIOUS
<1>7. again = Unpack(l, bits, Fields(table))
  BY <1>5, <1>6 DEF Loaded, TypeBit
<1>8. again \in Entries(table)
  BY <1>2, <1>7, UnpackedEntry
<1>9. ASSUME NEW f \in Parts(l) PROVE again[f.id] = entry[f.id] \cap 0..Width(f) - 1
  BY <1>2, <1>4, <1>7, Reread
<1>10. PackLayout(again, fmt) = l
  <2>1. CASE table = "vl_policing"
    <3>1. l = vl_policing(type)
      BY <1>2, <2>1 DEF Layout
    <3>2. PICK f \in Parts(l) : f = Field("type", 63, 63)
      BY <3>1, TypeField
    <3>3. f.id = Type /\ 0..Width(f) - 1 = {0}
      BY <3>2 DEF Field, Type, Width
    <3>4. again[Type] = entry[Type] \cap {0}
      BY <1>9, <3>3
    <3>5. again[Type] \cap {0} = type
      BY <1>1, <2>1, <3>4
    <3> QED BY <1>2, <2>1, <3>5 DEF PackLayout
  <2>2. CASE table # "vl_policing"
    BY <1>1, <1>2, <2>2 DEF PackLayout
  <2> QED BY <2>1, <2>2
<1> QED BY <1>1, <1>2, <1>3, <1>6, <1>8, <1>9, <1>10 DEF Survives
(***************************************************************************)
(* An entry packed in format 1 and unpacked in format 0: every field of    *)
(* format 1 is the end of a field of format 0 whose other bits no field of *)
(* format 1 uses.                                                          *)
(***************************************************************************)
ShortMac == Field("macaddr", 57, 42)
LongMac == Field("macaddr", 89, 42)

Widened(f) == IF f = ShortMac THEN LongMac ELSE f

LEMMA MacsCompared ==
    /\ ShortMac.id = LongMac.id /\ ShortMac.end = LongMac.end
    /\ Bits(ShortMac) \subseteq Bits(LongMac)
    /\ \A f \in Parts(vl_lookup(1)) : f # ShortMac => Bits(f) \cap Bits(LongMac) = {}
<1>1. /\ ShortMac.id = <<"macaddr", 0>> /\ ShortMac.end = 42 /\ Bits(ShortMac) = 42..57
      /\ LongMac.id = <<"macaddr", 0>> /\ LongMac.end = 42 /\ Bits(LongMac) = 42..89
  BY DEF ShortMac, LongMac, Field, Bits
<1>2. \A f \in Parts(vl_lookup(1)) :
        f # ShortMac => \/ f = Field("destports", 95, 91) \/ f = Field("iscritical", 90, 90)
                        \/ f = Field("port", 29, 27)
  BY VlLookupParts DEF ShortMac
<1>3. /\ Bits(Field("destports", 95, 91)) = 91..95 /\ Bits(Field("iscritical", 90, 90)) = 90..90
      /\ Bits(Field("port", 29, 27)) = 27..29
  BY DEF Field, Bits
<1>4. 91..95 \cap 42..89 = {} /\ 90..90 \cap 42..89 = {} /\ 27..29 \cap 42..89 = {}
  OBVIOUS
<1>5. 42..57 \subseteq 42..89
  OBVIOUS
<1> QED BY <1>1, <1>2, <1>3, <1>4, <1>5

LEMMA WidenedField ==
    ASSUME Disjoint(vl_lookup(1)), NEW f \in Parts(vl_lookup(1))
    PROVE  /\ Widened(f) \in Parts(vl_lookup(0))
           /\ Widened(f).id = f.id /\ Widened(f).end = f.end
           /\ Bits(f) \subseteq Bits(Widened(f))
           /\ \A g \in Parts(vl_lookup(1)) : g # f => Bits(g) \cap Bits(Widened(f)) = {}
<1>1. CASE f = ShortMac
  <2>1. LongMac \in Parts(vl_lookup(0))
    BY VlLookupParts DEF LongMac
  <2> QED BY <1>1, <2>1, MacsCompared DEF Widened
<1>2. CASE f # ShortMac
  <2>1. f \in Parts(vl_lookup(0))
    BY <1>2, VlLookupParts DEF ShortMac
  <2>2. \A g \in Parts(vl_lookup(1)) : g # f => Bits(g) \cap Bits(f) = {}
    BY PartsApart
  <2> QED BY <1>2, <2>1, <2>2 DEF Widened
<1> QED BY <1>1, <1>2

LEMMA SurvivesInTheOther ==
    ASSUME <<table, pqrs>> \in Followed, NEW entry \in Entries(table), table = "vl_lookup"
    PROVE  Survives(entry, 1)
<1>1. PICK l : l = Layout(table, pqrs, 1, {})
  OBVIOUS
<1>2. PICK k : k = Layout(table, pqrs, 0, {})
  OBVIOUS
<1>3. l = vl_lookup(1) /\ k = vl_lookup(0)
  BY <1>1, <1>2 DEF Layout
<1>4. /\ IsLayout(l) /\ Disjoint(l) /\ IsEntry(l, entry)
      /\ IsLayout(k) /\ Disjoint(k) /\ IsEntry(k, entry)
  BY <1>1, <1>2, LayoutFacts, EntryFits DEF Types
<1>5. \A e : PackLayout(e, 1) = l
  BY <1>1 DEF PackLayout
<1>6. PICK bits : bits = PackEntry(entry, 1)
  OBVIOUS
<1>7. bits = Pack(l, entry)
  BY <1>5, <1>6 DEF PackEntry
<1>8. PICK again : again = Loaded(bits)
  OBVIOUS
<1>9. again = Unpack(k, bits, Fields(table))
  BY <1>3, <1>8 DEF Loaded, Layout
<1>10. again \in Entries(table)
  BY <1>2, <1>9, UnpackedEntry DEF Types
<1>11. ASSUME NEW f \in Parts(l)
       PROVE  again[f.id] \cap 0..Width(f) - 1 = entry[f.id] \cap 0..Width(f) - 1
  <2>1. PICK g : g = Widened(f)
    OBVIOUS
  <2>2. /\ g \in Parts(k) /\ g.id = f.id /\ g.end = f.end /\ Bits(f) \subseteq Bits(g)
        /\ \A h \in Parts(l) : h # f => Bits(h) \cap Bits(g) = {}
    BY <1>3, <1>4, <2>1, WidenedField
  <2>3. bits \cap Bits(g) = bits \cap Bits(f)
    BY <1>7, <2>2, PackedInside
  <2>4. PICK ids : ids = Fields(table)
    OBVIOUS
  <2>5. g.id \in ids
    BY <1>4, <2>2, <2>4, PartsAreFields, EntryFits DEF IsEntry, Entries
  <2>6. again[g.id] = {b - g.end : b \in bits \cap Bits(g)}
    BY <1>4, <1>9, <2>2, <2>4, <2>5, UnpackedField
  <2>7. {b - f.end : b \in bits \cap Bits(f)} = entry[f.id] \cap 0..Width(f) - 1
    BY <1>4, <1>7, ReadBack
  <2> QED BY <2>2, <2>3, <2>6, <2>7
<1> QED BY <1>5, <1>6, <1>8, <1>10, <1>11 DEF Survives

LEMMA EntrySurvives ==
    ASSUME <<table, pqrs>> \in Followed, NEW fmt \in {0, 1}, NEW entry \in Entries(table)
    PROVE  Survives(entry, fmt)
BY SurvivesInTheSame, SurvivesInTheOther
-----------------------------------------------------------------------------
(***************************************************************************)
(* The type invariant.  Packing cuts every value, so the packed entry is   *)
(* as long as the table's size says whatever it is given.                  *)
(***************************************************************************)
LEMMA PackLayoutType ==
    ASSUME NEW fmt, NEW entry
    PROVE  \E type \in Types : PackLayout(entry, fmt) = Layout(table, pqrs, fmt, type)
<1>1. entry[Type] \cap {0} \in Types /\ {} \in Types
  BY DEF Types
<1> QED BY <1>1 DEF PackLayout

LEMMA ReservedInside == SgmiiReserved \subseteq 0..1151
BY DEF SgmiiReserved

LEMMA PackEntryInside ==
    ASSUME <<table, pqrs>> \in Followed, NEW fmt \in {0, 1}, NEW entry
    PROVE  PackEntry(entry, fmt) \subseteq 0..8 * Size(table, pqrs) - 1
<1>1. PICK type \in Types : PackLayout(entry, fmt) = Layout(table, pqrs, fmt, type)
  BY PackLayoutType
<1>2. PICK l : l = Layout(table, pqrs, fmt, type)
  OBVIOUS
<1>3. PICK s : s = 0..8 * Size(table, pqrs) - 1
  OBVIOUS
<1>4. \A f \in Parts(l) : Bits(f) \subseteq s
  BY <1>2, <1>3, LayoutFacts
<1>5. Pack(l, entry) \subseteq s
  BY <1>4, PackedInside
<1>6. table = "sgmii" => SgmiiReserved \subseteq s
  BY <1>3, ReservedInside DEF Size
<1> QED BY <1>1, <1>2, <1>3, <1>5, <1>6 DEF PackEntry

LEMMA WrittenAreFields ==
    ASSUME NEW t, NEW p, <<t, p>> \in Followed, NEW fmt \in {0, 1}, NEW type
    PROVE  Written(t, p, fmt, type) \subseteq Fields(t)
<1>1. t \in TableNames /\ p \in BOOLEAN
  BY FollowedTables
<1>2. CASE t = "vl_lookup"
  BY <1>2, IdsAreFields DEF Written, Layout, vl_lookup_write, Types
<1>3. CASE t = "vl_policing"
  <2>1. vl_policing(type) = vl_policing({}) \/ vl_policing(type) = vl_policing({0})
    BY DEF vl_policing
  <2> QED BY <1>3, <2>1, IdsAreFields DEF Written, Layout, vl_policing_write, Types
<1>4. CASE t # "vl_lookup" /\ t # "vl_policing"
  <2>1. Fields(t) = Ids(Layout(t, TRUE, 0, {})) \cup Ids(Layout(t, FALSE, 0, {}))
    BY DEF Fields
  <2>2. \/ Written(t, p, fmt, type) \subseteq Ids(Layout(t, TRUE, 0, {}))
        \/ Written(t, p, fmt, type) \subseteq Ids(Layout(t, FALSE, 0, {}))
    BY <1>1, <1>4
       DEF TableNames, Written, Layout, schedule_write, schedule_entry_points_write,
           l2_lookup_write, l2_policing_write, vlan_lookup_write, l2_forwarding_write,
           mac_config_write, schedule_params_write, schedule_entry_points_params_write,
           l2_lookup_params_write, l2_forwarding_params_write, general_params_write,
           xmii_params_write, sgmii_write, vl_forwarding_write, avb_params_write,
           vl_forwarding_params_write
  <2> QED BY <2>1, <2>2
<1> QED BY <1>2, <1>3, <1>4

XmlOK ==
    xml # NoXml =>
      /\ xml = [format |-> xml.format, fields |-> xml.fields]
      /\ xml.format \in {0, 1}
      /\ xml.fields = [id \in DOMAIN xml.fields |-> xml.fields[id]]
      /\ DOMAIN xml.fields \subseteq Fields(table)
      /\ \A id \in DOMAIN xml.fields : xml.fields[id] \subseteq Nat

EntryInv == TypeOK /\ XmlOK
LEMMA LoadedEntry ==
    ASSUME <<table, pqrs>> \in Followed, NEW bits
    PROVE  Loaded(bits) \in Entries(table)
<1>1. Loaded(bits) = Unpack(Layout(table, pqrs, 0, TypeBit(bits)), bits, Fields(table))
  BY DEF Loaded, TypeBit
<1> QED BY <1>1, TypeBitType, UnpackedEntry

LEMMA ExportedOK ==
    ASSUME EntryInv
    PROVE  /\ Exported = [format |-> Exported.format, fields |-> Exported.fields]
           /\ Exported.format = format
           /\ Exported.fields = [id \in DOMAIN Exported.fields |-> Load[id]]
           /\ DOMAIN Exported.fields
                = Written(table, pqrs, format,
                          IF table = "vl_policing" THEN Load[Type] ELSE {})
           /\ DOMAIN Exported.fields \subseteq Fields(table)
           /\ \A id \in DOMAIN Exported.fields : Exported.fields[id] \subseteq Nat
<1>1. <<table, pqrs>> \in Followed /\ format \in {0, 1}
  BY DEF EntryInv, TypeOK
<1>2. PICK type : type = IF table = "vl_policing" THEN Load[Type] ELSE {}
  OBVIOUS
<1>3. PICK fields : fields = [id \in Written(table, pqrs, format, type) |-> Load[id]]
  OBVIOUS
<1>4. Exported = [format |-> format, fields |-> fields]
  BY <1>2, <1>3 DEF Exported
<1>5. Load \in [Fields(table) -> SUBSET Nat]
  BY <1>1, LoadedEntry DEF Load, Entries
<1>6. Written(table, pqrs, format, type) \subseteq Fields(table)
  BY <1>1, WrittenAreFields
<1>7. Exported.format = format /\ Exported.fields = fields
  BY <1>4
<1> QED BY <1>2, <1>3, <1>4, <1>5, <1>6, <1>7

LEMMA SavedInside ==
    ASSUME EntryInv, NEW entry, NEW fmt \in {0, 1}, Save(entry, fmt)
    PROVE  file' \subseteq 0..8 * Size(table, pqrs) - 1
<1>1. <<table, pqrs>> \in Followed
  BY DEF EntryInv, TypeOK
<1> QED BY <1>1, PackEntryInside DEF Save

LEMMA EntryInit == Init => EntryInv
<1> SUFFICES ASSUME Init PROVE EntryInv
  OBVIOUS
<1>1. <<table, pqrs>> \in Followed /\ table \in TableNames
  <2>1. PICK f \in Followed : table = f[1] /\ pqrs = f[2]
    BY DEF Init
  <2>2. f = <<f[1], f[2]>>
    BY FollowedAssumption
  <2> QED BY <2>1, <2>2, FollowedTables
<1>2. file \subseteq 0..8 * Size(table, pqrs) - 1
  BY <1>1, PackEntryInside DEF Init
<1>3. edits \in 0..MaxEdits(table)
  <2>1. <<table, pqrs>>[1] = table
    OBVIOUS
  <2>2. MaxEdits(table) \in Nat
    BY <1>1, <2>1, MaxEditsAssumption
  <2> QED BY <2>2 DEF Init
<1>4. format = 0 /\ xml = NoXml /\ cmd.op = "none"
  BY DEF Init
<1> QED BY <1>1, <1>2, <1>3, <1>4 DEF EntryInv, TypeOK, XmlOK

LEMMA EditsCounted ==
    ASSUME EntryInv, edits < MaxEdits(table), edits' = edits + 1
    PROVE  edits' \in 0..MaxEdits(table)
<1>1. <<table, pqrs>> \in Followed /\ edits \in 0..MaxEdits(table)
  BY DEF EntryInv, TypeOK
<1>2. MaxEdits(table) \in Nat
  <2>1. <<table, pqrs>>[1] = table
    OBVIOUS
  <2> QED BY <1>1, <2>1, MaxEditsAssumption
<1> QED BY <1>1, <1>2

LEMMA EntryNext == EntryInv /\ [Next]_vars => EntryInv'
<1> SUFFICES ASSUME EntryInv, [Next]_vars PROVE EntryInv'
  OBVIOUS
<1>1. CASE Modify
  <2>1. PICK ids, v : ModifyField(ids, v)
    BY <1>1 DEF Modify
  <2>2. /\ UNCHANGED <<pqrs, table, format, xml>> /\ cmd'.op = "modify"
        /\ edits < MaxEdits(table) /\ edits' = edits + 1
        /\ \E entry : Save(entry, format)
    BY <2>1 DEF ModifyField
  <2>3. file' \subseteq 0..8 * Size(table, pqrs) - 1
    BY <2>2, SavedInside DEF EntryInv, TypeOK
  <2>4. edits' \in 0..MaxEdits(table)
    BY <2>2, EditsCounted
  <2> QED BY <2>2, <2>3, <2>4 DEF EntryInv, TypeOK, XmlOK
<1>2. CASE ModifyOther
  <2>1. file' \subseteq 0..8 * Size(table, pqrs) - 1
    BY <1>2, SavedInside DEF EntryInv, TypeOK, ModifyOther
  <2> QED BY <1>2, <2>1 DEF EntryInv, TypeOK, XmlOK, ModifyOther
<1>3. CASE ModifyFormat
  <2>1. file' \subseteq 0..8 * Size(table, pqrs) - 1
    BY <1>3, SavedInside DEF EntryInv, TypeOK, ModifyFormat
  <2>2. edits' \in 0..MaxEdits(table)
    BY <1>3, EditsCounted DEF ModifyFormat
  <2>3. format' \in {0, 1}
    BY <1>3 DEF EntryInv, TypeOK, ModifyFormat
  <2>4. UNCHANGED <<pqrs, table, xml>> /\ cmd'.op = "format"
    BY <1>3 DEF ModifyFormat
  <2> QED BY <2>1, <2>2, <2>3, <2>4 DEF EntryInv, TypeOK, XmlOK
<1>4. CASE Export
  <2>1. UNCHANGED <<pqrs, table, format, file, edits>> /\ cmd'.op = "export" /\ xml' = Exported
    BY <1>4 DEF Export
  <2>2. XmlOK' /\ DOMAIN xml'.fields \subseteq Fields(table) /\ xml'.format \in {0, 1}
    <3>1. format \in {0, 1}
      BY DEF EntryInv, TypeOK
    <3>2. PICK x : x = Exported
      OBVIOUS
    <3>3. /\ x = [format |-> x.format, fields |-> x.fields] /\ x.format \in {0, 1}
          /\ x.fields = [id \in DOMAIN x.fields |-> Load[id]]
          /\ DOMAIN x.fields \subseteq Fields(table)
          /\ \A id \in DOMAIN x.fields : x.fields[id] \subseteq Nat
      BY <3>1, <3>2, ExportedOK
    <3>4. x.fields = [id \in DOMAIN x.fields |-> x.fields[id]]
      BY <3>3
    <3>5. xml' = x /\ table' = table
      BY <2>1, <3>2
    <3> QED BY <3>3, <3>4, <3>5 DEF XmlOK
  <2> QED BY <2>1, <2>2 DEF EntryInv, TypeOK
<1>5. CASE EditXml
  <2>1. /\ UNCHANGED <<pqrs, table, format, file>> /\ cmd'.op = "edit" /\ xml # NoXml
        /\ edits < MaxEdits(table) /\ edits' = edits + 1
    BY <1>5 DEF EditXml
  <2>2. PICK form, fields : /\ xml = [format |-> form, fields |-> fields] /\ form \in {0, 1}
                            /\ fields = [x \in DOMAIN fields |-> fields[x]]
                            /\ DOMAIN fields \subseteq Fields(table)
                            /\ \A x \in DOMAIN fields : fields[x] \subseteq Nat
    BY <2>1 DEF EntryInv, XmlOK
  <2>3. PICK id \in DOMAIN fields :
          \/ \E v \in Values : xml' = [xml EXCEPT !.fields[id] = v]
          \/ xml' = [xml EXCEPT !.fields = [x \in DOMAIN fields \ {id} |-> fields[x]]]
    <3>1. xml.fields = fields
      BY <2>2
    <3> QED BY <1>5, <3>1 DEF EditXml
  <2>4. PICK changed : /\ xml' = [format |-> form, fields |-> changed]
                       /\ changed = [x \in DOMAIN changed |-> changed[x]]
                       /\ DOMAIN changed \subseteq Fields(table)
                       /\ \A x \in DOMAIN changed : changed[x] \subseteq Nat
    <3>1. ASSUME NEW v \in Values, xml' = [xml EXCEPT !.fields[id] = v]
          PROVE  \E changed : /\ xml' = [format |-> form, fields |-> changed]
                              /\ changed = [x \in DOMAIN changed |-> changed[x]]
                              /\ DOMAIN changed \subseteq Fields(table)
                              /\ \A x \in DOMAIN changed : changed[x] \subseteq Nat
      <4>1. PICK c : c = [fields EXCEPT ![id] = v]
        OBVIOUS
      <4>2. xml' = [format |-> form, fields |-> c]
        BY <2>2, <3>1, <4>1
      <4>3. v \subseteq Nat
        BY ValuesAssumption
      <4>4. /\ DOMAIN c = DOMAIN fields /\ c = [x \in DOMAIN c |-> c[x]]
            /\ \A x \in DOMAIN c : c[x] \subseteq Nat
        BY <2>2, <4>1, <4>3
      <4> QED BY <2>2, <4>2, <4>4
    <3>2. ASSUME xml' = [xml EXCEPT !.fields = [x \in DOMAIN fields \ {id} |-> fields[x]]]
          PROVE  \E changed : /\ xml' = [format |-> form, fields |-> changed]
                              /\ changed = [x \in DOMAIN changed |-> changed[x]]
                              /\ DOMAIN changed \subseteq Fields(table)
                              /\ \A x \in DOMAIN changed : changed[x] \subseteq Nat
      <4>1. PICK c : c = [x \in DOMAIN fields \ {id} |-> fields[x]]
        OBVIOUS
      <4>2. xml' = [format |-> form, fields |-> c]
        BY <2>2, <3>2, <4>1
      <4>3. /\ DOMAIN c \subseteq DOMAIN fields /\ c = [x \in DOMAIN c |-> c[x]]
            /\ \A x \in DOMAIN c : c[x] \subseteq Nat
        BY <2>2, <4>1
      <4> QED BY <2>2, <4>2, <4>3
    <3> QED BY <2>3, <3>1, <3>2
  <2>5. edits' \in 0..MaxEdits(table)
    BY <2>1, EditsCounted
  <2>6. xml'.format = form /\ xml'.fields = changed
    BY <2>4
  <2>7. XmlOK'
    BY <2>1, <2>2, <2>4, <2>6 DEF XmlOK
  <2> QED BY <2>1, <2>2, <2>4, <2>5, <2>6, <2>7 DEF EntryInv, TypeOK
<1>6. CASE Import
  <2>1. UNCHANGED <<pqrs, table, xml, edits>> /\ cmd'.op = "import" /\ xml # NoXml
    BY <1>6 DEF Import
  <2>2. \/ Save(Imported, 0) /\ format' = xml.format
        \/ UNCHANGED <<file, format>>
    BY <1>6 DEF Import
  <2>3. file' \subseteq 0..8 * Size(table, pqrs) - 1
    BY <2>2, SavedInside DEF EntryInv, TypeOK
  <2>4. format' \in {0, 1}
    BY <2>1, <2>2 DEF EntryInv, TypeOK
  <2> QED BY <2>1, <2>3, <2>4 DEF EntryInv, TypeOK, XmlOK
<1>7. CASE UNCHANGED vars
  BY <1>7 DEF EntryInv, TypeOK, XmlOK, vars
<1> QED BY <1>1, <1>2, <1>3, <1>4, <1>5, <1>6, <1>7 DEF Next

LEMMA EntryInvHolds == Spec => []EntryInv
BY EntryInit, EntryNext, PTL DEF Spec

(***************************************************************************)
(* An entry in the staging area never outgrows its table's size, and what  *)
(* is exported are fields of its structure, whatever was edited.           *)
(***************************************************************************)
THEOREM EntryTypeCorrect == Spec => []TypeOK
<1>1. EntryInv => TypeOK
  BY DEF EntryInv
<1> QED BY <1>1, EntryInvHolds, PTL
-----------------------------------------------------------------------------
(***************************************************************************)
(* What the switch is given for the entry.                                 *)
(***************************************************************************)
\* c gives every field of the layout, but the index, the value of entry cut
\* to the width of the field.
Means(c, layout, entry) ==
    /\ c = [id \in Ids(layout) \ {Index} |-> c[id]]
    /\ \A f \in Parts(layout) : f.id # Index => c[f.id] = entry[f.id] \cap 0..Width(f) - 1

LEMMA ContentOf ==
    ASSUME NEW bits, NEW fmt \in {0, 1}, <<table, pqrs>> \in Followed
    PROVE  Means(Content(bits, fmt), PackLayout(Loaded(bits), fmt), Loaded(bits))
<1>1. PICK entry : entry = Loaded(bits)
  OBVIOUS
<1>2. PICK layout : layout = PackLayout(entry, fmt)
  OBVIOUS
<1>3. PICK stored : stored = Stored(layout, entry)
  OBVIOUS
<1>4. PICK c : c = Content(bits, fmt)
  OBVIOUS
<1>5. c = [id \in Ids(layout) \ {Index} |-> stored[id]]
  BY <1>1, <1>2, <1>3, <1>4 DEF Content
<1>6. PICK type \in Types : layout = Layout(table, pqrs, fmt, type)
  BY <1>2, PackLayoutType
<1>7. IsLayout(layout) /\ Disjoint(layout)
  BY <1>6, LayoutFacts
<1>8. IsEntry(layout, entry)
  BY <1>1, <1>6, LoadedEntry, EntryFits
<1>9. ASSUME NEW f \in Parts(layout)
      PROVE  f.id \in Ids(layout) /\ stored[f.id] = entry[f.id] \cap 0..Width(f) - 1
  <2>1. f.id \in Ids(layout) /\ f.id \in DOMAIN entry
    BY <1>7, <1>8, PartsAreFields DEF IsEntry
  <2> QED BY <1>3, <1>7, <2>1, StoredField
<1>10. Means(c, layout, entry)
  BY <1>5, <1>9 DEF Means
<1> QED BY <1>1, <1>2, <1>4, <1>10

\* A saved entry means what was saved.
LEMMA ContentOfSaved ==
    ASSUME NEW fmt \in {0, 1}, <<table, pqrs>> \in Followed, NEW entry \in Entries(table)
    PROVE  /\ PackLayout(Loaded(PackEntry(entry, fmt)), fmt) = PackLayout(entry, fmt)
           /\ Means(Content(PackEntry(entry, fmt), fmt), PackLayout(entry, fmt), entry)
<1>1. PICK bits : bits = PackEntry(entry, fmt)
  OBVIOUS
<1>2. PICK again : again = Loaded(bits)
  OBVIOUS
<1>3. PICK layout : layout = PackLayout(entry, fmt)
  OBVIOUS
<1>4. PICK c : c = Content(bits, fmt)
  OBVIOUS
<1>5. /\ PackLayout(again, fmt) = layout
      /\ \A f \in Parts(layout) : again[f.id] \cap 0..Width(f) - 1 = entry[f.id] \cap 0..Width(f) - 1
  BY <1>1, <1>2, <1>3, EntrySurvives DEF Survives
<1>6. Means(c, layout, again)
  BY <1>2, <1>4, <1>5, ContentOf
<1>7. Means(c, layout, entry)
  BY ONLY <1>5, <1>6 DEF Means
<1> QED BY <1>1, <1>2, <1>3, <1>4, <1>5, <1>7

LEMMA IndexedEntry ==
    ASSUME <<table, pqrs>> \in Followed, NEW entry \in Entries(table), NEW e \in Indexed(entry),
           NEW fmt
    PROVE  /\ e \in Entries(table)
           /\ \A id \in Fields(table) : id # Index => e[id] = entry[id]
           /\ PackLayout(e, fmt) = PackLayout(entry, fmt)
<1>1. CASE table = "l2_lookup"
  <2>1. PICK i \in FdbIndices : e = [entry EXCEPT ![Index] = i]
    BY <1>1 DEF Indexed
  <2>2. i \subseteq Nat
    BY FdbIndicesAssumption
  <2>3. e \in Entries(table) /\ \A id \in Fields(table) : id # Index => e[id] = entry[id]
    BY <2>1, <2>2 DEF Entries
  <2>4. PackLayout(e, fmt) = PackLayout(entry, fmt)
    BY <1>1 DEF PackLayout
  <2> QED BY <2>3, <2>4
<1>2. CASE table # "l2_lookup"
  BY <1>2 DEF Indexed
<1> QED BY <1>1, <1>2

LEMMA PartsInFields ==
    ASSUME <<table, pqrs>> \in Followed, NEW entry, NEW fmt \in {0, 1},
           NEW f \in Parts(PackLayout(entry, fmt))
    PROVE  f.id \in Fields(table)
<1>1. PICK type \in Types : PackLayout(entry, fmt) = Layout(table, pqrs, fmt, type)
  BY PackLayoutType
<1>2. PICK l : l = Layout(table, pqrs, fmt, type)
  OBVIOUS
<1>3. Ids(l) \subseteq Fields(table)
  BY <1>2, IdsAreFields
<1> QED BY <1>1, <1>2, <1>3, IdsOfParts

(***************************************************************************)
(* What a save leaves: the values of the entry that was given, whatever    *)
(* index the FDB hash chose for it.                                        *)
(***************************************************************************)
LEMMA ContentAfterSave ==
    ASSUME <<table, pqrs>> \in Followed, NEW fmt \in {0, 1}, NEW entry \in Entries(table),
           Save(entry, fmt)
    PROVE  /\ PackLayout(Loaded(file'), fmt) = PackLayout(entry, fmt)
           /\ Means(Content(file', fmt), PackLayout(entry, fmt), entry)
<1>1. PICK e \in Indexed(entry) : file' = PackEntry(e, fmt)
  BY DEF Save
<1>2. /\ e \in Entries(table)
      /\ \A id \in Fields(table) : id # Index => e[id] = entry[id]
      /\ PackLayout(e, fmt) = PackLayout(entry, fmt)
  BY IndexedEntry
<1>3. PICK layout : layout = PackLayout(entry, fmt)
  OBVIOUS
<1>4. PICK c : c = Content(file', fmt)
  OBVIOUS
<1>5. PackLayout(Loaded(file'), fmt) = layout /\ Means(c, layout, e)
  BY <1>1, <1>2, <1>3, <1>4, ContentOfSaved
<1>6. \A f \in Parts(layout) : f.id # Index => e[f.id] = entry[f.id]
  BY <1>2, <1>3, PartsInFields
<1>7. Means(c, layout, entry)
  BY ONLY <1>5, <1>6 DEF Means
<1> QED BY <1>3, <1>4, <1>5, <1>7

\* Two contents in the same layout with the same values.
LEMMA SameMeaning ==
    ASSUME NEW layout, NEW a, NEW b, NEW x, NEW y, Means(a, layout, x), Means(b, layout, y),
           \A f \in Parts(layout) : f.id # Index =>
             x[f.id] \cap 0..Width(f) - 1 = y[f.id] \cap 0..Width(f) - 1
    PROVE  a = b
<1>1. ASSUME NEW id \in Ids(layout) \ {Index} PROVE a[id] = b[id]
  <2>1. PICK f \in Parts(layout) : f.id = id
    BY IdsOfParts
  <2>2. a[f.id] = x[f.id] \cap 0..Width(f) - 1 /\ b[f.id] = y[f.id] \cap 0..Width(f) - 1
    BY <1>1, <2>1 DEF Means
  <2> QED BY <1>1, <2>1, <2>2
<1>2. /\ a = [id \in Ids(layout) \ {Index} |-> a[id]]
      /\ b = [id \in Ids(layout) \ {Index} |-> b[id]]
  BY DEF Means
<1> QED BY <1>1, <1>2

(***************************************************************************)
(* Saving, as the format in force has it, what means the same for every    *)
(* field of the entry's layout leaves the meaning.                         *)
(***************************************************************************)
LEMMA SavedTheSame ==
    ASSUME EntryInv, NEW entry \in Entries(table), Save(entry, format),
           PackLayout(entry, format) = PackLayout(Load, format),
           \A f \in Parts(PackLayout(Load, format)) : f.id # Index => entry[f.id] = Load[f.id]
    PROVE  Content(file', format) = Content(file, format)
<1>1. <<table, pqrs>> \in Followed /\ format \in {0, 1}
  BY DEF EntryInv, TypeOK
<1>2. PICK l : l = PackLayout(Load, format)
  OBVIOUS
<1>3. PICK a : a = Content(file, format)
  OBVIOUS
<1>4. PICK b : b = Content(file', format)
  OBVIOUS
<1>5. Means(a, l, Load)
  BY <1>1, <1>2, <1>3, ContentOf DEF Load
<1>6. Means(b, l, entry)
  BY <1>1, <1>2, <1>4, ContentAfterSave
<1>7. a = b
  BY <1>2, <1>5, <1>6, SameMeaning
<1> QED BY <1>3, <1>4, <1>7

LEMMA OthersKeepStep ==
    ASSUME EntryInv, [Next]_vars, ~UNCHANGED vars, cmd'.op \in {"other", "export", "edit"}
    PROVE  After = Before
<1>1. CASE ModifyOther
  <2>1. <<table, pqrs>> \in Followed
    BY DEF EntryInv, TypeOK
  <2>2. Load \in Entries(table)
    BY <2>1, LoadedEntry DEF Load
  <2>3. Save(Load, format) /\ format' = format
    BY <1>1 DEF ModifyOther
  <2>4. Content(file', format) = Content(file, format)
    BY <2>2, <2>3, SavedTheSame
  <2> QED BY <2>3, <2>4 DEF After, Before
<1>2. CASE Export \/ EditXml
  BY <1>2 DEF Export, EditXml, After, Before
<1>3. ~(Modify \/ ModifyFormat \/ Import)
  <2>1. Modify => cmd'.op = "modify"
    BY DEF Modify, ModifyField
  <2>2. ModifyFormat => cmd'.op = "format"
    BY DEF ModifyFormat
  <2>3. Import => cmd'.op = "import"
    BY DEF Import
  <2>4. PICK op : op = cmd'.op
    OBVIOUS
  <2> QED BY <2>1, <2>2, <2>3, <2>4
<1> QED BY <1>1, <1>2, <1>3 DEF Next

(***************************************************************************)
(* A command about something else leaves what the switch is given for the  *)
(* entry alone, even when a VL lookup entry is in the staging area in the  *)
(* format that was in force before vllupformat changed.                    *)
(***************************************************************************)
THEOREM OthersKeep == Spec => OthersKeepTheEntry
<1>1. EntryInv /\ [Next]_vars
        => [cmd'.op \in {"other", "export", "edit"} => After = Before]_vars
  BY OthersKeepStep
<1> QED BY <1>1, EntryInvHolds, PTL DEF Spec, OthersKeepTheEntry
-----------------------------------------------------------------------------
(***************************************************************************)
(* Editing a field.                                                        *)
(***************************************************************************)
\* Fields of the same id are the same field, whatever the type.
LEMMA FieldsAgree ==
    ASSUME NEW t, NEW p, <<t, p>> \in Followed, NEW fmt \in {0, 1},
           NEW a \in Types, NEW b \in Types,
           NEW f \in Parts(Layout(t, p, fmt, a)), NEW g \in Parts(Layout(t, p, fmt, b)),
           f.id = g.id
    PROVE  f = g
<1>1. t \in TableNames
  BY FollowedTables
<1>2. CASE t = "vl_policing"
  <2>1. Parts(vl_policing({0})) \subseteq Parts(vl_policing({}))
    BY VlPolicingParts
  <2>2. PICK l : l = Layout(t, p, fmt, {})
    OBVIOUS
  <2>3. f \in Parts(l) /\ g \in Parts(l)
    BY <1>2, <2>1, <2>2 DEF Layout, Types
  <2>4. Disjoint(l)
    BY <2>2, LayoutFacts DEF Types
  <2> QED BY <2>3, <2>4, PartsApart
<1>3. CASE t # "vl_policing"
  <2>1. PICK l : l = Layout(t, p, fmt, a)
    OBVIOUS
  <2>2. Layout(t, p, fmt, b) = l
    <3>1. CASE t = "vl_lookup"
      BY <2>1, <3>1 DEF Layout
    <3>2. CASE t # "vl_lookup"
      BY <1>1, <1>3, <2>1, <3>2, TwoVary
    <3> QED BY <3>1, <3>2
  <2>3. f \in Parts(l) /\ g \in Parts(l)
    BY <2>1, <2>2
  <2>4. Disjoint(l)
    BY <2>1, LayoutFacts
  <2> QED BY <2>3, <2>4, PartsApart
<1> QED BY <1>2, <1>3

LEMMA LoadedType ==
    ASSUME <<table, pqrs>> \in Followed, table = "vl_policing", NEW bits
    PROVE  Loaded(bits)[Type] = TypeBit(bits) /\ Loaded(bits)[Type] \in Types
<1>1. PICK kind : kind = TypeBit(bits) /\ kind \in Types
  BY TypeBitType
<1>2. PICK l : l = vl_policing(kind)
  OBVIOUS
<1>3. PICK ids : ids = Fields(table)
  OBVIOUS
<1>4. Loaded(bits) = Unpack(l, bits, ids)
  BY <1>1, <1>2, <1>3 DEF Loaded, TypeBit, Layout
<1>5. IsLayout(l) /\ Disjoint(l) /\ Ids(l) \subseteq ids
  <2>1. l = Layout(table, pqrs, 0, kind)
    BY <1>2 DEF Layout
  <2> QED BY <1>1, <1>3, <2>1, LayoutFacts, IdsAreFields
<1>6. PICK g \in Parts(l) : g = Field("type", 63, 63)
  BY <1>1, <1>2, TypeField
<1>7. g.id = Type /\ g.end = 63 /\ Bits(g) = {63}
  BY <1>6 DEF Field, Type, Bits
<1>8. Unpack(l, bits, ids)[g.id] = {b - g.end : b \in bits \cap Bits(g)}
  BY <1>5, IdsOfParts, UnpackedField
<1> QED BY <1>1, <1>4, <1>7, <1>8 DEF TypeBit

(***************************************************************************)
(* A field that an entry has under some type but not under the type found  *)
(* in the staging area is loaded as 0.                                     *)
(***************************************************************************)
LEMMA AbsentIsZero ==
    ASSUME NEW bits, NEW fmt \in {0, 1}, <<table, pqrs>> \in Followed, NEW type \in Types,
           NEW f \in Parts(Layout(table, pqrs, fmt, type)),
           f.id \notin Ids(PackLayout(Loaded(bits), fmt))
    PROVE  Loaded(bits)[f.id] = {}
<1>1. f.id \in Fields(table)
  BY IdsAreFields, IdsOfParts
<1>2. CASE table = "vl_policing"
  <2>1. PICK kind : kind = TypeBit(bits) /\ kind \in Types
    BY TypeBitType
  <2>2. PICK l : l = vl_policing(kind)
    OBVIOUS
  <2>3. PICK ids : ids = Fields(table)
    OBVIOUS
  <2>4. PICK again : again = Loaded(bits)
    OBVIOUS
  <2>5. again = Unpack(l, bits, ids)
    BY <1>2, <2>1, <2>2, <2>3, <2>4 DEF Loaded, TypeBit, Layout
  <2>6. IsLayout(l) /\ Disjoint(l) /\ Ids(l) \subseteq ids
    <3>1. l = Layout(table, pqrs, fmt, kind)
      BY <1>2, <2>2 DEF Layout
    <3> QED BY <2>1, <2>3, <3>1, LayoutFacts, IdsAreFields
  <2>7. again[Type] \cap {0} = kind
    BY <1>2, <2>1, <2>4, LoadedType DEF Types
  <2>8. PackLayout(again, fmt) = l
    BY <1>2, <2>2, <2>7 DEF PackLayout, Layout
  <2>9. f.id \notin Ids(l) /\ f.id \in ids
    BY <1>1, <2>3, <2>4, <2>8
  <2> QED BY <2>4, <2>5, <2>9, UnpackedNothing
<1>3. CASE table # "vl_policing"
  <2>1. PICK l : l = Layout(table, pqrs, fmt, type)
    OBVIOUS
  <2>2. table \in TableNames
    BY FollowedTables
  <2>3. Layout(table, pqrs, fmt, {}) = l
    <3>1. CASE table = "vl_lookup"
      BY <2>1, <3>1 DEF Layout
    <3>2. CASE table # "vl_lookup"
      BY <1>3, <2>1, <2>2, <3>2, TwoVary
    <3> QED BY <3>1, <3>2
  <2>4. PackLayout(Loaded(bits), fmt) = l
    BY <1>3, <2>3 DEF PackLayout
  <2> QED BY <2>1, <2>4, IdsOfParts
<1> QED BY <1>2, <1>3

LEMMA EditStep ==
    ASSUME EntryInv, NEW ids, NEW v \in Values, ModifyField(ids, v),
           NEW id \in DOMAIN After
    PROVE  After[id] = IF id \in ids THEN Fitted(v, id, PackLayout(Loaded(file'), format'))
                       ELSE IF id \in DOMAIN Before THEN Before[id] ELSE {}
<1>1. <<table, pqrs>> \in Followed /\ format \in {0, 1} /\ format' = format
  BY DEF EntryInv, TypeOK, ModifyField
<1>2. PICK old : old = Load /\ old \in Entries(table)
  BY <1>1, LoadedEntry DEF Load
<1>3. PICK new : new = [x \in Fields(table) |-> IF x \in ids THEN v ELSE old[x]]
  OBVIOUS
<1>4. DOMAIN old = Fields(table)
  BY <1>2 DEF Entries
<1>5. Save(new, format)
  BY <1>2, <1>3, <1>4 DEF ModifyField
<1>6. new \in Entries(table)
  BY <1>2, <1>3, ValuesAssumption DEF Entries
<1>7. PICK l : l = PackLayout(new, format)
  OBVIOUS
<1>8. PICK k : k = PackLayout(old, format)
  OBVIOUS
<1>9. PICK a : a = After
  OBVIOUS
<1>10. PICK b : b = Before
  OBVIOUS
<1>11. PackLayout(Loaded(file'), format') = l /\ Means(a, l, new)
  BY <1>1, <1>5, <1>6, <1>7, <1>9, ContentAfterSave DEF After
<1>12. Means(b, k, old)
  BY <1>1, <1>2, <1>8, <1>10, ContentOf DEF Before, Load
<1>13. id \in Ids(l) /\ id # Index
  <2>1. a = [x \in Ids(l) \ {Index} |-> a[x]] /\ id \in DOMAIN a
    BY <1>9, <1>11 DEF Means
  <2> QED BY <2>1
<1>14. PICK f \in Parts(l) : f.id = id
  BY <1>13, IdsOfParts
<1>15. id \in Fields(table)
  BY <1>1, <1>7, <1>14, PartsInFields
<1>16. a[id] = new[id] \cap 0..Width(f) - 1
  BY <1>11, <1>13, <1>14 DEF Means
<1>17. PICK type \in Types : l = Layout(table, pqrs, format, type)
  BY <1>7, PackLayoutType
<1>18. PICK kind \in Types : k = Layout(table, pqrs, format, kind)
  BY <1>8, PackLayoutType
<1>19. CASE id \in ids
  <2>1. Fitted(v, f.id, l) = v \cap 0..Width(f) - 1
    BY <1>1, <1>17, LayoutFacts, FittedField
  <2> QED BY <1>3, <1>9, <1>11, <1>14, <1>15, <1>16, <1>19, <2>1
<1>20. CASE id \notin ids
  <2>1. a[id] = old[id] \cap 0..Width(f) - 1
    BY <1>3, <1>15, <1>16, <1>20
  <2>2. DOMAIN b = Ids(k) \ {Index}
    <3>1. b = [x \in Ids(k) \ {Index} |-> b[x]]
      BY <1>12 DEF Means
    <3> QED BY <3>1
  <2>3. CASE id \in Ids(k)
    <3>1. PICK g \in Parts(k) : g.id = id
      BY <2>3, IdsOfParts
    <3>2. g = f
      BY <1>1, <1>14, <1>17, <1>18, <3>1, FieldsAgree
    <3>3. b[id] = old[id] \cap 0..Width(f) - 1
      BY <1>12, <1>13, <3>1, <3>2 DEF Means
    <3> QED BY <1>9, <1>10, <1>13, <1>20, <2>1, <2>2, <2>3, <3>3
  <2>4. CASE id \notin Ids(k)
    <3>1. old[id] = {}
      BY <1>1, <1>2, <1>8, <1>14, <1>17, <2>4, AbsentIsZero DEF Load
    <3>2. a[id] = {}
      BY <2>1, <3>1
    <3> QED BY <1>9, <1>10, <1>20, <2>2, <2>4, <3>2
  <2> QED BY <2>3, <2>4
<1> QED BY <1>19, <1>20

(***************************************************************************)
(* Setting a field changes what the switch is given for that field, to the *)
(* value cut to its width, and for no other field of the entry.            *)
(***************************************************************************)
THEOREM EditExact == Spec => EditIsExact
<1> DEFINE Exact == LET before == Before
                        after == After
                        layout == PackLayout(Loaded(file'), format')
                    IN  \A id \in DOMAIN after :
                          after[id] = IF id \in cmd'.ids THEN Fitted(cmd'.value, id, layout)
                                      ELSE IF id \in DOMAIN before THEN before[id] ELSE {}
<1>1. ASSUME EntryInv, Next, cmd'.op = "modify" PROVE Exact
  <2>1. CASE Modify
    <3>1. PICK ids \in Arguments(table), v \in Values : ModifyField(ids, v)
      BY <2>1 DEF Modify
    <3>2. cmd'.ids = ids /\ cmd'.value = v
      BY <3>1 DEF ModifyField
    <3> QED BY <1>1, <3>1, <3>2, EditStep
  <2>2. ~(ModifyOther \/ ModifyFormat \/ Export \/ EditXml \/ Import)
    <3>1. ModifyOther => cmd'.op = "other"
      BY DEF ModifyOther
    <3>2. ModifyFormat => cmd'.op = "format"
      BY DEF ModifyFormat
    <3>3. Export => cmd'.op = "export"
      BY DEF Export
    <3>4. EditXml => cmd'.op = "edit"
      BY DEF EditXml
    <3>5. Import => cmd'.op = "import"
      BY DEF Import
    <3>6. PICK op : op = cmd'.op
      OBVIOUS
    <3> QED BY <1>1, <3>1, <3>2, <3>3, <3>4, <3>5, <3>6
  <2> QED BY <1>1, <2>1, <2>2 DEF Next
<1>2. EntryInv /\ [Next]_vars => [cmd'.op = "modify" => Exact]_vars
  BY <1>1
<1> QED BY <1>2, EntryInvHolds, PTL DEF Spec, EditIsExact
-----------------------------------------------------------------------------
(***************************************************************************)
(* Export and import.  The fields of an E/T entry are among those of a     *)
(* P/Q/R/S entry, wherever the lists of the XML files name only the        *)
(* latter.                                                                 *)
(***************************************************************************)
Listed(layout) == layout \in Seq(Parts(layout))

Names(name, n) == {<<name, i - 1>> : i \in 1..n}
NameOf(name) == <<name, 0>>

LEMMA ListedScalar ==
    ASSUME NEW name, NEW start, NEW end
    PROVE  Listed(Scalar(name, start, end)) /\ Ids(Scalar(name, start, end)) = {NameOf(name)}
BY DEF Listed, Scalar, Parts, Ids, NameOf

LEMMA ListedArray ==
    ASSUME NEW name, NEW offset, NEW step, NEW hi, NEW lo
    PROVE  /\ Listed(Array(name, 8, offset, step, hi, lo))
           /\ Ids(Array(name, 8, offset, step, hi, lo)) = Names(name, 8)
<1>1. PICK n \in Nat : n = 8
  OBVIOUS
<1>2. PICK a : a = Array(name, n, offset, step, hi, lo)
  OBVIOUS
<1>3. /\ a = [i \in 1..n |-> [id |-> <<name, i - 1>>, start |-> offset + (i - 1) * step + hi,
                              end |-> offset + (i - 1) * step + lo]]
  BY <1>2 DEF Array
<1>4. DOMAIN a = 1..n /\ \A i \in 1..n : a[i].id = <<name, i - 1>>
  BY <1>3
<1>5. a = [i \in 1..n |-> a[i]] /\ \A i \in 1..n : a[i] \in Parts(a)
  BY <1>3, <1>4 DEF Parts
<1>6. a \in Seq(Parts(a))
  BY <1>1, <1>5
<1>7. Ids(a) = Names(name, n)
  BY <1>4 DEF Ids, Names
<1> QED BY <1>1, <1>2, <1>6, <1>7 DEF Listed

LEMMA ListedBoth ==
    ASSUME NEW a, Listed(a), NEW b, Listed(b)
    PROVE  Listed(a \o b) /\ Ids(a \o b) = Ids(a) \cup Ids(b)
<1>1. MadeOf(a, Parts(a)) /\ MadeOf(b, Parts(b))
  BY DEF Listed, MadeOf
<1>2. PICK c : c = a \o b
  OBVIOUS
<1>3. MadeOf(c, Parts(a) \cup Parts(b))
  BY <1>1, <1>2, MadeOfBoth
<1>4. c \in Seq(Parts(a) \cup Parts(b)) /\ Parts(c) = Parts(a) \cup Parts(b)
  BY <1>3 DEF MadeOf
<1>5. Ids(c) = Ids(a) \cup Ids(b)
  BY <1>4, IdsOfParts
<1> QED BY <1>2, <1>4, <1>5 DEF Listed

LEMMA ListedMore ==
    ASSUME NEW a, Listed(a), NEW n, NEW s, NEW e
    PROVE  /\ Listed(a \o Scalar(n, s, e))
           /\ Ids(a \o Scalar(n, s, e)) = Ids(a) \cup {NameOf(n)}
BY ListedScalar, ListedBoth

LEMMA AvbIdsGrow == Ids(avb_params_et) \subseteq Ids(avb_params_pqrs)
<1>1. Ids(avb_params_et) = {NameOf("destmeta")} \cup {NameOf("srcmeta")}
  BY ListedScalar, ListedMore DEF avb_params_et
<1>2. {NameOf("destmeta")} \cup {NameOf("srcmeta")} \subseteq Ids(avb_params_pqrs)
  BY ListedScalar, ListedMore DEF avb_params_pqrs
<1> QED BY <1>1, <1>2

LEMMA GeneralIdsGrow == Ids(general_params_et) \subseteq Ids(general_params_pqrs)
<1>1. PICK a : a = Scalar("vllupformat", 319, 319) \o Scalar("mirr_ptacu", 318, 318)
                   \o Scalar("switchid", 317, 315) \o Scalar("hostprio", 314, 312)
                   \o Scalar("mac_fltres1", 311, 264) \o Scalar("mac_fltres0", 263, 216)
  OBVIOUS
<1>2. Listed(a) /\ Ids(a) = {NameOf("vllupformat")} \cup {NameOf("mirr_ptacu")}
          \cup {NameOf("switchid")} \cup {NameOf("hostprio")} \cup {NameOf("mac_fltres1")}
          \cup {NameOf("mac_fltres0")}
  <2>1. PICK m : m = Scalar("vllupformat", 319, 319) \o Scalar("mirr_ptacu", 318, 318)
                     \o Scalar("switchid", 317, 315)
    OBVIOUS
  <2>2. Listed(m) /\ Ids(m) = {NameOf("vllupformat")} \cup {NameOf("mirr_ptacu")}
            \cup {NameOf("switchid")}
    BY <2>1, ListedScalar, ListedMore
  <2>3. a = m \o Scalar("hostprio", 314, 312) \o Scalar("mac_fltres1", 311, 264)
            \o Scalar("mac_fltres0", 263, 216)
    BY <1>1, <2>1
  <2>4. Listed(a) /\ Ids(a) = Ids(m) \cup {NameOf("hostprio")} \cup {NameOf("mac_fltres1")}
            \cup {NameOf("mac_fltres0")}
    BY ONLY <2>2, <2>3, ListedMore
  <2> QED BY ONLY <2>2, <2>4
<1>3. PICK b : b = a \o Scalar("mac_flt1", 215, 168) \o Scalar("mac_flt0", 167, 120)
                   \o Scalar("incl_srcpt1", 119, 119) \o Scalar("incl_srcpt0", 118, 118)
                   \o Scalar("send_meta1", 117, 117) \o Scalar("send_meta0", 116, 116)
  OBVIOUS
<1>4. Listed(b) /\ Ids(b) = Ids(a) \cup {NameOf("mac_flt1")} \cup {NameOf("mac_flt0")}
          \cup {NameOf("incl_srcpt1")} \cup {NameOf("incl_srcpt0")} \cup {NameOf("send_meta1")}
          \cup {NameOf("send_meta0")}
  <2>1. PICK m : m = a \o Scalar("mac_flt1", 215, 168) \o Scalar("mac_flt0", 167, 120)
                     \o Scalar("incl_srcpt1", 119, 119)
    OBVIOUS
  <2>2. Listed(m) /\ Ids(m) = Ids(a) \cup {NameOf("mac_flt1")} \cup {NameOf("mac_flt0")}
            \cup {NameOf("incl_srcpt1")}
    BY <1>2, <2>1, ListedMore
  <2>3. b = m \o Scalar("incl_srcpt0", 118, 118) \o Scalar("send_meta1", 117, 117)
            \o Scalar("send_meta0", 116, 116)
    BY <1>3, <2>1
  <2>4. Listed(b) /\ Ids(b) = Ids(m) \cup {NameOf("incl_srcpt0")} \cup {NameOf("send_meta1")}
            \cup {NameOf("send_meta0")}
    BY ONLY <2>2, <2>3, ListedMore
  <2> QED BY ONLY <2>2, <2>4
<1>5. PICK c : c = b \o Scalar("casc_port", 115, 113) \o Scalar("host_port", 112, 110)
                   \o Scalar("mirr_port", 109, 107) \o Scalar("vlmarker", 106, 75)
                   \o Scalar("vlmask", 74, 43) \o Scalar("tpid", 42, 27)
  OBVIOUS
<1>6. Listed(c) /\ Ids(c) = Ids(b) \cup {NameOf("casc_port")} \cup {NameOf("host_port")}
          \cup {NameOf("mirr_port")} \cup {NameOf("vlmarker")} \cup {NameOf("vlmask")}
          \cup {NameOf("tpid")}
  <2>1. PICK m : m = b \o Scalar("casc_port", 115, 113) \o Scalar("host_port", 112, 110)
                     \o Scalar("mirr_port", 109, 107)
    OBVIOUS
  <2>2. Listed(m) /\ Ids(m) = Ids(b) \cup {NameOf("casc_port")} \cup {NameOf("host_port")}
            \cup {NameOf("mirr_port")}
    BY <1>4, <2>1, ListedMore
  <2>3. c = m \o Scalar("vlmarker", 106, 75) \o Scalar("vlmask", 74, 43)
            \o Scalar("tpid", 42, 27)
    BY <1>5, <2>1
  <2>4. Listed(c) /\ Ids(c) = Ids(m) \cup {NameOf("vlmarker")} \cup {NameOf("vlmask")}
            \cup {NameOf("tpid")}
    BY ONLY <2>2, <2>3, ListedMore
  <2> QED BY ONLY <2>2, <2>4
<1>7. PICK d : d = c \o Scalar("ignore2stf", 26, 26) \o Scalar("tpid2", 25, 10)
  OBVIOUS
<1>8. Listed(d) /\ Ids(d) = Ids(c) \cup {NameOf("ignore2stf")} \cup {NameOf("tpid2")}
  BY <1>6, <1>7, ListedMore
<1>9. PICK p : p = Scalar("vllupformat", 351, 351) \o Scalar("mirr_ptacu", 350, 350)
                   \o Scalar("switchid", 349, 347) \o Scalar("hostprio", 346, 344)
                   \o Scalar("mac_fltres1", 343, 296) \o Scalar("mac_fltres0", 295, 248)
  OBVIOUS
<1>10. Listed(p) /\ Ids(p) = {NameOf("vllupformat")} \cup {NameOf("mirr_ptacu")}
           \cup {NameOf("switchid")} \cup {NameOf("hostprio")} \cup {NameOf("mac_fltres1")}
           \cup {NameOf("mac_fltres0")}
  <2>1. PICK m : m = Scalar("vllupformat", 351, 351) \o Scalar("mirr_ptacu", 350, 350)
                     \o Scalar("switchid", 349, 347)
    OBVIOUS
  <2>2. Listed(m) /\ Ids(m) = {NameOf("vllupformat")} \cup {NameOf("mirr_ptacu")}
            \cup {NameOf("switchid")}
    BY <2>1, ListedScalar, ListedMore
  <2>3. p = m \o Scalar("hostprio", 346, 344) \o Scalar("mac_fltres1", 343, 296)
            \o Scalar("mac_fltres0", 295, 248)
    BY <1>9, <2>1
  <2>4. Listed(p) /\ Ids(p) = Ids(m) \cup {NameOf("hostprio")} \cup {NameOf("mac_fltres1")}
            \cup {NameOf("mac_fltres0")}
    BY ONLY <2>2, <2>3, ListedMore
  <2> QED BY ONLY <2>2, <2>4
<1>11. PICK q : q = p \o Scalar("mac_flt1", 247, 200) \o Scalar("mac_flt0", 199, 152)
                    \o Scalar("incl_srcpt1", 151, 151) \o Scalar("incl_srcpt0", 150, 150)
                    \o Scalar("send_meta1", 149, 149) \o Scalar("send_meta0", 148, 148)
  OBVIOUS
<1>12. Listed(q) /\ Ids(q) = Ids(p) \cup {NameOf("mac_flt1")} \cup {NameOf("mac_flt0")}
           \cup {NameOf("incl_srcpt1")} \cup {NameOf("incl_srcpt0")} \cup {NameOf("send_meta1")}
           \cup {NameOf("send_meta0")}
  <2>1. PICK m : m = p \o Scalar("mac_flt1", 247, 200) \o Scalar("mac_flt0", 199, 152)
                     \o Scalar("incl_srcpt1", 151, 151)
    OBVIOUS
  <2>2. Listed(m) /\ Ids(m) = Ids(p) \cup {NameOf("mac_flt1")} \cup {NameOf("mac_flt0")}
            \cup {NameOf("incl_srcpt1")}
    BY <1>10, <2>1, ListedMore
  <2>3. q = m \o Scalar("incl_srcpt0", 150, 150) \o Scalar("send_meta1", 149, 149)
            \o Scalar("send_meta0", 148, 148)
    BY <1>11, <2>1
  <2>4. Listed(q) /\ Ids(q) = Ids(m) \cup {NameOf("incl_srcpt0")} \cup {NameOf("send_meta1")}
            \cup {NameOf("send_meta0")}
    BY ONLY <2>2, <2>3, ListedMore
  <2> QED BY ONLY <2>2, <2>4
<1>13. PICK r : r = q \o Scalar("casc_port", 147, 145) \o Scalar("host_port", 144, 142)
                    \o Scalar("mirr_port", 141, 139) \o Scalar("vlmarker", 138, 107)
                    \o Scalar("vlmask", 106, 75) \o Scalar("tpid", 74, 59)
  OBVIOUS
<1>14. Listed(r) /\ Ids(r) = Ids(q) \cup {NameOf("casc_port")} \cup {NameOf("host_port")}
           \cup {NameOf("mirr_port")} \cup {NameOf("vlmarker")} \cup {NameOf("vlmask")}
           \cup {NameOf("tpid")}
  <2>1. PICK m : m = q \o Scalar("casc_port", 147, 145) \o Scalar("host_port", 144, 142)
                     \o Scalar("mirr_port", 141, 139)
    OBVIOUS
  <2>2. Listed(m) /\ Ids(m) = Ids(q) \cup {NameOf("casc_port")} \cup {NameOf("host_port")}
            \cup {NameOf("mirr_port")}
    BY <1>12, <2>1, ListedMore
  <2>3. r = m \o Scalar("vlmarker", 138, 107) \o Scalar("vlmask", 106, 75)
            \o Scalar("tpid", 74, 59)
    BY <1>13, <2>1
  <2>4. Listed(r) /\ Ids(r) = Ids(m) \cup {NameOf("vlmarker")} \cup {NameOf("vlmask")}
            \cup {NameOf("tpid")}
    BY ONLY <2>2, <2>3, ListedMore
  <2> QED BY ONLY <2>2, <2>4
<1>15. PICK s : s = r \o Scalar("ignore2stf", 58, 58) \o Scalar("tpid2", 57, 42)
                    \o Scalar("queue_ts", 41, 41) \o Scalar("egrmirrvid", 40, 29)
                    \o Scalar("egrmirrpcp", 28, 26) \o Scalar("egrmirrdei", 25, 25)
  OBVIOUS
<1>16. Listed(s) /\ Ids(s) = Ids(r) \cup {NameOf("ignore2stf")} \cup {NameOf("tpid2")}
           \cup {NameOf("queue_ts")} \cup {NameOf("egrmirrvid")} \cup {NameOf("egrmirrpcp")}
           \cup {NameOf("egrmirrdei")}
  <2>1. PICK m : m = r \o Scalar("ignore2stf", 58, 58) \o Scalar("tpid2", 57, 42)
                     \o Scalar("queue_ts", 41, 41)
    OBVIOUS
  <2>2. Listed(m) /\ Ids(m) = Ids(r) \cup {NameOf("ignore2stf")} \cup {NameOf("tpid2")}
            \cup {NameOf("queue_ts")}
    BY <1>14, <2>1, ListedMore
  <2>3. s = m \o Scalar("egrmirrvid", 40, 29) \o Scalar("egrmirrpcp", 28, 26)
            \o Scalar("egrmirrdei", 25, 25)
    BY <1>15, <2>1
  <2>4. Listed(s) /\ Ids(s) = Ids(m) \cup {NameOf("egrmirrvid")} \cup {NameOf("egrmirrpcp")}
            \cup {NameOf("egrmirrdei")}
    BY ONLY <2>2, <2>3, ListedMore
  <2> QED BY ONLY <2>2, <2>4
<1>17. PICK t : t = s \o Scalar("replay_port", 24, 22)
  OBVIOUS
<1>18. Listed(t) /\ Ids(t) = Ids(s) \cup {NameOf("replay_port")}
  BY <1>16, <1>17, ListedMore
<1>19. general_params_et = d
  BY ONLY <1>1, <1>3, <1>5, <1>7 DEF general_params_et
<1>20. general_params_pqrs = t
  BY ONLY <1>9, <1>11, <1>13, <1>15, <1>17 DEF general_params_pqrs
<1>21. Ids(d) \subseteq Ids(t)
  BY ONLY <1>2, <1>4, <1>6, <1>8, <1>10, <1>12, <1>14, <1>16, <1>18
<1> QED BY <1>19, <1>20, <1>21

LEMMA MacIdsGrow == Ids(mac_config_et) \subseteq Ids(mac_config_pqrs)
<1>1. PICK a : a = Array("enabled", 8, 72, 19, 0, 0) \o Array("base", 8, 72, 19, 9, 1)
                   \o Array("top", 8, 72, 19, 18, 10)
  OBVIOUS
<1>2. Listed(a) /\ Ids(a) = Names("enabled", 8) \cup Names("base", 8) \cup Names("top", 8)
  BY <1>1, ListedArray, ListedBoth
<1>3. PICK b : b = a \o Scalar("ifg", 71, 67) \o Scalar("speed", 66, 65)
                   \o Scalar("tp_delin", 64, 49) \o Scalar("tp_delout", 48, 33)
                   \o Scalar("maxage", 32, 25) \o Scalar("vlanprio", 24, 22)
  OBVIOUS
<1>4. Listed(b) /\ Ids(b) = Ids(a) \cup {NameOf("ifg")} \cup {NameOf("speed")}
          \cup {NameOf("tp_delin")} \cup {NameOf("tp_delout")} \cup {NameOf("maxage")}
          \cup {NameOf("vlanprio")}
  <2>1. PICK m : m = a \o Scalar("ifg", 71, 67) \o Scalar("speed", 66, 65)
                     \o Scalar("tp_delin", 64, 49)
    OBVIOUS
  <2>2. Listed(m) /\ Ids(m) = Ids(a) \cup {NameOf("ifg")} \cup {NameOf("speed")}
            \cup {NameOf("tp_delin")}
    BY <1>2, <2>1, ListedMore
  <2>3. b = m \o Scalar("tp_delout", 48, 33) \o Scalar("maxage", 32, 25)
            \o Scalar("vlanprio", 24, 22)
    BY <1>3, <2>1
  <2>4. Listed(b) /\ Ids(b) = Ids(m) \cup {NameOf("tp_delout")} \cup {NameOf("maxage")}
            \cup {NameOf("vlanprio")}
    BY ONLY <2>2, <2>3, ListedMore
  <2> QED BY ONLY <2>2, <2>4
<1>5. PICK c : c = b \o Scalar("vlanid", 21, 10) \o Scalar("ing_mirr", 9, 9)
                   \o Scalar("egr_mirr", 8, 8) \o Scalar("drpnona664", 7, 7)
                   \o Scalar("drpdtag", 6, 6) \o Scalar("drpuntag", 5, 5)
  OBVIOUS
<1>6. Listed(c) /\ Ids(c) = Ids(b) \cup {NameOf("vlanid")} \cup {NameOf("ing_mirr")}
          \cup {NameOf("egr_mirr")} \cup {NameOf("drpnona664")} \cup {NameOf("drpdtag")}
          \cup {NameOf("drpuntag")}
  <2>1. PICK m : m = b \o Scalar("vlanid", 21, 10) \o Scalar("ing_mirr", 9, 9)
                     \o Scalar("egr_mirr", 8, 8)
    OBVIOUS
  <2>2. Listed(m) /\ Ids(m) = Ids(b) \cup {NameOf("vlanid")} \cup {NameOf("ing_mirr")}
            \cup {NameOf("egr_mirr")}
    BY <1>4, <2>1, ListedMore
  <2>3. c = m \o Scalar("drpnona664", 7, 7) \o Scalar("drpdtag", 6, 6)
            \o Scalar("drpuntag", 5, 5)
    BY <1>5, <2>1
  <2>4. Listed(c) /\ Ids(c) = Ids(m) \cup {NameOf("drpnona664")} \cup {NameOf("drpdtag")}
            \cup {NameOf("drpuntag")}
    BY ONLY <2>2, <2>3, ListedMore
  <2> QED BY ONLY <2>2, <2>4
<1>7. PICK d : d = c \o Scalar("retag", 4, 4) \o Scalar("dyn_learn", 3, 3)
                   \o Scalar("egress", 2, 2) \o Scalar("ingress", 1, 1)
  OBVIOUS
<1>8. Listed(d) /\ Ids(d) = Ids(c) \cup {NameOf("retag")} \cup {NameOf("dyn_learn")}
          \cup {NameOf("egress")} \cup {NameOf("ingress")}
  <2>1. PICK m : m = c \o Scalar("retag", 4, 4) \o Scalar("dyn_learn", 3, 3)
                     \o Scalar("egress", 2, 2)
    OBVIOUS
  <2>2. Listed(m) /\ Ids(m) = Ids(c) \cup {NameOf("retag")} \cup {NameOf("dyn_learn")}
            \cup {NameOf("egress")}
    BY <1>6, <2>1, ListedMore
  <2>3. d = m \o Scalar("ingress", 1, 1)
    BY <1>7, <2>1
  <2>4. Listed(d) /\ Ids(d) = Ids(m) \cup {NameOf("ingress")}
    BY ONLY <2>2, <2>3, ListedMore
  <2> QED BY ONLY <2>2, <2>4
<1>9. PICK p : p = Array("enabled", 8, 104, 19, 0, 0) \o Array("base", 8, 104, 19, 9, 1)
                   \o Array("top", 8, 104, 19, 18, 10)
  OBVIOUS
<1>10. Listed(p) /\ Ids(p) = Names("enabled", 8) \cup Names("base", 8) \cup Names("top", 8)
  BY <1>9, ListedArray, ListedBoth
<1>11. PICK q : q = p \o Scalar("ifg", 103, 99) \o Scalar("speed", 98, 97)
                    \o Scalar("tp_delin", 96, 81) \o Scalar("tp_delout", 80, 65)
                    \o Scalar("maxage", 64, 57) \o Scalar("vlanprio", 56, 54)
  OBVIOUS
<1>12. Listed(q) /\ Ids(q) = Ids(p) \cup {NameOf("ifg")} \cup {NameOf("speed")}
           \cup {NameOf("tp_delin")} \cup {NameOf("tp_delout")} \cup {NameOf("maxage")}
           \cup {NameOf("vlanprio")}
  <2>1. PICK m : m = p \o Scalar("ifg", 103, 99) \o Scalar("speed", 98, 97)
                     \o Scalar("tp_delin", 96, 81)
    OBVIOUS
  <2>2. Listed(m) /\ Ids(m) = Ids(p) \cup {NameOf("ifg")} \cup {NameOf("speed")}
            \cup {NameOf("tp_delin")}
    BY <1>10, <2>1, ListedMore
  <2>3. q = m \o Scalar("tp_delout", 80, 65) \o Scalar("maxage", 64, 57)
            \o Scalar("vlanprio", 56, 54)
    BY <1>11, <2>1
  <2>4. Listed(q) /\ Ids(q) = Ids(m) \cup {NameOf("tp_delout")} \cup {NameOf("maxage")}
            \cup {NameOf("vlanprio")}
    BY ONLY <2>2, <2>3, ListedMore
  <2> QED BY ONLY <2>2, <2>4
<1>13. PICK r : r = q \o Scalar("vlanid", 53, 42) \o Scalar("ing_mirr", 41, 41)
                    \o Scalar("egr_mirr", 40, 40) \o Scalar("drpnona664", 39, 39)
                    \o Scalar("drpdtag", 38, 38) \o Scalar("drpsotag", 37, 37)
  OBVIOUS
<1>14. Listed(r) /\ Ids(r) = Ids(q) \cup {NameOf("vlanid")} \cup {NameOf("ing_mirr")}
           \cup {NameOf("egr_mirr")} \cup {NameOf("drpnona664")} \cup {NameOf("drpdtag")}
           \cup {NameOf("drpsotag")}
  <2>1. PICK m : m = q \o Scalar("vlanid", 53, 42) \o Scalar("ing_mirr", 41, 41)
                     \o Scalar("egr_mirr", 40, 40)
    OBVIOUS
  <2>2. Listed(m) /\ Ids(m) = Ids(q) \cup {NameOf("vlanid")} \cup {NameOf("ing_mirr")}
            \cup {NameOf("egr_mirr")}
    BY <1>12, <2>1, ListedMore
  <2>3. r = m \o Scalar("drpnona664", 39, 39) \o Scalar("drpdtag", 38, 38)
            \o Scalar("drpsotag", 37, 37)
    BY <1>13, <2>1
  <2>4. Listed(r) /\ Ids(r) = Ids(m) \cup {NameOf("drpnona664")} \cup {NameOf("drpdtag")}
            \cup {NameOf("drpsotag")}
    BY ONLY <2>2, <2>3, ListedMore
  <2> QED BY ONLY <2>2, <2>4
<1>15. PICK s : s = r \o Scalar("drpsitag", 36, 36) \o Scalar("drpuntag", 35, 35)
                    \o Scalar("retag", 34, 34) \o Scalar("dyn_learn", 33, 33)
                    \o Scalar("egress", 32, 32) \o Scalar("ingress", 31, 31)
  OBVIOUS
<1>16. Listed(s) /\ Ids(s) = Ids(r) \cup {NameOf("drpsitag")} \cup {NameOf("drpuntag")}
           \cup {NameOf("retag")} \cup {NameOf("dyn_learn")} \cup {NameOf("egress")}
           \cup {NameOf("ingress")}
  <2>1. PICK m : m = r \o Scalar("drpsitag", 36, 36) \o Scalar("drpuntag", 35, 35)
                     \o Scalar("retag", 34, 34)
    OBVIOUS
  <2>2. Listed(m) /\ Ids(m) = Ids(r) \cup {NameOf("drpsitag")} \cup {NameOf("drpuntag")}
            \cup {NameOf("retag")}
    BY <1>14, <2>1, ListedMore
  <2>3. s = m \o Scalar("dyn_learn", 33, 33) \o Scalar("egress", 32, 32)
            \o Scalar("ingress", 31, 31)
    BY <1>15, <2>1
  <2>4. Listed(s) /\ Ids(s) = Ids(m) \cup {NameOf("dyn_learn")} \cup {NameOf("egress")}
            \cup {NameOf("ingress")}
    BY ONLY <2>2, <2>3, ListedMore
  <2> QED BY ONLY <2>2, <2>4
<1>17. PICK t : t = s \o Scalar("mirrcie", 30, 30) \o Scalar("mirrcetag", 29, 29)
                    \o Scalar("ingmirrvid", 28, 17) \o Scalar("ingmirrpcp", 16, 14)
                    \o Scalar("ingmirrdei", 13, 13)
  OBVIOUS
<1>18. Listed(t) /\ Ids(t) = Ids(s) \cup {NameOf("mirrcie")} \cup {NameOf("mirrcetag")}
           \cup {NameOf("ingmirrvid")} \cup {NameOf("ingmirrpcp")} \cup {NameOf("ingmirrdei")}
  <2>1. PICK m : m = s \o Scalar("mirrcie", 30, 30) \o Scalar("mirrcetag", 29, 29)
                     \o Scalar("ingmirrvid", 28, 17)
    OBVIOUS
  <2>2. Listed(m) /\ Ids(m) = Ids(s) \cup {NameOf("mirrcie")} \cup {NameOf("mirrcetag")}
            \cup {NameOf("ingmirrvid")}
    BY <1>16, <2>1, ListedMore
  <2>3. t = m \o Scalar("ingmirrpcp", 16, 14) \o Scalar("ingmirrdei", 13, 13)
    BY <1>17, <2>1
  <2>4. Listed(t) /\ Ids(t) = Ids(m) \cup {NameOf("ingmirrpcp")} \cup {NameOf("ingmirrdei")}
    BY ONLY <2>2, <2>3, ListedMore
  <2> QED BY ONLY <2>2, <2>4
<1>19. mac_config_et = d
  BY ONLY <1>1, <1>3, <1>5, <1>7 DEF mac_config_et
<1>20. mac_config_pqrs = t
  BY ONLY <1>9, <1>11, <1>13, <1>15, <1>17 DEF mac_config_pqrs
<1>21. Ids(d) \subseteq Ids(t)
  BY ONLY <1>2, <1>4, <1>6, <1>8, <1>10, <1>12, <1>14, <1>16, <1>18
<1> QED BY <1>19, <1>20, <1>21
(***************************************************************************)
(* The lists of the XML files agree where they must: what is required is   *)
(* taken, what is taken is exported, and what the switch is given is       *)
(* taken, but for what XML cannot carry.                                   *)
(***************************************************************************)
Carried(t, p, fmt) == ~(t = "l2_lookup_params" /\ p) /\ ~(t = "vl_lookup" /\ fmt = 1)

LEMMA ListsAgree ==
    ASSUME NEW t \in TableNames, NEW p \in BOOLEAN, NEW fmt \in {0, 1}, NEW type,
           Carried(t, p, fmt)
    PROVE  /\ Required(t, p, type) \subseteq Written(t, p, fmt, type)
           /\ Taken(t, p, type) \subseteq Written(t, p, fmt, type)
<1>1. CASE t = "vl_lookup"
  BY <1>1 DEF Carried, Required, Taken, Written, vl_lookup_read, vl_lookup_write
<1>2. CASE t = "vl_policing"
  BY <1>2 DEF Required, Taken, Written, vl_policing_read, vl_policing_write
<1>3. CASE t = "l2_forwarding"
  BY <1>3 DEF Required, Taken, Written, l2_forwarding_read, l2_forwarding_write
<1>4. CASE t \notin {"vl_lookup", "vl_policing", "l2_forwarding"}
  <2>1. Required(t, p, type) = Written(t, p, fmt, type)
    BY <1>4
       DEF TableNames, Required, Written,
           schedule_write, schedule_entry_points_write, l2_lookup_write, l2_policing_write,
           vlan_lookup_write, mac_config_write, schedule_params_write,
           schedule_entry_points_params_write, l2_lookup_params_write,
           l2_forwarding_params_write, general_params_write, xmii_params_write, sgmii_write,
           vl_forwarding_write, avb_params_write, vl_forwarding_params_write,
           schedule_read, schedule_entry_points_read, l2_lookup_read, l2_policing_read,
           vlan_lookup_read, mac_config_read, schedule_params_read,
           schedule_entry_points_params_read, l2_lookup_params_read,
           l2_forwarding_params_read, general_params_read, xmii_params_read, sgmii_read,
           vl_forwarding_read, avb_params_read, vl_forwarding_params_read
  <2>2. Taken(t, p, type) = Required(t, p, type)
    BY <1>4 DEF Taken
  <2> QED BY <2>1, <2>2
<1> QED BY <1>1, <1>2, <1>3, <1>4

LEMMA LayoutIsTaken ==
    ASSUME NEW t \in TableNames, NEW p \in BOOLEAN, NEW fmt \in {0, 1}, NEW type,
           Carried(t, p, fmt)
    PROVE  Ids(Layout(t, p, fmt, type)) \ {Index} \subseteq Taken(t, p, type)
<1>1. CASE t = "vl_lookup"
  <2>1. fmt = 0
    BY <1>1 DEF Carried
  <2> QED BY <1>1, <2>1 DEF Layout, Required, Taken, vl_lookup_read
<1>2. CASE t = "vl_policing"
  BY <1>2 DEF Layout, Required, Taken, vl_policing_read
<1>3. CASE t = "l2_forwarding"
  BY <1>3 DEF Layout, Taken
<1>4. CASE t \in {"mac_config", "general_params", "avb_params"}
  <2>1. Taken(t, p, type) = Required(t, p, type)
    BY <1>4 DEF Taken
  <2>2. CASE t = "mac_config"
    BY <2>1, <2>2, MacIdsGrow DEF Layout, Required, mac_config_read
  <2>3. CASE t = "general_params"
    BY <2>1, <2>3, GeneralIdsGrow DEF Layout, Required, general_params_read
  <2>4. CASE t = "avb_params"
    BY <2>1, <2>4, AvbIdsGrow DEF Layout, Required, avb_params_read
  <2> QED BY <1>4, <2>2, <2>3, <2>4
<1>5. CASE t \notin {"vl_lookup", "vl_policing", "l2_forwarding",
                     "mac_config", "general_params", "avb_params"}
  <2>1. Ids(Layout(t, p, fmt, type)) \ {Index} \subseteq Required(t, p, type)
    BY <1>5
       DEF Carried, TableNames, Required, Layout,
           schedule_read, schedule_entry_points_read, l2_lookup_read, l2_policing_read,
           vlan_lookup_read, schedule_params_read,
           schedule_entry_points_params_read, l2_lookup_params_read,
           l2_forwarding_params_read, xmii_params_read, sgmii_read,
           vl_forwarding_read, vl_forwarding_params_read
  <2>2. Taken(t, p, type) = Required(t, p, type)
    BY <1>5 DEF Taken
  <2> QED BY <2>1, <2>2
<1> QED BY <1>1, <1>2, <1>3, <1>4, <1>5

\* The type of an entry in XML, as the reader has it.
XmlType == IF Type \in DOMAIN xml.fields THEN xml.fields[Type] ELSE {}

LEMMA ImportedEntry ==
    ASSUME EntryInv, xml # NoXml
    PROVE  /\ Imported \in Entries(table)
           /\ \A id \in Fields(table) :
                Imported[id] = IF id \in Taken(table, pqrs, XmlType) \cap DOMAIN xml.fields
                               THEN xml.fields[id] ELSE {}
<1>1. PICK taken : taken = Taken(table, pqrs, XmlType) \cap DOMAIN xml.fields
  OBVIOUS
<1>2. Imported = [id \in Fields(table) |-> IF id \in taken THEN xml.fields[id] ELSE {}]
  BY <1>1 DEF Imported, XmlType
<1>3. \A id \in taken : xml.fields[id] \subseteq Nat
  BY <1>1 DEF EntryInv, XmlOK
<1> QED BY <1>1, <1>2, <1>3 DEF Entries

LEMMA AcceptedMeans ==
    ASSUME Accepted
    PROVE  Required(table, pqrs, XmlType) \subseteq DOMAIN xml.fields
BY DEF Accepted, XmlType

LEMMA TypeIsWritten ==
    ASSUME NEW type
    PROVE  Type \in Ids(vl_policing(type))
<1>1. vl_policing(type) = vl_policing({}) \/ vl_policing(type) = vl_policing({0})
  BY DEF vl_policing
<1>2. Field("type", 63, 63) \in Parts(vl_policing(type))
  BY <1>1, VlPolicingParts
<1>3. Field("type", 63, 63).id = Type
  BY DEF Field, Type
<1> QED BY <1>2, <1>3, IdsOfParts

\* Only the format of a VL lookup entry matters to its bits.
LEMMA FormatAside ==
    ASSUME <<table, pqrs>> \in Followed, NEW fmt, table = "vl_lookup" => fmt = 0,
           NEW entry, Save(entry, 0)
    PROVE  Save(entry, fmt)
<1>1. \A e : PackLayout(e, 0) = PackLayout(e, fmt)
  <2>1. CASE table = "vl_lookup"
    BY <2>1
  <2>2. CASE table = "vl_policing"
    BY <2>2 DEF PackLayout, Layout
  <2>3. CASE table # "vl_lookup" /\ table # "vl_policing"
    BY <2>3, FollowedTables, TwoVary DEF PackLayout
  <2> QED BY <2>1, <2>2, <2>3
<1>2. \A e : PackEntry(e, 0) = PackEntry(e, fmt)
  BY <1>1 DEF PackEntry
<1> QED BY <1>2 DEF Save

LEMMA ImportLayout ==
    ASSUME EntryInv, xml # NoXml, Accepted, NEW fmt \in {0, 1},
           table = "vl_policing" => XmlType \subseteq {0}
    PROVE  PackLayout(Imported, fmt) = Layout(table, pqrs, fmt, XmlType)
<1>1. <<table, pqrs>> \in Followed /\ table \in TableNames
  BY FollowedTables DEF EntryInv, TypeOK
<1>2. CASE table = "vl_policing"
  <2>1. Type \in Required(table, pqrs, XmlType) /\ Type \in Taken(table, pqrs, XmlType)
    BY <1>2, TypeIsWritten DEF Required, Taken, vl_policing_read
  <2>2. Type \in DOMAIN xml.fields
    BY <2>1, AcceptedMeans
  <2>3. Type \in Fields(table)
    BY <2>2 DEF EntryInv, XmlOK
  <2>4. Imported[Type] = xml.fields[Type]
    BY <2>1, <2>2, <2>3, ImportedEntry
  <2>5. Imported[Type] = XmlType
    BY <2>2, <2>4 DEF XmlType
  <2>6. XmlType \cap {0} = XmlType
    BY <1>2
  <2> QED BY <1>2, <2>5, <2>6 DEF PackLayout
<1>3. CASE table = "vl_lookup"
  BY <1>3 DEF PackLayout, Layout
<1>4. CASE table # "vl_policing" /\ table # "vl_lookup"
  BY <1>1, <1>4, TwoVary DEF PackLayout
<1> QED BY <1>2, <1>3, <1>4

LEMMA ImportStep ==
    ASSUME EntryInv, Import, cmd'.ok, ~NotInXml',
           ~(table = "vl_policing" /\ ~(xml.fields[Type] \subseteq {0})),
           NEW id \in DOMAIN After
    PROVE  IF id \in DOMAIN xml.fields
           THEN After[id] = Fitted(xml.fields[id], id, PackLayout(Loaded(file'), format'))
           ELSE table = "l2_forwarding" /\ After[id] = {}
<1>1. /\ <<table, pqrs>> \in Followed /\ table \in TableNames /\ pqrs \in BOOLEAN
      /\ xml # NoXml /\ table' = table /\ pqrs' = pqrs
  BY FollowedTables DEF EntryInv, TypeOK, Import
<1>2. Accepted
  <2>1. cmd' = [op |-> "import", ok |-> Accepted]
    BY DEF Import
  <2> QED BY <2>1
<1>3. PICK fmt \in {0, 1} : fmt = format' /\ Save(Imported, 0)
  BY <1>1, <1>2 DEF Import, EntryInv, TypeOK
<1>4. Carried(table, pqrs, fmt)
  BY <1>1, <1>3 DEF NotInXml, Carried
<1>5. Save(Imported, fmt)
  BY <1>1, <1>3, <1>4, FormatAside DEF Carried
<1>6. table = "vl_policing" => XmlType \subseteq {0}
  BY DEF XmlType
<1>7. PICK entry \in Entries(table) :
        /\ entry = Imported
        /\ \A x \in Fields(table) :
             entry[x] = IF x \in Taken(table, pqrs, XmlType) \cap DOMAIN xml.fields
                        THEN xml.fields[x] ELSE {}
  BY <1>1, ImportedEntry
<1>8. PICK l : l = PackLayout(entry, fmt)
  OBVIOUS
<1>9. l = Layout(table, pqrs, fmt, XmlType)
  BY <1>1, <1>2, <1>6, <1>7, <1>8, ImportLayout
<1>10. Ids(l) \ {Index} \subseteq Taken(table, pqrs, XmlType)
  BY <1>1, <1>4, <1>9, LayoutIsTaken
<1>11. PICK a : a = After
  OBVIOUS
<1>12. PackLayout(Loaded(file'), format') = l /\ Means(a, l, entry)
  BY <1>1, <1>3, <1>5, <1>7, <1>8, <1>11, ContentAfterSave DEF After
<1>13. id \in Ids(l) /\ id # Index
  <2>1. a = [x \in Ids(l) \ {Index} |-> a[x]] /\ id \in DOMAIN a
    BY <1>11, <1>12 DEF Means
  <2> QED BY <2>1
<1>14. PICK f \in Parts(l) : f.id = id
  BY <1>13, IdsOfParts
<1>15. id \in Fields(table)
  BY <1>1, <1>8, <1>14, PartsInFields
<1>16. a[id] = entry[id] \cap 0..Width(f) - 1
  BY <1>12, <1>13, <1>14 DEF Means
<1>17. id \in Taken(table, pqrs, XmlType)
  BY <1>10, <1>13
<1>18. CASE id \in DOMAIN xml.fields
  <2>1. entry[id] = xml.fields[id]
    BY <1>7, <1>15, <1>17, <1>18
  <2>2. PICK type \in Types : l = Layout(table, pqrs, fmt, type)
    BY <1>8, PackLayoutType
  <2>3. Fitted(xml.fields[id], f.id, l) = xml.fields[id] \cap 0..Width(f) - 1
    BY <1>1, <2>2, LayoutFacts, FittedField
  <2> QED BY <1>11, <1>12, <1>14, <1>16, <1>18, <2>1, <2>3
<1>19. CASE id \notin DOMAIN xml.fields
  <2>1. entry[id] = {}
    BY <1>7, <1>15, <1>19
  <2>2. a[id] = {}
    BY <1>16, <2>1
  <2>3. id \notin Required(table, pqrs, XmlType)
    BY <1>2, <1>19, AcceptedMeans
  <2>4. table = "l2_forwarding"
    BY <1>17, <2>3 DEF Taken
  <2> QED BY <1>11, <1>19, <2>2, <2>4
<1> QED BY <1>18, <1>19

LEMMA OnlyImports ==
    ASSUME Next, cmd'.op = "import"
    PROVE  Import
<1>1. Modify => cmd'.op = "modify"
  BY DEF Modify, ModifyField
<1>2. ModifyOther => cmd'.op = "other"
  BY DEF ModifyOther
<1>3. ModifyFormat => cmd'.op = "format"
  BY DEF ModifyFormat
<1>4. Export => cmd'.op = "export"
  BY DEF Export
<1>5. EditXml => cmd'.op = "edit"
  BY DEF EditXml
<1>6. PICK op : op = cmd'.op
  OBVIOUS
<1> QED BY <1>1, <1>2, <1>3, <1>4, <1>5, <1>6 DEF Next

(***************************************************************************)
(* A refused file leaves the staging area alone; an accepted one gives     *)
(* every field the switch holds the value written in the XML, and 0 only   *)
(* to the end of a short vlan_pmap.                                        *)
(***************************************************************************)
THEOREM ImportAllOrNothing == Spec => ImportIsAllOrNothing
<1> DEFINE Whole == \/ NotInXml \/ NotInXml'
                    \/ table = "vl_policing" /\ ~(xml.fields[Type] \subseteq {0})
                    \/ LET after == After
                           layout == PackLayout(Loaded(file'), format')
                       IN  \A id \in DOMAIN after :
                              IF id \in DOMAIN xml.fields
                              THEN after[id] = Fitted(xml.fields[id], id, layout)
                              ELSE table = "l2_forwarding" /\ after[id] = {}
           Nothing == file' = file /\ format' = format
<1>1. ASSUME EntryInv, Next, cmd'.op = "import"
      PROVE  IF cmd'.ok THEN Whole ELSE Nothing
  <2>1. Import
    BY <1>1, OnlyImports
  <2>2. CASE cmd'.ok
    BY <1>1, <2>1, <2>2, ImportStep
  <2>3. CASE ~cmd'.ok
    <3>1. cmd' = [op |-> "import", ok |-> Accepted]
      BY <2>1 DEF Import
    <3>2. ~Accepted
      BY <2>3, <3>1
    <3>3. UNCHANGED <<file, format>>
      BY <2>1, <3>2 DEF Import
    <3> QED BY <2>3, <3>3
  <2> QED BY <2>2, <2>3
<1>2. EntryInv /\ [Next]_vars
        => [cmd'.op = "import" => IF cmd'.ok THEN Whole ELSE Nothing]_vars
  BY <1>1
<1> QED BY <1>2, EntryInvHolds, PTL DEF Spec, ImportIsAllOrNothing

LEMMA WrittenWithout ==
    ASSUME NEW t \in TableNames, t # "vl_policing", NEW p, NEW fmt, NEW type, NEW other
    PROVE  Written(t, p, fmt, type) = Written(t, p, fmt, other)
BY DEF Written, TableNames

LEMMA UntouchedStep ==
    ASSUME EntryInv, Import, xml = Exported, ~NotInXml
    PROVE  cmd'.ok /\ After = Before
<1>1. /\ <<table, pqrs>> \in Followed /\ table \in TableNames /\ pqrs \in BOOLEAN
      /\ xml # NoXml /\ format \in {0, 1}
  BY FollowedTables DEF EntryInv, TypeOK, Import
<1>2. Carried(table, pqrs, format)
  BY DEF NotInXml, Carried
<1>3. PICK type : type = IF table = "vl_policing" THEN Load[Type] ELSE {}
  OBVIOUS
<1>4. /\ xml.format = format
      /\ DOMAIN xml.fields = Written(table, pqrs, format, type)
      /\ \A id \in DOMAIN xml.fields : xml.fields[id] = Load[id]
  BY <1>3, ExportedOK
<1>5. table = "vl_policing" => /\ Type \in DOMAIN xml.fields
                               /\ XmlType = Load[Type] /\ XmlType \in Types
  <2>1. SUFFICES ASSUME table = "vl_policing"
                 PROVE  Type \in DOMAIN xml.fields /\ XmlType = Load[Type] /\ XmlType \in Types
    OBVIOUS
  <2>2. Type \in DOMAIN xml.fields
    BY <1>4, <2>1, TypeIsWritten DEF Written, vl_policing_write
  <2>3. Load[Type] \in Types
    BY <1>1, <2>1, LoadedType DEF Load
  <2> QED BY <1>4, <2>2, <2>3 DEF XmlType
<1>6. DOMAIN xml.fields = Written(table, pqrs, format, XmlType)
  <2>1. CASE table = "vl_policing"
    BY <1>3, <1>4, <1>5, <2>1
  <2>2. CASE table # "vl_policing"
    BY <1>1, <1>4, <2>2, WrittenWithout
  <2> QED BY <2>1, <2>2
<1>7. /\ Required(table, pqrs, XmlType) \subseteq DOMAIN xml.fields
      /\ Taken(table, pqrs, XmlType) \subseteq DOMAIN xml.fields
  BY <1>1, <1>2, <1>6, ListsAgree
<1>8. Accepted
  BY <1>7 DEF Accepted, XmlType
<1>9. cmd'.ok
  <2>1. cmd' = [op |-> "import", ok |-> Accepted]
    BY DEF Import
  <2> QED BY <1>8, <2>1
<1>10. format' = format /\ Save(Imported, 0)
  BY <1>4, <1>8 DEF Import
<1>11. Save(Imported, format)
  BY <1>1, <1>2, <1>10, FormatAside DEF Carried
<1>12. PICK entry \in Entries(table) :
         /\ entry = Imported
         /\ \A x \in Fields(table) :
              entry[x] = IF x \in Taken(table, pqrs, XmlType) \cap DOMAIN xml.fields
                         THEN xml.fields[x] ELSE {}
  BY <1>1, ImportedEntry
<1>13. PICK l : l = Layout(table, pqrs, format, XmlType)
  OBVIOUS
<1>14. PackLayout(entry, format) = l
  <2>1. table = "vl_policing" => XmlType \subseteq {0}
    BY <1>5 DEF Types
  <2> QED BY <1>1, <1>8, <1>12, <1>13, <2>1, ImportLayout
<1>15. PackLayout(Load, format) = l
  <2>1. CASE table = "vl_policing"
    <3>1. Load[Type] \cap {0} = XmlType
      BY <1>5, <2>1 DEF Types
    <3> QED BY <1>13, <2>1, <3>1 DEF PackLayout
  <2>2. CASE table = "vl_lookup"
    BY <1>13, <2>2 DEF PackLayout, Layout
  <2>3. CASE table # "vl_policing" /\ table # "vl_lookup"
    BY <1>1, <1>13, <2>3, TwoVary DEF PackLayout
  <2> QED BY <2>1, <2>2, <2>3
<1>16. ASSUME NEW f \in Parts(l), f.id # Index PROVE entry[f.id] = Load[f.id]
  <2>1. f.id \in Ids(l)
    BY IdsOfParts
  <2>2. f.id \in Taken(table, pqrs, XmlType)
    BY <1>1, <1>2, <1>13, <1>16, <2>1, LayoutIsTaken
  <2>3. f.id \in Fields(table)
    BY <1>1, <1>15, PartsInFields
  <2> QED BY <1>4, <1>7, <1>12, <2>2, <2>3
<1>17. Content(file', format) = Content(file, format)
  BY <1>11, <1>12, <1>14, <1>15, <1>16, SavedTheSame
<1> QED BY <1>9, <1>10, <1>17 DEF After, Before

(***************************************************************************)
(* An untouched export of the staging area is accepted and gives back what *)
(* the switch is given for the entry, whatever its fields hold, but for    *)
(* the settings XML cannot carry.                                          *)
(***************************************************************************)
THEOREM ExportKept == Spec => ExportImportKeeps
<1>1. ASSUME EntryInv, Next, cmd'.op = "import" /\ xml = Exported /\ ~NotInXml
      PROVE  cmd'.ok /\ After = Before
  BY <1>1, OnlyImports, UntouchedStep
<1>2. EntryInv /\ [Next]_vars
        => [cmd'.op = "import" /\ xml = Exported /\ ~NotInXml => cmd'.ok /\ After = Before]_vars
  BY <1>1
<1> QED BY <1>2, EntryInvHolds, PTL DEF Spec, ExportImportKeeps
=============================================================================
