---------------------------- MODULE FormatProofs ----------------------------
(***************************************************************************)
(* The formats a configuration is kept and described in: the packed file,  *)
(* the XML document and the settings file of the tool.  What comes back of *)
(* a packed configuration, whole, followed by anything, or cut short; that *)
(* a document yields a configuration the file can hold; and what the       *)
(* settings file says.                                                     *)
(***************************************************************************)
EXTENDS ConfFile, XmlRead, WellFoundedInduction, TLAPS

(***************************************************************************)
(* The packed form of a configuration: what unpack makes of what pack      *)
(* wrote, for every configuration and table size.                          *)
(***************************************************************************)
-----------------------------------------------------------------------------
(***************************************************************************)
(* Induction over the natural numbers, in the form of a set.               *)
(***************************************************************************)
Below == {ss \in Nat \X Nat : ss[1] < ss[2]}

LEMMA LeastNumber ==
  ASSUME NEW T \in SUBSET Nat, T # {}
  PROVE  \E n \in T : \A m \in T : n <= m
  <1>1. IsWellFoundedOn(Below, Nat)
    BY NatLessThanWellFounded, Zenon DEF OpToRel, Below
  <1>2. \E n \in T : \A m \in T : ~ (<<m, n>> \in Below)
    BY <1>1, WFMin, Zenon
  <1>3. PICK n \in T : \A m \in T : ~ (<<m, n>> \in Below)
    BY <1>2
  <1>4. ASSUME NEW m \in T, m < n PROVE FALSE
    <2>1. <<m, n>> \in Nat \X Nat /\ <<m, n>>[1] < <<m, n>>[2]
      BY <1>4
    <2>2. <<m, n>> \in Below
      BY <2>1, Zenon DEF Below
    <2> QED BY <1>3, <2>2
  <1> QED BY <1>4

LEMMA SetInduction ==
  ASSUME NEW S, 0 \in S, \A n \in Nat : n \in S => n + 1 \in S
  PROVE  \A n \in Nat : n \in S
  <1> DEFINE T == Nat \ S
  <1> SUFFICES ASSUME T # {} PROVE FALSE
    OBVIOUS
  <1>1. PICK n \in T : \A m \in T : n <= m
    BY LeastNumber
  <1>2. n # 0 /\ n - 1 \in Nat /\ n - 1 \notin T
    BY <1>1
  <1> QED BY <1>1, <1>2

LEMMA Joined ==
  ASSUME NEW X, NEW a \in Seq(X), NEW b \in Seq(X)
  PROVE  /\ a \o b \in Seq(X)
         /\ Len(a) \in Nat /\ Len(b) \in Nat
         /\ Len(a \o b) = Len(a) + Len(b)
         /\ \A x \in 1..Len(a) : (a \o b)[x] = a[x]
         /\ \A x \in 1..Len(b) : (a \o b)[Len(a) + x] = b[x]
  OBVIOUS

LEMMA JoinedInTurn ==
  ASSUME NEW X, NEW a \in Seq(X), NEW b \in Seq(X), NEW c \in Seq(X)
  PROVE  (a \o b) \o c = a \o (b \o c)
  OBVIOUS

\* b stands in c behind its first n elements.
StandsAt(b, c, n) ==
  /\ n + Len(b) <= Len(c)
  /\ \A x \in 1..Len(b) : c[n + x] = b[x]

LEMMA StandsInJoined ==
  ASSUME NEW X, NEW a \in Seq(X), NEW b \in Seq(X), NEW c, c = a \o b
  PROVE  StandsAt(a, c, 0) /\ StandsAt(b, c, Len(a)) /\ Len(c) = Len(a) + Len(b)
  BY DEF StandsAt

LEMMA StandsBetween ==
  ASSUME NEW X, NEW a \in X, NEW b \in Seq(X), NEW z \in X, NEW c, c = << a >> \o b \o << z >>
  PROVE  /\ c \in Seq(X)
         /\ Len(b) \in Nat
         /\ Len(c) = Len(b) + 2
         /\ c[1] = a
         /\ c[Len(c)] = z
         /\ StandsAt(b, c, 1)
  BY DEF StandsAt

LEMMA StandsInItself ==
  ASSUME NEW X, NEW a \in Seq(X)
  PROVE  StandsAt(a, a, 0)
  BY DEF StandsAt

LEMMA StandsInLonger ==
  ASSUME NEW X, NEW a \in Seq(X), NEW b \in Seq(X), NEW c \in Seq(X),
         NEW n \in Nat, NEW m \in Nat, StandsAt(a, b, n), StandsAt(b, c, m)
  PROVE  StandsAt(a, c, m + n)
  <1>1. Len(a) \in Nat /\ Len(b) \in Nat /\ Len(c) \in Nat
    OBVIOUS
  <1>2. n + Len(a) <= Len(b) /\ m + Len(b) <= Len(c)
    BY <1>1 DEF StandsAt
  <1>3. ASSUME NEW x \in 1..Len(a) PROVE c[(m + n) + x] = a[x]
    <2>1. n + x \in 1..Len(b)
      BY <1>1, <1>2
    <2>2. c[m + (n + x)] = b[n + x] /\ b[n + x] = a[x]
      BY <2>1 DEF StandsAt
    <2> QED BY <2>1, <2>2, <1>1
  <1> QED BY <1>1, <1>2, <1>3 DEF StandsAt
-----------------------------------------------------------------------------
(***************************************************************************)
(* FlattenSeq, unrolled: f[k] is what the first k sequences make together. *)
(***************************************************************************)
Upto(n, f, s) ==
  f = [i \in 1..n |-> IF i = 1 THEN s[i] ELSE f[i - 1] \o s[i]]

LEMMA UptoAt ==
  ASSUME NEW n, NEW f, NEW s, Upto(n, f, s), NEW i \in 1..n
  PROVE  f[i] = IF i = 1 THEN s[i] ELSE f[i - 1] \o s[i]
  BY Zenon DEF Upto

LEMMA FlatteningExists ==
  ASSUME NEW X, NEW s \in Seq(Seq(X))
  PROVE  \A n \in Nat : \E f : Upto(n, f, s)
  <1> DEFINE T == {n \in Nat : \E f : Upto(n, f, s)}
  <1>1. 0 \in T
    <2>1. Upto(0, [i \in {} |-> 0], s)
      BY DEF Upto
    <2> QED BY <2>1
  <1>2. ASSUME NEW n \in Nat, n \in T PROVE n + 1 \in T
    <2>1. PICK f : Upto(n, f, s)
      BY <1>2
    <2> DEFINE g == [i \in 1..n + 1 |-> IF i <= n THEN f[i]
                                        ELSE IF n = 0 THEN s[i] ELSE f[n] \o s[i]]
    <2>2. ASSUME NEW i \in 1..n + 1
          PROVE  g[i] = IF i = 1 THEN s[i] ELSE g[i - 1] \o s[i]
      <3>1. CASE i <= n
        <4>1. g[i] = f[i] /\ f[i] = IF i = 1 THEN s[i] ELSE f[i - 1] \o s[i]
          BY <2>1, <3>1, UptoAt
        <4>2. i # 1 => g[i - 1] = f[i - 1]
          BY <3>1
        <4> QED BY <4>1, <4>2
      <3>2. CASE i = n + 1
        BY <3>2
      <3> QED BY <3>1, <3>2
    <2>3. Upto(n + 1, g, s)
      <3>1. g = [i \in 1..n + 1 |-> g[i]]
        OBVIOUS
      <3> HIDE DEF g
      <3> QED BY <2>2, <3>1 DEF Upto
    <2> HIDE DEF g
    <2>4. n + 1 \in Nat
      OBVIOUS
    <2> QED BY <2>3, <2>4
  <1> HIDE DEF T
  <1>3. \A n \in Nat : n \in T
    BY <1>1, <1>2, SetInduction
  <1> QED BY <1>3 DEF T

LEMMA FlattenUnrolled ==
  ASSUME NEW X, NEW s \in Seq(Seq(X)), s # << >>
  PROVE  \E f \in [1..Len(s) -> Seq(X)] :
           /\ f[1] = s[1]
           /\ \A i \in 2..Len(s) : f[i] = f[i - 1] \o s[i]
           /\ FlattenSeq(s) = f[Len(s)]
  <1>1. PICK f : Upto(Len(s), f, s) /\ FlattenSeq(s) = f[Len(s)]
    <2> DEFINE g == CHOOSE f : Upto(Len(s), f, s)
    <2>1. Upto(Len(s), g, s)
      BY FlatteningExists
    <2>2. FlattenSeq(s) = g[Len(s)]
      BY DEF FlattenSeq, Upto
    <2> QED BY <2>1, <2>2
  <1>2a. Len(s) \in Nat \ {0} /\ \A i \in 1..Len(s) : s[i] \in Seq(X)
    OBVIOUS
  <1>3a. f[1] = s[1]
    BY <1>1, <1>2a, UptoAt
  <1>3b. \A i \in 1..Len(s) : f[i] = IF i = 1 THEN s[i] ELSE f[i - 1] \o s[i]
    <2>1. ASSUME NEW i \in 1..Len(s)
          PROVE  f[i] = IF i = 1 THEN s[i] ELSE f[i - 1] \o s[i]
      BY <1>1, UptoAt
    <2> QED BY <2>1
  <1>3. ASSUME NEW i \in 2..Len(s) PROVE f[i] = f[i - 1] \o s[i]
    <2>1. i \in 1..Len(s) /\ i # 1
      BY <1>2a
    <2> QED BY <1>3b, <2>1, Zenon
  <1> DEFINE T == {n \in Nat : n + 1 \in 1..Len(s) => f[n + 1] \in Seq(X)}
  <1>4. 0 \in T
    BY <1>2a, <1>3a
  <1>5. ASSUME NEW n \in Nat, n \in T PROVE n + 1 \in T
    <2>0. n + 1 \in Nat
      OBVIOUS
    <2>a. (n + 1) + 1 = n + 2
      OBVIOUS
    <2> SUFFICES ASSUME n + 2 \in 1..Len(s) PROVE f[n + 2] \in Seq(X)
      BY <2>0, <2>a, Zenon
    <2>1. n + 2 \in 2..Len(s) /\ (n + 2) - 1 = n + 1 /\ n + 1 \in 1..Len(s)
      BY <1>2a
    <2>2. f[n + 2] = f[n + 1] \o s[n + 2]
      BY <1>3, <2>1
    <2>3. f[n + 1] \in Seq(X) /\ s[n + 2] \in Seq(X)
      BY <1>2a, <1>5, <2>1
    <2> QED BY <2>2, <2>3
  <1> HIDE DEF T
  <1>6. \A n \in Nat : n \in T
    BY <1>4, <1>5, SetInduction
  <1>7. ASSUME NEW i \in 1..Len(s) PROVE f[i] \in Seq(X)
    <2>1. i - 1 \in T
      BY <1>6
    <2> QED BY <2>1 DEF T
  <1>8. f \in [1..Len(s) -> Seq(X)]
    BY <1>1, <1>7 DEF Upto
  <1> QED BY <1>1, <1>3a, <1>3, <1>8
-----------------------------------------------------------------------------
(***************************************************************************)
(* at[i] is where, in the sequences flattened, the i-th one ends.          *)
(***************************************************************************)
LEMMA FlattenPlaces ==
  ASSUME NEW X, NEW s \in Seq(Seq(X)), s # << >>
  PROVE  \E at \in [0..Len(s) -> Nat] :
           /\ FlattenSeq(s) \in Seq(X)
           /\ at[0] = 0
           /\ at[Len(s)] = Len(FlattenSeq(s))
           /\ \A i \in 1..Len(s) : /\ at[i] = at[i - 1] + Len(s[i])
                                   /\ StandsAt(s[i], FlattenSeq(s), at[i - 1])
  <1>1. PICK f \in [1..Len(s) -> Seq(X)] :
          /\ f[1] = s[1]
          /\ \A i \in 2..Len(s) : f[i] = f[i - 1] \o s[i]
          /\ FlattenSeq(s) = f[Len(s)]
    BY FlattenUnrolled
  <1>2. Len(s) \in Nat \ {0} /\ \A i \in 1..Len(s) : s[i] \in Seq(X) /\ f[i] \in Seq(X)
    <2>1. \A i \in 1..Len(s) : f[i] \in Seq(X)
      BY <1>1, Zenon
    <2> QED BY <2>1
  <1> DEFINE T == {n \in Nat : \A i \in 1..Len(s) : i + n <= Len(s) =>
                                 StandsAt(f[i], f[i + n], 0)}
  <1>3. 0 \in T
    <2>1. ASSUME NEW i \in 1..Len(s)
          PROVE  i + 0 = i /\ StandsAt(f[i], f[i], 0)
      BY <1>2, StandsInItself
    <2> QED BY <2>1
  <1>4. ASSUME NEW n \in Nat, n \in T PROVE n + 1 \in T
    <2>0. n + 1 \in Nat
      OBVIOUS
    <2> SUFFICES ASSUME NEW i \in 1..Len(s), i + (n + 1) <= Len(s)
                 PROVE  StandsAt(f[i], f[i + (n + 1)], 0)
      BY <2>0, Zenon
    <2>1. i + n \in 1..Len(s) /\ i + (n + 1) \in 2..Len(s)
          /\ i + (n + 1) \in 1..Len(s) /\ (i + (n + 1)) - 1 = i + n
      BY <1>2
    <2>2. StandsAt(f[i], f[i + n], 0)
      BY <1>4, <2>1
    <2>3. f[i + (n + 1)] = f[i + n] \o s[i + (n + 1)]
      BY <1>1, <2>1
    <2>4. f[i + n] \in Seq(X) /\ s[i + (n + 1)] \in Seq(X) /\ f[i] \in Seq(X)
          /\ f[i + (n + 1)] \in Seq(X)
      BY <1>2, <2>1
    <2>5. StandsAt(f[i + n], f[i + (n + 1)], 0)
      BY <2>3, <2>4, StandsInJoined
    <2>6. StandsAt(f[i], f[i + (n + 1)], 0 + 0)
      BY <2>2, <2>4, <2>5, StandsInLonger
    <2> QED BY <2>6
  <1> HIDE DEF T
  <1>5. \A n \in Nat : n \in T
    BY <1>3, <1>4, SetInduction
  <1>6. ASSUME NEW i \in 1..Len(s) PROVE StandsAt(f[i], f[Len(s)], 0)
    <2>1. Len(s) - i \in Nat /\ i + (Len(s) - i) = Len(s)
      BY <1>2
    <2>2. Len(s) - i \in T
      BY <1>5, <2>1
    <2> QED BY <2>1, <2>2 DEF T
  <1> DEFINE at == [i \in 0..Len(s) |-> IF i = 0 THEN 0 ELSE Len(f[i])]
  <1>7. at \in [0..Len(s) -> Nat]
    BY <1>2
  <1>8. at[0] = 0 /\ at[Len(s)] = Len(FlattenSeq(s)) /\ FlattenSeq(s) \in Seq(X)
    <2>1. Len(s) \in 1..Len(s) /\ Len(s) # 0 /\ 0 \in 0..Len(s) /\ Len(s) \in 0..Len(s)
      BY <1>2
    <2>2. f[Len(s)] \in Seq(X)
      BY <2>1
    <2> QED BY <1>1, <2>1, <2>2
  <1>9. ASSUME NEW i \in 1..Len(s)
        PROVE  at[i] = at[i - 1] + Len(s[i]) /\ StandsAt(s[i], f[Len(s)], at[i - 1])
    <2>0. Len(s) \in 1..Len(s)
      BY <1>2
    <2>1. CASE i = 1
      <3>1. at[i] = Len(s[i]) /\ at[i - 1] = 0 /\ f[i] = s[i]
        BY <1>1, <1>2, <2>1
      <3>2. Len(s[i]) \in Nat
        BY <1>2
      <3> QED BY <1>6, <3>1, <3>2
    <2>2. CASE i # 1
      <3>1. i \in 2..Len(s) /\ i - 1 \in 1..Len(s)
        BY <1>2, <2>2
      <3>2. at[i] = Len(f[i]) /\ at[i - 1] = Len(f[i - 1]) /\ at[i - 1] \in Nat
        BY <1>2, <1>7, <3>1
      <3>3. f[i] = f[i - 1] \o s[i]
        BY <1>1, <3>1
      <3>4. f[i - 1] \in Seq(X) /\ s[i] \in Seq(X) /\ f[i] \in Seq(X) /\ f[Len(s)] \in Seq(X)
        BY <1>2, <2>0, <3>1
      <3> HIDE DEF at
      <3>5. StandsAt(s[i], f[i], Len(f[i - 1])) /\ Len(f[i]) = Len(f[i - 1]) + Len(s[i])
        BY <3>3, <3>4, StandsInJoined
      <3>6. StandsAt(s[i], f[Len(s)], 0 + at[i - 1])
        BY <1>6, <3>2, <3>4, <3>5, StandsInLonger
      <3> QED BY <3>2, <3>5, <3>6
    <2> QED BY <2>1, <2>2
  <1> HIDE DEF at
  <1> QED BY <1>1, <1>7, <1>8, <1>9

LEMMA FlattenNothing == FlattenSeq(<< >>) = << >>
  BY DEF FlattenSeq

LEMMA FlattenType ==
  ASSUME NEW X, NEW s \in Seq(Seq(X))
  PROVE  FlattenSeq(s) \in Seq(X)
  <1>1. CASE s = << >>
    <2>1. << >> \in Seq(X)
      OBVIOUS
    <2> QED BY <1>1, <2>1, FlattenNothing, Zenon
  <1>2. CASE s # << >>
    <2>1. \E at \in [0..Len(s) -> Nat] : FlattenSeq(s) \in Seq(X)
      BY <1>2, FlattenPlaces, Zenon
    <2> QED BY <2>1, Zenon
  <1> QED BY <1>1, <1>2

LEMMA FlattenCons ==
  ASSUME NEW X, NEW a \in Seq(X), NEW s \in Seq(Seq(X)), NEW r \in Seq(Seq(X)),
         Len(r) = Len(s) + 1, r[1] = a, \A i \in 1..Len(s) : r[i + 1] = s[i]
  PROVE  FlattenSeq(r) = a \o FlattenSeq(s)
  <1>1. Len(s) \in Nat /\ Len(r) \in Nat /\ r # << >>
    OBVIOUS
  <1>2. PICK g \in [1..Len(r) -> Seq(X)] :
          /\ g[1] = r[1]
          /\ \A i \in 2..Len(r) : g[i] = g[i - 1] \o r[i]
          /\ FlattenSeq(r) = g[Len(r)]
    BY <1>1, FlattenUnrolled
  <1>3. CASE s = << >>
    <2>1. Len(r) = 1 /\ a \o << >> = a
      BY <1>3
    <2> QED BY <1>2, <1>3, <2>1, FlattenNothing
  <1>4. CASE s # << >>
    <2>1. PICK f \in [1..Len(s) -> Seq(X)] :
            /\ f[1] = s[1]
            /\ \A i \in 2..Len(s) : f[i] = f[i - 1] \o s[i]
            /\ FlattenSeq(s) = f[Len(s)]
      BY <1>4, FlattenUnrolled
    <2>2. Len(s) # 0
      BY <1>4
    <2>3. \A i \in 1..Len(s) : f[i] \in Seq(X) /\ s[i] \in Seq(X)
      <3>1. \A i \in 1..Len(s) : f[i] \in Seq(X)
        BY <2>1, Zenon
      <3> QED BY <3>1
    <2> DEFINE T == {n \in Nat : n + 1 <= Len(s) => g[(n + 1) + 1] = a \o f[n + 1]}
    <2>4. 0 \in T
      <3>1. 2 \in 2..Len(r) /\ 1 \in 1..Len(s) /\ 2 - 1 = 1 /\ 1 + 1 = 2 /\ 0 + 1 = 1
        BY <1>1, <2>2
      <3>2. g[2] = g[1] \o r[2] /\ g[1] = a /\ r[2] = s[1] /\ f[1] = s[1]
        BY <1>2, <2>1, <3>1
      <3> QED BY <3>1, <3>2
    <2>5. ASSUME NEW n \in Nat, n \in T PROVE n + 1 \in T
      <3>0. n + 1 \in Nat
        OBVIOUS
      <3> SUFFICES ASSUME (n + 1) + 1 <= Len(s)
                   PROVE  g[((n + 1) + 1) + 1] = a \o f[(n + 1) + 1]
        BY <3>0, Zenon
      <3> DEFINE k == n + 1
      <3>1. /\ k \in 1..Len(s) /\ k + 1 \in 2..Len(s) /\ k + 1 \in 1..Len(s)
            /\ (k + 1) + 1 \in 2..Len(r)
            /\ (k + 1) - 1 = k /\ ((k + 1) + 1) - 1 = k + 1
        BY <1>1
      <3>2. g[k + 1] = a \o f[k]
        <4>1. n + 1 <= Len(s)
          BY <3>1
        <4> QED BY <2>5, <4>1
      <3> HIDE DEF k
      <3>3. g[(k + 1) + 1] = g[k + 1] \o r[(k + 1) + 1] /\ r[(k + 1) + 1] = s[k + 1]
        BY <1>2, <3>1
      <3>4. f[k + 1] = f[k] \o s[k + 1]
        BY <2>1, <3>1
      <3>5. f[k] \in Seq(X) /\ s[k + 1] \in Seq(X)
        BY <2>3, <3>1
      <3>6. (a \o f[k]) \o s[k + 1] = a \o (f[k] \o s[k + 1])
        <4> DEFINE b == f[k]
                   c == s[k + 1]
        <4>1. b \in Seq(X) /\ c \in Seq(X)
          BY <3>5
        <4> HIDE DEF b, c
        <4>2. (a \o b) \o c = a \o (b \o c)
          BY ONLY <4>1, a \in Seq(X), JoinedInTurn
        <4> QED BY <4>2 DEF b, c
      <3>7. g[(k + 1) + 1] = a \o f[k + 1]
        BY <3>2, <3>3, <3>4, <3>6
      <3> QED BY <3>7 DEF k
    <2> HIDE DEF T
    <2>6. \A n \in Nat : n \in T
      BY <2>4, <2>5, SetInduction
    <2>7. Len(s) - 1 \in Nat /\ (Len(s) - 1) + 1 = Len(s)
      BY <1>1, <2>2
    <2>8. Len(s) - 1 \in T
      BY <2>6, <2>7
    <2>9. g[Len(s) + 1] = a \o f[Len(s)]
      BY <1>1, <2>7, <2>8 DEF T
    <2> QED BY <1>2, <2>1, <2>9
  <1> QED BY <1>3, <1>4
-----------------------------------------------------------------------------
(***************************************************************************)
(* What a packed configuration is made of.                                 *)
(***************************************************************************)
Units ==
  [k : {"dev"}, d : DeviceIds \cup {NoDevice}]
  \cup [k : {"hdr"}, t : Tables, n : Nat]
  \cup [k : {"ent"}, e : Entry]
  \cup [k : {"crc"}, of : Seq(Entry)]
  \cup [k : {"end"}]

\* Of how many tables.
NumTables == Len(PackOrder)

LEMMA TablesInOrder ==
  /\ NumTables \in Nat /\ NumTables > 0 /\ DOMAIN PackOrder = 1..NumTables
  /\ \A i \in 1..NumTables : PackOrder[i] \in Tables
  /\ \A i, j \in 1..NumTables : PackOrder[i] = PackOrder[j] => i = j
  /\ Tables = {PackOrder[i] : i \in 1..NumTables}
  BY DEF NumTables, PackOrder, Tables

LEMMA PackedTable ==
  ASSUME NEW t \in Tables, NEW es \in Seq(Entry)
  PROVE  LET u == PackTable(t, es) IN
         /\ u \in Seq(Units)
         /\ es = << >> => u = << >> /\ Len(u) = 0
         /\ es # << >> =>
              /\ Len(u) = Len(es) + 2
              /\ u[1] = [k |-> "hdr", t |-> t, n |-> Len(es)]
              /\ \A j \in 1..Len(es) : u[1 + j] = [k |-> "ent", e |-> es[j]]
              /\ u[Len(es) + 2] = [k |-> "crc", of |-> es]
  <1> DEFINE h == [k |-> "hdr", t |-> t, n |-> Len(es)]
             b == [i \in DOMAIN es |-> [k |-> "ent", e |-> es[i]]]
             z == [k |-> "crc", of |-> es]
  <1>1. h \in Units /\ z \in Units
    BY DEF Units
  <1>2. \A i \in 1..Len(es) : [k |-> "ent", e |-> es[i]] \in Units
    BY DEF Units
  <1>3. b \in Seq(Units) /\ Len(b) = Len(es)
        /\ \A j \in 1..Len(es) : b[j] = [k |-> "ent", e |-> es[j]]
    BY <1>2
  <1>4. PackTable(t, es) = IF es = << >> THEN << >> ELSE << h >> \o b \o << z >>
    BY DEF PackTable
  <1>5. Len(es) \in Nat /\ (es # << >> => Len(es) > 0)
    OBVIOUS
  <1> HIDE DEF h, b, z
  <1>6. << h >> \o b \o << z >> \in Seq(Units)
    BY <1>1, <1>3
  <1>7. LET u == << h >> \o b \o << z >> IN
        /\ Len(u) = Len(es) + 2
        /\ u[1] = h
        /\ \A j \in 1..Len(es) : u[1 + j] = b[j]
        /\ u[Len(es) + 2] = z
    BY <1>1, <1>3, <1>5
  <1> QED BY <1>3, <1>4, <1>5, <1>6, <1>7 DEF h, z
Part(c, i) == PackTable(PackOrder[i], c.tab[PackOrder[i]])

Parts(c) == [i \in DOMAIN PackOrder |-> Part(c, i)]

\* pos[i] is where the units of the first i tables of c end in its packed form.
Places(c, pos) ==
  /\ pos \in [0..NumTables -> Nat]
  /\ pos[0] = 2
  /\ \A i \in 1..NumTables : /\ pos[i] = pos[i - 1] + Len(Part(c, i))
                      /\ pos[i] >= 2
                      /\ StandsAt(Part(c, i), Pack(c), pos[i - 1] - 1)
  /\ pos[NumTables] = Len(Pack(c))

LEMMA PartOf ==
  ASSUME NEW c \in Config, NEW i \in 1..NumTables
  PROVE  /\ PackOrder[i] \in Tables
         /\ c.tab[PackOrder[i]] \in Seq(Entry)
         /\ Part(c, i) \in Seq(Units)
  <1>1. PackOrder[i] \in Tables
    BY TablesInOrder
  <1>2. c.tab[PackOrder[i]] \in Seq(Entry)
    BY <1>1 DEF Config
  <1>3. Part(c, i) \in Seq(Units)
    BY <1>1, <1>2, PackedTable, Zenon DEF Part
  <1> QED BY <1>1, <1>2, <1>3

LEMMA PackedPlaces ==
  ASSUME NEW c \in Config
  PROVE  /\ Pack(c) \in Seq(Units)
         /\ Len(Pack(c)) >= 2
         /\ Pack(c)[1] = [k |-> "dev", d |-> c.dev]
         /\ Pack(c)[Len(Pack(c))] = FinalHeader
         /\ \E pos : Places(c, pos)
  <1>1. Parts(c) \in Seq(Seq(Units)) /\ Len(Parts(c)) = NumTables
        /\ \A i \in 1..NumTables : Parts(c)[i] = Part(c, i)
    <2>1. DOMAIN PackOrder = 1..NumTables /\ NumTables \in Nat
      BY TablesInOrder
    <2>2. \A i \in 1..NumTables : Part(c, i) \in Seq(Units)
      BY PartOf
    <2> QED BY <2>1, <2>2 DEF Parts
  <1>2. Parts(c) # << >>
    <2>1. Len(<< >>) = 0 /\ NumTables # 0
      BY TablesInOrder
    <2> QED BY <1>1, <2>1, Zenon
  <1>3. PICK F : F = FlattenSeq(Parts(c))
    OBVIOUS
  <1>4. PICK dev : dev = [k |-> "dev", d |-> c.dev]
    OBVIOUS
  <1>5. Pack(c) = << dev >> \o F \o << FinalHeader >>
    BY <1>3, <1>4 DEF Pack, Parts, Part
  <1>6. dev \in Units /\ FinalHeader \in Units
    BY <1>4 DEF Units, FinalHeader, Config
  <1>7a. \E at \in [0..Len(Parts(c)) -> Nat] :
           /\ FlattenSeq(Parts(c)) \in Seq(Units)
           /\ at[0] = 0
           /\ at[Len(Parts(c))] = Len(FlattenSeq(Parts(c)))
           /\ \A i \in 1..Len(Parts(c)) :
                /\ at[i] = at[i - 1] + Len(Parts(c)[i])
                /\ StandsAt(Parts(c)[i], FlattenSeq(Parts(c)), at[i - 1])
    BY <1>1, <1>2, FlattenPlaces, Zenon
  <1>7b. PICK at \in [0..NumTables -> Nat] :
          /\ F \in Seq(Units)
          /\ at[0] = 0
          /\ at[NumTables] = Len(F)
          /\ \A i \in 1..NumTables : /\ at[i] = at[i - 1] + Len(Parts(c)[i])
                              /\ StandsAt(Parts(c)[i], F, at[i - 1])
    BY <1>1, <1>3, <1>7a, Zenon
  <1>7c. F \in Seq(Units)
    BY <1>7b
  <1>7d. at[0] = 0 /\ at[NumTables] = Len(F)
    BY <1>7b
  <1>7e. \A i \in 1..NumTables : /\ at[i] = at[i - 1] + Len(Part(c, i))
                          /\ StandsAt(Part(c, i), F, at[i - 1])
    BY <1>1, <1>7b, Zenon
  <1>8a. Pack(c) \in Seq(Units) /\ Len(F) \in Nat /\ Len(Pack(c)) = Len(F) + 2
    BY ONLY <1>5, <1>6, <1>7c, StandsBetween
  <1>8b. Pack(c)[1] = dev /\ Pack(c)[Len(Pack(c))] = FinalHeader
    BY ONLY <1>5, <1>6, <1>7c, StandsBetween
  <1>8c. StandsAt(F, Pack(c), 1)
    BY ONLY <1>5, <1>6, <1>7c, StandsBetween DEF StandsAt
  <1>9. PICK pos : pos = [i \in 0..NumTables |-> at[i] + 2]
    OBVIOUS
  <1>9a. NumTables \in Nat
    BY TablesInOrder
  <1>10. pos \in [0..NumTables -> Nat] /\ pos[0] = 2 /\ pos[NumTables] = Len(Pack(c))
    <2>1. \A i \in 0..NumTables : at[i] + 2 \in Nat
      BY <1>7b
    <2>2. pos \in [0..NumTables -> Nat]
      BY <1>9, <2>1
    <2>3. pos[0] = 2
      BY <1>7d, <1>9, <1>9a
    <2>4. pos[NumTables] = Len(Pack(c))
      BY <1>7d, <1>8a, <1>9, <1>9a
    <2> QED BY <2>2, <2>3, <2>4
  <1>11. ASSUME NEW i \in 1..NumTables
         PROVE  /\ pos[i] = pos[i - 1] + Len(Part(c, i))
                /\ pos[i] >= 2
                /\ StandsAt(Part(c, i), Pack(c), pos[i - 1] - 1)
    <2>1. i - 1 \in 0..NumTables /\ i \in 0..NumTables
      BY <1>9a
    <2>2. pos[i] = at[i] + 2 /\ pos[i - 1] = at[i - 1] + 2 /\ at[i] \in Nat /\ at[i - 1] \in Nat
      BY <1>9, <2>1
    <2>3. at[i] = at[i - 1] + Len(Part(c, i)) /\ StandsAt(Part(c, i), F, at[i - 1])
      BY <1>7e
    <2>4. Part(c, i) \in Seq(Units) /\ F \in Seq(Units) /\ Pack(c) \in Seq(Units)
      BY <1>7c, <1>8a, PartOf
    <2>5. Len(Part(c, i)) \in Nat
      BY <2>4
    <2>6. StandsAt(Part(c, i), Pack(c), 1 + at[i - 1])
      BY <1>8c, <2>2, <2>3, <2>4, StandsInLonger
    <2>7. 1 + at[i - 1] = pos[i - 1] - 1
      BY <2>2
    <2>8. pos[i] = pos[i - 1] + Len(Part(c, i)) /\ pos[i] >= 2
      BY <2>2, <2>3, <2>5
    <2> QED BY <2>6, <2>7, <2>8, Zenon
  <1>12. Places(c, pos)
    BY <1>10, <1>11 DEF Places
  <1>13. Len(Pack(c)) >= 2
    BY <1>8a
  <1>14. Pack(c)[1] = [k |-> "dev", d |-> c.dev]
    BY <1>4, <1>8b
  <1> QED BY <1>8a, <1>8b, <1>12, <1>13, <1>14, Zenon
-----------------------------------------------------------------------------
(***************************************************************************)
(* The parse loop, one turn at a time.                                     *)
(***************************************************************************)
EndOfTables == [ok |-> TRUE, tabs |-> << >>]

WithTableFirst(r, t, es) == [r EXCEPT !.tabs = << [t |-> t, es |-> es] >> \o @]

ParseTurn(buf, f, i) ==
  IF i = Len(buf) + 1 THEN {Bad, EndOfTables}
  ELSE IF buf[i].k = "end" THEN {EndOfTables}
  ELSE IF buf[i].k = "hdr" /\ TableIntact(buf, i)
  THEN { IF r.ok THEN WithTableFirst(r, buf[i].t, EntriesAt(buf, i)) ELSE Bad :
           r \in f[i + buf[i].n + 2] }
  ELSE {Bad}

Parse(buf, lo, f) == f = [i \in lo..(Len(buf) + 1) |-> ParseTurn(buf, f, i)]

LEMMA ParseAt ==
  ASSUME NEW buf, NEW lo, NEW f, Parse(buf, lo, f), NEW i \in lo..(Len(buf) + 1)
  PROVE  f[i] = ParseTurn(buf, f, i)
  BY Zenon DEF Parse

LEMMA ParseGoesOn ==
  ASSUME NEW buf \in Seq(Units), NEW i \in 1..(Len(buf) + 1), NEW f, NEW g,
         \A j \in (i + 1)..(Len(buf) + 1) : f[j] = g[j]
  PROVE  ParseTurn(buf, f, i) = ParseTurn(buf, g, i)
  <1>1. CASE i # Len(buf) + 1 /\ buf[i].k = "hdr" /\ TableIntact(buf, i)
    <2>1. i \in 1..Len(buf) /\ Len(buf) \in Nat
      BY <1>1
    <2>2. buf[i].n \in Nat
      <3>1. buf[i] \in Units
        BY <2>1
      <3> QED BY <1>1, <3>1 DEF Units
    <2>3. i + buf[i].n + 1 <= Len(buf)
      BY <1>1 DEF TableIntact
    <2>4. i + buf[i].n + 2 \in (i + 1)..(Len(buf) + 1)
      BY <2>1, <2>2, <2>3
    <2>5. f[i + buf[i].n + 2] = g[i + buf[i].n + 2]
      BY <2>4
    <2> QED BY <2>5, Zenon DEF ParseTurn
  <1>2. CASE ~(i # Len(buf) + 1 /\ buf[i].k = "hdr" /\ TableIntact(buf, i))
    BY <1>2, Zenon DEF ParseTurn
  <1> QED BY <1>1, <1>2

LEMMA ParseExists ==
  ASSUME NEW buf \in Seq(Units), buf # << >>
  PROVE  \E f : Parse(buf, 2, f)
  <1>1. PICK n0 \in Nat : n0 = Len(buf)
    OBVIOUS
  <1>1a. n0 > 0
    BY <1>1
  <1> DEFINE T == {n \in Nat : n <= n0 => \E f : Parse(buf, (n0 + 2) - n, f)}
  <1>2. 0 \in T
    <2>1. (n0 + 2)..(n0 + 1) = {}
      BY <1>1
    <2>2. Parse(buf, n0 + 2, [i \in {} |-> 0])
      BY <1>1, <2>1 DEF Parse
    <2>3. (n0 + 2) - 0 = n0 + 2
      OBVIOUS
    <2> QED BY <2>2, <2>3
  <1>3. ASSUME NEW n \in Nat, n \in T PROVE n + 1 \in T
    <2>0. n + 1 \in Nat
      OBVIOUS
    <2> SUFFICES ASSUME n + 1 <= n0 PROVE \E f : Parse(buf, (n0 + 2) - (n + 1), f)
      BY <2>0, Zenon
    <2>1. PICK lo : lo = (n0 + 2) - (n + 1)
      OBVIOUS
    <2>2. lo \in 2..(n0 + 1) /\ lo + 1 = (n0 + 2) - n /\ n <= n0 /\ lo \in Nat
      BY <2>1
    <2>3. PICK f : Parse(buf, lo + 1, f)
      BY <1>3, <2>2
    <2>4. PICK g : g = [i \in lo..(n0 + 1) |-> IF i = lo THEN ParseTurn(buf, f, lo) ELSE f[i]]
      OBVIOUS
    <2>5. ASSUME NEW j \in (lo + 1)..(n0 + 1) PROVE g[j] = f[j]
      BY <2>2, <2>4
    <2>6. ASSUME NEW i \in lo..(n0 + 1) PROVE g[i] = ParseTurn(buf, g, i)
      <3>1. i \in 1..(Len(buf) + 1) /\ \A j \in (i + 1)..(Len(buf) + 1) : f[j] = g[j]
        BY <1>1, <2>2, <2>5
      <3>2. ParseTurn(buf, f, i) = ParseTurn(buf, g, i)
        BY <3>1, ParseGoesOn
      <3>3. CASE i = lo
        BY <2>4, <3>2, <3>3
      <3>4. CASE i # lo
        <4>1. i \in (lo + 1)..(Len(buf) + 1)
          BY <1>1, <2>2, <3>4
        <4>2. f[i] = ParseTurn(buf, f, i)
          BY <2>3, <4>1, ParseAt
        <4>3. g[i] = f[i]
          BY <1>1, <2>5, <4>1
        <4> QED BY <3>2, <4>2, <4>3
      <3> QED BY <3>3, <3>4
    <2>7. g = [i \in lo..(n0 + 1) |-> g[i]]
      BY <2>4
    <2>8. Parse(buf, lo, g)
      BY <1>1, <2>6, <2>7, Zenon DEF Parse
    <2> QED BY <2>1, <2>8
  <1> HIDE DEF T
  <1>4. \A n \in Nat : n \in T
    BY <1>2, <1>3, SetInduction
  <1>5. n0 \in T /\ (n0 + 2) - n0 = 2
    BY <1>4
  <1> QED BY <1>5 DEF T

LEMMA ParsedFrom ==
  ASSUME NEW buf \in Seq(Units), buf # << >>
  PROVE  \E f : Parse(buf, 2, f) /\ ParsedTables(buf) = f[2]
  <1>1. PICK f : f = CHOOSE g : Parse(buf, 2, g)
    OBVIOUS
  <1>2. Parse(buf, 2, f)
    BY <1>1, ParseExists, Zenon
  <1>3. ParsedTables(buf) = f[2]
    BY <1>1, Zenon DEF ParsedTables, Parse, ParseTurn, EndOfTables, WithTableFirst
  <1> QED BY <1>2, <1>3
-----------------------------------------------------------------------------
(***************************************************************************)
(* The entries of the tables met, added up.                                *)
(***************************************************************************)
MetTable == [t : Tables, es : Seq(Entry)]
MetTables == Seq(MetTable)

LEMMA EntriesOfMet ==
  ASSUME NEW tabs \in MetTables
  PROVE  /\ Len(tabs) \in Nat /\ DOMAIN tabs = 1..Len(tabs)
         /\ \A i \in 1..Len(tabs) : tabs[i] \in MetTable /\ tabs[i].es \in Seq(Entry)
  <1>1. Len(tabs) \in Nat /\ DOMAIN tabs = 1..Len(tabs) /\ \A i \in 1..Len(tabs) : tabs[i] \in MetTable
    BY DEF MetTables
  <1>2. \A m \in MetTable : m.es \in Seq(Entry)
    BY Zenon DEF MetTable
  <1> QED BY <1>1, <1>2, Zenon

LEMMA TableOfNothing ==
  ASSUME NEW t
  PROVE  TableOf(<< >>, t) = << >>
  <1>1. [i \in DOMAIN << >> |-> IF << >>[i].t = t THEN << >>[i].es ELSE << >>] = << >>
    OBVIOUS
  <1> QED BY <1>1, FlattenNothing DEF TableOf

LEMMA TableOfFirst ==
  ASSUME NEW t \in Tables, NEW es \in Seq(Entry), NEW tabs \in MetTables, NEW u \in Tables
  PROVE  TableOf(<< [t |-> t, es |-> es] >> \o tabs, u)
           = IF t = u THEN es \o TableOf(tabs, u) ELSE TableOf(tabs, u)
  <1>1. PICK a : a = [t |-> t, es |-> es]
    OBVIOUS
  <1>2. PICK all : all = << a >> \o tabs
    OBVIOUS
  <1>3. a \in MetTable
    BY <1>1 DEF MetTable
  <1>4. all \in MetTables /\ Len(all) = Len(tabs) + 1 /\ all[1] = a
        /\ \A i \in 1..Len(tabs) : all[i + 1] = tabs[i]
    BY <1>2, <1>3 DEF MetTables
  <1>5. PICK s : s = [i \in DOMAIN tabs |-> IF tabs[i].t = u THEN tabs[i].es ELSE << >>]
    OBVIOUS
  <1>6. PICK r : r = [i \in DOMAIN all |-> IF all[i].t = u THEN all[i].es ELSE << >>]
    OBVIOUS
  <1>7. << >> \in Seq(Entry)
    OBVIOUS
  <1>8. Len(tabs) \in Nat /\ DOMAIN tabs = 1..Len(tabs)
        /\ \A i \in 1..Len(tabs) : tabs[i].es \in Seq(Entry)
    BY EntriesOfMet
  <1>9. s \in Seq(Seq(Entry)) /\ Len(s) = Len(tabs)
    BY <1>5, <1>7, <1>8
  <1>10. Len(all) \in Nat /\ DOMAIN all = 1..Len(all)
         /\ \A i \in 1..Len(all) : all[i].es \in Seq(Entry)
    BY <1>4, EntriesOfMet
  <1>11. r \in Seq(Seq(Entry)) /\ Len(r) = Len(all)
    BY <1>6, <1>7, <1>10
  <1>12. ASSUME NEW i \in 1..Len(s) PROVE r[i + 1] = s[i]
    <2>1. i \in DOMAIN tabs /\ i + 1 \in DOMAIN all /\ all[i + 1] = tabs[i]
      BY <1>4, <1>9 DEF MetTables
    <2> QED BY <1>5, <1>6, <2>1
  <1>13. PICK b \in Seq(Entry) : b = IF t = u THEN es ELSE << >>
    BY <1>7
  <1>14. r[1] = b /\ Len(r) = Len(s) + 1
    <2>1. 1 \in DOMAIN all /\ all[1].t = t /\ all[1].es = es
      BY <1>1, <1>4 DEF MetTables
    <2>2. r[1] = IF all[1].t = u THEN all[1].es ELSE << >>
      BY <1>6, <2>1
    <2>3. r[1] = b
      BY <1>13, <2>1, <2>2
    <2> QED BY <1>4, <1>9, <1>11, <2>3
  <1>15. FlattenSeq(r) = b \o FlattenSeq(s)
    BY ONLY <1>9, <1>11, <1>12, b \in Seq(Entry), <1>14, FlattenCons
  <1>16. TableOf(all, u) = b \o TableOf(tabs, u)
    BY <1>5, <1>6, <1>15 DEF TableOf
  <1>17. TableOf(tabs, u) \in Seq(Entry)
    <2>1. FlattenSeq(s) \in Seq(Entry)
      BY <1>9, FlattenType
    <2> QED BY <1>5, <2>1 DEF TableOf
  <1>18. << >> \o TableOf(tabs, u) = TableOf(tabs, u)
    BY ONLY <1>17
  <1>19. << [t |-> t, es |-> es] >> \o tabs = all
    BY <1>1, <1>2
  <1> QED BY <1>13, <1>16, <1>18, <1>19

(***************************************************************************)
(* The tables met are those of c from the (k+1)-th to the j-th.            *)
(***************************************************************************)
Kept(c, k, j, tabs) ==
  \A t \in Tables : TableOf(tabs, t) = IF \E i \in (k + 1)..j : PackOrder[i] = t
                                       THEN c.tab[t] ELSE << >>

LEMMA KeptAtTheEnd ==
  ASSUME NEW c, NEW k \in 0..NumTables
  PROVE  Kept(c, k, k, << >>)
  <1>1. (k + 1)..k = {}
    BY TablesInOrder
  <1> QED BY <1>1, TableOfNothing DEF Kept

LEMMA KeptWithout ==
  ASSUME NEW c, NEW k \in 1..NumTables, NEW j \in k..NumTables, NEW tabs,
         c.tab[PackOrder[k]] = << >>, Kept(c, k, j, tabs)
  PROVE  Kept(c, k - 1, j, tabs)
  <1> SUFFICES ASSUME NEW t \in Tables
               PROVE  TableOf(tabs, t) = IF \E i \in ((k - 1) + 1)..j : PackOrder[i] = t
                                         THEN c.tab[t] ELSE << >>
    BY DEF Kept
  <1>0. k \in Nat /\ j \in Nat /\ k <= j
    BY TablesInOrder
  <1>1. ((k - 1) + 1)..j = {k} \cup ((k + 1)..j)
    BY <1>0
  <1>2. TableOf(tabs, t) = IF \E i \in (k + 1)..j : PackOrder[i] = t THEN c.tab[t] ELSE << >>
    BY DEF Kept
  <1> QED BY <1>1, <1>2

LEMMA KeptWith ==
  ASSUME NEW c \in Config, NEW k \in 1..NumTables, NEW j \in k..NumTables, NEW tabs \in MetTables,
         Kept(c, k, j, tabs)
  PROVE  Kept(c, k - 1, j,
              << [t |-> PackOrder[k], es |-> c.tab[PackOrder[k]]] >> \o tabs)
  <1>0. k \in Nat /\ j \in Nat /\ k <= j /\ j <= NumTables
    BY TablesInOrder
  <1>1. PICK all : all = << [t |-> PackOrder[k], es |-> c.tab[PackOrder[k]]] >> \o tabs
    OBVIOUS
  <1>2. ASSUME NEW t \in Tables
        PROVE  TableOf(all, t) = IF \E i \in ((k - 1) + 1)..j : PackOrder[i] = t
                                 THEN c.tab[t] ELSE << >>
    <2>1. ((k - 1) + 1)..j = {k} \cup ((k + 1)..j)
      BY <1>0
    <2>2. TableOf(tabs, t) = IF \E i \in (k + 1)..j : PackOrder[i] = t THEN c.tab[t] ELSE << >>
      BY DEF Kept
    <2>3. TableOf(all, t) = IF PackOrder[k] = t THEN c.tab[PackOrder[k]] \o TableOf(tabs, t)
                            ELSE TableOf(tabs, t)
      <3>1. k \in 1..NumTables
        OBVIOUS
      <3>2. PackOrder[k] \in Tables /\ c.tab[PackOrder[k]] \in Seq(Entry)
        BY <3>1, PartOf, Zenon
      <3> QED BY <1>1, <3>2, TableOfFirst, Zenon
    <2>4. CASE PackOrder[k] = t
      <3>1. ~ \E i \in (k + 1)..j : PackOrder[i] = t
        BY <1>0, <2>4, TablesInOrder
      <3>2. c.tab[t] \o << >> = c.tab[t]
        <4>1. c.tab[t] \in Seq(Entry)
          BY DEF Config
        <4> QED BY <4>1
      <3>3. TableOf(all, t) = c.tab[t]
        BY <2>2, <2>3, <2>4, <3>1, <3>2
      <3> QED BY <2>1, <2>4, <3>3
    <2>5. CASE PackOrder[k] # t
      BY <2>1, <2>2, <2>3, <2>5
    <2> QED BY <2>4, <2>5
  <1> QED BY <1>1, <1>2 DEF Kept
-----------------------------------------------------------------------------
(***************************************************************************)
(* A file that begins like a packed configuration, as far as it goes.      *)
(***************************************************************************)
Begins(buf, c) ==
  \A x \in 1..Len(Pack(c)) : x <= Len(buf) => buf[x] = Pack(c)[x]

\* What pack wrote of table k stands in the file, if that is long enough.
LEMMA PartInFile ==
  ASSUME NEW c \in Config, NEW pos, Places(c, pos), NEW k \in 1..NumTables,
         NEW buf \in Seq(Units), Begins(buf, c),
         NEW x \in 1..Len(Part(c, k)), pos[k - 1] - 1 + x <= Len(buf)
  PROVE  buf[pos[k - 1] - 1 + x] = Part(c, k)[x]
  <1>1. pos[k - 1] \in Nat /\ pos[k - 1] >= 2
    <2>1. pos \in [0..NumTables -> Nat] /\ pos[0] = 2
      BY Zenon DEF Places
    <2>2. \A i \in 1..NumTables : pos[i] >= 2
      BY Zenon DEF Places
    <2>3. k - 1 \in 0..NumTables /\ (k - 1 = 0 \/ k - 1 \in 1..NumTables)
      BY TablesInOrder
    <2> QED BY <2>1, <2>2, <2>3
  <1>2. StandsAt(Part(c, k), Pack(c), pos[k - 1] - 1)
    BY Zenon DEF Places
  <1>3. Len(Part(c, k)) \in Nat
    BY PartOf
  <1>4. Len(Pack(c)) \in Nat
    BY PackedPlaces
  <1>5. pos[k - 1] - 1 + x \in 1..Len(Pack(c))
    BY <1>1, <1>2, <1>3, <1>4 DEF StandsAt
  <1>6. Pack(c)[pos[k - 1] - 1 + x] = Part(c, k)[x]
    BY <1>2 DEF StandsAt
  <1> QED BY <1>5, <1>6 DEF Begins

LEMMA Intact ==
  ASSUME NEW buf, NEW i, NEW last, last = i + buf[i].n + 1
  PROVE  TableIntact(buf, i) <=>
           /\ last <= Len(buf)
           /\ \A j \in (i + 1)..(last - 1) : buf[j].k = "ent"
           /\ buf[last].k = "crc"
           /\ buf[last].of = EntriesAt(buf, i)
  BY Zenon DEF TableIntact

LEMMA TurnAtTable ==
  ASSUME NEW c \in Config, NEW pos, Places(c, pos), NEW k \in 1..NumTables,
         NEW buf \in Seq(Units), Begins(buf, c), NEW f,
         c.tab[PackOrder[k]] # << >>, pos[k - 1] <= Len(buf)
  PROVE  ParseTurn(buf, f, pos[k - 1])
           = IF pos[k] - 1 <= Len(buf)
             THEN { IF r.ok THEN WithTableFirst(r, PackOrder[k], c.tab[PackOrder[k]]) ELSE Bad :
                      r \in f[pos[k]] }
             ELSE {Bad}
  <1>1. PICK es : es = c.tab[PackOrder[k]]
    OBVIOUS
  <1>2. PICK t : t = PackOrder[k]
    OBVIOUS
  <1>3. PICK q : q = pos[k - 1]
    OBVIOUS
  <1>4. PICK n : n = Len(es)
    OBVIOUS
  <1>5. PICK u : u = Part(c, k)
    OBVIOUS
  <1>6. t \in Tables /\ es \in Seq(Entry) /\ es # << >>
    BY <1>1, <1>2, PartOf
  <1>7. n \in Nat /\ n > 0 /\ Len(buf) \in Nat /\ q \in Nat
    <2>1. pos \in [0..NumTables -> Nat]
      BY Zenon DEF Places
    <2>2. k - 1 \in 0..NumTables
      <3>1. NumTables \in Nat
        BY TablesInOrder
      <3> QED BY ONLY <3>1, k \in 1..NumTables
    <2> QED BY <1>3, <1>4, <1>6, <2>1, <2>2
  <1>8. /\ Len(u) = n + 2
        /\ u[1] = [k |-> "hdr", t |-> t, n |-> n]
        /\ \A j \in 1..n : u[1 + j] = [k |-> "ent", e |-> es[j]]
        /\ u[n + 2] = [k |-> "crc", of |-> es]
    <2>1. u = PackTable(t, es)
      BY <1>1, <1>2, <1>5 DEF Part
    <2> QED BY <1>4, <1>6, <2>1, PackedTable
  <1>9. pos[k] = q + (n + 2)
    <2>1. pos[k] = pos[k - 1] + Len(Part(c, k))
      BY Zenon DEF Places
    <2> QED BY <1>3, <1>5, <1>8, <2>1
  <1>10. \A x \in 1..(n + 2) : q - 1 + x <= Len(buf) => buf[q - 1 + x] = u[x]
    BY <1>3, <1>5, <1>8, PartInFile
  <1>11. buf[q] = [k |-> "hdr", t |-> t, n |-> n]
    <2>1. 1 \in 1..(n + 2) /\ q - 1 + 1 = q /\ q <= Len(buf)
      BY <1>3, <1>7
    <2> QED BY <1>8, <1>10, <2>1
  <1>12. buf[q].k = "hdr" /\ buf[q].t = t /\ buf[q].n = n
    BY <1>11
  <1>13. CASE q + n + 1 <= Len(buf)
    <2>1. ASSUME NEW j \in 1..n PROVE buf[q + j] = [k |-> "ent", e |-> es[j]]
      <3>1. 1 + j \in 1..(n + 2) /\ q - 1 + (1 + j) = q + j /\ q + j <= Len(buf)
        BY <1>7, <1>13
      <3> QED BY <1>8, <1>10, <3>1
    <2>2. buf[q + n + 1] = [k |-> "crc", of |-> es]
      <3>1. n + 2 \in 1..(n + 2) /\ q - 1 + (n + 2) = q + n + 1
        BY <1>7
      <3> QED BY <1>8, <1>10, <1>13, <3>1
    <2>3. EntriesAt(buf, q) = es
      <3>1. ASSUME NEW j \in 1..n PROVE buf[q + j].e = es[j]
        <4>1. [k |-> "ent", e |-> es[j]].e = es[j]
          OBVIOUS
        <4> QED BY <2>1, <4>1, Zenon
      <3>2. EntriesAt(buf, q) = [j \in 1..n |-> buf[q + j].e]
        BY <1>12, Zenon DEF EntriesAt
      <3>3. [j \in 1..n |-> buf[q + j].e] = [j \in 1..n |-> es[j]]
        BY <3>1, Zenon
      <3>4. es = [j \in 1..n |-> es[j]]
        BY <1>4, <1>6
      <3> QED BY <3>2, <3>3, <3>4, Zenon
    <2>4. TableIntact(buf, q)
      <3>1. PICK last : last = q + buf[q].n + 1
        OBVIOUS
      <3>2. last = q + n + 1
        BY <1>12, <3>1
      <3>3. ASSUME NEW j \in (q + 1)..(last - 1) PROVE buf[j].k = "ent"
        <4>1. j - q \in 1..n /\ q + (j - q) = j
          BY <1>7, <3>2
        <4>2. buf[j] = [k |-> "ent", e |-> es[j - q]]
          BY <2>1, <4>1
        <4> QED BY <4>2
      <3>4. last <= Len(buf) /\ buf[last].k = "crc" /\ buf[last].of = es
        BY <1>13, <2>2, <3>2
      <3> QED BY <2>3, <3>1, <3>3, <3>4, Intact, Zenon
    <2>5. q # Len(buf) + 1 /\ buf[q].k # "end"
      BY <1>7, <1>12, <1>13
    <2>6. q + n + 2 = pos[k] /\ pos[k] - 1 <= Len(buf)
      BY <1>7, <1>9, <1>13
    <2>7. ParseTurn(buf, f, q)
            = { IF r.ok THEN WithTableFirst(r, t, es) ELSE Bad : r \in f[q + n + 2] }
      BY <1>12, <2>3, <2>4, <2>5, Zenon DEF ParseTurn
    <2> QED BY <1>1, <1>2, <1>3, <2>6, <2>7
  <1>14. CASE ~(q + n + 1 <= Len(buf))
    <2>1. ~TableIntact(buf, q)
      BY <1>12, <1>14 DEF TableIntact
    <2>2. q # Len(buf) + 1 /\ buf[q].k # "end"
      BY <1>3, <1>7, <1>12
    <2>3. ~(pos[k] - 1 <= Len(buf))
      BY <1>7, <1>9, <1>14
    <2>4. ParseTurn(buf, f, q) = {Bad}
      BY <2>1, <2>2, Zenon DEF ParseTurn
    <2> QED BY <1>3, <2>3, <2>4
  <1> QED BY <1>13, <1>14

LEMMA PlaceFacts ==
  ASSUME NEW c \in Config, NEW pos, Places(c, pos)
  PROVE  /\ pos[0] = 2
         /\ pos[NumTables] = Len(Pack(c))
         /\ \A k \in 0..NumTables : pos[k] \in Nat /\ pos[k] >= 2
         /\ \A k \in 1..NumTables :
              /\ pos[k] = pos[k - 1] + Len(Part(c, k))
              /\ pos[k] - 1 <= Len(Pack(c))
              /\ c.tab[PackOrder[k]] = << >> => pos[k] = pos[k - 1]
  <1>1. pos[0] = 2 /\ pos[NumTables] = Len(Pack(c)) /\ pos \in [0..NumTables -> Nat]
    BY Zenon DEF Places
  <1>2. \A k \in 1..NumTables : /\ pos[k] = pos[k - 1] + Len(Part(c, k))
                                /\ pos[k] >= 2
                                /\ StandsAt(Part(c, k), Pack(c), pos[k - 1] - 1)
    BY Zenon DEF Places
  <1>3. NumTables \in Nat
    BY TablesInOrder
  <1>4. \A k \in 0..NumTables : pos[k] \in Nat /\ pos[k] >= 2
    <2>1. ASSUME NEW k \in 0..NumTables PROVE pos[k] \in Nat /\ pos[k] >= 2
      <3>1. k = 0 \/ k \in 1..NumTables
        BY <1>3
      <3>2. pos[k] \in Nat
        BY <1>1
      <3> QED BY <1>1, <1>2, <3>1, <3>2
    <2> QED BY <2>1
  <1>5. ASSUME NEW k \in 1..NumTables
        PROVE  /\ pos[k] - 1 <= Len(Pack(c))
               /\ c.tab[PackOrder[k]] = << >> => pos[k] = pos[k - 1]
    <2>1. k \in 0..NumTables /\ k - 1 \in 0..NumTables
      BY <1>3
    <2>2. pos[k] \in Nat /\ pos[k - 1] \in Nat
      BY <1>4, <2>1
    <2>3. pos[k] = pos[k - 1] + Len(Part(c, k))
      BY <1>2
    <2>4. pos[k - 1] - 1 + Len(Part(c, k)) <= Len(Pack(c))
      BY <1>2 DEF StandsAt
    <2>5. Len(Part(c, k)) \in Nat
      BY PartOf
    <2>6. c.tab[PackOrder[k]] = << >> => Len(Part(c, k)) = 0
      <3>1. PackTable(PackOrder[k], c.tab[PackOrder[k]]) = << >>
            \/ c.tab[PackOrder[k]] # << >>
        BY DEF PackTable
      <3> QED BY <3>1 DEF Part
    <2> QED BY <2>2, <2>3, <2>4, <2>5, <2>6
  <1> QED BY <1>1, <1>2, <1>4, <1>5, Zenon

Found(tabs) == [ok |-> TRUE, tabs |-> tabs]

LEMMA Replaced ==
  ASSUME NEW b, NEW a, NEW u
  PROVE  [[ok |-> b, tabs |-> a] EXCEPT !.tabs = u] = [ok |-> b, tabs |-> u]
  OBVIOUS

LEMMA FoundWithTableFirst ==
  ASSUME NEW c \in Config, NEW k \in 1..NumTables, NEW tabs \in MetTables
  PROVE  LET a == [t |-> PackOrder[k], es |-> c.tab[PackOrder[k]]] IN
         /\ << a >> \o tabs \in MetTables
         /\ WithTableFirst(Found(tabs), PackOrder[k], c.tab[PackOrder[k]]) = Found(<< a >> \o tabs)
  <1>1. PICK a : a = [t |-> PackOrder[k], es |-> c.tab[PackOrder[k]]]
    OBVIOUS
  <1>2. a \in MetTable
    BY <1>1, PartOf DEF MetTable
  <1>3. << a >> \o tabs \in MetTables
    BY <1>2 DEF MetTables
  <1>4. WithTableFirst(Found(tabs), PackOrder[k], c.tab[PackOrder[k]]) = Found(<< a >> \o tabs)
    <2>1. PICK u : u = << a >> \o tabs
      OBVIOUS
    <2>2. [[ok |-> TRUE, tabs |-> tabs] EXCEPT !.tabs = u] = [ok |-> TRUE, tabs |-> u]
      BY Replaced, Zenon
    <2> QED BY <1>1, <2>1, <2>2 DEF WithTableFirst, Found
  <1> QED BY <1>1, <1>3, <1>4

LEMMA WholeParse ==
  ASSUME NEW c \in Config, NEW buf \in Seq(Units), buf # << >>,
         Begins(buf, c), Len(Pack(c)) <= Len(buf)
  PROVE  \E tabs \in MetTables :
           ParsedTables(buf) = {Found(tabs)} /\ Kept(c, 0, NumTables, tabs)
  <1>1. PICK pos : Places(c, pos)
    BY PackedPlaces
  <1>2. PICK f : Parse(buf, 2, f) /\ ParsedTables(buf) = f[2]
    BY ParsedFrom
  <1>3. NumTables \in Nat /\ NumTables > 0 /\ Len(buf) \in Nat
    BY TablesInOrder
  <1>4. Len(Pack(c)) \in Nat
    BY PackedPlaces
  <1>5. /\ pos[0] = 2
        /\ pos[NumTables] = Len(Pack(c))
        /\ \A k \in 0..NumTables : pos[k] \in Nat /\ pos[k] >= 2
        /\ \A k \in 1..NumTables : /\ pos[k] - 1 <= Len(Pack(c))
                                   /\ c.tab[PackOrder[k]] = << >> => pos[k] = pos[k - 1]
    BY <1>1, PlaceFacts, Zenon
  <1> DEFINE Good(k) == \E tabs \in MetTables :
                          f[pos[k]] = {Found(tabs)} /\ Kept(c, k, NumTables, tabs)
  <1>6. Good(NumTables)
    <2>1. pos[NumTables] \in 2..(Len(buf) + 1) /\ pos[NumTables] \in 1..Len(Pack(c))
          /\ pos[NumTables] # Len(buf) + 1 /\ pos[NumTables] <= Len(buf)
      <3>1. NumTables \in 0..NumTables
        BY <1>3
      <3>2. pos[NumTables] >= 2
        BY <1>5, <3>1
      <3> QED BY <1>3, <1>4, <1>5, <3>2
    <2>2. buf[pos[NumTables]] = FinalHeader
      BY <1>5, <2>1, PackedPlaces, Zenon DEF Begins
    <2>3. buf[pos[NumTables]].k = "end"
      BY <2>2 DEF FinalHeader
    <2>4. f[pos[NumTables]] = ParseTurn(buf, f, pos[NumTables])
      BY <1>2, <2>1, ParseAt
    <2>5. f[pos[NumTables]] = {Found(<< >>)}
      BY <2>1, <2>3, <2>4, Zenon DEF ParseTurn, EndOfTables, Found
    <2>6. Kept(c, NumTables, NumTables, << >>)
      BY <1>3, KeptAtTheEnd
    <2>7. << >> \in MetTables
      BY DEF MetTables
    <2> QED BY <2>5, <2>6, <2>7
  <1>7. ASSUME NEW k \in 1..NumTables, Good(k) PROVE Good(k - 1)
    <2>1. PICK tabs \in MetTables : f[pos[k]] = {Found(tabs)} /\ Kept(c, k, NumTables, tabs)
      BY <1>7
    <2>2. NumTables \in k..NumTables /\ k \in 0..NumTables /\ k - 1 \in 0..NumTables
      BY <1>3
    <2>3. CASE c.tab[PackOrder[k]] = << >>
      <3>1. pos[k] = pos[k - 1]
        BY <1>5, <2>3
      <3>2. Kept(c, k - 1, NumTables, tabs)
        BY <2>1, <2>2, <2>3, KeptWithout
      <3> QED BY <2>1, <3>1, <3>2
    <2>4. CASE c.tab[PackOrder[k]] # << >>
      <3>0. PICK all : all = << [t |-> PackOrder[k], es |-> c.tab[PackOrder[k]]] >> \o tabs
        OBVIOUS
      <3>1. all \in MetTables /\ WithTableFirst(Found(tabs), PackOrder[k], c.tab[PackOrder[k]]) = Found(all)
        BY <3>0, FoundWithTableFirst
      <3>2. Kept(c, k - 1, NumTables, all)
        BY <2>1, <2>2, <3>0, KeptWith
      <3>3. pos[k] - 1 <= Len(buf) /\ pos[k - 1] <= Len(buf)
        <4>1. pos[k] \in Nat /\ pos[k - 1] \in Nat /\ pos[k] - 1 <= Len(Pack(c))
          BY <1>5, <2>2
        <4>2. pos[k] = pos[k - 1] + Len(Part(c, k))
          BY <1>1, PlaceFacts, Zenon
        <4>3. Len(Part(c, k)) >= 2
          <5>1. c.tab[PackOrder[k]] \in Seq(Entry) /\ PackOrder[k] \in Tables
            BY PartOf
          <5>2. Len(Part(c, k)) = Len(c.tab[PackOrder[k]]) + 2
            BY <2>4, <5>1, PackedTable, Zenon DEF Part
          <5>3. Len(c.tab[PackOrder[k]]) \in Nat
            BY <5>1
          <5> QED BY <5>2, <5>3
        <4>4. Len(Part(c, k)) \in Nat
          BY PartOf
        <4> QED BY <1>3, <1>4, <4>1, <4>2, <4>3, <4>4
      <3>4. pos[k - 1] \in 2..(Len(buf) + 1)
        BY <1>3, <1>5, <2>2, <3>3
      <3>5. f[pos[k - 1]] = ParseTurn(buf, f, pos[k - 1])
        BY <1>2, <3>4, ParseAt
      <3>6. ParseTurn(buf, f, pos[k - 1])
             = { IF r.ok THEN WithTableFirst(r, PackOrder[k], c.tab[PackOrder[k]]) ELSE Bad :
                   r \in f[pos[k]] }
        BY <1>1, <2>4, <3>3, TurnAtTable
      <3>7. Found(tabs).ok
        BY DEF Found
      <3>8. f[pos[k - 1]] = {Found(all)}
        BY <2>1, <3>1, <3>5, <3>6, <3>7
      <3> QED BY <3>1, <3>2, <3>8
    <2> QED BY <2>3, <2>4
  <1>8. Good(0)
    <2> DEFINE T == {n \in Nat : n <= NumTables => Good(NumTables - n)}
    <2> HIDE DEF Good
    <2>1. 0 \in T
      <3>1. NumTables - 0 = NumTables
        BY <1>3
      <3> QED BY <1>6, <3>1
    <2>2. ASSUME NEW n \in Nat, n \in T PROVE n + 1 \in T
      <3>0. n + 1 \in Nat
        OBVIOUS
      <3> SUFFICES ASSUME n + 1 <= NumTables PROVE Good(NumTables - (n + 1))
        BY <3>0, Zenon
      <3>1. NumTables - n \in 1..NumTables /\ n <= NumTables
            /\ NumTables - (n + 1) = (NumTables - n) - 1
        BY <1>3
      <3> QED BY <1>7, <2>2, <3>1
    <2> HIDE DEF T
    <2>3. \A n \in Nat : n \in T
      BY <2>1, <2>2, SetInduction
    <2>4. NumTables \in T /\ NumTables - NumTables = 0
      BY <1>3, <2>3
    <2> QED BY <1>3, <2>4 DEF T
  <1> QED BY <1>2, <1>5, <1>8

\* What the parse may come to from table k on.
Outcome(c, k, r) ==
  \/ r = Bad
  \/ \E tabs \in MetTables : \E j \in k..NumTables : r = Found(tabs) /\ Kept(c, k, j, tabs)

LEMMA CutParse ==
  ASSUME NEW c \in Config, NEW buf \in Seq(Units), buf # << >>, Begins(buf, c),
         NEW r \in ParsedTables(buf)
  PROVE  Outcome(c, 0, r)
  <1>1. PICK pos : Places(c, pos)
    BY PackedPlaces
  <1>2. PICK f : Parse(buf, 2, f) /\ ParsedTables(buf) = f[2]
    BY ParsedFrom
  <1>3. NumTables \in Nat /\ NumTables > 0 /\ Len(buf) \in Nat /\ Len(buf) > 0
    BY TablesInOrder
  <1>4. Len(Pack(c)) \in Nat
    BY PackedPlaces
  <1>5. /\ pos[0] = 2
        /\ pos[NumTables] = Len(Pack(c))
        /\ \A k \in 0..NumTables : pos[k] \in Nat /\ pos[k] >= 2
        /\ \A k \in 1..NumTables : c.tab[PackOrder[k]] = << >> => pos[k] = pos[k - 1]
    BY <1>1, PlaceFacts, Zenon
  <1> DEFINE Good(k) == pos[k] <= Len(buf) + 1 => \A s \in f[pos[k]] : Outcome(c, k, s)
  <1>6. ASSUME NEW k \in 0..NumTables, pos[k] <= Len(buf) + 1
        PROVE  f[pos[k]] = ParseTurn(buf, f, pos[k])
    <2>1. pos[k] \in 2..(Len(buf) + 1)
      BY <1>3, <1>5, <1>6
    <2> QED BY <1>2, <2>1, ParseAt
  <1>7. ASSUME NEW k \in 0..NumTables PROVE Outcome(c, k, Bad) /\ Outcome(c, k, EndOfTables)
    <2>1. k \in k..NumTables /\ Kept(c, k, k, << >>)
      BY <1>3, KeptAtTheEnd
    <2>2. << >> \in MetTables /\ EndOfTables = Found(<< >>)
      BY DEF MetTables, Found, EndOfTables
    <2> QED BY <2>1, <2>2, Zenon DEF Outcome
  <1>8. Good(NumTables)
    <2> SUFFICES ASSUME pos[NumTables] <= Len(buf) + 1, NEW s \in f[pos[NumTables]]
                 PROVE  Outcome(c, NumTables, s)
      OBVIOUS
    <2>0. NumTables \in 0..NumTables
      BY <1>3
    <2>1. f[pos[NumTables]] = ParseTurn(buf, f, pos[NumTables])
      BY <1>6, <2>0
    <2>2. CASE pos[NumTables] = Len(buf) + 1
      <3>1. s \in {Bad, EndOfTables}
        BY <2>1, <2>2, Zenon DEF ParseTurn
      <3> QED BY <1>7, <2>0, <3>1
    <2>3. CASE pos[NumTables] # Len(buf) + 1
      <3>1. pos[NumTables] \in 1..Len(Pack(c)) /\ pos[NumTables] <= Len(buf)
        BY <1>3, <1>4, <1>5, <2>0, <2>3
      <3>2. buf[pos[NumTables]] = FinalHeader
        BY <1>5, <3>1, PackedPlaces, Zenon DEF Begins
      <3>3. buf[pos[NumTables]].k = "end"
        BY <3>2 DEF FinalHeader
      <3>4. s \in {EndOfTables}
        BY <2>1, <2>3, <3>3, Zenon DEF ParseTurn
      <3> QED BY <1>7, <2>0, <3>4
    <2> QED BY <2>2, <2>3
  <1>9. ASSUME NEW k \in 1..NumTables, Good(k) PROVE Good(k - 1)
    <2> SUFFICES ASSUME pos[k - 1] <= Len(buf) + 1, NEW s \in f[pos[k - 1]]
                 PROVE  Outcome(c, k - 1, s)
      OBVIOUS
    <2>0. k \in 0..NumTables /\ k - 1 \in 0..NumTables /\ k..NumTables \subseteq (k - 1)..NumTables
      BY <1>3
    <2>1. f[pos[k - 1]] = ParseTurn(buf, f, pos[k - 1])
      BY <1>6, <2>0
    <2>2. CASE pos[k - 1] = Len(buf) + 1
      <3>1. s \in {Bad, EndOfTables}
        BY <2>1, <2>2, Zenon DEF ParseTurn
      <3> QED BY <1>7, <2>0, <3>1
    <2>3. CASE pos[k - 1] # Len(buf) + 1 /\ c.tab[PackOrder[k]] = << >>
      <3>1. pos[k] = pos[k - 1]
        BY <1>5, <2>3
      <3>2. Outcome(c, k, s)
        BY <1>9, <3>1
      <3>3. CASE s = Bad
        BY <3>3 DEF Outcome
      <3>4. CASE s # Bad
        <4>1. PICK tabs \in MetTables, j \in k..NumTables : s = Found(tabs) /\ Kept(c, k, j, tabs)
          BY <3>2, <3>4 DEF Outcome
        <4>2. Kept(c, k - 1, j, tabs) /\ j \in (k - 1)..NumTables
          BY <2>0, <2>3, <4>1, KeptWithout
        <4> QED BY <4>1, <4>2 DEF Outcome
      <3> QED BY <3>3, <3>4
    <2>4. CASE pos[k - 1] # Len(buf) + 1 /\ c.tab[PackOrder[k]] # << >>
      <3>0. pos[k - 1] <= Len(buf)
        BY <1>3, <1>5, <2>0, <2>4
      <3>1. ParseTurn(buf, f, pos[k - 1])
              = IF pos[k] - 1 <= Len(buf)
                THEN { IF q.ok THEN WithTableFirst(q, PackOrder[k], c.tab[PackOrder[k]]) ELSE Bad :
                         q \in f[pos[k]] }
                ELSE {Bad}
        BY <1>1, <2>4, <3>0, TurnAtTable
      <3>2. CASE ~(pos[k] - 1 <= Len(buf))
        <4>1. s = Bad
          BY <2>1, <3>1, <3>2
        <4> QED BY <1>7, <2>0, <4>1
      <3>3. CASE pos[k] - 1 <= Len(buf)
        <4>1. pos[k] <= Len(buf) + 1
          BY <1>3, <1>5, <2>0, <3>3
        <4>2. PICK q \in f[pos[k]] :
                s = IF q.ok THEN WithTableFirst(q, PackOrder[k], c.tab[PackOrder[k]]) ELSE Bad
          BY <2>1, <3>1, <3>3
        <4>3. Outcome(c, k, q)
          BY <1>9, <4>1
        <4>4. CASE q = Bad
          <5>1. ~q.ok
            BY <4>4 DEF Bad
          <5>2. s = Bad
            BY <4>2, <5>1
          <5> QED BY <5>2 DEF Outcome
        <4>5. CASE q # Bad
          <5>1. PICK tabs \in MetTables, j \in k..NumTables : q = Found(tabs) /\ Kept(c, k, j, tabs)
            BY <4>3, <4>5 DEF Outcome
          <5>2. q.ok
            BY <5>1 DEF Found
          <5>3. PICK all : all = << [t |-> PackOrder[k], es |-> c.tab[PackOrder[k]]] >> \o tabs
            OBVIOUS
          <5>4. all \in MetTables
                /\ WithTableFirst(Found(tabs), PackOrder[k], c.tab[PackOrder[k]]) = Found(all)
            BY <5>3, FoundWithTableFirst
          <5>5. Kept(c, k - 1, j, all) /\ j \in (k - 1)..NumTables
            BY <2>0, <5>1, <5>3, KeptWith
          <5>6. s = Found(all)
            BY <4>2, <5>1, <5>2, <5>4
          <5> QED BY <5>4, <5>5, <5>6 DEF Outcome
        <4> QED BY <4>4, <4>5
      <3> QED BY <3>2, <3>3
    <2> QED BY <2>2, <2>3, <2>4
  <1>10. Good(0)
    <2> DEFINE T == {n \in Nat : n <= NumTables => Good(NumTables - n)}
    <2> HIDE DEF Good
    <2>1. 0 \in T
      <3>1. NumTables - 0 = NumTables
        BY <1>3
      <3> QED BY <1>8, <3>1
    <2>2. ASSUME NEW n \in Nat, n \in T PROVE n + 1 \in T
      <3>0. n + 1 \in Nat
        OBVIOUS
      <3> SUFFICES ASSUME n + 1 <= NumTables PROVE Good(NumTables - (n + 1))
        BY <3>0, Zenon
      <3>1. NumTables - n \in 1..NumTables /\ n <= NumTables
            /\ NumTables - (n + 1) = (NumTables - n) - 1
        BY <1>3
      <3> QED BY <1>9, <2>2, <3>1
    <2> HIDE DEF T
    <2>3. \A n \in Nat : n \in T
      BY <2>1, <2>2, SetInduction
    <2>4. NumTables \in T /\ NumTables - NumTables = 0
      BY <1>3, <2>3
    <2> QED BY <1>3, <2>4 DEF T
  <1>11. 2 <= Len(buf) + 1
    BY <1>3
  <1> QED BY <1>2, <1>5, <1>10, <1>11

-----------------------------------------------------------------------------
(***************************************************************************)
(* unpack                                                                  *)
(***************************************************************************)
Fits(c) == \A t \in Tables : FitsTable(t, Count(c, t))

\* The configuration that the tables met make with device d.
Gathered(d, tabs) == [dev |-> d, tab |-> [t \in Tables |-> TableOf(tabs, t)]]

LEMMA UnpackNames ==
  ASSUME NEW buf, buf # << >>, buf[1].k = "dev", buf[1].d \in DeviceIds
  PROVE  LET rs == ParsedTables(buf)
             loaded == {Gathered(buf[1].d, r.tabs) : r \in {s \in rs : s.ok}}
             fitting == {c \in loaded : Fits(c)}
         IN  Unpack(buf) = [may_fail |-> Bad \in rs \/ fitting # loaded, configs |-> fitting]
  BY Zenon DEF Unpack, Fits, Gathered

LEMMA UnpackConfigs ==
  ASSUME NEW buf, NEW c \in Unpack(buf).configs
  PROVE  /\ buf # << >> /\ buf[1].k = "dev" /\ buf[1].d \in DeviceIds
         /\ \E r \in ParsedTables(buf) : r.ok /\ c = Gathered(buf[1].d, r.tabs)
         /\ Fits(c)
  <1>1. buf # << >> /\ buf[1].k = "dev" /\ buf[1].d \in DeviceIds
    <2>1. SUFFICES ASSUME buf = << >> \/ buf[1].k # "dev" \/ buf[1].d \notin DeviceIds
                   PROVE  FALSE
      OBVIOUS
    <2>2. Unpack(buf) = [may_fail |-> TRUE, configs |-> {}]
      BY <2>1, Zenon DEF Unpack
    <2> QED BY <2>2
  <1>2. PICK rs : rs = ParsedTables(buf)
    OBVIOUS
  <1>3. PICK loaded : loaded = {Gathered(buf[1].d, r.tabs) : r \in {s \in rs : s.ok}}
    OBVIOUS
  <1>4. PICK fitting : fitting = {d \in loaded : Fits(d)}
    OBVIOUS
  <1>5. Unpack(buf) = [may_fail |-> Bad \in rs \/ fitting # loaded, configs |-> fitting]
    BY <1>1, <1>2, <1>3, <1>4, UnpackNames, Zenon
  <1>6. c \in fitting
    BY <1>5
  <1> QED BY <1>1, <1>2, <1>3, <1>4, <1>6

LEMMA GatheredType ==
  ASSUME NEW d \in DeviceIds, NEW tabs \in MetTables
  PROVE  Gathered(d, tabs) \in Config
  <1>1. ASSUME NEW t \in Tables PROVE TableOf(tabs, t) \in Seq(Entry)
    <2>1. PICK s : s = [i \in DOMAIN tabs |-> IF tabs[i].t = t THEN tabs[i].es ELSE << >>]
      OBVIOUS
    <2>2. << >> \in Seq(Entry)
      OBVIOUS
    <2>2a. Len(tabs) \in Nat /\ DOMAIN tabs = 1..Len(tabs)
           /\ \A i \in 1..Len(tabs) : tabs[i].es \in Seq(Entry)
      BY EntriesOfMet
    <2>3. s \in Seq(Seq(Entry))
      BY <2>1, <2>2, <2>2a
    <2>4. FlattenSeq(s) \in Seq(Entry)
      BY <2>3, FlattenType
    <2> QED BY <2>1, <2>4 DEF TableOf
  <1>2. [t \in Tables |-> TableOf(tabs, t)] \in [Tables -> Seq(Entry)]
    BY <1>1
  <1>3. d \in DeviceIds \cup {NoDevice}
    OBVIOUS
  <1> QED BY <1>2, <1>3 DEF Gathered, Config

\* Whatever the file holds, what loads is a configuration.
LEMMA ParseType ==
  ASSUME NEW buf \in Seq(Units), buf # << >>, NEW r \in ParsedTables(buf)
  PROVE  r = Bad \/ \E tabs \in MetTables : r = Found(tabs)
  <1>1. PICK f : Parse(buf, 2, f) /\ ParsedTables(buf) = f[2]
    BY ParsedFrom
  <1>2. PICK n0 \in Nat : n0 = Len(buf) /\ n0 > 0
    OBVIOUS
  <1> DEFINE Good(i) == \A s \in f[i] : s = Bad \/ \E tabs \in MetTables : s = Found(tabs)
             T == {n \in Nat : \A i \in 2..(n0 + 1) : i >= (n0 + 2) - n => Good(i)}
  <1>3. ASSUME NEW i \in 2..(n0 + 1), \A j \in (i + 1)..(n0 + 1) : Good(j)
        PROVE  Good(i)
    <2> SUFFICES ASSUME NEW s \in f[i] PROVE s = Bad \/ \E tabs \in MetTables : s = Found(tabs)
      OBVIOUS
    <2>1. f[i] = ParseTurn(buf, f, i)
      BY <1>1, <1>2, ParseAt
    <2>2. EndOfTables = Found(<< >>) /\ << >> \in MetTables
      BY DEF EndOfTables, Found, MetTables
    <2>3. CASE ~(i # Len(buf) + 1 /\ buf[i].k = "hdr" /\ TableIntact(buf, i))
      <3>1. s = Bad \/ s = EndOfTables
        <4>1. f[i] = {Bad, EndOfTables} \/ f[i] = {EndOfTables} \/ f[i] = {Bad}
          BY <2>1, <2>3, Zenon DEF ParseTurn
        <4> QED BY <4>1
      <3> QED BY <2>2, <3>1
    <2>4. CASE i # Len(buf) + 1 /\ buf[i].k = "hdr" /\ TableIntact(buf, i)
      <3>1. i \in 1..Len(buf)
        BY <1>2, <2>4
      <3>2. buf[i] \in Units /\ buf[i].k = "hdr"
        BY <2>4, <3>1
      <3>3. buf[i].t \in Tables /\ buf[i].n \in Nat
        BY <3>2 DEF Units
      <3>4. PICK n \in Nat : n = buf[i].n
        BY <3>3
      <3>5. PICK last : last = i + n + 1
        OBVIOUS
      <3>6. last <= Len(buf) /\ \A j \in (i + 1)..(last - 1) : buf[j].k = "ent"
        BY <2>4, <3>4, <3>5, Intact, Zenon
      <3>7. ASSUME NEW j \in 1..n PROVE buf[i + j].e \in Entry
        <4>1. i + j \in 1..Len(buf) /\ i + j \in (i + 1)..(last - 1)
          BY <1>2, <3>5, <3>6
        <4>2. buf[i + j] \in Units /\ buf[i + j].k = "ent"
          BY <3>6, <4>1
        <4> QED BY <4>2 DEF Units
      <3>8. EntriesAt(buf, i) \in Seq(Entry)
        <4>1. EntriesAt(buf, i) = [j \in 1..n |-> buf[i + j].e]
          BY <3>4 DEF EntriesAt
        <4> QED BY <3>7, <4>1
      <3>9. i + buf[i].n + 2 \in (i + 1)..(n0 + 1)
        BY <1>2, <3>4, <3>5, <3>6
      <3>10. PICK q \in f[i + buf[i].n + 2] :
               s = IF q.ok THEN WithTableFirst(q, buf[i].t, EntriesAt(buf, i)) ELSE Bad
        <4>1. i # Len(buf) + 1 /\ buf[i].k # "end"
          BY <2>4
        <4>2. f[i] = { IF q.ok THEN WithTableFirst(q, buf[i].t, EntriesAt(buf, i)) ELSE Bad :
                         q \in f[i + buf[i].n + 2] }
          BY <2>1, <2>4, <4>1, Zenon DEF ParseTurn
        <4> QED BY <4>2
      <3>11. CASE ~q.ok
        BY <3>10, <3>11
      <3>12. CASE q.ok
        <4>1. q # Bad
          BY <3>12 DEF Bad
        <4>2. PICK tabs \in MetTables : q = Found(tabs)
          BY <1>3, <3>9, <4>1
        <4>3. PICK a : a = [t |-> buf[i].t, es |-> EntriesAt(buf, i)]
          OBVIOUS
        <4>4. << a >> \o tabs \in MetTables
          <5>1. a \in MetTable
            BY <3>3, <3>8, <4>3 DEF MetTable
          <5> QED BY <5>1 DEF MetTables
        <4>5. PICK all : all = << a >> \o tabs
          OBVIOUS
        <4>6. [Found(tabs) EXCEPT !.tabs = all] = Found(all)
          BY Replaced, Zenon DEF Found
        <4>7. WithTableFirst(q, buf[i].t, EntriesAt(buf, i)) = Found(all)
          <5>1. Found(tabs).tabs = tabs
            BY DEF Found
          <5> QED BY <4>2, <4>3, <4>5, <4>6, <5>1 DEF WithTableFirst
        <4> QED BY <3>10, <3>12, <4>4, <4>5, <4>7
      <3> QED BY <3>11, <3>12
    <2> QED BY <2>3, <2>4
  <1> HIDE DEF Good
  <1>4. 0 \in T
    BY <1>2
  <1>5. ASSUME NEW n \in Nat, n \in T PROVE n + 1 \in T
    <2>0. n + 1 \in Nat
      OBVIOUS
    <2> SUFFICES ASSUME NEW i \in 2..(n0 + 1), i >= (n0 + 2) - (n + 1) PROVE Good(i)
      BY <2>0, Zenon
    <2>1. \A j \in (i + 1)..(n0 + 1) : Good(j)
      <3>1. ASSUME NEW j \in (i + 1)..(n0 + 1) PROVE Good(j)
        <4>1. j \in 2..(n0 + 1) /\ j >= (n0 + 2) - n
          BY <1>2
        <4> QED BY <1>5, <4>1
      <3> QED BY <3>1
    <2> QED BY <1>3, <2>1
  <1> HIDE DEF T
  <1>6. \A n \in Nat : n \in T
    BY <1>4, <1>5, SetInduction
  <1>7. Good(2)
    <2>1. n0 \in T /\ 2 \in 2..(n0 + 1) /\ 2 >= (n0 + 2) - n0
      BY <1>2, <1>6
    <2> QED BY <2>1 DEF T
  <1> QED BY <1>1, <1>7 DEF Good

LEMMA UnpackType ==
  ASSUME NEW buf \in Seq(Units), NEW d \in Unpack(buf).configs
  PROVE  d \in Config /\ d.dev \in DeviceIds /\ Fits(d)
  <1>1. buf # << >> /\ buf[1].d \in DeviceIds /\ Fits(d)
    BY UnpackConfigs
  <1>2. PICK r \in ParsedTables(buf) : r.ok /\ d = Gathered(buf[1].d, r.tabs)
    BY UnpackConfigs
  <1>3. r # Bad
    BY <1>2 DEF Bad
  <1>4. PICK tabs \in MetTables : r = Found(tabs)
    BY <1>1, <1>2, <1>3, ParseType
  <1>5. d = Gathered(buf[1].d, tabs)
    BY <1>2, <1>4 DEF Found
  <1>6. d.dev = buf[1].d
    BY <1>5 DEF Gathered
  <1> QED BY <1>1, <1>5, <1>6, GatheredType

(***************************************************************************)
(* What was written whole loads, and loads to what was written, whatever   *)
(* lies behind it in the file.                                             *)
(***************************************************************************)
LEMMA WholeLoad ==
  ASSUME NEW c \in Config, c.dev \in DeviceIds, Fits(c),
         NEW buf \in Seq(Units), Begins(buf, c), Len(Pack(c)) <= Len(buf)
  PROVE  Unpack(buf) = [may_fail |-> FALSE, configs |-> {c}]
  <1>1. Len(Pack(c)) \in Nat /\ Len(Pack(c)) >= 2 /\ Pack(c)[1] = [k |-> "dev", d |-> c.dev]
    BY PackedPlaces
  <1>2. Len(buf) \in Nat /\ buf # << >>
    BY <1>1
  <1>3. buf[1] = [k |-> "dev", d |-> c.dev]
    <2>1. 1 \in 1..Len(Pack(c)) /\ 1 <= Len(buf)
      BY <1>1, <1>2
    <2> QED BY <1>1, <2>1 DEF Begins
  <1>4. buf[1].k = "dev" /\ buf[1].d = c.dev
    BY <1>3
  <1>5. PICK tabs \in MetTables :
          ParsedTables(buf) = {Found(tabs)} /\ Kept(c, 0, NumTables, tabs)
    BY <1>2, WholeParse
  <1>6. Gathered(c.dev, tabs) = c
    <2>1. ASSUME NEW t \in Tables PROVE TableOf(tabs, t) = c.tab[t]
      <3>1. \E i \in (0 + 1)..NumTables : PackOrder[i] = t
        BY TablesInOrder
      <3> QED BY <1>5, <3>1 DEF Kept
    <2>2. c = [dev |-> c.dev, tab |-> c.tab] /\ c.tab = [t \in Tables |-> c.tab[t]]
      BY DEF Config
    <2> QED BY <2>1, <2>2 DEF Gathered
  <1>7. Found(tabs).ok /\ Found(tabs).tabs = tabs /\ Found(tabs) # Bad
    BY DEF Found, Bad
  <1>8. PICK rs : rs = ParsedTables(buf)
    OBVIOUS
  <1>9. PICK loaded : loaded = {Gathered(buf[1].d, r.tabs) : r \in {s \in rs : s.ok}}
    OBVIOUS
  <1>10. PICK fitting : fitting = {d \in loaded : Fits(d)}
    OBVIOUS
  <1>11. Unpack(buf) = [may_fail |-> Bad \in rs \/ fitting # loaded, configs |-> fitting]
    BY <1>2, <1>4, <1>8, <1>9, <1>10, UnpackNames, Zenon
  <1>12. {s \in rs : s.ok} = {Found(tabs)}
    BY <1>5, <1>7, <1>8
  <1>13. loaded = {c}
    BY <1>4, <1>6, <1>7, <1>9, <1>12
  <1>14. fitting = {c}
    BY <1>10, <1>13
  <1>15. (Bad \in rs \/ fitting # loaded) = FALSE
    BY <1>5, <1>7, <1>8, <1>13, <1>14
  <1> QED BY <1>11, <1>14, <1>15, Zenon

(***************************************************************************)
(* Packing and unpacking a configuration gives it back, and it only: every *)
(* entry of every table, for tables of any size that unpack lets in, and   *)
(* whatever an earlier, longer file left behind the final header.          *)
(***************************************************************************)
THEOREM RoundTrip ==
  ASSUME NEW c \in Config, c.dev \in DeviceIds, Fits(c), NEW rest \in Seq(Units)
  PROVE  Unpack(Pack(c) \o rest) = [may_fail |-> FALSE, configs |-> {c}]
  <1>1. Pack(c) \in Seq(Units)
    BY PackedPlaces
  <1>2. PICK p \in Seq(Units) : p = Pack(c)
    BY <1>1
  <1>3. PICK buf : buf = p \o rest
    OBVIOUS
  <1>4. buf \in Seq(Units) /\ Len(p) <= Len(buf) /\ \A x \in 1..Len(p) : buf[x] = p[x]
    BY <1>3
  <1>5. Begins(buf, c)
    BY <1>2, <1>4 DEF Begins
  <1> QED BY <1>2, <1>3, <1>4, <1>5, WholeLoad

(***************************************************************************)
(* A file cut short may load too, but what it loads to is the              *)
(* configuration with the tables from some place on emptied.  The xMII     *)
(* table is mandatory and last but one, so that what passes check_valid    *)
(* has lost the SGMII table at most.                                       *)
(***************************************************************************)
THEOREM CutLoad ==
  ASSUME NEW c \in Config, NEW buf \in Seq(Units), Begins(buf, c),
         NEW d \in Unpack(buf).configs
  PROVE  /\ d \in Config /\ d.dev = c.dev /\ d.dev \in DeviceIds /\ Fits(d)
         /\ CheckValid(d) => \A t \in Tables \ {"sgmii"} : d.tab[t] = c.tab[t]
  <1>1. buf # << >> /\ buf[1].k = "dev" /\ buf[1].d \in DeviceIds /\ Fits(d)
    BY UnpackConfigs
  <1>2. PICK r \in ParsedTables(buf) : r.ok /\ d = Gathered(buf[1].d, r.tabs)
    BY UnpackConfigs
  <1>3. buf[1].d = c.dev
    <2>1. Len(Pack(c)) >= 2 /\ Pack(c)[1] = [k |-> "dev", d |-> c.dev]
      BY PackedPlaces
    <2>2. 1 \in 1..Len(Pack(c)) /\ 1 <= Len(buf)
      BY <1>1, <2>1
    <2>3. buf[1] = [k |-> "dev", d |-> c.dev]
      BY <2>1, <2>2 DEF Begins
    <2> QED BY <2>3
  <1>4. Outcome(c, 0, r)
    BY <1>1, <1>2, CutParse
  <1>5. r # Bad
    BY <1>2 DEF Bad
  <1>6. PICK tabs \in MetTables, j \in 0..NumTables : r = Found(tabs) /\ Kept(c, 0, j, tabs)
    BY <1>4, <1>5, Zenon DEF Outcome
  <1>7. r.tabs = tabs
    BY <1>6 DEF Found
  <1>8. d = Gathered(c.dev, tabs)
    BY <1>2, <1>3, <1>7
  <1>9. d.dev = c.dev /\ \A t \in Tables : d.tab[t] = TableOf(tabs, t)
    BY <1>8 DEF Gathered
  <1>10. d \in Config
    BY <1>1, <1>3, <1>8, GatheredType
  <1>11. ASSUME CheckValid(d), NEW t \in Tables \ {"sgmii"} PROVE d.tab[t] = c.tab[t]
    <2>1. "xmii_params" \in Tables /\ PackOrder[18] = "xmii_params" /\ PackOrder[19] = "sgmii"
          /\ NumTables = 19
      BY DEF Tables, PackOrder, NumTables
    <2>2. Count(d, "xmii_params") = MaxCount["xmii_params"]
      BY <1>11, Zenon DEF CheckValid, Full
    <2>3. MaxCount["xmii_params"] # 0
      BY <2>1, MaxCountAssumption
    <2>4. d.tab["xmii_params"] # << >>
      BY <2>2, <2>3 DEF Count
    <2>5. \E i \in (0 + 1)..j : PackOrder[i] = "xmii_params"
      BY <1>6, <1>9, <2>1, <2>4 DEF Kept
    <2>6. j >= 18
      <3>1. PICK i \in (0 + 1)..j : PackOrder[i] = PackOrder[18]
        BY <2>1, <2>5
      <3>2. i \in 1..NumTables /\ 18 \in 1..NumTables /\ i <= j
        BY <2>1
      <3>3. i = 18
        BY <3>1, <3>2, TablesInOrder, Zenon
      <3> QED BY <3>2, <3>3
    <2>7. PICK i \in 1..NumTables : PackOrder[i] = t
      BY TablesInOrder
    <2>8. i # 19
      BY <2>1, <2>7
    <2>9. i \in (0 + 1)..j
      BY <2>1, <2>6, <2>8
    <2>10. TableOf(tabs, t) = c.tab[t]
      BY <1>6, <2>7, <2>9 DEF Kept
    <2> QED BY <1>9, <2>10
  <1> QED BY <1>1, <1>3, <1>9, <1>10, <1>11
-----------------------------------------------------------------------------
(***************************************************************************)
(* FoldLeft, unrolled: f[i] is what the first i elements make of the base. *)
(* The provers take no operator for a parameter, so that the lemmas about  *)
(* the folding of an operator are stated for each of the four there are.   *)
(***************************************************************************)
LEMMA Largest ==
  ASSUME NEW n \in Nat, NEW ss \in SUBSET (1..n), ss # {}
  PROVE  Max(ss) \in ss /\ \A m \in ss : m <= Max(ss)
  <1> DEFINE T == {n - m : m \in ss}
  <1>1. T \in SUBSET Nat /\ T # {}
    OBVIOUS
  <1>2. PICK k \in T : \A m \in T : k <= m
    BY <1>1, LeastNumber
  <1>3. PICK x \in ss : k = n - x
    BY <1>2
  <1>4. ASSUME NEW m \in ss PROVE x >= m
    <2>1. k <= n - m
      BY <1>2
    <2> QED BY <1>3, <2>1
  <1> HIDE DEF T
  <1>5. \E y \in ss : \A m \in ss : y >= m
    BY <1>4
  <1>6. Max(ss) \in ss /\ \A m \in ss : Max(ss) >= m
    BY <1>5, Zenon DEF Max
  <1> QED BY <1>6

LEMMA LargestOfRange ==
  ASSUME NEW n \in Nat, n > 0
  PROVE  Max(1..n) = n /\ 1..n \ {Max(1..n)} = 1..(n - 1)
  <1>1. 1..n \in SUBSET (1..n) /\ n \in 1..n /\ 1..n # {}
    OBVIOUS
  <1>2. Max(1..n) \in 1..n /\ \A m \in 1..n : m <= Max(1..n)
    BY <1>1, Largest, Zenon
  <1>3. PICK x : x = Max(1..n)
    OBVIOUS
  <1>4. x = n
    BY <1>1, <1>2, <1>3
  <1> QED BY <1>3, <1>4

\* g takes the place of the operator.
Folding(g, base, s, n, iter) ==
  \A ss \in SUBSET (1..n) :
    iter[ss] = IF ss = {} THEN base ELSE g[<< iter[ss \ {Max(ss)}], s[Max(ss)] >>]

Folds(g, base, s, A, n) ==
  \E iter \in [SUBSET (1..n) -> A] : Folding(g, base, s, n, iter)

LEMMA FoldExists ==
  ASSUME NEW A, NEW B, NEW g \in [A \X B -> A], NEW base \in A, NEW s \in Seq(B)
  PROVE  \E iter \in [SUBSET (1..Len(s)) -> A] : Folding(g, base, s, Len(s), iter)
  <1> DEFINE T == {n \in Nat : n <= Len(s) => Folds(g, base, s, A, n)}
  <1>1. 0 \in T
    <2>1. [ss \in SUBSET (1..0) |-> base] \in [SUBSET (1..0) -> A]
      OBVIOUS
    <2>2. Folding(g, base, s, 0, [ss \in SUBSET (1..0) |-> base])
      BY DEF Folding
    <2>3. Folds(g, base, s, A, 0)
      BY <2>1, <2>2, Zenon DEF Folds
    <2> QED BY <2>3
  <1>2. ASSUME NEW n \in Nat, n \in T PROVE n + 1 \in T
    <2>a. n + 1 \in Nat
      OBVIOUS
    <2> SUFFICES ASSUME n + 1 <= Len(s) PROVE Folds(g, base, s, A, n + 1)
      BY <2>a, Zenon
    <2>0. Folds(g, base, s, A, n)
      BY <1>2
    <2>1. PICK old \in [SUBSET (1..n) -> A] : Folding(g, base, s, n, old)
      BY <2>0, Zenon DEF Folds
    <2> DEFINE new == [ss \in SUBSET (1..n + 1) |->
                         IF n + 1 \in ss THEN g[<< old[ss \ {n + 1}], s[n + 1] >>] ELSE old[ss]]
    <2>2. s[n + 1] \in B
      OBVIOUS
    <2>3. ASSUME NEW ss \in SUBSET (1..n + 1)
          PROVE  /\ new[ss] \in A
                 /\ new[ss] = IF ss = {} THEN base ELSE g[<< new[ss \ {Max(ss)}], s[Max(ss)] >>]
      <3>1. CASE n + 1 \in ss
        <4>1. ss \ {n + 1} \in SUBSET (1..n) /\ n + 1 \notin ss \ {n + 1}
          OBVIOUS
        <4>2. Max(ss) = n + 1
          <5>1. n + 1 \in Nat /\ ss # {}
            BY <3>1
          <5>2. Max(ss) \in ss /\ \A m \in ss : m <= Max(ss)
            BY <5>1, Largest, Zenon
          <5>3. PICK x : x = Max(ss)
            OBVIOUS
          <5>4. x \in 1..n + 1 /\ n + 1 <= x
            BY <3>1, <5>2, <5>3
          <5> QED BY <5>3, <5>4
        <4>3. new[ss] = g[<< old[ss \ {n + 1}], s[n + 1] >>]
          BY <3>1
        <4>4. new[ss \ {n + 1}] = old[ss \ {n + 1}] /\ old[ss \ {n + 1}] \in A
          BY <4>1
        <4>5. new[ss] \in A
          BY <2>2, <4>3, <4>4
        <4> QED BY <3>1, <4>2, <4>3, <4>4, <4>5
      <3>2. CASE n + 1 \notin ss
        <4>1. ss \in SUBSET (1..n)
          BY <3>2
        <4>2. new[ss] = old[ss]
          BY <3>2
        <4>3. old[ss] = IF ss = {} THEN base ELSE g[<< old[ss \ {Max(ss)}], s[Max(ss)] >>]
          BY <2>1, <4>1 DEF Folding
        <4>4. new[ss \ {Max(ss)}] = old[ss \ {Max(ss)}]
          BY <3>2
        <4> QED BY <4>1, <4>2, <4>3, <4>4
      <3> QED BY <3>1, <3>2
    <2>4. new \in [SUBSET (1..n + 1) -> A]
      BY <2>3
    <2>5. Folding(g, base, s, n + 1, new)
      BY <2>3 DEF Folding
    <2> HIDE DEF new
    <2> QED BY <2>4, <2>5, Zenon DEF Folds
  <1> HIDE DEF T
  <1>3. \A n \in Nat : n \in T
    BY <1>1, <1>2, SetInduction
  <1>4. Len(s) \in Nat /\ Len(s) \in T
    BY <1>3
  <1>5. Folds(g, base, s, A, Len(s))
    BY <1>4 DEF T
  <1> QED BY <1>5, Zenon DEF Folds

LEMMA Chain ==
  ASSUME NEW A, NEW n \in Nat, NEW f, f[0] \in A,
         \A i \in 1..n : f[i - 1] \in A => f[i] \in A
  PROVE  \A i \in 0..n : f[i] \in A
  <1> DEFINE T == {i \in Nat : i <= n => f[i] \in A}
  <1>1. 0 \in T
    OBVIOUS
  <1>2. ASSUME NEW i \in Nat, i \in T PROVE i + 1 \in T
    <2> SUFFICES ASSUME i + 1 <= n PROVE f[i + 1] \in A
      OBVIOUS
    <2>1. i + 1 \in 1..n /\ (i + 1) - 1 = i
      OBVIOUS
    <2>2. f[i] \in A
      BY <1>2
    <2>3. f[(i + 1) - 1] \in A
      BY <2>1, <2>2
    <2> QED BY <2>1, <2>3
  <1> HIDE DEF T
  <1>3. \A i \in Nat : i \in T
    BY <1>1, <1>2, SetInduction
  <1>4. ASSUME NEW i \in 0..n PROVE f[i] \in A
    <2>1. i \in T
      BY <1>3
    <2> QED BY <2>1 DEF T
  <1> QED BY <1>4

LinesRun(f, A, base, s) ==
  /\ f \in [0..Len(s) -> A]
  /\ f[0] = base
  /\ \A i \in 1..Len(s) : f[i] = ReadLine(f[i - 1], s[i])
  /\ FoldLeft(ReadLine, base, s) = f[Len(s)]

LEMMA ReadLines ==
  ASSUME NEW A, NEW B, NEW base \in A, NEW s \in Seq(B),
         \A a \in A : \A b \in B : ReadLine(a, b) \in A
  PROVE  \E f : LinesRun(f, A, base, s)
  <1> DEFINE g == [x \in A \X B |-> ReadLine(x[1], x[2])]
             Turn(it) == [ss \in SUBSET DOMAIN s |->
                            IF ss = {} THEN base
                            ELSE ReadLine(it[ss \ {Max(ss)}], s[Max(ss)])]
             iter == CHOOSE it : it = Turn(it)
  <1>1. DOMAIN s = 1..Len(s) /\ Len(s) \in Nat
    OBVIOUS
  <1>2. g \in [A \X B -> A]
    OBVIOUS
  <1>3. PICK old \in [SUBSET (1..Len(s)) -> A] : Folding(g, base, s, Len(s), old)
    BY <1>2, FoldExists
  <1>4. old = Turn(old)
    <2>1. ASSUME NEW ss \in SUBSET (1..Len(s)), ss # {}
          PROVE  old[ss] = ReadLine(old[ss \ {Max(ss)}], s[Max(ss)])
      <3>1. Max(ss) \in 1..Len(s)
        <4>1. Max(ss) \in ss
          BY <1>1, <2>1, Largest, Zenon
        <4> QED BY <4>1
      <3>2. old[ss \ {Max(ss)}] \in A /\ s[Max(ss)] \in B
        <4> HIDE DEF g
        <4>1. \A x \in 1..Len(s) : s[x] \in B
          OBVIOUS
        <4>2. ss \ {Max(ss)} \in SUBSET (1..Len(s))
          OBVIOUS
        <4> QED BY <3>1, <4>1, <4>2, Zenon
      <3>3. old[ss] = g[<< old[ss \ {Max(ss)}], s[Max(ss)] >>]
        BY <1>3, <2>1 DEF Folding
      <3> QED BY <3>2, <3>3
    <2>2. old[{}] = base
      BY <1>3 DEF Folding
    <2> QED BY <1>1, <2>1, <2>2
  <1>5. iter = Turn(iter)
    BY <1>4
  <1>6. FoldLeft(ReadLine, base, s) = iter[DOMAIN s]
    BY DEF FoldLeft, MapThenFoldSet
  <1>7. PICK f : f = [i \in 0..Len(s) |-> iter[1..i]]
    OBVIOUS
  <1> HIDE DEF g, iter
  <1>8. f[0] = base
    <2>1. 1..0 = {} /\ {} \in SUBSET DOMAIN s
      OBVIOUS
    <2>2. iter[{}] = base
      BY <1>5, <2>1
    <2> QED BY <1>1, <1>7, <2>1, <2>2
  <1>9. ASSUME NEW i \in 1..Len(s) PROVE f[i] = ReadLine(f[i - 1], s[i])
    <2>0. i \in Nat /\ i > 0 /\ i <= Len(s)
      BY <1>1
    <2>1. 1..i \in SUBSET DOMAIN s /\ 1..i # {} /\ i - 1 \in 0..Len(s) /\ i \in 0..Len(s)
      BY ONLY <1>1, <2>0
    <2>2. Max(1..i) = i /\ 1..i \ {Max(1..i)} = 1..(i - 1)
      BY LargestOfRange
    <2>3. iter[1..i] = ReadLine(iter[1..i \ {Max(1..i)}], s[Max(1..i)])
      BY <1>5, <2>1
    <2> QED BY <1>7, <2>1, <2>2, <2>3
  <1>10. \A i \in 0..Len(s) : f[i] \in A
    <2>1. ASSUME NEW i \in 1..Len(s), f[i - 1] \in A PROVE f[i] \in A
      BY <1>1, <1>9, <2>1
    <2> QED BY <1>1, <1>8, <2>1, Chain
  <1>11. f \in [0..Len(s) -> A]
    BY <1>7, <1>10
  <1>12. FoldLeft(ReadLine, base, s) = f[Len(s)]
    BY <1>1, <1>6, <1>7
  <1> QED BY <1>8, <1>9, <1>11, <1>12 DEF LinesRun

EntriesRead(st, t, es) == FoldLeft(LAMBDA s, e : ParseEntry(s, t, e), st, es)

EntriesRun(f, A, t, base, s) ==
  /\ f \in [0..Len(s) -> A]
  /\ f[0] = base
  /\ \A i \in 1..Len(s) : f[i] = ParseEntry(f[i - 1], t, s[i])
  /\ EntriesRead(base, t, s) = f[Len(s)]

LEMMA ParseEntries ==
  ASSUME NEW t, NEW A, NEW B, NEW base \in A, NEW s \in Seq(B),
         \A a \in A : \A b \in B : ParseEntry(a, t, b) \in A
  PROVE  \E f : EntriesRun(f, A, t, base, s)
  <1> DEFINE g == [x \in A \X B |-> ParseEntry(x[1], t, x[2])]
             Turn(it) == [ss \in SUBSET DOMAIN s |->
                            IF ss = {} THEN base
                            ELSE ParseEntry(it[ss \ {Max(ss)}], t, s[Max(ss)])]
             iter == CHOOSE it : it = Turn(it)
  <1>1. DOMAIN s = 1..Len(s) /\ Len(s) \in Nat
    OBVIOUS
  <1>2. g \in [A \X B -> A]
    OBVIOUS
  <1>3. PICK old \in [SUBSET (1..Len(s)) -> A] : Folding(g, base, s, Len(s), old)
    BY <1>2, FoldExists
  <1>4. old = Turn(old)
    <2>1. ASSUME NEW ss \in SUBSET (1..Len(s)), ss # {}
          PROVE  old[ss] = ParseEntry(old[ss \ {Max(ss)}], t, s[Max(ss)])
      <3>1. Max(ss) \in 1..Len(s)
        <4>1. Max(ss) \in ss
          BY <1>1, <2>1, Largest, Zenon
        <4> QED BY <4>1
      <3>2. old[ss \ {Max(ss)}] \in A /\ s[Max(ss)] \in B
        <4> HIDE DEF g
        <4>1. \A x \in 1..Len(s) : s[x] \in B
          OBVIOUS
        <4>2. ss \ {Max(ss)} \in SUBSET (1..Len(s))
          OBVIOUS
        <4> QED BY <3>1, <4>1, <4>2, Zenon
      <3>3. old[ss] = g[<< old[ss \ {Max(ss)}], s[Max(ss)] >>]
        BY <1>3, <2>1 DEF Folding
      <3> QED BY <3>2, <3>3
    <2>2. old[{}] = base
      BY <1>3 DEF Folding
    <2> QED BY <1>1, <2>1, <2>2
  <1>5. iter = Turn(iter)
    BY <1>4
  <1>6. EntriesRead(base, t, s) = iter[DOMAIN s]
    BY DEF EntriesRead, FoldLeft, MapThenFoldSet
  <1>7. PICK f : f = [i \in 0..Len(s) |-> iter[1..i]]
    OBVIOUS
  <1> HIDE DEF g, iter
  <1>8. f[0] = base
    <2>1. 1..0 = {} /\ {} \in SUBSET DOMAIN s
      OBVIOUS
    <2>2. iter[{}] = base
      BY <1>5, <2>1
    <2> QED BY <1>1, <1>7, <2>1, <2>2
  <1>9. ASSUME NEW i \in 1..Len(s) PROVE f[i] = ParseEntry(f[i - 1], t, s[i])
    <2>0. i \in Nat /\ i > 0 /\ i <= Len(s)
      BY <1>1
    <2>1. 1..i \in SUBSET DOMAIN s /\ 1..i # {} /\ i - 1 \in 0..Len(s) /\ i \in 0..Len(s)
      BY ONLY <1>1, <2>0
    <2>2. Max(1..i) = i /\ 1..i \ {Max(1..i)} = 1..(i - 1)
      BY LargestOfRange
    <2>3. iter[1..i] = ParseEntry(iter[1..i \ {Max(1..i)}], t, s[Max(1..i)])
      BY <1>5, <2>1
    <2> QED BY <1>7, <2>1, <2>2, <2>3
  <1>10. \A i \in 0..Len(s) : f[i] \in A
    <2>1. ASSUME NEW i \in 1..Len(s), f[i - 1] \in A PROVE f[i] \in A
      BY <1>1, <1>9, <2>1
    <2> QED BY <1>1, <1>8, <2>1, Chain
  <1>11. f \in [0..Len(s) -> A]
    BY <1>7, <1>10
  <1>12. EntriesRead(base, t, s) = f[Len(s)]
    BY <1>1, <1>6, <1>7
  <1> QED BY <1>8, <1>9, <1>11, <1>12 DEF EntriesRun

TablesRead(st, ts) == FoldLeft(ParseTable, st, ts)

TablesRun(f, A, base, s) ==
  /\ f \in [0..Len(s) -> A]
  /\ f[0] = base
  /\ \A i \in 1..Len(s) : f[i] = ParseTable(f[i - 1], s[i])
  /\ TablesRead(base, s) = f[Len(s)]

LEMMA ParseTables ==
  ASSUME NEW A, NEW B, NEW base \in A, NEW s \in Seq(B),
         \A a \in A : \A b \in B : ParseTable(a, b) \in A
  PROVE  \E f : TablesRun(f, A, base, s)
  <1> DEFINE g == [x \in A \X B |-> ParseTable(x[1], x[2])]
             Turn(it) == [ss \in SUBSET DOMAIN s |->
                            IF ss = {} THEN base
                            ELSE ParseTable(it[ss \ {Max(ss)}], s[Max(ss)])]
             iter == CHOOSE it : it = Turn(it)
  <1>1. DOMAIN s = 1..Len(s) /\ Len(s) \in Nat
    OBVIOUS
  <1>2. g \in [A \X B -> A]
    OBVIOUS
  <1>3. PICK old \in [SUBSET (1..Len(s)) -> A] : Folding(g, base, s, Len(s), old)
    BY <1>2, FoldExists
  <1>4. old = Turn(old)
    <2>1. ASSUME NEW ss \in SUBSET (1..Len(s)), ss # {}
          PROVE  old[ss] = ParseTable(old[ss \ {Max(ss)}], s[Max(ss)])
      <3>1. Max(ss) \in 1..Len(s)
        <4>1. Max(ss) \in ss
          BY <1>1, <2>1, Largest, Zenon
        <4> QED BY <4>1
      <3>2. old[ss \ {Max(ss)}] \in A /\ s[Max(ss)] \in B
        <4> HIDE DEF g
        <4>1. \A x \in 1..Len(s) : s[x] \in B
          OBVIOUS
        <4>2. ss \ {Max(ss)} \in SUBSET (1..Len(s))
          OBVIOUS
        <4> QED BY <3>1, <4>1, <4>2, Zenon
      <3>3. old[ss] = g[<< old[ss \ {Max(ss)}], s[Max(ss)] >>]
        BY <1>3, <2>1 DEF Folding
      <3> QED BY <3>2, <3>3
    <2>2. old[{}] = base
      BY <1>3 DEF Folding
    <2> QED BY <1>1, <2>1, <2>2
  <1>5. iter = Turn(iter)
    BY <1>4
  <1>6. TablesRead(base, s) = iter[DOMAIN s]
    BY DEF TablesRead, FoldLeft, MapThenFoldSet
  <1>7. PICK f : f = [i \in 0..Len(s) |-> iter[1..i]]
    OBVIOUS
  <1> HIDE DEF g, iter
  <1>8. f[0] = base
    <2>1. 1..0 = {} /\ {} \in SUBSET DOMAIN s
      OBVIOUS
    <2>2. iter[{}] = base
      BY <1>5, <2>1
    <2> QED BY <1>1, <1>7, <2>1, <2>2
  <1>9. ASSUME NEW i \in 1..Len(s) PROVE f[i] = ParseTable(f[i - 1], s[i])
    <2>0. i \in Nat /\ i > 0 /\ i <= Len(s)
      BY <1>1
    <2>1. 1..i \in SUBSET DOMAIN s /\ 1..i # {} /\ i - 1 \in 0..Len(s) /\ i \in 0..Len(s)
      BY ONLY <1>1, <2>0
    <2>2. Max(1..i) = i /\ 1..i \ {Max(1..i)} = 1..(i - 1)
      BY LargestOfRange
    <2>3. iter[1..i] = ParseTable(iter[1..i \ {Max(1..i)}], s[Max(1..i)])
      BY <1>5, <2>1
    <2> QED BY <1>7, <2>1, <2>2, <2>3
  <1>10. \A i \in 0..Len(s) : f[i] \in A
    <2>1. ASSUME NEW i \in 1..Len(s), f[i - 1] \in A PROVE f[i] \in A
      BY <1>1, <1>9, <2>1
    <2> QED BY <1>1, <1>8, <2>1, Chain
  <1>11. f \in [0..Len(s) -> A]
    BY <1>7, <1>10
  <1>12. TablesRead(base, s) = f[Len(s)]
    BY <1>1, <1>6, <1>7
  <1> QED BY <1>8, <1>9, <1>11, <1>12 DEF TablesRun

SectionsRead(doc, st, ss) == FoldLeft(LAMBDA s, e : ParseSection(doc, s, e), st, ss)

SectionsRun(f, A, doc, base, s) ==
  /\ f \in [0..Len(s) -> A]
  /\ f[0] = base
  /\ \A i \in 1..Len(s) : f[i] = ParseSection(doc, f[i - 1], s[i])
  /\ SectionsRead(doc, base, s) = f[Len(s)]

LEMMA ParseSections ==
  ASSUME NEW doc, NEW A, NEW B, NEW base \in A, NEW s \in Seq(B),
         \A a \in A : \A b \in B : ParseSection(doc, a, b) \in A
  PROVE  \E f : SectionsRun(f, A, doc, base, s)
  <1> DEFINE g == [x \in A \X B |-> ParseSection(doc, x[1], x[2])]
             Turn(it) == [ss \in SUBSET DOMAIN s |->
                            IF ss = {} THEN base
                            ELSE ParseSection(doc, it[ss \ {Max(ss)}], s[Max(ss)])]
             iter == CHOOSE it : it = Turn(it)
  <1>1. DOMAIN s = 1..Len(s) /\ Len(s) \in Nat
    OBVIOUS
  <1>2. g \in [A \X B -> A]
    OBVIOUS
  <1>3. PICK old \in [SUBSET (1..Len(s)) -> A] : Folding(g, base, s, Len(s), old)
    BY <1>2, FoldExists
  <1>4. old = Turn(old)
    <2>1. ASSUME NEW ss \in SUBSET (1..Len(s)), ss # {}
          PROVE  old[ss] = ParseSection(doc, old[ss \ {Max(ss)}], s[Max(ss)])
      <3>1. Max(ss) \in 1..Len(s)
        <4>1. Max(ss) \in ss
          BY <1>1, <2>1, Largest, Zenon
        <4> QED BY <4>1
      <3>2. old[ss \ {Max(ss)}] \in A /\ s[Max(ss)] \in B
        <4> HIDE DEF g
        <4>1. \A x \in 1..Len(s) : s[x] \in B
          OBVIOUS
        <4>2. ss \ {Max(ss)} \in SUBSET (1..Len(s))
          OBVIOUS
        <4> QED BY <3>1, <4>1, <4>2, Zenon
      <3>3. old[ss] = g[<< old[ss \ {Max(ss)}], s[Max(ss)] >>]
        BY <1>3, <2>1 DEF Folding
      <3> QED BY <3>2, <3>3
    <2>2. old[{}] = base
      BY <1>3 DEF Folding
    <2> QED BY <1>1, <2>1, <2>2
  <1>5. iter = Turn(iter)
    BY <1>4
  <1>6. SectionsRead(doc, base, s) = iter[DOMAIN s]
    BY DEF SectionsRead, FoldLeft, MapThenFoldSet
  <1>7. PICK f : f = [i \in 0..Len(s) |-> iter[1..i]]
    OBVIOUS
  <1> HIDE DEF g, iter
  <1>8. f[0] = base
    <2>1. 1..0 = {} /\ {} \in SUBSET DOMAIN s
      OBVIOUS
    <2>2. iter[{}] = base
      BY <1>5, <2>1
    <2> QED BY <1>1, <1>7, <2>1, <2>2
  <1>9. ASSUME NEW i \in 1..Len(s) PROVE f[i] = ParseSection(doc, f[i - 1], s[i])
    <2>0. i \in Nat /\ i > 0 /\ i <= Len(s)
      BY <1>1
    <2>1. 1..i \in SUBSET DOMAIN s /\ 1..i # {} /\ i - 1 \in 0..Len(s) /\ i \in 0..Len(s)
      BY ONLY <1>1, <2>0
    <2>2. Max(1..i) = i /\ 1..i \ {Max(1..i)} = 1..(i - 1)
      BY LargestOfRange
    <2>3. iter[1..i] = ParseSection(doc, iter[1..i \ {Max(1..i)}], s[Max(1..i)])
      BY <1>5, <2>1
    <2> QED BY <1>7, <2>1, <2>2, <2>3
  <1>10. \A i \in 0..Len(s) : f[i] \in A
    <2>1. ASSUME NEW i \in 1..Len(s), f[i - 1] \in A PROVE f[i] \in A
      BY <1>1, <1>9, <2>1
    <2> QED BY <1>1, <1>8, <2>1, Chain
  <1>11. f \in [0..Len(s) -> A]
    BY <1>7, <1>10
  <1>12. SectionsRead(doc, base, s) = f[Len(s)]
    BY <1>1, <1>6, <1>7
  <1> QED BY <1>8, <1>9, <1>11, <1>12 DEF SectionsRun
-----------------------------------------------------------------------------
(***************************************************************************)
(* Reading XML.  What the reader holds is a configuration all the time,    *)
(* and one that can be loaded again.                                       *)
(***************************************************************************)
\* No table holds more than its entries of static-config.h.
Within(c) == \A t \in Tables : Count(c, t) <= MaxCount[t]

Readings ==
  [cfg : {c \in Config : Within(c)}, rc : {"ok", "error"}, out : BOOLEAN,
   static_config_parsed : BOOLEAN, device_id_parsed : BOOLEAN]

Reading(c, r, o, x, y) ==
  [cfg |-> c, rc |-> r, out |-> o, static_config_parsed |-> x, device_id_parsed |-> y]

IsReading(z) == z = Reading(z.cfg, z.rc, z.out, z.static_config_parsed, z.device_id_parsed)

LEMMA WithinFits == ASSUME NEW c \in Config, Within(c) PROVE Fits(c)
  <1>1. ASSUME NEW t \in Tables PROVE Count(c, t) <= MaxCount[t] + 1
    <2>1. Count(c, t) \in Nat /\ MaxCount[t] \in Nat /\ Count(c, t) <= MaxCount[t]
      BY MaxCountAssumption DEF Within, Config, Count
    <2> QED BY <2>1
  <1> QED BY <1>1 DEF Fits, FitsTable

LEMMA ReadingOf ==
  ASSUME NEW st \in Readings
  PROVE  /\ IsReading(st)
         /\ st.cfg \in Config /\ Within(st.cfg)
         /\ st.rc \in {"ok", "error"} /\ st.out \in BOOLEAN
         /\ st.static_config_parsed \in BOOLEAN /\ st.device_id_parsed \in BOOLEAN
  BY DEF Readings, Reading, IsReading

LEMMA ReadingWith ==
  ASSUME NEW c \in Config, Within(c), NEW r \in {"ok", "error"}, NEW o \in BOOLEAN,
         NEW x \in BOOLEAN, NEW y \in BOOLEAN
  PROVE  Reading(c, r, o, x, y) \in Readings
  BY DEF Readings, Reading

\* What the operators do to the fields.
Ended(z, s, n) == [z EXCEPT !.rc = s, !.out = n]
StaticMet(z, s, n) == [z EXCEPT !.static_config_parsed = n, !.rc = s]
DeviceMet(z, s, n) == [z EXCEPT !.device_id_parsed = n, !.rc = s]
WithCfg(z, v) == [z EXCEPT !.cfg = v]
WithRc(z, v) == [z EXCEPT !.rc = v]

LEMMA ReadingReplaced ==
  ASSUME NEW z, IsReading(z), NEW v, NEW w
  PROVE  /\ WithCfg(z, v) = Reading(v, z.rc, z.out, z.static_config_parsed, z.device_id_parsed)
         /\ WithRc(z, v) = Reading(z.cfg, v, z.out, z.static_config_parsed, z.device_id_parsed)
         /\ Ended(z, v, w) = Reading(z.cfg, v, w, z.static_config_parsed, z.device_id_parsed)
         /\ StaticMet(z, v, w) = Reading(z.cfg, v, z.out, w, z.device_id_parsed)
         /\ DeviceMet(z, v, w) = Reading(z.cfg, v, z.out, z.static_config_parsed, w)
  <1>1. PICK c, r, o, x, y : c = z.cfg /\ r = z.rc /\ o = z.out
          /\ x = z.static_config_parsed /\ y = z.device_id_parsed
    OBVIOUS
  <1>2. z = Reading(c, r, o, x, y)
    BY <1>1, Zenon DEF IsReading
  <1>3. [z EXCEPT !.rc = v] = Reading(c, v, o, x, y)
    BY ONLY <1>2 DEF Reading
  <1>4. [z EXCEPT !.cfg = v] = Reading(v, r, o, x, y)
    BY ONLY <1>2 DEF Reading
  <1>5. [z EXCEPT !.rc = v, !.out = w] = Reading(c, v, w, x, y)
    <2>1. PICK u : u = [z EXCEPT !.rc = v]
      OBVIOUS
    <2>2. u = Reading(c, v, o, x, y)
      BY <1>3, <2>1, Zenon
    <2>3. [u EXCEPT !.out = w] = Reading(c, v, w, x, y)
      BY ONLY <2>2 DEF Reading
    <2> QED BY <2>1, <2>3
  <1>6. [z EXCEPT !.static_config_parsed = w, !.rc = v] = Reading(c, v, o, w, y)
    <2>1. PICK u : u = [z EXCEPT !.static_config_parsed = w]
      OBVIOUS
    <2>2. u = Reading(c, r, o, w, y)
      BY ONLY <1>2, <2>1 DEF Reading
    <2>3. [u EXCEPT !.rc = v] = Reading(c, v, o, w, y)
      BY ONLY <2>2 DEF Reading
    <2> QED BY <2>1, <2>3
  <1>7. [z EXCEPT !.device_id_parsed = w, !.rc = v] = Reading(c, v, o, x, w)
    <2>1. PICK u : u = [z EXCEPT !.device_id_parsed = w]
      OBVIOUS
    <2>2. u = Reading(c, r, o, x, w)
      BY ONLY <1>2, <2>1 DEF Reading
    <2>3. [u EXCEPT !.rc = v] = Reading(c, v, o, x, w)
      BY ONLY <2>2 DEF Reading
    <2> QED BY <2>1, <2>3
  <1> QED BY <1>1, <1>3, <1>4, <1>5, <1>6, <1>7, Zenon
       DEF WithCfg, WithRc, Ended, StaticMet, DeviceMet

LEMMA GoOutFields ==
  ASSUME NEW st \in Readings
  PROVE  GoOut(st) = Reading(st.cfg, "error", TRUE, st.static_config_parsed,
                             st.device_id_parsed)
  <1>1. GoOut(st) = Ended(st, "error", TRUE)
    BY DEF GoOut, Ended
  <1>2. IsReading(st)
    BY ReadingOf
  <1>3. Ended(st, "error", TRUE)
          = Reading(st.cfg, "error", TRUE, st.static_config_parsed, st.device_id_parsed)
    BY <1>2, ReadingReplaced, Zenon
  <1> QED BY <1>1, <1>3, Zenon

LEMMA GoOutReads == ASSUME NEW st \in Readings PROVE GoOut(st) \in Readings
  <1>1. TRUE \in BOOLEAN /\ "error" \in {"ok", "error"}
    OBVIOUS
  <1>2. /\ st.cfg \in Config /\ Within(st.cfg)
        /\ st.static_config_parsed \in BOOLEAN /\ st.device_id_parsed \in BOOLEAN
    BY ReadingOf
  <1>3. Reading(st.cfg, "error", TRUE, st.static_config_parsed, st.device_id_parsed) \in Readings
    BY <1>1, <1>2, ReadingWith, Zenon
  <1> QED BY <1>3, GoOutFields, Zenon

WithEntry(c, t, e) == [c EXCEPT !.tab[t] = Append(@, e)]

LEMMA WithEntryTyped ==
  ASSUME NEW c \in Config, NEW t \in Tables, NEW e \in Entry
  PROVE  /\ WithEntry(c, t, e) \in Config
         /\ WithEntry(c, t, e).dev = c.dev
         /\ WithEntry(c, t, e).tab[t] = Append(c.tab[t], e)
         /\ \A u \in Tables \ {t} : WithEntry(c, t, e).tab[u] = c.tab[u]
  <1>1. c.tab \in [Tables -> Seq(Entry)] /\ c.dev \in DeviceIds \cup {NoDevice}
        /\ c = [dev |-> c.dev, tab |-> c.tab]
    BY DEF Config
  <1>2. PICK tab : tab = [c.tab EXCEPT ![t] = Append(@, e)]
    OBVIOUS
  <1>2a. \A d, old, new : [[dev |-> d, tab |-> old] EXCEPT !.tab = new] = [dev |-> d, tab |-> new]
    OBVIOUS
  <1>3. WithEntry(c, t, e) = [dev |-> c.dev, tab |-> tab]
    <2>1. WithEntry(c, t, e) = [c EXCEPT !.tab = tab]
      BY <1>2 DEF WithEntry
    <2> QED BY <1>1, <1>2a, <2>1, Zenon
  <1>4. Append(c.tab[t], e) \in Seq(Entry)
    BY <1>1
  <1>5. tab \in [Tables -> Seq(Entry)] /\ tab[t] = Append(c.tab[t], e)
        /\ \A u \in Tables \ {t} : tab[u] = c.tab[u]
    BY <1>1, <1>2, <1>4
  <1>6. [dev |-> c.dev, tab |-> tab] \in Config
    BY <1>1, <1>5 DEF Config
  <1> QED BY <1>3, <1>5, <1>6

LEMMA ParseEntryTakes ==
  ASSUME NEW st \in Readings, NEW t \in Tables, NEW e \in Entry,
         ~st.out, e # Incomplete, ~(Count(st.cfg, t) >= MaxCount[t])
  PROVE  /\ Fields(t, e, st.cfg.dev) \in Entry
         /\ ParseEntry(st, t, e)
              = Reading(WithEntry(st.cfg, t, Fields(t, e, st.cfg.dev)), st.rc, st.out,
                        st.static_config_parsed, st.device_id_parsed)
         /\ ParseEntry(st, t, e) \in Readings
  <1>1. PICK g : g = Fields(t, e, st.cfg.dev)
    OBVIOUS
  <1>2. g \in Entry
    <2>1. e \in Seq(Nat) /\ e # << >>
      BY DEF Entry, Incomplete
    <2>2. e[1] \in Nat
      BY <2>1
    <2>3. << e[1] >> \in Seq(Nat)
      BY <2>2
    <2> QED BY <1>1, <2>1, <2>3 DEF Fields, Entry
  <1>3. PICK c : c = st.cfg
    OBVIOUS
  <1>4. PICK d : d = WithEntry(c, t, g)
    OBVIOUS
  <1>5. c \in Config /\ Within(c)
    BY <1>3, ReadingOf
  <1>6. d \in Config /\ d.tab[t] = Append(c.tab[t], g) /\ \A u \in Tables \ {t} : d.tab[u] = c.tab[u]
    BY <1>2, <1>4, <1>5, WithEntryTyped
  <1>7. Within(d)
    <2>1. ASSUME NEW u \in Tables PROVE Count(d, u) <= MaxCount[u]
      <3>1. CASE u = t
        <4>1. c.tab[t] \in Seq(Entry) /\ MaxCount[t] \in Nat
          BY <1>5, MaxCountAssumption DEF Config
        <4>2. Len(Append(c.tab[t], g)) = Len(c.tab[t]) + 1 /\ Len(c.tab[t]) \in Nat
          BY <4>1
        <4>3. Len(c.tab[t]) < MaxCount[t]
          BY <1>3, <4>1, <4>2 DEF Count
        <4> QED BY <1>6, <3>1, <4>1, <4>2, <4>3 DEF Count
      <3>2. CASE u # t
        BY <1>5, <1>6, <3>2 DEF Count, Within
      <3> QED BY <3>1, <3>2
    <2> QED BY <2>1 DEF Within
  <1>8. ParseEntry(st, t, e) = [st EXCEPT !.cfg.tab[t] = Append(@, g)]
    BY <1>1 DEF ParseEntry
  <1>9. [st EXCEPT !.cfg.tab[t] = Append(@, g)]
          = Reading(d, st.rc, st.out, st.static_config_parsed, st.device_id_parsed)
    <2>1. [st EXCEPT !.cfg.tab[t] = Append(@, g)] = WithCfg(st, d)
      BY <1>3, <1>4 DEF WithEntry, WithCfg
    <2>2. IsReading(st)
      BY ReadingOf
    <2> QED BY <2>1, <2>2, ReadingReplaced, Zenon
  <1>10. Reading(d, st.rc, st.out, st.static_config_parsed, st.device_id_parsed) \in Readings
    BY <1>6, <1>7, ReadingOf, ReadingWith, Zenon
  <1> QED BY <1>1, <1>2, <1>3, <1>4, <1>8, <1>9, <1>10, Zenon

LEMMA ParseEntryReads ==
  ASSUME NEW st \in Readings, NEW t \in Tables, NEW e \in Entry
  PROVE  ParseEntry(st, t, e) \in Readings
  <1>1. CASE st.out
    BY <1>1 DEF ParseEntry
  <1>2. CASE ~st.out /\ (e = Incomplete \/ Count(st.cfg, t) >= MaxCount[t])
    <2>1. ParseEntry(st, t, e) = GoOut(st)
      BY <1>2, Zenon DEF ParseEntry
    <2> QED BY <2>1, GoOutReads
  <1>3. CASE ~st.out /\ e # Incomplete /\ ~(Count(st.cfg, t) >= MaxCount[t])
    BY <1>3, ParseEntryTakes, Zenon
  <1> QED BY <1>1, <1>2, <1>3

LEMMA TableRead ==
  ASSUME NEW st, NEW table
  PROVE  ParseTable(st, table)
           = IF table.t \notin Tables THEN st ELSE EntriesRead(st, table.t, table.entries)
  BY DEF ParseTable, EntriesRead

LEMMA ParseTableReads ==
  ASSUME NEW st \in Readings, NEW table \in XmlTable
  PROVE  ParseTable(st, table) \in Readings
  <1>1. CASE table.t \notin Tables
    <2>1. ParseTable(st, table) = st
      BY <1>1, TableRead
    <2> QED BY <2>1
  <1>2. CASE table.t \in Tables
    <2>1. PICK t \in Tables, es \in Seq(Entry) : t = table.t /\ es = table.entries
      BY <1>2 DEF XmlTable
    <2>2. \A a \in Readings : \A b \in Entry : ParseEntry(a, t, b) \in Readings
      BY ParseEntryReads
    <2>3. PICK f : EntriesRun(f, Readings, t, st, es)
      BY <2>2, ParseEntries
    <2>4. EntriesRead(st, t, es) \in Readings
      BY <2>3 DEF EntriesRun
    <2>5. ParseTable(st, table) = EntriesRead(st, t, es)
      BY <2>1, TableRead
    <2> QED BY <2>4, <2>5
  <1> QED BY <1>1, <1>2

LEMMA TablesReads ==
  ASSUME NEW st \in Readings, NEW ts \in Seq(XmlTable)
  PROVE  TablesRead(st, ts) \in Readings
  <1>1. \A a \in Readings : \A b \in XmlTable : ParseTable(a, b) \in Readings
    BY ParseTableReads
  <1>2. PICK f : TablesRun(f, Readings, st, ts)
    BY <1>1, ParseTables
  <1> QED BY <1>2 DEF TablesRun

LEMMA MetReads ==
  ASSUME NEW st \in Readings
  PROVE  /\ Met(st, "static_config_parsed")
              = IF st.out THEN st ELSE Reading(st.cfg, "ok", st.out, TRUE, st.device_id_parsed)
         /\ Met(st, "device_id_parsed")
              = IF st.out THEN st ELSE Reading(st.cfg, "ok", st.out, st.static_config_parsed, TRUE)
         /\ Met(st, "static_config_parsed") \in Readings
         /\ Met(st, "device_id_parsed") \in Readings
  <1>1. CASE st.out
    BY <1>1 DEF Met
  <1>2. CASE ~st.out
    <2>1. /\ Met(st, "static_config_parsed") = StaticMet(st, "ok", TRUE)
          /\ Met(st, "device_id_parsed") = DeviceMet(st, "ok", TRUE)
      BY <1>2 DEF Met, StaticMet, DeviceMet
    <2>2. IsReading(st)
      BY ReadingOf
    <2>3. /\ StaticMet(st, "ok", TRUE) = Reading(st.cfg, "ok", st.out, TRUE, st.device_id_parsed)
          /\ DeviceMet(st, "ok", TRUE) = Reading(st.cfg, "ok", st.out, st.static_config_parsed, TRUE)
      BY <2>2, ReadingReplaced, Zenon
    <2>4. "ok" \in {"ok", "error"} /\ TRUE \in BOOLEAN
      OBVIOUS
    <2>5. /\ st.cfg \in Config /\ Within(st.cfg) /\ st.out \in BOOLEAN
          /\ st.static_config_parsed \in BOOLEAN /\ st.device_id_parsed \in BOOLEAN
      BY ReadingOf
    <2>6. /\ Reading(st.cfg, "ok", st.out, TRUE, st.device_id_parsed) \in Readings
          /\ Reading(st.cfg, "ok", st.out, st.static_config_parsed, TRUE) \in Readings
      BY <2>4, <2>5, ReadingWith, Zenon
    <2> QED BY <1>2, <2>1, <2>3, <2>6, Zenon
  <1> QED BY <1>1, <1>2
-----------------------------------------------------------------------------
WithDev(c, dev) == [c EXCEPT !.dev = dev]

LEMMA WithDevTyped ==
  ASSUME NEW c \in Config, NEW dev \in DeviceIds \cup {NoDevice}
  PROVE  /\ WithDev(c, dev) \in Config
         /\ WithDev(c, dev).dev = dev /\ WithDev(c, dev).tab = c.tab
         /\ Within(c) => Within(WithDev(c, dev))
  <1>1. WithDev(c, dev) = [dev |-> dev, tab |-> c.tab]
    BY DEF Config, WithDev
  <1> QED BY <1>1 DEF Config, Within, Count

\* A document, as the assumption on XmlFiles has it.
Documents == [root : BOOLEAN, sections : Seq(XmlSection)]

LEMMA SectionOfDocument ==
  ASSUME NEW doc \in Documents
  PROVE  /\ doc.sections \in Seq(XmlSection)
         /\ \A i \in DOMAIN doc.sections :
              /\ doc.sections[i] \in XmlSection
              /\ doc.sections[i].kind \in {"device-id", "static", "unknown"}
              /\ doc.sections[i].kind = "device-id" =>
                   doc.sections[i].dev \in DeviceIds \cup {NoDevice}
              /\ doc.sections[i].kind = "static" => doc.sections[i].tables \in Seq(XmlTable)
  <1>1. doc.sections \in Seq(XmlSection)
    BY DEF Documents
  <1>2. ASSUME NEW i \in DOMAIN doc.sections PROVE doc.sections[i] \in XmlSection
    BY <1>1
  <1> QED BY <1>1, <1>2 DEF XmlSection

LEMMA DeviceIdOfDocument ==
  ASSUME NEW doc \in Documents, Kind(doc, "device-id") # {}
  PROVE  /\ DeviceId(doc) \in DeviceIds \cup {NoDevice}
         /\ \E i \in Kind(doc, "device-id") :
              /\ \A j \in Kind(doc, "device-id") : j <= i
              /\ DeviceId(doc) = doc.sections[i].dev
  <1>1. PICK K : K = Kind(doc, "device-id")
    OBVIOUS
  <1>2. doc.sections \in Seq(XmlSection)
    BY SectionOfDocument
  <1>3. Len(doc.sections) \in Nat /\ K \in SUBSET (1..Len(doc.sections)) /\ K # {}
    BY <1>1, <1>2 DEF Kind
  <1>4. Max(K) \in K /\ \A m \in K : m <= Max(K)
    BY <1>3, Largest, Zenon
  <1>5. PICK i : i = CHOOSE m \in K : \A j \in K : j <= m
    OBVIOUS
  <1>6. i \in K /\ \A j \in K : j <= i
    BY <1>4, <1>5
  <1>7. DeviceId(doc) = doc.sections[i].dev
    BY <1>1, <1>5, Zenon DEF DeviceId
  <1>8. i \in DOMAIN doc.sections /\ doc.sections[i].kind = "device-id"
    BY <1>1, <1>6 DEF Kind
  <1>9. doc.sections[i].dev \in DeviceIds \cup {NoDevice}
    BY <1>8, SectionOfDocument
  <1> QED BY <1>1, <1>6, <1>7, <1>9

\* One turn of the loop, for each kind of section.
LEMMA SectionTurn ==
  ASSUME NEW doc \in Documents, NEW st \in Readings, NEW k \in DOMAIN doc.sections
  PROVE  LET section == doc.sections[k] IN
         /\ st.out => ParseSection(doc, st, section) = st
         /\ ~st.out /\ section.kind = "static" =>
              ParseSection(doc, st, section)
                = Met(TablesRead(st, section.tables), "static_config_parsed")
         /\ ~st.out /\ section.kind = "device-id" =>
              ParseSection(doc, st, section)
                = Met(WithCfg(st, WithDev(st.cfg, DeviceId(doc))), "device_id_parsed")
         /\ ~st.out /\ section.kind = "unknown" =>
              ParseSection(doc, st, section) = WithRc(st, "error")
  <1>1. PICK section : section = doc.sections[k]
    OBVIOUS
  <1>2. CASE st.out
    BY <1>1, <1>2 DEF ParseSection
  <1>3. CASE ~st.out /\ section.kind = "static"
    BY <1>1, <1>3 DEF ParseSection, TablesRead
  <1>4. CASE ~st.out /\ section.kind = "device-id"
    <2>1. ParseSection(doc, st, section)
            = Met([st EXCEPT !.cfg.dev = DeviceId(doc)], "device_id_parsed")
      BY <1>4 DEF ParseSection
    <2>2. \A v : [st EXCEPT !.cfg.dev = v] = WithCfg(st, WithDev(st.cfg, v))
      BY DEF WithCfg, WithDev
    <2>3. [st EXCEPT !.cfg.dev = DeviceId(doc)] = WithCfg(st, WithDev(st.cfg, DeviceId(doc)))
      BY <2>2
    <2> QED BY <1>1, <1>4, <2>1, <2>3
  <1>5. CASE ~st.out /\ section.kind = "unknown"
    BY <1>1, <1>5 DEF ParseSection, WithRc
  <1>6. section.kind \in {"device-id", "static", "unknown"}
    BY <1>1, SectionOfDocument
  <1> QED BY <1>1, <1>2, <1>3, <1>4, <1>5, <1>6

LEMMA WithCfgReads ==
  ASSUME NEW st \in Readings, NEW c \in Config, Within(c)
  PROVE  /\ WithCfg(st, c) \in Readings
         /\ WithCfg(st, c) = Reading(c, st.rc, st.out, st.static_config_parsed, st.device_id_parsed)
  <1>1. /\ IsReading(st) /\ st.rc \in {"ok", "error"} /\ st.out \in BOOLEAN
        /\ st.static_config_parsed \in BOOLEAN /\ st.device_id_parsed \in BOOLEAN
    BY ReadingOf
  <1>2. WithCfg(st, c) = Reading(c, st.rc, st.out, st.static_config_parsed, st.device_id_parsed)
    BY <1>1, ReadingReplaced, Zenon
  <1>3. Reading(c, st.rc, st.out, st.static_config_parsed, st.device_id_parsed) \in Readings
    BY <1>1, ReadingWith, Zenon
  <1> QED BY <1>2, <1>3, Zenon

LEMMA WithRcReads ==
  ASSUME NEW st \in Readings, NEW r \in {"ok", "error"}
  PROVE  /\ WithRc(st, r) \in Readings
         /\ WithRc(st, r) = Reading(st.cfg, r, st.out, st.static_config_parsed, st.device_id_parsed)
  <1>1. /\ IsReading(st) /\ st.cfg \in Config /\ Within(st.cfg) /\ st.out \in BOOLEAN
        /\ st.static_config_parsed \in BOOLEAN /\ st.device_id_parsed \in BOOLEAN
    BY ReadingOf
  <1>2. WithRc(st, r) = Reading(st.cfg, r, st.out, st.static_config_parsed, st.device_id_parsed)
    BY <1>1, ReadingReplaced, Zenon
  <1>3. Reading(st.cfg, r, st.out, st.static_config_parsed, st.device_id_parsed) \in Readings
    BY <1>1, ReadingWith, Zenon
  <1> QED BY <1>2, <1>3, Zenon

LEMMA ParseSectionReads ==
  ASSUME NEW doc \in Documents, NEW st \in Readings, NEW k \in DOMAIN doc.sections
  PROVE  ParseSection(doc, st, doc.sections[k]) \in Readings
  <1>0. PICK section : section = doc.sections[k]
    OBVIOUS
  <1>1. CASE st.out
    BY <1>1, SectionTurn
  <1>2. CASE ~st.out /\ section.kind = "static"
    <2>1. section.tables \in Seq(XmlTable)
      BY <1>0, <1>2, SectionOfDocument
    <2>2. TablesRead(st, section.tables) \in Readings
      BY <2>1, TablesReads
    <2> QED BY <1>0, <1>2, <2>2, SectionTurn, MetReads
  <1>3. CASE ~st.out /\ section.kind = "device-id"
    <2>1. k \in Kind(doc, "device-id")
      BY <1>0, <1>3 DEF Kind
    <2>2. DeviceId(doc) \in DeviceIds \cup {NoDevice}
      BY <2>1, DeviceIdOfDocument
    <2>3. st.cfg \in Config /\ Within(st.cfg)
      BY ReadingOf
    <2>4. WithDev(st.cfg, DeviceId(doc)) \in Config /\ Within(WithDev(st.cfg, DeviceId(doc)))
      BY <2>2, <2>3, WithDevTyped
    <2>5. WithCfg(st, WithDev(st.cfg, DeviceId(doc))) \in Readings
      BY <2>4, WithCfgReads
    <2> QED BY <1>0, <1>3, <2>5, SectionTurn, MetReads
  <1>4. CASE ~st.out /\ section.kind = "unknown"
    BY <1>0, <1>4, SectionTurn, WithRcReads
  <1>5. section.kind \in {"device-id", "static", "unknown"}
    BY <1>0, SectionOfDocument
  <1> QED BY <1>0, <1>1, <1>2, <1>3, <1>4, <1>5

LEMMA StartReads == StartXml \in Readings
  <1>1. EmptyConfig(NoDevice) \in Config
    BY DEF EmptyConfig, Config
  <1>2. Within(EmptyConfig(NoDevice))
    BY MaxCountAssumption DEF Within, EmptyConfig, Count
  <1>3. StartXml = Reading(EmptyConfig(NoDevice), "ok", FALSE, FALSE, FALSE)
    BY DEF StartXml, Reading
  <1>4. "ok" \in {"ok", "error"} /\ FALSE \in BOOLEAN
    OBVIOUS
  <1> QED BY <1>1, <1>2, <1>3, <1>4, ReadingWith, Zenon

LEMMA SectionsRuns ==
  ASSUME NEW doc \in Documents
  PROVE  \E f : SectionsRun(f, Readings, doc, StartXml, doc.sections)
  <1> DEFINE B == {doc.sections[k] : k \in DOMAIN doc.sections}
  <1>1. doc.sections \in Seq(XmlSection)
    BY SectionOfDocument
  <1>2. doc.sections \in Seq(B)
    BY <1>1
  <1>3. \A a \in Readings : \A b \in B : ParseSection(doc, a, b) \in Readings
    BY ParseSectionReads
  <1> HIDE DEF B
  <1> QED BY <1>2, <1>3, StartReads, ParseSections

LEMMA RootRead ==
  ASSUME NEW doc \in Documents
  PROVE  /\ ~doc.root => ParseRoot(doc) = GoOut(StartXml)
         /\ doc.root => ParseRoot(doc) = LET end == SectionsRead(doc, StartXml, doc.sections)
                         IN IF end.static_config_parsed /\ end.device_id_parsed THEN end
                            ELSE GoOut(end)
  BY DEF ParseRoot, SectionsRead

(***************************************************************************)
(* Whatever the file holds, and wherever its reading ends.                 *)
(***************************************************************************)
LEMMA ParseRootReads ==
  ASSUME NEW doc \in Documents
  PROVE  ParseRoot(doc) \in Readings
  <1>1. PICK f : SectionsRun(f, Readings, doc, StartXml, doc.sections)
    BY SectionsRuns
  <1>2. SectionsRead(doc, StartXml, doc.sections) \in Readings
    <2>1. Len(doc.sections) \in Nat
      BY SectionOfDocument
    <2> QED BY <1>1, <2>1 DEF SectionsRun
  <1>3. CASE ~doc.root
    BY <1>3, RootRead, StartReads, GoOutReads
  <1>4. CASE doc.root
    BY <1>2, <1>4, RootRead, GoOutReads
  <1>5. doc.root \in BOOLEAN
    BY DEF Documents
  <1> QED BY <1>3, <1>4, <1>5

LEMMA ParsedType ==
  ASSUME NEW name \in DOMAIN XmlFiles
  PROVE  /\ Parsed[name] = ParseRoot(XmlFiles[name])
         /\ Parsed[name] \in Readings
         /\ Parsed[name].cfg \in Config /\ Within(Parsed[name].cfg) /\ Fits(Parsed[name].cfg)
  <1>1. Parsed[name] = ParseRoot(XmlFiles[name])
    BY DEF Parsed
  <1>2. XmlFiles[name] \in Documents
    BY XmlFilesAssumption DEF Documents
  <1>3. Parsed[name] \in Readings
    BY <1>1, <1>2, ParseRootReads
  <1>4. Parsed[name].cfg \in Config /\ Within(Parsed[name].cfg)
    BY <1>3, ReadingOf
  <1> QED BY <1>1, <1>3, <1>4, WithinFits
-----------------------------------------------------------------------------
(***************************************************************************)
(* What the reader takes from a document.  First: what grows by y[i] with  *)
(* every turn i has grown by all of y in the end.                          *)
(***************************************************************************)
Grows(x, y) == \A i \in 1..Len(y) : x[i] = x[i - 1] \o y[i]

GrownTo(x, f, n) == x[n] = x[0] \o f[n]

LEMMA GrowsByAll ==
  ASSUME NEW X, NEW y \in Seq(Seq(X)), NEW x, x[0] \in Seq(X), Grows(x, y)
  PROVE  x[Len(y)] = x[0] \o FlattenSeq(y) /\ FlattenSeq(y) \in Seq(X)
  <1>0. FlattenSeq(y) \in Seq(X) /\ Len(y) \in Nat
    BY FlattenType
  <1>1. CASE y = << >>
    <2>1. x[0] \o << >> = x[0] /\ Len(y) = 0
      BY <1>1
    <2> QED BY <1>0, <1>1, <2>1, FlattenNothing
  <1>2. CASE y # << >>
    <2>1. PICK f \in [1..Len(y) -> Seq(X)] :
            /\ f[1] = y[1]
            /\ \A i \in 2..Len(y) : f[i] = f[i - 1] \o y[i]
            /\ FlattenSeq(y) = f[Len(y)]
      BY <1>2, FlattenUnrolled
    <2>2. \A i \in 1..Len(y) : f[i] \in Seq(X) /\ y[i] \in Seq(X)
      <3>1. \A i \in 1..Len(y) : f[i] \in Seq(X)
        BY <2>1, Zenon
      <3>2. \A i \in 1..Len(y) : y[i] \in Seq(X)
        OBVIOUS
      <3> QED BY <3>1, <3>2, Zenon
    <2> DEFINE T == {n \in Nat : n + 1 <= Len(y) => GrownTo(x, f, n + 1)}
    <2>3. 0 \in T
      <3>1. 1 \in 1..Len(y) /\ 1 - 1 = 0 /\ 0 + 1 = 1
        BY <1>0, <1>2
      <3>2. x[1] = x[0] \o y[1]
        BY <3>1 DEF Grows
      <3> QED BY <2>1, <3>1, <3>2 DEF GrownTo
    <2>4. ASSUME NEW n \in Nat, n \in T PROVE n + 1 \in T
      <3>0. n + 1 \in Nat
        OBVIOUS
      <3> SUFFICES ASSUME (n + 1) + 1 <= Len(y) PROVE GrownTo(x, f, (n + 1) + 1)
        BY <3>0, Zenon
      <3>1. PICK m \in Nat : m = n + 1
        BY <3>0
      <3>2. m + 1 \in 1..Len(y) /\ m + 1 \in 2..Len(y) /\ (m + 1) - 1 = m /\ m \in 1..Len(y)
            /\ n + 1 <= Len(y)
        BY <1>0, <3>1
      <3>3. GrownTo(x, f, m)
        BY <2>4, <3>1, <3>2
      <3>4. PICK a \in Seq(X), b \in Seq(X) : a = f[m] /\ b = y[m + 1]
        BY <2>2, <3>2
      <3>5. x[m + 1] = x[m] \o b /\ f[m + 1] = a \o b
        BY <2>1, <3>2, <3>4 DEF Grows
      <3>6. (x[0] \o a) \o b = x[0] \o (a \o b)
        <4>1. PICK c \in Seq(X) : c = x[0]
          OBVIOUS
        <4>2. (c \o a) \o b = c \o (a \o b)
          BY ONLY JoinedInTurn, a \in Seq(X), b \in Seq(X), c \in Seq(X)
        <4> QED BY <4>1, <4>2
      <3> QED BY <3>1, <3>3, <3>4, <3>5, <3>6 DEF GrownTo
    <2> HIDE DEF T
    <2>5. \A n \in Nat : n \in T
      BY <2>3, <2>4, SetInduction
    <2>6. Len(y) - 1 \in Nat /\ (Len(y) - 1) + 1 = Len(y)
      BY <1>0, <1>2
    <2>7. Len(y) - 1 \in T
      BY <2>5, <2>6
    <2>8. GrownTo(x, f, (Len(y) - 1) + 1)
      BY <1>0, <2>6, <2>7 DEF T
    <2> QED BY <1>0, <2>1, <2>6, <2>8 DEF GrownTo
  <1> QED BY <1>1, <1>2

LEMMA FlattenSingles ==
  ASSUME NEW X, NEW z \in Seq(X), NEW y, y = [i \in 1..Len(z) |-> << z[i] >>]
  PROVE  y \in Seq(Seq(X)) /\ Len(y) = Len(z) /\ FlattenSeq(y) = z
  <1>1. Len(z) \in Nat /\ \A i \in 1..Len(z) : z[i] \in X
    OBVIOUS
  <1>2. \A i \in 1..Len(z) : << z[i] >> \in Seq(X)
    BY <1>1
  <1>3. y \in Seq(Seq(X)) /\ Len(y) = Len(z)
    BY <1>1, <1>2
  <1>4. PICK x : x = [i \in 0..Len(z) |-> [j \in 1..i |-> z[j]]]
    OBVIOUS
  <1>5. x[0] = << >> /\ x[Len(z)] = z
    BY <1>1, <1>4
  <1>6. ASSUME NEW i \in 1..Len(z) PROVE x[i] = x[i - 1] \o y[i]
    <2>1. i \in 0..Len(z) /\ i - 1 \in 0..Len(z) /\ i \in Nat /\ i - 1 \in Nat
      BY <1>1
    <2>2. x[i] = [j \in 1..i |-> z[j]] /\ x[i - 1] = [j \in 1..i - 1 |-> z[j]] /\ y[i] = << z[i] >>
      BY <1>4, <2>1
    <2>3. \A j \in 1..i : z[j] \in X
      BY <1>1
    <2>4. PICK a : a = x[i - 1]
      OBVIOUS
    <2>5. a \in Seq(X) /\ Len(a) = i - 1
      BY <2>1, <2>2, <2>3, <2>4
    <2>6. a \o << z[i] >> = [j \in 1..i |-> IF j <= i - 1 THEN a[j] ELSE z[i]]
      BY <2>1, <2>3, <2>5
    <2>7. \A j \in 1..i : (IF j <= i - 1 THEN a[j] ELSE z[i]) = z[j]
      BY <2>1, <2>2, <2>4
    <2> QED BY <2>2, <2>4, <2>6, <2>7
  <1>7. << >> \in Seq(X) /\ \A a \in Seq(X) : << >> \o a = a
    OBVIOUS
  <1>8. x[Len(y)] = x[0] \o FlattenSeq(y) /\ FlattenSeq(y) \in Seq(X)
    BY <1>3, <1>5, <1>6, <1>7, GrowsByAll DEF Grows
  <1> QED BY <1>3, <1>5, <1>7, <1>8

LEMMA FlattenEmpties ==
  ASSUME NEW X, NEW n \in Nat, NEW y, y = [i \in 1..n |-> << >>]
  PROVE  y \in Seq(Seq(X)) /\ Len(y) = n /\ FlattenSeq(y) = << >>
  <1>1. << >> \in Seq(X)
    OBVIOUS
  <1>2. y \in Seq(Seq(X)) /\ Len(y) = n
    BY <1>1
  <1>3. PICK x : x = [i \in 0..n |-> << >>]
    OBVIOUS
  <1>4. x[0] = << >> /\ x[n] = << >> /\ \A i \in 1..n : x[i] = x[i - 1] \o y[i]
    BY <1>3
  <1>5. x[Len(y)] = x[0] \o FlattenSeq(y) /\ FlattenSeq(y) \in Seq(X)
    BY <1>1, <1>2, <1>4, GrowsByAll DEF Grows
  <1> QED BY <1>2, <1>4, <1>5

(***************************************************************************)
(* A reading that has gone on from a and has not gone out added y.         *)
(***************************************************************************)
Added == [Tables -> Seq(Entry)]
Adds(a, b, y) ==
  /\ ~a.out /\ y \in Added
  /\ \A t \in Tables : b.cfg.tab[t] = a.cfg.tab[t] \o y[t]

\* Each turn i of a reading has added y[i], or led out.
AddsInTurn(f, n, y) ==
  \A i \in 1..n : f[i].out \/ Adds(f[i - 1], f[i], y[i])

LEMMA NeverOut ==
  ASSUME NEW n \in Nat, NEW f, NEW y, AddsInTurn(f, n, y), ~f[n].out,
         \A i \in 1..n : f[i - 1].out => f[i].out
  PROVE  \A i \in 0..n : ~f[i].out
  <1> DEFINE T == {k \in Nat : k <= n => ~f[n - k].out}
  <1>1. 0 \in T
    BY n - 0 = n
  <1>2. ASSUME NEW k \in Nat, k \in T PROVE k + 1 \in T
    <2>0. k + 1 \in Nat
      OBVIOUS
    <2> SUFFICES ASSUME k + 1 <= n PROVE ~f[n - (k + 1)].out
      BY <2>0, Zenon
    <2>1. PICK i \in 1..n : i = n - k
      OBVIOUS
    <2>2. i - 1 = n - (k + 1) /\ k <= n
      BY <2>1
    <2>3. ~f[i].out
      BY <1>2, <2>1, <2>2
    <2>4. ~f[i - 1].out
      BY <2>3
    <2> QED BY <2>2, <2>4
  <1> HIDE DEF T
  <1>3. \A k \in Nat : k \in T
    BY <1>1, <1>2, SetInduction
  <1>4. ASSUME NEW i \in 0..n PROVE ~f[i].out
    <2>1. n - i \in Nat /\ n - i <= n /\ n - (n - i) = i
      OBVIOUS
    <2>2. n - i \in T
      BY <1>3, <2>1
    <2>3. ~f[n - (n - i)].out
      BY <2>1, <2>2 DEF T
    <2> QED BY <2>1, <2>3
  <1> QED BY <1>4

\* What y adds to table t, turn by turn.
ToTable(y, n, t) == [i \in 1..n |-> y[i][t]]

LEMMA AddsTogether ==
  ASSUME NEW n \in Nat, NEW f, NEW y, AddsInTurn(f, n, y), ~f[n].out,
         \A i \in 1..n : f[i - 1].out => f[i].out, f[0] \in Readings
  PROVE  Adds(f[0], f[n], [t \in Tables |-> FlattenSeq(ToTable(y, n, t))])
  <1>1. \A i \in 0..n : ~f[i].out
    BY NeverOut
  <1>2. ASSUME NEW i \in 1..n PROVE Adds(f[i - 1], f[i], y[i])
    <2>1. i \in 0..n
      OBVIOUS
    <2> QED BY <1>1, <2>1 DEF AddsInTurn
  <1>3. f[0].cfg.tab \in Added
    <2>1. f[0].cfg \in Config
      BY ReadingOf
    <2> QED BY <2>1 DEF Config, Added
  <1>4. ASSUME NEW t \in Tables
        PROVE  /\ FlattenSeq(ToTable(y, n, t)) \in Seq(Entry)
               /\ f[n].cfg.tab[t] = f[0].cfg.tab[t] \o FlattenSeq(ToTable(y, n, t))
    <2>1. PICK z : z = ToTable(y, n, t)
      OBVIOUS
    <2>2. \A i \in 1..n : y[i][t] \in Seq(Entry)
      BY <1>2 DEF Adds, Added
    <2>3. z \in Seq(Seq(Entry)) /\ Len(z) = n /\ \A i \in 1..n : z[i] = y[i][t]
      BY <2>1, <2>2 DEF ToTable
    <2>4. PICK x : x = [i \in 0..n |-> f[i].cfg.tab[t]]
      OBVIOUS
    <2>5. ASSUME NEW i \in 1..n PROVE x[i] = x[i - 1] \o z[i]
      <3>1. i \in 0..n /\ i - 1 \in 0..n
        OBVIOUS
      <3>2. f[i].cfg.tab[t] = f[i - 1].cfg.tab[t] \o y[i][t]
        BY <1>2 DEF Adds
      <3> QED BY <2>3, <2>4, <3>1, <3>2
    <2>6. x[0] = f[0].cfg.tab[t] /\ x[n] = f[n].cfg.tab[t] /\ x[0] \in Seq(Entry)
      BY <1>3, <2>4 DEF Added
    <2>7. Grows(x, z)
      BY <2>3, <2>5 DEF Grows
    <2>8. x[Len(z)] = x[0] \o FlattenSeq(z) /\ FlattenSeq(z) \in Seq(Entry)
      BY <2>3, <2>6, <2>7, GrowsByAll, Zenon
    <2> QED BY <2>1, <2>3, <2>6, <2>8
  <1>5. ~f[0].out
    BY <1>1
  <1> QED BY <1>4, <1>5 DEF Adds, Added

\* Readings that know as much of the device as st.
Kin(st) ==
  {r \in Readings : /\ r.cfg.dev = st.cfg.dev /\ r.device_id_parsed = st.device_id_parsed
                    /\ r.out => r.rc = "error"}

\* From r to b the reading stays akin to st, and has added y unless it is out.
Turns(st, r, b, y) ==
  /\ b \in Kin(st)
  /\ r.out => b.out
  /\ b.out \/ Adds(r, b, y)

NoEntries == [t \in Tables |-> << >>]

LEMMA AddingNothing ==
  ASSUME NEW r \in Readings, ~r.out
  PROVE  Adds(r, r, NoEntries)
  <1>1. r.cfg.tab \in Added
    <2>1. r.cfg \in Config
      BY ReadingOf
    <2> QED BY <2>1 DEF Config, Added
  <1>2. \A s \in Seq(Entry) : s \o << >> = s
    OBVIOUS
  <1>3. << >> \in Seq(Entry)
    OBVIOUS
  <1> QED BY <1>1, <1>2, <1>3 DEF Adds, Added, NoEntries

LEMMA OutStays ==
  ASSUME NEW st \in Readings, NEW r \in Kin(st), NEW y, r.out
  PROVE  Turns(st, r, r, y)
  BY DEF Turns

LEMMA NothingTurns ==
  ASSUME NEW st \in Readings, NEW r \in Kin(st)
  PROVE  Turns(st, r, r, NoEntries)
  BY AddingNothing DEF Turns, Kin

LEMMA GoOutTurns ==
  ASSUME NEW st \in Readings, NEW r \in Kin(st), NEW y
  PROVE  Turns(st, r, GoOut(r), y)
  <1>1. r \in Readings /\ r.cfg.dev = st.cfg.dev /\ r.device_id_parsed = st.device_id_parsed
    BY DEF Kin
  <1>2. GoOut(r) = Reading(r.cfg, "error", TRUE, r.static_config_parsed, r.device_id_parsed)
    BY <1>1, GoOutFields
  <1>3. GoOut(r) \in Readings
    BY <1>1, GoOutReads
  <1> QED BY <1>1, <1>2, <1>3 DEF Turns, Kin, Reading

OneEntry(t, g) == [u \in Tables |-> IF u = t THEN << g >> ELSE << >>]

LEMMA EntryTurns ==
  ASSUME NEW st \in Readings, NEW r \in Kin(st), NEW t \in Tables, NEW e \in Entry
  PROVE  Turns(st, r, ParseEntry(r, t, e), OneEntry(t, Fields(t, e, st.cfg.dev)))
  <1>0. r \in Readings /\ r.cfg.dev = st.cfg.dev /\ r.device_id_parsed = st.device_id_parsed
        /\ (r.out => r.rc = "error")
    BY DEF Kin
  <1>1. CASE r.out
    <2>1. ParseEntry(r, t, e) = r
      BY <1>1 DEF ParseEntry
    <2> QED BY <1>1, <2>1, OutStays
  <1>2. CASE ~r.out /\ (e = Incomplete \/ Count(r.cfg, t) >= MaxCount[t])
    <2>1. ParseEntry(r, t, e) = GoOut(r)
      BY <1>2, Zenon DEF ParseEntry
    <2> QED BY <2>1, GoOutTurns
  <1>3. CASE ~r.out /\ e # Incomplete /\ ~(Count(r.cfg, t) >= MaxCount[t])
    <2>1. PICK g : g = Fields(t, e, r.cfg.dev)
      OBVIOUS
    <2>2. PICK b : b = ParseEntry(r, t, e)
      OBVIOUS
    <2>3. PICK d : d = WithEntry(r.cfg, t, g)
      OBVIOUS
    <2>4. /\ g \in Entry /\ b \in Readings
          /\ b = Reading(d, r.rc, r.out, r.static_config_parsed, r.device_id_parsed)
      BY <1>0, <1>3, <2>1, <2>2, <2>3, ParseEntryTakes, Zenon
    <2>5. r.cfg \in Config
      BY <1>0, ReadingOf
    <2>6. /\ d.dev = r.cfg.dev /\ d.tab[t] = Append(r.cfg.tab[t], g)
          /\ \A u \in Tables \ {t} : d.tab[u] = r.cfg.tab[u]
      BY <2>3, <2>4, <2>5, WithEntryTyped
    <2>7. b.cfg = d /\ b.out = r.out /\ b.device_id_parsed = r.device_id_parsed
      BY <2>4 DEF Reading
    <2>8. b \in Kin(st)
      BY <1>0, <1>3, <2>4, <2>6, <2>7 DEF Kin
    <2>9. r.cfg.tab \in Added
      BY <2>5 DEF Config, Added
    <2>10. ASSUME NEW u \in Tables
           PROVE  d.tab[u] = r.cfg.tab[u] \o OneEntry(t, g)[u] /\ OneEntry(t, g)[u] \in Seq(Entry)
      <3>1. PICK s \in Seq(Entry) : s = r.cfg.tab[u]
        BY <2>9 DEF Added
      <3>2. Append(s, g) = s \o << g >> /\ s \o << >> = s /\ << g >> \in Seq(Entry)
            /\ << >> \in Seq(Entry)
        BY <2>4
      <3>3. CASE u = t
        BY <2>6, <3>1, <3>2, <3>3 DEF OneEntry
      <3>4. CASE u # t
        BY <2>6, <3>1, <3>2, <3>4 DEF OneEntry
      <3> QED BY <3>3, <3>4
    <2>11. OneEntry(t, g) \in Added
      BY <2>10 DEF OneEntry, Added
    <2>12. Adds(r, b, OneEntry(t, g))
      BY <1>3, <2>7, <2>10, <2>11 DEF Adds
    <2> QED BY <1>0, <1>3, <2>1, <2>2, <2>8, <2>12 DEF Turns
  <1> QED BY <1>1, <1>2, <1>3

LEMMA BaseIsKin ==
  ASSUME NEW st \in Readings, st.out => st.rc = "error"
  PROVE  st \in Kin(st)
  BY DEF Kin

\* What entries es of table t add.
AllOfThem(t, es, dev) == [i \in DOMAIN es |-> Fields(t, es[i], dev)]

OnTable(t, z) == [u \in Tables |-> IF u = t THEN z ELSE << >>]

LEMMA EntriesTurn ==
  ASSUME NEW st \in Readings, NEW r \in Kin(st), NEW t \in Tables, NEW es \in Seq(Entry)
  PROVE  Turns(st, r, EntriesRead(r, t, es), OnTable(t, AllOfThem(t, es, st.cfg.dev)))
  <1>1. \A a \in Kin(st) : \A e \in Entry :
          Turns(st, a, ParseEntry(a, t, e), OneEntry(t, Fields(t, e, st.cfg.dev)))
    BY EntryTurns
  <1>2. \A a \in Kin(st) : \A e \in Entry : ParseEntry(a, t, e) \in Kin(st)
    BY <1>1 DEF Turns
  <1>3. PICK f : EntriesRun(f, Kin(st), t, r, es)
    BY <1>2, ParseEntries
  <1>4. PICK n \in Nat : n = Len(es)
    OBVIOUS
  <1>5. /\ f \in [0..n -> Kin(st)] /\ f[0] = r /\ EntriesRead(r, t, es) = f[n]
        /\ \A i \in 1..n : f[i] = ParseEntry(f[i - 1], t, es[i])
    BY <1>3, <1>4 DEF EntriesRun
  <1>6. PICK z : z = AllOfThem(t, es, st.cfg.dev)
    OBVIOUS
  <1>7. DOMAIN z = 1..n /\ \A i \in 1..n : z[i] = Fields(t, es[i], st.cfg.dev) /\ es[i] \in Entry
    BY <1>4, <1>6 DEF AllOfThem
  <1>8. PICK y : y = [i \in 1..n |-> OneEntry(t, z[i])]
    OBVIOUS
  <1>9. ASSUME NEW i \in 1..n PROVE Turns(st, f[i - 1], f[i], y[i])
    <2>1. i - 1 \in 0..n
      OBVIOUS
    <2>2. f[i - 1] \in Kin(st)
      BY <1>5, <2>1
    <2>3. es[i] \in Entry
      BY <1>7
    <2>4. Turns(st, f[i - 1], ParseEntry(f[i - 1], t, es[i]),
                OneEntry(t, Fields(t, es[i], st.cfg.dev)))
      BY <1>1, <2>2, <2>3, Zenon
    <2>5. f[i] = ParseEntry(f[i - 1], t, es[i]) /\ y[i] = OneEntry(t, Fields(t, es[i], st.cfg.dev))
      BY <1>5, <1>7, <1>8
    <2> QED BY <2>4, <2>5
  <1>10. \A i \in 1..n : f[i - 1].out => f[i].out
    BY <1>9 DEF Turns
  <1>11. AddsInTurn(f, n, y)
    BY <1>9 DEF Turns, AddsInTurn
  <1>12. f[n] \in Kin(st) /\ (r.out => f[n].out)
    <2>1. f[n] \in Kin(st)
      BY <1>5
    <2>2. r.out => EntriesRead(r, t, es).out
      <3>1. f[n].out \/ \A i \in 0..n : ~f[i].out
        BY <1>10, <1>11, NeverOut
      <3>2. 0 \in 0..n
        OBVIOUS
      <3> QED BY <1>5, <3>1, <3>2
    <2> QED BY <1>5, <2>1, <2>2
  <1>13. ASSUME ~f[n].out PROVE Adds(r, f[n], OnTable(t, z))
    <2>1. f[0] \in Readings
      BY <1>5 DEF Kin
    <2>2. Adds(f[0], f[n], [u \in Tables |-> FlattenSeq(ToTable(y, n, u))])
      BY <1>10, <1>11, <1>13, <2>1, AddsTogether
    <2>3. z \in Seq(Entry)
      <3>1. \A i \in 0..n : ~f[i].out
        BY <1>10, <1>11, <1>13, NeverOut
      <3>2. ASSUME NEW i \in 1..n PROVE z[i] \in Entry
        <4>1. i \in 0..n
          OBVIOUS
        <4>2. y[i] \in Added
          BY <1>9, <3>1, <4>1 DEF Turns, Adds
        <4>3. y[i][t] = << z[i] >> /\ y[i][t] \in Seq(Entry)
          BY <1>8, <4>2 DEF OneEntry, Added
        <4> QED BY <4>3
      <3> QED BY <1>6, <1>7, <3>2 DEF AllOfThem
    <2>4. ASSUME NEW u \in Tables PROVE FlattenSeq(ToTable(y, n, u)) = OnTable(t, z)[u]
      <3>1. CASE u = t
        <4>1. ToTable(y, n, u) = [i \in 1..Len(z) |-> << z[i] >>]
          <5>1. Len(z) = n
            BY <1>7, <2>3
          <5>2. \A i \in 1..n : y[i][u] = << z[i] >>
            BY <1>8, <3>1 DEF OneEntry
          <5> QED BY <5>1, <5>2 DEF ToTable
        <4>2. FlattenSeq(ToTable(y, n, u)) = z
          BY <2>3, <4>1, FlattenSingles, Zenon
        <4> QED BY <3>1, <4>2 DEF OnTable
      <3>2. CASE u # t
        <4>1. ToTable(y, n, u) = [i \in 1..n |-> << >>]
          BY <1>8, <3>2 DEF OneEntry, ToTable
        <4>2. FlattenSeq(ToTable(y, n, u)) = << >>
          BY <4>1, FlattenEmpties, Zenon
        <4> QED BY <3>2, <4>2 DEF OnTable
      <3> QED BY <3>1, <3>2
    <2>5. [u \in Tables |-> FlattenSeq(ToTable(y, n, u))] = OnTable(t, z)
      BY <2>4 DEF OnTable
    <2> QED BY <1>5, <2>2, <2>5
  <1> QED BY <1>5, <1>6, <1>12, <1>13 DEF Turns

LEMMA TurnsTogether ==
  ASSUME NEW st \in Readings, NEW n \in Nat, NEW f \in [0..n -> Kin(st)], NEW y,
         \A i \in 1..n : Turns(st, f[i - 1], f[i], y[i])
  PROVE  Turns(st, f[0], f[n], [t \in Tables |-> FlattenSeq(ToTable(y, n, t))])
  <1>1. \A i \in 1..n : f[i - 1].out => f[i].out
    BY DEF Turns
  <1>2. AddsInTurn(f, n, y)
    BY DEF Turns, AddsInTurn
  <1>3. f[0] \in Kin(st) /\ f[n] \in Kin(st)
    OBVIOUS
  <1>4. f[0] \in Readings
    BY <1>3 DEF Kin
  <1>5. f[0].out => f[n].out
    <2>1. f[n].out \/ \A i \in 0..n : ~f[i].out
      BY <1>1, <1>2, NeverOut
    <2>2. 0 \in 0..n
      OBVIOUS
    <2> QED BY <2>1, <2>2
  <1>6. ASSUME ~f[n].out
        PROVE  Adds(f[0], f[n], [t \in Tables |-> FlattenSeq(ToTable(y, n, t))])
    BY <1>1, <1>2, <1>4, <1>6, AddsTogether
  <1> QED BY <1>3, <1>5, <1>6 DEF Turns

\* What one table, and a section of them, add.
TableAdds(table, dev) == [u \in Tables |-> OfTable(table, u, dev)]

LEMMA TableTurns ==
  ASSUME NEW st \in Readings, NEW r \in Kin(st), NEW table \in XmlTable
  PROVE  Turns(st, r, ParseTable(r, table), TableAdds(table, st.cfg.dev))
  <1>1. CASE table.t \notin Tables
    <2>1. ParseTable(r, table) = r
      BY <1>1, TableRead
    <2>2. TableAdds(table, st.cfg.dev) = NoEntries
      BY <1>1 DEF TableAdds, OfTable, NoEntries
    <2> QED BY <2>1, <2>2, NothingTurns
  <1>2. CASE table.t \in Tables
    <2>1. PICK t \in Tables, es \in Seq(Entry) : t = table.t /\ es = table.entries
      BY <1>2 DEF XmlTable
    <2>2. ParseTable(r, table) = EntriesRead(r, t, es)
      BY <2>1, TableRead
    <2>3. PICK dev : dev = st.cfg.dev
      OBVIOUS
    <2>4. Turns(st, r, EntriesRead(r, t, es), OnTable(t, AllOfThem(t, es, dev)))
      BY <2>3, EntriesTurn
    <2>5. ASSUME NEW u \in Tables
          PROVE  OnTable(t, AllOfThem(t, es, dev))[u] = OfTable(table, u, dev)
      <3>1. CASE u = t
        BY <2>1, <3>1 DEF OnTable, AllOfThem, OfTable
      <3>2. CASE u # t
        BY <2>1, <3>2 DEF OnTable, OfTable
      <3> QED BY <3>1, <3>2
    <2>6. OnTable(t, AllOfThem(t, es, dev)) = TableAdds(table, dev)
      BY <2>5 DEF OnTable, TableAdds
    <2> QED BY <2>2, <2>3, <2>4, <2>6
  <1> QED BY <1>1, <1>2

SectionAdds(section, dev) == [u \in Tables |-> OfSection(section, u, dev)]

LEMMA TablesTurn ==
  ASSUME NEW st \in Readings, NEW r \in Kin(st), NEW section \in XmlSection,
         section.kind = "static", section.tables \in Seq(XmlTable)
  PROVE  Turns(st, r, TablesRead(r, section.tables), SectionAdds(section, st.cfg.dev))
  <1>1. PICK dev : dev = st.cfg.dev
    OBVIOUS
  <1>2. PICK ts \in Seq(XmlTable) : ts = section.tables
    OBVIOUS
  <1>3. \A a \in Kin(st) : \A table \in XmlTable :
          Turns(st, a, ParseTable(a, table), TableAdds(table, dev))
    BY <1>1, TableTurns
  <1>4. \A a \in Kin(st) : \A table \in XmlTable : ParseTable(a, table) \in Kin(st)
    BY <1>3 DEF Turns
  <1>5. PICK f : TablesRun(f, Kin(st), r, ts)
    BY <1>4, ParseTables
  <1>6. PICK n \in Nat : n = Len(ts)
    OBVIOUS
  <1>7. /\ f \in [0..n -> Kin(st)] /\ f[0] = r /\ TablesRead(r, ts) = f[n]
        /\ \A i \in 1..n : f[i] = ParseTable(f[i - 1], ts[i])
    BY <1>5, <1>6 DEF TablesRun
  <1>8. \A i \in 1..n : ts[i] \in XmlTable
    BY <1>6
  <1>9. PICK y : y = [i \in 1..n |-> TableAdds(ts[i], dev)]
    OBVIOUS
  <1>10. ASSUME NEW i \in 1..n PROVE Turns(st, f[i - 1], f[i], y[i])
    <2>1. i - 1 \in 0..n
      OBVIOUS
    <2>2. f[i - 1] \in Kin(st)
      BY <1>7, <2>1
    <2>3. Turns(st, f[i - 1], ParseTable(f[i - 1], ts[i]), TableAdds(ts[i], dev))
      BY <1>3, <1>8, <2>2
    <2> QED BY <1>7, <1>9, <2>3
  <1>11. Turns(st, f[0], f[n], [t \in Tables |-> FlattenSeq(ToTable(y, n, t))])
    BY <1>7, <1>10, TurnsTogether
  <1>12. ASSUME NEW u \in Tables PROVE FlattenSeq(ToTable(y, n, u)) = OfSection(section, u, dev)
    <2>1. \A i \in 1..n : y[i][u] = OfTable(ts[i], u, dev)
      BY <1>9 DEF TableAdds
    <2>2. ToTable(y, n, u) = [i \in DOMAIN ts |-> OfTable(ts[i], u, dev)]
      BY <1>6, <2>1 DEF ToTable
    <2> QED BY <1>2, <2>2 DEF OfSection
  <1>13. [t \in Tables |-> FlattenSeq(ToTable(y, n, t))] = SectionAdds(section, dev)
    BY <1>12 DEF SectionAdds
  <1> QED BY <1>1, <1>2, <1>7, <1>11, <1>13

LEMMA SameTablesAdd ==
  ASSUME NEW r \in Readings, NEW b, ~r.out, b.cfg.tab = r.cfg.tab
  PROVE  Adds(r, b, NoEntries)
  <1>1. Adds(r, r, NoEntries)
    BY AddingNothing
  <1> QED BY <1>1 DEF Adds

\* What holds of the reading of a document between its sections.
Held(doc) ==
  {st \in Readings : /\ st.out => st.rc = "error"
                     /\ st.device_id_parsed => st.cfg.dev = DeviceId(doc)}

SectionMoves(doc, st, b, section) ==
  /\ b \in Held(doc)
  /\ st.out => b.out
  /\ st.device_id_parsed => b.device_id_parsed
  /\ section.kind = "device-id" => b.out \/ b.device_id_parsed
  /\ (section.kind = "static" => st.cfg.dev = DeviceId(doc)) =>
       b.out \/ Adds(st, b, SectionAdds(section, DeviceId(doc)))

LEMMA OtherSectionAdds ==
  ASSUME NEW section, NEW dev, section.kind # "static"
  PROVE  SectionAdds(section, dev) = NoEntries
  BY DEF SectionAdds, OfSection, NoEntries

LEMMA DocumentSectionMoves ==
  ASSUME NEW doc \in Documents, NEW st \in Held(doc), NEW k \in DOMAIN doc.sections
  PROVE  SectionMoves(doc, st, ParseSection(doc, st, doc.sections[k]), doc.sections[k])
  <1>1. PICK section : section = doc.sections[k]
    OBVIOUS
  <1>2. PICK b : b = ParseSection(doc, st, section)
    OBVIOUS
  <1>3. /\ st \in Readings /\ (st.out => st.rc = "error")
        /\ (st.device_id_parsed => st.cfg.dev = DeviceId(doc))
    BY DEF Held
  <1>4. b \in Readings
    BY <1>1, <1>2, <1>3, ParseSectionReads
  <1>5. CASE st.out
    <2>1. b = st
      BY <1>1, <1>2, <1>3, <1>5, SectionTurn
    <2> QED BY <1>1, <1>2, <1>5, <2>1 DEF SectionMoves
  <1>6. CASE ~st.out /\ section.kind = "static"
    <2>1. section \in XmlSection /\ section.tables \in Seq(XmlTable)
      BY <1>1, <1>6, SectionOfDocument
    <2>2. PICK r : r = TablesRead(st, section.tables)
      OBVIOUS
    <2>3. st \in Kin(st)
      BY <1>3, BaseIsKin
    <2>4. Turns(st, st, r, SectionAdds(section, st.cfg.dev))
      BY <1>3, <1>6, <2>1, <2>2, <2>3, TablesTurn
    <2>5. /\ r \in Readings /\ r.cfg.dev = st.cfg.dev
          /\ r.device_id_parsed = st.device_id_parsed /\ (r.out => r.rc = "error")
      BY <2>4 DEF Turns, Kin
    <2>6. b = Met(r, "static_config_parsed")
      BY <1>1, <1>2, <1>3, <1>6, <2>2, SectionTurn
    <2>7. b = IF r.out THEN r ELSE Reading(r.cfg, "ok", r.out, TRUE, r.device_id_parsed)
      BY <2>5, <2>6, MetReads
    <2>8. b.cfg = r.cfg /\ b.out = r.out /\ b.device_id_parsed = r.device_id_parsed
          /\ (b.out => b.rc = "error")
      BY <2>5, <2>7 DEF Reading
    <2>9. b \in Held(doc)
      BY <1>3, <1>4, <2>5, <2>8 DEF Held
    <2>10. b.out \/ Adds(st, b, SectionAdds(section, st.cfg.dev))
      BY <2>4, <2>8 DEF Turns, Adds
    <2> QED BY <1>1, <1>2, <1>6, <2>5, <2>8, <2>9, <2>10 DEF SectionMoves
  <1>7. CASE ~st.out /\ section.kind = "device-id"
    <2>1. k \in Kind(doc, "device-id")
      BY <1>1, <1>7 DEF Kind
    <2>2. DeviceId(doc) \in DeviceIds \cup {NoDevice}
      BY <2>1, DeviceIdOfDocument
    <2>3. st.cfg \in Config /\ Within(st.cfg)
      BY <1>3, ReadingOf
    <2>4. PICK c : c = WithDev(st.cfg, DeviceId(doc))
      OBVIOUS
    <2>5. c \in Config /\ Within(c) /\ c.dev = DeviceId(doc) /\ c.tab = st.cfg.tab
      BY <2>2, <2>3, <2>4, WithDevTyped
    <2>6. PICK r : r = WithCfg(st, c)
      OBVIOUS
    <2>7. /\ r \in Readings
          /\ r = Reading(c, st.rc, st.out, st.static_config_parsed, st.device_id_parsed)
      BY <1>3, <2>5, <2>6, WithCfgReads
    <2>8. b = Met(r, "device_id_parsed")
      BY <1>1, <1>2, <1>3, <1>7, <2>4, <2>6, SectionTurn
    <2>9. r.out = st.out /\ r.cfg = c
      BY <2>7 DEF Reading
    <2>10. b = Reading(r.cfg, "ok", r.out, r.static_config_parsed, TRUE)
      BY <1>7, <2>7, <2>8, <2>9, MetReads
    <2>11. b.cfg = c /\ b.out = FALSE /\ b.device_id_parsed = TRUE
      BY <1>3, <1>7, <2>9, <2>10, ReadingOf DEF Reading
    <2>12. b \in Held(doc)
      BY <1>4, <2>5, <2>11 DEF Held
    <2>13. Adds(st, b, SectionAdds(section, DeviceId(doc)))
      BY <1>3, <1>7, <2>5, <2>11, OtherSectionAdds, SameTablesAdd
    <2> QED BY <1>1, <1>2, <1>7, <2>11, <2>12, <2>13 DEF SectionMoves
  <1>8. CASE ~st.out /\ section.kind = "unknown"
    <2>1. b = WithRc(st, "error")
      BY <1>1, <1>2, <1>3, <1>8, SectionTurn
    <2>2. WithRc(st, "error")
            = Reading(st.cfg, "error", st.out, st.static_config_parsed, st.device_id_parsed)
      BY <1>3, WithRcReads
    <2>3. b.cfg = st.cfg /\ b.out = st.out /\ b.device_id_parsed = st.device_id_parsed
      BY <2>1, <2>2 DEF Reading
    <2>4. b \in Held(doc)
      BY <1>3, <1>4, <1>8, <2>3 DEF Held
    <2>5. Adds(st, b, SectionAdds(section, DeviceId(doc)))
      BY <1>3, <1>8, <2>3, OtherSectionAdds, SameTablesAdd
    <2> QED BY <1>1, <1>2, <1>8, <2>3, <2>4, <2>5 DEF SectionMoves
  <1>9. section.kind \in {"device-id", "static", "unknown"}
    BY <1>1, SectionOfDocument
  <1> QED BY <1>1, <1>2, <1>5, <1>6, <1>7, <1>8, <1>9

\* The reading of a document, section by section.
ReadInTurn(doc, f, n) ==
  \A i \in 1..n : SectionMoves(doc, f[i - 1], f[i], doc.sections[i])

LEMMA DeviceStaysKnown ==
  ASSUME NEW doc, NEW f, NEW n \in Nat, ReadInTurn(doc, f, n),
         NEW j \in 1..n, doc.sections[j].kind = "device-id"
  PROVE  \A i \in j..n : f[i].out \/ f[i].device_id_parsed
  <1> DEFINE T == {k \in Nat : j + k <= n => f[j + k].out \/ f[j + k].device_id_parsed}
  <1>1. 0 \in T
    <2>1. SectionMoves(doc, f[j - 1], f[j], doc.sections[j])
      BY DEF ReadInTurn
    <2>2. f[j].out \/ f[j].device_id_parsed
      BY <2>1 DEF SectionMoves
    <2>3. j + 0 = j
      OBVIOUS
    <2> QED BY <2>2, <2>3
  <1>2. ASSUME NEW k \in Nat, k \in T PROVE k + 1 \in T
    <2>0. k + 1 \in Nat
      OBVIOUS
    <2> SUFFICES ASSUME j + (k + 1) <= n
                 PROVE  f[j + (k + 1)].out \/ f[j + (k + 1)].device_id_parsed
      BY <2>0, Zenon
    <2>1. PICK i \in 1..n : i = j + (k + 1)
      OBVIOUS
    <2>2. i - 1 = j + k /\ j + k <= n
      BY <2>1
    <2>3. f[i - 1].out \/ f[i - 1].device_id_parsed
      BY <1>2, <2>2
    <2>4. SectionMoves(doc, f[i - 1], f[i], doc.sections[i])
      BY DEF ReadInTurn
    <2>5. f[i].out \/ f[i].device_id_parsed
      BY <2>3, <2>4 DEF SectionMoves
    <2> QED BY <2>1, <2>5
  <1> HIDE DEF T
  <1>3. \A k \in Nat : k \in T
    BY <1>1, <1>2, SetInduction
  <1>4. ASSUME NEW i \in j..n PROVE f[i].out \/ f[i].device_id_parsed
    <2>1. i - j \in Nat /\ j + (i - j) = i /\ i <= n
      OBVIOUS
    <2>2. i - j \in T
      BY <1>3, <2>1
    <2>3. j + (i - j) <= n
      BY <2>1
    <2>4. f[j + (i - j)].out \/ f[j + (i - j)].device_id_parsed
      BY <2>2, <2>3 DEF T
    <2> QED BY <2>1, <2>4
  <1> QED BY <1>4

LEMMA StartIsHeld == ASSUME NEW doc PROVE StartXml \in Held(doc)
  <1>1. StartXml.out = FALSE /\ StartXml.device_id_parsed = FALSE
    BY DEF StartXml
  <1> QED BY <1>1, StartReads DEF Held

LEMMA HeldRuns ==
  ASSUME NEW doc \in Documents
  PROVE  \E f : SectionsRun(f, Held(doc), doc, StartXml, doc.sections)
  <1> DEFINE B == {doc.sections[k] : k \in DOMAIN doc.sections}
  <1>1. doc.sections \in Seq(XmlSection)
    BY SectionOfDocument
  <1>2. doc.sections \in Seq(B)
    BY <1>1
  <1>3. ASSUME NEW a \in Held(doc), NEW b \in B PROVE ParseSection(doc, a, b) \in Held(doc)
    <2>1. PICK k \in DOMAIN doc.sections : b = doc.sections[k]
      OBVIOUS
    <2>2. SectionMoves(doc, a, ParseSection(doc, a, doc.sections[k]), doc.sections[k])
      BY DocumentSectionMoves
    <2> QED BY <2>1, <2>2 DEF SectionMoves
  <1> HIDE DEF B
  <1>4. \A a \in Held(doc) : \A b \in B : ParseSection(doc, a, b) \in Held(doc)
    BY <1>3
  <1> QED BY <1>2, <1>4, StartIsHeld, ParseSections

\* A reading that has not gone out at the end has taken everything.
LEMMA SectionsTaken ==
  ASSUME NEW doc \in Documents, DeviceFirst(doc), NEW f, NEW n \in Nat,
         n = Len(doc.sections), f \in [0..n -> Held(doc)], ReadInTurn(doc, f, n), ~f[n].out
  PROVE  Adds(f[0], f[n], [t \in Tables |-> OfDocument(doc, t)])
  <1>1. PICK dev : dev = DeviceId(doc)
    OBVIOUS
  <1>2. PICK y : y = [i \in 1..n |-> SectionAdds(doc.sections[i], dev)]
    OBVIOUS
  <1>3. DOMAIN doc.sections = 1..n
    <2>1. doc.sections \in Seq(XmlSection)
      BY SectionOfDocument
    <2> QED BY <2>1
  <1>4. ASSUME NEW i \in 1..n
        PROVE  (f[i - 1].out => f[i].out) /\ (f[i].out \/ Adds(f[i - 1], f[i], y[i]))
    <2>1. SectionMoves(doc, f[i - 1], f[i], doc.sections[i])
      BY DEF ReadInTurn
    <2>2. f[i - 1].out => f[i].out
      BY <2>1 DEF SectionMoves
    <2>3. CASE f[i - 1].out
      BY <2>2, <2>3
    <2>4. CASE ~f[i - 1].out
      <3>1. doc.sections[i].kind = "static" => f[i - 1].cfg.dev = dev
        <4> SUFFICES ASSUME doc.sections[i].kind = "static" PROVE f[i - 1].cfg.dev = dev
          OBVIOUS
        <4>1. i \in Kind(doc, "static")
          BY <1>3 DEF Kind
        <4>2. PICK j \in Kind(doc, "device-id") : j < i
          BY <4>1 DEF DeviceFirst
        <4>3. j \in 1..n /\ doc.sections[j].kind = "device-id" /\ i - 1 \in j..n /\ i - 1 \in 0..n
          BY <1>3, <4>2 DEF Kind
        <4>4. f[i - 1].device_id_parsed
          BY <2>4, <4>3, DeviceStaysKnown
        <4>5. f[i - 1] \in Held(doc)
          BY <4>3
        <4> QED BY <1>1, <4>4, <4>5 DEF Held
      <3>2. f[i].out \/ Adds(f[i - 1], f[i], SectionAdds(doc.sections[i], dev))
        BY <1>1, <2>1, <3>1 DEF SectionMoves
      <3> QED BY <1>2, <2>2, <3>2
    <2> QED BY <2>3, <2>4
  <1>5. AddsInTurn(f, n, y) /\ \A i \in 1..n : f[i - 1].out => f[i].out
    BY <1>4 DEF AddsInTurn
  <1>6. f[0] \in Readings
    <2>1. f[0] \in Held(doc)
      OBVIOUS
    <2> QED BY <2>1 DEF Held
  <1>7. Adds(f[0], f[n], [t \in Tables |-> FlattenSeq(ToTable(y, n, t))])
    BY <1>5, <1>6, AddsTogether
  <1>8. ASSUME NEW t \in Tables PROVE FlattenSeq(ToTable(y, n, t)) = OfDocument(doc, t)
    <2>1. \A i \in 1..n : y[i][t] = OfSection(doc.sections[i], t, dev)
      BY <1>2 DEF SectionAdds
    <2>2. ToTable(y, n, t) = [i \in DOMAIN doc.sections |-> OfSection(doc.sections[i], t, DeviceId(doc))]
      BY <1>1, <1>3, <2>1 DEF ToTable
    <2> QED BY <2>2 DEF OfDocument
  <1>9. [t \in Tables |-> FlattenSeq(ToTable(y, n, t))] = [t \in Tables |-> OfDocument(doc, t)]
    BY <1>8
  <1> QED BY <1>7, <1>9

(***************************************************************************)
(* A reading that ends well has taken the whole document, provided that it *)
(* names its device before the tables: the device id and, in their order,  *)
(* the entries of every section with the fields their chip has.            *)
(***************************************************************************)
THEOREM DocumentTaken ==
  ASSUME NEW doc \in Documents, DeviceFirst(doc), ParseRoot(doc).rc = "ok"
  PROVE  ParseRoot(doc).cfg = Described(doc)
  <1>1. PICK end : end = SectionsRead(doc, StartXml, doc.sections)
    OBVIOUS
  <1>2. PICK n \in Nat : n = Len(doc.sections)
    BY SectionOfDocument
  <1>3. PICK f : SectionsRun(f, Held(doc), doc, StartXml, doc.sections)
    BY HeldRuns
  <1>4. /\ f \in [0..n -> Held(doc)] /\ f[0] = StartXml /\ end = f[n]
        /\ \A i \in 1..n : f[i] = ParseSection(doc, f[i - 1], doc.sections[i])
    BY <1>1, <1>2, <1>3 DEF SectionsRun
  <1>5. end \in Held(doc)
    BY <1>4
  <1>6. end \in Readings /\ (end.out => end.rc = "error")
        /\ (end.device_id_parsed => end.cfg.dev = DeviceId(doc))
    BY <1>5 DEF Held
  <1>7. \A r \in Readings : GoOut(r).rc = "error"
    BY GoOutFields DEF Reading
  <1>8. doc.root
    BY <1>7, RootRead, StartReads
  <1>9. ParseRoot(doc) = end /\ end.device_id_parsed
    <2>1. ParseRoot(doc) = IF end.static_config_parsed /\ end.device_id_parsed THEN end
                           ELSE GoOut(end)
      BY <1>1, <1>8, RootRead
    <2> QED BY <1>6, <1>7, <2>1
  <1>10. ~end.out
    BY <1>6, <1>9
  <1>11. ReadInTurn(doc, f, n)
    <2>1. ASSUME NEW i \in 1..n PROVE SectionMoves(doc, f[i - 1], f[i], doc.sections[i])
      <3>1. doc.sections \in Seq(XmlSection)
        BY SectionOfDocument
      <3>2. i \in DOMAIN doc.sections /\ i - 1 \in 0..n
        BY <1>2, <3>1
      <3>3. f[i - 1] \in Held(doc)
        BY <1>4, <3>2
      <3>4. SectionMoves(doc, f[i - 1], ParseSection(doc, f[i - 1], doc.sections[i]),
                         doc.sections[i])
        BY <3>2, <3>3, DocumentSectionMoves
      <3> QED BY <1>4, <3>4
    <2> QED BY <2>1 DEF ReadInTurn
  <1>12. Adds(f[0], f[n], [t \in Tables |-> OfDocument(doc, t)])
    BY <1>2, <1>4, <1>10, <1>11, SectionsTaken
  <1>13. ASSUME NEW t \in Tables PROVE end.cfg.tab[t] = OfDocument(doc, t)
    <2>1. f[0].cfg.tab[t] = << >>
      BY <1>4 DEF StartXml, EmptyConfig
    <2>2. end.cfg.tab[t] = f[0].cfg.tab[t] \o OfDocument(doc, t) /\ OfDocument(doc, t) \in Seq(Entry)
      BY <1>4, <1>12 DEF Adds, Added
    <2>3. \A s \in Seq(Entry) : << >> \o s = s
      OBVIOUS
    <2> QED BY <2>1, <2>2, <2>3
  <1>14. end.cfg \in Config /\ end.cfg.dev = DeviceId(doc)
    BY <1>6, <1>9, ReadingOf
  <1>15. end.cfg = [dev |-> end.cfg.dev, tab |-> [t \in Tables |-> end.cfg.tab[t]]]
    BY <1>14 DEF Config
  <1> QED BY <1>9, <1>13, <1>14, <1>15 DEF Described

-----------------------------------------------------------------------------
(***************************************************************************)
(* What the reader of the configuration file has filled in after n lines   *)
(* is what these lines say.                                                *)
(***************************************************************************)
Word == STRING \cup {"none", "dry_run", "auto_flush"}
Filled == UNION {[keys -> Word] : keys \in SUBSET Word}
ReaderState == [state : {"reading", "stopped", "crashed"}, section : Word, fields : Filled]

Reader(st, sec, f) == [state |-> st, section |-> sec, fields |-> f]

LEMMA ReaderOf ==
  ASSUME NEW r \in ReaderState
  PROVE  /\ r = Reader(r.state, r.section, r.fields)
         /\ r.state \in {"reading", "stopped", "crashed"} /\ r.section \in Word
         /\ r.fields \in Filled
  BY DEF ReaderState, Reader

LEMMA ReaderReplaced ==
  ASSUME NEW r \in ReaderState, NEW x
  PROVE  /\ [r EXCEPT !.state = x] = Reader(x, r.section, r.fields)
         /\ [r EXCEPT !.section = x] = Reader(r.state, x, r.fields)
         /\ [r EXCEPT !.fields = x] = Reader(r.state, r.section, x)
  BY DEF ReaderState, Reader

LEMMA ReaderIs ==
  ASSUME NEW st, NEW sec, NEW f
  PROVE  /\ Reader(st, sec, f).state = st /\ Reader(st, sec, f).section = sec
         /\ Reader(st, sec, f).fields = f
         /\ st \in {"reading", "stopped", "crashed"} /\ sec \in Word /\ f \in Filled
              => Reader(st, sec, f) \in ReaderState
  BY DEF ReaderState, Reader

FilledIn(g, f, key, value) ==
  /\ g \in Filled
  /\ DOMAIN g = DOMAIN f \cup {key}
  /\ g[key] = value
  /\ \A k \in DOMAIN f \ {key} : g[k] = f[k]

LEMMA FieldFilled ==
  ASSUME NEW f \in Filled, NEW key \in Word, NEW value \in Word
  PROVE  FilledIn(WithField(f, key, value), f, key, value)
  <1>1. PICK keys \in SUBSET Word : f \in [keys -> Word]
    BY DEF Filled
  <1>2. WithField(f, key, value) \in [keys \cup {key} -> Word]
    BY <1>1 DEF WithField
  <1>3. keys \cup {key} \in SUBSET Word
    BY <1>1
  <1> QED BY <1>1, <1>2, <1>3 DEF Filled, WithField, FilledIn

LEMMA LineIs ==
  ASSUME NEW line \in Line
  PROVE  /\ line.kind \in {"section", "pair", "other"}
         /\ line.kind = "section" => line.name \in Word
         /\ line.kind = "pair" => line = Pair(line.key, line.value)
                                  /\ line.key \in Word /\ line.value \in Word
  BY DEF Line, Pair, Word

\* One line, the file read to its end or not.
LineRead(r, line) ==
  /\ ReadLine(r, line) \in ReaderState
  /\ r.state # "reading" => ReadLine(r, line) = r
  /\ r.state = "reading" /\ line.kind # "section" /\ ~(line.kind = "pair" /\ Known(r.section)) =>
       ReadLine(r, line).state # "reading" /\ ReadLine(r, line).fields = r.fields
  /\ r.state = "reading" /\ line.kind = "section" =>
       ReadLine(r, line) = Reader("reading", line.name, r.fields)
  /\ r.state = "reading" /\ line.kind = "pair" /\ Known(r.section) =>
       ReadLine(r, line) =
         IF Takes(r.section, line.key, line.value)
         THEN Reader("reading", r.section, WithField(r.fields, line.key, line.value))
         ELSE r

LEMMA ReadLineTurn == ASSUME NEW r \in ReaderState, NEW line \in Line PROVE LineRead(r, line)
  <1>1. CASE r.state # "reading"
    BY <1>1 DEF ReadLine, LineRead
  <1>2. CASE r.state = "reading" /\ line.kind = "section"
    <2>1. ReadLine(r, line) = Reader("reading", line.name, r.fields)
      BY <1>2, ReaderReplaced DEF ReadLine
    <2>2. ReadLine(r, line) \in ReaderState
      BY <1>2, <2>1, LineIs, ReaderOf, ReaderIs
    <2> QED BY <1>2, <2>1, <2>2 DEF LineRead
  <1>3. CASE r.state = "reading" /\ line.kind = "pair" /\ Known(r.section)
    <2>0. r.section # "none"
      BY <1>3 DEF Known
    <2>1. CASE Takes(r.section, line.key, line.value)
      <3>1. ReadLine(r, line)
              = Reader("reading", r.section, WithField(r.fields, line.key, line.value))
        BY <1>3, <2>0, <2>1, ReaderReplaced DEF ReadLine
      <3>2. WithField(r.fields, line.key, line.value) \in Filled
        BY <1>3, LineIs, ReaderOf, FieldFilled DEF FilledIn
      <3> QED BY <1>3, <2>1, <3>1, <3>2, ReaderOf, ReaderIs DEF LineRead
    <2>2. CASE ~Takes(r.section, line.key, line.value)
      BY <1>3, <2>0, <2>2 DEF ReadLine, LineRead
    <2> QED BY <2>1, <2>2
  <1>4. CASE r.state = "reading" /\ line.kind # "section" /\ ~(line.kind = "pair" /\ Known(r.section))
    <2>1. \/ ReadLine(r, line) = [r EXCEPT !.state = "crashed"]
          \/ ReadLine(r, line) = [r EXCEPT !.state = "stopped"]
      BY <1>4, LineIs DEF ReadLine
    <2>2. \/ ReadLine(r, line) = Reader("crashed", r.section, r.fields)
          \/ ReadLine(r, line) = Reader("stopped", r.section, r.fields)
      BY <2>1, ReaderReplaced, Zenon
    <2>3. /\ ReadLine(r, line) \in ReaderState
          /\ ReadLine(r, line).state # "reading" /\ ReadLine(r, line).fields = r.fields
      BY <2>2, ReaderOf, ReaderIs
    <2> QED BY <1>4, <2>3 DEF LineRead
  <1> QED BY <1>1, <1>2, <1>3, <1>4

\* Says of the first n lines.
SaysBy(lines, n, key, value) ==
    \E m \in 1..n :
      /\ lines[m] = Pair(key, value)
      /\ Takes(SectionAt(lines, m), key, value)
      /\ \A k \in m + 1..n :
           lines[k].kind = "pair" /\ Takes(SectionAt(lines, k), key, lines[k].value) =>
             lines[k].key # key \/ lines[k].value = value

\* Line k fills the key in.
Fills(lines, k, key) ==
    /\ lines[k].kind = "pair" /\ lines[k].key = key
    /\ Takes(SectionAt(lines, k), key, lines[k].value)

LEMMA SaysOfPair ==
  ASSUME NEW lines \in Seq(Line), NEW m \in 1..Len(lines), NEW key, NEW value
  PROVE  lines[m] = Pair(key, value)
           <=> lines[m].kind = "pair" /\ lines[m].key = key /\ lines[m].value = value
  <1>1. lines[m] \in Line
    OBVIOUS
  <1> QED BY <1>1 DEF Line, Pair

LEMMA SaysNext ==
  ASSUME NEW lines \in Seq(Line), NEW n \in 0..Len(lines) - 1, NEW key, NEW value
  PROVE  SaysBy(lines, n + 1, key, value) <=>
           IF Fills(lines, n + 1, key) THEN lines[n + 1].value = value
           ELSE SaysBy(lines, n, key, value)
  <1>1. n \in Nat /\ n + 1 \in 1..Len(lines) /\ Len(lines) \in Nat
    OBVIOUS
  <1>2. \A m \in 1..n + 1 : lines[m] = Pair(key, value)
          <=> lines[m].kind = "pair" /\ lines[m].key = key /\ lines[m].value = value
    BY <1>1, SaysOfPair
  <1>3. CASE Fills(lines, n + 1, key) /\ lines[n + 1].value = value
    <2>1. /\ n + 1 \in 1..n + 1 /\ lines[n + 1] = Pair(key, value)
          /\ Takes(SectionAt(lines, n + 1), key, value)
      BY <1>1, <1>2, <1>3 DEF Fills
    <2>2. (n + 1) + 1..n + 1 = {}
      BY <1>1
    <2> QED BY <1>3, <2>1, <2>2 DEF SaysBy
  <1>4. CASE Fills(lines, n + 1, key) /\ lines[n + 1].value # value
    <2>1. ASSUME NEW m \in 1..n + 1, lines[m] = Pair(key, value),
                 \A k \in m + 1..n + 1 :
                   lines[k].kind = "pair" /\ Takes(SectionAt(lines, k), key, lines[k].value) =>
                     lines[k].key # key \/ lines[k].value = value
          PROVE  FALSE
      <3>1. CASE m = n + 1
        BY <1>2, <1>4, <2>1, <3>1
      <3>2. CASE m # n + 1
        <4>1. n + 1 \in m + 1..n + 1
          BY <1>1, <3>2
        <4> QED BY <1>4, <2>1, <4>1 DEF Fills
      <3> QED BY <3>1, <3>2
    <2> QED BY <1>4, <2>1 DEF SaysBy
  <1>5. CASE ~Fills(lines, n + 1, key)
    <2>1. ASSUME NEW m \in 1..n,
                 \A k \in m + 1..n :
                   lines[k].kind = "pair" /\ Takes(SectionAt(lines, k), key, lines[k].value) =>
                     lines[k].key # key \/ lines[k].value = value
          PROVE  \A k \in m + 1..n + 1 :
                   lines[k].kind = "pair" /\ Takes(SectionAt(lines, k), key, lines[k].value) =>
                     lines[k].key # key \/ lines[k].value = value
      <3>1. \A k \in m + 1..n + 1 : k \in m + 1..n \/ k = n + 1
        BY <1>1
      <3> QED BY <1>5, <2>1, <3>1 DEF Fills
    <2>2. 1..n \subseteq 1..n + 1 /\ \A m \in 1..n : m + 1..n \subseteq m + 1..n + 1
      BY <1>1
    <2>3. SaysBy(lines, n, key, value) => SaysBy(lines, n + 1, key, value)
      BY <2>1, <2>2 DEF SaysBy
    <2>4. ASSUME NEW m \in 1..n + 1, lines[m] = Pair(key, value),
                 Takes(SectionAt(lines, m), key, value)
          PROVE  m \in 1..n
      <3>1. m # n + 1
        BY <1>2, <1>5, <2>4 DEF Fills
      <3> QED BY <1>1, <3>1
    <2>5. SaysBy(lines, n + 1, key, value) => SaysBy(lines, n, key, value)
      BY <2>2, <2>4 DEF SaysBy
    <2> QED BY <1>5, <2>3, <2>5
  <1> QED BY <1>3, <1>4, <1>5

\* The section of a line is the one of the line before it, or its own name.
LEMMA SectionNext ==
  ASSUME NEW lines \in Seq(Line), NEW n \in 0..Len(lines) - 1
  PROVE  SectionAt(lines, n + 1) =
           IF lines[n + 1].kind = "section" THEN lines[n + 1].name ELSE SectionAt(lines, n)
  <1>1. n \in Nat /\ n + 1 \in Nat
    OBVIOUS
  <1>2. PICK old, new : /\ old = {i \in 1..n : lines[i].kind = "section"}
                        /\ new = {i \in 1..n + 1 : lines[i].kind = "section"}
    OBVIOUS
  <1>3. /\ SectionAt(lines, n) = IF old = {} THEN "none"
             ELSE lines[CHOOSE i \in old : \A j \in old : j <= i].name
        /\ SectionAt(lines, n + 1) = IF new = {} THEN "none"
             ELSE lines[CHOOSE i \in new : \A j \in new : j <= i].name
    BY <1>2 DEF SectionAt
  <1>4. CASE lines[n + 1].kind = "section"
    <2>1. n + 1 \in new /\ \A j \in new : j <= n + 1
      BY <1>1, <1>2, <1>4
    <2>2. \A i \in new : (\A j \in new : j <= i) => i = n + 1
      BY <1>1, <1>2, <2>1
    <2>3. (CHOOSE i \in new : \A j \in new : j <= i) = n + 1
      BY <2>1, <2>2
    <2> QED BY <1>3, <1>4, <2>1, <2>3
  <1>5. CASE lines[n + 1].kind # "section"
    <2>1. new = old
      BY <1>1, <1>2, <1>5
    <2> QED BY <1>3, <1>5, <2>1
  <1> QED BY <1>4, <1>5

IsSet(fields, key) == key \in DOMAIN fields /\ fields[key] = "true"

ReadUpto(r, lines, n, key) ==
  /\ r.state = "reading" /\ r.section = SectionAt(lines, n)
  /\ IsSet(r.fields, key) <=> SaysBy(lines, n, key, "true")

LEMMA ReadUptoNext ==
  ASSUME NEW lines \in Seq(Line), NEW n \in 0..Len(lines) - 1, Sound(lines, n + 1),
         NEW key \in Word, NEW r \in ReaderState, ReadUpto(r, lines, n, key)
  PROVE  ReadUpto(ReadLine(r, lines[n + 1]), lines, n + 1, key)
  <1>1. PICK line \in Line : line = lines[n + 1]
    OBVIOUS
  <1>2. PICK next : next = ReadLine(r, line)
    OBVIOUS
  <1>3. /\ line.kind \in {"section", "pair"}
        /\ line.kind = "pair" => Known(SectionAt(lines, n + 1))
    BY <1>1, LineIs DEF Sound
  <1>4. SectionAt(lines, n + 1) = IF line.kind = "section" THEN line.name ELSE SectionAt(lines, n)
    BY <1>1, SectionNext
  <1>5. SaysBy(lines, n + 1, key, "true") <=>
          IF Fills(lines, n + 1, key) THEN line.value = "true" ELSE SaysBy(lines, n, key, "true")
    BY <1>1, SaysNext
  <1>6. LineRead(r, line) /\ r.state = "reading" /\ r.section = SectionAt(lines, n)
    BY ReadLineTurn DEF ReadUpto
  <1>7. CASE line.kind = "section"
    <2>1. next = Reader("reading", line.name, r.fields)
      BY <1>2, <1>6, <1>7 DEF LineRead
    <2>2. ~Fills(lines, n + 1, key)
      BY <1>1, <1>7 DEF Fills
    <2> QED BY <1>1, <1>2, <1>4, <1>5, <1>7, <2>1, <2>2, ReaderIs DEF ReadUpto
  <1>8. CASE line.kind = "pair"
    <2>0. r.section = SectionAt(lines, n + 1) /\ Known(r.section)
      BY <1>3, <1>4, <1>6, <1>8
    <2>1. CASE Takes(r.section, line.key, line.value)
      <3>1. next = Reader("reading", r.section, WithField(r.fields, line.key, line.value))
        BY <1>2, <1>6, <1>8, <2>0, <2>1 DEF LineRead
      <3>2. next.state = "reading" /\ next.section = r.section
            /\ next.fields = WithField(r.fields, line.key, line.value)
        BY <3>1, ReaderIs
      <3>3. r.fields \in Filled /\ line.key \in Word /\ line.value \in Word
        BY <1>8, ReaderOf, LineIs
      <3>4. Fills(lines, n + 1, key) <=> line.key = key
        BY <1>1, <1>8, <2>0, <2>1 DEF Fills
      <3>5. IsSet(next.fields, key) <=>
              IF line.key = key THEN line.value = "true" ELSE IsSet(r.fields, key)
        <4>1. PICK g : g = WithField(r.fields, line.key, line.value)
          OBVIOUS
        <4>2. FilledIn(g, r.fields, line.key, line.value)
          BY <3>3, <4>1, FieldFilled, Zenon
        <4> QED BY <3>2, <4>1, <4>2 DEF IsSet, FilledIn
      <3>6. next.section = SectionAt(lines, n + 1)
        BY <2>0, <3>2
      <3>7. IsSet(next.fields, key) <=> SaysBy(lines, n + 1, key, "true")
        BY <1>5, <3>4, <3>5 DEF ReadUpto
      <3> QED BY <1>1, <1>2, <3>2, <3>6, <3>7 DEF ReadUpto
    <2>2. CASE ~Takes(r.section, line.key, line.value)
      <3>1. next = r
        BY <1>2, <1>6, <1>8, <2>0, <2>2 DEF LineRead
      <3>2. ~Fills(lines, n + 1, key)
        BY <1>1, <2>0, <2>2 DEF Fills
      <3> QED BY <1>1, <1>2, <1>5, <1>6, <2>0, <3>1, <3>2 DEF ReadUpto
    <2> QED BY <2>1, <2>2
  <1> QED BY <1>3, <1>7, <1>8

LEMMA StartState == Start \in ReaderState /\ \A key : ~IsSet(Start.fields, key)
  <1>1. << >> \in [{} -> Word] /\ DOMAIN << >> = {}
    OBVIOUS
  <1>2. << >> \in Filled
    BY <1>1 DEF Filled
  <1>4. Start \in ReaderState /\ Start.fields = << >>
    <2>1. "none" \in Word
      BY DEF Word
    <2> QED BY <1>2, <2>1 DEF Start, ReaderState
  <1>5. \A key : key \notin DOMAIN Start.fields
    BY <1>1, <1>4
  <1> QED BY <1>4, <1>5 DEF IsSet

\* The reader has given up at line m + 1, with what the lines before it say.
ReadPart(r, lines, m, key) ==
  /\ r.state # "reading" /\ ~Sound(lines, m + 1)
  /\ \A i \in 1..m : Sound(lines, i)
  /\ IsSet(r.fields, key) <=> SaysBy(lines, m, key, "true")

LinesUpto(r, lines, n, key) ==
  \/ ReadUpto(r, lines, n, key) /\ \A i \in 1..n : Sound(lines, i)
  \/ \E m \in 0..n - 1 : ReadPart(r, lines, m, key)

LEMMA LinesUptoNext ==
  ASSUME NEW lines \in Seq(Line), NEW n \in 0..Len(lines) - 1, NEW key \in Word,
         NEW r \in ReaderState, LinesUpto(r, lines, n, key)
  PROVE  LinesUpto(ReadLine(r, lines[n + 1]), lines, n + 1, key)
  <1>1. PICK line \in Line : line = lines[n + 1]
    OBVIOUS
  <1>2. PICK next : next = ReadLine(r, line)
    OBVIOUS
  <1>3. LineRead(r, line)
    BY ReadLineTurn
  <1>4. CASE ReadUpto(r, lines, n, key) /\ \A i \in 1..n : Sound(lines, i)
    <2>1. CASE Sound(lines, n + 1)
      <3>1. ReadUpto(next, lines, n + 1, key)
        BY <1>1, <1>2, <1>4, <2>1, ReadUptoNext
      <3>2. \A i \in 1..n + 1 : Sound(lines, i)
        <4>1. \A i \in 1..n + 1 : i \in 1..n \/ i = n + 1
          OBVIOUS
        <4> QED BY <1>4, <2>1, <4>1
      <3> QED BY <1>1, <1>2, <3>1, <3>2 DEF LinesUpto
    <2>2. CASE ~Sound(lines, n + 1)
      <3>1. line.kind # "section" /\ ~(line.kind = "pair" /\ Known(r.section))
        <4>1. line.kind # "section" => SectionAt(lines, n + 1) = SectionAt(lines, n)
          BY <1>1, SectionNext
        <4> QED BY <1>1, <1>4, <2>2, <4>1 DEF Sound, ReadUpto
      <3>2. next.state # "reading" /\ next.fields = r.fields
        BY <1>2, <1>3, <1>4, <3>1 DEF LineRead, ReadUpto
      <3>3. ReadPart(next, lines, n, key)
        BY <1>4, <2>2, <3>2 DEF ReadPart, ReadUpto
      <3>4. n \in 0..(n + 1) - 1
        OBVIOUS
      <3> QED BY <1>1, <1>2, <3>3, <3>4 DEF LinesUpto
    <2> QED BY <2>1, <2>2
  <1>5. ASSUME NEW m \in 0..n - 1, ReadPart(r, lines, m, key)
        PROVE  LinesUpto(next, lines, n + 1, key)
    <2>1. next = r
      BY <1>2, <1>3, <1>5 DEF LineRead, ReadPart
    <2>2. m \in 0..(n + 1) - 1
      OBVIOUS
    <2> QED BY <1>5, <2>1, <2>2 DEF LinesUpto
  <1> QED BY <1>1, <1>2, <1>4, <1>5 DEF LinesUpto

LEMMA ReadLinesUpto ==
  ASSUME NEW lines \in Seq(Line), NEW key \in Word,
         NEW f, LinesRun(f, ReaderState, Start, lines)
  PROVE  LinesUpto(f[Len(lines)], lines, Len(lines), key)
  <1> DEFINE T == {n \in Nat : n <= Len(lines) => LinesUpto(f[n], lines, n, key)}
  <1>1. /\ f \in [0..Len(lines) -> ReaderState] /\ f[0] = Start
        /\ \A i \in 1..Len(lines) : f[i] = ReadLine(f[i - 1], lines[i])
    BY DEF LinesRun
  <1>2. 0 \in T
    <2>1. SectionAt(lines, 0) = "none"
      BY DEF SectionAt
    <2>2. ~SaysBy(lines, 0, key, "true")
      BY DEF SaysBy
    <2>3. Start.state = "reading" /\ Start.section = "none"
      BY DEF Start
    <2>4. ReadUpto(f[0], lines, 0, key)
      BY <1>1, <2>1, <2>2, <2>3, StartState DEF ReadUpto
    <2>5. 1..0 = {}
      OBVIOUS
    <2>6. LinesUpto(f[0], lines, 0, key)
      BY <2>4, <2>5 DEF LinesUpto
    <2> QED BY <2>6
  <1>3. ASSUME NEW n \in Nat, n \in T PROVE n + 1 \in T
    <2>0. n + 1 \in Nat
      OBVIOUS
    <2> SUFFICES ASSUME n + 1 <= Len(lines) PROVE LinesUpto(f[n + 1], lines, n + 1, key)
      BY <2>0, Zenon
    <2>1. n \in 0..Len(lines) - 1 /\ n + 1 \in 1..Len(lines) /\ (n + 1) - 1 = n
      OBVIOUS
    <2>2. f[n] \in ReaderState /\ LinesUpto(f[n], lines, n, key)
      <3>1. n <= Len(lines) /\ n \in 0..Len(lines)
        BY <2>1
      <3>2. LinesUpto(f[n], lines, n, key)
        BY <1>3, <3>1, Zenon
      <3> QED BY <1>1, <3>1, <3>2
    <2>3. f[n + 1] = ReadLine(f[n], lines[n + 1])
      BY <1>1, <2>1
    <2> QED BY <2>1, <2>2, <2>3, LinesUptoNext
  <1> HIDE DEF T
  <1>4. Nat \subseteq T
    BY <1>2, <1>3, SetInduction
  <1>5. Len(lines) \in Nat
    OBVIOUS
  <1>6. Len(lines) \in T /\ Len(lines) <= Len(lines)
    BY <1>4, <1>5
  <1> QED BY <1>6, Zenon DEF T

\* The lines before the first that is not understood, when there is none, or
\* when it is line m + 1.
LEMMA UnderstoodUpto ==
  ASSUME NEW lines \in Seq(Line), NEW m \in 0..Len(lines),
         \A i \in 1..m : Sound(lines, i), m < Len(lines) => ~Sound(lines, m + 1)
  PROVE  Understood(lines) = 1..m
  <1>1. DOMAIN lines = 1..Len(lines) /\ Len(lines) \in Nat
    OBVIOUS
  <1>2. ASSUME NEW n \in 1..m PROVE n \in Understood(lines)
    <2>1. n \in 1..Len(lines) /\ 1..n \subseteq 1..m
      BY <1>1
    <2> QED BY <1>1, <2>1 DEF Understood
  <1>3. ASSUME NEW n \in Understood(lines) PROVE n \in 1..m
    <2>1. n \in 1..Len(lines) /\ \A i \in 1..n : Sound(lines, i)
      BY <1>1, <1>3 DEF Understood
    <2>2. n > m => m + 1 \in 1..n /\ m < Len(lines)
      BY <1>1, <2>1
    <2> QED BY <2>1, <2>2
  <1> QED BY <1>2, <1>3

LEMMA SaysOfUnderstood ==
  ASSUME NEW lines \in Seq(Line), NEW m \in 0..Len(lines), Understood(lines) = 1..m,
         NEW key, NEW value
  PROVE  SaysBy(lines, m, key, value) <=> Says(lines, key, value)
  <1>1. \A n \in 1..m : \A k : k \in n + 1..m <=> k \in 1..m /\ k > n
    OBVIOUS
  <1> QED BY <1>1 DEF SaysBy, Says

\* What the reader ends with.
LEMMA FieldsSaid ==
  ASSUME NEW lines \in Seq(Line), NEW key \in Word, NEW end,
         LinesUpto(end, lines, Len(lines), key)
  PROVE  IsSet(end.fields, key) <=> Says(lines, key, "true")
  <1>0. Len(lines) \in Nat
    OBVIOUS
  <1>1. PICK m \in 0..Len(lines) :
          /\ \A i \in 1..m : Sound(lines, i)
          /\ m < Len(lines) => ~Sound(lines, m + 1)
          /\ IsSet(end.fields, key) <=> SaysBy(lines, m, key, "true")
    <2>1. CASE ReadUpto(end, lines, Len(lines), key) /\ \A i \in 1..Len(lines) : Sound(lines, i)
      BY <1>0, <2>1 DEF ReadUpto
    <2>2. CASE \E m \in 0..Len(lines) - 1 : ReadPart(end, lines, m, key)
      BY <1>0, <2>2 DEF ReadPart
    <2> QED BY <2>1, <2>2 DEF LinesUpto
  <1>2. Understood(lines) = 1..m
    BY <1>1, UnderstoodUpto
  <1> QED BY <1>1, <1>2, SaysOfUnderstood

(***************************************************************************)
(* The settings of a configuration file are those it names in its last     *)
(* word on them before the first line that is not understood: a key is     *)
(* true exactly when Says finds it so.  Of every file that can be opened.  *)
(***************************************************************************)
THEOREM SettingsAreSaid ==
  ASSUME NEW name \in DOMAIN ConfFiles, NEW s \in Settings(name)
  PROVE  /\ s.dry_run = "true" <=> Says(ConfFiles[name], "dry_run", "true")
         /\ s.auto_flush = "true" <=> Says(ConfFiles[name], "auto_flush", "true")
  <1>1. PICK lines \in Seq(Line) : lines = ConfFiles[name]
    BY ConfFilesAssumption
  <1>2. \A r \in ReaderState : \A line \in Line : ReadLine(r, line) \in ReaderState
    BY ReadLineTurn DEF LineRead
  <1>3. PICK f : LinesRun(f, ReaderState, Start, lines)
    BY <1>2, StartState, ReadLines
  <1>4. PICK end : end = f[Len(lines)]
    OBVIOUS
  <1>5. FoldLeft(ReadLine, Start, lines) = end
    BY <1>3, <1>4 DEF LinesRun
  <1>6. s = SetDefaults(end.fields)
    BY <1>1, <1>5 DEF Settings
  <1>7. \A key \in Word : IsSet(end.fields, key) <=> Says(lines, key, "true")
    BY <1>3, <1>4, ReadLinesUpto, FieldsSaid
  <1>8. \A key \in {"dry_run", "auto_flush"} : s[key] = "true" <=> IsSet(end.fields, key)
    BY <1>6 DEF SetDefaults, IsSet
  <1>9. \A key \in {"dry_run", "auto_flush"} : s[key] = "true" <=> Says(lines, key, "true")
    <2>1. "dry_run" \in Word /\ "auto_flush" \in Word
      BY DEF Word
    <2> QED BY <1>7, <1>8, <2>1, Zenon
  <1>10. s["dry_run"] = s.dry_run /\ s["auto_flush"] = s.auto_flush
    OBVIOUS
  <1> QED BY <1>1, <1>9, <1>10
=============================================================================
