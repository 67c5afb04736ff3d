-------------------------------- MODULE Fdb --------------------------------
(***************************************************************************)
(* The forwarding database in a static configuration of an E/T chip        *)
(* (static-config.c): 256 bins of four places, the bin of an entry being   *)
(* the hash of its address.  Unpacking counts the entries of every bin by  *)
(* the places they were stored at; every packing then gives each entry     *)
(* the next place of its bin and goes on counting, so that the places      *)
(* depend on where the entries lay and on how often they were packed.      *)
(*                                                                         *)
(* The buffer of Gtable holds the one entry that is edited, in the layout  *)
(* of l2-lookup.c; it is the last of the table, after Neighbours.  A place *)
(* is a record of bin and position.                                        *)
(***************************************************************************)
EXTENDS Checksum, FiniteSets

CONSTANTS
    Neighbours,     \* the entries before it: sequence of [vlanid, macaddr, index]
    Polys           \* values of l2-lookup-parameters.poly

ASSUME NeighboursAssumption ==
    /\ IsFiniteSet(DOMAIN Neighbours)
    /\ DOMAIN Neighbours = 1..Cardinality(DOMAIN Neighbours)
    /\ \A i \in DOMAIN Neighbours :
         Neighbours[i].vlanid \subseteq 0..11 /\ Neighbours[i].macaddr \subseteq 0..47

\* The field is 8 bits wide.
ASSUME PolysAssumption == \A poly \in Polys : poly \subseteq Byte

SJA1105ET_FDB_BIN_SIZE == 4
CounterMod == 256   \* entries_in_fdb_bin is an array of uint8_t

Edited(buffer) ==
    [vlanid |-> Unpacked(buffer, 95, 84), macaddr |-> Unpacked(buffer, 83, 36),
     index |-> Unpacked(buffer, 29, 20)]

Last == Cardinality(DOMAIN Neighbours) + 1

Entries(buffer) ==
    [i \in 1..Last |-> IF i = Last THEN Edited(buffer) ELSE Neighbours[i]]

\* The end of sja1105_static_config_unpack: the bin is cut to 8 bits.
StoredBin(entry) == {b - 2 : b \in entry.index \ {0, 1}} \cap Byte

Counted(entries) ==
    [bin \in SUBSET Byte |->
       Cardinality({i \in DOMAIN entries : StoredBin(entries[i]) = bin}) % CounterMod]

\* Entries that share what they learn are hashed without their VLAN.
Bins(entries, shared, poly) ==
    [i \in DOMAIN entries |->
       FdbHash(IF shared THEN {} ELSE entries[i].vlanid, entries[i].macaddr, poly)]

(***************************************************************************)
(* sja1105_static_config_patch_fdb: the place of entry i, and the counters *)
(* afterwards.                                                             *)
(***************************************************************************)
Earlier(bins, i) == {j \in 1..i - 1 : bins[j] = bins[i]}

\* Mutant: the counter is not incremented.
Place_Uncounted(bins, count, i) ==
    [bin |-> bins[i], position |-> count[bins[i]] % SJA1105ET_FDB_BIN_SIZE]

Place(bins, count, i) ==
    [bin |-> bins[i],
     position |-> ((count[bins[i]] + Cardinality(Earlier(bins, i))) % CounterMod)
                    % SJA1105ET_FDB_BIN_SIZE]

CountedOn(bins, count) ==
    [b \in DOMAIN count |->
       (count[b] + Cardinality({i \in DOMAIN bins : bins[i] = b})) % CounterMod]

\* The places after a load and one packing, and after the second with -f.
Places(buffer, shared, poly) ==
    LET entries == Entries(buffer)
        bins == Bins(entries, shared, poly)
        PlacesFrom(count) == [i \in DOMAIN bins |-> Place(bins, count, i)]
    IN  {PlacesFrom(Counted(entries)), PlacesFrom(CountedOn(bins, Counted(entries)))}
-----------------------------------------------------------------------------
(***************************************************************************)
(* Every entry is placed in the bin where the chip looks for it: the       *)
(* remainder of its address, VLAN first, by the polynomial of degree 8     *)
(* that poly stands for in Koopman's notation; wherever it was stored      *)
(* before and whatever of it was edited since.                             *)
(***************************************************************************)
ChipBin(entry, shared, poly) ==
    LET vlanid == IF shared THEN {} ELSE entry.vlanid
    IN  Remainder({b + 56 : b \in vlanid} \cup {b + 8 : b \in entry.macaddr},
                  {0, 8} \cup {b + 1 : b \in poly}, 8, 71)

EveryEntryInItsBin ==
    \A shared \in BOOLEAN, poly \in Polys :
      \A places \in Places(buf, shared, poly) : \A i \in DOMAIN places :
        places[i].bin = ChipBin(Entries(buf)[i], shared, poly)

(***************************************************************************)
(* No two entries get the same place unless a bin has more than four, from *)
(* whatever the bins were counted at, so packing never drops an address.   *)
(***************************************************************************)
Apart(places) ==
    \A i, j \in DOMAIN places :
      /\ places[i].bin = places[j].bin /\ i # j
      /\ Cardinality({k \in DOMAIN places : places[k].bin = places[i].bin})
           <= SJA1105ET_FDB_BIN_SIZE
      => places[i].position # places[j].position

EntriesKeepApart ==
    \A shared \in BOOLEAN, poly \in Polys : \A places \in Places(buf, shared, poly) : Apart(places)
=============================================================================
