---------------------------- MODULE FccStringPool ----------------------------
(***************************************************************************)
(* The pool of identifiers (fcc_lexer.c): a hash table with open           *)
(* addressing that holds one copy of each identifier for the lifetime of   *)
(* the process.  Tokens and trees hold the address of that copy, and the   *)
(* phases behind the lexer may compare addresses before they compare text. *)
(* The table grows when seven tenths of it would be in use, and every      *)
(* entry is then moved to its place in the larger table.                   *)
(*                                                                         *)
(* The loops of the code are the steps: doubling a capacity, moving an     *)
(* entry, looking at the next slot.                                        *)
(***************************************************************************)
EXTENDS Naturals, FiniteSets

CONSTANTS
  Names,         \* the identifiers
  Hash(_),       \* hash_bytes
  FirstCapacity, \* the entries of the first table, 128
  MaxCapacity    \* the largest capacity calloc is asked for

ASSUME HashAssumption == \A name \in Names : Hash(name) \in Nat
ASSUME CapacityAssumption ==
  FirstCapacity \in Nat \ {0} /\ MaxCapacity \in Nat \ {0}

VARIABLES
  entries,     \* slot -> the entries that occupy it, at most one
  capacity,    \* entry_capacity, the number of slots
  entry_count, \* entries in use
  addresses,   \* the copies allocated, numbered
  phase,       \* "idle", "sizing", "moving", "probing", "failed"
  wanted,      \* the identifier to be interned
  distance,    \* slots passed by since the one the hash names
  larger,      \* new_entries
  new_capacity,
  entry_index, \* the slot to be moved next
  given        \* history: the identifiers returned, with their addresses

poolVars == <<entries, capacity, entry_count, addresses, phase, wanted, distance,
              larger, new_capacity, entry_index, given>>

Entry == [name : Names, address : Nat]

Empty(n) == [slot \in 0 .. n - 1 |-> {}]

\* needs_grow, which is also the condition of the loop that doubles
NeedsGrow(count, n) == n = 0 \/ (count + 1) * 10 >= n * 7

\* The slot at a distance from the one the hash names, around the end.
SlotAt(name, d, n) ==
  LET home == Hash(name) % n
  IN IF home + d < n THEN home + d ELSE (home + d) - n

PoolInit ==
  /\ entries = Empty(0) /\ capacity = 0 /\ entry_count = 0 /\ addresses = 0
  /\ phase = "idle" /\ wanted = << >> /\ distance = 0
  /\ larger = Empty(0) /\ new_capacity = 0 /\ entry_index = 0
  /\ given = {}

table == <<entries, capacity, entry_count, addresses>>
growth == <<larger, new_capacity, entry_index>>

\* intern_identifier_text: the capacity is made sure of before anything is looked up.
InternName(name) ==
  /\ phase = "idle"
  /\ wanted' = name
  /\ distance' = 0
  /\ IF NeedsGrow(entry_count, capacity)
     THEN /\ phase' = "sizing"
          /\ new_capacity' = IF capacity = 0 THEN FirstCapacity ELSE capacity
     ELSE phase' = "probing" /\ UNCHANGED new_capacity
  /\ UNCHANGED <<table, larger, entry_index, given>>

\* ensure_capacity
Double ==
  /\ phase = "sizing" /\ NeedsGrow(entry_count + 1, new_capacity)
  /\ new_capacity' = 2 * new_capacity
  /\ UNCHANGED <<table, phase, wanted, distance, larger, entry_index, given>>

\* rehash: a table of the new size, empty
Allocate ==
  /\ phase = "sizing" /\ ~NeedsGrow(entry_count + 1, new_capacity)
  /\ new_capacity <= MaxCapacity
  /\ larger' = Empty(new_capacity)
  /\ entry_index' = 0
  /\ phase' = "moving"
  /\ UNCHANGED <<table, wanted, distance, new_capacity, given>>

\* No table of that size, or no memory for it or for the copy of a name.
Fail ==
  /\ \/ phase = "sizing" /\ ~NeedsGrow(entry_count + 1, new_capacity)
     \/ phase = "probing" /\ entries[SlotAt(wanted, distance, capacity)] = {}
  /\ phase' = "failed"
  /\ UNCHANGED <<table, wanted, distance, growth, given>>

Skip ==
  /\ phase = "moving" /\ entry_index < capacity /\ entries[entry_index] = {}
  /\ entry_index' = entry_index + 1
  /\ UNCHANGED <<table, phase, wanted, distance, larger, new_capacity, given>>

\* Mistaken form: a moved entry goes to the slot its hash names, whatever is there.
PutAtHome(moved, slot) == TRUE

\* A moved entry goes to the first slot that is not occupied.
IsFree(moved, slot) == larger[slot] = {}

Move(moved) ==
  /\ phase = "moving" /\ entry_index < capacity /\ moved \in entries[entry_index]
  /\ LET slot == SlotAt(moved.name, distance, new_capacity) IN
       IF IsFree(moved, slot)
       THEN /\ larger' = [larger EXCEPT ![slot] = {moved}]
            /\ entry_index' = entry_index + 1
            /\ distance' = 0
       ELSE /\ distance' = distance + 1
            /\ UNCHANGED <<larger, entry_index>>
  /\ UNCHANGED <<table, phase, wanted, new_capacity, given>>

\* The larger table takes the place of the old one.
Replace ==
  /\ phase = "moving" /\ entry_index = capacity
  /\ entries' = larger
  /\ capacity' = new_capacity
  /\ phase' = "probing"
  /\ UNCHANGED <<entry_count, addresses, wanted, distance, growth, given>>

Return(address) ==
  /\ given' = given \cup {[name |-> wanted, address |-> address]}
  /\ phase' = "idle"
  /\ UNCHANGED <<capacity, wanted, distance, growth>>

\* The slot holds another identifier.
Pass ==
  /\ phase = "probing"
  /\ \E entry \in entries[SlotAt(wanted, distance, capacity)] : entry.name # wanted
  /\ distance' = distance + 1
  /\ UNCHANGED <<table, phase, wanted, growth, given>>

Find ==
  /\ phase = "probing"
  /\ \E entry \in entries[SlotAt(wanted, distance, capacity)] :
       entry.name = wanted /\ Return(entry.address)
  /\ UNCHANGED <<entries, entry_count, addresses>>

\* The identifier is new: a copy of it is entered in the free slot.
Insert ==
  /\ phase = "probing" /\ entries[SlotAt(wanted, distance, capacity)] = {}
  /\ entries' = [entries EXCEPT ![SlotAt(wanted, distance, capacity)] =
                   {[name |-> wanted, address |-> addresses]}]
  /\ entry_count' = entry_count + 1
  /\ addresses' = addresses + 1
  /\ Return(addresses)

PoolStep ==
  \/ Double \/ Allocate \/ Fail
  \/ Skip \/ Replace \/ Pass \/ Find \/ Insert
  \/ \E slot \in {entry_index} \cap 0 .. capacity - 1 :
       \E moved \in entries[slot] : Move(moved)

PoolNext == PoolStep \/ \E name \in Names : InternName(name)

PoolSpec == PoolInit /\ [][PoolNext]_poolVars

-----------------------------------------------------------------------------
\* What a token was given says which identifier it is: two results are the same
\* address exactly if they are the same identifier, whatever was interned between
\* them, however often the table was rehashed and however the hashes collide.
NamesAreInterned ==
  \A r \in given, s \in given : r.name = s.name <=> r.address = s.address

\* The loops that look for a slot come to a free one before they have gone all
\* the way around: they have no other end.
ProbingStops ==
  /\ phase = "probing" =>
       \E d \in distance .. capacity - 1 : entries[SlotAt(wanted, d, capacity)] = {}
  /\ phase = "moving" /\ entry_index < capacity =>
       \A moved \in entries[entry_index] :
         \E d \in distance .. new_capacity - 1 :
           larger[SlotAt(moved.name, d, new_capacity)] = {}
=============================================================================
