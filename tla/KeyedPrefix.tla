------------------------------- MODULE KeyedPrefix -------------------------------
(***************************************************************************)
(* KeyedIndexPrefix (carrier_common.h): the first entries of KeyedShuffle  *)
(* without an array of the whole domain.  While the prefix is short only   *)
(* the values that a swap moved are kept, in a hash table with open        *)
(* addressing; behind size / SparseDivisor the whole order is built and    *)
(* the swaps go on in place.  Conceal asks for all positions at once,      *)
(* recover first for those of the header and then for the rest.            *)
(***************************************************************************)
EXTENDS Integers, Sequences

CONSTANTS
  Domains,          \* sizes of the domain
  Counts,           \* counts that are asked for
  SparseDivisor,    \* kSparseDivisor
  FirstCapacity,    \* slots of the first table
  HashRange,        \* 2^64 in the code
  Multipliers       \* of the hash function; the code has one

VARIABLES
  domain, multiplier,  \* size_, and how an index is hashed
  places,              \* items_
  table, used,         \* table_, used_
  settled,             \* fixed_
  visible,             \* visible_
  dense,               \* dense_
  goal                 \* of the call of extendTo that runs

prefixVars == <<domain, multiplier, places, table, used, settled, visible, dense, goal>>
None == -1             \* kEmpty, and no call

Init ==
  /\ domain \in Domains /\ multiplier \in Multipliers
  /\ places = <<>> /\ table = <<>> /\ used = 0
  /\ settled = 0 /\ visible = 0 /\ dense = FALSE /\ goal = None

\* home, the slot where the search for an index begins, and the slots from there on.
Home(capacity, index) == (((index * multiplier) % HashRange) * capacity) \div HashRange
Probe(capacity, index, k) == ((Home(capacity, index) + k) % capacity) + 1

\* The slot with the index, or the first empty one.
Slot(slots, index) ==
  LET capacity == Len(slots)
      Stops(k) == slots[Probe(capacity, index, k)].index \in {index, None}
  IN Probe(capacity, index, CHOOSE k \in 0..(capacity - 1) : Stops(k) /\ \A j \in 0..(k - 1) : ~Stops(j))

HomeOnly(position) ==  \* mutant: a value that another pushed aside is not found
  IF table = <<>> THEN position
  ELSE LET slot == table[Home(Len(table), position) + 1] IN
       IF slot.index = position THEN slot.value ELSE position
ValueAt(position) ==
  IF table = <<>> THEN position
  ELSE LET slot == table[Slot(table, position)] IN
       IF slot.index = position THEN slot.value ELSE position

Put(slots, index, value) == [slots EXCEPT ![Slot(slots, index)] = [index |-> index, value |-> value]]

\* grow: a table of twice the size, filled from the old one slot by slot.
Grown ==
  LET capacity == IF table = <<>> THEN FirstCapacity ELSE 2 * Len(table)
      filled[k \in 0..Len(table)] ==
        IF k = 0 THEN [s \in 1..capacity |-> [index |-> None, value |-> 0]]
        ELSE IF table[k].index = None THEN filled[k - 1]
        ELSE Put(filled[k - 1], table[k].index, table[k].value)
  IN filled[Len(table)]

\* store
Store(index, value) ==
  LET room == IF (used + 1) * 2 > Len(table) THEN Grown ELSE table IN
  /\ table' = Put(room, index, value)
  /\ used' = IF room[Slot(room, index)].index = index THEN used ELSE used + 1

Lower(a, b) == IF a <= b THEN a ELSE b

\* materialise: every entry of the table that is not fixed goes to its place.
Materialised == [p \in 1..domain |-> IF p <= settled THEN places[p] ELSE ValueAt(p - 1)]

\* extendTo begins: a call for no more than there is does nothing.
Extend(count) ==
  /\ goal = None /\ Lower(count, domain) > visible
  /\ goal' = Lower(count, domain)
  /\ IF ~dense /\ goal' > domain \div SparseDivisor
     THEN places' = Materialised /\ table' = <<>> /\ used' = 0 /\ dense' = TRUE
     ELSE UNCHANGED <<places, table, used, dense>>
  /\ UNCHANGED <<domain, multiplier, settled, visible>>

Swaps == Lower(goal, domain - 1)

\* A swap in place,
SwapDense(other) ==
  /\ goal # None /\ settled < Swaps /\ dense
  /\ places' = [places EXCEPT ![settled + 1] = places[other + 1], ![other + 1] = places[settled + 1]]
  /\ settled' = settled + 1
  /\ UNCHANGED <<domain, multiplier, table, used, visible, dense, goal>>

\* or one where only the later position is kept.
SwapSparse(other) ==
  /\ goal # None /\ settled < Swaps /\ ~dense
  /\ places' = Append(places, ValueAt(other))
  /\ IF other # settled THEN Store(other, ValueAt(settled)) ELSE UNCHANGED <<table, used>>
  /\ settled' = settled + 1
  /\ UNCHANGED <<domain, multiplier, visible, dense, goal>>

\* extendTo returns.
Return ==
  /\ goal # None /\ settled >= Swaps
  /\ visible' = goal /\ goal' = None
  /\ UNCHANGED <<domain, multiplier, places, table, used, settled, dense>>

Next ==
  \/ \E count \in Counts : Extend(count)
  \/ \E other \in settled..(domain - 1) : SwapDense(other) \/ SwapSparse(other)
  \/ Return

Spec == Init /\ [][Next]_prefixVars

-----------------------------------------------------------------------------
(* What must hold.                                                         *)

\* The whole order: the places that are stored, and behind them what the table says.
Order ==
  [p \in 0..(domain - 1) |-> IF p < Len(places) THEN places[p + 1] ELSE ValueAt(p)]

Shuffle == INSTANCE KeyedShuffle WITH Sizes <- Domains, items <- Order, fixed <- settled

\* Every call goes on with the one shuffle: what the table forgets, moves or keeps
\* from before, and the change to the whole array, are not seen.
ShufflesInSteps == Shuffle!Spec
=============================================================================
