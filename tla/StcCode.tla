-------------------------------- MODULE StcCode --------------------------------
(***************************************************************************)
(* The syndrome-trellis code of the X-Twitter carrier (twitter_stc.cpp):   *)
(* message bits become the syndrome of the parities of the cover           *)
(* coefficients, at the least cost of changes.  Each message bit has two   *)
(* or three columns of cover symbols; long messages are cut into segments  *)
(* that are coded one by one.                                              *)
(*                                                                         *)
(* A state of the trellis and a column of the matrix are sets of rows:     *)
(* exclusive or is their symmetric difference, a mask their intersection.  *)
(***************************************************************************)
EXTENDS Integers, SequencesExt

CONSTANTS
  MessageSizes,      \* numbers of message bits
  CodedBits,         \* bound on those that are coded; of the rest only the schedule
  MaxSegment,        \* kMaxSegmentCover
  Height,            \* kStcConstraintHeight
  Columns2, Columns3,  \* kColumnsWidth2, kColumnsWidth3, as sets of rows
  CoverPatterns,     \* parities of covers, repeated
  CostPatterns       \* costs, repeated; Wet stands for one that is not finite

VARIABLES
  step,              \* where the coder is
  bits,              \* number of message bits
  cover, costs, message,
  parts,             \* makeSegments
  part,              \* the segment that is coded
  index, column,     \* message_index, column_index, or their reverse
  prices,            \* of the states
  mask,              \* column_mask, reverse_mask
  path,              \* for each cover symbol the states that choose one
  state,             \* while backtracking
  stego              \* stego_bits so far

inputs == <<bits, cover, costs, message>>
stcVars == <<step, inputs, parts, part, index, column, prices, mask, path, state, stego>>

Rows == 0..(Height - 1)
States == SUBSET Rows
Infinity == 1000000
WetPrice == 1000       \* 1.0e13
Wet == -1
Xor(a, b) == (a \ b) \cup (b \ a)
Smaller(a, b) == IF a <= b THEN a ELSE b

-----------------------------------------------------------------------------
(* The schedule.                                                           *)

\* requiredCoverSymbols, at the rate of 2 to 5.
RequiredCover(n) == (n * 5 + 1) \div 2

\* forEachWidth: the cover symbols before and with the k-th of n message bits.
Boundary(k, n, symbols) == (k * symbols + n \div 2) \div n
Widths(n, symbols) == [k \in 1..n |-> Boundary(k, n, symbols) - Boundary(k - 1, n, symbols)]

\* makeSegments: a segment ends before the symbols of a message bit that would not fit.
FirstPart == [cover |-> 0, symbols |-> 0, from |-> 0, count |-> 0]
Overfull(p, width) == p.count # 0 /\ p.symbols > MaxSegment  \* mutant: seen one bit too late
Full(p, width) == p.count # 0 /\ p.symbols + width > MaxSegment
Extended(cut, width) ==
  LET p == Last(cut)
  IN IF Full(p, width)
     THEN Append(cut, [cover |-> p.cover + p.symbols, symbols |-> width,
                       from |-> p.from + p.count, count |-> 1])
     ELSE Append(Front(cut), [p EXCEPT !.symbols = @ + width, !.count = @ + 1])
Cut(n) ==
  LET widths == Widths(n, RequiredCover(n))
      cut[k \in 0..n] == IF k = 0 THEN <<FirstPart>> ELSE Extended(cut[k - 1], widths[k])
  IN cut[n]

-----------------------------------------------------------------------------
(* Embedding (stcEmbed, embedRaw).                                         *)

Repeated(pattern, n) == [k \in 1..n |-> pattern[((k - 1) % Len(pattern)) + 1]]

Init ==
  /\ step = "schedule"
  /\ bits \in MessageSizes
  /\ \E c \in CoverPatterns, w \in CostPatterns :
       /\ cover = IF bits <= CodedBits THEN Repeated(c, RequiredCover(bits)) ELSE <<>>
       /\ costs = IF bits <= CodedBits THEN Repeated(w, RequiredCover(bits)) ELSE <<>>
  /\ message \in IF bits <= CodedBits THEN [1..bits -> {0, 1}] ELSE {<<>>}
  /\ parts = <<>> /\ part = 1
  /\ index = 0 /\ column = 0 /\ prices = <<>> /\ mask = {} /\ path = <<>> /\ state = {} /\ stego = <<>>

Schedule ==
  /\ step = "schedule"
  /\ parts' = Cut(bits)
  /\ step' = IF bits <= CodedBits THEN "segment" ELSE "scheduled"
  /\ UNCHANGED <<inputs, part, index, column, prices, mask, path, state, stego>>

\* The current segment, its own schedule and its part of the inputs.
Part == parts[part]
PartWidths == Widths(Part.count, Part.symbols)
PartCover(k) == cover[Part.cover + k]
PartCost(k) == LET c == costs[Part.cover + k] IN IF c = Wet THEN WetPrice ELSE c
PartMessage(k) == message[Part.from + k]
ColumnOf(width, k) == IF width = 2 THEN Columns2[k] ELSE Columns3[k]

\* embedRaw begins: only the rows that the message reaches.
AllRows == Rows  \* mutant: the mask as in the reference, for a message of at least Height bits
ReachedRows == 0..(Smaller(Height, Part.count) - 1)

BeginSegment ==
  /\ step = "segment"
  /\ IF \E k \in DOMAIN PartWidths : PartWidths[k] \notin {2, 3}
     THEN step' = "failed" /\ UNCHANGED <<index, column, prices, mask, path>>
     ELSE /\ prices' = [s \in States |-> IF s = {} THEN 0 ELSE Infinity]
          /\ mask' = ReachedRows
          /\ index' = 1 /\ column' = 1 /\ path' = <<>>
          /\ step' = "trellis"
  /\ UNCHANGED <<inputs, parts, part, state, stego>>

Plus(price, cost) == IF price = Infinity THEN Infinity ELSE price + cost
ZeroPrice(s) == Plus(prices[s], IF PartCover(Len(path) + 1) = 1 THEN PartCost(Len(path) + 1) ELSE 0)
OnePrice(s) ==
  Plus(prices[Xor(s, ColumnOf(PartWidths[index], column) \cap mask)],
       IF PartCover(Len(path) + 1) = 1 THEN 0 ELSE PartCost(Len(path) + 1))

\* One cover symbol: for each state the cheaper of a zero and a one.
ChoosesOne(s) == OnePrice(s) <= ZeroPrice(s)

TrellisColumn ==
  /\ step = "trellis" /\ column <= PartWidths[index]
  /\ prices' = [s \in States |-> IF ChoosesOne(s) THEN OnePrice(s) ELSE ZeroPrice(s)]
  /\ path' = Append(path, {s \in States : ChoosesOne(s)})
  /\ column' = column + 1
  /\ UNCHANGED <<step, inputs, parts, part, index, mask, state, stego>>

\* A state one row on, with this bit in its first row; and back.
Below(s, bit) == {row + 1 : row \in s} \cup (IF bit = 1 THEN {0} ELSE {})
Raised(s) == {row - 1 : row \in s \ {0}}

\* The symbols of a message bit are through: only the states that give the bit stay.
Prune ==
  /\ step = "trellis" /\ column > PartWidths[index]
  /\ prices' = [s \in States |->
       IF Height - 1 \in s THEN Infinity ELSE prices[Below(s, PartMessage(index))]]
  /\ mask' = IF Part.count - index < Height THEN Raised(mask) ELSE mask
  /\ IF index < Part.count
     THEN index' = index + 1 /\ column' = 1 /\ UNCHANGED step
     ELSE /\ UNCHANGED <<index, column>>
          /\ step' = IF prices'[{}] = Infinity THEN "failed" ELSE "turn"
  /\ UNCHANGED <<inputs, parts, part, path, state, stego>>

Turn ==
  /\ step = "turn"
  /\ stego' = stego \o [k \in 1..Part.symbols |-> 0]
  /\ state' = Below({}, PartMessage(Part.count))
  /\ mask' = {0}
  /\ column' = PartWidths[Part.count] /\ step' = "back"
  /\ UNCHANGED <<inputs, parts, part, index, prices, path>>

\* One cover symbol on the way back.
BackColumn ==
  /\ step = "back" /\ column > 0
  /\ LET one == state \in Last(path) IN
     /\ stego' = [stego EXCEPT ![Part.cover + Len(path)] = IF one THEN 1 ELSE 0]
     /\ state' = IF one THEN Xor(state, ColumnOf(PartWidths[index], column) \cap mask) ELSE state
     /\ path' = Front(path)
  /\ column' = column - 1
  /\ UNCHANGED <<step, inputs, parts, part, index, prices, mask>>

\* The message bit before.
BackBit ==
  /\ step = "back" /\ column = 0 /\ index > 1
  /\ state' = Below(state, PartMessage(index - 1))
  /\ mask' = IF Part.count - index + 2 <= Height THEN Below(mask, 1) ELSE mask
  /\ index' = index - 1 /\ column' = PartWidths[index - 1]
  /\ UNCHANGED <<step, inputs, parts, part, prices, path, stego>>

SegmentDone ==
  /\ step = "back" /\ column = 0 /\ index = 1
  /\ IF part < Len(parts) THEN part' = part + 1 /\ step' = "segment"
     ELSE UNCHANGED part /\ step' = "embedded"
  /\ state' = {} /\ mask' = {} /\ prices' = <<>>
  /\ UNCHANGED <<inputs, parts, index, column, path, stego>>

\* throwIfSignalCancellationRequested, before a segment.
Cancelled ==
  /\ step = "segment" /\ step' = "cancelled"
  /\ UNCHANGED <<inputs, parts, part, index, column, prices, mask, path, state, stego>>

Next ==
  \/ Schedule \/ BeginSegment \/ TrellisColumn \/ Prune \/ Turn
  \/ BackColumn \/ BackBit \/ SegmentDone \/ Cancelled

Spec == Init /\ [][Next]_stcVars

-----------------------------------------------------------------------------
(* Extraction (stcExtract, extractRaw).                                    *)

\* The message bits of a segment that these symbols give.
Syndrome(symbols, n) ==
  LET widths == Widths(n, Len(symbols))
      before(k) == Boundary(k - 1, n, Len(symbols))
      Hits(k, b) == {c \in 1..widths[k] : /\ symbols[before(k) + c] = 1
                                          /\ b - k < Height /\ b - k \in ColumnOf(widths[k], c)}
  IN [b \in 1..n |-> Cardinality({kc \in (1..b) \X (1..3) : kc[2] \in Hits(kc[1], b)}) % 2]

Extracted ==
  FoldLeft(LAMBDA got, p : got \o Syndrome(SubSeq(stego, p.cover + 1, p.cover + p.symbols), p.count),
          <<>>, Cut(bits))

-----------------------------------------------------------------------------
(* What must hold.                                                         *)

\* The segments cover every symbol and every message bit once, none is longer than
\* allowed, and within each every bit has two or three symbols: no check of the
\* schedule can fail.
ScheduleFits ==
  parts # <<>> =>
    /\ parts[1].cover = 0 /\ parts[1].from = 0
    /\ Last(parts).cover + Last(parts).symbols = RequiredCover(bits)
    /\ Last(parts).from + Last(parts).count = bits
    /\ \A i \in DOMAIN parts :
         /\ parts[i].symbols <= MaxSegment
         /\ \A k \in 1..parts[i].count : Widths(parts[i].count, parts[i].symbols)[k] \in {2, 3}
         /\ i > 1 => /\ parts[i].cover = parts[i - 1].cover + parts[i - 1].symbols
                     /\ parts[i].from = parts[i - 1].from + parts[i - 1].count

Paid(symbols, p) ==
  FoldSeq(LAMBDA k, sum : sum + (IF symbols[k] = cover[p.cover + k] THEN 0
                                 ELSE IF costs[p.cover + k] = Wet THEN WetPrice ELSE costs[p.cover + k]),
          0, [k \in 1..p.symbols |-> k])
Cheapest(p) ==
  LET mine == SubSeq(stego, p.cover + 1, p.cover + p.symbols)
      wanted == SubSeq(message, p.from + 1, p.from + p.count)
  IN \A other \in [1..p.symbols -> {0, 1}] :
       Paid(other, p) < Paid(mine, p) => Syndrome(other, p.count) # wanted

\* For every cover, every cost and messages shorter and longer than a column there
\* are symbols to write, what is extracted from them is the message, and no others
\* that give it cost less.
CarriesTheMessage ==
  /\ step # "failed"
  /\ step = "embedded" => Extracted = message /\ \A i \in DOMAIN parts : Cheapest(parts[i])
=============================================================================
