-------------------------------- MODULE Carriers --------------------------------
(***************************************************************************)
(* The carriers of a ciphertext and the parts they are made of, side by    *)
(* side: the ICC segments of the default mode, the Bluesky segments, and   *)
(* of the coefficient carriers the order of the positions and the code     *)
(* that is written there.  They share no state: a behaviour is one of one  *)
(* machine, and the others rest.                                           *)
(***************************************************************************)
EXTENDS IccCarrier

CONSTANTS
  Sizes, Pushes, MaxPushes, OtherSizes, MaxOthers, OtherXmpAt, Splits, Decoys,  \* BlueskyCarrier
  Domains, Counts, SparseDivisor, FirstCapacity, HashRange, Multipliers,        \* KeyedPrefix
  MessageSizes, CodedBits, MaxSegment, Height, Columns2, Columns3, CoverPatterns, CostPatterns  \* StcCode

VARIABLES
  machine,    \* the one that runs
  phase, size, decoy, input, pushed, builder, segs, harm, stated, scan, taken,
  domain, multiplier, places, table, used, settled, visible, dense, goal,
  step, bits, symbols, costs, message, parts, part, index, column, prices, mask, path, state, stego

bskyVars == <<phase, size, decoy, input, pushed, builder, segs, harm, stated, scan, taken>>
orderVars == <<domain, multiplier, places, table, used, settled, visible, dense, goal>>
codeVars == <<step, bits, symbols, costs, message, parts, part, index, column, prices, mask, path, state, stego>>

Bsky == INSTANCE BlueskyCarrier
Keyed == INSTANCE KeyedPrefix
Stc == INSTANCE StcCode WITH cover <- symbols

\* The largest segment of a JPEG file: two bytes count it, without its marker.
LargestSegment == 2 + 65535

\* What the machines need of their constants: the shortest ciphertext that recover
\* takes, room for its signature in another program's Photoshop or XMP segment, a first
\* table of more than one slot, a column with its first and last row.
ASSUME CarriersAssumption ==
  /\ Sizes \subseteq {n \in Nat : n >= 21} /\ Pushes \subseteq Nat \ {0} /\ MaxPushes \in Nat
  /\ OtherSizes \in [Bsky!OtherKinds -> SUBSET (4..LargestSegment)] /\ MaxOthers \in Nat
  /\ OtherXmpAt \in Nat
  /\ \A n \in OtherSizes["otherPhotoshop"] : n >= 9 + 7
  /\ \A n \in OtherSizes["otherXmp"] : n >= OtherXmpAt + 7
  /\ Splits \subseteq 1..6 /\ Decoys \subseteq Nat
  /\ Domains \subseteq Nat \ {0} /\ Counts \subseteq Nat
  /\ SparseDivisor \in Nat \ {0, 1} /\ FirstCapacity \in Nat \ {0, 1} /\ HashRange \in Nat \ {0}
  /\ Multipliers \subseteq 0..(HashRange - 1)
  /\ MessageSizes \subseteq Nat \ {0} /\ MaxSegment \in Nat \ (0..2)
  /\ Len(Columns2) = 2 /\ Len(Columns3) = 3
  /\ \A c \in ToSet(Columns2) \cup ToSet(Columns3) :
       c \subseteq 0..(Height - 1) /\ {0, Height - 1} \subseteq c
  /\ \E n \in MessageSizes : n > CodedBits

\* A machine that was not chosen stays in one initial state.
IccRests == enc = Min(EncryptedSizes) /\ cover = Min(CoverSizes) /\ leading = <<>>
BlueskyRests == size = Min(Sizes) /\ decoy = Min(Decoys)
OrderRests == domain = Min(Domains) /\ multiplier = Min(Multipliers)
CodeRests == bits = Max(MessageSizes)

CarriersInit ==
  /\ machine \in {"icc", "bluesky", "order", "code"}
  /\ Init /\ (machine # "icc" => IccRests)
  /\ Bsky!Init /\ (machine # "bluesky" => BlueskyRests)
  /\ Keyed!Init /\ (machine # "order" => OrderRests)
  /\ Stc!Init /\ (machine # "code" => CodeRests)

CarriersNext ==
  /\ UNCHANGED machine
  /\ \/ machine = "icc" /\ Next /\ UNCHANGED <<bskyVars, orderVars, codeVars>>
     \/ machine = "bluesky" /\ Bsky!Next /\ UNCHANGED <<vars, orderVars, codeVars>>
     \/ machine = "order" /\ Keyed!Next /\ UNCHANGED <<vars, bskyVars, codeVars>>
     \/ machine = "code" /\ Stc!Next /\ UNCHANGED <<vars, bskyVars, orderVars>>

CarriersSpec == CarriersInit /\ [][CarriersNext]_<<machine, vars, bskyVars, orderVars, codeVars>>

-----------------------------------------------------------------------------
(* What must hold, beside the properties of IccCarrier.                    *)

\* An image that lost one of its segments, or its end, is refused before a byte is
\* decrypted, in the default mode and, unless another program's Photoshop or XMP
\* segment stands where ours is looked for, in that of Bluesky.
DamagedIsRefused == IncompleteIsRefused /\ Bsky!BlueskyIncompleteIsRefused

\* What recover puts together from an undamaged Bluesky image, in which no Photoshop
\* or XMP segment of another program stands in front of ours, is the ciphertext.
BlueskyIsReassembled == Bsky!BlueskyIsReassembled

\* A ciphertext within the capacity that is foreseen fits the Bluesky segments, and
\* an undamaged image with them, in which no other program's segment is taken for
\* ours, is not refused.
BlueskyIsAccepted == Bsky!BlueskyIsAccepted

\* The sizes written into a Bluesky image are those of what they stand before.
SizesAreTrue == Bsky!SizesAreTrue

\* The order of the positions is that of one shuffle, however it is asked for.
ShufflesInSteps == Keyed!ShufflesInSteps

\* The schedule of the trellis code covers every symbol and every bit once.
ScheduleFits == Stc!ScheduleFits

\* The embedded symbols are the cheapest of which the message is extracted.
CarriesTheMessage == Stc!CarriesTheMessage
=============================================================================
