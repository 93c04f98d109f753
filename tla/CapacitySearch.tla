---------------------------- MODULE CapacitySearch ----------------------------
(***************************************************************************)
(* How much a coefficient carrier takes: the sizes of the encrypted stream *)
(* and of the envelope around it, and the bisection that turns the         *)
(* capacity of a cover into the largest payload that may be stored         *)
(* (max_carrier_stored_payload in conceal.rs).                             *)
(***************************************************************************)
EXTENDS Integers

CONSTANTS
  ChunkSize,        \* STREAM_CHUNK_SIZE
  PerChunk,         \* ABYTES + STREAM_FRAME_LEN_BYTES
  EnvelopeHeader    \* ENVELOPE_PREFIX_BYTES + KDF_METADATA_REGION_BYTES

ASSUME CapacitySearchAssumption ==
  ChunkSize \in Nat \ {0} /\ PerChunk \in Nat /\ EnvelopeHeader \in Nat

VARIABLES
  search,           \* "idle", "probe", "bisect" or "found"
  capacity,         \* carrier_capacity
  nameLength,       \* filename_length
  lower, upper

searchVars == <<search, capacity, nameLength, lower, upper>>

\* estimate_prefixed_stream_encrypted_size; ceil(n / ChunkSize) chunks
Chunks(total) == (total + ChunkSize - 1) \div ChunkSize
Estimate(stored, prefix) ==
  IF stored + prefix = 0 THEN 0
  ELSE stored + prefix + Chunks(stored + prefix) * PerChunk
EnvelopeSize(encrypted) == EnvelopeHeader + encrypted

Fits(stored) == EnvelopeSize(Estimate(stored, 1 + nameLength)) <= capacity

SearchTypeOK ==
  /\ search \in {"idle", "probe", "bisect", "found"}
  /\ capacity \in Nat /\ nameLength \in Nat
  /\ lower \in Nat /\ upper \in Nat

SearchIdle ==
  /\ search = "idle" /\ capacity = 0 /\ nameLength = 0 /\ lower = 0 /\ upper = 0

\* The call.
AskFor(c, n) ==
  /\ search' = "probe"
  /\ capacity' = c /\ nameLength' = n
  /\ UNCHANGED <<lower, upper>>

Probe ==
  /\ search = "probe"
  /\ lower' = 0
  /\ IF Fits(0) THEN search' = "bisect" /\ upper' = capacity
     ELSE search' = "found" /\ upper' = 0
  /\ UNCHANGED <<capacity, nameLength>>

Middle == lower + (upper - lower + 1) \div 2

Bisect ==
  /\ search = "bisect" /\ lower < upper
  /\ IF Fits(Middle) THEN lower' = Middle /\ UNCHANGED upper
     ELSE upper' = Middle - 1 /\ UNCHANGED lower
  /\ UNCHANGED <<search, capacity, nameLength>>

FoundEarly ==  \* mutant: ends when two are left
  /\ search = "bisect" /\ lower + 1 >= upper
  /\ search' = "found"
  /\ UNCHANGED <<capacity, nameLength, lower, upper>>
Found ==
  /\ search = "bisect" /\ lower = upper
  /\ search' = "found"
  /\ UNCHANGED <<capacity, nameLength, lower, upper>>

SearchStep == Probe \/ Bisect \/ Found

SearchInit == SearchIdle
SearchNext == (\E c, n \in Nat : search = "idle" /\ AskFor(c, n)) \/ SearchStep
SearchSpec == SearchInit /\ [][SearchNext]_searchVars

-----------------------------------------------------------------------------

\* The bisection ends on the largest payload that fits: it fits, and one byte more
\* does not.  If nothing fits, it says so with 0.
CapacityIsExact ==
  search = "found" =>
    IF Fits(0) THEN Fits(lower) /\ ~Fits(lower + 1) ELSE lower = 0

\* Each round of the bisection leaves fewer candidates.
SearchShrinks ==
  [][search = "bisect" /\ search' = "bisect" => upper' - lower' < upper - lower]_searchVars
=============================================================================
