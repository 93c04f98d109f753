---------------------------- MODULE PipelineProofs ----------------------------
(***************************************************************************)
(* Theorems about Pipeline and the search of CapacitySearch, for every     *)
(* value of the constants: whatever the covers, the data, the names, the   *)
(* segments of a platform, the sizes of chunks and of headers.             *)
(*                                                                         *)
(* RunInv says what is known at every place of a run; each action keeps it,*)
(* in a lemma of its own.                                                  *)
(***************************************************************************)
EXTENDS Pipeline, FiniteSetTheorems, WellFoundedInduction, TLAPS

-----------------------------------------------------------------------------
(* Induction over the naturals, in the form of sets.                       *)

LEMMA Smallest ==
  ASSUME NEW T, T \subseteq Nat, T # {}
  PROVE  \E n \in T : \A m \in T : n <= m
<1> DEFINE R == OpToRel(<, Nat)
<1>1. IsWellFoundedOn(R, Nat)
  BY NatLessThanWellFounded
<1>2. \A x, y \in Nat : <<x, y>> \in R <=> x < y
  BY DEF OpToRel
<1> HIDE DEF R
<1>3. PICK n \in T : \A m \in T : <<m, n>> \notin R
  BY <1>1, WFMin
<1>4. \A m \in T : ~(m < n)
  BY <1>2, <1>3
<1> QED BY <1>3, <1>4

LEMMA Induction ==
  ASSUME NEW n \in Nat, NEW S, 0 \in S, \A k \in 0..(n - 1) : k \in S => k + 1 \in S
  PROVE  0..n \subseteq S
<1> SUFFICES ASSUME (0..n) \ S # {}
             PROVE  FALSE
  OBVIOUS
<1>1. PICK m \in (0..n) \ S : \A j \in (0..n) \ S : m <= j
  <2>1. (0..n) \ S \subseteq Nat
    OBVIOUS
  <2> QED BY <2>1, Smallest
<1>2. m # 0 /\ m - 1 \in 0..(n - 1)
  BY <1>1
<1>3. m - 1 \in S
  BY <1>1, <1>2
<1> QED BY <1>1, <1>2, <1>3

-----------------------------------------------------------------------------
(* The cover, from the segments of its file to the rewritten image.        *)

LEMMA MinIsIn ==
  ASSUME NEW T, T \subseteq Nat, T # {}
  PROVE  Min(T) \in T /\ \A t \in T : Min(T) <= t
<1>1. \E n \in T : \A m \in T : n <= m
  BY Smallest
<1> QED BY <1>1 DEF Min

LEMMA FirstPlace ==
  ASSUME NEW T, T \subseteq Nat
  PROVE  /\ FirstAt(T) \in Nat
         /\ FirstAt(T) # 0 => FirstAt(T) \in T
         /\ T # {} => FirstAt(T) \in T /\ \A t \in T : FirstAt(T) <= t
BY MinIsIn DEF FirstAt

\* What libjpeg decodes.
Decoded == [found : {TRUE}, width : Nat, height : Nat, tables : Seq(Nat), progressive : BOOLEAN]

LEMMA FrameIsDecoded ==
  ASSUME NEW jpeg, IsJpeg(jpeg), DecoderFrame(jpeg).found
  PROVE  DecoderFrame(jpeg) \in Decoded
<1> DEFINE segs == jpeg.segs
           frames == Of(segs, DecodedHeader(jpeg), "sof")
           frame == segs[CHOOSE f \in frames : TRUE]
<1>1. Nothing.found = FALSE
  BY DEF Nothing
<1>2. DecoderFrame(jpeg) = OnlyFrame(segs, frames)
  BY <1>1 DEF DecoderFrame
<1>3. Cardinality(frames) = 1 /\ OnlyFrame(segs, frames)
        = [found |-> TRUE, width |-> frame.width, height |-> frame.height,
           tables |-> frame.tables, progressive |-> frame.progressive]
  BY <1>1, <1>2 DEF OnlyFrame
<1>4. frames # {}
  <2>1. Cardinality({}) # 1
    BY FS_EmptySet
  <2> HIDE DEF frames
  <2> QED BY <2>1, <1>3
<1>5. PICK f \in frames : frame = segs[f]
  BY <1>4
<1>6. f \in DOMAIN segs /\ segs[f].kind = "sof"
  BY <1>5 DEF Of, DecodedHeader, BeforeScan, Framed
<1>7. segs[f] \in Frames
  BY <1>6 DEF IsJpeg, ToSet
<1>8. frame \in Frames
  BY <1>5, <1>7
<1> HIDE DEF frame, frames, segs
<1>9. /\ frame.width \in Nat /\ frame.height \in Nat /\ frame.tables \in Seq(Nat)
      /\ frame.progressive \in BOOLEAN
  BY <1>8 DEF Frames
<1> QED BY <1>2, <1>3, <1>9 DEF Decoded

\* An image made of such segments is one that libjpeg can be given.
LEMMA JpegOf ==
  ASSUME NEW S, \A g \in S : g.kind = "sof" => g \in Frames,
         NEW jpeg, jpeg.segs \in Seq(S)
  PROVE  IsJpeg(jpeg)
<1> DEFINE segs == jpeg.segs
<1>1. \A i \in DOMAIN segs : segs[i] \in S
  OBVIOUS
<1>2. ToSet(segs) \subseteq S
  BY <1>1 DEF ToSet
<1>3. segs \in Seq(ToSet(segs))
  <2>1. segs = [i \in 1..Len(segs) |-> segs[i]] /\ Len(segs) \in Nat
    OBVIOUS
  <2>2. \A i \in 1..Len(segs) : segs[i] \in ToSet(segs)
    BY <2>1 DEF ToSet
  <2> HIDE DEF segs
  <2>3. segs \in [1..Len(segs) -> ToSet(segs)]
    BY <2>1, <2>2
  <2> QED BY <2>1, <2>3
<1> QED BY <1>2, <1>3 DEF IsJpeg

LEMMA Trimmed ==
  ASSUME NEW n \in Nat
  PROVE  Trim(n) \in Nat
<1>1. McuSide \in Nat \ {0}
  BY JpegCoverAssumption
<1>2. n % McuSide \in Nat /\ n % McuSide <= n
  BY <1>1, Z3
<1> QED BY <1>2 DEF Trim

LEMMA TurnedSize ==
  ASSUME NEW op, NEW w \in Nat, NEW h \in Nat
  PROVE  Turned(op, w, h)[1] \in Nat /\ Turned(op, w, h)[2] \in Nat
<1>1. Trim(w) \in Nat /\ Trim(h) \in Nat
  BY Trimmed
<1> DEFINE v == Trim(w)
           g == Trim(h)
<1>2. v \in Nat /\ g \in Nat /\ Turned(op, w, h) =
        CASE op = "hflip" -> <<v, h>>
          [] op = "vflip" -> <<w, g>>
          [] op = "rot180" -> <<v, g>>
          [] op = "transpose" -> <<h, w>>
          [] op = "rot90" -> <<g, w>>
          [] op = "rot270" -> <<h, v>>
          [] op = "transverse" -> <<g, v>>
          [] OTHER -> <<w, h>>
  BY <1>1 DEF Turned
<1> HIDE DEF v, g
<1> QED BY <1>2

LEMMA AsSequence ==
  ASSUME NEW T, IsFiniteSet(T)
  PROVE  SetToSeq(T) \in Seq(T)
<1>1. Cardinality(T) \in Nat /\ ExistsBijection(1..Cardinality(T), T)
  BY FS_CardinalityType
<1>2. PICK f \in [1..Cardinality(T) -> T] : \A a, b \in 1..Cardinality(T) : f[a] = f[b] => a = b
  BY <1>1 DEF ExistsBijection, Bijection, Injection, IsInjective
<1>3. IsInjective(f)
  BY <1>2 DEF IsInjective
<1>4. SetToSeq(T) \in [1..Cardinality(T) -> T]
  BY <1>3 DEF SetToSeq
<1> QED BY <1>1, <1>4

\* The tables of a frame, each the last of its kind before the scan.
LEMMA TablesAreTables ==
  ASSUME NEW segs, segs \in Seq(ToSet(segs)), NEW header, header \subseteq DOMAIN segs, NEW frame, frame.tables \in Seq(Nat),
         HasTablesOf(segs, header, frame)
  PROVE  /\ IsFiniteSet(Tables(segs, header, frame))
         /\ \A g \in Tables(segs, header, frame) : g.kind = "dqt"
<1> DEFINE T == Tables(segs, header, frame)
           t == frame.tables
           f == [i \in 1..Len(t) |-> segs[LastTable(segs, header, t[i])]]
<1>1. Len(t) \in Nat /\ DOMAIN t = 1..Len(t)
  OBVIOUS
<1>2. T = {segs[LastTable(segs, header, t[i])] : i \in 1..Len(t)}
  BY <1>1 DEF Tables, ToSet
<1>3. f \in Surjection(1..Len(t), T)
  <2>1. \A i \in 1..Len(t) : f[i] \in T
    BY <1>2
  <2>2. \A g \in T : \E i \in 1..Len(t) : f[i] = g
    BY <1>2
  <2> QED BY <2>1, <2>2 DEF Surjection
<1>4. IsFiniteSet(T)
  <2>1. IsFiniteSet(1..Len(t))
    BY <1>1, FS_Interval
  <2> HIDE DEF f, T
  <2> QED BY <2>1, <1>3, FS_Surjection
<1>5. ASSUME NEW i \in 1..Len(t)
      PROVE  segs[LastTable(segs, header, t[i])].kind = "dqt"
  <2> DEFINE places == {j \in Of(segs, header, "dqt") : segs[j].id = t[i]}
  <2>1. t[i] \in ToSet(t)
    BY <1>1 DEF ToSet
  <2>2. LastTable(segs, header, t[i]) # 0
    BY <2>1 DEF HasTablesOf
  <2>3. LastTable(segs, header, t[i]) = LastAt(places) /\ places # {} /\ LastAt(places) = Max(places)
    BY <2>2 DEF LastTable, LastAt
  <2>4. Max(places) \in places
    <3>1. places \subseteq 1..Len(segs) /\ Len(segs) \in Nat
      BY DEF Of
    <3> HIDE DEF places
    <3> DEFINE back == {Len(segs) - j : j \in places}
    <3>2. back \subseteq Nat /\ back # {}
      <4>1. \A j \in places : Len(segs) - j \in Nat
        BY <3>1
      <4>2. places # {}
        BY <2>3
      <4> QED BY <4>1, <4>2
    <3>3. PICK n \in back : \A m \in back : n <= m
      BY <3>2, Smallest
    <3>4. PICK j \in places : n = Len(segs) - j
      BY <3>3
    <3>5. \A k \in places : k <= j
      <4> SUFFICES ASSUME NEW k \in places
                   PROVE  k <= j
        OBVIOUS
      <4>1. n <= Len(segs) - k
        BY <3>3
      <4> QED BY <4>1, <3>4, <3>1
    <3> QED BY <3>5 DEF Max
  <2> QED BY <2>3, <2>4 DEF Of
<1> QED BY <1>2, <1>4, <1>5

\* What tjTransform writes can be given to libjpeg.
LEMMA TransformedIsJpeg ==
  ASSUME NEW jpeg, IsJpeg(jpeg), DecoderFrame(jpeg).found, HasTables(jpeg), NEW op, NEW progressive \in BOOLEAN
  PROVE  IsJpeg(Transformed(jpeg, op, progressive))
<1> DEFINE frame == DecoderFrame(jpeg)
           header == DecodedHeader(jpeg)
           T == Tables(jpeg.segs, header, frame)
           first == IF IsRgb(jpeg) THEN [kind |-> "adobe", bare |-> FALSE, rgb |-> TRUE] ELSE Framing("app")
           resized == Resized(frame, Turned(op, frame.width, frame.height), progressive)
           out == Transformed(jpeg, op, progressive)
           S == T \cup {first, resized, Framing("sos")}
<1>1. frame \in Decoded
  BY FrameIsDecoded
<1>2. frame.width \in Nat /\ frame.height \in Nat /\ frame.tables \in Seq(Nat)
  BY <1>1 DEF Decoded
<1>3. IsFiniteSet(T) /\ \A g \in T : g.kind = "dqt"
  <2>1. header \subseteq DOMAIN jpeg.segs
    BY DEF DecodedHeader, BeforeScan, Framed
  <2>2. jpeg.segs \in Seq(ToSet(jpeg.segs))
    BY DEF IsJpeg
  <2>3. HasTablesOf(jpeg.segs, header, frame)
    BY DEF HasTables
  <2> HIDE DEF header, frame
  <2> QED BY <1>2, <2>1, <2>2, <2>3, TablesAreTables
<1>4. first.kind # "sof" /\ Framing("sos").kind # "sof"
  BY DEF Framing
<1>5. resized \in Frames
  <2>1. Turned(op, frame.width, frame.height)[1] \in Nat /\ Turned(op, frame.width, frame.height)[2] \in Nat
    BY <1>2, TurnedSize
  <2> HIDE DEF frame
  <2> QED BY <1>2, <2>1 DEF Resized, Frames
<1>6. \A g \in S : g.kind = "sof" => g \in Frames
  BY <1>3, <1>4, <1>5
<1>7. out.segs = <<first>> \o SetToSeq(T) \o <<resized, Framing("sos")>>
  BY DEF Transformed, Rewritten
<1>8. out.segs \in Seq(S)
  <2>1. SetToSeq(T) \in Seq(T)
    BY <1>3, AsSequence
  <2> DEFINE q == SetToSeq(T)
             z == Framing("sos")
  <2> HIDE DEF first, resized, T, out, q, z
  <2>2. q \in Seq(S)
    BY <2>1 DEF q
  <2>3. <<first>> \in Seq(S) /\ <<resized, z>> \in Seq(S)
    BY DEF z
  <2>4. (<<first>> \o q) \o <<resized, z>> \in Seq(S)
    BY <2>2, <2>3
  <2> QED BY <2>4, <1>7 DEF q, z
<1> HIDE DEF S, out
<1> QED BY <1>6, <1>8, JpegOf DEF out

\* keep_adobe_segment only moves a segment, by one place at most.
LEMMA KeptSegments ==
  ASSUME NEW S, NEW segs \in Seq(S), NEW offset \in 1..Len(segs)
  PROVE  /\ KeepAdobe(segs, offset).segs \in Seq(S)
         /\ KeepAdobe(segs, offset).from \in {offset, offset - 1}
<1> DEFINE at == FirstAt(Of(segs, 1..(offset - 1), "adobe"))
<1>1. Len(segs) \in Nat /\ offset \in Nat
  OBVIOUS
<1>2. at \in Nat /\ (at # 0 => at \in 1..(offset - 1))
  <2>1. Of(segs, 1..(offset - 1), "adobe") \subseteq 1..(offset - 1)
    BY DEF Of
  <2>2. Of(segs, 1..(offset - 1), "adobe") \subseteq Nat
    BY <2>1, <1>1
  <2> QED BY <2>1, <2>2, FirstPlace
<1>3. CASE at = 0
  <2>1. KeepAdobe(segs, offset) = [segs |-> segs, from |-> offset]
    BY <1>3 DEF KeepAdobe
  <2> QED BY <2>1
<1>4. CASE at # 0
  <2> DEFINE a == SubSeq(segs, 1, at - 1)
             b == SubSeq(segs, at + 1, offset - 1)
             c == SubSeq(segs, offset, Len(segs))
  <2>1. KeepAdobe(segs, offset) = [segs |-> a \o b \o <<segs[at]>> \o c, from |-> offset - 1]
    BY <1>4 DEF KeepAdobe
  <2>2. at \in 1..(offset - 1) /\ at \in 1..Len(segs)
    BY <1>1, <1>2, <1>4
  <2>3. a \in Seq(S) /\ b \in Seq(S) /\ c \in Seq(S) /\ segs[at] \in S
    <3> HIDE DEF at
    <3>1. a \in Seq(S)
      BY <2>2, <1>1
    <3>2. b \in Seq(S)
      BY <2>2, <1>1
    <3>3. c \in Seq(S)
      BY <1>1
    <3> QED BY <3>1, <3>2, <3>3, <2>2
  <2> HIDE DEF a, b, c, at
  <2>4. a \o b \o <<segs[at]>> \o c \in Seq(S)
    BY <2>3
  <2> QED BY <2>1, <2>4
<1> QED BY <1>3, <1>4

\* An optimized cover is an image, in front of whose tables stands an Adobe segment
\* or nothing.
LEMMA OptimizedIsJpeg ==
  ASSUME NEW jpeg, IsJpeg(jpeg), NEW progressive \in BOOLEAN, NEW enforce, NEW limits,
         Optimize(jpeg, progressive, enforce, limits).found
  PROVE  /\ IsJpeg(Optimize(jpeg, progressive, enforce, limits).jpeg)
         /\ Optimize(jpeg, progressive, enforce, limits).leading \in Nat
<1> DEFINE o == Optimize(jpeg, progressive, enforce, limits)
           op == TransformOp(Prescan(jpeg).orientation)
           out == Transformed(jpeg, op, progressive)
           info == Inspect(out.segs)
           kept == KeepAdobe(out.segs, info.offset)
<1>1. Nothing.found = FALSE
  BY DEF Nothing
<1>2. HeaderAccepted(jpeg, limits) /\ CanTransform(jpeg) /\ o = Finish(out, info, op, enforce)
  BY <1>1 DEF Optimize, Turn, Rewrite
<1>3. info.found /\ info.offset # 0 /\ o = Cut(out, info, kept, op)
  BY <1>1, <1>2 DEF Finish
<1>4. IsJpeg(out)
  <2>1. DecoderFrame(jpeg).found /\ HasTables(jpeg)
    BY <1>2 DEF HeaderAccepted, FramesAccepted, CanTransform
  <2> QED BY <2>1, TransformedIsJpeg
<1> HIDE DEF out
<1>5. out.segs \in Seq(ToSet(out.segs)) /\ \A g \in ToSet(out.segs) : g.kind = "sof" => g \in Frames
  BY <1>4 DEF IsJpeg
<1>6. info.offset = FirstAt(Of(out.segs, UpToScan(out.segs), "dqt"))
  BY <1>1, <1>3 DEF Inspect, InspectHeader
<1>7. info.offset \in 1..Len(out.segs)
  <2>1. DOMAIN out.segs = 1..Len(out.segs) /\ Len(out.segs) \in Nat
    BY <1>5
  <2>2. Of(out.segs, UpToScan(out.segs), "dqt") \subseteq DOMAIN out.segs
    BY DEF Of, UpToScan, BeforeScan
  <2>3. Of(out.segs, UpToScan(out.segs), "dqt") \subseteq Nat
    BY <2>1, <2>2
  <2>4. info.offset \in Of(out.segs, UpToScan(out.segs), "dqt")
    BY <2>3, <1>3, <1>6, FirstPlace
  <2> QED BY <2>1, <2>2, <2>4
<1>8. kept.segs \in Seq(ToSet(out.segs)) /\ kept.from \in {info.offset, info.offset - 1}
  <2> HIDE DEF info
  <2> QED BY <1>5, <1>7, KeptSegments
<1>9. o.jpeg = [out EXCEPT !.segs = kept.segs] /\ o.leading = (info.offset - kept.from) * AdobeLength
  BY <1>3 DEF Cut
<1>10. "segs" \in DOMAIN out
  BY DEF out, Transformed, Rewritten
<1> HIDE DEF kept, info, o
<1>11. o.jpeg.segs = kept.segs
  BY <1>9, <1>10
<1>12. IsJpeg(o.jpeg)
  BY <1>5, <1>8, <1>11, JpegOf
<1>13. o.leading \in Nat
  <2>1. info.offset - kept.from \in {0, 1}
    BY <1>7, <1>8
  <2> QED BY <2>1, <1>9 DEF AdobeLength
<1> QED BY <1>12, <1>13 DEF o

LEMMA SourceIsJpeg ==
  ASSUME NEW jpeg, IsJpeg(jpeg), NEW limits, CarrierSource(jpeg, limits).found
  PROVE  IsJpeg(CarrierSource(jpeg, limits).jpeg)
<1>1. CASE NeedsNoNormalization(jpeg, limits)
  BY <1>1 DEF CarrierSource, AsRead
<1>2. CASE ~NeedsNoNormalization(jpeg, limits)
  <2>1. CarrierSource(jpeg, limits) = Optimize(jpeg, FALSE, FALSE, limits)
    BY <1>2 DEF CarrierSource
  <2> QED BY <2>1, OptimizedIsJpeg
<1> QED BY <1>1, <1>2

-----------------------------------------------------------------------------
(* The sizes grow with what is stored, and the envelope is never smaller.  *)

LEMMA Product == \A k \in Nat \ {0}, p, q \in Nat : p < q => k * p + k <= k * q
  <1> SUFFICES ASSUME NEW k \in Nat \ {0}, NEW p \in Nat, NEW q \in Nat, p < q
               PROVE k * p + k <= k * q
    OBVIOUS
  <1>1. PICK r \in Nat : q = p + 1 + r
    <2>1. q - p - 1 \in Nat /\ q = p + 1 + (q - p - 1)
      OBVIOUS
    <2> QED BY <2>1
  <1>2. k * q = k * p + k + k * r
    BY <1>1, Z3
  <1>3. k * r \in Nat /\ k * p \in Nat
    BY Z3
  <1> QED BY <1>2, <1>3

LEMMA Quotient ==
  \A k \in Nat \ {0}, n \in Nat :
    /\ n \div k \in Nat
    /\ k * (n \div k) <= n /\ n < k * (n \div k) + k
  BY Z3

LEMMA QuotientGrows ==
  \A k \in Nat \ {0}, m, n \in Nat : m <= n => m \div k <= n \div k
  <1> SUFFICES ASSUME NEW k \in Nat \ {0}, NEW m \in Nat, NEW n \in Nat, m <= n,
                      n \div k < m \div k
               PROVE FALSE
    BY Quotient
  <1> DEFINE p == n \div k
             q == m \div k
  <1>1. p \in Nat /\ q \in Nat /\ k * q <= m /\ n < k * p + k
    BY Quotient
  <1>2. k * p + k <= k * q
    BY <1>1, Product
  <1>3. k * p \in Int /\ k * q \in Int
    BY <1>1, Z3
  <1> QED BY <1>1, <1>2, <1>3

LEMMA ChunksGrow ==
  \A m, n \in Nat : m <= n => Chunks(m) \in Nat /\ Chunks(n) \in Nat /\ Chunks(m) <= Chunks(n)
  <1> SUFFICES ASSUME NEW m \in Nat, NEW n \in Nat, m <= n
               PROVE Chunks(m) \in Nat /\ Chunks(n) \in Nat /\ Chunks(m) <= Chunks(n)
    OBVIOUS
  <1>1. m + ChunkSize - 1 \in Nat /\ n + ChunkSize - 1 \in Nat /\ ChunkSize \in Nat \ {0}
    BY CapacitySearchAssumption
  <1>2. m + ChunkSize - 1 <= n + ChunkSize - 1
    BY <1>1
  <1> QED BY <1>1, <1>2, Quotient, QuotientGrows DEF Chunks

\* The overhead of the chunks is a product of two unknowns: it, too, only grows.
LEMMA OverheadGrows ==
  \A m, n \in Nat : m <= n =>
    /\ Chunks(m) * PerChunk \in Nat /\ Chunks(n) * PerChunk \in Nat
    /\ Chunks(m) * PerChunk <= Chunks(n) * PerChunk
  <1> SUFFICES ASSUME NEW m \in Nat, NEW n \in Nat, m <= n
               PROVE /\ Chunks(m) * PerChunk \in Nat /\ Chunks(n) * PerChunk \in Nat
                     /\ Chunks(m) * PerChunk <= Chunks(n) * PerChunk
    OBVIOUS
  <1> DEFINE p == Chunks(m)
             q == Chunks(n)
  <1>1. p \in Nat /\ q \in Nat /\ p <= q /\ PerChunk \in Nat
    BY ChunksGrow, CapacitySearchAssumption
  <1> HIDE DEF p, q
  <1>2. \A a, b, c \in Nat : a <= b => a * c \in Nat /\ b * c \in Nat /\ a * c <= b * c
    BY Z3
  <1>3. p * PerChunk \in Nat /\ q * PerChunk \in Nat /\ p * PerChunk <= q * PerChunk
    BY <1>1, <1>2
  <1> QED BY <1>3 DEF p, q

\* More plaintext never makes a shorter stream, and a stream is no shorter than its
\* plaintext.
LEMMA EstimateGrows ==
  \A m, n, prefix \in Nat : m <= n =>
    /\ Estimate(m, prefix) \in Nat /\ Estimate(n, prefix) \in Nat
    /\ Estimate(m, prefix) <= Estimate(n, prefix)
    /\ m <= Estimate(m, prefix)
  <1> SUFFICES ASSUME NEW m \in Nat, NEW n \in Nat, NEW prefix \in Nat, m <= n
               PROVE /\ Estimate(m, prefix) \in Nat /\ Estimate(n, prefix) \in Nat
                     /\ Estimate(m, prefix) <= Estimate(n, prefix)
                     /\ m <= Estimate(m, prefix)
    OBVIOUS
  <1>1. m + prefix \in Nat /\ n + prefix \in Nat /\ m + prefix <= n + prefix
    OBVIOUS
  <1>2. /\ Chunks(m + prefix) * PerChunk \in Nat /\ Chunks(n + prefix) * PerChunk \in Nat
        /\ Chunks(m + prefix) * PerChunk <= Chunks(n + prefix) * PerChunk
    BY <1>1, OverheadGrows
  <1> QED BY <1>1, <1>2 DEF Estimate

\* What is larger than a payload that does not fit does not fit; nothing larger than
\* the capacity fits.
LEMMA FitsUpTo ==
  ASSUME SearchTypeOK
  PROVE /\ \A m, n \in Nat : m <= n /\ Fits(n) => Fits(m)
        /\ ~Fits(capacity + 1)
  <1>1. capacity \in Nat /\ nameLength \in Nat /\ 1 + nameLength \in Nat /\ EnvelopeHeader \in Nat
    BY CapacitySearchAssumption DEF SearchTypeOK
  <1>2. ASSUME NEW m \in Nat, NEW n \in Nat, m <= n, Fits(n)
        PROVE Fits(m)
    <2>1. /\ Estimate(m, 1 + nameLength) \in Nat /\ Estimate(n, 1 + nameLength) \in Nat
          /\ Estimate(m, 1 + nameLength) <= Estimate(n, 1 + nameLength)
      BY <1>1, <1>2, EstimateGrows
    <2> QED BY <1>1, <1>2, <2>1 DEF Fits, EnvelopeSize
  <1>3. ~Fits(capacity + 1)
    <2>1. /\ Estimate(capacity + 1, 1 + nameLength) \in Nat
          /\ capacity + 1 <= Estimate(capacity + 1, 1 + nameLength)
      BY <1>1, EstimateGrows
    <2> QED BY <1>1, <2>1 DEF Fits, EnvelopeSize
  <1> QED BY <1>2, <1>3

-----------------------------------------------------------------------------
(* The bisection.                                                          *)

\* The answer lies between lower and upper all the time.
SearchInv ==
  /\ SearchTypeOK
  /\ search = "bisect" => Fits(0) /\ lower <= upper /\ Fits(lower) /\ ~Fits(upper + 1)
  /\ CapacityIsExact

LEMMA MiddleIsBetween ==
  ASSUME SearchTypeOK, lower < upper
  PROVE Middle \in Nat /\ lower < Middle /\ Middle <= upper
  <1>1. lower \in Nat /\ upper \in Nat /\ upper - lower \in Nat /\ upper - lower >= 1
    BY DEF SearchTypeOK
  <1>2. \A x \in Nat : x >= 1 => (x + 1) \div 2 \in Nat /\ (x + 1) \div 2 >= 1 /\ (x + 1) \div 2 <= x
    BY Z3
  <1> DEFINE half == (upper - lower + 1) \div 2
  <1>3. half \in Nat /\ half >= 1 /\ half <= upper - lower
    BY <1>1, <1>2
  <1>4. Middle = lower + half
    BY DEF Middle
  <1> HIDE DEF half
  <1> QED BY <1>1, <1>3, <1>4

LEMMA SearchStart == SearchInit => SearchInv
  BY DEF SearchInit, SearchIdle, SearchInv, SearchTypeOK, CapacityIsExact

LEMMA AskingKeeps ==
  ASSUME SearchInv, NEW c \in Nat, NEW n \in Nat, AskFor(c, n)
  PROVE  SearchInv'
  BY DEF AskFor, SearchInv, SearchTypeOK, CapacityIsExact

LEMMA RestingKeeps ==
  ASSUME SearchInv, UNCHANGED searchVars
  PROVE  SearchInv'
  BY DEF SearchInv, searchVars, SearchTypeOK, CapacityIsExact, Fits

LEMMA SearchingKeeps ==
  ASSUME SearchInv, SearchStep
  PROVE  SearchInv'
  <1> USE DEF SearchInv
  <1>2. CASE Probe
    <2>1. SearchTypeOK'
      BY <1>2 DEF Probe, SearchTypeOK
    <2>2. capacity' = capacity /\ nameLength' = nameLength /\ lower' = 0
      BY <1>2 DEF Probe
    <2>3. CASE Fits(0)
      <3>1. search' = "bisect" /\ upper' = capacity
        BY <1>2, <2>3 DEF Probe
      <3>2. Fits(0)' /\ Fits(lower)' /\ ~Fits(upper + 1)'
        BY <2>2, <2>3, <3>1, FitsUpTo DEF Fits
      <3>3. (lower <= upper)'
        BY <2>1, <2>2 DEF SearchTypeOK
      <3> QED BY <2>1, <3>1, <3>2, <3>3 DEF CapacityIsExact
    <2>4. CASE ~Fits(0)
      <3>1. search' = "found" /\ ~Fits(0)'
        BY <1>2, <2>2, <2>4 DEF Probe, Fits
      <3> QED BY <2>1, <2>2, <3>1 DEF CapacityIsExact
    <2> QED BY <2>3, <2>4
  <1>3. CASE Bisect
    <2>1. search' = "bisect" /\ capacity' = capacity /\ nameLength' = nameLength /\ search = "bisect"
      BY <1>3 DEF Bisect
    <2>2. lower < upper /\ Middle \in Nat /\ lower < Middle /\ Middle <= upper
      BY <1>3, MiddleIsBetween DEF Bisect
    <2>3. lower \in Nat /\ upper \in Nat
      BY DEF SearchTypeOK
    <2>4. CASE Fits(Middle)
      <3>1. lower' = Middle /\ upper' = upper
        BY <1>3, <2>4 DEF Bisect
      <3>2. SearchTypeOK'
        BY <2>1, <2>2, <2>3, <3>1 DEF SearchTypeOK
      <3>3. Fits(0)' /\ Fits(lower)' /\ ~Fits(upper + 1)'
        BY <2>1, <2>4, <3>1 DEF Fits
      <3> QED BY <2>1, <2>2, <3>1, <3>2, <3>3 DEF CapacityIsExact
    <2>5. CASE ~Fits(Middle)
      <3>1. upper' = Middle - 1 /\ lower' = lower
        BY <1>3, <2>5 DEF Bisect
      <3>2. SearchTypeOK' /\ (lower <= upper)' /\ upper' + 1 = Middle
        BY <2>1, <2>2, <2>3, <3>1 DEF SearchTypeOK
      <3>3. Fits(0)' /\ Fits(lower)' /\ ~Fits(upper + 1)'
        BY <2>1, <2>5, <3>1, <3>2 DEF Fits
      <3> QED BY <2>1, <3>2, <3>3 DEF CapacityIsExact
    <2> QED BY <2>4, <2>5
  <1>4. CASE Found
    <2>1. /\ search' = "found" /\ search = "bisect" /\ lower = upper
          /\ UNCHANGED <<capacity, nameLength, lower, upper>>
      BY <1>4 DEF Found
    <2>2. SearchTypeOK'
      BY <2>1 DEF SearchTypeOK
    <2>3. Fits(0)' /\ Fits(lower)' /\ ~Fits(lower + 1)'
      BY <2>1 DEF Fits
    <2> QED BY <2>1, <2>2, <2>3 DEF CapacityIsExact
  <1> QED BY <1>2, <1>3, <1>4 DEF SearchStep

LEMMA SearchInduction == SearchInv /\ [SearchNext]_searchVars => SearchInv'
  BY AskingKeeps, RestingKeeps, SearchingKeeps DEF SearchNext

LEMMA SearchInvariant == SearchSpec => []SearchInv
  <1> QED BY SearchStart, SearchInduction, PTL DEF SearchSpec

\* The types of the search.  max_carrier_stored_payload works with usize: neither
\* bound is ever negative.
THEOREM TypeCorrect == SearchSpec => []SearchTypeOK
  <1>1. SearchInv => SearchTypeOK
    BY DEF SearchInv
  <1> QED BY <1>1, SearchInvariant, PTL

\* max_carrier_stored_payload returns the largest payload that fits, to the byte, or 0
\* when none does, although the sizes grow by jumps.
THEOREM LargestPayload == SearchSpec => []CapacityIsExact
  <1>1. SearchInv => CapacityIsExact
    BY DEF SearchInv
  <1> QED BY <1>1, SearchInvariant, PTL

\* Every round of max_carrier_stored_payload leaves fewer candidates, so it ends.
THEOREM RoundsShrink == SearchSpec => SearchShrinks
  <1>1. SearchInv /\ [SearchNext]_searchVars =>
          [search = "bisect" /\ search' = "bisect" => upper' - lower' < upper - lower]_searchVars
    <2> SUFFICES ASSUME SearchInv, SearchNext, search = "bisect", search' = "bisect"
                 PROVE upper' - lower' < upper - lower
      OBVIOUS
    <2>1. Bisect
      BY DEF SearchNext, SearchStep, AskFor, Probe, Found
    <2>2. lower < upper /\ Middle \in Nat /\ lower < Middle /\ Middle <= upper
      BY <2>1, MiddleIsBetween DEF Bisect, SearchInv
    <2>3. lower \in Nat /\ upper \in Nat
      BY DEF SearchInv, SearchTypeOK
    <2>4. \/ lower' = Middle /\ upper' = upper
          \/ lower' = lower /\ upper' = Middle - 1
      BY <2>1 DEF Bisect
    <2> QED BY <2>2, <2>3, <2>4
  <1> QED BY <1>1, SearchInvariant, PTL DEF SearchSpec, SearchShrinks

\* What capsize promises for the longest name holds for every shorter one: the envelope
\* never grows when the name gets shorter.
THEOREM ShorterNamesFit ==
  ASSUME NEW payload \in Nat, NEW longest \in Nat, NEW n \in Nat, n <= longest
  PROVE EnvelopeSize(Estimate(payload, 1 + n)) <= EnvelopeSize(Estimate(payload, 1 + longest))
  <1>1. /\ payload + (1 + n) \in Nat /\ payload + (1 + longest) \in Nat
        /\ payload + (1 + n) <= payload + (1 + longest)
        /\ payload + (1 + n) # 0 /\ payload + (1 + longest) # 0
    OBVIOUS
  <1>2. /\ Chunks(payload + (1 + n)) * PerChunk \in Nat
        /\ Chunks(payload + (1 + longest)) * PerChunk \in Nat
        /\ Chunks(payload + (1 + n)) * PerChunk <= Chunks(payload + (1 + longest)) * PerChunk
    BY <1>1, OverheadGrows
  <1> QED BY <1>1, <1>2, CapacitySearchAssumption DEF Estimate, EnvelopeSize

-----------------------------------------------------------------------------
(* Sizes and capacities.                                                   *)

LEMMA LesserOfTwo ==
  ASSUME NEW a \in Int, NEW b \in Int
  PROVE  /\ Min({a, b}) \in {a, b}
         /\ Min({a, b}) <= a /\ Min({a, b}) <= b
BY DEF Min

\* A stream is no shorter than one of its frames, and never empty.
LEMMA StreamSize ==
  ASSUME NEW payload \in Nat, NEW prefix \in Nat \ {0}
  PROVE  /\ Estimate(payload, prefix) \in Nat \ {0}
         /\ Estimate(payload, prefix) >= MinCipher
<1> DEFINE total == payload + prefix
           c == Chunks(total)
<1>1. total \in Nat \ {0} /\ ChunkSize \in Nat \ {0} /\ PerChunk \in Nat
  BY CapacitySearchAssumption
<1>2. c \in Nat \ {0}
  <2>1. total + ChunkSize - 1 \in Nat /\ total + ChunkSize - 1 >= ChunkSize
    BY <1>1
  <2>2. (total + ChunkSize - 1) \div ChunkSize \in Nat
        /\ total + ChunkSize - 1 < ChunkSize * ((total + ChunkSize - 1) \div ChunkSize) + ChunkSize
    BY <2>1, <1>1, Quotient
  <2>3. (total + ChunkSize - 1) \div ChunkSize # 0
    <3>1. ChunkSize * 0 = 0
      BY <1>1
    <3> QED BY <2>1, <2>2, <3>1, <1>1
  <2> QED BY <2>2, <2>3 DEF Chunks
<1>3. Estimate(payload, prefix) = total + c * PerChunk
  BY <1>1 DEF Estimate
<1> HIDE DEF total, c
<1>4. c * PerChunk \in Nat /\ c * PerChunk >= PerChunk
  BY <1>1, <1>2, Z3
<1> QED BY <1>1, <1>3, <1>4 DEF MinCipher

LEMMA IccIsLarger ==
  ASSUME NEW e \in Nat
  PROVE  /\ IccSize(e) \in Nat /\ IccSize(e) - IccTemplate >= e
BY DEF IccSize, IccTemplate, CeilingDiv

\* The blocks of a frame, and its coefficients that may be changed.
LEMMA BlocksOf ==
  ASSUME NEW f, f.width \in Nat, f.height \in Nat
  PROVE  /\ Blocks(f) \in Nat /\ Candidates(f) \in Int /\ Candidates(f) <= f.width * f.height
         /\ f.width <= 8192 /\ f.height <= 8192 => Blocks(f) <= 1048576
<1> DEFINE a == CeilingDiv(f.width, 8)
           b == CeilingDiv(f.height, 8)
<1>1. a \in Nat /\ b \in Nat /\ (f.width <= 8192 => a <= 1024) /\ (f.height <= 8192 => b <= 1024)
  BY DEF CeilingDiv
<1>2. Blocks(f) = a * b
  BY DEF Blocks
<1> HIDE DEF a, b
<1>3. a * b \in Nat /\ (a <= 1024 /\ b <= 1024 => a * b <= 1048576)
  <2>1. a * b \in Nat
    BY <1>1
  <2>2. ASSUME a <= 1024, b <= 1024
        PROVE  a * b <= 1048576
    <3>1. a * b <= 1024 * b
      BY <1>1, <2>2, Z3
    <3> QED BY <3>1, <2>1, <1>1, <2>2
  <2> QED BY <2>1, <2>2
<1>4. f.width * f.height \in Nat
  OBVIOUS
<1> QED BY <1>1, <1>2, <1>3, <1>4 DEF Candidates

LEMMA RedditFits ==
  ASSUME NEW blocks \in Nat, NEW e \in Nat, EnvelopeSize(e) <= RedditCapacity(blocks)
  PROVE  /\ EnvelopeSize(e) * 8 * 3 <= blocks * 10
         /\ blocks <= 1048576 => e <= RedditUpload
<1>1. EnvelopeSize(e) \in Nat /\ e <= EnvelopeSize(e)
  BY CapacitySearchAssumption DEF EnvelopeSize
<1> DEFINE s == EnvelopeSize(e)
<1>2. s <= ((blocks * 10) \div 3) \div 8
  BY DEF RedditCapacity
<1>3. s \in Nat /\ e <= s
  BY <1>1
<1> HIDE DEF s
<1>4. s * 8 * 3 <= blocks * 10
  BY <1>2, <1>3
<1>5. blocks <= 1048576 => e <= 20 * 1048576
  BY <1>3, <1>4
<1> QED BY <1>4, <1>5 DEF s, RedditUpload, MiB

LEMMA TwitterFits ==
  ASSUME NEW candidates \in Int, NEW nonzero \in Nat, NEW e \in Nat \ {0},
         EnvelopeSize(e) <= TwitterCapacity(candidates, nonzero)
  PROVE  /\ HeaderSymbols + RequiredCover(EnvelopeSize(e) * 8) <= candidates
         /\ candidates <= 4096 * 4096 => e <= TwitterUpload
<1>1. EnvelopeSize(e) \in Nat /\ e <= EnvelopeSize(e)
  BY CapacitySearchAssumption DEF EnvelopeSize
<1> DEFINE s == EnvelopeSize(e)
           h == HeaderSymbols
           p == ((nonzero * 2) \div 5) - HeaderBits
           q == ((candidates - HeaderSymbols) * 2) \div 5
<1>2. s \in Nat \ {0} /\ e <= s
  BY <1>1
<1>3. h = 480
  BY DEF HeaderSymbols, RequiredCover, HeaderBits
<1>4. candidates >= h /\ s <= Min({p, q}) \div 8
  <2>1. s <= TwitterCapacity(candidates, nonzero)
    OBVIOUS
  <2> HIDE DEF s
  <2>2. ~(candidates < HeaderSymbols \/ (nonzero * 2) \div 5 <= HeaderBits)
    BY <2>1, <1>2 DEF TwitterCapacity
  <2>3. TwitterCapacity(candidates, nonzero) = Min({p, q}) \div 8
    BY <2>2 DEF TwitterCapacity
  <2>4. candidates >= h
    BY <2>2, <1>3
  <2> QED BY <2>1, <2>3, <2>4
<1>5. p \in Int /\ q \in Int
  BY <1>3 DEF HeaderBits
<1>6. Min({p, q}) \in Int /\ Min({p, q}) <= q
  <2> HIDE DEF p, q
  <2> QED BY <1>5, LesserOfTwo
<1>7. s * 8 <= q
  <2> DEFINE m == Min({p, q})
  <2>1. m \in Int /\ m <= q /\ s <= m \div 8
    BY <1>4, <1>6
  <2> HIDE DEF m, q, s
  <2> QED BY <2>1, <1>2, <1>5
<1>8. q = ((candidates - h) * 2) \div 5
  OBVIOUS
<1> HIDE DEF s, p, q, h
<1>9. s * 8 * 5 <= (candidates - h) * 2
  BY <1>2, <1>3, <1>5, <1>7, <1>8
<1>10. h + ((s * 8) * 5 + 1) \div 2 <= candidates
  BY <1>2, <1>3, <1>9
<1>11. candidates <= 16777216 => e <= 5 * 1048576
  BY <1>2, <1>3, <1>9
<1> QED BY <1>10, <1>11 DEF s, h, RequiredCover, TwitterUpload, MiB

-----------------------------------------------------------------------------
(* The bytes of segments.                                                  *)

Segments == [kind : {"app", "app2", "icc", "bluesky", "tables"}, length : Nat]

\* The bytes of the segments up to each of the first m.
Sums(g, segs, m) == g = [i \in 0..m |-> IF i = 0 THEN 0 ELSE g[i - 1] + segs[i].length]

LEMMA SumsGoOn ==
  ASSUME NEW segs, NEW m \in Nat, NEW g, Sums(g, segs, m)
  PROVE  \E h : Sums(h, segs, m + 1)
<1> DEFINE h == [i \in 0..(m + 1) |-> IF i = m + 1 THEN g[m] + segs[m + 1].length ELSE g[i]]
           r == [i \in 0..(m + 1) |-> IF i = 0 THEN 0 ELSE h[i - 1] + segs[i].length]
<1>1. \A i \in 0..m : g[i] = IF i = 0 THEN 0 ELSE g[i - 1] + segs[i].length
  BY Zenon DEF Sums
<1>2. ASSUME NEW i \in 0..(m + 1)
      PROVE  h[i] = r[i]
  <2>1. CASE i = 0
    <3>1. h[i] = g[0] /\ r[i] = 0 /\ 0 \in 0..m
      BY <2>1
    <3> QED BY <3>1, <1>1
  <2>2. CASE i \in 1..m
    <3>1. i \in 0..m /\ i - 1 \in 0..m /\ i # 0 /\ i # m + 1 /\ i - 1 # m + 1 /\ i - 1 \in 0..(m + 1)
      BY <2>2
    <3>2. h[i] = g[i] /\ h[i - 1] = g[i - 1]
      BY <3>1
    <3>3. r[i] = g[i - 1] + segs[i].length
      BY <3>1, <3>2
    <3> QED BY <3>1, <3>2, <3>3, <1>1
  <2>3. CASE i = m + 1
    <3>1. i - 1 = m /\ i # 0 /\ m \in 0..(m + 1) /\ m # m + 1
      BY <2>3
    <3>2. h[i] = g[m] + segs[m + 1].length /\ h[m] = g[m]
      BY <2>3, <3>1
    <3>3. r[i] = h[i - 1] + segs[i].length
      BY <3>1
    <3> QED BY <2>3, <3>1, <3>2, <3>3
  <2> QED BY <2>1, <2>2, <2>3
<1>3. h = r
  <2>1. h = [i \in 0..(m + 1) |-> h[i]] /\ r = [i \in 0..(m + 1) |-> r[i]]
    OBVIOUS
  <2> HIDE DEF h, r
  <2>2. [i \in 0..(m + 1) |-> h[i]] = [i \in 0..(m + 1) |-> r[i]]
    BY <1>2
  <2> QED BY <2>1, <2>2
<1>4. Sums(h, segs, m + 1)
  <2> HIDE DEF h
  <2> QED BY <1>3 DEF Sums
<1> QED BY <1>4

LEMMA BytesAre ==
  ASSUME NEW segs, Len(segs) \in Nat
  PROVE  \E g : Sums(g, segs, Len(segs)) /\ BytesOf(segs) = g[Len(segs)]
<1> DEFINE l == Len(segs)
           T == {m \in Nat : \E g : Sums(g, segs, m)}
           all == CHOOSE g : Sums(g, segs, l)
<1>1. 0 \in T
  <2> DEFINE g == [i \in 0..0 |-> 0]
  <2>1. g = [i \in 0..0 |-> IF i = 0 THEN 0 ELSE g[i - 1] + segs[i].length]
    OBVIOUS
  <2> HIDE DEF g
  <2>2. Sums(g, segs, 0)
    BY <2>1 DEF Sums
  <2> QED BY <2>2
<1>2. \A m \in 0..(l - 1) : m \in T => m + 1 \in T
  BY SumsGoOn
<1>3. 0..l \subseteq T
  <2> HIDE DEF T
  <2> QED BY <1>1, <1>2, Induction
<1>4. Sums(all, segs, l)
  <2>1. l \in T
    BY <1>3
  <2> HIDE DEF Sums
  <2> QED BY <2>1
<1>5. BytesOf(segs) = all[l]
  BY Zenon DEF BytesOf, Sums
<1> HIDE DEF all
<1> QED BY <1>4, <1>5

\* Of n segments of a length each, and others, the bytes are n times the length at least.
LEMMA BytesAtLeast ==
  ASSUME NEW segs \in Seq(Segments), NEW n \in 0..Len(segs), NEW length \in Nat,
         \A i \in 1..n : segs[i].length = length
  PROVE  BytesOf(segs) \in Nat /\ BytesOf(segs) >= n * length
<1> DEFINE l == Len(segs)
<1>1. l \in Nat /\ n \in Nat /\ \A i \in 1..l : segs[i].length \in Nat
  <2>1. l \in Nat /\ n \in Nat /\ \A i \in 1..l : segs[i] \in Segments
    OBVIOUS
  <2> QED BY <2>1 DEF Segments
<1>2. PICK g : Sums(g, segs, l) /\ BytesOf(segs) = g[l]
  BY <1>1, BytesAre
<1>3. \A i \in 0..l : g[i] = IF i = 0 THEN 0 ELSE g[i - 1] + segs[i].length
  BY <1>2, Zenon DEF Sums
<1> DEFINE T == {i \in 0..l : /\ g[i] \in Nat
                              /\ i <= n => g[i] >= i * length
                              /\ i >= n => g[i] >= n * length}
<1> HIDE DEF l
<1>4. 0 \in T
  <2>1. g[0] = 0 /\ 0 \in 0..l /\ 0 * length = 0
    BY <1>1, <1>3
  <2>2. 0 >= n => n = 0
    BY <1>1
  <2> QED BY <2>1, <2>2
<1>5. ASSUME NEW i \in 0..(l - 1), i \in T
      PROVE  i + 1 \in T
  <2>1. i + 1 \in 0..l /\ i + 1 \in 1..l /\ i + 1 # 0 /\ (i + 1) - 1 = i /\ i \in 0..l
    BY <1>1
  <2>2. g[i + 1] = g[i] + segs[i + 1].length /\ segs[i + 1].length \in Nat /\ g[i] \in Nat
    BY <2>1, <1>1, <1>3, <1>5
  <2>3. (i + 1) * length = i * length + length /\ i * length \in Nat /\ n * length \in Nat
    BY <1>1, Z3
  <2>6. g[i + 1] \in Nat
    BY <2>2
  <2>4. CASE i + 1 <= n
    <3>1. segs[i + 1].length = length /\ g[i] >= i * length
      BY SMTT(30), <2>4, <2>1, <1>1, <1>5
    <3>2. g[i + 1] >= (i + 1) * length
      BY <3>1, <2>2, <2>3
    <3>3. i + 1 >= n => i + 1 = n
      BY <2>4, <1>1
    <3>4. i + 1 >= n => g[i + 1] >= n * length
      BY <3>2, <3>3
    <3> QED BY <2>1, <2>6, <3>2, <3>4, Zenon
  <2>5. CASE ~(i + 1 <= n)
    <3>1. i >= n
      BY <2>5, <1>1
    <3>2. g[i] >= n * length
      BY <3>1, <1>5
    <3>3. g[i + 1] >= n * length
      BY <3>2, <2>2, <2>3
    <3> QED BY <2>1, <2>5, <2>6, <3>3, Zenon
  <2> QED BY <2>4, <2>5
<1>6. l \in T
  <2> HIDE DEF T
  <2>1. 0..l \subseteq T
    BY <1>1, <1>4, <1>5, Induction
  <2> QED BY <2>1, <1>1
<1>7. l >= n
  BY <1>1 DEF l
<1> QED BY <1>2, <1>6, <1>7

LEMMA BytesAreNatural ==
  ASSUME NEW segs \in Seq(Segments)
  PROVE  BytesOf(segs) \in Nat
BY BytesAtLeast

-----------------------------------------------------------------------------
(* What is known in the course of a run.                                   *)

\* The task, the files and their sizes.
Given ==
  /\ task \in {"conceal", "capsize"} /\ mode \in Modes /\ (task = "capsize" => mode \in Carriers)
  /\ CoverFile(coverFile) /\ dataFile \in DataFiles /\ name \in Nat
  /\ measured \in Nat
  /\ pc \notin {"start", "refused"} => measured <= LargestData[mode]
  /\ pc # "refused" => refusal = "none"

\* The cover, from its preparation to the image.
Frame == DecoderFrame(cover.jpeg)
CoverIsPrepared ==
  /\ cover.size \in Nat
  /\ mode \notin Carriers => cover.leading \in Nat
  /\ mode \in Carriers =>
       /\ Frame \in Decoded /\ Allowed(Frame, CarrierLimits)
       /\ cover.blocks = Blocks(Frame) /\ cover.candidates = Candidates(Frame)
       /\ cover.capacity = CarrierCapacity(Frame)
       /\ mode = "reddit" => cover.blocks >= RedditHeaderSlots
Covered ==
  pc \in {"format", "payload", "limits", "encrypt", "embed", "tooMuch", "capsize"} => CoverIsPrepared

\* The payload, deflated in the Bluesky mode, and what is encrypted of it.
Held ==
  /\ pc \in {"payload"} /\ mode = "bluesky" => bypass = FALSE
  /\ pc \in {"limits", "encrypt", "embed", "tooMuch"} =>
       /\ stored.size \in Nat /\ stored.deflated \in BOOLEAN
       /\ stored.deflated => stored.data.size = measured
       /\ ~stored.deflated => stored.size = measured /\ mode # "bluesky"
Fitting ==
  pc \in {"encrypt", "embed"} =>
    /\ mode = "default" => IccSize(Encrypted) + cover.size <= MaxConceal
    /\ mode = "bluesky" => Encrypted <= BlueskyCapacity /\ Encrypted <= MaxBlueskyData
    /\ mode \in Carriers => EnvelopeSize(Encrypted) <= cover.capacity
IsSealed ==
  /\ sealed.key = <<"shown", Costs>> /\ sealed.mode \in BOOLEAN
  /\ sealed.data.size = measured /\ sealed.name = name
  /\ mode = "bluesky" => sealed.mode = TRUE
  /\ sealed.size \in Nat \ {0} /\ sealed.size >= MinCipher
SealedSoFar ==
  /\ pc \in {"embed", "deliver", "shown", "posted", "key", "recovered"} => IsSealed
  /\ pc = "embed" => sealed.size = Encrypted

\* The image, whatever stands in front of it.
IsFronted(last) ==
  /\ Len(image.segs) # 0 /\ image.segs[Len(image.segs)].kind = last
  /\ \A i \in 1..(Len(image.segs) - 1) : image.segs[i].kind \in {"app", "app2"}
Before == SubSeq(image.segs, 1, Len(image.segs) - 1)
IsIccImage ==
  /\ IsFronted("icc") /\ image.size <= MaxConceal + BytesOf(Before)
  /\ DeclaredAccepted("icc")
  /\ image.fields = [at \in {KdfAt, MarkAt} |->
                       IF at = KdfAt THEN Costs ELSE IF sealed.mode THEN OtherBytes ELSE Raw]
IsBlueskyImage ==
  /\ IsFronted("bluesky") /\ (Len(image.segs) = 1 /\ pc # "deliver" => image.size <= MaxBlueskyImage)
  /\ DeclaredAccepted("bluesky")
  /\ image.fields = [at \in {BlueskyKdfAt} |-> Costs]
IsCarrierImage ==
  /\ Len(image.segs) # 0 /\ \A i \in 1..Len(image.segs) : image.segs[i].kind \in {"app", "app2", "tables"}
  /\ mode = "twitter" => TwitterReads(image.frame)
  /\ mode = "reddit" => RedditReads(image.frame)
  /\ DeclaredAccepted(mode) /\ image.costs = Costs /\ image.deflated = sealed.mode
Written ==
  pc \in {"deliver", "shown", "posted", "key"} =>
    /\ {"mode", "segs", "size", "declared"} \subseteq DOMAIN image
    /\ IF mode \in Carriers THEN {"frame", "costs", "deflated"} \subseteq DOMAIN image
       ELSE "fields" \in DOMAIN image
    /\ image.mode = mode /\ image.size \in Int /\ image.segs \in Seq(Segments)
    /\ mode = "default" => IsIccImage
    /\ mode = "bluesky" => IsBlueskyImage
    /\ mode \in Carriers => IsCarrierImage

\* What recover takes the image for.
Taken ==
  /\ pc \notin {"key", "recovered", "refused"} => layout = "unknown"
  /\ pc = "key" => /\ layout \in {"icc", "bluesky", "carrier"}
                   /\ layout = "icc" => mode = "default"
                   /\ layout = "bluesky" => mode = "bluesky"
                   /\ layout = "carrier" => mode \in Carriers \/ ~FrontIsBorne

\* What the search is for.
Asked ==
  /\ pc = "tooMuch" => ~Fits(stored.size)
  /\ pc = "capsize" => nameLength = MaxName

RunInv ==
  /\ Given /\ Covered /\ Held /\ Fitting /\ SealedSoFar /\ Written /\ Taken /\ Asked
  /\ SearchInv /\ LimitsAgree /\ RecoveredAsConcealed

LEMMA RunStarts ==
  PipelineInit => RunInv
<1> SUFFICES ASSUME PipelineInit
             PROVE  RunInv
  OBVIOUS
<1>1. pc = "start" /\ refusal = "none" /\ layout = "unknown" /\ SearchIdle
  BY DEF PipelineInit
<1>2. Given
  <2>1. PICK input \in Inputs : coverFile = input[1] /\ dataFile = input[2]
    BY DEF PipelineInit
  <2> QED BY <2>1, PipelineAssumption DEF PipelineInit, Given
<1>3. SearchInv
  BY <1>1, SearchStart DEF SearchInit
<1>4. LimitsAgree
  BY <1>1 DEF LimitsAgree
<1>5. RecoveredAsConcealed
  BY <1>1 DEF RecoveredAsConcealed
<1> QED BY <1>1, <1>2, <1>3, <1>4, <1>5
     DEF RunInv, Covered, Held, Fitting, SealedSoFar, Written, Taken, Asked

-----------------------------------------------------------------------------
(* The steps of conceal.                                                   *)

\* Nothing that was chosen, and no file, is changed by conceal.
Same == UNCHANGED <<task, mode, coverFile, dataFile, name, layout, typed, output>>

\* A refusal that says nothing of the limits, before recover.
LEMMA RefusedBefore ==
  ASSUME RunInv, Same, pc \notin {"key", "recovered", "refused"}, measured' \in Nat,
         pc' = "refused", SearchInv',
         refusal' \in {"input", "cover", "changed", "final size"} \/ LimitsAgree'
  PROVE  RunInv'
<1>1. layout' = "unknown"
  BY DEF RunInv, Taken, Same
<1>2. Given'
  BY DEF RunInv, Given, Same
<1>3. LimitsAgree'
  BY DEF LimitsAgree
<1>4. RecoveredAsConcealed'
  BY <1>1 DEF RecoveredAsConcealed
<1> QED BY <1>1, <1>2, <1>3, <1>4
     DEF RunInv, Covered, Held, Fitting, SealedSoFar, Written, Taken, Asked

\* A step that refuses nothing, before recover.
LEMMA GoesOn ==
  ASSUME RunInv, Same, pc \notin {"key", "recovered", "refused"}, measured' \in Nat,
         pc' \notin {"start", "key", "recovered", "refused"},
         refusal' = refusal, measured' <= LargestData[mode], SearchInv',
         Covered', Held', Fitting', SealedSoFar', Written', Asked',
         pc' \in {"told", "shown"} => LimitsAgree'
  PROVE  RunInv'
<1>1. layout' = "unknown" /\ refusal' = "none"
  BY DEF RunInv, Taken, Same, Given
<1>2. Given'
  BY <1>1 DEF RunInv, Given, Same, LargestData
<1>3. LimitsAgree'
  BY <1>1 DEF LimitsAgree
<1>4. RecoveredAsConcealed'
  BY <1>1 DEF RecoveredAsConcealed
<1>5. Taken'
  BY <1>1 DEF Taken
<1> QED BY <1>2, <1>3, <1>4, <1>5 DEF RunInv

\* What is known before an image is there.
LEMMA NoImageYet ==
  ASSUME pc' \notin {"embed", "deliver", "shown", "posted", "key", "recovered"}
  PROVE  SealedSoFar' /\ Written'
BY DEF SealedSoFar, Written

LEMMA StaysPrepared ==
  ASSUME CoverIsPrepared, UNCHANGED <<mode, coverFile, cover>>
  PROVE  CoverIsPrepared'
BY DEF CoverIsPrepared, Frame, CarrierLimits, CarrierCapacity

\* What a carrier can hold is a number.
LEMMA CapacityIsNatural ==
  ASSUME NEW f, f.width \in Nat, f.height \in Nat, CoverFile(coverFile)
  PROVE  CarrierCapacity(f) \in Nat
<1>1. Blocks(f) \in Nat /\ Candidates(f) \in Int
  BY BlocksOf
<1>2. RedditCapacity(Blocks(f)) \in Nat
  <2> DEFINE b == Blocks(f)
  <2> HIDE DEF b
  <2>1. b \in Nat => RedditCapacity(b) \in Nat
    BY DEF RedditCapacity
  <2> QED BY <1>1, <2>1 DEF b
<1>3. TwitterCapacity(Candidates(f), coverFile.nonzero) \in Nat
  <2> DEFINE c == Candidates(f)
             z == coverFile.nonzero
             p == ((z * 2) \div 5) - HeaderBits
             q == ((c - HeaderSymbols) * 2) \div 5
  <2>1. c \in Int /\ z \in Nat
    BY <1>1 DEF CoverFile
  <2> HIDE DEF c, z
  <2>2. CASE c < HeaderSymbols \/ (z * 2) \div 5 <= HeaderBits
    BY <2>2 DEF TwitterCapacity, c, z
  <2>3. CASE ~(c < HeaderSymbols \/ (z * 2) \div 5 <= HeaderBits)
    <3>1. p \in Nat /\ q \in Nat /\ p \in Int /\ q \in Int
      BY <2>1, <2>3 DEF HeaderSymbols, RequiredCover, HeaderBits
    <3> HIDE DEF p, q
    <3>2. Min({p, q}) \in {p, q}
      BY <3>1, LesserOfTwo
    <3>3. Min({p, q}) \in Nat
      BY <3>1, <3>2
    <3>4. Min({p, q}) \div 8 \in Nat
      BY <3>3
    <3>5. TwitterCapacity(c, z) = Min({p, q}) \div 8
      BY <2>3 DEF TwitterCapacity, p, q
    <3> QED BY <3>4, <3>5 DEF c, z
  <2> QED BY <2>2, <2>3
<1> QED BY <1>2, <1>3 DEF CarrierCapacity

LEMMA Validating ==
  ASSUME RunInv, ValidateInputs
  PROVE  RunInv'
<1>1. Same /\ pc = "start" /\ SearchInv'
  BY RestingKeeps DEF RunInv, ValidateInputs, Same, files, chosen, recovered
<1>2. measured' \in Nat
  BY DEF RunInv, Given, DataFiles, ValidateInputs
<1>3. CASE pc' = "refused" /\ refusal' = "input"
  BY <1>1, <1>2, <1>3, RefusedBefore
<1>4. CASE pc' = "cover" /\ refusal' = refusal /\ (task = "conceal" => dataFile.size <= LargestData[mode])
  <2>1. measured' <= LargestData[mode]
    BY <1>4, PipelineAssumption DEF RunInv, Given, Modes, ValidateInputs, LargestData, RedditUpload, TwitterUpload, MiB
  <2> QED BY <1>1, <1>2, <1>4, <2>1, GoesOn, NoImageYet DEF Covered, Held, Fitting, Asked
<1> QED BY <1>3, <1>4 DEF ValidateInputs, Require, Goto, Refuse

LEMMA PreparingSegments ==
  ASSUME RunInv, PrepareSegmentCover
  PROVE  RunInv'
<1>1. Same /\ pc = "cover" /\ SearchInv' /\ measured' = measured
  BY RestingKeeps DEF RunInv, PrepareSegmentCover, Same, files, chosen, recovered
<1>2. CoverFile(coverFile) /\ measured \in Nat /\ measured <= LargestData[mode]
  BY <1>1 DEF RunInv, Given
<1>3. CASE pc' = "refused" /\ refusal' = "cover"
  BY <1>1, <1>2, <1>3, RefusedBefore
<1>4. CASE pc' = "format" /\ refusal' = refusal /\ OptimizedCover.found /\ cover' = KeepCover(OptimizedCover)
  <2> DEFINE o == OptimizedCover
  <2>1. IsJpeg(coverFile.jpeg) /\ coverFile.body \in Nat
    BY <1>2 DEF CoverFile
  <2>2. o.leading \in Nat
    BY <1>4, <2>1, OptimizedIsJpeg DEF OptimizedCover
  <2> HIDE DEF o
  <2>3. cover'.size = coverFile.body + o.leading /\ cover'.leading = o.leading
    BY <1>4 DEF KeepCover, o
  <2>4. mode' \notin Carriers
    BY <1>1 DEF PrepareSegmentCover, Same
  <2>5. CoverIsPrepared'
    BY <2>1, <2>2, <2>3, <2>4 DEF CoverIsPrepared
  <2> QED BY <1>1, <1>2, <1>4, <2>5, GoesOn, NoImageYet DEF Covered, Held, Fitting, Asked
<1> QED BY <1>3, <1>4 DEF PrepareSegmentCover, TakeOptimized, Goto, Refuse

LEMMA PreparingCarrier ==
  ASSUME RunInv, PrepareCarrierCover
  PROVE  RunInv'
<1> DEFINE source == CarrierSource(coverFile.jpeg, CarrierLimits)
           frame == DecoderFrame(source.jpeg)
<1>1. Same /\ pc = "cover" /\ measured' = measured /\ mode \in Carriers /\ TakeSource(source)
  BY DEF PrepareCarrierCover, Same, files, chosen, recovered
<1>2. CoverFile(coverFile) /\ measured \in Nat /\ measured <= LargestData[mode]
  BY <1>1 DEF RunInv, Given
<1>3. CASE pc' = "refused" /\ refusal' = "cover" /\ UNCHANGED searchVars
  BY <1>1, <1>2, <1>3, RefusedBefore, RestingKeeps DEF RunInv
<1>4. CASE source.found /\ CarrierAccepted(source, frame) /\ TakeCarrier(source, frame)
  <2>1. IsJpeg(source.jpeg)
    BY <1>2, <1>4, SourceIsJpeg DEF CoverFile
  <2>2. frame.found /\ Allowed(frame, CarrierLimits) /\ (mode = "reddit" => Blocks(frame) >= RedditHeaderSlots)
    BY <1>4 DEF CarrierAccepted, CarrierTakes, TakesFrame
  <2>3. frame \in Decoded
    BY <2>1, <2>2, FrameIsDecoded
  <2>4. frame.width \in Nat /\ frame.height \in Nat
    BY <2>3 DEF Decoded
  <2> HIDE DEF source
  <2>5. /\ cover'.jpeg = source.jpeg /\ cover'.size = coverFile.transcoded
        /\ cover'.blocks = Blocks(frame) /\ cover'.candidates = Candidates(frame)
        /\ cover'.capacity = CarrierCapacity(frame)
    BY <1>4 DEF TakeCarrier
  <2>6. UNCHANGED <<mode, coverFile>>
    BY <1>1 DEF Same
  <2>7. Frame' = frame
    BY <2>5 DEF Frame
  <2>8. CarrierLimits' = CarrierLimits /\ cover'.capacity = CarrierCapacity(Frame)'
    BY <2>5, <2>6, <2>7 DEF CarrierLimits, CarrierCapacity
  <2> HIDE DEF frame
  <2>9. CoverIsPrepared'
    BY <1>1, <1>2, <2>2, <2>3, <2>5, <2>6, <2>7, <2>8 DEF CoverIsPrepared, CoverFile
  <2>10. CarrierCapacity(frame) \in Nat
    BY <1>2, <2>4, CapacityIsNatural
  <2>11. refusal' = refusal /\ pc' \in {"capsize", "payload"} /\ SearchInv' /\ Asked'
    <3>1. CASE task = "capsize"
      BY <1>4, <2>10, <3>1, AskingKeeps DEF TakeCarrier, RunInv, Goto, Asked, AskFor, MaxName
    <3>2. CASE task # "capsize"
      BY <1>4, <3>2, RestingKeeps DEF TakeCarrier, RunInv, Goto, Asked
    <3> QED BY <3>1, <3>2
  <2>12. Held'
    BY <1>1, <2>6, <2>11 DEF Held, Carriers
  <2> QED BY <1>1, <1>2, <2>9, <2>11, <2>12, GoesOn, NoImageYet DEF Covered, Fitting
<1> QED BY <1>1, <1>3, <1>4 DEF TakeSource, TakeCarrier, Refuse

LEMMA Detecting ==
  ASSUME RunInv, DetectFormat
  PROVE  RunInv'
<1>1. Same /\ pc = "format" /\ SearchInv' /\ measured' = measured /\ cover' = cover
  BY RestingKeeps DEF RunInv, DetectFormat, Same, files, chosen, recovered
<1>2. measured \in Nat /\ measured <= LargestData[mode] /\ CoverIsPrepared
  BY <1>1 DEF RunInv, Given, Covered
<1>3. CASE pc' = "refused" /\ refusal' = "input"
  BY <1>1, <1>2, <1>3, RefusedBefore
<1>4. CASE pc' = "payload" /\ refusal' = refusal /\ ~(mode = "bluesky" /\ bypass')
  <2>1. CoverIsPrepared'
    BY <1>1, <1>2, StaysPrepared DEF Same
  <2>2. Held'
    BY <1>1, <1>4 DEF Held, Same, DetectFormat
  <2> QED BY <1>1, <1>2, <1>4, <2>1, <2>2, GoesOn, NoImageYet DEF Covered, Fitting, Asked
<1> QED BY <1>3, <1>4 DEF DetectFormat, Require, Goto, Refuse

LEMMA PreparingPayload ==
  ASSUME RunInv, PreparePayload
  PROVE  RunInv'
<1>1. Same /\ pc = "payload" /\ SearchInv' /\ measured' = measured /\ cover' = cover /\ bypass' = bypass
  BY RestingKeeps DEF RunInv, PreparePayload, Same, files, chosen, recovered
<1>2. measured \in Nat /\ measured <= LargestData[mode] /\ CoverIsPrepared /\ dataFile \in DataFiles
  BY <1>1 DEF RunInv, Given, Covered
<1>3. CASE pc' = "refused" /\ refusal' = "changed"
  BY <1>1, <1>2, <1>3, RefusedBefore
<1>4. CASE /\ pc' = "limits" /\ refusal' = refusal
           /\ bypass \/ dataFile.size = measured
           /\ stored' = IF bypass THEN RawPayload ELSE StoredForm
  <2>1. CoverIsPrepared'
    BY <1>1, <1>2, StaysPrepared DEF Same
  <2>2. mode' = mode /\ dataFile.size \in Nat /\ dataFile.deflated \in Nat
    BY <1>1, <1>2 DEF Same, DataFiles
  <2>3. mode = "bluesky" => ~bypass
    BY <1>1 DEF RunInv, Held
  <2>4. ASSUME stored' = RawPayload, mode # "bluesky"
        PROVE  Held'
    <3>1. stored'.size = measured /\ stored'.deflated = FALSE
      BY <2>4 DEF RawPayload
    <3>2. /\ stored'.size \in Nat /\ stored'.deflated \in BOOLEAN /\ ~stored'.deflated
          /\ stored'.size = measured' /\ mode' # "bluesky"
      BY <1>1, <1>2, <2>2, <2>4, <3>1
    <3>3. pc' # "payload"
      BY <1>4
    <3> QED BY <3>2, <3>3, Zenon DEF Held
  <2>5. ASSUME stored' = [deflated |-> TRUE, size |-> dataFile.deflated, data |-> dataFile],
               dataFile.size = measured
        PROVE  Held'
    <3>1. stored'.size = dataFile.deflated /\ stored'.deflated = TRUE /\ stored'.data.size = measured
      BY <2>5
    <3>2. /\ stored'.size \in Nat /\ stored'.deflated \in BOOLEAN /\ stored'.deflated
          /\ stored'.data.size = measured'
      BY <1>1, <2>2, <3>1
    <3>3. pc' # "payload"
      BY <1>4
    <3> QED BY <3>2, <3>3, Zenon DEF Held
  <2>6. Held'
    <3>1. CASE bypass
      BY <1>4, <2>3, <2>4, <3>1, Zenon
    <3>2. CASE ~bypass /\ mode # "bluesky" /\ dataFile.deflated >= measured
      BY <1>4, <2>4, <3>2, Zenon DEF StoredForm
    <3>3. CASE ~bypass /\ ~(mode # "bluesky" /\ dataFile.deflated >= measured)
      BY <1>4, <2>5, <3>3, Zenon DEF StoredForm
    <3> QED BY <3>1, <3>2, <3>3
  <2> QED BY <1>1, <1>2, <1>4, <2>1, <2>6, GoesOn, NoImageYet DEF Covered, Fitting, Asked
<1> QED BY <1>3, <1>4 DEF PreparePayload, Require, Goto, Refuse

LEMMA CheckingLimits ==
  ASSUME RunInv, CheckLimits
  PROVE  RunInv'
<1>1. Same /\ pc = "limits" /\ measured' = measured /\ UNCHANGED <<cover, bypass, stored, sealed>>
  BY DEF CheckLimits, Same, files, chosen, recovered, prepared
<1>2. /\ measured \in Nat /\ measured <= LargestData[mode] /\ CoverIsPrepared /\ Held
      /\ SearchInv /\ name \in Nat /\ mode \in Modes
  BY <1>1 DEF RunInv, Given, Covered
<1>3. CoverIsPrepared'
  BY <1>1, <1>2, StaysPrepared DEF Same
<1>4. ASSUME pc' \in {"encrypt", "tooMuch"}
      PROVE  Held'
  BY <1>1, <1>2, <1>4 DEF Held, Same
<1>5. CASE /\ pc' = "encrypt" /\ refusal' = refusal /\ UNCHANGED searchVars
           /\ mode = "default" => IccSize(Encrypted) + cover.size <= MaxConceal
           /\ mode = "bluesky" => Encrypted <= Min({BlueskyCapacity, MaxBlueskyData})
           /\ mode \in Carriers => EnvelopeSize(Encrypted) <= cover.capacity
  <2>1. Encrypted' = Encrypted
    BY <1>1 DEF Encrypted, Same
  <2>2. Encrypted \in Nat
    BY <1>1, <1>2, StreamSize DEF Held, Encrypted
  <2>3. mode = "bluesky" => Encrypted <= BlueskyCapacity /\ Encrypted <= MaxBlueskyData
    <3> DEFINE e == Encrypted
    <3> HIDE DEF e
    <3>1. e \in Nat => (e <= Min({BlueskyCapacity, MaxBlueskyData}) => e <= BlueskyCapacity /\ e <= MaxBlueskyData)
      BY DEF Min, BlueskyCapacity, MaxBlueskyData, MiB
    <3> QED BY <1>5, <2>2, <3>1 DEF e
  <2>4. Fitting'
    BY <1>1, <1>5, <2>1, <2>3 DEF Fitting, Same
  <2>5. SearchInv'
    BY <1>2, <1>5, RestingKeeps
  <2> QED BY <1>1, <1>2, <1>3, <1>4, <1>5, <2>4, <2>5, GoesOn, NoImageYet DEF Covered, Asked
<1>6. CASE /\ pc' = "tooMuch" /\ refusal' = refusal /\ AskFor(cover.capacity, name)
           /\ mode \in Carriers /\ ~(EnvelopeSize(Encrypted) <= cover.capacity)
  <2>1. cover.capacity \in Nat
    <3>1. Frame.width \in Nat /\ Frame.height \in Nat /\ cover.capacity = CarrierCapacity(Frame)
      BY <1>2, <1>6 DEF CoverIsPrepared, Decoded
    <3>2. CoverFile(coverFile)
      BY DEF RunInv, Given
    <3> QED BY <3>1, <3>2, CapacityIsNatural
  <2>2. SearchInv'
    BY <1>2, <1>6, <2>1, AskingKeeps
  <2>3. Asked'
    BY <1>1, <1>6 DEF Asked, Fits, AskFor, Encrypted
  <2> QED BY <1>1, <1>2, <1>3, <1>4, <1>6, <2>2, <2>3, GoesOn, NoImageYet DEF Covered, Fitting
<1>7. CASE pc' = "refused" /\ refusal' = "capacity" /\ mode \notin Carriers /\ UNCHANGED searchVars
  <2>1. LimitsAgree'
    BY <1>1, <1>7 DEF LimitsAgree, Same
  <2>2. SearchInv'
    BY <1>2, <1>7, RestingKeeps
  <2> QED BY <1>1, <1>2, <1>7, <2>1, <2>2, RefusedBefore
<1>8. \/ mode = "default" /\ mode \notin Carriers
      \/ mode = "bluesky" /\ mode \notin Carriers
      \/ mode \in Carriers /\ mode # "default" /\ mode # "bluesky"
  BY <1>2 DEF Modes, Carriers
<1> QED BY <1>5, <1>6, <1>7, <1>8 DEF CheckLimits, Goto, Refuse

LEMMA Searching ==
  ASSUME RunInv, FindCapacity
  PROVE  RunInv'
<1>1. /\ Same /\ pc \in {"tooMuch", "capsize"} /\ pc' = pc /\ refusal' = refusal /\ SearchStep
      /\ measured' = measured /\ UNCHANGED <<cover, bypass, stored, sealed>>
  BY DEF FindCapacity, Same, files, chosen, recovered, prepared
<1>2. /\ measured \in Nat /\ measured <= LargestData[mode] /\ CoverIsPrepared /\ Held
      /\ SearchInv /\ Asked
  BY <1>1 DEF RunInv, Given, Covered
<1>3. CoverIsPrepared'
  BY <1>1, <1>2, StaysPrepared DEF Same
<1>4. Held'
  BY <1>1, <1>2 DEF Held, Same
<1>5. SearchInv' /\ UNCHANGED <<capacity, nameLength>>
  BY <1>1, <1>2, SearchingKeeps DEF SearchStep, Probe, Bisect, Found
<1>6. Asked'
  BY <1>1, <1>2, <1>5 DEF Asked, Fits
<1> QED BY <1>1, <1>2, <1>3, <1>4, <1>5, <1>6, GoesOn, NoImageYet DEF Covered, Fitting

LEMMA TellingCapacity ==
  ASSUME RunInv, TellCapacity
  PROVE  RunInv'
<1>1. /\ Same /\ pc = "tooMuch" /\ pc' = "refused" /\ refusal' = "capacity" /\ search = "found"
      /\ measured' = measured /\ UNCHANGED stored /\ UNCHANGED searchVars
      /\ report' = [largest |-> lower, over |-> IF stored.size > lower THEN stored.size - lower ELSE 1]
  BY DEF TellCapacity, Same, files, chosen, recovered, prepared, Refuse
<1>2. /\ measured \in Nat /\ SearchInv /\ ~Fits(stored.size) /\ stored.size \in Nat
  BY <1>1 DEF RunInv, Given, Held, Asked
<1>3. SearchInv'
  BY <1>1, <1>2, RestingKeeps
<1>4. ASSUME Fits(0)
      PROVE  Fits(stored.size - report'.over) /\ ~Fits(stored.size - report'.over + 1)
  <2>1. Fits(lower) /\ ~Fits(lower + 1) /\ lower \in Nat /\ SearchTypeOK
    BY <1>1, <1>2, <1>4 DEF SearchInv, CapacityIsExact, SearchTypeOK
  <2>2. ~(stored.size <= lower)
    BY <1>2, <2>1, FitsUpTo
  <2>3. report'.over = stored.size - lower
    BY <1>1, <1>2, <2>1, <2>2
  <2>4. stored.size - report'.over = lower
    BY <1>2, <2>1, <2>3
  <2> QED BY <2>1, <2>4
<1>5. Fits(0)' => Fits(0)
  BY <1>1 DEF Fits, searchVars
<1>6. Fits(0) => Fits(stored.size - report.over)' /\ ~Fits(stored.size - report.over + 1)'
  BY <1>1, <1>4 DEF Fits, searchVars
<1>7. LimitsAgree'
  BY <1>1, <1>5, <1>6 DEF LimitsAgree
<1> QED BY <1>1, <1>2, <1>3, <1>7, RefusedBefore

LEMMA TellingLimits ==
  ASSUME RunInv, TellLimits
  PROVE  RunInv'
<1>1. /\ Same /\ pc = "capsize" /\ pc' = "told" /\ refusal' = refusal /\ search = "found"
      /\ measured' = measured /\ UNCHANGED searchVars
      /\ report'.conservative = lower
  BY DEF TellLimits, Same, files, chosen, recovered, prepared, Goto
<1>2. /\ measured \in Nat /\ measured <= LargestData[mode] /\ SearchInv /\ nameLength = MaxName
      /\ refusal = "none"
  BY <1>1 DEF RunInv, Given, Asked
<1>3. SearchInv'
  BY <1>1, <1>2, RestingKeeps
<1>4. ASSUME NEW n \in 1..MaxName, lower > 0
      PROVE  EnvelopeSize(Estimate(lower, 1 + n)) <= capacity
  <2>1. Fits(lower) /\ lower \in Nat /\ capacity \in Nat
    BY <1>1, <1>2, <1>4 DEF SearchInv, CapacityIsExact, SearchTypeOK
  <2>2. n \in Nat /\ n <= MaxName /\ MaxName \in Nat
    BY DEF MaxName
  <2>3. EnvelopeSize(Estimate(lower, 1 + n)) <= EnvelopeSize(Estimate(lower, 1 + MaxName))
    BY <2>1, <2>2, ShorterNamesFit
  <2>4. Estimate(lower, 1 + n) \in Nat /\ Estimate(lower, 1 + MaxName) \in Nat
    <3>1. 1 + n \in Nat \ {0} /\ 1 + MaxName \in Nat \ {0}
      BY <2>2
    <3> QED BY <2>1, <3>1, StreamSize
  <2>5. EnvelopeSize(Estimate(lower, 1 + n)) \in Nat /\ EnvelopeSize(Estimate(lower, 1 + MaxName)) \in Nat
    BY <2>4, CapacitySearchAssumption DEF EnvelopeSize
  <2>6. EnvelopeSize(Estimate(lower, 1 + MaxName)) <= capacity
    BY <1>2, <2>1 DEF Fits
  <2> DEFINE a == EnvelopeSize(Estimate(lower, 1 + n))
             b == EnvelopeSize(Estimate(lower, 1 + MaxName))
  <2> HIDE DEF a, b
  <2>7. a \in Nat /\ b \in Nat /\ a <= b /\ b <= capacity
    BY <2>3, <2>5, <2>6 DEF a, b
  <2>8. a <= capacity
    BY <2>1, <2>7
  <2> QED BY <2>8 DEF a
<1>5. LimitsAgree'
  <2>1. capacity' = capacity
    BY <1>1 DEF searchVars
  <2>2. \A n \in 1..MaxName : report'.conservative > 0 => EnvelopeSize(Estimate(report'.conservative, 1 + n)) <= capacity'
    BY <1>1, <1>4, <2>1
  <2> QED BY <1>1, <1>2, <2>2 DEF LimitsAgree
<1> QED BY <1>1, <1>2, <1>3, <1>5, GoesOn, NoImageYet DEF Covered, Held, Fitting, Asked

LEMMA Encrypting ==
  ASSUME RunInv, Encrypt
  PROVE  RunInv'
<1>1. /\ Same /\ pc = "encrypt" /\ SearchInv' /\ measured' = measured
      /\ UNCHANGED <<cover, bypass, stored>>
  BY RestingKeeps DEF RunInv, Encrypt, Same, files, chosen, recovered
<1>2. /\ measured \in Nat /\ measured <= LargestData[mode] /\ CoverIsPrepared /\ Held /\ Fitting
      /\ name \in Nat
  BY <1>1 DEF RunInv, Given, Covered
<1>3. CASE pc' = "refused" /\ refusal' \in {"input", "changed"}
  BY <1>1, <1>2, <1>3, RefusedBefore
<1>4. CASE /\ pc' = "embed" /\ refusal' = refusal
           /\ stored.deflated \/ dataFile.size = stored.size
           /\ sealed' = Sealed(IF stored.deflated THEN stored.data ELSE dataFile)
  <2> DEFINE data == IF stored.deflated THEN stored.data ELSE dataFile
  <2>1. CoverIsPrepared'
    BY <1>1, <1>2, StaysPrepared DEF Same
  <2>2. Held'
    BY <1>1, <1>2, <1>4 DEF Held, Same
  <2>3. Encrypted' = Encrypted /\ mode' = mode /\ name' = name
    BY <1>1 DEF Encrypted, Same
  <2>4. Fitting'
    BY <1>1, <1>2, <1>4, <2>3 DEF Fitting
  <2>5. /\ sealed'.key = <<"shown", Costs>> /\ sealed'.mode = stored.deflated /\ sealed'.data = data
        /\ sealed'.name = name /\ sealed'.size = Encrypted
    BY <1>4 DEF Sealed
  <2>6. stored.size \in Nat /\ stored.deflated \in BOOLEAN /\ data.size = measured
    BY <1>1, <1>2, <1>4 DEF Held
  <2>7. Encrypted \in Nat \ {0} /\ Encrypted >= MinCipher
    BY <1>2, <2>6, StreamSize DEF Encrypted
  <2>8. mode = "bluesky" => stored.deflated = TRUE
    BY <1>1, <1>2, <2>6 DEF Held
  <2> HIDE DEF data
  <2>9. SealedSoFar' /\ Written'
    BY <1>1, <1>4, <2>3, <2>5, <2>6, <2>7, <2>8 DEF SealedSoFar, IsSealed, Written
  <2> QED BY <1>1, <1>2, <1>4, <2>1, <2>2, <2>4, <2>9, GoesOn DEF Covered, Asked
<1> QED BY <1>3, <1>4 DEF Encrypt, Require, Goto, Refuse

\* The places that were counted before the encryption are there: the carrier is never
\* refused, and what it declares is within the limits of recover.
LEMMA PlacesAreFound ==
  ASSUME RunInv, pc = "embed", mode \in Carriers
  PROVE  /\ EnvelopeSize(sealed.size) <= cover.capacity /\ HasPlaces
         /\ sealed.size \in Nat /\ sealed.size >= MinCipher
         /\ mode = "reddit" => sealed.size <= RedditUpload
         /\ mode = "twitter" => sealed.size <= TwitterUpload
<1>1. /\ CoverIsPrepared /\ EnvelopeSize(Encrypted) <= cover.capacity /\ sealed.size = Encrypted
      /\ sealed.size \in Nat \ {0} /\ sealed.size >= MinCipher /\ CoverFile(coverFile)
  BY DEF RunInv, Covered, Fitting, SealedSoFar, IsSealed, Given
<1>2. /\ Frame.width \in Nat /\ Frame.height \in Nat /\ Allowed(Frame, CarrierLimits)
      /\ cover.blocks = Blocks(Frame) /\ cover.candidates = Candidates(Frame)
      /\ cover.capacity = CarrierCapacity(Frame)
      /\ mode = "reddit" => cover.blocks >= RedditHeaderSlots
  BY <1>1 DEF CoverIsPrepared, Decoded
<1>3. Blocks(Frame) \in Nat /\ Candidates(Frame) \in Int /\ Candidates(Frame) <= Frame.width * Frame.height
  BY <1>2, BlocksOf
<1> DEFINE e == sealed.size
<1>4. EnvelopeSize(e) <= cover.capacity
  BY <1>1
<1>5. CASE mode = "reddit"
  <2>1. EnvelopeSize(e) <= RedditCapacity(cover.blocks) /\ e \in Nat
    BY <1>1, <1>2, <1>4, <1>5 DEF CarrierCapacity
  <2>2. cover.blocks \in Nat /\ cover.blocks >= RedditHeaderSlots
    BY <1>2, <1>3, <1>5
  <2>3. Frame.width <= 8192 /\ Frame.height <= 8192
    BY <1>2, <1>5 DEF Allowed, CarrierLimits, RedditLimits
  <2>4. cover.blocks <= 1048576
    BY <1>2, <2>3, BlocksOf
  <2> HIDE DEF e
  <2>5. EnvelopeSize(e) * 8 * 3 <= cover.blocks * 10 /\ e <= RedditUpload
    BY <2>1, <2>2, <2>4, RedditFits
  <2>6. RedditHeaderSlots <= cover.blocks
    BY <2>2 DEF RedditHeaderSlots, HeaderBits
  <2>7. RedditHasPlaces(EnvelopeSize(e) * 8)
    BY <2>5, <2>6 DEF RedditHasPlaces
  <2>8. HasPlaces
    BY <1>5, <2>7 DEF HasPlaces, e
  <2> QED BY <1>1, <1>4, <1>5, <2>5, <2>8 DEF e
<1>6. CASE mode = "twitter"
  <2>1. EnvelopeSize(e) <= TwitterCapacity(cover.candidates, coverFile.nonzero) /\ e \in Nat \ {0}
    BY <1>1, <1>2, <1>4, <1>6 DEF CarrierCapacity
  <2>2. cover.candidates \in Int /\ coverFile.nonzero \in Nat
    BY <1>1, <1>2, <1>3 DEF CoverFile
  <2>3. Frame.width * Frame.height <= 4096 * 4096
    BY <1>2, <1>6 DEF Allowed, CarrierLimits, DefaultLimits
  <2>4. cover.candidates <= 4096 * 4096
    <3> DEFINE p == Frame.width * Frame.height
    <3>1. p \in Nat
      BY <1>2
    <3>2. cover.candidates <= p /\ p <= 4096 * 4096
      BY <1>2, <1>3, <2>3
    <3> HIDE DEF p
    <3> QED BY <2>2, <3>1, <3>2
  <2> HIDE DEF e
  <2>5. HeaderSymbols + RequiredCover(EnvelopeSize(e) * 8) <= cover.candidates /\ e <= TwitterUpload
    BY <2>1, <2>2, <2>4, TwitterFits
  <2>6. TwitterHasPlaces(EnvelopeSize(e) * 8)
    BY <2>5 DEF TwitterHasPlaces
  <2>7. HasPlaces
    BY <1>6, <2>6 DEF HasPlaces, e
  <2> QED BY <1>1, <1>4, <1>6, <2>5, <2>7 DEF e
<1> QED BY <1>5, <1>6 DEF Carriers

\* All segments but the last.
LEMMA WithoutLast ==
  ASSUME NEW segs \in Seq(Segments), Len(segs) # 0
  PROVE  /\ SubSeq(segs, 1, Len(segs) - 1) \in Seq(Segments)
         /\ Len(SubSeq(segs, 1, Len(segs) - 1)) = Len(segs) - 1
         /\ \A i \in 1..(Len(segs) - 1) : SubSeq(segs, 1, Len(segs) - 1)[i] = segs[i]
         /\ BytesOf(SubSeq(segs, 1, Len(segs) - 1)) \in Nat
<1> DEFINE l == Len(segs) - 1
<1>1. l \in Nat /\ l <= Len(segs)
  OBVIOUS
<1> HIDE DEF l
<1>2. /\ SubSeq(segs, 1, l) \in Seq(Segments) /\ Len(SubSeq(segs, 1, l)) = l
      /\ \A i \in 1..l : SubSeq(segs, 1, l)[i] = segs[i]
  BY <1>1
<1> QED BY <1>2, BytesAreNatural DEF l

LEMMA IccIsWritten ==
  ASSUME RunInv, pc = "embed", pc' = "deliver", mode = "default", mode' = mode, sealed' = sealed,
         image' = IccImage
  PROVE  Written'
<1>1. /\ cover.leading \in Nat /\ cover.size \in Nat /\ IccSize(sealed.size) + cover.size <= MaxConceal
      /\ sealed.size \in Nat /\ sealed.size >= MinCipher /\ sealed.mode \in BOOLEAN
  BY DEF RunInv, Covered, CoverIsPrepared, Fitting, SealedSoFar, IsSealed, Carriers
<1> DEFINE icc == IccSize(sealed.size)
           front == IF cover.leading > 0 THEN <<Segment("app", cover.leading)>> ELSE <<>>
           m == Min({icc, 65537})
           segs == front \o <<Segment("icc", m)>>
<1>2. icc \in Nat /\ icc - IccTemplate >= sealed.size
  BY <1>1, IccIsLarger
<1>3. m \in Nat
  <2> HIDE DEF icc
  <2> DEFINE most == 65537
  <2>1. icc \in Int /\ most \in Int /\ most \in Nat
    BY <1>2
  <2> HIDE DEF most
  <2>2. Min({icc, most}) \in {icc, most}
    BY <2>1, LesserOfTwo
  <2>3. Min({icc, most}) \in Nat
    BY <1>2, <2>1, <2>2
  <2> QED BY <2>3 DEF most
<1>4. /\ image'.segs = segs /\ image'.mode = "default" /\ image'.size = icc + cover.size
      /\ image'.declared = icc - IccTemplate
      /\ image'.fields = [at \in {KdfAt, MarkAt} |->
                            IF at = KdfAt THEN Costs ELSE IF sealed.mode THEN OtherBytes ELSE Raw]
      /\ {"mode", "segs", "size", "declared", "fields"} \subseteq DOMAIN image'
  BY DEF IccImage
<1>5. /\ segs \in Seq(Segments) /\ Len(segs) # 0 /\ segs[Len(segs)].kind = "icc"
      /\ \A i \in 1..(Len(segs) - 1) : segs[i].kind \in {"app", "app2"}
  <2> HIDE DEF m
  <2> DEFINE last == Segment("icc", m)
             app == Segment("app", cover.leading)
  <2>1. last \in Segments /\ last.kind = "icc" /\ app \in Segments /\ app.kind = "app"
    BY <1>1, <1>3 DEF Segment, Segments
  <2>2. segs = IF cover.leading > 0 THEN <<app>> \o <<last>> ELSE <<>> \o <<last>>
    OBVIOUS
  <2> HIDE DEF last, app, segs
  <2>3. CASE cover.leading > 0
    <3>1. segs = <<app>> \o <<last>>
      BY <2>2, <2>3
    <3>2. <<app>> \in Seq(Segments) /\ <<last>> \in Seq(Segments)
      BY <2>1
    <3>3. <<app>> \o <<last>> \in Seq(Segments)
      BY <3>2
    <3>4. Len(<<app>> \o <<last>>) = 2 /\ (<<app>> \o <<last>>)[1] = app /\ (<<app>> \o <<last>>)[2] = last
      OBVIOUS
    <3>5. segs \in Seq(Segments) /\ Len(segs) = 2 /\ segs[1] = app /\ segs[2] = last
      BY <3>1, <3>3, <3>4
    <3> QED BY <2>1, <3>5
  <2>4. CASE ~(cover.leading > 0)
    <3>1. segs = <<>> \o <<last>>
      BY <2>2, <2>4
    <3>2. <<last>> \in Seq(Segments) /\ <<>> \in Seq(Segments)
      BY <2>1
    <3>3. <<>> \o <<last>> \in Seq(Segments)
      BY <3>2
    <3>4. Len(<<>> \o <<last>>) = 1 /\ (<<>> \o <<last>>)[1] = last
      OBVIOUS
    <3>5. segs \in Seq(Segments) /\ Len(segs) = 1 /\ segs[1] = last
      BY <3>1, <3>3, <3>4
    <3> QED BY <2>1, <3>5
  <2> QED BY <2>3, <2>4
<1> HIDE DEF icc, segs
<1>6. BytesOf(Before)' \in Nat
  <2>1. Before' = SubSeq(segs, 1, Len(segs) - 1)
    BY <1>4 DEF Before
  <2>2. BytesOf(SubSeq(segs, 1, Len(segs) - 1)) \in Nat
    BY <1>5, WithoutLast
  <2> QED BY <2>1, <2>2
<1>7. IsFronted("icc")'
  <2>1. image'.segs = segs /\ Len(segs) # 0
    BY <1>4, <1>5
  <2> QED BY <1>5, <2>1 DEF IsFronted
<1>8. MaxConceal \in Nat
  BY PipelineAssumption
<1>9. DeclaredAccepted("icc")'
  <2>1. icc - IccTemplate >= MinCipher /\ icc - IccTemplate <= MaxConceal + 50 * MiB
    BY <1>1, <1>2, <1>8, CapacitySearchAssumption DEF icc, MiB, IccTemplate, MinCipher
  <2> QED BY <1>4, <2>1 DEF DeclaredAccepted, DeclaredLimit
<1>10. (image.size <= MaxConceal + BytesOf(Before))' /\ image'.size \in Int
  <2>1. image'.size <= MaxConceal /\ image'.size \in Int
    BY <1>1, <1>2, <1>4 DEF icc
  <2> DEFINE b == BytesOf(Before)'
  <2>2. b \in Nat
    BY <1>6
  <2> HIDE DEF b
  <2>3. image'.size <= MaxConceal + b
    BY <1>8, <2>1, <2>2
  <2> QED BY <2>1, <2>3 DEF b
<1>11. IsIccImage'
  BY <1>4, <1>7, <1>9, <1>10 DEF IsIccImage
<1> QED BY <1>4, <1>5, <1>10, <1>11 DEF Written, Carriers

LEMMA BlueskyIsWritten ==
  ASSUME RunInv, pc = "embed", pc' = "deliver", mode = "bluesky", mode' = mode, sealed' = sealed,
         NEW room \in Nat, image' = BlueskyImage(room)
  PROVE  Written'
<1>1. /\ cover.size \in Nat /\ sealed.size \in Nat /\ sealed.size >= MinCipher
      /\ sealed.size <= MaxBlueskyData
  BY DEF RunInv, Covered, CoverIsPrepared, Fitting, SealedSoFar, IsSealed
<1> DEFINE m == Min({sealed.size, 65537})
           only == Segment("bluesky", m)
<1>2. m \in Nat
  <2> DEFINE e == sealed.size
             most == 65537
  <2>1. e \in Int /\ e \in Nat /\ most \in Int /\ most \in Nat
    BY <1>1
  <2> HIDE DEF e, most
  <2>2. Min({e, most}) \in {e, most}
    BY <2>1, LesserOfTwo
  <2>3. Min({e, most}) \in Nat
    BY <2>1, <2>2
  <2> QED BY <2>3 DEF e, most
<1>3. /\ image'.segs = <<only>> /\ image'.mode = "bluesky" /\ image'.size = sealed.size + room + cover.size
      /\ image'.declared = sealed.size
      /\ image'.fields = [at \in {BlueskyKdfAt} |-> Costs]
      /\ {"mode", "segs", "size", "declared", "fields"} \subseteq DOMAIN image'
  BY DEF BlueskyImage
<1> HIDE DEF m
<1>4. only \in Segments /\ only.kind = "bluesky"
  BY <1>2 DEF Segment, Segments
<1> HIDE DEF only
<1>5. <<only>> \in Seq(Segments) /\ Len(<<only>>) = 1 /\ <<only>>[1] = only
  BY <1>4
<1>6. IsFronted("bluesky")'
  BY <1>3, <1>4, <1>5 DEF IsFronted
<1>7. DeclaredAccepted("bluesky")'
  BY <1>1, <1>3 DEF DeclaredAccepted, DeclaredLimit
<1>8. IsBlueskyImage'
  BY <1>3, <1>6, <1>7 DEF IsBlueskyImage
<1>9. image'.size \in Int
  BY <1>1, <1>3
<1> QED BY <1>3, <1>5, <1>8, <1>9 DEF Written, Carriers

LEMMA CarrierIsWritten ==
  ASSUME RunInv, pc = "embed", pc' = "deliver", mode \in Carriers, mode' = mode, sealed' = sealed,
         NEW growth \in Int, image' = CarrierImage(growth)
  PROVE  Written'
<1>1. /\ EnvelopeSize(sealed.size) <= cover.capacity /\ HasPlaces
      /\ sealed.size \in Nat /\ sealed.size >= MinCipher
      /\ mode = "reddit" => sealed.size <= RedditUpload
      /\ mode = "twitter" => sealed.size <= TwitterUpload
  BY PlacesAreFound
<1>2. CoverIsPrepared /\ cover.size \in Nat
  BY DEF RunInv, Covered, CoverIsPrepared
<1>3. /\ Frame \in Decoded /\ Allowed(Frame, CarrierLimits)
      /\ cover.blocks = Blocks(Frame) /\ cover.candidates = Candidates(Frame)
      /\ cover.capacity = CarrierCapacity(Frame)
  BY <1>2 DEF CoverIsPrepared
<1> DEFINE shape == [Frame EXCEPT !.progressive = (mode = "twitter")]
           segs == <<Segment("app", 18), Segment("tables", 69)>>
<1>4. /\ image'.segs = segs /\ image'.mode = mode /\ image'.size = cover.size + growth
      /\ image'.frame = shape /\ image'.declared = sealed.size
      /\ image'.costs = Costs /\ image'.deflated = sealed.mode
      /\ {"mode", "segs", "size", "frame", "declared", "costs", "deflated"} \subseteq DOMAIN image'
  BY DEF CarrierImage, Frame
<1>5. /\ shape.width = Frame.width /\ shape.height = Frame.height
      /\ shape.progressive = (mode = "twitter") /\ Frame.width \in Nat /\ Frame.height \in Nat
  BY <1>3 DEF Decoded
<1> HIDE DEF shape
<1>6. Blocks(shape) = Blocks(Frame) /\ Candidates(shape) = Candidates(Frame)
  BY <1>5 DEF Blocks, Candidates
<1>7. /\ segs \in Seq(Segments) /\ Len(segs) = 2
      /\ \A i \in 1..Len(segs) : segs[i].kind \in {"app", "app2", "tables"}
  BY DEF Segment, Segments
<1> HIDE DEF segs
<1>8. ASSUME mode = "twitter"
      PROVE  TwitterReads(image.frame)'
  <2>1. shape.progressive /\ shape.width >= MinSide /\ shape.height >= MinSide
    BY <1>3, <1>5, <1>8 DEF Allowed
  <2>2. HeaderSymbols + RequiredCover(EnvelopeSize(sealed.size) * 8) <= Candidates(Frame)
    BY <1>1, <1>3, <1>8 DEF HasPlaces, TwitterHasPlaces
  <2> DEFINE r == RequiredCover(EnvelopeSize(sealed.size) * 8)
             c == Candidates(Frame)
  <2>3. c \in Int
    BY <1>5, BlocksOf
  <2>4. r \in Int
    <3>1. EnvelopeSize(sealed.size) \in Nat
      BY <1>1, CapacitySearchAssumption DEF EnvelopeSize
    <3> QED BY <3>1 DEF RequiredCover
  <2>5. HeaderSymbols + r <= c
    BY <2>2
  <2> HIDE DEF r, c
  <2>6. r <= c - HeaderSymbols
    BY <2>3, <2>4, <2>5 DEF HeaderSymbols, RequiredCover, HeaderBits
  <2>7. RequiredCover(EnvelopeSize(image'.declared) * 8) <= Candidates(shape) - HeaderSymbols
    BY <1>4, <1>6, <2>6 DEF r, c
  <2> QED BY <1>4, <2>1, <2>7 DEF TwitterReads
<1>9. ASSUME mode = "reddit"
      PROVE  RedditReads(image.frame)'
  <2>1. Allowed(shape, RedditLimits) /\ ~shape.progressive
    BY <1>3, <1>5, <1>9 DEF Allowed, CarrierLimits
  <2>2. Blocks(shape) >= RedditHeaderSlots
    BY <1>2, <1>3, <1>6, <1>9 DEF CoverIsPrepared, Carriers
  <2>3. EnvelopeSize(sealed.size) <= RedditCapacity(Blocks(shape))
    BY <1>1, <1>3, <1>6, <1>9 DEF CarrierCapacity
  <2> QED BY <1>4, <2>1, <2>2, <2>3 DEF RedditReads
<1>10. DeclaredAccepted(mode)'
  <2>1. mode \in {"reddit", "twitter"}
    BY DEF Carriers
  <2> QED BY <1>1, <1>4, <2>1 DEF DeclaredAccepted, DeclaredLimit
<1>11. IsCarrierImage'
  BY <1>4, <1>7, <1>8, <1>9, <1>10 DEF IsCarrierImage
<1>12. image'.size \in Int /\ mode # "default" /\ mode # "bluesky"
  BY <1>2, <1>4 DEF Carriers
<1> QED BY <1>4, <1>7, <1>11, <1>12 DEF Written

LEMMA Embedding ==
  ASSUME RunInv, Embed
  PROVE  RunInv'
<1>1. /\ Same /\ pc = "embed" /\ SearchInv' /\ measured' = measured /\ sealed' = sealed
  BY RestingKeeps DEF RunInv, Embed, Same, files, chosen, recovered, prepared
<1>2. /\ measured \in Nat /\ measured <= LargestData[mode] /\ mode \in Modes /\ IsSealed
  BY <1>1 DEF RunInv, Given, SealedSoFar
<1>3. mode \in Carriers => EnvelopeSize(sealed.size) <= cover.capacity /\ HasPlaces
  BY <1>1, PlacesAreFound
<1>4. pc' = "deliver" /\ refusal' = refusal /\ NewImage /\ mode' = mode
  BY <1>1, <1>3 DEF Embed, Goto, Same
<1>5. Written'
  <2>1. CASE mode = "default" /\ image' = IccImage
    BY <1>1, <1>4, <2>1, IccIsWritten
  <2>2. CASE mode = "bluesky" /\ \E room \in BlueskyRooms : image' = BlueskyImage(room)
    BY <1>1, <1>4, <2>2, BlueskyIsWritten, PipelineAssumption
  <2>3. CASE mode \in Carriers /\ \E growth \in EmbedGrowths : image' = CarrierImage(growth)
    BY <1>1, <1>4, <2>3, CarrierIsWritten, PipelineAssumption
  <2> QED BY <1>4, <2>1, <2>2, <2>3 DEF NewImage
<1>6. SealedSoFar'
  BY <1>1, <1>2, <1>4 DEF SealedSoFar, IsSealed, Same
<1> QED BY <1>1, <1>2, <1>4, <1>5, <1>6, GoesOn DEF Covered, Held, Fitting, Asked

\* A step that leaves the image alone.
LEMMA ImageStays ==
  ASSUME Written, pc \in {"deliver", "shown", "posted"}, pc' \in {"shown", "posted", "key"},
         UNCHANGED <<image, mode, sealed>>,
         mode = "bluesky" /\ Len(image.segs) = 1 => image.size <= MaxBlueskyImage
  PROVE  Written'
<1>1. BytesOf(Before)' = BytesOf(Before)
  BY DEF Before
<1>2. IsIccImage => IsIccImage'
  BY <1>1 DEF IsIccImage, IsFronted, DeclaredAccepted
<1>3. mode = "bluesky" /\ IsBlueskyImage => IsBlueskyImage'
  BY DEF IsBlueskyImage, IsFronted, DeclaredAccepted
<1>4. IsCarrierImage => IsCarrierImage'
  BY DEF IsCarrierImage, DeclaredAccepted, TwitterReads, RedditReads
<1> QED BY <1>2, <1>3, <1>4 DEF Written

LEMMA SealStays ==
  ASSUME SealedSoFar, pc \in {"embed", "deliver", "shown", "posted", "key"},
         pc' \in {"deliver", "shown", "posted", "key", "recovered"},
         UNCHANGED <<sealed, mode, measured, name>>
  PROVE  SealedSoFar'
BY DEF SealedSoFar, IsSealed

LEMMA Delivering ==
  ASSUME RunInv, Deliver
  PROVE  RunInv'
<1>1. /\ Same /\ pc = "deliver" /\ SearchInv' /\ UNCHANGED <<image, sealed, measured>>
  BY RestingKeeps DEF RunInv, Deliver, Same, files, chosen, recovered, prepared
<1>2. /\ measured \in Nat /\ measured <= LargestData[mode] /\ mode \in Modes /\ IsSealed
      /\ refusal = "none" /\ SealedSoFar /\ Written
  BY <1>1 DEF RunInv, Given, SealedSoFar
<1>3. CASE pc' = "refused" /\ refusal' = "final size"
  BY <1>1, <1>2, <1>3, RefusedBefore
<1>4. CASE pc' = "shown" /\ refusal' = refusal /\ image.size <= FinalLimit[mode]
  <2>1. SealedSoFar'
    BY <1>1, <1>2, <1>4, SealStays DEF Same
  <2>2. Written'
    <3>1. mode = "bluesky" => image.size <= MaxBlueskyImage
      BY <1>4 DEF FinalLimit
    <3> QED BY <1>1, <1>2, <1>4, <3>1, ImageStays DEF Same
  <2>3. LimitsAgree'
    <3>1. sealed.data.size = measured
      BY <1>2 DEF IsSealed
    <3>2. (image.size <= FinalLimit[mode])'
      BY <1>1, <1>4 DEF Same, FinalLimit
    <3> QED BY <1>1, <1>2, <1>4, <3>1, <3>2 DEF LimitsAgree
  <2> QED BY <1>1, <1>2, <1>4, <2>1, <2>2, <2>3, GoesOn DEF Covered, Held, Fitting, Asked
<1> QED BY <1>3, <1>4 DEF Deliver, Require, Goto, Refuse

-----------------------------------------------------------------------------
(* The steps of others.                                                    *)

LEMMA Replacing ==
  ASSUME RunInv, ReplaceData
  PROVE  RunInv'
<1>1. /\ pc \in {"cover", "format", "payload", "limits", "encrypt"} /\ dataFile' \in DataFiles
      /\ UNCHANGED <<pc, refusal, task, mode, coverFile, name, measured, cover, bypass, stored, sealed>>
      /\ UNCHANGED <<image, report, layout, typed, output>> /\ UNCHANGED searchVars
  BY PipelineAssumption DEF ReplaceData, chosen, prepared, recovered
<1>2. Given' /\ layout = "unknown" /\ refusal = "none"
  BY <1>1 DEF RunInv, Given, Taken, LargestData
<1>3. SearchInv'
  BY <1>1, RestingKeeps DEF RunInv
<1>4. Covered'
  <2>1. CoverIsPrepared => CoverIsPrepared'
    BY <1>1, StaysPrepared
  <2> QED BY <1>1, <2>1 DEF RunInv, Covered
<1>5. Held' /\ Asked'
  BY <1>1 DEF RunInv, Held, Asked
<1>6. Fitting'
  <2>1. Encrypted' = Encrypted
    BY <1>1 DEF Encrypted
  <2> QED BY <1>1, <2>1 DEF RunInv, Fitting
<1>7. SealedSoFar' /\ Written' /\ Taken'
  BY <1>1, <1>2 DEF SealedSoFar, Written, Taken
<1>8. LimitsAgree' /\ RecoveredAsConcealed'
  BY <1>1, <1>2 DEF LimitsAgree, RecoveredAsConcealed
<1> QED BY <1>2, <1>3, <1>4, <1>5, <1>6, <1>7, <1>8 DEF RunInv

\* Two sequences in one.
LEMMA Joined ==
  ASSUME NEW S, NEW a \in Seq(S), NEW b \in Seq(S)
  PROVE  /\ a \o b \in Seq(S) /\ Len(a \o b) = Len(a) + Len(b)
         /\ \A i \in 1..Len(a) : (a \o b)[i] = a[i]
         /\ \A i \in (Len(a) + 1)..(Len(a) + Len(b)) : (a \o b)[i] = b[i - Len(a)]
OBVIOUS

\* All but the last of segments that begin with n of a length.
LEMMA FrontIsAdded ==
  ASSUME NEW segs \in Seq(Segments), NEW n \in Nat \ {0}, NEW length \in Nat, Len(segs) > n,
         \A i \in 1..n : segs[i].length = length
  PROVE  /\ BytesOf(SubSeq(segs, 1, Len(segs) - 1)) \in Nat
         /\ BytesOf(SubSeq(segs, 1, Len(segs) - 1)) >= n * length
<1> DEFINE sides == SubSeq(segs, 1, Len(segs) - 1)
<1>1. /\ sides \in Seq(Segments) /\ Len(sides) = Len(segs) - 1
      /\ \A i \in 1..(Len(segs) - 1) : sides[i] = segs[i]
  BY WithoutLast
<1>2. n \in 0..Len(sides) /\ \A i \in 1..n : sides[i].length = length
  <2>1. Len(segs) \in Nat
    OBVIOUS
  <2>2. n <= Len(segs) - 1 /\ \A i \in 1..n : i \in 1..(Len(segs) - 1)
    BY <2>1
  <2> QED BY <1>1, <2>1, <2>2
<1> HIDE DEF sides
<1>3. BytesOf(sides) \in Nat /\ BytesOf(sides) >= n * length
  BY <1>1, <1>2, BytesAtLeast
<1> QED BY <1>3 DEF sides

LEMMA Fronting ==
  ASSUME RunInv, AddInFront
  PROVE  RunInv'
<1>1. /\ Same /\ pc = "shown" /\ pc' = "posted" /\ refusal' = refusal /\ SearchInv'
      /\ UNCHANGED <<sealed, measured>>
  BY RestingKeeps DEF RunInv, AddInFront, Same, files, chosen, recovered, prepared, Goto
<1>2. /\ measured \in Nat /\ measured <= LargestData[mode] /\ mode \in Modes
      /\ SealedSoFar /\ Written /\ image.size <= FinalLimit[mode]
  BY <1>1 DEF RunInv, Given, LimitsAgree
<1>3. PICK s \in FrontSegments, n \in {1, MaxLeading, MaxLeading + 1} :
        image' = [image EXCEPT !.segs = [i \in 1..n |-> s] \o @, !.size = @ + n * s.length]
  BY DEF AddInFront
<1>4. n \in Nat \ {0} /\ s \in Segments /\ s.kind \in {"app", "app2"} /\ s.length \in Nat
  <2>1. n \in Nat \ {0}
    BY <1>3 DEF MaxLeading
  <2>2. s \in [kind : {"app", "app2"}, length : Nat]
    BY <1>3, PipelineAssumption
  <2> QED BY <2>1, <2>2 DEF Segments
<1>5. /\ {"mode", "segs", "size", "declared"} \subseteq DOMAIN image
      /\ image.mode = mode /\ image.size \in Int /\ image.segs \in Seq(Segments)
      /\ mode \in Carriers => IsCarrierImage /\ {"frame", "costs", "deflated"} \subseteq DOMAIN image
      /\ mode \notin Carriers => "fields" \in DOMAIN image
      /\ mode = "default" => IsIccImage
      /\ mode = "bluesky" => IsBlueskyImage
  BY <1>1, <1>2 DEF Written
<1> DEFINE old == image.segs
           new == [i \in 1..n |-> s] \o old
<1>6. /\ DOMAIN image' = DOMAIN image
      /\ image'.segs = new /\ image'.size = image.size + n * s.length
      /\ image'.mode = image.mode /\ image'.declared = image.declared
      /\ mode \notin Carriers => image'.fields = image.fields
      /\ mode \in Carriers => /\ image'.frame = image.frame /\ image'.costs = image.costs
                              /\ image'.deflated = image.deflated
  BY <1>3, <1>5
<1>7. Len(old) \in Nat /\ Len(old) # 0
  <2>1. IsCarrierImage \/ IsIccImage \/ IsBlueskyImage
    BY <1>2, <1>5 DEF Modes, Carriers
  <2> QED BY <1>5, <2>1 DEF IsCarrierImage, IsIccImage, IsBlueskyImage, IsFronted
<1>8. /\ new \in Seq(Segments) /\ Len(new) = n + Len(old)
      /\ \A i \in 1..n : new[i] = s
      /\ \A i \in (n + 1)..Len(new) : new[i] = old[i - n] /\ i - n \in 1..Len(old)
      /\ BytesOf(SubSeq(new, 1, Len(new) - 1)) \in Nat
      /\ BytesOf(SubSeq(new, 1, Len(new) - 1)) >= n * s.length
  <2> DEFINE front == [i \in 1..n |-> s]
  <2>1. front \in Seq(Segments) /\ Len(front) = n /\ \A i \in 1..n : front[i] = s
    BY <1>4
  <2>2. new = front \o old /\ old \in Seq(Segments)
    BY <1>5
  <2> HIDE DEF new, old, front
  <2>3. /\ new \in Seq(Segments) /\ Len(new) = Len(front) + Len(old)
        /\ \A i \in 1..Len(front) : new[i] = front[i]
        /\ \A i \in (Len(front) + 1)..(Len(front) + Len(old)) : new[i] = old[i - Len(front)]
    BY <2>1, <2>2, Joined
  <2>4. /\ Len(new) = n + Len(old) /\ \A i \in 1..n : new[i] = s
        /\ \A i \in (n + 1)..(n + Len(old)) : new[i] = old[i - n]
    BY <2>1, <2>3
  <2>5. \A i \in (n + 1)..Len(new) : new[i] = old[i - n] /\ i - n \in 1..Len(old)
    BY <1>4, <1>7, <2>4
  <2>6. Len(new) > n /\ \A i \in 1..n : new[i].length = s.length
    BY <1>4, <1>7, <2>4
  <2>7. /\ BytesOf(SubSeq(new, 1, Len(new) - 1)) \in Nat
        /\ BytesOf(SubSeq(new, 1, Len(new) - 1)) >= n * s.length
    BY <1>4, <2>3, <2>6, FrontIsAdded
  <2> QED BY <2>3, <2>4, <2>5, <2>7
<1>9. n * s.length \in Nat
  BY <1>4, Z3
<1> DEFINE added == n * s.length
<1> HIDE DEF new, added
<1>10. image'.segs = new /\ image'.size = image.size + added /\ added \in Nat
  BY <1>6, <1>9 DEF added
<1>11. Len(new) # 0 /\ Len(new) # 1 /\ Len(new) \in Nat /\ Len(new) \in (n + 1)..Len(new) /\ Len(new) - n = Len(old)
  BY <1>4, <1>7, <1>8
<1>12. ASSUME NEW last, IsFronted(last)
       PROVE  IsFronted(last)'
  <2>1. new[Len(new)] = old[Len(old)]
    BY <1>8, <1>11
  <2>2. ASSUME NEW i \in 1..(Len(new) - 1)
        PROVE  new[i].kind \in {"app", "app2"}
    <3>1. CASE i <= n
      <4>1. i \in 1..n
        BY <1>4, <1>11, <3>1
      <4> QED BY <1>4, <1>8, <4>1
    <3>2. CASE ~(i <= n)
      <4>1. i \in (n + 1)..Len(new) /\ i - n \in 1..(Len(old) - 1)
        BY <1>4, <1>7, <1>11, <3>2
      <4> QED BY <1>8, <1>12, <4>1 DEF IsFronted
    <3> QED BY <3>1, <3>2
  <2>3. new[Len(new)].kind = last
    BY <1>12, <2>1 DEF IsFronted
  <2> QED BY <1>10, <1>11, <2>2, <2>3 DEF IsFronted
<1>13. mode' = mode /\ sealed' = sealed
  BY <1>1 DEF Same
<1>14. ASSUME mode = "default"
       PROVE  IsIccImage'
  <2>1. image.size <= MaxConceal /\ MaxConceal \in Nat
    BY <1>2, <1>14, PipelineAssumption DEF FinalLimit
  <2> DEFINE b == BytesOf(SubSeq(new, 1, Len(new) - 1))
  <2>2. BytesOf(Before)' = b
    BY <1>10 DEF Before
  <2>3. b \in Nat /\ b >= added
    BY <1>8 DEF added
  <2> HIDE DEF b
  <2>4. image.size + added <= MaxConceal + b
    BY <1>5, <1>10, <2>1, <2>3
  <2>5. (image.size <= MaxConceal + BytesOf(Before))'
    BY <1>10, <2>2, <2>4
  <2>6. IsFronted("icc")'
    BY <1>5, <1>12, <1>14 DEF IsIccImage
  <2>7. DeclaredAccepted("icc")'
    BY <1>5, <1>6, <1>14 DEF IsIccImage, DeclaredAccepted
  <2> QED BY <1>5, <1>6, <1>13, <1>14, <2>5, <2>6, <2>7 DEF IsIccImage, Carriers
<1>15. ASSUME mode = "bluesky"
       PROVE  IsBlueskyImage'
  <2>1. IsFronted("bluesky")'
    BY <1>5, <1>12, <1>15 DEF IsBlueskyImage
  <2>2. DeclaredAccepted("bluesky")'
    BY <1>5, <1>6, <1>15 DEF IsBlueskyImage, DeclaredAccepted
  <2> QED BY <1>5, <1>6, <1>10, <1>11, <1>15, <2>1, <2>2 DEF IsBlueskyImage, Carriers
<1>16. ASSUME mode \in Carriers
       PROVE  IsCarrierImage'
  <2>1. ASSUME NEW i \in 1..Len(new)
        PROVE  new[i].kind \in {"app", "app2", "tables"}
    <3>1. CASE i <= n
      <4>1. i \in 1..n
        BY <1>4, <1>11, <3>1
      <4> QED BY <1>4, <1>8, <4>1
    <3>2. CASE ~(i <= n)
      <4>1. i \in (n + 1)..Len(new)
        BY <1>4, <1>11, <3>2
      <4> QED BY <1>5, <1>8, <1>16, <4>1 DEF IsCarrierImage
    <3> QED BY <3>1, <3>2
  <2>2. DeclaredAccepted(mode)'
    BY <1>5, <1>6, <1>13, <1>16 DEF IsCarrierImage, DeclaredAccepted
  <2>3. mode = "twitter" => TwitterReads(image.frame)'
    BY <1>5, <1>6, <1>16 DEF IsCarrierImage, TwitterReads
  <2>4. mode = "reddit" => RedditReads(image.frame)'
    BY <1>5, <1>6, <1>16 DEF IsCarrierImage, RedditReads
  <2> QED BY <1>5, <1>6, <1>10, <1>11, <1>13, <1>16, <2>1, <2>2, <2>3, <2>4 DEF IsCarrierImage
<1>17. Written'
  <2>1. image'.size \in Int
    BY <1>5, <1>10
  <2> QED BY <1>5, <1>6, <1>8, <1>10, <1>13, <1>14, <1>15, <1>16, <2>1 DEF Written
<1>18. SealedSoFar'
  BY <1>1, <1>2, SealStays DEF Same
<1> QED BY <1>1, <1>2, <1>17, <1>18, GoesOn DEF Covered, Held, Fitting, Asked

-----------------------------------------------------------------------------
(* The steps of recover.                                                   *)

LEMMA CostsAreSupported ==
  Supported(Costs) /\ Costs # OtherBytes /\ OtherBytes # Raw
<1>1. Costs # OtherBytes
  <2>1. DOMAIN Costs = {"ops", "mem"} /\ DOMAIN OtherBytes = {"byte"}
    BY DEF Costs, OtherBytes
  <2>2. {"ops", "mem"} # {"byte"}
    OBVIOUS
  <2> QED BY <2>1, <2>2
<1>2. OtherBytes # Raw
  <2>1. OtherBytes.byte = "any" /\ Raw.byte = "raw"
    BY DEF OtherBytes, Raw
  <2>2. OtherBytes.byte # Raw.byte
    BY <2>1
  <2> QED BY <2>2
<1>3. Costs.ops = 2 /\ Costs.mem = 67108864
  BY DEF Costs
<1> QED BY <1>1, <1>2, <1>3 DEF Supported, OpsRange, MemMin, MemMax

\* The modes that FrontIsBorne distinguishes.
LEMMA BorneFronts ==
  FrontIsBorne =>
    /\ mode = "default" => /\ Len(Before) <= 16 /\ \A s \in ToSet(Before) : s.kind = "app"
                           /\ BytesOf(Before) <= 64 * KiB
    /\ mode = "bluesky" => Len(image.segs) = 1
    /\ mode \in Carriers => image.size <= FinalLimit[mode]
<1>1. mode = "bluesky" => mode # "default"
  OBVIOUS
<1>2. mode \in Carriers => mode # "default" /\ mode # "bluesky"
  BY DEF Carriers
<1>3. FrontIsBorne /\ mode = "default" =>
        /\ Len(Before) <= 16 /\ \A s \in ToSet(Before) : s.kind = "app"
        /\ BytesOf(Before) <= 64 * KiB
  BY <1>1 DEF FrontIsBorne, Before
<1>4. FrontIsBorne /\ mode = "bluesky" => Len(image.segs) = 1
  BY <1>1 DEF FrontIsBorne
<1>5. FrontIsBorne /\ mode \in Carriers => image.size <= FinalLimit[mode]
  BY <1>2 DEF FrontIsBorne
<1> QED BY <1>3, <1>4, <1>5

\* What recover finds in the image of the default mode.
LEMMA IccIsFound ==
  ASSUME IsIccImage, mode = "default", image.segs \in Seq(Segments), image.size \in Int,
         sealed.mode \in BOOLEAN
  PROVE  /\ ~FindsBluesky(image.segs)
         /\ FrontIsBorne => FindsIcc(image.segs) /\ image.size <= MaxFile
         /\ KdfField("icc") = Costs /\ DeflatedField("icc") = sealed.mode
<1> DEFINE segs == image.segs
           l == Len(segs)
           P == {i \in DOMAIN segs : segs[i].kind \in {"icc", "app2"}}
           at == FirstProfile(segs)
<1>1. /\ l \in Nat /\ l # 0 /\ DOMAIN segs = 1..l /\ segs[l].kind = "icc" /\ l \in 1..l
      /\ \A i \in 1..(l - 1) : segs[i].kind \in {"app", "app2"}
  BY DEF IsIccImage, IsFronted
<1>2. P \subseteq Nat /\ P # {} /\ l \in P /\ at = FirstAt(P)
  BY <1>1 DEF FirstProfile
<1>3. at \in P /\ \A i \in P : at <= i
  <2> HIDE DEF P, at
  <2> QED BY <1>2, FirstPlace
<1>4. at \in 1..l
  BY <1>1, <1>3
<1>5. ~FindsBluesky(segs)
  <2>1. segs[1].kind \in {"app", "app2", "icc"}
    <3>1. l \in Nat /\ l # 0
      BY <1>1
    <3>2. l = 1 \/ 1 \in 1..(l - 1)
      <4> HIDE DEF l
      <4> QED BY <3>1
    <3> QED BY <1>1, <3>2
  <2> QED BY <2>1 DEF FindsBluesky
<1>6. BytesBefore(segs, at) \in Nat
  <2> HIDE DEF at
  <2>1. SubSeq(segs, 1, at - 1) \in Seq(Segments)
    BY <1>1, <1>4
  <2> QED BY <2>1, BytesAreNatural DEF BytesBefore
<1>7. ASSUME FrontIsBorne
      PROVE  FindsIcc(segs) /\ image.size <= MaxFile
  <2>1. /\ Len(Before) <= 16 /\ \A s \in ToSet(Before) : s.kind = "app"
        /\ BytesOf(Before) <= 64 * KiB
    BY <1>7, BorneFronts
  <2>2. /\ Before \in Seq(Segments) /\ Len(Before) = l - 1 /\ BytesOf(Before) \in Nat
        /\ \A i \in 1..(l - 1) : Before[i] = segs[i]
    BY <1>1, WithoutLast DEF Before
  <2>3. \A i \in 1..(l - 1) : segs[i].kind = "app"
    <3>1. \A i \in 1..(l - 1) : Before[i] \in ToSet(Before)
      BY <2>2 DEF ToSet
    <3> QED BY <2>1, <2>2, <3>1
  <2>4. at = l
    <3>1. segs[at].kind \in {"icc", "app2"}
      BY <1>3
    <3>2. at \notin 1..(l - 1)
      BY <2>3, <3>1
    <3> HIDE DEF at
    <3> QED BY <1>1, <1>4, <3>2
  <2>5. BytesBefore(segs, at) = BytesOf(Before)
    BY <2>4 DEF BytesBefore, Before
  <2>6. at # 0 /\ at <= MaxLeading + 1
    <3> HIDE DEF at
    <3> QED BY <1>1, <2>1, <2>2, <2>4 DEF MaxLeading
  <2>7. BytesBefore(segs, at) <= MaxLeadingBytes
    <3> HIDE DEF at
    <3> QED BY <2>1, <2>2, <2>5 DEF KiB, MaxLeadingBytes
  <2>8. FindsIcc(segs)
    <3>1. segs[at].kind = "icc" /\ \A i \in 1..(at - 1) : segs[i].kind \in {"app", "bluesky"}
      BY <1>1, <2>3, <2>4
    <3> HIDE DEF segs
    <3> QED BY <2>6, <2>7, <3>1 DEF FindsIcc
  <2>9. image.size <= MaxFile
    <3> DEFINE b == BytesOf(Before)
    <3>1. b \in Nat /\ b <= 65536 /\ image.size <= MaxConceal + b
      BY <2>1, <2>2 DEF KiB, IsIccImage
    <3>2. MaxConceal \in Nat /\ MaxFile \in Nat /\ MaxConceal + 65536 <= MaxFile
      BY PipelineAssumption DEF MaxLeadingBytes
    <3> HIDE DEF b
    <3> QED BY <3>1, <3>2
  <2> QED BY <2>8, <2>9
<1>8. image.fields = [i \in {KdfAt, MarkAt} |->
                        IF i = KdfAt THEN Costs ELSE IF sealed.mode THEN OtherBytes ELSE Raw]
  BY DEF IsIccImage
<1>9. ProfileField(KdfInProfile) = Costs
  <2> DEFINE b == BytesBefore(segs, at)
  <2>1. ProfileField(KdfInProfile) = Field(ProfileAt + b + KdfInProfile - b)
    BY DEF ProfileField
  <2>2. b \in Nat
    BY <1>6
  <2> HIDE DEF b
  <2>3. ProfileAt + b + KdfInProfile - b = KdfAt
    BY <2>2 DEF ProfileAt, KdfInProfile, KdfAt
  <2>4. Field(KdfAt) = Costs
    BY <1>8 DEF Field
  <2> QED BY <2>1, <2>3, <2>4
<1>10. ProfileField(MarkInProfile) = IF sealed.mode THEN OtherBytes ELSE Raw
  <2> DEFINE b == BytesBefore(segs, at)
  <2>1. ProfileField(MarkInProfile) = Field(ProfileAt + b + MarkInProfile - b)
    BY DEF ProfileField
  <2>2. b \in Nat
    BY <1>6
  <2> HIDE DEF b
  <2>3. ProfileAt + b + MarkInProfile - b = MarkAt
    BY <2>2 DEF ProfileAt, MarkInProfile, MarkAt
  <2>4. MarkAt # KdfAt
    BY DEF MarkAt, KdfAt
  <2>5. Field(MarkAt) = IF sealed.mode THEN OtherBytes ELSE Raw
    BY <1>8, <2>4 DEF Field
  <2> QED BY <2>1, <2>3, <2>5
<1>11. DeflatedField("icc") = sealed.mode
  <2>1. CASE sealed.mode = TRUE
    BY <1>10, <2>1, CostsAreSupported DEF DeflatedField
  <2>2. CASE sealed.mode = FALSE
    BY <1>10, <2>2 DEF DeflatedField
  <2> QED BY <2>1, <2>2
<1> QED BY <1>5, <1>7, <1>9, <1>11 DEF KdfField

\* In the others nothing is found that could be taken for a profile of conceal.
LEMMA NoProfile ==
  ASSUME NEW segs \in Seq(Segments), \A i \in 1..Len(segs) : segs[i].kind # "icc"
  PROVE  ~FindsIcc(segs)
<1> DEFINE P == {i \in DOMAIN segs : segs[i].kind \in {"icc", "app2"}}
<1>1. P \subseteq Nat /\ \A i \in P : i \in 1..Len(segs)
  OBVIOUS
<1>2. FirstProfile(segs) = FirstAt(P)
  BY DEF FirstProfile
<1> HIDE DEF P
<1>3. FirstProfile(segs) # 0 => FirstProfile(segs) \in P
  BY <1>1, <1>2, FirstPlace
<1>4. FirstProfile(segs) # 0 => segs[FirstProfile(segs)].kind # "icc"
  BY <1>1, <1>3
<1> QED BY <1>4 DEF FindsIcc

LEMMA BlueskyIsFound ==
  ASSUME IsBlueskyImage, mode = "bluesky", image.segs \in Seq(Segments), image.size \in Int, pc # "deliver"
  PROVE  /\ ~FindsIcc(image.segs)
         /\ FrontIsBorne => FindsBluesky(image.segs) /\ image.size <= MaxFile
         /\ KdfField("bluesky") = Costs /\ DeflatedField("bluesky") = TRUE
<1> DEFINE segs == image.segs
           l == Len(segs)
<1>1. /\ l \in Nat /\ l # 0 /\ segs[l].kind = "bluesky"
      /\ \A i \in 1..(l - 1) : segs[i].kind \in {"app", "app2"}
  BY DEF IsBlueskyImage, IsFronted
<1>2. \A i \in 1..l : segs[i].kind # "icc"
  <2>1. \A i \in 1..l : i = l \/ i \in 1..(l - 1)
    BY <1>1
  <2> QED BY <1>1, <2>1
<1>3. ASSUME FrontIsBorne
      PROVE  FindsBluesky(segs) /\ image.size <= MaxFile
  <2>1. l = 1
    BY <1>3, BorneFronts
  <2>2. image.size <= MaxBlueskyImage
    BY <2>1 DEF IsBlueskyImage
  <2>3. MaxFile \in Nat /\ RedditUpload <= MaxFile
    BY PipelineAssumption
  <2>4. image.size \in Int => image.size <= MaxFile
    BY <2>2, <2>3 DEF MaxBlueskyImage, RedditUpload, MiB
  <2> QED BY <1>1, <2>1, <2>4 DEF FindsBluesky
<1>4. Field(BlueskyKdfAt) = Costs
  BY DEF IsBlueskyImage, Field
<1> HIDE DEF segs
<1>5. ~FindsIcc(segs)
  BY <1>2, NoProfile DEF segs
<1> QED BY <1>3, <1>4, <1>5 DEF KdfField, DeflatedField, segs

LEMMA CarrierIsFound ==
  ASSUME IsCarrierImage, mode \in Carriers, image.segs \in Seq(Segments), image.size \in Int
  PROVE  /\ ~FindsIcc(image.segs) /\ ~FindsBluesky(image.segs)
         /\ FrontIsBorne => image.size <= FinalLimit[mode] /\ image.size <= RedditUpload /\ image.size <= MaxFile
<1>1. \A i \in 1..Len(image.segs) : image.segs[i].kind # "icc" /\ image.segs[i].kind # "bluesky"
  BY DEF IsCarrierImage
<1>2. ~FindsIcc(image.segs)
  BY <1>1, NoProfile
<1>3. ~FindsBluesky(image.segs)
  <2>1. Len(image.segs) \in Nat /\ Len(image.segs) # 0
    BY DEF IsCarrierImage
  <2>2. 1 \in 1..Len(image.segs)
    BY <2>1
  <2> QED BY <1>1, <2>2 DEF FindsBluesky
<1>4. ASSUME FrontIsBorne
      PROVE  image.size <= FinalLimit[mode] /\ image.size <= RedditUpload /\ image.size <= MaxFile
  <2>1. image.size <= FinalLimit[mode]
    BY <1>4, BorneFronts
  <2>2. FinalLimit[mode] \in {RedditUpload, TwitterUpload}
    BY DEF FinalLimit, Carriers
  <2>3. MaxFile \in Nat /\ RedditUpload <= MaxFile
    BY PipelineAssumption
  <2> QED BY <2>1, <2>2, <2>3 DEF RedditUpload, TwitterUpload, MiB
<1> QED BY <1>2, <1>3, <1>4

LEMMA ImageFacts ==
  ASSUME RunInv, pc \in {"shown", "posted", "key"}
  PROVE  /\ image.segs \in Seq(Segments) /\ image.size \in Int /\ image.mode = mode
         /\ mode \in Modes /\ IsSealed /\ measured \in Nat /\ measured <= LargestData[mode]
         /\ refusal = "none" /\ SearchInv
         /\ mode = "default" => IsIccImage
         /\ mode = "bluesky" => IsBlueskyImage
         /\ mode \in Carriers => IsCarrierImage
BY DEF RunInv, Written, Given, SealedSoFar

LEMMA Taking ==
  ASSUME RunInv, Detect
  PROVE  RunInv'
<1> DEFINE form == IF FindsIcc(image.segs) THEN "icc"
                   ELSE IF FindsBluesky(image.segs) THEN "bluesky" ELSE "carrier"
           why == IF image.size > MaxFile THEN "too large"
                  ELSE IF form = "carrier"
                  THEN IF image.size > RedditUpload THEN "not found" ELSE "none"
                  ELSE IF ~DeclaredAccepted(form) THEN "declared"
                  ELSE IF ~Supported(KdfField(form)) THEN "unsupported" ELSE "none"
<1>1. /\ pc \in {"shown", "posted"} /\ layout' = form
      /\ IF why = "none" THEN Goto("key") ELSE Refuse(why)
      /\ UNCHANGED <<task, mode, coverFile, dataFile, name, measured, sealed, image, report, typed, output>>
      /\ UNCHANGED searchVars
  BY DEF Detect, files, chosen, prepared
<1>2. /\ image.segs \in Seq(Segments) /\ image.size \in Int /\ image.mode = mode
      /\ mode \in Modes /\ IsSealed /\ measured \in Nat /\ measured <= LargestData[mode]
      /\ refusal = "none" /\ SearchInv
      /\ mode = "default" => IsIccImage
      /\ mode = "bluesky" => IsBlueskyImage
      /\ mode \in Carriers => IsCarrierImage
  BY <1>1, ImageFacts
<1>3. SearchInv'
  BY <1>1, <1>2, RestingKeeps
<1>4. FrontIsBorne' <=> FrontIsBorne
  BY <1>1 DEF FrontIsBorne, FinalLimit
<1>5. /\ form = "icc" => mode = "default" /\ DeclaredAccepted("icc") /\ Supported(KdfField("icc"))
      /\ form = "bluesky" => mode = "bluesky" /\ DeclaredAccepted("bluesky") /\ Supported(KdfField("bluesky"))
      /\ form = "carrier" => mode \in Carriers \/ ~FrontIsBorne
      /\ FrontIsBorne => image.size <= MaxFile /\ (form = "carrier" => image.size <= RedditUpload)
      /\ form \in {"icc", "bluesky", "carrier"}
  <2>1. CASE mode = "default"
    <3>1. /\ ~FindsBluesky(image.segs) /\ KdfField("icc") = Costs
          /\ FrontIsBorne => FindsIcc(image.segs) /\ image.size <= MaxFile
      BY <1>2, <2>1, IccIsFound DEF IsSealed
    <3>2. DeclaredAccepted("icc")
      BY <1>2, <2>1 DEF IsIccImage
    <3> QED BY <2>1, <3>1, <3>2, CostsAreSupported
  <2>2. CASE mode = "bluesky"
    <3>1. /\ ~FindsIcc(image.segs) /\ KdfField("bluesky") = Costs
          /\ FrontIsBorne => FindsBluesky(image.segs) /\ image.size <= MaxFile
      BY <1>1, <1>2, <2>2, BlueskyIsFound
    <3>2. DeclaredAccepted("bluesky")
      BY <1>2, <2>2 DEF IsBlueskyImage
    <3> QED BY <2>2, <3>1, <3>2, CostsAreSupported
  <2>3. CASE mode \in Carriers
    <3>1. /\ ~FindsIcc(image.segs) /\ ~FindsBluesky(image.segs)
          /\ FrontIsBorne => image.size <= RedditUpload /\ image.size <= MaxFile
      BY <1>2, <2>3, CarrierIsFound
    <3> QED BY <2>3, <3>1
  <2> QED BY <1>2, <2>1, <2>2, <2>3 DEF Modes, Carriers
<1> DEFINE ok == image.size <= MaxFile /\ (form = "carrier" => image.size <= RedditUpload)
<1>6. /\ FrontIsBorne => why = "none"
      /\ why \in {"none", "too large", "not found"}
  <2>1. MaxFile \in Int /\ RedditUpload \in Int
    BY PipelineAssumption DEF RedditUpload, MiB
  <2> HIDE DEF form
  <2>2. form # "carrier" => DeclaredAccepted(form) /\ Supported(KdfField(form))
    BY <1>5
  <2>3. FrontIsBorne => ~(image.size > MaxFile) /\ (form = "carrier" => ~(image.size > RedditUpload))
    BY <1>2, <1>5, <2>1
  <2> QED BY <2>2, <2>3
<1> HIDE DEF form, why
<1>7. Given' /\ SealedSoFar' /\ Written'
  <2>1. Given'
    BY <1>1, <1>2 DEF RunInv, Given, Goto, Refuse, LargestData
  <2>2. CASE pc' = "key"
    <3>1. Written /\ SealedSoFar /\ pc \in {"deliver", "shown", "posted"} /\ pc' \in {"shown", "posted", "key"}
      BY <1>1, <2>2 DEF RunInv
    <3>2. mode = "bluesky" /\ Len(image.segs) = 1 => image.size <= MaxBlueskyImage
      BY <1>1, <1>2 DEF IsBlueskyImage
    <3>3. Written'
      BY <1>1, <3>1, <3>2, ImageStays
    <3>4. SealedSoFar'
      BY <1>1, <3>1, SealStays
    <3> QED BY <2>1, <3>3, <3>4
  <2>3. CASE pc' = "refused"
    BY <2>1, <2>3 DEF SealedSoFar, Written
  <2> QED BY <1>1, <2>2, <2>3 DEF Goto, Refuse
<1>8. Taken'
  <2>1. CASE pc' = "key"
    BY <1>1, <1>4, <1>5, <2>1 DEF Taken, Carriers
  <2>2. CASE pc' = "refused"
    BY <2>2 DEF Taken
  <2> QED BY <1>1, <2>1, <2>2 DEF Goto, Refuse
<1>9. pc' \in {"key", "refused"} /\ refusal' \in {"none", "too large", "not found"}
  BY <1>1, <1>2, <1>6 DEF Goto, Refuse
<1>10. pc' = "refused" => ~FrontIsBorne
  BY <1>1, <1>6 DEF Goto, Refuse
<1>11. LimitsAgree'
  BY <1>9 DEF LimitsAgree
<1>12. RecoveredAsConcealed'
  BY <1>4, <1>9, <1>10 DEF RecoveredAsConcealed
<1>13. Covered' /\ Held' /\ Fitting' /\ Asked'
  BY <1>9 DEF Covered, Held, Fitting, Asked
<1> QED BY <1>3, <1>7, <1>8, <1>11, <1>12, <1>13 DEF RunInv

\* What ends a run of recover: what was sealed comes out, or the KEY is another one, or
\* there is more in front of the image than recover bears.
LEMMA Ending ==
  ASSUME RunInv, pc = "key",
         UNCHANGED <<task, mode, coverFile, dataFile, name, measured, sealed, image>>, UNCHANGED searchVars,
         \/ /\ pc' = "recovered" /\ refusal' = refusal /\ typed' = "shown"
            /\ output' = [data |-> sealed.data, name |-> sealed.name]
         \/ /\ pc' = "refused" /\ refusal' \in {"key", "not found"}
            /\ typed' \notin {"none", "shown"} \/ ~FrontIsBorne
  PROVE  RunInv'
<1>1. /\ mode \in Modes /\ IsSealed /\ measured \in Nat /\ measured <= LargestData[mode]
      /\ refusal = "none" /\ SearchInv
  BY ImageFacts
<1>2. SearchInv'
  BY <1>1, RestingKeeps
<1>3. Given'
  BY <1>1 DEF RunInv, Given, LargestData
<1>4. SealedSoFar'
  BY <1>1 DEF SealedSoFar, IsSealed
<1>5. Written' /\ Taken' /\ Covered' /\ Held' /\ Fitting' /\ Asked'
  BY DEF Written, Taken, Covered, Held, Fitting, Asked
<1>6. LimitsAgree'
  BY <1>1 DEF LimitsAgree
<1>7. FrontIsBorne' <=> FrontIsBorne
  BY DEF FrontIsBorne, FinalLimit
<1>8. RecoveredAsConcealed'
  <2>1. CASE /\ pc' = "recovered" /\ typed' = "shown"
             /\ output' = [data |-> sealed.data, name |-> sealed.name]
    <3>1. output'.data.size = measured /\ sealed.name = name
      BY <1>1, <2>1 DEF IsSealed
    <3> QED BY <2>1, <3>1 DEF RecoveredAsConcealed
  <2>2. CASE pc' = "refused" /\ (typed' \notin {"none", "shown"} \/ ~FrontIsBorne)
    BY <1>7, <2>2 DEF RecoveredAsConcealed
  <2> QED BY <2>1, <2>2
<1> QED BY <1>2, <1>3, <1>4, <1>5, <1>6, <1>8 DEF RunInv

\* With the costs that are in the image only the KEY that was shown is right, and what it
\* inflates to is within the limit.
LEMMA Decrypted ==
  ASSUME RunInv, pc = "key", NEW key \in Keys, NEW deflated, deflated = sealed.mode,
         Decrypt(key, Costs, deflated)
  PROVE  \/ /\ pc' = "recovered" /\ refusal' = refusal /\ key = "shown"
            /\ output' = [data |-> sealed.data, name |-> sealed.name]
         \/ pc' = "refused" /\ refusal' = "key" /\ key \notin {"none", "shown"}
<1>1. IsSealed /\ measured \in Nat /\ measured <= LargestData[mode] /\ mode \in Modes
  BY ImageFacts
<1>2. sealed.data.size <= MaxFile
  <2>1. MaxFile \in Nat /\ RedditUpload <= MaxFile
    BY PipelineAssumption
  <2>2. LargestData[mode] \in {MaxFile, RedditUpload, TwitterUpload}
    BY <1>1 DEF LargestData, Modes
  <2>3. measured <= MaxFile
    BY <1>1, <2>1, <2>2 DEF RedditUpload, TwitterUpload, MiB
  <2> QED BY <1>1, <2>3 DEF IsSealed
<1>3. sealed.key = <<"shown", Costs>>
  BY <1>1 DEF IsSealed
<1>4. <<key, Costs>> = sealed.key <=> key = "shown"
  BY <1>3
<1>5. CASE key = "shown"
  BY <1>2, <1>4, <1>5 DEF Decrypt, Goto
<1>6. CASE key # "shown"
  <2>1. key # "none"
    BY PipelineAssumption
  <2> QED BY <1>4, <1>6, <2>1 DEF Decrypt, Refuse
<1> QED BY <1>5, <1>6

LEMMA RecoveringFromProfile ==
  ASSUME RunInv, RecoverFromProfile
  PROVE  RunInv'
<1>1. /\ pc = "key" /\ layout \in {"icc", "bluesky"} /\ typed' \in Keys
      /\ Decrypt(typed', KdfField(layout), DeflatedField(layout))
      /\ UNCHANGED <<task, mode, coverFile, dataFile, name, measured, sealed, image>>
      /\ UNCHANGED searchVars
  BY DEF RecoverFromProfile, files, chosen, prepared
<1>2. /\ image.segs \in Seq(Segments) /\ image.size \in Int /\ IsSealed
      /\ mode = "default" => IsIccImage
      /\ mode = "bluesky" => IsBlueskyImage
  BY <1>1, ImageFacts
<1>3. KdfField(layout) = Costs /\ DeflatedField(layout) = sealed.mode
  <2>1. CASE layout = "icc"
    <3>1. mode = "default"
      BY <1>1, <2>1 DEF RunInv, Taken
    <3> QED BY <1>2, <2>1, <3>1, IccIsFound DEF IsSealed
  <2>2. CASE layout = "bluesky"
    <3>1. mode = "bluesky"
      BY <1>1, <2>2 DEF RunInv, Taken
    <3>2. sealed.mode = TRUE
      BY <1>2, <3>1 DEF IsSealed
    <3> QED BY <1>1, <1>2, <2>2, <3>1, <3>2, BlueskyIsFound
  <2> QED BY <1>1, <2>1, <2>2
<1> DEFINE deflated == DeflatedField(layout)
<1>4. Decrypt(typed', Costs, deflated) /\ deflated = sealed.mode
  BY <1>1, <1>3
<1> HIDE DEF deflated
<1>5. \/ /\ pc' = "recovered" /\ refusal' = refusal /\ typed' = "shown"
         /\ output' = [data |-> sealed.data, name |-> sealed.name]
      \/ pc' = "refused" /\ refusal' = "key" /\ typed' \notin {"none", "shown"}
  BY <1>1, <1>4, Decrypted
<1> QED BY <1>1, <1>5, Ending

LEMMA RecoveringFromCarrier ==
  ASSUME RunInv, RecoverFromCarrier
  PROVE  RunInv'
<1> DEFINE form == FoundForm(typed')
<1>1. /\ pc = "key" /\ layout = "carrier" /\ typed' \in Keys
      /\ IF form = "none" THEN Refuse("not found") /\ UNCHANGED output
         ELSE IF ~DeclaredAccepted(form) THEN Refuse("declared") /\ UNCHANGED output
         ELSE IF ~Supported(image.costs) THEN Refuse("unsupported") /\ UNCHANGED output
         ELSE Decrypt(typed', image.costs, image.deflated)
      /\ UNCHANGED <<task, mode, coverFile, dataFile, name, measured, sealed, image>>
      /\ UNCHANGED searchVars
  BY DEF RecoverFromCarrier, files, chosen, prepared
<1>2. /\ image.segs \in Seq(Segments) /\ image.size \in Int /\ image.mode = mode /\ IsSealed
      /\ mode \in Modes
      /\ mode \in Carriers => IsCarrierImage
  BY <1>1, ImageFacts
<1>3. mode \in Carriers \/ ~FrontIsBorne
  BY <1>1 DEF RunInv, Taken
<1>4. /\ form = "none" \/ (form = mode /\ mode \in Carriers /\ typed' = "shown")
      /\ FrontIsBorne /\ typed' = "shown" => form = mode
  <2>1. form \in {"twitter", "reddit", "none"}
    BY DEF FoundForm
  <2>2. form = "twitter" => HasEnvelope("twitter", typed')
    BY DEF FoundForm
  <2>3. form = "reddit" => HasEnvelope("reddit", typed')
    BY DEF FoundForm
  <2>4. form # "none" => form = mode /\ mode \in Carriers /\ typed' = "shown"
    BY <1>2, <2>1, <2>2, <2>3 DEF HasEnvelope, Carriers
  <2>5. ASSUME FrontIsBorne, typed' = "shown"
        PROVE  form = mode
    <3>1. mode \in Carriers /\ IsCarrierImage
      BY <1>2, <1>3, <2>5
    <3>2. image.size <= FinalLimit[mode]
      BY <1>2, <2>5, <3>1, CarrierIsFound
    <3>3. CASE mode = "twitter"
      <4>1. HasEnvelope("twitter", typed') /\ ~HasEnvelope("reddit", typed') /\ image.size <= TwitterUpload
        BY <1>2, <2>5, <3>1, <3>2, <3>3 DEF HasEnvelope, IsCarrierImage, FinalLimit
      <4> QED BY <3>3, <4>1 DEF FoundForm
    <3>4. CASE mode = "reddit"
      <4>1. HasEnvelope("reddit", typed') /\ ~HasEnvelope("twitter", typed')
        BY <1>2, <2>5, <3>1, <3>4 DEF HasEnvelope, IsCarrierImage
      <4> QED BY <3>4, <4>1 DEF FoundForm
    <3> QED BY <3>1, <3>3, <3>4 DEF Carriers
  <2> QED BY <2>4, <2>5
<1> HIDE DEF form
<1>5. CASE form = "none"
  <2>1. typed' \notin {"none", "shown"} \/ ~FrontIsBorne
    <3>1. typed' # "none"
      BY <1>1, PipelineAssumption
    <3>2. mode # "none"
      BY <1>2 DEF Modes
    <3> QED BY <1>4, <1>5, <3>1, <3>2
  <2> QED BY <1>1, <1>5, <2>1, Ending DEF Refuse
<1>6. CASE form # "none"
  <2>1. form = mode /\ mode \in Carriers /\ IsCarrierImage
    BY <1>2, <1>4, <1>6
  <2>2. DeclaredAccepted(form) /\ image.costs = Costs /\ image.deflated = sealed.mode
    BY <2>1 DEF IsCarrierImage
  <2>3. Decrypt(typed', Costs, image.deflated)
    BY <1>1, <1>6, <2>2, CostsAreSupported
  <2> DEFINE deflated == image.deflated
  <2>4. Decrypt(typed', Costs, deflated) /\ deflated = sealed.mode
    BY <2>2, <2>3
  <2> HIDE DEF deflated
  <2>5. \/ /\ pc' = "recovered" /\ refusal' = refusal /\ typed' = "shown"
           /\ output' = [data |-> sealed.data, name |-> sealed.name]
        \/ pc' = "refused" /\ refusal' = "key" /\ typed' \notin {"none", "shown"}
    BY <1>1, <2>4, Decrypted
  <2> QED BY <1>1, <2>5, Ending
<1> QED BY <1>5, <1>6

-----------------------------------------------------------------------------

\* A step that changes nothing.
LEMMA RunStays ==
  ASSUME RunInv, UNCHANGED vars
  PROVE  RunInv'
<1>1. /\ UNCHANGED <<pc, refusal, task, mode, coverFile, dataFile, replaced, name, measured, cover>>
      /\ UNCHANGED <<bypass, stored, sealed, image, report, layout, typed, output>>
      /\ UNCHANGED searchVars /\ UNCHANGED <<search, capacity, nameLength, lower, upper>>
  BY DEF vars, chosen, files, prepared, recovered, searchVars
<1>2. SearchInv'
  BY <1>1, RestingKeeps DEF RunInv
<1>3. Given'
  BY <1>1 DEF RunInv, Given, LargestData
<1>4. Covered'
  <2>1. CoverIsPrepared => CoverIsPrepared'
    BY <1>1, StaysPrepared
  <2> QED BY <1>1, <2>1 DEF RunInv, Covered
<1>5. Held' /\ Asked'
  BY <1>1 DEF RunInv, Held, Asked, Fits
<1>6. Fitting' /\ SealedSoFar'
  BY <1>1 DEF RunInv, Fitting, Encrypted, SealedSoFar, IsSealed
<1>7. Written'
  <2>1. BytesOf(Before)' = BytesOf(Before)
    BY <1>1 DEF Before
  <2>2. IsIccImage => IsIccImage'
    BY <1>1, <2>1 DEF IsIccImage, IsFronted, DeclaredAccepted
  <2>3. IsBlueskyImage => IsBlueskyImage'
    BY <1>1 DEF IsBlueskyImage, IsFronted, DeclaredAccepted
  <2>4. IsCarrierImage => IsCarrierImage'
    BY <1>1 DEF IsCarrierImage, DeclaredAccepted, TwitterReads, RedditReads
  <2> QED BY <1>1, <2>2, <2>3, <2>4 DEF RunInv, Written
<1>8. FrontIsBorne' <=> FrontIsBorne
  BY <1>1 DEF FrontIsBorne, FinalLimit
<1>9. Taken'
  BY <1>1, <1>8 DEF RunInv, Taken
<1>10. LimitsAgree'
  BY <1>1 DEF RunInv, LimitsAgree, Fits, FinalLimit
<1>11. RecoveredAsConcealed'
  BY <1>1, <1>8 DEF RunInv, RecoveredAsConcealed
<1> QED BY <1>2, <1>3, <1>4, <1>5, <1>6, <1>7, <1>9, <1>10, <1>11 DEF RunInv

LEMMA RunInvariant ==
  PipelineSpec => []RunInv
<1>1. RunInv /\ [PipelineNext]_vars => RunInv'
  <2> SUFFICES ASSUME RunInv, [PipelineNext]_vars
               PROVE  RunInv'
    OBVIOUS
  <2>1. CASE Conceal
    BY <2>1, Validating, PreparingSegments, PreparingCarrier, Detecting, PreparingPayload,
       CheckingLimits, Encrypting, Embedding, Delivering DEF Conceal
  <2>2. CASE Capacity
    BY <2>2, Searching, TellingCapacity, TellingLimits DEF Capacity
  <2>3. CASE ReplaceData \/ AddInFront
    BY <2>3, Replacing, Fronting
  <2>4. CASE Recover
    BY <2>4, Taking, RecoveringFromProfile, RecoveringFromCarrier DEF Recover
  <2>5. CASE UNCHANGED vars
    BY <2>5, RunStays
  <2> QED BY <2>1, <2>2, <2>3, <2>4, <2>5 DEF PipelineNext
<1> QED BY <1>1, RunStarts, PTL DEF PipelineSpec

\* Whatever the mode, raw or deflated, at all limits: what recover gives back is what
\* conceal sealed, of the size that was measured, for the KEY that was shown and for no
\* other; and with that KEY and a front that it bears, recover is never refused.
THEOREM RecoverUndoesConceal == PipelineSpec => []RecoveredAsConcealed
<1>1. RunInv => RecoveredAsConcealed
  BY DEF RunInv
<1> QED BY <1>1, RunInvariant, PTL

\* What the checks before the encryption let through finds its places in the carrier and is
\* accepted by recover; what capsize promises for the longest name fits with every name;
\* the excess that conceal names is what has to go, to the byte.
THEOREM NoLimitContradicts == PipelineSpec => []LimitsAgree
<1>1. RunInv => LimitsAgree
  BY DEF RunInv
<1> QED BY <1>1, RunInvariant, PTL

\* The search ends, in a run of conceal or of capsize, on the largest payload that fits.
THEOREM LargestPayloadIsFound == PipelineSpec => []CapacityIsExact
<1>1. RunInv => CapacityIsExact
  BY DEF RunInv, SearchInv
<1> QED BY <1>1, RunInvariant, PTL

-----------------------------------------------------------------------------
(* The rewritten cover, in detail.                                         *)

LEMMA LastPlace ==
  ASSUME NEW n \in Nat, NEW T, T \subseteq 1..n, T # {}
  PROVE  LastAt(T) \in T /\ \A t \in T : t <= LastAt(T)
<1> DEFINE back == {n - j : j \in T}
<1>1. back \subseteq Nat /\ back # {}
  <2>1. \A j \in T : n - j \in Nat
    OBVIOUS
  <2> QED BY <2>1
<1>2. PICK m \in back : \A k \in back : m <= k
  BY <1>1, Smallest
<1>3. PICK j \in T : m = n - j
  BY <1>2
<1>4. ASSUME NEW k \in T
      PROVE  k <= j
  <2>1. m <= n - k
    BY <1>2
  <2> QED BY <2>1, <1>3
<1>5. LastAt(T) = Max(T)
  BY DEF LastAt
<1> HIDE DEF back
<1>6. Max(T) \in T /\ \A t \in T : t <= Max(T)
  BY <1>4 DEF Max
<1> QED BY <1>5, <1>6

LEMMA OnlyPlace ==
  ASSUME NEW n \in Nat \ {0}
  PROVE  FirstAt({n}) = n /\ LastAt({n}) = n /\ Min({n}) = n /\ Max({n}) = n
<1>1. {n} # {}
  OBVIOUS
<1>2. Min({n}) \in {n}
  BY MinIsIn
<1>3. LastAt({n}) \in {n}
  BY LastPlace
<1> QED BY <1>1, <1>2, <1>3 DEF FirstAt, LastAt

\* SetToSeq leaves no member out.
LEMMA EveryMember ==
  ASSUME NEW T, IsFiniteSet(T)
  PROVE  /\ Len(SetToSeq(T)) = Cardinality(T)
         /\ DOMAIN SetToSeq(T) = 1..Cardinality(T)
         /\ \A i \in 1..Cardinality(T) : SetToSeq(T)[i] \in T
         /\ \A g \in T : \E i \in 1..Cardinality(T) : SetToSeq(T)[i] = g
<1> DEFINE n == Cardinality(T)
           q == SetToSeq(T)
<1>1. n \in Nat /\ ExistsBijection(1..n, T)
  BY FS_CardinalityType
<1>2. PICK f \in [1..n -> T] : \A a, b \in 1..n : f[a] = f[b] => a = b
  BY <1>1 DEF ExistsBijection, Bijection, Injection, IsInjective
<1>3. IsInjective(f)
  BY <1>2 DEF IsInjective
<1>4. q \in [1..n -> T] /\ IsInjective(q)
  BY <1>3 DEF SetToSeq
<1> HIDE DEF q
<1>5. q \in Injection(1..n, T)
  BY <1>4 DEF Injection
<1>6. Cardinality(1..n) = n /\ IsFiniteSet(1..n)
  BY <1>1, FS_Interval
<1> HIDE DEF n
<1>7. q \in Surjection(1..n, T)
  BY <1>5, <1>6, FS_Injection DEF n
<1>8. \A g \in T : \E i \in 1..n : q[i] = g
  BY <1>7 DEF Surjection
<1>9. Len(q) = n
  BY <1>1, <1>4
<1> QED BY <1>4, <1>8, <1>9 DEF q, n

\* A frame that libjpeg shows has a size and a component.
LEMMA FrameHasSize ==
  ASSUME NEW jpeg, IsJpeg(jpeg), DecoderFrame(jpeg).found
  PROVE  /\ DecoderFrame(jpeg).width # 0 /\ DecoderFrame(jpeg).height # 0
         /\ DecoderFrame(jpeg).tables # <<>>
<1> DEFINE segs == jpeg.segs
           frames == Of(segs, DecodedHeader(jpeg), "sof")
           frame == segs[CHOOSE f \in frames : TRUE]
<1>1. Nothing.found = FALSE
  BY DEF Nothing
<1>2. DecoderFrame(jpeg) = OnlyFrame(segs, frames)
  BY <1>1 DEF DecoderFrame
<1>3. Cardinality(frames) = 1
      /\ (\A f \in frames : ~(segs[f].width = 0 \/ segs[f].height = 0 \/ segs[f].tables = <<>>))
      /\ OnlyFrame(segs, frames)
        = [found |-> TRUE, width |-> frame.width, height |-> frame.height,
           tables |-> frame.tables, progressive |-> frame.progressive]
  BY <1>1, <1>2 DEF OnlyFrame
<1>4. frames # {}
  <2>1. Cardinality({}) # 1
    BY FS_EmptySet
  <2> HIDE DEF frames
  <2> QED BY <2>1, <1>3
<1>5. PICK f \in frames : frame = segs[f]
  BY <1>4
<1> HIDE DEF frames, frame, segs
<1> QED BY <1>2, <1>3, <1>5

\* Tables, one frame and its scans, behind an Adobe segment or none.
IsMade(segs, T, z, rgb) ==
  /\ Len(segs) \in Nat /\ Len(segs) >= 3 /\ DOMAIN segs = 1..Len(segs)
  /\ \A i \in 1..Len(segs) :
       /\ ~segs[i].bare
       /\ segs[i].kind = "sof" <=> i = Len(segs) - 1
       /\ segs[i].kind = "sos" <=> i = Len(segs)
       /\ segs[i].kind = "dqt" => segs[i] \in T
  /\ \A g \in T : g.kind = "dqt" /\ \E i \in 1..Len(segs) : segs[i] = g
  /\ segs[Len(segs) - 1] = z
  /\ rgb <=> \E i \in 1..Len(segs) : segs[i].kind = "adobe" /\ segs[i].rgb

LEMMA MadeFrame ==
  ASSUME NEW jpeg, NEW T, NEW z, NEW rgb, IsMade(jpeg.segs, T, z, rgb),
         z.width # 0, z.height # 0, z.tables # <<>>
  PROVE  /\ DecodedHeader(jpeg) = 1..(Len(jpeg.segs) - 1)
         /\ DecoderFrame(jpeg) = [found |-> TRUE, width |-> z.width, height |-> z.height,
                                  tables |-> z.tables, progressive |-> z.progressive]
<1> DEFINE segs == jpeg.segs
           n == Len(segs)
<1>1. n \in Nat /\ n >= 3 /\ DOMAIN segs = 1..n /\ n \in Nat \ {0}
  BY DEF IsMade
<1>2. Framed(jpeg) = 1..n
  BY <1>1 DEF IsMade, Framed
<1>3. Of(segs, 1..n, "sos") = {n}
  BY SMTT(30), <1>1 DEF IsMade, Of
<1>4. FirstAt({n}) = n
  BY <1>1, OnlyPlace
<1>5. DecodedHeader(jpeg) = 1..(n - 1)
  <2>1. DecodedHeader(jpeg) = {i \in 1..n : i < n}
    BY <1>2, <1>3, <1>4 DEF DecodedHeader, BeforeScan
  <2> QED BY <2>1, <1>1
<1>6. Of(segs, 1..(n - 1), "sof") = {n - 1}
  <2>1. \A i \in 1..n : segs[i].kind = "sof" <=> i = n - 1
    BY DEF IsMade
  <2>2. Of(segs, 1..(n - 1), "sof") = {i \in 1..(n - 1) : segs[i].kind = "sof"}
    BY DEF Of
  <2> HIDE DEF segs, n
  <2>3. {i \in 1..(n - 1) : segs[i].kind = "sof"} = {n - 1}
    BY <2>1, <1>1
  <2> QED BY <2>2, <2>3
<1>7. Cardinality({n - 1}) = 1
  BY FS_Singleton
<1>8. (CHOOSE f \in {n - 1} : TRUE) = n - 1
  OBVIOUS
<1>9. segs[n - 1] = z
  BY DEF IsMade
<1>10. OnlyFrame(segs, {n - 1}) = [found |-> TRUE, width |-> z.width, height |-> z.height,
                                   tables |-> z.tables, progressive |-> z.progressive]
  BY <1>7, <1>8, <1>9 DEF OnlyFrame
<1>11. DecoderFrame(jpeg) = OnlyFrame(segs, {n - 1})
  BY <1>2, <1>3, <1>5, <1>6 DEF DecoderFrame
<1> QED BY <1>5, <1>10, <1>11

LEMMA MadeTable ==
  ASSUME NEW segs, NEW T, NEW z, NEW rgb, IsMade(segs, T, z, rgb),
         NEW id, \E g \in T : g.id = id
  PROVE  /\ LastTable(segs, 1..(Len(segs) - 1), id) \in 1..Len(segs)
         /\ LastTable(segs, 1..(Len(segs) - 1), id) # 0
         /\ segs[LastTable(segs, 1..(Len(segs) - 1), id)] \in T
<1> DEFINE n == Len(segs)
           places == {i \in Of(segs, 1..(n - 1), "dqt") : segs[i].id = id}
<1>1. n \in Nat /\ n >= 3
  BY DEF IsMade
<1>2. PICK g \in T : g.id = id
  BY SMTT(30)
<1>3. PICK i \in 1..n : segs[i] = g /\ g.kind = "dqt"
  BY DEF IsMade
<1>4. i # n
  BY <1>1, <1>3 DEF IsMade
<1>5. i \in places
  BY <1>1, <1>2, <1>3, <1>4 DEF Of
<1>6. places \subseteq 1..n
  BY <1>1 DEF Of
<1>7. \A j \in places : segs[j].kind = "dqt"
  BY DEF Of
<1>8. LastTable(segs, 1..(n - 1), id) = LastAt(places)
  BY DEF LastTable
<1> HIDE DEF places
<1>9. LastAt(places) \in places
  BY <1>1, <1>5, <1>6, LastPlace
<1>10. LastAt(places) \in 1..n /\ segs[LastAt(places)].kind = "dqt"
  BY <1>6, <1>7, <1>9
<1>11. segs[LastAt(places)] \in T
  BY <1>10 DEF IsMade
<1>12. LastAt(places) # 0
  BY <1>1, <1>10
<1> QED BY <1>8, <1>10, <1>11, <1>12

LEMMA MadeTables ==
  ASSUME NEW jpeg, NEW T, NEW z, NEW rgb, IsMade(jpeg.segs, T, z, rgb),
         z.width # 0, z.height # 0, z.tables # <<>>,
         \A id \in ToSet(z.tables) : \E g \in T : g.id = id
  PROVE  HasTables(jpeg)
<1>1. /\ DecodedHeader(jpeg) = 1..(Len(jpeg.segs) - 1)
      /\ DecoderFrame(jpeg).tables = z.tables
  <2>1. DecodedHeader(jpeg) = 1..(Len(jpeg.segs) - 1)
    BY MadeFrame
  <2>2. DecoderFrame(jpeg) = [found |-> TRUE, width |-> z.width, height |-> z.height,
                           tables |-> z.tables, progressive |-> z.progressive]
    BY MadeFrame
  <2> QED BY <2>1, <2>2
<1>2. \A id \in ToSet(z.tables) : LastTable(jpeg.segs, 1..(Len(jpeg.segs) - 1), id) # 0
  BY MadeTable
<1> QED BY <1>1, <1>2 DEF HasTables, HasTablesOf

LEMMA MadeRgb ==
  ASSUME NEW jpeg, NEW T, NEW z, NEW rgb, IsMade(jpeg.segs, T, z, rgb),
         z.width # 0, z.height # 0, z.tables # <<>>
  PROVE  IsRgb(jpeg) <=> Len(z.tables) = 3 /\ rgb
<1> DEFINE segs == jpeg.segs
           n == Len(segs)
<1>1. DecodedHeader(jpeg) = 1..(n - 1) /\ DecoderFrame(jpeg).tables = z.tables
  <2>1. DecodedHeader(jpeg) = 1..(n - 1)
    BY MadeFrame
  <2>2. DecoderFrame(jpeg) = [found |-> TRUE, width |-> z.width, height |-> z.height,
                           tables |-> z.tables, progressive |-> z.progressive]
    BY MadeFrame
  <2> QED BY <2>1, <2>2
<1>2. n \in Nat
  BY DEF IsMade
<1>3. ASSUME NEW i \in 1..n, segs[i].kind = "adobe"
      PROVE  i \in 1..(n - 1)
  <2>1. segs[n].kind = "sos"
    <3>1. n \in 1..n
      BY DEF IsMade
    <3> QED BY <3>1 DEF IsMade
  <2>2. i # n
    BY <2>1, <1>3
  <2> QED BY <2>2, <1>2
<1>4. (\E i \in Of(segs, 1..(n - 1), "adobe") : segs[i].rgb)
        <=> \E i \in 1..n : segs[i].kind = "adobe" /\ segs[i].rgb
  BY <1>2, <1>3 DEF Of
<1>5. rgb <=> \E i \in 1..n : segs[i].kind = "adobe" /\ segs[i].rgb
  BY DEF IsMade
<1> QED BY <1>1, <1>4, <1>5 DEF IsRgb

\* inspect_transformed_jpeg sees the same frame.
LEMMA MadeInspected ==
  ASSUME NEW segs, NEW T, NEW z, NEW rgb, IsMade(segs, T, z, rgb), z.tables # <<>>
  PROVE  Inspect(segs) =
           [found |-> TRUE, offset |-> FirstAt(Of(segs, 1..(Len(segs) - 1), "dqt")),
            width |-> z.width, height |-> z.height,
            quality |-> QualityAt(segs, LastTable(segs, 1..(Len(segs) - 1), z.tables[1]))]
<1> DEFINE n == Len(segs)
<1>1. n \in Nat /\ n >= 3 /\ DOMAIN segs = 1..n /\ n \in Nat \ {0} /\ n - 1 \in Nat \ {0}
  <2>1. n \in Nat /\ n >= 3 /\ DOMAIN segs = 1..n
    BY DEF IsMade
  <2> HIDE DEF n
  <2> QED BY SMTT(30), <2>1
<1>2. Of(segs, 1..n, "sos") = {n}
  <2>1. \A i \in 1..n : segs[i].kind = "sos" <=> i = n
    BY DEF IsMade
  <2>2. Of(segs, 1..n, "sos") = {i \in 1..n : segs[i].kind = "sos"}
    BY DEF Of
  <2> HIDE DEF n
  <2>3. {i \in 1..n : segs[i].kind = "sos"} = {n}
    BY <2>1, <1>1
  <2> QED BY <2>2, <2>3
<1>3. FirstAt({n}) = n /\ Max({n - 1}) = n - 1
  BY <1>1, OnlyPlace
<1>4. UpToScan(segs) = 1..(n - 1)
  <2>1. UpToScan(segs) = {i \in 1..n : i < n}
    BY <1>1, <1>2, <1>3 DEF UpToScan, BeforeScan
  <2> QED BY <2>1, <1>1
<1>5. Of(segs, 1..(n - 1), "sof") = {n - 1}
  <2>1. \A i \in 1..n : segs[i].kind = "sof" <=> i = n - 1
    BY DEF IsMade
  <2>2. Of(segs, 1..(n - 1), "sof") = {i \in 1..(n - 1) : segs[i].kind = "sof"}
    BY SMTT(30) DEF Of
  <2> HIDE DEF n
  <2>3. {i \in 1..(n - 1) : segs[i].kind = "sof"} = {n - 1}
    BY <2>1, <1>1
  <2> QED BY SMTT(30), <2>2, <2>3
<1>6. segs[n - 1] = z
  BY DEF IsMade
<1>7. Inspect(segs) = InspectHeader(segs, 1..(n - 1), {n - 1})
  BY <1>4, <1>5 DEF Inspect
<1>8. (\E f \in {n - 1} : segs[f].tables = <<>>) = FALSE
  BY <1>6
<1>9. {n - 1} # {}
  OBVIOUS
<1> HIDE DEF n
<1> QED BY <1>3, <1>6, <1>7, <1>8, <1>9 DEF InspectHeader, n

\* The segments of a sequence that is put together.
LEMMA Composed ==
  ASSUME NEW S, NEW x \in S, NEW q \in Seq(S), NEW z \in S, NEW s \in S,
         NEW segs, segs = <<x>> \o q \o <<z, s>>
  PROVE  /\ Len(q) \in Nat /\ Len(segs) = Len(q) + 3 /\ DOMAIN segs = 1..(Len(q) + 3)
         /\ segs \in Seq(S)
         /\ segs[1] = x /\ \A i \in 1..Len(q) : segs[i + 1] = q[i]
         /\ segs[Len(q) + 2] = z /\ segs[Len(q) + 3] = s
<1>1. Len(q) \in Nat /\ <<x>> \in Seq(S) /\ <<z, s>> \in Seq(S) /\ Len(<<x>>) = 1 /\ Len(<<z, s>>) = 2
  OBVIOUS
<1> DEFINE front == <<x>> \o q
           end == <<z, s>>
<1>2. front \in Seq(S) /\ Len(front) = Len(q) + 1 /\ front[1] = x /\ \A i \in 1..Len(q) : front[i + 1] = q[i]
  BY <1>1
<1>3. end \in Seq(S) /\ Len(end) = 2 /\ end[1] = z /\ end[2] = s
  BY <1>1
<1> HIDE DEF front, end
<1>4. segs = front \o end
  BY DEF front, end
<1>5. segs \in Seq(S) /\ Len(segs) = Len(front) + 2
  BY <1>2, <1>3, <1>4
<1>6. \A i \in 1..Len(front) : segs[i] = front[i]
  BY <1>2, <1>3, <1>4
<1>7. \A i \in 1..2 : segs[Len(front) + i] = end[i]
  BY <1>2, <1>3, <1>4
<1>8. segs[Len(front) + 1] = end[1] /\ segs[Len(front) + 2] = end[2]
  <2>1. 1 \in 1..2 /\ 2 \in 1..2
    OBVIOUS
  <2> QED BY <2>1, <1>7
<1> QED BY <1>1, <1>2, <1>3, <1>5, <1>6, <1>8

\* A table that libjpeg uses is one of the header, for the number it was asked for.
LEMMA TableOf ==
  ASSUME NEW segs, segs \in Seq(ToSet(segs)), NEW header, header \subseteq DOMAIN segs,
         NEW id, LastTable(segs, header, id) # 0
  PROVE  /\ LastTable(segs, header, id) \in header
         /\ segs[LastTable(segs, header, id)].kind = "dqt" /\ segs[LastTable(segs, header, id)].id = id
<1> DEFINE places == {i \in Of(segs, header, "dqt") : segs[i].id = id}
           n == Len(segs)
<1>1. n \in Nat /\ DOMAIN segs = 1..n
  OBVIOUS
<1>2. LastTable(segs, header, id) = LastAt(places)
  BY DEF LastTable
<1>3. \A i \in places : i \in header /\ segs[i].kind = "dqt" /\ segs[i].id = id
  BY DEF Of
<1> HIDE DEF places, n
<1>4. places # {}
  BY <1>2 DEF LastAt
<1>5. places \subseteq 1..n
  BY <1>1, <1>3
<1>6. LastAt(places) \in places
  BY <1>1, <1>4, <1>5, LastPlace
<1> QED BY <1>2, <1>3, <1>6

\* The tables of a cover that can be transformed.
LEMMA CoverTables ==
  ASSUME NEW jpeg, IsJpeg(jpeg), DecoderFrame(jpeg).found, HasTables(jpeg),
         NEW T, T = Tables(jpeg.segs, DecodedHeader(jpeg), DecoderFrame(jpeg))
  PROVE  /\ IsFiniteSet(T) /\ T # {} /\ T \subseteq ToSet(jpeg.segs)
         /\ \A g \in T : g.kind = "dqt" /\ ~g.bare
         /\ \A id \in ToSet(DecoderFrame(jpeg).tables) : \E g \in T : g.id = id
<1> DEFINE segs == jpeg.segs
           header == DecodedHeader(jpeg)
           tables == DecoderFrame(jpeg).tables
<1>1. tables \in Seq(Nat) /\ tables # <<>>
  <2>1. DecoderFrame(jpeg) \in Decoded
    BY FrameIsDecoded
  <2>2. tables # <<>>
    BY FrameHasSize
  <2> QED BY <2>1, <2>2 DEF Decoded
<1>2. segs \in Seq(ToSet(segs))
  BY DEF IsJpeg
<1>3. header \subseteq DOMAIN segs /\ \A i \in header : ~segs[i].bare
  BY DEF DecodedHeader, BeforeScan, Framed
<1>4. IsFiniteSet(T)
  <2>1. HasTablesOf(segs, header, DecoderFrame(jpeg))
    BY DEF HasTables
  <2> HIDE DEF segs, header
  <2> QED BY <1>1, <1>2, <1>3, <2>1, TablesAreTables DEF segs, header
<1>5. ASSUME NEW id \in ToSet(tables)
      PROVE  /\ LastTable(segs, header, id) \in header
             /\ segs[LastTable(segs, header, id)].kind = "dqt" /\ segs[LastTable(segs, header, id)].id = id
  <2>1. LastTable(segs, header, id) # 0
    BY DEF HasTables, HasTablesOf
  <2> HIDE DEF segs, header
  <2> QED BY <1>2, <1>3, <2>1, TableOf
<1>6. T = {segs[LastTable(segs, header, id)] : id \in ToSet(tables)}
  BY DEF Tables
<1> HIDE DEF segs, header, tables
<1>7. ToSet(tables) # {}
  <2>1. 1 \in DOMAIN tables
    BY <1>1
  <2> QED BY <2>1 DEF ToSet
<1>8. T # {}
  BY <1>6, <1>7
<1>9. \A i \in header : segs[i] \in ToSet(segs)
  BY <1>3 DEF ToSet
<1>10. T \subseteq ToSet(segs)
  BY <1>5, <1>6, <1>9
<1>11. \A g \in T : g.kind = "dqt" /\ ~g.bare
  BY <1>3, <1>5, <1>6
<1>12. \A id \in ToSet(tables) : \E g \in T : g.id = id
  BY <1>5, <1>6
<1> QED BY <1>4, <1>8, <1>10, <1>11, <1>12 DEF segs, tables

AreTables(T) == IsFiniteSet(T) /\ T # {} /\ \A g \in T : g.kind = "dqt" /\ ~g.bare
IsFirst(x, rgb) ==
  rgb \in BOOLEAN /\ ~x.bare /\ x.kind = (IF rgb THEN "adobe" ELSE "app") /\ (rgb => x.rgb)
Composition(x, T, z, s) == <<x>> \o SetToSeq(T) \o <<z, s>>
IsLast(z, s) == z.kind = "sof" /\ ~z.bare /\ s.kind = "sos" /\ ~s.bare

\* Behind its first segment, tables, a frame and a scan.
LEMMA ComposedIsMade ==
  ASSUME NEW T, AreTables(T), NEW x, NEW rgb, IsFirst(x, rgb), NEW z, NEW s, IsLast(z, s),
         NEW segs, segs = Composition(x, T, z, s)
  PROVE  /\ IsMade(segs, T, z, rgb)
         /\ segs \in Seq(T \cup {x, z, s}) /\ Len(segs) >= 4
         /\ IsFirst(segs[1], rgb) /\ segs[2].kind = "dqt"
         /\ ~rgb => IsMade(SubSeq(segs, 2, Len(segs)), T, z, rgb)
<1> USE DEF AreTables, IsFirst, IsLast, Composition
<1> DEFINE n == Cardinality(T)
<1> PICK q : q = SetToSeq(T)
  OBVIOUS
<1>1. /\ q \in Seq(T) /\ Len(q) = n /\ (\A i \in 1..n : q[i] \in T)
      /\ \A g \in T : \E i \in 1..n : q[i] = g
  <2>1. SetToSeq(T) \in Seq(T)
    BY AsSequence
  <2>2. /\ Len(SetToSeq(T)) = n /\ \A i \in 1..n : SetToSeq(T)[i] \in T
        /\ \A g \in T : \E i \in 1..n : SetToSeq(T)[i] = g
    BY EveryMember
  <2> QED BY <2>1, <2>2
<1>2. n \in Nat \ {0}
  BY FS_CardinalityType, FS_EmptySet
<1> HIDE DEF n
<1> PICK S : S = T \cup {x, z, s}
  OBVIOUS
<1>3. q \in Seq(S)
  BY <1>1
<1>4. x \in S /\ z \in S /\ s \in S /\ segs = <<x>> \o q \o <<z, s>>
  OBVIOUS
<1>5. /\ Len(segs) = n + 3 /\ DOMAIN segs = 1..(n + 3) /\ segs \in Seq(S)
      /\ segs[1] = x /\ (\A i \in 1..n : segs[i + 1] = q[i])
      /\ segs[n + 2] = z /\ segs[n + 3] = s
  <2>1. /\ Len(segs) = Len(q) + 3 /\ DOMAIN segs = 1..(Len(q) + 3) /\ segs \in Seq(S)
        /\ segs[1] = x /\ (\A i \in 1..Len(q) : segs[i + 1] = q[i])
        /\ segs[Len(q) + 2] = z /\ segs[Len(q) + 3] = s
    <3>1. Len(segs) = Len(q) + 3 /\ DOMAIN segs = 1..(Len(q) + 3) /\ segs \in Seq(S) /\ segs[1] = x
      BY <1>3, <1>4, Composed
    <3>2. \A i \in 1..Len(q) : segs[i + 1] = q[i]
      BY <1>3, <1>4, Composed
    <3>3. segs[Len(q) + 2] = z /\ segs[Len(q) + 3] = s
      BY <1>3, <1>4, Composed
    <3> QED BY <3>1, <3>2, <3>3
  <2> QED BY <2>1, <1>1
<1>6. \A i \in 2..(n + 1) : segs[i] \in T
  <2> SUFFICES ASSUME NEW i \in 2..(n + 1)
               PROVE  segs[i] \in T
    OBVIOUS
  <2>1. i - 1 \in 1..n /\ (i - 1) + 1 = i
    BY <1>2
  <2> QED BY <2>1, <1>1, <1>5
<1>7. \A g \in T : \E i \in 2..(n + 1) : segs[i] = g
  <2> SUFFICES ASSUME NEW g \in T
               PROVE  \E i \in 2..(n + 1) : segs[i] = g
    OBVIOUS
  <2>1. PICK i \in 1..n : q[i] = g
    BY <1>1
  <2>2. i + 1 \in 2..(n + 1)
    BY <1>2
  <2> QED BY <2>1, <2>2, <1>5
<1>8. \A i \in 1..(n + 3) : i = 1 \/ i \in 2..(n + 1) \/ i = n + 2 \/ i = n + 3
  BY <1>2
<1>9. ASSUME NEW i \in 1..(n + 3)
      PROVE  /\ ~segs[i].bare
             /\ segs[i].kind = "sof" <=> i = n + 2
             /\ segs[i].kind = "sos" <=> i = n + 3
             /\ segs[i].kind = "dqt" => segs[i] \in T
             /\ segs[i].kind = "adobe" /\ segs[i].rgb => i = 1 /\ rgb
  <2>1. CASE i = 1
    BY <2>1, <1>2, <1>5
  <2>2. CASE i \in 2..(n + 1)
    <3>1. segs[i].kind = "dqt" /\ ~segs[i].bare /\ segs[i] \in T
      BY <1>6, <2>2
    <3>2. i # n + 2 /\ i # n + 3
      BY <1>2, <2>2
    <3> QED BY <3>1, <3>2
  <2>3. CASE i = n + 2
    BY <2>3, <1>2, <1>5
  <2>4. CASE i = n + 3
    BY <2>4, <1>2, <1>5
  <2> QED BY <2>1, <2>2, <2>3, <2>4, <1>8
<1>10. rgb <=> \E i \in 1..(n + 3) : segs[i].kind = "adobe" /\ segs[i].rgb
  <2>1. rgb => segs[1].kind = "adobe" /\ segs[1].rgb
    BY <1>5
  <2>2. 1 \in 1..(n + 3)
    BY <1>2
  <2> QED BY <2>1, <2>2, <1>9
<1>11. IsMade(segs, T, z, rgb)
  <2>1. n + 3 \in Nat /\ n + 3 >= 3 /\ (n + 3) - 1 = n + 2
    BY <1>2
  <2>2. \A g \in T : \E i \in 1..(n + 3) : segs[i] = g
    <3>1. 2..(n + 1) \subseteq 1..(n + 3)
      BY <1>2
    <3> QED BY <3>1, <1>7
  <2>3. Len(segs) = n + 3 /\ DOMAIN segs = 1..(n + 3) /\ segs[n + 2] = z
    BY <1>5
  <2>4. Len(segs) \in Nat /\ Len(segs) >= 3 /\ DOMAIN segs = 1..Len(segs) /\ segs[Len(segs) - 1] = z
    BY <2>1, <2>3
  <2>5. \A i \in 1..Len(segs) :
          /\ ~segs[i].bare
          /\ segs[i].kind = "sof" <=> i = Len(segs) - 1
          /\ segs[i].kind = "sos" <=> i = Len(segs)
          /\ segs[i].kind = "dqt" => segs[i] \in T
    BY <2>1, <2>3, <1>9
  <2>6. rgb <=> \E i \in 1..Len(segs) : segs[i].kind = "adobe" /\ segs[i].rgb
    BY <2>3, <1>10
  <2>7. \A g \in T : g.kind = "dqt" /\ \E i \in 1..Len(segs) : segs[i] = g
    BY <2>2, <2>3
  <2> QED BY <2>4, <2>5, <2>6, <2>7 DEF IsMade
<1>12. segs[2].kind = "dqt"
  <2>1. 2 \in 2..(n + 1)
    BY <1>2
  <2> QED BY <2>1, <1>6
<1>13. ASSUME ~rgb
       PROVE  IsMade(SubSeq(segs, 2, Len(segs)), T, z, rgb)
  <2> DEFINE rest == SubSeq(segs, 2, Len(segs))
  <2>1. /\ Len(rest) = n + 2 /\ DOMAIN rest = 1..(n + 2)
        /\ \A i \in 1..(n + 2) : rest[i] = segs[i + 1]
    BY <1>2, <1>5
  <2> HIDE DEF rest
  <2>2. ASSUME NEW i \in 1..(n + 2)
        PROVE  /\ ~rest[i].bare
               /\ rest[i].kind = "sof" <=> i = n + 1
               /\ rest[i].kind = "sos" <=> i = n + 2
               /\ rest[i].kind = "dqt" => rest[i] \in T
               /\ ~(rest[i].kind = "adobe" /\ rest[i].rgb)
    <3>1. i + 1 \in 1..(n + 3) /\ (i + 1 = n + 2 <=> i = n + 1) /\ (i + 1 = n + 3 <=> i = n + 2)
      BY <1>2
    <3>2. rest[i] = segs[i + 1]
      BY <2>1
    <3> QED BY ZenonT(40), <3>1, <3>2, <1>9, <1>13
  <2>3. \A g \in T : \E i \in 1..(n + 2) : rest[i] = g
    <3> SUFFICES ASSUME NEW g \in T
                 PROVE  \E i \in 1..(n + 2) : rest[i] = g
      OBVIOUS
    <3>1. PICK i \in 2..(n + 1) : segs[i] = g
      BY <1>7
    <3>2. i - 1 \in 1..(n + 2) /\ (i - 1) + 1 = i
      BY <1>2
    <3> QED BY <3>1, <3>2, <2>1
  <2>4. rest[n + 1] = z
    <3>1. n + 1 \in 1..(n + 2) /\ (n + 1) + 1 = n + 2
      BY <1>2
    <3> QED BY <3>1, <2>1, <1>5
  <2>5. n + 2 \in Nat /\ n + 2 >= 3 /\ (n + 2) - 1 = n + 1
    BY <1>2
  <2>6. IsMade(rest, T, z, rgb)
    BY <2>1, <2>2, <2>3, <2>4, <2>5, <1>13 DEF IsMade
  <2> QED BY <2>6 DEF rest
<1>14. Len(segs) >= 4
  BY <1>2, <1>5
<1> QED BY <1>5, <1>11, <1>12, <1>13, <1>14

\* The frame that is written, and the image.
TurnedFrame(jpeg, op, progressive) ==
  Resized(DecoderFrame(jpeg), Turned(op, DecoderFrame(jpeg).width, DecoderFrame(jpeg).height), progressive)
CoverTablesOf(jpeg) == Tables(jpeg.segs, DecodedHeader(jpeg), DecoderFrame(jpeg))

LEMMA SeqOfItsSet ==
  ASSUME NEW S, NEW segs \in Seq(S)
  PROVE  segs \in Seq(ToSet(segs))
<1>1. segs = [i \in 1..Len(segs) |-> segs[i]] /\ Len(segs) \in Nat
  OBVIOUS
<1>2. \A i \in 1..Len(segs) : segs[i] \in ToSet(segs)
  BY <1>1 DEF ToSet
<1>3. segs \in [1..Len(segs) -> ToSet(segs)]
  BY <1>1, <1>2
<1> QED BY <1>1, <1>3

LEMMA TransformedIsMade ==
  ASSUME NEW jpeg, IsJpeg(jpeg), DecoderFrame(jpeg).found, HasTables(jpeg), NEW op, NEW progressive,
         NEW out, out = Transformed(jpeg, op, progressive),
         NEW T, T = CoverTablesOf(jpeg), NEW z, z = TurnedFrame(jpeg, op, progressive)
  PROVE  /\ IsMade(out.segs, T, z, IsRgb(jpeg))
         /\ out.segs \in Seq(ToSet(out.segs)) /\ Len(out.segs) >= 4
         /\ out.segs[2].kind = "dqt" /\ out.segs[1].kind = IF IsRgb(jpeg) THEN "adobe" ELSE "app"
         /\ ~IsRgb(jpeg) => IsMade(SubSeq(out.segs, 2, Len(out.segs)), T, z, IsRgb(jpeg))
         /\ out = [segs |-> out.segs, scans |-> IF progressive THEN 10 ELSE 1]
<1>a. PICK rgb : rgb = IsRgb(jpeg)
  OBVIOUS
<1>b. PICK x : x = IF rgb THEN [kind |-> "adobe", bare |-> FALSE, rgb |-> TRUE] ELSE Framing("app")
  OBVIOUS
<1>c. PICK s : s = Framing("sos")
  OBVIOUS
<1>1. IsFirst(x, rgb)
  <2>1. rgb \in BOOLEAN
    BY <1>a DEF IsRgb
  <2> QED BY <2>1, <1>b DEF Framing, IsFirst
<1>3. IsLast(z, s)
  BY <1>c DEF TurnedFrame, Resized, Framing, IsLast
<1>5. AreTables(T)
  BY CoverTables DEF CoverTablesOf, AreTables
<1>6. out = [segs |-> <<x>> \o SetToSeq(T) \o <<z, s>>, scans |-> IF progressive THEN 10 ELSE 1]
  BY <1>a, <1>b, <1>c DEF Transformed, Rewritten, CoverTablesOf, TurnedFrame
<1>7. out.segs = <<x>> \o SetToSeq(T) \o <<z, s>> /\ out = [segs |-> out.segs, scans |-> IF progressive THEN 10 ELSE 1]
  BY <1>6
<1>d. PICK segs : segs = out.segs
  OBVIOUS
<1>8. /\ IsMade(segs, T, z, rgb)
      /\ segs \in Seq(T \cup {x, z, s}) /\ Len(segs) >= 4
      /\ IsFirst(segs[1], rgb) /\ segs[2].kind = "dqt"
      /\ ~rgb => IsMade(SubSeq(segs, 2, Len(segs)), T, z, rgb)
  <2>1. segs = Composition(x, T, z, s)
    BY <1>7, <1>d DEF Composition
  <2>2. IsMade(segs, T, z, rgb)
    BY <2>1, <1>1, <1>3, <1>5, ComposedIsMade
  <2>3. segs \in Seq(T \cup {x, z, s}) /\ Len(segs) >= 4
    BY <2>1, <1>1, <1>3, <1>5, ComposedIsMade
  <2>4. IsFirst(segs[1], rgb)
    BY <2>1, <1>1, <1>3, <1>5, ComposedIsMade
  <2>6. segs[2].kind = "dqt"
    BY <2>1, <1>1, <1>3, <1>5, ComposedIsMade
  <2>5. ~rgb => IsMade(SubSeq(segs, 2, Len(segs)), T, z, rgb)
    BY <2>1, <1>1, <1>3, <1>5, ComposedIsMade
  <2> QED BY <2>2, <2>3, <2>4, <2>5, <2>6
<1>9. out.segs \in Seq(ToSet(out.segs))
  <2>a. PICK S : S = T \cup {x, z, s}
    OBVIOUS
  <2>1. segs \in Seq(S)
    BY <1>8, <2>a
  <2> QED BY <2>1, <1>d, SeqOfItsSet
<1>10. segs[1].kind = IF rgb THEN "adobe" ELSE "app"
  BY <1>8 DEF IsFirst
<1> QED BY <1>a, <1>d, <1>7, <1>8, <1>9, <1>10

\* The Adobe segment of such an image is left where it stands, right before the tables.
LEMMA AdobeStays ==
  ASSUME NEW S, NEW segs \in Seq(S), Len(segs) >= 4, NEW rgb \in BOOLEAN,
         segs[1].kind = IF rgb THEN "adobe" ELSE "app"
  PROVE  KeepAdobe(segs, 2) = [segs |-> segs, from |-> IF rgb THEN 1 ELSE 2]
<1>1. Len(segs) \in Nat /\ DOMAIN segs = 1..Len(segs)
  OBVIOUS
<1>2. 1..(2 - 1) = {1}
  OBVIOUS
<1>3. CASE rgb
  <2>1. Of(segs, 1..(2 - 1), "adobe") = {1}
    BY <1>2, <1>3 DEF Of
  <2> PICK at : at = FirstAt(Of(segs, 1..(2 - 1), "adobe"))
    OBVIOUS
  <2>2. at = 1
    <3>1. FirstAt({1}) = 1
      BY OnlyPlace
    <3> QED BY <2>1, <3>1
  <2>3. KeepAdobe(segs, 2) =
          IF at = 0 THEN [segs |-> segs, from |-> 2]
          ELSE [segs |-> SubSeq(segs, 1, at - 1) \o SubSeq(segs, at + 1, 2 - 1) \o <<segs[at]>>
                           \o SubSeq(segs, 2, Len(segs)),
                from |-> 2 - 1]
    BY DEF KeepAdobe
  <2> PICK a : a = SubSeq(segs, 1, at - 1)
    OBVIOUS
  <2> PICK b : b = SubSeq(segs, at + 1, 2 - 1)
    OBVIOUS
  <2> PICK c : c = SubSeq(segs, 2, Len(segs))
    OBVIOUS
  <2>4. a = <<>> /\ b = <<>>
    BY <1>1, <2>2
  <2>5. segs[1] \in S
    BY <1>1
  <2>6. c \in Seq(S) /\ Len(c) = Len(segs) - 1 /\ \A i \in 1..Len(c) : c[i] = segs[i + 1]
    BY <1>1
  <2> PICK e : e = <<segs[1]>>
    OBVIOUS
  <2>7. a \o b \o <<segs[1]>> \o c = <<segs[1]>> \o c
    <3>1. e \in Seq(S)
      BY <2>5
    <3>2. <<>> \o <<>> = <<>> /\ <<>> \o e = e
      BY <3>1
    <3> QED BY <2>4, <3>2
  <2>9. KeepAdobe(segs, 2) = [segs |-> a \o b \o <<segs[1]>> \o c, from |-> 1]
    <3>1. at # 0 /\ 2 - 1 = 1
      BY <2>2
    <3>2. KeepAdobe(segs, 2) = [segs |-> a \o b \o <<segs[at]>> \o c, from |-> 1]
      BY <3>1, <2>3, Zenon
    <3> QED BY <3>2, <2>2, Zenon
  <2>8. <<segs[1]>> \o c = segs
    <3> PICK d : d = <<segs[1]>> \o c
      OBVIOUS
    <3>1. d \in Seq(S) /\ Len(d) = Len(segs) /\ d[1] = segs[1]
      BY <1>1, <2>5, <2>6
    <3>2. \A i \in 1..Len(c) : d[i + 1] = c[i]
      BY <2>5, <2>6
    <3>3. ASSUME NEW i \in 1..Len(segs)
          PROVE  d[i] = segs[i]
      <4>1. CASE i = 1
        BY <4>1, <3>1
      <4>2. CASE i # 1
        <5>1. i - 1 \in 1..Len(c) /\ (i - 1) + 1 = i
          BY <1>1, <2>6, <4>2
        <5> QED BY <5>1, <3>2, <2>6
      <4> QED BY <4>1, <4>2
    <3>4. d = segs
      BY <3>1, <3>3, <1>1
    <3> QED BY <3>4
  <2> QED BY <2>7, <2>8, <2>9, <1>3
<1>4. CASE ~rgb
  <2>1. Of(segs, 1..(2 - 1), "adobe") = {}
    BY <1>2, <1>4 DEF Of
  <2> QED BY <2>1, <1>4 DEF KeepAdobe, FirstAt
<1> QED BY <1>3, <1>4

\* What is made of a cover that can be transformed: the image that tjTransform wrote, as
\* far as it is looked at afterwards.
LEMMA OptimizedIs ==
  ASSUME NEW jpeg, IsJpeg(jpeg), NEW progressive, NEW enforce \in BOOLEAN, NEW limits,
         HeaderAccepted(jpeg, limits), CanTransform(jpeg),
         NEW o, o = Optimize(jpeg, progressive, enforce, limits),
         NEW op, op = TransformOp(Prescan(jpeg).orientation),
         NEW out, out = Transformed(jpeg, op, progressive), NEW info, info = Inspect(out.segs),
         NEW T, T = CoverTablesOf(jpeg), NEW z, z = TurnedFrame(jpeg, op, progressive)
  PROVE  /\ info.width = z.width /\ info.height = z.height
         /\ info.quality = QualityAt(out.segs, LastTable(out.segs, 1..(Len(out.segs) - 1), z.tables[1]))
         /\ o.found <=> /\ info.width >= MinSide /\ info.height >= MinSide
                        /\ info.quality # 0 /\ (enforce => info.quality <= MaxQuality)
         /\ o.found => /\ o.jpeg = out /\ o.op = op
                       /\ o.from = IF IsRgb(jpeg) THEN 1 ELSE 2
<1>1. DecoderFrame(jpeg).found /\ HasTables(jpeg)
  BY DEF HeaderAccepted, FramesAccepted, CanTransform
<1>2. /\ IsMade(out.segs, T, z, IsRgb(jpeg))
      /\ out.segs \in Seq(ToSet(out.segs)) /\ Len(out.segs) >= 4
      /\ out.segs[2].kind = "dqt" /\ out.segs[1].kind = IF IsRgb(jpeg) THEN "adobe" ELSE "app"
      /\ out = [segs |-> out.segs, scans |-> IF progressive THEN 10 ELSE 1]
  BY <1>1, TransformedIsMade
<1>3. z.tables # <<>>
  <2>1. z.tables = DecoderFrame(jpeg).tables
    BY DEF TurnedFrame, Resized
  <2> QED BY <2>1, <1>1, FrameHasSize
<1>4. info = [found |-> TRUE, offset |-> FirstAt(Of(out.segs, 1..(Len(out.segs) - 1), "dqt")),
              width |-> z.width, height |-> z.height,
              quality |-> QualityAt(out.segs, LastTable(out.segs, 1..(Len(out.segs) - 1), z.tables[1]))]
  <2> PICK segs : segs = out.segs
    OBVIOUS
  <2> PICK rgb : rgb = IsRgb(jpeg)
    OBVIOUS
  <2>1. IsMade(segs, T, z, rgb)
    BY <1>2
  <2>2. Inspect(segs) =
           [found |-> TRUE, offset |-> FirstAt(Of(segs, 1..(Len(segs) - 1), "dqt")),
            width |-> z.width, height |-> z.height,
            quality |-> QualityAt(segs, LastTable(segs, 1..(Len(segs) - 1), z.tables[1]))]
    BY ZenonT(40), <2>1, <1>3, MadeInspected
  <2> QED BY <2>2
<1>5. FirstAt(Of(out.segs, 1..(Len(out.segs) - 1), "dqt")) = 2
  <2> PICK places : places = Of(out.segs, 1..(Len(out.segs) - 1), "dqt")
    OBVIOUS
  <2>1. Len(out.segs) \in Nat
    BY <1>2
  <2>2. out.segs[1].kind # "dqt"
    BY <1>2
  <2>3. places \subseteq Nat /\ 2 \in places /\ 1 \notin places /\ 0 \notin places
    BY <1>2, <2>1, <2>2 DEF Of
  <2>4. FirstAt(places) \in places /\ FirstAt(places) <= 2 /\ FirstAt(places) \in Nat
    BY <2>3, FirstPlace
  <2>5. FirstAt(places) # 0 /\ FirstAt(places) # 1
    BY <2>3, <2>4
  <2> QED BY <2>4, <2>5
<1>6. info.found /\ info.offset = 2 /\ info.width = z.width /\ info.height = z.height
  BY <1>4, <1>5
<1>7. Nothing.found = FALSE
  BY DEF Nothing
<1>8. o = Finish(out, info, op, enforce)
  BY DEF Optimize, Turn, Rewrite
<1>9. KeepAdobe(out.segs, 2) = [segs |-> out.segs, from |-> IF IsRgb(jpeg) THEN 1 ELSE 2]
  <2>1. IsRgb(jpeg) \in BOOLEAN
    BY DEF IsRgb
  <2> QED BY <2>1, <1>2, AdobeStays
<1> PICK kept : kept = KeepAdobe(out.segs, 2)
  OBVIOUS
<1>10. Cut(out, info, kept, op).found = TRUE
  BY DEF Cut
<1>11. o.found <=> /\ info.width >= MinSide /\ info.height >= MinSide
                   /\ info.quality # 0 /\ (enforce => info.quality <= MaxQuality)
  <2> DEFINE accepted == /\ info.width >= MinSide /\ info.height >= MinSide
                         /\ info.quality # 0 /\ (enforce => info.quality <= MaxQuality)
  <2>1. o = IF accepted THEN Cut(out, info, kept, op) ELSE Nothing
    <3>1. o = IF /\ info.found /\ info.width >= MinSide /\ info.height >= MinSide
                 /\ info.quality # 0 /\ (enforce => info.quality <= MaxQuality)
                 /\ info.offset # 0
              THEN Cut(out, info, KeepAdobe(out.segs, info.offset), op) ELSE Nothing
      BY <1>8 DEF Finish
    <3>2. KeepAdobe(out.segs, info.offset) = kept
      BY <1>6
    <3>3. accepted <=> /\ info.found /\ info.width >= MinSide /\ info.height >= MinSide
                       /\ info.quality # 0 /\ (enforce => info.quality <= MaxQuality)
                       /\ info.offset # 0
      <4>1. info.offset # 0
        BY <1>6
      <4> QED BY <4>1, <1>6, Zenon
    <3> HIDE DEF accepted
    <3> QED BY <3>1, <3>2, <3>3
  <2> HIDE DEF accepted
  <2>2. o.found <=> accepted
    <3>1. CASE accepted
      BY <2>1, <3>1, <1>10
    <3>2. CASE ~accepted
      BY <2>1, <3>2, <1>7
    <3> QED BY <3>1, <3>2
  <2> QED BY <2>2 DEF accepted
<1>12. o.found => o = Cut(out, info, kept, op)
  BY <1>6, <1>7, <1>8 DEF Finish
<1>13. [out EXCEPT !.segs = out.segs] = out
  BY <1>2
<1>14. o.found => o.jpeg = out /\ o.op = op /\ o.from = IF IsRgb(jpeg) THEN 1 ELSE 2
  <2>1. kept.segs = out.segs /\ kept.from = IF IsRgb(jpeg) THEN 1 ELSE 2
    BY <1>9
  <2>2. Cut(out, info, kept, op) =
          [found |-> TRUE, jpeg |-> out, from |-> kept.from,
           leading |-> (info.offset - kept.from) * AdobeLength,
           width |-> info.width, height |-> info.height, op |-> op]
    BY <2>1, <1>13 DEF Cut
  <2> QED BY <2>1, <2>2, <1>12
<1> QED BY <1>4, <1>6, <1>11, <1>14

\* What stays of a cover from its tables on: all of them, and an Adobe segment where its
\* colours need one.
ViewOf(o, rgb) ==
  LET view == SubSeq(o.jpeg.segs, o.from, Len(o.jpeg.segs))
  IN /\ rgb <=> \E g \in ToSet(view) : g.kind = "adobe" /\ g.rgb
     /\ HasTables([o.jpeg EXCEPT !.segs = view])

\* A decoder takes both, or neither, for RGB.
SameColours(jpeg, other) == IsRgb(jpeg) <=> IsRgb(other)

\* What the rewritten cover shows.
LEMMA OptimizedShows ==
  ASSUME NEW jpeg, IsJpeg(jpeg), NEW progressive, NEW enforce \in BOOLEAN, NEW limits,
         HeaderAccepted(jpeg, limits), CanTransform(jpeg),
         NEW o, o = Optimize(jpeg, progressive, enforce, limits), o.found,
         NEW z, z = TurnedFrame(jpeg, TransformOp(Prescan(jpeg).orientation), progressive)
  PROVE  /\ DecoderFrame(o.jpeg) = [found |-> TRUE, width |-> z.width, height |-> z.height,
                                    tables |-> DecoderFrame(jpeg).tables, progressive |-> z.progressive]
         /\ HasTables(o.jpeg) /\ SameColours(o.jpeg, jpeg)
         /\ o.jpeg.scans = IF progressive THEN 10 ELSE 1
         /\ o.op = TransformOp(Prescan(jpeg).orientation)
         /\ ViewOf(o, IsRgb(jpeg))
<1>a. PICK op : op = TransformOp(Prescan(jpeg).orientation)
  OBVIOUS
<1>b. PICK out : out = Transformed(jpeg, op, progressive)
  OBVIOUS
<1>c. PICK info : info = Inspect(out.segs)
  OBVIOUS
<1>d. PICK T : T = CoverTablesOf(jpeg)
  OBVIOUS
<1>e. PICK rgb : rgb = IsRgb(jpeg)
  OBVIOUS
<1>1. DecoderFrame(jpeg).found /\ HasTables(jpeg)
  BY DEF HeaderAccepted, FramesAccepted, CanTransform
<1>2. z = TurnedFrame(jpeg, op, progressive)
  BY <1>a
<1>3. /\ IsMade(out.segs, T, z, rgb) /\ out.segs \in Seq(ToSet(out.segs)) /\ Len(out.segs) >= 4
      /\ ~rgb => IsMade(SubSeq(out.segs, 2, Len(out.segs)), T, z, rgb)
      /\ out = [segs |-> out.segs, scans |-> IF progressive THEN 10 ELSE 1]
  BY <1>1, <1>2, <1>b, <1>d, <1>e, TransformedIsMade
<1>4. /\ info.width = z.width /\ info.height = z.height
      /\ info.width >= MinSide /\ info.height >= MinSide
      /\ o.jpeg = out /\ o.op = op /\ o.from = IF rgb THEN 1 ELSE 2
  BY <1>2, <1>a, <1>b, <1>c, <1>d, <1>e, OptimizedIs
<1>5. z.width # 0 /\ z.height # 0
  BY <1>4 DEF MinSide
<1>6. z.tables = DecoderFrame(jpeg).tables /\ z.tables # <<>>
  <2>1. z.tables = DecoderFrame(jpeg).tables
    BY DEF TurnedFrame, Resized
  <2> QED BY <2>1, <1>1, FrameHasSize
<1>7. \A id \in ToSet(z.tables) : \E g \in T : g.id = id
  BY <1>1, <1>6, <1>d, CoverTables DEF CoverTablesOf
<1>8. DecoderFrame(out) = [found |-> TRUE, width |-> z.width, height |-> z.height,
                           tables |-> z.tables, progressive |-> z.progressive]
  BY <1>3, <1>5, <1>6, MadeFrame
<1>9. HasTables(out)
  BY <1>3, <1>5, <1>6, <1>7, MadeTables
<1>10. IsRgb(out) <=> IsRgb(jpeg)
  <2>1. IsRgb(out) <=> Len(z.tables) = 3 /\ rgb
    <3>1. CASE rgb = TRUE
      <4>1. IsMade(out.segs, T, z, TRUE)
        BY <1>3, <3>1
      <4>2. IsRgb(out) <=> Len(z.tables) = 3 /\ TRUE
        BY <4>1, <1>5, <1>6, MadeRgb
      <4> QED BY <4>2, <3>1
    <3>2. CASE rgb = FALSE
      <4>1. IsMade(out.segs, T, z, FALSE)
        BY <1>3, <3>2
      <4>2. IsRgb(out) <=> Len(z.tables) = 3 /\ FALSE
        BY <4>1, <1>5, <1>6, MadeRgb
      <4> QED BY <4>2, <3>2
    <3>3. rgb \in BOOLEAN
      BY <1>e DEF IsRgb
    <3> QED BY <3>1, <3>2, <3>3
  <2>2. IsRgb(jpeg) => Len(z.tables) = 3
    BY <1>6 DEF IsRgb
  <2> QED BY <2>1, <2>2, <1>e
<1>11. out.scans = IF progressive THEN 10 ELSE 1
  BY <1>3
<1>12. ViewOf(o, rgb)
  <2>a. PICK view : view = SubSeq(o.jpeg.segs, o.from, Len(o.jpeg.segs))
    OBVIOUS
  <2>b. PICK rest : rest = [o.jpeg EXCEPT !.segs = view]
    OBVIOUS
  <2>1. IsMade(view, T, z, rgb)
    <3>1. CASE rgb
      <4>1. view = SubSeq(out.segs, 1, Len(out.segs))
        BY <1>4, <2>a, <3>1
      <4>2. view = out.segs
        BY <4>1, <1>3
      <4> QED BY <4>2, <1>3
    <3>2. CASE ~rgb
      <4>1. view = SubSeq(out.segs, 2, Len(out.segs))
        BY <1>4, <2>a, <3>2
      <4> QED BY <4>1, <1>3, <3>2
    <3> QED BY <3>1, <3>2
  <2>2. rest.segs = view
    BY <1>3, <1>4, <2>b
  <2>3. IsMade(rest.segs, T, z, rgb)
    BY <2>1, <2>2
  <2>4. HasTables(rest)
    BY <2>3, <1>5, <1>6, <1>7, MadeTables
  <2>5. rgb <=> \E i \in 1..Len(view) : view[i].kind = "adobe" /\ view[i].rgb
    BY <2>1 DEF IsMade
  <2>6. DOMAIN view = 1..Len(view)
    BY <2>1 DEF IsMade
  <2>7. rgb <=> \E g \in ToSet(view) : g.kind = "adobe" /\ g.rgb
    BY <2>5, <2>6 DEF ToSet
  <2> QED BY <2>4, <2>7, <2>a, <2>b DEF ViewOf
<1>13. SameColours(o.jpeg, jpeg)
  BY <1>4, <1>10 DEF SameColours
<1> QED BY <1>4, <1>6, <1>8, <1>9, <1>13, <1>11, <1>12, <1>a, <1>e

-----------------------------------------------------------------------------
(* The quality of a table.                                                 *)

LEMMA SumsAreNumbers == \A q \in 1..100 : StandardSums[q] \in Nat
BY SMTT(60) DEF StandardSums

LEMMA QualityIsKnown ==
  ASSUME NEW sum \in TableSums
  PROVE  QualityOf[sum] \in 1..100
<1>1. sum \in Nat
  BY JpegCoverAssumption
<1>2. \A q \in 1..100 : Distance(sum, q) \in Nat
  BY SMTT(30), <1>1, SumsAreNumbers DEF Distance, Absolute
<1> PICK distances : distances = {Distance(sum, q) : q \in 1..100}
  OBVIOUS
<1>3. distances \subseteq Nat /\ distances # {}
  BY <1>2
<1>4. PICK d \in distances : \A e \in distances : d <= e
  BY <1>3, Smallest
<1>5. PICK q \in 1..100 : d = Distance(sum, q)
  BY <1>4
<1>6. q \in Nearest(sum)
  BY <1>4, <1>5 DEF Nearest
<1>7. Nearest(sum) \subseteq 1..100 /\ Nearest(sum) # {} /\ Nearest(sum) \subseteq Nat
  BY <1>6 DEF Nearest
<1>8. Min(Nearest(sum)) \in Nearest(sum)
  BY <1>7, MinIsIn
<1> QED BY <1>7, <1>8 DEF QualityOf

-----------------------------------------------------------------------------
(* Covers: the picture is the one that a viewer shows.                     *)

LEMMA SideOf ==
  ASSUME NEW op, NEW t, NEW b, NEW l, NEW r, Source[op] = Sides(t, b, l, r)
  PROVE  /\ {Source[op][side] : side \in {"top", "left"}} = {t, l}
         /\ {Source[op][side] : side \in {"top", "right"}} = {t, r}
         /\ {Source[op][side] : side \in {"bottom", "left"}} = {b, l}
         /\ {Source[op][side] : side \in {"bottom", "right"}} = {b, r}
<1>1. /\ Source[op]["top"] = t /\ Source[op]["bottom"] = b
      /\ Source[op]["left"] = l /\ Source[op]["right"] = r
  BY DEF Sides
<1>2. \A u, v : {Source[op][side] : side \in {u, v}} = {Source[op][u], Source[op][v]}
  OBVIOUS
<1> QED BY <1>1, <1>2

From(c, row, column) == {IF row \in c THEN "top" ELSE "bottom", IF column \in c THEN "left" ELSE "right"}
Corresponds(t, b, l, r, row, column) ==
  /\ {t, l} = From({"top", "left"}, row, column) /\ {t, r} = From({"top", "right"}, row, column)
  /\ {b, l} = From({"bottom", "left"}, row, column) /\ {b, r} = From({"bottom", "right"}, row, column)

LEMMA SameCorners ==
  ASSUME NEW op, NEW t, NEW b, NEW l, NEW r, Source[op] = Sides(t, b, l, r), NEW o,
         Corresponds(t, b, l, r, FirstRow[o], FirstColumn[o])
  PROVE  TurnedPicture(op, Stored) = Displayed(o, Stored)
<1>1. DOMAIN Stored = {{"top", "left"}, {"top", "right"}, {"bottom", "left"}, {"bottom", "right"}}
  BY DEF Stored
<1>3. /\ {Source[op][side] : side \in {"top", "left"}} = From({"top", "left"}, FirstRow[o], FirstColumn[o])
      /\ {Source[op][side] : side \in {"top", "right"}} = From({"top", "right"}, FirstRow[o], FirstColumn[o])
      /\ {Source[op][side] : side \in {"bottom", "left"}} = From({"bottom", "left"}, FirstRow[o], FirstColumn[o])
      /\ {Source[op][side] : side \in {"bottom", "right"}} = From({"bottom", "right"}, FirstRow[o], FirstColumn[o])
  BY SideOf DEF Corresponds
<1>2. \A c \in DOMAIN Stored : {Source[op][side] : side \in c} = From(c, FirstRow[o], FirstColumn[o])
  <2> SUFFICES ASSUME NEW c \in DOMAIN Stored
               PROVE  {Source[op][side] : side \in c} = From(c, FirstRow[o], FirstColumn[o])
    OBVIOUS
  <2>1. CASE c = {"top", "left"}
    BY <2>1, <1>3
  <2>2. CASE c = {"top", "right"}
    BY <2>2, <1>3
  <2>3. CASE c = {"bottom", "left"}
    BY <2>3, <1>3
  <2>4. CASE c = {"bottom", "right"}
    BY <2>4, <1>3
  <2> QED BY <1>1, <2>1, <2>2, <2>3, <2>4
<1> QED BY ZenonT(40), <1>2 DEF TurnedPicture, Displayed, From

LEMMA EachIsUpright ==
  \A o \in 1..8 : TurnedPicture(Transforms[o], Stored) = Displayed(o, Stored)
<1>1. TurnedPicture(Transforms[1], Stored) = Displayed(1, Stored)
  <2>1. Transforms[1] = "none" /\ Source["none"] = Sides("top", "bottom", "left", "right")
    BY DEF Transforms, Source
  <2>2. FirstRow[1] = "top" /\ FirstColumn[1] = "left"
    BY DEF FirstRow, FirstColumn
  <2>3. Corresponds("top", "bottom", "left", "right", "top", "left")
    BY DEF Corresponds, From
  <2> QED BY ZenonT(40), <2>1, <2>2, <2>3, SameCorners
<1>2. TurnedPicture(Transforms[2], Stored) = Displayed(2, Stored)
  <2>1. Transforms[2] = "hflip" /\ Source["hflip"] = Sides("top", "bottom", "right", "left")
    BY DEF Transforms, Source
  <2>2. FirstRow[2] = "top" /\ FirstColumn[2] = "right"
    BY DEF FirstRow, FirstColumn
  <2>3. Corresponds("top", "bottom", "right", "left", "top", "right")
    BY DEF Corresponds, From
  <2> QED BY <2>1, <2>2, <2>3, SameCorners
<1>3. TurnedPicture(Transforms[3], Stored) = Displayed(3, Stored)
  <2>1. Transforms[3] = "rot180" /\ Source["rot180"] = Sides("bottom", "top", "right", "left")
    BY DEF Transforms, Source
  <2>2. FirstRow[3] = "bottom" /\ FirstColumn[3] = "right"
    BY DEF FirstRow, FirstColumn
  <2>3. Corresponds("bottom", "top", "right", "left", "bottom", "right")
    BY DEF Corresponds, From
  <2> QED BY ZenonT(40), <2>1, <2>2, <2>3, SameCorners
<1>4. TurnedPicture(Transforms[4], Stored) = Displayed(4, Stored)
  <2>1. Transforms[4] = "vflip" /\ Source["vflip"] = Sides("bottom", "top", "left", "right")
    BY DEF Transforms, Source
  <2>2. FirstRow[4] = "bottom" /\ FirstColumn[4] = "left"
    BY DEF FirstRow, FirstColumn
  <2>3. Corresponds("bottom", "top", "left", "right", "bottom", "left")
    BY DEF Corresponds, From
  <2> QED BY ZenonT(40), <2>1, <2>2, <2>3, SameCorners
<1>5. TurnedPicture(Transforms[5], Stored) = Displayed(5, Stored)
  <2>1. Transforms[5] = "transpose" /\ Source["transpose"] = Sides("left", "right", "top", "bottom")
    BY DEF Transforms, Source
  <2>2. FirstRow[5] = "left" /\ FirstColumn[5] = "top"
    BY DEF FirstRow, FirstColumn
  <2>3. Corresponds("left", "right", "top", "bottom", "left", "top")
    BY DEF Corresponds, From
  <2> QED BY ZenonT(40), <2>1, <2>2, <2>3, SameCorners
<1>6. TurnedPicture(Transforms[6], Stored) = Displayed(6, Stored)
  <2>1. Transforms[6] = "rot90" /\ Source["rot90"] = Sides("left", "right", "bottom", "top")
    BY DEF Transforms, Source
  <2>2. FirstRow[6] = "right" /\ FirstColumn[6] = "top"
    BY DEF FirstRow, FirstColumn
  <2>3. Corresponds("left", "right", "bottom", "top", "right", "top")
    BY DEF Corresponds, From
  <2> QED BY <2>1, <2>2, <2>3, SameCorners
<1>7. TurnedPicture(Transforms[7], Stored) = Displayed(7, Stored)
  <2>1. Transforms[7] = "transverse" /\ Source["transverse"] = Sides("right", "left", "bottom", "top")
    BY DEF Transforms, Source
  <2>2. FirstRow[7] = "right" /\ FirstColumn[7] = "bottom"
    BY DEF FirstRow, FirstColumn
  <2>3. Corresponds("right", "left", "bottom", "top", "right", "bottom")
    BY DEF Corresponds, From
  <2> QED BY ZenonT(40), <2>1, <2>2, <2>3, SameCorners
<1>8. TurnedPicture(Transforms[8], Stored) = Displayed(8, Stored)
  <2>1. Transforms[8] = "rot270" /\ Source["rot270"] = Sides("right", "left", "top", "bottom")
    BY DEF Transforms, Source
  <2>2. FirstRow[8] = "left" /\ FirstColumn[8] = "bottom"
    BY DEF FirstRow, FirstColumn
  <2>3. Corresponds("right", "left", "top", "bottom", "left", "bottom")
    BY DEF Corresponds, From
  <2> QED BY <2>1, <2>2, <2>3, SameCorners
<1> QED BY <1>1, <1>2, <1>3, <1>4, <1>5, <1>6, <1>7, <1>8

LEMMA Upright ==
  \A o : TurnedPicture(TransformOp(o), Stored) = Displayed(IF o \in 1..8 THEN o ELSE 1, Stored)
<1> SUFFICES ASSUME NEW o
             PROVE  TurnedPicture(TransformOp(o), Stored) = Displayed(IF o \in 1..8 THEN o ELSE 1, Stored)
  OBVIOUS
<1>1. Transforms[1] = "none"
  BY DEF Transforms
<1>2. CASE o \in 2..8
  <2>1. o \in 1..8 /\ TransformOp(o) = Transforms[o]
    BY <1>2 DEF TransformOp
  <2> QED BY <2>1, EachIsUpright
<1>3. CASE o \notin 2..8
  <2>1. TransformOp(o) = Transforms[1]
    BY <1>1, <1>3 DEF TransformOp
  <2>2. (IF o \in 1..8 THEN o ELSE 1) = 1
    BY <1>3
  <2>3. 1 \in 1..8
    OBVIOUS
  <2> QED BY <2>1, <2>2, <2>3, EachIsUpright
<1> QED BY <1>2, <1>3

-----------------------------------------------------------------------------
(* Covers: what is not turned.                                             *)

LEMMA PlainlyOptimized ==
  ASSUME NEW jpeg, IsJpeg(jpeg), NEW limits, NEW no, no \in BOOLEAN, ~no,
         \A g \in ToSet(jpeg.segs) : g.kind = "dqt" => g.sum \in TableSums,
         HeaderAccepted(jpeg, limits), CanTransform(jpeg), NEW o, o = Optimize(jpeg, no, no, limits),
         NEW z, z = TurnedFrame(jpeg, TransformOp(Prescan(jpeg).orientation), no),
         z.width >= MinSide, z.height >= MinSide
  PROVE  /\ o.found
         /\ DecoderFrame(o.jpeg) = [found |-> TRUE, width |-> z.width, height |-> z.height,
                                    tables |-> DecoderFrame(jpeg).tables, progressive |-> z.progressive]
         /\ HasTables(o.jpeg) /\ SameColours(o.jpeg, jpeg) /\ o.jpeg.scans = 1
<1>1. PICK op : op = TransformOp(Prescan(jpeg).orientation)
  OBVIOUS
<1>2. PICK out : out = Transformed(jpeg, op, no)
  OBVIOUS
<1>3. PICK info : info = Inspect(out.segs)
  OBVIOUS
<1>4. PICK T : T = CoverTablesOf(jpeg)
  OBVIOUS
<1>5. DecoderFrame(jpeg).found /\ HasTables(jpeg)
  BY DEF HeaderAccepted, FramesAccepted, CanTransform
<1>6. z = TurnedFrame(jpeg, op, no)
  BY <1>1
<1>7. info.width = z.width /\ info.height = z.height
  BY <1>1, <1>2, <1>3, <1>4, <1>6, OptimizedIs
<1>8. info.quality = QualityAt(out.segs, LastTable(out.segs, 1..(Len(out.segs) - 1), z.tables[1]))
  BY <1>1, <1>2, <1>3, <1>4, <1>6, OptimizedIs
<1>9. o.found <=> /\ info.width >= MinSide /\ info.height >= MinSide
                  /\ info.quality # 0 /\ (no => info.quality <= MaxQuality)
  BY <1>1, <1>2, <1>3, <1>4, <1>6, OptimizedIs
<1>10. info.quality # 0
  <2>1. IsMade(out.segs, T, z, IsRgb(jpeg))
    BY <1>2, <1>4, <1>5, <1>6, TransformedIsMade
  <2>2. /\ T \subseteq ToSet(jpeg.segs) /\ \A g \in T : g.kind = "dqt"
        /\ \A id \in ToSet(DecoderFrame(jpeg).tables) : \E g \in T : g.id = id
    <3>1. T = Tables(jpeg.segs, DecodedHeader(jpeg), DecoderFrame(jpeg))
      BY <1>4 DEF CoverTablesOf
    <3> QED BY <1>5, <3>1, CoverTables
  <2>3. z.tables[1] \in ToSet(DecoderFrame(jpeg).tables)
    <3>1. z.tables = DecoderFrame(jpeg).tables
      BY <1>6 DEF TurnedFrame, Resized
    <3>2. DecoderFrame(jpeg) \in Decoded
      BY <1>5, FrameIsDecoded
    <3>3. DecoderFrame(jpeg).tables # <<>>
      BY <1>5, FrameHasSize
    <3>4. 1 \in DOMAIN DecoderFrame(jpeg).tables
      BY <3>2, <3>3 DEF Decoded
    <3> QED BY <3>1, <3>4 DEF ToSet
  <2>4. PICK at : at = LastTable(out.segs, 1..(Len(out.segs) - 1), z.tables[1])
    OBVIOUS
  <2>5. at # 0 /\ out.segs[at] \in T
    BY <2>1, <2>2, <2>3, <2>4, MadeTable
  <2>6. QualityOf[out.segs[at].sum] \in 1..100
    BY <2>2, <2>5, QualityIsKnown
  <2>7. info.quality = QualityOf[out.segs[at].sum]
    BY <1>8, <2>4, <2>5 DEF QualityAt
  <2> QED BY <2>6, <2>7
<1>11. o.found
  BY <1>7, <1>9, <1>10
<1>12. DecoderFrame(o.jpeg) = [found |-> TRUE, width |-> z.width, height |-> z.height,
                               tables |-> DecoderFrame(jpeg).tables, progressive |-> z.progressive]
  BY <1>11, OptimizedShows
<1>13. HasTables(o.jpeg)
  BY <1>11, OptimizedShows
<1>14. SameColours(o.jpeg, jpeg)
  BY <1>11, OptimizedShows
<1>15. o.jpeg.scans = IF no THEN 10 ELSE 1
  BY <1>11, OptimizedShows, ZenonT(60)
<1> QED BY <1>11, <1>12, <1>13, <1>14, <1>15

\* Not turned, a cover comes out with its own frame.
LEMMA UnturnedShows ==
  ASSUME NEW jpeg, IsJpeg(jpeg), NEW limits,
         \A g \in ToSet(jpeg.segs) : g.kind = "dqt" => g.sum \in TableSums,
         HeaderAccepted(jpeg, limits), CanTransform(jpeg), TransformOp(Prescan(jpeg).orientation) = "none",
         NEW o, o = Optimize(jpeg, FALSE, FALSE, limits), NEW frame, frame = DecoderFrame(jpeg)
  PROVE  /\ o.found
         /\ DecoderFrame(o.jpeg) = [found |-> TRUE, width |-> frame.width, height |-> frame.height,
                                    tables |-> frame.tables, progressive |-> FALSE]
         /\ HasTables(o.jpeg) /\ SameColours(o.jpeg, jpeg) /\ o.jpeg.scans = 1
<1>1. PICK no \in BOOLEAN : ~no
  OBVIOUS
<1>2. no \in BOOLEAN /\ o = Optimize(jpeg, no, no, limits)
  BY <1>1
<1>3. PICK z : z = TurnedFrame(jpeg, TransformOp(Prescan(jpeg).orientation), no)
  OBVIOUS
<1>4. frame.width \in Nat /\ frame.height \in Nat
  BY FrameIsDecoded DEF HeaderAccepted, FramesAccepted, Decoded
<1>5. frame.width >= MinSide /\ frame.height >= MinSide
  <2>1. /\ Allowed(Prescan(jpeg), limits)
        /\ Dimensions(frame) = Dimensions(Prescan(jpeg))
    BY DEF HeaderAccepted, FramesAccepted
  <2>2. frame.width = Prescan(jpeg).width /\ frame.height = Prescan(jpeg).height
    BY <2>1 DEF Dimensions
  <2> QED BY <2>1, <2>2 DEF Allowed
<1>6. z = [kind |-> "sof", bare |-> FALSE, width |-> frame.width, height |-> frame.height,
           tables |-> frame.tables, progressive |-> FALSE]
  <2>1. Turned("none", frame.width, frame.height) = <<frame.width, frame.height>>
    BY DEF Turned
  <2>2. <<frame.width, frame.height>>[1] = frame.width /\ <<frame.width, frame.height>>[2] = frame.height
    OBVIOUS
  <2> QED BY <1>1, <1>3, <2>1, <2>2 DEF TurnedFrame, Resized
<1>7. z.width = frame.width /\ z.height = frame.height /\ z.progressive = FALSE
  BY <1>6
<1>8. o.found
  BY <1>1, <1>2, <1>3, <1>5, <1>7, PlainlyOptimized, ZenonT(60)
<1>9. DecoderFrame(o.jpeg) = [found |-> TRUE, width |-> z.width, height |-> z.height,
                              tables |-> DecoderFrame(jpeg).tables, progressive |-> z.progressive]
  BY <1>1, <1>2, <1>3, <1>5, <1>7, PlainlyOptimized, ZenonT(60)
<1>10. HasTables(o.jpeg)
  BY <1>1, <1>2, <1>3, <1>5, <1>7, PlainlyOptimized
<1>11. SameColours(o.jpeg, jpeg)
  BY <1>1, <1>2, <1>3, <1>5, <1>7, PlainlyOptimized
<1>12. o.jpeg.scans = 1
  BY <1>1, <1>2, <1>3, <1>5, <1>7, PlainlyOptimized
<1> QED BY <1>7, <1>8, <1>9, <1>10, <1>11, <1>12
\* cover_needs_no_normalization: it decides whether work is saved, never what comes of it.
LEMMA SavingMakesNoDifference ==
  ASSUME CoverFile(coverFile), NeedsNoNormalization(coverFile.jpeg, CarrierLimits)
  PROVE  RewritingMakesNoDifference(coverFile.jpeg, Optimize(coverFile.jpeg, FALSE, FALSE, CarrierLimits))
<1>1. PICK jpeg : jpeg = coverFile.jpeg
  OBVIOUS
<1>2. PICK limits : limits = CarrierLimits
  OBVIOUS
<1>3. PICK o : o = Optimize(jpeg, FALSE, FALSE, limits)
  OBVIOUS
<1>4. PICK frame : frame = DecoderFrame(jpeg)
  OBVIOUS
<1>5. /\ IsJpeg(jpeg) /\ jpeg.scans \in Nat
      /\ \A g \in ToSet(jpeg.segs) : g.kind = "dqt" => g.sum \in TableSums
  BY <1>1 DEF CoverFile
<1>6. /\ HeaderAccepted(jpeg, limits) /\ TransformOp(Prescan(jpeg).orientation) = "none"
      /\ jpeg.scans <= MaxScans
  BY <1>1, <1>2 DEF NeedsNoNormalization, IsUpright
<1>7. ASSUME CanTransform(jpeg)
      PROVE  /\ o.found
             /\ DecoderFrame(o.jpeg) = [found |-> TRUE, width |-> frame.width, height |-> frame.height,
                                        tables |-> frame.tables, progressive |-> FALSE]
             /\ HasTables(o.jpeg) /\ SameColours(o.jpeg, jpeg) /\ o.jpeg.scans = 1
  BY <1>3, <1>4, <1>5, <1>6, <1>7, UnturnedShows
<1>8. frame.found
  BY <1>4, <1>6 DEF HeaderAccepted, FramesAccepted
<1>9. ASSUME CanTransform(jpeg)
      PROVE  TakesFrame(DecoderFrame(o.jpeg), limits) <=> TakesFrame(frame, limits)
  <2>1. PICK f : f = DecoderFrame(o.jpeg)
    OBVIOUS
  <2>2. f.found /\ f.width = frame.width /\ f.height = frame.height /\ f.tables = frame.tables
    BY <1>7, <1>9, <2>1
  <2>3. TakesFrame(f, limits) <=> TakesFrame(frame, limits)
    BY <1>8, <2>2 DEF TakesFrame, Allowed
  <2> QED BY <2>1, <2>3
<1>10. ASSUME CarrierTakes(jpeg, limits)
       PROVE  /\ o.found /\ CarrierTakes(o.jpeg, limits)
              /\ Dimensions(DecoderFrame(o.jpeg)) = Dimensions(frame)
              /\ IsRgb(o.jpeg) = IsRgb(jpeg)
  <2>1. CanTransform(jpeg)
    BY <1>5, <1>10 DEF CarrierTakes, CanTransform, MaxScans, TransformScans
  <2>2. o.found
    BY <1>7, <2>1
  <2>3. TakesFrame(DecoderFrame(o.jpeg), limits)
    BY <1>4, <1>9, <1>10, <2>1 DEF CarrierTakes
  <2>4. HasTables(o.jpeg) /\ o.jpeg.scans <= MaxScans
    BY <1>7, <2>1 DEF MaxScans
  <2>5. Dimensions(DecoderFrame(o.jpeg)) = Dimensions(frame)
    <3>1. DecoderFrame(o.jpeg) = [found |-> TRUE, width |-> frame.width, height |-> frame.height,
                                  tables |-> frame.tables, progressive |-> FALSE]
      BY <1>7, <2>1
    <3> QED BY <3>1 DEF Dimensions
  <2>6. IsRgb(o.jpeg) <=> IsRgb(jpeg)
    BY <1>7, <2>1 DEF SameColours
  <2>7. IsRgb(o.jpeg) \in BOOLEAN /\ IsRgb(jpeg) \in BOOLEAN
    BY Zenon DEF IsRgb
  <2> QED BY <2>2, <2>3, <2>4, <2>5, <2>6, <2>7 DEF CarrierTakes
<1>11. ASSUME o.found, CarrierTakes(o.jpeg, limits)
       PROVE  CarrierTakes(jpeg, limits)
  <2>1. CanTransform(jpeg)
    <3>1. ~CanTransform(jpeg) => o = Nothing
      BY <1>3 DEF Optimize
    <3> QED BY <1>11, <3>1 DEF Nothing
  <2>2. TakesFrame(frame, limits)
    BY <1>9, <1>11, <2>1 DEF CarrierTakes
  <2> QED BY <1>4, <1>6, <2>1, <2>2 DEF CarrierTakes, CanTransform
<1> QED BY <1>1, <1>2, <1>3, <1>4, <1>10, <1>11 DEF RewritingMakesNoDifference

-----------------------------------------------------------------------------
(* Covers: along a run.                                                    *)

\* What is kept of a cover, until the image is written.
KeptSoFar ==
  pc \in {"format", "payload", "capsize"} =>
    /\ Allowed(DecoderFrame(coverFile.jpeg), CarrierLimits)
    /\ cover.op = TransformOp(Prescan(coverFile.jpeg).orientation)
    /\ mode \notin Carriers => ViewOf(cover, IsRgb(coverFile.jpeg))

LEMMA AcceptedIsAllowed ==
  ASSUME NEW jpeg, NEW limits, HeaderAccepted(jpeg, limits)
  PROVE  Allowed(DecoderFrame(jpeg), limits)
<1>1. PICK scan : scan = Prescan(jpeg)
  OBVIOUS
<1>2. PICK frame : frame = DecoderFrame(jpeg)
  OBVIOUS
<1>3. Allowed(scan, limits) /\ frame.width = scan.width /\ frame.height = scan.height
  BY <1>1, <1>2 DEF HeaderAccepted, FramesAccepted, Dimensions
<1>4. Allowed(frame, limits)
  BY <1>3 DEF Allowed
<1> QED BY <1>2, <1>4

LEMMA KeepsSegments ==
  ASSUME RunInv, PrepareSegmentCover
  PROVE  KeptSoFar'
<1>1. /\ pc = "cover" /\ mode \notin Carriers /\ UNCHANGED <<mode, coverFile>>
      /\ TakeOptimized(OptimizedCover)
  BY DEF PrepareSegmentCover, files, chosen
<1>2. IsJpeg(coverFile.jpeg)
  BY DEF RunInv, Given, CoverFile
<1>3. CASE pc' = "refused"
  BY <1>3 DEF KeptSoFar
<1>4. CASE pc' = "format" /\ OptimizedCover.found /\ cover' = KeepCover(OptimizedCover)
  <2>1. PICK jpeg : jpeg = coverFile.jpeg
    OBVIOUS
  <2>2. PICK progressive : progressive = (mode = "default" /\ measured < ProgressiveSource)
    OBVIOUS
  <2>3. PICK enforce : enforce = (mode = "default") /\ enforce \in BOOLEAN
    OBVIOUS
  <2>4. PICK o : o = Optimize(jpeg, progressive, enforce, DefaultLimits)
    OBVIOUS
  <2>5. o = OptimizedCover
    BY <2>1, <2>2, <2>3, <2>4 DEF OptimizedCover
  <2>6. o.found /\ cover'.jpeg = o.jpeg /\ cover'.op = o.op /\ cover'.from = o.from
    BY <1>4, <2>5 DEF KeepCover
  <2>7. HeaderAccepted(jpeg, DefaultLimits) /\ CanTransform(jpeg)
    BY <2>4, <2>6 DEF Optimize, Nothing
  <2>8. PICK z : z = TurnedFrame(jpeg, TransformOp(Prescan(jpeg).orientation), progressive)
    OBVIOUS
  <2>a. IsJpeg(jpeg) /\ enforce \in BOOLEAN /\ o.found
    BY <1>2, <2>1, <2>3, <2>6
  <2>9. o.op = TransformOp(Prescan(jpeg).orientation)
    BY ZenonT(40), <2>a, <2>4, <2>7, <2>8, OptimizedShows
  <2>10. ViewOf(o, IsRgb(jpeg))
    BY <2>a, <2>4, <2>7, <2>8, OptimizedShows
  <2>11. ViewOf(cover', IsRgb(jpeg))
    BY <2>6, <2>10 DEF ViewOf
  <2>12. CarrierLimits' = DefaultLimits
    BY <1>1 DEF CarrierLimits, Carriers
  <2>13. coverFile' = coverFile
    BY <1>1
  <2>14. Allowed(DecoderFrame(coverFile'.jpeg), CarrierLimits')
    BY <2>1, <2>7, <2>12, <2>13, AcceptedIsAllowed
  <2>15. cover'.op = TransformOp(Prescan(coverFile'.jpeg).orientation)
    BY <2>1, <2>6, <2>9, <2>13
  <2>16. ViewOf(cover', IsRgb(coverFile'.jpeg))
    BY <2>1, <2>11, <2>13
  <2> QED BY <2>14, <2>15, <2>16 DEF KeptSoFar
<1> QED BY <1>1, <1>3, <1>4 DEF TakeOptimized, Goto, Refuse

LEMMA KeepsCarriers ==
  ASSUME RunInv, PrepareCarrierCover
  PROVE  KeptSoFar'
<1>1. PICK jpeg : jpeg = coverFile.jpeg
  OBVIOUS
<1>2. PICK limits : limits = CarrierLimits
  OBVIOUS
<1>3. PICK source : source = CarrierSource(jpeg, limits)
  OBVIOUS
<1>4. /\ pc = "cover" /\ mode \in Carriers /\ UNCHANGED <<mode, coverFile>> /\ TakeSource(source)
  BY <1>1, <1>2, <1>3 DEF PrepareCarrierCover, files, chosen
<1>5. IsJpeg(jpeg)
  BY <1>1 DEF RunInv, Given, CoverFile
<1>6. CASE pc' = "refused"
  BY <1>6 DEF KeptSoFar
<1>7. CASE source.found /\ cover'.op = source.op
  <2>1. HeaderAccepted(jpeg, limits) /\ source.op = TransformOp(Prescan(jpeg).orientation)
    <3>1. CASE NeedsNoNormalization(jpeg, limits)
      BY <1>3, <3>1 DEF CarrierSource, AsRead, NeedsNoNormalization, IsUpright
    <3>2. CASE ~NeedsNoNormalization(jpeg, limits)
      <4>1. PICK no : no = FALSE /\ no \in BOOLEAN
        OBVIOUS
      <4>2. source = Optimize(jpeg, no, no, limits)
        BY <1>3, <3>2, <4>1 DEF CarrierSource
      <4>3. HeaderAccepted(jpeg, limits) /\ CanTransform(jpeg)
        BY <1>7, <4>2 DEF Optimize, Nothing
      <4>4. PICK z : z = TurnedFrame(jpeg, TransformOp(Prescan(jpeg).orientation), no)
        OBVIOUS
      <4>5. source.op = TransformOp(Prescan(jpeg).orientation)
        BY ZenonT(40), <1>5, <1>7, <4>1, <4>2, <4>3, <4>4, OptimizedShows
      <4> QED BY <4>3, <4>5
    <3> QED BY <3>1, <3>2
  <2>2. Allowed(DecoderFrame(jpeg), limits)
    BY <2>1, AcceptedIsAllowed
  <2>3. coverFile' = coverFile /\ mode' = mode /\ CarrierLimits' = CarrierLimits
    BY <1>4 DEF CarrierLimits
  <2>4. Allowed(DecoderFrame(coverFile'.jpeg), CarrierLimits')
    BY <1>1, <1>2, <2>2, <2>3
  <2>5. cover'.op = TransformOp(Prescan(coverFile'.jpeg).orientation)
    BY <1>1, <1>7, <2>1, <2>3
  <2> QED BY <1>4, <2>3, <2>4, <2>5 DEF KeptSoFar
<1>8. pc' = "refused" \/ (source.found /\ cover'.op = source.op)
  <2>1. CASE ~(Inspected /\ source.found)
    BY <1>4, <2>1 DEF TakeSource, Refuse
  <2>2. CASE source.found /\ TakeCarrier(source, DecoderFrame(source.jpeg))
    BY <2>2 DEF TakeCarrier, Refuse
  <2> QED BY <1>4, <2>1, <2>2 DEF TakeSource
<1> QED BY <1>6, <1>7, <1>8

\* No other step comes to these places with another cover.
LEMMA CoverStays ==
  ASSUME [PipelineNext]_vars, ~PrepareSegmentCover, ~PrepareCarrierCover,
         pc' \in {"format", "payload", "capsize"}
  PROVE  pc \in {"format", "payload", "capsize"} /\ UNCHANGED <<mode, coverFile, cover>>
<1>1. CASE Conceal
  <2>1. ~(ValidateInputs \/ PreparePayload \/ CheckLimits \/ Encrypt \/ Embed \/ Deliver)
    BY DEF ValidateInputs, PreparePayload, CheckLimits, Encrypt, Embed, Deliver, Require, Goto, Refuse
  <2>2. DetectFormat
    BY <1>1, <2>1 DEF Conceal
  <2> QED BY <2>2 DEF DetectFormat, chosen, files
<1>2. CASE Capacity
  <2>1. ~(TellCapacity \/ TellLimits)
    BY DEF TellCapacity, TellLimits, Goto, Refuse
  <2>2. FindCapacity
    BY <1>2, <2>1 DEF Capacity
  <2> QED BY <2>2 DEF FindCapacity, chosen, files, prepared
<1>3. CASE ReplaceData \/ AddInFront
  <2>1. ~AddInFront
    BY DEF AddInFront, Goto
  <2> QED BY SMTT(30), <1>3, <2>1 DEF ReplaceData, chosen, prepared
<1>4. CASE Recover
  <2>1. ~Detect
    BY DEF Detect, Goto, Refuse
  <2>2. ~RecoverFromProfile
    BY DEF RecoverFromProfile, Decrypt, Goto, Refuse
  <2>3. ~RecoverFromCarrier
    BY DEF RecoverFromCarrier, Decrypt, Goto, Refuse
  <2> QED BY <1>4, <2>1, <2>2, <2>3 DEF Recover
<1>5. CASE UNCHANGED vars
  BY <1>5 DEF vars, chosen, files, prepared
<1> QED BY <1>1, <1>2, <1>3, <1>4, <1>5 DEF PipelineNext

LEMMA CoverKeeps ==
  ASSUME RunInv, KeptSoFar, [PipelineNext]_vars
  PROVE  KeptSoFar'
<1>1. CASE PrepareSegmentCover \/ PrepareCarrierCover
  BY <1>1, KeepsSegments, KeepsCarriers
<1>2. CASE ~PrepareSegmentCover /\ ~PrepareCarrierCover
  <2>1. SUFFICES ASSUME pc' \in {"format", "payload", "capsize"}
                 PROVE  KeptSoFar'
    BY DEF KeptSoFar
  <2>2. pc \in {"format", "payload", "capsize"} /\ UNCHANGED <<mode, coverFile, cover>>
    BY <1>2, <2>1, CoverStays
  <2>3. CarrierLimits' = CarrierLimits
    BY <2>2 DEF CarrierLimits
  <2> QED BY <2>2, <2>3 DEF KeptSoFar
<1> QED BY <1>1, <1>2

LEMMA KeptIsKept ==
  RunInv /\ KeptSoFar => CoverIsKept
<1> SUFFICES ASSUME RunInv, KeptSoFar
             PROVE  CoverIsKept
  OBVIOUS
<1>1. ASSUME pc \in {"format", "payload", "capsize"}
      PROVE  /\ Allowed(DecoderFrame(coverFile.jpeg), CarrierLimits)
             /\ ComesOutUpright(Prescan(coverFile.jpeg).orientation)
             /\ mode \notin Carriers =>
                  ViewIsWhole(SubSeq(cover.jpeg.segs, cover.from, Len(cover.jpeg.segs)))
  <2>1. PICK orientation : orientation = Prescan(coverFile.jpeg).orientation
    OBVIOUS
  <2>2. cover.op = TransformOp(orientation)
    BY <1>1, <2>1 DEF KeptSoFar
  <2>3. TurnedPicture(TransformOp(orientation), Stored)
          = Displayed(IF orientation \in 1..8 THEN orientation ELSE 1, Stored)
    BY Upright
  <2>4. ComesOutUpright(orientation)
    BY <2>2, <2>3 DEF ComesOutUpright
  <2>5. Allowed(DecoderFrame(coverFile.jpeg), CarrierLimits)
    BY <1>1 DEF KeptSoFar
  <2>6. ASSUME mode \notin Carriers
        PROVE  ViewIsWhole(SubSeq(cover.jpeg.segs, cover.from, Len(cover.jpeg.segs)))
    <3>1. ViewOf(cover, IsRgb(coverFile.jpeg))
      BY <1>1, <2>6 DEF KeptSoFar
    <3> QED BY <3>1 DEF ViewOf, ViewIsWhole
  <2> QED BY <2>1, <2>4, <2>5, <2>6
<1>2. ASSUME NeedsNoNormalization(coverFile.jpeg, CarrierLimits)
      PROVE  RewritingMakesNoDifference(coverFile.jpeg, Optimize(coverFile.jpeg, FALSE, FALSE, CarrierLimits))
  <2>1. CoverFile(coverFile)
    BY DEF RunInv, Given
  <2> QED BY <1>2, <2>1, SavingMakesNoDifference
<1> QED BY <1>1, <1>2 DEF CoverIsKept

\* A cover is taken for what libjpeg shows, whatever its segments: accepted, its decoded
\* size is within the limits, it comes out upright for every orientation, and its tables
\* and the Adobe segment that its colours need stay; and a carrier's cover that is not
\* rewritten is accepted exactly when the rewritten one would be, and shows the same.
THEOREM TheCoverIsKept == PipelineSpec => []CoverIsKept
<1>1. PipelineInit => KeptSoFar
  BY DEF PipelineInit, KeptSoFar
<1>2. RunInv /\ KeptSoFar /\ [PipelineNext]_vars => KeptSoFar'
  BY CoverKeeps
<1>3. PipelineSpec => []KeptSoFar
  BY <1>1, <1>2, RunInvariant, PTL DEF PipelineSpec
<1>4. RunInv /\ KeptSoFar => CoverIsKept
  BY KeptIsKept
<1> QED BY <1>3, <1>4, RunInvariant, PTL
=============================================================================
