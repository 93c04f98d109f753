----------------------------- MODULE CarriersProofs -----------------------------
(***************************************************************************)
(* Theorems about the carriers, for every value of the constants: the ICC  *)
(* segments of the default mode, for every size of ciphertext and cover    *)
(* and every run of leading segments, and the order of the positions, for  *)
(* every domain, every hash function and every sequence of calls.          *)
(***************************************************************************)
EXTENDS Carriers, FiniteSetTheorems, WellFoundedInduction, TLAPS

-----------------------------------------------------------------------------
(* The ICC segments.                                                       *)

USE DEF Soi, SegmentHead, SegmentData, Template, InitialHeader, BaseOffset, CipherStart,
        HeaderIndex, CommonDiff, MarkerDiff, JdvrifEnd, MaxLeadingBytes, MaxLeading,
        SignaturePrefix, MinCipher

\* How many pieces there are, and where the i-th of them is.
Count == IF SingleSegment THEN 1 ELSE SegmentsRequired
PieceOffset(i) == IF i = 1 THEN LeadingEnd + 849 ELSE LeadingEnd + (i - 1) * 65537 + 18
PieceLength(i) ==
  IF SingleSegment THEN enc
  ELSE IF i = 1 THEN 64688 ELSE Least(65519, PayloadSize - (i - 1) * 65519)

Segment == [marker : {"app", "app2", "other"}, at : Nat, length : Nat]
Piece == [offset : Int, length : Int, from : Int]
Run == [offset : Int, length : Int]
Types ==
  /\ enc \in Nat /\ enc >= 24 /\ cover \in Nat
  /\ leading \in Seq(Segment)
  /\ image \in Int /\ segments \in Nat /\ declared \in Nat
  /\ left \in Int /\ prefixLeft \in Int /\ sent \in Int
  /\ pos \in Nat /\ walked \in Nat
  /\ cursor \in Int /\ nextHeader \in Int /\ skipped \in Int /\ remaining \in Int
  /\ runs \in Seq(Run)
  /\ damage = "none" => pieces \in Seq(Piece)

\* The leading segments follow one another from SOI to the profile.
Leads ==
  /\ LeadingEnd \in Nat /\ LeadingEnd >= 2
  /\ \A i \in 1..Len(leading) :
       /\ leading[i].at + leading[i].length <= LeadingEnd
       /\ i < Len(leading) => leading[i].at + leading[i].length = leading[i + 1].at
       /\ i = 1 => leading[i].at = 2

\* recover has not begun to search, or has not begun to read.
Fresh ==
  /\ pc \in {"limits", "front", "segments", "body", "image"} => pos = 2 /\ walked = 0
  /\ pc \in {"limits", "front", "segments", "body", "image", "walk", "profile", "open"} =>
       cursor = 0 /\ nextHeader = 64688 /\ skipped = 0 /\ remaining = 0 /\ runs = <<>>

\* What conceal has written.
Written == {"image", "walk", "profile", "open", "runs", "reading", "exhausted", "notOurs", "refused"}
Profile ==
  /\ segments = IF SingleSegment THEN 0 ELSE SegmentsRequired
  /\ declared = IccDataSize - 851
Placed ==
  \A i \in 1..Len(pieces) : pieces[i].offset = PieceOffset(i) /\ pieces[i].length = PieceLength(i)
Segmenting ==
  /\ ~SingleSegment
  /\ (Len(pieces) - 1) * 65519 < PayloadSize
  /\ left = IF Len(pieces) * 65519 <= PayloadSize THEN PayloadSize - Len(pieces) * 65519 ELSE 0
  /\ prefixLeft = IF Len(pieces) = 0 THEN 831 ELSE 0
  /\ image = LeadingEnd + 18 * Len(pieces) + PayloadSize - left
Sized ==
  damage = "none" =>
    /\ pc \in {"limits", "front"} => pieces = <<>>
    /\ pc \in {"front", "segments", "body"} \cup Written => IccDataSize <= MaxConceal
    /\ pc \in {"segments", "body"} \cup Written => Profile /\ Placed
    /\ pc = "segments" => Segmenting
    /\ pc \in {"body"} \cup Written => Len(pieces) = Count
    /\ pc = "body" => image = LeadingEnd - 2 + IccDataSize
    /\ pc \in Written => image = LeadingEnd - 2 + IccDataSize + cover

\* How far the search for the profile is.
Walking ==
  /\ pc = "walk" =>
       walked <= Len(leading) /\ pos = IF walked < Len(leading) THEN leading[walked + 1].at ELSE LeadingEnd
  /\ pc \in {"profile", "open", "runs", "reading", "exhausted"} => pos = LeadingEnd
  /\ pc \in {"open", "runs"} => declared >= 21

\* The runs end before the cursor; one that ends at it is followed by a header.
Sound ==
  /\ pc = "runs" =>
       /\ Start + declared <= image /\ 0 <= cursor /\ cursor <= declared
       /\ remaining >= 0 /\ (cursor > 0 => remaining > 0)
       /\ nextHeader >= 64688 /\ (segments # 0 => cursor <= nextHeader)
       /\ \A i \in 1..Len(runs) :
            /\ runs[i].offset + runs[i].length <= Start + cursor
            /\ runs[i].offset + runs[i].length = Start + cursor =>
                 cursor = declared \/ (segments # 0 /\ cursor = nextHeader)
  /\ RunsInImage

\* In an undamaged image the runs so far are the pieces.
Matched == \A i \in 1..Len(runs) : runs[i].offset = PieceOffset(i) /\ runs[i].length = PieceLength(i)
Between ==
  IF SingleSegment
  THEN skipped = 0 /\ (\/ (Len(runs) = 0 /\ cursor = 0)
                       \/ (Len(runs) = 1 /\ cursor = enc))
  ELSE \/ Len(runs) = 0 /\ skipped = 0 /\ cursor = 0 /\ nextHeader = 64688
       \/ /\ Len(runs) \in 1..SegmentsRequired /\ skipped = Len(runs) - 1
          /\ nextHeader = 64688 + 65537 * (Len(runs) - 1)
          /\ cursor = Least(declared, nextHeader)
       \/ /\ Len(runs) \in 1..SegmentsRequired /\ skipped = Len(runs)
          /\ nextHeader = 64688 + 65537 * Len(runs)
          /\ cursor = nextHeader - 65519 /\ cursor < declared
Matching ==
  damage = "none" =>
    /\ pc = "runs" => Matched /\ Between
    /\ pc \in {"reading", "exhausted"} => Matched /\ Len(runs) = Count /\ skipped = Count - 1

\* The header after the next one is not yet in sight.
Counted ==
  /\ pc = "runs" =>
       /\ skipped >= 0 /\ nextHeader = 64688 + 65537 * skipped
       /\ skipped > 0 => segments # 0 /\ nextHeader - 65537 < declared
  /\ ReportedHeadersAreSkipped

\* An image that lost a segment has nothing where the marker of its last one was,
\* and one that was cut ends before the profile does.
Lacking ==
  /\ pc \in {"limits", "front", "segments", "body"} => damage = "none"
  /\ damage \in {"lost", "cut"} => pc \notin {"runs", "reading", "exhausted"}
  /\ damage = "lost" =>
       /\ ~SingleSegment /\ segments = SegmentsRequired
       /\ \A k \in 2..Len(pieces) :
            pieces[k].offset \in Int /\ pieces[k].offset < LeadingEnd + (SegmentsRequired - 1) * 65537 + 18
  /\ damage = "cut" => declared = IccDataSize - 851 /\ image < LeadingEnd - 2 + IccDataSize

\* Where in the ciphertext the i-th piece begins.
Index(i) == IF i = 1 THEN 0 ELSE 64688 + (i - 2) * 65519

\* encrypted_offset is behind the pieces written so far.
Indexed ==
  damage = "none" =>
    /\ \A i \in 1..Len(pieces) : pieces[i].from = Index(i)
    /\ pc = "segments" /\ left > 0 => sent = Index(Len(pieces) + 1)

\* How much ciphertext the runs hold, whatever the profile declares: every run but
\* the last is as long as the piece it should be.
Reached == IF Len(runs) = 0 THEN 0 ELSE Index(Len(runs)) + runs[Len(runs)].length
Full ==
  /\ \A i \in 1..Len(runs) : runs[i].length >= 1
  /\ \A i \in 1..(Len(runs) - 1) : Index(i) + runs[i].length = Index(i + 1)
Stepping ==
  /\ remaining = Reached
  /\ segments = 0 => skipped = 0 /\ (\/ Len(runs) = 0 /\ cursor = 0
                                     \/ Len(runs) = 1 /\ cursor = declared)
  /\ segments # 0 =>
       \/ skipped = Len(runs) /\ remaining = Index(skipped + 1) /\ cursor \in {remaining + 18 * skipped, declared}
       \/ /\ Len(runs) >= 1 /\ skipped = Len(runs) - 1
          /\ cursor = remaining + 18 * skipped /\ cursor = Least(declared, nextHeader)
Shaped ==
  /\ pc \in {"runs", "reading"} => Full
  /\ pc = "runs" => Stepping

\* The read position in the runs is where the bytes already delivered end.
Reading ==
  /\ runIndex \in Int /\ runPosition \in Int /\ want \in Int
  /\ pc \notin {"reading", "exhausted", "failed"} => runIndex = 1 /\ runPosition = 0 /\ want = 0
  /\ pc = "reading" =>
       /\ remaining >= 0 /\ want >= 0 /\ Len(runs) >= 1
       /\ \/ /\ runIndex \in 1..Len(runs)
             /\ 0 <= runPosition /\ runPosition < runs[runIndex].length
             /\ Index(runIndex) + runPosition + remaining + want = Reached
          \/ runIndex = Len(runs) + 1 /\ runPosition = 0 /\ remaining = 0 /\ want = 0

IInv ==
  /\ Types /\ Leads /\ Fresh /\ Sized /\ Walking /\ Sound /\ Matching /\ Counted
  /\ Lacking /\ Indexed /\ Shaped /\ Reading
  /\ UndamagedIsAccepted

\* The number of segments is the least that holds the payload, and a payload that
\* needs more than the template's segment needs two.
LEMMA Required ==
  ASSUME enc \in Nat
  PROVE  /\ PayloadSize = enc + 831
         /\ SegmentsRequired \in Nat
         /\ PayloadSize <= SegmentsRequired * 65519
         /\ (SegmentsRequired - 1) * 65519 < PayloadSize
         /\ ~SingleSegment => SegmentsRequired >= 2
<1>1. PayloadSize = enc + 831
  BY DEF PayloadSize
<1> DEFINE x == enc + 831 + 65518
           q == x \div 65519
<1>2. x \in Nat /\ SegmentsRequired = q
  BY <1>1 DEF SegmentsRequired
<1>3. q \in Int /\ q * 65519 <= x /\ x < (q + 1) * 65519
  BY <1>2, Z3
<1> HIDE DEF q
<1>4. q \in Nat
  BY <1>2, <1>3
<1> QED BY <1>1, <1>2, <1>3, <1>4 DEF SingleSegment

\* Where the profile begins, without an empty sequence to tell apart.
LEMMA End ==
  ASSUME leading \in Seq(Segment)
  PROVE  LeadingEnd = IF Len(leading) = 0 THEN 2 ELSE leading[Len(leading)].at + leading[Len(leading)].length
BY DEF LeadingEnd, Last

LEMMA Shifted ==
  ASSUME NEW s \in Seq(Piece), NEW by \in Int
  PROVE  /\ Moved(s, by) \in Seq(Piece) /\ Len(Moved(s, by)) = Len(s)
         /\ \A i \in 1..Len(s) :
              Moved(s, by)[i].offset = s[i].offset + by /\ Moved(s, by)[i].length = s[i].length
<1>1. DOMAIN s = 1..Len(s) /\ Len(s) \in Nat
  OBVIOUS
<1>2. ASSUME NEW i \in 1..Len(s)
      PROVE  /\ [s[i] EXCEPT !.offset = @ + by] \in Piece
             /\ [s[i] EXCEPT !.offset = @ + by].offset = s[i].offset + by
             /\ [s[i] EXCEPT !.offset = @ + by].length = s[i].length
  <2> DEFINE x == s[i].offset + by
  <2>0. s[i] \in Piece
    OBVIOUS
  <2>1. s[i] \in [offset : Int, length : Int, from : Int]
    BY <2>0 DEF Piece
  <2>2. x \in Int /\ [s[i] EXCEPT !.offset = @ + by] = [s[i] EXCEPT !.offset = x]
    BY <2>1
  <2> HIDE DEF x
  <2>3. [s[i] EXCEPT !.offset = x] \in Piece
    BY <2>1, <2>2 DEF Piece
  <2>4. [s[i] EXCEPT !.offset = x].offset = x /\ [s[i] EXCEPT !.offset = x].length = s[i].length
    BY <2>1
  <2> QED BY <2>2, <2>3, <2>4 DEF x
<1> DEFINE m == [i \in 1..Len(s) |-> [s[i] EXCEPT !.offset = @ + by]]
<1>3. Moved(s, by) = m
  BY <1>1 DEF Moved
<1>4. m \in [1..Len(s) -> Piece] /\ DOMAIN m = 1..Len(s)
  BY <1>2
<1>5. m \in Seq(Piece) /\ Len(m) = Len(s)
  BY <1>1, <1>4
<1> QED BY <1>2, <1>3, <1>5

\* What the sizes of conceal depend on.
LEMMA SizesKept ==
  UNCHANGED enc =>
    /\ SingleSegment' = SingleSegment /\ PayloadSize' = PayloadSize
    /\ SegmentsRequired' = SegmentsRequired /\ IccDataSize' = IccDataSize /\ Count' = Count
    /\ \A i : PieceLength(i)' = PieceLength(i)
BY DEF SingleSegment, PayloadSize, SegmentsRequired, IccDataSize, Count, PieceLength

LEMMA PlacesKept ==
  UNCHANGED leading => LeadingEnd' = LeadingEnd /\ \A i : PieceOffset(i)' = PieceOffset(i)
BY DEF LeadingEnd, PieceOffset

\* Only the platform moves what conceal has written.
LEMMA WhoMoves ==
  ASSUME [Next]_vars
  PROVE  /\ UNCHANGED <<enc, cover>>
         /\ (\E marker \in {"app", "app2", "other"}, bytes \in AddedSizes : AddSegment(marker, bytes)) \/ UNCHANGED leading
<1>1. CASE Limits \/ WriteFront \/ WriteSegment \/ SegmentsDone \/ WriteBody \/ Fails
  BY <1>1 DEF Limits, WriteFront, WriteSegment, SegmentsDone, WriteBody, Fails, layout
<1>2. CASE \E k \in 2..Len(pieces) : LoseSegment(k)
  BY <1>2 DEF LoseSegment
<1>3. CASE \E marker \in {"app", "app2", "other"}, bytes \in AddedSizes : AddSegment(marker, bytes)
  BY <1>3 DEF AddSegment
<1>4. CASE Cut \/ Alter
  BY <1>4 DEF Cut, Alter
<1>5. CASE Recover \/ WalkOn \/ WalkEnds \/ ReadProfile \/ Open
  BY <1>5 DEF Recover, WalkOn, WalkEnds, ReadProfile, Open, layout
<1>6. CASE SkipHeader \/ TakeRun \/ RunsDone \/ (\E n \in Reads : TryRead(n)) \/ ReadPiece \/ Exhausted
  BY <1>6 DEF SkipHeader, TakeRun, RunsDone, TryRead, ReadPiece, Exhausted, layout
<1> QED BY <1>1, <1>2, <1>3, <1>4, <1>5, <1>6 DEF Next, Platform, vars, layout

-----------------------------------------------------------------------------
(* The invariant, part by part.                                            *)

LEMMA LeadsStep ==
  ASSUME Types, Leads, [Next]_vars
  PROVE  Leads'
<1>1. CASE UNCHANGED leading
  BY <1>1, PlacesKept DEF Leads
<1>2. ASSUME NEW marker, NEW bytes \in AddedSizes, AddSegment(marker, bytes)
      PROVE  Leads'
  <2> DEFINE end == LeadingEnd
  <2>1. bytes \in Nat /\ end \in Nat /\ end >= 2
    BY IccCarrierAssumption DEF Leads
  <2>2. leading \in Seq(Segment) /\ leading' = Append(leading, [marker |-> marker, at |-> end, length |-> bytes])
    BY <1>2 DEF Types, AddSegment
  <2> DEFINE n == Len(leading)
             added == [marker |-> marker, at |-> end, length |-> bytes]
  <2>9. added.at = end /\ added.length = bytes
    OBVIOUS
  <2> HIDE DEF added
  <2>8. /\ n \in Nat /\ Len(leading') = n + 1 /\ leading'[n + 1] = added
        /\ \A i \in 1..n : leading'[i] = leading[i] /\ leading[i] \in Segment
    BY <2>2 DEF added
  <2>3. /\ n \in Nat /\ Len(leading') = n + 1
        /\ \A i \in 1..n : leading'[i] = leading[i] /\ leading[i].at \in Nat /\ leading[i].length \in Nat
        /\ leading'[n + 1].at = end /\ leading'[n + 1].length = bytes
    BY <2>8, <2>9 DEF Segment
  <2>4. LeadingEnd' = end + bytes
    BY <2>2, <2>3 DEF LeadingEnd, Last
  <2>5. end = IF n = 0 THEN 2 ELSE leading[n].at + leading[n].length
    BY <2>2, End
  <2> HIDE DEF end
  <2>6. \A i \in 1..n :
          /\ leading[i].at + leading[i].length <= end
          /\ i < n => leading[i].at + leading[i].length = leading[i + 1].at
          /\ i = 1 => leading[i].at = 2
    BY DEF Leads, end
  <2> HIDE DEF n
  <2>7. ASSUME NEW i \in 1..(n + 1)
        PROVE  /\ leading'[i].at + leading'[i].length <= end + bytes
               /\ i < n + 1 => leading'[i].at + leading'[i].length = leading'[i + 1].at
               /\ i = 1 => leading'[i].at = 2
    <3>1. n \in Nat /\ i \in Nat
      BY <2>3
    <3>2. CASE i \in 1..n
      <4> DEFINE at == leading[i].at
                 length == leading[i].length
      <4>1. leading'[i].at = at /\ leading'[i].length = length /\ at \in Nat /\ length \in Nat
        BY <3>2, <2>3
      <4>2. at + length <= end /\ (i < n => at + length = leading[i + 1].at) /\ (i = 1 => at = 2)
        BY <3>2, <2>6
      <4>3. i < n => leading'[i + 1].at = leading[i + 1].at
        BY <3>1, <3>2, <2>3
      <4>4. i = n => leading'[i + 1].at = end /\ end = at + length
        BY <3>2, <2>3, <2>5
      <4> HIDE DEF at, length
      <4>5. at + length <= end + bytes /\ (i = n \/ i < n)
        BY <3>1, <3>2, <2>1, <4>1, <4>2
      <4> QED BY <4>1, <4>2, <4>3, <4>4, <4>5
    <3>3. CASE i = n + 1
      <4>1. leading'[i].at = end /\ leading'[i].length = bytes /\ ~(i < n + 1)
        BY <3>1, <3>3, <2>3
      <4>2. i = 1 => end = 2
        BY <3>1, <3>3, <2>5
      <4>3. end + bytes <= end + bytes
        BY <2>1
      <4> QED BY <4>1, <4>2, <4>3
    <3>4. i \in 1..n \/ i = n + 1
      BY <3>1
    <3> QED BY <3>2, <3>3, <3>4
  <2>10. LeadingEnd' \in Nat /\ LeadingEnd' >= 2 /\ 1..Len(leading') = 1..(n + 1)
    BY <2>1, <2>3, <2>4
  <2> QED BY <2>3, <2>4, <2>7, <2>10 DEF Leads
<1> QED BY <1>1, <1>2, WhoMoves

\* The actions that only decide where to go on.
Deciding ==
  \/ Limits \/ SegmentsDone \/ Fails \/ Recover \/ WalkEnds \/ ReadProfile \/ Open \/ RunsDone \/ Exhausted

LEMMA DecidingKeeps == Deciding => UNCHANGED <<layout, source, walk, opened, reader>>
BY DEF Deciding, Limits, SegmentsDone, Fails, Recover, WalkEnds, ReadProfile, Open, RunsDone, Exhausted

LEMMA PlatformKeeps ==
  Platform => pc = "image" /\ UNCHANGED <<pc, enc, cover, source, walk, opened, reader>>
<1>1. ASSUME NEW k \in 2..Len(pieces), LoseSegment(k)
      PROVE  pc = "image" /\ UNCHANGED <<pc, enc, cover, source, walk, opened, reader>>
  BY <1>1 DEF LoseSegment
<1>2. ASSUME NEW marker, NEW bytes, AddSegment(marker, bytes)
      PROVE  pc = "image" /\ UNCHANGED <<pc, enc, cover, source, walk, opened, reader>>
  BY <1>2 DEF AddSegment
<1>3. CASE Cut \/ Alter
  BY <1>3 DEF Cut, Alter
<1> QED BY <1>1, <1>2, <1>3 DEF Platform

\* What conceal writes has the sizes it computed.
LEMMA DataSize ==
  ASSUME enc \in Nat
  PROVE  /\ IccDataSize \in Nat /\ IccDataSize >= enc + 851
         /\ ~SingleSegment => IccDataSize = SegmentsRequired * 18 + enc + 833
<1>1. SegmentsRequired \in Nat /\ PayloadSize = enc + 831 /\ (~SingleSegment => SegmentsRequired >= 2)
  BY Required
<1> QED BY <1>1 DEF IccDataSize

LEMMA TypesStep ==
  ASSUME Types, Leads, [Next]_vars
  PROVE  Types'
<1> USE IccCarrierAssumption
<1>1. CASE Deciding \/ UNCHANGED vars
  BY <1>1, DecidingKeeps DEF Types, vars, layout, source, walk, opened, reader
<1>2. CASE WriteFront
  <2>1. IccDataSize \in Nat /\ IccDataSize >= 851
    BY DataSize DEF Types
  <2>2. SegmentsRequired \in Nat /\ PayloadSize \in Int /\ LeadingEnd \in Nat
    BY Required DEF Types, Leads
  <2>3. declared' \in Nat
    BY <1>2, <2>1 DEF WriteFront
  <2>4. segments' \in Nat /\ image' \in Int
    BY <1>2, <2>2 DEF WriteFront, Types
  <2>5. left' \in Int /\ prefixLeft' \in Int /\ sent' \in Int
    BY SMTT(30), <1>2, <2>2 DEF WriteFront, Types, source
  <2>6. damage' = "none" => pieces' \in Seq(Piece)
    <3>1. CASE SingleSegment
      <4> DEFINE x == LeadingEnd - 2 + 851
      <4>1. x \in Int /\ enc \in Int
        BY <2>2 DEF Types
      <4>2. pieces' = <<[offset |-> x, length |-> enc, from |-> 0]>>
        BY <1>2, <3>1 DEF WriteFront
      <4> QED BY <4>1, <4>2 DEF Piece
    <3>2. CASE ~SingleSegment
      BY <1>2, <3>2 DEF WriteFront, Types
    <3> QED BY <3>1, <3>2
  <2> QED BY <1>2, <2>3, <2>4, <2>5, <2>6 DEF WriteFront, Types, walk, opened, reader
<1>3. CASE WriteSegment
  <2> DEFINE bytes == Least(left, 65519)
             prefix == FromTemplate(bytes)
  <2>1. bytes \in Int /\ prefix \in Int
    BY DEF Types, Least, FromTemplate
  <2>2. /\ left' = left - bytes /\ prefixLeft' = prefixLeft - prefix /\ sent' = sent + bytes - prefix
        /\ image' = image + 18 + bytes
        /\ pieces' = Append(pieces, [offset |-> image + 18 + prefix, length |-> bytes - prefix, from |-> sent])
        /\ UNCHANGED <<pc, enc, cover, leading, segments, declared, damage, walk, opened, reader>>
    BY <1>3 DEF WriteSegment
  <2> HIDE DEF bytes, prefix
  <2>3. left' \in Int /\ prefixLeft' \in Int /\ sent' \in Int /\ image' \in Int
    BY <2>1, <2>2 DEF Types
  <2>4. [offset |-> image + 18 + prefix, length |-> bytes - prefix, from |-> sent] \in Piece
    BY <2>1 DEF Types, Piece
  <2>5. damage' = "none" => pieces' \in Seq(Piece)
    BY <2>2, <2>4 DEF Types
  <2> QED BY <2>2, <2>3, <2>5 DEF Types, walk, opened, reader
<1>4. CASE WriteBody
  BY <1>4 DEF WriteBody, Types, source, walk, opened, reader
<1>5. ASSUME NEW marker \in {"app", "app2", "other"}, NEW bytes \in AddedSizes, AddSegment(marker, bytes)
      PROVE  Types'
  <2>1. bytes \in Nat /\ LeadingEnd \in Nat
    BY DEF Leads
  <2>2. [marker |-> marker, at |-> LeadingEnd, length |-> bytes] \in Segment
    BY <2>1 DEF Segment
  <2>3. leading' \in Seq(Segment)
    BY <1>5, <2>2 DEF AddSegment, Types
  <2>4. pieces' \in Seq(Piece)
    BY <1>5, <2>1, Shifted DEF AddSegment, Types
  <2>5. image' \in Int
    BY <1>5, <2>1 DEF AddSegment, Types
  <2> QED BY <1>5, <2>3, <2>4, <2>5 DEF AddSegment, Types, source, walk, opened, reader
<1>6. ASSUME NEW k \in 2..Len(pieces), LoseSegment(k)
      PROVE  Types'
  <2>1. pieces \in Seq(Piece)
    BY <1>6 DEF LoseSegment, Types
  <2>5. pieces[k] \in Piece
    BY <2>1
  <2>2. pieces[k].length \in Int
    BY <2>5 DEF Piece
  <2>3. image' \in Int
    BY <1>6, <2>2 DEF LoseSegment, Types
  <2> QED BY <1>6, <2>3 DEF LoseSegment, Types, source, walk, opened, reader
<1>7. CASE Cut
  <2>1. pieces \in Seq(Piece)
    BY <1>7 DEF Cut, Types
  <2>2. PICK i \in DOMAIN pieces : image' \in {pieces[i].offset, pieces[i].offset + pieces[i].length - 1}
    BY <1>7 DEF Cut
  <2>3. pieces[i] \in Piece
    BY <2>1
  <2>4. image' \in Int
    BY <2>2, <2>3 DEF Piece
  <2> QED BY <1>7, <2>4 DEF Cut, Types, source, walk, opened, reader
<1>8. CASE Alter
  <2>1. segments' \in Nat /\ declared' \in Nat
    BY <1>8 DEF Alter, Types, MaxCipher
  <2> QED BY <1>8, <2>1 DEF Alter, Types, source, walk, opened, reader
<1>9. CASE WalkOn
  <2>2. leading[walked + 1] \in Segment
    BY <1>9 DEF WalkOn, Types
  <2>1. leading[walked + 1].length \in Nat
    BY <2>2 DEF Segment
  <2> QED BY <1>9, <2>1 DEF WalkOn, Types, layout, source, opened, reader
<1>10. CASE SkipHeader
  BY <1>10 DEF SkipHeader, HeaderPart, Least, Types, layout, source, walk, reader
<1>11. CASE TakeRun
  <2> DEFINE run == (IF segments # 0 THEN Least(declared, nextHeader) ELSE declared) - cursor
  <2>1. run \in Int /\ Start \in Int
    BY DEF Types, Least, Start, Base
  <2>2. \/ UNCHANGED <<cursor, runs, remaining>>
        \/ /\ runs' = Append(runs, [offset |-> Start + cursor, length |-> run])
           /\ remaining' = remaining + run /\ cursor' = cursor + run
    BY <1>11 DEF TakeRun
  <2> HIDE DEF run
  <2>3. [offset |-> Start + cursor, length |-> run] \in [offset : Int, length : Int]
    BY <2>1 DEF Types
  <2>6. runs \in Seq(Run)
    BY DEF Types
  <2>4. runs' \in Seq(Run)
    <3> DEFINE r == [offset |-> Start + cursor, length |-> run]
    <3>1. r \in Run /\ (UNCHANGED runs \/ runs' = Append(runs, r))
      BY <2>2, <2>3 DEF Run
    <3> HIDE DEF r
    <3> QED BY <2>6, <3>1
  <2>5. remaining' \in Int /\ cursor' \in Int
    BY <2>1, <2>2 DEF Types
  <2> QED BY <1>11, <2>4, <2>5 DEF TakeRun, Types, layout, source, walk
<1>12. ASSUME NEW n \in Reads, TryRead(n)
       PROVE  Types'
  BY <1>12 DEF TryRead, Types, layout, source, walk, opened
<1>13. CASE ReadPiece
  BY <1>13 DEF ReadPiece, Types, layout, source, walk, opened
<1> QED
  BY <1>1, <1>2, <1>3, <1>4, <1>5, <1>6, <1>7, <1>8, <1>9, <1>10, <1>11, <1>12, <1>13
  DEF Next, Platform, Deciding

LEMMA FreshStep ==
  ASSUME Types, Fresh, [Next]_vars
  PROVE  Fresh'
<1>1. CASE Deciding
  <2>1. UNCHANGED <<pos, walked, cursor, nextHeader, skipped, remaining, runs>>
    BY <1>1, DecidingKeeps DEF walk, opened, reader
  <2> QED
    BY <1>1, <2>1
    DEF Fresh, Deciding, Goto, Limits, SegmentsDone, Fails, Recover, WalkEnds, ReadProfile, Open, RunsDone, Exhausted
<1>2. CASE WriteFront \/ WriteSegment \/ WriteBody
  BY <1>2 DEF Fresh, WriteFront, WriteSegment, WriteBody, Goto, walk, opened, reader
<1>3. CASE Platform
  <2>1. UNCHANGED <<pc, walk, opened, reader>>
    BY <1>3, PlatformKeeps
  <2> QED BY <2>1 DEF Fresh, walk, opened, reader
<1>4. CASE WalkOn
  BY <1>4 DEF Fresh, WalkOn, opened, reader
<1>5. CASE SkipHeader \/ TakeRun \/ (\E n \in Reads : TryRead(n)) \/ ReadPiece
  <2>1. pc \in {"runs", "reading"} /\ pc' \in {"runs", "reading", "refused"}
    BY <1>5 DEF SkipHeader, TakeRun, TryRead, ReadPiece, Goto
  <2> QED BY <2>1 DEF Fresh
<1>6. CASE UNCHANGED vars
  BY <1>6 DEF Fresh, vars, walk, opened, reader
<1> QED BY <1>1, <1>2, <1>3, <1>4, <1>5, <1>6 DEF Next, Deciding

LEMMA WalkingStep ==
  ASSUME Types, Leads, Fresh, Walking, [Next]_vars
  PROVE  Walking'
<1> DEFINE at == IF walked < Len(leading) THEN leading[walked + 1].at ELSE LeadingEnd
<1>1. CASE Recover
  <2>1. pos = 2 /\ walked = 0 /\ pc' = "walk" /\ UNCHANGED <<leading, pos, walked>>
    BY <1>1 DEF Recover, Fresh, Goto, layout, walk
  <2>2. LeadingEnd' = LeadingEnd /\ Len(leading) \in Nat
    BY <2>1, PlacesKept DEF Types
  <2>3. Len(leading) = 0 => LeadingEnd = 2
    BY End DEF Types
  <2>4. Len(leading) > 0 => leading[1].at = 2
    BY <2>2 DEF Leads
  <2> QED BY <2>1, <2>2, <2>3, <2>4 DEF Walking
<1>2. CASE WalkOn
  <2>1. /\ walked < Len(leading) /\ pc = "walk" /\ pos = leading[walked + 1].at
        /\ pos' = pos + leading[walked + 1].length /\ walked' = walked + 1
        /\ pc' = "walk" /\ UNCHANGED <<leading, declared>>
    BY <1>2 DEF WalkOn, Walking, layout
  <2>2. LeadingEnd' = LeadingEnd /\ Len(leading) \in Nat /\ walked \in Nat
    BY <2>1, PlacesKept DEF Types
  <2>3. CASE walked + 1 < Len(leading)
    <3>1. leading[walked + 1].at + leading[walked + 1].length = leading[walked + 2].at
      BY <2>2, <2>3 DEF Leads
    <3> QED BY <2>1, <2>2, <2>3, <3>1 DEF Walking
  <2>4. CASE walked + 1 = Len(leading)
    <3>1. leading[walked + 1].at + leading[walked + 1].length = LeadingEnd
      BY <2>2, <2>4, End DEF Types
    <3> QED BY <2>1, <2>2, <2>4, <3>1 DEF Walking
  <2> QED BY <2>1, <2>2, <2>3, <2>4
<1>3. CASE WalkEnds
  <2>1. pc = "walk" /\ pc' \in {"profile", "notOurs"} /\ UNCHANGED <<leading, pos, walked>>
    BY <1>3 DEF WalkEnds, Goto, layout, walk
  <2>2. pc' = "profile" => walked = Len(leading)
    BY <1>3 DEF WalkEnds, Goto
  <2>3. LeadingEnd' = LeadingEnd /\ Len(leading) \in Nat
    BY <2>1, PlacesKept DEF Types
  <2> QED BY <2>1, <2>2, <2>3 DEF Walking
<1>4. CASE ReadProfile
  <2>1. pc = "profile" /\ pc' \in {"open", "refused"} /\ (pc' = "open" => declared >= 21)
        /\ UNCHANGED <<leading, pos, walked, declared>>
    BY <1>4 DEF ReadProfile, Goto, layout, walk
  <2>2. LeadingEnd' = LeadingEnd
    BY <2>1, PlacesKept
  <2> QED BY <2>1, <2>2 DEF Walking
<1>5. CASE Open \/ RunsDone \/ Exhausted \/ SkipHeader \/ TakeRun \/ (\E n \in Reads : TryRead(n)) \/ ReadPiece
  <2>1. UNCHANGED <<leading, pos, declared>>
    BY <1>5 DEF Open, RunsDone, Exhausted, SkipHeader, TakeRun, TryRead, ReadPiece, layout, walk
  <2>2. LeadingEnd' = LeadingEnd
    BY <2>1, PlacesKept
  <2>3. pc \in {"open", "runs", "reading"} /\ pc' \in {"runs", "reading", "exhausted", "refused"}
        /\ (pc' = "runs" => pc \in {"open", "runs"})
    BY <1>5 DEF Open, RunsDone, Exhausted, SkipHeader, TakeRun, TryRead, ReadPiece, Goto
  <2> QED BY <2>1, <2>2, <2>3 DEF Walking
<1>6. CASE Limits \/ WriteFront \/ WriteSegment \/ SegmentsDone \/ WriteBody \/ Fails
  <2>1. pc' \in {"tooLarge", "front", "body", "segments", "failed", "image"}
    BY <1>6 DEF Limits, WriteFront, WriteSegment, SegmentsDone, WriteBody, Fails, Goto
  <2> QED BY <2>1 DEF Walking
<1>7. CASE Platform
  <2>1. pc' = "image"
    BY <1>7, PlatformKeeps
  <2> QED BY <2>1 DEF Walking
<1>8. CASE UNCHANGED vars
  <2>1. UNCHANGED <<pc, leading, pos, walked, declared>>
    BY <1>8 DEF vars, layout, walk
  <2>2. LeadingEnd' = LeadingEnd
    BY <2>1, PlacesKept
  <2> QED BY <2>1, <2>2 DEF Walking
<1> QED BY <1>1, <1>2, <1>3, <1>4, <1>5, <1>6, <1>7, <1>8 DEF Next

LEMMA LayoutKept == UNCHANGED <<enc, leading, segments, declared, pieces>> /\ Profile /\ Placed => Profile' /\ Placed'
<1> SUFFICES ASSUME UNCHANGED <<enc, leading, segments, declared, pieces>>, Profile, Placed
             PROVE  Profile' /\ Placed'
  OBVIOUS
<1>1. /\ SingleSegment' = SingleSegment /\ SegmentsRequired' = SegmentsRequired /\ IccDataSize' = IccDataSize
      /\ \A i : PieceLength(i)' = PieceLength(i) /\ PieceOffset(i)' = PieceOffset(i)
  BY SizesKept, PlacesKept
<1>2. Profile'
  BY <1>1 DEF Profile
<1>3. ASSUME NEW i \in 1..Len(pieces)
      PROVE  PieceOffset(i)' = PieceOffset(i) /\ PieceLength(i)' = PieceLength(i)
  BY <1>1
<1>4. Placed'
  BY <1>3 DEF Placed
<1> QED BY <1>2, <1>4

\* The sizes after one more segment.
LEMMA SegmentStep ==
  ASSUME Types, Leads, Segmenting, Placed, damage = "none", WriteSegment
  PROVE  Segmenting' /\ Placed'
<1> DEFINE n == Len(pieces)
           bytes == Least(left, 65519)
           prefix == FromTemplate(bytes)
           piece == [offset |-> image + 18 + prefix, length |-> bytes - prefix, from |-> sent]
<1>1. /\ left > 0 /\ left' = left - bytes /\ prefixLeft' = prefixLeft - prefix
      /\ image' = image + 18 + bytes /\ pieces' = Append(pieces, piece)
      /\ UNCHANGED <<enc, leading>>
  BY DEF WriteSegment
<1>2. pieces \in Seq(Piece) /\ n \in Nat
  BY DEF Types
<1>3. enc \in Int /\ image \in Int /\ left \in Int /\ prefixLeft \in Int /\ sent \in Int /\ LeadingEnd \in Int
  BY DEF Types, Leads
<1>4. PayloadSize = enc + 831 /\ enc > 64688
  BY Required, <1>3 DEF Types, SingleSegment, Segmenting
<1>5. /\ ~SingleSegment /\ n * 65519 < PayloadSize /\ left = PayloadSize - n * 65519
      /\ prefixLeft = (IF n = 0 THEN 831 ELSE 0) /\ image = LeadingEnd + 18 * n + PayloadSize - left
  BY SMTT(30), <1>1, <1>2, <1>4 DEF Segmenting
<1>6. prefix = (IF n = 0 THEN 831 ELSE 0) /\ bytes = (IF left <= 65519 THEN left ELSE 65519)
  <2> HIDE DEF n
  <2>1. bytes = (IF left <= 65519 THEN left ELSE 65519)
    BY DEF Least
  <2> HIDE DEF bytes
  <2>2. prefix = (IF bytes <= prefixLeft THEN bytes ELSE prefixLeft)
    BY DEF FromTemplate, Least
  <2> HIDE DEF prefix
  <2>3. CASE n = 0
    <3>1. left > 65519 /\ prefixLeft = 831
      BY <1>3, <1>4, <1>5, <2>3
    <3>2. bytes = 65519
      BY <1>3, <2>1, <3>1
    <3> QED BY <2>1, <2>2, <2>3, <3>1, <3>2
  <2>4. CASE n # 0
    <3>1. prefixLeft = 0 /\ bytes > 0 /\ bytes \in Int
      BY <1>1, <1>3, <1>5, <2>1, <2>4
    <3>2. prefix = 0
      BY <2>2, <3>1
    <3> QED BY <2>1, <2>4, <3>2
  <2> QED BY <2>3, <2>4
<1>7. piece.offset = image + 18 + prefix /\ piece.length = bytes - prefix
  OBVIOUS
<1> HIDE DEF bytes, prefix
<1>8. prefix \in Int /\ bytes \in Int
  BY <1>3, <1>6
<1>9. piece \in Piece
  BY <1>3, <1>8 DEF Piece
<1> HIDE DEF piece
<1>10. Len(pieces') = n + 1 /\ pieces'[n + 1] = piece /\ \A i \in 1..n : pieces'[i] = pieces[i]
  BY <1>1, <1>2, <1>9
<1>11. PayloadSize' = PayloadSize /\ SingleSegment' = SingleSegment /\ LeadingEnd' = LeadingEnd
       /\ \A i : PieceLength(i)' = PieceLength(i) /\ PieceOffset(i)' = PieceOffset(i)
  BY <1>1, SizesKept, PlacesKept
<1>12. Segmenting'
  <2> HIDE DEF n
  <2>1. left' = (IF (n + 1) * 65519 <= PayloadSize THEN PayloadSize - (n + 1) * 65519 ELSE 0)
    BY <1>1, <1>2, <1>3, <1>4, <1>5, <1>6
  <2>2. prefixLeft' = 0
    BY <1>1, <1>5, <1>6
  <2>3. image' = LeadingEnd + 18 * (n + 1) + PayloadSize - left'
    BY <1>1, <1>2, <1>3, <1>4, <1>5, <1>8
  <2>4. ((n + 1) - 1) * 65519 < PayloadSize /\ n + 1 # 0
    BY <1>2, <1>5
  <2> QED BY <1>5, <1>10, <1>11, <2>1, <2>2, <2>3, <2>4 DEF Segmenting
<1>13. piece.offset = PieceOffset(n + 1) /\ piece.length = PieceLength(n + 1)
  <2> HIDE DEF n
  <2>1. CASE n = 0
    <3>1. prefix = 831 /\ bytes = 65519 /\ image = LeadingEnd
      BY <1>3, <1>4, <1>5, <1>6, <2>1
    <3>2. PieceOffset(n + 1) = LeadingEnd + 849 /\ PieceLength(n + 1) = 64688
      BY <1>5, <2>1 DEF PieceOffset, PieceLength
    <3> QED BY <1>3, <1>7, <3>1, <3>2
  <2>2. CASE n # 0
    <3>1. prefix = 0 /\ image = LeadingEnd + 18 * n + n * 65519
      BY <1>2, <1>3, <1>4, <1>5, <1>6, <2>2
    <3>2. n + 1 # 1 /\ (n + 1) - 1 = n
      BY <1>2, <2>2
    <3>3. PieceOffset(n + 1) = LeadingEnd + n * 65537 + 18 /\ PieceLength(n + 1) = Least(65519, left)
      BY <1>5, <3>2 DEF PieceOffset, PieceLength
    <3>4. bytes = Least(65519, left)
      BY <1>3, <1>6 DEF Least
    <3> QED BY <1>2, <1>3, <1>7, <1>8, <3>1, <3>3, <3>4
  <2> QED BY <2>1, <2>2
<1>14. Placed'
  <2> SUFFICES ASSUME NEW i \in 1..(n + 1)
               PROVE  pieces'[i].offset = PieceOffset(i) /\ pieces'[i].length = PieceLength(i)
    BY <1>10, <1>11 DEF Placed
  <2>1. CASE i \in 1..n
    BY <1>10, <2>1 DEF Placed
  <2>2. CASE i = n + 1
    BY <1>10, <1>13, <2>2
  <2> QED BY <1>2, <2>1, <2>2
<1> QED BY <1>12, <1>14

\* The last segment is the one that icc_layout counted.
LEMMA AllSegments ==
  ASSUME Types, Leads, damage = "none", Segmenting, left = 0
  PROVE  Len(pieces) = Count /\ image = LeadingEnd - 2 + IccDataSize
<1> DEFINE n == Len(pieces)
           required == SegmentsRequired
           payload == PayloadSize
<1>1. n \in Nat
  BY DEF Types
<1>2. required \in Nat /\ payload \in Int /\ payload <= required * 65519 /\ (required - 1) * 65519 < payload
  BY Required DEF Types
<1>3. /\ left = (IF n * 65519 <= payload THEN payload - n * 65519 ELSE 0) /\ (n - 1) * 65519 < payload
      /\ image = LeadingEnd + 18 * n + payload - left
  BY DEF Segmenting
<1>4. ~SingleSegment /\ LeadingEnd \in Int
  BY DEF Segmenting, Leads
<1>5. Count = required /\ IccDataSize = required * 18 + payload + 2
  BY <1>4 DEF Count, IccDataSize
<1> HIDE DEF n, required, payload
<1>6. n = required
  BY <1>1, <1>2, <1>3
<1>7. image = LeadingEnd - 2 + IccDataSize
  BY <1>1, <1>2, <1>3, <1>4, <1>5, <1>6
<1> QED BY <1>5, <1>6, <1>7 DEF n

LEMMA SizesStep ==
  ASSUME Types, Leads, Sized, [Next]_vars
  PROVE  Sized'
<1> SUFFICES ASSUME damage' = "none"
             PROVE  Sized'
  BY DEF Sized
<1> USE IccCarrierAssumption
<1>1. LeadingEnd \in Nat /\ LeadingEnd >= 2 /\ cover \in Nat /\ enc \in Nat
  BY DEF Leads, Types
<1>2. IccDataSize \in Nat
  BY <1>1, DataSize
<1>3. CASE Limits
  <2>1. damage = "none" /\ UNCHANGED <<enc, pieces>>
    BY <1>3 DEF Limits, layout
  <2>2. pieces = <<>> /\ pc' \in {"front", "tooLarge"}
    BY <1>3, <2>1 DEF Limits, Sized, Goto
  <2>3. pc' = "front" => IccDataSize <= MaxConceal
    <3>1. pc' = "front" => EmbeddedSize <= MaxConceal
      BY <1>3 DEF Limits, Goto
    <3>2. EmbeddedSize = IccDataSize + (LeadingEnd - 2) + cover
      BY DEF EmbeddedSize
    <3> QED BY <1>1, <1>2, <3>1, <3>2
  <2>4. IccDataSize' = IccDataSize
    BY <2>1, SizesKept
  <2> QED BY <2>1, <2>2, <2>3, <2>4 DEF Sized, Written
<1>4. CASE WriteFront
  <2>1. damage = "none" /\ UNCHANGED <<enc, leading>> /\ pc = "front"
    BY <1>4 DEF WriteFront
  <2>2. pieces = <<>> /\ IccDataSize <= MaxConceal
    BY <2>1 DEF Sized
  <2>3. /\ IccDataSize' = IccDataSize /\ SingleSegment' = SingleSegment /\ PayloadSize' = PayloadSize
        /\ SegmentsRequired' = SegmentsRequired /\ Count' = Count /\ LeadingEnd' = LeadingEnd
        /\ \A i : PieceLength(i)' = PieceLength(i) /\ PieceOffset(i)' = PieceOffset(i)
    BY <2>1, SizesKept, PlacesKept
  <2>4. Profile'
    BY <1>4, <2>3 DEF WriteFront, Profile
  <2>5. CASE SingleSegment
    <3> DEFINE x == LeadingEnd - 2 + 851
    <3>1. pieces' = <<[offset |-> x, length |-> enc, from |-> 0]>> /\ image' = x + enc /\ pc' = "body"
      <4>1. image' = LeadingEnd - 2 + 851 + enc
        BY <1>4, <2>5 DEF WriteFront
      <4>2. pieces' = <<[offset |-> x, length |-> enc, from |-> 0]>> /\ pc' = "body"
        BY <1>4, <2>5 DEF WriteFront, Goto
      <4> QED BY <4>1, <4>2
    <3>2. x = LeadingEnd + 849
      BY <1>1
    <3>3. Len(pieces') = 1 /\ pieces'[1].offset = LeadingEnd + 849 /\ pieces'[1].length = enc
      BY <3>1, <3>2
    <3>4. PieceOffset(1) = LeadingEnd + 849 /\ PieceLength(1) = enc /\ Count = 1 /\ IccDataSize = 851 + enc
      BY <2>5 DEF PieceOffset, PieceLength, Count, IccDataSize
    <3>5. Placed'
      <4> SUFFICES ASSUME NEW i \in 1..1
                   PROVE  pieces'[i].offset = PieceOffset(i) /\ pieces'[i].length = PieceLength(i)
        BY <2>3, <3>3 DEF Placed
      <4>1. i = 1
        OBVIOUS
      <4> QED BY <3>3, <3>4, <4>1
    <3>6. image' = LeadingEnd - 2 + IccDataSize
      BY <1>1, <3>1, <3>4
    <3> HIDE DEF x
    <3> QED BY <2>2, <2>3, <2>4, <3>1, <3>3, <3>4, <3>5, <3>6 DEF Sized, Written
  <2>6. CASE ~SingleSegment
    <3>1. /\ pieces' = pieces /\ image' = LeadingEnd /\ left' = PayloadSize /\ prefixLeft' = 831 /\ pc' = "segments"
      <4>1. prefixLeft' = 851 - (2 + 18)
        BY <1>4, <2>6 DEF WriteFront
      <4> QED BY <1>4, <2>6, <4>1 DEF WriteFront, Goto
    <3>2. Len(pieces') = 0
      BY <2>2, <3>1
    <3>3. Placed'
      BY <3>2 DEF Placed
    <3>4. PayloadSize = enc + 831
      BY <1>1, Required
    <3>5. Segmenting'
      BY <1>1, <2>3, <2>6, <3>1, <3>2, <3>4 DEF Segmenting
    <3> QED BY <2>2, <2>3, <2>4, <3>1, <3>3, <3>5 DEF Sized, Written
  <2> QED BY <2>5, <2>6
<1>5. CASE WriteSegment
  <2>1. damage = "none" /\ UNCHANGED <<enc, leading, segments, declared>> /\ pc = "segments" /\ pc' = "segments"
    BY <1>5 DEF WriteSegment
  <2>2. Segmenting /\ Profile /\ Placed /\ IccDataSize <= MaxConceal
    BY <2>1 DEF Sized
  <2>3. Segmenting' /\ Placed'
    BY <1>5, <2>1, <2>2, SegmentStep
  <2>4. Profile' /\ IccDataSize' = IccDataSize
    BY <2>1, <2>2, SizesKept DEF Profile
  <2> QED BY <2>1, <2>2, <2>3, <2>4 DEF Sized, Written
<1>6. CASE SegmentsDone
  <2>1. /\ damage = "none" /\ UNCHANGED <<enc, leading, segments, declared, pieces, image>> /\ left = 0
        /\ pc = "segments" /\ pc' \in {"body", "failed"}
    BY <1>6 DEF SegmentsDone, Goto, layout
  <2>2. Segmenting /\ Profile /\ Placed /\ IccDataSize <= MaxConceal
    BY <2>1 DEF Sized
  <2>3. Len(pieces) = Count /\ image = LeadingEnd - 2 + IccDataSize
    BY <2>1, <2>2, AllSegments
  <2>4. IccDataSize' = IccDataSize /\ Count' = Count /\ LeadingEnd' = LeadingEnd
    BY <2>1, SizesKept, PlacesKept
  <2>5. Profile' /\ Placed'
    BY <2>1, <2>2, LayoutKept
  <2> QED BY <2>1, <2>2, <2>3, <2>4, <2>5 DEF Sized, Written
<1>7. CASE WriteBody
  <2>1. /\ damage = "none" /\ UNCHANGED <<enc, cover, leading, segments, declared, pieces>> /\ image' = image + cover
        /\ pc = "body" /\ pc' \in {"image", "tooLarge"}
    BY <1>7 DEF WriteBody, Goto
  <2>2. Profile /\ Placed /\ IccDataSize <= MaxConceal /\ Len(pieces) = Count /\ image = LeadingEnd - 2 + IccDataSize
    BY <2>1 DEF Sized
  <2>4. IccDataSize' = IccDataSize /\ Count' = Count /\ LeadingEnd' = LeadingEnd
    BY <2>1, SizesKept, PlacesKept
  <2>5. Profile' /\ Placed'
    BY <2>1, <2>2, LayoutKept
  <2> QED BY <2>1, <2>2, <2>4, <2>5 DEF Sized, Written
<1>8. ASSUME NEW marker \in {"app", "app2", "other"}, NEW bytes \in AddedSizes, AddSegment(marker, bytes)
      PROVE  Sized'
  <2>1. /\ damage = "none" /\ UNCHANGED <<enc, cover, segments, declared>> /\ pc = "image" /\ pc' = "image"
        /\ image' = image + bytes /\ pieces' = Moved(pieces, bytes)
        /\ leading' = Append(leading, [marker |-> marker, at |-> LeadingEnd, length |-> bytes])
    BY <1>8 DEF AddSegment
  <2>2. /\ Profile /\ Placed /\ IccDataSize <= MaxConceal /\ Len(pieces) = Count
        /\ image = LeadingEnd - 2 + IccDataSize + cover
    BY <2>1 DEF Sized, Written
  <2>3. bytes \in Nat
    OBVIOUS
  <2>4. LeadingEnd' = LeadingEnd + bytes
    <3> DEFINE added == [marker |-> marker, at |-> LeadingEnd, length |-> bytes]
    <3>1. added.at = LeadingEnd /\ added.length = bytes
      OBVIOUS
    <3> HIDE DEF added
    <3>2. leading \in Seq(Segment) /\ leading' = Append(leading, added)
      BY <2>1 DEF Types, added
    <3>3. leading' # <<>> /\ leading'[Len(leading')] = added
      BY <3>2
    <3> QED BY <3>1, <3>3 DEF LeadingEnd, Last
  <2>5. /\ IccDataSize' = IccDataSize /\ SingleSegment' = SingleSegment /\ Count' = Count
        /\ SegmentsRequired' = SegmentsRequired
        /\ \A i : PieceLength(i)' = PieceLength(i)
    BY <2>1, SizesKept
  <2>6. Profile'
    BY <2>1, <2>2, <2>5 DEF Profile
  <2>7. /\ Len(pieces') = Len(pieces)
        /\ \A i \in 1..Len(pieces) :
             pieces'[i].offset = pieces[i].offset + bytes /\ pieces'[i].length = pieces[i].length
    BY <2>1, <2>3, Shifted DEF Types
  <2>8. \A i \in Nat : PieceOffset(i)' = PieceOffset(i) + bytes
    BY <1>1, <2>3, <2>4 DEF PieceOffset
  <2>9. Len(pieces) \in Nat
    BY <2>1 DEF Types
  <2>10. Placed'
    <3> SUFFICES ASSUME NEW i \in 1..Len(pieces)
                 PROVE  pieces'[i].offset = PieceOffset(i)' /\ pieces'[i].length = PieceLength(i)'
      BY <2>7 DEF Placed
    <3>1. pieces[i].offset = PieceOffset(i) /\ pieces[i].length = PieceLength(i)
      BY <2>2 DEF Placed
    <3>2. i \in Nat
      BY <2>9
    <3> QED BY <2>5, <2>7, <2>8, <3>1, <3>2
  <2>11. image' = LeadingEnd' - 2 + IccDataSize' + cover'
    BY <1>1, <1>2, <2>1, <2>2, <2>3, <2>4, <2>5
  <2> QED BY <2>1, <2>2, <2>5, <2>6, <2>7, <2>10, <2>11 DEF Sized, Written
<1>9. CASE (\E k \in 2..Len(pieces) : LoseSegment(k)) \/ Cut \/ Alter
  BY <1>9 DEF LoseSegment, Cut, Alter
<1>10. CASE Recover \/ WalkOn \/ WalkEnds \/ ReadProfile \/ Open \/ SkipHeader \/ TakeRun \/ RunsDone
            \/ (\E n \in Reads : TryRead(n)) \/ ReadPiece \/ Exhausted \/ UNCHANGED vars \/ Fails
  <2>1. UNCHANGED layout
    BY <1>10
    DEF Recover, WalkOn, WalkEnds, ReadProfile, Open, SkipHeader, TakeRun, RunsDone, TryRead, ReadPiece, Exhausted,
        Fails, vars
  <2>2. UNCHANGED <<enc, cover, leading, image, pieces, segments, declared, damage>>
    BY <2>1 DEF layout
  <2>3. IccDataSize' = IccDataSize /\ Count' = Count /\ LeadingEnd' = LeadingEnd
    BY <2>2, SizesKept, PlacesKept
  <2>4. Profile /\ Placed => Profile' /\ Placed'
    BY <2>2, LayoutKept
  <2>5. CASE Fails
    BY <2>5 DEF Fails, Goto, Sized, Written
  <2>6. CASE UNCHANGED vars
    <3>1. UNCHANGED <<pc, left, prefixLeft>>
      BY <2>6 DEF vars, source
    <3>2. Segmenting => Segmenting'
      BY <2>2, <2>3, <3>1, SizesKept DEF Segmenting
    <3> QED BY <2>2, <2>3, <2>4, <3>1, <3>2 DEF Sized, Written
  <2>7. CASE ~Fails /\ ~UNCHANGED vars
    <3>1. pc \in Written /\ pc' \in Written \ {"image"}
      BY <1>10, <2>7
      DEF Recover, WalkOn, WalkEnds, ReadProfile, Open, SkipHeader, TakeRun, RunsDone, TryRead, ReadPiece, Exhausted,
          Goto, Written
    <3> QED BY <2>2, <2>3, <2>4, <3>1 DEF Sized, Written
  <2> QED BY <2>5, <2>6, <2>7
<1> QED BY <1>3, <1>4, <1>5, <1>6, <1>7, <1>8, <1>9, <1>10 DEF Next, Platform

\* In an undamaged image the reader finds the last segment's marker where it looks.
LEMMA MarkerFound ==
  ASSUME Types, Leads, Sized, damage = "none", pc = "open", pos = LeadingEnd, segments # 0
  PROVE  LastMarkerThere
<1> DEFINE n == SegmentsRequired
           end == LeadingEnd
           payload == PayloadSize
<1>1. /\ Profile /\ Placed /\ Len(pieces) = Count
      /\ image = end - 2 + IccDataSize + cover
  BY DEF Sized, Written
<1>2. ~SingleSegment /\ segments = n
  BY <1>1 DEF Profile
<1>3. n \in Nat /\ n >= 2 /\ payload \in Int /\ (n - 1) * 65519 < payload
  BY <1>2, Required DEF Types
<1>4. end \in Nat /\ cover \in Nat /\ image \in Int
  BY DEF Leads, Types
<1>5. IccDataSize = n * 18 + payload + 2 /\ Len(pieces) = n
  BY <1>1, <1>2 DEF IccDataSize, Count
<1>6. MarkerIndex = end + (n - 1) * 65537
  <2>1. MarkerIndex = end - 2 + 24 + (n - 1) * 65537 - 22
    BY <1>2 DEF MarkerIndex, Base
  <2> HIDE DEF n, end
  <2> QED BY <1>3, <1>4, <2>1
<1>7. pieces[n].offset = PieceOffset(n)
  BY <1>1, <1>3, <1>5 DEF Placed
<1>8. PieceOffset(n) = end + (n - 1) * 65537 + 18
  BY <1>3 DEF PieceOffset
<1> HIDE DEF n, end, payload
<1>9. MarkerIndex = pieces[n].offset - 18
  BY <1>3, <1>4, <1>6, <1>7, <1>8
<1>10. MarkerIndex + 2 <= image
  <2>1. image = end + n * 18 + payload + cover
    BY <1>1, <1>3, <1>4, <1>5
  <2> QED BY <1>3, <1>4, <1>6, <2>1
<1>11. MarkerAt(MarkerIndex)
  BY <1>3, <1>5, <1>9 DEF MarkerAt
<1> QED BY <1>2, <1>3, <1>10, <1>11 DEF LastMarkerThere

LEMMA AcceptedStep ==
  ASSUME Types, Leads, Fresh, Sized, Walking, Sound, UndamagedIsAccepted, [Next]_vars
  PROVE  UndamagedIsAccepted'
<1> DEFINE All(l) == \A i \in DOMAIN l : l[i].marker = "app"
<1> USE IccCarrierAssumption
<1>1. CASE WalkEnds
  <2> SUFFICES ASSUME damage = "none", Len(leading) <= 16, LeadingEnd - 2 <= 65536, All(leading)
               PROVE  pc' \notin {"notOurs", "refused"}
    <3>1. UNCHANGED <<leading, damage>> /\ LeadingEnd' = LeadingEnd
      BY <1>1, PlacesKept DEF WalkEnds, layout
    <3> QED BY <3>1 DEF UndamagedIsAccepted
  <2>1. pc = "walk"
    BY <1>1 DEF WalkEnds
  <2>2. walked \in Nat /\ Len(leading) \in Nat /\ pos \in Nat /\ LeadingEnd \in Nat /\ enc \in Nat /\ enc >= 24
        /\ cover \in Nat /\ image \in Int
    BY DEF Types, Leads
  <2>3. walked <= Len(leading) /\ pos = (IF walked < Len(leading) THEN leading[walked + 1].at ELSE LeadingEnd)
    BY <2>1 DEF Walking
  <2>4. pos <= LeadingEnd
    <3>1. CASE walked < Len(leading)
      <4>1. leading[walked + 1] \in Segment
        BY <2>2, <3>1 DEF Types
      <4>2. leading[walked + 1].length \in Nat
        BY <4>1 DEF Segment
      <4>3. leading[walked + 1].at + leading[walked + 1].length <= LeadingEnd
        BY <2>2, <3>1 DEF Leads
      <4> QED BY <2>2, <2>3, <3>1, <4>2, <4>3
    <3> QED BY <2>2, <2>3, <3>1
  <2>5. image >= LeadingEnd + 873
    <3>1. image = LeadingEnd - 2 + IccDataSize + cover
      BY <2>1 DEF Sized, Written
    <3>2. IccDataSize \in Nat /\ IccDataSize >= enc + 851
      BY <2>2, DataSize
    <3> QED BY <2>2, <3>1, <3>2
  <2>6. Prefix = (IF image <= 66386 THEN image ELSE 66386)
    BY DEF Prefix, Least
  <2>7. InReach
    <3>1. walked <= 16
      BY <2>2, <2>3
    <3>2. pos + 4 <= Prefix /\ pos - 2 <= 65536
      BY <2>2, <2>4, <2>5, <2>6
    <3> QED BY <3>1, <3>2 DEF InReach
  <2>8. ~(walked < Len(leading) /\ leading[walked + 1].marker # "app")
    <3>1. ASSUME walked < Len(leading)
          PROVE  leading[walked + 1].marker = "app"
      BY <2>2, <3>1 DEF Types
    <3> QED BY <3>1
  <2>9. ~(walked = Len(leading) /\ pos - 2 + 850 > Prefix)
    BY <2>2, <2>4, <2>5, <2>6
  <2> QED BY <1>1, <2>7, <2>8, <2>9 DEF WalkEnds, Goto
<1>2. CASE ReadProfile
  <2> SUFFICES ASSUME damage = "none", LeadingEnd - 2 <= 65536
               PROVE  pc' \notin {"notOurs", "refused"}
    <3>1. UNCHANGED <<leading, damage>> /\ LeadingEnd' = LeadingEnd
      BY <1>2, PlacesKept DEF ReadProfile, layout
    <3> QED BY <3>1 DEF UndamagedIsAccepted
  <2>1. pc = "profile"
    BY <1>2 DEF ReadProfile
  <2>2. LeadingEnd \in Nat /\ enc \in Nat /\ enc >= 24 /\ cover \in Nat /\ image \in Int /\ MaxConceal \in Nat
    BY DEF Types, Leads
  <2>3. IccDataSize \in Nat /\ IccDataSize >= enc + 851
    BY <2>2, DataSize
  <2>4. pos = LeadingEnd
    BY <2>1 DEF Walking
  <2>5. /\ image = LeadingEnd - 2 + IccDataSize + cover
        /\ declared = IccDataSize - 851 /\ IccDataSize <= MaxConceal
    BY <2>1 DEF Sized, Written, Profile
  <2>6. Base = LeadingEnd + 22 /\ Start = LeadingEnd + 849
    <3>1. Base = pos - 2 + 24 /\ Start = Base + 827
      BY DEF Base, Start
    <3> QED BY <2>2, <2>4, <3>1
  <2>7. Base - 24 <= 65536 /\ Start <= image /\ declared >= 21
    BY <2>2, <2>3, <2>5, <2>6
  <2>8. declared <= MaxCipher
    BY <2>2, <2>3, <2>5 DEF MaxCipher
  <2> QED BY <1>2, <2>7, <2>8 DEF ReadProfile, Goto
<1>3. CASE Open
  <2> SUFFICES ASSUME damage = "none"
               PROVE  pc' \notin {"notOurs", "refused"}
    <3>1. UNCHANGED <<leading, damage>> /\ LeadingEnd' = LeadingEnd
      BY <1>3, PlacesKept DEF Open, layout
    <3> QED BY <3>1 DEF UndamagedIsAccepted
  <2>1. pc = "open"
    BY <1>3 DEF Open
  <2>2. LeadingEnd \in Nat /\ enc \in Nat /\ cover \in Nat /\ image \in Int
    BY DEF Types, Leads
  <2>3. IccDataSize \in Nat
    BY <2>2, DataSize
  <2>4. pos = LeadingEnd
    BY <2>1 DEF Walking
  <2>5. image = LeadingEnd - 2 + IccDataSize + cover /\ declared = IccDataSize - 851
    BY <2>1 DEF Sized, Written, Profile
  <2>6. Start = pos - 2 + 24 + 827
    BY DEF Base, Start
  <2>7. InRange
    BY <2>2, <2>3, <2>4, <2>5, <2>6 DEF InRange
  <2>8. segments # 0 => LastMarkerThere
    BY <2>1, <2>4, MarkerFound
  <2> QED BY <1>3, <2>7, <2>8 DEF Open, Goto
<1>4. CASE RunsDone
  <2>1. pc = "runs" /\ cursor = declared /\ declared >= 21
    BY <1>4 DEF RunsDone, Walking
  <2>4. cursor > 0
    BY <2>1 DEF Types
  <2>2. remaining > 0 /\ remaining \in Int
    BY <2>1, <2>4 DEF Sound, Types
  <2>3. remaining # 0
    BY <2>2
  <2> QED BY <1>4, <2>3 DEF RunsDone, Goto, UndamagedIsAccepted
<1>5. CASE TakeRun
  <2>1. /\ pc = "runs" /\ cursor < declared /\ ~(segments # 0 /\ cursor = nextHeader)
        /\ segments # 0 => cursor <= nextHeader
        /\ cursor \in Int /\ nextHeader \in Int /\ declared \in Int
    BY <1>5 DEF TakeRun, Sound, Types
  <2>2. ~((IF segments # 0 THEN Least(declared, nextHeader) ELSE declared) - cursor <= 0)
    BY <2>1 DEF Least
  <2>3. UNCHANGED pc
    BY <1>5, <2>2 DEF TakeRun
  <2> QED BY <2>1, <2>3 DEF UndamagedIsAccepted
<1>6. CASE Limits \/ WriteFront \/ WriteSegment \/ SegmentsDone \/ WriteBody \/ Fails \/ Platform
           \/ Recover \/ WalkOn \/ SkipHeader \/ (\E n \in Reads : TryRead(n)) \/ ReadPiece \/ Exhausted
  <2>1. pc' \notin {"notOurs", "refused"}
    <3>1. CASE Platform
      BY <3>1, PlatformKeeps
    <3> QED
      BY <1>6, <3>1
      DEF Limits, WriteFront, WriteSegment, SegmentsDone, WriteBody, Fails, Recover, WalkOn, SkipHeader, TryRead,
          ReadPiece, Exhausted, Goto
  <2> QED BY <2>1 DEF UndamagedIsAccepted
<1>7. CASE UNCHANGED vars
  <2>1. UNCHANGED <<pc, damage, leading>> /\ LeadingEnd' = LeadingEnd
    BY <1>7, PlacesKept DEF vars, layout
  <2> QED BY <2>1 DEF UndamagedIsAccepted
<1> QED BY <1>1, <1>2, <1>3, <1>4, <1>5, <1>6, <1>7 DEF Next

LEMMA RunTypes == Types => \A i \in 1..Len(runs) : runs[i].offset \in Int /\ runs[i].length \in Int
<1> SUFFICES ASSUME Types, NEW i \in 1..Len(runs)
             PROVE  runs[i].offset \in Int /\ runs[i].length \in Int
  OBVIOUS
<1>1. runs[i] \in Run
  BY DEF Types
<1> QED BY <1>1 DEF Run

\* The runs stay apart and inside the image.
LEMMA SoundStep ==
  ASSUME Types, Fresh, Walking, Sound, [Next]_vars
  PROVE  Sound'
<1>1. CASE Open
  <2>1. pc = "open" /\ pc' \in {"runs", "refused"} /\ (pc' = "runs" => InRange)
        /\ UNCHANGED <<image, pos, declared, segments, cursor, nextHeader, runs, remaining>>
    BY <1>1 DEF Open, Goto, layout, walk, opened, reader
  <2>2. runs = <<>> /\ cursor = 0 /\ nextHeader = 64688 /\ remaining = 0
    BY <2>1 DEF Fresh
  <2>3. pc' = "runs" => Start + declared <= image
    BY <2>1 DEF InRange
  <2>4. Start' = Start /\ declared \in Nat /\ declared >= 21
    BY <2>1 DEF Start, Base, Types, Walking
  <2>5. RunsInImage'
    BY <2>1, <2>2 DEF RunsInImage
  <2>6. Len(runs') = 0 /\ 0 <= cursor' /\ cursor' <= declared' /\ ~(cursor' > 0) /\ cursor' <= nextHeader'
        /\ nextHeader' >= 64688 /\ remaining' >= 0
    BY <2>1, <2>2, <2>4
  <2> QED BY <2>1, <2>3, <2>4, <2>5, <2>6 DEF Sound
<1>2. CASE SkipHeader
  <2>1. /\ pc = "runs" /\ cursor < declared /\ segments # 0 /\ cursor = nextHeader
        /\ cursor' = cursor + HeaderPart /\ nextHeader' = nextHeader + 65537
        /\ UNCHANGED <<image, pos, declared, segments, runs, remaining>>
    BY <1>2 DEF SkipHeader, layout, walk, reader
  <2>2. /\ Start + declared <= image /\ 0 <= cursor /\ nextHeader >= 64688
        /\ remaining >= 0 /\ (cursor > 0 => remaining > 0)
        /\ \A i \in 1..Len(runs) : runs[i].offset + runs[i].length <= Start + cursor
        /\ RunsInImage
    BY <2>1 DEF Sound
  <2>3. /\ cursor \in Int /\ nextHeader \in Int /\ declared \in Int /\ Start \in Int /\ Start' = Start
    BY <2>1 DEF Types, Start, Base
  <2>4. HeaderPart = (IF 18 <= declared - cursor THEN 18 ELSE declared - cursor)
    BY DEF HeaderPart, Least
  <2>5. cursor < cursor' /\ cursor' <= declared /\ cursor' <= nextHeader' /\ cursor' \in Int /\ cursor > 0
        /\ nextHeader' >= 64688
    BY <2>1, <2>2, <2>3, <2>4
  <2>6. \A i \in 1..Len(runs) :
          /\ runs[i].offset + runs[i].length <= Start + cursor'
          /\ runs[i].offset + runs[i].length # Start + cursor'
    <3> SUFFICES ASSUME NEW i \in 1..Len(runs)
                 PROVE  /\ runs[i].offset + runs[i].length <= Start + cursor'
                        /\ runs[i].offset + runs[i].length # Start + cursor'
      OBVIOUS
    <3>1. runs[i].offset + runs[i].length \in Int /\ runs[i].offset + runs[i].length <= Start + cursor
      BY <2>2, RunTypes
    <3> QED BY <2>3, <2>5, <3>1
  <2>7. RunsInImage'
    BY <2>1, <2>2 DEF RunsInImage
  <2>8. 0 <= cursor'
    BY <2>3, <2>5
  <2> QED BY <2>1, <2>2, <2>3, <2>5, <2>6, <2>7, <2>8 DEF Sound
<1>3. CASE TakeRun
  <2> DEFINE stop == IF segments # 0 THEN Least(declared, nextHeader) ELSE declared
             run == [offset |-> Start + cursor, length |-> stop - cursor]
             n == Len(runs)
  <2>1. /\ pc = "runs" /\ cursor < declared /\ ~(segments # 0 /\ cursor = nextHeader)
        /\ UNCHANGED <<image, pos, declared, segments, nextHeader>>
    BY <1>3 DEF TakeRun, layout, walk
  <2>17. cursor \in Int /\ declared \in Int /\ cursor # declared
    BY <2>1 DEF Types
  <2>2. /\ Start + declared <= image /\ 0 <= cursor /\ nextHeader >= 64688 /\ remaining >= 0
        /\ segments # 0 => cursor <= nextHeader
        /\ \A i \in 1..n :
             /\ runs[i].offset + runs[i].length <= Start + cursor
             /\ runs[i].offset + runs[i].length # Start + cursor
        /\ RunsInImage
    <3> DEFINE Past(i) == runs[i].offset + runs[i].length
    <3>1. /\ Start + declared <= image /\ 0 <= cursor /\ nextHeader >= 64688 /\ remaining >= 0
          /\ segments # 0 => cursor <= nextHeader
          /\ \A i \in 1..n : Past(i) <= Start + cursor /\
                (Past(i) = Start + cursor => cursor = declared \/ (segments # 0 /\ cursor = nextHeader))
          /\ RunsInImage
      BY <2>1 DEF Sound
    <3> HIDE DEF Past, n
    <3>2. \A i \in 1..n : Past(i) <= Start + cursor /\ Past(i) # Start + cursor
      BY <2>1, <2>17, <3>1
    <3> QED BY <3>1, <3>2 DEF Past
  <2>3. /\ cursor \in Int /\ nextHeader \in Int /\ declared \in Int /\ Start \in Int /\ image \in Int
        /\ remaining \in Int /\ Start' = Start
    BY <2>1 DEF Types, Start, Base
  <2>4. /\ stop \in Int /\ cursor < stop /\ stop <= declared /\ (segments # 0 => stop <= nextHeader)
        /\ (stop = declared \/ (segments # 0 /\ stop = nextHeader))
    BY <2>1, <2>2, <2>3 DEF Least
  <2>5. /\ UNCHANGED pc /\ runs' = Append(runs, run) /\ remaining' = remaining + (stop - cursor)
        /\ cursor' = cursor + (stop - cursor)
    <3>1. ~(stop - cursor <= 0)
      BY <2>3, <2>4
    <3> QED BY <1>3, <3>1 DEF TakeRun
  <2>6. run.offset = Start + cursor /\ run.length = stop - cursor
    OBVIOUS
  <2> HIDE DEF stop
  <2>7. run \in Run
    BY <2>3, <2>4 DEF Run
  <2> HIDE DEF run
  <2>8. n \in Nat /\ Len(runs') = n + 1 /\ runs'[n + 1] = run /\ \A i \in 1..n : runs'[i] = runs[i]
    BY <2>5, <2>7 DEF Types
  <2>9. cursor' = stop
    BY <2>2, <2>3, <2>4, <2>5
  <2>10. remaining' > 0 /\ remaining' >= 0
    BY <2>2, <2>3, <2>4, <2>5
  <2>11. run.offset + run.length = Start + stop /\ run.offset + run.length <= image
    BY <2>2, <2>3, <2>4, <2>6
  <2>12. \A i \in 1..n : runs[i].offset \in Int /\ runs[i].length \in Int
    BY RunTypes
  <2>13. \A i \in 1..n :
           /\ runs[i].offset + runs[i].length < run.offset
           /\ runs[i].offset + runs[i].length < Start + stop
    <3> SUFFICES ASSUME NEW i \in 1..n
                 PROVE  /\ runs[i].offset + runs[i].length < run.offset
                        /\ runs[i].offset + runs[i].length < Start + stop
      OBVIOUS
    <3>1. /\ runs[i].offset + runs[i].length \in Int /\ runs[i].offset + runs[i].length <= Start + cursor
          /\ runs[i].offset + runs[i].length # Start + cursor
      BY <2>2, <2>12
    <3> QED BY <2>3, <2>4, <2>6, <3>1
  <2> HIDE DEF n
  <2>14. \A i \in 1..(n + 1) :
           /\ runs'[i].offset + runs'[i].length <= Start + stop
           /\ runs'[i].offset + runs'[i].length = Start + stop => i = n + 1
    <3> SUFFICES ASSUME NEW i \in 1..(n + 1)
                 PROVE  /\ runs'[i].offset + runs'[i].length <= Start + stop
                        /\ runs'[i].offset + runs'[i].length = Start + stop => i = n + 1
      OBVIOUS
    <3>1. CASE i \in 1..n
      <4>1. runs'[i] = runs[i] /\ runs[i].offset + runs[i].length \in Int
            /\ runs[i].offset + runs[i].length < Start + stop
        BY <3>1, <2>8, <2>12, <2>13
      <4> QED BY <2>3, <2>4, <4>1
    <3>2. CASE i = n + 1
      BY <3>2, <2>3, <2>4, <2>8, <2>11
    <3> QED BY <2>8, <3>1, <3>2
  <2>15. RunsInImage'
    <3> SUFFICES ASSUME NEW i \in 1..(n + 1)
                 PROVE  /\ runs'[i].offset + runs'[i].length <= image
                        /\ i > 1 => runs'[i - 1].offset + runs'[i - 1].length < runs'[i].offset
      <4>1. runs' \in Seq(Run) /\ image' = image
        BY <2>1, <2>5, <2>7 DEF Types
      <4>2. DOMAIN runs' = 1..(n + 1)
        BY <2>8, <4>1
      <4> QED BY <4>1, <4>2 DEF RunsInImage
    <3>1. CASE i \in 1..n
      <4>1. runs'[i] = runs[i] /\ (i > 1 => runs'[i - 1] = runs[i - 1])
        BY <2>8, <3>1
      <4>2. i \in DOMAIN runs
        BY <3>1 DEF n, Types
      <4> QED BY <2>2, <4>1, <4>2 DEF RunsInImage
    <3>2. CASE i = n + 1
      <4>1. runs'[i] = run /\ (i > 1 => runs'[i - 1] = runs[i - 1] /\ i - 1 \in 1..n)
        BY <2>8, <3>2
      <4> QED BY <2>11, <2>13, <4>1
    <3> QED BY <2>8, <3>1, <3>2
  <2>16. 0 <= stop
    BY <2>2, <2>3, <2>4
  <2> QED BY <2>1, <2>2, <2>3, <2>4, <2>8, <2>9, <2>10, <2>14, <2>15, <2>16 DEF Sound
<1>4. CASE Deciding /\ ~Open
  <2>1. UNCHANGED <<image, runs>>
    BY <1>4, DecidingKeeps DEF layout, reader
  <2>2. pc' # "runs"
    BY <1>4
    DEF Deciding, Limits, SegmentsDone, Fails, Recover, WalkEnds, ReadProfile, RunsDone, Exhausted, Goto
  <2> QED BY <2>1, <2>2 DEF Sound, RunsInImage
<1>5. CASE WriteFront \/ WriteSegment \/ WriteBody \/ Platform
  <2>1. runs = <<>> /\ UNCHANGED runs /\ pc' # "runs"
    <3>1. CASE WriteFront \/ WriteSegment \/ WriteBody
      BY <3>1 DEF WriteFront, WriteSegment, WriteBody, Goto, Fresh, reader
    <3>2. CASE Platform
      BY <3>2, PlatformKeeps DEF Fresh, reader
    <3> QED BY <1>5, <3>1, <3>2
  <2> QED BY <2>1 DEF Sound, RunsInImage
<1>6. CASE WalkOn \/ (\E n \in Reads : TryRead(n)) \/ ReadPiece
  <2>1. UNCHANGED <<image, runs>> /\ pc' # "runs"
    BY <1>6 DEF WalkOn, TryRead, ReadPiece, layout, reader
  <2> QED BY <2>1 DEF Sound, RunsInImage
<1>7. CASE UNCHANGED vars
  BY <1>7 DEF Sound, RunsInImage, Start, Base, vars, layout, walk, opened, reader
<1> QED BY <1>1, <1>2, <1>3, <1>4, <1>5, <1>6, <1>7 DEF Next, Deciding

\* What the reader knows of an undamaged image when it looks for the runs.
LEMMA Known ==
  ASSUME Types, Leads, Sized, Walking, damage = "none", pc = "runs"
  PROVE  /\ Start = LeadingEnd + 849
         /\ SingleSegment => segments = 0 /\ declared = enc
         /\ ~SingleSegment => /\ segments = SegmentsRequired /\ SegmentsRequired >= 2
                              /\ declared = 18 * (SegmentsRequired - 1) + PayloadSize - 831
                              /\ PayloadSize > 65519
<1>1. enc \in Nat /\ LeadingEnd \in Nat
  BY DEF Types, Leads
<1>2. SegmentsRequired \in Nat /\ PayloadSize = enc + 831 /\ (~SingleSegment => SegmentsRequired >= 2)
  BY <1>1, Required
<1>3. Profile /\ pos = LeadingEnd
  BY DEF Sized, Written, Walking
<1>4. Start = LeadingEnd + 849
  <2>1. Start = pos - 2 + 24 + 827
    BY DEF Start, Base
  <2> QED BY <1>1, <1>3, <2>1
<1>8. declared = IccDataSize - 851 /\ segments = (IF SingleSegment THEN 0 ELSE SegmentsRequired)
  BY <1>3 DEF Profile
<1>5. SingleSegment => segments = 0 /\ declared = enc
  <2>1. SingleSegment => IccDataSize = 851 + enc
    BY DEF IccDataSize
  <2> QED BY <1>1, <1>8, <2>1
<1>6. ASSUME ~SingleSegment
      PROVE  segments = SegmentsRequired /\ declared = 18 * (SegmentsRequired - 1) + PayloadSize - 831
  <2>1. IccDataSize = SegmentsRequired * 18 + PayloadSize + 2
    BY <1>6 DEF IccDataSize
  <2>2. declared = 18 * (SegmentsRequired - 1) + PayloadSize - 831
    BY <1>1, <1>2, <1>8, <2>1
  <2> QED BY <1>6, <1>8, <2>2
<1>7. ~SingleSegment => PayloadSize > 65519
  BY <1>1, <1>2 DEF SingleSegment
<1> QED BY <1>1, <1>2, <1>4, <1>5, <1>6, <1>7

\* A header that is skipped is whole, and data follows it.
LEMMA SkipStep ==
  ASSUME Types, Leads, Sized, Walking, damage = "none", Between, SkipHeader
  PROVE  Between'
<1> DEFINE r == SegmentsRequired
           payload == PayloadSize
           j == Len(runs)
<1>1. /\ pc = "runs" /\ cursor < declared /\ segments # 0 /\ cursor = nextHeader
      /\ cursor' = cursor + HeaderPart /\ nextHeader' = nextHeader + 65537 /\ skipped' = skipped + 1
      /\ UNCHANGED <<enc, declared, runs>>
  BY DEF SkipHeader, layout, reader
<1>2. /\ cursor \in Int /\ nextHeader \in Int /\ declared \in Int /\ skipped \in Int /\ j \in Nat
      /\ r \in Nat /\ payload \in Int /\ payload <= r * 65519 /\ (r - 1) * 65519 < payload
  BY Required DEF Types
<1>3. ~SingleSegment /\ declared = 18 * (r - 1) + payload - 831
  BY <1>1, Known
<1>4. SingleSegment' = SingleSegment /\ SegmentsRequired' = r
  BY <1>1, SizesKept
<1>5. \/ j = 0 /\ skipped = 0 /\ cursor = 0 /\ nextHeader = 64688
      \/ /\ j \in 1..r /\ skipped = j - 1 /\ nextHeader = 64688 + 65537 * (j - 1)
         /\ cursor = Least(declared, nextHeader)
      \/ /\ j \in 1..r /\ skipped = j /\ nextHeader = 64688 + 65537 * j
         /\ cursor = nextHeader - 65519 /\ cursor < declared
  BY <1>3 DEF Between
<1>6. HeaderPart = (IF 18 <= declared - cursor THEN 18 ELSE declared - cursor)
  BY DEF HeaderPart, Least
<1> HIDE DEF r, payload, j
<1>7. j \in 1..r /\ skipped = j - 1 /\ nextHeader = 64688 + 65537 * (j - 1)
  BY <1>1, <1>2, <1>5
<1>8. declared - cursor = payload - 65519 * j + 18 * (r - j)
  BY <1>1, <1>2, <1>3, <1>7
<1>9. j < r
  BY <1>1, <1>2, <1>7, <1>8
<1>10. payload - 65519 * j >= 1
  BY <1>2, <1>7, <1>9
<1>11. declared - cursor > 18
  BY <1>2, <1>7, <1>8, <1>9, <1>10
<1>12. cursor' = cursor + 18 /\ nextHeader' = 64688 + 65537 * j /\ skipped' = j
  BY <1>1, <1>2, <1>6, <1>7, <1>11
<1>13. cursor' = nextHeader' - 65519 /\ cursor' < declared
  BY <1>1, <1>2, <1>7, <1>11, <1>12
<1> QED BY <1>1, <1>3, <1>4, <1>7, <1>12, <1>13 DEF Between, j, r

LEMMA StartKnown ==
  ASSUME Types, Leads, Sized, Walking, damage = "none", pc = "runs"
  PROVE  Start = LeadingEnd + 849
BY Known

\* A run that is taken is the next piece.
LEMMA TakeStep ==
  ASSUME Types, Leads, Sized, Walking, Sound, damage = "none", Matched, Between, TakeRun
  PROVE  UNCHANGED pc /\ Matched' /\ Between'
<1> DEFINE r == SegmentsRequired
           payload == PayloadSize
           j == Len(runs)
           stop == IF segments # 0 THEN Least(declared, nextHeader) ELSE declared
           run == [offset |-> Start + cursor, length |-> stop - cursor]
           end == LeadingEnd
<1>1. /\ pc = "runs" /\ cursor < declared /\ ~(segments # 0 /\ cursor = nextHeader)
      /\ UNCHANGED <<enc, leading, declared, nextHeader, skipped>>
  BY DEF TakeRun, layout
<1>2. /\ cursor \in Int /\ nextHeader \in Int /\ declared \in Int /\ skipped \in Int /\ j \in Nat
      /\ Start \in Int /\ end \in Int /\ enc \in Int
      /\ r \in Nat /\ payload \in Int /\ payload <= r * 65519 /\ (r - 1) * 65519 < payload
  <2>1. /\ cursor \in Int /\ nextHeader \in Int /\ declared \in Int /\ skipped \in Int /\ j \in Nat
        /\ Start \in Int /\ end \in Int /\ enc \in Nat
    BY DEF Types, Leads, Start, Base
  <2>2. r \in Nat /\ payload \in Int /\ payload <= r * 65519 /\ (r - 1) * 65519 < payload
    BY <2>1, Required
  <2> QED BY <2>1, <2>2
<1>3. segments # 0 => cursor <= nextHeader
  BY <1>1 DEF Sound
<1>4. stop \in Int /\ cursor < stop
  BY <1>1, <1>2, <1>3 DEF Least
<1>5. UNCHANGED pc /\ runs' = Append(runs, run) /\ cursor' = cursor + (stop - cursor)
  <2>1. ~(stop - cursor <= 0)
    BY <1>2, <1>4
  <2> QED BY <2>1 DEF TakeRun
<1>6. cursor' = stop
  BY <1>2, <1>4, <1>5
<1>7. run.offset = Start + cursor /\ run.length = stop - cursor /\ run \in Run
  BY <1>2, <1>4 DEF Run
<1>8. SingleSegment' = SingleSegment /\ SegmentsRequired' = r
      /\ \A i : PieceLength(i)' = PieceLength(i) /\ PieceOffset(i)' = PieceOffset(i)
  BY <1>1, SizesKept, PlacesKept
<1>9. Start = end + 849
  BY <1>1, StartKnown
<1>10. CASE SingleSegment
  <2>1. segments = 0 /\ declared = enc
    BY <1>1, <1>10, Known
  <2>2. stop = enc /\ j = 0 /\ cursor = 0 /\ skipped = 0
    BY <1>1, <1>2, <1>10, <2>1 DEF Between
  <2>3. PieceOffset(1) = end + 849 /\ PieceLength(1) = enc
    BY <1>10 DEF PieceOffset, PieceLength
  <2> HIDE DEF run, stop, end
  <2>4. run.offset = PieceOffset(1) /\ run.length = PieceLength(1)
    BY <1>2, <1>7, <1>9, <2>2, <2>3
  <2>5. Len(runs') = 1 /\ runs'[1] = run
    BY <1>5, <1>7, <2>2 DEF Types
  <2>6. Matched'
    <3> SUFFICES ASSUME NEW i \in 1..1
                 PROVE  runs'[i].offset = PieceOffset(i) /\ runs'[i].length = PieceLength(i)
      BY <1>8, <2>5 DEF Matched
    <3>1. i = 1
      OBVIOUS
    <3> QED BY <2>4, <2>5, <3>1
  <2>7. Between'
    BY <1>1, <1>6, <1>8, <1>10, <2>2, <2>5 DEF Between
  <2> QED BY <1>5, <2>6, <2>7
<1>11. CASE ~SingleSegment
  <2>1. segments # 0 /\ declared = 18 * (r - 1) + payload - 831 /\ r >= 2 /\ payload > 65519
    BY <1>1, <1>2, <1>11, Known
  <2>2. \/ j = 0 /\ skipped = 0 /\ cursor = 0 /\ nextHeader = 64688
        \/ /\ j \in 1..r /\ skipped = j - 1 /\ nextHeader = 64688 + 65537 * (j - 1)
           /\ cursor = Least(declared, nextHeader)
        \/ /\ j \in 1..r /\ skipped = j /\ nextHeader = 64688 + 65537 * j
           /\ cursor = nextHeader - 65519 /\ cursor < declared
    BY <1>11 DEF Between
  <2>3. stop = (IF declared <= nextHeader THEN declared ELSE nextHeader)
    BY <2>1 DEF Least
  <2>4. stop = Least(declared, nextHeader)
    BY <2>1
  <2>5. \A i : PieceOffset(i) = (IF i = 1 THEN end + 849 ELSE end + (i - 1) * 65537 + 18)
    BY DEF PieceOffset
  <2>6. \A i : PieceLength(i) = (IF i = 1 THEN 64688 ELSE
               IF 65519 <= payload - (i - 1) * 65519 THEN 65519 ELSE payload - (i - 1) * 65519)
    BY <1>11 DEF PieceLength, Least
  <2> HIDE DEF r, payload, j, stop, end, run
  <2>7. j < r /\ skipped = j /\ nextHeader = 64688 + 65537 * j /\ (j = 0 => cursor = 0)
        /\ (j > 0 => cursor = nextHeader - 65519)
    <3>1. CASE j = 0
      BY <1>2, <2>1, <2>2, <3>1
    <3>2. CASE j # 0
      <4>1. /\ j \in 1..r /\ skipped = j /\ nextHeader = 64688 + 65537 * j
            /\ cursor = nextHeader - 65519
        BY <1>1, <1>2, <2>1, <2>2, <3>2 DEF Least
      <4>2. j < r
        BY <1>1, <1>2, <2>1, <4>1
      <4> QED BY <1>2, <3>2, <4>1, <4>2
    <3> QED BY <3>1, <3>2
  <2>8. run.offset = PieceOffset(j + 1) /\ run.length = PieceLength(j + 1)
    <3>1. CASE j = 0
      <4>1. stop = 64688 /\ cursor = 0 /\ j + 1 = 1
        BY <1>2, <2>1, <2>3, <2>7, <3>1
      <4>2. PieceOffset(j + 1) = end + 849 /\ PieceLength(j + 1) = 64688
        BY <2>5, <2>6, <4>1
      <4> QED BY <1>2, <1>7, <1>9, <4>1, <4>2
    <3>2. CASE j # 0
      <4>1. cursor = 65537 * j - 831 /\ j + 1 # 1 /\ (j + 1) - 1 = j /\ j \in 1..(r - 1)
        BY <1>2, <2>7, <3>2
      <4>2. PieceOffset(j + 1) = end + j * 65537 + 18
        BY <2>5, <4>1
      <4>3. PieceLength(j + 1) = (IF 65519 <= payload - j * 65519 THEN 65519 ELSE payload - j * 65519)
        BY <2>6, <4>1
      <4>4. run.offset = PieceOffset(j + 1)
        BY <1>2, <1>7, <1>9, <4>1, <4>2
      <4>5. declared - cursor = payload - j * 65519 + 18 * (r - 1 - j)
        BY <1>2, <2>1, <4>1
      <4>6. CASE j = r - 1
        <5>1. payload - j * 65519 <= 65519 /\ declared - cursor = payload - j * 65519
          BY <1>2, <2>1, <4>1, <4>5, <4>6
        <5>2. stop = declared
          BY <1>2, <2>3, <2>7, <4>1, <5>1
        <5>3. PieceLength(j + 1) = payload - j * 65519
          BY <1>2, <4>1, <4>3, <5>1
        <5> QED BY <1>7, <4>4, <5>1, <5>2, <5>3
      <4>7. CASE j < r - 1
        <5>1. payload - j * 65519 > 65519
          BY <1>2, <4>1, <4>7
        <5>2. declared - cursor > 65519
          BY <1>2, <4>1, <4>5, <4>7, <5>1
        <5>3. stop = nextHeader /\ nextHeader - cursor = 65519
          BY <1>2, <2>3, <2>7, <4>1, <5>2
        <5>4. PieceLength(j + 1) = 65519
          BY <1>2, <4>3, <5>1
        <5> QED BY <1>7, <4>4, <5>3, <5>4
      <4> QED BY <1>2, <4>1, <4>4, <4>6, <4>7
    <3> QED BY <3>1, <3>2
  <2>9. Len(runs') = j + 1 /\ runs'[j + 1] = run /\ \A i \in 1..j : runs'[i] = runs[i]
    BY <1>5, <1>7 DEF Types, j
  <2>10. Matched'
    <3> SUFFICES ASSUME NEW i \in 1..(j + 1)
                 PROVE  runs'[i].offset = PieceOffset(i) /\ runs'[i].length = PieceLength(i)
      BY <1>8, <2>9 DEF Matched
    <3>1. CASE i \in 1..j
      BY <2>9, <3>1 DEF Matched, j
    <3>2. CASE i = j + 1
      BY <2>8, <2>9, <3>2
    <3> QED BY <1>2, <3>1, <3>2
  <2>11. /\ Len(runs') \in 1..r /\ skipped' = Len(runs') - 1
         /\ nextHeader' = 64688 + 65537 * (Len(runs') - 1)
         /\ cursor' = Least(declared', nextHeader')
    <3>1. j + 1 \in 1..r /\ skipped = (j + 1) - 1 /\ nextHeader = 64688 + 65537 * ((j + 1) - 1)
      BY <1>2, <2>7
    <3> QED BY <1>1, <1>6, <2>4, <2>9, <3>1
  <2>12. Between'
    BY <1>8, <1>11, <2>11 DEF Between, r
  <2> QED BY <1>5, <2>10, <2>12
<1> QED BY <1>10, <1>11

\* When the cursor is at the end, every piece was taken.
LEMMA LastRun ==
  ASSUME Types, Leads, Sized, Walking, damage = "none", pc = "runs", Between, cursor = declared
  PROVE  Len(runs) = Count /\ skipped = Count - 1
<1> DEFINE r == SegmentsRequired
           payload == PayloadSize
           j == Len(runs)
<1>1. /\ cursor \in Int /\ nextHeader \in Int /\ declared \in Int /\ declared >= 21 /\ skipped \in Int /\ j \in Nat
      /\ r \in Nat /\ payload \in Int /\ payload <= r * 65519 /\ (r - 1) * 65519 < payload
  BY Required DEF Types, Walking
<1>2. CASE SingleSegment
  BY <1>1, <1>2 DEF Between, Count
<1>3. CASE ~SingleSegment
  <2>1. declared = 18 * (r - 1) + payload - 831 /\ Count = r
    BY <1>3, Known DEF Count
  <2>2. \/ j = 0 /\ skipped = 0 /\ cursor = 0 /\ nextHeader = 64688
        \/ /\ j \in 1..r /\ skipped = j - 1 /\ nextHeader = 64688 + 65537 * (j - 1)
           /\ cursor = Least(declared, nextHeader)
        \/ /\ j \in 1..r /\ skipped = j /\ nextHeader = 64688 + 65537 * j
           /\ cursor = nextHeader - 65519 /\ cursor < declared
    BY <1>3 DEF Between
  <2> HIDE DEF r, payload, j
  <2>3. j \in 1..r /\ skipped = j - 1 /\ nextHeader = 64688 + 65537 * (j - 1) /\ declared <= nextHeader
    BY <1>1, <2>2 DEF Least
  <2>4. payload - 65519 * j + 18 * (r - j) <= 0
    BY <1>1, <2>1, <2>3
  <2>5. j = r
    BY <1>1, <2>3, <2>4
  <2> QED BY <2>1, <2>3, <2>5 DEF j
<1> QED BY <1>2, <1>3

LEMMA MatchingStep ==
  ASSUME Types, Leads, Fresh, Sized, Walking, Sound, Matching, [Next]_vars
  PROVE  Matching'
<1>1. CASE Open
  <2>1. pc = "open" /\ pc' \in {"runs", "refused"} /\ UNCHANGED <<enc, runs, cursor, nextHeader, skipped>>
    BY <1>1 DEF Open, Goto, layout, opened, reader
  <2>2. runs = <<>> /\ cursor = 0 /\ nextHeader = 64688 /\ skipped = 0
    BY <2>1 DEF Fresh
  <2>3. Len(runs') = 0 /\ Matched'
    BY <2>1, <2>2 DEF Matched
  <2>4. Between'
    BY <2>1, <2>2, <2>3 DEF Between
  <2> QED BY <2>1, <2>3, <2>4 DEF Matching
<1>2. CASE SkipHeader
  <2>1. pc = "runs" /\ pc' = "runs" /\ UNCHANGED <<enc, leading, runs, damage>>
    BY <1>2 DEF SkipHeader, layout, reader
  <2>2. Matched => Matched'
    BY <2>1, SizesKept, PlacesKept DEF Matched
  <2>3. damage = "none" => Between'
    BY <1>2, <2>1, SkipStep DEF Matching
  <2> QED BY <2>1, <2>2, <2>3 DEF Matching
<1>3. CASE TakeRun
  <2>1. pc = "runs" /\ UNCHANGED damage
    BY <1>3 DEF TakeRun, layout
  <2>2. damage = "none" => pc' = "runs" /\ Matched' /\ Between'
    BY <1>3, <2>1, TakeStep DEF Matching
  <2> QED BY <2>1, <2>2 DEF Matching
<1>4. CASE RunsDone
  <2>1. pc = "runs" /\ pc' \in {"reading", "refused"} /\ cursor = declared
        /\ UNCHANGED <<enc, leading, runs, damage, skipped>>
    BY <1>4 DEF RunsDone, Goto, layout, opened, reader
  <2>2. damage = "none" => Len(runs) = Count /\ skipped = Count - 1 /\ Matched
    BY <2>1, LastRun DEF Matching
  <2>3. Count' = Count /\ (Matched => Matched')
    BY <2>1, SizesKept, PlacesKept DEF Matched
  <2> QED BY <2>1, <2>2, <2>3 DEF Matching
<1>5. CASE (\E n \in Reads : TryRead(n)) \/ ReadPiece \/ Exhausted
  <2>1. pc = "reading" /\ pc' \in {"reading", "exhausted"} /\ UNCHANGED <<enc, leading, runs, damage, skipped>>
    BY <1>5 DEF TryRead, ReadPiece, Exhausted, Goto, layout, opened, reader
  <2>3. Count' = Count /\ (Matched => Matched')
    BY <2>1, SizesKept, PlacesKept DEF Matched
  <2> QED BY <2>1, <2>3 DEF Matching
<1>6. CASE Limits \/ WriteFront \/ WriteSegment \/ SegmentsDone \/ WriteBody \/ Fails \/ Platform
           \/ Recover \/ WalkOn \/ WalkEnds \/ ReadProfile
  <2>1. pc' \notin {"runs", "reading", "exhausted"}
    <3>1. CASE Platform
      BY <3>1, PlatformKeeps
    <3> QED
      BY <1>6, <3>1
      DEF Limits, WriteFront, WriteSegment, SegmentsDone, WriteBody, Fails, Recover, WalkOn, WalkEnds, ReadProfile, Goto
  <2> QED BY <2>1 DEF Matching
<1>7. CASE UNCHANGED vars
  <2>1. UNCHANGED <<pc, enc, leading, declared, damage, cursor, nextHeader, skipped, runs>>
    BY <1>7 DEF vars, layout, opened, reader
  <2>2. Count' = Count /\ (Matched => Matched') /\ (Between => Between')
    BY <2>1, SizesKept, PlacesKept DEF Matched, Between
  <2> QED BY <2>1, <2>2 DEF Matching
<1> QED BY <1>1, <1>2, <1>3, <1>4, <1>5, <1>6, <1>7 DEF Next

LEMMA CountedStep ==
  ASSUME Types, Fresh, Walking, Sound, Counted, [Next]_vars
  PROVE  Counted'
<1>1. CASE Open
  <2>1. pc = "open" /\ pc' \in {"runs", "refused"} /\ UNCHANGED <<nextHeader, skipped>>
    BY <1>1 DEF Open, Goto, opened
  <2>2. nextHeader = 64688 /\ skipped = 0
    BY <2>1 DEF Fresh
  <2>3. skipped' >= 0 /\ nextHeader' = 64688 + 65537 * skipped' /\ ~(skipped' > 0)
    BY <2>1, <2>2
  <2> QED BY <2>1, <2>3 DEF Counted, ReportedHeadersAreSkipped, Opened
<1>2. CASE SkipHeader
  <2>1. /\ pc = "runs" /\ pc' = "runs" /\ cursor < declared /\ segments # 0 /\ cursor = nextHeader
        /\ nextHeader' = nextHeader + 65537 /\ skipped' = skipped + 1 /\ UNCHANGED <<declared, segments>>
    BY <1>2 DEF SkipHeader, layout
  <2>2. skipped \in Int /\ skipped >= 0 /\ nextHeader = 64688 + 65537 * skipped /\ nextHeader \in Int /\ declared \in Int
    BY <2>1 DEF Counted, Types
  <2>3. skipped' >= 0 /\ nextHeader' = 64688 + 65537 * skipped' /\ nextHeader' - 65537 < declared
    BY <2>1, <2>2
  <2> QED BY <2>1, <2>3 DEF Counted, ReportedHeadersAreSkipped, Opened
<1>3. CASE TakeRun
  <2>1. pc = "runs" /\ pc' \in {"runs", "refused"} /\ UNCHANGED <<nextHeader, skipped, declared, segments>>
    BY <1>3 DEF TakeRun, Goto, layout
  <2> QED BY <2>1 DEF Counted, ReportedHeadersAreSkipped, Opened
<1>4. CASE RunsDone
  <2>1. pc = "runs" /\ pc' # "runs" /\ cursor = declared /\ UNCHANGED <<skipped, declared, segments>>
    BY <1>4 DEF RunsDone, Goto, layout, opened
  <2>2. /\ skipped \in Int /\ skipped >= 0 /\ nextHeader = 64688 + 65537 * skipped
        /\ declared \in Nat /\ (skipped > 0 => segments # 0 /\ nextHeader - 65537 < declared)
        /\ (segments # 0 => declared <= nextHeader)
    BY <2>1 DEF Counted, Types, Sound
  <2>3. skipped = SkippedHeaders
    <3>1. CASE segments = 0
      BY <2>2, <3>1 DEF SkippedHeaders
    <3>2. CASE segments # 0 /\ declared <= 64688
      BY <2>2, <3>2 DEF SkippedHeaders
    <3>3. CASE segments # 0 /\ declared > 64688
      <4> DEFINE q == (declared - 1 - 64688) \div 65537
      <4>1. SkippedHeaders = 1 + q
        BY <2>2, <3>3 DEF SkippedHeaders
      <4>2. declared - 1 - 64688 \in Nat
        BY <2>2, <3>3
      <4>3. q \in Int /\ q * 65537 <= declared - 1 - 64688 /\ declared - 1 - 64688 < (q + 1) * 65537
        BY <4>2, Z3
      <4> HIDE DEF q
      <4>4. skipped = 1 + q
        BY <2>2, <3>3, <4>3
      <4> QED BY <4>1, <4>4
    <3> QED BY <2>2, <3>1, <3>2, <3>3
  <2>4. SkippedHeaders' = SkippedHeaders
    BY <2>1 DEF SkippedHeaders
  <2> QED BY <2>1, <2>3, <2>4 DEF Counted, ReportedHeadersAreSkipped
<1>5. CASE (\E n \in Reads : TryRead(n)) \/ ReadPiece \/ Exhausted
  <2>1. pc = "reading" /\ pc' # "runs" /\ UNCHANGED <<skipped, declared, segments>>
    BY <1>5 DEF TryRead, ReadPiece, Exhausted, Goto, layout, opened
  <2>2. SkippedHeaders' = SkippedHeaders
    BY <2>1 DEF SkippedHeaders
  <2> QED BY <2>1, <2>2 DEF Counted, ReportedHeadersAreSkipped, Opened
<1>6. CASE Limits \/ WriteFront \/ WriteSegment \/ SegmentsDone \/ WriteBody \/ Fails \/ Platform
           \/ Recover \/ WalkOn \/ WalkEnds \/ ReadProfile
  <2>1. pc' \notin {"runs", "reading", "exhausted"}
    <3>1. CASE Platform
      BY <3>1, PlatformKeeps
    <3> QED
      BY <1>6, <3>1
      DEF Limits, WriteFront, WriteSegment, SegmentsDone, WriteBody, Fails, Recover, WalkOn, WalkEnds, ReadProfile, Goto
  <2> QED BY <2>1 DEF Counted, ReportedHeadersAreSkipped, Opened
<1>7. CASE UNCHANGED vars
  <2>1. UNCHANGED <<pc, segments, declared, nextHeader, skipped>>
    BY <1>7 DEF vars, layout, opened
  <2>2. SkippedHeaders' = SkippedHeaders
    BY <2>1 DEF SkippedHeaders
  <2> QED BY <2>1, <2>2 DEF Counted, ReportedHeadersAreSkipped, Opened
<1> QED BY <1>1, <1>2, <1>3, <1>4, <1>5, <1>6, <1>7 DEF Next

\* A piece has a byte at least, and lies before the end of the profile.
LEMMA PieceInside ==
  ASSUME enc \in Nat, enc >= 24, LeadingEnd \in Nat, NEW i \in 1..Count
  PROVE  /\ PieceOffset(i) \in Int /\ PieceLength(i) \in Int /\ PieceLength(i) >= 1
         /\ PieceOffset(i) + PieceLength(i) <= LeadingEnd - 2 + IccDataSize
<1> DEFINE r == SegmentsRequired
           payload == PayloadSize
           end == LeadingEnd
<1>1. r \in Nat /\ payload = enc + 831 /\ payload <= r * 65519 /\ (r - 1) * 65519 < payload /\ (~SingleSegment => r >= 2)
  BY Required
<1>2. PieceOffset(i) = IF i = 1 THEN end + 849 ELSE end + (i - 1) * 65537 + 18
  BY DEF PieceOffset
<1>3. CASE SingleSegment
  <2>1. i = 1 /\ PieceLength(i) = enc /\ IccDataSize = 851 + enc
    BY <1>3 DEF Count, PieceLength, IccDataSize
  <2> QED BY <1>2, <2>1
<1>4. CASE ~SingleSegment
  <2>1. /\ i \in 1..r /\ IccDataSize = r * 18 + payload + 2
        /\ PieceLength(i) = (IF i = 1 THEN 64688 ELSE
              IF 65519 <= payload - (i - 1) * 65519 THEN 65519 ELSE payload - (i - 1) * 65519)
    BY <1>4 DEF Count, PieceLength, IccDataSize, Least
  <2>2. i \in Nat /\ 1 <= i /\ i <= r /\ end \in Nat /\ payload \in Int
    BY <1>1, <2>1
  <2> HIDE DEF r, payload, end
  <2>3. CASE i = 1
    <3>1. PieceOffset(i) = end + 849 /\ PieceLength(i) = 64688 /\ payload > 65519 /\ r * 18 >= 36
      BY <1>1, <1>2, <1>4, <2>1, <2>2, <2>3
    <3>2. PieceOffset(i) + PieceLength(i) <= end - 2 + IccDataSize
      BY <1>1, <2>1, <2>2, <3>1
    <3> QED BY <2>2, <3>1, <3>2 DEF end
  <2>4. CASE i # 1
    <3>1. PieceOffset(i) = end + (i - 1) * 65537 + 18
      BY <1>2, <2>4
    <3>2. payload - (i - 1) * 65519 >= 1
      BY <1>1, <2>2
    <3>3. PieceLength(i) \in Int /\ PieceLength(i) >= 1 /\ PieceLength(i) <= payload - (i - 1) * 65519
      BY <2>1, <2>2, <2>4, <3>2
    <3>4. PieceOffset(i) + PieceLength(i) <= end + 18 * i + payload
      BY <2>2, <3>1, <3>3
    <3>5. 18 * i <= r * 18
      BY <1>1, <2>2
    <3> QED BY <1>1, <2>1, <2>2, <3>1, <3>3, <3>4, <3>5 DEF end
  <2> QED BY <2>3, <2>4
<1> QED BY <1>3, <1>4

LEMMA Joined ==
  ASSUME NEW S, NEW s \in Seq(S), NEW t \in Seq(S)
  PROVE  Len(s \o t) = Len(s) + Len(t)
OBVIOUS

LEMMA JoinedAt ==
  ASSUME NEW S, NEW s \in Seq(S), NEW t \in Seq(S), NEW u, u = s \o t, NEW m \in Nat, m = Len(s)
  PROVE  /\ \A i \in 1..m : u[i] = s[i]
         /\ \A i \in 1..Len(t) : u[m + i] = t[i]
OBVIOUS

LEMMA PlaceOrder ==
  ASSUME NEW e \in Int, NEW i \in Int, NEW m \in Int, i <= m
  PROVE  /\ e + (i - 1) * 65537 + 18 \in Int /\ e + (i - 1) * 65537 + 18 <= e + (m - 1) * 65537 + 18
         /\ i < m => e + (i - 1) * 65537 + 18 < e + (m - 1) * 65537 + 18
OBVIOUS

\* The pieces that are left after a loss lie before the place of the last one.
LEMMA LossStep ==
  ASSUME Types, Leads, Sized, NEW k \in 2..Len(pieces), LoseSegment(k)
  PROVE  Lacking'
<1> DEFINE r == SegmentsRequired
           n == Len(pieces)
           by == -(18 + pieces[k].length)
           front == SubSeq(pieces, 1, k - 1)
           rest == SubSeq(pieces, k + 1, n)
           back == Moved(rest, by)
           last == LeadingEnd + (r - 1) * 65537 + 18
<1>1. /\ pc = "image" /\ damage = "none" /\ damage' = "lost" /\ pieces' = front \o back
      /\ UNCHANGED <<pc, enc, leading, segments, declared>>
  BY DEF LoseSegment
<1>2. pieces \in Seq(Piece) /\ enc \in Nat /\ enc >= 24 /\ LeadingEnd \in Nat /\ n \in Nat
  BY <1>1 DEF Types, Leads
<1>3. Profile /\ Placed /\ n = Count
  BY <1>1 DEF Sized, Written
<1>4. ~SingleSegment /\ n = r /\ segments = r
  <2>1. n >= 2
    BY <1>2
  <2>2. ~SingleSegment
    BY <1>3, <2>1 DEF Count
  <2> QED BY <1>3, <2>2 DEF Count, Profile
<1>5. /\ SingleSegment' = SingleSegment /\ SegmentsRequired' = r /\ LeadingEnd' = LeadingEnd
  BY <1>1, SizesKept, PlacesKept
<1>6. ASSUME NEW i \in 2..n
      PROVE  /\ pieces[i].offset = LeadingEnd + (i - 1) * 65537 + 18
             /\ pieces[i].length \in Int /\ pieces[i].length >= 1
  <2>1. i \in 1..Count /\ i \in 1..Len(pieces) /\ i # 1
    BY <1>2, <1>3
  <2>2. pieces[i].offset = PieceOffset(i) /\ pieces[i].length = PieceLength(i)
    BY <1>3, <2>1 DEF Placed
  <2> QED BY <1>2, <2>1, <2>2, PieceInside DEF PieceOffset
<1>7. by \in Int /\ by < 0 /\ k \in 2..n
  BY <1>6
<1> HIDE DEF by
<1>8. /\ front \in Seq(Piece) /\ Len(front) = k - 1 /\ \A i \in 1..(k - 1) : front[i] = pieces[i]
      /\ rest \in Seq(Piece) /\ Len(rest) = n - k /\ \A i \in 1..(n - k) : rest[i] = pieces[i + k]
  BY <1>2, <1>7
<1>9. /\ back \in Seq(Piece) /\ Len(back) = n - k
      /\ \A i \in 1..(n - k) : back[i].offset = pieces[i + k].offset + by
  <2>1. /\ back \in Seq(Piece) /\ Len(back) = Len(rest)
        /\ \A i \in 1..Len(rest) : back[i].offset = rest[i].offset + by
    BY <1>7, <1>8, Shifted
  <2> HIDE DEF back, rest
  <2> QED BY <1>8, <2>1
<1> HIDE DEF front, rest, back
<1>10. Len(pieces') = n - 1
  <2>1. Len(front \o back) = Len(front) + Len(back)
    BY <1>8, <1>9, Joined
  <2> QED BY <1>1, <1>2, <1>7, <1>8, <1>9, <2>1
<1>15. r \in Int /\ LeadingEnd \in Int
  BY <1>2, <1>4
<1> HIDE DEF r
<1>16. \A i \in 1..r : /\ LeadingEnd + (i - 1) * 65537 + 18 \in Int /\ LeadingEnd + (i - 1) * 65537 + 18 <= last
                       /\ i < r => LeadingEnd + (i - 1) * 65537 + 18 < last
  BY <1>15, PlaceOrder
<1> HIDE DEF last
<1>17. /\ \A i \in 1..(k - 1) : pieces'[i] = front[i]
       /\ \A i \in 1..(n - k) : pieces'[(k - 1) + i] = back[i]
  <2>1. k - 1 \in Nat
    BY <1>7
  <2>2. front \in Seq(Piece) /\ back \in Seq(Piece) /\ pieces' = front \o back /\ k - 1 = Len(front)
    BY Zenon, <1>1, <1>8, <1>9
  <2>3. /\ \A i \in 1..(k - 1) : pieces'[i] = front[i]
        /\ \A i \in 1..Len(back) : pieces'[(k - 1) + i] = back[i]
    BY ONLY <2>1, <2>2, JoinedAt
  <2> QED BY Zenon, <1>9, <2>3
<1>11. ASSUME NEW i \in 2..(n - 1)
       PROVE  pieces'[i].offset \in Int /\ pieces'[i].offset < last
  <2>1. i \in 1..(k - 1) \/ i - (k - 1) \in 1..(n - k)
    BY <1>2, <1>7
  <2>2. CASE i \in 1..(k - 1)
    <3>1. pieces'[i] = pieces[i]
      BY <1>8, <1>17, <2>2
    <3>2. i \in 2..n
      BY <1>2
    <3>3. pieces[i].offset = LeadingEnd + (i - 1) * 65537 + 18
      BY <1>6, <3>2
    <3>4. i \in 1..r /\ i < r
      BY <1>2, <1>4
    <3>5. LeadingEnd + (i - 1) * 65537 + 18 \in Int /\ LeadingEnd + (i - 1) * 65537 + 18 < last
      BY <1>16, <3>4
    <3> QED BY ONLY <3>1, <3>3, <3>5
  <2>3. CASE i - (k - 1) \in 1..(n - k)
    <3> DEFINE j == i - (k - 1)
    <3>1. pieces'[i] = back[j]
      <4>1. (k - 1) + j = i
        BY <1>7
      <4> QED BY <1>17, <2>3, <4>1
    <3>2. j + k = i + 1 /\ i + 1 \in 2..n
      BY <1>2, <1>7
    <3>3. back[j].offset = pieces[j + k].offset + by
      BY <1>9, <2>3
    <3> HIDE DEF j
    <3>4. PICK v : v = LeadingEnd + ((i + 1) - 1) * 65537 + 18
      OBVIOUS
    <3>5. pieces[i + 1].offset = v
      BY <1>6, <3>2, <3>4
    <3>6. i + 1 \in 1..r
      BY <1>2, <1>4
    <3>7. v \in Int /\ v <= last
      BY <1>16, <3>4, <3>6
    <3>8. last \in Int
      BY <1>15 DEF last
    <3>9. pieces'[i].offset = v + by
      BY <3>1, <3>2, <3>3, <3>5
    <3> QED BY <1>7, <3>7, <3>8, <3>9
  <2> QED BY <2>1, <2>2, <2>3
<1>12. \A i \in 2..Len(pieces') : pieces'[i].offset \in Int /\ pieces'[i].offset < last
  BY Zenon, <1>10, <1>11
<1> QED BY <1>1, <1>4, <1>5, <1>12 DEF Lacking, r, last

\* A cut leaves out the last byte of the ciphertext at least.
LEMMA CutStep ==
  ASSUME Types, Leads, Sized, Cut
  PROVE  Lacking'
<1>1. pc = "image" /\ damage = "none" /\ damage' = "cut" /\ UNCHANGED <<pc, enc, leading, declared>>
  BY DEF Cut
<1>2. PICK i \in DOMAIN pieces : image' \in {pieces[i].offset, pieces[i].offset + pieces[i].length - 1}
  BY DEF Cut
<1>3. pieces \in Seq(Piece) /\ enc \in Nat /\ enc >= 24 /\ LeadingEnd \in Nat
  BY <1>1 DEF Types, Leads
<1>4. Profile /\ Placed /\ Len(pieces) = Count
  BY <1>1 DEF Sized, Written
<1>5. i \in 1..Count /\ pieces[i].offset = PieceOffset(i) /\ pieces[i].length = PieceLength(i)
  BY <1>2, <1>3, <1>4 DEF Placed
<1>6. /\ PieceOffset(i) \in Int /\ PieceLength(i) \in Int /\ PieceLength(i) >= 1
      /\ PieceOffset(i) + PieceLength(i) <= LeadingEnd - 2 + IccDataSize
  BY <1>3, <1>5, PieceInside
<1>7. IccDataSize \in Nat
  BY <1>3, DataSize
<1>8. image' < LeadingEnd - 2 + IccDataSize
  BY <1>2, <1>3, <1>5, <1>6, <1>7
<1>9. LeadingEnd' = LeadingEnd /\ IccDataSize' = IccDataSize
  BY <1>1, SizesKept, PlacesKept
<1>10. declared' = IccDataSize - 851
  BY <1>1, <1>4 DEF Profile
<1> QED BY <1>1, <1>8, <1>9, <1>10 DEF Lacking

LEMMA LackingStep ==
  ASSUME Types, Leads, Sized, Walking, Lacking, [Next]_vars
  PROVE  Lacking'
<1> DEFINE Still == UNCHANGED <<enc, leading, image, pieces, segments, declared, damage>>
<1>1. ASSUME Still, pc' \in {"limits", "front", "segments", "body"} => pc \in {"limits", "front", "segments", "body"},
             pc' \in {"runs", "reading", "exhausted"} => pc \in {"runs", "reading", "exhausted"}
      PROVE  Lacking'
  <2>1. SingleSegment' = SingleSegment /\ SegmentsRequired' = SegmentsRequired /\ IccDataSize' = IccDataSize
        /\ LeadingEnd' = LeadingEnd
    BY <1>1, SizesKept, PlacesKept
  <2> QED BY <1>1, <2>1 DEF Lacking
<1>2. CASE WriteFront \/ WriteSegment \/ WriteBody
  <2>1. damage' = "none"
    BY <1>2 DEF WriteFront, WriteSegment, WriteBody, Lacking
  <2> QED BY <2>1 DEF Lacking
<1>3. CASE Open
  <2>1. pc = "open" /\ pc' \in {"runs", "refused"} /\ Still
        /\ (pc' = "runs" => InRange /\ (segments # 0 => LastMarkerThere))
    BY <1>3 DEF Open, Goto, layout
  <2>2. pos = LeadingEnd /\ LeadingEnd \in Nat /\ enc \in Nat /\ image \in Int
    BY <2>1 DEF Walking, Leads, Types
  <2>3. Start = LeadingEnd + 849 /\ Base = LeadingEnd + 22
    <3>1. Base = pos - 2 + 24 /\ Start = Base + 827
      BY DEF Base, Start
    <3> QED BY <2>2, <3>1
  <2>4. ASSUME damage = "cut"
        PROVE  ~InRange
    <3>1. declared = IccDataSize - 851 /\ image < LeadingEnd - 2 + IccDataSize /\ IccDataSize \in Nat
      BY <2>2, <2>4, DataSize DEF Lacking
    <3> QED BY <2>2, <2>3, <3>1 DEF InRange
  <2>5. ASSUME damage = "lost"
        PROVE  segments # 0 /\ ~LastMarkerThere
    <3> DEFINE r == SegmentsRequired
               end == LeadingEnd
    <3>1. segments = r /\ r \in Nat /\ r >= 2
      BY <2>2, <2>5, Required DEF Lacking
    <3>2. MarkerIndex = Base + (r - 1) * 65537 - 22
      BY <3>1 DEF MarkerIndex
    <3>3. \A k \in 2..Len(pieces) : pieces[k].offset \in Int /\ pieces[k].offset < end + (r - 1) * 65537 + 18
      BY <2>5 DEF Lacking
    <3>4. MarkerAt(MarkerIndex) =>
            MarkerIndex = pos \/ \E k \in 2..Len(pieces) : MarkerIndex = pieces[k].offset - 18
      BY DEF MarkerAt
    <3> HIDE DEF r, end
    <3>5. MarkerIndex = end + (r - 1) * 65537
      BY <2>2, <2>3, <3>1, <3>2 DEF end
    <3>6. MarkerIndex # pos
      BY <2>2, <3>1, <3>5 DEF end
    <3>7. \A k \in 2..Len(pieces) : MarkerIndex # pieces[k].offset - 18
      BY <2>2, <3>1, <3>3, <3>5 DEF end
    <3>8. ~MarkerAt(MarkerIndex)
      BY <3>4, <3>6, <3>7
    <3> QED BY <3>1, <3>8 DEF LastMarkerThere
  <2>6. damage \in {"lost", "cut"} => pc' = "refused"
    BY <2>1, <2>4, <2>5
  <2>7. SingleSegment' = SingleSegment /\ SegmentsRequired' = SegmentsRequired /\ IccDataSize' = IccDataSize
        /\ LeadingEnd' = LeadingEnd
    BY <2>1, SizesKept, PlacesKept
  <2> QED BY <2>1, <2>6, <2>7 DEF Lacking
<1>4. CASE Limits \/ SegmentsDone \/ Fails \/ Recover \/ WalkOn \/ WalkEnds \/ ReadProfile
  BY <1>1, <1>4 DEF Limits, SegmentsDone, Fails, Recover, WalkOn, WalkEnds, ReadProfile, Goto, layout
<1>5. CASE SkipHeader \/ TakeRun \/ RunsDone \/ (\E n \in Reads : TryRead(n)) \/ ReadPiece \/ Exhausted
  BY <1>1, <1>5 DEF SkipHeader, TakeRun, RunsDone, TryRead, ReadPiece, Exhausted, Goto, layout
<1>6. ASSUME NEW marker \in {"app", "app2", "other"}, NEW bytes \in AddedSizes, AddSegment(marker, bytes)
      PROVE  Lacking'
  <2>1. pc' = "image" /\ damage' = "none"
    BY <1>6 DEF AddSegment
  <2> QED BY <2>1 DEF Lacking
<1>7. CASE Alter
  <2>1. pc' = "image" /\ damage' = "altered"
    BY <1>7 DEF Alter
  <2> QED BY <2>1 DEF Lacking
<1>8. CASE UNCHANGED vars
  BY <1>1, <1>8 DEF vars, layout
<1> QED BY <1>2, <1>3, <1>4, <1>5, <1>6, <1>7, <1>8, LossStep, CutStep DEF Next, Platform

\* The next piece begins where the last one ended.
LEMMA IndexedSegment ==
  ASSUME Types, Leads, Sized, Indexed, damage = "none", WriteSegment
  PROVE  Indexed'
<1> DEFINE n == Len(pieces)
           bytes == Least(left, 65519)
           prefix == FromTemplate(bytes)
           piece == [offset |-> image + 18 + prefix, length |-> bytes - prefix, from |-> sent]
<1>1. /\ pc = "segments" /\ left > 0 /\ left' = left - bytes /\ sent' = sent + bytes - prefix
      /\ pieces' = Append(pieces, piece)
  BY DEF WriteSegment
<1>2. pieces \in Seq(Piece) /\ n \in Nat /\ left \in Int /\ prefixLeft \in Int /\ sent \in Int /\ image \in Int /\ enc \in Nat
  BY DEF Types
<1>3. Segmenting
  BY <1>1 DEF Sized
<1>4. prefixLeft = (IF n = 0 THEN 831 ELSE 0) /\ (n = 0 => left > 65519)
  <2>1. PayloadSize = enc + 831 /\ enc > 64688
    BY Required, <1>2, <1>3 DEF SingleSegment, Segmenting
  <2> QED BY <1>2, <1>3, <2>1 DEF Segmenting
<1>5. sent = Index(n + 1) /\ \A i \in 1..n : pieces[i].from = Index(i)
  BY <1>1 DEF Indexed
<1>6. bytes = (IF left <= 65519 THEN left ELSE 65519)
  BY DEF Least
<1>7. piece.from = sent
  OBVIOUS
<1> HIDE DEF bytes
<1>8. prefix = (IF bytes <= prefixLeft THEN bytes ELSE prefixLeft)
  BY DEF FromTemplate, Least
<1>9. bytes \in Int /\ prefix \in Int
  BY <1>2, <1>6, <1>8
<1> HIDE DEF prefix
<1>10. piece \in Piece
  BY <1>2, <1>9 DEF Piece
<1> HIDE DEF piece
<1>11. Len(pieces') = n + 1 /\ pieces'[n + 1] = piece /\ \A i \in 1..n : pieces'[i] = pieces[i]
  BY <1>1, <1>2, <1>10
<1>12. ASSUME NEW i \in 1..(n + 1)
       PROVE  pieces'[i].from = Index(i)
  <2>1. CASE i \in 1..n
    BY <1>5, <1>11, <2>1
  <2>2. CASE i = n + 1
    BY <1>5, <1>7, <1>11, <2>2
  <2> QED BY <1>2, <2>1, <2>2
<1>13. left' > 0 => sent' = Index((n + 1) + 1)
  <2> SUFFICES ASSUME left' > 0
               PROVE  sent' = Index((n + 1) + 1)
    OBVIOUS
  <2>1. bytes = 65519
    BY <1>1, <1>2, <1>6
  <2> HIDE DEF n
  <2>2. prefix = (IF n = 0 THEN 831 ELSE 0)
    BY <1>2, <1>4, <1>8, <2>1
  <2>3. Index(n + 1) = (IF n = 0 THEN 0 ELSE 64688 + (n - 1) * 65519) /\ Index((n + 1) + 1) = 64688 + n * 65519
    BY <1>2 DEF Index, n
  <2> QED BY <1>1, <1>2, <1>5, <2>1, <2>2, <2>3
<1> QED BY <1>11, <1>12, <1>13 DEF Indexed

LEMMA ShiftedFrom ==
  ASSUME NEW s \in Seq(Piece), NEW by \in Int
  PROVE  \A i \in 1..Len(s) : Moved(s, by)[i].from = s[i].from
<1>1. DOMAIN s = 1..Len(s)
  OBVIOUS
<1> SUFFICES ASSUME NEW i \in 1..Len(s)
             PROVE  Moved(s, by)[i].from = s[i].from
  OBVIOUS
<1> DEFINE x == s[i].offset + by
<1>2. s[i] \in [offset : Int, length : Int, from : Int]
  <2>1. s[i] \in Piece
    OBVIOUS
  <2> QED BY <2>1 DEF Piece
<1>3. Moved(s, by)[i] = [s[i] EXCEPT !.offset = x]
  BY <1>1 DEF Moved
<1> HIDE DEF x
<1>4. [s[i] EXCEPT !.offset = x].from = s[i].from
  BY <1>2
<1> QED BY <1>3, <1>4

LEMMA IndexedStep ==
  ASSUME Types, Leads, Sized, Indexed, [Next]_vars
  PROVE  Indexed'
<1> SUFFICES ASSUME damage' = "none"
             PROVE  Indexed'
  BY DEF Indexed
<1>1. CASE WriteFront
  <2>1. damage = "none" /\ pc = "front" /\ UNCHANGED enc
    BY <1>1 DEF WriteFront
  <2>2. pieces = <<>>
    BY <2>1 DEF Sized
  <2>3. CASE SingleSegment
    <3> DEFINE piece == [offset |-> LeadingEnd - 2 + 851, length |-> enc, from |-> 0]
    <3>1. pieces' = <<piece>> /\ pc' = "body"
      BY <1>1, <2>3 DEF WriteFront, Goto
    <3>2. piece.from = 0
      OBVIOUS
    <3> HIDE DEF piece
    <3>3. Len(pieces') = 1 /\ pieces'[1] = piece /\ \A i \in 1..1 : i = 1
      BY <3>1
    <3> QED BY <3>1, <3>2, <3>3 DEF Indexed, Index
  <2>4. CASE ~SingleSegment
    <3>1. pieces' = pieces /\ sent' = 0
      BY <1>1, <2>4 DEF WriteFront
    <3> QED BY <2>2, <3>1 DEF Indexed, Index
  <2> QED BY <2>3, <2>4
<1>2. CASE WriteSegment
  <2>1. damage = "none"
    BY <1>2 DEF WriteSegment
  <2> QED BY <1>2, <2>1, IndexedSegment
<1>3. ASSUME NEW marker \in {"app", "app2", "other"}, NEW bytes \in AddedSizes, AddSegment(marker, bytes)
      PROVE  Indexed'
  <2>1. bytes \in Int
    BY IccCarrierAssumption
  <2>2. damage = "none" /\ pc' = "image" /\ pieces' = Moved(pieces, bytes)
    BY <1>3 DEF AddSegment
  <2>3. pieces \in Seq(Piece)
    BY <2>2 DEF Types
  <2>4. Len(pieces') = Len(pieces) /\ \A i \in 1..Len(pieces) : pieces'[i].from = pieces[i].from
    BY <2>1, <2>2, <2>3, Shifted, ShiftedFrom
  <2> QED BY <2>2, <2>4 DEF Indexed
<1>4. CASE (\E k \in 2..Len(pieces) : LoseSegment(k)) \/ Cut \/ Alter
  BY <1>4 DEF LoseSegment, Cut, Alter
<1>5. ASSUME UNCHANGED <<pieces, damage, sent, left>>, pc' = "segments" => pc = "segments"
      PROVE  Indexed'
  BY <1>5 DEF Indexed
<1>6. CASE Limits \/ SegmentsDone \/ Fails \/ Recover \/ WalkOn \/ WalkEnds \/ ReadProfile \/ Open
  BY <1>5, <1>6 DEF Limits, SegmentsDone, Fails, Recover, WalkOn, WalkEnds, ReadProfile, Open, Goto, layout, source
<1>7. CASE SkipHeader \/ TakeRun \/ RunsDone \/ (\E n \in Reads : TryRead(n)) \/ ReadPiece \/ Exhausted
  BY <1>5, <1>7 DEF SkipHeader, TakeRun, RunsDone, TryRead, ReadPiece, Exhausted, Goto, layout, source
<1>8. CASE WriteBody \/ UNCHANGED vars
  BY <1>5, <1>8 DEF WriteBody, Goto, vars, layout, source
<1> QED BY <1>1, <1>2, <1>3, <1>4, <1>6, <1>7, <1>8 DEF Next, Platform

LEMMA ShapedSkip ==
  ASSUME Types, Walking, Counted, Shaped, SkipHeader
  PROVE  Shaped'
<1> DEFINE j == Len(runs)
<1>1. /\ pc = "runs" /\ cursor < declared /\ segments # 0 /\ cursor = nextHeader
      /\ cursor' = cursor + HeaderPart /\ skipped' = skipped + 1
      /\ UNCHANGED <<pc, segments, declared, runs, remaining>>
  BY DEF SkipHeader, layout, reader
<1>2. cursor \in Int /\ nextHeader \in Int /\ declared \in Int /\ skipped \in Int /\ j \in Nat /\ remaining \in Int
  BY DEF Types
<1>3. skipped >= 0 /\ nextHeader = 64688 + 65537 * skipped
  BY <1>1 DEF Counted
<1>4. \/ skipped = j /\ remaining = Index(skipped + 1) /\ cursor \in {remaining + 18 * skipped, declared}
      \/ /\ j >= 1 /\ skipped = j - 1
         /\ cursor = remaining + 18 * skipped /\ cursor = Least(declared, nextHeader)
  BY <1>1 DEF Shaped, Stepping
<1>5. HeaderPart = (IF 18 <= declared - cursor THEN 18 ELSE declared - cursor)
  BY DEF HeaderPart, Least
<1>6. Full' /\ Reached' = Reached
  BY <1>1 DEF Shaped, Full, Reached
<1> HIDE DEF j
<1>7. Index(skipped + 1) = (IF skipped = 0 THEN 0 ELSE 64688 + (skipped - 1) * 65519)
      /\ Index((skipped + 1) + 1) = 64688 + skipped * 65519
  BY <1>2, <1>3 DEF Index
<1>8. j >= 1 /\ skipped = j - 1 /\ cursor = remaining + 18 * skipped
  BY <1>1, <1>2, <1>3, <1>4, <1>7
<1>9. skipped' = j /\ remaining = Index(skipped' + 1)
  BY <1>1, <1>2, <1>3, <1>7, <1>8
<1>10. cursor' = remaining + 18 * skipped' \/ cursor' = declared
  BY <1>1, <1>2, <1>5, <1>8
<1> QED BY <1>1, <1>6, <1>9, <1>10 DEF Shaped, Stepping, j

LEMMA ShapedTake ==
  ASSUME Types, Walking, Sound, Counted, Shaped, TakeRun
  PROVE  Shaped'
<1> DEFINE j == Len(runs)
           stop == IF segments # 0 THEN Least(declared, nextHeader) ELSE declared
           length == stop - cursor
           run == [offset |-> Start + cursor, length |-> length]
<1>1. /\ pc = "runs" /\ cursor < declared /\ ~(segments # 0 /\ cursor = nextHeader)
      /\ UNCHANGED <<declared, segments, nextHeader, skipped>>
  BY DEF TakeRun, layout
<1>2. cursor \in Int /\ nextHeader \in Int /\ declared \in Int /\ skipped \in Int /\ j \in Nat /\ remaining \in Int
      /\ Start \in Int /\ declared >= 21
  BY SMTT(30), <1>1 DEF Types, Start, Base, Walking
<1>3. skipped >= 0 /\ nextHeader = 64688 + 65537 * skipped /\ (segments # 0 => cursor <= nextHeader)
  BY <1>1 DEF Counted, Sound
<1>4. stop \in Int /\ cursor < stop
  BY <1>1, <1>2, <1>3 DEF Least
<1> HIDE DEF stop
<1>5. length \in Int /\ length >= 1
  BY <1>2, <1>4
<1>6. run.length = length /\ run \in Run
  BY <1>2, <1>5 DEF Run
<1>7. UNCHANGED pc /\ runs' = Append(runs, run) /\ cursor' = cursor + length /\ remaining' = remaining + length
  <2>1. ~(length <= 0)
    BY <1>5
  <2> QED BY <2>1 DEF TakeRun, stop
<1> HIDE DEF run, length
<1>8. Len(runs') = j + 1 /\ runs'[j + 1] = run /\ \A i \in 1..j : runs'[i] = runs[i]
  BY <1>6, <1>7 DEF Types
<1>9. Full /\ Stepping
  BY <1>1 DEF Shaped
<1>10. remaining = Index(j + 1)
  <2>1. CASE segments = 0
    <3>1. j = 0
      BY <1>1, <1>2, <1>9, <2>1 DEF Stepping
    <3> QED BY <1>9, <3>1 DEF Stepping, Reached, Index
  <2>2. CASE segments # 0
    BY <1>1, <1>2, <1>3, <1>9, <2>2 DEF Stepping, Least
  <2> QED BY <2>1, <2>2
<1>11. j >= 1 => Index(j) + runs[j].length = Index(j + 1)
  BY <1>9, <1>10 DEF Stepping, Reached
<1>12. Full'
  <2>1. ASSUME NEW i \in 1..(j + 1)
        PROVE  runs'[i].length >= 1
    <3>1. CASE i \in 1..j
      BY <1>8, <1>9, <3>1 DEF Full
    <3>2. CASE i = j + 1
      BY <1>5, <1>6, <1>8, <3>2
    <3> QED BY <1>2, <3>1, <3>2
  <2>2. ASSUME NEW i \in 1..j
        PROVE  Index(i) + runs'[i].length = Index(i + 1)
    <3>1. CASE i \in 1..(j - 1)
      BY <1>8, <1>9, <3>1 DEF Full
    <3>2. CASE i = j
      BY <1>8, <1>11, <3>2
    <3> QED BY <1>2, <3>1, <3>2
  <2>3. 1..Len(runs') = 1..(j + 1) /\ 1..(Len(runs') - 1) = 1..j
    BY <1>2, <1>8
  <2> QED BY <2>1, <2>2, <2>3 DEF Full
<1>13. remaining' = Reached'
  <2>1. Reached' = Index(j + 1) + length
    BY <1>2, <1>6, <1>8 DEF Reached
  <2> QED BY <1>7, <1>10, <2>1
<1>14. CASE segments = 0
  <2>1. j = 0 /\ skipped = 0 /\ cursor = 0 /\ stop = declared
    BY <1>1, <1>2, <1>9, <1>14 DEF Stepping, stop
  <2>2. cursor' = declared
    BY <1>2, <1>7, <2>1 DEF length
  <2> QED BY <1>1, <1>7, <1>8, <1>12, <1>13, <1>14, <2>1, <2>2 DEF Shaped, Stepping
<1>15. CASE segments # 0
  <2>1. skipped = j /\ cursor = remaining + 18 * skipped
    <3>1. CASE skipped = j /\ cursor \in {remaining + 18 * skipped, declared}
      BY <1>1, <1>2, <3>1
    <3>2. CASE cursor = Least(declared, nextHeader)
      BY <1>1, <1>2, <1>15, <3>2 DEF Least
    <3> QED BY <1>9, <1>15, <3>1, <3>2 DEF Stepping
  <2>2. cursor' = stop /\ stop = Least(declared, nextHeader)
    BY <1>2, <1>4, <1>7, <1>15 DEF length, stop
  <2>3. cursor' = remaining' + 18 * skipped'
    BY <1>1, <1>2, <1>5, <1>7, <2>1
  <2>4. Len(runs') >= 1 /\ skipped' = Len(runs') - 1
    BY <1>1, <1>2, <1>8, <2>1
  <2> QED BY <1>1, <1>7, <1>12, <1>13, <1>15, <2>2, <2>3, <2>4 DEF Shaped, Stepping
<1> QED BY <1>14, <1>15

LEMMA ShapedStep ==
  ASSUME Types, Fresh, Walking, Sound, Counted, Shaped, [Next]_vars
  PROVE  Shaped'
<1>1. CASE Open
  <2>1. pc = "open" /\ UNCHANGED <<segments, declared, cursor, skipped, runs, remaining>>
    BY <1>1 DEF Open, layout, opened, reader
  <2>2. runs = <<>> /\ cursor = 0 /\ skipped = 0 /\ remaining = 0
    BY <2>1 DEF Fresh
  <2>3. Len(runs') = 0 /\ remaining' = 0 /\ cursor' = 0 /\ skipped' = 0
    BY <2>1, <2>2
  <2>4. Reached' = 0 /\ Full'
    BY <2>3 DEF Reached, Full
  <2>5. Index(skipped' + 1) = 0 /\ cursor' = remaining' + 18 * skipped'
    BY <2>3 DEF Index
  <2>6. Stepping'
    BY <2>3, <2>4, <2>5 DEF Stepping
  <2> QED BY <2>4, <2>6 DEF Shaped
<1>2. ASSUME UNCHANGED runs, pc' = "reading", pc \in {"runs", "reading"}
      PROVE  Shaped'
  BY <1>2 DEF Shaped, Full
<1>3. CASE RunsDone \/ (\E n \in Reads : TryRead(n)) \/ ReadPiece \/ Exhausted
  <2>1. UNCHANGED runs /\ pc \in {"runs", "reading"} /\ pc' \in {"reading", "refused", "exhausted"}
    BY <1>3 DEF RunsDone, TryRead, ReadPiece, Exhausted, Goto, layout, reader
  <2> QED BY <1>2, <2>1 DEF Shaped
<1>4. CASE Limits \/ WriteFront \/ WriteSegment \/ SegmentsDone \/ WriteBody \/ Fails \/ Platform
           \/ Recover \/ WalkOn \/ WalkEnds \/ ReadProfile
  <2>1. pc' \notin {"runs", "reading"}
    <3>1. CASE Platform
      BY <3>1, PlatformKeeps
    <3> QED
      BY <1>4, <3>1
      DEF Limits, WriteFront, WriteSegment, SegmentsDone, WriteBody, Fails, Recover, WalkOn, WalkEnds, ReadProfile, Goto
  <2> QED BY <2>1 DEF Shaped
<1>5. CASE UNCHANGED vars
  BY <1>5 DEF vars, layout, opened, reader, Shaped, Full, Stepping, Reached
<1> QED BY <1>1, <1>3, <1>4, <1>5, ShapedSkip, ShapedTake DEF Next

LEMMA ReadingPiece ==
  ASSUME Types, Shaped, Reading, ReadPiece
  PROVE  Reading'
<1> DEFINE j == Len(runs)
           length == runs[runIndex].length
           rest == length - runPosition
           take == Least(want, rest)
           at == Index(runIndex)
           reached == Reached
<1>1. /\ pc = "reading" /\ pc' = "reading" /\ want > 0 /\ want' = want - take
      /\ runIndex' = (IF take = rest THEN runIndex + 1 ELSE runIndex)
      /\ runPosition' = (IF take = rest THEN 0 ELSE runPosition + take)
      /\ UNCHANGED <<runs, remaining>>
  BY DEF ReadPiece, NextPosition
<1>2. j \in Nat /\ remaining \in Int /\ want \in Int /\ runIndex \in Int /\ runPosition \in Int
      /\ remaining >= 0 /\ j >= 1
  BY <1>1 DEF Types, Reading
<1>3. runIndex \in 1..j /\ 0 <= runPosition /\ runPosition < length /\ at + runPosition + remaining + want = reached
  BY <1>1 DEF Reading
<1>4. length \in Int /\ at \in Int
  BY <1>2, <1>3, RunTypes DEF Index
<1>5. take = IF want <= rest THEN want ELSE rest
  BY DEF Least
<1>6. Reached' = reached
  BY <1>1 DEF Reached
<1>7. CASE take # rest
  <2> HIDE DEF length, at, reached, j
  <2>1. take = want /\ want < rest
    BY <1>2, <1>3, <1>4, <1>5, <1>7 DEF rest
  <2>2. want' = 0 /\ runIndex' = runIndex /\ runPosition' = runPosition + want
    BY <1>1, <1>2, <1>7, <2>1
  <2>3. 0 <= runPosition' /\ runPosition' < length /\ at + runPosition' + remaining + 0 = reached
    BY <1>1, <1>2, <1>3, <1>4, <2>1, <2>2 DEF rest
  <2>4. runs'[runIndex'].length = length /\ Index(runIndex') = at /\ Len(runs') = j
    BY <1>1, <2>2 DEF length, at, j
  <2>5. runPosition' \in Int
    BY <1>2, <2>2
  <2> QED BY <1>1, <1>2, <1>3, <1>6, <2>2, <2>3, <2>4, <2>5 DEF Reading
<1>8. CASE take = rest
  <2>1. runIndex' = runIndex + 1 /\ runPosition' = 0 /\ want' = want - rest /\ rest \in Int /\ rest <= want
    BY <1>1, <1>2, <1>4, <1>5, <1>8
  <2>2. CASE runIndex < j
    <3>1. runIndex \in 1..(j - 1) /\ runIndex + 1 \in 1..j
      BY <1>2, <1>3, <2>2
    <3>2. at + length = Index(runIndex + 1) /\ runs[runIndex + 1].length >= 1 /\ runs[runIndex + 1].length \in Int
      BY <1>1, <3>1, RunTypes DEF Shaped, Full
    <3>3. Index(runIndex + 1) + 0 + remaining + (want - rest) = reached
      <4> HIDE DEF at, length, reached
      <4> QED BY <1>2, <1>3, <1>4, <3>2 DEF rest
    <3>4. want' \in Int /\ want' >= 0
      BY <1>2, <2>1
    <3> HIDE DEF rest, length, take
    <3>5. 0 < runs[runIndex + 1].length
      BY <3>2
    <3> QED BY <1>1, <1>2, <1>6, <2>1, <3>1, <3>3, <3>4, <3>5 DEF Reading
  <2>3. CASE runIndex = j
    <3>1. reached = at + length
      BY <1>2, <2>3 DEF Reached
    <3>2. remaining + want = rest
      <4> HIDE DEF at, length, reached
      <4> QED BY <1>2, <1>3, <1>4, <3>1 DEF rest
    <3>3. remaining = 0 /\ want' = 0
      BY <1>2, <2>1, <3>2
    <3> QED BY <1>1, <1>2, <2>1, <2>3, <3>3 DEF Reading
  <2> QED BY <1>2, <1>3, <2>2, <2>3
<1> QED BY <1>7, <1>8

LEMMA ReadingStep ==
  ASSUME Types, Sound, Shaped, Reading, [Next]_vars
  PROVE  Reading'
<1> USE IccCarrierAssumption
<1>1. CASE RunsDone
  <2>1. pc = "runs" /\ pc' \in {"reading", "refused"} /\ (pc' = "reading" => remaining # 0)
        /\ UNCHANGED <<runs, remaining, runIndex, runPosition, want>>
    BY <1>1 DEF RunsDone, Goto, reader
  <2>2. remaining >= 0 /\ remaining \in Int /\ remaining = Reached /\ Len(runs) \in Nat /\ Full
    BY <2>1 DEF Types, Sound, Shaped, Stepping
  <2>3. runIndex = 1 /\ runPosition = 0 /\ want = 0
    BY <2>1 DEF Reading
  <2>4. ASSUME remaining # 0
        PROVE  1 \in 1..Len(runs) /\ runs[1].length >= 1 /\ runs[1].length \in Int
    <3>1. Len(runs) >= 1
      BY <2>2, <2>4 DEF Reached
    <3>2. 1 \in 1..Len(runs)
      BY <2>2, <3>1
    <3> QED BY <2>2, <3>2, RunTypes DEF Full
  <2>5. Index(1) + 0 + remaining + 0 = Reached
    BY <2>2 DEF Index
  <2>6. Reached' = Reached
    BY <2>1 DEF Reached
  <2>7. remaining # 0 => 0 < runs[1].length /\ Len(runs) >= 1
    BY <2>2, <2>4
  <2> QED BY <2>1, <2>2, <2>3, <2>4, <2>5, <2>6, <2>7 DEF Reading
<1>2. ASSUME NEW n \in Reads, TryRead(n)
      PROVE  Reading'
  <2>1. /\ pc = "reading" /\ pc' = "reading" /\ want = 0 /\ n <= remaining /\ remaining' = remaining - n
        /\ want' = n /\ UNCHANGED <<runs, runIndex, runPosition>>
    BY <1>2 DEF TryRead
  <2>2. n \in Nat /\ n > 0 /\ remaining \in Int /\ runIndex \in Int /\ runPosition \in Int
    BY DEF Types, Reading
  <2>3. Len(runs) >= 1 /\ runIndex \in 1..Len(runs) /\ 0 <= runPosition /\ runPosition < runs[runIndex].length
        /\ Index(runIndex) + runPosition + remaining + 0 = Reached
    BY <2>1, <2>2 DEF Reading
  <2>4. Index(runIndex) + runPosition + remaining' + want' = Reached
    <3>1. Index(runIndex) \in Int
      BY <2>2 DEF Index
    <3> HIDE DEF Index, Reached
    <3> QED BY <2>1, <2>2, <2>3, <3>1
  <2>5. Reached' = Reached
    BY <2>1 DEF Reached
  <2>6. remaining' >= 0 /\ want' >= 0 /\ want' \in Int
    BY <2>1, <2>2
  <2> QED BY <2>1, <2>2, <2>3, <2>4, <2>5, <2>6 DEF Reading
<1>3. ASSUME UNCHANGED <<runIndex, runPosition, want>>, pc' # "reading",
             pc \in {"reading", "exhausted", "failed"} => pc' \in {"reading", "exhausted", "failed"}
      PROVE  Reading'
  BY <1>3 DEF Reading
<1>4. CASE Limits \/ SegmentsDone \/ Fails \/ Recover \/ WalkEnds \/ ReadProfile \/ Open \/ Exhausted
  <2>1. UNCHANGED <<runIndex, runPosition, want>>
    BY <1>4, DecidingKeeps DEF Deciding, reader
  <2> QED BY <1>3, <1>4, <2>1 DEF Limits, SegmentsDone, Fails, Recover, WalkEnds, ReadProfile, Open, Exhausted, Goto
<1>5. CASE WriteFront \/ WriteSegment \/ WriteBody \/ WalkOn \/ SkipHeader \/ TakeRun
  BY <1>3, <1>5 DEF WriteFront, WriteSegment, WriteBody, WalkOn, SkipHeader, TakeRun, Goto, reader
<1>6. CASE Platform
  BY <1>3, <1>6, PlatformKeeps DEF reader
<1>7. CASE UNCHANGED vars
  BY <1>7 DEF vars, reader, Reading, Reached
<1> QED BY <1>1, <1>2, <1>4, <1>5, <1>6, <1>7, ReadingPiece DEF Next

-----------------------------------------------------------------------------
(* What follows from it.                                                   *)

LEMMA Initially == Init => IInv
<1> SUFFICES ASSUME Init
             PROVE  IInv
  OBVIOUS
<1> USE IccCarrierAssumption
<1>1. PICK kept \in KeptSizes : leading = IF kept = 0 THEN <<>> ELSE <<[marker |-> "app", at |-> 2, length |-> kept]>>
  BY DEF Init
<1>2. kept \in Nat
  OBVIOUS
<1>3. [marker |-> "app", at |-> 2, length |-> kept] \in Segment
  BY <1>2 DEF Segment
<1>4. leading \in Seq(Segment)
  BY <1>1, <1>3
<1>5. Types
  <2>1. pieces = <<>> /\ runs = <<>> /\ cover \in Nat /\ enc \in Nat /\ enc >= 24
    BY DEF Init
  <2>2. pieces \in Seq(Piece) /\ runs \in Seq(Run)
    BY <2>1
  <2> QED BY <1>4, <2>1, <2>2 DEF Types, Init
<1>6. Leads
  <2>1. CASE kept = 0
    BY <1>1, <2>1 DEF Leads, LeadingEnd
  <2>2. CASE kept # 0
    <3> DEFINE first == [marker |-> "app", at |-> 2, length |-> kept]
    <3>1. first.at = 2 /\ first.length = kept
      OBVIOUS
    <3>2. leading = <<first>>
      BY <1>1, <2>2
    <3> HIDE DEF first
    <3>3. Len(leading) = 1 /\ leading[1] = first /\ leading # <<>> /\ \A i \in 1..Len(leading) : i = 1
      BY <3>2
    <3>4. LeadingEnd = 2 + kept
      BY <3>1, <3>3 DEF LeadingEnd, Last
    <3> QED BY <1>2, <3>1, <3>3, <3>4 DEF Leads
  <2> QED BY <2>1, <2>2
<1>8. Lacking /\ Indexed /\ Shaped /\ Reading
  BY DEF Init, Lacking, Indexed, Shaped, Reading
<1>7. Fresh /\ Sized /\ Walking /\ Sound /\ Matching /\ Counted /\ UndamagedIsAccepted
  BY DEF Init, Fresh, Sized, Written, Walking, Sound, RunsInImage, Matching, Counted, ReportedHeadersAreSkipped,
         Opened, UndamagedIsAccepted
<1> QED BY <1>5, <1>6, <1>7, <1>8 DEF IInv

LEMMA Inductive == IInv /\ [Next]_vars => IInv'
BY TypesStep, LeadsStep, FreshStep, SizesStep, WalkingStep, SoundStep, MatchingStep, CountedStep, LackingStep,
   IndexedStep, ShapedStep, ReadingStep, AcceptedStep
DEF IInv

LEMMA Always == Spec => []IInv
BY Initially, Inductive, PTL DEF Spec

\* Of an undamaged image recover reads exactly what conceal wrote: run by run the
\* places of write_icc_data_to_output, whatever the size of the ciphertext and
\* however many leading segments a platform put before it.
THEOREM CiphertextIsFound == Spec => []RunsAreTheCiphertext
<1>1. IInv => RunsAreTheCiphertext
  <2> SUFFICES ASSUME IInv, Opened, damage = "none"
               PROVE  /\ Len(runs) = Len(pieces)
                      /\ \A i \in DOMAIN runs : runs[i].offset = pieces[i].offset /\ runs[i].length = pieces[i].length
    BY DEF RunsAreTheCiphertext
  <2>1. Len(runs) = Count /\ Matched
    BY DEF IInv, Matching, Opened
  <2>2. Len(pieces) = Count /\ Placed
    BY DEF IInv, Sized, Written, Opened
  <2>3. DOMAIN runs = 1..Len(runs)
    BY DEF IInv, Types
  <2> QED BY <2>1, <2>2, <2>3 DEF Matched, Placed
<1> QED BY <1>1, Always, PTL

\* The reader's constants fit the writer's: an undamaged image whose leading
\* segments are within the limits is never taken for a foreign or a damaged one.
THEOREM UndamagedAccepted == Spec => []UndamagedIsAccepted
<1>1. IInv => UndamagedIsAccepted
  BY DEF IInv
<1> QED BY <1>1, Always, PTL

\* Whatever a damaged profile declares, recover reads inside the image only, and no
\* byte twice.
THEOREM RunsStayInside == Spec => []RunsInImage
<1>1. IInv => RunsInImage
  BY DEF IInv, Sound
<1> QED BY <1>1, Always, PTL

\* embedded_jpg_size foretells the size of what is written.
THEOREM SizeForeseen == Spec => []SizeIsForeseen
<1>1. IInv => SizeIsForeseen
  <2> SUFFICES ASSUME IInv, pc = "image", damage = "none"
               PROVE  image = EmbeddedSize
    BY DEF SizeIsForeseen
  <2>1. image = LeadingEnd - 2 + IccDataSize + cover
    BY DEF IInv, Sized, Written
  <2>2. LeadingEnd \in Nat /\ IccDataSize \in Nat /\ cover \in Nat
    BY DataSize DEF IInv, Types, Leads
  <2>3. EmbeddedSize = IccDataSize + (LeadingEnd - 2) + cover
    BY DEF EmbeddedSize
  <2> QED BY <2>1, <2>2, <2>3
<1> QED BY <1>1, Always, PTL

\* skipped_profile_header_count agrees with the loop, for every declared size.
THEOREM HeadersCounted == Spec => []ReportedHeadersAreSkipped
<1>1. IInv => ReportedHeadersAreSkipped
  BY DEF IInv, Counted
<1> QED BY <1>1, Always, PTL

\* Both computations made ahead of the writing and of the reading agree with them.
THEOREM ComputedAhead == Spec => []CountsAgree
BY SizeForeseen, HeadersCounted, PTL DEF CountsAgree

\* An image that lost one of its later segments, or was cut inside the ciphertext,
\* is refused by open_default_ciphertext: nothing of it is decrypted.
THEOREM IncompleteRefused == Spec => []IncompleteIsRefused
<1>1. IInv => IncompleteIsRefused
  BY DEF IInv, Lacking, IncompleteIsRefused, Opened
<1> QED BY <1>1, Always, PTL

\* FileRunsCipherSource goes on where the last read ended, and of an undamaged image
\* the byte it stands at is the one that the count of those left foretells.
THEOREM ReadsContinue == Spec => []ReadsInOrder
<1>1. IInv => ReadsInOrder
  <2> SUFFICES ASSUME IInv, pc = "reading", want > 0
               PROVE  /\ runIndex \in DOMAIN runs /\ runPosition < runs[runIndex].length
                      /\ damage = "none" => pieces[runIndex].from + runPosition = enc - remaining - want
    BY DEF ReadsInOrder
  <2>1. /\ runIndex \in 1..Len(runs) /\ runPosition < runs[runIndex].length
        /\ Index(runIndex) + runPosition + remaining + want = Reached
    BY DEF IInv, Reading
  <2>2. /\ Len(runs) \in Nat /\ DOMAIN runs = 1..Len(runs) /\ enc \in Nat /\ enc >= 24
        /\ remaining \in Int /\ want \in Int /\ runIndex \in Int /\ runPosition \in Int
    BY DEF IInv, Types, Reading
  <2>3. ASSUME damage = "none"
        PROVE  pieces[runIndex].from + runPosition = enc - remaining - want
    <3>1. Matched /\ Len(runs) = Count /\ Len(pieces) = Count
      BY <2>3 DEF IInv, Matching, Sized, Written
    <3>2. pieces[runIndex].from = Index(runIndex)
      BY <2>1, <2>3, <3>1 DEF IInv, Indexed
    <3>3. Len(runs) >= 1 /\ runs[Len(runs)].length = PieceLength(Len(runs))
      BY <2>1, <2>2, <3>1 DEF Matched
    <3>4. Index(Count) + PieceLength(Count) = enc
      <4>1. CASE SingleSegment
        BY <2>2, <4>1 DEF Count, Index, PieceLength
      <4>2. CASE ~SingleSegment
        <5> DEFINE r == SegmentsRequired
                   payload == PayloadSize
        <5>1. r \in Nat /\ payload = enc + 831 /\ payload <= r * 65519 /\ (r - 1) * 65519 < payload /\ r >= 2
          BY <2>2, <4>2, Required
        <5>2. PieceLength(r) = Least(65519, payload - (r - 1) * 65519) /\ Index(r) = 64688 + (r - 2) * 65519 /\ Count = r
          BY <4>2, <5>1 DEF Count, PieceLength, Index
        <5> HIDE DEF r, payload
        <5>3. PieceLength(r) = payload - (r - 1) * 65519
          BY <2>2, <5>1, <5>2 DEF Least
        <5> QED BY <2>2, <5>1, <5>2, <5>3
      <4> QED BY <4>1, <4>2
    <3>5. Reached = enc
      BY <3>1, <3>3, <3>4 DEF Reached
    <3>6. Index(runIndex) \in Int
      BY <2>2 DEF Index
    <3> HIDE DEF Index
    <3> QED BY <2>1, <2>2, <3>2, <3>5, <3>6
  <2> QED BY <2>1, <2>2, <2>3
<1> QED BY <1>1, Always, PTL

-----------------------------------------------------------------------------
(* Induction over the naturals, in the form of sets.                       *)

LEMMA Smallest ==
  ASSUME NEW T, T \subseteq Nat, T # {}
  PROVE  \E n \in T : \A m \in T : n <= m
<1> DEFINE R == OpToRel(<, Nat)
<1>1. IsWellFoundedOn(R, Nat)
  BY NatLessThanWellFounded
<1>2. \A x, y \in Nat : <<x, y>> \in R <=> x < y
  BY DEF OpToRel
<1> HIDE DEF R
<1>3. PICK n \in T : \A m \in T : <<m, n>> \notin R
  BY <1>1, WFMin
<1>4. \A m \in T : ~(m < n)
  BY <1>2, <1>3
<1> QED BY <1>3, <1>4

LEMMA Induction ==
  ASSUME NEW n \in Nat, NEW S, 0 \in S, \A k \in 0..(n - 1) : k \in S => k + 1 \in S
  PROVE  0..n \subseteq S
<1> SUFFICES ASSUME (0..n) \ S # {}
             PROVE  FALSE
  OBVIOUS
<1>1. PICK m \in (0..n) \ S : \A j \in (0..n) \ S : m <= j
  <2>1. (0..n) \ S \subseteq Nat
    OBVIOUS
  <2> QED BY <2>1, Smallest
<1>2. m # 0 /\ m - 1 \in 0..(n - 1)
  BY <1>1
<1>3. m - 1 \in S
  BY <1>1, <1>2
<1> QED BY <1>1, <1>2, <1>3

-----------------------------------------------------------------------------
(* The search for an index in a table with open addressing.                *)

\* The tables of a number of slots.
Tables(c) == [1..c -> [index : Int, value : Int]]

\* What the operators need of the numbers they compute with.
Hashing == multiplier \in Int /\ HashRange \in Nat \ {0}

\* A number modulo a capacity that is not a literal: at most one capacity is taken off.
LEMMA Wrapped ==
  ASSUME NEW c \in Nat \ {0}, NEW a \in 0..(c - 1), NEW b \in 0..(c - 1)
  PROVE  (a + b) % c = IF a + b < c THEN a + b ELSE a + b - c
<1>1. CASE a + b < c
  BY <1>1, Z3
<1>2. CASE ~(a + b < c)
  BY <1>2, Z3
<1> QED BY <1>1, <1>2

\* A part of a range, scaled to another.
LEMMA Scaled ==
  ASSUME NEW r \in Nat \ {0}, NEW g \in 0..(r - 1), NEW c \in Nat \ {0}
  PROVE  (g * c) \div r \in 0..(c - 1)
<1> DEFINE n == g * c
           q == n \div r
<1>1. n \in Int /\ n >= 0 /\ n + c <= r * c /\ r * c \in Int
  OBVIOUS
<1> HIDE DEF n
<1>2. q \in Int /\ r * q <= n /\ n < r * q + r
  BY <1>1
<1> HIDE DEF q
<1>3. q >= 0
  BY <1>1, <1>2
<1>4. q < c
  BY <1>1, <1>2
<1> QED BY <1>2, <1>3, <1>4 DEF n, q

LEMMA HomeInside ==
  ASSUME Hashing, NEW c \in Nat \ {0}, NEW x \in Int
  PROVE  Keyed!Home(c, x) \in 0..(c - 1)
<1> DEFINE h == (x * multiplier) % HashRange
<1>1. x * multiplier \in Int
  BY DEF Hashing
<1>2. h \in 0..(HashRange - 1)
  BY <1>1 DEF Hashing
<1>3. Keyed!Home(c, x) = (h * c) \div HashRange
  BY DEF Keyed!Home
<1> HIDE DEF h
<1> QED BY <1>2, <1>3, Scaled DEF Hashing

LEMMA ProbeInside ==
  ASSUME Hashing, NEW c \in Nat \ {0}, NEW x \in Int, NEW k \in 0..(c - 1)
  PROVE  Keyed!Probe(c, x, k) \in 1..c
<1> DEFINE h == Keyed!Home(c, x)
<1>1. h \in 0..(c - 1)
  BY HomeInside
<1>2. Keyed!Probe(c, x, k) = ((h + k) % c) + 1
  BY DEF Keyed!Probe
<1> HIDE DEF h
<1>3. (h + k) % c = IF h + k < c THEN h + k ELSE h + k - c
  BY <1>1, Wrapped
<1> QED BY <1>1, <1>2, <1>3

\* Every slot is met on the way from the home of an index.
LEMMA ProbeReaches ==
  ASSUME Hashing, NEW c \in Nat \ {0}, NEW x \in Int, NEW s \in 1..c
  PROVE  \E k \in 0..(c - 1) : Keyed!Probe(c, x, k) = s
<1> DEFINE h == Keyed!Home(c, x)
           k == IF s - 1 >= h THEN s - 1 - h ELSE s - 1 - h + c
<1>1. h \in 0..(c - 1)
  BY HomeInside
<1>2. Keyed!Probe(c, x, k) = ((h + k) % c) + 1
  BY DEF Keyed!Probe
<1> HIDE DEF h
<1>3. k \in 0..(c - 1)
  BY <1>1
<1>4. (h + k) % c = IF h + k < c THEN h + k ELSE h + k - c
  BY <1>1, <1>3, Wrapped
<1>5. (h + k) % c = s - 1
  BY <1>1, <1>4
<1> QED BY <1>2, <1>3, <1>5

\* The k-th slot from the home of an index is where the search ends.
Ends(t, x, k) ==
  /\ k \in 0..(Len(t) - 1)
  /\ t[Keyed!Probe(Len(t), x, k)].index \in {x, Keyed!None}
  /\ \A j \in 0..(k - 1) : t[Keyed!Probe(Len(t), x, j)].index \notin {x, Keyed!None}

LEMMA SlotIs ==
  ASSUME NEW c \in Nat \ {0}, NEW t \in Tables(c), NEW x \in Int, NEW k, Ends(t, x, k)
  PROVE  Keyed!Slot(t, x) = Keyed!Probe(c, x, k)
<1> DEFINE Stops(j) == t[Keyed!Probe(c, x, j)].index \in {x, Keyed!None}
           First(j) == Stops(j) /\ \A i \in 0..(j - 1) : ~Stops(i)
           first == CHOOSE j \in 0..(c - 1) : First(j)
<1>1. Len(t) = c
  BY DEF Tables
<1>2. k \in 0..(c - 1) /\ First(k)
  BY <1>1 DEF Ends
<1>3. first \in 0..(c - 1) /\ First(first)
  <2> HIDE DEF First
  <2> QED BY <1>2
<1>4. Keyed!Slot(t, x) = Keyed!Probe(c, x, first)
  BY <1>1, Zenon DEF Keyed!Slot
<1>5. first = k
  <2> HIDE DEF Stops, first
  <2>1. ~(first < k) /\ ~(k < first)
    BY <1>2, <1>3
  <2> QED BY <2>1, <1>2, <1>3
<1> QED BY <1>4, <1>5

\* The search ends, when there is an empty slot or one with the index.
LEMMA SearchEnds ==
  ASSUME Hashing, NEW c \in Nat \ {0}, NEW t \in Tables(c), NEW x \in Int,
         NEW s \in 1..c, t[s].index \in {x, Keyed!None}
  PROVE  \E k : Ends(t, x, k)
<1> DEFINE Stops(j) == t[Keyed!Probe(c, x, j)].index \in {x, Keyed!None}
           T == {j \in 0..(c - 1) : Stops(j)}
<1>1. Len(t) = c
  BY DEF Tables
<1>2. T # {}
  BY ProbeReaches
<1>3. T \subseteq Nat
  OBVIOUS
<1>4. PICK k \in T : \A j \in T : k <= j
  <2> HIDE DEF T
  <2> QED BY <1>2, <1>3, Smallest
<1>5. \A j \in 0..(k - 1) : ~Stops(j)
  <2> HIDE DEF Stops
  <2> QED BY <1>4
<1> QED BY <1>1, <1>4, <1>5 DEF Ends

\* Every entry is where the search for its index ends.
WellPlaced(t) ==
  \A s \in 1..Len(t) : t[s].index # Keyed!None =>
    \E k : Ends(t, t[s].index, k) /\ Keyed!Probe(Len(t), t[s].index, k) = s

HasRoom(t) == \E s \in 1..Len(t) : t[s].index = Keyed!None
Has(t, x) == \E s \in 1..Len(t) : t[s].index = x
Filled(t) == {s \in 1..Len(t) : t[s].index # Keyed!None}

\* What a table says of an index: ValueAt, of any table.
Look(t, x) == IF t[Keyed!Slot(t, x)].index = x THEN t[Keyed!Slot(t, x)].value ELSE x

LEMMA Present ==
  ASSUME NEW c \in Nat \ {0}, NEW t \in Tables(c), WellPlaced(t),
         NEW s \in 1..c, t[s].index # Keyed!None
  PROVE  Keyed!Slot(t, t[s].index) = s
<1>1. Len(t) = c
  BY DEF Tables
<1>2. PICK k : Ends(t, t[s].index, k) /\ Keyed!Probe(c, t[s].index, k) = s
  BY <1>1 DEF WellPlaced
<1>3. t[s].index \in Int
  BY DEF Tables
<1> QED BY <1>2, <1>3, SlotIs

\* The slot of any index, in a table with an empty slot.
LEMMA Found ==
  ASSUME Hashing, NEW c \in Nat \ {0}, NEW t \in Tables(c), HasRoom(t), NEW x \in Int
  PROVE  \E k \in 0..(c - 1) :
           /\ Ends(t, x, k) /\ Keyed!Slot(t, x) = Keyed!Probe(c, x, k)
           /\ Keyed!Slot(t, x) \in 1..c
           /\ t[Keyed!Slot(t, x)].index \in {x, Keyed!None}
<1>1. Len(t) = c
  BY DEF Tables
<1>2. PICK s \in 1..c : t[s].index = Keyed!None
  BY <1>1 DEF HasRoom
<1>3. PICK k : Ends(t, x, k)
  BY <1>2, SearchEnds
<1>4. k \in 0..(c - 1) /\ t[Keyed!Probe(c, x, k)].index \in {x, Keyed!None}
  BY <1>1, <1>3 DEF Ends
<1>5. Keyed!Slot(t, x) = Keyed!Probe(c, x, k)
  BY <1>3, SlotIs
<1>6. Keyed!Slot(t, x) \in 1..c
  BY <1>4, <1>5, ProbeInside
<1> QED BY <1>3, <1>4, <1>5, <1>6

\* What Put does to a table with an empty slot, whatever is in it.
LEMMA PutKeeps ==
  ASSUME Hashing, NEW c \in Nat \ {0}, NEW t \in Tables(c), WellPlaced(t), HasRoom(t),
         NEW x \in Int \ {Keyed!None}, NEW v \in Int
  PROVE  LET u == Keyed!Put(t, x, v) IN
         /\ u \in Tables(c) /\ WellPlaced(u)
         /\ Keyed!Slot(t, x) \in 1..c
         /\ u = [t EXCEPT ![Keyed!Slot(t, x)] = [index |-> x, value |-> v]]
         /\ Filled(u) = Filled(t) \cup {Keyed!Slot(t, x)}
         /\ Has(t, x) <=> Keyed!Slot(t, x) \in Filled(t)
         /\ \A y \in Int \ {Keyed!None} : Has(u, y) <=> (y = x \/ Has(t, y))
<1> DEFINE p == Keyed!Slot(t, x)
           u == Keyed!Put(t, x, v)
<1>1. PICK k \in 0..(c - 1) :
        /\ Ends(t, x, k) /\ p = Keyed!Probe(c, x, k)
        /\ p \in 1..c /\ t[p].index \in {x, Keyed!None}
  BY Found
<1>2. u = [t EXCEPT ![p] = [index |-> x, value |-> v]]
  BY DEF Keyed!Put
<1>3. Keyed!None = -1 /\ Len(t) = c
  BY DEF Keyed!None, Tables
<1>4. \A s \in 1..c, e \in Int \ {Keyed!None} : t[s].index = e => Keyed!Slot(t, e) = s
  BY Present
<1> HIDE DEF p, u
<1>5. /\ u \in Tables(c) /\ Len(u) = c /\ u[p].index = x
      /\ \A s \in 1..c : s # p => u[s] = t[s]
  BY <1>1, <1>2 DEF Tables
<1>6. ASSUME NEW s \in 1..c, u[s].index # Keyed!None
      PROVE  \E l : Ends(u, u[s].index, l) /\ Keyed!Probe(c, u[s].index, l) = s
  <2>1. CASE s = p
    <3>1. \A j \in 0..(k - 1) : u[Keyed!Probe(c, x, j)].index \notin {x, Keyed!None}
      <4> SUFFICES ASSUME NEW j \in 0..(k - 1)
                   PROVE  u[Keyed!Probe(c, x, j)].index \notin {x, Keyed!None}
        OBVIOUS
      <4>1. t[Keyed!Probe(c, x, j)].index \notin {x, Keyed!None}
        BY <1>1, <1>3 DEF Ends
      <4>2. Keyed!Probe(c, x, j) # p
        BY <4>1, <1>1
      <4>3. j \in 0..(c - 1)
        BY <1>1
      <4>4. Keyed!Probe(c, x, j) \in 1..c
        BY <4>3, ProbeInside
      <4> QED BY <4>1, <4>2, <4>4, <1>5
    <3>2. Ends(u, x, k)
      BY <1>1, <1>5, <3>1 DEF Ends
    <3> QED BY <2>1, <1>1, <1>5, <3>2
  <2>2. CASE s # p
    <3> DEFINE e == u[s].index
    <3>1. e = t[s].index /\ e \in Int \ {Keyed!None}
      BY <2>2, <1>5, <1>6 DEF Tables
    <3>2. e # x
      BY <3>1, <1>4, <2>2 DEF p
    <3>3. PICK l : Ends(t, e, l) /\ Keyed!Probe(c, e, l) = s
      BY <3>1, <1>3 DEF WellPlaced
    <3> HIDE DEF e
    <3>4. \A j \in 0..(l - 1) : u[Keyed!Probe(c, e, j)].index \notin {e, Keyed!None}
      <4> SUFFICES ASSUME NEW j \in 0..(l - 1)
                   PROVE  u[Keyed!Probe(c, e, j)].index \notin {e, Keyed!None}
        OBVIOUS
      <4>1. t[Keyed!Probe(c, e, j)].index \notin {e, Keyed!None} /\ l \in 0..(c - 1)
        BY <3>3, <1>3 DEF Ends
      <4>0. j \in 0..(c - 1) /\ e \in Int
        BY <4>1, <3>1
      <4>2. Keyed!Probe(c, e, j) \in 1..c
        BY <4>0, ProbeInside
      <4>3. CASE Keyed!Probe(c, e, j) = p
        BY <4>3, <1>5, <3>2
      <4>4. CASE Keyed!Probe(c, e, j) # p
        BY <4>1, <4>2, <4>4, <1>5
      <4> QED BY <4>3, <4>4
    <3>5. Ends(u, e, l)
      BY <3>1, <3>3, <3>4, <1>3, <1>5, <2>2 DEF Ends, e
    <3> QED BY <3>3, <3>5 DEF e
  <2> QED BY <2>1, <2>2
<1>7. WellPlaced(u)
  BY <1>5, <1>6 DEF WellPlaced
<1>8. Filled(u) = Filled(t) \cup {p}
  BY <1>1, <1>3, <1>5 DEF Filled
<1>9. Has(t, x) <=> p \in Filled(t)
  BY <1>1, <1>3, <1>4 DEF Has, Filled, p
<1>10. \A y \in Int \ {Keyed!None} : Has(u, y) <=> (y = x \/ Has(t, y))
  BY <1>1, <1>3, <1>5 DEF Has
<1> QED BY <1>1, <1>2, <1>5, <1>7, <1>8, <1>9, <1>10 DEF p, u

\* Of an index that has no entry a table says nothing.
LEMMA LookAbsent ==
  ASSUME Hashing, NEW c \in Nat \ {0}, NEW t \in Tables(c), HasRoom(t), NEW x \in Int, ~Has(t, x)
  PROVE  Look(t, x) = x
<1>1. Keyed!Slot(t, x) \in 1..c
  BY Found
<1>2. Len(t) = c
  BY DEF Tables
<1> QED BY <1>1, <1>2 DEF Look, Has

LEMMA LookPresent ==
  ASSUME NEW c \in Nat \ {0}, NEW t \in Tables(c), WellPlaced(t),
         NEW s \in 1..c, t[s].index # Keyed!None
  PROVE  Look(t, t[s].index) = t[s].value
BY Present DEF Look

\* Put changes what the table says of one index.
LEMMA PutLook ==
  ASSUME Hashing, NEW c \in Nat \ {0}, NEW t \in Tables(c), WellPlaced(t), HasRoom(t),
         NEW x \in Int \ {Keyed!None}, NEW v \in Int, HasRoom(Keyed!Put(t, x, v)),
         NEW y \in Int \ {Keyed!None}
  PROVE  Look(Keyed!Put(t, x, v), y) = IF y = x THEN v ELSE Look(t, y)
<1> DEFINE p == Keyed!Slot(t, x)
           u == Keyed!Put(t, x, v)
<1>1. /\ u \in Tables(c) /\ WellPlaced(u) /\ p \in 1..c
      /\ u = [t EXCEPT ![p] = [index |-> x, value |-> v]]
      /\ Has(u, y) <=> (y = x \/ Has(t, y))
  BY PutKeeps
<1>2. /\ Len(t) = c /\ Len(u) = c /\ u[p] = [index |-> x, value |-> v]
      /\ \A s \in 1..c : s # p => u[s] = t[s]
  <2> HIDE DEF p, u
  <2> QED BY <1>1 DEF Tables
<1>3. HasRoom(u)
  OBVIOUS
<1> HIDE DEF p, u
<1>4. CASE y = x
  <2>0. u[p].index # Keyed!None
    BY <1>2
  <2>1. Look(u, u[p].index) = u[p].value
    BY <2>0, <1>1, LookPresent
  <2> QED BY <2>1, <1>2, <1>4 DEF u
<1>5. CASE y # x /\ Has(t, y)
  <2>1. PICK s \in 1..c : t[s].index = y
    BY <1>2, <1>5 DEF Has
  <2>2. Look(t, y) = t[s].value
    BY <2>1, LookPresent
  <2>3. s # p
    <3>1. PICK k \in 0..(c - 1) : t[Keyed!Slot(t, x)].index \in {x, Keyed!None}
      BY Found
    <3> QED BY <3>1, <2>1, <1>5 DEF p
  <2>0. u[s].index = y /\ u[s].index # Keyed!None
    BY <2>1, <2>3, <1>2
  <2>4. Look(u, y) = u[s].value
    BY <2>0, <1>1, LookPresent
  <2> QED BY <2>2, <2>3, <2>4, <1>2, <1>5 DEF u
<1>6. CASE y # x /\ ~Has(t, y)
  <2>1. Look(t, y) = y
    BY <1>6, LookAbsent
  <2>2. Look(u, y) = y
    BY <1>1, <1>3, <1>6, LookAbsent
  <2> QED BY <2>1, <2>2, <1>6 DEF u
<1> QED BY <1>4, <1>5, <1>6

\* A table that is not full has an empty slot.
LEMMA Room ==
  ASSUME NEW c \in Nat \ {0}, NEW t \in Tables(c), Cardinality(Filled(t)) < c
  PROVE  HasRoom(t)
<1>1. Len(t) = c
  BY DEF Tables
<1>2. Cardinality(1..c) = c
  BY FS_Interval
<1>3. Filled(t) # 1..c
  BY <1>2
<1> QED BY <1>1, <1>3 DEF Filled, HasRoom

LEMMA FilledFinite ==
  ASSUME NEW c \in Nat \ {0}, NEW t \in Tables(c)
  PROVE  /\ IsFiniteSet(Filled(t)) /\ Cardinality(Filled(t)) \in 0..c
         /\ Filled(t) \subseteq 1..c
<1>1. Len(t) = c
  BY DEF Tables
<1>2. IsFiniteSet(1..c) /\ Cardinality(1..c) = c
  BY FS_Interval
<1>3. Filled(t) \in SUBSET (1..c)
  BY <1>1 DEF Filled
<1>4. IsFiniteSet(Filled(t)) /\ Cardinality(Filled(t)) <= c
  BY <1>2, <1>3, FS_Subset
<1>5. Cardinality(Filled(t)) \in Nat
  BY <1>4, FS_CardinalityType
<1> QED BY <1>3, <1>4, <1>5

-----------------------------------------------------------------------------
(* The larger table.                                                       *)

TableOK ==
  \/ table = <<>> /\ used = 0
  \/ /\ Len(table) \in Nat \ {0, 1} /\ table \in Tables(Len(table)) /\ WellPlaced(table)
     /\ Cardinality(Filled(table)) = used /\ 2 * used <= Len(table)

Capacity == IF table = <<>> THEN FirstCapacity ELSE 2 * Len(table)
Blank == [s \in 1..Capacity |-> [index |-> Keyed!None, value |-> 0]]
Added(t, k) ==
  IF table[k].index = Keyed!None THEN t ELSE Keyed!Put(t, table[k].index, table[k].value)

\* The tables on the way, the first n entries put into the larger one.
Filling(g, n) == g = [k \in 0..n |-> IF k = 0 THEN Blank ELSE Added(g[k - 1], k)]

LEMMA FillingGoesOn ==
  ASSUME NEW n \in Nat, NEW g, Filling(g, n)
  PROVE  \E h : Filling(h, n + 1)
<1> DEFINE h == [k \in 0..(n + 1) |-> IF k = n + 1 THEN Added(g[n], n + 1) ELSE g[k]]
           r == [k \in 0..(n + 1) |-> IF k = 0 THEN Blank ELSE Added(h[k - 1], k)]
<1>1. \A k \in 0..n : g[k] = IF k = 0 THEN Blank ELSE Added(g[k - 1], k)
  BY Zenon DEF Filling
<1>2. ASSUME NEW k \in 0..(n + 1)
      PROVE  h[k] = r[k]
  <2>1. CASE k = 0
    <3>1. h[k] = g[0] /\ r[k] = Blank /\ 0 \in 0..n
      BY <2>1
    <3> QED BY <3>1, <1>1
  <2>2. CASE k \in 1..n
    <3>1. k \in 0..n /\ k - 1 \in 0..n /\ k # 0 /\ k # n + 1 /\ k - 1 # n + 1 /\ k - 1 \in 0..(n + 1)
      BY <2>2
    <3>2. h[k] = g[k] /\ h[k - 1] = g[k - 1]
      BY <3>1
    <3>3. r[k] = Added(g[k - 1], k)
      BY <3>1, <3>2
    <3> QED BY <3>1, <3>2, <3>3, <1>1
  <2>3. CASE k = n + 1
    <3>1. k - 1 = n /\ k # 0 /\ n \in 0..(n + 1) /\ n # n + 1
      BY <2>3
    <3>2. h[k] = Added(g[n], n + 1) /\ h[n] = g[n]
      BY <2>3, <3>1
    <3>3. r[k] = Added(h[k - 1], k)
      BY <3>1
    <3> QED BY <2>3, <3>1, <3>2, <3>3
  <2> QED BY <2>1, <2>2, <2>3
<1>3. h = r
  <2>1. h = [k \in 0..(n + 1) |-> h[k]] /\ r = [k \in 0..(n + 1) |-> r[k]]
    OBVIOUS
  <2> HIDE DEF h, r
  <2>2. [k \in 0..(n + 1) |-> h[k]] = [k \in 0..(n + 1) |-> r[k]]
    BY <1>2
  <2> QED BY <2>1, <2>2
<1>4. Filling(h, n + 1)
  <2> HIDE DEF h
  <2> QED BY <1>3 DEF Filling
<1> QED BY <1>4

LEMMA FillingIs ==
  ASSUME Len(table) \in Nat
  PROVE  \E g : Filling(g, Len(table)) /\ Keyed!Grown = g[Len(table)]
<1> DEFINE S == {n \in Nat : \E g : Filling(g, n)}
           all == CHOOSE g : Filling(g, Len(table))
<1>1. 0 \in S
  <2> DEFINE g == [k \in 0..0 |-> Blank]
  <2>1. g = [k \in 0..0 |-> IF k = 0 THEN Blank ELSE Added(g[k - 1], k)]
    OBVIOUS
  <2> HIDE DEF g
  <2>2. Filling(g, 0)
    BY <2>1 DEF Filling
  <2> QED BY <2>2
<1>2. \A k \in 0..(Len(table) - 1) : k \in S => k + 1 \in S
  BY FillingGoesOn
<1>3. 0..Len(table) \subseteq S
  <2> HIDE DEF S
  <2> QED BY <1>1, <1>2, Induction
<1>4. Filling(all, Len(table))
  <2>1. Len(table) \in S
    BY <1>3
  <2> HIDE DEF Filling
  <2> QED BY <2>1
<1>5. Keyed!Grown = all[Len(table)]
  BY Zenon DEF Keyed!Grown, Filling, Added, Blank, Capacity
<1> HIDE DEF all
<1> QED BY <1>4, <1>5

\* What is true of the larger table when the first k slots are in it.
Taken(t, k) ==
  /\ t \in Tables(Capacity) /\ WellPlaced(t)
  /\ Cardinality(Filled(t)) = Cardinality(Filled(table) \cap (1..k))
  /\ \A y \in Int \ {Keyed!None} : Has(t, y) <=> \E s \in 1..k : table[s].index = y
  /\ \A s \in 1..k : table[s].index # Keyed!None => Look(t, table[s].index) = table[s].value

Numbers == Hashing /\ FirstCapacity \in Nat \ {0, 1}

LEMMA CapacityFits ==
  ASSUME Numbers, TableOK
  PROVE  /\ Len(table) \in Nat /\ Capacity \in Nat \ {0, 1}
         /\ used \in Nat /\ used <= Len(table) /\ 2 * (used + 1) <= Capacity
<1>1. CASE table = <<>> /\ used = 0
  <2>1. Len(table) = 0
    BY <1>1
  <2> QED BY <2>1, <1>1 DEF Numbers, Capacity
<1>2. CASE /\ Len(table) \in Nat \ {0, 1} /\ table \in Tables(Len(table))
           /\ Cardinality(Filled(table)) = used /\ 2 * used <= Len(table)
  <2>1. table # <<>>
    BY <1>2
  <2>2. used \in Nat
    BY <1>2, FilledFinite
  <2>3. Capacity = 2 * Len(table)
    BY <2>1 DEF Capacity
  <2> QED BY <1>2, <2>2, <2>3
<1> QED BY <1>1, <1>2 DEF TableOK

LEMMA TakenNone ==
  ASSUME Numbers, TableOK
  PROVE  Taken(Blank, 0)
<1>0. Capacity \in Nat \ {0, 1}
  BY CapacityFits
<1>1. Blank \in Tables(Capacity) /\ Len(Blank) = Capacity
  BY <1>0 DEF Blank, Tables, Keyed!None
<1>2. \A s \in 1..Len(Blank) : Blank[s].index = Keyed!None
  BY <1>1 DEF Blank
<1>3. WellPlaced(Blank)
  BY <1>2 DEF WellPlaced
<1>4. Filled(Blank) = {} /\ Filled(table) \cap (1..0) = {}
  BY <1>2 DEF Filled
<1>5. \A y \in Int \ {Keyed!None} : ~Has(Blank, y)
  BY <1>2 DEF Has
<1> QED BY <1>1, <1>3, <1>4, <1>5 DEF Taken

LEMMA TakenNext ==
  ASSUME Numbers, TableOK, NEW t, NEW k \in 0..(Len(table) - 1), Taken(t, k)
  PROVE  Taken(Added(t, k + 1), k + 1)
<1> DEFINE c == Capacity
           x == table[k + 1].index
           v == table[k + 1].value
           u == Keyed!Put(t, x, v)
           n == Len(table)
<1>1. /\ n \in Nat \ {0, 1} /\ table \in Tables(n) /\ WellPlaced(table)
      /\ Cardinality(Filled(table)) = used /\ 2 * used <= n
  <2>1. table # <<>>
    <3>1. table = <<>> => Len(table) = 0
      OBVIOUS
    <3> QED BY <3>1
  <2> QED BY <2>1 DEF TableOK
<1>2. c \in Nat \ {0, 1} /\ used \in Nat /\ used + 1 < c
  BY CapacityFits
<1>3. k + 1 \in 1..n /\ k \in Nat /\ x \in Int /\ v \in Int
  BY <1>1 DEF Tables
<1>4. 1..(k + 1) = (1..k) \cup {k + 1}
  BY <1>3
<1>5. Hashing
  BY DEF Numbers
<1>6. CASE x = Keyed!None
  <2>1. Added(t, k + 1) = t
    BY <1>6 DEF Added
  <2>2. Filled(table) \cap (1..(k + 1)) = Filled(table) \cap (1..k)
    BY <1>4, <1>6 DEF Filled
  <2>3. \A y \in Int \ {Keyed!None} :
          (\E s \in 1..(k + 1) : table[s].index = y) <=> \E s \in 1..k : table[s].index = y
    BY <1>4, <1>6
  <2>4. \A s \in 1..(k + 1) : table[s].index # Keyed!None => s \in 1..k
    BY <1>4, <1>6
  <2> QED BY <2>1, <2>2, <2>3, <2>4 DEF Taken
<1>7. CASE x # Keyed!None
  <2> DEFINE F == Filled(table) \cap (1..k)
  <2>1. Added(t, k + 1) = u
    BY <1>7 DEF Added
  <2>2. /\ t \in Tables(c) /\ WellPlaced(t) /\ Cardinality(Filled(t)) = Cardinality(F)
        /\ \A y \in Int \ {Keyed!None} : Has(t, y) <=> \E s \in 1..k : table[s].index = y
        /\ \A s \in 1..k : table[s].index # Keyed!None => Look(t, table[s].index) = table[s].value
    BY DEF Taken
  <2>3. IsFiniteSet(Filled(table)) /\ IsFiniteSet(Filled(t))
    BY <1>1, <1>2, <2>2, FilledFinite
  <2>4. IsFiniteSet(F) /\ Cardinality(F) <= used
    <3>1. F \in SUBSET Filled(table)
      OBVIOUS
    <3> QED BY <3>1, <2>3, <1>1, FS_Subset
  <2>5. HasRoom(t)
    BY <2>2, <2>4, <1>2, Room, FS_CardinalityType
  <2>6. /\ u \in Tables(c) /\ WellPlaced(u)
        /\ Filled(u) = Filled(t) \cup {Keyed!Slot(t, x)}
        /\ Has(t, x) <=> Keyed!Slot(t, x) \in Filled(t)
        /\ \A y \in Int \ {Keyed!None} : Has(u, y) <=> (y = x \/ Has(t, y))
    BY <1>2, <1>3, <1>5, <1>7, <2>2, <2>5, PutKeeps
  <2>7. \A s \in 1..k : table[s].index # x
    <3> SUFFICES ASSUME NEW s \in 1..k, table[s].index = x
                 PROVE  FALSE
      OBVIOUS
    <3>1. s \in 1..n /\ s # k + 1
      BY <1>3
    <3>2. Keyed!Slot(table, table[s].index) = s
      BY <1>1, <1>7, <3>1, Present
    <3>3. Keyed!Slot(table, table[k + 1].index) = k + 1
      BY <1>1, <1>3, <1>7, Present
    <3> QED BY <3>1, <3>2, <3>3
  <2>8. ~Has(t, x)
    BY <1>3, <1>7, <2>2, <2>7
  <2>9. Cardinality(Filled(u)) = Cardinality(F) + 1
    BY ZenonT(40), <2>2, <2>3, <2>6, <2>8, FS_AddElement
  <2>10. Cardinality(Filled(table) \cap (1..(k + 1))) = Cardinality(F) + 1
    <3>1. Filled(table) \cap (1..(k + 1)) = F \cup {k + 1} /\ k + 1 \notin F
      BY <1>1, <1>3, <1>4, <1>7 DEF Filled
    <3> QED BY <3>1, <2>4, FS_AddElement
  <2>11. \A y \in Int \ {Keyed!None} :
           Has(u, y) <=> \E s \in 1..(k + 1) : table[s].index = y
    BY <1>4, <2>2, <2>6
  <2>12. HasRoom(u)
    <3>1. Cardinality(F) \in Nat
      BY <2>4, FS_CardinalityType
    <3>2. Cardinality(Filled(u)) < c
      BY <3>1, <2>4, <2>9, <1>2
    <3> QED BY <3>2, <2>6, <1>2, Room
  <2>13. ASSUME NEW s \in 1..(k + 1), table[s].index # Keyed!None
         PROVE  Look(u, table[s].index) = table[s].value
    <3> DEFINE y == table[s].index
    <3>1. y \in Int \ {Keyed!None}
      <4>1. s \in 1..n
        BY <1>3
      <4> QED BY <4>1, <1>1, <2>13 DEF Tables
    <3> HIDE DEF y
    <3>2. Look(u, y) = IF y = x THEN v ELSE Look(t, y)
      <4> HIDE DEF c, x, v
      <4> QED BY <3>1, <1>2, <1>3, <1>5, <1>7, <2>2, <2>5, <2>12, PutLook
    <3>3. CASE s = k + 1
      BY <3>2, <3>3 DEF y
    <3>4. CASE s \in 1..k
      <4>1. y # x /\ Look(t, y) = table[s].value
        BY <2>2, <2>7, <2>13, <3>4 DEF y
      <4> QED BY <4>1, <3>2 DEF y
    <3> QED BY <1>4, <3>3, <3>4
  <2> QED BY <2>1, <2>6, <2>9, <2>10, <2>11, <2>13 DEF Taken
<1> QED BY <1>6, <1>7

\* The larger table has the entries of the old one.
LEMMA GrownKeeps ==
  ASSUME Numbers, TableOK
  PROVE  /\ Keyed!Grown \in Tables(Capacity) /\ WellPlaced(Keyed!Grown)
         /\ Cardinality(Filled(Keyed!Grown)) = used
         /\ \A y \in Int \ {Keyed!None} : Look(Keyed!Grown, y) = Keyed!ValueAt(y)
<1> DEFINE n == Len(table)
<1>1. n \in Nat /\ Capacity \in Nat \ {0, 1} /\ used \in Nat /\ 2 * (used + 1) <= Capacity
  BY CapacityFits
<1>2. PICK g : Filling(g, n) /\ Keyed!Grown = g[n]
  BY <1>1, FillingIs
<1>3. \A k \in 0..n : g[k] = IF k = 0 THEN Blank ELSE Added(g[k - 1], k)
  BY <1>2, Zenon DEF Filling
<1> DEFINE S == {k \in 0..n : Taken(g[k], k)}
<1>4. 0 \in S
  BY <1>1, <1>3, TakenNone
<1>5. ASSUME NEW k \in 0..(n - 1), k \in S
      PROVE  k + 1 \in S
  <2>1. k + 1 \in 0..n /\ k + 1 # 0 /\ (k + 1) - 1 = k
    BY <1>1
  <2>2. g[k + 1] = Added(g[k], k + 1)
    BY <2>1, <1>3
  <2>3. Taken(g[k + 1], k + 1)
    BY <2>2, <1>5, TakenNext
  <2> QED BY <2>1, <2>3
<1>6. Taken(Keyed!Grown, n)
  <2>1. 0..n \subseteq S
    <3> HIDE DEF S
    <3> QED BY <1>1, <1>4, <1>5, Induction
  <2> QED BY <2>1, <1>1, <1>2
<1>7. Cardinality(Filled(Keyed!Grown)) = used
  <2>1. Filled(table) \cap (1..n) = Filled(table)
    BY DEF Filled
  <2>2. CASE table = <<>> /\ used = 0
    <3>1. Filled(table) = {}
      BY <2>2 DEF Filled
    <3> QED BY <3>1, <2>1, <2>2, <1>6, FS_EmptySet DEF Taken
  <2>3. CASE Cardinality(Filled(table)) = used
    BY <2>1, <2>3, <1>6 DEF Taken
  <2> QED BY <2>2, <2>3 DEF TableOK
<1>8. HasRoom(Keyed!Grown)
  BY <1>1, <1>6, <1>7, Room DEF Taken
<1>9. ASSUME NEW y \in Int \ {Keyed!None}
      PROVE  Look(Keyed!Grown, y) = Keyed!ValueAt(y)
  <2>1. ~Has(Keyed!Grown, y) => Look(Keyed!Grown, y) = y
    BY <1>1, <1>6, <1>8, LookAbsent DEF Taken, Numbers
  <2>2. CASE table = <<>>
    <3>1. ~Has(Keyed!Grown, y)
      BY <2>2, <1>6 DEF Taken
    <3> QED BY <3>1, <2>1, <2>2 DEF Keyed!ValueAt
  <2>3. CASE table # <<>>
    <3>1. /\ n \in Nat \ {0, 1} /\ table \in Tables(n) /\ WellPlaced(table)
          /\ Cardinality(Filled(table)) = used /\ 2 * used <= n
      BY <2>3 DEF TableOK
    <3>2. Keyed!ValueAt(y) = Look(table, y)
      BY <2>3 DEF Keyed!ValueAt, Look
    <3>3. CASE \E s \in 1..n : table[s].index = y
      <4>1. PICK s \in 1..n : table[s].index = y
        BY <3>3
      <4>2. Look(table, y) = table[s].value
        BY <4>1, <3>1, LookPresent
      <4> QED BY <4>1, <4>2, <3>2, <1>6 DEF Taken
    <3>4. CASE ~\E s \in 1..n : table[s].index = y
      <4>1. ~Has(table, y) /\ ~Has(Keyed!Grown, y)
        BY <3>4, <1>6 DEF Taken, Has
      <4>2. HasRoom(table)
        BY <3>1, <1>1, Room
      <4>3. Look(table, y) = y
        BY <4>1, <4>2, <3>1, LookAbsent DEF Numbers
      <4> QED BY <4>1, <4>3, <3>2, <2>1
    <3> QED BY <3>3, <3>4
  <2> QED BY <2>2, <2>3
<1> QED BY <1>6, <1>7, <1>9 DEF Taken

\* The hash function does not change: a search in a given table ends where it did.
LEMMA SameSearch ==
  ASSUME multiplier' = multiplier, NEW CONSTANT t
  PROVE  /\ WellPlaced(t)' <=> WellPlaced(t)
         /\ \A x \in Int : Look(t, x)' = Look(t, x)
<1>1. \A c, x, k : Keyed!Probe(c, x, k)' = Keyed!Probe(c, x, k)
  BY DEF Keyed!Probe, Keyed!Home
<1>2. \A x, k : Ends(t, x, k)' <=> Ends(t, x, k)
  BY <1>1 DEF Ends, Keyed!None
<1>3. WellPlaced(t)' <=> WellPlaced(t)
  BY <1>1, <1>2 DEF WellPlaced, Keyed!None
<1>4. ASSUME NEW x \in Int
      PROVE  Keyed!Slot(t, x)' = Keyed!Slot(t, x)
  BY DEF Keyed!Slot, Keyed!Probe, Keyed!Home, Keyed!None
<1>5. \A x \in Int : Look(t, x)' = Look(t, x)
  BY <1>4 DEF Look
<1> QED BY <1>3, <1>5

\* The table that an entry goes into: the old one or the larger one.
LEMMA RoomToStore ==
  ASSUME Numbers, TableOK
  PROVE  LET t == IF (used + 1) * 2 > Len(table) THEN Keyed!Grown ELSE table IN
         \E c \in Nat \ {0, 1} :
           /\ t \in Tables(c) /\ WellPlaced(t) /\ Cardinality(Filled(t)) = used
           /\ used \in Nat /\ 2 * (used + 1) <= c
           /\ \A y \in Int \ {Keyed!None} : Look(t, y) = Keyed!ValueAt(y)
<1>1. /\ Len(table) \in Nat /\ Capacity \in Nat \ {0, 1} /\ used \in Nat /\ 2 * (used + 1) <= Capacity
  BY CapacityFits
<1>2. CASE (used + 1) * 2 > Len(table)
  BY <1>1, <1>2, GrownKeeps
<1>3. CASE ~((used + 1) * 2 > Len(table))
  <2>1. table # <<>> /\ 2 * (used + 1) <= Len(table)
    BY <1>1, <1>3
  <2>2. /\ Len(table) \in Nat \ {0, 1} /\ table \in Tables(Len(table)) /\ WellPlaced(table)
        /\ Cardinality(Filled(table)) = used
    BY <2>1 DEF TableOK
  <2>3. \A y \in Int \ {Keyed!None} : Look(table, y) = Keyed!ValueAt(y)
    BY <2>1 DEF Look, Keyed!ValueAt
  <2> QED BY <1>1, <1>3, <2>1, <2>2, <2>3
<1> QED BY <1>2, <1>3

LEMMA StoreStep ==
  ASSUME Numbers, TableOK, multiplier' = multiplier,
         NEW CONSTANT x \in Int \ {Keyed!None}, NEW CONSTANT v \in Int, Keyed!Store(x, v)
  PROVE  /\ TableOK' /\ table' # <<>>
         /\ \A y \in Int \ {Keyed!None} :
              Keyed!ValueAt(y)' = IF y = x THEN v ELSE Keyed!ValueAt(y)
<1>1. PICK t : t = IF (used + 1) * 2 > Len(table) THEN Keyed!Grown ELSE table
  OBVIOUS
<1>2. /\ table' = Keyed!Put(t, x, v)
      /\ used' = IF t[Keyed!Slot(t, x)].index = x THEN used ELSE used + 1
  BY <1>1, Zenon DEF Keyed!Store
<1>3. PICK c \in Nat \ {0, 1} :
           /\ t \in Tables(c) /\ WellPlaced(t) /\ Cardinality(Filled(t)) = used
           /\ used \in Nat /\ 2 * (used + 1) <= c
           /\ \A y \in Int \ {Keyed!None} : Look(t, y) = Keyed!ValueAt(y)
  BY <1>1, RoomToStore
<1>4. PICK u : u = Keyed!Put(t, x, v)
  OBVIOUS
<1>5. Hashing
  BY DEF Numbers
<1>6. HasRoom(t)
  BY <1>3, Room
<1>7. /\ u \in Tables(c) /\ WellPlaced(u) /\ Keyed!Slot(t, x) \in 1..c
      /\ Filled(u) = Filled(t) \cup {Keyed!Slot(t, x)}
  BY <1>3, <1>4, <1>5, <1>6, PutKeeps
<1>8. Keyed!Slot(t, x) \in Filled(t) <=> t[Keyed!Slot(t, x)].index = x
  <2>1. PICK k \in 0..(c - 1) : t[Keyed!Slot(t, x)].index \in {x, Keyed!None}
    BY <1>3, <1>5, <1>6, Found
  <2>2. Len(t) = c
    BY <1>3 DEF Tables
  <2> QED BY <2>1, <2>2, <1>7 DEF Filled
<1>9. Cardinality(Filled(u)) = used'
  <2>1. IsFiniteSet(Filled(t))
    BY <1>3, FilledFinite
  <2> QED BY <2>1, <1>2, <1>3, <1>7, <1>8, FS_AddElement
<1>10. used' \in Nat /\ used' <= used + 1 /\ 2 * used' <= c
  BY <1>2, <1>3
<1>11. HasRoom(u)
  <2>1. Cardinality(Filled(u)) < c
    BY <1>3, <1>9, <1>10
  <2> QED BY <2>1, <1>3, <1>7, Room
<1>12. table' = u /\ Len(u) = c /\ u # <<>>
  <2>1. Len(u) = c
    BY <1>3, <1>7 DEF Tables
  <2> QED BY <2>1, <1>2, <1>3, <1>4
<1>13. TableOK'
  <2>1. WellPlaced(u)'
    BY <1>7, SameSearch
  <2>2. WellPlaced(table)' /\ Cardinality(Filled(table))' = used' /\ (table \in Tables(Len(table)))'
        /\ (Len(table) \in Nat \ {0, 1})' /\ (2 * used <= Len(table))'
    <3>1. WellPlaced(table)'
      BY <2>1, <1>12 DEF WellPlaced, Ends, Keyed!None
    <3>2. Filled(table)' = Filled(u)
      BY <1>12 DEF Filled, Keyed!None
    <3>3. (table \in Tables(Len(table)))'
      BY <1>7, <1>12 DEF Tables
    <3>4. Cardinality(Filled(table))' = Cardinality(Filled(u))
      BY <3>2
    <3>5. Len(table)' = c
      BY <1>12
    <3> QED BY <3>1, <3>3, <3>4, <3>5, <1>3, <1>9, <1>10
  <2> QED BY <2>2 DEF TableOK
<1>14. ASSUME NEW y \in Int \ {Keyed!None}
       PROVE  Keyed!ValueAt(y)' = IF y = x THEN v ELSE Keyed!ValueAt(y)
  <2>1. Look(u, y) = IF y = x THEN v ELSE Look(t, y)
    BY <1>3, <1>4, <1>5, <1>6, <1>11, PutLook
  <2>2. Look(u, y)' = Look(u, y)
    BY SameSearch
  <2>3. Keyed!ValueAt(y)' = Look(u, y)'
    BY <1>12 DEF Keyed!ValueAt, Look, Keyed!Slot, Keyed!None
  <2> QED BY <2>1, <2>2, <2>3, <1>3
<1> QED BY <1>12, <1>13, <1>14

-----------------------------------------------------------------------------
(* The shuffle.                                                            *)

\* What the places, the table and the numbers have to do with each other.
OrderInv ==
  /\ domain \in Domains /\ multiplier \in Multipliers
  /\ settled \in 0..(domain - 1)
  /\ goal = Keyed!None \/ goal \in 0..domain
  /\ places \in Seq(Int)
  /\ dense \in BOOLEAN
  /\ dense => table = <<>> /\ used = 0 /\ Len(places) = domain
  /\ ~dense => Len(places) = settled
  /\ TableOK
  /\ \A y \in Int \ {Keyed!None} : Keyed!ValueAt(y) \in Int

LEMMA OrderConstants ==
  ASSUME OrderInv
  PROVE  /\ Numbers /\ domain \in Nat \ {0}
         /\ Keyed!Order = [p \in 0..(domain - 1) |->
              IF p < Len(places) THEN places[p + 1] ELSE Keyed!ValueAt(p)]
<1>1. multiplier \in Int /\ domain \in Nat \ {0}
  BY CarriersAssumption DEF OrderInv
<1>2. HashRange \in Nat \ {0} /\ FirstCapacity \in Nat \ {0, 1}
  BY CarriersAssumption
<1> QED BY <1>1, <1>2 DEF Numbers, Hashing, Keyed!Order

LEMMA OrderStarts ==
  ASSUME Keyed!Init
  PROVE  OrderInv /\ Keyed!Shuffle!Init
<1>1. domain \in Domains /\ domain \in Nat \ {0}
  BY CarriersAssumption DEF Keyed!Init
<1>2. \A y : Keyed!ValueAt(y) = y
  BY DEF Keyed!Init, Keyed!ValueAt
<1>3. OrderInv
  <2>1. /\ multiplier \in Multipliers /\ places = <<>> /\ table = <<>> /\ used = 0
        /\ settled = 0 /\ goal = Keyed!None /\ dense = FALSE
    BY DEF Keyed!Init
  <2>2. places \in Seq(Int) /\ Len(places) = 0 /\ settled \in 0..(domain - 1)
    BY <2>1, <1>1
  <2>3. \A y \in Int \ {Keyed!None} : Keyed!ValueAt(y) \in Int
    BY <1>2
  <2> QED BY <2>1, <2>2, <2>3, <1>1 DEF OrderInv, TableOK
<1>4. Keyed!Order = [p \in 0..(domain - 1) |-> p]
  <2>1. Len(places) = 0
    BY DEF Keyed!Init
  <2>2. \A p \in 0..(domain - 1) :
          (IF p < Len(places) THEN places[p + 1] ELSE Keyed!ValueAt(p)) = p
    BY <2>1, <1>1, <1>2
  <2> QED BY <2>2, <1>1 DEF Keyed!Order
<1> QED BY <1>1, <1>3, <1>4 DEF Keyed!Init, Keyed!Shuffle!Init, Keyed!Shuffle!Ordered

\* A step that does not draw leaves the order alone.
OrderStays == Keyed!Order' = Keyed!Order /\ settled' = settled

LEMMA TableRests ==
  ASSUME TableOK, UNCHANGED <<multiplier, table, used>>
  PROVE  TableOK' /\ \A y \in Int : Keyed!ValueAt(y)' = Keyed!ValueAt(y)
<1>1. PICK t : t = table
  OBVIOUS
<1>2. table' = t /\ used' = used
  BY <1>1
<1>3. WellPlaced(table)' <=> WellPlaced(t)
  <2>1. WellPlaced(table)' <=> WellPlaced(t)'
    BY <1>2 DEF WellPlaced, Ends, Keyed!None
  <2> QED BY <2>1, SameSearch
<1>4. Filled(table)' = Filled(table)
  BY <1>1, <1>2 DEF Filled, Keyed!None
<1>5. TableOK'
  <2>1. CASE table = <<>> /\ used = 0
    BY <2>1, <1>1, <1>2 DEF TableOK
  <2>2. CASE /\ Len(table) \in Nat \ {0, 1} /\ table \in Tables(Len(table)) /\ WellPlaced(table)
             /\ Cardinality(Filled(table)) = used /\ 2 * used <= Len(table)
    <3>1. (table \in Tables(Len(table)))'
      BY <2>2, <1>1, <1>2 DEF Tables
    <3>2. WellPlaced(table)'
      BY <2>2, <1>1, <1>3
    <3>3. Cardinality(Filled(table))' = used'
      BY <2>2, <1>2, <1>4
    <3>4. Len(table') = Len(table)
      BY <1>1, <1>2
    <3> QED BY <2>2, <3>1, <3>2, <3>3, <3>4, <1>2 DEF TableOK
  <2> QED BY <2>1, <2>2 DEF TableOK
<1>6. ASSUME NEW y \in Int
      PROVE  Keyed!ValueAt(y)' = Keyed!ValueAt(y)
  <2>1. Look(t, y)' = Look(t, y)
    BY SameSearch
  <2>2. CASE t = <<>>
    BY <2>2, <1>1, <1>2 DEF Keyed!ValueAt
  <2>3. CASE t # <<>>
    <3>1. Keyed!ValueAt(y)' = Look(t, y)'
      BY <2>3, <1>2 DEF Keyed!ValueAt, Look, Keyed!Slot, Keyed!None
    <3>2. Keyed!ValueAt(y) = Look(t, y)
      BY <2>3, <1>1 DEF Keyed!ValueAt, Look, Keyed!Slot, Keyed!None
    <3> QED BY <3>1, <3>2, <2>1
  <2> QED BY <2>2, <2>3
<1> QED BY <1>5, <1>6

LEMMA ValueIn ==
  ASSUME OrderInv, NEW p \in Nat
  PROVE  Keyed!ValueAt(p) \in Int
BY DEF OrderInv, Keyed!None

LEMMA ExtendStep ==
  ASSUME OrderInv, NEW count \in Counts, Keyed!Extend(count)
  PROVE  OrderInv' /\ OrderStays
<1>1. /\ domain' = domain /\ multiplier' = multiplier /\ settled' = settled
      /\ goal' = Keyed!Lower(count, domain)
      /\ \/ /\ ~dense /\ places' = Keyed!Materialised /\ table' = <<>> /\ used' = 0 /\ dense' = TRUE
         \/ UNCHANGED <<places, table, used, dense>>
  BY DEF Keyed!Extend
<1>2. domain \in Nat \ {0} /\ settled \in 0..(domain - 1)
  BY OrderConstants DEF OrderInv
<1>3. goal' \in 0..domain
  <2>1. count \in Nat
    BY CarriersAssumption
  <2> QED BY <2>1, <1>1, <1>2 DEF Keyed!Lower
<1>4. CASE ~dense /\ places' = Keyed!Materialised /\ table' = <<>> /\ used' = 0 /\ dense' = TRUE
  <2>1. /\ Len(places) = settled /\ places \in Seq(Int)
    BY <1>4 DEF OrderInv
  <2>2. \A p \in 1..domain : Keyed!Materialised[p] =
          (IF p - 1 < Len(places) THEN places[(p - 1) + 1] ELSE Keyed!ValueAt(p - 1))
    BY <2>1, <1>2 DEF Keyed!Materialised
  <2>3. ASSUME NEW p \in 1..domain
        PROVE  Keyed!Materialised[p] \in Int
    <3>1. CASE p - 1 < Len(places)
      BY <3>1, <2>1, <2>2, <1>2
    <3>2. CASE ~(p - 1 < Len(places))
      <4>1. p - 1 \in Nat
        OBVIOUS
      <4> QED BY <4>1, <3>2, <2>2, ValueIn
    <3> QED BY <3>1, <3>2
  <2>4. places' \in [1..domain -> Int] /\ Len(places') = domain /\ places' \in Seq(Int)
    <3>1. places' = [p \in 1..domain |-> places'[p]]
      BY <1>4 DEF Keyed!Materialised
    <3>2. places' \in [1..domain -> Int]
      BY <3>1, <2>3, <1>4
    <3> QED BY <3>2, <1>2
  <2>5. \A y : Keyed!ValueAt(y)' = y
    BY <1>4 DEF Keyed!ValueAt
  <2>6. OrderInv'
    <3>1. domain' \in Domains /\ multiplier' \in Multipliers
      BY <1>1 DEF OrderInv
    <3>2. TableOK'
      BY <1>4 DEF TableOK
    <3>3. \A y \in Int \ {Keyed!None} : Keyed!ValueAt(y)' \in Int
      BY <2>5
    <3> QED BY <3>1, <3>2, <3>3, <1>1, <1>2, <1>3, <1>4, <2>4 DEF OrderInv, Keyed!None
  <2>7. Keyed!Order' = Keyed!Order
    <3>1. Keyed!Order' = [p \in 0..(domain - 1) |-> places'[p + 1]]
      <4>1. \A p \in 0..(domain - 1) : p < Len(places')
        BY <2>4
      <4>2. Keyed!Order' = [p \in 0..(domain - 1) |->
              IF p < Len(places') THEN places'[p + 1] ELSE Keyed!ValueAt(p)']
        BY <1>1 DEF Keyed!Order
      <4> QED BY <4>1, <4>2
    <3>2. \A p \in 0..(domain - 1) : places'[p + 1] =
            IF p < Len(places) THEN places[p + 1] ELSE Keyed!ValueAt(p)
      <4> SUFFICES ASSUME NEW p \in 0..(domain - 1)
                   PROVE  places'[p + 1] = IF p < Len(places) THEN places[p + 1] ELSE Keyed!ValueAt(p)
        OBVIOUS
      <4>1. p + 1 \in 1..domain /\ (p + 1) - 1 = p
        BY <1>2
      <4> QED BY <4>1, <2>2, <1>4
    <3>3. Keyed!Order = [p \in 0..(domain - 1) |->
            IF p < Len(places) THEN places[p + 1] ELSE Keyed!ValueAt(p)]
      BY OrderConstants
    <3> QED BY <3>1, <3>2, <3>3
  <2> QED BY <2>6, <2>7, <1>1 DEF OrderStays
<1>5. CASE UNCHANGED <<places, table, used, dense>>
  <2>1. TableOK' /\ \A y \in Int : Keyed!ValueAt(y)' = Keyed!ValueAt(y)
    BY <1>1, <1>5, TableRests DEF OrderInv
  <2>2. OrderInv'
    <3>1. \A y \in Int \ {Keyed!None} : Keyed!ValueAt(y)' \in Int
      BY <2>1 DEF OrderInv
    <3> QED BY <3>1, <2>1, <1>1, <1>3, <1>5 DEF OrderInv, Keyed!None
  <2>3. Keyed!Order' = Keyed!Order
    BY <2>1, <1>1, <1>5 DEF Keyed!Order
  <2> QED BY <2>2, <2>3, <1>1 DEF OrderStays
<1> QED BY <1>1, <1>4, <1>5

LEMMA RestStep ==
  ASSUME OrderInv, UNCHANGED <<domain, multiplier, places, table, used, settled, dense>>,
         goal' = goal \/ goal' = Keyed!None
  PROVE  OrderInv' /\ OrderStays
<1>1. TableOK' /\ \A y \in Int : Keyed!ValueAt(y)' = Keyed!ValueAt(y)
  BY TableRests DEF OrderInv
<1>2. OrderInv'
  <2>1. \A y \in Int \ {Keyed!None} : Keyed!ValueAt(y)' \in Int
    BY <1>1 DEF OrderInv
  <2> QED BY <2>1, <1>1 DEF OrderInv, Keyed!None
<1>3. Keyed!Order' = Keyed!Order
  BY <1>1 DEF Keyed!Order
<1> QED BY <1>2, <1>3 DEF OrderStays

\* What a draw has of its place and of the other one.
LEMMA SwapBegins ==
  ASSUME OrderInv, goal # Keyed!None, settled < Keyed!Swaps, NEW other \in settled..(domain - 1)
  PROVE  /\ domain \in Nat \ {0} /\ settled \in 0..(domain - 1) /\ settled + 1 \in 0..(domain - 1)
         /\ other \in 0..(domain - 1)
         /\ DOMAIN Keyed!Order = 0..(domain - 1)
<1>1. domain \in Nat \ {0} /\ settled \in 0..(domain - 1) /\ goal \in 0..domain
  BY OrderConstants DEF OrderInv
<1>2. settled < domain - 1
  BY <1>1 DEF Keyed!Swaps, Keyed!Lower
<1> QED BY <1>1, <1>2, OrderConstants

LEMMA SwapDenseStep ==
  ASSUME OrderInv, NEW other \in settled..(domain - 1), Keyed!SwapDense(other)
  PROVE  OrderInv' /\ Keyed!Shuffle!Draw
<1>1. /\ goal # Keyed!None /\ settled < Keyed!Swaps /\ dense
      /\ places' = [places EXCEPT ![settled + 1] = places[other + 1], ![other + 1] = places[settled + 1]]
      /\ settled' = settled + 1
      /\ UNCHANGED <<domain, multiplier, table, used, dense, goal>>
  BY DEF Keyed!SwapDense
<1>2. /\ domain \in Nat \ {0} /\ settled \in 0..(domain - 1) /\ settled + 1 \in 0..(domain - 1)
      /\ other \in 0..(domain - 1) /\ DOMAIN Keyed!Order = 0..(domain - 1)
  BY <1>1, SwapBegins
<1>3. places \in Seq(Int) /\ Len(places) = domain
  BY <1>1 DEF OrderInv
<1>4. /\ places' \in Seq(Int) /\ Len(places') = domain
      /\ \A p \in 1..domain : places'[p] = IF p = other + 1 THEN places[settled + 1]
                                      ELSE IF p = settled + 1 THEN places[other + 1] ELSE places[p]
  BY <1>1, <1>2, <1>3
<1>5. TableOK' /\ \A y \in Int : Keyed!ValueAt(y)' = Keyed!ValueAt(y)
  BY <1>1, TableRests DEF OrderInv
<1>6. OrderInv'
  <2>1. \A y \in Int \ {Keyed!None} : Keyed!ValueAt(y)' \in Int
    BY <1>5 DEF OrderInv
  <2> QED BY <2>1, <1>1, <1>2, <1>4, <1>5 DEF OrderInv, Keyed!None
<1>7. Keyed!Order = [p \in 0..(domain - 1) |-> places[p + 1]]
  <2>1. \A p \in 0..(domain - 1) : p < Len(places)
    BY <1>2, <1>3
  <2> QED BY <2>1, OrderConstants
<1>8. Keyed!Order' = [p \in 0..(domain - 1) |-> places'[p + 1]]
  <2>1. \A p \in 0..(domain - 1) : p < Len(places')
    BY <1>2, <1>4
  <2>2. Keyed!Order' = [p \in 0..(domain - 1) |->
          IF p < Len(places') THEN places'[p + 1] ELSE Keyed!ValueAt(p)']
    BY <1>1 DEF Keyed!Order
  <2> QED BY <2>1, <2>2
<1>9. Keyed!Order' = Keyed!Shuffle!Swapped(Keyed!Order, settled, other)
  <2>1. ASSUME NEW p \in 0..(domain - 1)
        PROVE  places'[p + 1] =
                 IF p = other THEN places[settled + 1] ELSE IF p = settled THEN places[other + 1] ELSE places[p + 1]
    <3>1. PICK q : q = p + 1
      OBVIOUS
    <3>2. q \in 1..domain /\ (q = other + 1 <=> p = other) /\ (q = settled + 1 <=> p = settled)
      BY <1>2, <3>1
    <3>3. places'[q] = IF q = other + 1 THEN places[settled + 1]
                       ELSE IF q = settled + 1 THEN places[other + 1] ELSE places[q]
      BY <1>4, <3>2
    <3> QED BY <3>1, <3>2, <3>3
  <2> DEFINE f == [p \in 0..(domain - 1) |-> places[p + 1]]
  <2>2. [p \in 0..(domain - 1) |-> places'[p + 1]] = [f EXCEPT ![settled] = f[other], ![other] = f[settled]]
    BY <2>1, <1>2
  <2> QED BY <2>2, <1>7, <1>8 DEF Keyed!Shuffle!Swapped
<1> QED BY <1>1, <1>2, <1>6, <1>9 DEF Keyed!Shuffle!Draw

LEMMA SwapSparseStep ==
  ASSUME OrderInv, NEW other \in settled..(domain - 1), Keyed!SwapSparse(other)
  PROVE  OrderInv' /\ Keyed!Shuffle!Draw
<1>1. /\ goal # Keyed!None /\ settled < Keyed!Swaps /\ ~dense
      /\ places' = Append(places, Keyed!ValueAt(other))
      /\ IF other # settled THEN Keyed!Store(other, Keyed!ValueAt(settled)) ELSE UNCHANGED <<table, used>>
      /\ settled' = settled + 1
      /\ UNCHANGED <<domain, multiplier, dense, goal>>
  BY DEF Keyed!SwapSparse
<1>2. /\ domain \in Nat \ {0} /\ settled \in 0..(domain - 1) /\ settled + 1 \in 0..(domain - 1)
      /\ other \in 0..(domain - 1) /\ DOMAIN Keyed!Order = 0..(domain - 1)
  BY <1>1, SwapBegins
<1>3. places \in Seq(Int) /\ Len(places) = settled /\ TableOK
  BY <1>1 DEF OrderInv
<1>4. PICK v \in Int, w \in Int : v = Keyed!ValueAt(settled) /\ w = Keyed!ValueAt(other)
  BY <1>2, ValueIn
<1>5. /\ places' \in Seq(Int) /\ Len(places') = settled + 1 /\ places'[settled + 1] = w
      /\ \A p \in 1..settled : places'[p] = places[p]
  BY <1>1, <1>2, <1>3, <1>4
<1>6. /\ TableOK'
      /\ \A y \in Int \ {Keyed!None} : Keyed!ValueAt(y)' = IF y = other THEN v ELSE Keyed!ValueAt(y)
  <2>1. CASE other = settled
    <3>1. TableOK' /\ \A y \in Int : Keyed!ValueAt(y)' = Keyed!ValueAt(y)
      BY <1>1, <1>3, <2>1, TableRests
    <3> QED BY <3>1, <2>1, <1>4
  <2>2. CASE other # settled
    <3>1. Keyed!Store(other, v)
      BY <2>2, <1>1, <1>4
    <3>2. other \in Int \ {Keyed!None}
      BY <1>2 DEF Keyed!None
    <3>3. multiplier' = multiplier /\ Numbers
      BY <1>1, OrderConstants
    <3> QED BY <3>1, <3>2, <3>3, <1>3, StoreStep
  <2> QED BY <2>1, <2>2
<1>7. OrderInv'
  <2>1. \A y \in Int \ {Keyed!None} : Keyed!ValueAt(y)' \in Int
    BY <1>6 DEF OrderInv
  <2> QED BY <2>1, <1>1, <1>2, <1>5, <1>6 DEF OrderInv, Keyed!None
<1>8. Keyed!Order = [p \in 0..(domain - 1) |-> IF p < settled THEN places[p + 1] ELSE Keyed!ValueAt(p)]
  BY <1>3, OrderConstants
<1>9. Keyed!Order' = [p \in 0..(domain - 1) |->
        IF p < settled + 1 THEN places'[p + 1] ELSE Keyed!ValueAt(p)']
  BY <1>1, <1>5 DEF Keyed!Order
<1>10. Keyed!Order' = Keyed!Shuffle!Swapped(Keyed!Order, settled, other)
  <2> DEFINE f == [p \in 0..(domain - 1) |-> IF p < settled THEN places[p + 1] ELSE Keyed!ValueAt(p)]
             h == [p \in 0..(domain - 1) |-> IF p < settled + 1 THEN places'[p + 1] ELSE Keyed!ValueAt(p)']
  <2>1. f[settled] = v /\ f[other] = w
    BY <1>2, <1>4
  <2>2. ASSUME NEW p \in 0..(domain - 1)
        PROVE  h[p] = IF p = other THEN v ELSE IF p = settled THEN w ELSE f[p]
    <3>1. h[p] = IF p < settled + 1 THEN places'[p + 1] ELSE Keyed!ValueAt(p)'
      OBVIOUS
    <3>2. f[p] = IF p < settled THEN places[p + 1] ELSE Keyed!ValueAt(p)
      OBVIOUS
    <3> HIDE DEF h, f
    <3>3. CASE p < settled
      <4>1. p + 1 \in 1..settled /\ p # other /\ p # settled /\ p < settled + 1
        BY <3>3, <1>2
      <4> QED BY <4>1, <3>1, <3>2, <3>3, <1>5
    <3>4. CASE p = settled
      <4>1. h[p] = w
        BY <3>1, <3>4, <1>2, <1>5
      <4>2. other = settled => w = v
        BY <1>4
      <4> QED BY <4>1, <4>2, <3>4
    <3>5. CASE p > settled
      <4>1. p \in Int \ {Keyed!None} /\ ~(p < settled + 1) /\ ~(p < settled) /\ p # settled
        BY <3>5, <1>2 DEF Keyed!None
      <4> QED BY <4>1, <3>1, <3>2, <1>6
    <3> QED BY <3>3, <3>4, <3>5, <1>2
  <2>3. h = [f EXCEPT ![settled] = f[other], ![other] = f[settled]]
    <3>1. h = [p \in 0..(domain - 1) |-> h[p]]
      OBVIOUS
    <3>2. f = [p \in 0..(domain - 1) |-> f[p]]
      OBVIOUS
    <3> HIDE DEF h, f
    <3>3. DOMAIN f = 0..(domain - 1)
      BY <3>2
    <3>4. [f EXCEPT ![settled] = f[other], ![other] = f[settled]]
            = [p \in 0..(domain - 1) |-> IF p = other THEN v ELSE IF p = settled THEN w ELSE f[p]]
      BY <2>1, <3>2, <3>3, <1>2
    <3> QED BY <3>1, <3>4, <2>2
  <2> HIDE DEF h, f
  <2>4. Keyed!Order' = h /\ Keyed!Order = f
    BY <1>8, <1>9 DEF h, f
  <2> QED BY <2>3, <2>4 DEF Keyed!Shuffle!Swapped
<1> QED BY <1>1, <1>2, <1>7, <1>10 DEF Keyed!Shuffle!Draw

LEMMA OrderStep ==
  ASSUME OrderInv, Keyed!Next
  PROVE  OrderInv' /\ (Keyed!Shuffle!Draw \/ OrderStays)
<1>1. CASE \E count \in Counts : Keyed!Extend(count)
  BY <1>1, ExtendStep
<1>2. CASE \E other \in settled..(domain - 1) : Keyed!SwapDense(other)
  BY <1>2, SwapDenseStep
<1>3. CASE \E other \in settled..(domain - 1) : Keyed!SwapSparse(other)
  BY <1>3, SwapSparseStep
<1>4. CASE Keyed!Return
  BY <1>4, RestStep DEF Keyed!Return
<1> QED BY <1>1, <1>2, <1>3, <1>4 DEF Keyed!Next

\* However the positions are asked for, in one call or in several, before or after the
\* change to the whole array, and whatever the hash function does with the indices: the
\* order is that of one shuffle from front to back, and a table that grows, finds and
\* replaces entries is not seen (KeyedIndexPrefix, next to KeyedPrefixShuffle).
THEOREM ShufflesAsOne == CarriersSpec => ShufflesInSteps
<1>1. CarriersInit => OrderInv /\ Keyed!Shuffle!Init
  BY OrderStarts DEF CarriersInit
<1>2. OrderInv /\ [CarriersNext]_<<machine, vars, bskyVars, orderVars, codeVars>>
        => OrderInv' /\ [Keyed!Shuffle!Draw]_<<Keyed!Order, settled>>
  <2> SUFFICES ASSUME OrderInv, [CarriersNext]_<<machine, vars, bskyVars, orderVars, codeVars>>
               PROVE  OrderInv' /\ [Keyed!Shuffle!Draw]_<<Keyed!Order, settled>>
    OBVIOUS
  <2>1. Keyed!Next \/ UNCHANGED orderVars
    BY DEF CarriersNext
  <2>2. CASE Keyed!Next
    BY <2>2, OrderStep DEF OrderStays
  <2>3. CASE UNCHANGED orderVars
    BY <2>3, RestStep DEF orderVars, OrderStays
  <2> QED BY <2>1, <2>2, <2>3
<1> QED BY <1>1, <1>2, PTL DEF CarriersSpec, ShufflesInSteps, Keyed!ShufflesInSteps, Keyed!Shuffle!Spec

-----------------------------------------------------------------------------
(* The schedule of the trellis code.                                       *)

\* Between two multiples of a step of 2 to 3 times n lie two or three multiples of n.
LEMMA Spaced ==
  ASSUME NEW n \in Nat \ {0}, NEW s \in Nat, 2 * n <= s, s <= 3 * n, NEW a \in Nat
  PROVE  ((a + s) \div n) - (a \div n) \in {2, 3}
<1> DEFINE p == a \div n
           q == (a + s) \div n
           d == q - p
<1>1. p \in Int /\ n * p <= a /\ a < n * p + n
  OBVIOUS
<1>2. q \in Int /\ n * q <= a + s /\ a + s < n * q + n
  OBVIOUS
<1> HIDE DEF p, q
<1>3. d \in Int /\ n * q = n * p + n * d
  BY <1>1, <1>2, Z3
<1>4. n * p \in Int /\ n * q \in Int /\ n * d \in Int
  BY <1>1, <1>2, <1>3
<1> HIDE DEF d
<1>5. n * d > n /\ n * d < 4 * n
  BY <1>1, <1>2, <1>3, <1>4
<1>6. d > 1
  BY <1>3, <1>5
<1>7. d < 4
  BY <1>3, <1>5
<1> QED BY <1>3, <1>6, <1>7 DEF d, p, q

LEMMA BoundaryStep ==
  ASSUME NEW n \in Nat \ {0}, NEW s \in Nat, 2 * n <= s, s <= 3 * n, NEW k \in 1..n
  PROVE  /\ Stc!Boundary(k, n, s) \in Nat /\ Stc!Boundary(k - 1, n, s) \in Nat
         /\ Stc!Boundary(k, n, s) - Stc!Boundary(k - 1, n, s) \in {2, 3}
<1> DEFINE a == (k - 1) * s + n \div 2
<1>1. (k - 1) * s \in Nat /\ k * s = (k - 1) * s + s
  BY Z3
<1>2. n \div 2 \in Nat
  OBVIOUS
<1>3. a \in Nat /\ k * s + n \div 2 = a + s
  BY <1>1, <1>2
<1> HIDE DEF a
<1>4. ((a + s) \div n) - (a \div n) \in {2, 3}
  BY <1>3, Spaced
<1>5. a \div n \in Nat /\ (a + s) \div n \in Nat
  BY <1>3
<1>6. Stc!Boundary(k, n, s) = (a + s) \div n /\ Stc!Boundary(k - 1, n, s) = a \div n
  BY <1>3 DEF Stc!Boundary, a
<1> QED BY <1>4, <1>5, <1>6

LEMMA WidthsFit ==
  ASSUME NEW n \in Nat \ {0}, NEW s \in Nat, 2 * n <= s, s <= 3 * n, NEW k \in 1..n
  PROVE  Stc!Widths(n, s)[k] \in {2, 3}
BY BoundaryStep DEF Stc!Widths

LEMMA BoundaryEnds ==
  ASSUME NEW n \in Nat \ {0}, NEW s \in Nat
  PROVE  Stc!Boundary(0, n, s) = 0 /\ Stc!Boundary(n, n, s) = s
<1> DEFINE h == n \div 2
<1>1. h \in Nat /\ h < n
  OBVIOUS
<1> HIDE DEF h
<1>2. h \div n = 0
  BY <1>1
<1>3. 0 * s = 0
  OBVIOUS
<1>4. (n * s + h) \div n = s
  <2> DEFINE m == n * s
             q == (m + h) \div n
  <2>1. m \in Nat
    OBVIOUS
  <2>2. q \in Int /\ n * q <= m + h /\ m + h < n * q + n
    <3> HIDE DEF m
    <3> QED BY <1>1, <2>1
  <2> HIDE DEF q
  <2>3. n * (q - s) = n * q - m /\ n * q \in Int
    BY <2>2, Z3
  <2> HIDE DEF m
  <2>4. n * (q - s) < n /\ n * (q - s) > -n
    BY <1>1, <2>1, <2>2, <2>3
  <2>5. q - s < 1 /\ q - s > -1
    BY <2>2, <2>4
  <2>6. q = s
    BY <2>2, <2>5
  <2> QED BY <2>6 DEF q, m
<1> QED BY <1>1, <1>2, <1>3, <1>4 DEF Stc!Boundary, h

Part == [cover : Nat, symbols : Nat, from : Nat, count : Nat]

\* The parts that are cut off the first k message bits of n.
Cutting(c, k, n) ==
  /\ c \in Seq(Part) /\ Len(c) \in Nat \ {0} /\ c[1].cover = 0 /\ c[1].from = 0
  /\ c[Len(c)].cover + c[Len(c)].symbols = Stc!Boundary(k, n, Stc!RequiredCover(n))
  /\ c[Len(c)].from + c[Len(c)].count = k
  /\ \A i \in 1..Len(c) :
       /\ 2 * c[i].count <= c[i].symbols /\ c[i].symbols <= 3 * c[i].count
       /\ c[i].symbols <= MaxSegment
       /\ i > 1 => /\ c[i].cover = c[i - 1].cover + c[i - 1].symbols
                   /\ c[i].from = c[i - 1].from + c[i - 1].count

LEMMA CuttingStarts ==
  ASSUME NEW n \in Nat \ {0}
  PROVE  Cutting(<<Stc!FirstPart>>, 0, n)
<1>1. Stc!RequiredCover(n) \in Nat
  BY DEF Stc!RequiredCover
<1>2. Stc!Boundary(0, n, Stc!RequiredCover(n)) = 0
  BY <1>1, BoundaryEnds
<1>3. MaxSegment \in Nat
  BY CarriersAssumption
<1>4. /\ <<Stc!FirstPart>> \in Seq(Part) /\ Len(<<Stc!FirstPart>>) = 1
      /\ <<Stc!FirstPart>>[1] = [cover |-> 0, symbols |-> 0, from |-> 0, count |-> 0]
  BY DEF Stc!FirstPart, Part
<1> QED BY <1>2, <1>3, <1>4 DEF Cutting

LEMMA CuttingGoesOn ==
  ASSUME NEW n \in Nat \ {0}, NEW k \in 0..(n - 1), NEW c, Cutting(c, k, n)
  PROVE  Cutting(Stc!Extended(c, Stc!Widths(n, Stc!RequiredCover(n))[k + 1]), k + 1, n)
<1> DEFINE s == Stc!RequiredCover(n)
           w == Stc!Widths(n, s)[k + 1]
           l == Len(c)
           p == c[l]
           next == [cover |-> p.cover + p.symbols, symbols |-> w, from |-> p.from + p.count, count |-> 1]
           more == [p EXCEPT !.symbols = @ + w, !.count = @ + 1]
           d == Stc!Extended(c, w)
<1>1. s \in Nat /\ 2 * n <= s /\ s <= 3 * n
  BY DEF Stc!RequiredCover
<1>2. k + 1 \in 1..n /\ (k + 1) - 1 = k
  OBVIOUS
<1>3. /\ w \in {2, 3} /\ Stc!Boundary(k, n, s) \in Nat
      /\ Stc!Boundary(k + 1, n, s) = Stc!Boundary(k, n, s) + w
  <2>1. w = Stc!Boundary(k + 1, n, s) - Stc!Boundary(k, n, s)
    BY <1>2 DEF Stc!Widths
  <2> HIDE DEF s, w
  <2>2. /\ Stc!Boundary(k + 1, n, s) \in Nat /\ Stc!Boundary(k, n, s) \in Nat
        /\ Stc!Boundary(k + 1, n, s) - Stc!Boundary(k, n, s) \in {2, 3}
    BY <1>1, <1>2, BoundaryStep
  <2> QED BY <2>1, <2>2
<1>4. MaxSegment \in Nat /\ MaxSegment >= 3
  BY CarriersAssumption
<1> HIDE DEF s, w
<1>5. /\ c \in Seq(Part) /\ l \in Nat \ {0} /\ p \in Part
      /\ p.cover + p.symbols = Stc!Boundary(k, n, s) /\ p.from + p.count = k
      /\ 2 * p.count <= p.symbols /\ p.symbols <= 3 * p.count
  BY DEF Cutting, s
<1>6. p.cover \in Nat /\ p.symbols \in Nat /\ p.from \in Nat /\ p.count \in Nat
  BY <1>5 DEF Part
<1>7. \A i \in 1..l :
        /\ 2 * c[i].count <= c[i].symbols /\ c[i].symbols <= 3 * c[i].count
        /\ c[i].symbols <= MaxSegment
        /\ i > 1 => /\ c[i].cover = c[i - 1].cover + c[i - 1].symbols
                    /\ c[i].from = c[i - 1].from + c[i - 1].count
  BY DEF Cutting
<1>10. l = Len(c) /\ p = c[l]
  OBVIOUS
<1>15. c[1].cover = 0 /\ c[1].from = 0
  BY DEF Cutting
<1>11. /\ Stc!Full(p, w) => d = Append(c, next)
       /\ ~Stc!Full(p, w) => d = Append(SubSeq(c, 1, l - 1), more)
  BY DEF Stc!Extended, Stc!Last, Stc!Front, Last, Front
<1>12. /\ next.cover = p.cover + p.symbols /\ next.symbols = w
       /\ next.from = p.from + p.count /\ next.count = 1 /\ next \in Part
  <2> HIDE DEF p
  <2> QED BY <1>3, <1>6 DEF Part
<1>13. /\ more.cover = p.cover /\ more.symbols = p.symbols + w
       /\ more.from = p.from /\ more.count = p.count + 1 /\ more \in Part
  <2> HIDE DEF p
  <2>1. p \in [cover : Nat, symbols : Nat, from : Nat, count : Nat]
    BY <1>5 DEF Part
  <2>2. p.symbols + w \in Nat /\ p.count + 1 \in Nat
    BY <1>3, <1>6
  <2>3. more \in [cover : Nat, symbols : Nat, from : Nat, count : Nat]
    BY <2>1, <2>2
  <2>4. more.cover = p.cover /\ more.from = p.from
    BY <2>1
  <2>5. more.symbols = p.symbols + w /\ more.count = p.count + 1
    BY <2>1
  <2> QED BY <2>3, <2>4, <2>5 DEF Part
<1>14. Cutting(d, k + 1, n) => Cutting(Stc!Extended(c, Stc!Widths(n, Stc!RequiredCover(n))[k + 1]), k + 1, n)
  BY DEF d, w, s
<1> HIDE DEF l, p, next, more, d
<1>8. CASE Stc!Full(p, w)
  <2>1. d = Append(c, next)
    BY <1>8, <1>11
  <2>2. next \in Part
    BY <1>12
  <2>3. /\ d \in Seq(Part) /\ Len(d) = l + 1 /\ d[l + 1] = next
        /\ \A i \in 1..l : d[i] = c[i]
    BY <2>1, <2>2, <1>5, <1>10
  <2>4. /\ next.cover = p.cover + p.symbols /\ next.symbols = w
        /\ next.from = p.from + p.count /\ next.count = 1
    BY <1>12
  <2>5. ASSUME NEW i \in 1..(l + 1)
        PROVE  /\ 2 * d[i].count <= d[i].symbols /\ d[i].symbols <= 3 * d[i].count
               /\ d[i].symbols <= MaxSegment
               /\ i > 1 => /\ d[i].cover = d[i - 1].cover + d[i - 1].symbols
                           /\ d[i].from = d[i - 1].from + d[i - 1].count
    <3>1. CASE i \in 1..l
      <4>0. i > 1 => i - 1 \in 1..l
        BY <3>1, <1>5
      <4>1. d[i] = c[i] /\ (i > 1 => d[i - 1] = c[i - 1])
        BY <2>3, <3>1, <4>0
      <4> QED BY <4>1, <3>1, <1>7
    <3>2. CASE i = l + 1
      <4>1. d[i] = next /\ d[i - 1] = p
        BY <2>3, <3>2, <1>5, <1>10
      <4> QED BY <4>1, <2>4, <1>3, <1>4, <1>6
    <3> QED BY <3>1, <3>2, <1>5
  <2>6. next.cover + next.symbols = Stc!Boundary(k + 1, n, s) /\ next.from + next.count = k + 1
    BY <2>4, <1>3, <1>5, <1>6
  <2>7. Cutting(d, k + 1, n)
    <3>1. Len(d) = l + 1 /\ Len(d) \in Nat \ {0} /\ d[Len(d)] = next
      BY <2>3, <1>5
    <3>2. d[1].cover = 0 /\ d[1].from = 0
      BY <2>3, <1>5, <1>15
    <3> QED BY <3>1, <3>2, <2>3, <2>5, <2>6 DEF Cutting, s
  <2> QED BY <2>7, <1>14
<1>9. CASE ~Stc!Full(p, w)
  <2>1. d = Append(SubSeq(c, 1, l - 1), more)
    BY <1>9, <1>11
  <2>2. /\ more.cover = p.cover /\ more.symbols = p.symbols + w
        /\ more.from = p.from /\ more.count = p.count + 1 /\ more \in Part
    BY <1>13
  <2>3. more.symbols <= MaxSegment
    <3>1. p.count = 0 \/ p.symbols + w <= MaxSegment
      BY <1>9, <1>3, <1>4, <1>6 DEF Stc!Full
    <3>2. CASE p.count = 0
      <4>1. p.symbols <= 0
        BY <3>2, <1>5
      <4>2. p.symbols = 0 /\ w <= 3
        BY <4>1, <1>3, <1>6
      <4> QED BY <4>2, <2>2, <1>3, <1>4
    <3> QED BY <3>1, <3>2, <2>2
  <2>4. /\ d \in Seq(Part) /\ Len(d) = l /\ d[l] = more
        /\ \A i \in 1..(l - 1) : d[i] = c[i]
    <3>1. /\ SubSeq(c, 1, l - 1) \in Seq(Part) /\ Len(SubSeq(c, 1, l - 1)) = l - 1
          /\ \A i \in 1..(l - 1) : SubSeq(c, 1, l - 1)[i] = c[i]
      BY <1>5, <1>10
    <3> DEFINE f == SubSeq(c, 1, l - 1)
    <3> HIDE DEF f
    <3>2. d = Append(f, more) /\ f \in Seq(Part) /\ Len(f) = l - 1 /\ \A i \in 1..(l - 1) : f[i] = c[i]
      BY <2>1, <3>1 DEF f
    <3>3. (l - 1) + 1 = l /\ l - 1 \in Nat
      BY <1>5
    <3>4. d \in Seq(Part) /\ Len(d) = (l - 1) + 1 /\ d[(l - 1) + 1] = more
      BY <3>2, <3>3, <2>2
    <3>5. \A i \in 1..(l - 1) : d[i] = f[i]
      BY <3>2, <3>3, <2>2
    <3> QED BY <3>2, <3>3, <3>4, <3>5
  <2>5. ASSUME NEW i \in 1..l
        PROVE  /\ 2 * d[i].count <= d[i].symbols /\ d[i].symbols <= 3 * d[i].count
               /\ d[i].symbols <= MaxSegment
               /\ i > 1 => /\ d[i].cover = d[i - 1].cover + d[i - 1].symbols
                           /\ d[i].from = d[i - 1].from + d[i - 1].count
    <3>1. CASE i \in 1..(l - 1)
      <4>0. i \in 1..l /\ (i > 1 => i - 1 \in 1..(l - 1))
        BY <3>1, <1>5
      <4>1. d[i] = c[i] /\ (i > 1 => d[i - 1] = c[i - 1])
        BY <2>4, <3>1, <4>0
      <4> QED BY <4>0, <4>1, <3>1, <1>7
    <3>2. CASE i = l
      <4>0. i > 1 => i - 1 \in 1..(l - 1)
        BY <3>2, <1>5
      <4>1. d[i] = more /\ (i > 1 => d[i - 1] = c[i - 1])
        BY <2>4, <3>2, <4>0
      <4>2. i > 1 => more.cover = c[i - 1].cover + c[i - 1].symbols
                     /\ more.from = c[i - 1].from + c[i - 1].count
        BY <1>7, <1>10, <3>2, <2>2
      <4>3. 2 * more.count <= more.symbols /\ more.symbols <= 3 * more.count
        <5>1. 2 * (p.count + 1) <= p.symbols + w /\ p.symbols + w <= 3 * (p.count + 1)
          <6>1. w \in {2, 3} /\ 2 * p.count <= p.symbols /\ p.symbols <= 3 * p.count
            BY <1>3, <1>5
          <6> HIDE DEF p
          <6> QED BY <6>1, <1>6
        <5> QED BY <5>1, <2>2
      <4> QED BY <4>1, <4>2, <4>3, <2>3
    <3> QED BY <3>1, <3>2, <1>5
  <2>6. more.cover + more.symbols = Stc!Boundary(k + 1, n, s) /\ more.from + more.count = k + 1
    <3>1. more.cover + more.symbols = p.cover + (p.symbols + w) /\ more.from + more.count = p.from + (p.count + 1)
      BY <2>2
    <3>2. p.cover + (p.symbols + w) = (p.cover + p.symbols) + w
      BY <1>3, <1>6
    <3>3. p.from + (p.count + 1) = (p.from + p.count) + 1
      BY <1>6
    <3> QED BY <3>1, <3>2, <3>3, <1>3, <1>5
  <2>7. Cutting(d, k + 1, n)
    <3>1. Len(d) = l /\ Len(d) \in Nat \ {0} /\ d[Len(d)] = more
      BY <2>4, <1>5
    <3>2. d[1].cover = 0 /\ d[1].from = 0
      <4>1. CASE l = 1
        BY <4>1, <2>2, <2>4, <1>10, <1>15
      <4>2. CASE l # 1
        <5>1. 1 \in 1..(l - 1)
          BY <4>2, <1>5
        <5> QED BY <5>1, <2>4, <1>15
      <4> QED BY <4>1, <4>2
    <3> QED BY <3>1, <3>2, <2>4, <2>5, <2>6 DEF Cutting, s
  <2> QED BY <2>7, <1>14
<1> QED BY <1>8, <1>9

\* The cuts of the first k message bits of n, for each k up to m.
Cuts(g, n, m) ==
  g = [k \in 0..m |-> IF k = 0 THEN <<Stc!FirstPart>>
                      ELSE Stc!Extended(g[k - 1], Stc!Widths(n, Stc!RequiredCover(n))[k])]

LEMMA CutsGoOn ==
  ASSUME NEW n, NEW m \in Nat, NEW g, Cuts(g, n, m)
  PROVE  \E h : Cuts(h, n, m + 1)
<1> DEFINE w == Stc!Widths(n, Stc!RequiredCover(n))
           h == [k \in 0..(m + 1) |-> IF k = m + 1 THEN Stc!Extended(g[m], w[m + 1]) ELSE g[k]]
           r == [k \in 0..(m + 1) |-> IF k = 0 THEN <<Stc!FirstPart>> ELSE Stc!Extended(h[k - 1], w[k])]
<1>1. \A k \in 0..m : g[k] = IF k = 0 THEN <<Stc!FirstPart>> ELSE Stc!Extended(g[k - 1], w[k])
  BY Zenon DEF Cuts
<1>5. Cuts(h, n, m + 1) <=> h = r
  BY Zenon DEF Cuts
<1> HIDE DEF w
<1>2. ASSUME NEW k \in 0..(m + 1)
      PROVE  h[k] = r[k]
  <2>1. CASE k = 0
    <3>1. h[k] = g[0] /\ r[k] = <<Stc!FirstPart>> /\ 0 \in 0..m
      BY <2>1
    <3> QED BY <3>1, <1>1
  <2>2. CASE k \in 1..m
    <3>1. k \in 0..m /\ k - 1 \in 0..m /\ k # 0 /\ k # m + 1 /\ k - 1 # m + 1 /\ k - 1 \in 0..(m + 1)
      BY <2>2
    <3>2. h[k] = g[k] /\ h[k - 1] = g[k - 1]
      BY <3>1
    <3>3. r[k] = Stc!Extended(g[k - 1], w[k])
      BY <3>1, <3>2
    <3> QED BY <3>1, <3>2, <3>3, <1>1
  <2>3. CASE k = m + 1
    <3>1. k - 1 = m /\ k # 0 /\ m \in 0..(m + 1) /\ m # m + 1
      BY <2>3
    <3>2. h[k] = Stc!Extended(g[m], w[m + 1]) /\ h[m] = g[m]
      BY <2>3, <3>1
    <3>3. r[k] = Stc!Extended(h[k - 1], w[k])
      BY <3>1
    <3> QED BY <2>3, <3>1, <3>2, <3>3
  <2> QED BY <2>1, <2>2, <2>3
<1>3. h = r
  <2>1. h = [k \in 0..(m + 1) |-> h[k]] /\ r = [k \in 0..(m + 1) |-> r[k]]
    OBVIOUS
  <2> HIDE DEF h, r
  <2>2. [k \in 0..(m + 1) |-> h[k]] = [k \in 0..(m + 1) |-> r[k]]
    BY <1>2
  <2> QED BY <2>1, <2>2
<1> HIDE DEF h, r
<1> QED BY <1>3, <1>5

LEMMA CutIs ==
  ASSUME NEW n \in Nat
  PROVE  \E g : Cuts(g, n, n) /\ Stc!Cut(n) = g[n]
<1> DEFINE S == {m \in Nat : \E g : Cuts(g, n, m)}
           all == CHOOSE g : Cuts(g, n, n)
<1>1. 0 \in S
  <2> DEFINE g == [k \in 0..0 |-> <<Stc!FirstPart>>]
  <2>1. g = [k \in 0..0 |-> IF k = 0 THEN <<Stc!FirstPart>>
                            ELSE Stc!Extended(g[k - 1], Stc!Widths(n, Stc!RequiredCover(n))[k])]
    OBVIOUS
  <2> HIDE DEF g
  <2>2. Cuts(g, n, 0)
    BY <2>1 DEF Cuts
  <2> QED BY <2>2
<1>2. \A k \in 0..(n - 1) : k \in S => k + 1 \in S
  BY CutsGoOn
<1>3. 0..n \subseteq S
  <2> HIDE DEF S
  <2> QED BY <1>1, <1>2, Induction
<1>4. Cuts(all, n, n)
  <2>1. n \in S
    BY <1>3
  <2> HIDE DEF Cuts
  <2> QED BY <2>1
<1>5. Stc!Cut(n) = all[n]
  BY Zenon DEF Stc!Cut, Cuts
<1> HIDE DEF all
<1> QED BY <1>4, <1>5

LEMMA CutCovers ==
  ASSUME NEW n \in Nat \ {0}
  PROVE  Cutting(Stc!Cut(n), n, n)
<1>1. n \in Nat
  OBVIOUS
<1>2. PICK g : Cuts(g, n, n) /\ Stc!Cut(n) = g[n]
  BY <1>1, CutIs
<1>3. \A k \in 0..n : g[k] = IF k = 0 THEN <<Stc!FirstPart>>
                             ELSE Stc!Extended(g[k - 1], Stc!Widths(n, Stc!RequiredCover(n))[k])
  BY <1>2, Zenon DEF Cuts
<1> DEFINE S == {k \in 0..n : Cutting(g[k], k, n)}
<1>4. 0 \in S
  <2>1. g[0] = <<Stc!FirstPart>> /\ 0 \in 0..n
    BY <1>3
  <2> QED BY <2>1, CuttingStarts
<1>5. ASSUME NEW k \in 0..(n - 1), k \in S
      PROVE  k + 1 \in S
  <2>1. k + 1 \in 0..n /\ k + 1 # 0 /\ (k + 1) - 1 = k
    OBVIOUS
  <2>2. g[k + 1] = Stc!Extended(g[k], Stc!Widths(n, Stc!RequiredCover(n))[k + 1])
    BY <2>1, <1>3
  <2>3. Cutting(g[k + 1], k + 1, n)
    BY <2>2, <1>5, CuttingGoesOn
  <2> QED BY <2>1, <2>3
<1>6. n \in S
  <2> HIDE DEF S
  <2>1. 0..n \subseteq S
    BY <1>1, <1>4, <1>5, Induction
  <2> QED BY <2>1
<1> QED BY <1>2, <1>6

\* The segments are none before they are scheduled, and later those of the schedule.
Scheduled == bits \in Nat \ {0} /\ (parts = <<>> \/ parts = Stc!Cut(bits))

LEMMA ScheduledStays ==
  CarriersSpec => []Scheduled
<1>1. CarriersInit => Scheduled
  BY CarriersAssumption DEF CarriersInit, Stc!Init, Scheduled
<1>2. Scheduled /\ [CarriersNext]_<<machine, vars, bskyVars, orderVars, codeVars>> => Scheduled'
  <2> SUFFICES ASSUME Scheduled, [CarriersNext]_<<machine, vars, bskyVars, orderVars, codeVars>>
               PROVE  Scheduled'
    OBVIOUS
  <2>1. CASE UNCHANGED codeVars
    BY <2>1 DEF codeVars, Scheduled, Stc!Cut
  <2>2. CASE Stc!Next
    <3>1. bits' = bits /\ (parts' = parts \/ parts' = Stc!Cut(bits))
      BY <2>2 DEF Stc!Next, Stc!Schedule, Stc!BeginSegment, Stc!TrellisColumn, Stc!Prune, Stc!Turn,
           Stc!BackColumn, Stc!BackBit, Stc!SegmentDone, Stc!Cancelled, Stc!inputs
    <3> QED BY <3>1 DEF Scheduled
  <2> QED BY <2>1, <2>2 DEF CarriersNext, codeVars
<1> QED BY <1>1, <1>2, PTL DEF CarriersSpec

\* The schedule of the trellis code covers every cover symbol and every message bit
\* once, in segments none of which is too long and in which every bit has two or three
\* symbols (makeSegments, forEachWidth).
THEOREM SchedulesFit == CarriersSpec => []ScheduleFits
<1>1. Scheduled => ScheduleFits
  <2> SUFFICES ASSUME Scheduled, parts # <<>>
               PROVE  ScheduleFits
    BY DEF ScheduleFits, Stc!ScheduleFits
  <2> DEFINE s == Stc!RequiredCover(bits)
             l == Len(parts)
  <2>1. bits \in Nat \ {0} /\ Cutting(parts, bits, bits)
    BY CutCovers DEF Scheduled
  <2>2. s \in Nat
    BY <2>1 DEF Stc!RequiredCover
  <2>3. Stc!Boundary(bits, bits, s) = s
    BY <2>1, <2>2, BoundaryEnds
  <2>4. /\ parts \in Seq(Part) /\ l \in Nat \ {0} /\ parts[1].cover = 0 /\ parts[1].from = 0
        /\ parts[l].cover + parts[l].symbols = s /\ parts[l].from + parts[l].count = bits
        /\ \A i \in 1..l :
             /\ 2 * parts[i].count <= parts[i].symbols /\ parts[i].symbols <= 3 * parts[i].count
             /\ parts[i].symbols <= MaxSegment
             /\ i > 1 => /\ parts[i].cover = parts[i - 1].cover + parts[i - 1].symbols
                         /\ parts[i].from = parts[i - 1].from + parts[i - 1].count
    BY <2>1, <2>3 DEF Cutting
  <2>5. ASSUME NEW i \in 1..l, NEW k \in 1..parts[i].count
        PROVE  Stc!Widths(parts[i].count, parts[i].symbols)[k] \in {2, 3}
    <3>1. parts[i] \in Part
      BY <2>4
    <3>2. parts[i].count \in Nat /\ parts[i].symbols \in Nat
      BY <3>1 DEF Part
    <3>3. parts[i].count # 0
      BY <3>2
    <3> QED BY <3>2, <3>3, <2>4, WidthsFit
  <2>6. DOMAIN parts = 1..l /\ Stc!Last(parts) = parts[l]
    BY <2>4 DEF Stc!Last
  <2> HIDE DEF l
  <2> QED BY <2>4, <2>5, <2>6 DEF ScheduleFits, Stc!ScheduleFits
<1> QED BY <1>1, ScheduledStays, PTL
=============================================================================
