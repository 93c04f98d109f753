------------------------------ MODULE IccCarrier ------------------------------
(***************************************************************************)
(* The default carrier: conceal writes the ciphertext into ICC_PROFILE     *)
(* segments ahead of the cover (conceal_segments.rs), a platform may put   *)
(* segments of its own before them, and recover finds the profile, checks  *)
(* what it declares and reads the ciphertext where it lies, in runs that   *)
(* step over the segment headers (recover/, extract.rs, cipher_source.rs). *)
(*                                                                         *)
(* Bytes are not in the model, their places are: a piece says that the     *)
(* ciphertext from one index on lies at one offset of the image.           *)
(***************************************************************************)
EXTENDS Integers, SequencesExt

CONSTANTS
  EncryptedSizes,  \* sizes of ciphertexts
  KeptSizes,       \* sizes of the Adobe segment kept from the cover, 0 for none
  CoverSizes,      \* sizes of the rest of the cover
  MaxConceal,      \* MAX_SIZE_CONCEAL
  AddedSizes,      \* sizes of the segments a platform may put before the profile
  MaxAdded,        \* bound on their number
  Reads            \* sizes of the reads

\* The shortest ciphertext: a name and data of one byte each, in one frame.
ASSUME IccCarrierAssumption ==
  /\ EncryptedSizes \subseteq {n \in Nat : n >= 24}
  /\ KeptSizes \subseteq Nat /\ CoverSizes \subseteq Nat
  /\ AddedSizes \subseteq {n \in Nat : n >= 4} /\ Reads \subseteq Nat \ {0}
  /\ MaxConceal \in Nat /\ MaxAdded \in Nat

\* The literals of the writer ...
Soi == 2
SegmentHead == 18      \* SEGMENT_SIG_LENGTH + SEGMENT_HEADER_LENGTH
SegmentData == 65519   \* SEGMENT_DATA_SIZE
Template == 851        \* DEFAULT_METADATA_PREFIX_BYTES
InitialHeader == Soi + SegmentHead
MaxSegments == 65535   \* u16::MAX
\* ... and of the reader, where they were chosen to match.
BaseOffset == 24             \* BASE_OFFSET_DEFAULT
CipherStart == 827           \* ENCRYPTED_FILE_START_INDEX
HeaderIndexOfData == 64686   \* mutant: counted without the marker of the first segment
HeaderIndex == 64688         \* HEADER_INDEX
CommonDiff == 65537          \* COMMON_DIFF_VAL
MarkerDiff == 22
JdvrifEnd == 850             \* the end of the jdvrif signature
MaxLeadingBytes == 65536     \* MAX_LEADING_SEGMENT_BYTES
MaxLeading == 16             \* MAX_LEADING_SEGMENTS
SignaturePrefix == MaxLeadingBytes + JdvrifEnd
MinCipher == 21
MaxCipher == MaxConceal + 52428800

VARIABLES
  pc,                  \* where conceal, the platform or recover is
  enc, cover,          \* sizes: of the ciphertext, of the cover's body
  leading,             \* segments before the profile: what marker, at what offset, how long
  image,               \* bytes of the image
  pieces,              \* where the ciphertext is: offset, length, index in the ciphertext
  segments,            \* segments_required, and SEGMENTS_TOTAL in the profile
  declared,            \* the size in the profile
  left,                \* payload_left
  prefixLeft, sent,    \* PayloadSource: template bytes left, encrypted_offset
  damage,              \* what became of the image
  pos, walked,         \* find_default_icc_sig_index: pos, segments passed
  cursor, nextHeader, skipped,       \* open_default_ciphertext
  runs, remaining,                   \* FileRunsCipherSource
  runIndex, runPosition, want        \* ... and what is left of the current read

layout == <<enc, cover, leading, image, pieces, segments, declared, damage>>
source == <<left, prefixLeft, sent>>
walk == <<pos, walked>>
opened == <<cursor, nextHeader, skipped>>
reader == <<runs, remaining, runIndex, runPosition, want>>
vars == <<pc, layout, source, walk, opened, reader>>

Least(a, b) == IF a <= b THEN a ELSE b
Goto(l) == pc' = l

Ended == {"tooLarge", "failed", "notOurs", "refused", "exhausted"}

TypeOK ==
  /\ pc \in {"limits", "front", "segments", "body", "image", "walk", "profile", "open", "runs", "reading"} \cup Ended
  /\ enc \in EncryptedSizes /\ cover \in CoverSizes /\ image \in Nat
  /\ \A i \in DOMAIN leading :
       leading[i].marker \in {"app", "app2", "other"} /\ leading[i].at \in Nat /\ leading[i].length \in Nat
  /\ \A i \in DOMAIN pieces :
       pieces[i].offset \in Nat /\ pieces[i].length \in Nat \ {0} /\ pieces[i].from \in Nat
  /\ segments \in Nat /\ declared \in Nat
  /\ left \in Nat /\ prefixLeft \in 0..Template /\ sent \in 0..enc
  /\ damage \in {"none", "lost", "cut", "altered"}
  /\ pos \in Nat /\ walked \in 0..(MaxLeading + 1)
  /\ cursor \in 0..declared /\ nextHeader \in Nat /\ skipped \in Nat
  /\ \A i \in DOMAIN runs : runs[i].offset \in Nat /\ runs[i].length \in Nat \ {0}
  /\ remaining \in Nat /\ runIndex \in Nat /\ runPosition \in Nat /\ want \in Nat

LeadingEnd == IF leading = <<>> THEN Soi ELSE Last(leading).at + Last(leading).length

Init ==
  /\ pc = "limits"
  /\ enc \in EncryptedSizes /\ cover \in CoverSizes
  /\ \E kept \in KeptSizes :
       leading = IF kept = 0 THEN <<>> ELSE <<[marker |-> "app", at |-> Soi, length |-> kept]>>
  /\ image = 0 /\ pieces = <<>> /\ segments = 0 /\ declared = 0
  /\ left = 0 /\ prefixLeft = 0 /\ sent = 0
  /\ damage = "none"
  /\ pos = Soi /\ walked = 0
  /\ cursor = 0 /\ nextHeader = HeaderIndex /\ skipped = 0
  /\ runs = <<>> /\ remaining = 0 /\ runIndex = 1 /\ runPosition = 0 /\ want = 0

-----------------------------------------------------------------------------
(* conceal.                                                                *)

\* icc_layout
SingleSegment == Template + enc <= SegmentData + InitialHeader
PayloadSize == Template - InitialHeader + enc
SegmentsRequired == (PayloadSize + SegmentData - 1) \div SegmentData
IccDataSizeAfterSoi ==  \* mutant: the SOI marker is not counted
  IF SingleSegment THEN Template + enc ELSE SegmentsRequired * SegmentHead + PayloadSize
IccDataSize ==
  IF SingleSegment THEN Template + enc ELSE SegmentsRequired * SegmentHead + PayloadSize + Soi
\* embedded_jpg_size, of the whole cover
EmbeddedSize == IccDataSize + (LeadingEnd - Soi) + cover

\* validate_combined_size_limits, before anything is written.
Limits ==
  /\ pc = "limits"
  /\ Goto(IF (SingleSegment \/ SegmentsRequired <= MaxSegments) /\ EmbeddedSize <= MaxConceal
          THEN "front" ELSE "tooLarge")
  /\ UNCHANGED <<layout, source, walk, opened, reader>>

\* The sizes in the profile, the SOI marker and the leading segments; a single
\* segment is written whole.
WriteFront ==
  /\ pc = "front"
  /\ declared' = IccDataSize - Template
  /\ IF SingleSegment
     THEN /\ segments' = 0 /\ image' = LeadingEnd - Soi + Template + enc
          /\ pieces' = <<[offset |-> LeadingEnd - Soi + Template, length |-> enc, from |-> 0]>>
          /\ Goto("body") /\ UNCHANGED source
     ELSE /\ segments' = SegmentsRequired /\ image' = LeadingEnd
          /\ left' = PayloadSize /\ prefixLeft' = Template - InitialHeader /\ sent' = 0
          /\ Goto("segments")
          /\ UNCHANGED pieces
  /\ UNCHANGED <<enc, cover, leading, damage, walk, opened, reader>>

\* PayloadSource::copy_to takes this much of size bytes from the template.
FromTemplate(size) == Least(size, prefixLeft)

\* One segment: its header, then the rest of the template and ciphertext.
WriteSegment ==
  /\ pc = "segments" /\ left > 0
  /\ LET size == Least(left, SegmentData)
         prefix == FromTemplate(size)
     IN /\ left' = left - size
        /\ prefixLeft' = prefixLeft - prefix
        /\ sent' = sent + size - prefix
        /\ image' = image + SegmentHead + size
        /\ pieces' = Append(pieces, [offset |-> image + SegmentHead + prefix, length |-> size - prefix, from |-> sent])
  /\ UNCHANGED <<pc, enc, cover, leading, segments, declared, damage, walk, opened, reader>>

SegmentsDone ==
  /\ pc = "segments" /\ left = 0
  /\ Goto(IF prefixLeft = 0 /\ sent = enc THEN "body" ELSE "failed")
  /\ UNCHANGED <<layout, source, walk, opened, reader>>

\* The rest of the cover, and the last check of the size.
WriteBody ==
  /\ pc = "body"
  /\ image' = image + cover
  /\ Goto(IF image' > MaxConceal THEN "tooLarge" ELSE "image")
  /\ UNCHANGED <<enc, cover, leading, pieces, segments, declared, damage, source, walk, opened, reader>>

\* A signal, or a read or write that fails, on either side.
Fails ==
  /\ pc \in {"front", "segments", "body", "walk", "profile", "open", "reading"}
  /\ Goto("failed")
  /\ UNCHANGED <<layout, source, walk, opened, reader>>

-----------------------------------------------------------------------------
(* The platform.                                                           *)

Moved(s, by) == [i \in DOMAIN s |-> [s[i] EXCEPT !.offset = @ + by]]

\* One more segment between SOI and the profile.  Recover does not mind their
\* order (the longest is the last here), and sees nothing behind one that ends its
\* search.
AddSegment(marker, size) ==
  /\ pc = "image" /\ damage = "none" /\ Len(leading) < MaxAdded
  /\ leading # <<>> => Last(leading).marker = "app" /\ Last(leading).length <= size
  /\ LeadingEnd <= Soi + MaxLeadingBytes
  /\ leading' = Append(leading, [marker |-> marker, at |-> LeadingEnd, length |-> size])
  /\ image' = image + size
  /\ pieces' = Moved(pieces, size)
  /\ UNCHANGED <<pc, enc, cover, segments, declared, damage, source, walk, opened, reader>>

\* A segment after the first is dropped.
LoseSegment(k) ==
  /\ pc = "image" /\ damage = "none"
  /\ LET size == SegmentHead + pieces[k].length IN
     /\ image' = image - size
     /\ pieces' = SubSeq(pieces, 1, k - 1) \o Moved(SubSeq(pieces, k + 1, Len(pieces)), -size)
  /\ damage' = "lost"
  /\ UNCHANGED <<pc, enc, cover, leading, segments, declared, source, walk, opened, reader>>

\* The image ends early, somewhere in the ciphertext.
Cut ==
  /\ pc = "image" /\ damage = "none"
  /\ \E i \in DOMAIN pieces : image' \in {pieces[i].offset, pieces[i].offset + pieces[i].length - 1}
  /\ damage' = "cut"
  /\ UNCHANGED <<pc, enc, cover, leading, pieces, segments, declared, source, walk, opened, reader>>

\* The profile says something else than what conceal wrote.
Alter ==
  /\ pc = "image" /\ damage = "none"
  /\ segments' \in 0..(segments + 1)
  /\ declared' \in {0, MinCipher - 1, MinCipher, declared, declared + 1, HeaderIndex + 1, MaxCipher + 1}
  /\ damage' = "altered"
  /\ UNCHANGED <<pc, enc, cover, leading, image, pieces, source, walk, opened, reader>>

Platform ==
  \/ \E marker \in {"app", "app2", "other"}, size \in AddedSizes : AddSegment(marker, size)
  \/ \E k \in 2..Len(pieces) : LoseSegment(k)
  \/ Cut \/ Alter

-----------------------------------------------------------------------------
(* recover.                                                                *)

Recover ==
  /\ pc = "image" /\ Goto("walk")
  /\ UNCHANGED <<layout, source, walk, opened, reader>>

\* The bytes of the image that the search for the signatures looks at.
Prefix == Least(image, SignaturePrefix)
InReachOneLess ==  \* mutant: the loop ends one segment early
  walked < MaxLeading /\ pos + 4 <= Prefix /\ pos - Soi <= MaxLeadingBytes
InReach == walked <= MaxLeading /\ pos + 4 <= Prefix /\ pos - Soi <= MaxLeadingBytes

\* One leading APPn or COM segment.
WalkOn ==
  /\ pc = "walk" /\ InReach /\ walked < Len(leading) /\ leading[walked + 1].marker = "app"
  /\ pos' = pos + leading[walked + 1].length
  /\ walked' = walked + 1
  /\ UNCHANGED <<pc, layout, source, opened, reader>>

\* The first APP2 must be the profile, with both signatures.
WalkEnds ==
  /\ pc = "walk"
  /\ \/ InReach /\ walked = Len(leading) /\ pos - Soi + JdvrifEnd <= Prefix /\ Goto("profile")
     \/ /\ \/ ~InReach
           \/ walked < Len(leading) /\ leading[walked + 1].marker # "app"
           \/ walked = Len(leading) /\ pos - Soi + JdvrifEnd > Prefix
        /\ Goto("notOurs")
  /\ UNCHANGED <<layout, source, walk, opened, reader>>

\* base_offset, and where the ciphertext begins.
Base == pos - Soi + BaseOffset
Start == Base + CipherStart

\* recover_from_icc_path up to the KEY, validate_declared_cipher_size included.
ReadProfile ==
  /\ pc = "profile"
  /\ Goto(IF /\ Base - BaseOffset <= MaxLeadingBytes /\ Start <= image
             /\ declared >= MinCipher /\ declared <= MaxCipher
          THEN "open" ELSE "refused")
  /\ UNCHANGED <<layout, source, walk, opened, reader>>

\* There is an APP2 marker at this offset: the profile's own or a later segment's.
\* That other bytes of the image look like one by chance is left out.
MarkerAt(offset) == offset = pos \/ \E k \in 2..Len(pieces) : offset = pieces[k].offset - SegmentHead
MarkerIndex == Base + (segments - 1) * CommonDiff - MarkerDiff
LastMarkerAssumed == segments > 1  \* mutant: nobody looks
LastMarkerThere == segments > 1 /\ MarkerIndex + 2 <= image /\ MarkerAt(MarkerIndex)

\* skipped_profile_header_count
SkippedHeaders ==
  IF segments = 0 \/ declared <= HeaderIndex THEN 0
  ELSE 1 + (declared - 1 - HeaderIndex) \div CommonDiff

InRange == Start + declared <= image

\* open_default_ciphertext: the range and the last segment, after the KEY.
Open ==
  /\ pc = "open"
  /\ Goto(IF InRange /\ (segments # 0 => LastMarkerThere) THEN "runs" ELSE "refused")
  /\ UNCHANGED <<layout, source, walk, opened, reader>>

HeaderPart == Least(SegmentHead, declared - cursor)

\* A header of a later segment.
SkipHeader ==
  /\ pc = "runs" /\ cursor < declared /\ segments # 0 /\ cursor = nextHeader
  /\ cursor' = cursor + HeaderPart
  /\ nextHeader' = nextHeader + CommonDiff
  /\ skipped' = skipped + 1
  /\ UNCHANGED <<pc, layout, source, walk, reader>>

\* A run of ciphertext, up to the next header or the end.
TakeRun ==
  /\ pc = "runs" /\ cursor < declared /\ ~(segments # 0 /\ cursor = nextHeader)
  /\ LET run == (IF segments # 0 THEN Least(declared, nextHeader) ELSE declared) - cursor IN
     IF run <= 0 THEN Goto("refused") /\ UNCHANGED <<cursor, runs, remaining>>
     ELSE /\ runs' = Append(runs, [offset |-> Start + cursor, length |-> run])
          /\ remaining' = remaining + run
          /\ cursor' = cursor + run
          /\ UNCHANGED pc
  /\ UNCHANGED <<layout, source, walk, nextHeader, skipped, runIndex, runPosition, want>>

RunsDone ==
  /\ pc = "runs" /\ cursor = declared
  /\ Goto(IF remaining = 0 THEN "refused" ELSE "reading")
  /\ UNCHANGED <<layout, source, walk, opened, reader>>

\* try_read of n bytes: nothing is read when fewer are left.
TryRead(n) ==
  /\ pc = "reading" /\ want = 0 /\ n <= remaining
  /\ remaining' = remaining - n /\ want' = n
  /\ UNCHANGED <<pc, layout, source, walk, opened, runs, runIndex, runPosition>>

PositionKept(take, rest) == runPosition + take  \* mutant: not reset for the next run
NextPosition(take, rest) == IF take = rest THEN 0 ELSE runPosition + take

\* One round of its loop.
ReadPiece ==
  /\ pc = "reading" /\ want > 0
  /\ LET rest == runs[runIndex].length - runPosition
         take == Least(want, rest)
     IN /\ want' = want - take
        /\ runIndex' = IF take = rest THEN runIndex + 1 ELSE runIndex
        /\ runPosition' = NextPosition(take, rest)
  /\ UNCHANGED <<pc, layout, source, walk, opened, runs, remaining>>

Exhausted ==
  /\ pc = "reading" /\ want = 0 /\ remaining = 0 /\ Goto("exhausted")
  /\ UNCHANGED <<layout, source, walk, opened, reader>>

Next ==
  \/ Limits \/ WriteFront \/ WriteSegment \/ SegmentsDone \/ WriteBody \/ Fails
  \/ Platform
  \/ Recover \/ WalkOn \/ WalkEnds \/ ReadProfile \/ Open
  \/ SkipHeader \/ TakeRun \/ RunsDone
  \/ (\E n \in Reads : TryRead(n)) \/ ReadPiece \/ Exhausted

Spec == Init /\ [][Next]_vars

-----------------------------------------------------------------------------
(* What must hold.                                                         *)

Opened == pc \in {"reading", "exhausted"}

\* The runs that recover reads from an undamaged image are the places where conceal
\* put the ciphertext, piece by piece: for every size, and behind every run of
\* leading segments.
RunsAreTheCiphertext ==
  Opened /\ damage = "none" =>
    /\ Len(runs) = Len(pieces)
    /\ \A i \in DOMAIN runs : runs[i].offset = pieces[i].offset /\ runs[i].length = pieces[i].length

\* An undamaged image behind at most MaxLeading APPn segments of MaxLeadingBytes in
\* all is found, and is not refused.
UndamagedIsAccepted ==
  damage = "none" /\ Len(leading) <= MaxLeading /\ LeadingEnd - Soi <= MaxLeadingBytes
    /\ (\A i \in DOMAIN leading : leading[i].marker = "app")
  => pc \notin {"notOurs", "refused"}

\* An image that lost a segment or its end is refused before a byte is decrypted.
IncompleteIsRefused == damage \in {"lost", "cut"} => ~Opened

\* Whatever the profile says, the runs lie inside the image, one after another.
RunsInImage ==
  \A i \in DOMAIN runs :
    /\ runs[i].offset + runs[i].length <= image
    /\ i > 1 => runs[i - 1].offset + runs[i - 1].length < runs[i].offset

\* A read goes on where the last one ended, within the runs.
ReadsInOrder ==
  pc = "reading" /\ want > 0 =>
    /\ runIndex \in DOMAIN runs /\ runPosition < runs[runIndex].length
    /\ damage = "none" => pieces[runIndex].from + runPosition = enc - remaining - want

\* The size computed before anything was compressed is the size of the image: the
\* check after the last byte has nothing left to refuse.
SizeIsForeseen == pc = "image" /\ damage = "none" => image = EmbeddedSize

\* The number of headers that recover reports is the number of those it skips.
ReportedHeadersAreSkipped == Opened => skipped = SkippedHeaders

\* What is computed ahead comes true byte for byte: the size of the image before
\* anything was written, the number of headers before any was skipped.
CountsAgree == SizeIsForeseen /\ ReportedHeadersAreSkipped
=============================================================================
