---------------------------- MODULE BlueskyCarrier ----------------------------
(***************************************************************************)
(* The Bluesky carrier: conceal packs the ciphertext, as it comes in       *)
(* pieces, into an EXIF segment, a Photoshop segment with two datasets and *)
(* the base64 text of an XMP segment (BlueskySegmentStreamBuilder); other  *)
(* programs may put segments between them; recover finds the segments by   *)
(* their signatures and puts the ciphertext together again                 *)
(* (read_bluesky_ciphertext).                                              *)
(*                                                                         *)
(* As in IccCarrier the bytes are left out and their places are kept: a    *)
(* stretch <<i, n>> is the n bytes of the ciphertext from index i on.      *)
(***************************************************************************)
EXTENDS Integers, SequencesExt

CONSTANTS
  Sizes,         \* sizes of ciphertexts
  Pushes,        \* sizes of the pieces that are pushed, beside "all the rest"
  MaxPushes,     \* bound on the pieces before the rest
  OtherSizes,    \* kind -> sizes of the segments other programs put in
  MaxOthers,     \* bound on their number
  OtherXmpAt,    \* where the list begins in an XMP segment of theirs
  Splits,        \* how many bytes of a signature a short read may end behind
  Decoys         \* where the ciphertext looks like both signatures, by chance

\* The literals of the packer and of its templates ...
InsertIndex == 465        \* BLUESKY_EXIF_SEGMENT_DATA_INSERT_INDEX
ExifTemplate == 511
ExifLimit == 65027        \* BSKY_EXIF_SEGMENT_DATA_SIZE_LIMIT
FirstLimit == 32767       \* BSKY_FIRST_DATASET_SIZE_LIMIT
LastLimit == 32730        \* BSKY_LAST_DATASET_SIZE_LIMIT
XmpLimit == 60033         \* BSKY_XMP_SEGMENT_SIZE_LIMIT
XmpTemplate == 313
XmpFooter == 92
PhotoshopTemplate == 35
TemplateSize == [exif |-> 65534, artist |-> 65394, photoshop |-> 65535, bim |-> 65507,
                 first |-> 32767]
\* ... and those of the reader.
Start == 465              \* BLUESKY_ENCRYPTED_FILE_START_INDEX
ReadExifLimit == 65027    \* BLUESKY_EXIF_SEGMENT_DATA_SIZE
ReadFirstLimit == 32767
ReadLastLimit == 32730
SearchWindow == 60033 + 131072   \* BLUESKY_PHOTOSHOP_SEARCH_WINDOW
MaxScan == 131072                \* BLUESKY_XMP_BASE64_MAX_SCAN_BYTES
OnlyOneDataset == 32800          \* DATASET_MAX_SIZE
SignatureSize == 7
PhotoshopAt == 9          \* BLUESKY_PHOTOSHOP_SIG_TO_APP13
MaxDeclared == 2097152           \* MAX_DATA_SIZE_BLUESKY
MinDeclared == 21

VARIABLES
  phase,        \* where conceal, the others or recover is
  size, decoy,  \* of the ciphertext
  input,        \* bytes of the current piece that are not packed yet
  pushed,       \* pieces so far
  builder,      \* BlueskySegmentStreamBuilder
  segs,         \* the segments of the image, in order
  harm,         \* what became of the image
  stated,       \* the size in the EXIF template
  scan,         \* scan_file_windows
  taken         \* the places that recover has read

concealing == <<size, decoy, input, pushed, builder>>
file == <<segs, harm, stated>>
recovering == <<scan, taken>>
bskyVars == <<phase, concealing, file, recovering>>

Step(p) == phase' = p
Lesser(a, b) == IF a <= b THEN a ELSE b

\* A run of stretches, one at its end grown or one more.
Grow(run, from, n) ==
  IF run # <<>> /\ Last(run)[1] + Last(run)[2] = from
  THEN Append(Front(run), <<Last(run)[1], Last(run)[2] + n>>)
  ELSE Append(run, <<from, n>>)
\* The sum of the first n of some numbers, and the bytes of a run.
SumTo(numbers, n) ==
  LET upTo[i \in 0..n] == IF i = 0 THEN 0 ELSE upTo[i - 1] + numbers[i] IN upTo[n]
BytesUpTo(run, n) == SumTo([i \in DOMAIN run |-> run[i][2]], n)
Bytes(run) == BytesUpTo(run, Len(run))

NoScan == [for |-> "none", from |-> 0, limit |-> 0, consumed |-> 0, carry |-> 0]
EmptyBuilder ==
  [exif |-> <<>>, first |-> <<>>, second |-> <<>>, marker |-> FALSE,
   text |-> <<>>, quartets |-> 0, pending |-> <<>>, raw |-> 0, written |-> 0]

Init ==
  /\ phase = "limits"
  /\ size \in Sizes /\ decoy \in Decoys
  /\ input = 0 /\ pushed = 0 /\ builder = EmptyBuilder
  /\ segs = <<>> /\ harm = "none" /\ stated = 0
  /\ scan = NoScan /\ taken = <<>>

-----------------------------------------------------------------------------
(* conceal.                                                                *)

\* BlueskyLayout::from_encrypted_size
Layout == [
  exif |-> Lesser(size, ExifLimit),
  first |-> Lesser(FirstLimit, size - Lesser(size, ExifLimit)),
  second |-> Lesser(LastLimit, size - Lesser(size, ExifLimit + FirstLimit)),
  xmp |-> size - Lesser(size, ExifLimit + FirstLimit + LastLimit)]
HasXmp == Layout.xmp > 0
HasPhotoshop == Layout.first > 0 \/ Layout.second > 0
\* bluesky_segment_use, which only the reports use
SegmentUse == [photoshop |-> size > ExifLimit,
               xmp |-> size > ExifLimit /\ size - ExifLimit > FirstLimit + LastLimit]

\* max_bluesky_embedded_cipher_capacity
Capacity ==
  ReadExifLimit + ReadFirstLimit + ReadLastLimit + ((60033 - (XmpTemplate + XmpFooter)) \div 4) * 3

\* validate_combined_size_limits, of a Bluesky image.
CheckPayload ==
  /\ phase = "limits"
  /\ Step(IF size <= Lesser(Capacity, MaxDeclared) THEN "new" ELSE "tooLarge")
  /\ UNCHANGED <<concealing, file, recovering>>

ExifData == Layout.exif + ExifTemplate - 4
XmpProjected == XmpTemplate + ((Layout.xmp + 2) \div 3) * 4 + XmpFooter

\* BlueskySegmentStreamBuilder::new: the sizes of a full segment stand in the template.
New ==
  /\ phase = "new"
  /\ stated' = size
  /\ Step(IF \/ size > ExifLimit /\ (TemplateSize.exif # ExifData \/ TemplateSize.artist # ExifData - 140)
             \/ Layout.first = FirstLimit /\ TemplateSize.first # Layout.first
             \/ HasXmp /\ XmpProjected > XmpLimit
          THEN "internal" ELSE "push")
  /\ UNCHANGED <<concealing, segs, harm, recovering>>

Rest == size - builder.written - input

\* push is called, for a frame's length or a frame.
Push(n) ==
  /\ phase = "push" /\ input = 0 /\ n > 0 /\ n <= Rest
  /\ n = Rest \/ pushed < MaxPushes
  /\ input' = n /\ pushed' = pushed + 1
  /\ UNCHANGED <<phase, size, decoy, builder, file, recovering>>

\* A round of its loop, for each part of the layout.
PushTo(part, limit) ==
  LET have == Bytes(builder[part])
      n == Lesser(input, limit - have)
  IN /\ input' = input - n
     /\ builder' = [builder EXCEPT ![part] = Grow(@, builder.written, n), !.written = @ + n,
                      !.marker = @ \/ (part = "first" /\ have + n = limit /\ Layout.second > 0)]

PushExif ==
  /\ phase = "push" /\ input > 0 /\ Bytes(builder.exif) < Layout.exif
  /\ PushTo("exif", Layout.exif)
  /\ UNCHANGED <<phase, size, decoy, pushed, file, recovering>>

PushFirst ==
  /\ phase = "push" /\ input > 0
  /\ Bytes(builder.exif) = Layout.exif /\ Bytes(builder.first) < Layout.first
  /\ PushTo("first", Layout.first)
  /\ UNCHANGED <<phase, size, decoy, pushed, file, recovering>>

PushSecond ==
  /\ phase = "push" /\ input > 0
  /\ Bytes(builder.exif) = Layout.exif /\ Bytes(builder.first) = Layout.first
  /\ Bytes(builder.second) < Layout.second
  /\ PushTo("second", Layout.second)
  /\ UNCHANGED <<phase, size, decoy, pushed, file, recovering>>

\* binary_to_base64_append_streaming: the bytes waiting from the last call make a
\* quartet with the first of this one, then come whole triplets; the rest waits.
Encode(b, n) ==
  LET waiting == Bytes(b.pending)
      lead == IF waiting = 0 THEN 0 ELSE Lesser(3 - waiting, n)
      filled == IF lead = 0 THEN b.pending ELSE Grow(b.pending, b.written, lead)
      whole == (n - lead) \div 3
      after == b.written + lead + 3 * whole
      led == IF Bytes(filled) = 3
             THEN [b EXCEPT !.text = Grow(@, filled[1][1], 3), !.quartets = @ + 1, !.pending = <<>>]
             ELSE [b EXCEPT !.pending = filled]
  IN [led EXCEPT !.text = IF whole = 0 THEN @ ELSE Grow(@, b.written + lead, 3 * whole),
                 !.quartets = @ + whole,
                 !.pending = IF after = b.written + n THEN @ ELSE <<<<after, b.written + n - after>>>>]

PushXmp ==
  /\ phase = "push" /\ input > 0
  /\ Bytes(builder.exif) = Layout.exif /\ Bytes(builder.first) = Layout.first
  /\ Bytes(builder.second) = Layout.second
  /\ LET n == Lesser(input, Layout.xmp - builder.raw) IN
     IF n = 0 THEN Step("internal") /\ UNCHANGED <<input, builder>>
     ELSE /\ input' = input - n
          /\ builder' = [Encode(builder, n) EXCEPT !.raw = @ + n, !.written = @ + n]
          /\ UNCHANGED phase
  /\ UNCHANGED <<size, decoy, pushed, file, recovering>>

\* A block of ciphertext in a segment: how far from the segment's start, how many
\* bytes of the file, the size written beside it, what it holds.
Block(offset, length, field, holds) ==
  [offset |-> offset, length |-> length, field |-> field, holds |-> holds]
Segment(kind, length, field, blocks) ==
  [kind |-> kind, length |-> length, field |-> field, blocks |-> blocks]

ExifSegment ==
  LET n == Bytes(builder.exif) IN
  Segment("exif", ExifTemplate - 2 + n, IF size > ExifLimit THEN TemplateSize.exif ELSE ExifData,
          <<Block(InsertIndex - 2, n, n, builder.exif)>>)
\* binary_to_base64_finalize: what waits makes the last quartet.
FinalText ==
  IF builder.pending = <<>> THEN <<builder.text, builder.quartets>>
  ELSE <<Grow(builder.text, builder.pending[1][1], Bytes(builder.pending)), builder.quartets + 1>>
XmpSegment ==
  LET length == XmpTemplate + 4 * FinalText[2] + XmpFooter IN
  Segment("xmp", length, length - 2, <<Block(XmpTemplate, 4 * FinalText[2], Layout.xmp, FinalText[1])>>)
PhotoshopLength ==
  PhotoshopTemplate + Bytes(builder.first) + (IF builder.marker THEN 5 ELSE 0) + Bytes(builder.second)
PhotoshopAsTemplate ==  \* mutant: the size in the template is never replaced
  Segment("photoshop", PhotoshopLength, TemplateSize.photoshop,
    <<Block(PhotoshopTemplate, Bytes(builder.first), Layout.first, builder.first)>>
    \o (IF builder.marker
        THEN <<Block(PhotoshopTemplate + Bytes(builder.first) + 5, Bytes(builder.second), Layout.second, builder.second)>>
        ELSE <<>>))
PhotoshopSegment ==
  Segment("photoshop", PhotoshopLength, PhotoshopLength - 2,
    <<Block(PhotoshopTemplate, Bytes(builder.first), Layout.first, builder.first)>>
    \o (IF builder.marker
        THEN <<Block(PhotoshopTemplate + Bytes(builder.first) + 5, Bytes(builder.second), Layout.second, builder.second)>>
        ELSE <<>>))

\* finish: the XMP segment goes before the Photoshop segment.
Finish ==
  /\ phase = "push" /\ input = 0 /\ builder.written = size
  /\ IF \/ Bytes(builder.exif) # Layout.exif \/ Bytes(builder.first) # Layout.first
        \/ Bytes(builder.second) # Layout.second \/ builder.raw # Layout.xmp
        \/ HasXmp /\ XmpSegment.length > XmpLimit
        \/ HasXmp /\ (PhotoshopLength - 2 # TemplateSize.photoshop \/ PhotoshopLength - 30 # TemplateSize.bim)
     THEN Step("internal") /\ UNCHANGED segs
     ELSE /\ segs' = <<ExifSegment>> \o (IF HasXmp THEN <<XmpSegment>> ELSE <<>>)
                     \o (IF HasPhotoshop THEN <<PhotoshopSegment>> ELSE <<>>)
          /\ Step("image")
  /\ builder' = EmptyBuilder /\ pushed' = 0
  /\ UNCHANGED <<size, decoy, input, harm, stated, recovering>>

-----------------------------------------------------------------------------
(* The image on its way.                                                   *)

\* A segment of another program may be a Photoshop or XMP segment of its own.
OtherKinds == {"other", "otherPhotoshop", "otherXmp"}
At(i) == 2 + SumTo([j \in DOMAIN segs |-> segs[j].length], i - 1)
ImageSize == At(Len(segs) + 1) + (IF harm = "cut" THEN 0 ELSE 200)  \* and the cover

\* Another program puts a segment in, before or behind one of ours.
PutIn(i, kind, length) ==
  /\ phase = "image" /\ harm = "none" /\ Len(SelectSeq(segs, LAMBDA s : s.kind \in OtherKinds)) < MaxOthers
  /\ segs' = InsertAt(segs, i, Segment(kind, length, length - 2, <<>>))
  /\ UNCHANGED <<phase, concealing, harm, stated, recovering>>

\* It drops one,
Drop(i) ==
  /\ phase = "image" /\ harm = "none" /\ segs[i].kind \notin OtherKinds
  /\ segs' = RemoveAt(segs, i) /\ harm' = "lost"
  /\ UNCHANGED <<phase, concealing, stated, recovering>>

\* cuts the image inside the ciphertext of the last segment it leaves,
CutAt(i) ==
  /\ phase = "image" /\ harm = "none" /\ segs[i].kind \notin OtherKinds
  /\ LET last == Last(segs[i].blocks) IN
     segs' = Append(SubSeq(segs, 1, i - 1), [segs[i] EXCEPT !.length = last.offset + last.length - 1])
  /\ harm' = "cut"
  /\ UNCHANGED <<phase, concealing, stated, recovering>>

\* or the sizes that are written down change.
AlterSizes ==
  /\ phase = "image" /\ harm = "none"
  /\ \/ /\ stated' \in {0, MinDeclared - 1, stated - 1, stated + 1, ExifLimit + 1, MaxDeclared + 1}
        /\ UNCHANGED segs
     \/ \E i \in DOMAIN segs, change \in {-1, 1} :
          /\ segs[i].kind \in {"exif", "photoshop"}
          /\ \/ segs' = [segs EXCEPT ![i].field = @ + change]
             \/ \E b \in DOMAIN segs[i].blocks : segs' = [segs EXCEPT ![i].blocks[b].field = @ + change]
        /\ UNCHANGED stated
  /\ harm' = "altered"
  /\ UNCHANGED <<phase, concealing, recovering>>

-----------------------------------------------------------------------------
(* recover.                                                                *)

OurExif == segs # <<>> /\ segs[1].kind = "exif"

\* recover_from_bluesky_path up to the KEY: detect_metadata_layout,
\* validate_declared_cipher_size and validate_bluesky_exif_metadata_capacity.
ExifEnd == 4 + segs[1].field
Available == ExifEnd - Start
ExifHolds == IF stated <= ReadExifLimit THEN stated <= Available ELSE Available >= ReadExifLimit
ReadMetadata ==
  /\ phase = "image"
  /\ Step(IF ~OurExif THEN "notOurs"
          ELSE IF /\ stated >= MinDeclared /\ stated <= MaxDeclared
                  /\ ExifEnd > Start /\ stated <= Lesser(Capacity, MaxDeclared) /\ ExifHolds
               THEN "exif" ELSE "refused")
  /\ UNCHANGED <<concealing, file, recovering>>

\* require_file_range
InFile(offset, length) == offset <= ImageSize /\ length <= ImageSize - offset
Take(offset, length) == taken' = Append(taken, <<offset, length>>)
TakenBytes == Bytes(taken)
Remaining == stated - TakenBytes
Done == IF Remaining = 0 THEN "done" ELSE "refused"

ExifChunk == Lesser(stated, ReadExifLimit)
AfterExif == Start + ExifChunk
SearchStart == AfterExif

\* read_bluesky_ciphertext, after the KEY: the EXIF part, then the search for the
\* Photoshop segment.
TakeExif ==
  /\ phase = "exif"
  /\ IF ~InFile(Start, ExifChunk) \/ ~InFile(2, ExifEnd - 2)
     THEN Step("refused") /\ UNCHANGED <<taken, scan>>
     ELSE /\ Take(Start, ExifChunk)
          /\ IF stated = ExifChunk THEN Step("done") /\ UNCHANGED scan
             ELSE IF SearchStart >= ImageSize THEN Step("refused") /\ UNCHANGED scan
             ELSE /\ Step("search")
                  /\ scan' = [for |-> "photoshop", from |-> SearchStart, carry |-> 0,
                              limit |-> Lesser(ImageSize, SearchStart + SearchWindow), consumed |-> SearchStart]
  /\ UNCHANGED <<concealing, file>>

\* Where a signature lies: in our segment, in a like one of another program, or by
\* chance in the ciphertext.
Holding(block) == {s \in ToSet(block.holds) : s[1] <= decoy /\ decoy < s[1] + s[2]}
DecoysOf(i) ==
  UNION {{At(i) + block.offset + decoy - s[1] : s \in Holding(block)} : block \in ToSet(segs[i].blocks)}
DecoyAt == UNION {DecoysOf(i) : i \in {i \in DOMAIN segs : segs[i].kind # "xmp"}}
OwnSignatures(kind) ==
  {At(i) + (IF kind = "photoshop" THEN PhotoshopAt ELSE 305) : i \in {i \in DOMAIN segs : segs[i].kind = kind}}
OtherSignatures(kind) ==
  IF kind = "photoshop"
  THEN {At(i) + PhotoshopAt : i \in {i \in DOMAIN segs : segs[i].kind = "otherPhotoshop"}}
  ELSE {At(i) + OtherXmpAt : i \in {i \in DOMAIN segs : segs[i].kind = "otherXmp"}}
Signatures(kind) ==
  {p \in OwnSignatures(kind) \cup OtherSignatures(kind) \cup DecoyAt : p + SignatureSize <= ImageSize}

\* One read of scan_file_windows, and the look at its window: the last bytes of the
\* window before are looked at again.
NoOverlap(window) == 0  \* mutant: the windows do not overlap
Overlap(window) == Lesser(SignatureSize - 1, window)
Window(got) == scan.carry + got
InWindow(got) ==
  {p \in Signatures(scan.for) :
     scan.consumed - scan.carry <= p /\ p + SignatureSize <= scan.consumed + got}

\* How much a read may return: all it can, or a part that ends inside a signature.
Wanted == Lesser(1048576, scan.limit - scan.consumed)
Readable == Lesser(Wanted, ImageSize - scan.consumed)
Parts == {p + k - scan.consumed : p \in Signatures(scan.for), k \in Splits}

ReadWindow(got) ==
  /\ phase = "search" /\ scan.consumed < scan.limit /\ Readable > 0
  /\ got \in 1..Readable
  /\ InWindow(got) = {}
  /\ scan' = [scan EXCEPT !.consumed = @ + got, !.carry = Overlap(Window(got))]
  /\ UNCHANGED <<phase, concealing, file, taken>>

NotFound ==
  /\ phase = "search" /\ (scan.consumed >= scan.limit \/ Readable = 0)
  /\ Step("refused")
  /\ UNCHANGED <<concealing, file, recovering>>

\* The first hit in a window, if there is one.
FirstHit(got) == {p \in InWindow(got) : \A q \in InWindow(got) : p <= q}

\* A signature found in the ciphertext has no APP13 marker before it; one in a segment
\* of another program has it if that is a Photoshop segment, and is then as good as ours.
FoundPhotoshop(got) ==
  /\ phase = "search" /\ scan.for = "photoshop" /\ got \in 1..Readable
  /\ \E p \in FirstHit(got) :
       \/ /\ p \in OwnSignatures("photoshop") \cup OtherSignatures("photoshop")
          /\ Step("first") /\ scan' = [scan EXCEPT !.from = p]
       \/ /\ p \notin OwnSignatures("photoshop")
          /\ Step("refused") /\ UNCHANGED scan
  /\ UNCHANGED <<concealing, file, taken>>

\* The datasets behind the signature: the sizes we wrote, or any if they are read in
\* a segment of another program or at another place.
Signature == scan.from
Photoshop == CHOOSE i \in DOMAIN segs : At(i) + PhotoshopAt = Signature
Mistaken == Signature \notin OwnSignatures("photoshop")
PsField == segs[Photoshop].field
BlockField(b) == IF b \in DOMAIN segs[Photoshop].blocks THEN segs[Photoshop].blocks[b].field ELSE 0

AnySize == {0, 1, Remaining, 65535}
FirstField == IF Mistaken THEN AnySize ELSE {BlockField(1)}
SecondField ==
  IF ~Mistaken /\ BlockField(1) = segs[Photoshop].blocks[1].length THEN {BlockField(2)} ELSE AnySize

TakeFirst ==
  /\ phase = "first"
  /\ LET at == Signature + 26 IN \E n \in FirstField :
     IF InFile(Signature - 7, PsField) /\ n > 0 /\ n <= Remaining /\ InFile(at, n)
     THEN /\ Take(at, n)
          /\ Step(IF n = Remaining THEN "done" ELSE IF PsField <= OnlyOneDataset THEN "refused" ELSE "second")
     ELSE Step("refused") /\ UNCHANGED taken
  /\ UNCHANGED <<concealing, file, scan>>

SecondAtSize == Last(taken)[1] + Last(taken)[2] + 3  \* mutant: the size counts as data
SecondAt == Last(taken)[1] + Last(taken)[2] + 5

TakeSecond ==
  /\ phase = "second"
  /\ LET at == SecondAt
     IN \E n \in SecondField :
     IF n > 0 /\ n <= Remaining /\ InFile(at, n)
     THEN /\ Take(at, n)
          /\ IF n = Remaining THEN Step("done") /\ UNCHANGED scan
             ELSE IF SearchStart >= Signature - 7 THEN Step("refused") /\ UNCHANGED scan
             ELSE /\ Step("search")
                  /\ scan' = [for |-> "xmp", from |-> SearchStart, carry |-> 0,
                              limit |-> Signature - 7, consumed |-> SearchStart]
     ELSE Step("refused") /\ UNCHANGED <<taken, scan>>
  /\ UNCHANGED <<concealing, file>>

\* The text behind the XMP signature, up to its "<": it must be base64 and hold
\* exactly what is left, as that of another program may, but not the ciphertext.
FoundXmp(got) ==
  /\ phase = "search" /\ scan.for = "xmp" /\ got \in 1..Readable
  /\ \E p \in FirstHit(got) :
     LET mine == {i \in DOMAIN segs : segs[i].kind = "xmp" /\ At(i) + 305 = p} IN
     IF \E i \in mine : segs[i].blocks[1].length < MaxScan /\ Bytes(segs[i].blocks[1].holds) = Remaining
     THEN Take(p + 8, Remaining) /\ Step("done")
     ELSE \/ p \in OtherSignatures("xmp") /\ Take(p + 8, Remaining) /\ Step("done")
          \/ Step("refused") /\ UNCHANGED taken
  /\ UNCHANGED <<concealing, file, scan>>

\* A signal, or a read that fails.
Fails ==
  /\ phase \in {"push", "exif", "search", "first", "second"}
  /\ Step("failed")
  /\ UNCHANGED <<concealing, file, recovering>>

Reading == \E got \in Parts \cup {Readable} : ReadWindow(got) \/ FoundPhotoshop(got) \/ FoundXmp(got)
Packing ==
  \/ \E n \in Pushes \cup {Rest} : Push(n)
  \/ PushExif \/ PushFirst \/ PushSecond \/ PushXmp
Travelling ==
  \/ \E i \in 1..(Len(segs) + 1), kind \in OtherKinds : \E n \in OtherSizes[kind] : PutIn(i, kind, n)
  \/ \E i \in DOMAIN segs : Drop(i) \/ CutAt(i)
  \/ AlterSizes

Next ==
  \/ CheckPayload \/ New \/ Packing \/ Finish
  \/ Travelling
  \/ ReadMetadata \/ TakeExif \/ Reading \/ NotFound \/ TakeFirst \/ TakeSecond
  \/ Fails

Spec == Init /\ [][Next]_bskyVars

-----------------------------------------------------------------------------
(* What must hold.                                                         *)

\* No Photoshop or XMP segment of another program stands where recover comes upon it
\* before ours: recover takes the first.
NoneInFront(kind) == \A q \in OtherSignatures(kind) : \E p \in OwnSignatures(kind) : p < q
Unmistakable == (HasPhotoshop => NoneInFront("photoshop")) /\ (HasXmp => NoneInFront("xmp"))

\* What recover puts together from an undamaged, unmistakable image is the ciphertext:
\* every place it reads holds the next bytes, none twice and none left out, whatever
\* the pieces were in which it was packed.
BlueskyIsReassembled ==
  phase = "done" /\ harm = "none" /\ Unmistakable =>
    /\ TakenBytes = size
    /\ \A k \in DOMAIN taken : \E i \in DOMAIN segs : \E b \in DOMAIN segs[i].blocks :
         /\ At(i) + segs[i].blocks[b].offset = taken[k][1]
         /\ segs[i].blocks[b].holds = <<<<BytesUpTo(taken, k - 1), taken[k][2]>>>>

\* A payload within the capacity that is foreseen is never refused later by the
\* packer, and an image to which only segments behind the EXIF segment were added,
\* of Slack bytes in all and none that is taken for ours, is never refused by recover.
Slack == 131010
OthersSize ==
  SumTo([j \in DOMAIN segs |-> IF segs[j].kind \in OtherKinds THEN segs[j].length ELSE 0], Len(segs))
BlueskyIsAccepted ==
  /\ phase # "internal"
  /\ harm = "none" /\ OthersSize <= Slack /\ Unmistakable /\ (segs # <<>> => OurExif)
     => phase \notin {"notOurs", "refused"}

\* The sizes written in the image are those of its segments and datasets, the ones
\* that stand in the templates included, and fit their fields; the segments are
\* those that are reported.
SizesAreTrue ==
  phase = "image" /\ harm = "none" =>
    /\ stated = size
    /\ \A i \in DOMAIN segs :
         /\ segs[i].field = segs[i].length - 2 /\ segs[i].field <= 65535
         /\ \A b \in DOMAIN segs[i].blocks : segs[i].blocks[b].field = Bytes(segs[i].blocks[b].holds)
    /\ SegmentUse = [photoshop |-> \E i \in DOMAIN segs : segs[i].kind = "photoshop",
                     xmp |-> \E i \in DOMAIN segs : segs[i].kind = "xmp"]

\* An image that lost one of its segments, or its end, is not put together, unless
\* another program's segment stands in for the lost one.
BlueskyIncompleteIsRefused == harm \in {"lost", "cut"} /\ Unmistakable => phase # "done"
=============================================================================
