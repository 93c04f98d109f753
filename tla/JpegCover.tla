------------------------------- MODULE JpegCover -------------------------------
(***************************************************************************)
(* What conceal does to a cover before anything is hidden in it            *)
(* (jpeg_preprocess.rs): a scan of its own reads the dimensions and the    *)
(* EXIF orientation, TurboJPEG rewrites the image upright, and what is in  *)
(* front of its tables is cut off.  The coefficient carriers skip the      *)
(* rewrite for a cover it would not change.                                *)
(*                                                                         *)
(* An image is the sequence of its segments after SOI: "exif" with its     *)
(* orientation, "adobe", "dqt", "sof", "sos" and "app" for the others.  A  *)
(* bare segment is one without the byte FF that makes it one for libjpeg.  *)
(* A part of an image, such as its header, is a set of places.             *)
(***************************************************************************)
EXTENDS Integers, SequencesExt

CONSTANTS
  TableSums,        \* sums of quantization tables
  McuSide           \* side of the blocks that a lossless rotation moves

ASSUME JpegCoverAssumption == TableSums \subseteq Nat /\ McuSide \in Nat \ {0}

DefaultLimits == [side |-> 4096, pixels |-> 4096 * 4096]
RedditLimits == [side |-> 8192, pixels |-> 8192 * 8192]
MinSide == 400              \* MIN_COVER_DIMENSION
MaxQuality == 97            \* MAX_ALLOWED_QUALITY
MaxScans == 100             \* MAX_CARRIER_INPUT_SCANS, MAX_INPUT_SCANS
TransformScans == 500       \* TJFLAG_LIMITSCANS
AdobeLength == 16           \* of the segment

\* An image that libjpeg can be given: of its segments only the frames matter.
Frames == [kind : {"sof"}, bare : BOOLEAN, width : Nat, height : Nat, tables : Seq(Nat), progressive : BOOLEAN]
IsJpeg(jpeg) ==
  /\ jpeg.segs \in Seq(ToSet(jpeg.segs))
  /\ \A g \in ToSet(jpeg.segs) : g.kind = "sof" => g \in Frames

Nothing == [found |-> FALSE]
\* The places of a kind, and the first and the last of places; 0 for none.
Of(segs, places, kind) == {i \in places : segs[i].kind = kind}
FirstAt(places) == IF places = {} THEN 0 ELSE Min(places)
LastAt(places) == IF places = {} THEN 0 ELSE Max(places)
Absolute(n) == IF n < 0 THEN -n ELSE n
Dimensions(x) == <<x.width, x.height>>

-----------------------------------------------------------------------------
(* The scan of the cover's header.                                         *)

\* Up to the start of the scan; a bare byte before it is not followed.
HeaderEnd(jpeg) == FirstAt({i \in DOMAIN jpeg.segs : jpeg.segs[i].kind = "sos" \/ jpeg.segs[i].bare})
Header(jpeg) == 1..(HeaderEnd(jpeg) - 1)

\* exif_orientation_from_tiff of the segments in order, until one has it; 0 for none
FirstOrientation(segs, header) ==
  LET with == {i \in Of(segs, header, "exif") : segs[i].orientation # 0}
  IN IF with = {} THEN 0 ELSE segs[Min(with)].orientation

\* jpeg_prescan
NoFrame == [width |-> 0, height |-> 0, tables |-> <<>>]
HeaderEnds(jpeg, end) == end # 0 /\ ~jpeg.segs[end].bare
ScanOf(segs, header, frames) ==
  IF Cardinality(frames) > 1 \/ \E f \in frames : segs[f].tables = <<>> THEN Nothing
  ELSE LET frame == IF frames = {} THEN NoFrame ELSE segs[Min(frames)]
       IN [found |-> TRUE, width |-> frame.width, height |-> frame.height,
           components |-> Len(frame.tables), orientation |-> FirstOrientation(segs, header)]
Prescan(jpeg) ==
  IF HeaderEnds(jpeg, HeaderEnd(jpeg))
  THEN ScanOf(jpeg.segs, Header(jpeg), Of(jpeg.segs, Header(jpeg), "sof"))
  ELSE Nothing

\* get_transform_op
Transforms == <<"none", "hflip", "rot180", "vflip", "transpose", "rot90", "transverse", "rot270">>
TransformOp(orientation) == IF orientation \in 2..8 THEN Transforms[orientation] ELSE "none"

-----------------------------------------------------------------------------
(* libjpeg and TurboJPEG.  They skip bare segments, and take one frame.    *)

Framed(jpeg) == {i \in DOMAIN jpeg.segs : ~jpeg.segs[i].bare}
BeforeScan(segs, places) == {i \in places : i < FirstAt(Of(segs, places, "sos"))}
DecodedHeader(jpeg) == BeforeScan(jpeg.segs, Framed(jpeg))
LastTable(segs, header, id) == LastAt({i \in Of(segs, header, "dqt") : segs[i].id = id})

\* tjDecompressHeader3, jpeg_read_header
OnlyFrame(segs, frames) ==
  IF \/ Cardinality(frames) # 1
     \/ \E f \in frames : segs[f].width = 0 \/ segs[f].height = 0 \/ segs[f].tables = <<>>
  THEN Nothing
  ELSE LET frame == segs[CHOOSE f \in frames : TRUE]
       IN [found |-> TRUE, width |-> frame.width, height |-> frame.height,
           tables |-> frame.tables, progressive |-> frame.progressive]
DecoderFrame(jpeg) ==
  IF Of(jpeg.segs, Framed(jpeg), "sos") = {} THEN Nothing
  ELSE OnlyFrame(jpeg.segs, Of(jpeg.segs, DecodedHeader(jpeg), "sof"))

HasTablesOf(segs, header, frame) == \A id \in ToSet(frame.tables) : LastTable(segs, header, id) # 0
HasTables(jpeg) == HasTablesOf(jpeg.segs, DecodedHeader(jpeg), DecoderFrame(jpeg))
IsRgb(jpeg) ==
  /\ Len(DecoderFrame(jpeg).tables) = 3
  /\ \E i \in Of(jpeg.segs, DecodedHeader(jpeg), "adobe") : jpeg.segs[i].rgb

\* A transform that moves the right or the lower edge to the left or the top drops
\* what is left of a block there (TJXOPT_TRIM).
Trim(n) == n - (n % McuSide)
Turned(op, width, height) ==
  CASE op = "hflip" -> <<Trim(width), height>>
    [] op = "vflip" -> <<width, Trim(height)>>
    [] op = "rot180" -> <<Trim(width), Trim(height)>>
    [] op = "transpose" -> <<height, width>>
    [] op = "rot90" -> <<Trim(height), width>>
    [] op = "rot270" -> <<height, Trim(width)>>
    [] op = "transverse" -> <<Trim(height), Trim(width)>>
    [] OTHER -> <<width, height>>

\* tjTransform, without the metadata of the source: a JFIF or an Adobe segment, the
\* tables, the frame, the scans.
Framing(kind) == [kind |-> kind, bare |-> FALSE]
Tables(segs, header, frame) == {segs[LastTable(segs, header, id)] : id \in ToSet(frame.tables)}
Resized(frame, size, progressive) ==
  [kind |-> "sof", bare |-> FALSE, width |-> size[1], height |-> size[2],
   tables |-> frame.tables, progressive |-> progressive]
Rewritten(tables, frame, rgb, op, progressive) ==
  [segs |-> <<IF rgb THEN [kind |-> "adobe", bare |-> FALSE, rgb |-> TRUE] ELSE Framing("app")>>
              \o SetToSeq(tables)
              \o <<Resized(frame, Turned(op, frame.width, frame.height), progressive), Framing("sos")>>,
   scans |-> IF progressive THEN 10 ELSE 1]
Transformed(jpeg, op, progressive) ==
  Rewritten(Tables(jpeg.segs, DecodedHeader(jpeg), DecoderFrame(jpeg)),
            DecoderFrame(jpeg), IsRgb(jpeg), op, progressive)

CanTransform(jpeg) == HasTables(jpeg) /\ jpeg.scans <= TransformScans

-----------------------------------------------------------------------------
(* What is made of the rewritten image.                                    *)

\* quality_from_luminance_sum: the nearest standard table, on a tie the lower quality.
StandardSums == <<
  16320, 16315, 15946, 15277, 14655, 14073, 13623, 13230, 12859, 12560, 12240, 11861, 11456,
  11081, 10714, 10360, 10027, 9679, 9368, 9056, 8680, 8331, 7995, 7668, 7376, 7084, 6823, 6562,
  6345, 6125, 5939, 5756, 5571, 5421, 5240, 5086, 4976, 4829, 4719, 4616, 4463, 4393, 4280, 4166,
  4092, 3980, 3909, 3835, 3755, 3688, 3621, 3541, 3467, 3396, 3323, 3247, 3170, 3096, 3021, 2952,
  2874, 2804, 2727, 2657, 2583, 2509, 2437, 2362, 2290, 2211, 2136, 2068, 1996, 1915, 1858, 1773,
  1692, 1620, 1552, 1477, 1398, 1326, 1251, 1179, 1109, 1031, 961, 884, 814, 736, 667, 592, 518,
  441, 369, 292, 221, 151, 86, 64>>
Distance(sum, quality) == Absolute(sum - StandardSums[quality])
Nearest(sum) == {q \in 1..100 : \A other \in 1..100 : Distance(sum, q) <= Distance(sum, other)}
QualityOf == [sum \in TableSums |-> Min(Nearest(sum))]

\* inspect_transformed_jpeg, which follows any marker byte.
QualityAt(segs, table) == IF table = 0 THEN 0 ELSE QualityOf[segs[table].sum]
InspectHeader(segs, header, frames) ==
  IF \E f \in frames : segs[f].tables = <<>> THEN Nothing
  ELSE LET frame == IF frames = {} THEN NoFrame ELSE segs[Max(frames)]
       IN [found |-> TRUE,
           offset |-> FirstAt(Of(segs, header, "dqt")),
           width |-> frame.width, height |-> frame.height,
           quality |-> IF frames = {} THEN 0
                       ELSE QualityAt(segs, LastTable(segs, header, frame.tables[1]))]
UpToScan(segs) ==
  IF Of(segs, DOMAIN segs, "sos") = {} THEN DOMAIN segs ELSE BeforeScan(segs, DOMAIN segs)
Inspect(segs) == InspectHeader(segs, UpToScan(segs), Of(segs, UpToScan(segs), "sof"))

\* keep_adobe_segment: the Adobe segment goes right before the first table, where the
\* image is cut.
KeepAdobe(segs, offset) ==
  LET at == FirstAt(Of(segs, 1..(offset - 1), "adobe"))
  IN IF at = 0 THEN [segs |-> segs, from |-> offset]
     ELSE [segs |-> SubSeq(segs, 1, at - 1) \o SubSeq(segs, at + 1, offset - 1)
                      \o <<segs[at]>> \o SubSeq(segs, offset, Len(segs)),
           from |-> offset - 1]

-----------------------------------------------------------------------------
(* The two ways to take a cover.                                           *)

Allowed(size, limits) ==
  /\ size.width >= MinSide /\ size.height >= MinSide
  /\ size.width <= limits.side /\ size.height <= limits.side
  /\ size.width * size.height <= limits.pixels

\* The checks before the rewrite, on the frame that libjpeg decodes.
FramesAccepted(scan, decoder, limits) ==
  /\ scan.found /\ Allowed(scan, limits) /\ scan.components \in {1, 3}
  /\ decoder.found /\ Dimensions(decoder) = Dimensions(scan)
HeaderAccepted(jpeg, limits) == FramesAccepted(Prescan(jpeg), DecoderFrame(jpeg), limits)

\* And those after it.
Cut(rewritten, info, kept, op) ==
  [found |-> TRUE, jpeg |-> [rewritten EXCEPT !.segs = kept.segs], from |-> kept.from,
   leading |-> (info.offset - kept.from) * AdobeLength,
   width |-> info.width, height |-> info.height, op |-> op]
Finish(rewritten, info, op, enforceQuality) ==
  IF /\ info.found /\ info.width >= MinSide /\ info.height >= MinSide
     /\ info.quality # 0 /\ (enforceQuality => info.quality <= MaxQuality)
     /\ info.offset # 0
  THEN Cut(rewritten, info, KeepAdobe(rewritten.segs, info.offset), op)
  ELSE Nothing

\* optimize_image_with_turbojpeg
Rewrite(rewritten, op, enforceQuality) == Finish(rewritten, Inspect(rewritten.segs), op, enforceQuality)
Turn(jpeg, op, progressive, enforceQuality) ==
  Rewrite(Transformed(jpeg, op, progressive), op, enforceQuality)
Optimize(jpeg, progressive, enforceQuality, limits) ==
  IF HeaderAccepted(jpeg, limits) /\ CanTransform(jpeg)
  THEN Turn(jpeg, TransformOp(Prescan(jpeg).orientation), progressive, enforceQuality)
  ELSE Nothing

\* cover_needs_no_normalization
IsUpright(scan, info) ==
  /\ TransformOp(scan.orientation) = "none"
  /\ info.found /\ Dimensions(info) = Dimensions(scan) /\ info.quality # 0
NeedsNoRotation(jpeg, limits) ==  \* mutant: the scans are not counted
  HeaderAccepted(jpeg, limits) /\ IsUpright(Prescan(jpeg), Inspect(jpeg.segs))
NeedsNoNormalization(jpeg, limits) ==
  /\ HeaderAccepted(jpeg, limits) /\ IsUpright(Prescan(jpeg), Inspect(jpeg.segs))
  /\ jpeg.scans <= MaxScans

\* carrier_cover_source
AsRead(jpeg) == [found |-> TRUE, jpeg |-> jpeg, op |-> "none"]
CarrierSource(jpeg, limits) ==
  IF NeedsNoNormalization(jpeg, limits) THEN AsRead(jpeg)
  ELSE Optimize(jpeg, FALSE, FALSE, limits)

\* What the carriers' own decoders take: validateCoverInput, validateDecodableCover,
\* validateDimensions, and the limit on scans.
TakesFrame(frame, limits) ==
  frame.found /\ Len(frame.tables) \in {1, 3} /\ Allowed(frame, limits)
CarrierTakes(jpeg, limits) ==
  TakesFrame(DecoderFrame(jpeg), limits) /\ HasTables(jpeg) /\ jpeg.scans <= MaxScans

-----------------------------------------------------------------------------
(* How a picture looks: the four corners of what is stored, and the side   *)
(* of the display on which an orientation shows the first row and column.  *)

Stored == [c \in {{"top", "left"}, {"top", "right"}, {"bottom", "left"}, {"bottom", "right"}} |-> c]
FirstRow == <<"top", "top", "bottom", "bottom", "left", "right", "right", "left">>
FirstColumn == <<"left", "right", "right", "left", "top", "top", "bottom", "bottom">>
Displayed(orientation, picture) ==
  [c \in DOMAIN picture |->
     picture[{IF FirstRow[orientation] \in c THEN "top" ELSE "bottom",
              IF FirstColumn[orientation] \in c THEN "left" ELSE "right"}]]

\* TurboJPEG: from which side of the source a side of the result comes.
Sides(t, b, l, r) == [top |-> t, bottom |-> b, left |-> l, right |-> r]
Source == [
  none |-> Sides("top", "bottom", "left", "right"),
  hflip |-> Sides("top", "bottom", "right", "left"),
  vflip |-> Sides("bottom", "top", "left", "right"),
  rot180 |-> Sides("bottom", "top", "right", "left"),
  transpose |-> Sides("left", "right", "top", "bottom"),
  rot90 |-> Sides("left", "right", "bottom", "top"),
  transverse |-> Sides("right", "left", "bottom", "top"),
  rot270 |-> Sides("right", "left", "top", "bottom")]
TurnedPicture(op, picture) ==
  [c \in DOMAIN picture |-> picture[{Source[op][side] : side \in c}]]
=============================================================================
