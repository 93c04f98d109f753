-------------------------------- MODULE Pipeline --------------------------------
(***************************************************************************)
(* One run of conceal (conceal.rs) from the two files to the image and its *)
(* KEY, or of capsize; then what a platform puts in front of the image;    *)
(* then recover (recover/), which is told nothing and finds out by itself  *)
(* what kind of image it has.                                              *)
(*                                                                         *)
(* The data file may be replaced while conceal runs.  The insides of the   *)
(* stream, of the segments and of the carriers are in other modules.       *)
(***************************************************************************)
EXTENDS JpegCover, CapacitySearch

CONSTANTS
  Inputs,           \* pairs of a cover file and a data file
  Replacements,     \* data files that may take the place of another
  NameLengths,      \* of the data file's name, in bytes
  MaxFile,          \* MAX_FILE_SIZE, STREAM_INFLATE_MAX_OUTPUT
  MaxConceal,       \* MAX_SIZE_CONCEAL
  BlueskyRooms,     \* bytes of a Bluesky image beside the ciphertext and the cover
  EmbedGrowths,     \* by how much writing the payload changes the size of a carrier
  FrontSegments,    \* segments a platform may put before those of the image
  Keys              \* that may be typed, among them the one that was shown

\* constants.rs, jpeg_preprocess.rs
MiB == 1048576
MinImage == 134
MaxImage == 8 * MiB
RedditUpload == 20 * MiB
TwitterUpload == 5 * MiB
ProgressiveSource == 2 * MiB
MaxOptimized == 4 * MiB
MaxBlueskyImage == 2000000
MaxBlueskyData == 2 * MiB
BypassSize == 10 * MiB
MaxName == 20
KiB == 1024
BlueskyCapacity == 175245     \* max_bluesky_embedded_cipher_capacity
MinCipher == PerChunk
IccTemplate == 851
\* places in the segments: of the writer in the file, of the reader in the profile
KdfAt == 787 \* DEFAULT_KDF_METADATA_INDEX
MarkAt == 128 \* NO_ZLIB_COMPRESSION_ID_INDEX
BlueskyKdfAt == 397
ProfileAt == 24 \* BASE_OFFSET_DEFAULT
KdfInProfile == 763 \* DEFAULT_DECRYPT_KDF_METADATA_INDEX
MarkInProfile == 104
\* runtime costs of the key derivation, and the bounds recover sets to those of an image
Costs == [ops |-> 2, mem |-> 67108864]
OpsRange == 1..16
MemMin == 8192
MemMax == 536870912
MaxLeadingBytes == 65536
MaxLeading == 16

Modes == {"default", "bluesky", "reddit", "twitter"}
Carriers == {"reddit", "twitter"}

\* What the files and the limits are.  A platform writes no segment that could be
\* taken for one of conceal's.
CoverFile(c) ==
  /\ IsJpeg(c.jpeg) /\ c.jpeg.scans \in Nat
  /\ \A g \in ToSet(c.jpeg.segs) : g.kind = "dqt" => g.sum \in TableSums
  /\ c.size \in Nat /\ c.body \in Nat /\ c.transcoded \in Nat /\ c.nonzero \in Nat
DataFiles == [id : STRING, size : Nat, deflated : Nat, known : BOOLEAN]
ASSUME PipelineAssumption ==
  /\ MaxFile \in Nat /\ MaxConceal \in Nat
  /\ MaxConceal + MaxLeadingBytes <= MaxFile /\ RedditUpload <= MaxFile
  /\ NameLengths \subseteq Nat /\ BlueskyRooms \subseteq Nat /\ EmbedGrowths \subseteq Int
  /\ "shown" \in Keys /\ "none" \notin Keys
  /\ \A input \in Inputs : CoverFile(input[1]) /\ input[2] \in DataFiles
  /\ Replacements \subseteq DataFiles
  /\ FrontSegments \subseteq [kind : {"app", "app2"}, length : Nat]

VARIABLES
  pc, refusal,      \* where the run is; why it was refused
  task, mode,       \* "conceal" or "capsize"; the option
  coverFile,        \* [jpeg, size, body, transcoded, nonzero]
  dataFile,         \* [id, size, deflated, known], as it is on disk now
  replaced,         \* the data file was
  measured,         \* source_data_size
  name,             \* length of the data file's name
  cover,            \* the prepared cover
  bypass,           \* bypass_compression
  stored,           \* PreparedPayloadInput: whose content, deflated?, how many bytes
  sealed,           \* the encrypted payload
  image,            \* the image that conceal wrote
  report,           \* platforms that are named with the KEY
  layout,           \* what recover takes the image for
  typed,            \* the KEY that is typed
  output            \* what recover writes

files == <<coverFile, dataFile, replaced, name>>
prepared == <<measured, cover, bypass, stored, sealed>>
recovered == <<layout, typed, output>>
chosen == <<task, mode>>
vars == <<pc, refusal, chosen, files, prepared, image, report, recovered, searchVars>>

None == [none |-> TRUE]
Goto(l) == pc' = l /\ UNCHANGED refusal
Refuse(why) == pc' = "refused" /\ refusal' = why
\* goes on to l when it holds, and else is refused
Require(holds, why, l) == IF holds THEN Goto(l) ELSE Refuse(why)

PipelineInit ==
  /\ pc = "start" /\ refusal = "none"
  /\ task \in {"conceal", "capsize"} /\ mode \in Modes /\ (task = "capsize" => mode \in Carriers)
  /\ \E input \in Inputs : coverFile = input[1] /\ dataFile = input[2]
  /\ name \in NameLengths /\ replaced = FALSE
  /\ measured = 0 /\ cover = None /\ bypass = FALSE /\ stored = None /\ sealed = None
  /\ image = None /\ report = {}
  /\ layout = "unknown" /\ typed = "none" /\ output = None
  /\ SearchIdle

-----------------------------------------------------------------------------
(* conceal: the files and the cover.                                       *)

\* validate_file_for_read, validate_reddit_cover_for_read, validate_twitter_cover_for_read,
\* validate_data_filename, and the preliminary limits of the carriers.
LargestCover == [default |-> MaxImage, bluesky |-> MaxImage, reddit |-> RedditUpload, twitter |-> TwitterUpload]
LargestData == [default |-> MaxFile, bluesky |-> MaxFile, reddit |-> RedditUpload, twitter |-> TwitterUpload]
ValidateInputs ==
  /\ pc = "start"
  /\ measured' = IF task = "conceal" THEN dataFile.size ELSE 0
  /\ Require(/\ coverFile.size >= MinImage /\ coverFile.size <= LargestCover[mode]
             /\ task = "conceal" =>
                  dataFile.size # 0 /\ dataFile.size <= LargestData[mode] /\ name <= MaxName,
             "input", "cover")
  /\ UNCHANGED <<chosen, files, cover, bypass, stored, sealed, image, report, recovered, searchVars>>

\* prepare_cover_image_for_conceal; body is the size from the first table on.
OptimizedCover ==
  Optimize(coverFile.jpeg, mode = "default" /\ measured < ProgressiveSource, mode = "default",
           DefaultLimits)
KeepCover(optimized) == [
  jpeg |-> optimized.jpeg, op |-> optimized.op, from |-> optimized.from,
  leading |-> optimized.leading, size |-> coverFile.body + optimized.leading]
SizeAccepted(size) == size <= MaxOptimized /\ (mode = "bluesky" => size <= MaxBlueskyImage)
TakeOptimized(optimized) ==
  IF optimized.found /\ SizeAccepted(coverFile.body + optimized.leading)
  THEN Goto("format") /\ cover' = KeepCover(optimized)
  ELSE Refuse("cover") /\ UNCHANGED cover
PrepareSegmentCover ==
  /\ pc = "cover" /\ mode \notin Carriers
  /\ TakeOptimized(OptimizedCover)
  /\ UNCHANGED <<chosen, files, measured, bypass, stored, sealed, image, report, recovered, searchVars>>

\* The C++ carriers.  Reddit: ten coefficients of a block, three copies of a bit; the
\* header, 17 copies of its bits, takes one coefficient of a block.
CeilingDiv(n, d) == (n + d - 1) \div d
Blocks(frame) == CeilingDiv(frame.width, 8) * CeilingDiv(frame.height, 8)
HeaderBits == 192            \* CARRIER_HEADER_BYTES
RedditHeaderSlots == HeaderBits * 17
RedditCapacity(blocks) == ((blocks * 10) \div 3) \div 8
\* X-Twitter, calculateEmbeddingCapacity: two bits in five symbols.
RequiredCover(n) == (n * 5 + 1) \div 2
HeaderSymbols == RequiredCover(HeaderBits)
Candidates(frame) == frame.width * frame.height - Blocks(frame)
TwitterCapacityOfAll(candidates, nonzero) ==  \* mutant: nothing is set aside for the header
  Min({(nonzero * 2) \div 5, (candidates * 2) \div 5}) \div 8
TwitterCapacity(candidates, nonzero) ==
  IF candidates < HeaderSymbols \/ (nonzero * 2) \div 5 <= HeaderBits THEN 0
  ELSE Min({((nonzero * 2) \div 5) - HeaderBits, ((candidates - HeaderSymbols) * 2) \div 5}) \div 8

CarrierLimits == IF mode = "reddit" THEN RedditLimits ELSE DefaultLimits
CarrierCapacity(frame) ==
  IF mode = "reddit" THEN RedditCapacity(Blocks(frame))
  ELSE TwitterCapacity(Candidates(frame), coverFile.nonzero)
\* inspect_cover, which only X-Twitter asks for.
InspectedFrame(frame) ==
  frame.found /\ frame.width <= DefaultLimits.side /\ frame.height <= DefaultLimits.side
Inspected == mode = "twitter" => InspectedFrame(DecoderFrame(coverFile.jpeg))

\* prepare_reddit_carrier, prepare_twitter_carrier
CarrierAccepted(source, frame) ==
  /\ CarrierTakes(source.jpeg, CarrierLimits)
  /\ mode = "reddit" => Blocks(frame) >= RedditHeaderSlots
  /\ coverFile.transcoded <= LargestCover[mode]
TakeCarrier(source, frame) ==
  IF ~CarrierAccepted(source, frame) THEN Refuse("cover") /\ UNCHANGED <<cover, searchVars>>
  ELSE /\ cover' = [jpeg |-> source.jpeg, op |-> source.op, size |-> coverFile.transcoded,
                    blocks |-> Blocks(frame), candidates |-> Candidates(frame),
                    capacity |-> CarrierCapacity(frame)]
       /\ IF task = "capsize" THEN Goto("capsize") /\ AskFor(CarrierCapacity(frame), MaxName)
          ELSE Goto("payload") /\ UNCHANGED searchVars
TakeSource(source) ==
  IF Inspected /\ source.found THEN TakeCarrier(source, DecoderFrame(source.jpeg))
  ELSE Refuse("cover") /\ UNCHANGED <<cover, searchVars>>
PrepareCarrierCover ==
  /\ pc = "cover" /\ mode \in Carriers
  /\ TakeSource(CarrierSource(coverFile.jpeg, CarrierLimits))
  /\ UNCHANGED <<chosen, files, measured, bypass, stored, sealed, image, report, recovered>>

-----------------------------------------------------------------------------
(* conceal: the data.                                                      *)

\* already_compressed_format; Bluesky has no way to say that its data is raw.
DetectFormat ==
  /\ pc = "format"
  /\ bypass' = (measured > BypassSize /\ dataFile.known)
  /\ Require(~(mode = "bluesky" /\ bypass'), "input", "payload")
  /\ UNCHANGED <<chosen, files, measured, cover, stored, sealed, image, report, recovered, searchVars>>

\* prepare_payload_input with RawStorage: what is raw is read from the disk when it is
\* encrypted, what is deflated was read here, to its end.
RawPayload == [deflated |-> FALSE, size |-> measured]
SmallerForm ==  \* mutant: of the two forms the smaller, whatever the mode
  IF dataFile.deflated >= measured THEN RawPayload
  ELSE [deflated |-> TRUE, size |-> dataFile.deflated, data |-> dataFile]
StoredForm ==
  IF mode # "bluesky" /\ dataFile.deflated >= measured THEN RawPayload
  ELSE [deflated |-> TRUE, size |-> dataFile.deflated, data |-> dataFile]
PreparePayload ==
  LET unchanged == bypass \/ dataFile.size = measured
  IN /\ pc = "payload"
     /\ Require(unchanged, "changed", "limits")
     /\ stored' = IF ~unchanged THEN None ELSE IF bypass THEN RawPayload ELSE StoredForm
     /\ UNCHANGED <<chosen, files, measured, cover, bypass, sealed, image, report, recovered, searchVars>>

Encrypted == Estimate(stored.size, 1 + name)
\* embedded_jpg_size of the default mode, with the headers of its segments.
IccSize(encrypted) ==
  IF IccTemplate + encrypted <= 65539 THEN IccTemplate + encrypted
  ELSE CeilingDiv(IccTemplate - 20 + encrypted, 65519) * 18 + IccTemplate - 18 + encrypted
\* validate_combined_size_limits, and the check of the carriers.
CheckLimits ==
  LET fits == CASE mode = "default" -> IccSize(Encrypted) + cover.size <= MaxConceal
                [] mode = "bluesky" -> Encrypted <= Min({BlueskyCapacity, MaxBlueskyData})
                [] OTHER -> EnvelopeSize(Encrypted) <= cover.capacity
  IN /\ pc = "limits"
     /\ IF fits THEN Goto("encrypt") /\ UNCHANGED searchVars
        ELSE IF mode \in Carriers THEN Goto("tooMuch") /\ AskFor(cover.capacity, name)
        ELSE Refuse("capacity") /\ UNCHANGED searchVars
     /\ UNCHANGED <<chosen, files, prepared, image, report, recovered>>

\* max_carrier_stored_payload
FindCapacity ==
  /\ pc \in {"tooMuch", "capsize"}
  /\ SearchStep
  /\ UNCHANGED <<pc, refusal, chosen, files, prepared, image, report, recovered>>
\* fail_carrier_payload_capacity
TellCapacity ==
  /\ pc = "tooMuch" /\ search = "found"
  /\ report' = [largest |-> lower, over |-> IF stored.size > lower THEN stored.size - lower ELSE 1]
  /\ Refuse("capacity")
  /\ UNCHANGED <<chosen, files, prepared, image, recovered, searchVars>>
\* carrier_capacity_limits, of the longest name
TellLimits ==
  /\ pc = "capsize" /\ search = "found"
  /\ report' = [conservative |-> lower, recommended |-> IF lower > KiB THEN lower - KiB ELSE 0]
  /\ Goto("told")
  /\ UNCHANGED <<chosen, files, prepared, image, recovered, searchVars>>

\* encrypt_file_with_secretstream_*; what is raw is read now, and has to be as large as
\* it was.
Sealed(data) == [
  key |-> <<"shown", Costs>>, mode |-> stored.deflated,
  data |-> data, name |-> name, size |-> Encrypted]
Encrypt ==
  LET unchanged == stored.deflated \/ dataFile.size = stored.size
      accepted == name >= 1 /\ unchanged
  IN /\ pc = "encrypt"
     /\ Require(accepted, IF unchanged THEN "input" ELSE "changed", "embed")
     /\ sealed' = IF ~accepted THEN None
                  ELSE Sealed(IF stored.deflated THEN stored.data ELSE dataFile)
     /\ UNCHANGED <<chosen, files, measured, cover, bypass, stored, image, report, recovered, searchVars>>

-----------------------------------------------------------------------------
(* conceal: the image.                                                     *)

Segment(kind, length) == [kind |-> kind, length |-> length]
Raw == [byte |-> "raw"]         \* NO_ZLIB_COMPRESSION_ID
OtherBytes == [byte |-> "any"]  \* the template, or what else is there

\* SOI, the Adobe segment of the cover, the profile in ICC segments, the cover.
IccImage == [
  mode |-> "default", size |-> IccSize(sealed.size) + cover.size,
  segs |-> (IF cover.leading > 0 THEN <<Segment("app", cover.leading)>> ELSE <<>>)
             \o <<Segment("icc", Min({IccSize(sealed.size), 65537}))>>,
  declared |-> IccSize(sealed.size) - IccTemplate,
  fields |-> [at \in {KdfAt, MarkAt} |->
                IF at = KdfAt THEN Costs ELSE IF sealed.mode THEN OtherBytes ELSE Raw]]
BlueskyImage(room) == [
  mode |-> "bluesky", size |-> sealed.size + room + cover.size,
  segs |-> <<Segment("bluesky", Min({sealed.size, 65537}))>>,
  declared |-> sealed.size,
  fields |-> [at \in {BlueskyKdfAt} |-> Costs]]
\* What decoding the envelope gives back goes with it.
CarrierImage(growth) == [
  mode |-> mode, size |-> cover.size + growth,
  segs |-> <<Segment("app", 18), Segment("tables", 69)>>,
  frame |-> [DecoderFrame(cover.jpeg) EXCEPT !.progressive = (mode = "twitter")],
  declared |-> sealed.size, costs |-> Costs, deflated |-> sealed.mode]

\* embedCarrier and embedTwitterPayload: places for the header and for the payload.
RedditHasPlaces(bits) == RedditHeaderSlots <= cover.blocks /\ bits * 3 <= cover.blocks * 10
TwitterHasPlaces(bits) == HeaderSymbols + RequiredCover(bits) <= cover.candidates
HasPlaces ==
  IF mode = "reddit" THEN RedditHasPlaces(EnvelopeSize(sealed.size) * 8)
  ELSE TwitterHasPlaces(EnvelopeSize(sealed.size) * 8)

NewImage ==
  \/ mode = "default" /\ image' = IccImage
  \/ mode = "bluesky" /\ \E room \in BlueskyRooms : image' = BlueskyImage(room)
  \/ mode \in Carriers /\ \E growth \in EmbedGrowths : image' = CarrierImage(growth)
Embed ==
  /\ pc = "embed"
  /\ IF mode \in Carriers /\ ~(EnvelopeSize(sealed.size) <= cover.capacity /\ HasPlaces)
     THEN Refuse("embed") /\ UNCHANGED image
     ELSE Goto("deliver") /\ NewImage
  /\ UNCHANGED <<chosen, files, prepared, report, recovered, searchVars>>

\* PLATFORM_LIMITS, where one has a limit: of the image, of its first segment, of the
\* count of its ICC segments.  NoLimit is above all sizes.
NoLimit == MaxFile + MaxFile \div 4
Limit(size, first, segments) == [size |-> size, first |-> first, segments |-> segments]
PlatformLimits == [
  twitter |-> Limit(TwitterUpload, 10 * KiB, 65535),
  tumblr |-> Limit(NoLimit, 65534, 65535),
  mastodon |-> Limit(16 * MiB, NoLimit, 100),
  pixelfed |-> Limit(15 * MiB, NoLimit, 65535),
  postimage |-> Limit(32 * MiB, NoLimit, 65535),
  imgbb |-> Limit(32 * MiB, NoLimit, 65535),
  imgpile |-> Limit(100 * MiB, NoLimit, 65535),
  flickr |-> Limit(200 * MiB, NoLimit, 65535)]
\* finalize_default_platform_report, of what write_icc_data_to_output says it wrote.
IccSegments(encrypted) ==
  IF IccTemplate + encrypted <= 65539 THEN 0 ELSE CeilingDiv(IccTemplate - 20 + encrypted, 65519)
FirstSegment(encrypted) ==
  IF IccTemplate + encrypted <= 65539 THEN IccTemplate + encrypted - 4 ELSE 65535
FilterPlatforms ==
  {p \in DOMAIN PlatformLimits :
     /\ image.size <= PlatformLimits[p].size
     /\ FirstSegment(sealed.size) <= PlatformLimits[p].first
     /\ IccSegments(sealed.size) <= PlatformLimits[p].segments}

\* The last look at the size, before the image gets its name and the KEY is shown.
FinalLimit == [default |-> MaxConceal, bluesky |-> MaxBlueskyImage,
               reddit |-> RedditUpload, twitter |-> TwitterUpload]
PlatformReport == IF mode = "default" THEN FilterPlatforms ELSE {mode}
Deliver ==
  /\ pc = "deliver"
  /\ Require(image.size <= FinalLimit[mode], "final size", "shown")
  /\ report' = IF image.size <= FinalLimit[mode] THEN PlatformReport ELSE {}
  /\ UNCHANGED <<chosen, files, prepared, image, recovered, searchVars>>

-----------------------------------------------------------------------------
(* Others: somebody replaces the data file; a platform puts segments right *)
(* after SOI.                                                              *)

ReplaceData ==
  /\ task = "conceal" /\ pc \in {"cover", "format", "payload", "limits", "encrypt"} /\ ~replaced
  /\ dataFile' \in Replacements /\ replaced' = TRUE
  /\ UNCHANGED <<pc, refusal, chosen, coverFile, name, prepared, image, report, recovered, searchVars>>

AddInFront ==
  /\ pc = "shown"
  /\ \E s \in FrontSegments, n \in {1, MaxLeading, MaxLeading + 1} :
       image' = [image EXCEPT !.segs = [i \in 1..n |-> s] \o @, !.size = @ + n * s.length]
  /\ Goto("posted")
  /\ UNCHANGED <<chosen, files, prepared, report, recovered, searchVars>>

-----------------------------------------------------------------------------
(* recover.                                                                *)

\* find_default_icc_sig_index: other APP segments are passed, up to a bound; the first
\* APP2 has to be the one of conceal.
FirstProfile(segs) == FirstAt({i \in DOMAIN segs : segs[i].kind \in {"icc", "app2"}})
BytesOf(segs) ==
  LET upTo[i \in 0..Len(segs)] == IF i = 0 THEN 0 ELSE upTo[i - 1] + segs[i].length
  IN upTo[Len(segs)]
BytesBefore(segs, at) == BytesOf(SubSeq(segs, 1, at - 1))
FindsIcc(segs) ==
  LET at == FirstProfile(segs)
  IN /\ at # 0 /\ at <= MaxLeading + 1
     /\ segs[at].kind = "icc"
     /\ \A i \in 1..(at - 1) : segs[i].kind \in {"app", "bluesky"}
     /\ BytesBefore(segs, at) <= MaxLeadingBytes
\* The signature of the Bluesky mode has one place in the file.
FindsBluesky(segs) == segs[1].kind = "bluesky"

\* What is read at an offset in the file; in front of the profile lie other segments.
Field(offset) ==
  IF offset \in DOMAIN image.fields THEN image.fields[offset] ELSE OtherBytes
ProfileField(offset) ==
  LET before == BytesBefore(image.segs, FirstProfile(image.segs))
      base == ProfileAt + before
  IN Field(base + offset - before)

DeclaredLimit == [
  icc |-> MaxConceal + 50 * MiB, bluesky |-> MaxBlueskyData,
  twitter |-> TwitterUpload, reddit |-> RedditUpload]
DeclaredAccepted(form) == image.declared >= MinCipher /\ image.declared <= DeclaredLimit[form]
\* require_supported_secretstream, read_kdf_params
Supported(costs) ==
  /\ costs # OtherBytes
  /\ costs.ops \in OpsRange /\ costs.mem >= MemMin /\ costs.mem <= MemMax

KdfField(form) == IF form = "icc" THEN ProfileField(KdfInProfile) ELSE Field(BlueskyKdfAt)
\* Bluesky has no mark: what it hides is always deflated.
DeflatedField(form) == form = "icc" => ProfileField(MarkInProfile) # Raw

\* validate_file_for_read, detect_metadata_layout; what can be known to be unsupported
\* is refused before a KEY is asked for.
Detect ==
  LET form == IF FindsIcc(image.segs) THEN "icc"
              ELSE IF FindsBluesky(image.segs) THEN "bluesky" ELSE "carrier"
      why == IF image.size > MaxFile THEN "too large"
             ELSE IF form = "carrier"
             THEN IF image.size > RedditUpload THEN "not found" ELSE "none"
             ELSE IF ~DeclaredAccepted(form) THEN "declared"
             ELSE IF ~Supported(KdfField(form)) THEN "unsupported" ELSE "none"
  IN /\ pc \in {"shown", "posted"}
     /\ IF why = "none" THEN Goto("key") ELSE Refuse(why)
     /\ layout' = form
     /\ UNCHANGED <<chosen, files, prepared, image, report, typed, output, searchVars>>

\* decrypt_and_publish: the key and the mode byte have to be those of the stream, and
\* inflating is bounded.
Decrypt(key, costs, deflated) ==
  LET right == <<key, costs>> = sealed.key /\ deflated = sealed.mode
      bounded == deflated => sealed.data.size <= MaxFile
  IN /\ IF right /\ bounded THEN Goto("recovered") ELSE Refuse(IF right THEN "inflate" ELSE "key")
     /\ output' = IF right /\ bounded THEN [data |-> sealed.data, name |-> sealed.name] ELSE None

RecoverFromProfile ==  \* recover_from_icc_path, recover_from_bluesky_path
  /\ pc = "key" /\ layout \in {"icc", "bluesky"}
  /\ typed' \in Keys
  /\ Decrypt(typed', KdfField(layout), DeflatedField(layout))
  /\ UNCHANGED <<chosen, files, prepared, image, report, layout, searchVars>>

\* extract_envelope: isCompatibleExtractCarrier and isCompatibleCarrier, the header,
\* which only its KEY finds, and the bound on the size that it declares.
TwitterReads(frame) ==
  /\ frame.width >= MinSide /\ frame.height >= MinSide /\ frame.progressive
  /\ RequiredCover(EnvelopeSize(image.declared) * 8) <= Candidates(frame) - HeaderSymbols
RedditReads(frame) ==
  /\ Allowed(frame, RedditLimits) /\ ~frame.progressive
  /\ Blocks(frame) >= RedditHeaderSlots
  /\ EnvelopeSize(image.declared) <= RedditCapacity(Blocks(frame))
HasEnvelope(form, key) ==
  /\ image.mode = form /\ key = "shown"
  /\ IF form = "twitter" THEN TwitterReads(image.frame) ELSE RedditReads(image.frame)
FoundForm(key) ==
  CASE image.size <= TwitterUpload /\ HasEnvelope("twitter", key) -> "twitter"
    [] HasEnvelope("reddit", key) -> "reddit"
    [] OTHER -> "none"
RecoverFromCarrier ==  \* recover_from_coefficient_carrier_path
  /\ pc = "key" /\ layout = "carrier"
  /\ typed' \in Keys
  /\ LET form == FoundForm(typed')
     IN IF form = "none" THEN Refuse("not found") /\ UNCHANGED output
        ELSE IF ~DeclaredAccepted(form) THEN Refuse("declared") /\ UNCHANGED output
        ELSE IF ~Supported(image.costs) THEN Refuse("unsupported") /\ UNCHANGED output
        ELSE Decrypt(typed', image.costs, image.deflated)
  /\ UNCHANGED <<chosen, files, prepared, image, report, layout, searchVars>>

Conceal == ValidateInputs \/ PrepareSegmentCover \/ PrepareCarrierCover \/ DetectFormat
             \/ PreparePayload \/ CheckLimits \/ Encrypt \/ Embed \/ Deliver
Capacity == FindCapacity \/ TellCapacity \/ TellLimits
Recover == Detect \/ RecoverFromProfile \/ RecoverFromCarrier
PipelineNext == Conceal \/ Capacity \/ ReplaceData \/ AddInFront \/ Recover
PipelineSpec == PipelineInit /\ [][PipelineNext]_vars

-----------------------------------------------------------------------------

\* Segments in front of the image that recover promises to bear: none in the Bluesky
\* mode; before a profile other APP segments up to its two bounds; before a carrier any
\* that leave the file within the limit of its platform.
FrontIsBorne ==
  CASE mode = "default" ->
         LET front == SubSeq(image.segs, 1, Len(image.segs) - 1)
         IN /\ Len(front) <= 16 /\ \A s \in ToSet(front) : s.kind = "app"
            /\ BytesOf(front) <= 64 * KiB
    [] mode = "bluesky" -> Len(image.segs) = 1
    [] OTHER -> image.size <= FinalLimit[mode]

\* Recover, which is told nothing, gives back the content that conceal sealed and its
\* name, with the KEY that was shown and with no other one: whatever the mode, raw or
\* deflated, at all limits, and with all that a platform may put in front.
RecoveredAsConcealed ==
  /\ pc = "recovered" =>
       /\ typed = "shown"
       /\ output = [data |-> sealed.data, name |-> name]
       /\ output.data.size = measured
  /\ pc = "refused" /\ image # None /\ layout # "unknown" =>
       typed \notin {"none", "shown"} \/ ~FrontIsBorne

\* The limits agree.  What the checks before the encryption let through finds its places
\* and is within the limits of recover; what capsize promises for the longest name fits
\* with every name; the excess that is named is what has to go, to the byte.
LimitsAgree ==
  /\ refusal \notin {"embed", "declared", "unsupported", "inflate"}
  /\ pc = "shown" => image.size <= FinalLimit[mode] /\ sealed.data.size = measured
  /\ pc = "told" => \A n \in 1..MaxName :
       report.conservative > 0 => EnvelopeSize(Estimate(report.conservative, 1 + n)) <= capacity
  /\ refusal = "capacity" /\ mode \in Carriers /\ Fits(0) =>
       Fits(stored.size - report.over) /\ ~Fits(stored.size - report.over + 1)

\* A cover is taken for what libjpeg shows.  Accepted, its decoded size is within the
\* limits; it comes out upright, and an Adobe segment without which its colours would be
\* others stays in front of its tables.  Not to rewrite a cover makes no difference: the
\* carrier takes it if and only if it takes the rewritten one, and both show the same.
ComesOutUpright(orientation) ==
  TurnedPicture(cover.op, Stored) = Displayed(IF orientation \in 1..8 THEN orientation ELSE 1, Stored)
ViewIsWhole(view) ==
  /\ IsRgb(coverFile.jpeg) <=> \E g \in ToSet(view) : g.kind = "adobe" /\ g.rgb
  /\ HasTables([cover.jpeg EXCEPT !.segs = view])
RewritingMakesNoDifference(jpeg, optimized) ==
  IF CarrierTakes(jpeg, CarrierLimits)
  THEN /\ optimized.found /\ CarrierTakes(optimized.jpeg, CarrierLimits)
       /\ Dimensions(DecoderFrame(optimized.jpeg)) = Dimensions(DecoderFrame(jpeg))
       /\ IsRgb(optimized.jpeg) = IsRgb(jpeg)
  ELSE ~(optimized.found /\ CarrierTakes(optimized.jpeg, CarrierLimits))
CoverIsKept ==
  /\ pc \in {"format", "payload", "capsize"} /\ cover # None =>
       /\ Allowed(DecoderFrame(coverFile.jpeg), CarrierLimits)
       /\ ComesOutUpright(Prescan(coverFile.jpeg).orientation)
       /\ mode \notin Carriers =>
            ViewIsWhole(SubSeq(cover.jpeg.segs, cover.from, Len(cover.jpeg.segs)))
  /\ pc = "cover" /\ mode \in Carriers /\ NeedsNoNormalization(coverFile.jpeg, CarrierLimits) =>
       RewritingMakesNoDifference(coverFile.jpeg, Optimize(coverFile.jpeg, FALSE, FALSE, CarrierLimits))
=============================================================================
