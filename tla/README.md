# jdvrif-rs in TLA+

A specification of the parts of jdvrif that carry its promises: a file hidden in
a JPEG comes back whole or not at all, an output appears under its name complete
or not at all, a KEY that was shown opens an image, a post is published once.
The modules are written from the code in `src/`; TLC checks them on small
instances, and TLAPS proves the theorems of the `*Proofs` modules for every value
of the constants.  Paths below are relative to `src/src/`.

    tlc -config MCOutputFile.cfg OutputFile      # one run; PROJECT.json lists all
    tlapm OutputFileProofs.tla                   # the proofs of one module

## 1. The system

`jdvrif conceal` takes a cover JPEG and a data file, compresses and encrypts the
data, puts the ciphertext into the image in one of four ways, publishes the image
under a random name and prints the KEY.  `jdvrif recover` takes the image, asks
for the KEY and publishes the hidden file.  `bsky/create_bsky_post.py` is a
separate program that posts an image to Bluesky.

| Component | State it keeps | Operations | Hard behaviour |
|---|---|---|---|
| Publication (`output_file.rs`, `common.rs`, `conceal_helpers.rs`, `recover/output.rs`) | the staging inode, the directory, the name under trial, whether the KEY was shown | stage, name without replacing in three ways, hand out the KEY, withdraw | other programs in the directory, capabilities of file systems, signals, crashes, failure of every call |
| Buffered output (`output_file.rs`: `OutputFile`) | buffer, descriptor, offset of the source | `write`, `send_from`, `close`, drop | short writes, EINTR, a system call given up half-way, errors after a part was written |
| Secret stream (`conceal.rs`, `decrypt/stream.rs`, `crypto.rs`) | position in name and data, the frames, the extractor's progress | push a chunk, pull a frame, end | exact chunk borders, a file that changes while it is read, frames damaged by a platform |
| Segment carriers (`conceal_segments.rs`, `extract.rs`, `cipher_source.rs`, `recover/mod.rs`) | segment layout, packer, scan window, runs of ciphertext in the image | write, pack, scan, read past headers | full last segment, pieces of any size, signature over a window border, segments a platform adds or drops, wrong sizes |
| Carriers in the DCT coefficients (`reddit_*`, `twitter_*`, `carrier_common.h`) | coefficients, keyed order of positions, trellis | extend the order, embed, extract | an order asked for in portions, segments of the code, numeric code over whole images |
| Conceal pipeline (`conceal.rs`, `conceal_helpers.rs`) | cover, measured data, stored form, limits | validate, prepare, check, encrypt, embed, deliver; capsize | limits of four modes checked in several places, a data file replaced meanwhile |
| JPEG preprocessing (`jpeg_preprocess.rs`) | marker scan, rewritten image | inspect, normalise, optimise, skip | a scanner of its own beside that of the library, rewriting skipped, bytes cut off |
| Recover dispatch (`recover/`, `decrypt/mod.rs`, `decrypt/kdf.rs`) | carrier found, metadata, KEY | try ICC, Bluesky, then X/Twitter and Reddit with the KEY | an image that looks like more than one, limits and places that are written down twice |
| KEY entry (`decrypt/key_input.rs`, `runtime.rs`, `key_codec.rs`) | typed characters, terminal settings, blocked signals | read, erase, submit, restore | signals between two checks, a terminal left raw |
| Signals (`signal.rs`) | one recorded signal | record, check | the time between check and use |
| Bluesky publication (`bsky/create_bsky_post.py`) | login session, record key, request in flight | login, create, look up, log out | answers that are lost or late, a user who tries again |
| Bluesky deadlines (same file) | worker thread, queue of one, session, response | run, abandon, release | the worker finishing while the caller gives up |

The parts meet at few places.  Conceal pushes the frames of the secret stream
into an `OutputFile` over a staging file and hands that file to the publication;
recover reads the frames back out of a carrier into another `OutputFile` and
publishes it.  All of them poll the flag of `signal.rs`.  The Python program
shares nothing with the Rust one but the image; its publication uses the
deadline wrapper for every request.

What makes each part correct:

* publication: no final name ever shows a partial file, nothing of another
  program is replaced, a run ends with at most one name, a shown KEY has its
  image, no image without a KEY and no temporary file stay behind;
* buffered output: the file is always a beginning of what was asked for, and a
  successful close means all of it;
* secret stream: what is sealed is the whole input, and success means exactly
  what was sealed; an undamaged image and the right KEY are never refused as a
  wrong KEY;
* Bluesky publication: one post at most, an error without a warning means no
  post, the login session is ended or the user is told;
* Bluesky deadlines: nothing is closed while in use, everything is closed once
  and in the end, and the caller is never late;
* carriers and KEY entry: every bit that goes in comes out; the terminal is
  restored whatever ends the entry;
* conceal and recover together: what was sealed comes back with the KEY that was
  shown and no other; no limit of one side is in the way of the other; a cover is
  judged by what its decoder sees, and comes out looking as it did.

## 2. What is modelled

`PROJECT.json` ("map") names the source lines of every definition.

### Publish, PublishPromise, MCPublish

One directory, several runs of conceal and recover, other programs.  A directory
entry is abstracted to whose file it names, whether all its bytes are there and
whether they were fsynced; `dir` is what programs see, `disk` what a power loss
leaves.  `pc` walks through the calls of `StagedOutput::commit_then`,
`commit_staging_file_no_replace`, its fall-backs (`link`, hidden temporary with
`rename` or `hardLink`, direct copy), `deliver_conceal_key` and
`commit_recovered_output`, one action per system call, each of which may fail.
`fs` fixes what the file system can do.  `Signal`, `Kill`, `PowerLoss`,
`UserCreates` and `UserRemoves` are the environment.

`PublishPromise` is what a reader of the directory sees: an output appears
complete, in one step, under a name that was free, and only its own run takes it
away.  `KeepsPromise` is the refinement; where the file system has no atomic
primitive, a copy that is under way only keeps the name from others.  `Starts`
says which runs are started together.

Assumed: other programs do not rename over or delete a run's own entries, and
their changes are durable at once; whether `unlink` works is a property of the
directory.  A refused primitive and the `lstat` after it are one step.

### OutputFile

`OutputFile` with its buffer of `Capacity` bytes: a call (`Write`, `Send`,
`Close`, `Drop`) begins, then system calls move what they like, are interrupted,
fail or give up `sendfile` for the copying loop.  The bytes asked for are
numbered, so the contents say which ones are where.  Drop after an error is
modelled: it drains only an idle writer.  A caller gives the writer up after an
error, which is what all callers do (`ZlibEncoder` may write once more when it is
dropped, to a file that is then discarded: not modelled).  An error the kernel
delays is a failing `Finish`.

### SecretStream

The plaintext is numbered bytes: length of the name, name, data.  `PushChunk`
cuts it into frames as `encrypt_file_with_secretstream_to_sink` does, `Seal` is
the read of one trailing byte, `SourceChanges` another program that appends to
or cuts the data file.  `Carry` is any carrier: the frames come back as they
were, or cut, followed by something, damaged, moved, repeated or lost, with the
right or a wrong KEY and mode.  `PullFrame` is a round of
`decrypt_secretstream_chunks` with `FilenamePrefixExtractor::consume`;
`AfterFinal` and `Verdict` are the checks at the end.  libsodium is assumed to
accept exactly the next frame of this stream under this KEY with this mode.  The
real chunk (1 MiB) is longer than the longest prefix (255 bytes); the model's
chunk of 2 also makes the prefix cross frames, which the code would have to
handle if the constants changed.  Not modelled: a data file overwritten in place
while it is read, which the code does not notice; compressed data is its bytes,
ending with the end of its zlib stream.

### IccCarrier

The default carrier from `write_icc_data_to_output` to `FileRunsCipherSource`.
The bytes are left out, their places are kept: a piece is a stretch of
ciphertext at an offset of the image, a run is what recover reads.  The literals
of writer and reader are the real ones and are written down separately, as they
are in the code (65519 bytes in a segment against 65537 from header to header,
827 bytes from a base of 24 to the ciphertext).  Between the two sides a platform adds
segments in front (`AddSegment`: APPn and COM are passed, another marker ends the
search), drops a segment of the profile, cuts the file, or damages the declared
numbers.  `MaxConceal` is a parameter, because TLC's integers have 32 bits; for
the same reason the limit of 65535 segments is out of the runs' reach.
Recover does not depend on the order of the
leading segments, so the longest is added last.  That other bytes look like a
segment marker by chance is left out, and so is the profile's text; the choice
among the carriers is in Pipeline.

### BlueskyCarrier

`BlueskySegmentStreamBuilder` and `read_bluesky_ciphertext`, with the literals of
each side written down separately.  The ciphertext is pushed in pieces of any of
a few sizes (`Push`), and each round of the loop in `push` is an action
(`PushExif`, `PushFirst`, `PushSecond`, `PushXmp`); `Encode` keeps the one or two
bytes that wait to become base64.  A block is where a stretch of the ciphertext
lies in a segment, and the size written before it; `finish` builds the segments
out of the templates' sizes and the ones it overwrites.  On its way the image may
get segments, lose one, be cut inside the ciphertext, or have a size changed.
Recover is one action per part; `ReadWindow` is a read of `scan_file_windows`,
which may be short and end inside the signature.  `Decoys` are places where the
ciphertext looks like a signature by chance: in an image that is not damaged
recover does not look there.  A second dataset read from a wrong place holds any size.

A foreign segment may be a Photoshop or XMP segment of its own and hold the signature
that recover looks for.  The code takes the first hit behind the EXIF part
(`find_bluesky_photoshop_signature`, and the search for the base64 text that ends
before the Photoshop segment), so one in front of ours is taken for ours: it is
refused (as the test `bluesky_photoshop_search_is_post_exif_bounded_and_framed`
has it), or its bytes are read as datasets, and the ciphertext does not authenticate
afterwards.  `FoundPhotoshop`, `TakeFirst`, `TakeSecond` (`Mistaken`) and `FoundXmp` do the same, with
any sizes in what is mistaken.  What recover promises it promises of an
`Unmistakable` image, where none stands in front; behind ours they may stand.

### KeyedPrefix, KeyedShuffle

`KeyedIndexPrefix` of `carrier_common.h`: the keyed order of positions that both
coefficient carriers write to and read from, as long a beginning of it as is
asked for.  The hash table with its probing, its growth and the switch to a full
table are modelled; the keyed stream gives any value in its range.  `KeyedShuffle`
is what it promises: a Fisher-Yates shuffle, one draw at a time, of which what was
once handed out stays.  `ShufflesInSteps` is the refinement.

### StcCode

The syndrome-trellis code of `twitter_stc.cpp`: `makeSegments` and `makeWidths`
in the multiples the code uses, the forward pass over columns and its pruning at
the end of each bit, the walk back, `stcExtract`.  A state is a set of rows; the
prices are small integers for the floating-point ones, with a wet price and an
infinity above.  Columns of height 3 stand for those of height 7, with a one in
their first and last row as `columnFor` makes them.

### Carriers, MCCarriers

The four machines above share nothing; `Carriers` puts them side by side, so that
one run checks them all.  `machine` chooses which one moves, the others rest in
one initial state.

### CapacitySearch

The size of the encrypted stream and of its envelope, and
`max_carrier_stored_payload`: ask whether anything fits, then bisect.

### JpegCover

What `jpeg_preprocess.rs` does to a cover, as operators over the sequence of its
segments; a part of it, such as a header, is the set of the places in it.  There are three readers: `Prescan` (a scan that stops at a byte that
is no marker), libjpeg (which skips such bytes; external) and `Inspect` (of the
rewritten image).  A segment that is `bare` is one that only the first and the
last of them could take for a segment.  `Optimize` is
`optimize_image_with_turbojpeg`, `NeedsNoNormalization` the shortcut of the
coefficient carriers, `CarrierTakes` what their decoders accept.  The sums of the
standard tables are the real ones.  A picture is its four corners, enough to tell
the eight orientations apart.

### Pipeline, MCPipeline

One run of conceal or capsize, one action per stage, then `AddInFront` (a
platform that puts segments right behind SOI), then recover: `Detect` up to the
KEY, `RecoverFromProfile` or `RecoverFromCarrier` after it.  An image is the
sequence of its segments and what lies at the offsets that recover reads
(`Field`), so a place that moved is read as something else; a sealed stream is
its content, its key (KEY and costs of the derivation) and the mode byte.  The
limits are the constants of `constants.rs`, `conceal.rs`, `conceal_helpers.rs`
and `recover/`, each at its use.  `ReplaceData` is another program that replaces
the data file while conceal runs.  Capacities of carriers are computed as
`carrierCapacity` and `calculateEmbeddingCapacity` do, from the pixels and the
number of nonzero coefficients.  The bytes of the stream, of the segments and of
the coefficients are in the other modules.

### BskyPost

`create_post`: login, the optional lookups before the post, createRecord with a
record key chosen once, the lookup that settles an uncertain answer, the one
retry, logout.  Requests in flight are state of their own (`request`, `answer`):
the PDS may deal with a request after the script has given it up.  `Crash` is
Ctrl-C and every unexpected end; `Rerun` is a user who starts the script again
after an error without a warning.  Assumed: a lookup on the PDS sees the creates
before it, and an answer of 3xx or 4xx means that nothing was created.

### DeadlineCall

`_run_before_download_deadline` as caller and worker threads with the queue of
size one, the flag under the lock and the disposal; its users
`_open_api_response` and `_open_pinned_response` with `_read_response_body`
decide who closes the session.  A download uses one session per address and
redirect.

### KeyEntry

`get_recovery_key` with `read_single_byte`, the `KeyEntrySignalBlock`, the
`NonblockingStdinGuard` and the `TermiosGuard`, one action per step between which
a signal, a keystroke or the shell may come.  While `masked` signals wait in
`pend`; `pselect` lets them in for the time it waits, but reports input first.
The world is a user who types, sends Ctrl-Z or a termination signal, and a shell
that takes the terminal while the job is stopped, may change its mode, and gives
it back or lets the job go on in the background, where the terminal driver stops
it (`BackgroundStop`).  Standard input may also be a pipe with another reader.
A keystroke is its kind, its number and whether it was echoed.  Three history
variables serve the properties: `line` (an editor without a limit), `exposed` (an
echoed keystroke was read) and `early` (a signal was sent before the line was
accepted).  Assumed: restoring the terminal succeeds; the shell does not set raw
mode on its own.  A terminal in cooked mode hands over bytes as they are typed
here, which is more than a real one does.  Left out: SIGSTOP and SIGKILL, which
no program can mask, a signal that the kernel hands to another thread (the
timeout of `pselect` is there for it), and what is printed.  Which texts are a
KEY is `key_codec`'s; here a line may be one or not.

## 3. The runs

| Run | Shows | Bounds, and why they are enough |
|---|---|---|
| `publish_one` | a shown KEY has its image, nothing unfinished stays behind, success is real and has one name, no KEY after cancellation, termination | one run of conceal or of recover, two names (the redraw and the second candidate happen), every file system |
| `publish_race` | nothing partial, nothing of others touched; Publish implements PublishPromise | a conceal and a recover run with one name and one temporary between them, two temporary draws, one file system for each way of publishing |
| `withdrawn_key` | violated: see findings | one conceal run |
| `output_file` | order, closed is complete, cancellation ends | buffer of 2, transfers of 2, 5 bytes in all: buffer full, buffer passed by, two rounds of every loop |
| `secret_stream` | sealing and opening | chunk of 2, name up to 2, data up to 5: prefix within and across a frame, data that fills the last chunk or not, up to four frames |
| `carriers`, ICC | recover reads what conceal wrote and refuses what is incomplete; sizes and counts agree | sizes of ciphertext one below, at and one above the borders of the first, second and third segment; up to 17 leading segments, and up to and beyond 64 KiB of them |
| `carriers`, Bluesky | what is put together is the ciphertext, a payload within the capacity is accepted, written sizes are true, damage is refused | the real sizes: one below, at and one above every border between parts, and the capacity; pieces of 1, 2, 4 and almost all bytes, up to four before the rest; two foreign segments: any ones of 64 KiB and just below the search window, Photoshop ones of 64 KiB and XMP ones of 900 bytes, in front of ours and behind |
| `carriers`, order | the keyed order is one shuffle in steps | domains up to 8 and calls for 1 to 6 of them, with a table that begins at 2 and doubles, home slots that collide (multipliers 0 and 39), and the switch at half the domain |
| `carriers`, code | the schedule covers every bit once; the cheapest symbols that carry the message are found | height 3; messages of one bit up to several segments, and the lengths at which the last segment is short; messages up to 5 bits are embedded and compared with all words; wet symbols |
| `pipeline` | recovered as concealed, limits agree, the search is exact, the cover is kept | chosen covers and data at, one below and one above every limit; covers that each violate one assumption of a reader; names of 1, 20 and 21 bytes; one replacement; 1, 16 and 17 segments in front. A chunk of 400 bytes instead of 1 MiB, so that a carrier holds several; 1.5 GiB and 1 GiB instead of 3 and 2 GiB, since TLC's integers have 32 bits |
| `bsky_post` | one post, two requests per run at most, honest errors, logout, termination | three runs of the script, two attempts each |
| `bsky_login` | violated: see findings | one run |
| `deadline_call` | everything is released once, and not while in use; deadline | three sessions: two addresses and a redirect |
| `deadline_owner` | violated: see findings | two sessions |
| `key_entry` | no echoed keystroke is read, cancellation wins and ends the entry, everything is left as found, the line is what was edited | a buffer of one and four keystrokes: the limit passed and come back from; two stops: a second one while the first is being resumed; terminal and pipe |

Deadlock is not checked where the modelled run may simply be over: that holds for
all of them.

Fairness.  `Publish`: a run keeps making calls and each returns.  `OutputFile`:
system calls return, though they may be interrupted for ever.  `BskyPost`: the
script steps, since every request has a deadline; nothing is assumed of the
network.  `DeadlineCall`: the caller steps and time passes; nothing is assumed of
the blocking calls.  `KeyEntry`: the program steps unless it is stopped, the
kernel delivers what is not blocked, and a stopped job is brought back at some
time.  The safety properties need none, and the runs `carriers` and `pipeline`
check safety only.

The types of a module are checked by its proofs, where it has them, and not
repeated in a run.

Each property has a mutant in `PROJECT.json`: a change of a definition such as a
bug would make, under which TLC finds the property violated.

### Findings

* `WithdrawnImageHasNoKey`: `commit_then` removes an image whose delivery failed
  because "without its KEY it is useless" (`output_file.rs:593`), but the delivery
  also fails after the whole KEY was written.
* `NoCredentialOutlivesItsRun`: the `finally` of `create_post` says that no
  credential outlives its run; a login whose answer is lost, and a failed
  deleteSession, leave one.
* `OpenSessionHasOwner`: `DeadlineExceeded` is said to imply a thread that owns
  the session; when the deadline passes before the thread starts there is none,
  and the session is never closed.

## 4. The proofs

`PublishProofs`, for any number of runs and names and any set of file systems:
`TypeCorrect` (with `Bounded`: a working run has an attempt left),
`OutputIsNeverPartial`, `NothingIsReplaced`, `KeyOpensAnImage`, `RunsEndClean`,
`SuccessHasItsOutput`, `CancellationHidesTheKey`, `PublishingKeepsItsPromise`.  None
of the invariants is inductive.  `Safe` adds what a run may hold at each call (`Holds`:
its entries are only those its `pc` accounts for), what its staging file and
temporary contain by then (`Contents`), that `dir` and `disk` show no partial
final file (`Sound`), and the same of the image of a shown KEY (`KeyImages`).
`Locality` and `Touches` say which entries a step may change; the steps of others
then need one lemma.  For the end of a run `Tidy`
follows `Safe`: a run owns no final name but the one it is at, no temporary but the
one it is using, and what it returned is what it left.  `CancellationHidesTheKey` has
an invariant of its own, that a run so cancelled has not shown the KEY and is not
about to (`Cancelled`), from which the temporal property follows by propositional
temporal logic.  The refinement goes through `Phase`, the place of a run in
`PublishPromise`: each action is one of its steps, or leaves `Phase` and what the
directory shows alone.  It rests on `Flow`, how a call moves its run on (an output once
named stays until the run reports it or takes it back), and on `Lasting`, what the
directory and the disk have in common, for a power loss.

`OutputFileProofs`, for every buffer capacity: `TypeCorrect`, `BytesInOrder`,
`NothingIsMissing`, `ClosedFileIsComplete`.  The invariant `IInv` says where the
bytes asked for are at each call: the file is a beginning of them, the buffer the
piece after it, the chunk just read the piece after that (`Placed`, `Held`).  The
lemmas before it are about runs of consecutive numbers: cutting, joining,
appending.

`BskyProofs` is about both halves of the Python program.  `BskyPost`, for any number
of runs of the script: `SendsTwiceAtMost`,
`OnePostAtMost`, `ReportsTrue`, `RunsLogOut`.  The invariant ties every record and every
request still in flight to the key of its run, and a run that was quiet to
requests that are all settled.  `Credentials` ties the session of a run to the step it
is at: a run that ends has been through the logout.

`DeadlineCall`, for any number of sessions: `CallTypeCorrect`, `EachReleasedOnce`.
The invariant says who has to close the current session: only
the last thread may be alive, and the caller either waits for it or has abandoned
it (`OneThread`, `Waiting`); at the end the session is closed, or the abandoned
thread has still to close it, or no thread ever ran (`Left`, `Standing`).
Sessions behind the current one are closed, those ahead untouched (`LeftBehind`,
`YetToCome`), and none twice (`ClosedOnce`).  The names `at`, `CallSpec` and the like keep the two
models apart in the module that extends both.

`CarriersProofs` is about three of the four machines of `Carriers`, `BlueskyProofs`
about the fourth.

* The ICC carrier, for every size and any leading segments: `CiphertextIsFound`,
  `UndamagedAccepted`, `IncompleteRefused`, `ReadsContinue`, `RunsStayInside`,
  `SizeForeseen`, `HeadersCounted`, and `ComputedAhead`, which is the last two.  The
  invariant `IInv` follows the image through both programs.  While conceal writes,
  the i-th piece is at `PieceOffset(i)` (`Placed`), and what is left is the payload
  less the segments so far (`Segmenting`); `Required` turns the rounded division
  of `icc_layout` into two inequalities, from which the last segment is the one
  that was counted.  While recover reads, the cursor is before the next header,
  right behind one, or at the end, and the number of runs tells which (`Between`);
  the same inequalities show that a header is never cut short, that the reader
  ends with the last piece, and that of an image that lacks one it is refused
  (`Lacking`).  Nonlinear facts are kept out of the steps: each is over one segment
  number.
* The keyed order, for every domain and any calls: `ShufflesAsOne`, the refinement of
  `KeyedShuffle` by `KeyedPrefix`.  `OrderInv` says what table, places and
  counters have to do with each other; of the table (`TableOK`), that every entry is
  found from its home slot without a gap, and that half the slots are free.  Probing
  goes around the table: its lemmas are by well-founded induction over the slots,
  stated as a set of them that has no least member.
* The schedule of the code, for every number of bits: `SchedulesFit`.  `Cutting` is
  the state of `makeSegments` after k bits, `Spaced` what consecutive boundaries of
  the rounded division are apart; the induction is over the bits, in the same form.

`BlueskyProofs`, for every size of ciphertext, every cut of it into pieces, every short
read and whatever other programs put in, drop or cut: `BlueskySizesAreTrue`,
`BlueskyReassembled`, `BlueskyAccepted`, and `DamagedRefused`, which is also about the
ICC carrier.  None of the four properties is inductive; three invariants, each resting
on the one before, carry them.

* `Carried` is what conceal has done, and what became of the image.  While the pieces
  come, the builder holds the first bytes of the ciphertext, each part full before the
  next one begins, and the base64 text lags behind by the bytes that wait
  (`Packing`, `Built`): so the cut into pieces leaves no trace, and what
  `finish` makes is `Made`, a function of the size alone.  After that the image
  is `Whole`: the made segments in their order among foreign ones (`Arranged`), or it is
  that image less one of them (`LostOne`), or ending inside one (`CutOne`).  The formula
  of the capacity gives the bounds `Fits`, and with them no size outgrows its field.
* `Assembling` is how far recover is in an `Unmistakable` image, one in which no
  Photoshop or XMP segment of another program is met before ours: in each phase what
  it has taken is one of four rows of places that lie inside the image and belong to
  the segment that they were found in (`Assembly`, `Complete`).  While it searches, no
  signature of ours lies behind the bytes it still looks at (`NotPassed`), so the first
  hit with an APP13 marker or an XMP list is ours (`FirstIsOurs`).  It says nothing of
  the image as a whole and holds of a damaged one too, whose segments still have room
  for their signatures where they were cut (`Roomy`); an image that lacks something (`Lacks`) has
  no complete row, hence `DamagedRefused`; in a whole one the rows are the
  pieces, end to end (`Fitting`), hence `BlueskyReassembled`.
* `Accepting` is about the search in an image with no more than `Slack` bytes of foreign
  segments.  What is looked for is the first signature that can be seen from where the
  search begins, before the segments of others that are like ours and before the
  ciphertext where another might stand by chance (`Alone`), and it lies within the
  window (`Ahead`).  `Hunting`: no read has gone past it without its
  last bytes being carried over to the next, which is what the overlap of the windows
  is for; the search therefore cannot end without it.

The place of a segment is a sum over the ones before it: the lemmas about sums
(cut, extended, with a number put in or taken out) are by well-founded induction over
the length.  `CarriersAssumption` asks of a foreign segment that two bytes can count
it (`LargestSegment`), as in any JPEG file, and that one with a signature has room for
it.

`KeyEntryProofs`, for a buffer of any size and any number of keystrokes and
stops: `TypeCorrect`, `EchoedIsNeverRead`, `CancellationWins`, `AllLeftAsFound`,
`EditedLine`.  The heart of `IInv` is `TerminalIsOurs`: between the look at
`TERMINAL_CONTINUED` and the end of the read the terminal is in raw mode, in the
foreground and holds nothing that was shown (`Ours`); right before that look it
may not be, but then the program was told (`Told`); elsewhere it may also be
stopped, or a stop or SIGCONT is on its way (`Noted`).  `Blocks` says where the
signals are blocked, which is why nothing comes between look and read;
`Cancelled` keeps a signal pending or recorded until the line is accepted;
`Edited` makes the buffer a beginning of the line and accounts for the rest.

`PipelineProofs`, for every size of chunk, overhead, limit, name and file: the
search by itself (`TypeCorrect`, `LargestPayload`, `RoundsShrink`, `ShorterNamesFit`,
about `SearchSpec`, where any capacity and name may be asked for) and the whole
pipeline (`RecoverUndoesConceal`, `NoLimitContradicts`, `LargestPayloadIsFound`,
`TheCoverIsKept`, about `PipelineSpec`).

* The search: the rounded division grows with its dividend (`QuotientGrows`), hence
  so does the envelope (`EstimateGrows`), hence what is larger than a payload that
  does not fit does not fit (`FitsUpTo`).  `SearchInv` keeps the answer between the
  bounds: `lower` fits and `upper + 1` does not.
* The pipeline: `RunInv` is what its stages hand to each other.  `Covered`: the cover
  is one that the carrier's own decoder takes, and its capacity was computed from the
  frame it still has.  `Held` and `Fitting`: what is stored, its size and which limits
  it has passed.  `SealedSoFar`: what is in the stream, and with it that a file which
  changed was refused.  `Written`: the image, its declared size and the fields at
  their places; `Taken`, `Asked`: what recover found in it and what was typed.  One
  lemma for each action.  `RedditFits` and `TwitterFits` show that an envelope within
  the computed capacity finds its places; that segments in front move the profile and
  the fields alike is a sum over them (`BytesOf`), by induction over its length.
  `PipelineAssumption` says what a file and a limit are: covers are JPEGs that libjpeg
  can be given, what conceal may write and 64 KiB more is within what recover
  opens (3 GiB of `MAX_FILE_SIZE`, 2 GiB of `MAX_SIZE_CONCEAL` in `constants.rs`), the
  same of a Reddit upload, and a platform adds application segments.  Without the
  limits `RecoveredAsConcealed` would be false.
* The cover: `IsMade` is the shape of what the rewrite writes, tables, one frame and the
  scan behind at most one Adobe segment, whatever the order in which the tables come
  out.  Of such an image the decoder, the inspection and the cut read what was put in
  (`MadeFrame`, `MadeTables`, `MadeRgb`, `MadeInspected`, `AdobeStays`), and so does the
  decoder of what was cut off at the tables (`ViewOf`).  `Upright` compares the sides of
  each transform with those of each of the eight orientations.  That skipping the
  rewrite makes no difference (`SavingMakesNoDifference`) comes down to the quality: the
  tables stay, and the sum of one (`TableSums`) always has a nearest standard quality, so
  an unturned cover is never refused for lack of one.  `KeptSoFar` carries this along a run.

`SecretStreamProofs`, for every size of chunk and every length of name and data:
`TypeCorrect`, `SuccessIsTheOriginal`, `NeverAFalseAlarm`.  The
invariant lays the frames end to end over the plaintext (`InPlace`), with the final
tag on the frame that ends it and on no other (`Sealing`); the cases where the name
or the data fills a chunk exactly are in `ChunkLengths`.  On the way back, what is
left to read is what is left of the frames if and only if the image is intact
(`Carried`, `Rest`), and name and output are the plaintext up to the end of the last
frame that authenticated (`Extracting`; `ExtractStep` for one chunk).  That the
damage of a carrier yields nothing but frames and stubs is `CarriedElements`.

All assume only the named assumptions on the constants.  Model-checked and not
proved: liveness under fairness (`Termination`, `CancelStops`, `RunsEnd`,
`DeadlineHolds`, `CancelEnds`), out of TLAPS's reach here; and of the safety properties one,
`CarriesTheMessage` of `Carriers`, since the trellis takes least sums over sequences by
folds, of which nothing can be proved without induction over data.
The other way round, `TypeOK` of `Publish`, `BskyPost`, `OutputFile`, `KeyEntry`,
`SecretStream` and `DeadlineCall`, `NothingMissing` of `OutputFile` and `RunsInImage` of `IccCarrier` are
proved and no run repeats them.

## 5. Not modelled

* The coefficients of an image: their quantization, the distortion costs of
  X/Twitter in floating point, the votes of the Reddit carrier over its copies and
  what a re-encoding leaves of them.  Numeric code over whole images, out of
  TLC's reach; the order of positions, the code and the capacities are modelled.
* libsodium, zlib, libjpeg-turbo, requests: modelled by what the code relies on.
* The directories of a TIFF header: an EXIF segment has an orientation or none.
* The text of a KEY (`key_codec.rs`): a conversion without state, which the test
  vectors beside it cover; `KeyEntry` leaves open which lines are a KEY, and
  `Pipeline` which KEY is typed.
* The wiping allocator, help texts, progress lines, argument parsing.
* Bluesky facets, link cards, images, the threads that resolve handles, and
  address checks: conversions, and lookups without state of their own.
* Test, build and parity scripts.

## 6. Plan

Done so far: publication, buffered output, stream, both segment carriers, KEY
entry, the two halves of the Bluesky program, the order and the code of the
coefficient carriers, the pipeline from end to end; theorems about every one of them
but the trellis.  Next:

1. The Reddit carrier's votes over small blocks: how many copies of a bit may
   change before it is read wrongly.
2. A carrier as a lossy channel, the `Carry` of `SecretStream`, as an abstract
   specification that `IccCarrier` and `BlueskyCarrier` implement.
