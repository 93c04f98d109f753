----------------------------- MODULE SecretStream -----------------------------
(***************************************************************************)
(* The payload from the source file to the recovered file: conceal cuts    *)
(* the file name and the data into authenticated frames                    *)
(* (encrypt_file_with_secretstream_to_sink), a carrier brings the frames   *)
(* back whole or not, and recover authenticates frame by frame and feeds   *)
(* the bytes to the name extractor and to the file or the inflater         *)
(* (decrypt/stream.rs).                                                    *)
(*                                                                         *)
(* The plaintext bytes are numbered from 0: the length of the name, the    *)
(* name, the data.  Compressed data ends with the end of its zlib stream.  *)
(***************************************************************************)
EXTENDS Integers, SequencesExt

CONSTANTS
  ChunkSize,  \* STREAM_CHUNK_SIZE
  MaxName,    \* the longest file name
  MaxData     \* the most data

ASSUME SecretStreamAssumption ==
  ChunkSize \in Nat \ {0} /\ MaxName \in Nat \ {0} /\ MaxData \in Nat \ {0}

VARIABLES
  name, data,      \* lengths: of the name, of the data as it was measured
  zlib,            \* the data is compressed: a private file nobody else changes
  source,          \* the length of the file that is read now
  prefixOff,       \* bytes of length and name that are in frames
  inputLeft,       \* input_left
  sealing,         \* "chunks", "sealed" or "failed"
  frames,          \* the frames that were pushed
  cipher,          \* what recover has still to read
  intact,          \* the carrier brought the frames back as they were
  rightKey, flag,  \* the KEY is the right one; the mode recover goes by
  opening,         \* "carrier", "frames" or how recover ended
  pulled,          \* frames authenticated so far
  hasLength,       \* the extractor knows the length of the name
  filename,        \* filename in the extractor
  output           \* the bytes in the staging file, or given to the inflater

sealVars == <<prefixOff, inputLeft, sealing, frames>>
openVars == <<cipher, intact, rightKey, flag, opening, pulled, hasLength, filename, output>>
vars == <<name, data, zlib, source, sealVars, openVars>>

Least(a, b) == IF a <= b THEN a ELSE b
Bytes(a, b) == [i \in 1..(b - a + 1) |-> a + i - 1]
Prefix == 1 + name  \* prefix_plaintext.len()

Ended == {"success", "failedKey", "error"}

TypeOK ==
  /\ name \in 1..MaxName /\ data \in 1..MaxData /\ zlib \in BOOLEAN
  /\ source \in Nat
  /\ prefixOff \in 0..(1 + MaxName) /\ inputLeft \in 0..MaxData
  /\ sealing \in {"chunks", "sealed", "failed"}
  /\ \A i \in DOMAIN frames :
       Len(frames[i].bytes) \in 1..ChunkSize /\ frames[i].no = i /\ frames[i].final \in BOOLEAN
  /\ intact \in BOOLEAN /\ rightKey \in BOOLEAN /\ flag \in BOOLEAN
  /\ opening \in {"carrier", "frames"} \cup Ended
  /\ pulled \in 0..Len(frames)
  /\ hasLength \in BOOLEAN
  /\ Len(filename) \in 0..name /\ Len(output) \in 0..data

Init ==
  /\ name \in 1..MaxName /\ data \in 1..MaxData /\ zlib \in BOOLEAN
  /\ source = data
  /\ prefixOff = 0 /\ inputLeft = data /\ sealing = "chunks" /\ frames = <<>>
  /\ cipher = <<>> /\ intact = TRUE /\ rightKey = TRUE /\ flag = zlib
  /\ opening = "carrier" /\ pulled = 0
  /\ hasLength = FALSE /\ filename = <<>> /\ output = <<>>

-----------------------------------------------------------------------------
(* conceal.                                                                *)

\* Another program appends to the user's file, or cuts it.
SourceChanges ==
  /\ ~zlib /\ sealing = "chunks"
  /\ source' \in 0..(data + 1)
  /\ UNCHANGED <<name, data, zlib, sealVars, openVars>>

\* file_bytes, after p bytes of the prefix
FileBytes(p) == Least(ChunkSize - p, inputLeft)

FinalWhenShort(p, f) ==  \* mutant: only a short chunk is the last
  prefixOff + p = Prefix /\ inputLeft = f /\ p + f < ChunkSize
\* is_final
IsFinal(p, f) == prefixOff + p = Prefix /\ inputLeft = f

\* One chunk: what is left of the prefix, then data, in one frame.
PushChunk ==
  /\ sealing = "chunks" /\ (prefixOff < Prefix \/ inputLeft > 0)
  /\ LET p == Least(ChunkSize, Prefix - prefixOff)
         f == FileBytes(p)
         at == data - inputLeft
     IN /\ at + f <= source
        /\ prefixOff' = prefixOff + p
        /\ inputLeft' = inputLeft - f
        /\ frames' = Append(frames,
             [no |-> Len(frames) + 1,
              bytes |-> Bytes(prefixOff, prefixOff + p - 1) \o Bytes(Prefix + at, Prefix + at + f - 1),
              final |-> IsFinal(p, f)])
  /\ UNCHANGED <<name, data, zlib, source, sealing, openVars>>

\* The read of one trailing byte: a file that has grown is refused.
Seal ==
  /\ sealing = "chunks" /\ prefixOff = Prefix /\ inputLeft = 0
  /\ sealing' = IF source > data THEN "failed" ELSE "sealed"
  /\ UNCHANGED <<name, data, zlib, source, prefixOff, inputLeft, frames, openVars>>

\* A signal, a file that ends before the chunk is full, a failing write.
SealFails ==
  /\ sealing = "chunks"
  /\ sealing' = "failed"
  /\ UNCHANGED <<name, data, zlib, source, prefixOff, inputLeft, frames, openVars>>

-----------------------------------------------------------------------------
(* The carrier.                                                            *)

\* What is left of a frame that was cut, or bytes that were never a frame.
Stub == [no |-> 0, bytes |-> <<>>, final |-> FALSE]

\* Frames that were cut short, followed by something, damaged, moved, repeated
\* or lost.
Damaged ==
  LET at == DOMAIN frames IN
  (Prefixes(frames) \ {<<>>})
    \cup {Append(s, Stub) : s \in Prefixes(frames)}
    \cup {ReplaceAt(frames, i, Stub) : i \in at}
    \cup {ReplaceAt(ReplaceAt(frames, i, frames[j]), j, frames[i]) : i, j \in at}
    \cup {InsertAt(frames, i, frames[i]) : i \in at}
    \cup ({RemoveAt(frames, i) : i \in at} \ {<<>>})

\* What recover finds in the image; an image with nothing is refused before.
Carry ==
  /\ sealing = "sealed" /\ opening = "carrier"
  /\ cipher' \in {frames} \cup Damaged
  /\ intact' = (cipher' = frames)
  /\ rightKey' \in BOOLEAN /\ flag' \in BOOLEAN
  /\ opening' = "frames"
  /\ UNCHANGED <<name, data, zlib, source, sealVars, pulled, hasLength, filename, output>>

-----------------------------------------------------------------------------
(* recover.                                                                *)

End(how) == opening' = how

\* libsodium authenticates the next frame of this stream under this KEY and with
\* this mode as associated data, and nothing else.
Pull(frame) == rightKey /\ flag = zlib /\ frame.no = pulled + 1

ConsumeForgetting(chunk) ==  \* mutant: every chunk is taken to begin with the length
  LET rest == Tail(chunk)
      take == Least(name - Len(filename), Len(rest))
  IN /\ hasLength' = TRUE
     /\ filename' = filename \o SubSeq(rest, 1, take)
     /\ output' = output \o SubSeq(rest, take + 1, Len(rest))
\* FilenamePrefixExtractor::consume: the length once, the name up to its length,
\* the rest to the payload.
Consume(chunk) ==
  LET rest == IF hasLength THEN chunk ELSE Tail(chunk)
      take == Least(name - Len(filename), Len(rest))
  IN /\ hasLength' = TRUE
     /\ filename' = filename \o SubSeq(rest, 1, take)
     /\ output' = output \o SubSeq(rest, take + 1, Len(rest))

\* What the checks after the last frame make of it: the prefix is complete, and
\* the inflater saw the end of its stream, or the file is not empty.
Verdict(out) ==
  IF Len(filename') < name THEN "failedKey"
  ELSE IF IF zlib THEN ~Contains(out, name + data) ELSE out = <<>> THEN "error"
  ELSE "success"

\* The final frame must end the ciphertext exactly.
AfterFinal(rest, out) == IF rest = <<>> THEN Verdict(out) ELSE "failedKey"

\* One round of decrypt_secretstream_chunks.
PullFrame ==
  /\ opening = "frames" /\ cipher # <<>> /\ Pull(Head(cipher))
  /\ Consume(Head(cipher).bytes)
  /\ cipher' = Tail(cipher)
  /\ pulled' = pulled + 1
  /\ IF Head(cipher).final THEN End(AfterFinal(Tail(cipher), output')) ELSE UNCHANGED opening
  /\ UNCHANGED <<name, data, zlib, source, sealVars, intact, rightKey, flag>>

\* A length out of range, too few bytes, a frame that does not authenticate.
PullFails ==
  /\ opening = "frames" /\ cipher # <<>> /\ ~Pull(Head(cipher))
  /\ End("failedKey")
  /\ UNCHANGED <<name, data, zlib, source, sealVars, cipher, intact, rightKey, flag, pulled,
                 hasLength, filename, output>>

\* Nothing is left and no final frame was seen.
RanOut ==
  /\ opening = "frames" /\ cipher = <<>>
  /\ End("failedKey")
  /\ UNCHANGED <<name, data, zlib, source, sealVars, cipher, intact, rightKey, flag, pulled,
                 hasLength, filename, output>>

\* A signal, a failing read or a failing write.
OpenFails ==
  /\ opening = "frames"
  /\ End("error")
  /\ UNCHANGED <<name, data, zlib, source, sealVars, cipher, intact, rightKey, flag, pulled,
                 hasLength, filename, output>>

Next ==
  \/ SourceChanges \/ PushChunk \/ Seal \/ SealFails
  \/ Carry \/ PullFrame \/ PullFails \/ RanOut \/ OpenFails

Spec == Init /\ [][Next]_vars

-----------------------------------------------------------------------------
(* What must hold.                                                         *)

\* Whatever the carrier did, recover succeeds only with the name and the data that
\* were sealed, and only when every frame came back in its place with nothing after.
OnlyTheOriginal ==
  opening = "success" =>
    /\ filename = Bytes(1, name) /\ output = Bytes(Prefix, name + data)
    /\ intact /\ cipher = <<>>

\* An undamaged image and the right KEY are never called a wrong KEY: the final tag
\* is on the last frame and on no other, for every length of name and data, those
\* that fill the last chunk exactly included.
NoFalseAlarm == opening = "failedKey" => ~intact \/ ~rightKey \/ flag # zlib
=============================================================================
