-------------------------- MODULE SecretStreamProofs --------------------------
(***************************************************************************)
(* What SecretStream shows on a small instance, for every size of chunk    *)
(* and every length of name and data.                                      *)
(***************************************************************************)
EXTENDS SecretStream, TLAPS

\* s holds the bytes a, a + 1, ... in their order.
Run(s, a) == \A i \in 1..Len(s) : s[i] = a + i - 1

Frame == [no : Nat, bytes : Seq(Nat), final : BOOLEAN]

\* The plaintext: its length, how much of it is in frames, where a frame lies in it.
Total == Prefix + data
Packed == prefixOff + (data - inputLeft)
First(i) == frames[i].bytes[1]
EndOf(i) == First(i) + Len(frames[i].bytes)

Lengths ==
  /\ name \in 1..MaxName /\ data \in 1..MaxData /\ zlib \in BOOLEAN /\ source \in Nat
  /\ prefixOff \in 0..Prefix /\ inputLeft \in 0..data
  /\ sealing \in {"chunks", "sealed", "failed"} /\ frames \in Seq(Frame)

\* The frames follow one another through the plaintext, each as full as a chunk at
\* most, and the final tag is on the one that ends it.
InPlace(i) ==
  /\ frames[i].no = i
  /\ Len(frames[i].bytes) \in 1..ChunkSize
  /\ Run(frames[i].bytes, First(i))
  /\ First(i) = IF i = 1 THEN 0 ELSE EndOf(i - 1)
Sealing ==
  /\ prefixOff < Prefix => inputLeft = data
  /\ Packed = IF frames = <<>> THEN 0 ELSE EndOf(Len(frames))
  /\ \A i \in 1..Len(frames) :
       /\ InPlace(i) /\ EndOf(i) <= Packed
       /\ frames[i].final <=> i = Len(frames) /\ Packed = Total
  /\ sealing = "sealed" => Packed = Total
  /\ opening # "carrier" => sealing = "sealed"

\* What a carrier brings: frames of this stream and what is none.  It is intact if and
\* only if what is left to read is what is left of the frames.
Element == {frames[i] : i \in 1..Len(frames)} \cup {Stub}
Rest ==
  /\ Len(cipher) = Len(frames) - pulled
  /\ \A j \in 1..Len(cipher) : cipher[j] = frames[pulled + j]
Carried ==
  /\ cipher \in Seq(Element) /\ intact \in BOOLEAN /\ rightKey \in BOOLEAN /\ flag \in BOOLEAN
  /\ opening \in {"carrier", "frames"} \cup Ended
  /\ pulled \in 0..Len(frames) /\ hasLength \in BOOLEAN
  /\ opening = "carrier" => pulled = 0
  /\ opening # "carrier" => (intact <=> Rest)
  /\ opening = "frames" => pulled < Len(frames)

\* The extractor has taken the plaintext up to the end of the last frame pulled.
Extracted(upTo) ==
  /\ Run(filename, 1) /\ Len(filename) = Least(name, upTo - 1)
  /\ Run(output, Prefix) /\ Len(output) = upTo - 1 - Len(filename)
Extracting ==
  /\ filename \in Seq(Nat) /\ output \in Seq(Nat)
  /\ hasLength <=> pulled > 0
  /\ Extracted(IF pulled = 0 THEN 1 ELSE EndOf(pulled))

IInv == Lengths /\ Sealing /\ Carried /\ Extracting /\ OnlyTheOriginal /\ NoFalseAlarm

-----------------------------------------------------------------------------
(* Runs of bytes.                                                          *)

LEMMA LeastFacts ==
  ASSUME NEW a \in Int, NEW b \in Int
  PROVE  /\ Least(a, b) \in Int /\ Least(a, b) <= a /\ Least(a, b) <= b
         /\ Least(a, b) = a \/ Least(a, b) = b
  BY DEF Least

LEMMA BytesFacts ==
  ASSUME NEW a \in Nat, NEW b \in Int, a <= b + 1
  PROVE  /\ Bytes(a, b) \in Seq(Nat) /\ Len(Bytes(a, b)) = b - a + 1
         /\ Run(Bytes(a, b), a)
<1> DEFINE n == b - a + 1
<1>1. n \in Nat
  OBVIOUS
<1>2. \A i \in 1..n : a + i - 1 \in Nat
  OBVIOUS
<1>3. Bytes(a, b) \in [1..n -> Nat]
  BY <1>2 DEF Bytes
<1>4. Bytes(a, b) \in Seq(Nat) /\ Len(Bytes(a, b)) = n
  BY <1>1, <1>3
<1>5. Run(Bytes(a, b), a)
  BY <1>4 DEF Run, Bytes
<1> QED BY <1>4, <1>5

\* A run is known by where it begins and how long it is.
LEMMA RunIsBytes ==
  ASSUME NEW s \in Seq(Nat), NEW a \in Nat, NEW b \in Int, a <= b + 1,
         Run(s, a), Len(s) = b - a + 1
  PROVE  s = Bytes(a, b)
<1>1. Bytes(a, b) \in Seq(Nat) /\ Len(Bytes(a, b)) = Len(s) /\ Run(Bytes(a, b), a)
  BY BytesFacts
<1>2. \A i \in 1..Len(s) : s[i] = Bytes(a, b)[i]
  BY <1>1 DEF Run
<1> QED BY <1>1, <1>2

LEMMA Joined ==
  ASSUME NEW s \in Seq(Nat), NEW t \in Seq(Nat), NEW a \in Nat,
         Run(s, a), Len(t) > 0 => Run(t, a + Len(s))
  PROVE  /\ s \o t \in Seq(Nat) /\ Len(s \o t) = Len(s) + Len(t)
         /\ Run(s \o t, a)
<1>1. s \o t \in Seq(Nat) /\ Len(s \o t) = Len(s) + Len(t)
  OBVIOUS
<1>2. ASSUME NEW i \in 1..(Len(s) + Len(t)) PROVE (s \o t)[i] = a + i - 1
  <2>1. CASE i <= Len(s)
    BY <2>1 DEF Run
  <2>2. CASE i > Len(s)
    <3>1. i - Len(s) \in 1..Len(t) /\ (s \o t)[i] = t[i - Len(s)]
      BY <2>2
    <3>2. t[i - Len(s)] = (a + Len(s)) + (i - Len(s)) - 1
      BY <3>1 DEF Run
    <3> QED BY <3>1, <3>2
  <2> QED BY <2>1, <2>2
<1> QED BY <1>1, <1>2 DEF Run

\* The first m bytes of a run and the others.
LEMMA CutAt ==
  ASSUME NEW s \in Seq(Nat), NEW a \in Nat, Run(s, a), NEW m \in 0..Len(s)
  PROVE  /\ SubSeq(s, 1, m) \in Seq(Nat) /\ Len(SubSeq(s, 1, m)) = m
         /\ Run(SubSeq(s, 1, m), a)
         /\ SubSeq(s, m + 1, Len(s)) \in Seq(Nat)
         /\ Len(SubSeq(s, m + 1, Len(s))) = Len(s) - m
         /\ Run(SubSeq(s, m + 1, Len(s)), a + m)
<1>1. /\ SubSeq(s, 1, m) \in Seq(Nat) /\ Len(SubSeq(s, 1, m)) = m
      /\ \A i \in 1..m : SubSeq(s, 1, m)[i] = s[i]
  OBVIOUS
<1>2. /\ SubSeq(s, m + 1, Len(s)) \in Seq(Nat)
      /\ Len(SubSeq(s, m + 1, Len(s))) = Len(s) - m
      /\ \A i \in 1..(Len(s) - m) : SubSeq(s, m + 1, Len(s))[i] = s[m + i]
  OBVIOUS
<1>3. Run(SubSeq(s, 1, m), a)
  <2>1. \A i \in 1..m : i \in 1..Len(s)
    OBVIOUS
  <2> QED BY <1>1, <2>1 DEF Run
<1>4. ASSUME NEW i \in 1..(Len(s) - m)
      PROVE  SubSeq(s, m + 1, Len(s))[i] = (a + m) + i - 1
  <2>1. m + i \in 1..Len(s)
    OBVIOUS
  <2>2. s[m + i] = a + (m + i) - 1
    BY <2>1 DEF Run
  <2> QED BY <1>2, <2>2
<1> QED BY <1>1, <1>2, <1>3, <1>4 DEF Run

LEMMA TailOfRun ==
  ASSUME NEW s \in Seq(Nat), NEW a \in Nat, Run(s, a), Len(s) > 0
  PROVE  Tail(s) \in Seq(Nat) /\ Len(Tail(s)) = Len(s) - 1 /\ Run(Tail(s), a + 1)
<1>1. Tail(s) \in Seq(Nat) /\ Len(Tail(s)) = Len(s) - 1
      /\ \A i \in 1..(Len(s) - 1) : Tail(s)[i] = s[i + 1]
  BY s # <<>>
<1>2. ASSUME NEW i \in 1..(Len(s) - 1) PROVE Tail(s)[i] = (a + 1) + i - 1
  <2>1. i + 1 \in 1..Len(s)
    OBVIOUS
  <2>2. s[i + 1] = a + (i + 1) - 1
    BY <2>1 DEF Run
  <2> QED BY <1>1, <2>2
<1> QED BY <1>1, <1>2 DEF Run

\* The extractor fills the name to its length and sends the rest on: what it holds is
\* the plaintext up to the end of the chunk.
Holds(f, o, n, upTo) ==
  /\ f \in Seq(Nat) /\ Run(f, 1) /\ Len(f) = Least(n, upTo - 1)
  /\ o \in Seq(Nat) /\ Run(o, 1 + n) /\ Len(o) = upTo - 1 - Len(f)
Taken(n, f, rest) == Least(n - Len(f), Len(rest))
Named(n, f, rest) == f \o SubSeq(rest, 1, Taken(n, f, rest))
Passed(n, f, o, rest) == o \o SubSeq(rest, Taken(n, f, rest) + 1, Len(rest))

LEMMA ExtractStep ==
  ASSUME NEW n \in Nat, NEW r \in Nat \ {0}, NEW rest \in Seq(Nat), Run(rest, r),
         NEW f, NEW o, Holds(f, o, n, r)
  PROVE  Holds(Named(n, f, rest), Passed(n, f, o, rest), n, r + Len(rest))
<1> DEFINE take == Taken(n, f, rest)
           f1 == Named(n, f, rest)
           o1 == Passed(n, f, o, rest)
           x == SubSeq(rest, 1, take)
           y == SubSeq(rest, take + 1, Len(rest))
           k == Len(f)
           l == Len(o)
           m == Len(rest)
<1> USE DEF Holds
<1>0. k \in Nat /\ m \in Nat /\ l \in Nat /\ n \in Nat /\ r \in Nat /\ r >= 1
  OBVIOUS
<1>t. take = Least(n - k, m) /\ f1 = f \o x /\ o1 = o \o y
  BY DEF Taken, Named, Passed
<1> HIDE DEF take, f1, o1
<1>1. /\ k <= n /\ take \in 0..m /\ take \in Nat
      /\ take > 0 => k = r - 1
      /\ take < m => take = n - k
      /\ k + take = Least(n, r + m - 1)
      /\ l + m - take = r + m - 1 - (k + take)
      /\ l = r - 1 - k
  <2>1. k = Least(n, r - 1) /\ l = r - 1 - k /\ take = Least(n - k, m)
    BY <1>t
  <2> HIDE DEF k, l, m
  <2>2. take \in Int
    BY <2>1, <1>0, LeastFacts
  <2>3. CASE r - 1 <= n
    BY ONLY <2>1, <2>2, <2>3, <1>0 DEF Least
  <2>4. CASE r - 1 > n
    BY ONLY <2>1, <2>2, <2>4, <1>0 DEF Least
  <2> QED BY <2>3, <2>4, <1>0
<1>2. /\ x \in Seq(Nat) /\ Len(x) = take /\ Run(x, r)
      /\ y \in Seq(Nat) /\ Len(y) = Len(rest) - take /\ Run(y, r + take)
  BY <1>1, CutAt
<1>3. Len(x) > 0 => Run(x, 1 + Len(f))
  <2> SUFFICES ASSUME Len(x) > 0 PROVE Run(x, 1 + Len(f))
    OBVIOUS
  <2>1. 1 + Len(f) = r
    BY <1>1, <1>2
  <2> QED BY <2>1, <1>2
<1>4. Len(y) > 0 => Run(y, (1 + n) + Len(o))
  <2> SUFFICES ASSUME Len(y) > 0 PROVE Run(y, (1 + n) + Len(o))
    OBVIOUS
  <2>1. take < m
    <3> HIDE DEF y
    <3> QED BY <1>0, <1>1, <1>2
  <2>2. (1 + n) + Len(o) = r + take
    <3>1. (1 + n) + l = r + take
      <4> HIDE DEF k, l, m
      <4> QED BY ONLY <2>1, <1>1, <1>0
    <3> QED BY <3>1
  <2> QED BY <2>2, <1>2
<1>5. f1 \in Seq(Nat) /\ Run(f1, 1) /\ Len(f1) = Len(f) + take
  <2>1. 1 \in Nat
    OBVIOUS
  <2> HIDE DEF x, y
  <2> QED BY ZenonT(40), <2>1, <1>2, <1>3, <1>t, Joined
<1>6. o1 \in Seq(Nat) /\ Run(o1, 1 + n) /\ Len(o1) = Len(o) + Len(rest) - take
  <2>1. 1 + n \in Nat
    OBVIOUS
  <2>2. o \o y \in Seq(Nat) /\ Len(o \o y) = Len(o) + Len(y) /\ Run(o \o y, 1 + n)
    <3> HIDE DEF x, y
    <3> QED BY <2>1, <1>2, <1>4, Joined
  <2> QED BY <2>2, <1>1, <1>2, <1>t
<1> QED BY SMTT(30), <1>1, <1>5, <1>6 DEF f1, o1

-----------------------------------------------------------------------------
(* What a carrier brings.                                                  *)

\* Sequences over one set of elements stay such through the damage a carrier does.
LEMMA Rearranged ==
  ASSUME NEW E, NEW s \in Seq(E)
  PROVE  /\ \A l \in 0..Len(s) : SubSeq(s, 1, l) \in Seq(E)
         /\ \A i \in 1..Len(s), e \in E : ReplaceAt(s, i, e) \in Seq(E) /\ Len(ReplaceAt(s, i, e)) = Len(s)
         /\ \A i \in 1..Len(s), e \in E : InsertAt(s, i, e) \in Seq(E)
         /\ \A i \in 1..Len(s) : RemoveAt(s, i) \in Seq(E)
<1>1. \A l \in 0..Len(s) : SubSeq(s, 1, l) \in Seq(E)
  OBVIOUS
<1>2. \A i \in 1..Len(s), e \in E : ReplaceAt(s, i, e) \in Seq(E) /\ Len(ReplaceAt(s, i, e)) = Len(s)
  BY DEF ReplaceAt
<1>3. ASSUME NEW i \in 1..Len(s), NEW e \in E
      PROVE  InsertAt(s, i, e) \in Seq(E) /\ RemoveAt(s, i) \in Seq(E)
  <2>1. /\ SubSeq(s, 1, i - 1) \in Seq(E) /\ SubSeq(s, i, Len(s)) \in Seq(E)
        /\ SubSeq(s, i + 1, Len(s)) \in Seq(E) /\ <<e>> \in Seq(E)
    OBVIOUS
  <2> QED BY <2>1 DEF InsertAt, RemoveAt
<1> QED BY <1>1, <1>2, <1>3

LEMMA CarriedElements ==
  ASSUME Lengths, NEW c \in {frames} \cup Damaged
  PROVE  c \in Seq(Element)
<1> DEFINE E == Element
<1>1. frames \in Seq(E) /\ Stub \in E
  BY DEF Lengths, Element
<1>2. \A i \in 1..Len(frames) : frames[i] \in E
  BY DEF Element
<1>3. DOMAIN frames = 1..Len(frames)
  BY DEF Lengths
<1> HIDE DEF E
<1>4. CASE c = frames
  BY <1>1, <1>4 DEF E
<1>5. CASE c \in Prefixes(frames)
  BY <1>1, <1>5, Rearranged DEF Prefixes, E
<1>6. CASE \E s \in Prefixes(frames) : c = Append(s, Stub)
  <2>1. PICK l \in 0..Len(frames) : c = Append(SubSeq(frames, 1, l), Stub)
    BY <1>6 DEF Prefixes
  <2>2. SubSeq(frames, 1, l) \in Seq(E)
    BY <1>1, Rearranged
  <2>3. c \in Seq(E)
    BY <2>1, <2>2, <1>1
  <2> QED BY <2>3 DEF E
<1>7. CASE \E i \in DOMAIN frames : c = ReplaceAt(frames, i, Stub)
  BY <1>1, <1>3, <1>7, Rearranged DEF E
<1>8. CASE \E i, j \in DOMAIN frames :
             c = ReplaceAt(ReplaceAt(frames, i, frames[j]), j, frames[i])
  <2>1. PICK i \in 1..Len(frames), j \in 1..Len(frames) :
               c = ReplaceAt(ReplaceAt(frames, i, frames[j]), j, frames[i])
    BY <1>3, <1>8
  <2>2. frames[i] \in E /\ frames[j] \in E
    BY <1>2
  <2> DEFINE once == ReplaceAt(frames, i, frames[j])
  <2>3. once \in Seq(E) /\ Len(once) = Len(frames)
    <3>1. \A a \in 1..Len(frames), e \in E :
             ReplaceAt(frames, a, e) \in Seq(E) /\ Len(ReplaceAt(frames, a, e)) = Len(frames)
      BY <1>1, Rearranged
    <3> QED BY <3>1, <2>2
  <2> HIDE DEF once
  <2>4. ReplaceAt(once, j, frames[i]) \in Seq(E)
    BY <2>2, <2>3, Rearranged
  <2> QED BY <2>1, <2>4 DEF once, E
<1>9. CASE \E i \in DOMAIN frames : c = InsertAt(frames, i, frames[i])
  BY <1>1, <1>2, <1>3, <1>9, Rearranged DEF E
<1>10. CASE \E i \in DOMAIN frames : c = RemoveAt(frames, i)
  BY <1>1, <1>3, <1>10, Rearranged DEF E
<1> QED BY <1>4, <1>5, <1>6, <1>7, <1>8, <1>9, <1>10 DEF Damaged

\* The next frame authenticates only if it is the next one that was pushed.
LEMMA OnlyTheNext ==
  ASSUME Lengths, Sealing, pulled \in Nat, NEW e \in Element, Pull(e)
  PROVE  /\ pulled + 1 \in 1..Len(frames)
         /\ e = frames[pulled + 1]
<1>1. e # Stub
  BY DEF Pull, Stub
<1>2. PICK i \in 1..Len(frames) : e = frames[i]
  BY <1>1 DEF Element
<1>3. i = pulled + 1
  BY <1>2 DEF Pull, Sealing, InPlace
<1> QED BY <1>2, <1>3

-----------------------------------------------------------------------------
(* The start, and the steps of conceal.                                    *)

LEMMA StartsWell == Init => IInv
<1> SUFFICES ASSUME Init PROVE IInv
  OBVIOUS
<1> USE SecretStreamAssumption
<1>1. Lengths
  BY DEF Init, Lengths, Prefix
<1>2. Sealing
  BY DEF Init, Sealing, Packed, Total, Prefix
<1>3. Carried
  <2>1. cipher \in Seq(Element) /\ pulled \in 0..Len(frames)
    BY DEF Init
  <2> QED BY <2>1 DEF Init, Carried, Lengths
<1>4. Extracting
  <2>1. /\ Len(filename) = 0 /\ Len(output) = 0
        /\ Run(filename, 1) /\ Run(output, Prefix)
    BY DEF Init, Run
  <2>2. Least(name, 1 - 1) = 0 /\ 1 - 1 - 0 = 0
    BY DEF Init, Least
  <2>3. Extracted(1)
    BY <2>1, <2>2 DEF Extracted
  <2>4. filename \in Seq(Nat) /\ output \in Seq(Nat) /\ pulled = 0 /\ ~hasLength
    BY DEF Init
  <2> QED BY <2>3, <2>4 DEF Extracting
<1>5. OnlyTheOriginal /\ NoFalseAlarm
  BY DEF Init, OnlyTheOriginal, NoFalseAlarm
<1> QED BY <1>1, <1>2, <1>3, <1>4, <1>5 DEF IInv

\* What only concerns recover stays while only conceal works.
LEMMA OpeningKept ==
  ASSUME IInv, UNCHANGED <<openVars, name, data, zlib, frames>>
  PROVE  Carried' /\ Extracting' /\ OnlyTheOriginal' /\ NoFalseAlarm'
BY SMTT(30) DEF IInv, Carried, Rest, Element, Extracting, Extracted, Run, EndOf, First, OnlyTheOriginal,
       NoFalseAlarm, Prefix, openVars, Least, Bytes

LEMMA SourceStep == ASSUME IInv, SourceChanges PROVE IInv'
<1>1. Lengths' /\ Sealing'
  <2>1. /\ source' \in Nat
        /\ UNCHANGED <<name, data, zlib, prefixOff, inputLeft, sealing, frames, opening>>
    BY DEF IInv, Lengths, SourceChanges, sealVars, openVars
  <2>2. Lengths'
    BY <2>1 DEF IInv, Lengths, Prefix
  <2>3. Sealing'
    BY <2>1 DEF IInv, Sealing, InPlace, Run, EndOf, First, Packed, Total, Prefix
  <2> QED BY <2>2, <2>3
<1>2. UNCHANGED <<openVars, name, data, zlib, frames>>
  BY DEF SourceChanges, sealVars
<1> QED BY <1>1, <1>2, OpeningKept DEF IInv

LEMMA SealStep == ASSUME IInv, Seal \/ SealFails PROVE IInv'
<1>1. /\ sealing = "chunks" /\ sealing' \in {"sealed", "failed"}
      /\ sealing' = "sealed" => prefixOff = Prefix /\ inputLeft = 0
      /\ UNCHANGED <<name, data, zlib, source, prefixOff, inputLeft, frames, opening>>
  BY DEF Seal, SealFails, openVars
<1>2. Lengths'
  BY <1>1 DEF IInv, Lengths, Prefix
<1>3. opening = "carrier"
  BY <1>1 DEF IInv, Sealing
<1>4. Sealing'
  <2>1. sealing' = "sealed" => Packed' = Total'
    BY <1>1 DEF IInv, Lengths, Packed, Total, Prefix
  <2>2. \A i \in 1..Len(frames)' :
          /\ InPlace(i)' /\ EndOf(i)' <= Packed'
          /\ frames'[i].final <=> i = Len(frames') /\ Packed' = Total'
    BY <1>1 DEF IInv, Sealing, InPlace, Run, EndOf, First, Packed, Total, Prefix
  <2>3. /\ (prefixOff < Prefix => inputLeft = data)'
        /\ Packed' = IF frames' = <<>> THEN 0 ELSE EndOf(Len(frames))'
    BY <1>1 DEF IInv, Sealing, EndOf, First, Packed, Prefix
  <2> QED BY <2>1, <2>2, <2>3, <1>1, <1>3 DEF Sealing
<1>5. UNCHANGED <<openVars, name, data, zlib, frames>>
  BY DEF Seal, SealFails
<1> QED BY <1>2, <1>4, <1>5, OpeningKept DEF IInv

\* How much of the prefix and how much data a chunk takes.
LEMMA ChunkLengths ==
  ASSUME Lengths, Sealing, prefixOff < Prefix \/ inputLeft > 0,
         NEW p, p = Least(ChunkSize, Prefix - prefixOff),
         NEW f, f = FileBytes(p)
  PROVE  /\ p \in 0..(Prefix - prefixOff) /\ f \in 0..inputLeft
         /\ p + f \in 1..ChunkSize
         /\ p > 0 => inputLeft = data /\ Packed = prefixOff
         /\ f > 0 => prefixOff + p = Prefix
         /\ prefixOff + p < Prefix => f = 0 /\ inputLeft = data
         /\ p = 0 => Packed = Prefix + data - inputLeft
<1> USE SecretStreamAssumption
<1>1. /\ Prefix \in Nat /\ data \in Nat /\ prefixOff \in 0..Prefix /\ inputLeft \in 0..data
      /\ prefixOff < Prefix => inputLeft = data
  BY DEF Lengths, Sealing, Prefix
<1>2. /\ p \in Int /\ p <= ChunkSize /\ p <= Prefix - prefixOff
      /\ p = ChunkSize \/ p = Prefix - prefixOff
  <2>1. ChunkSize \in Int /\ Prefix - prefixOff \in Int
    BY <1>1
  <2> QED BY <2>1, LeastFacts
<1>3. /\ f \in Int /\ f <= ChunkSize - p /\ f <= inputLeft
      /\ f = ChunkSize - p \/ f = inputLeft
  <2>1. ChunkSize - p \in Int /\ inputLeft \in Int
    BY <1>1, <1>2
  <2> QED BY <2>1, LeastFacts DEF FileBytes
<1>4. /\ p \in 0..(Prefix - prefixOff) /\ f \in 0..inputLeft /\ p + f \in 1..ChunkSize
      /\ p > 0 => inputLeft = data
      /\ f > 0 => prefixOff + p = Prefix
      /\ prefixOff + p < Prefix => f = 0 /\ inputLeft = data
      /\ p = 0 => prefixOff = Prefix
  <2>1. CASE prefixOff < Prefix
    BY ONLY <1>1, <1>2, <1>3, <2>1, SecretStreamAssumption
  <2>2. CASE prefixOff = Prefix /\ inputLeft > 0
    <3>1. p = 0
      BY ONLY <1>1, <1>2, <2>2, SecretStreamAssumption
    <3> QED BY ONLY <1>1, <1>3, <2>2, <3>1, SecretStreamAssumption
  <2> QED BY <2>1, <2>2, <1>1
<1> QED BY <1>1, <1>4 DEF Packed

LEMMA PushStep == ASSUME IInv, PushChunk PROVE IInv'
<1> USE SecretStreamAssumption DEF IInv
<1>0. PICK n \in Nat : n = Len(frames) + 1
  BY DEF Lengths
<1> DEFINE p == Least(ChunkSize, Prefix - prefixOff)
           f == FileBytes(p)
           at == data - inputLeft
           b == Bytes(prefixOff, prefixOff + p - 1)
           c == Bytes(Prefix + at, Prefix + at + f - 1)
           fr == [no |-> n, bytes |-> b \o c, final |-> IsFinal(p, f)]
<1>1. /\ sealing = "chunks" /\ (prefixOff < Prefix \/ inputLeft > 0)
      /\ prefixOff' = prefixOff + p /\ inputLeft' = inputLeft - f
      /\ frames' = Append(frames, fr)
      /\ UNCHANGED <<name, data, zlib, source, sealing, openVars>>
  BY <1>0 DEF PushChunk
<1>2. /\ p \in 0..(Prefix - prefixOff) /\ f \in 0..inputLeft
      /\ p + f \in 1..ChunkSize
      /\ p > 0 => inputLeft = data /\ Packed = prefixOff
      /\ f > 0 => prefixOff + p = Prefix
      /\ prefixOff + p < Prefix => f = 0 /\ inputLeft = data
      /\ p = 0 => Packed = Prefix + data - inputLeft
  BY <1>1, ChunkLengths
<1>3. /\ name \in Nat /\ Prefix \in Nat /\ data \in Nat /\ prefixOff \in 0..Prefix
      /\ inputLeft \in 0..data /\ at \in Nat /\ Packed \in Nat /\ p \in Nat /\ f \in Nat
  BY <1>2 DEF Lengths, Prefix, Packed
<1> HIDE DEF p, f
<1>4. /\ b \o c \in Seq(Nat) /\ Len(b \o c) = p + f /\ Run(b \o c, Packed)
  <2>1. b \in Seq(Nat) /\ Len(b) = p /\ Run(b, prefixOff)
    <3>1. /\ prefixOff \in Nat /\ prefixOff + p - 1 \in Int
          /\ prefixOff <= (prefixOff + p - 1) + 1 /\ (prefixOff + p - 1) - prefixOff + 1 = p
      BY <1>3
    <3> QED BY <3>1, BytesFacts
  <2>2. c \in Seq(Nat) /\ Len(c) = f /\ Run(c, Prefix + at)
    <3>1. /\ Prefix + at \in Nat /\ Prefix + at + f - 1 \in Int
          /\ Prefix + at <= (Prefix + at + f - 1) + 1
          /\ (Prefix + at + f - 1) - (Prefix + at) + 1 = f
      BY <1>3
    <3> HIDE DEF at
    <3> QED BY <3>1, BytesFacts
  <2>3. Run(b, Packed)
    <3>1. CASE p = 0
      BY <2>1, <3>1 DEF Run
    <3>2. CASE p > 0
      BY <1>2, <2>1, <3>2
    <3> QED BY <3>1, <3>2, <1>3
  <2>4. f > 0 => Packed + p = Prefix + at
    BY <1>2, <1>3
  <2>5. Len(c) > 0 => Run(c, Packed + Len(b))
    <3> SUFFICES ASSUME Len(c) > 0 PROVE Run(c, Packed + Len(b))
      OBVIOUS
    <3>1. Packed + Len(b) = Prefix + at
      BY <2>1, <2>2, <2>4
    <3> QED BY <3>1, <2>2
  <2> HIDE DEF b, c
  <2> QED BY <2>1, <2>2, <2>3, <2>5, <1>3, Joined
<1> HIDE DEF b, c, at
<1>5. /\ Packed' = Packed + p + f /\ Packed' \in Nat /\ Packed < Total /\ Packed' <= Total
      /\ Total' = Total /\ (IsFinal(p, f) <=> Packed' = Total)
  <2>1. Packed' = (prefixOff + p) + (data - (inputLeft - f)) /\ Total' = Total
    BY <1>1 DEF Packed, Total, Prefix
  <2> QED BY <2>1, <1>1, <1>2, <1>3 DEF Packed, Total, IsFinal
<1>6. /\ frames \in Seq(Frame) /\ fr \in Frame /\ frames' \in Seq(Frame)
      /\ Len(frames') = n /\ frames'[n] = fr
      /\ n = Len(frames) + 1 /\ \A i \in 1..Len(frames) : frames'[i] = frames[i]
  <2>1. fr \in Frame /\ frames \in Seq(Frame) /\ n = Len(frames) + 1
    BY <1>0, <1>3, <1>4 DEF Frame, IsFinal, Lengths
  <2> HIDE DEF fr
  <2> QED BY <2>1, <1>1
<1>7. opening = "carrier" /\ pulled = 0 /\ opening' = opening /\ pulled' = pulled
  BY <1>1 DEF Sealing, Carried, openVars
<1>lengths. Lengths'
  <2>1. Prefix' = Prefix
    BY <1>1 DEF Prefix
  <2>2. prefixOff' \in 0..Prefix' /\ inputLeft' \in 0..data'
    BY <2>1, <1>1, <1>2, <1>3
  <2> QED BY <2>2, <1>1, <1>6 DEF Lengths
<1>8. \A i \in 1..Len(frames) : First(i)' = First(i) /\ EndOf(i)' = EndOf(i)
  BY <1>6 DEF First, EndOf
<1>9. First(n)' = Packed /\ EndOf(n)' = Packed'
  <2>1. frames'[n].bytes = b \o c
    BY <1>6
  <2>2. First(n)' = Packed
    <3>1. 1 \in 1..Len(b \o c)
      BY <1>4, <1>2
    <3>2. (b \o c)[1] = Packed + 1 - 1
      BY <3>1, <1>4 DEF Run
    <3> QED BY <2>1, <3>2, <1>3 DEF First
  <2>3. EndOf(n)' = First(n)' + Len(frames'[n].bytes)
    BY <1>6 DEF EndOf, First
  <2>4. EndOf(n)' = Packed + (p + f)
    BY <2>1, <2>2, <2>3, <1>4
  <2> QED BY <2>2, <2>4, <1>5, <1>3
<1>sealing. Sealing'
  <2>1. (prefixOff < Prefix => inputLeft = data)'
    BY <1>1, <1>2, <1>3 DEF Prefix
  <2>2. Packed' = IF frames' = <<>> THEN 0 ELSE EndOf(Len(frames))'
    <3>1. frames' # <<>> /\ EndOf(Len(frames))' = EndOf(n)'
      BY <1>6, <1>3 DEF EndOf, First
    <3> QED BY <3>1, <1>9
  <2>3. ASSUME NEW i \in 1..Len(frames)
        PROVE  /\ InPlace(i)' /\ EndOf(i)' <= Packed'
               /\ frames'[i].final <=> i = Len(frames') /\ Packed' = Total'
    <3>1. frames'[i] = frames[i] /\ First(i)' = First(i) /\ EndOf(i)' = EndOf(i)
      BY <1>6, <1>8
    <3>2. i > 1 => EndOf(i - 1)' = EndOf(i - 1)
      BY <1>8
    <3>3. InPlace(i)'
      BY <3>1, <3>2 DEF Sealing, InPlace, Run
    <3>4. EndOf(i) \in Nat /\ EndOf(i) <= Packed
      <4>1. frames[i] \in Frame /\ Len(frames[i].bytes) >= 1
        BY DEF Lengths, Sealing, InPlace
      <4>2. First(i) \in Nat
        BY <4>1 DEF First, Frame
      <4> QED BY <4>1, <4>2 DEF EndOf, Sealing, Frame
    <3>5. EndOf(i)' <= Packed'
      BY <3>1, <3>4, <1>5, <1>3
    <3>6. ~frames[i].final
      BY <1>5, <1>3 DEF Sealing
    <3> QED BY <3>1, <3>3, <3>5, <3>6, <1>6
  <2>4. /\ InPlace(n)' /\ EndOf(n)' <= Packed'
        /\ frames'[n].final <=> n = Len(frames') /\ Packed' = Total'
    <3>1. frames'[n].no = n /\ frames'[n].bytes = b \o c /\ frames'[n].final = IsFinal(p, f)
      BY <1>6
    <3>2. Len(frames'[n].bytes) \in 1..ChunkSize /\ Run(frames'[n].bytes, First(n)')
      BY <3>1, <1>2, <1>4, <1>9
    <3>3. First(n)' = IF n = 1 THEN 0 ELSE EndOf(n - 1)'
      <4>1. CASE n = 1
        BY <4>1, <1>9, <1>6 DEF Sealing
      <4>2. CASE n > 1
        <5>1. n - 1 \in 1..Len(frames) /\ n - 1 = Len(frames) /\ frames # <<>>
          BY <4>2, <1>0
        <5>2. EndOf(n - 1)' = EndOf(n - 1)
          BY <5>1, <1>6 DEF EndOf, First
        <5>3. Packed = EndOf(n - 1)
          BY <5>1 DEF Sealing
        <5> QED BY <4>2, <5>2, <5>3, <1>9
      <4> QED BY <4>1, <4>2, <1>6
    <3>4. InPlace(n)'
      BY <3>1, <3>2, <3>3 DEF InPlace, First
    <3>5. EndOf(n)' <= Packed'
      BY <1>9, <1>5
    <3>6. frames'[n].final <=> n = Len(frames') /\ Packed' = Total'
      <4>1. n = Len(frames') /\ (IsFinal(p, f) <=> Packed' = Total')
        BY <1>5, <1>6
      <4>2. frames'[n].final <=> IsFinal(p, f)
        BY <3>1
      <4> QED BY <4>1, <4>2, Zenon
    <3> QED BY <3>4, <3>5, <3>6
  <2>5. \A i \in 1..Len(frames') :
          /\ InPlace(i)' /\ EndOf(i)' <= Packed'
          /\ frames'[i].final <=> i = Len(frames') /\ Packed' = Total'
    <3> TAKE i \in 1..Len(frames')
    <3>1. i \in 1..Len(frames) \/ i = n
      BY <1>6
    <3> QED BY <3>1, <2>3, <2>4
  <2> QED BY <2>1, <2>2, <2>5, <1>1, <1>7 DEF Sealing
<1>carried. Carried'
  <2>1. Element \subseteq Element'
    <3>1. ASSUME NEW e \in Element PROVE e \in Element'
      <4>1. CASE e = Stub
        BY <4>1 DEF Element, Stub
      <4>2. CASE e # Stub
        <5>1. PICK i \in 1..Len(frames) : e = frames[i]
          BY <4>2 DEF Element
        <5>2. i \in 1..Len(frames') /\ e = frames'[i]
          BY <5>1, <1>6
        <5> QED BY <5>2 DEF Element
      <4> QED BY <4>1, <4>2
    <3> QED BY <3>1
  <2>2. cipher' = cipher /\ cipher \in Seq(Element)
    BY <1>1 DEF Carried, openVars
  <2>3. cipher' \in Seq(Element')
    <3> DEFINE E == Element
               F == Element'
    <3>1. E \subseteq F /\ cipher \in Seq(E)
      BY <2>1, <2>2
    <3> HIDE DEF E, F
    <3>2. cipher \in Seq(F)
      BY <3>1
    <3> QED BY <3>2, <2>2 DEF F
  <2>4. pulled' \in 0..Len(frames')
    BY <1>6, <1>7
  <2> QED BY <2>3, <2>4, <1>1, <1>7 DEF Carried, openVars
<1>extracting. Extracting'
  BY <1>1, <1>7 DEF Extracting, Extracted, Run, Prefix, openVars, Least
<1> QED BY <1>lengths, <1>sealing, <1>carried, <1>extracting, <1>7
        DEF OnlyTheOriginal, NoFalseAlarm

-----------------------------------------------------------------------------
(* The steps of recover.                                                   *)

\* While recover reads, nothing of conceal changes.
LEMMA SealedKept ==
  ASSUME IInv, sealing = "sealed",
         UNCHANGED <<name, data, zlib, source, sealVars>>
  PROVE  Lengths' /\ Sealing' /\ Element' = Element
<1>1. UNCHANGED <<prefixOff, inputLeft, sealing, frames>>
  BY DEF sealVars
<1>2. Lengths'
  BY <1>1 DEF IInv, Lengths, Prefix
<1>3. Sealing'
  <2>1. \A i \in 1..Len(frames)' :
          /\ InPlace(i)' /\ EndOf(i)' <= Packed'
          /\ frames'[i].final <=> i = Len(frames') /\ Packed' = Total'
    BY <1>1 DEF IInv, Sealing, InPlace, Run, EndOf, First, Packed, Total, Prefix
  <2>2. /\ (prefixOff < Prefix => inputLeft = data)'
        /\ Packed' = IF frames' = <<>> THEN 0 ELSE EndOf(Len(frames))'
        /\ sealing' = "sealed" /\ Packed' = Total'
    BY <1>1 DEF IInv, Sealing, EndOf, First, Packed, Prefix, Total
  <2> QED BY <2>1, <2>2 DEF Sealing
<1>4. Element' = Element
  BY <1>1 DEF Element, Stub
<1> QED BY <1>2, <1>3, <1>4

\* The lengths of what was sealed.
LEMMA SealedLengths ==
  ASSUME Lengths, Sealing, sealing = "sealed"
  PROVE  /\ name \in Nat \ {0} /\ data \in Nat \ {0} /\ Total = 1 + name + data
         /\ frames # <<>> /\ Len(frames) \in Nat \ {0}
         /\ \A i \in 1..Len(frames) :
              /\ frames[i].bytes \in Seq(Nat) /\ Len(frames[i].bytes) \in Nat \ {0}
              /\ First(i) \in Nat /\ EndOf(i) \in Nat \ {0} /\ EndOf(i) <= Total
              /\ frames[i].final <=> i = Len(frames)
         /\ EndOf(Len(frames)) = Total
<1>1. name \in Nat \ {0} /\ data \in Nat \ {0} /\ Total = 1 + name + data /\ Packed = Total
  BY DEF Lengths, Sealing, Total, Prefix
<1>2. frames # <<>> /\ Len(frames) \in Nat \ {0} /\ EndOf(Len(frames)) = Total
  BY <1>1 DEF Sealing, Lengths
<1>3. ASSUME NEW i \in 1..Len(frames)
      PROVE  /\ frames[i].bytes \in Seq(Nat) /\ Len(frames[i].bytes) \in Nat \ {0}
             /\ First(i) \in Nat /\ EndOf(i) \in Nat \ {0} /\ EndOf(i) <= Total
             /\ frames[i].final <=> i = Len(frames)
  <2>1. frames[i].bytes \in Seq(Nat) /\ Len(frames[i].bytes) \in Nat \ {0}
    <3>1. frames[i] \in Frame /\ Len(frames[i].bytes) \in 1..ChunkSize
      BY DEF Lengths, Sealing, InPlace
    <3> QED BY <3>1, SecretStreamAssumption DEF Frame
  <2>2. First(i) \in Nat
    BY <2>1 DEF First
  <2>3. EndOf(i) \in Nat \ {0}
    BY <2>1, <2>2 DEF EndOf
  <2> QED BY <2>1, <2>2, <2>3, <1>1 DEF Sealing
<1> QED BY <1>1, <1>2, <1>3

LEMMA CarryStep == ASSUME IInv, Carry PROVE IInv'
<1> USE DEF IInv
<1>1. /\ sealing = "sealed" /\ opening = "carrier" /\ opening' = "frames"
      /\ cipher' \in {frames} \cup Damaged /\ intact' = (cipher' = frames)
      /\ rightKey' \in BOOLEAN /\ flag' \in BOOLEAN
      /\ UNCHANGED <<name, data, zlib, source, sealVars, pulled, hasLength, filename, output>>
  BY DEF Carry
<1>2. Lengths' /\ Sealing' /\ Element' = Element
  BY <1>1, SealedKept
<1>3. cipher' \in Seq(Element) /\ frames' = frames /\ frames \in Seq(Frame)
  BY <1>1, CarriedElements DEF sealVars, Lengths
<1>4. pulled' = 0 /\ Len(frames) > 0
  BY <1>1, SealedLengths DEF Carried
<1>5. intact' <=> Rest'
  <2>1. Rest' <=> Len(cipher') = Len(frames) /\ \A j \in 1..Len(cipher') : cipher'[j] = frames[j]
    BY <1>3, <1>4 DEF Rest
  <2>2. cipher' = frames <=> Len(cipher') = Len(frames) /\ \A j \in 1..Len(cipher') : cipher'[j] = frames[j]
    <3> DEFINE c == cipher'
    <3>1. c \in Seq(Element)
      BY <1>3
    <3> HIDE DEF c
    <3>2. c = frames <=> Len(c) = Len(frames) /\ \A j \in 1..Len(c) : c[j] = frames[j]
      BY <3>1, <1>3
    <3> QED BY <3>2 DEF c
  <2> QED BY <2>1, <2>2, <1>1
<1>6. Carried'
  <2>1. pulled' \in 0..Len(frames') /\ pulled' < Len(frames') /\ hasLength' \in BOOLEAN
    BY <1>1, <1>3, <1>4 DEF Carried
  <2>2. cipher' \in Seq(Element') /\ intact' \in BOOLEAN
    BY <1>1, <1>2, <1>3
  <2> QED BY <1>1, <1>5, <2>1, <2>2 DEF Carried
<1>7. Extracting'
  BY <1>1, <1>3, <1>4 DEF Extracting, Extracted, Run, Prefix
<1> QED BY <1>1, <1>2, <1>6, <1>7 DEF OnlyTheOriginal, NoFalseAlarm

\* What the extractor holds after a frame.
LEMMA PullExtracts ==
  ASSUME IInv, PullFrame, NEW k \in Nat, k = pulled + 1
  PROVE  /\ k \in 1..Len(frames) /\ Head(cipher) = frames[k]
         /\ filename' \in Seq(Nat) /\ output' \in Seq(Nat) /\ hasLength'
         /\ Run(filename', 1) /\ Len(filename') = Least(name, EndOf(k) - 1)
         /\ Run(output', Prefix) /\ Len(output') = EndOf(k) - 1 - Len(filename')
<1> USE DEF IInv
<1>1. /\ opening = "frames" /\ cipher # <<>> /\ Pull(Head(cipher))
      /\ Consume(Head(cipher).bytes)
  BY DEF PullFrame
<1>2. sealing = "sealed" /\ pulled \in Nat
  BY <1>1 DEF Sealing, Carried
<1>3. k \in 1..Len(frames) /\ Head(cipher) = frames[k]
  <2>1. Head(cipher) \in Element
    BY <1>1 DEF Carried
  <2> QED BY <1>1, <1>2, <2>1, OnlyTheNext
<1> DEFINE chunk == frames[k].bytes
           rest == IF hasLength THEN chunk ELSE Tail(chunk)
           r == IF pulled = 0 THEN 1 ELSE EndOf(pulled)
<1>4. /\ chunk \in Seq(Nat) /\ Len(chunk) > 0 /\ Run(chunk, First(k)) /\ EndOf(k) = First(k) + Len(chunk)
      /\ First(k) \in Nat /\ First(k) = IF k = 1 THEN 0 ELSE EndOf(k - 1)
      /\ name \in Nat
  BY SMTT(30), <1>2, <1>3, SealedLengths DEF Sealing, InPlace, EndOf
<1>5. /\ rest \in Seq(Nat) /\ Run(rest, r) /\ r \in Nat \ {0} /\ r + Len(rest) = EndOf(k)
  <2> HIDE DEF chunk
  <2>1. CASE pulled = 0
    <3>1. ~hasLength /\ rest = Tail(chunk) /\ r = 1 /\ First(k) = 0
      BY <2>1, <1>4 DEF Extracting
    <3>2. Tail(chunk) \in Seq(Nat) /\ Len(Tail(chunk)) = Len(chunk) - 1 /\ Run(Tail(chunk), 0 + 1)
      BY <3>1, <1>4, TailOfRun
    <3> QED BY <3>1, <3>2, <1>4
  <2>2. CASE pulled > 0
    <3>1. hasLength /\ rest = chunk /\ r = EndOf(pulled)
      BY <2>2 DEF Extracting
    <3>2. pulled \in 1..Len(frames) /\ pulled = k - 1 /\ k # 1
      BY <2>2, <1>2, <1>3
    <3>3. First(k) = EndOf(pulled) /\ EndOf(pulled) \in Nat \ {0}
      BY <3>2, <1>2, <1>4, SealedLengths
    <3> QED BY <3>1, <3>3, <1>4
  <2> QED BY <2>1, <2>2, <1>2
<1>6. Holds(filename, output, name, r)
  BY SMTT(30) DEF Extracting, Extracted, Prefix, Holds
<1>7. hasLength' = TRUE /\ filename' = Named(name, filename, rest)
      /\ output' = Passed(name, filename, output, rest)
  BY <1>1, <1>3 DEF Consume, Named, Passed, Taken
<1> HIDE DEF r, rest, chunk
<1>8. Holds(filename', output', name, r + Len(rest))
  BY <1>4, <1>5, <1>6, <1>7, ExtractStep
<1> DEFINE e == EndOf(k)
<1>9. r + Len(rest) = e
  BY <1>5
<1> HIDE DEF e
<1>10. Holds(filename', output', name, e)
  BY <1>8, <1>9
<1> QED BY <1>3, <1>7, <1>10 DEF Prefix, Holds, e

LEMMA PullStep == ASSUME IInv, PullFrame PROVE IInv'
<1> USE DEF IInv
<1>0. PICK k \in Nat : k = pulled + 1
  BY DEF Carried
<1>1. /\ opening = "frames" /\ cipher # <<>> /\ cipher' = Tail(cipher) /\ pulled' = k
      /\ IF Head(cipher).final THEN opening' = AfterFinal(Tail(cipher), output')
         ELSE opening' = opening
      /\ UNCHANGED <<name, data, zlib, source, sealVars, intact, rightKey, flag>>
  BY <1>0 DEF PullFrame, End
<1>2. /\ k \in 1..Len(frames) /\ Head(cipher) = frames[k]
      /\ filename' \in Seq(Nat) /\ output' \in Seq(Nat) /\ hasLength'
      /\ Run(filename', 1) /\ Len(filename') = Least(name, EndOf(k) - 1)
      /\ Run(output', Prefix) /\ Len(output') = EndOf(k) - 1 - Len(filename')
  BY <1>0, PullExtracts
<1>3. sealing = "sealed"
  BY <1>1 DEF Sealing
<1>4. Lengths' /\ Sealing' /\ Element' = Element
  BY <1>1, <1>3, SealedKept
<1>5. /\ frames' = frames /\ name' = name /\ data' = data /\ zlib' = zlib
      /\ intact' = intact /\ rightKey' = rightKey /\ flag' = flag
  BY <1>1 DEF sealVars
<1>6. /\ Head(cipher).final <=> k = Len(frames)
      /\ EndOf(k) \in Nat /\ EndOf(Len(frames)) = Total /\ Total = 1 + name + data
      /\ name \in Nat \ {0} /\ data \in Nat \ {0}
  BY <1>2, <1>3, SealedLengths
<1>7. /\ cipher' \in Seq(Element) /\ Len(cipher') = Len(cipher) - 1 /\ Len(cipher) > 0
      /\ \A j \in 1..Len(cipher') : cipher'[j] = cipher[j + 1]
      /\ cipher[1] = frames[k]
  BY <1>1, <1>2 DEF Carried
<1>8. intact' <=> Rest'
  <2>1. intact <=> Rest
    BY <1>1 DEF Carried
  <2>2. Rest => Rest'
    <3> SUFFICES ASSUME Rest PROVE Rest'
      OBVIOUS
    <3>1. Len(cipher') = Len(frames) - k
      BY <1>0, <1>7 DEF Rest, Carried
    <3>2. \A j \in 1..Len(cipher') : cipher'[j] = frames[k + j]
      <4> TAKE j \in 1..Len(cipher')
      <4>1. j + 1 \in 1..Len(cipher) /\ pulled + (j + 1) = k + j
        BY <1>0, <1>7 DEF Carried
      <4>2. cipher[j + 1] = frames[pulled + (j + 1)]
        BY <4>1 DEF Rest
      <4> QED BY <4>1, <4>2, <1>7
    <3> QED BY <3>1, <3>2, <1>1, <1>5 DEF Rest
  <2>3. Rest' => Rest
    <3> SUFFICES ASSUME Rest' PROVE Rest
      OBVIOUS
    <3>1. Len(cipher) = Len(frames) - pulled
      BY <1>0, <1>1, <1>2, <1>5, <1>7 DEF Rest, Carried
    <3>2. \A j \in 1..Len(cipher) : cipher[j] = frames[pulled + j]
      <4> TAKE j \in 1..Len(cipher)
      <4>1. CASE j = 1
        BY <4>1, <1>0, <1>7
      <4>2. CASE j > 1
        <5>1. j - 1 \in 1..Len(cipher') /\ k + (j - 1) = pulled + j /\ (j - 1) + 1 = j
          BY <4>2, <1>0, <1>7 DEF Carried
        <5>2. cipher'[j - 1] = frames[k + (j - 1)]
          BY <5>1, <1>1, <1>5 DEF Rest
        <5>3. cipher'[j - 1] = cipher[(j - 1) + 1]
          BY <5>1, <1>7
        <5> QED BY <5>1, <5>2, <5>3
      <4> QED BY <4>1, <4>2, <1>7
    <3> QED BY <3>1, <3>2 DEF Rest
  <2> QED BY <2>1, <2>2, <2>3, <1>5
<1>9. Extracting'
  <2>1. EndOf(k)' = EndOf(k) /\ Prefix' = Prefix
    BY <1>5 DEF EndOf, First, Prefix
  <2>2. k > 0 /\ (IF pulled' = 0 THEN 1 ELSE EndOf(pulled)') = EndOf(k)
    BY <2>1, <1>1, <1>2, <1>5 DEF EndOf, First
  <2> QED BY <2>1, <2>2, <1>1, <1>2, <1>5 DEF Extracting, Extracted, Least, Run
<1>10. CASE k # Len(frames)
  <2>1. opening' = "frames" /\ k < Len(frames)
    BY <1>1, <1>2, <1>6, <1>10
  <2>2. Carried'
    BY <2>1, <1>1, <1>2, <1>4, <1>5, <1>7, <1>8 DEF Carried
  <2> QED BY <2>1, <2>2, <1>4, <1>9 DEF OnlyTheOriginal, NoFalseAlarm
<1>11. CASE k = Len(frames)
  <2>1. /\ opening' = AfterFinal(cipher', output')
        /\ Len(filename') = name /\ Len(output') = data
    <3>1. Len(filename') = Least(name, name + data) /\ Len(output') = name + data - Len(filename')
      BY <1>2, <1>6, <1>11
    <3>2. Least(name, name + data) = name
      BY <1>6 DEF Least
    <3> QED BY <3>1, <3>2, <1>1, <1>6, <1>11
  <2>2. Rest' <=> cipher' = <<>>
    <3>1. Rest' => cipher' = <<>>
      BY <1>1, <1>5, <1>7, <1>11 DEF Rest
    <3>2. cipher' = <<>> => Rest'
      <4> SUFFICES ASSUME cipher' = <<>> PROVE Rest'
        OBVIOUS
      <4>1. Len(cipher') = 0 /\ Len(frames') - pulled' = 0
        BY <1>1, <1>2, <1>5, <1>11
      <4> QED BY <4>1 DEF Rest
    <3> QED BY <3>1, <3>2
  <2>3. \/ opening' = "failedKey" /\ cipher' # <<>>
        \/ opening' = "error"
        \/ opening' = "success" /\ cipher' = <<>>
    BY <2>1, <1>6 DEF AfterFinal, Verdict
  <2>4. Carried'
    <3>1. pulled' \in 0..Len(frames')
      BY <1>1, <1>2, <1>5
    <3> QED BY <2>3, <3>1, <1>1, <1>2, <1>4, <1>5, <1>7, <1>8 DEF Carried, Ended
  <2>5. OnlyTheOriginal'
    <3> SUFFICES ASSUME opening' = "success"
                 PROVE  /\ filename' = Bytes(1, name) /\ output' = Bytes(Prefix, name + data)
                        /\ intact' /\ cipher' = <<>>
      BY <1>5 DEF OnlyTheOriginal, Bytes, Prefix
    <3>1. filename' = Bytes(1, name)
      <4>1. 1 \in Nat /\ name \in Int /\ 1 <= name + 1 /\ Len(filename') = name - 1 + 1
        BY <2>1, <1>6
      <4> QED BY <4>1, <1>2, RunIsBytes
    <3>2. output' = Bytes(Prefix, name + data)
      <4>1. /\ Prefix \in Nat /\ name + data \in Int /\ Prefix <= (name + data) + 1
            /\ Len(output') = (name + data) - Prefix + 1
        BY <2>1, <1>6 DEF Prefix
      <4> QED BY <4>1, <1>2, RunIsBytes
    <3>3. cipher' = <<>> /\ intact'
      BY <2>2, <2>3, <1>8
    <3> QED BY <3>1, <3>2, <3>3
  <2>6. NoFalseAlarm'
    BY <2>2, <2>3, <1>8 DEF NoFalseAlarm
  <2> QED BY <2>4, <2>5, <2>6, <1>4, <1>9
<1> QED BY <1>10, <1>11

\* A frame that does not authenticate, the end without a final frame, an error.
LEMMA GiveUpStep == ASSUME IInv, PullFails \/ RanOut \/ OpenFails PROVE IInv'
<1> USE DEF IInv
<1>1. /\ opening = "frames" /\ opening' \in {"failedKey", "error"}
      /\ UNCHANGED <<name, data, zlib, source, sealVars, cipher, intact, rightKey, flag, pulled,
                     hasLength, filename, output>>
  BY DEF PullFails, RanOut, OpenFails, End
<1>2. sealing = "sealed" /\ UNCHANGED frames
  BY <1>1 DEF Sealing, sealVars
<1>3. Lengths' /\ Sealing' /\ Element' = Element
  BY <1>1, <1>2, SealedKept
<1>4. Rest' <=> Rest
  BY <1>1, <1>2 DEF Rest
<1>5. Carried'
  <2>1. pulled' \in 0..Len(frames') /\ cipher' \in Seq(Element')
    BY <1>1, <1>2, <1>3 DEF Carried
  <2> QED BY <2>1, <1>1, <1>2, <1>4 DEF Carried, Ended
<1>6. Extracting'
  BY <1>1, <1>2 DEF Extracting, Extracted, Run, Prefix, EndOf, First, Least
<1>7. NoFalseAlarm'
  <2>1. CASE PullFails
    <3>1. Rest /\ cipher # <<>> => Head(cipher).no = pulled + 1
      <4> SUFFICES ASSUME Rest, cipher # <<>> PROVE Head(cipher).no = pulled + 1
        OBVIOUS
      <4>1. Head(cipher) = cipher[1] /\ Len(cipher) \in Nat \ {0}
        BY DEF Carried
      <4>2. cipher[1] = frames[pulled + 1] /\ pulled + 1 \in 1..Len(frames)
        BY <4>1 DEF Rest, Carried
      <4> QED BY <4>1, <4>2 DEF Sealing, InPlace
    <3> QED BY <2>1, <3>1, <1>1 DEF PullFails, Pull, Carried, NoFalseAlarm
  <2>2. CASE RanOut
    <3>1. cipher = <<>> /\ Len(cipher) = 0
      BY <2>2 DEF RanOut
    <3>2. ~Rest
      BY <3>1, <1>1 DEF Rest, Carried
    <3> QED BY <3>2, <1>1 DEF Carried, NoFalseAlarm
  <2>3. CASE OpenFails
    BY <2>3 DEF OpenFails, End, NoFalseAlarm
  <2> QED BY <2>1, <2>2, <2>3
<1>8. OnlyTheOriginal'
  BY <1>1 DEF OnlyTheOriginal
<1> QED BY <1>3, <1>5, <1>6, <1>7, <1>8

LEMMA StutterStep == ASSUME IInv, UNCHANGED vars PROVE IInv'
<1>1. UNCHANGED <<name, data, zlib, source, prefixOff, inputLeft, sealing, frames, openVars>>
  BY DEF vars, sealVars, openVars
<1>2. Lengths'
  BY <1>1 DEF IInv, Lengths, Prefix
<1>3. Sealing'
  BY <1>1 DEF IInv, Sealing, InPlace, Run, EndOf, First, Packed, Total, Prefix, openVars
<1> QED BY <1>1, <1>2, <1>3, OpeningKept DEF IInv

-----------------------------------------------------------------------------

LEMMA Inductive == Spec => []IInv
<1>1. Init => IInv
  BY StartsWell
<1>2. IInv /\ [Next]_vars => IInv'
  BY SourceStep, PushStep, SealStep, CarryStep, PullStep, GiveUpStep, StutterStep DEF Next
<1> QED BY <1>1, <1>2, PTL DEF Spec

\* Every number of the two programs stays in its range: a frame is never larger than a
\* chunk nor empty, and the extractor never takes more than the name and the data.
THEOREM TypeCorrect == Spec => []TypeOK
<1>1. IInv => TypeOK
  <2> SUFFICES ASSUME IInv PROVE TypeOK
    OBVIOUS
  <2> USE DEF IInv
  <2>1. name \in Nat /\ data \in Nat /\ name <= MaxName /\ data <= MaxData
    BY SecretStreamAssumption DEF Lengths
  <2>2. prefixOff \in 0..(1 + MaxName) /\ inputLeft \in 0..MaxData
    BY <2>1, SecretStreamAssumption DEF Lengths, Prefix
  <2>3. \A i \in DOMAIN frames :
          Len(frames[i].bytes) \in 1..ChunkSize /\ frames[i].no = i /\ frames[i].final \in BOOLEAN
    <3> SUFFICES ASSUME NEW i \in 1..Len(frames)
                 PROVE  Len(frames[i].bytes) \in 1..ChunkSize /\ frames[i].no = i /\ frames[i].final \in BOOLEAN
      BY DEF Lengths
    <3>1. frames[i] \in Frame
      BY DEF Lengths
    <3> QED BY <3>1 DEF Frame, Sealing, InPlace
  <2>4. Len(filename) \in 0..name /\ Len(output) \in 0..data
    <3>1. PICK u \in Nat \ {0} : Extracted(u) /\ u <= 1 + name + data
      <4>1. CASE pulled = 0
        BY <4>1, <2>1 DEF Extracting
      <4>2. CASE pulled # 0
        <5>1. sealing = "sealed" /\ pulled \in 1..Len(frames)
          BY <4>2 DEF Carried, Sealing
        <5>2. EndOf(pulled) \in Nat \ {0} /\ EndOf(pulled) <= 1 + name + data
          BY <5>1, SealedLengths
        <5> QED BY <4>2, <5>2 DEF Extracting
      <4> QED BY <4>1, <4>2
    <3>2. Len(filename) = Least(name, u - 1) /\ Len(output) = u - 1 - Len(filename)
      BY <3>1 DEF Extracted
    <3> QED BY <2>1, <3>1, <3>2 DEF Least
  <2> QED BY <2>2, <2>3, <2>4 DEF TypeOK, Lengths, Carried, Extracting
<1> QED BY <1>1, Inductive, PTL

\* Whatever a carrier did to the frames, recover succeeds only with the name and the
\* data that conceal sealed, and only if all of its frames came back and nothing else
\* (the frame loop, the extractor and the checks after the final frame).
THEOREM SuccessIsTheOriginal == Spec => []OnlyTheOriginal
<1>1. IInv => OnlyTheOriginal
  BY DEF IInv
<1> QED BY <1>1, Inductive, PTL

\* For every length of name and data, the final tag conceal gives is the one that
\* recover waits for: an image that came back whole is never refused as a wrong KEY.
THEOREM NeverAFalseAlarm == Spec => []NoFalseAlarm
<1>1. IInv => NoFalseAlarm
  BY DEF IInv
<1> QED BY <1>1, Inductive, PTL

=============================================================================
