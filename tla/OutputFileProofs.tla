--------------------------- MODULE OutputFileProofs ---------------------------
(***************************************************************************)
(* What OutputFile shows on a small instance, for every buffer capacity,   *)
(* every limit of sendfile and every number of bytes.                      *)
(***************************************************************************)
EXTENDS OutputFile, TLAPS

\* s holds the bytes a, a + 1, ... in their order.
Run(s, a) == \A i \in 1..Len(s) : s[i] = a + i - 1

Behind == Len(file) + 1  \* the byte that comes next in the file

\* Where the bytes asked for are, at every point of every call.
Placed ==
  /\ Run(file, 1) /\ Len(file) <= asked
  /\ pc = "idle" => Run(buffer, Behind) /\ Len(file) + Len(buffer) = asked
  /\ pc = "failed" => Run(buffer, Behind) /\ Len(file) + Len(buffer) <= asked
  /\ pc = "drain" =>
       /\ Run(raw, Behind)
       /\ call # "drop" => from = Len(file) + Len(raw) + 1
       /\ from <= asked + 1 /\ Len(file) + Len(raw) <= asked
       /\ call \in {"close", "drop"} => from = asked + 1
  /\ pc \in {"raw", "send", "read", "copy"} =>
       buffer = <<>> /\ call \in {"write", "send"}
  /\ pc = "raw" => Run(raw, Behind) /\ Len(file) + Len(raw) = asked
  /\ pc \in {"send", "read"} => offset = Behind
  /\ pc = "copy" => Run(raw, Behind) /\ offset = Len(file) + Len(raw) + 1 /\ offset <= asked + 1
  /\ pc \in {"finish", "lastCheck", "closed"} => Len(file) = asked

\* Without a handle there is nothing left to drain.
Held ==
  /\ ~handle => pc \in {"finish", "lastCheck", "closed", "dropped"} \/ (pc = "failed" /\ buffer = <<>>)
  /\ pc \in {"finish", "lastCheck"} => buffer = <<>>

\* TypeOK in parts.
Control ==
  /\ pc \in Loops \cup {"idle", "finish", "lastCheck", "failed", "closed", "dropped"}
  /\ call \in {"write", "send", "close", "drop"} /\ from \in 1..(Total + 1)
  /\ asked \in 0..Total
  /\ offset \in 1..(Total + 1)
Flags == checked \in BOOLEAN /\ handle \in BOOLEAN /\ cancelled \in BOOLEAN
Contents ==
  /\ buffer \in Seq(Nat) /\ Len(buffer) <= Capacity
  /\ raw \in Seq(Nat)
  /\ file \in Seq(Nat)

IInv == Control /\ Flags /\ Contents /\ Placed /\ Held

-----------------------------------------------------------------------------

\* The bytes from a to b.
LEMMA BytesFacts ==
  ASSUME NEW a \in Nat \ {0}, NEW b \in Nat, a <= b + 1
  PROVE  /\ Bytes(a, b) \in Seq(Nat) /\ Len(Bytes(a, b)) = b - a + 1
         /\ Run(Bytes(a, b), a)
<1> DEFINE n == b - a + 1
<1>1. n \in Nat
  OBVIOUS
<1>2. \A i \in 1..n : a + i - 1 \in Nat
  OBVIOUS
<1>3. Bytes(a, b) \in [1..n -> Nat]
  BY <1>2 DEF Bytes
<1>4. Bytes(a, b) \in Seq(Nat) /\ Len(Bytes(a, b)) = n
  BY <1>1, <1>3
<1>5. Run(Bytes(a, b), a)
  BY <1>4 DEF Run, Bytes
<1> QED BY <1>4, <1>5

\* Joining a run to the run before it.
LEMMA Joined ==
  ASSUME NEW s \in Seq(Nat), NEW t \in Seq(Nat), NEW a \in Nat \ {0},
         Run(s, a), Run(t, a + Len(s))
  PROVE  /\ s \o t \in Seq(Nat) /\ Len(s \o t) = Len(s) + Len(t)
         /\ Run(s \o t, a)
<1>1. s \o t \in Seq(Nat) /\ Len(s \o t) = Len(s) + Len(t)
  OBVIOUS
<1>2. ASSUME NEW i \in 1..(Len(s) + Len(t)) PROVE (s \o t)[i] = a + i - 1
  <2>1. CASE i <= Len(s)
    BY <2>1 DEF Run
  <2>2. CASE i > Len(s)
    <3>1. i - Len(s) \in 1..Len(t) /\ (s \o t)[i] = t[i - Len(s)]
      BY <2>2
    <3>2. t[i - Len(s)] = (a + Len(s)) + (i - Len(s)) - 1
      BY <3>1 DEF Run
    <3> QED BY <3>1, <3>2
  <2> QED BY <2>1, <2>2
<1> QED BY <1>1, <1>2 DEF Run

LEMMA AddedToFile ==
  ASSUME NEW s \in Seq(Nat), NEW t \in Seq(Nat), Run(s, 1), Run(t, 1 + Len(s))
  PROVE  s \o t \in Seq(Nat) /\ Len(s \o t) = Len(s) + Len(t) /\ Run(s \o t, 1)
<1>1. 1 \in Nat \ {0}
  OBVIOUS
<1> QED BY <1>1, Joined

\* Cutting a run in two.
LEMMA Cut ==
  ASSUME NEW s \in Seq(Nat), NEW n \in 1..Len(s), NEW a \in Nat \ {0}, Run(s, a)
  PROVE  /\ First(s, n) \in Seq(Nat) /\ Len(First(s, n)) = n /\ Run(First(s, n), a)
         /\ After(s, n) \in Seq(Nat) /\ Len(After(s, n)) = Len(s) - n
         /\ Run(After(s, n), a + n)
<1>1. First(s, n) \in Seq(Nat) /\ Len(First(s, n)) = n
      /\ \A i \in 1..n : First(s, n)[i] = s[i]
  BY DEF First
<1>2. After(s, n) \in Seq(Nat) /\ Len(After(s, n)) = Len(s) - n
      /\ \A i \in 1..(Len(s) - n) : After(s, n)[i] = s[n + i]
  BY DEF After
<1>3. Run(First(s, n), a)
  <2>1. \A i \in 1..n : i \in 1..Len(s)
    OBVIOUS
  <2> QED BY <1>1, <2>1 DEF Run
<1>4. ASSUME NEW i \in 1..(Len(s) - n) PROVE After(s, n)[i] = (a + n) + i - 1
  <2>1. n + i \in 1..Len(s)
    OBVIOUS
  <2>2. s[n + i] = a + (n + i) - 1
    BY <2>1 DEF Run
  <2> QED BY <1>2, <2>2
<1> QED BY <1>1, <1>2, <1>3, <1>4 DEF Run

\* An empty sequence is a run from anywhere.
LEMMA EmptyRun == ASSUME NEW a PROVE Run(<<>>, a) /\ <<>> \in Seq(Nat) /\ Len(<<>>) = 0
  BY DEF Run

-----------------------------------------------------------------------------

\* The invariant holds at the start and through every step.
LEMMA Inductive == Spec => []IInv
<1> USE OutputFileAssumption
<1>1. Init => IInv
  <2> SUFFICES ASSUME Init PROVE IInv
    OBVIOUS
  <2>1. Control
    BY DEF Init, Control, Loops
  <2>2. Contents /\ Flags
    <3>1. Contents
      BY DEF Init, Contents
    <3>2. Flags
      BY DEF Init, Flags
    <3> QED BY <3>1, <3>2
  <2>3. Placed
    BY EmptyRun DEF Init, Placed
  <2>4. Held
    BY DEF Init, Held
  <2> QED BY <2>1, <2>2, <2>3, <2>4 DEF IInv
<1>2. IInv /\ [Next]_vars => IInv'
  <2> SUFFICES ASSUME IInv, [Next]_vars PROVE IInv'
    OBVIOUS
  <2> USE DEF IInv
  <2>0. /\ asked \in Nat /\ from \in Nat \ {0} /\ offset \in Nat \ {0}
        /\ Behind \in Nat \ {0} /\ Len(file) \in Nat /\ Len(raw) \in Nat /\ Len(buffer) \in Nat
    BY DEF Control, Contents, Behind
  <2>1. ASSUME NEW n \in 1..Total, Write(n) PROVE IInv'
    <3>1. /\ pc = "idle" /\ asked' = asked + n /\ asked + n <= Total
          /\ call' = "write" /\ from' = asked + 1
          /\ UNCHANGED <<offset, handle, file, cancelled>>
      BY <2>1 DEF Write, Call
    <3>2. handle /\ n \in Nat \ {0} /\ Run(buffer, Behind) /\ Len(file) + Len(buffer) = asked
      BY <3>1 DEF Held, Placed
    <3>3. CASE cancelled
      <4>1. pc' = "failed" /\ checked' = FALSE /\ UNCHANGED <<buffer, raw>>
        BY <2>1, <3>3 DEF Write, Goto
      <4>control. Control'
        BY <2>0, <3>1, <3>2, <4>1 DEF Control, Loops
      <4>contents. Contents'
        BY <2>0, <3>1, <3>2, <4>1 DEF Contents
      <4>flags. Flags'
        BY <2>0, <3>1, <3>2, <4>1 DEF Flags
      <4>placed. Placed'
        BY <2>0, <3>1, <3>2, <4>1 DEF Placed, Behind, Run, Contents, Control
      <4>held. Held'
        BY <2>0, <3>1, <3>2, <4>1 DEF Held
      <4> QED BY <4>control, <4>contents, <4>flags, <4>placed, <4>held
    <3>4. CASE ~cancelled /\ n < Capacity /\ Fits(n)
      <4>1. /\ buffer' = buffer \o Bytes(asked + 1, asked + n)
            /\ pc' = "idle" /\ checked' = FALSE /\ UNCHANGED raw
        BY <2>1, <3>4 DEF Write, Goto
      <4>2. /\ Bytes(asked + 1, asked + n) \in Seq(Nat) /\ Len(Bytes(asked + 1, asked + n)) = n
            /\ Run(Bytes(asked + 1, asked + n), Behind + Len(buffer))
        <5>1. asked + 1 \in Nat \ {0} /\ asked + n \in Nat /\ asked + 1 <= asked + n + 1
              /\ asked + 1 = Behind + Len(buffer) /\ (asked + n) - (asked + 1) + 1 = n
          BY <2>0, <3>2 DEF Behind
        <5> QED BY <5>1, BytesFacts
      <4>3. buffer' \in Seq(Nat) /\ Len(buffer') = Len(buffer) + n /\ Run(buffer', Behind)
        <5> DEFINE added == Bytes(asked + 1, asked + n)
        <5>1. buffer \in Seq(Nat) /\ added \in Seq(Nat) /\ buffer' = buffer \o added
          BY <4>1, <4>2 DEF Contents
        <5>2. Len(added) = n /\ Run(added, Behind + Len(buffer))
          BY <4>2
        <5> HIDE DEF added
        <5> QED BY <2>0, <5>1, <5>2, <3>2, Joined
      <4>5. Run(file, 1) /\ Behind' = Behind /\ Len(file) + Len(buffer') = asked' /\ Run(file, 1)'
        BY SMTT(30), <2>0, <3>1, <3>2, <4>3 DEF Placed, Behind, Run
      <4>4. Len(buffer') <= Capacity
        BY <3>4, <4>3 DEF Fits
      <4>control. Control'
        BY <2>0, <3>1, <3>2, <4>1 DEF Control, Loops
      <4>contents. Contents'
        BY <2>0, <3>1, <3>2, <4>1, <4>3, <4>4 DEF Contents
      <4>flags. Flags'
        BY <2>0, <3>1, <3>2, <4>1 DEF Flags
      <4>placed. Placed'
        BY <2>0, <3>1, <3>2, <4>1, <4>3, <4>5 DEF Placed
      <4>held. Held'
        BY <2>0, <3>1, <3>2, <4>1 DEF Held
      <4> QED BY <4>control, <4>contents, <4>flags, <4>placed, <4>held
    <3>5. CASE ~cancelled /\ ~(n < Capacity /\ Fits(n))
      <4>1. pc' = "drain" /\ checked' = FALSE /\ raw' = buffer /\ UNCHANGED buffer
        BY <2>1, <3>5 DEF Write, Drain, Goto
      <4>control. Control'
        BY <2>0, <3>1, <3>2, <4>1 DEF Control, Loops
      <4>contents. Contents'
        BY <2>0, <3>1, <3>2, <4>1 DEF Contents
      <4>flags. Flags'
        BY <2>0, <3>1, <3>2, <4>1 DEF Flags
      <4>placed. Placed'
        BY <2>0, <3>1, <3>2, <4>1 DEF Placed, Behind, Run, Contents, Control
      <4>held. Held'
        BY <2>0, <3>1, <3>2, <4>1 DEF Held
      <4> QED BY <4>control, <4>contents, <4>flags, <4>placed, <4>held
    <3> QED BY <3>3, <3>4, <3>5
  <2>2. ASSUME NEW n \in 1..Total, Send(n) PROVE IInv'
    <3>1. /\ pc = "idle" /\ asked' = asked + n /\ asked + n <= Total
          /\ call' = "send" /\ from' = asked + 1
          /\ pc' = "drain" /\ checked' = FALSE /\ raw' = buffer
          /\ UNCHANGED <<buffer, offset, handle, file, cancelled>>
      BY <2>2 DEF Send, Call, Drain, Goto
    <3>2. handle /\ n \in Nat \ {0} /\ Run(buffer, Behind) /\ Len(file) + Len(buffer) = asked
      BY <3>1 DEF Held, Placed
    <3>control. Control'
      BY <2>0, <3>1, <3>2 DEF Control, Loops
    <3>contents. Contents'
      BY <2>0, <3>1, <3>2 DEF Contents
    <3>flags. Flags'
      BY <2>0, <3>1, <3>2 DEF Flags
    <3>placed. Placed'
      BY <2>0, <3>1, <3>2 DEF Placed, Behind, Run, Contents, Control
    <3>held. Held'
      BY <2>0, <3>1, <3>2 DEF Held
    <3> QED BY <3>control, <3>contents, <3>flags, <3>placed, <3>held
  <2>3. CASE Close
    <3>1. /\ pc = "idle" /\ call' = "close" /\ from' = asked + 1 /\ checked' = FALSE
          /\ UNCHANGED <<asked, buffer, offset, handle, file, cancelled>>
          /\ \/ pc' = "failed" /\ raw' = raw
             \/ pc' = "drain" /\ raw' = buffer
      BY <2>3 DEF Close, Call, Drain, Goto
    <3>2. handle /\ Run(buffer, Behind) /\ Len(file) + Len(buffer) = asked
      BY <3>1 DEF Held, Placed
    <3>3. /\ Run(file, 1)' /\ Behind' = Behind /\ Len(file') = Len(file) /\ Len(file) <= asked
          /\ pc' = "failed" => Run(buffer', Behind')
          /\ pc' = "drain" => Run(raw', Behind')
      BY <2>0, <3>1, <3>2 DEF Placed, Behind, Run
    <3>control. Control'
      BY <2>0, <3>1, <3>2 DEF Control, Loops
    <3>contents. Contents'
      BY <2>0, <3>1, <3>2 DEF Contents
    <3>flags. Flags'
      BY <2>0, <3>1, <3>2 DEF Flags
    <3>placed. Placed'
      BY <2>0, <3>1, <3>2, <3>3 DEF Placed
    <3>held. Held'
      BY <2>0, <3>1, <3>2 DEF Held
    <3> QED BY <3>control, <3>contents, <3>flags, <3>placed, <3>held
  <2>4. CASE Drop
    <3>1. /\ pc \in {"idle", "failed"} /\ call' = "drop" /\ from' = asked + 1 /\ checked' = FALSE
          /\ UNCHANGED <<asked, buffer, offset, file, cancelled>>
          /\ \/ handle /\ pc' = "drain" /\ raw' = buffer /\ handle' = handle
             \/ pc' = "dropped" /\ handle' = FALSE /\ raw' = raw
      BY <2>4 DEF Drop, Call, Drain, Goto
    <3>2. Run(buffer, Behind) /\ Len(file) + Len(buffer) <= asked
      BY <2>0, <3>1 DEF Placed
    <3>control. Control'
      BY <2>0, <3>1, <3>2 DEF Control, Loops
    <3>contents. Contents'
      BY <2>0, <3>1, <3>2 DEF Contents
    <3>flags. Flags'
      BY <2>0, <3>1, <3>2 DEF Flags
    <3>placed. Placed'
      BY SMTT(30), <2>0, <3>1, <3>2 DEF Placed, Behind, Run, Contents, Control
    <3>held. Held'
      BY <2>0, <3>1, <3>2 DEF Held
    <3> QED BY <3>control, <3>contents, <3>flags, <3>placed, <3>held
  <2>5. CASE Drained
    <3> DEFINE bytes == Bytes(from, asked)
    <3>1. /\ pc = "drain" /\ raw = <<>>
          /\ UNCHANGED <<call, from, asked, file, cancelled>>
      BY <2>5 DEF Drained
    <3>2. /\ from <= asked + 1 /\ Len(raw) = 0 /\ handle
          /\ call # "drop" => from = Behind
          /\ call \in {"close", "drop"} => from = asked + 1
      BY <2>0, <3>1, EmptyRun DEF Placed, Behind, Held
    <3>3. bytes \in Seq(Nat) /\ Len(bytes) = asked - from + 1 /\ Run(bytes, from)
      BY <2>0, <3>2, BytesFacts
    <3> HIDE DEF bytes
    <3>4. CASE /\ call = "write" /\ Len(bytes) >= Capacity
               /\ Goto("raw") /\ raw' = bytes /\ buffer' = <<>> /\ UNCHANGED <<offset, handle>>
      <4>1. pc' = "raw" /\ checked' = FALSE /\ raw' = bytes /\ buffer' = <<>> /\ UNCHANGED <<offset, handle>>
            /\ call = "write" /\ from = Behind
        BY <3>2, <3>4 DEF Goto
      <4>control. Control'
        BY <2>0, <3>1, <3>2, <3>3, <4>1 DEF Control, Loops
      <4>contents. Contents'
        BY <2>0, <3>1, <3>2, <3>3, <4>1 DEF Contents
      <4>flags. Flags'
        BY <2>0, <3>1, <3>2, <3>3, <4>1 DEF Flags
      <4>placed. Placed'
        BY <2>0, <3>1, <3>2, <3>3, <4>1 DEF Placed, Behind, Run, Contents, Control
      <4>held. Held'
        BY <2>0, <3>1, <3>2, <3>3, <4>1 DEF Held
      <4> QED BY <4>control, <4>contents, <4>flags, <4>placed, <4>held
    <3>5. CASE /\ call = "write" /\ Len(bytes) < Capacity
               /\ Goto("idle") /\ buffer' = bytes /\ UNCHANGED <<raw, offset, handle>>
      <4>1. pc' = "idle" /\ checked' = FALSE /\ buffer' = bytes /\ UNCHANGED <<raw, offset, handle>>
            /\ call = "write" /\ from = Behind
        BY <3>2, <3>5 DEF Goto
      <4>control. Control'
        BY <2>0, <3>1, <3>2, <3>3, <4>1 DEF Control, Loops
      <4>contents. Contents'
        BY <2>0, <3>1, <3>2, <3>3, <4>1, <3>5 DEF Contents
      <4>flags. Flags'
        BY <2>0, <3>1, <3>2, <3>3, <4>1 DEF Flags
      <4>placed. Placed'
        BY <2>0, <3>1, <3>2, <3>3, <4>1 DEF Placed, Behind, Run, Contents, Control
      <4>held. Held'
        BY <2>0, <3>1, <3>2, <3>3, <4>1 DEF Held
      <4> QED BY <4>control, <4>contents, <4>flags, <4>placed, <4>held
    <3>6. CASE /\ call = "send" /\ Goto("send") /\ offset' = from /\ buffer' = <<>>
               /\ UNCHANGED <<raw, handle>>
      <4>1. pc' = "send" /\ checked' = FALSE /\ offset' = from /\ buffer' = <<>> /\ UNCHANGED <<raw, handle>>
            /\ call = "send" /\ from = Behind
        BY <3>2, <3>6 DEF Goto
      <4>control. Control'
        BY <2>0, <3>1, <3>2, <4>1 DEF Control, Loops
      <4>contents. Contents'
        BY <2>0, <3>1, <3>2, <4>1 DEF Contents
      <4>flags. Flags'
        BY <2>0, <3>1, <3>2, <4>1 DEF Flags
      <4>placed. Placed'
        BY <2>0, <3>1, <3>2, <4>1 DEF Placed, Behind, Run, Contents, Control
      <4>held. Held'
        BY <2>0, <3>1, <3>2, <4>1 DEF Held
      <4> QED BY <4>control, <4>contents, <4>flags, <4>placed, <4>held
    <3>7. CASE /\ call \in {"close", "drop"}
               /\ Goto(IF call = "close" THEN "finish" ELSE "dropped")
               /\ handle' = FALSE /\ buffer' = <<>> /\ UNCHANGED <<raw, offset>>
      <4>1. /\ checked' = FALSE /\ handle' = FALSE /\ buffer' = <<>> /\ UNCHANGED <<raw, offset>>
            /\ \/ pc' = "finish" /\ Len(file) = asked
               \/ pc' = "dropped"
        BY <2>0, <3>2, <3>7 DEF Goto, Behind
      <4>control. Control'
        BY <2>0, <3>1, <3>2, <4>1 DEF Control, Loops
      <4>contents. Contents'
        BY <2>0, <3>1, <3>2, <4>1 DEF Contents
      <4>flags. Flags'
        BY <2>0, <3>1, <3>2, <4>1 DEF Flags
      <4>placed. Placed'
        BY <2>0, <3>1, <3>2, <4>1 DEF Placed, Behind, Run, Contents, Control
      <4>held. Held'
        BY <2>0, <3>1, <3>2, <4>1 DEF Held
      <4> QED BY <4>control, <4>contents, <4>flags, <4>placed, <4>held
    <3> QED BY <2>5, <3>4, <3>5, <3>6, <3>7 DEF Drained, bytes
  <2>6. CASE Broken /\ Unfinished
    <3>1. /\ pc \in Loops /\ checked' = FALSE
          /\ pc' = IF call = "drop" THEN "dropped" ELSE "failed"
          /\ buffer' = IF pc = "drain" THEN <<>> ELSE buffer
          /\ handle' = IF call = "drop" THEN FALSE ELSE handle
          /\ UNCHANGED <<call, from, asked, raw, offset, file, cancelled>>
      BY <2>6 DEF Broken, Goto, Unfinished, Loops
    <3>2. handle /\ buffer' = <<>> /\ Run(buffer', Behind) /\ Len(buffer') = 0
      BY <3>1, EmptyRun DEF Placed, Held, Loops
    <3>3. pc' \in {"dropped", "failed"} /\ (pc' = "failed" => handle' = TRUE)
      BY <3>1, <3>2
    <3>control. Control'
      BY <2>0, <3>1, <3>2, <3>3 DEF Control, Loops
    <3>contents. Contents'
      BY <2>0, <3>1, <3>2, <3>3, EmptyRun DEF Contents
    <3>flags. Flags'
      BY <2>0, <3>1, <3>2, <3>3 DEF Flags
    <3>placed. Placed'
      BY <2>0, <3>1, <3>2, <3>3 DEF Placed, Behind, Run, Contents, Control
    <3>held. Held'
      BY <2>0, <3>1, <3>2, <3>3 DEF Held
    <3> QED BY <3>control, <3>contents, <3>flags, <3>placed, <3>held
  <2>7. CASE /\ UNCHANGED <<pc, call, from, asked, buffer, raw, offset, handle, file, cancelled>>
             /\ checked' \in BOOLEAN
    <3>control. Control'
      BY <2>7 DEF Control, Loops
    <3>contents. Contents'
      BY <2>7 DEF Contents
    <3>flags. Flags'
      BY <2>7 DEF Flags
    <3>placed. Placed'
      BY <2>7 DEF Placed, Behind, Run, Contents, Control
    <3>held. Held'
      BY <2>7 DEF Held
    <3> QED BY <3>control, <3>contents, <3>flags, <3>placed, <3>held
  <2>8. CASE WriteSome
    <3>1. PICK n \in 1..Len(raw) : file' = file \o First(raw, n) /\ raw' = After(raw, n)
      BY <2>8 DEF WriteSome
    <3>2. /\ pc \in {"drain", "raw", "copy"} /\ checked' = FALSE
          /\ UNCHANGED <<pc, call, from, asked, buffer, offset, handle, cancelled>>
      BY <2>8 DEF WriteSome
    <3>3. Run(file, 1) /\ Run(raw, Behind) /\ Len(file) + Len(raw) <= asked /\ n \in Nat \ {0} /\ n <= Len(raw)
      BY <2>0, <3>2 DEF Placed
    <3>4. /\ First(raw, n) \in Seq(Nat) /\ Len(First(raw, n)) = n /\ Run(First(raw, n), Behind)
          /\ After(raw, n) \in Seq(Nat) /\ Len(After(raw, n)) = Len(raw) - n
          /\ Run(After(raw, n), Behind + n)
      BY <2>0, <3>3, Cut DEF Contents
    <3>5. Behind = 1 + Len(file)
      BY <2>0 DEF Behind
    <3>6. file' \in Seq(Nat) /\ Len(file') = Len(file) + n /\ Run(file', 1)
      <4> DEFINE added == First(raw, n)
      <4>1. file \in Seq(Nat) /\ added \in Seq(Nat) /\ file' = file \o added
        BY <3>1, <3>4 DEF Contents
      <4>2. Len(added) = n /\ Run(added, 1 + Len(file))
        BY <3>4, <3>5
      <4>3. Run(file, 1)
        BY <3>3
      <4> HIDE DEF added
      <4>4. Len(file \o added) = Len(file) + Len(added) /\ Run(file \o added, 1) /\ file \o added \in Seq(Nat)
        BY <4>1, <4>2, <4>3, AddedToFile
      <4> QED BY <4>1, <4>2, <4>4
    <3>7. raw' \in Seq(Nat) /\ Len(raw') = Len(raw) - n /\ Run(raw', Behind') /\ Behind' = Behind + n
      <4>1. Behind' = Behind + n
        BY <2>0, <3>3, <3>6 DEF Behind
      <4> QED BY <4>1, <3>1, <3>4
    <3>8. /\ Run(file', 1) /\ Run(raw', Behind')
          /\ Len(file') + Len(raw') = Len(file) + Len(raw) /\ Len(file') <= Len(file) + Len(raw)
          /\ Len(file') \in Nat /\ Len(raw') \in Nat
      BY <2>0, <3>3, <3>6, <3>7
    <3>control. Control'
      BY <2>0, <3>2, <3>3 DEF Control, Loops
    <3>contents. Contents'
      BY <2>0, <3>2, <3>3, <3>6, <3>7 DEF Contents
    <3>flags. Flags'
      BY <2>0, <3>2, <3>3 DEF Flags
    <3>placed. Placed'
      BY SMTT(30), <2>0, <3>2, <3>3, <3>8 DEF Placed
    <3>held. Held'
      BY <2>0, <3>2, <3>3 DEF Held
    <3> QED BY <3>control, <3>contents, <3>flags, <3>placed, <3>held
  <2>9. CASE SendSome
    <3>1. PICK n \in 1..Least(SendMax, asked - offset + 1) :
            file' = file \o Bytes(offset, offset + n - 1) /\ offset' = offset + n
      BY <2>9 DEF SendSome
    <3>2. /\ pc = "send" /\ checked' = FALSE
          /\ UNCHANGED <<pc, call, from, asked, buffer, raw, handle, cancelled>>
      BY <2>9 DEF SendSome
    <3>3. n \in Nat \ {0} /\ offset + n <= asked + 1 /\ offset = 1 + Len(file) /\ Run(file, 1)
      BY <2>0, <3>2 DEF Least, Placed, Behind
    <3>4. /\ Bytes(offset, offset + n - 1) \in Seq(Nat) /\ Len(Bytes(offset, offset + n - 1)) = n
          /\ Run(Bytes(offset, offset + n - 1), 1 + Len(file))
      <4>1. /\ offset + n - 1 \in Nat /\ offset <= (offset + n - 1) + 1
            /\ (offset + n - 1) - offset + 1 = n
        BY <2>0, <3>3
      <4> QED BY <2>0, <3>3, <4>1, BytesFacts
    <3>5. file' \in Seq(Nat) /\ Len(file') = Len(file) + n /\ Run(file', 1)
      <4> DEFINE added == Bytes(offset, offset + n - 1)
      <4>1. file \in Seq(Nat) /\ added \in Seq(Nat) /\ file' = file \o added
        BY <3>1, <3>4 DEF Contents
      <4>2. Len(added) = n /\ Run(added, 1 + Len(file))
        BY <3>4
      <4>3. Run(file, 1)
        BY <3>3
      <4> HIDE DEF added
      <4>4. Len(file \o added) = Len(file) + Len(added) /\ Run(file \o added, 1) /\ file \o added \in Seq(Nat)
        BY <4>1, <4>2, <4>3, AddedToFile
      <4> QED BY <4>1, <4>2, <4>4
    <3>6. /\ offset' = Behind' /\ Len(file') <= asked' /\ buffer' = <<>> /\ call' \in {"write", "send"}
          /\ pc' = "send"
      <4>1. buffer = <<>> /\ call \in {"write", "send"}
        BY <3>2 DEF Placed
      <4>2. offset' = Behind' /\ Len(file') <= asked'
        <5>1. offset' = offset + n /\ asked' = asked /\ Len(file) \in Nat
          BY <2>0, <3>1, <3>2
        <5>2. Behind' = (Len(file) + n) + 1
          BY <3>5 DEF Behind
        <5> QED BY <2>0, <3>3, <3>5, <5>1, <5>2
      <4> QED BY <3>2, <4>1, <4>2
    <3>control. Control'
      BY SMTT(30), <2>0, <3>1, <3>2, <3>3 DEF Control, Loops
    <3>contents. Contents'
      BY <2>0, <3>1, <3>2, <3>3, <3>5 DEF Contents
    <3>flags. Flags'
      BY <2>0, <3>1, <3>2, <3>3 DEF Flags
    <3>placed. Placed'
      BY <2>0, <3>1, <3>2, <3>3, <3>5, <3>6 DEF Placed
    <3>held. Held'
      BY <2>0, <3>1, <3>2, <3>3 DEF Held
    <3> QED BY <3>control, <3>contents, <3>flags, <3>placed, <3>held
  <2>10. CASE FallBack
    <3>1. /\ pc = "send" /\ pc' = "read" /\ checked' = FALSE
          /\ UNCHANGED <<call, from, asked, buffer, raw, offset, handle, file, cancelled>>
      BY <2>10 DEF FallBack, Goto
    <3>control. Control'
      BY <2>0, <3>1 DEF Control, Loops
    <3>contents. Contents'
      BY <2>0, <3>1 DEF Contents
    <3>flags. Flags'
      BY <2>0, <3>1 DEF Flags
    <3>placed. Placed'
      BY <2>0, <3>1 DEF Placed, Behind, Run, Contents, Control
    <3>held. Held'
      BY <2>0, <3>1 DEF Held
    <3> QED BY <3>control, <3>contents, <3>flags, <3>placed, <3>held
  <2>11. CASE ReadChunk
    <3> DEFINE want == Least(Capacity, asked - offset + 1)
    <3>1. /\ pc = "read" /\ pc' = "copy" /\ checked' = FALSE
          /\ raw' = Bytes(offset, offset + want - 1) /\ offset' = offset + want
          /\ UNCHANGED <<call, from, asked, buffer, handle, file, cancelled>>
      BY <2>11 DEF ReadChunk, Goto
    <3>2. want \in Nat /\ offset + want <= asked + 1 /\ offset = Behind
      BY <2>0, <3>1 DEF Least, Placed, Behind
    <3> HIDE DEF want
    <3>3. raw' \in Seq(Nat) /\ Len(raw') = want /\ Run(raw', Behind)
      <4>1. /\ offset + want - 1 \in Nat /\ offset <= (offset + want - 1) + 1
            /\ (offset + want - 1) - offset + 1 = want
        BY <2>0, <3>2
      <4> QED BY <2>0, <3>1, <3>2, <4>1, BytesFacts
    <3>4. /\ Run(file, 1)' /\ Behind' = Behind /\ Len(file') = Len(file) /\ Run(raw', Behind')
          /\ offset' = Len(file) + Len(raw') + 1 /\ buffer = <<>> /\ call \in {"write", "send"}
      <4>1. Run(file, 1)' /\ buffer = <<>> /\ call \in {"write", "send"}
        BY <3>1 DEF Placed, Run
      <4>2. Behind' = Behind /\ Len(file') = Len(file)
        BY <3>1 DEF Behind
      <4>3. offset' = Len(file) + Len(raw') + 1
        BY <2>0, <3>1, <3>2, <3>3 DEF Behind
      <4> QED BY <3>3, <4>1, <4>2, <4>3
    <3>control. Control'
      BY <2>0, <3>1, <3>2 DEF Control, Loops
    <3>contents. Contents'
      BY <2>0, <3>1, <3>2, <3>3 DEF Contents
    <3>flags. Flags'
      BY <2>0, <3>1, <3>2 DEF Flags
    <3>placed. Placed'
      BY <2>0, <3>1, <3>2, <3>4 DEF Placed
    <3>held. Held'
      BY <2>0, <3>1, <3>2 DEF Held
    <3> QED BY <3>control, <3>contents, <3>flags, <3>placed, <3>held
  <2>12. CASE LoopDone
    <3>1. /\ pc \in {"raw", "send", "read", "copy"} /\ ~Unfinished /\ checked' = FALSE
          /\ pc' = IF pc = "copy" THEN "read" ELSE "idle"
          /\ UNCHANGED <<call, from, asked, buffer, raw, offset, handle, file, cancelled>>
      BY <2>12 DEF LoopDone, Goto
    <3>2. /\ buffer = <<>> /\ Len(buffer) = 0 /\ Run(buffer, Behind) /\ call \in {"write", "send"}
          /\ pc = "copy" => offset = Behind
          /\ pc # "copy" => Len(file) = asked
      BY <2>0, <3>1, EmptyRun DEF Unfinished, Placed, Behind
    <3>control. Control'
      BY <2>0, <3>1, <3>2 DEF Control, Loops
    <3>contents. Contents'
      BY <2>0, <3>1, <3>2 DEF Contents
    <3>flags. Flags'
      BY <2>0, <3>1, <3>2 DEF Flags
    <3>placed. Placed'
      BY <2>0, <3>1, <3>2 DEF Placed, Behind, Run, Contents, Control
    <3>held. Held'
      BY <2>0, <3>1, <3>2 DEF Held
    <3> QED BY <3>control, <3>contents, <3>flags, <3>placed, <3>held
  <2>13. CASE Finish \/ LastCheck
    <3>1. /\ pc \in {"finish", "lastCheck"} /\ pc' \in {"lastCheck", "closed", "failed"} /\ checked' = FALSE
          /\ UNCHANGED <<call, from, asked, buffer, raw, offset, handle, file, cancelled>>
      BY <2>13 DEF Finish, LastCheck, Goto
    <3>2. buffer = <<>> /\ Len(buffer) = 0 /\ Run(buffer, Behind) /\ Len(file) = asked
      BY <3>1, EmptyRun DEF Held, Placed
    <3>control. Control'
      BY <2>0, <3>1, <3>2 DEF Control, Loops
    <3>contents. Contents'
      BY <2>0, <3>1, <3>2 DEF Contents
    <3>flags. Flags'
      BY <2>0, <3>1, <3>2 DEF Flags
    <3>placed. Placed'
      BY <2>0, <3>1, <3>2 DEF Placed, Behind, Run, Contents, Control
    <3>held. Held'
      BY <2>0, <3>1, <3>2 DEF Held
    <3> QED BY <3>control, <3>contents, <3>flags, <3>placed, <3>held
  <2>14. CASE Signal
    <3>1. UNCHANGED <<pc, call, from, asked, buffer, raw, offset, checked, handle, file>> /\ cancelled' = TRUE
      BY <2>14 DEF Signal
    <3>control. Control'
      BY <3>1 DEF Control, Loops
    <3>contents. Contents'
      BY <3>1 DEF Contents
    <3>flags. Flags'
      BY <3>1 DEF Flags
    <3>placed. Placed'
      BY <3>1 DEF Placed, Behind, Run, Contents, Control
    <3>held. Held'
      BY <3>1 DEF Held
    <3> QED BY <3>control, <3>contents, <3>flags, <3>placed, <3>held
  <2>15. CASE UNCHANGED vars
    <3>1. UNCHANGED <<pc, call, from, asked, buffer, raw, offset, checked, handle, file, cancelled>>
      BY <2>15 DEF vars
    <3>control. Control'
      BY <3>1 DEF Control, Loops
    <3>contents. Contents'
      BY <3>1 DEF Contents
    <3>flags. Flags'
      BY <3>1 DEF Flags
    <3>placed. Placed'
      BY <3>1 DEF Placed, Behind, Run, Contents, Control
    <3>held. Held'
      BY <3>1 DEF Held
    <3> QED BY <3>control, <3>contents, <3>flags, <3>placed, <3>held
  <2>16. ASSUME Check \/ Interrupted \/ Failure PROVE IInv'
    <3>1. \/ Broken /\ Unfinished
          \/ /\ UNCHANGED <<pc, call, from, asked, buffer, raw, offset, handle, file, cancelled>>
             /\ checked' \in BOOLEAN
      BY <2>16 DEF Check, Interrupted, Failure
    <3> QED BY <2>6, <2>7, <3>1
  <2> QED BY <2>1, <2>2, <2>3, <2>4, <2>5, <2>8, <2>9, <2>10, <2>11, <2>12, <2>13, <2>14,
             <2>15, <2>16 DEF Next, Step
<1> QED BY <1>1, <1>2, PTL DEF Spec

-----------------------------------------------------------------------------

\* Two sequences with the same elements are the same.
LEMMA SameElements ==
  ASSUME NEW s \in Seq(Nat), NEW t \in Seq(Nat), Len(s) = Len(t),
         \A i \in 1..Len(s) : s[i] = t[i]
  PROVE  s = t
  BY SMTT(60)

\* The types, and the buffer never outgrows its capacity.
THEOREM TypeCorrect == Spec => []TypeOK
<1>1. IInv => TypeOK
  BY DEF IInv, Control, Flags, Contents, TypeOK
<1> QED BY Inductive, <1>1, PTL

\* The bytes reach the file in order, once each, whatever fails.
THEOREM BytesInOrder == Spec => []InOrder
<1>1. IInv => InOrder
  <2> SUFFICES ASSUME IInv PROVE InOrder
    OBVIOUS
  <2>1. file \in Seq(Nat) /\ Run(file, 1) /\ Len(file) <= asked
    BY DEF IInv, Contents, Placed
  <2>2. \A i \in 1..Len(file) : file[i] = i
    BY <2>1 DEF Run
  <2> QED BY <2>1, <2>2 DEF InOrder
<1> QED BY Inductive, <1>1, PTL

\* Between calls nothing that was asked for is missing.
THEOREM NothingIsMissing == Spec => []NothingMissing
<1>1. IInv => NothingMissing
  <2> SUFFICES ASSUME IInv, pc = "idle" PROVE file \o buffer = Bytes(1, asked)
    BY DEF NothingMissing
  <2>1. /\ file \in Seq(Nat) /\ buffer \in Seq(Nat) /\ asked \in Nat
        /\ Run(file, 1) /\ Run(buffer, Behind) /\ Len(file) + Len(buffer) = asked
    BY DEF IInv, Contents, Control, Placed
  <2>2. Behind = 1 + Len(file)
    BY <2>1 DEF Behind
  <2>3. /\ file \o buffer \in Seq(Nat) /\ Len(file \o buffer) = asked
        /\ Run(file \o buffer, 1)
    BY <2>1, <2>2, AddedToFile
  <2>4. /\ Bytes(1, asked) \in Seq(Nat) /\ Len(Bytes(1, asked)) = asked
        /\ Run(Bytes(1, asked), 1)
    BY <2>1, BytesFacts
  <2>5. \A i \in 1..asked : (file \o buffer)[i] = Bytes(1, asked)[i]
    BY <2>3, <2>4 DEF Run
  <2> QED BY <2>3, <2>4, <2>5, SameElements
<1> QED BY Inductive, <1>1, PTL

\* A file that was closed holds all that was asked for.
THEOREM ClosedFileIsComplete == Spec => []ClosedIsComplete
<1>1. IInv => ClosedIsComplete
  <2> SUFFICES ASSUME IInv, pc = "closed" PROVE file = Bytes(1, asked)
    BY DEF ClosedIsComplete
  <2>1. file \in Seq(Nat) /\ Run(file, 1) /\ Len(file) = asked /\ asked \in Nat
    BY DEF IInv, Contents, Control, Placed
  <2>2. /\ Bytes(1, asked) \in Seq(Nat) /\ Len(Bytes(1, asked)) = asked
        /\ Run(Bytes(1, asked), 1)
    BY <2>1, BytesFacts
  <2>3. \A i \in 1..Len(file) : file[i] = Bytes(1, asked)[i]
    BY <2>1, <2>2 DEF Run
  <2> QED BY <2>1, <2>2, <2>3, SameElements
<1> QED BY Inductive, <1>1, PTL
=============================================================================
