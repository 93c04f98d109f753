------------------------------ MODULE OutputFile ------------------------------
(***************************************************************************)
(* output_file.rs: OutputFile, the buffered writer behind every image and  *)
(* every recovered file.  Small writes collect in a buffer, large ones and *)
(* spliced regions (sendfile) go past it, the kernel takes as much of each *)
(* as it likes, and any call may be interrupted, fail or be cancelled.     *)
(*                                                                         *)
(* The caller asks for the bytes 1, 2, 3, ... in this order.               *)
(***************************************************************************)
EXTENDS Integers, Sequences

CONSTANTS
  Capacity,  \* buffer_capacity
  SendMax,   \* SENDFILE_MAX
  Total      \* how many bytes the caller asks for, at most

ASSUME OutputFileAssumption ==
  Capacity \in Nat \ {0} /\ SendMax \in Nat \ {0} /\ Total \in Nat

VARIABLES
  pc,         \* where the call in progress is, or "idle", "failed", "closed", "dropped"
  call,       \* the call in progress, or the last one
  from,       \* the first byte it was asked to add
  asked,      \* the last byte asked for
  buffer,     \* self.buffer[..self.fill]
  raw,        \* what the loop in progress still has to write
  offset,     \* the next byte of the source that is spliced in
  checked,    \* check_cancellation passed, the system call follows
  handle,     \* self.file is Some
  file,       \* the contents of the file
  cancelled   \* a signal asked the program to stop

vars == <<pc, call, from, asked, buffer, raw, offset, checked, handle, file, cancelled>>

Bytes(a, b) == [i \in 1..(b - a + 1) |-> a + i - 1]
Least(a, b) == IF a <= b THEN a ELSE b
First(s, n) == SubSeq(s, 1, n)
After(s, n) == SubSeq(s, n + 1, Len(s))

Loops == {"drain", "raw", "send", "read", "copy"}

TypeOK ==
  /\ pc \in Loops \cup {"idle", "finish", "lastCheck", "failed", "closed", "dropped"}
  /\ call \in {"write", "send", "close", "drop"} /\ from \in 1..(Total + 1)
  /\ asked \in 0..Total
  /\ buffer \in Seq(Nat) /\ Len(buffer) <= Capacity
  /\ raw \in Seq(Nat)
  /\ offset \in 1..(Total + 1)
  /\ checked \in BOOLEAN /\ handle \in BOOLEAN /\ cancelled \in BOOLEAN
  /\ file \in Seq(Nat)

Init ==
  /\ pc = "idle" /\ call = "write" /\ from = 1 /\ asked = 0
  /\ buffer = <<>> /\ raw = <<>> /\ offset = 1
  /\ checked = FALSE /\ handle = TRUE
  /\ file = <<>>
  /\ cancelled \in BOOLEAN

Goto(l) == pc' = l /\ checked' = FALSE
Call(c) == call' = c /\ from' = asked + 1

-----------------------------------------------------------------------------
(* Draining the buffer.                                                    *)

\* drain: an empty buffer costs no check and no call.
Drain == Goto("drain") /\ raw' = buffer

\* The buffer is empty: on to what the call drained it for.
Drained ==
  /\ pc = "drain" /\ raw = <<>>
  /\ LET bytes == Bytes(from, asked) IN
     \/ /\ call = "write" /\ Len(bytes) >= Capacity
        /\ Goto("raw") /\ raw' = bytes /\ buffer' = <<>>
        /\ UNCHANGED offset
     \/ /\ call = "write" /\ Len(bytes) < Capacity
        /\ Goto("idle") /\ buffer' = bytes
        /\ UNCHANGED <<raw, offset>>
     \/ /\ call = "send"
        /\ Goto("send") /\ offset' = from /\ buffer' = <<>>
        /\ UNCHANGED raw
     \/ /\ call \in {"close", "drop"}
        /\ Goto(IF call = "close" THEN "finish" ELSE "dropped")
        /\ handle' = FALSE /\ buffer' = <<>>
        /\ UNCHANGED <<raw, offset>>
  /\ call \notin {"close", "drop"} => UNCHANGED handle
  /\ UNCHANGED <<call, from, asked, file, cancelled>>

BrokenKeepingFill ==  \* mutant: fill is reset only when the drain succeeds
  /\ Goto(IF call = "drop" THEN "dropped" ELSE "failed")
  /\ handle' = IF call = "drop" THEN FALSE ELSE handle
  /\ UNCHANGED <<call, from, asked, buffer, raw, offset, file, cancelled>>
\* A loop gives up.  drain leaves an empty buffer behind even then.
Broken ==
  /\ Goto(IF call = "drop" THEN "dropped" ELSE "failed")
  /\ buffer' = IF pc = "drain" THEN <<>> ELSE buffer
  /\ handle' = IF call = "drop" THEN FALSE ELSE handle
  /\ UNCHANGED <<call, from, asked, raw, offset, file, cancelled>>

-----------------------------------------------------------------------------
(* The calls.                                                              *)

Fits(n) == Len(buffer) + n <= Capacity

\* write
Write(n) ==
  /\ pc = "idle" /\ asked + n <= Total
  /\ asked' = asked + n /\ Call("write")
  /\ \/ cancelled /\ Goto("failed") /\ UNCHANGED <<buffer, raw>>
     \/ /\ ~cancelled
        /\ IF n < Capacity /\ Fits(n)
           THEN buffer' = buffer \o Bytes(asked + 1, asked + n) /\ Goto("idle") /\ UNCHANGED raw
           ELSE Drain /\ UNCHANGED buffer
  /\ UNCHANGED <<offset, handle, file, cancelled>>

\* send_from
Send(n) ==
  /\ pc = "idle" /\ asked + n <= Total
  /\ asked' = asked + n /\ Call("send")
  /\ Drain
  /\ UNCHANGED <<buffer, offset, handle, file, cancelled>>

CloseUndrained ==  \* mutant: the buffered tail is forgotten
  /\ pc = "idle" /\ Call("close")
  /\ Goto(IF cancelled THEN "failed" ELSE "finish")
  /\ handle' = cancelled
  /\ UNCHANGED <<asked, buffer, raw, offset, file, cancelled>>
\* close, which consumes the writer: when it fails, drop follows.
Close ==
  /\ pc = "idle" /\ Call("close")
  /\ IF cancelled THEN Goto("failed") /\ UNCHANGED raw ELSE Drain
  /\ UNCHANGED <<asked, buffer, offset, handle, file, cancelled>>

\* Drop: after a failure, or when the caller gives up for a reason of its own.
Drop ==
  /\ pc \in {"idle", "failed"} /\ Call("drop")
  /\ IF handle /\ buffer # <<>> THEN Drain /\ UNCHANGED handle
     ELSE Goto("dropped") /\ handle' = FALSE /\ UNCHANGED raw
  /\ UNCHANGED <<asked, buffer, offset, file, cancelled>>

-----------------------------------------------------------------------------
(* The loops of write_raw, send_from and send_from_fallback.               *)

\* Something is left to do in the loop.
Unfinished ==
  \/ pc \in {"drain", "raw", "copy"} /\ raw # <<>>
  \/ pc \in {"send", "read"} /\ offset <= asked

CheckForgotten ==  \* mutant: the loop does not look at the flag
  /\ Unfinished /\ ~checked /\ checked' = TRUE
  /\ UNCHANGED <<pc, call, from, asked, buffer, raw, offset, handle, file, cancelled>>
\* The loop head.
Check ==
  /\ Unfinished /\ ~checked
  /\ IF cancelled THEN Broken
     ELSE checked' = TRUE /\ UNCHANGED <<pc, call, from, asked, buffer, raw, offset, handle, file, cancelled>>

\* EINTR: continue.
Interrupted ==
  /\ Unfinished /\ checked
  /\ checked' = FALSE
  /\ UNCHANGED <<pc, call, from, asked, buffer, raw, offset, handle, file, cancelled>>

\* An error, a write or splice of nothing, an unexpected end of the source.
Failure == Unfinished /\ checked /\ Broken

\* write(2) takes some of what it is given.
WriteSome ==
  /\ pc \in {"drain", "raw", "copy"} /\ checked
  /\ \E n \in 1..Len(raw) : file' = file \o First(raw, n) /\ raw' = After(raw, n)
  /\ checked' = FALSE
  /\ UNCHANGED <<pc, call, from, asked, buffer, offset, handle, cancelled>>

\* sendfile(2) moves some of the region.
SendSome ==
  /\ pc = "send" /\ checked
  /\ \E n \in 1..Least(SendMax, asked - offset + 1) :
       file' = file \o Bytes(offset, offset + n - 1) /\ offset' = offset + n
  /\ checked' = FALSE
  /\ UNCHANGED <<pc, call, from, asked, buffer, raw, handle, cancelled>>

\* EINVAL or ENOSYS before anything was moved: copy the whole region by hand.
FallBack ==
  /\ pc = "send" /\ checked /\ offset = from
  /\ Goto("read")
  /\ UNCHANGED <<call, from, asked, buffer, raw, offset, handle, file, cancelled>>

\* pread_exact_at fills the scratch buffer from the source.
ReadChunk ==
  /\ pc = "read" /\ checked
  /\ LET want == Least(Capacity, asked - offset + 1) IN
       raw' = Bytes(offset, offset + want - 1) /\ offset' = offset + want
  /\ Goto("copy")
  /\ UNCHANGED <<call, from, asked, buffer, handle, file, cancelled>>

\* A loop has nothing left: back to the loop around it, or to the caller.
LoopDone ==
  /\ pc \in {"raw", "send", "read", "copy"} /\ ~Unfinished
  /\ Goto(IF pc = "copy" THEN "read" ELSE "idle")
  /\ UNCHANGED <<call, from, asked, buffer, raw, offset, handle, file, cancelled>>

\* finish_file: fsync when durable, and close(2).
Finish ==
  /\ pc = "finish"
  /\ Goto("lastCheck") \/ Goto("failed")
  /\ UNCHANGED <<call, from, asked, buffer, raw, offset, handle, file, cancelled>>

\* A file closed in full is still an error to the caller when a signal came.
LastCheck ==
  /\ pc = "lastCheck"
  /\ Goto(IF cancelled THEN "failed" ELSE "closed")
  /\ UNCHANGED <<call, from, asked, buffer, raw, offset, handle, file, cancelled>>

Step ==
  \/ Drained \/ Check \/ Interrupted \/ Failure \/ WriteSome \/ SendSome
  \/ FallBack \/ ReadChunk \/ LoopDone \/ Finish \/ LastCheck

Signal == cancelled' = TRUE /\ UNCHANGED <<pc, call, from, asked, buffer, raw, offset, checked, handle, file>>

Next ==
  \/ \E n \in 1..Total : Write(n) \/ Send(n)
  \/ Close \/ Drop \/ Step \/ Signal

Spec == Init /\ [][Next]_vars

\* System calls return; they may be interrupted for ever.
FairSpec == Spec /\ WF_vars(Step)

-----------------------------------------------------------------------------
(* What must hold.                                                         *)

\* Whatever fails and wherever, the file holds the bytes asked for in their order,
\* none twice and none left out before another: also after a failed drain followed
\* by drop, and after a change from sendfile to copying.
InOrder == Len(file) <= asked /\ \A i \in DOMAIN file : file[i] = i

\* Between calls every byte asked for is in the file or in the buffer behind it.
NothingMissing == pc = "idle" => file \o buffer = Bytes(1, asked)

\* close succeeds only over a complete file.
ClosedIsComplete == pc = "closed" => file = Bytes(1, asked)

\* A cancelled call comes back, however often the kernel interrupts it or takes
\* a single byte at a time.
CancelStops == cancelled ~> pc \in {"idle", "failed", "closed", "dropped"}
=============================================================================
