---------------------------- MODULE KeyEntryProofs ----------------------------
(***************************************************************************)
(* Theorems about KeyEntry, for a buffer of any size and any number of     *)
(* keystrokes and stops.                                                   *)
(***************************************************************************)
EXTENDS KeyEntry, TLAPS

\* Where the signals are blocked, and where they are not ("waiting" is the inside
\* of pselect).  On the way out ("leave") both happen.
Masked == {"terminal", "hook", "unblock", "check", "wait", "recheck", "nonblock", "read",
           "unflag", "unmask", "setupFailed"}
Open == {"enter", "setup", "protect", "waiting", "accept", "line", "unhook", "restore",
         "returned"}
Blocks ==
  /\ pc \in Masked => masked
  /\ pc \in Open => ~masked
  /\ nonblock <=> pc \in {"read", "unflag"}

\* Where the terminal is the program's, where it is once it was looked at, and where
\* it may have been taken away.
Secure == {"hook", "unblock", "wait", "nonblock", "read", "unflag", "unmask"}
Checked == {"check", "recheck"}
Exposed == {"protect", "waiting", "accept"}

\* The guard stands while the line is entered, and a terminal is in raw mode only
\* while there is a guard to restore it.
Guards ==
  /\ active \/ pc = "terminal" => tty
  /\ ~active => mode = "cooked"
  /\ pc \in Secure \cup Checked \cup Exposed => (tty => active)
  /\ pc \in (Secure \ {"hook"}) \cup Checked \cup Exposed => (tty => hooked)
  /\ pc \in {"restore", "returned"} => ~hooked
  /\ pc = "returned" => ~active

\* The keystroke that was read, and the number of those that were not lost.
Taken == IF ch = NoKey THEN 0 ELSE 1
Counted ==
  /\ ch # NoKey => pc \in {"unflag", "unmask", "accept"} /\ outcome = "byte"
  /\ pc \in {"unmask", "accept"} => outcome \in {"byte", "eof"}
  /\ pc = "unflag" => outcome \in {"byte", "eof", "again", "error"}
  /\ Len(line) + Len(queue) + Taken <= typed

\* The terminal is the program's, and nothing waits that was shown.
Unseen == \A i \in 1..Len(queue) : ~queue[i].echoed
Ours == running /\ foreground /\ Unseen /\ (tty => mode = "raw")
\* It may not be, but the program was told, ...
Told == active /\ continued
\* ... or is stopped, or a signal is on its way that will tell it.
Noted == "CONT" \in pend \/ "TSTP" \in pend

TerminalIsOurs ==
  /\ ~tty => foreground /\ Unseen
  /\ pc \in Secure => Ours
  /\ pc \in Checked => Ours \/ Told
  /\ pc \in Exposed => Ours \/ Told \/ ~running \/ Noted
  /\ pc = "wait" => outcome = "none"
  /\ pc = "waiting" => outcome \in {"none", "eintr", "stop"}
  /\ pc = "waiting" /\ outcome = "none" => Ours
  /\ pc = "waiting" /\ outcome = "stop" => ~tty \/ ~running \/ Noted

\* A signal that came while the line was entered is pending or recorded.
Cancelled ==
  /\ early /\ Entering => recorded \/ "INT" \in pend
  /\ early => pc # "line" /\ result # "key"
  /\ result = "key" => ~Entering

\* The buffer is the beginning of the line, all of it unless keystrokes are counted.
Edited ==
  /\ Len(line) = Len(buffer) + dropped
  /\ dropped > 0 => Len(buffer) = MaxKeys
  /\ \A i \in 1..Len(buffer) : buffer[i] = line[i]

\* The types in parts.
Flags ==
  /\ tty \in BOOLEAN /\ exposed \in BOOLEAN /\ running \in BOOLEAN /\ masked \in BOOLEAN
  /\ recorded \in BOOLEAN /\ continued \in BOOLEAN /\ hooked \in BOOLEAN /\ active \in BOOLEAN
  /\ foreground \in BOOLEAN /\ closed \in BOOLEAN /\ nonblock \in BOOLEAN /\ early \in BOOLEAN
Words ==
  /\ pc \in Labels
  /\ outcome \in {"none", "ready", "timeout", "eintr", "stop", "byte", "eof", "again", "error"}
  /\ result \in {"none", "key", "malformed", "cancelled", "failed"}
  /\ mode \in {"cooked", "raw"} /\ pend \subseteq Signals /\ stops \in 0..MaxStops
Data ==
  /\ buffer \in Seq(1..MaxTyped) /\ Len(buffer) <= MaxKeys /\ dropped \in 0..MaxTyped
  /\ line \in Seq(1..MaxTyped) /\ ch \in Keystroke \cup {NoKey}
  /\ queue \in Seq(Keystroke) /\ Len(queue) <= MaxAhead /\ typed \in 0..MaxTyped

\* The inductive invariant.
IInv == TypeOK /\ Blocks /\ Guards /\ Counted /\ TerminalIsOurs /\ Cancelled /\ Edited /\ ~exposed

\* What the parts of the queue and of the line are made of.
\* What the parts of the queue and of the line are made of.
\* What the parts of the queue and of the line are made of.
\* What the parts of the queue and of the line are made of.
\* What the parts of the queue and of the line are made of.
\* What the parts of the queue and of the line are made of.
\* What the parts of the queue and of the line are made of.
\* What the parts of the queue and of the line are made of.
\* What the parts of the queue and of the line are made of.
\* What the parts of the queue and of the line are made of.
\* What the parts of the queue and of the line are made of.
\* What the parts of the queue and of the line are made of.
\* What the parts of the queue and of the line are made of.
\* What the parts of the queue and of the line are made of.
\* What the parts of the queue and of the line are made of.
\* What the parts of the queue and of the line are made of.
\* What the parts of the queue and of the line are made of.
LEMMA QueueTail ==
  ASSUME NEW q \in Seq(Keystroke), q # <<>>
  PROVE  /\ Head(q) \in Keystroke /\ Tail(q) \in Seq(Keystroke)
         /\ Len(q) \in Nat /\ Len(q) > 0 /\ Len(Tail(q)) = Len(q) - 1
         /\ Head(q) = q[1] /\ \A i \in 1..Len(Tail(q)) : Tail(q)[i] = q[i + 1]
OBVIOUS

LEMMA Appending ==
  ASSUME NEW S, NEW s \in Seq(S), NEW e \in S
  PROVE  /\ Append(s, e) \in Seq(S) /\ Len(Append(s, e)) = Len(s) + 1
         /\ \A i \in 1..Len(s) : Append(s, e)[i] = s[i]
         /\ Append(s, e)[Len(s) + 1] = e
OBVIOUS

LEMMA FrontFacts ==
  ASSUME NEW S, NEW s \in Seq(S), s # <<>>
  PROVE  /\ Front(s) \in Seq(S) /\ Len(s) \in Nat /\ Len(s) > 0 /\ Len(Front(s)) = Len(s) - 1
         /\ \A i \in 1..Len(Front(s)) : Front(s)[i] = s[i]
<1>1. Len(s) \in Nat /\ Len(s) > 0
  OBVIOUS
<1>2. Front(s) = SubSeq(s, 1, Len(s) - 1)
  BY DEF Front
<1>3. SubSeq(s, 1, Len(s) - 1) = [i \in 1..(Len(s) - 1) |-> s[i]]
  BY <1>1
<1>4. \A i \in 1..(Len(s) - 1) : s[i] \in S
  BY <1>1
<1>5. [i \in 1..(Len(s) - 1) |-> s[i]] \in Seq(S)
  BY <1>1, <1>4
<1>6. Len(s) - 1 \in Nat
  BY <1>1
<1>7. Len([i \in 1..(Len(s) - 1) |-> s[i]]) = Len(s) - 1
  BY <1>6
<1>8. \A i \in 1..(Len(s) - 1) : Front(s)[i] = s[i]
  BY <1>2, <1>3
<1>9. Front(s) \in Seq(S) /\ Len(Front(s)) = Len(s) - 1
  BY <1>2, <1>3, <1>5, <1>7
<1> QED BY <1>1, <1>8, <1>9

LEMMA SameElements ==
  ASSUME NEW S, NEW s \in Seq(S), NEW t \in Seq(S), Len(s) = Len(t),
         \A i \in 1..Len(s) : s[i] = t[i]
  PROVE  s = t
BY SMTT(60)

\* The line without a limit, one keystroke further.
LEMMA LineGrows ==
  ASSUME NEW key \in Keystroke \cup {NoKey}, line \in Seq(1..MaxTyped)
  PROVE  /\ Unlimited(key) \in Seq(1..MaxTyped)
         /\ Len(Unlimited(key)) <= Len(line) + (IF key = NoKey THEN 0 ELSE 1)
<1>0. key.kind = "letter" => key.number \in 1..MaxTyped /\ key # NoKey
  BY DEF Keystroke, NoKey
<1>1. CASE key.kind = "letter"
  BY <1>0, <1>1, Appending DEF Unlimited
<1>2. CASE key.kind # "letter" /\ key.kind = "erase" /\ line # <<>>
  <2>1. Unlimited(key) = Front(line)
    BY <1>2 DEF Unlimited
  <2> QED BY <2>1, <1>2, FrontFacts
<1>3. CASE key.kind # "letter" /\ ~(key.kind = "erase" /\ line # <<>>)
  <2>1. Unlimited(key) = line
    BY <1>3 DEF Unlimited
  <2>2. Len(line) \in Nat
    OBVIOUS
  <2> QED BY <2>1, <2>2
<1> QED BY <1>1, <1>2, <1>3

\* One keystroke in the buffer does what it does to the line.
LEMMA EditKeeps ==
  ASSUME Data, Edited, NEW key \in Keystroke \cup {NoKey}, Edit(key), line' = Unlimited(key)
  PROVE  Edited' /\ buffer' \in Seq(1..MaxTyped) /\ Len(buffer') <= MaxKeys /\ dropped' \in Nat
<1>d. /\ buffer \in Seq(1..MaxTyped) /\ line \in Seq(1..MaxTyped) /\ dropped \in Nat
      /\ Len(buffer) \in Nat /\ Len(line) \in Nat /\ Len(buffer) <= MaxKeys /\ MaxKeys \in Nat \ {0}
  BY KeyEntryAssumption DEF Data
<1>e. /\ Len(line) = Len(buffer) + dropped /\ (dropped > 0 => Len(buffer) = MaxKeys)
      /\ \A i \in 1..Len(buffer) : buffer[i] = line[i]
  BY DEF Edited
<1>n. key.kind = "letter" => key.number \in 1..MaxTyped
  BY DEF Keystroke, NoKey
<1>1. CASE key.kind = "letter" /\ Fits
  <2>1. /\ buffer' = Append(buffer, key.number) /\ dropped' = dropped
        /\ line' = Append(line, key.number) /\ Len(buffer) < MaxKeys
    BY <1>1 DEF Edit, Unlimited, Fits
  <2>2. dropped = 0 /\ Len(line) = Len(buffer)
    BY <2>1, <1>d, <1>e
  <2>3. /\ buffer' \in Seq(1..MaxTyped) /\ Len(buffer') = Len(buffer) + 1
        /\ \A i \in 1..Len(buffer) : buffer'[i] = buffer[i]
        /\ buffer'[Len(buffer) + 1] = key.number
    BY <2>1, <1>1, <1>n, <1>d, Appending
  <2>4. /\ Len(line') = Len(line) + 1
        /\ \A i \in 1..Len(line) : line'[i] = line[i]
        /\ line'[Len(line) + 1] = key.number
    BY <2>1, <1>1, <1>n, <1>d, Appending
  <2>5. \A i \in 1..Len(buffer') : buffer'[i] = line'[i]
    <3> SUFFICES ASSUME NEW i \in 1..Len(buffer') PROVE buffer'[i] = line'[i]
      OBVIOUS
    <3>1. i \in 1..Len(buffer) \/ i = Len(buffer) + 1
      BY <2>3, <1>d
    <3> QED BY <3>1, <2>2, <2>3, <2>4, <1>e
  <2> QED BY <2>1, <2>2, <2>3, <2>4, <2>5, <1>d DEF Edited
<1>2. CASE key.kind = "letter" /\ ~Fits
  <2>1. /\ buffer' = buffer /\ dropped' = dropped + 1 /\ line' = Append(line, key.number)
        /\ ~(Len(buffer) < MaxKeys)
    BY <1>2 DEF Edit, Unlimited, Fits
  <2>2. Len(buffer) = MaxKeys
    BY <2>1, <1>d
  <2>3. /\ Len(line') = Len(line) + 1
        /\ \A i \in 1..Len(line) : line'[i] = line[i]
    BY <2>1, <1>2, <1>n, <1>d, Appending
  <2>4. \A i \in 1..Len(buffer) : buffer[i] = line'[i]
    BY <2>3, <1>d, <1>e
  <2> QED BY <2>1, <2>2, <2>3, <2>4, <1>d, <1>e DEF Edited
<1>3. CASE key.kind = "erase" /\ dropped > 0
  <2>1. buffer' = buffer /\ dropped' = dropped - 1 /\ line # <<>>
    BY <1>3, <1>d, <1>e DEF Edit
  <2>2. line' = Front(line)
    BY <2>1, <1>3 DEF Unlimited
  <2>3. Len(line') = Len(line) - 1 /\ \A i \in 1..Len(line') : line'[i] = line[i]
    BY <2>1, <2>2, <1>d, FrontFacts
  <2>4. \A i \in 1..Len(buffer) : buffer[i] = line'[i]
    BY <2>3, <1>3, <1>d, <1>e
  <2> QED BY <2>1, <2>3, <2>4, <1>3, <1>d, <1>e DEF Edited
<1>4. CASE key.kind = "erase" /\ ~(dropped > 0) /\ buffer # <<>>
  <2>1. dropped = 0
    BY <1>4, <1>d
  <2>2. buffer' = Front(buffer) /\ dropped' = 0
    BY <2>1, <1>4 DEF Edit
  <2>3. Len(buffer') = Len(buffer) - 1 /\ Len(buffer) > 0 /\ buffer' \in Seq(1..MaxTyped)
        /\ \A i \in 1..Len(buffer') : buffer'[i] = buffer[i]
    BY <2>2, <1>4, <1>d, FrontFacts
  <2>4. line # <<>>
    BY <2>1, <2>3, <1>d, <1>e
  <2>5. line' = Front(line)
    BY <2>4, <1>4 DEF Unlimited
  <2>6. Len(line') = Len(line) - 1 /\ \A i \in 1..Len(line') : line'[i] = line[i]
    BY <2>4, <2>5, <1>d, FrontFacts
  <2>7. \A i \in 1..Len(buffer') : buffer'[i] = line'[i]
    BY <2>1, <2>3, <2>6, <1>d, <1>e
  <2> QED BY <2>1, <2>2, <2>3, <2>6, <2>7, <1>d, <1>e DEF Edited
<1>5. CASE key.kind # "letter" /\ ~(key.kind = "erase" /\ (dropped > 0 \/ buffer # <<>>))
  <2>1. buffer' = buffer /\ dropped' = dropped
    BY <1>5 DEF Edit
  <2>2. line' = line
    BY <1>5, <1>d, <1>e DEF Unlimited
  <2> QED BY <2>1, <2>2, <1>d, <1>e DEF Edited
<1> QED BY <1>1, <1>2, <1>3, <1>4, <1>5

\* What is typed is seen unless the terminal is the program's.
LEMMA Typing ==
  ASSUME Data, NEW k \in Kinds, Type(k)
  PROVE  /\ queue' \in Seq(Keystroke) /\ Len(queue') = Len(queue) + 1 /\ Len(queue') <= MaxAhead
         /\ typed' = typed + 1 /\ typed' \in 0..MaxTyped
         /\ \A i \in 1..Len(queue) : queue'[i] = queue[i]
         /\ queue'[Len(queue')].echoed = (tty /\ (mode = "cooked" \/ ~foreground))
<1> DEFINE key == [kind |-> k, number |-> typed + 1,
                   echoed |-> tty /\ (mode = "cooked" \/ ~foreground)]
<1>0. /\ queue \in Seq(Keystroke) /\ Len(queue) \in Nat /\ typed \in 0..MaxTyped
      /\ MaxTyped \in Nat /\ MaxAhead \in Nat
  BY KeyEntryAssumption DEF Data
<1>1. typed < MaxTyped /\ Len(queue) < MaxAhead /\ typed' = typed + 1 /\ queue' = Append(queue, key)
  BY DEF Type
<1>2. typed + 1 \in 1..MaxTyped
  BY <1>0, <1>1
<1>3. (tty /\ (mode = "cooked" \/ ~foreground)) \in BOOLEAN
  OBVIOUS
<1>4. key \in Keystroke
  BY <1>2, <1>3 DEF Keystroke
<1>5. key.echoed = (tty /\ (mode = "cooked" \/ ~foreground))
  OBVIOUS
<1> HIDE DEF key
<1> QED BY <1>0, <1>1, <1>4, <1>5, Appending

-----------------------------------------------------------------------------
(* Every step keeps every part of the invariant.  The actions that leave the  *)
(* part's variables alone come first, together; the others have a step each.  *)

LEMMA FlagsStep == ASSUME IInv, Next PROVE Flags'
<1> USE DEF Flags, program, signals, guard, terminal, counts, edit, got, Goto, Leave, At
<1>t. Flags
  BY DEF IInv, TypeOK, Flags, Words, Data
\* These do not touch it.
<1>0. CASE Enter \/ Accept \/ Line \/ Stop \/ Drain
  BY <1>0, <1>t DEF Enter, Accept, Line, Stop, Drain
<1>1. CASE SetUp
  BY ZenonT(40), <1>1, <1>t DEF SetUp
<1>2. CASE MakeRaw
  BY ZenonT(40), <1>2, <1>t DEF MakeRaw, SetMode
<1>3. CASE Hook
  BY ZenonT(40), <1>3, <1>t DEF Hook
<1>4. CASE SetupFailed
  BY <1>4, <1>t DEF SetupFailed, SetMode
<1>5. CASE Unblock
  BY <1>5, <1>t DEF Unblock
<1>6. CASE Protect
  BY ZenonT(40), <1>6, <1>t DEF Protect
<1>7. CASE CheckAndReapply("check", "wait")
  BY ZenonT(40), <1>7, <1>t DEF CheckAndReapply, ReapplyRaw, SetMode
<1>8. CASE Wait
  BY <1>8, <1>t DEF Wait
<1>9. CASE Woken
  BY <1>9, <1>t DEF Woken, Readable
<1>10. CASE CheckAndReapply("recheck", AfterWait)
  BY ZenonT(40), <1>10, <1>t DEF CheckAndReapply, ReapplyRaw, SetMode, AfterWait
<1>11. CASE SetNonblock
  BY <1>11, <1>t DEF SetNonblock
<1>12. CASE Read
  BY ZenonT(40), <1>12, <1>t DEF Read
<1>13. CASE ClearNonblock
  BY <1>13, <1>t DEF ClearNonblock
<1>14. CASE Unmask
  BY <1>14, <1>t DEF Unmask
<1>15. CASE LeaveBlock
  BY <1>15, <1>t DEF LeaveBlock
<1>16. CASE Unhook
  BY <1>16, <1>t DEF Unhook
<1>17. CASE Restore
  BY <1>17, <1>t DEF Restore, SetMode
<1>18. CASE BackgroundStop
  BY <1>18, <1>t DEF BackgroundStop, TouchesTerminal
<1>19. CASE \E s \in Signals : Deliver(s)
  BY <1>19, <1>t DEF Deliver, Signals
<1>20. CASE Interrupt
  <2>1. Entering \in BOOLEAN
    BY DEF Entering
  <2> QED BY <1>20, <2>1, <1>t DEF Interrupt
<1>21. CASE ShellTakes
  BY <1>21, <1>t DEF ShellTakes
<1>22. CASE Foreground
  BY <1>22, <1>t DEF Foreground, Continued
<1>23. CASE Background
  BY <1>23, <1>t DEF Background, Continued
<1>24. CASE \E m \in {"cooked", "raw"} : ShellSets(m)
  BY <1>24, <1>t DEF ShellSets
<1>25. CASE \E k \in Kinds : Type(k)
  BY <1>25, <1>t DEF Type
<1>26. CASE Close
  BY <1>26, <1>t DEF Close
<1> QED BY <1>0, <1>1, <1>2, <1>3, <1>4, <1>5, <1>6, <1>7, <1>8, <1>9, <1>10, <1>11,
           <1>12, <1>13, <1>14, <1>15, <1>16, <1>17, <1>18, <1>19, <1>20, <1>21, <1>22,
           <1>23, <1>24, <1>25, <1>26 DEF Next, Program, Others


LEMMA WordsStep == ASSUME IInv, Next PROVE Words'
<1> USE DEF Words, Labels, program, signals, guard, terminal, counts, edit, got, Goto,
            Leave, At
<1>t. Words
  BY DEF IInv, TypeOK, Flags, Words, Data
\* These do not touch it.
<1>0. CASE ShellTakes \/ Close \/ Drain
  BY <1>0, <1>t DEF ShellTakes, Close, Drain
<1>1. CASE Enter
  BY <1>1, <1>t DEF Enter
<1>2. CASE SetUp
  BY <1>2, <1>t DEF SetUp
<1>3. CASE MakeRaw
  BY <1>3, <1>t DEF MakeRaw, SetMode
<1>4. CASE Hook
  BY <1>4, <1>t DEF Hook
<1>5. CASE SetupFailed
  BY <1>5, <1>t DEF SetupFailed, SetMode
<1>6. CASE Unblock
  BY <1>6, <1>t DEF Unblock
<1>7. CASE Protect
  BY <1>7, <1>t DEF Protect
<1>8. CASE CheckAndReapply("check", "wait")
  BY <1>8, <1>t DEF CheckAndReapply, ReapplyRaw, SetMode
<1>9. CASE Wait
  BY <1>9, <1>t DEF Wait
<1>10. CASE Woken
  BY <1>10, <1>t DEF Woken, Readable
<1>11. CASE CheckAndReapply("recheck", AfterWait)
  BY <1>11, <1>t DEF CheckAndReapply, ReapplyRaw, SetMode, AfterWait
<1>12. CASE SetNonblock
  BY <1>12, <1>t DEF SetNonblock
<1>13. CASE Read
  BY <1>13, <1>t DEF Read
<1>14. CASE ClearNonblock
  BY <1>14, <1>t DEF ClearNonblock
<1>15. CASE Unmask
  BY <1>15, <1>t DEF Unmask
<1>16. CASE Accept
  BY <1>16, <1>t DEF Accept, Edit, LineEnds
<1>17. CASE Line
  BY <1>17, <1>t DEF Line
<1>18. CASE LeaveBlock
  BY <1>18, <1>t DEF LeaveBlock
<1>19. CASE Unhook
  BY <1>19, <1>t DEF Unhook
<1>20. CASE Restore
  BY <1>20, <1>t DEF Restore, SetMode
<1>21. CASE BackgroundStop
  BY <1>21, <1>t DEF BackgroundStop, TouchesTerminal
<1>22. CASE \E s \in Signals : Deliver(s)
  BY <1>22, <1>t DEF Deliver, Signals
<1>23. CASE Interrupt
  BY <1>23, <1>t DEF Interrupt, Signals
<1>24. CASE Stop
  <2>1. stops' = stops + 1 /\ stops < MaxStops /\ MaxStops \in Nat /\ stops \in Nat
    BY <1>24, <1>t, KeyEntryAssumption DEF Stop
  <2>2. stops' \in 0..MaxStops
    BY <2>1
  <2> QED BY <1>24, <1>t, <2>2 DEF Stop, Signals
<1>25. CASE Foreground
  BY <1>25, <1>t DEF Foreground, Continued, Signals
<1>26. CASE Background
  BY <1>26, <1>t DEF Background, Continued, Signals
<1>27. CASE \E m \in {"cooked", "raw"} : ShellSets(m)
  BY <1>27, <1>t DEF ShellSets
<1>28. CASE \E k \in Kinds : Type(k)
  BY <1>28, <1>t DEF Type
<1> QED BY <1>0, <1>1, <1>2, <1>3, <1>4, <1>5, <1>6, <1>7, <1>8, <1>9, <1>10, <1>11,
           <1>12, <1>13, <1>14, <1>15, <1>16, <1>17, <1>18, <1>19, <1>20, <1>21, <1>22,
           <1>23, <1>24, <1>25, <1>26, <1>27, <1>28 DEF Next, Program, Others


LEMMA CountedStep == ASSUME IInv, Next PROVE Counted'
<1> USE DEF Counted, Taken, program, signals, guard, terminal, counts, edit, got, Goto,
            Leave, At
<1>t. Data /\ Counted /\ Len(line) \in Nat /\ Len(queue) \in Nat /\ typed \in Nat
  BY DEF IInv, TypeOK, Flags, Words, Data
\* These do not touch it.
<1>0. CASE BackgroundStop \/ Interrupt \/ Stop \/ ShellTakes \/ Foreground \/
           Background \/ Close
  BY <1>0, <1>t DEF BackgroundStop, TouchesTerminal, Interrupt, Stop, ShellTakes,
                    Foreground, Continued, Background, Close
<1>1. CASE Enter
  BY <1>1, <1>t DEF Enter
<1>2. CASE SetUp
  BY <1>2, <1>t DEF SetUp
<1>3. CASE MakeRaw
  BY <1>3, <1>t DEF MakeRaw, SetMode
<1>4. CASE Hook
  BY <1>4, <1>t DEF Hook
<1>5. CASE SetupFailed
  BY <1>5, <1>t DEF SetupFailed, SetMode
<1>6. CASE Unblock
  BY <1>6, <1>t DEF Unblock
<1>7. CASE Protect
  BY <1>7, <1>t DEF Protect
<1>8. CASE CheckAndReapply("check", "wait")
  BY <1>8, <1>t DEF CheckAndReapply, ReapplyRaw, SetMode
<1>9. CASE Wait
  BY <1>9, <1>t DEF Wait
<1>10. CASE Woken
  BY <1>10, <1>t DEF Woken, Readable
<1>11. CASE CheckAndReapply("recheck", AfterWait)
  BY <1>11, <1>t DEF CheckAndReapply, ReapplyRaw, SetMode, AfterWait
<1>12. CASE SetNonblock
  BY <1>12, <1>t DEF SetNonblock
<1>13. CASE Read
  <2>1. CASE queue # <<>> /\ ch' = Head(queue) /\ queue' = Tail(queue) /\ outcome' = "byte"
    <3>1. Len(queue') = Len(queue) - 1 /\ Len(queue) > 0
      BY <2>1, <1>t, QueueTail DEF Data
    <3>2. ch = NoKey /\ pc' = "unflag" /\ UNCHANGED <<line, typed>>
      BY <1>13, <1>t DEF Read
    <3> QED BY <2>1, <3>1, <3>2, <1>t
  <2>2. CASE outcome' \in {"eof", "again", "error"} /\ UNCHANGED <<ch, queue>>
    BY <2>2, <1>13, <1>t DEF Read
  <2> QED BY <1>13, <2>1, <2>2 DEF Read
<1>14. CASE ClearNonblock
  BY <1>14, <1>t DEF ClearNonblock
<1>15. CASE Unmask
  BY <1>15, <1>t DEF Unmask
<1>16. CASE Accept
  <2>1. CASE UNCHANGED edit
    BY <1>16, <1>t, <2>1 DEF Accept, Data
  <2>2. CASE Edit(ch) /\ line' = Unlimited(ch) /\ pc' = "protect"
    <3>1. Len(line') <= Len(line) + Taken /\ line' \in Seq(1..MaxTyped)
      BY <2>2, <1>t, LineGrows DEF Data
    <3>2. ch' = NoKey /\ pc' = "protect" /\ UNCHANGED <<queue, typed>>
      BY <1>16, <2>2 DEF Accept
    <3>3. Len(line) \in Nat /\ Len(line') \in Nat /\ Len(queue) \in Nat /\ typed \in Nat
      BY <3>1, <1>t, KeyEntryAssumption DEF Data
    <3> QED BY <3>1, <3>2, <3>3, <1>t
  <2> QED BY <1>16, <2>1, <2>2 DEF Accept
<1>17. CASE Line
  BY <1>17, <1>t DEF Line
<1>18. CASE LeaveBlock
  BY <1>18, <1>t DEF LeaveBlock
<1>19. CASE Unhook
  BY <1>19, <1>t DEF Unhook
<1>20. CASE Restore
  BY <1>20, <1>t DEF Restore, SetMode
<1>21. CASE \E s \in Signals : Deliver(s)
  BY <1>21, <1>t DEF Deliver, Signals
<1>22. CASE \E m \in {"cooked", "raw"} : ShellSets(m)
  BY <1>22, <1>t DEF ShellSets
<1>23. CASE \E k \in Kinds : Type(k)
  <2> SUFFICES ASSUME NEW k \in Kinds, Type(k) PROVE Counted'
    BY <1>23
  <2>1. Len(queue') = Len(queue) + 1 /\ typed' = typed + 1
    BY <1>t, Typing
  <2> QED BY <2>1, <1>t DEF Type
<1>24. CASE Drain
  <2>1. Len(queue') = Len(queue) - 1
    BY <1>24, <1>t, QueueTail DEF Drain, Data
  <2> QED BY <1>24, <2>1, <1>t DEF Drain
<1> QED BY <1>0, <1>1, <1>2, <1>3, <1>4, <1>5, <1>6, <1>7, <1>8, <1>9, <1>10, <1>11,
           <1>12, <1>13, <1>14, <1>15, <1>16, <1>17, <1>18, <1>19, <1>20, <1>21, <1>22,
           <1>23, <1>24 DEF Next, Program, Others


LEMMA DataStep == ASSUME IInv, Next PROVE Data'
<1> USE DEF Data, program, signals, guard, terminal, counts, edit, got, Goto, Leave, At
<1>t. Data /\ Counted /\ Edited
  BY DEF IInv, TypeOK, Flags, Words, Data
\* These do not touch it.
<1>0. CASE Enter \/ SetUp \/ Hook \/ Unblock \/ Protect \/ Wait \/ Woken \/
           SetNonblock \/ ClearNonblock \/ Unmask \/ Line \/ LeaveBlock \/ Unhook \/
           BackgroundStop \/ Interrupt \/ Stop \/ ShellTakes \/ Foreground \/
           Background \/ Close
  BY <1>0, <1>t DEF Enter, SetUp, Hook, Unblock, Protect, Wait, Woken, SetNonblock,
                    ClearNonblock, Unmask, Line, LeaveBlock, Unhook, BackgroundStop,
                    TouchesTerminal, Interrupt, Stop, ShellTakes, Foreground,
                    Continued, Background, Close
<1>1. CASE MakeRaw
  <2>1. <<>> \in Seq(Keystroke) /\ Len(<<>>) = 0 /\ Len(<<>>) <= MaxAhead
    BY KeyEntryAssumption
  <2> QED BY <1>1, <1>t, <2>1 DEF MakeRaw, SetMode
<1>2. CASE SetupFailed
  <2>1. <<>> \in Seq(Keystroke) /\ Len(<<>>) = 0 /\ Len(<<>>) <= MaxAhead
    BY KeyEntryAssumption
  <2> QED BY <1>2, <1>t, <2>1 DEF SetupFailed, SetMode
<1>3. CASE CheckAndReapply("check", "wait")
  <2>1. <<>> \in Seq(Keystroke) /\ Len(<<>>) = 0 /\ Len(<<>>) <= MaxAhead
    BY KeyEntryAssumption
  <2> QED BY <1>3, <1>t, <2>1 DEF CheckAndReapply, ReapplyRaw, SetMode
<1>4. CASE CheckAndReapply("recheck", AfterWait)
  <2>1. <<>> \in Seq(Keystroke) /\ Len(<<>>) = 0 /\ Len(<<>>) <= MaxAhead
    BY KeyEntryAssumption
  <2> QED BY <1>4, <1>t, <2>1 DEF CheckAndReapply, ReapplyRaw, SetMode
<1>5. CASE Read
  <2>1. CASE queue # <<>> /\ ch' = Head(queue) /\ queue' = Tail(queue)
    <3>1. ch' \in Keystroke /\ queue' \in Seq(Keystroke) /\ Len(queue') <= MaxAhead
      BY <2>1, <1>t, QueueTail, KeyEntryAssumption
    <3>2. UNCHANGED <<edit, typed>>
      BY <1>5 DEF Read
    <3> QED BY <3>1, <3>2, <1>t
  <2>2. CASE UNCHANGED <<ch, queue>>
    BY <2>2, <1>5, <1>t DEF Read
  <2> QED BY <1>5, <2>1, <2>2 DEF Read
<1>6. CASE Accept
  <2>1. Counted'
    BY CountedStep
  <2>2. CASE UNCHANGED edit
    BY <1>6, <1>t, <2>2 DEF Accept
  <2>3. CASE Edit(ch) /\ line' = Unlimited(ch)
    <3>1. /\ Edited' /\ buffer' \in Seq(1..MaxTyped) /\ Len(buffer') <= MaxKeys
          /\ dropped' \in Nat /\ line' \in Seq(1..MaxTyped)
      BY <2>3, <1>t, EditKeeps, LineGrows
    <3>2. ch' = NoKey /\ UNCHANGED <<queue, typed>>
      BY <1>6 DEF Accept
    <3>3. /\ Len(line') \in Nat /\ Len(buffer') \in Nat /\ Len(queue) \in Nat
          /\ typed \in Nat /\ typed <= MaxTyped /\ MaxTyped \in Nat
      BY <3>1, <1>t, KeyEntryAssumption
    <3>4. Len(line') + Len(queue) <= typed
      BY <2>1, <3>2, <3>3 DEF Counted, Taken
    <3>5. Len(line') = Len(buffer') + dropped'
      BY <3>1 DEF Edited
    <3>6. dropped' \in 0..MaxTyped
      BY <3>1, <3>3, <3>4, <3>5
    <3> QED BY <3>1, <3>2, <3>6, <1>t
  <2> QED BY <1>6, <2>2, <2>3 DEF Accept
<1>7. CASE Restore
  <2>1. <<>> \in Seq(Keystroke) /\ Len(<<>>) = 0 /\ Len(<<>>) <= MaxAhead
    BY KeyEntryAssumption
  <2> QED BY <1>7, <1>t, <2>1 DEF Restore, SetMode
<1>8. CASE \E s \in Signals : Deliver(s)
  BY <1>8, <1>t DEF Deliver, Signals
<1>9. CASE \E m \in {"cooked", "raw"} : ShellSets(m)
  BY <1>9, <1>t DEF ShellSets
<1>10. CASE \E k \in Kinds : Type(k)
  <2> SUFFICES ASSUME NEW k \in Kinds, Type(k) PROVE Data'
    BY <1>10
  <2> QED BY <1>t, Typing DEF Type
<1>11. CASE Drain
  BY <1>11, <1>t, QueueTail, KeyEntryAssumption DEF Drain
<1> QED BY <1>0, <1>1, <1>2, <1>3, <1>4, <1>5, <1>6, <1>7, <1>8, <1>9, <1>10, <1>11 DEF Next, Program, Others


LEMMA EditedStep == ASSUME IInv, Next PROVE Edited'
<1> USE DEF Edited, program, signals, guard, terminal, counts, edit, got, Goto, Leave,
            At
<1>t. Data /\ Edited
  BY DEF IInv, TypeOK, Flags, Words, Data
\* These do not touch it.
<1>0. CASE Enter \/ SetUp \/ MakeRaw \/ Hook \/ SetupFailed \/ Unblock \/ Protect \/
           CheckAndReapply("check", "wait") \/ Wait \/ Woken \/
           CheckAndReapply("recheck", AfterWait) \/ SetNonblock \/ Read \/
           ClearNonblock \/ Unmask \/ Line \/ LeaveBlock \/ Unhook \/ Restore \/
           BackgroundStop \/ Interrupt \/ Stop \/ ShellTakes \/ Foreground \/
           Background \/ Close \/ Drain
  BY <1>0, <1>t DEF Enter, SetUp, MakeRaw, Hook, SetupFailed, Unblock, Protect,
                    CheckAndReapply, ReapplyRaw, Wait, Woken, AfterWait, SetNonblock,
                    Read, ClearNonblock, Unmask, Line, LeaveBlock, Unhook, Restore,
                    BackgroundStop, TouchesTerminal, Interrupt, Stop, ShellTakes,
                    Foreground, Continued, Background, Close, Drain
<1>1. CASE Accept
  <2>1. CASE UNCHANGED edit
    BY <1>t, <2>1
  <2>2. CASE Edit(ch) /\ line' = Unlimited(ch)
    BY <2>2, <1>t, EditKeeps DEF Data
  <2> QED BY <1>1, <2>1, <2>2 DEF Accept
<1>2. CASE \E s \in Signals : Deliver(s)
  BY <1>2, <1>t DEF Deliver, Signals
<1>3. CASE \E m \in {"cooked", "raw"} : ShellSets(m)
  BY <1>3, <1>t DEF ShellSets
<1>4. CASE \E k \in Kinds : Type(k)
  BY <1>4, <1>t DEF Type
<1> QED BY <1>0, <1>1, <1>2, <1>3, <1>4 DEF Next, Program, Others


LEMMA BlocksStep == ASSUME IInv, Next PROVE Blocks'
<1> USE DEF Blocks, Masked, Open, Guards, TerminalIsOurs, Ours, Secure, Checked,
            Exposed, program, signals, guard, terminal, counts, edit, got, Goto, Leave,
            At
<1>t. Blocks /\ Guards /\ TerminalIsOurs
  BY DEF IInv, TypeOK, Flags, Words, Data
\* These do not touch it.
<1>0. CASE BackgroundStop \/ Interrupt \/ Stop \/ ShellTakes \/ Foreground \/
           Background \/ Close \/ Drain
  BY <1>0, <1>t DEF BackgroundStop, TouchesTerminal, Interrupt, Stop, ShellTakes,
                    Foreground, Continued, Background, Close, Drain
<1>1. CASE Enter
  BY <1>1, <1>t DEF Enter
<1>2. CASE SetUp
  BY <1>2, <1>t DEF SetUp
<1>3. CASE MakeRaw
  BY <1>3, <1>t DEF MakeRaw, SetMode
<1>4. CASE Hook
  BY <1>4, <1>t DEF Hook
<1>5. CASE SetupFailed
  BY <1>5, <1>t DEF SetupFailed, SetMode
<1>6. CASE Unblock
  BY <1>6, <1>t DEF Unblock
<1>7. CASE Protect
  BY <1>7, <1>t DEF Protect
<1>8. CASE CheckAndReapply("check", "wait")
  BY <1>8, <1>t DEF CheckAndReapply, ReapplyRaw, SetMode
<1>9. CASE Wait
  BY <1>9, <1>t DEF Wait
<1>10. CASE Woken
  BY <1>10, <1>t DEF Woken, Readable
<1>11. CASE CheckAndReapply("recheck", AfterWait)
  BY <1>11, <1>t DEF CheckAndReapply, ReapplyRaw, SetMode, AfterWait
<1>12. CASE SetNonblock
  BY <1>12, <1>t DEF SetNonblock
<1>13. CASE Read
  BY <1>13, <1>t DEF Read
<1>14. CASE ClearNonblock
  BY <1>14, <1>t DEF ClearNonblock
<1>15. CASE Unmask
  BY <1>15, <1>t DEF Unmask
<1>16. CASE Accept
  BY <1>16, <1>t DEF Accept, Edit, LineEnds
<1>17. CASE Line
  BY <1>17, <1>t DEF Line
<1>18. CASE LeaveBlock
  BY <1>18, <1>t DEF LeaveBlock
<1>19. CASE Unhook
  BY <1>19, <1>t DEF Unhook
<1>20. CASE Restore
  BY <1>20, <1>t DEF Restore, SetMode
<1>21. CASE \E s \in Signals : Deliver(s)
  BY <1>21, <1>t DEF Deliver, Signals
<1>22. CASE \E m \in {"cooked", "raw"} : ShellSets(m)
  BY <1>22, <1>t DEF ShellSets
<1>23. CASE \E k \in Kinds : Type(k)
  BY <1>23, <1>t DEF Type
<1> QED BY <1>0, <1>1, <1>2, <1>3, <1>4, <1>5, <1>6, <1>7, <1>8, <1>9, <1>10, <1>11,
           <1>12, <1>13, <1>14, <1>15, <1>16, <1>17, <1>18, <1>19, <1>20, <1>21, <1>22,
           <1>23 DEF Next, Program, Others


LEMMA GuardsStep == ASSUME IInv, Next PROVE Guards'
<1> USE DEF Guards, Secure, Checked, Exposed, program, signals, guard, terminal,
            counts, edit, got, Goto, Leave, At
<1>t. Guards
  BY DEF IInv, TypeOK, Flags, Words, Data
\* These do not touch it.
<1>0. CASE BackgroundStop \/ Interrupt \/ Stop \/ ShellTakes \/ Foreground \/
           Background \/ Close \/ Drain
  BY <1>0, <1>t DEF BackgroundStop, TouchesTerminal, Interrupt, Stop, ShellTakes,
                    Foreground, Continued, Background, Close, Drain
<1>1. CASE Enter
  BY <1>1, <1>t DEF Enter
<1>2. CASE SetUp
  BY <1>2, <1>t DEF SetUp
<1>3. CASE MakeRaw
  BY <1>3, <1>t DEF MakeRaw, SetMode
<1>4. CASE Hook
  BY <1>4, <1>t DEF Hook
<1>5. CASE SetupFailed
  BY <1>5, <1>t DEF SetupFailed, SetMode
<1>6. CASE Unblock
  BY <1>6, <1>t DEF Unblock
<1>7. CASE Protect
  BY <1>7, <1>t DEF Protect
<1>8. CASE CheckAndReapply("check", "wait")
  BY <1>8, <1>t DEF CheckAndReapply, ReapplyRaw, SetMode
<1>9. CASE Wait
  BY <1>9, <1>t DEF Wait
<1>10. CASE Woken
  BY <1>10, <1>t DEF Woken, Readable
<1>11. CASE CheckAndReapply("recheck", AfterWait)
  BY <1>11, <1>t DEF CheckAndReapply, ReapplyRaw, SetMode, AfterWait
<1>12. CASE SetNonblock
  BY <1>12, <1>t DEF SetNonblock
<1>13. CASE Read
  BY <1>13, <1>t DEF Read
<1>14. CASE ClearNonblock
  BY <1>14, <1>t DEF ClearNonblock
<1>15. CASE Unmask
  BY <1>15, <1>t DEF Unmask
<1>16. CASE Accept
  BY <1>16, <1>t DEF Accept, Edit, LineEnds
<1>17. CASE Line
  BY <1>17, <1>t DEF Line
<1>18. CASE LeaveBlock
  BY <1>18, <1>t DEF LeaveBlock
<1>19. CASE Unhook
  BY <1>19, <1>t DEF Unhook
<1>20. CASE Restore
  BY <1>20, <1>t DEF Restore, SetMode
<1>21. CASE \E s \in Signals : Deliver(s)
  BY <1>21, <1>t DEF Deliver, Signals
<1>22. CASE \E m \in {"cooked", "raw"} : ShellSets(m)
  BY <1>22, <1>t DEF ShellSets
<1>23. CASE \E k \in Kinds : Type(k)
  BY <1>23, <1>t DEF Type
<1> QED BY <1>0, <1>1, <1>2, <1>3, <1>4, <1>5, <1>6, <1>7, <1>8, <1>9, <1>10, <1>11,
           <1>12, <1>13, <1>14, <1>15, <1>16, <1>17, <1>18, <1>19, <1>20, <1>21, <1>22,
           <1>23 DEF Next, Program, Others


LEMMA CancelledStep == ASSUME IInv, Next PROVE Cancelled'
<1> USE DEF Cancelled, Entering, Undisturbed, Blocks, Masked, Open, program, signals,
            guard, terminal, counts, edit, got, Goto, Leave, At
<1>t. Cancelled /\ Blocks
  BY DEF IInv, TypeOK, Flags, Words, Data
\* These do not touch it.
<1>0. CASE ShellTakes \/ Close \/ Drain
  BY <1>0, <1>t DEF ShellTakes, Close, Drain
<1>1. CASE Enter
  BY <1>1, <1>t DEF Enter
<1>2. CASE SetUp
  BY <1>2, <1>t DEF SetUp
<1>3. CASE MakeRaw
  BY <1>3, <1>t DEF MakeRaw, SetMode
<1>4. CASE Hook
  BY <1>4, <1>t DEF Hook
<1>5. CASE SetupFailed
  BY <1>5, <1>t DEF SetupFailed, SetMode
<1>6. CASE Unblock
  BY <1>6, <1>t DEF Unblock
<1>7. CASE Protect
  BY <1>7, <1>t DEF Protect
<1>8. CASE CheckAndReapply("check", "wait")
  BY <1>8, <1>t DEF CheckAndReapply, ReapplyRaw, SetMode
<1>9. CASE Wait
  BY <1>9, <1>t DEF Wait
<1>10. CASE Woken
  BY <1>10, <1>t DEF Woken, Readable
<1>11. CASE CheckAndReapply("recheck", AfterWait)
  BY <1>11, <1>t DEF CheckAndReapply, ReapplyRaw, SetMode, AfterWait
<1>12. CASE SetNonblock
  BY <1>12, <1>t DEF SetNonblock
<1>13. CASE Read
  BY <1>13, <1>t DEF Read
<1>14. CASE ClearNonblock
  BY <1>14, <1>t DEF ClearNonblock
<1>15. CASE Unmask
  BY <1>15, <1>t DEF Unmask
<1>16. CASE Accept
  BY <1>16, <1>t DEF Accept, Edit, LineEnds
<1>17. CASE Line
  BY <1>17, <1>t DEF Line
<1>18. CASE LeaveBlock
  BY <1>18, <1>t DEF LeaveBlock
<1>19. CASE Unhook
  BY <1>19, <1>t DEF Unhook
<1>20. CASE Restore
  BY <1>20, <1>t DEF Restore, SetMode
<1>21. CASE BackgroundStop
  BY <1>21, <1>t DEF BackgroundStop, TouchesTerminal
<1>22. CASE \E s \in Signals : Deliver(s)
  <2> SUFFICES ASSUME NEW s \in Signals, Deliver(s) PROVE Cancelled'
    BY <1>22
  <2>1. CASE s = "INT"
    BY <2>1, <1>t DEF Deliver
  <2>2. CASE s = "TSTP"
    BY <2>2, <1>t DEF Deliver
  <2>3. CASE s = "CONT"
    BY <2>3, <1>t DEF Deliver
  <2> QED BY <2>1, <2>2, <2>3 DEF Signals
<1>23. CASE Interrupt
  BY <1>23, <1>t DEF Interrupt
<1>24. CASE Stop
  BY <1>24, <1>t DEF Stop
<1>25. CASE Foreground
  BY <1>25, <1>t DEF Foreground, Continued
<1>26. CASE Background
  BY <1>26, <1>t DEF Background, Continued
<1>27. CASE \E m \in {"cooked", "raw"} : ShellSets(m)
  BY <1>27, <1>t DEF ShellSets
<1>28. CASE \E k \in Kinds : Type(k)
  BY SMTT(30), <1>28, <1>t DEF Type
<1> QED BY <1>0, <1>1, <1>2, <1>3, <1>4, <1>5, <1>6, <1>7, <1>8, <1>9, <1>10, <1>11,
           <1>12, <1>13, <1>14, <1>15, <1>16, <1>17, <1>18, <1>19, <1>20, <1>21, <1>22,
           <1>23, <1>24, <1>25, <1>26, <1>27, <1>28 DEF Next, Program, Others


LEMMA TerminalStep == ASSUME IInv, Next PROVE TerminalIsOurs'
<1> USE DEF TerminalIsOurs, Blocks, Guards, Masked, Open, Ours, Told, Noted, Unseen,
            Secure, Checked, Exposed, Undisturbed, program, signals, guard, terminal,
            counts, edit, got, Goto, Leave, At
<1>t. TerminalIsOurs /\ Blocks /\ Guards /\ queue \in Seq(Keystroke)
  BY DEF IInv, TypeOK, Flags, Words, Data
\* These do not touch it.
<1>0. CASE Close
  BY <1>0, <1>t DEF Close
<1>1. CASE Enter
  BY <1>1, <1>t DEF Enter
<1>2. CASE SetUp
  BY <1>2, <1>t DEF SetUp
<1>3. CASE MakeRaw
  BY <1>3, <1>t DEF MakeRaw, SetMode
<1>4. CASE Hook
  BY <1>4, <1>t DEF Hook
<1>5. CASE SetupFailed
  BY <1>5, <1>t DEF SetupFailed, SetMode
<1>6. CASE Unblock
  BY <1>6, <1>t DEF Unblock
<1>7. CASE Protect
  BY <1>7, <1>t DEF Protect
<1>8. CASE CheckAndReapply("check", "wait")
  BY <1>8, <1>t DEF CheckAndReapply, ReapplyRaw, SetMode
<1>9. CASE Wait
  BY <1>9, <1>t DEF Wait
<1>10. CASE Woken
  BY <1>10, <1>t DEF Woken, Readable
<1>11. CASE CheckAndReapply("recheck", AfterWait)
  BY <1>11, <1>t DEF CheckAndReapply, ReapplyRaw, SetMode, AfterWait
<1>12. CASE SetNonblock
  BY <1>12, <1>t DEF SetNonblock
<1>13. CASE Read
  BY <1>13, <1>t DEF Read
<1>14. CASE ClearNonblock
  BY <1>14, <1>t DEF ClearNonblock
<1>15. CASE Unmask
  BY <1>15, <1>t DEF Unmask
<1>16. CASE Accept
  BY <1>16, <1>t DEF Accept, Edit, LineEnds
<1>17. CASE Line
  BY <1>17, <1>t DEF Line
<1>18. CASE LeaveBlock
  BY <1>18, <1>t DEF LeaveBlock
<1>19. CASE Unhook
  BY <1>19, <1>t DEF Unhook
<1>20. CASE Restore
  BY <1>20, <1>t DEF Restore, SetMode
<1>21. CASE BackgroundStop
  BY <1>21, <1>t DEF BackgroundStop, TouchesTerminal
<1>22. CASE \E s \in Signals : Deliver(s)
  <2> SUFFICES ASSUME NEW s \in Signals, Deliver(s) PROVE TerminalIsOurs'
    BY <1>22
  <2>1. CASE s = "INT"
    BY <2>1, <1>t DEF Deliver
  <2>2. CASE s = "TSTP"
    BY <2>2, <1>t DEF Deliver
  <2>3. CASE s = "CONT"
    BY <2>3, <1>t DEF Deliver
  <2> QED BY <2>1, <2>2, <2>3 DEF Signals
<1>23. CASE Interrupt
  BY <1>23, <1>t DEF Interrupt
<1>24. CASE Stop
  BY <1>24, <1>t DEF Stop
<1>25. CASE ShellTakes
  BY <1>25, <1>t DEF ShellTakes
<1>26. CASE Foreground
  BY <1>26, <1>t DEF Foreground, Continued
<1>27. CASE Background
  BY <1>27, <1>t DEF Background, Continued
<1>28. CASE \E m \in {"cooked", "raw"} : ShellSets(m)
  BY <1>28, <1>t DEF ShellSets
<1>29. CASE \E k \in Kinds : Type(k)
  <2> SUFFICES ASSUME NEW k \in Kinds, Type(k) PROVE TerminalIsOurs'
    BY <1>29
  <2>0. Data
    BY DEF IInv, TypeOK, Data
  <2>1. /\ Len(queue) \in Nat /\ Len(queue') = Len(queue) + 1
        /\ \A i \in 1..Len(queue) : queue'[i] = queue[i]
        /\ queue'[Len(queue')].echoed = (tty /\ (mode = "cooked" \/ ~foreground))
    BY <2>0, <1>t, Typing
  <2>2. Unseen /\ ~(tty /\ (mode = "cooked" \/ ~foreground)) => Unseen'
    <3> SUFFICES ASSUME Unseen, ~(tty /\ (mode = "cooked" \/ ~foreground)),
                        NEW i \in 1..Len(queue')
                 PROVE  ~queue'[i].echoed
      OBVIOUS
    <3>1. i \in 1..Len(queue) \/ i = Len(queue')
      BY <2>1
    <3> QED BY <3>1, <2>1
  <2>3. UNCHANGED <<pc, tty, outcome, active, continued, running, pend, foreground, mode>>
    BY DEF Type
  <2> HIDE DEF Unseen
  <2> QED BY <1>t, <2>2, <2>3
<1>30. CASE Drain
  BY <1>30, <1>t DEF Drain
<1> QED BY <1>0, <1>1, <1>2, <1>3, <1>4, <1>5, <1>6, <1>7, <1>8, <1>9, <1>10, <1>11,
           <1>12, <1>13, <1>14, <1>15, <1>16, <1>17, <1>18, <1>19, <1>20, <1>21, <1>22,
           <1>23, <1>24, <1>25, <1>26, <1>27, <1>28, <1>29, <1>30 DEF Next, Program, Others


LEMMA ShownStep == ASSUME IInv, Next PROVE (~exposed)'
<1> USE DEF TerminalIsOurs, Ours, Unseen, Secure, program, signals, guard, terminal,
            counts, edit, got, Goto, Leave, At
<1>t. ~exposed /\ TerminalIsOurs /\ queue \in Seq(Keystroke)
  BY DEF IInv, TypeOK, Flags, Words, Data
\* These do not touch it.
<1>0. CASE Enter \/ SetUp \/ MakeRaw \/ Hook \/ SetupFailed \/ Unblock \/ Protect \/
           CheckAndReapply("check", "wait") \/ Wait \/ Woken \/
           CheckAndReapply("recheck", AfterWait) \/ SetNonblock \/ ClearNonblock \/
           Unmask \/ Accept \/ Line \/ LeaveBlock \/ Unhook \/ Restore \/
           BackgroundStop \/ Interrupt \/ Stop \/ ShellTakes \/ Foreground \/
           Background \/ Close \/ Drain
  BY <1>0, <1>t DEF Enter, SetUp, MakeRaw, Hook, SetupFailed, Unblock, Protect,
                    CheckAndReapply, ReapplyRaw, Wait, Woken, AfterWait, SetNonblock,
                    ClearNonblock, Unmask, Accept, Line, LeaveBlock, Unhook, Restore,
                    BackgroundStop, TouchesTerminal, Interrupt, Stop, ShellTakes,
                    Foreground, Continued, Background, Close, Drain
<1>1. CASE Read
  <2>1. CASE queue # <<>> /\ exposed' = (exposed \/ ch'.echoed) /\ ch' = Head(queue)
    <3>1. Head(queue) = queue[1] /\ 1 \in 1..Len(queue)
      BY <2>1, <1>t, QueueTail
    <3>2. Unseen
      BY <1>1, <1>t DEF Read
    <3>3. ~ch'.echoed
      BY <2>1, <3>1, <3>2
    <3> QED BY <2>1, <3>3, <1>t
  <2>2. CASE UNCHANGED exposed
    BY <2>2, <1>t
  <2> QED BY <1>1, <2>1, <2>2 DEF Read
<1>2. CASE \E s \in Signals : Deliver(s)
  BY <1>2, <1>t DEF Deliver, Signals
<1>3. CASE \E m \in {"cooked", "raw"} : ShellSets(m)
  BY <1>3, <1>t DEF ShellSets
<1>4. CASE \E k \in Kinds : Type(k)
  BY <1>4, <1>t DEF Type
<1> QED BY <1>0, <1>1, <1>2, <1>3, <1>4 DEF Next, Program, Others

-----------------------------------------------------------------------------

LEMMA InitInv == Init => IInv
<1> SUFFICES ASSUME Init PROVE IInv
  OBVIOUS
<1> USE DEF Init
<1>1. <<>> \in Seq(1..MaxTyped) /\ <<>> \in Seq(Keystroke) /\ Len(<<>>) = 0
  OBVIOUS
<1>2. Flags /\ Words /\ Data
  <2>1. Flags
    BY DEF Flags
  <2>2. 0 \in 0..MaxStops
    BY KeyEntryAssumption
  <2>3. Words
    BY <2>2 DEF Words, Labels
  <2>4. Data
    BY <1>1, KeyEntryAssumption DEF Data
  <2> QED BY <2>1, <2>3, <2>4
<1>3. TypeOK
  BY <1>2 DEF Flags, Words, Data, TypeOK
<1>4. Blocks /\ Guards /\ Cancelled
  BY DEF Blocks, Masked, Open, Guards, Secure, Checked, Exposed, Cancelled
<1>5. Counted /\ Edited
  BY <1>1 DEF Counted, Taken, Edited
<1>6. TerminalIsOurs
  BY <1>1 DEF TerminalIsOurs, Unseen, Secure, Checked, Exposed
<1> QED BY <1>3, <1>4, <1>5, <1>6 DEF IInv

LEMMA Inductive == Spec => []IInv
<1>1. IInv /\ [Next]_vars => IInv'
  <2> SUFFICES ASSUME IInv, [Next]_vars PROVE IInv'
    OBVIOUS
  <2>1. CASE Next
    <3>1. TypeOK'
      <4>1. Flags' /\ Words' /\ Data'
        BY <2>1, FlagsStep, WordsStep, DataStep
      <4> QED BY <4>1 DEF Flags, Words, Data, TypeOK
    <3> QED BY <2>1, <3>1, BlocksStep, GuardsStep, CountedStep, TerminalStep, CancelledStep,
               EditedStep, ShownStep DEF IInv
  <2>2. CASE UNCHANGED vars
    BY <2>2 DEF IInv, vars, program, signals, guard, terminal, counts, edit, got, TypeOK, Blocks,
                Guards, Counted, Taken, TerminalIsOurs, Ours, Told, Noted, Unseen, Cancelled,
                Entering, Edited
  <2> QED BY <2>1, <2>2
<1> QED BY InitInv, <1>1, PTL DEF Spec

\* The types; the buffer never outgrows its fixed size.
THEOREM TypeCorrect == Spec => []TypeOK
BY Inductive, PTL DEF IInv

\* No keystroke that was echoed reaches get_recovery_key, whatever the user and the
\* shell do while the job is stopped and brought back.
THEOREM EchoedIsNeverRead == Spec => []NothingEchoedIsRead
<1>1. IInv => NothingEchoedIsRead
  BY DEF IInv, NothingEchoedIsRead
<1> QED BY Inductive, <1>1, PTL

\* A signal sent before the line is accepted leaves no KEY.
THEOREM CancellationWins == Spec => []CancelWins
<1>1. IInv => CancelWins
  BY DEF IInv, Cancelled, CancelWins
<1> QED BY Inductive, <1>1, PTL

\* Terminal, signal mask, file flags and handler are as they were found when the
\* entry is over, and a stopped job leaves the shell a blocking standard input.
THEOREM AllLeftAsFound == Spec => []LeavesAllAsFound
<1>1. IInv => LeavesAllAsFound
  BY DEF IInv, Blocks, Open, Guards, TerminalIsOurs, Ours, Secure, LeavesAllAsFound
<1> QED BY Inductive, <1>1, PTL

\* The codec sees the line as it was edited, or a line that is too long is refused.
THEOREM EditedLine == Spec => []LineIsAsEdited
<1>1. IInv => LineIsAsEdited
  <2> SUFFICES ASSUME IInv, pc = "line"
               PROVE  IF Len(line) <= MaxKeys THEN buffer = line /\ dropped = 0 ELSE dropped > 0
    BY DEF LineIsAsEdited
  <2>1. /\ buffer \in Seq(1..MaxTyped) /\ line \in Seq(1..MaxTyped) /\ dropped \in Nat
        /\ Len(buffer) <= MaxKeys /\ MaxKeys \in Nat /\ Len(buffer) \in Nat
    BY KeyEntryAssumption DEF IInv, TypeOK
  <2>2. /\ Len(line) = Len(buffer) + dropped /\ (dropped > 0 => Len(buffer) = MaxKeys)
        /\ \A i \in 1..Len(buffer) : buffer[i] = line[i]
    BY DEF IInv, Edited
  <2>3. CASE dropped = 0
    <3>1. buffer = line
      BY <2>1, <2>2, <2>3, SameElements
    <3> QED BY <2>1, <2>2, <2>3, <3>1
  <2>4. CASE dropped > 0
    BY <2>1, <2>2, <2>4
  <2> QED BY <2>1, <2>3, <2>4
<1> QED BY Inductive, <1>1, PTL
===============================================================================
