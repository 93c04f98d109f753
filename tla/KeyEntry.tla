------------------------------- MODULE KeyEntry -------------------------------
(***************************************************************************)
(* How recover asks for the KEY (get_recovery_key): signals are blocked    *)
(* except while it waits, the terminal does not echo meanwhile (the        *)
(* TermiosGuard), and the line is edited in a buffer of fixed size.  Around*)
(* it: a user who types, stops and interrupts, the kernel that delivers    *)
(* signals, and a shell that takes the terminal while the job is stopped   *)
(* and gives it back, in whatever mode.  Standard input may be a pipe.     *)
(*                                                                         *)
(* A keystroke is what it does, whether it was echoed, and its number.     *)
(***************************************************************************)
EXTENDS Naturals, SequencesExt

CONSTANTS
  MaxKeys,   \* MAX_KEY_KEYSTROKES
  MaxTyped,  \* bound on the keystrokes,
  MaxAhead,  \* ... on those that wait to be read,
  MaxStops   \* ... and on the uses of Ctrl-Z

ASSUME KeyEntryAssumption ==
  MaxKeys \in Nat \ {0} /\ MaxTyped \in Nat /\ MaxAhead \in Nat /\ MaxStops \in Nat

Kinds == {"letter", "blank", "erase", "enter"}
Keystroke == [kind : Kinds, echoed : BOOLEAN, number : 1..MaxTyped]
NoKey == [kind |-> "none", echoed |-> FALSE, number |-> 0]
\* INT stands for HUP, INT, QUIT and TERM.
Signals == {"INT", "TSTP", "CONT"}

VARIABLES
  tty,         \* standard input is a terminal
  pc,          \* where get_recovery_key is
  outcome,     \* what pselect or read returned
  buffer, dropped,  \* input[..input_len], dropped_keys
  ch,          \* the keystroke read
  line, exposed,    \* history: the line without a limit, a keystroke read was shown
  result,      \* what get_recovery_key returns
  running,     \* the process is not stopped
  masked,      \* a KeyEntrySignalBlock is in force
  pend,        \* signals sent and not delivered
  recorded,    \* PENDING_SIGNAL
  continued,   \* TERMINAL_CONTINUED
  hooked,      \* the handler of SIGCONT is installed
  active,      \* TermiosGuard: old has to be restored
  mode,        \* the terminal: "cooked" (as found, with echo) or "raw"
  foreground,  \* the job has the terminal; otherwise the shell has
  queue,       \* keystrokes not read yet
  closed,      \* end of input
  nonblock,    \* O_NONBLOCK is set on standard input
  typed, stops,  \* how many keystrokes, and uses of Ctrl-Z, there were
  early          \* history: a termination signal was sent before the line was accepted

edit == <<buffer, dropped, line>>
got == <<ch, exposed>>
program == <<tty, outcome, edit, got, result>>
signals == <<running, pend, recorded>>
guard == <<continued, hooked, active>>
terminal == <<mode, foreground, queue, closed>>
counts == <<typed, stops, early>>
vars == <<pc, program, masked, signals, guard, terminal, nonblock, counts>>

Labels == {"enter", "setup", "terminal", "hook", "unblock", "protect", "check", "wait",
           "waiting", "recheck", "nonblock", "read", "unflag", "unmask",
           "accept", "line", "setupFailed", "leave", "unhook", "restore", "returned"}

TypeOK ==
  /\ tty \in BOOLEAN /\ pc \in Labels
  /\ outcome \in {"none", "ready", "timeout", "eintr", "stop", "byte", "eof", "again", "error"}
  /\ buffer \in Seq(1..MaxTyped) /\ Len(buffer) <= MaxKeys /\ dropped \in 0..MaxTyped
  /\ line \in Seq(1..MaxTyped) /\ exposed \in BOOLEAN
  /\ ch \in Keystroke \cup {NoKey} /\ queue \in Seq(Keystroke) /\ Len(queue) <= MaxAhead
  /\ result \in {"none", "key", "malformed", "cancelled", "failed"}
  /\ running \in BOOLEAN /\ masked \in BOOLEAN /\ pend \subseteq Signals /\ recorded \in BOOLEAN
  /\ continued \in BOOLEAN /\ hooked \in BOOLEAN /\ active \in BOOLEAN
  /\ mode \in {"cooked", "raw"} /\ foreground \in BOOLEAN
  /\ closed \in BOOLEAN /\ nonblock \in BOOLEAN
  /\ typed \in 0..MaxTyped /\ stops \in 0..MaxStops /\ early \in BOOLEAN

Init ==
  /\ tty \in BOOLEAN /\ pc = "enter" /\ outcome = "none"
  /\ buffer = <<>> /\ dropped = 0 /\ line = <<>> /\ exposed = FALSE /\ ch = NoKey /\ result = "none"
  /\ running = TRUE /\ masked = FALSE /\ pend = {} /\ recorded = FALSE
  /\ continued = FALSE /\ hooked = FALSE /\ active = FALSE
  /\ mode = "cooked" /\ foreground = TRUE /\ queue = <<>> /\ closed = FALSE /\ nonblock = FALSE
  /\ typed = 0 /\ stops = 0 /\ early = FALSE

Goto(l) == pc' = l
\* An error: the guards are dropped on the way out.
Leave(r) == Goto("leave") /\ result' = r

\* The program makes a step of its own: it is not stopped, and a signal that is
\* not blocked is delivered first.
Undisturbed == masked \/ pend = {}
At(l) == pc = l /\ running /\ Undisturbed

-----------------------------------------------------------------------------
(* Before the first keystroke.                                             *)

\* check_cancellation, the prompt, isatty.
Enter ==
  /\ At("enter")
  /\ IF recorded THEN Leave("cancelled") ELSE Goto("setup") /\ UNCHANGED result
  /\ UNCHANGED <<tty, outcome, edit, got, masked, signals, guard, terminal, nonblock, counts>>

\* The first KeyEntrySignalBlock.
SetUp ==
  /\ At("setup")
  /\ \/ masked' = TRUE /\ Goto(IF tty THEN "terminal" ELSE "unblock") /\ UNCHANGED result
     \/ Leave("failed") /\ UNCHANGED masked
  /\ UNCHANGED <<tty, outcome, edit, got, signals, guard, terminal, nonblock, counts>>

\* tcsetattr(TCSAFLUSH) of the job that has the terminal.
SetMode(m) == foreground /\ mode' = m /\ queue' = <<>>

\* TermiosGuard::new up to the raw mode.
MakeRaw ==
  /\ At("terminal")
  /\ \/ SetMode("raw") /\ active' = TRUE /\ Goto("hook") /\ UNCHANGED result
     \/ Goto("setupFailed") /\ result' = "failed" /\ UNCHANGED <<mode, queue, active>>
  /\ UNCHANGED <<tty, outcome, edit, got, masked, signals, continued, hooked, foreground,
                 closed, nonblock, counts>>

\* ... and the handler of SIGCONT.
Hook ==
  /\ At("hook")
  /\ continued' = FALSE
  /\ \/ hooked' = TRUE /\ Goto("unblock") /\ UNCHANGED result
     \/ Goto("setupFailed") /\ result' = "failed" /\ UNCHANGED hooked
  /\ UNCHANGED <<tty, outcome, edit, got, masked, signals, active, terminal, nonblock, counts>>

\* The guard is dropped within new, with the signals still blocked.
SetupFailed ==
  /\ At("setupFailed")
  /\ IF active THEN SetMode("cooked") ELSE UNCHANGED <<mode, queue>>
  /\ active' = FALSE
  /\ Goto("leave")
  /\ UNCHANGED <<program, masked, signals, continued, hooked, foreground, closed, nonblock, counts>>

Unblock ==
  /\ At("unblock")
  /\ masked' = FALSE /\ Goto("protect")
  /\ UNCHANGED <<program, signals, guard, terminal, nonblock, counts>>

-----------------------------------------------------------------------------
(* read_single_byte                                                        *)

Protect ==
  /\ At("protect")
  /\ \/ masked' = TRUE /\ Goto("check") /\ UNCHANGED result
     \/ Leave("failed") /\ UNCHANGED masked
  /\ UNCHANGED <<tty, outcome, edit, got, signals, guard, terminal, nonblock, counts>>

\* What pselect returned decides how it goes on after the second check.
AfterWait ==
  CASE outcome = "ready" -> "nonblock"
    [] outcome = "error" -> "leave"
    [] OTHER -> "check"

ReapplyNow == foreground /\ mode' = "raw" /\ UNCHANGED queue  \* mutant: TCSANOW
\* tcsetattr of reapply_after_continue
ReapplyRaw == SetMode("raw")

\* check_cancellation and reapply_after_continue, before and after the wait.  The
\* signals are blocked, so that nothing comes between the two.
CheckAndReapply(from, to) ==
  /\ At(from)
  /\ IF recorded
     THEN Leave("cancelled") /\ UNCHANGED <<continued, mode, queue>>
     ELSE IF active /\ continued
     THEN /\ continued' = FALSE
          /\ \/ ReapplyRaw /\ Goto(to) /\ result' = IF to = "leave" THEN "failed" ELSE result
             \/ Leave("failed") /\ UNCHANGED <<mode, queue>>
     ELSE /\ Goto(to) /\ result' = IF to = "leave" THEN "failed" ELSE result
          /\ UNCHANGED <<continued, mode, queue>>
  /\ outcome' = "none"
  /\ UNCHANGED <<tty, edit, got, masked, signals, hooked, active, foreground, closed, nonblock, counts>>

WaitMasked ==  \* mutant: select
  /\ At("wait") /\ Goto("waiting")
  /\ UNCHANGED <<program, masked, signals, guard, terminal, nonblock, counts>>
\* pselect: the signals are let in for the time of the call, ...
Wait ==
  /\ At("wait")
  /\ masked' = FALSE /\ Goto("waiting")
  /\ UNCHANGED <<program, signals, guard, terminal, nonblock, counts>>

Readable == queue # <<>> \/ closed

\* ... which prefers input to signals, and those that came stay pending then.  A
\* wait that was broken off by a stop and not by a handler begins again.
Woken ==
  /\ pc = "waiting" /\ running
  /\ \/ outcome = "none" /\ Readable /\ outcome' = "ready" /\ Goto("recheck")
     \/ outcome = "none" /\ ~Readable /\ Undisturbed /\ outcome' = "timeout" /\ Goto("recheck")
     \/ outcome = "none" /\ outcome' = "error" /\ Goto("recheck")
     \/ outcome = "eintr" /\ Undisturbed /\ Goto("recheck") /\ UNCHANGED outcome
     \/ outcome = "stop" /\ Undisturbed /\ outcome' = "none" /\ Goto("wait")
  /\ masked' = TRUE
  /\ UNCHANGED <<tty, edit, got, result, signals, guard, terminal, nonblock, counts>>

\* NonblockingStdinGuard::new
SetNonblock ==
  /\ At("nonblock")
  /\ \/ nonblock' = TRUE /\ Goto("read") /\ UNCHANGED result
     \/ Leave("failed") /\ UNCHANGED nonblock
  /\ UNCHANGED <<tty, outcome, edit, got, masked, signals, guard, terminal, counts>>

Read ==
  /\ At("read") /\ (tty => foreground)
  /\ \/ /\ queue # <<>>
        /\ ch' = Head(queue) /\ queue' = Tail(queue)
        /\ exposed' = (exposed \/ ch'.echoed)
        /\ outcome' = "byte"
     \/ queue = <<>> /\ outcome' = (IF closed THEN "eof" ELSE "again") /\ UNCHANGED <<got, queue>>
     \/ outcome' = "error" /\ UNCHANGED <<got, queue>>
  /\ Goto("unflag")
  /\ UNCHANGED <<tty, edit, result, masked, signals, guard, mode, foreground, closed, nonblock, counts>>

\* Its drop: before the next wait, and before the signals are let in.
ClearNonblock ==
  /\ At("unflag")
  /\ nonblock' = FALSE
  /\ CASE outcome = "again" -> Goto("check") /\ UNCHANGED result
       [] outcome = "error" -> Leave("failed")
       [] OTHER -> Goto("unmask") /\ UNCHANGED result
  /\ UNCHANGED <<tty, outcome, edit, got, masked, signals, guard, terminal, counts>>

\* Drop of the KeyEntrySignalBlock: what was sent meanwhile is delivered now.
Unmask ==
  /\ At("unmask")
  /\ masked' = FALSE /\ Goto("accept")
  /\ UNCHANGED <<program, signals, guard, terminal, nonblock, counts>>

-----------------------------------------------------------------------------
(* The line.                                                               *)

Fits == Len(buffer) < MaxKeys

EditUncounted(key) ==  \* mutant: keystrokes over the limit are not counted
  CASE key.kind = "letter" /\ Fits -> buffer' = Append(buffer, key.number) /\ UNCHANGED dropped
    [] key.kind = "erase" /\ buffer # <<>> -> buffer' = Front(buffer) /\ UNCHANGED dropped
    [] OTHER -> UNCHANGED <<buffer, dropped>>

\* One keystroke that does not end the line.
Edit(key) ==
  CASE key.kind = "letter" /\ Fits -> buffer' = Append(buffer, key.number) /\ UNCHANGED dropped
    [] key.kind = "letter" /\ ~Fits -> dropped' = dropped + 1 /\ UNCHANGED buffer
    [] key.kind = "erase" /\ dropped > 0 -> dropped' = dropped - 1 /\ UNCHANGED buffer
    [] key.kind = "erase" /\ dropped = 0 /\ buffer # <<>> -> buffer' = Front(buffer) /\ UNCHANGED dropped
    [] OTHER -> UNCHANGED <<buffer, dropped>>

\* The line an editor without a limit would have.
Unlimited(key) ==
  CASE key.kind = "letter" -> Append(line, key.number)
    [] key.kind = "erase" /\ line # <<>> -> Front(line)
    [] OTHER -> line

LineEnds == outcome = "eof" \/ ch.kind = "enter"

AcceptUnchecked ==  \* mutant: no cancellation check after the byte
  /\ At("accept")
  /\ IF LineEnds
     THEN Goto("line") /\ UNCHANGED edit
     ELSE Edit(ch) /\ line' = Unlimited(ch) /\ Goto("protect")
  /\ outcome' = "none" /\ ch' = NoKey
  /\ UNCHANGED <<tty, exposed, result, masked, signals, guard, terminal, nonblock, counts>>

\* The loop of get_recovery_key, after read_single_byte.
Accept ==
  /\ At("accept")
  /\ CASE recorded -> Leave("cancelled") /\ UNCHANGED edit
       [] ~recorded /\ LineEnds -> Goto("line") /\ UNCHANGED <<edit, result>>
       [] OTHER -> Edit(ch) /\ line' = Unlimited(ch) /\ Goto("protect") /\ UNCHANGED result
  /\ outcome' = "none" /\ ch' = NoKey
  /\ UNCHANGED <<tty, exposed, masked, signals, guard, terminal, nonblock, counts>>

\* A line that is too long is refused; key_codec decides on the others.
Line ==
  /\ At("line")
  /\ Leave("malformed") \/ (dropped = 0 /\ Leave("key"))
  /\ UNCHANGED <<tty, outcome, edit, got, masked, signals, guard, terminal, nonblock, counts>>

-----------------------------------------------------------------------------
(* The guards on the way out.                                              *)

LeaveMasked ==  \* mutant: the mask outlives the call
  /\ At("leave") /\ Goto("unhook")
  /\ UNCHANGED <<program, masked, signals, guard, terminal, nonblock, counts>>
LeaveBlock ==
  /\ At("leave")
  /\ masked' = FALSE /\ Goto("unhook")
  /\ UNCHANGED <<program, signals, guard, terminal, nonblock, counts>>

\* TermiosGuard::drop
Unhook ==
  /\ At("unhook")
  /\ hooked' = FALSE /\ Goto("restore")
  /\ UNCHANGED <<program, masked, signals, continued, active, terminal, nonblock, counts>>

Restore ==
  /\ At("restore")
  /\ IF active THEN SetMode("cooked") ELSE UNCHANGED <<mode, queue>>
  /\ active' = FALSE
  /\ Goto("returned")
  /\ UNCHANGED <<program, masked, signals, continued, hooked, foreground, closed, nonblock, counts>>

Program ==
  \/ Enter \/ SetUp \/ MakeRaw \/ Hook \/ SetupFailed \/ Unblock
  \/ Protect \/ CheckAndReapply("check", "wait") \/ Wait \/ Woken
  \/ CheckAndReapply("recheck", AfterWait)
  \/ SetNonblock \/ Read \/ ClearNonblock \/ Unmask \/ Accept \/ Line
  \/ LeaveBlock \/ Unhook \/ Restore

-----------------------------------------------------------------------------
(* The kernel, the user and the shell.                                     *)

\* A signal that is not blocked.  A handler ends the wait.
Deliver(s) ==
  /\ s \in pend /\ running /\ ~masked /\ pc # "returned"
  /\ pend' = pend \ {s}
  /\ running' = (s # "TSTP")
  /\ recorded' = (recorded \/ s = "INT")
  /\ continued' = (continued \/ (s = "CONT" /\ hooked))
  /\ outcome' = CASE pc = "waiting" /\ (s = "INT" \/ (s = "CONT" /\ hooked)) -> "eintr"
                  [] pc = "waiting" /\ s = "TSTP" /\ outcome = "none" -> "stop"
                  [] OTHER -> outcome
  /\ UNCHANGED <<pc, tty, edit, got, result, masked, hooked, active, terminal, nonblock, counts>>

\* SIGTTOU or SIGTTIN: a job in the background may neither set the terminal nor
\* read from it.  The call is made again when the job goes on.
TouchesTerminal ==
  \/ pc = "terminal"
  \/ pc \in {"check", "recheck"} /\ ~recorded /\ active /\ continued
  \/ pc \in {"setupFailed", "restore"} /\ active
  \/ pc = "read" /\ tty
BackgroundStop ==
  /\ TouchesTerminal /\ ~foreground /\ running /\ Undisturbed
  /\ running' = FALSE /\ pend' = pend \ {"CONT"}
  /\ UNCHANGED <<pc, program, masked, recorded, guard, terminal, nonblock, counts>>

\* The line has not been accepted, nor the entry given up.
Entering == pc \notin {"line", "leave", "unhook", "restore", "returned"}
Interrupt ==
  /\ "INT" \notin pend /\ ~recorded /\ pc # "returned"
  /\ pend' = pend \cup {"INT"}
  /\ early' = Entering
  /\ UNCHANGED <<pc, program, masked, running, recorded, guard, terminal, nonblock, typed, stops>>

\* Ctrl-Z; a stop signal and SIGCONT cancel each other.
Stop ==
  /\ running /\ foreground /\ "TSTP" \notin pend /\ stops < MaxStops /\ pc # "returned"
  /\ stops' = stops + 1
  /\ pend' = (pend \ {"CONT"}) \cup {"TSTP"}
  /\ UNCHANGED <<pc, program, masked, running, recorded, guard, terminal, nonblock, typed, early>>

Continued == running' = TRUE /\ pend' = (pend \ {"TSTP"}) \cup {"CONT"}

\* The shell has the terminal while the job is stopped, and until "fg".  It may
\* give it back in the mode it had saved, or not.
ShellTakes ==
  /\ tty /\ ~running /\ foreground
  /\ foreground' = FALSE
  /\ UNCHANGED <<pc, program, masked, signals, guard, mode, queue, closed, nonblock, counts>>
ShellSets(m) ==
  /\ ~foreground /\ pc # "returned"
  /\ m = "raw" => active
  /\ mode' = m
  /\ UNCHANGED <<pc, program, masked, signals, guard, foreground, queue, closed, nonblock, counts>>
Foreground ==
  /\ ~running \/ ~foreground
  /\ foreground' = TRUE /\ Continued
  /\ UNCHANGED <<pc, program, masked, recorded, guard, mode, queue, closed, nonblock, counts>>
Background ==
  /\ ~running /\ Continued
  /\ UNCHANGED <<pc, program, masked, recorded, guard, terminal, nonblock, counts>>

\* What is typed is seen when the terminal or the shell echoes it.  Keystrokes after
\* the end of the entry are not of interest.
Type(kind) ==
  /\ typed < MaxTyped /\ Len(queue) < MaxAhead /\ ~closed /\ Entering
  /\ typed' = typed + 1
  /\ queue' = Append(queue, [kind |-> kind, number |-> typed + 1,
                             echoed |-> tty /\ (mode = "cooked" \/ ~foreground)])
  /\ UNCHANGED <<pc, program, masked, signals, guard, mode, foreground, closed, nonblock, stops, early>>

\* End of the pipe, or the terminal hangs up.
Close ==
  /\ ~closed /\ Entering /\ closed' = TRUE
  /\ UNCHANGED <<pc, program, masked, signals, guard, mode, foreground, queue, nonblock, counts>>

\* Another reader of the pipe was faster.
Drain ==
  /\ ~tty /\ queue # <<>> /\ Entering /\ queue' = Tail(queue)
  /\ UNCHANGED <<pc, program, masked, signals, guard, mode, foreground, closed, nonblock, counts>>

Others ==
  \/ BackgroundStop \/ (\E s \in Signals : Deliver(s))
  \/ Interrupt \/ Stop \/ ShellTakes \/ Foreground \/ Background
  \/ (\E m \in {"cooked", "raw"} : ShellSets(m)) \/ (\E k \in Kinds : Type(k)) \/ Close \/ Drain

Next == Program \/ Others

Spec == Init /\ [][Next]_vars

\* The program runs, the kernel delivers, and a stopped job is brought back.
FairSpec ==
  Spec /\ WF_vars(Program) /\ WF_vars(\E s \in Signals : Deliver(s)) /\ WF_vars(Foreground)

-----------------------------------------------------------------------------
(* What must hold.                                                         *)

\* No keystroke that was shown while it was typed is ever read: not one typed
\* ahead of the prompt, nor one typed to the shell or before a job that goes on
\* has the terminal in raw mode again.
NothingEchoedIsRead == ~exposed

\* A signal sent before the line is accepted leaves no KEY, also one that is sent
\* after pselect saw the last byte and before it is read.
CancelWins == early => result # "key"

\* However the entry ends, terminal, signal mask, file flags and the handler of
\* SIGCONT are as they were found; and a stopped job never leaves the shell a
\* standard input that does not block.
LeavesAllAsFound ==
  /\ pc = "returned" => mode = "cooked" /\ ~masked /\ ~nonblock /\ ~hooked
  /\ ~running => ~nonblock

\* What is handed to the codec is the line as it was edited when it fits, and a line
\* that fits is not refused because it was too long in between.
LineIsAsEdited ==
  pc = "line" => IF Len(line) <= MaxKeys THEN buffer = line /\ dropped = 0 ELSE dropped > 0

\* A signal ends the entry, typed or not, unless the process is never brought back.
CancelEnds == "INT" \in pend ~> pc = "returned"
=============================================================================
