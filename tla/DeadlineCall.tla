----------------------------- MODULE DeadlineCall -----------------------------
(***************************************************************************)
(* bsky/create_bsky_post.py: one network operation under a wall-clock      *)
(* deadline.  _run_before_download_deadline runs each blocking call (the   *)
(* request, then the reading of the body) in a thread of its own and       *)
(* abandons it at the deadline; _open_api_response and                     *)
(* _open_pinned_response decide who closes the Session and the Response.   *)
(*                                                                         *)
(* A session is used for one request.  An API call has one; a download     *)
(* takes one per address it tries and per redirect it follows.             *)
(***************************************************************************)
EXTENDS Naturals

CONSTANT MaxSessions  \* addresses tried plus redirects followed, at most

ASSUME DeadlineCallAssumption == MaxSessions \in Nat \ {0}

Sessions == 1..MaxSessions
Phases == {"headers", "body"}

VARIABLES
  kind,       \* "api" or "download"
  late,       \* the deadline has passed
  at,         \* where the caller is
  current,    \* its session
  phase,      \* what it has a thread doing
  thread,     \* session -> phase -> the thread
  outcome,    \* session -> phase -> what the queue of size one holds
  abandoned,  \* session -> phase -> the flag under state_lock
  response,   \* session -> its Response
  closes      \* session -> how often it was closed

callVars == <<kind, late, at, current, phase, thread, outcome, abandoned, response, closes>>
resources == <<response, closes>>
calls == <<thread, outcome, abandoned>>

CallTypeOK ==
  /\ kind \in {"api", "download"} /\ late \in BOOLEAN
  /\ at \in {"open", "start", "wait", "dropLate", "with", "close", "closeFailed", "ended"}
  /\ current \in Sessions /\ phase \in Phases
  /\ thread \in [Sessions -> [Phases -> {"none", "working", "worked", "failed", "disposing", "ended"}]]
  /\ outcome \in [Sessions -> [Phases -> {"empty", "value", "error"}]]
  /\ abandoned \in [Sessions -> [Phases -> BOOLEAN]]
  /\ response \in [Sessions -> {"none", "open", "closed"}]
  /\ closes \in [Sessions -> Nat]

All(x) == [s \in Sessions |-> [f \in Phases |-> x]]

CallInit ==
  /\ kind \in {"api", "download"} /\ late = FALSE
  /\ at = "open" /\ current = 1 /\ phase = "headers"
  /\ thread = All("none") /\ outcome = All("empty") /\ abandoned = All(FALSE)
  /\ response = [s \in Sessions |-> "none"]
  /\ closes = [s \in Sessions |-> 0]

-----------------------------------------------------------------------------
(* Closing.                                                                *)

ClosedResponse(s) ==
  [response EXCEPT ![s] = IF @ = "open" THEN "closed" ELSE @]

\* _close_quietly(response, session).
Close(s) ==
  /\ response' = ClosedResponse(s)
  /\ closes' = [closes EXCEPT ![s] = @ + 1]

\* dispose_abandoned, of the request and of the reading of the body alike.
Dispose(s) == Close(s)

-----------------------------------------------------------------------------
(* The caller.                                                             *)

Goto(l) == at' = l

\* _new_session.  A download looks at the clock first: out of time, it raises
\* and leaves the session it has just made as it is.
OpenSession ==
  /\ at = "open"
  /\ Goto(IF kind = "download" /\ late THEN "ended" ELSE "start")
  /\ phase' = "headers"
  /\ UNCHANGED <<kind, late, current, calls, resources>>

\* Start the thread, unless the time is already up: then dispose here.
StartCall ==
  /\ at = "start"
  /\ IF late THEN Goto("ended") /\ Dispose(current) /\ UNCHANGED thread
     ELSE /\ Goto("wait")
          /\ thread' = [thread EXCEPT ![current][phase] = "working"]
          /\ UNCHANGED resources
  /\ UNCHANGED <<kind, late, current, phase, outcome, abandoned>>

\* outcome.get returns: headers lead to the with block, a body to its end, an
\* error to the close that goes with it.
TakeOutcome ==
  /\ at = "wait" /\ outcome[current][phase] # "empty"
  /\ outcome' = [outcome EXCEPT ![current][phase] = "empty"]
  /\ Goto(CASE phase = "body" -> "close"
            [] phase = "headers" /\ outcome[current][phase] = "value" -> "with"
            [] OTHER -> "closeFailed")
  /\ UNCHANGED <<kind, late, current, phase, thread, abandoned, resources>>

GiveUpWaiting ==  \* mutant: waits for the thread it gave up on
  /\ at = "wait" /\ late
  /\ thread[current][phase] = "ended"
  /\ abandoned' = [abandoned EXCEPT ![current][phase] = TRUE]
  /\ outcome' = [outcome EXCEPT ![current][phase] = "empty"]
  /\ Goto(IF outcome[current][phase] = "empty" THEN "ended" ELSE "dropLate")
  /\ UNCHANGED <<kind, late, current, phase, thread, resources>>

\* abandon_pending_outcome, in one critical section: set the flag and take an
\* outcome that came too late.
GiveUp ==
  /\ at = "wait" /\ late
  /\ abandoned' = [abandoned EXCEPT ![current][phase] = TRUE]
  /\ outcome' = [outcome EXCEPT ![current][phase] = "empty"]
  /\ Goto(IF outcome[current][phase] = "empty" THEN "ended" ELSE "dropLate")
  /\ UNCHANGED <<kind, late, current, phase, thread, resources>>

\* The thread has finished and left disposing to the caller.
DropLate ==
  /\ at = "dropLate"
  /\ Goto("ended")
  /\ Dispose(current)
  /\ UNCHANGED <<kind, late, current, phase, calls>>

\* The body of the with statement: read the response, or refuse it (an error
\* status, a redirect, a media type, a declared length).
ReadBody ==
  /\ at = "with"
  /\ Goto("start") /\ phase' = "body"
  /\ UNCHANGED <<kind, late, current, calls, resources>>

Refuse ==
  /\ at = "with"
  /\ Goto("close")
  /\ UNCHANGED <<kind, late, current, phase, calls, resources>>

\* The end of the with statement without DeadlineExceeded.  A download that was
\* redirected goes on with a new session.
CloseResponse ==
  /\ at = "close"
  /\ Close(current)
  /\ \/ Goto("ended") /\ UNCHANGED current
     \/ /\ kind = "download" /\ phase = "headers" /\ ~late /\ current < MaxSessions
        /\ Goto("open") /\ current' = current + 1
  /\ UNCHANGED <<kind, late, phase, calls>>

\* A request that failed by itself: a download tries the next address, if there
\* is one and time is left.
CloseFailed ==
  /\ at = "closeFailed"
  /\ Close(current)
  /\ \/ Goto("ended") /\ UNCHANGED current
     \/ /\ kind = "download" /\ ~late /\ current < MaxSessions
        /\ Goto("open") /\ current' = current + 1
  /\ UNCHANGED <<kind, late, phase, calls>>

Caller ==
  \/ OpenSession \/ StartCall \/ TakeOutcome \/ GiveUp \/ DropLate
  \/ ReadBody \/ Refuse \/ CloseResponse \/ CloseFailed

-----------------------------------------------------------------------------
(* The threads and the clock.                                              *)

\* action() returns or raises; a request that returns leaves an open Response.
Work(s, f) ==
  /\ thread[s][f] = "working"
  /\ \/ /\ thread' = [thread EXCEPT ![s][f] = "worked"]
        /\ response' = IF f = "headers" THEN [response EXCEPT ![s] = "open"] ELSE response
     \/ thread' = [thread EXCEPT ![s][f] = "failed"] /\ UNCHANGED response
  /\ UNCHANGED <<kind, late, at, current, phase, outcome, abandoned, closes>>

DeliverUnlocked(s, f) ==  \* mutant: the flag is not looked at
  /\ thread[s][f] \in {"worked", "failed"}
  /\ outcome' = [outcome EXCEPT ![s][f] = IF thread[s][f] = "worked" THEN "value" ELSE "error"]
  /\ thread' = [thread EXCEPT ![s][f] = "ended"]
  /\ UNCHANGED <<kind, late, at, current, phase, abandoned, resources>>

\* The critical section of the thread: put the outcome, or own it.
Deliver(s, f) ==
  /\ thread[s][f] \in {"worked", "failed"}
  /\ IF abandoned[s][f]
     THEN thread' = [thread EXCEPT ![s][f] = "disposing"] /\ UNCHANGED outcome
     ELSE /\ outcome' = [outcome EXCEPT ![s][f] = IF thread[s][f] = "worked" THEN "value" ELSE "error"]
          /\ thread' = [thread EXCEPT ![s][f] = "ended"]
  /\ UNCHANGED <<kind, late, at, current, phase, abandoned, resources>>

ThreadDisposes(s, f) ==
  /\ thread[s][f] = "disposing"
  /\ thread' = [thread EXCEPT ![s][f] = "ended"]
  /\ Dispose(s)
  /\ UNCHANGED <<kind, late, at, current, phase, outcome, abandoned>>

Thread == \E s \in Sessions, f \in Phases : Work(s, f) \/ Deliver(s, f) \/ ThreadDisposes(s, f)

Tick == ~late /\ late' = TRUE /\ UNCHANGED <<kind, at, current, phase, calls, resources>>

CallNext == Caller \/ Thread \/ Tick

CallSpec == CallInit /\ [][CallNext]_callVars

\* The caller is a running thread; nothing is assumed of the calls it waits for.
CallFairSpec == CallSpec /\ WF_callVars(Caller) /\ WF_callVars(Tick)

-----------------------------------------------------------------------------
(* What must hold.                                                         *)

InUse(s) ==
  \/ \E f \in Phases : thread[s][f] = "working"
  \/ s = current /\ at \in {"wait", "with"}

Quiet == at = "ended" /\ \A s \in Sessions, f \in Phases : thread[s][f] \in {"none", "ended"}

\* No session is closed while a thread, abandoned or not, works with it, or while
\* the caller still waits for it or reads from it; caller and thread never both
\* release it; and when the call is over and every thread it started has ended,
\* each session that was given to a thread is closed, and so is each response.
ReleasedOnceAfterUse ==
  \A s \in Sessions :
    /\ closes[s] <= IF InUse(s) THEN 0 ELSE 1
    /\ Quiet => /\ thread[s]["headers"] # "none" => closes[s] = 1
                /\ response[s] # "open"

\* The caller does not outstay the deadline, however long a call blocks.
DeadlineHolds == <>(at = "ended")

\* The comment on DeadlineExceeded: it implies "a blocking call was abandoned" in a
\* thread that owns the Session from then on.  So a session that was made and not
\* closed belongs to a thread.
OpenSessionHasOwner ==
  at = "ended" => closes[current] > 0 \/ \E f \in Phases : thread[current][f] # "none"
=============================================================================
