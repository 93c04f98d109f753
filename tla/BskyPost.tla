------------------------------- MODULE BskyPost -------------------------------
(***************************************************************************)
(* bsky/create_bsky_post.py: one post, made exactly once over a network    *)
(* that loses, delays and garbles what it carries.  create_post logs in,   *)
(* builds the record, publishes it (_publish_post) and logs out; a user    *)
(* who is told only of an error runs the script again.                     *)
(*                                                                         *)
(* A createRecord request is in flight from the moment it is sent until    *)
(* the PDS (or a gateway in front of it) has dealt with it, which may be   *)
(* long after the script stopped waiting for its answer.                   *)
(***************************************************************************)
EXTENDS Naturals

CONSTANT MaxRuns  \* how often the user may run the script

ASSUME BskyPostAssumption == MaxRuns \in Nat \ {0}

Runs == 1..MaxRuns
Attempts == {1, 2}  \* the first createRecord and its one retry

VARIABLES
  run,      \* the run in progress, or the last one
  pc,       \* where it is
  attempt,  \* the createRecord attempt it is making
  request,  \* run -> attempt -> "unsent", "flying" or "settled"
  answer,   \* run -> attempt -> what was sent back, if anything
  records,  \* the record keys that exist on the PDS
  session,  \* run -> its login session on the PDS
  token,    \* run -> it holds the session's refresh token
  warned,   \* run -> it named a post that may exist
  lapsed,   \* run -> it said that its session expires on its own
  result    \* run -> how it ended

vars == <<run, pc, attempt, request, answer, records, session, token, warned,
          lapsed, result>>
network == <<request, answer, records>>

Answers == {"none", "created", "garbled", "rejected", "redirect", "failed"}
Outcomes == (Answers \ {"none"}) \cup {"lost", "unsent"}

FreshKey(r, a) == <<r, a>>  \* mutant: the retry draws a key of its own
\* _new_tid, drawn once per run: its record key.
Key(r, a) == <<r, 1>>
Keys == {Key(r, a) : r \in Runs, a \in Attempts}

TypeOK ==
  /\ run \in Runs
  /\ pc \in {"login", "prepare", "create", "await", "lookup", "logout", "ended"}
  /\ attempt \in Attempts
  /\ request \in [Runs -> [Attempts -> {"unsent", "flying", "settled"}]]
  /\ answer \in [Runs -> [Attempts -> Answers]]
  /\ records \subseteq Keys
  /\ session \in [Runs -> {"none", "open", "revoked"}]
  /\ token \in [Runs -> BOOLEAN] /\ warned \in [Runs -> BOOLEAN]
  /\ lapsed \in [Runs -> BOOLEAN]
  /\ result \in [Runs -> {"none", "posted", "error", "crashed"}]

Init ==
  /\ run = 1 /\ pc = "login" /\ attempt = 1
  /\ request = [r \in Runs |-> [a \in Attempts |-> "unsent"]]
  /\ answer = [r \in Runs |-> [a \in Attempts |-> "none"]]
  /\ records = {}
  /\ session = [r \in Runs |-> "none"]
  /\ token = [r \in Runs |-> FALSE] /\ warned = [r \in Runs |-> FALSE]
  /\ lapsed = [r \in Runs |-> FALSE]
  /\ result = [r \in Runs |-> "none"]

Note(f) == [f EXCEPT ![run] = TRUE]
End(r) == result' = [result EXCEPT ![run] = r]

-----------------------------------------------------------------------------
(* The script.                                                             *)

\* bsky_login_session; the answer need not hold a refresh token.  The answer may be
\* lost or unusable after the PDS opened the session: then the script stops with no
\* token to end it with.
Login ==
  /\ pc = "login"
  /\ \/ /\ session' = [session EXCEPT ![run] = "open"]
        /\ \E t \in BOOLEAN : token' = [token EXCEPT ![run] = t]
        /\ pc' = "prepare"
        /\ UNCHANGED result
     \/ /\ \E s \in {"none", "open"} : session' = [session EXCEPT ![run] = s]
        /\ pc' = "ended"
        /\ End("error")
        /\ UNCHANGED token
  /\ UNCHANGED <<run, attempt, network, warned, lapsed>>

FailWithoutLogout == pc' = "ended" /\ End("error")  \* mutant: no finally
\* An error leaves the try block of create_post.
Fail == pc' = "logout" /\ End("error")
Succeed == pc' = "logout" /\ End("posted")

\* _build_post_record and _build_embed: facets, reply and quote references,
\* uploads of blobs that nothing refers to yet.
Prepare ==
  /\ pc = "prepare"
  /\ \/ pc' = "create" /\ UNCHANGED result
     \/ Fail
  /\ UNCHANGED <<run, attempt, network, session, token, warned, lapsed>>

FiveHundredIsDefinite(o) == o \in {"lost", "garbled"}  \* mutant: 5xx is final
\* _outcome_uncertain, for the exceptions _publish_post catches.
Uncertain(o) == o \in {"lost", "garbled", "failed"}

\* The except clauses around the two calls of _create_post_record.  A refused
\* redirect is a ValueError: the first attempt lets it pass, the retry warns.
Settle(o) ==
  \/ o = "created" /\ Succeed /\ UNCHANGED warned
  \/ /\ attempt = 1 /\ o # "created"
     /\ IF Uncertain(o) THEN pc' = "lookup" /\ UNCHANGED result ELSE Fail
     /\ UNCHANGED warned
  \/ /\ attempt = 2 /\ o # "created"
     /\ IF o = "redirect" THEN Fail /\ warned' = Note(warned)
        ELSE pc' = "lookup" /\ UNCHANGED <<result, warned>>

\* Send createRecord, or fail before anything is sent.
Create ==
  /\ pc = "create"
  /\ \/ /\ request' = [request EXCEPT ![run][attempt] = "flying"]
        /\ pc' = "await"
        /\ UNCHANGED <<result, warned>>
     \/ Settle("unsent") /\ UNCHANGED request
  /\ UNCHANGED <<run, attempt, answer, records, session, token, lapsed>>

\* The answer, or the deadline or a broken connection instead of it.
Await ==
  /\ pc = "await"
  /\ \/ answer[run][attempt] # "none" /\ Settle(answer[run][attempt])
     \/ Settle("lost")
  /\ UNCHANGED <<run, attempt, network, session, token, lapsed>>

RetryForGood ==  \* mutant: the retry is not counted
  pc' = "create" /\ UNCHANGED <<attempt, result, warned>>

\* What follows a lookup that did not find the post.
NotFound ==
  IF attempt = 1
  THEN pc' = "create" /\ attempt' = 2 /\ UNCHANGED <<result, warned>>
  ELSE Fail /\ warned' = Note(warned) /\ UNCHANGED attempt

\* _existing_post: found, not found, or no usable answer.
Lookup ==
  /\ pc = "lookup"
  /\ \/ Key(run, attempt) \in records /\ Succeed /\ UNCHANGED <<attempt, warned>>
     \/ Key(run, attempt) \notin records /\ NotFound
     \/ Fail /\ warned' = Note(warned) /\ UNCHANGED attempt
  /\ UNCHANGED <<run, network, session, token, lapsed>>

\* bsky_logout_session, if the login gave a refresh token: best effort.
Logout ==
  /\ pc = "logout"
  /\ \/ token[run] /\ session' = [session EXCEPT ![run] = "revoked"] /\ UNCHANGED lapsed
     \/ token[run] /\ lapsed' = Note(lapsed) /\ UNCHANGED session
     \/ ~token[run] /\ UNCHANGED <<session, lapsed>>
  /\ pc' = "ended"
  /\ UNCHANGED <<run, attempt, network, token, warned, result>>

\* Ctrl-C, or an error no handler is for, such as a closed standard output.
Crash ==
  /\ \/ /\ pc = "login" /\ pc' = "ended"
        /\ \E s \in {"none", "open"} : session' = [session EXCEPT ![run] = s]
     \/ /\ pc \notin {"login", "ended"}
        /\ pc' = IF pc = "logout" THEN "ended" ELSE "logout"
        /\ UNCHANGED session
  /\ End("crashed")
  /\ UNCHANGED <<run, attempt, network, token, warned, lapsed>>

Script == Login \/ Prepare \/ Create \/ Await \/ Lookup \/ Logout

\* Told of an error, and of no post that may exist, the user tries again.
Rerun ==
  /\ pc = "ended" /\ run < MaxRuns
  /\ result[run] = "error" /\ ~warned[run]
  /\ run' = run + 1 /\ pc' = "login" /\ attempt' = 1
  /\ UNCHANGED <<network, session, token, warned, lapsed, result>>

-----------------------------------------------------------------------------
(* The network, the gateway and the PDS.                                   *)

\* Only the first answer to a request reaches the script.
Answer(r, a, o) ==
  answer' = IF answer[r][a] = "none" THEN [answer EXCEPT ![r][a] = o] ELSE answer

\* The PDS creates the record and says so, or its answer is spoilt on the way.
PdsCreates(r, a) ==
  /\ request[r][a] = "flying" /\ Key(r, a) \notin records
  /\ request' = [request EXCEPT ![r][a] = "settled"]
  /\ records' = records \cup {Key(r, a)}
  /\ \E o \in {"created", "garbled", "failed"} : Answer(r, a, o)

\* The request is refused (as a duplicate, for one), or never reaches the PDS.
NotCreated(r, a) ==
  /\ request[r][a] = "flying"
  /\ request' = [request EXCEPT ![r][a] = "settled"]
  /\ \E o \in Answers \ {"created"} : Answer(r, a, o)
  /\ UNCHANGED records

\* A gateway gives up on a request that the PDS may still deal with.
GatewayTimeout(r, a) ==
  /\ request[r][a] = "flying" /\ answer[r][a] = "none"
  /\ Answer(r, a, "failed")
  /\ UNCHANGED <<request, records>>

Network ==
  /\ \E r \in Runs, a \in Attempts :
       PdsCreates(r, a) \/ NotCreated(r, a) \/ GatewayTimeout(r, a)
  /\ UNCHANGED <<run, pc, attempt, session, token, warned, lapsed, result>>

Next == Script \/ Crash \/ Rerun \/ Network

Spec == Init /\ [][Next]_vars

\* Every request of the script has a deadline, so it never stops stepping.
FairSpec == Spec /\ WF_vars(Script)

-----------------------------------------------------------------------------
(* What must hold.                                                         *)

\* However requests are delayed and however often the user tries again after a
\* plain error, there is one post at most (_publish_post, "exactly once").
AtMostOnePost == \A k, l \in records : k = l

\* What the user is told of a post is true and stays true: a run that prints one has
\* made it, and after an error without the "may still have been created" warning
\* there is none, and none appears later.
ReportsAreTrue ==
  \A r \in Runs :
    /\ result[r] = "posted" => Key(r, 1) \in records
    /\ result[r] = "error" /\ ~warned[r] => \A a \in Attempts : Key(r, a) \notin records

\* A run ends its login session or says that it could not, whatever became of
\* the post.
LogsOut ==
  \A r \in Runs :
    token[r] /\ result[r] # "crashed" /\ (r = run => pc = "ended")
      => session[r] = "revoked" \/ lapsed[r]

\* The n-th createRecord of a run is its n-th attempt: none is sent twice, and the
\* retry not before the first was, however late or spoilt its answer (_publish_post,
\* "retrying once with the same record key").
SentOnce ==
  [][pc = "create" /\ pc' = "await" =>
       \A a \in Attempts : request[run][a] = "unsent" <=> a >= attempt]_vars

\* Every run ends, whatever the network does.
RunsEnd == []<>(pc = "ended")

\* The comment in create_post: the refresh token is revoked "so a long-lived
\* credential never outlives this run".
NoCredentialOutlivesItsRun ==
  \A r \in Runs : result[r] \in {"posted", "error"} /\ (r = run => pc = "ended")
    => session[r] # "open"
=============================================================================
