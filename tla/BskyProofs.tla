------------------------------ MODULE BskyProofs ------------------------------
(***************************************************************************)
(* Theorems about the two models of create_bsky_post.py: BskyPost, for any *)
(* number of runs, and DeadlineCall, for any number of sessions.           *)
(***************************************************************************)
EXTENDS BskyPost, DeadlineCall, TLAPS

-----------------------------------------------------------------------------
(* BskyPost.                                                               *)

\* Nothing of run r is on the PDS or on its way there.
Dead(r) == (\A a \in Attempts : request[r][a] # "flying") /\ Key(r, 1) \notin records

\* Run r has not begun.
Untouched(r) == (\A a \in Attempts : request[r][a] = "unsent") /\ Key(r, 1) \notin records

Ahead == \A r \in Runs : r > run => Untouched(r) /\ result[r] = "none"
Behind == \A r \in Runs : r < run => Dead(r)

\* A request that was answered for good is no longer in flight.
Answered ==
  \A r \in Runs, a \in Attempts :
    /\ request[r][a] = "unsent" => answer[r][a] = "none"
    /\ request[r][a] = "flying" => answer[r][a] \in {"none", "failed"}

\* The run in progress: what its place and its attempt say of its requests.
Current ==
  /\ pc \notin {"logout", "ended"} => result[run] = "none"
  /\ pc \in {"login", "prepare"} => attempt = 1
  /\ pc \in {"login", "prepare", "create"} => request[run][attempt] = "unsent"
  /\ attempt = 1 => request[run][2] = "unsent"
  /\ attempt = 2 \/ pc \in {"await", "lookup"} => request[run][1] # "unsent"
  /\ attempt = 1 /\ request[run][1] # "settled" => Key(run, 1) \notin records
  /\ attempt = 1 /\ answer[run][1] \in {"rejected", "redirect"} => Dead(run)
  /\ result[run] = "error" /\ ~warned[run] => Dead(run)

Inv == TypeOK /\ Ahead /\ Behind /\ Answered /\ Current

LEMMA KeyOfRun ==
  /\ \A r, q \in Runs, a, b \in Attempts : Key(r, a) = Key(q, b) => r = q
  /\ \A r \in Runs, a \in Attempts : Key(r, a) = Key(r, 1) /\ Key(r, a) \in Keys
BY DEF Key, Keys

LEMMA InitInv == Init => Inv
<1> SUFFICES ASSUME Init PROVE Inv
  OBVIOUS
<1>1. TypeOK
  BY BskyPostAssumption DEF Init, TypeOK, Runs, Attempts, Answers
<1>2. Ahead /\ Behind
  BY BskyPostAssumption DEF Init, Ahead, Behind, Untouched, Runs
<1>3. Answered /\ Current
  BY BskyPostAssumption DEF Init, Answered, Current, Dead, Runs, Attempts
<1> QED BY <1>1, <1>2, <1>3 DEF Inv

\* The steps that leave the network alone and the run in progress.
LEMMA QuietStep ==
  ASSUME Inv, TypeOK', UNCHANGED <<run, network>>,
         \A r \in Runs : r # run => result'[r] = result[r],
         Current'
  PROVE  Inv'
BY DEF Inv, Ahead, Behind, Answered, Untouched, Dead, network, TypeOK, Runs

LEMMA SettleType ==
  ASSUME Inv, NEW o \in Outcomes, Settle(o)
  PROVE  /\ pc' \in {"logout", "lookup"}
         /\ result' \in [Runs -> {"none", "posted", "error", "crashed"}]
         /\ warned' \in [Runs -> BOOLEAN]
         /\ \A r \in Runs : r # run => result'[r] = result[r] /\ warned'[r] = warned[r]
         /\ pc' = "lookup" => result' = result
         /\ result'[run] = "error" /\ ~warned'[run] =>
              result[run] = "error" \/ (attempt = 1 /\ o \in {"rejected", "redirect", "unsent"})
BY DEF Settle, Succeed, Fail, End, Note, Uncertain, Outcomes, Answers, Inv, TypeOK, Attempts

LEMMA ScriptInv == ASSUME Inv, Script \/ Crash PROVE Inv'
<1> USE DEF network, End, Note
<1>t. /\ run \in Runs /\ attempt \in Attempts
      /\ result \in [Runs -> {"none", "posted", "error", "crashed"}]
      /\ warned \in [Runs -> BOOLEAN] /\ lapsed \in [Runs -> BOOLEAN]
      /\ token \in [Runs -> BOOLEAN]
      /\ session \in [Runs -> {"none", "open", "revoked"}]
  BY DEF Inv, TypeOK
<1>1. CASE Login
  <2>1. TypeOK'
    BY <1>1 DEF Login, Inv, TypeOK
  <2>2. Current'
    BY <1>1, <1>t DEF Login, Inv, Current, Dead, Attempts
  <2> QED BY <1>1, <1>t, <2>1, <2>2, QuietStep DEF Login
<1>2. CASE Prepare
  <2>1. TypeOK'
    BY <1>2 DEF Prepare, Fail, Inv, TypeOK
  <2>2. Current'
    BY <1>2, <1>t DEF Prepare, Fail, Inv, Current, Dead, Attempts
  <2> QED BY <1>2, <1>t, <2>1, <2>2, QuietStep DEF Prepare, Fail
<1>3. CASE Create
  <2>1. CASE request' = [request EXCEPT ![run][attempt] = "flying"] /\ pc' = "await"
             /\ UNCHANGED <<result, warned>>
    <3>1. request \in [Runs -> [Attempts -> {"unsent", "flying", "settled"}]]
      BY DEF Inv, TypeOK
    <3>2. /\ \A r \in Runs, a \in Attempts :
               request'[r][a] = IF r = run /\ a = attempt THEN "flying" ELSE request[r][a]
          /\ request' \in [Runs -> [Attempts -> {"unsent", "flying", "settled"}]]
      BY <2>1, <3>1, <1>t
    <3>3. request[run][attempt] = "unsent"
      BY <1>3 DEF Create, Inv, Current
    <3>4. TypeOK'
      BY <1>3, <2>1, <3>2 DEF Create, Inv, TypeOK
    <3>5. Ahead' /\ Behind'
      BY <1>3, <2>1, <3>2, <1>t DEF Create, Inv, Ahead, Behind, Untouched, Dead, Runs
    <3>6. Answered'
      <4>1. answer[run][attempt] \in {"none", "failed"}
        BY <3>3, <1>t DEF Inv, Answered
      <4> QED BY <1>3, <2>1, <3>2, <4>1 DEF Create, Inv, Answered
    <3>7. Current'
      <4>1. answer[run][attempt] = "none" /\ answer' = answer
        BY <1>3, <3>3, <1>t DEF Create, Inv, Answered
      <4> QED BY <1>3, <2>1, <3>2, <3>3, <4>1, <1>t DEF Create, Inv, Current, Dead, Attempts
    <3> QED BY <3>4, <3>5, <3>6, <3>7 DEF Inv
  <2>2. CASE Settle("unsent") /\ UNCHANGED request
    <3>0. "unsent" \in Outcomes
      BY DEF Outcomes
    <3>1. TypeOK'
      BY <1>3, <2>2, <3>0, SettleType DEF Create, Inv, TypeOK
    <3>2. attempt = 1 => Dead(run)
      BY <1>3 DEF Create, Inv, Current, Dead, Attempts
    <3>3. Current'
      <4>1. attempt = 1 => pc' = "logout"
        BY <2>2 DEF Settle, Succeed, Fail, Uncertain
      <4> QED BY <1>3, <2>2, <3>0, <3>2, <4>1, <1>t, SettleType
             DEF Create, Inv, Current, Dead, Attempts
    <3> QED BY <1>3, <2>2, <3>0, <3>1, <3>3, SettleType, QuietStep DEF Create
  <2> QED BY <1>3, <2>1, <2>2 DEF Create
<1>4. CASE Await
  <2>1. PICK o \in Outcomes : Settle(o) /\ (o = answer[run][attempt] \/ o = "lost")
    BY <1>4, <1>t DEF Await, Inv, TypeOK, Outcomes
  <2>2. TypeOK'
    BY <1>4, <2>1, SettleType DEF Await, Inv, TypeOK
  <2>3. attempt = 1 /\ o \in {"rejected", "redirect", "unsent"} => Dead(run)
    BY <2>1, <1>t DEF Inv, TypeOK, Current, Answers
  <2>4. pc = "await" /\ UNCHANGED <<run, attempt, request, answer, records>>
    BY <1>4 DEF Await
  <2>5. Current'
    BY <2>1, <2>3, <2>4, <1>t, SettleType DEF Inv, Current, Dead
  <2> QED BY <1>4, <2>1, <2>2, <2>5, SettleType, QuietStep DEF Await
<1>5. CASE Lookup
  <2>1. TypeOK'
    BY <1>5 DEF Lookup, NotFound, Succeed, Fail, Inv, TypeOK, Attempts
  <2>2. Current'
    BY <1>5, <1>t DEF Lookup, NotFound, Succeed, Fail, Inv, Current, Dead, Attempts
  <2> QED BY <1>5, <1>t, <2>1, <2>2, QuietStep DEF Lookup, NotFound, Succeed, Fail
<1>6. CASE Logout
  <2>1. TypeOK'
    BY <1>6 DEF Logout, Inv, TypeOK
  <2>2. Current'
    BY <1>6, <1>t DEF Logout, Inv, Current, Dead
  <2> QED BY <1>6, <2>1, <2>2, QuietStep DEF Logout
<1>7. CASE Crash
  <2>1. TypeOK'
    BY <1>7 DEF Crash, Inv, TypeOK
  <2>2. Current'
    BY <1>7, <1>t DEF Crash, Inv, Current, Dead
  <2> QED BY <1>7, <1>t, <2>1, <2>2, QuietStep DEF Crash
<1> QED BY <1>1, <1>2, <1>3, <1>4, <1>5, <1>6, <1>7 DEF Script

LEMMA RerunInv == ASSUME Inv, Rerun PROVE Inv'
<1> USE DEF network
<1>1. /\ run \in Nat /\ run + 1 \in Runs /\ run' = run + 1
      /\ UNCHANGED <<request, answer, records, result, warned>>
  BY BskyPostAssumption DEF Rerun, Inv, TypeOK, Runs
<1>2. Dead(run)
  BY DEF Rerun, Inv, Current
<1>3. Untouched(run + 1) /\ result[run + 1] = "none"
  BY <1>1 DEF Inv, Ahead
<1>4. TypeOK'
  BY <1>1 DEF Rerun, Inv, TypeOK, Attempts
<1>5. Ahead'
  BY <1>1 DEF Inv, Ahead, Untouched, Runs
<1>6. Behind'
  <2> SUFFICES ASSUME NEW r \in Runs, r < run + 1 PROVE Dead(r)
    BY <1>1 DEF Behind, Dead
  <2>1. r = run \/ r < run
    BY <1>1 DEF Runs
  <2> QED BY <1>2, <2>1 DEF Inv, Behind
<1>7. Answered'
  BY <1>1 DEF Inv, Answered
<1>8. Current'
  BY <1>1, <1>3 DEF Rerun, Inv, Current, Untouched, Answered, Attempts, Dead
<1> QED BY <1>4, <1>5, <1>6, <1>7, <1>8 DEF Inv

LEMMA NetworkInv == ASSUME Inv, Network PROVE Inv'
<1>1. PICK r \in Runs, a \in Attempts :
        PdsCreates(r, a) \/ NotCreated(r, a) \/ GatewayTimeout(r, a)
  BY DEF Network
<1>2. UNCHANGED <<run, pc, attempt, session, token, warned, lapsed, result>>
  BY DEF Network
<1>3. /\ request[r][a] = "flying" /\ answer[r][a] \in {"none", "failed"}
      /\ request \in [Runs -> [Attempts -> {"unsent", "flying", "settled"}]]
      /\ answer \in [Runs -> [Attempts -> Answers]]
  BY <1>1 DEF PdsCreates, NotCreated, GatewayTimeout, Inv, TypeOK, Answered
<1>4. PICK o \in Answers :
        /\ o \in {"created", "garbled", "failed"} \/ records' = records
        /\ o = "failed" \/ request' = [request EXCEPT ![r][a] = "settled"]
        /\ request' = request \/ request' = [request EXCEPT ![r][a] = "settled"]
        /\ answer' = IF answer[r][a] = "none" THEN [answer EXCEPT ![r][a] = o] ELSE answer
        /\ records' = records \/ records' = records \cup {Key(r, a)}
  BY <1>1 DEF PdsCreates, NotCreated, GatewayTimeout, Answer, Answers
<1>5. /\ \A q \in Runs, b \in Attempts :
           /\ ~(q = r /\ b = a) => request'[q][b] = request[q][b] /\ answer'[q][b] = answer[q][b]
           /\ request[q][b] # "flying" => request'[q][b] = request[q][b]
      /\ request'[r][a] \in {"flying", "settled"}
      /\ answer'[r][a] \in {o, "failed"}
      /\ request'[r][a] = "flying" => answer'[r][a] = "failed"
      /\ request' \in [Runs -> [Attempts -> {"unsent", "flying", "settled"}]]
      /\ answer' \in [Runs -> [Attempts -> Answers]]
  <2>1. CASE request' = request
    BY <1>3, <1>4, <2>1
  <2>2. CASE request' = [request EXCEPT ![r][a] = "settled"]
    <3>1. request'[r][a] = "settled"
      BY <1>3, <2>2
    <3> QED BY <1>3, <1>4, <2>2, <3>1
  <2> QED BY <1>4, <2>1, <2>2
<1>6. \A q \in Runs : Key(q, 1) \in records' => Key(q, 1) \in records \/ q = r
  BY <1>4, KeyOfRun DEF Attempts
<1>7. \A q \in Runs : Dead(q) => q # r
  BY <1>3 DEF Dead
<1>8. \A q \in Runs : Dead(q) => Dead(q)'
  BY <1>5, <1>6, <1>7 DEF Dead
<1>9. r = run
  BY <1>3, <1>7 DEF Inv, TypeOK, Ahead, Behind, Untouched, Runs
<1>10. TypeOK'
  BY <1>2, <1>4, <1>5, KeyOfRun DEF Inv, TypeOK
<1>11. Ahead' /\ Behind'
  <2>1. Ahead'
    BY <1>2, <1>5, <1>6, <1>9 DEF Inv, Ahead, Untouched, TypeOK, Runs
  <2>2. Behind'
    BY <1>2, <1>8 DEF Inv, Behind
  <2> QED BY <2>1, <2>2
<1>12. Answered'
  BY <1>3, <1>5 DEF Inv, Answered
<1>13. Current'
  <2>1. attempt = 1 /\ answer'[run][1] \in {"rejected", "redirect"} => Dead(run)'
    <3> SUFFICES ASSUME attempt = 1, answer'[run][1] \in {"rejected", "redirect"}
                 PROVE  Dead(run)'
      OBVIOUS
    <3>1. a = 1 /\ request[run][2] = "unsent"
      BY <1>3, <1>9 DEF Inv, Current, Attempts
    <3>2. o \in {"rejected", "redirect"}
      BY <1>5, <1>9, <3>1
    <3>3. request'[run][1] # "flying" /\ request'[run][2] = "unsent" /\ records' = records
      BY <1>4, <1>5, <1>9, <3>1, <3>2 DEF Attempts
    <3>4. Key(run, 1) \notin records
      BY <1>3, <1>9, <3>1 DEF Inv, Current
    <3> QED BY <1>2, <3>3, <3>4 DEF Dead, Attempts
  <2>2. attempt = 1 => request'[run][2] = "unsent"
    BY <1>5 DEF Inv, Current, TypeOK, Attempts
  <2>3. attempt = 1 => request'[run][1] # "unsent"
    BY <1>3, <1>5, <1>9 DEF Inv, Current, Attempts
  <2>4. pc \notin {"login", "prepare", "create"} \/ request'[run][attempt] = "unsent"
    <3>1. run \in Runs /\ attempt \in Attempts
      BY DEF Inv, TypeOK
    <3>2. pc \in {"login", "prepare", "create"} => request[run][attempt] = "unsent"
      BY DEF Inv, Current
    <3> QED BY <1>5, <3>1, <3>2
  <2>5. result[run] = "error" /\ ~warned[run] => Dead(run)'
    BY <1>2, <1>8 DEF Inv, Current, TypeOK, Dead
  <2>6. attempt = 1 /\ request'[run][1] # "settled" => Key(run, 1) \notin records'
    <3>1. attempt = 1 => a = 1
      BY <1>3, <1>9, <2>2 DEF Inv, Current, Attempts
    <3>2. request'[run][1] # "settled" /\ a = 1 => request[run][1] # "settled" /\ records' = records
      BY <1>1, <1>3, <1>9 DEF PdsCreates, NotCreated, GatewayTimeout
    <3> QED BY <3>1, <3>2 DEF Inv, Current
  <2>7. request[run][1] # "unsent" => request'[run][1] # "unsent"
    BY <1>5 DEF Inv, TypeOK, Attempts
  <2> QED BY <1>2, <2>1, <2>2, <2>3, <2>4, <2>5, <2>6, <2>7 DEF Inv, Current, Dead
<1> QED BY <1>10, <1>11, <1>12, <1>13 DEF Inv

LEMMA Invariance == Spec => []Inv
<1>1. Init => Inv
  BY InitInv
<1>2. Inv /\ [Next]_vars => Inv'
  <2>1. Inv /\ UNCHANGED vars => Inv'
    BY DEF vars, Inv, TypeOK, Ahead, Behind, Answered, Current, Untouched, Dead
  <2> QED BY <2>1, ScriptInv, RerunInv, NetworkInv DEF Next
<1> QED BY <1>1, <1>2, PTL DEF Spec

\* The types, for any number of runs; an attempt is the first or the retry.
THEOREM TypeCorrect == Spec => []TypeOK
<1>1. Inv => TypeOK
  BY DEF Inv
<1> QED BY <1>1, Invariance, PTL

\* The one retry of _publish_post: for any number of runs, a run sends createRecord
\* at most twice, and the second time not before the first.
THEOREM SendsTwiceAtMost == Spec => SentOnce
<1>1. Inv /\ [Next]_vars =>
        [pc = "create" /\ pc' = "await" =>
           \A a \in Attempts : request[run][a] = "unsent" <=> a >= attempt]_vars
  <2> SUFFICES ASSUME Inv, pc = "create"
               PROVE  \A a \in Attempts : request[run][a] = "unsent" <=> a >= attempt
    OBVIOUS
  <2>1. CASE attempt = 1
    BY <2>1 DEF Inv, Current, Attempts
  <2>2. CASE attempt = 2
    BY <2>2 DEF Inv, Current, Attempts
  <2> QED BY <2>1, <2>2 DEF Inv, TypeOK, Attempts
<1> QED BY <1>1, Invariance, PTL DEF Spec, SentOnce

\* The promise of _publish_post and of a user who runs the script again only
\* after a plain error: however the network behaves, there is one post at most.
THEOREM OnePostAtMost == Spec => []AtMostOnePost
<1>1. Inv => AtMostOnePost
  <2> SUFFICES ASSUME Inv, NEW k \in records PROVE k = Key(run, 1)
    BY DEF AtMostOnePost
  <2>1. PICK r \in Runs : k = Key(r, 1)
    BY KeyOfRun DEF Inv, TypeOK, Keys
  <2>2. r = run
    BY <2>1 DEF Inv, Ahead, Behind, Untouched, Dead, TypeOK, Runs
  <2> QED BY <2>1, <2>2
<1> QED BY <1>1, Invariance, PTL

\* Whoever says "created" has created it: the answer and the result.
Created ==
  /\ \A r \in Runs, a \in Attempts : answer[r][a] = "created" => Key(r, 1) \in records
  /\ \A r \in Runs : result[r] = "posted" => Key(r, 1) \in records

LEMMA SettledAsCreated ==
  ASSUME Inv, Created, NEW o \in Outcomes, Settle(o), records' = records,
         o = "created" => Key(run, 1) \in records
  PROVE  \A r \in Runs : result'[r] = "posted" => Key(r, 1) \in records'
BY DEF Settle, Succeed, Fail, End, Inv, TypeOK, Created

LEMMA CreatedStep == Inv /\ Created /\ [Next]_vars => Created'
<1> SUFFICES ASSUME Inv, Created, [Next]_vars PROVE Created'
  OBVIOUS
<1> USE DEF network, End
<1>t. run \in Runs /\ attempt \in Attempts /\ result \in [Runs -> {"none", "posted", "error", "crashed"}]
  BY DEF Inv, TypeOK
<1>1. CASE Create
  <2>1. CASE Settle("unsent")
    <3>1. \A r \in Runs : result'[r] = "posted" => Key(r, 1) \in records'
      BY <1>1, <2>1, SettledAsCreated DEF Create, Outcomes
    <3> QED BY <1>1, <3>1 DEF Create, Created
  <2>2. CASE UNCHANGED result
    BY <1>1, <2>2 DEF Create, Created
  <2> QED BY <1>1, <2>1, <2>2 DEF Create
<1>2. CASE Await
  <2>1. PICK o \in Outcomes : Settle(o) /\ (o = answer[run][attempt] \/ o = "lost")
    BY <1>2, <1>t DEF Await, Inv, TypeOK, Outcomes
  <2>2. \A r \in Runs : result'[r] = "posted" => Key(r, 1) \in records'
    BY <1>2, <1>t, <2>1, SettledAsCreated DEF Await, Created
  <2> QED BY <1>2, <2>2 DEF Await, Created
<1>3. CASE Lookup
  BY <1>3, <1>t, KeyOfRun DEF Lookup, NotFound, Succeed, Fail, Created
<1>4. CASE Login \/ Prepare \/ Logout \/ Crash \/ Rerun
  BY <1>4, <1>t DEF Login, Prepare, Fail, Logout, Crash, Rerun, Created
<1>5. CASE Network
  <2>1. UNCHANGED result
    BY <1>5 DEF Network
  <2>2. PICK r \in Runs, a \in Attempts :
          PdsCreates(r, a) \/ NotCreated(r, a) \/ GatewayTimeout(r, a)
    BY <1>5 DEF Network
  <2>3. answer \in [Runs -> [Attempts -> Answers]]
    BY DEF Inv, TypeOK
  <2>4. CASE PdsCreates(r, a)
    BY <2>1, <2>3, <2>4, KeyOfRun DEF PdsCreates, Answer, Created
  <2>5. CASE NotCreated(r, a)
    BY <2>1, <2>3, <2>5 DEF NotCreated, Answer, Created
  <2>6. CASE GatewayTimeout(r, a)
    BY <2>1, <2>3, <2>6 DEF GatewayTimeout, Answer, Created
  <2> QED BY <2>2, <2>4, <2>5, <2>6
<1>6. CASE UNCHANGED vars
  BY <1>6 DEF vars, Created
<1> QED BY <1>1, <1>2, <1>3, <1>4, <1>5, <1>6 DEF Next, Script

\* What makes trying again safe: an error without the warning of
\* warn_post_may_exist means there is no post, and none will appear; and a post that
\* was printed exists.
THEOREM ReportsTrue == Spec => []ReportsAreTrue
<1>1. Init => Created
  BY DEF Init, Created
<1>2. Spec => []Created
  BY <1>1, Invariance, CreatedStep, PTL DEF Spec
<1>3. Inv /\ Created => ReportsAreTrue
  <2> SUFFICES ASSUME Inv, NEW r \in Runs, result[r] = "error", ~warned[r], NEW a \in Attempts
               PROVE  Key(r, a) \notin records
    BY DEF ReportsAreTrue, Created
  <2>1. Key(r, 1) \notin records
    <3>1. CASE r = run
      BY <3>1 DEF Inv, Current, Dead
    <3>2. CASE r < run
      BY <3>2 DEF Inv, Behind, Dead
    <3>3. CASE r > run
      BY <3>3 DEF Inv, Ahead, Untouched
    <3> QED BY <3>1, <3>2, <3>3 DEF Inv, TypeOK, Runs
  <2> QED BY <2>1, KeyOfRun
<1> QED BY <1>2, <1>3, Invariance, PTL

\* Only a run that has logged in has a refresh token, and one that is over has
\* used it or said so.
SessionEnds(r) ==
  token[r] /\ result[r] # "crashed" => session[r] = "revoked" \/ lapsed[r]
Credentials ==
  /\ \A r \in Runs : r > run => ~token[r]
  /\ pc = "login" => ~token[run]
  /\ \A r \in Runs : r < run => SessionEnds(r)
  /\ pc = "ended" => SessionEnds(run)

LEMMA CredentialsStep == Inv /\ Credentials /\ [Next]_vars => Credentials'
<1> SUFFICES ASSUME Inv, Credentials, [Next]_vars PROVE Credentials'
  OBVIOUS
<1> USE DEF End, Note, SessionEnds
<1>t. /\ run \in Runs /\ run \in Nat /\ \A r \in Runs : r \in Nat
      /\ result \in [Runs -> {"none", "posted", "error", "crashed"}]
      /\ token \in [Runs -> BOOLEAN] /\ lapsed \in [Runs -> BOOLEAN]
      /\ session \in [Runs -> {"none", "open", "revoked"}]
  BY DEF Inv, TypeOK, Runs
\* The steps in between: the run is not over, and its session is as it was.
<1>1. ASSUME UNCHANGED <<run, token, session, lapsed>>, pc' \notin {"login", "ended"},
             \A r \in Runs : r # run => result'[r] = result[r]
      PROVE  Credentials'
  BY <1>1, <1>t DEF Credentials
<1>2. CASE Login
  BY <1>2, <1>t DEF Login, Credentials
<1>3. CASE Prepare
  <2>1. pc' \in {"create", "logout"} /\ \A r \in Runs : r # run => result'[r] = result[r]
    BY <1>3, <1>t DEF Prepare, Fail
  <2> QED BY <1>1, <1>3, <2>1 DEF Prepare
<1>4. CASE Create
  <2>1. CASE Settle("unsent")
    <3>1. "unsent" \in Outcomes
      BY DEF Outcomes
    <3> QED BY <1>1, <1>4, <2>1, <3>1, SettleType DEF Create
  <2>2. CASE pc' = "await" /\ UNCHANGED result
    BY <1>1, <1>4, <2>2 DEF Create
  <2> QED BY <1>4, <2>1, <2>2 DEF Create
<1>5. CASE Await
  <2>1. PICK o \in Outcomes : Settle(o)
    BY <1>5, <1>t DEF Await, Inv, TypeOK, Outcomes
  <2> QED BY <1>1, <1>5, <2>1, SettleType DEF Await
<1>6. CASE Lookup
  <2>1. pc' \in {"create", "logout"} /\ \A r \in Runs : r # run => result'[r] = result[r]
    BY <1>6, <1>t DEF Lookup, NotFound, Succeed, Fail
  <2> QED BY <1>1, <1>6, <2>1 DEF Lookup
<1>7. CASE Logout
  BY <1>7, <1>t DEF Logout, Credentials
<1>8. CASE Crash
  BY <1>8, <1>t DEF Crash, Credentials
<1>9. CASE Rerun
  <2>1. /\ pc = "ended" /\ run' = run + 1 /\ run + 1 \in Runs /\ pc' = "login"
        /\ UNCHANGED <<session, token, lapsed, result>>
    BY <1>9, <1>t, BskyPostAssumption DEF Rerun, Runs
  <2>2. ASSUME NEW r \in Runs, r < run + 1 PROVE SessionEnds(r)
    <3>1. r = run \/ r < run
      BY <1>t, <2>2
    <3> QED BY <2>1, <3>1 DEF Credentials
  <2> QED BY <1>t, <2>1, <2>2 DEF Credentials
<1>10. CASE Network
  BY <1>10 DEF Network, Credentials
<1>11. CASE UNCHANGED vars
  BY <1>11 DEF vars, Credentials
<1> QED
  BY <1>2, <1>3, <1>4, <1>5, <1>6, <1>7, <1>8, <1>9, <1>10, <1>11 DEF Next, Script

\* create_post's finally: whatever became of the post, a run that was given a
\* refresh token and was not interrupted revokes it, or says that it could not.
THEOREM RunsLogOut == Spec => []LogsOut
<1>1. Init => Credentials
  BY BskyPostAssumption DEF Init, Credentials, SessionEnds, Runs
<1>2. Spec => []Credentials
  BY <1>1, Invariance, CredentialsStep, PTL DEF Spec
<1>3. Inv /\ Credentials => LogsOut
  BY DEF Inv, TypeOK, Credentials, SessionEnds, LogsOut, Runs
<1> QED BY <1>2, <1>3, Invariance, PTL

-----------------------------------------------------------------------------
(* DeadlineCall.                                                           *)

\* A thread that has something to do yet.
Live(s, f) == thread[s][f] \in {"working", "worked", "failed", "disposing"}

\* Sessions to come are untouched, those left behind are closed.
LeftBehind == \A s \in Sessions : s < current => closes[s] = 1
Fresh(s) ==
  /\ \A f \in Phases : thread[s][f] = "none"
  /\ response[s] = "none" /\ closes[s] = 0
YetToCome == \A s \in Sessions : s > current => Fresh(s)

\* Only the last thread may be alive, and the caller waits for it or has left it alone.
OneThread ==
  \A s \in Sessions, f \in Phases :
    /\ Live(s, f) => s = current /\ f = phase /\ at \in {"wait", "ended"}
    /\ outcome[s][f] # "empty" => s = current /\ f = phase /\ at = "wait"
    /\ abandoned[s][f] => s = current /\ f = phase /\ at \in {"dropLate", "ended"}
    /\ thread[s][f] = "disposing" => abandoned[s][f]

\* Who has to close the current session.
Waiting ==
  at = "wait" =>
    IF outcome[current][phase] = "empty"
    THEN thread[current][phase] \in {"working", "worked", "failed"}
    ELSE thread[current][phase] = "ended"
Left ==
  at = "ended" =>
    \/ closes[current] = 1 /\ \A f \in Phases : ~Live(current, f)
    \/ closes[current] = 0 /\ Live(current, phase) /\ abandoned[current][phase]
    \/ Fresh(current)

\* Where the caller stands in the with statement.
Standing ==
  /\ at = "open" => Fresh(current)
  /\ at = "start" => /\ thread[current][phase] = "none" /\ closes[current] = 0
                     /\ phase = "headers" => Fresh(current)
  /\ at = "with" => phase = "headers" /\ thread[current]["body"] = "none"
  /\ phase = "headers" => thread[current]["body"] = "none"

\* A session is closed once, and its response with it.
ClosedOnce ==
  \A s \in Sessions :
    /\ closes[s] \in {0, 1}
    /\ closes[s] = 1 => response[s] # "open" /\ (s < current \/ (s = current /\ at = "ended"))

IInv ==
  CallTypeOK /\ LeftBehind /\ YetToCome /\ OneThread /\ Waiting /\ Left /\ Standing /\ ClosedOnce

-----------------------------------------------------------------------------

LEMMA InvImplies == IInv => ReleasedOnceAfterUse
  <1> SUFFICES ASSUME IInv, NEW s \in Sessions
               PROVE /\ closes[s] <= IF InUse(s) THEN 0 ELSE 1
                     /\ Quiet => /\ thread[s]["headers"] # "none" => closes[s] = 1
                                 /\ response[s] # "open"
    BY DEF ReleasedOnceAfterUse
  <1> USE DeadlineCallAssumption DEF IInv, Sessions, Phases
  <1>1. closes[s] \in {0, 1}
    BY DEF ClosedOnce
  <1>2. ASSUME InUse(s) PROVE closes[s] = 0
    <2>1. CASE \E f \in Phases : thread[s][f] = "working"
      <3>1. PICK f \in Phases : thread[s][f] = "working"
        BY <2>1
      <3>2. s = current /\ f = phase /\ at \in {"wait", "ended"}
        BY <3>1 DEF OneThread, Live
      <3>3. CASE at = "wait"
        BY <3>2, <3>3 DEF ClosedOnce
      <3>4. CASE at = "ended"
        <4>1. thread[current][phase] = "working" /\ Live(current, phase)
          BY <3>1, <3>2 DEF Live
        <4> QED BY <3>1, <3>2, <3>4, <4>1 DEF Left, Fresh, CallTypeOK
      <3> QED BY <3>2, <3>3, <3>4
    <2>2. CASE s = current /\ at \in {"wait", "with"}
      BY <2>2, <1>1 DEF ClosedOnce
    <2> QED BY <1>2, <2>1, <2>2 DEF InUse
  <1>3. ASSUME Quiet
        PROVE (thread[s]["headers"] # "none" => closes[s] = 1) /\ response[s] # "open"
    <2>1. s < current \/ s > current \/ s = current
      BY DEF CallTypeOK
    <2>2. CASE s < current
      BY <2>2 DEF LeftBehind, ClosedOnce
    <2>3. CASE s > current
      BY <2>3 DEF YetToCome, Fresh
    <2>4. CASE s = current
      <3>1. at = "ended" /\ phase \in Phases /\ ~Live(current, phase)
        BY <1>3, <2>4 DEF Quiet, Live, CallTypeOK
      <3> QED BY <3>1, <2>4 DEF Left, Fresh, ClosedOnce
    <2> QED BY <2>1, <2>2, <2>3, <2>4
  <1> QED BY <1>1, <1>2, <1>3

ThreadStates == {"none", "working", "worked", "failed", "disposing", "ended"}
CallOutcomes == {"empty", "value", "error"}

LEMMA StatesOfThread ==
  {"working", "worked", "failed", "disposing", "ended"} \subseteq ThreadStates
  BY DEF ThreadStates

LEMMA CallInitInv == CallInit => IInv
  <1> SUFFICES ASSUME CallInit PROVE IInv
    OBVIOUS
  <1> USE DeadlineCallAssumption DEF CallInit, All, Sessions, Phases
  <1>1. CallTypeOK
    <2>1. /\ thread \in [Sessions -> [Phases -> ThreadStates]]
          /\ outcome \in [Sessions -> [Phases -> CallOutcomes]]
          /\ abandoned \in [Sessions -> [Phases -> BOOLEAN]]
      BY DEF ThreadStates, CallOutcomes
    <2>2. /\ response \in [Sessions -> {"none", "open", "closed"}] /\ closes \in [Sessions -> Nat]
          /\ current \in Sessions /\ phase \in Phases
      OBVIOUS
    <2> QED BY <2>1, <2>2 DEF CallTypeOK, ThreadStates, CallOutcomes
  <1>2. LeftBehind /\ YetToCome
    BY DEF LeftBehind, YetToCome, Fresh
  <1>3. OneThread /\ ClosedOnce
    BY DEF OneThread, Live, ClosedOnce
  <1>4. Waiting /\ Left /\ Standing
    BY DEF Waiting, Left, Standing, Fresh
  <1> QED BY <1>1, <1>2, <1>3, <1>4 DEF IInv

LEMMA Updated ==
  ASSUME NEW S, NEW T, NEW V, NEW g \in [S -> [T -> V]], NEW s \in S, NEW t \in T, NEW v \in V
  PROVE [g EXCEPT ![s][t] = v] \in [S -> [T -> V]]
  OBVIOUS

LEMMA CallsUpdated ==
  ASSUME CallTypeOK, NEW s \in Sessions, NEW f \in Phases
  PROVE /\ \A v \in ThreadStates : [thread EXCEPT ![s][f] = v] \in [Sessions -> [Phases -> ThreadStates]]
        /\ \A v \in CallOutcomes : [outcome EXCEPT ![s][f] = v] \in [Sessions -> [Phases -> CallOutcomes]]
  <1>1. /\ thread \in [Sessions -> [Phases -> ThreadStates]]
        /\ outcome \in [Sessions -> [Phases -> CallOutcomes]]
    BY DEF CallTypeOK, ThreadStates, CallOutcomes
  <1> QED BY <1>1, Updated

-----------------------------------------------------------------------------
(* The steps.                                                              *)

LEMMA CallerOpens ==
  ASSUME IInv, OpenSession \/ StartCall
  PROVE IInv'
  <1> USE DeadlineCallAssumption DEF IInv, Sessions, Phases
  <1>1. CASE OpenSession
    <2> USE <1>1 DEF OpenSession, Goto, calls, resources
    <2>1. CallTypeOK' BY DEF CallTypeOK
    <2>2. LeftBehind' BY DEF LeftBehind
    <2>3. YetToCome' BY DEF YetToCome, Fresh
    <2>4. Fresh(current) /\ Fresh(current)' BY DEF Standing, Fresh
    <2>5. OneThread' BY <2>4 DEF OneThread, Live, Fresh, CallTypeOK
    <2>6. Waiting' /\ Left' BY <2>4 DEF Waiting, Left
    <2>7. Standing' BY <2>4 DEF Standing, Fresh, CallTypeOK
    <2>8. ClosedOnce' BY DEF ClosedOnce
    <2> QED BY <2>1, <2>2, <2>3, <2>5, <2>6, <2>7, <2>8
  <1>2. CASE StartCall /\ late
    <2> USE <1>2 DEF StartCall, Goto, Dispose, Close, ClosedResponse, calls
    <2>1. CallTypeOK'
      <3>1. closes' \in [Sessions -> Nat]
        BY SMTT(30) DEF CallTypeOK
      <3>2. response' \in [Sessions -> {"none", "open", "closed"}]
        BY DEF CallTypeOK
      <3> QED BY <3>1, <3>2 DEF CallTypeOK
    <2>2. LeftBehind' BY DEF LeftBehind, CallTypeOK
    <2>3. YetToCome' BY DEF YetToCome, Fresh, CallTypeOK
    <2>4. OneThread' BY DEF OneThread, Live
    <2>5. Waiting' BY DEF Waiting
    <2>6. closes'[current] = 1 /\ \A f \in Phases : ~Live(current, f)'
      BY DEF Standing, CallTypeOK, OneThread, Live
    <2>7. Left' BY <2>6 DEF Left
    <2>8. Standing' BY DEF Standing, CallTypeOK
    <2>9. ClosedOnce' BY DEF ClosedOnce, CallTypeOK, Standing
    <2> QED BY <2>1, <2>2, <2>3, <2>4, <2>5, <2>7, <2>8, <2>9
  <1>3. CASE StartCall /\ ~late
    <2> USE <1>3 DEF StartCall, Goto, resources
    <2>1. CallTypeOK'
      <3>1. current \in Sessions /\ phase \in Phases
        BY DEF CallTypeOK
      <3>2. thread' \in [Sessions -> [Phases -> ThreadStates]]
        <4>1. thread' = [thread EXCEPT ![current][phase] = "working"]
          OBVIOUS
        <4> QED BY <3>1, <4>1, CallsUpdated, StatesOfThread
      <3> QED BY <3>2 DEF CallTypeOK, ThreadStates
    <2>2. LeftBehind' BY DEF LeftBehind
    <2>3. YetToCome' BY DEF YetToCome, Fresh, CallTypeOK
    <2>4. OneThread' BY DEF OneThread, Live, CallTypeOK
    <2>5. Waiting' BY DEF Waiting, CallTypeOK, OneThread
    <2>6. Left' BY DEF Left
    <2>7. Standing' BY DEF Standing, CallTypeOK
    <2>8. ClosedOnce' BY DEF ClosedOnce, CallTypeOK
    <2> QED BY <2>1, <2>2, <2>3, <2>4, <2>5, <2>6, <2>7, <2>8
  <1> QED BY <1>1, <1>2, <1>3

LEMMA CallerWaits ==
  ASSUME IInv, TakeOutcome \/ GiveUp \/ DropLate
  PROVE IInv'
  <1> USE DeadlineCallAssumption DEF IInv, Sessions, Phases
  <1>1. CASE TakeOutcome
    <2> USE <1>1 DEF TakeOutcome, Goto, resources
    <2>1. CallTypeOK' BY DEF CallTypeOK
    <2>2. LeftBehind' BY DEF LeftBehind
    <2>3. YetToCome' BY DEF YetToCome, Fresh
    <2>4. thread[current][phase] = "ended" /\ \A f \in Phases : ~Live(current, f)
      BY DEF Waiting, OneThread, Live, CallTypeOK
    <2>5. OneThread' BY <2>4 DEF OneThread, Live, CallTypeOK
    <2>6. Waiting' /\ Left' BY DEF Waiting, Left
    <2>7. Standing' BY DEF Standing, CallTypeOK
    <2>8. ClosedOnce' BY DEF ClosedOnce
    <2> QED BY <2>1, <2>2, <2>3, <2>5, <2>6, <2>7, <2>8
  <1>2. CASE GiveUp
    <2> USE <1>2 DEF GiveUp, Goto, resources
    <2>1. CallTypeOK' BY DEF CallTypeOK
    <2>2. LeftBehind' BY DEF LeftBehind
    <2>3. YetToCome' BY DEF YetToCome, Fresh
    <2>4. OneThread' BY DEF OneThread, Live, CallTypeOK, Waiting
    <2>5. Waiting' BY DEF Waiting
    <2>6. Left'
      <3>1. CASE outcome[current][phase] = "empty"
        <4>1. Live(current, phase)' /\ closes'[current] = 0 /\ abandoned'[current][phase]
          BY <3>1 DEF Waiting, Live, CallTypeOK, ClosedOnce
        <4> QED BY <4>1 DEF Left
      <3>2. CASE outcome[current][phase] # "empty"
        BY <3>2 DEF Left
      <3> QED BY <3>1, <3>2
    <2>7. Standing' BY DEF Standing, CallTypeOK
    <2>8. ClosedOnce' BY DEF ClosedOnce
    <2> QED BY <2>1, <2>2, <2>3, <2>4, <2>5, <2>6, <2>7, <2>8
  <1>3. CASE DropLate
    <2> USE <1>3 DEF DropLate, Goto, Dispose, Close, ClosedResponse, calls
    <2>1. CallTypeOK' BY SMTT(30) DEF CallTypeOK
    <2>2. LeftBehind' BY DEF LeftBehind, CallTypeOK
    <2>3. YetToCome' BY DEF YetToCome, Fresh, CallTypeOK
    <2>4. OneThread' BY DEF OneThread, Live
    <2>5. Waiting' BY DEF Waiting
    <2>6. closes'[current] = 1 /\ \A f \in Phases : ~Live(current, f)'
      BY DEF ClosedOnce, CallTypeOK, OneThread, Live
    <2>7. Left' BY <2>6 DEF Left
    <2>8. Standing' BY DEF Standing, CallTypeOK
    <2>9. ClosedOnce' BY DEF ClosedOnce, CallTypeOK
    <2> QED BY <2>1, <2>2, <2>3, <2>4, <2>5, <2>7, <2>8, <2>9
  <1> QED BY <1>1, <1>2, <1>3

LEMMA CallerReads ==
  ASSUME IInv, ReadBody \/ Refuse
  PROVE IInv'
  <1> USE DeadlineCallAssumption DEF IInv, Sessions, Phases, ReadBody, Refuse, Goto, calls, resources
  <1>1. CallTypeOK' BY DEF CallTypeOK
  <1>2. LeftBehind' BY DEF LeftBehind
  <1>3. YetToCome' BY DEF YetToCome, Fresh
  <1>4. OneThread' BY DEF OneThread, Live
  <1>5. Waiting' /\ Left' BY DEF Waiting, Left
  <1>6. Standing' BY DEF Standing, CallTypeOK, ClosedOnce
  <1>7. ClosedOnce' BY DEF ClosedOnce
  <1> QED BY <1>1, <1>2, <1>3, <1>4, <1>5, <1>6, <1>7

LEMMA CallerCloses ==
  ASSUME IInv, CloseResponse \/ CloseFailed
  PROVE IInv'
  <1> USE DeadlineCallAssumption DEF IInv, Sessions, Phases
  <1>1. /\ at \in {"close", "closeFailed"} /\ Close(current)
        /\ UNCHANGED <<kind, late, phase, calls>>
        /\ \/ at' = "ended" /\ current' = current
           \/ at' = "open" /\ current' = current + 1 /\ current < MaxSessions
    BY DEF CloseResponse, CloseFailed, Goto
  <1>2. /\ closes' = [closes EXCEPT ![current] = 1]
        /\ response' = [response EXCEPT ![current] = IF @ = "open" THEN "closed" ELSE @]
        /\ UNCHANGED <<kind, late, phase, thread, outcome, abandoned>>
    <2>1. current \in Sessions /\ closes[current] = 0
      BY <1>1 DEF ClosedOnce, CallTypeOK
    <2> QED BY <1>1, <2>1 DEF Close, ClosedResponse, calls, CallTypeOK
  <1>3. \A s \in Sessions, f \in Phases : ~Live(s, f) /\ outcome[s][f] = "empty" /\ ~abandoned[s][f]
    BY <1>1 DEF OneThread, CallTypeOK
  <1>4. CallTypeOK' BY SMTT(30), <1>1, <1>2 DEF CallTypeOK
  <1>5. LeftBehind' BY <1>1, <1>2 DEF LeftBehind, CallTypeOK
  <1>6. YetToCome' BY <1>1, <1>2 DEF YetToCome, Fresh, CallTypeOK
  <1>7. OneThread' BY <1>2, <1>3 DEF OneThread, Live
  <1>8. Waiting' BY <1>1 DEF Waiting
  <1>9. Left' BY <1>1, <1>2, <1>3 DEF Left, Live, CallTypeOK
  <1>10. Standing'
    <2>1. at' = "open" => Fresh(current)'
      BY <1>1, <1>2 DEF YetToCome, Fresh, CallTypeOK
    <2> QED BY <1>1, <1>2, <2>1 DEF Standing, Fresh
  <1>11. ClosedOnce' BY <1>1, <1>2 DEF ClosedOnce, CallTypeOK
  <1> QED BY <1>4, <1>5, <1>6, <1>7, <1>8, <1>9, <1>10, <1>11

LEMMA ThreadWorks ==
  ASSUME IInv, NEW s \in Sessions, NEW f \in Phases, Work(s, f)
  PROVE IInv'
  <1> USE DeadlineCallAssumption DEF IInv, Sessions, Phases
  <1>1. /\ s = current /\ f = phase /\ at \in {"wait", "ended"} /\ closes[s] = 0
        /\ at = "ended" => abandoned[s][f]
    BY DEF Work, OneThread, Live, Left, Fresh, ClosedOnce, CallTypeOK
  <1> USE DEF Work
  <1>2. CallTypeOK'
    <2>1. thread' \in [Sessions -> [Phases -> ThreadStates]]
      <3>1. \/ thread' = [thread EXCEPT ![s][f] = "worked"]
            \/ thread' = [thread EXCEPT ![s][f] = "failed"]
        OBVIOUS
      <3>3. CASE thread' = [thread EXCEPT ![s][f] = "worked"]
        BY <3>3, CallsUpdated, StatesOfThread
      <3>4. CASE thread' = [thread EXCEPT ![s][f] = "failed"]
        BY <3>4, CallsUpdated, StatesOfThread
      <3> QED BY <3>1, <3>3, <3>4
    <2>2. response' \in [Sessions -> {"none", "open", "closed"}]
      BY DEF CallTypeOK
    <2> QED BY <2>1, <2>2 DEF CallTypeOK, ThreadStates
  <1>3. LeftBehind' BY DEF LeftBehind
  <1>4. YetToCome' BY <1>1 DEF YetToCome, Fresh, CallTypeOK
  <1>5. OneThread' BY <1>1 DEF OneThread, Live, CallTypeOK
  <1>6. Waiting' BY <1>1 DEF Waiting, CallTypeOK
  <1>7. Left' BY <1>1 DEF Left, Live, CallTypeOK
  <1>8. Standing' BY <1>1 DEF Standing, CallTypeOK
  <1>9. ClosedOnce' BY <1>1 DEF ClosedOnce, CallTypeOK
  <1> QED BY <1>2, <1>3, <1>4, <1>5, <1>6, <1>7, <1>8, <1>9

LEMMA ThreadDelivers ==
  ASSUME IInv, NEW s \in Sessions, NEW f \in Phases, Deliver(s, f)
  PROVE IInv'
  <1> USE DeadlineCallAssumption DEF IInv, Sessions, Phases
  <1>1. /\ s = current /\ f = phase /\ at \in {"wait", "ended"} /\ closes[s] = 0
        /\ at = "ended" <=> abandoned[s][f]
    BY DEF Deliver, OneThread, Live, Left, Fresh, ClosedOnce, CallTypeOK
  <1> USE DEF Deliver, resources
  <1>2. CallTypeOK'
    <2>1. thread' \in [Sessions -> [Phases -> ThreadStates]]
      <3>2. \/ thread' = [thread EXCEPT ![s][f] = "disposing"]
            \/ thread' = [thread EXCEPT ![s][f] = "ended"]
        OBVIOUS
      <3>3. CASE thread' = [thread EXCEPT ![s][f] = "disposing"]
        BY <3>3, CallsUpdated, StatesOfThread
      <3>4. CASE thread' = [thread EXCEPT ![s][f] = "ended"]
        BY <3>4, CallsUpdated, StatesOfThread
      <3> QED BY <3>2, <3>3, <3>4
    <2>2. outcome' \in [Sessions -> [Phases -> CallOutcomes]]
      <3>1. outcome \in [Sessions -> [Phases -> CallOutcomes]]
        BY DEF CallTypeOK, CallOutcomes
      <3> QED BY <3>1, CallsUpdated DEF CallOutcomes
    <2> QED BY <2>1, <2>2 DEF CallTypeOK, ThreadStates, CallOutcomes
  <1>3. LeftBehind' BY DEF LeftBehind
  <1>4. YetToCome' BY <1>1 DEF YetToCome, Fresh, CallTypeOK
  <1>5. OneThread' BY <1>1 DEF OneThread, Live, CallTypeOK
  <1>6. Waiting' BY <1>1 DEF Waiting, CallTypeOK
  <1>7. Left' BY <1>1 DEF Left, Live, CallTypeOK
  <1>8. Standing' BY <1>1 DEF Standing, CallTypeOK
  <1>9. ClosedOnce' BY <1>1 DEF ClosedOnce, CallTypeOK
  <1> QED BY <1>2, <1>3, <1>4, <1>5, <1>6, <1>7, <1>8, <1>9

LEMMA ThreadReleases ==
  ASSUME IInv, NEW s \in Sessions, NEW f \in Phases, ThreadDisposes(s, f)
  PROVE IInv'
  <1> USE DeadlineCallAssumption DEF IInv, Sessions, Phases
  <1>1. s = current /\ f = phase /\ at = "ended" /\ closes[s] = 0
    BY DEF ThreadDisposes, OneThread, Live, Left, Fresh, ClosedOnce, CallTypeOK
  <1>2. \A g \in Phases : Live(current, g) => g = f
    BY <1>1 DEF OneThread
  <1> USE DEF ThreadDisposes, Dispose, Close, ClosedResponse
  <1>3. CallTypeOK' BY SMTT(30) DEF CallTypeOK
  <1>4. LeftBehind' BY <1>1 DEF LeftBehind, CallTypeOK
  <1>5. YetToCome' BY <1>1 DEF YetToCome, Fresh, CallTypeOK
  <1>6. OneThread' BY <1>1 DEF OneThread, Live, CallTypeOK
  <1>7. Waiting' BY <1>1 DEF Waiting
  <1>8. Left' BY <1>1, <1>2 DEF Left, Live, CallTypeOK
  <1>9. Standing' BY <1>1 DEF Standing, CallTypeOK
  <1>10. ClosedOnce' BY <1>1 DEF ClosedOnce, CallTypeOK
  <1> QED BY <1>3, <1>4, <1>5, <1>6, <1>7, <1>8, <1>9, <1>10

LEMMA NothingMoves ==
  ASSUME IInv, UNCHANGED <<kind, at, current, phase, calls, resources>>, late' \in BOOLEAN
  PROVE IInv'
  <1> USE DEF calls, resources
  <1>1. CallTypeOK' BY DEF IInv, CallTypeOK
  <1> QED BY <1>1 DEF IInv, LeftBehind, YetToCome, Fresh, OneThread, Live, Waiting, Left, Standing, ClosedOnce

LEMMA NextInv == IInv /\ [CallNext]_callVars => IInv'
  <1> SUFFICES ASSUME IInv, [CallNext]_callVars PROVE IInv'
    OBVIOUS
  <1>1. CASE Caller
    BY <1>1, CallerOpens, CallerWaits, CallerReads, CallerCloses DEF Caller
  <1>2. CASE Thread
    BY <1>2, ThreadWorks, ThreadDelivers, ThreadReleases DEF Thread
  <1>3. CASE Tick
    BY <1>3, NothingMoves DEF Tick
  <1>4. CASE UNCHANGED callVars
    BY <1>4, NothingMoves DEF callVars, calls, resources, IInv, CallTypeOK
  <1> QED BY <1>1, <1>2, <1>3, <1>4 DEF CallNext

LEMMA Invariant == CallSpec => []IInv
  <1> QED BY CallInitInv, NextInv, PTL DEF CallSpec

\* The types of DeadlineCall, for any number of sessions.
THEOREM CallTypeCorrect == CallSpec => []CallTypeOK
  <1>1. IInv => CallTypeOK
    BY DEF IInv
  <1> QED BY <1>1, Invariant, PTL

\* _run_before_download_deadline and its users: for any number of addresses and
\* redirects, whenever the deadline passes and however late the abandoned thread ends,
\* a session is released by exactly one of caller and thread, and not while in use.
THEOREM EachReleasedOnce == CallSpec => []ReleasedOnceAfterUse
  <1> QED BY Invariant, InvImplies, PTL
===============================================================================
