---------------------------- MODULE PublishProofs ----------------------------
(***************************************************************************)
(* Theorems about Publish, for any number of runs and names and any set of *)
(* file systems.                                                           *)
(***************************************************************************)
EXTENDS Publish, TLAPS

\* While a run is working it has an attempt left.
Bounded ==
  \A p \in Procs :
    /\ pc[p] \in Working \ {"exit"} => tries[p] < Limit(p)
    /\ pc[p] \in {"drawTemp", "createTemp"} => redraws[p] < TempLimit

LEMMA LimitType == \A p \in Procs : Limit(p) \in Nat \ {0}
BY PublishAssumption DEF Limit

LEMMA FilesType ==
  ASSUME TypeOK, NEW p \in Procs
  PROVE  /\ name[p] \in Names /\ temp[p] \in Names
         /\ Free \in Entry /\ UserFile \in Entry
         /\ OwnFile(p, FALSE, FALSE) \in Entry
         /\ OwnFile(p, stage[p].whole, stage[p].stable) \in Entry
         /\ \A e \in Entry : Fsynced(e) \in Entry /\ Filled(e, p) \in Entry
         /\ \A n \in Names : Unlinked(n) \in [Names -> Entry]
BY DEF TypeOK, Free, UserFile, OwnFile, Fsynced, Filled, Entry, Stage, Unlinked, Names

LEMMA StageType ==
  ASSUME NEW s \in Stage
  PROVE  Linkable(s) \in Stage /\ Written(s) \in Stage /\ Fsynced(s) \in Stage
BY DEF Linkable, Written, Fsynced, Stage

LEMMA InitStarts ==
  ASSUME Init
  PROVE  /\ pc \in [Procs -> {"done", "pick", "stage"}]
         /\ \A p \in Procs : pc[p] = "pick" => p \in Conceals
<1>1. PICK started \in Starts :
        pc = [p \in Procs |-> CASE p \notin started -> "done"
                               [] p \in started \cap Conceals -> "pick"
                               [] p \in started \cap Recovers -> "stage"]
  BY DEF Init
<1>2. ASSUME NEW p \in Procs
      PROVE  pc[p] \in {"done", "pick", "stage"} /\ (pc[p] = "pick" => p \in Conceals)
  <2>1. CASE p \notin started
    BY <1>1, <2>1
  <2>2. CASE p \in started /\ p \in Conceals
    BY <1>1, <2>2, PublishAssumption
  <2>3. CASE p \in started /\ p \in Recovers
    BY <1>1, <2>3, PublishAssumption
  <2> QED BY <2>1, <2>2, <2>3 DEF Procs
<1> QED BY <1>1, <1>2

LEMMA InitType == Init => TypeOK /\ Bounded
<1> SUFFICES ASSUME Init PROVE TypeOK /\ Bounded
  OBVIOUS
<1>1. dir \in [Names -> Entry]
  BY DEF Init, Free, UserFile, Entry
<1>2. name \in [Procs -> FinalNames]
  <2>1. Candidate[0] \in FinalNames
    BY PublishAssumption DEF FinalNames
  <2>2. (CHOOSE n \in ImageNames : TRUE) \in FinalNames
    BY PublishAssumption DEF FinalNames
  <2> QED BY <2>1, <2>2 DEF Init
<1>3. temp \in [Procs -> TempNames]
  BY PublishAssumption DEF Init
<1>4. TypeOK
  <2>1. pc \in [Procs -> Labels]
    BY InitStarts DEF Labels, Working
  <2>2. /\ fs \in FileSystems /\ disk = dir
        /\ stage = [p \in Procs |-> [link |-> FALSE, whole |-> FALSE, stable |-> FALSE]]
        /\ tries = [p \in Procs |-> 0] /\ redraws = [p \in Procs |-> 0]
        /\ after = [p \in Procs |-> "failed"]
        /\ pending = [p \in Procs |-> FALSE] /\ key = [p \in Procs |-> FALSE]
        /\ result = [p \in Procs |-> "none"]
    BY DEF Init
  <2> QED
    BY <1>1, <1>2, <1>3, <2>1, <2>2, LimitType, PublishAssumption DEF TypeOK, Results, Stage
<1>5. Bounded
  BY LimitType, PublishAssumption DEF Init, Bounded
<1> QED BY <1>4, <1>5

LEMMA NameTakenType ==
  ASSUME TypeOK, Bounded, NEW p \in Procs, pc[p] \in Working \ {"exit"}, NameTaken(p)
  PROVE  /\ pc' \in [Procs -> Labels] /\ name' \in [Procs -> FinalNames]
         /\ tries' \in [Procs -> Nat] /\ result' \in [Procs -> Results]
         /\ tries' = [tries EXCEPT ![p] = tries[p] + 1]
         /\ \/ tries[p] + 1 < Limit(p) /\ pc'[p] \in {"repick", "link"}
            \/ tries[p] + 1 = Limit(p) /\ pc'[p] = "exit"
         /\ \A q \in Procs \ {p} : pc'[q] = pc[q]
<1>1. tries[p] + 1 \in Nat /\ tries[p] + 1 <= Limit(p) /\ Limit(p) \in Nat
  BY LimitType DEF TypeOK, Bounded
<1>2. ASSUME ~Exhausted(p), p \in Recovers PROVE Candidate[Attempt(p)] \in FinalNames
  BY <1>1, <1>2, PublishAssumption DEF Exhausted, Attempt, Limit, FinalNames, Procs
<1>3. name' \in [Procs -> FinalNames]
  BY <1>2 DEF NameTaken, TypeOK, Procs
<1>4. /\ tries' = [tries EXCEPT ![p] = tries[p] + 1]
      /\ tries' \in [Procs -> Nat]
  BY <1>1 DEF NameTaken, Attempt, TypeOK
<1>5. CASE Exhausted(p)
  <2>1. tries[p] + 1 = Limit(p)
    BY <1>1, <1>5 DEF Exhausted, Attempt
  <2>2. pc' = [pc EXCEPT ![p] = "exit"] /\ result' = [result EXCEPT ![p] = "failed"]
    BY <1>5 DEF NameTaken, Return, Goto
  <2> QED BY <1>3, <1>4, <2>1, <2>2 DEF TypeOK, Labels, Working, Results
<1>6. CASE ~Exhausted(p)
  <2>1. tries[p] + 1 < Limit(p)
    BY <1>1, <1>6 DEF Exhausted, Attempt
  <2>2. /\ \/ pc' = [pc EXCEPT ![p] = "repick"]
           \/ pc' = [pc EXCEPT ![p] = "link"]
        /\ result' = result
    BY <1>6 DEF NameTaken, Goto
  <2> QED BY <1>3, <1>4, <2>1, <2>2 DEF TypeOK, Labels, Working
<1> QED BY <1>5, <1>6

LEMMA StepType ==
  ASSUME TypeOK, Bounded, NEW p \in Procs, Step(p)
  PROVE  TypeOK' /\ Bounded'
<1> USE DEF files, plan, env, Goto, Return
<1>a. /\ dir \in [Names -> Entry] /\ disk \in [Names -> Entry]
      /\ name[p] \in Names /\ temp[p] \in Names
      /\ Free \in Entry
      /\ OwnFile(p, FALSE, FALSE) \in Entry
      /\ OwnFile(p, stage[p].whole, stage[p].stable) \in Entry
      /\ \A e \in Entry : Fsynced(e) \in Entry /\ Filled(e, p) \in Entry
      /\ \A n \in Names : Unlinked(n) \in [Names -> Entry]
  BY FilesType DEF TypeOK
<1>c. TempLimit \in Nat /\ 0 < TempLimit
  BY PublishAssumption
<1>b. ASSUME pc[p] \in Working \ {"exit"}, NameTaken(p)
      PROVE  /\ pc' \in [Procs -> Labels] /\ name' \in [Procs -> FinalNames]
             /\ tries' \in [Procs -> Nat] /\ result' \in [Procs -> Results]
             /\ tries' = [tries EXCEPT ![p] = tries[p] + 1]
             /\ tries[p] + 1 <= Limit(p)
             /\ pc'[p] \in {"repick", "link", "exit"}
             /\ pc'[p] # "exit" => tries'[p] < Limit(p)
             /\ \A q \in Procs \ {p} : pc'[q] = pc[q]
  BY <1>b, NameTakenType, LimitType DEF TypeOK
<1>1. CASE PickName(p)
  <2>1. TypeOK'
    BY <1>1, LimitType DEF PickName, FinalNames, TypeOK, Bounded, Labels, Working, Results
  <2>2. Bounded'
    BY <1>1, LimitType DEF PickName, FinalNames, TypeOK, Bounded, Working
  <2> QED BY <2>1, <2>2
<1>2. CASE OpenStage(p)
  <2>1. CASE /\ \/ /\ stage' = [stage EXCEPT ![p] = Linkable(stage[p])]
                   /\ Goto(p, "write") /\ UNCHANGED result
                \/ Return(p, "failed") /\ UNCHANGED stage
             /\ UNCHANGED <<dir, temp>>
    <3>1. stage' \in [Procs -> Stage]
      BY <2>1, StageType DEF TypeOK
    <3>2. TypeOK'
      BY <1>2, <2>1, <3>1, LimitType DEF OpenStage, TypeOK, Labels, Working, Results
    <3>3. Bounded'
      BY <1>2, <2>1, LimitType DEF OpenStage, TypeOK, Bounded, Working
    <3> QED BY <3>2, <3>3
  <2>2. CASE \E t \in TempNames :
               /\ dir' = [dir EXCEPT ![t] = OwnFile(p, FALSE, FALSE)]
               /\ temp' = [temp EXCEPT ![p] = t]
               /\ Goto(p, "detach")
               /\ UNCHANGED <<stage, result>>
    <3>1. PICK t \in TempNames :
            /\ dir' = [dir EXCEPT ![t] = OwnFile(p, FALSE, FALSE)]
            /\ temp' = [temp EXCEPT ![p] = t]
            /\ Goto(p, "detach")
            /\ UNCHANGED <<stage, result>>
      BY <2>2
    <3>2. dir' \in [Names -> Entry]
      BY <3>1, <1>a DEF Names
    <3>3. TypeOK'
      BY <1>2, <3>1, <3>2, LimitType DEF OpenStage, TypeOK, Labels, Working
    <3>4. Bounded'
      BY <1>2, <3>1, LimitType DEF OpenStage, TypeOK, Bounded, Working
    <3> QED BY <3>3, <3>4
  <2> QED BY <1>2, <2>1, <2>2 DEF OpenStage
<1>3. CASE DetachStage(p)
  <2>1. dir' \in [Names -> Entry] /\ disk' \in [Names -> Entry]
    BY <1>3, <1>a DEF DetachStage
  <2>2. TypeOK'
    BY <1>3, <2>1, LimitType DEF DetachStage, TypeOK, Bounded, Labels, Working, Results
  <2>3. Bounded'
    BY <1>3, LimitType DEF DetachStage, TypeOK, Bounded, Working
  <2> QED BY <2>2, <2>3
<1>4. CASE WriteStage(p)
  <2>1. TypeOK'
    BY <1>4, LimitType, StageType DEF WriteStage, TypeOK, Bounded, Labels, Working, Results
  <2>2. Bounded'
    BY <1>4, LimitType DEF WriteStage, TypeOK, Bounded, Working
  <2> QED BY <2>1, <2>2
<1>5. CASE CloseStage(p)
  <2>1. TypeOK'
    BY <1>5, LimitType, StageType DEF CloseStage, TypeOK, Bounded, Labels, Working, Results
  <2>2. Bounded'
    BY <1>5, LimitType DEF CloseStage, TypeOK, Bounded, Working
  <2> QED BY <2>1, <2>2
<1>6. CASE Link(p)
  <2>1. dir' \in [Names -> Entry] /\ disk' \in [Names -> Entry]
    BY <1>6, <1>a DEF Link
  <2>2. TypeOK'
    BY <1>6, <2>1, <1>b, LimitType DEF Link, TypeOK, Bounded, Labels, Working, Results
  <2>3. Bounded'
    BY <1>6, <1>b, LimitType DEF Link, TypeOK, Bounded, Working
  <2> QED BY <2>2, <2>3
<1>7. CASE LookUp(p)
  <2>1. TypeOK'
    BY <1>7, <1>b, <1>c, LimitType DEF LookUp, TypeOK, Bounded, Labels, Working, Results
  <2>2. Bounded'
    BY <1>7, <1>b, LimitType, <1>c DEF LookUp, TypeOK, Bounded, Working
  <2> QED BY <2>1, <2>2
<1>8. CASE DrawTemp(p)
  <2>1. TypeOK'
    BY <1>8, LimitType DEF DrawTemp, TypeOK, Bounded, Labels, Working, Results
  <2>2. Bounded'
    BY <1>8, LimitType DEF DrawTemp, TypeOK, Bounded, Working
  <2> QED BY <2>1, <2>2
<1>9. CASE CreateTemp(p)
  <2>1. dir' \in [Names -> Entry] /\ disk' \in [Names -> Entry]
    BY <1>9, <1>a DEF CreateTemp
  <2>2. redraws[p] \in Nat /\ redraws[p] < TempLimit
    BY <1>9 DEF CreateTemp, TypeOK, Bounded
  <2>3. CASE redraws' = redraws /\ (pc' = [pc EXCEPT ![p] = "fillTemp"] \/ Return(p, "failed"))
    <3>1. TypeOK'
      BY <1>9, <2>1, <2>3, LimitType DEF CreateTemp, TypeOK, Labels, Working, Results
    <3>2. Bounded'
      BY <1>9, <2>3, LimitType DEF CreateTemp, TypeOK, Bounded, Working
    <3> QED BY <3>1, <3>2
  <2>4. CASE /\ redraws' = [redraws EXCEPT ![p] = redraws[p] + 1]
             /\ IF redraws[p] + 1 >= TempLimit THEN Return(p, "failed")
                ELSE Goto(p, "drawTemp") /\ UNCHANGED result
    <3>1. /\ redraws[p] + 1 \in Nat /\ redraws[p] + 1 <= TempLimit
          /\ redraws[p] + 1 >= TempLimit \/ redraws[p] + 1 < TempLimit
      BY <2>2, <1>c
    <3>2. TypeOK'
      BY <1>9, <2>1, <2>4, <3>1, LimitType DEF CreateTemp, TypeOK, Labels, Working, Results
    <3>3. Bounded'
      BY <1>9, <2>4, <3>1, LimitType DEF CreateTemp, TypeOK, Bounded, Working
    <3> QED BY <3>2, <3>3
  <2> QED BY <1>9, <2>3, <2>4 DEF CreateTemp
<1>10. CASE FillTemp(p)
  <2>1. dir' \in [Names -> Entry] /\ disk' \in [Names -> Entry]
    BY <1>10, <1>a DEF FillTemp, Fill
  <2>2. TypeOK'
    BY <1>10, <2>1, LimitType DEF FillTemp, Fill, TypeOK, Bounded, Labels, Working, Results
  <2>3. Bounded'
    BY <1>10, LimitType DEF FillTemp, Fill, TypeOK, Bounded, Working
  <2> QED BY <2>2, <2>3
<1>11. CASE SyncTemp(p)
  <2>1. dir' \in [Names -> Entry] /\ disk' \in [Names -> Entry]
    BY <1>11, <1>a DEF SyncTemp, Sync
  <2>2. TypeOK'
    BY <1>11, <2>1, LimitType DEF SyncTemp, Sync, TypeOK, Bounded, Labels, Working, Results
  <2>3. Bounded'
    BY <1>11, LimitType DEF SyncTemp, Sync, TypeOK, Bounded, Working
  <2> QED BY <2>2, <2>3
<1>12. CASE Rename(p)
  <2>1. dir' \in [Names -> Entry] /\ disk' \in [Names -> Entry]
    BY <1>12, <1>a DEF Rename, MayRename
  <2>2. TypeOK'
    BY <1>12, <2>1, LimitType DEF Rename, MayRename, TypeOK, Bounded, Labels, Working, Results
  <2>3. Bounded'
    BY <1>12, LimitType DEF Rename, MayRename, TypeOK, Bounded, Working
  <2> QED BY <2>2, <2>3
<1>13. CASE HardLink(p)
  <2>1. dir' \in [Names -> Entry] /\ disk' \in [Names -> Entry]
    BY <1>13, <1>a DEF HardLink
  <2>2. TypeOK'
    BY <1>13, <2>1, LimitType DEF HardLink, TypeOK, Bounded, Labels, Working, Results
  <2>3. Bounded'
    BY <1>13, LimitType DEF HardLink, TypeOK, Bounded, Working
  <2> QED BY <2>2, <2>3
<1>14. CASE DropTemp(p)
  <2>1. dir' \in [Names -> Entry] /\ disk' \in [Names -> Entry]
    BY <1>14, <1>a DEF DropTemp, AfterDrop
  <2>2. TypeOK'
    BY <1>14, <2>1, <1>b, LimitType DEF DropTemp, AfterDrop, TypeOK, Bounded, Labels, Working, Results
  <2>3. Bounded'
    BY <1>14, <1>b, LimitType DEF DropTemp, AfterDrop, TypeOK, Bounded, Working
  <2> QED BY <2>2, <2>3
<1>15. CASE CreateDirect(p)
  <2>1. dir' \in [Names -> Entry] /\ disk' \in [Names -> Entry]
    BY <1>15, <1>a DEF CreateDirect
  <2>2. TypeOK'
    BY <1>15, <2>1, <1>b, LimitType DEF CreateDirect, TypeOK, Bounded, Labels, Working, Results
  <2>3. Bounded'
    BY ZenonT(40), <1>15, <1>b, LimitType DEF CreateDirect, TypeOK, Bounded, Working
  <2> QED BY <2>2, <2>3
<1>16. CASE FillDirect(p)
  <2>1. dir' \in [Names -> Entry] /\ disk' \in [Names -> Entry]
    BY <1>16, <1>a DEF FillDirect, Fill
  <2>2. TypeOK'
    BY <1>16, <2>1, LimitType DEF FillDirect, Fill, TypeOK, Bounded, Labels, Working, Results
  <2>3. Bounded'
    BY <1>16, LimitType DEF FillDirect, Fill, TypeOK, Bounded, Working
  <2> QED BY <2>2, <2>3
<1>17. CASE SyncDirect(p)
  <2>1. dir' \in [Names -> Entry] /\ disk' \in [Names -> Entry]
    BY <1>17, <1>a DEF SyncDirect, Sync
  <2>2. TypeOK'
    BY <1>17, <2>1, LimitType DEF SyncDirect, Sync, TypeOK, Bounded, Labels, Working, Results
  <2>3. Bounded'
    BY <1>17, LimitType DEF SyncDirect, Sync, TypeOK, Bounded, Working
  <2> QED BY <2>2, <2>3
<1>18. CASE DropDirect(p)
  <2>1. dir' \in [Names -> Entry] /\ disk' \in [Names -> Entry]
    BY <1>18, <1>a DEF DropDirect
  <2>2. TypeOK'
    BY <1>18, <2>1, LimitType DEF DropDirect, TypeOK, Bounded, Labels, Working, Results
  <2>3. Bounded'
    BY <1>18, LimitType DEF DropDirect, TypeOK, Bounded, Working
  <2> QED BY <2>2, <2>3
<1>19. CASE SyncDir(p)
  <2>1. TypeOK'
    BY <1>19, LimitType DEF SyncDir, TypeOK, Bounded, Labels, Working, Results
  <2>2. Bounded'
    BY <1>19, LimitType DEF SyncDir, TypeOK, Bounded, Working
  <2> QED BY <2>1, <2>2
<1>20. CASE Announce(p)
  <2>1. TypeOK'
    BY <1>20, LimitType DEF Announce, TypeOK, Bounded, Labels, Working, Results
  <2>2. Bounded'
    BY <1>20, LimitType DEF Announce, TypeOK, Bounded, Working
  <2> QED BY <2>1, <2>2
<1>21. CASE ShowKey(p)
  <2>1. TypeOK'
    BY <1>21, LimitType DEF ShowKey, TypeOK, Bounded, Labels, Working, Results
  <2>2. Bounded'
    BY <1>21, LimitType DEF ShowKey, TypeOK, Bounded, Working
  <2> QED BY <2>1, <2>2
<1>22. CASE Trailer(p)
  <2>1. TypeOK'
    BY <1>22, LimitType DEF Trailer, TypeOK, Bounded, Labels, Working, Results
  <2>2. Bounded'
    BY <1>22, LimitType DEF Trailer, TypeOK, Bounded, Working
  <2> QED BY <2>1, <2>2
<1>23. CASE Withdraw(p)
  <2>1. dir' \in [Names -> Entry] /\ disk' \in [Names -> Entry]
    BY <1>23, <1>a DEF Withdraw
  <2>2. TypeOK'
    BY <1>23, <2>1, LimitType DEF Withdraw, TypeOK, Bounded, Labels, Working, Results
  <2>3. Bounded'
    BY <1>23, LimitType DEF Withdraw, TypeOK, Bounded, Working
  <2> QED BY <2>2, <2>3
<1>24. CASE Report(p)
  <2>1. TypeOK'
    BY <1>24, LimitType DEF Report, TypeOK, Bounded, Labels, Working, Results
  <2>2. Bounded'
    BY <1>24, LimitType DEF Report, TypeOK, Bounded, Working
  <2> QED BY <2>1, <2>2
<1>25. CASE Exit(p)
  <2>1. TypeOK'
    BY <1>25, LimitType DEF Exit, TypeOK, Bounded, Labels, Working, Results
  <2>2. Bounded'
    BY <1>25, LimitType DEF Exit, TypeOK, Bounded, Working
  <2> QED BY <2>1, <2>2
<1> QED
  BY <1>1, <1>2, <1>3, <1>4, <1>5, <1>6, <1>7, <1>8, <1>9, <1>10, <1>11, <1>12, <1>13, <1>14, <1>15, <1>16, <1>17, <1>18, <1>19, <1>20, <1>21, <1>22, <1>23, <1>24, <1>25 DEF Step

LEMMA OthersType == ASSUME TypeOK, Bounded, Others PROVE TypeOK' /\ Bounded'
<1> USE DEF files, plan, env
<1>1. ASSUME NEW p \in Procs, Signal(p) PROVE TypeOK' /\ Bounded'
  <2>1. TypeOK'
    BY <1>1, LimitType DEF Signal, TypeOK
  <2>2. Bounded'
    BY <1>1, LimitType DEF Signal, Bounded
  <2> QED BY <2>1, <2>2
<1>2. ASSUME NEW p \in Procs, Kill(p) PROVE TypeOK' /\ Bounded'
  <2>1. TypeOK'
    BY <1>2, LimitType DEF Kill, Goto, TypeOK, Labels
  <2>2. Bounded'
    BY <1>2, LimitType DEF Kill, Goto, TypeOK, Bounded, Working
  <2> QED BY <2>1, <2>2
<1>3. ASSUME NEW n \in FinalNames, UserCreates(n) \/ UserRemoves(n)
      PROVE  TypeOK' /\ Bounded'
  <2>1. n \in Names /\ UserFile \in Entry /\ Free \in Entry
    BY DEF Names, Free, UserFile, Entry
  <2>2. dir' \in [Names -> Entry] /\ disk' \in [Names -> Entry]
    BY <1>3, <2>1 DEF UserCreates, UserRemoves, TypeOK
  <2>3. TypeOK'
    BY <1>3, <2>2, LimitType DEF UserCreates, UserRemoves, TypeOK
  <2>4. Bounded'
    BY <1>3, LimitType DEF UserCreates, UserRemoves, Bounded
  <2> QED BY <2>3, <2>4
<1>4. ASSUME PowerLoss PROVE TypeOK' /\ Bounded'
  <2>1. PICK kept \in SUBSET Names :
          LET left == [n \in Names |-> IF n \in kept THEN dir[n] ELSE disk[n]]
          IN  dir' = [n \in Names |-> [left[n] EXCEPT !.whole = @ /\ left[n].stable]]
    BY <1>4 DEF PowerLoss
  <2>2. ASSUME NEW e \in Entry PROVE [e EXCEPT !.whole = @ /\ e.stable] \in Entry
    BY DEF Entry
  <2>3. dir' \in [Names -> Entry] /\ disk' \in [Names -> Entry]
    BY <1>4, <2>1, <2>2 DEF PowerLoss, TypeOK
  <2>4. pc' \in [Procs -> Labels]
    BY <1>4 DEF PowerLoss, Labels
  <2>5. TypeOK'
    BY <1>4, <2>3, <2>4, LimitType DEF PowerLoss, TypeOK
  <2>6. Bounded'
    BY <1>4, LimitType DEF PowerLoss, Bounded, Working
  <2> QED BY <2>5, <2>6
<1> QED BY <1>1, <1>2, <1>3, <1>4 DEF Others

\* The types, and the bounds of the retry loops: a run tries at most Limit names
\* and TempLimit temporary names.
THEOREM TypeCorrect == Spec => []TypeOK
<1>1. Init => TypeOK /\ Bounded
  BY InitType
<1>2. TypeOK /\ Bounded /\ [Next]_vars => TypeOK' /\ Bounded'
  <2> SUFFICES ASSUME TypeOK, Bounded, [Next]_vars PROVE TypeOK' /\ Bounded'
    OBVIOUS
  <2>1. CASE \E p \in Procs : Step(p)
    BY <2>1, StepType
  <2>2. CASE Others
    BY <2>2, OthersType
  <2>3. CASE UNCHANGED vars
    <3>1. TypeOK'
      BY <2>3, LimitType DEF vars, TypeOK
    <3>2. Bounded'
      BY <2>3, LimitType DEF vars, Bounded
    <3> QED BY <3>1, <3>2
  <2> QED BY <2>1, <2>2, <2>3 DEF Next
<1> QED BY <1>1, <1>2, PTL DEF Spec

(* Ownership: a run holds the names it is working on.                      *)

TempHeld == {"detach", "fillTemp", "syncTemp", "rename", "hardLink", "dropTemp"}
NameHeld == {"fillDirect", "syncDirect", "dropDirect", "syncDir", "announce",
             "showKey", "trailer", "withdraw", "report"}
HoldsName(p) == pc[p] \in NameHeld \/ (pc[p] = "dropTemp" /\ after[p] = "named")

\* The temporary a run will remove and the final name it will remove or report
\* are its own.
Holds ==
  \A p \in Procs :
    /\ pc[p] \in TempHeld => dir[temp[p]].owner = p
    /\ HoldsName(p) => dir[name[p]].owner = p

LEMMA Distinct ==
  ASSUME TypeOK, NEW p \in Procs
  PROVE  /\ name[p] \in Names /\ temp[p] \in Names /\ name[p] # temp[p]
         /\ p \notin {User, NoOne} /\ User # NoOne
BY PublishAssumption DEF TypeOK, Names, User, NoOne

\* A step of one run leaves the others where they were.
LEMMA Locality ==
  ASSUME TypeOK, NEW p \in Procs, Step(p), NEW q \in Procs \ {p}
  PROVE  /\ pc'[q] = pc[q] /\ name'[q] = name[q] /\ temp'[q] = temp[q]
         /\ after'[q] = after[q] /\ stage'[q] = stage[q] /\ key'[q] = key[q]
         /\ result'[q] = result[q]
         /\ fs' = fs /\ pending' = pending
<1> USE DEF files, plan, env, Goto, Return, TypeOK
<1>1. CASE PickName(p)
  BY <1>1 DEF PickName, FinalNames
<1>2. CASE OpenStage(p)
  BY <1>2 DEF OpenStage, Names
<1>3. CASE DetachStage(p)
  BY <1>3 DEF DetachStage
<1>4. CASE WriteStage(p)
  BY <1>4 DEF WriteStage
<1>5. CASE CloseStage(p)
  BY <1>5 DEF CloseStage
<1>6. CASE Link(p)
  BY <1>6 DEF Link, NameTaken
<1>7. CASE LookUp(p)
  BY <1>7 DEF LookUp, NameTaken
<1>8. CASE DrawTemp(p)
  BY <1>8 DEF DrawTemp
<1>9. CASE CreateTemp(p)
  BY <1>9 DEF CreateTemp
<1>10. CASE FillTemp(p)
  BY <1>10 DEF FillTemp, Fill
<1>11. CASE SyncTemp(p)
  BY <1>11 DEF SyncTemp, Sync
<1>12. CASE Rename(p)
  BY <1>12 DEF Rename, MayRename
<1>13. CASE HardLink(p)
  BY <1>13 DEF HardLink
<1>14. CASE DropTemp(p)
  BY <1>14 DEF DropTemp, AfterDrop, NameTaken
<1>15. CASE CreateDirect(p)
  BY ZenonT(40), <1>15 DEF CreateDirect, NameTaken
<1>16. CASE FillDirect(p)
  BY <1>16 DEF FillDirect, Fill
<1>17. CASE SyncDirect(p)
  BY <1>17 DEF SyncDirect, Sync
<1>18. CASE DropDirect(p)
  BY <1>18 DEF DropDirect
<1>19. CASE SyncDir(p)
  BY <1>19 DEF SyncDir
<1>20. CASE Announce(p)
  BY <1>20 DEF Announce
<1>21. CASE ShowKey(p)
  BY <1>21 DEF ShowKey
<1>22. CASE Trailer(p)
  BY <1>22 DEF Trailer
<1>23. CASE Withdraw(p)
  BY <1>23 DEF Withdraw
<1>24. CASE Report(p)
  BY <1>24 DEF Report
<1>25. CASE Exit(p)
  BY <1>25 DEF Exit
<1> QED
  BY <1>1, <1>2, <1>3, <1>4, <1>5, <1>6, <1>7, <1>8, <1>9, <1>10, <1>11, <1>12, <1>13, <1>14, <1>15, <1>16, <1>17, <1>18, <1>19, <1>20, <1>21, <1>22, <1>23, <1>24, <1>25 DEF Step

\* What a step does to the directory: entries of others stay.
LEMMA Touches ==
  ASSUME TypeOK, Holds, NEW p \in Procs, Step(p), NEW n \in Names,
         dir[n].owner \notin {p, NoOne}
  PROVE  dir'[n] = dir[n]
<1> USE DEF files, plan, env
<1>a. dir \in [Names -> Entry] /\ name[p] \in Names /\ temp[p] \in Names
  BY Distinct DEF TypeOK
<1>b. /\ pc[p] \in TempHeld => temp[p] # n
      /\ HoldsName(p) => name[p] # n
  BY DEF Holds
<1>c. /\ ~Taken(temp[p]) => temp[p] # n
      /\ ~Taken(name[p]) => name[p] # n
      /\ \A t \in TempNames : ~Taken(t) => t # n
  BY DEF Taken
<1>1. CASE PickName(p)
  BY <1>1 DEF PickName, FinalNames
<1>2. CASE OpenStage(p)
  BY <1>2, <1>a, <1>b, <1>c DEF OpenStage, Names, TempHeld, HoldsName, NameHeld, Unlinked
<1>3. CASE DetachStage(p)
  BY <1>3, <1>a, <1>b, <1>c DEF DetachStage, TempHeld, HoldsName, NameHeld, Unlinked
<1>4. CASE WriteStage(p)
  BY <1>4 DEF WriteStage
<1>5. CASE CloseStage(p)
  BY <1>5 DEF CloseStage
<1>6. CASE Link(p)
  BY <1>6, <1>a, <1>b, <1>c DEF Link, TempHeld, HoldsName, NameHeld, Unlinked
<1>7. CASE LookUp(p)
  BY <1>7 DEF LookUp
<1>8. CASE DrawTemp(p)
  BY <1>8 DEF DrawTemp
<1>9. CASE CreateTemp(p)
  BY <1>9, <1>a, <1>b, <1>c DEF CreateTemp, TempHeld, HoldsName, NameHeld, Unlinked
<1>10. CASE FillTemp(p)
  BY <1>10, <1>a, <1>b, <1>c DEF FillTemp, Fill, TempHeld, HoldsName, NameHeld, Unlinked
<1>11. CASE SyncTemp(p)
  BY <1>11, <1>a, <1>b, <1>c DEF SyncTemp, Sync, TempHeld, HoldsName, NameHeld, Unlinked
<1>12. CASE Rename(p)
  BY <1>12, <1>a, <1>b, <1>c DEF Rename, MayRename, TempHeld, HoldsName, NameHeld, Unlinked
<1>13. CASE HardLink(p)
  BY <1>13, <1>a, <1>b, <1>c DEF HardLink, TempHeld, HoldsName, NameHeld, Unlinked
<1>14. CASE DropTemp(p)
  BY <1>14, <1>a, <1>b, <1>c DEF DropTemp, AfterDrop, TempHeld, HoldsName, NameHeld, Unlinked
<1>15. CASE CreateDirect(p)
  BY <1>15, <1>a, <1>b, <1>c DEF CreateDirect, TempHeld, HoldsName, NameHeld, Unlinked
<1>16. CASE FillDirect(p)
  BY <1>16, <1>a, <1>b, <1>c DEF FillDirect, Fill, TempHeld, HoldsName, NameHeld, Unlinked
<1>17. CASE SyncDirect(p)
  BY <1>17, <1>a, <1>b, <1>c DEF SyncDirect, Sync, TempHeld, HoldsName, NameHeld, Unlinked
<1>18. CASE DropDirect(p)
  BY <1>18, <1>a, <1>b, <1>c DEF DropDirect, TempHeld, HoldsName, NameHeld, Unlinked
<1>19. CASE SyncDir(p)
  BY <1>19 DEF SyncDir
<1>20. CASE Announce(p)
  BY <1>20 DEF Announce
<1>21. CASE ShowKey(p)
  BY <1>21 DEF ShowKey
<1>22. CASE Trailer(p)
  BY <1>22 DEF Trailer
<1>23. CASE Withdraw(p)
  BY <1>23, <1>a, <1>b, <1>c DEF Withdraw, TempHeld, HoldsName, NameHeld, Unlinked
<1>24. CASE Report(p)
  BY <1>24 DEF Report
<1>25. CASE Exit(p)
  BY <1>25 DEF Exit
<1> QED
  BY <1>1, <1>2, <1>3, <1>4, <1>5, <1>6, <1>7, <1>8, <1>9, <1>10, <1>11, <1>12, <1>13, <1>14, <1>15, <1>16, <1>17, <1>18, <1>19, <1>20, <1>21, <1>22, <1>23, <1>24, <1>25 DEF Step

LEMMA HoldsStep ==
  ASSUME TypeOK, Holds, NEW p \in Procs, Step(p)
  PROVE  Holds'
<1> DEFINE Own(q) == /\ pc[q] \in TempHeld => dir[temp[q]].owner = q
                     /\ HoldsName(q) => dir[name[q]].owner = q
<1>a. ASSUME NEW q \in Procs \ {p} PROVE Own(q)'
  <2>1. /\ pc'[q] = pc[q] /\ name'[q] = name[q] /\ temp'[q] = temp[q]
        /\ after'[q] = after[q]
    BY Locality
  <2>2. ASSUME NEW n \in Names, dir[n].owner = q PROVE dir'[n].owner = q
    BY <2>2, Touches, Distinct DEF Procs
  <2>3. name[q] \in Names /\ temp[q] \in Names
    BY Distinct
  <2>4. Own(q)
    BY DEF Holds
  <2> QED BY <2>1, <2>2, <2>3, <2>4 DEF HoldsName
<1>b. Own(p)'
  <2> USE DEF files, plan, env, Goto, Return, TempHeld, HoldsName, NameHeld
  <2>a. /\ dir \in [Names -> Entry] /\ name[p] \in Names /\ temp[p] \in Names
        /\ name[p] # temp[p]
        /\ pc \in [Procs -> Labels] /\ after \in [Procs -> {"named", "taken", "direct", "failed"}]
        /\ temp \in [Procs -> TempNames] /\ name \in [Procs -> FinalNames]
    BY Distinct DEF TypeOK
  <2>b. Own(p)
    BY DEF Holds
  <2>c. ASSUME pc[p] \notin {"exit"}, NameTaken(p) PROVE pc'[p] \in {"exit", "repick", "link"}
    BY <2>a, <2>c DEF NameTaken
  <2>d. \A e \in Entry : Filled(e, p).owner = e.owner /\ Fsynced(e).owner = e.owner
    BY DEF Entry, Filled, Fsynced
  <2>1. CASE PickName(p)
    BY <2>1, <2>a, <2>b DEF PickName, FinalNames
  <2>2. CASE OpenStage(p)
    BY <2>2, <2>a, <2>b DEF OpenStage, Names, Unlinked, OwnFile
  <2>3. CASE DetachStage(p)
    BY <2>3, <2>a, <2>b DEF DetachStage, Unlinked, OwnFile
  <2>4. CASE WriteStage(p)
    BY <2>4, <2>a, <2>b DEF WriteStage
  <2>5. CASE CloseStage(p)
    BY <2>5, <2>a, <2>b DEF CloseStage
  <2>6. CASE Link(p)
    BY <2>6, <2>a, <2>b, <2>c DEF Link, Unlinked, OwnFile
  <2>7. CASE LookUp(p)
    BY <2>7, <2>a, <2>b, <2>c DEF LookUp
  <2>8. CASE DrawTemp(p)
    BY <2>8, <2>a, <2>b DEF DrawTemp
  <2>9. CASE CreateTemp(p)
    BY <2>9, <2>a, <2>b DEF CreateTemp, Unlinked, OwnFile
  <2>10. CASE FillTemp(p)
    BY <2>10, <2>a, <2>b, <2>d DEF FillTemp, Fill, Unlinked, OwnFile
  <2>11. CASE SyncTemp(p)
    BY <2>11, <2>a, <2>b, <2>d DEF SyncTemp, Sync, Unlinked, OwnFile
  <2>12. CASE Rename(p)
    BY <2>12, <2>a, <2>b DEF Rename, MayRename, Unlinked, OwnFile
  <2>13. CASE HardLink(p)
    BY <2>13, <2>a, <2>b DEF HardLink, Unlinked, OwnFile
  <2>14. CASE DropTemp(p)
    BY <2>14, <2>a, <2>b, <2>c DEF DropTemp, AfterDrop, Unlinked, OwnFile
  <2>15. CASE CreateDirect(p)
    BY <2>15, <2>a, <2>b, <2>c DEF CreateDirect, Unlinked, OwnFile
  <2>16. CASE FillDirect(p)
    BY <2>16, <2>a, <2>b, <2>d DEF FillDirect, Fill, Unlinked, OwnFile
  <2>17. CASE SyncDirect(p)
    BY <2>17, <2>a, <2>b, <2>d DEF SyncDirect, Sync, Unlinked, OwnFile
  <2>18. CASE DropDirect(p)
    BY <2>18, <2>a, <2>b DEF DropDirect, Unlinked, OwnFile
  <2>19. CASE SyncDir(p)
    BY <2>19, <2>a, <2>b DEF SyncDir
  <2>20. CASE Announce(p)
    BY <2>20, <2>a, <2>b DEF Announce
  <2>21. CASE ShowKey(p)
    BY <2>21, <2>a, <2>b DEF ShowKey
  <2>22. CASE Trailer(p)
    BY <2>22, <2>a, <2>b DEF Trailer
  <2>23. CASE Withdraw(p)
    BY <2>23, <2>a, <2>b DEF Withdraw, Unlinked, OwnFile
  <2>24. CASE Report(p)
    BY <2>24, <2>a, <2>b DEF Report
  <2>25. CASE Exit(p)
    BY <2>25, <2>a, <2>b DEF Exit
  <2> QED
    BY <2>1, <2>2, <2>3, <2>4, <2>5, <2>6, <2>7, <2>8, <2>9, <2>10, <2>11, <2>12, <2>13, <2>14, <2>15, <2>16, <2>17, <2>18, <2>19, <2>20, <2>21, <2>22, <2>23, <2>24, <2>25 DEF Step
<1> QED BY <1>a, <1>b DEF Holds

(* Contents: what is named is complete and fsynced.                        *)

Closed == {"link", "repick", "lookup", "drawTemp", "createTemp", "fillTemp",
           "syncTemp", "rename", "hardLink", "dropTemp", "createDirect",
           "fillDirect", "syncDirect"}
Direct == {"createDirect", "fillDirect", "syncDirect", "dropDirect"}
HoldsOutput(p) == HoldsName(p) /\ pc[p] \notin Direct
Durable(e) == e.whole /\ e.stable
AtomicFs == fs.link \/ fs.rename

\* How far the run's own files are, and that an atomic primitive keeps a run
\* away from the direct copy.
Prepared(p) ==
  /\ pc[p] = "close" => stage[p].whole
  /\ pc[p] \in Closed => Durable(stage[p])
  /\ pc[p] = "syncTemp" => dir[temp[p]].whole
  /\ pc[p] \in {"rename", "hardLink"} => Durable(dir[temp[p]])
  /\ pc[p] = "syncDirect" => dir[name[p]].whole
  /\ HoldsOutput(p) => Durable(dir[name[p]])
  /\ AtomicFs => /\ pc[p] \notin Direct
                 /\ pc[p] = "hardLink" => ~fs.rename
                 /\ pc[p] = "dropTemp" => after[p] # "direct"

Contents == \A p \in Procs : Prepared(p)

LEMMA PreparedStep ==
  ASSUME TypeOK, Holds, Contents, NEW p \in Procs, Step(p)
  PROVE  Prepared(p)'
<1> USE DEF files, plan, env, Goto, Return, HoldsOutput, HoldsName, NameHeld, Closed,
            Direct, AtomicFs, Durable
<1>a. /\ dir \in [Names -> Entry] /\ name[p] \in Names /\ temp[p] \in Names
      /\ name[p] # temp[p]
      /\ pc \in [Procs -> Labels] /\ after \in [Procs -> {"named", "taken", "direct", "failed"}]
      /\ temp \in [Procs -> TempNames] /\ name \in [Procs -> FinalNames]
      /\ stage \in [Procs -> Stage]
  BY Distinct DEF TypeOK
<1>b. Prepared(p)
  BY DEF Contents
<1>c. ASSUME pc[p] \notin {"exit"}, NameTaken(p) PROVE pc'[p] \in {"exit", "repick", "link"}
  BY <1>a, <1>c DEF NameTaken
<1>d. /\ \A e \in Entry : /\ Filled(e, p).whole = stage[p].whole
                          /\ Fsynced(e).whole = e.whole /\ Fsynced(e).stable
      /\ \A s \in Stage : /\ Fsynced(s).whole = s.whole /\ Fsynced(s).stable
                          /\ Written(s).whole
  BY DEF Entry, Stage, Filled, Fsynced, Written
<1>1. CASE PickName(p)
  BY <1>1, <1>a, <1>b DEF PickName, FinalNames, Prepared
<1>2. CASE OpenStage(p)
  BY <1>2, <1>a, <1>b, <1>d DEF OpenStage, Names, Unlinked, OwnFile, Prepared
<1>3. CASE DetachStage(p)
  BY <1>3, <1>a, <1>b, <1>d DEF DetachStage, Unlinked, OwnFile, Prepared
<1>4. CASE WriteStage(p)
  BY <1>4, <1>a, <1>b, <1>d DEF WriteStage, Prepared
<1>5. CASE CloseStage(p)
  BY <1>5, <1>a, <1>b, <1>d DEF CloseStage, Prepared
<1>6. CASE Link(p)
  BY <1>6, <1>a, <1>b, <1>c DEF Link, Unlinked, OwnFile, Prepared
<1>7. CASE LookUp(p)
  BY <1>7, <1>a, <1>b, <1>c DEF LookUp, Prepared
<1>8. CASE DrawTemp(p)
  BY <1>8, <1>a, <1>b DEF DrawTemp, Prepared
<1>9. CASE CreateTemp(p)
  BY <1>9, <1>a, <1>b DEF CreateTemp, Unlinked, OwnFile, Prepared
<1>10. CASE FillTemp(p)
  BY <1>10, <1>a, <1>b, <1>d DEF FillTemp, Fill, Unlinked, OwnFile, Prepared
<1>11. CASE SyncTemp(p)
  BY <1>11, <1>a, <1>b, <1>d DEF SyncTemp, Sync, Unlinked, OwnFile, Prepared
<1>12. CASE Rename(p)
  BY <1>12, <1>a, <1>b DEF Rename, MayRename, Unlinked, OwnFile, Prepared
<1>13. CASE HardLink(p)
  BY <1>13, <1>a, <1>b DEF HardLink, Unlinked, OwnFile, Prepared
<1>14. CASE DropTemp(p)
  BY <1>14, <1>a, <1>b, <1>c DEF DropTemp, AfterDrop, Unlinked, OwnFile, Prepared
<1>15. CASE CreateDirect(p)
  BY <1>15, <1>a, <1>b, <1>c DEF CreateDirect, Unlinked, OwnFile, Prepared
<1>16. CASE FillDirect(p)
  BY <1>16, <1>a, <1>b, <1>d DEF FillDirect, Fill, Unlinked, OwnFile, Prepared
<1>17. CASE SyncDirect(p)
  BY <1>17, <1>a, <1>b, <1>d DEF SyncDirect, Sync, Unlinked, OwnFile, Prepared
<1>18. CASE DropDirect(p)
  BY <1>18, <1>a, <1>b DEF DropDirect, Unlinked, OwnFile, Prepared
<1>19. CASE SyncDir(p)
  BY <1>19, <1>a, <1>b DEF SyncDir, Prepared
<1>20. CASE Announce(p)
  BY <1>20, <1>a, <1>b DEF Announce, Prepared
<1>21. CASE ShowKey(p)
  BY <1>21, <1>a, <1>b DEF ShowKey, Prepared
<1>22. CASE Trailer(p)
  BY <1>22, <1>a, <1>b DEF Trailer, Prepared
<1>23. CASE Withdraw(p)
  BY <1>23, <1>a, <1>b DEF Withdraw, Unlinked, OwnFile, Prepared
<1>24. CASE Report(p)
  BY <1>24, <1>a, <1>b DEF Report, Prepared
<1>25. CASE Exit(p)
  BY <1>25, <1>a, <1>b DEF Exit, Prepared
<1> QED
  BY <1>1, <1>2, <1>3, <1>4, <1>5, <1>6, <1>7, <1>8, <1>9, <1>10, <1>11, <1>12, <1>13, <1>14, <1>15, <1>16, <1>17, <1>18, <1>19, <1>20, <1>21, <1>22, <1>23, <1>24, <1>25 DEF Step

LEMMA ContentsStep ==
  ASSUME TypeOK, Holds, Contents, NEW p \in Procs, Step(p)
  PROVE  Contents'
<1>1. ASSUME NEW q \in Procs \ {p} PROVE Prepared(q)'
  <2>1. /\ pc'[q] = pc[q] /\ name'[q] = name[q] /\ temp'[q] = temp[q]
        /\ after'[q] = after[q] /\ stage'[q] = stage[q] /\ fs' = fs
    BY Locality
  <2>2. ASSUME NEW n \in Names, dir[n].owner = q PROVE dir'[n] = dir[n]
    BY <2>2, Touches, Distinct DEF Procs
  <2>3. /\ pc[q] \in TempHeld => dir'[temp[q]] = dir[temp[q]]
        /\ HoldsName(q) => dir'[name[q]] = dir[name[q]]
    BY <2>2, Distinct DEF Holds
  <2>4. Prepared(q)
    BY DEF Contents
  <2> QED
    BY <2>1, <2>3, <2>4
    DEF Prepared, HoldsOutput, HoldsName, NameHeld, TempHeld, Closed, Direct, AtomicFs
<1>2. Prepared(p)'
  BY PreparedStep
<1> QED BY <1>1, <1>2 DEF Contents

\* A step does not change the file system's capabilities.
LEMMA FsFixed == ASSUME NEW p \in Procs, Step(p) PROVE fs' = fs
BY DEF Step, env, PickName, OpenStage, DetachStage, WriteStage, CloseStage, Link, LookUp,
       DrawTemp, CreateTemp, FillTemp, SyncTemp, Fill, Sync, Rename, HardLink, DropTemp,
       CreateDirect, FillDirect, SyncDirect, DropDirect, SyncDir, Announce, ShowKey,
       Trailer, Withdraw, Report, Exit

\* No partial output, in the directory and in what a power loss would leave of it.
Sound(d) ==
  AtomicFs => \A n \in FinalNames : d[n].owner \in Procs => Durable(d[n])

LEMMA SoundStep ==
  ASSUME TypeOK, Holds, Contents, Sound(dir), Sound(disk), NEW p \in Procs, Step(p)
  PROVE  Sound(dir)' /\ Sound(disk)'
<1> SUFFICES ASSUME AtomicFs', NEW n \in FinalNames
             PROVE  /\ dir'[n].owner \in Procs => Durable(dir'[n])
                    /\ disk'[n].owner \in Procs => Durable(disk'[n])
  BY DEF Sound, Durable
<1> USE DEF files, plan, env
<1>a. /\ dir \in [Names -> Entry] /\ disk \in [Names -> Entry]
      /\ name[p] \in Names /\ temp[p] \in Names /\ temp[p] # n
      /\ n \in Names /\ temp \in [Procs -> TempNames]
      /\ \A t \in TempNames : t # n
  BY Distinct, PublishAssumption DEF TypeOK, Names
<1>b. Prepared(p) /\ (dir[n].owner \in Procs => Durable(dir[n]))
      /\ (disk[n].owner \in Procs => Durable(disk[n]))
      /\ Free.owner \notin Procs
      /\ AtomicFs
  BY PublishAssumption, FsFixed DEF Contents, Sound, AtomicFs, Free
<1>1. CASE PickName(p)
  BY <1>1, <1>a, <1>b DEF PickName, FinalNames
<1>2. CASE OpenStage(p)
  BY <1>2, <1>a, <1>b DEF OpenStage, Names, Unlinked, OwnFile, Prepared, Closed, Direct, Durable
<1>3. CASE DetachStage(p)
  BY <1>3, <1>a, <1>b DEF DetachStage, Unlinked, OwnFile, Prepared, Closed, Direct, Durable
<1>4. CASE WriteStage(p)
  BY <1>4, <1>a, <1>b DEF WriteStage
<1>5. CASE CloseStage(p)
  BY <1>5, <1>a, <1>b DEF CloseStage
<1>6. CASE Link(p)
  BY <1>6, <1>a, <1>b DEF Link, Unlinked, OwnFile, Prepared, Closed, Direct, Durable
<1>7. CASE LookUp(p)
  BY <1>7, <1>a, <1>b DEF LookUp
<1>8. CASE DrawTemp(p)
  BY <1>8, <1>a, <1>b DEF DrawTemp
<1>9. CASE CreateTemp(p)
  BY <1>9, <1>a, <1>b DEF CreateTemp, Unlinked, OwnFile, Prepared, Closed, Direct, Durable
<1>10. CASE FillTemp(p)
  BY <1>10, <1>a, <1>b DEF FillTemp, Fill, Unlinked, OwnFile, Prepared, Closed, Direct, Durable
<1>11. CASE SyncTemp(p)
  BY <1>11, <1>a, <1>b DEF SyncTemp, Sync, Unlinked, OwnFile, Prepared, Closed, Direct, Durable
<1>12. CASE Rename(p)
  BY <1>12, <1>a, <1>b DEF Rename, MayRename, Unlinked, OwnFile, Prepared, Closed, Direct, Durable
<1>13. CASE HardLink(p)
  BY <1>13, <1>a, <1>b DEF HardLink, Unlinked, OwnFile, Prepared, Closed, Direct, Durable
<1>14. CASE DropTemp(p)
  BY <1>14, <1>a, <1>b DEF DropTemp, AfterDrop, Unlinked, OwnFile, Prepared, Closed, Direct, Durable
<1>15. CASE CreateDirect(p)
  BY <1>15, <1>a, <1>b DEF CreateDirect, Unlinked, OwnFile, Prepared, Closed, Direct, Durable
<1>16. CASE FillDirect(p)
  BY <1>16, <1>a, <1>b DEF FillDirect, Fill, Unlinked, OwnFile, Prepared, Closed, Direct, Durable
<1>17. CASE SyncDirect(p)
  BY <1>17, <1>a, <1>b DEF SyncDirect, Sync, Unlinked, OwnFile, Prepared, Closed, Direct, Durable
<1>18. CASE DropDirect(p)
  BY <1>18, <1>a, <1>b DEF DropDirect, Unlinked, OwnFile, Prepared, Closed, Direct, Durable
<1>19. CASE SyncDir(p)
  BY <1>19, <1>a, <1>b DEF SyncDir
<1>20. CASE Announce(p)
  BY <1>20, <1>a, <1>b DEF Announce
<1>21. CASE ShowKey(p)
  BY <1>21, <1>a, <1>b DEF ShowKey
<1>22. CASE Trailer(p)
  BY <1>22, <1>a, <1>b DEF Trailer
<1>23. CASE Withdraw(p)
  BY <1>23, <1>a, <1>b DEF Withdraw, Unlinked, OwnFile, Prepared, Closed, Direct, Durable
<1>24. CASE Report(p)
  BY <1>24, <1>a, <1>b DEF Report
<1>25. CASE Exit(p)
  BY <1>25, <1>a, <1>b DEF Exit
<1> QED
  BY <1>1, <1>2, <1>3, <1>4, <1>5, <1>6, <1>7, <1>8, <1>9, <1>10, <1>11, <1>12, <1>13, <1>14, <1>15, <1>16, <1>17, <1>18, <1>19, <1>20, <1>21, <1>22, <1>23, <1>24, <1>25 DEF Step

(* The KEY: once shown, its image is named, complete and durable.          *)

\* An image the KEY is being or has been delivered for.
Delivering(p) ==
  /\ p \in Conceals
  /\ \/ pc[p] \in {"announce", "showKey", "trailer", "withdraw"}
     \/ key[p] /\ result[p] # "undelivered"

KeyImage(p) ==
  /\ pc[p] \in Working \ {"exit"} => result[p] = "none"
  /\ key[p] => pc[p] \in {"trailer", "withdraw", "report", "exit", "done", "killed", "lost"}
  /\ Delivering(p) /\ (pc[p] = "lost" => fs.dirSync) => dir[name[p]] = OwnFile(p, TRUE, TRUE)
  /\ Delivering(p) /\ fs.dirSync => disk[name[p]] = OwnFile(p, TRUE, TRUE)

KeyImages == \A p \in Procs : KeyImage(p)

\* What a step does to the durable directory: an entry of another run that the
\* directory shows as well stays.
LEMMA TouchesDisk ==
  ASSUME TypeOK, Holds, NEW p \in Procs, Step(p), NEW n \in Names,
         disk[n].owner # p, disk[n] = dir[n]
  PROVE  disk'[n] = disk[n]
<1> USE DEF files, plan, env
<1>a. disk \in [Names -> Entry] /\ name[p] \in Names /\ temp[p] \in Names
  BY Distinct DEF TypeOK
<1>1. CASE PickName(p)
  BY <1>1, <1>a DEF PickName, FinalNames
<1>2. CASE OpenStage(p)
  BY <1>2, <1>a DEF OpenStage, Names
<1>3. CASE DetachStage(p)
  BY <1>3, <1>a DEF DetachStage
<1>4. CASE WriteStage(p)
  BY <1>4, <1>a DEF WriteStage
<1>5. CASE CloseStage(p)
  BY <1>5, <1>a DEF CloseStage
<1>6. CASE Link(p)
  BY <1>6, <1>a DEF Link
<1>7. CASE LookUp(p)
  BY <1>7, <1>a DEF LookUp
<1>8. CASE DrawTemp(p)
  BY <1>8, <1>a DEF DrawTemp
<1>9. CASE CreateTemp(p)
  BY <1>9, <1>a DEF CreateTemp
<1>10. CASE FillTemp(p)
  BY <1>10, <1>a DEF FillTemp, Fill
<1>11. CASE SyncTemp(p)
  BY <1>11, <1>a DEF SyncTemp, Sync
<1>12. CASE Rename(p)
  BY <1>12, <1>a DEF Rename, MayRename
<1>13. CASE HardLink(p)
  BY <1>13, <1>a DEF HardLink
<1>14. CASE DropTemp(p)
  BY <1>14, <1>a DEF DropTemp, AfterDrop
<1>15. CASE CreateDirect(p)
  BY <1>15, <1>a DEF CreateDirect
<1>16. CASE FillDirect(p)
  BY <1>16, <1>a DEF FillDirect, Fill
<1>17. CASE SyncDirect(p)
  BY <1>17, <1>a DEF SyncDirect, Sync
<1>18. CASE DropDirect(p)
  BY <1>18, <1>a DEF DropDirect
<1>19. CASE SyncDir(p)
  BY <1>19, <1>a DEF SyncDir
<1>20. CASE Announce(p)
  BY <1>20, <1>a DEF Announce
<1>21. CASE ShowKey(p)
  BY <1>21, <1>a DEF ShowKey
<1>22. CASE Trailer(p)
  BY <1>22, <1>a DEF Trailer
<1>23. CASE Withdraw(p)
  BY <1>23, <1>a DEF Withdraw
<1>24. CASE Report(p)
  BY <1>24, <1>a DEF Report
<1>25. CASE Exit(p)
  BY <1>25, <1>a DEF Exit
<1> QED
  BY <1>1, <1>2, <1>3, <1>4, <1>5, <1>6, <1>7, <1>8, <1>9, <1>10, <1>11, <1>12, <1>13, <1>14, <1>15, <1>16, <1>17, <1>18, <1>19, <1>20, <1>21, <1>22, <1>23, <1>24, <1>25 DEF Step

LEMMA KeyImageStep ==
  ASSUME TypeOK, Holds, Contents, KeyImages, NEW p \in Procs, Step(p)
  PROVE  KeyImage(p)'
<1> USE DEF files, plan, env, Goto, Return, Delivering, Working
<1>a. /\ dir \in [Names -> Entry] /\ name[p] \in Names /\ temp[p] \in Names
      /\ name[p] # temp[p]
      /\ pc \in [Procs -> Labels] /\ key \in [Procs -> BOOLEAN]
      /\ result \in [Procs -> Results]
  BY Distinct DEF TypeOK
<1>b. KeyImage(p) /\ fs' = fs
  BY FsFixed DEF KeyImages
<1>c. ASSUME pc[p] \notin {"exit"}, NameTaken(p) 
      PROVE  /\ pc'[p] \in {"exit", "repick", "link"}
             /\ pc'[p] # "exit" => result' = result
  BY <1>a, <1>c DEF NameTaken
<1>d. pc[p] = "syncDir" => dir[name[p]] = OwnFile(p, TRUE, TRUE)
  BY <1>a DEF Holds, HoldsName, HoldsOutput, NameHeld, Contents, Prepared, Direct, Durable,
              Entry, OwnFile
<1>1. CASE PickName(p)
  BY <1>1, <1>a, <1>b DEF PickName, FinalNames, KeyImage
<1>2. CASE OpenStage(p)
  BY <1>2, <1>a, <1>b DEF OpenStage, Names, KeyImage
<1>3. CASE DetachStage(p)
  BY <1>3, <1>a, <1>b DEF DetachStage, KeyImage
<1>4. CASE WriteStage(p)
  BY <1>4, <1>a, <1>b DEF WriteStage, KeyImage
<1>5. CASE CloseStage(p)
  BY <1>5, <1>a, <1>b DEF CloseStage, KeyImage
<1>6. CASE Link(p)
  BY <1>6, <1>a, <1>b, <1>c DEF Link, KeyImage
<1>7. CASE LookUp(p)
  BY <1>7, <1>a, <1>b, <1>c DEF LookUp, KeyImage
<1>8. CASE DrawTemp(p)
  BY <1>8, <1>a, <1>b DEF DrawTemp, KeyImage
<1>9. CASE CreateTemp(p)
  BY <1>9, <1>a, <1>b DEF CreateTemp, KeyImage
<1>10. CASE FillTemp(p)
  BY <1>10, <1>a, <1>b DEF FillTemp, Fill, KeyImage
<1>11. CASE SyncTemp(p)
  BY <1>11, <1>a, <1>b DEF SyncTemp, Sync, KeyImage
<1>12. CASE Rename(p)
  BY <1>12, <1>a, <1>b DEF Rename, MayRename, KeyImage
<1>13. CASE HardLink(p)
  BY <1>13, <1>a, <1>b DEF HardLink, KeyImage
<1>14. CASE DropTemp(p)
  BY <1>14, <1>a, <1>b, <1>c DEF DropTemp, AfterDrop, KeyImage
<1>15. CASE CreateDirect(p)
  BY <1>15, <1>a, <1>b, <1>c DEF CreateDirect, KeyImage
<1>16. CASE FillDirect(p)
  BY <1>16, <1>a, <1>b DEF FillDirect, Fill, KeyImage
<1>17. CASE SyncDirect(p)
  BY <1>17, <1>a, <1>b DEF SyncDirect, Sync, KeyImage
<1>18. CASE DropDirect(p)
  BY <1>18, <1>a, <1>b DEF DropDirect, KeyImage
<1>19. CASE SyncDir(p)
  BY <1>19, <1>a, <1>b, <1>d DEF SyncDir, KeyImage
<1>20. CASE Announce(p)
  BY <1>20, <1>a, <1>b DEF Announce, KeyImage
<1>21. CASE ShowKey(p)
  BY <1>21, <1>a, <1>b DEF ShowKey, KeyImage
<1>22. CASE Trailer(p)
  BY <1>22, <1>a, <1>b DEF Trailer, KeyImage
<1>23. CASE Withdraw(p)
  BY <1>23, <1>a, <1>b DEF Withdraw, KeyImage
<1>24. CASE Report(p)
  BY <1>24, <1>a, <1>b DEF Report, KeyImage
<1>25. CASE Exit(p)
  BY <1>25, <1>a, <1>b DEF Exit, KeyImage
<1> QED
  BY <1>1, <1>2, <1>3, <1>4, <1>5, <1>6, <1>7, <1>8, <1>9, <1>10, <1>11, <1>12, <1>13, <1>14, <1>15, <1>16, <1>17, <1>18, <1>19, <1>20, <1>21, <1>22, <1>23, <1>24, <1>25 DEF Step

LEMMA KeyImagesStep ==
  ASSUME TypeOK, Holds, Contents, KeyImages, NEW p \in Procs, Step(p)
  PROVE  KeyImages'
<1>1. ASSUME NEW q \in Procs \ {p} PROVE KeyImage(q)'
  <2>1. /\ pc'[q] = pc[q] /\ name'[q] = name[q] /\ key'[q] = key[q]
        /\ result'[q] = result[q] /\ fs' = fs
    BY Locality
  <2>2. name[q] \in Names /\ q \notin {p, NoOne}
    BY Distinct DEF Procs
  <2>3. dir[name[q]] = OwnFile(q, TRUE, TRUE) => dir'[name[q]] = OwnFile(q, TRUE, TRUE)
    BY <2>2, Touches DEF OwnFile
  <2>4. dir[name[q]] = OwnFile(q, TRUE, TRUE) /\ disk[name[q]] = OwnFile(q, TRUE, TRUE)
          => disk'[name[q]] = OwnFile(q, TRUE, TRUE)
    BY <2>2, TouchesDisk DEF OwnFile
  <2>5. KeyImage(q)
    BY DEF KeyImages
  <2> QED BY <2>1, <2>3, <2>4, <2>5 DEF KeyImage, Delivering, Working
<1>2. KeyImage(p)'
  BY KeyImageStep
<1> QED BY <1>1, <1>2 DEF KeyImages

(* The environment and the theorems.                                       *)

Safe == Holds /\ Contents /\ Sound(dir) /\ Sound(disk) /\ KeyImages

LEMMA InitSafe == Init => Safe
<1> SUFFICES ASSUME Init PROVE Safe
  OBVIOUS
<1>1. Holds /\ Contents
  BY ZenonT(40), InitStarts DEF Init, Holds, HoldsName, NameHeld, TempHeld, Contents, Prepared, HoldsOutput,
         Closed, Direct
<1>2. Sound(dir) /\ Sound(disk)
  BY PublishAssumption DEF Init, Sound, Durable, Free, UserFile, Names
<1>3. KeyImages
  BY ZenonT(40), InitStarts DEF Init, KeyImages, KeyImage, Delivering, Working
<1> QED BY <1>1, <1>2, <1>3 DEF Safe

\* Signals, kills and other programs do not disturb what a run relies on.
LEMMA OthersSafe == ASSUME TypeOK, Safe, Others PROVE Safe'
<1> USE DEF files, plan, env, Safe
<1>1. ASSUME NEW p \in Procs, Signal(p) \/ Kill(p) PROVE Safe'
  <2>1. /\ UNCHANGED <<fs, dir, disk, name, temp, after, stage, key, result>>
        /\ pc' = pc \/ (pc[p] \in Working /\ pc' = [pc EXCEPT ![p] = "killed"])
        /\ pc \in [Procs -> Labels]
    BY <1>1 DEF Signal, Kill, Goto, TypeOK
  <2>2. Holds' /\ Contents'
    BY <2>1 DEF Holds, HoldsName, NameHeld, TempHeld, Contents, Prepared, HoldsOutput,
                Closed, Direct, AtomicFs, Durable
  <2>3. Sound(dir)' /\ Sound(disk)'
    BY <2>1 DEF Sound, AtomicFs, Durable
  <2>4. ASSUME NEW q \in Procs PROVE KeyImage(q)'
    <3>1. KeyImage(q)
      BY DEF KeyImages
    <3>2. CASE pc' = pc
      BY <2>1, <3>1, <3>2 DEF KeyImage, Delivering
    <3>3. CASE pc[p] \in Working /\ pc' = [pc EXCEPT ![p] = "killed"] /\ q # p
      BY <2>1, <3>1, <3>3 DEF KeyImage, Delivering
    <3>4. CASE pc[p] \in Working /\ pc' = [pc EXCEPT ![p] = "killed"] /\ q = p
      BY <2>1, <3>1, <3>4 DEF KeyImage, Delivering, Working
    <3> QED BY <2>1, <3>2, <3>3, <3>4
  <2> QED BY <2>2, <2>3, <2>4 DEF KeyImages
<1>2. ASSUME NEW n \in FinalNames, UserCreates(n) \/ UserRemoves(n) PROVE Safe'
  <2>1. /\ UNCHANGED <<fs, pc, name, temp, after, stage, key, result>>
        /\ dir[n].owner \in {User, NoOne}
        /\ \E e \in {UserFile, Free} : /\ dir' = [dir EXCEPT ![n] = e]
                                       /\ disk' = [disk EXCEPT ![n] = e]
        /\ n \in Names
        /\ dir \in [Names -> Entry] /\ disk \in [Names -> Entry]
    BY <1>2 DEF UserCreates, UserRemoves, Taken, TypeOK, Names
  <2>2. ASSUME NEW q \in Procs, NEW m \in Names, dir[m].owner = q
        PROVE  dir'[m] = dir[m] /\ disk'[m] = disk[m]
    BY <2>1, <2>2, Distinct
  <2>3. \A q \in Procs : name[q] \in Names /\ temp[q] \in Names
    BY Distinct
  <2>4. Holds'
    BY <2>1, <2>2, <2>3 DEF Holds, HoldsName, NameHeld, TempHeld
  <2>5. Contents'
    BY <2>1, <2>2, <2>3 DEF Holds, HoldsName, NameHeld, TempHeld, Contents, Prepared,
                           HoldsOutput, Closed, Direct, AtomicFs, Durable
  <2>6. Sound(dir)' /\ Sound(disk)'
    BY <2>1, PublishAssumption DEF Sound, AtomicFs, Durable, UserFile, Free, Names
  <2>7. ASSUME NEW q \in Procs PROVE KeyImage(q)'
    <3>1. KeyImage(q)
      BY DEF KeyImages
    <3>2. OwnFile(q, TRUE, TRUE).owner = q
      BY DEF OwnFile
    <3>3. dir[name[q]] = OwnFile(q, TRUE, TRUE) =>
            dir'[name[q]] = dir[name[q]] /\ disk'[name[q]] = disk[name[q]]
      BY <2>2, <2>3, <3>2
    <3>4. Delivering(q)' <=> Delivering(q)
      BY <2>1 DEF Delivering
    <3>5. Delivering(q) /\ fs.dirSync => dir[name[q]] = OwnFile(q, TRUE, TRUE)
      BY <3>1 DEF KeyImage
    <3> QED BY <2>1, <3>1, <3>3, <3>4, <3>5 DEF KeyImage
  <2> QED BY <2>4, <2>5, <2>6, <2>7 DEF KeyImages
<1>3. ASSUME PowerLoss PROVE Safe'
  <2>1. PICK kept \in SUBSET Names :
          LET left == [n \in Names |-> IF n \in kept THEN dir[n] ELSE disk[n]]
          IN  dir' = [n \in Names |-> [left[n] EXCEPT !.whole = @ /\ left[n].stable]]
    BY <1>3 DEF PowerLoss
  <2>2. /\ UNCHANGED <<fs, name, temp, after, stage, key, result>>
        /\ pc' = [p \in Procs |-> "lost"] /\ disk' = dir'
        /\ dir \in [Names -> Entry] /\ disk \in [Names -> Entry]
    BY <1>3 DEF PowerLoss, TypeOK
  <2>3. Holds' /\ Contents'
    BY <2>2 DEF Holds, HoldsName, NameHeld, TempHeld, Contents, Prepared, HoldsOutput,
                Closed, Direct
  <2> DEFINE After(e) == [e EXCEPT !.whole = e.whole /\ e.stable]
  <2>a. ASSUME NEW n \in Names PROVE dir'[n] = After(dir[n]) \/ dir'[n] = After(disk[n])
    BY <2>1
  <2>b. ASSUME NEW e \in Entry
        PROVE  /\ Durable(e) => After(e) = e
               /\ After(e).owner = e.owner
    BY DEF Entry, Durable
  <2> HIDE DEF After
  <2>4. ASSUME NEW n \in Names
        PROVE  \E e \in {dir[n], disk[n]} :
                  dir'[n].owner = e.owner /\ (Durable(e) => dir'[n] = e)
    <3>1. dir[n] \in Entry /\ disk[n] \in Entry
      BY <2>2
    <3> QED BY <3>1, <2>a, <2>b
  <2>5. Sound(dir)' /\ Sound(disk)'
    BY <2>2, <2>4 DEF Sound, AtomicFs, Durable, Names
  <2>6. ASSUME NEW p \in Procs PROVE KeyImage(p)'
    <3>1. KeyImage(p) /\ name[p] \in Names
      BY Distinct DEF KeyImages
    <3>2. Durable(OwnFile(p, TRUE, TRUE))
      BY DEF OwnFile, Durable
    <3>3. dir[name[p]] = OwnFile(p, TRUE, TRUE) /\ disk[name[p]] = OwnFile(p, TRUE, TRUE)
            => dir'[name[p]] = OwnFile(p, TRUE, TRUE)
      BY <2>4, <3>1, <3>2
    <3>4. pc'[p] = "lost"
      BY <2>2
    <3>5. Delivering(p)' => Delivering(p)
      BY <2>2, <3>4 DEF Delivering
    <3> QED BY <2>2, <3>1, <3>3, <3>4, <3>5 DEF KeyImage, Working
  <2> QED BY <2>3, <2>5, <2>6 DEF KeyImages
<1> QED BY <1>1, <1>2, <1>3 DEF Others

LEMMA StepSafe ==
  ASSUME TypeOK, Safe, NEW p \in Procs, Step(p)
  PROVE  Safe'
<1>1. Holds'
  BY HoldsStep DEF Safe
<1>2. Contents'
  BY ContentsStep DEF Safe
<1>3. Sound(dir)' /\ Sound(disk)'
  BY SoundStep DEF Safe
<1>4. KeyImages'
  BY KeyImagesStep DEF Safe
<1> QED BY <1>1, <1>2, <1>3, <1>4 DEF Safe

LEMMA SafeUnchanged == Safe /\ UNCHANGED vars => Safe'
<1> SUFFICES ASSUME Safe, UNCHANGED vars PROVE Safe'
  OBVIOUS
<1> USE DEF Safe, vars
<1>1. Holds' /\ Contents'
  BY DEF Holds, HoldsName, NameHeld, TempHeld, Contents, Prepared, HoldsOutput, Closed,
         Direct, AtomicFs, Durable
<1>2. Sound(dir)' /\ Sound(disk)'
  BY DEF Sound, AtomicFs, Durable
<1>3. KeyImages'
  BY DEF KeyImages, KeyImage, Delivering
<1> QED BY <1>1, <1>2, <1>3

\* The inductive invariant of Publish.
LEMMA Invariant == Spec => [](TypeOK /\ Safe)
<1>1. Init => Safe
  BY InitSafe
<1>2. TypeOK /\ Safe /\ [Next]_vars => Safe'
  BY StepSafe, OthersSafe, SafeUnchanged DEF Next
<1> QED BY <1>1, <1>2, TypeCorrect, PTL DEF Spec

\* On a file system with hard links or renameat2(RENAME_NOREPLACE) no final name
\* ever shows a partial or unsynced output of a run, not between the calls of
\* commit_staging_file_no_replace, nor after a kill or a power loss.
THEOREM OutputIsNeverPartial == Spec => []NoPartialOutput
<1>1. Safe => NoPartialOutput
  BY DEF Safe, Sound, AtomicFs, Durable, NoPartialOutput
<1> QED BY <1>1, Invariant, PTL

\* No step of a run replaces or removes an entry of another program or another
\* run, on any file system: every unlink, rename and overwrite in publication,
\* its cleanup and the withdrawal of an image hits an entry of its own.
THEOREM NothingIsReplaced == Spec => TouchesOnlyItsOwn
<1>1. TypeOK /\ Safe /\ [Next]_vars =>
        [\A p \in Procs : Step(p) =>
           \A n \in Names : dir[n].owner \notin {p, NoOne} => dir'[n] = dir[n]]_vars
  BY Touches DEF Safe
<1> QED BY <1>1, Invariant, PTL DEF Spec, TouchesOnlyItsOwn

\* Whenever a KEY was shown and its image was not withdrawn, the image is there
\* under the name it was given, complete and fsynced; where directory fsync
\* works, it still is after a power loss.
THEOREM KeyOpensAnImage == Spec => []ShownKeyHasImage
<1>1. TypeOK /\ Safe => ShownKeyHasImage
  <2> SUFFICES ASSUME TypeOK, Safe, NEW p \in Conceals,
                      key[p], pc[p] # "withdraw", result[p] # "undelivered",
                      pc[p] = "lost" => fs.dirSync
               PROVE  dir[name[p]] = OwnFile(p, TRUE, TRUE)
    BY DEF ShownKeyHasImage
  <2>1. KeyImage(p)
    BY DEF Safe, KeyImages, Procs
  <2>2. Delivering(p)
    BY DEF Delivering
  <2> QED BY <2>1, <2>2 DEF KeyImage
<1> QED BY <1>1, Invariant, PTL

(* What a run that ended by itself leaves behind.                          *)

\* A step changes an entry only into one of the run's own or a free one, and
\* only where the entry was its own or free.
LEMMA Makes ==
  ASSUME TypeOK, Holds, NEW p \in Procs, Step(p), NEW n \in Names
  PROVE  \/ dir'[n] = dir[n]
         \/ dir[n].owner \in {p, NoOne} /\ dir'[n].owner \in {p, NoOne}
<1> SUFFICES ASSUME dir'[n] # dir[n]
             PROVE  dir[n].owner \in {p, NoOne} /\ dir'[n].owner \in {p, NoOne}
  OBVIOUS
<1> USE DEF files, plan, env
<1>0. dir[n].owner \in {p, NoOne}
  BY Touches
<1>a. /\ dir \in [Names -> Entry] /\ name[p] \in Names /\ temp[p] \in Names
      /\ name[p] # temp[p]
  BY Distinct DEF TypeOK
<1>b. pc[p] \in TempHeld => dir[temp[p]].owner = p
  BY DEF Holds
<1>c. HoldsName(p) => dir[name[p]].owner = p
  BY DEF Holds
<1>d. \A e \in Entry : Filled(e, p).owner = e.owner /\ Fsynced(e).owner = e.owner
  BY DEF Entry, Filled, Fsynced
<1> HIDE DEF TypeOK
<1>1. CASE PickName(p)
  BY <1>1 DEF PickName, FinalNames
<1>2. CASE OpenStage(p)
  BY <1>2, <1>0, <1>a, <1>b, <1>c, <1>d
     DEF OpenStage, TempHeld, HoldsName, NameHeld, Unlinked, OwnFile, Free, Names
<1>3. CASE DetachStage(p)
  BY <1>3, <1>0, <1>a, <1>b, <1>c, <1>d
     DEF DetachStage, TempHeld, HoldsName, NameHeld, Unlinked, OwnFile, Free
<1>4. CASE WriteStage(p)
  BY <1>4 DEF WriteStage
<1>5. CASE CloseStage(p)
  BY <1>5 DEF CloseStage
<1>6. CASE Link(p)
  BY <1>6, <1>0, <1>a, <1>b, <1>c, <1>d
     DEF Link, TempHeld, HoldsName, NameHeld, Unlinked, OwnFile, Free
<1>7. CASE LookUp(p)
  BY <1>7 DEF LookUp
<1>8. CASE DrawTemp(p)
  BY <1>8 DEF DrawTemp
<1>9. CASE CreateTemp(p)
  BY <1>9, <1>0, <1>a, <1>b, <1>c, <1>d
     DEF CreateTemp, TempHeld, HoldsName, NameHeld, Unlinked, OwnFile, Free
<1>10. CASE FillTemp(p)
  BY <1>10, <1>0, <1>a, <1>b, <1>c, <1>d
     DEF FillTemp, Fill, TempHeld, HoldsName, NameHeld, Unlinked, OwnFile, Free
<1>11. CASE SyncTemp(p)
  BY <1>11, <1>0, <1>a, <1>b, <1>c, <1>d
     DEF SyncTemp, Sync, TempHeld, HoldsName, NameHeld, Unlinked, OwnFile, Free
<1>12. CASE Rename(p)
  BY <1>12, <1>0, <1>a, <1>b, <1>c, <1>d
     DEF Rename, MayRename, TempHeld, HoldsName, NameHeld, Unlinked, OwnFile, Free
<1>13. CASE HardLink(p)
  BY <1>13, <1>0, <1>a, <1>b, <1>c, <1>d
     DEF HardLink, TempHeld, HoldsName, NameHeld, Unlinked, OwnFile, Free
<1>14. CASE DropTemp(p)
  BY <1>14, <1>0, <1>a, <1>b, <1>c, <1>d
     DEF DropTemp, AfterDrop, TempHeld, HoldsName, NameHeld, Unlinked, OwnFile, Free
<1>15. CASE CreateDirect(p)
  BY <1>15, <1>0, <1>a, <1>b, <1>c, <1>d
     DEF CreateDirect, TempHeld, HoldsName, NameHeld, Unlinked, OwnFile, Free
<1>16. CASE FillDirect(p)
  BY <1>16, <1>0, <1>a, <1>b, <1>c, <1>d
     DEF FillDirect, Fill, TempHeld, HoldsName, NameHeld, Unlinked, OwnFile, Free
<1>17. CASE SyncDirect(p)
  BY <1>17, <1>0, <1>a, <1>b, <1>c, <1>d
     DEF SyncDirect, Sync, TempHeld, HoldsName, NameHeld, Unlinked, OwnFile, Free
<1>18. CASE DropDirect(p)
  BY <1>18, <1>0, <1>a, <1>b, <1>c, <1>d
     DEF DropDirect, TempHeld, HoldsName, NameHeld, Unlinked, OwnFile, Free
<1>19. CASE SyncDir(p)
  BY <1>19 DEF SyncDir
<1>20. CASE Announce(p)
  BY <1>20 DEF Announce
<1>21. CASE ShowKey(p)
  BY <1>21 DEF ShowKey
<1>22. CASE Trailer(p)
  BY <1>22 DEF Trailer
<1>23. CASE Withdraw(p)
  BY <1>23, <1>0, <1>a, <1>b, <1>c, <1>d
     DEF Withdraw, TempHeld, HoldsName, NameHeld, Unlinked, OwnFile, Free
<1>24. CASE Report(p)
  BY <1>24 DEF Report
<1>25. CASE Exit(p)
  BY <1>25 DEF Exit
<1> QED
  BY <1>1, <1>2, <1>3, <1>4, <1>5, <1>6, <1>7, <1>8, <1>9, <1>10, <1>11, <1>12, <1>13, <1>14, <1>15, <1>16, <1>17, <1>18, <1>19, <1>20, <1>21, <1>22, <1>23, <1>24, <1>25 DEF Step

\* What a power loss would leave changes only to what the directory shows.
LEMMA DiskMakes ==
  ASSUME TypeOK, Holds, NEW p \in Procs, Step(p), NEW n \in Names
  PROVE  disk'[n] \in {disk[n], dir'[n]}
<1> USE DEF files, plan, env
<1>a. /\ disk \in [Names -> Entry] /\ name[p] \in Names /\ temp[p] \in Names
  BY Distinct DEF TypeOK
<1>1. CASE PickName(p)
  BY <1>1 DEF PickName, FinalNames
<1>2. CASE OpenStage(p)
  BY <1>2 DEF OpenStage, Names
<1>3. CASE DetachStage(p)
  BY <1>3 DEF DetachStage
<1>4. CASE WriteStage(p)
  BY <1>4 DEF WriteStage
<1>5. CASE CloseStage(p)
  BY <1>5 DEF CloseStage
<1>6. CASE Link(p)
  BY <1>6 DEF Link
<1>7. CASE LookUp(p)
  BY <1>7 DEF LookUp
<1>8. CASE DrawTemp(p)
  BY <1>8 DEF DrawTemp
<1>9. CASE CreateTemp(p)
  BY <1>9 DEF CreateTemp
<1>10. CASE FillTemp(p)
  BY <1>10 DEF FillTemp, Fill
<1>11. CASE SyncTemp(p)
  BY <1>11, <1>a DEF SyncTemp, Sync
<1>12. CASE Rename(p)
  BY <1>12 DEF Rename, MayRename
<1>13. CASE HardLink(p)
  BY <1>13 DEF HardLink
<1>14. CASE DropTemp(p)
  BY <1>14 DEF DropTemp, AfterDrop
<1>15. CASE CreateDirect(p)
  BY <1>15 DEF CreateDirect
<1>16. CASE FillDirect(p)
  BY <1>16 DEF FillDirect, Fill
<1>17. CASE SyncDirect(p)
  BY <1>17, <1>a DEF SyncDirect, Sync
<1>18. CASE DropDirect(p)
  BY <1>18 DEF DropDirect
<1>19. CASE SyncDir(p)
  BY <1>19 DEF SyncDir
<1>20. CASE Announce(p)
  BY <1>20 DEF Announce
<1>21. CASE ShowKey(p)
  BY <1>21 DEF ShowKey
<1>22. CASE Trailer(p)
  BY <1>22 DEF Trailer
<1>23. CASE Withdraw(p)
  BY <1>23 DEF Withdraw
<1>24. CASE Report(p)
  BY <1>24 DEF Report
<1>25. CASE Exit(p)
  BY <1>25 DEF Exit
<1> QED
  BY <1>1, <1>2, <1>3, <1>4, <1>5, <1>6, <1>7, <1>8, <1>9, <1>10, <1>11, <1>12, <1>13, <1>14, <1>15, <1>16, <1>17, <1>18, <1>19, <1>20, <1>21, <1>22, <1>23, <1>24, <1>25 DEF Step

\* A run owns no final name but the one it is trying, and none before it has
\* taken it; that goes for what a power loss would leave as well.
OneName(p) ==
  \A n \in FinalNames : p \in {dir[n].owner, disk[n].owner} =>
    n = name[p] /\ (HoldsName(p) \/ pc[p] \notin Working \ {"exit"})

\* Where entries can be removed, a run that has not been killed owns no
\* temporary but the one it is using.
OneTemp(p) ==
  fs.unlink => \A t \in TempNames : dir[t].owner = p =>
    pc[p] \in {"killed", "lost"} \/ (t = temp[p] /\ pc[p] \in TempHeld)

\* What a run returned is what it left in the directory.
Outcome(p) ==
  /\ p \in Conceals /\ pc[p] \in {"trailer", "report"} => key[p]
  /\ pc[p] \in {"exit", "done"} =>
       IF result[p] \in {"ok", "unreported"}
       THEN dir[name[p]] = OwnFile(p, TRUE, TRUE) /\ (p \in Conceals => key[p])
       ELSE fs.unlink => dir[name[p]].owner # p

Tidy == \A p \in Procs : OneName(p) /\ OneTemp(p) /\ Outcome(p)

LEMMA OneNameStep ==
  ASSUME TypeOK, Holds, Contents, Tidy, NEW p \in Procs, Step(p)
  PROVE  OneName(p)'
<1> SUFFICES ASSUME NEW n \in FinalNames, p \in {dir'[n].owner, disk'[n].owner}
             PROVE  n = name'[p] /\ (HoldsName(p)' \/ pc'[p] \notin Working \ {"exit"})
  BY DEF OneName
<1> USE DEF files, plan, env, Goto, Return, HoldsName, NameHeld, Working
<1>a. /\ dir \in [Names -> Entry] /\ disk \in [Names -> Entry]
      /\ name[p] \in Names /\ temp[p] \in Names
      /\ n \in Names /\ temp[p] # n /\ \A t \in TempNames : t # n
      /\ pc \in [Procs -> Labels]
      /\ after \in [Procs -> {"named", "taken", "direct", "failed"}]
      /\ temp \in [Procs -> TempNames] /\ name \in [Procs -> FinalNames]
  BY Distinct, PublishAssumption DEF TypeOK, Names
<1>b. p \in {dir[n].owner, disk[n].owner} =>
        n = name[p] /\ (HoldsName(p) \/ pc[p] \notin Working \ {"exit"})
  BY DEF Tidy, OneName
<1>c. ASSUME pc[p] \notin {"exit"}, NameTaken(p) PROVE pc'[p] \in {"exit", "repick", "link"}
  BY <1>a, <1>c DEF NameTaken
<1>d. /\ p \in {dir[n].owner, dir'[n].owner, disk[n].owner}
      /\ p \notin {NoOne} /\ Free.owner = NoOne
  BY DiskMakes, Distinct, <1>a DEF Free
<1>1. CASE PickName(p)
  BY <1>1, <1>a, <1>b, <1>d DEF PickName
<1>2. CASE OpenStage(p)
  BY <1>2, <1>a, <1>b, <1>d DEF OpenStage
<1>3. CASE DetachStage(p)
  BY <1>3, <1>a, <1>b, <1>d DEF DetachStage, Unlinked
<1>4. CASE WriteStage(p)
  BY <1>4, <1>a, <1>b, <1>d DEF WriteStage
<1>5. CASE CloseStage(p)
  BY <1>5, <1>a, <1>b, <1>d DEF CloseStage
<1>6. CASE Link(p)
  BY <1>6, <1>a, <1>b, <1>d, <1>c DEF Link
<1>7. CASE LookUp(p)
  BY <1>7, <1>a, <1>b, <1>d, <1>c DEF LookUp
<1>8. CASE DrawTemp(p)
  BY <1>8, <1>a, <1>b, <1>d DEF DrawTemp
<1>9. CASE CreateTemp(p)
  BY <1>9, <1>a, <1>b, <1>d DEF CreateTemp
<1>10. CASE FillTemp(p)
  BY <1>10, <1>a, <1>b, <1>d DEF FillTemp, Fill
<1>11. CASE SyncTemp(p)
  BY <1>11, <1>a, <1>b, <1>d DEF SyncTemp, Sync
<1>12. CASE Rename(p)
  BY <1>12, <1>a, <1>b, <1>d DEF Rename, MayRename
<1>13. CASE HardLink(p)
  BY <1>13, <1>a, <1>b, <1>d DEF HardLink
<1>14. CASE DropTemp(p)
  BY <1>14, <1>a, <1>b, <1>d, <1>c DEF DropTemp, AfterDrop, Unlinked, NameTaken
<1>15. CASE CreateDirect(p)
  BY ZenonT(40), <1>15, <1>a, <1>b, <1>d, <1>c DEF CreateDirect
<1>16. CASE FillDirect(p)
  BY <1>16, <1>a, <1>b, <1>d DEF FillDirect, Fill
<1>17. CASE SyncDirect(p)
  BY <1>17, <1>a, <1>b, <1>d DEF SyncDirect, Sync
<1>18. CASE DropDirect(p)
  BY <1>18, <1>a, <1>b, <1>d DEF DropDirect, Unlinked
<1>19. CASE SyncDir(p)
  BY <1>19, <1>a, <1>b, <1>d DEF SyncDir
<1>20. CASE Announce(p)
  BY <1>20, <1>a, <1>b, <1>d DEF Announce
<1>21. CASE ShowKey(p)
  BY <1>21, <1>a, <1>b, <1>d DEF ShowKey
<1>22. CASE Trailer(p)
  BY <1>22, <1>a, <1>b, <1>d DEF Trailer
<1>23. CASE Withdraw(p)
  BY <1>23, <1>a, <1>b, <1>d DEF Withdraw, Unlinked
<1>24. CASE Report(p)
  BY <1>24, <1>a, <1>b, <1>d DEF Report
<1>25. CASE Exit(p)
  BY <1>25, <1>a, <1>b, <1>d DEF Exit
<1> QED
  BY <1>1, <1>2, <1>3, <1>4, <1>5, <1>6, <1>7, <1>8, <1>9, <1>10, <1>11, <1>12, <1>13, <1>14, <1>15, <1>16, <1>17, <1>18, <1>19, <1>20, <1>21, <1>22, <1>23, <1>24, <1>25 DEF Step

LEMMA OneTempStep ==
  ASSUME TypeOK, Holds, Tidy, NEW p \in Procs, Step(p)
  PROVE  OneTemp(p)'
<1> SUFFICES ASSUME fs'.unlink, NEW t \in TempNames, dir'[t].owner = p
             PROVE  pc'[p] \in {"killed", "lost"} \/ (t = temp'[p] /\ pc'[p] \in TempHeld)
  BY DEF OneTemp
<1> USE DEF files, plan, env, Goto, Return, TempHeld
<1>a. /\ dir \in [Names -> Entry] /\ name[p] \in Names /\ temp[p] \in Names
      /\ t \in Names /\ name[p] # t
      /\ pc \in [Procs -> Labels] /\ temp \in [Procs -> TempNames]
      /\ \A f \in FinalNames : f # t
      /\ Free.owner # p
  BY Distinct, PublishAssumption DEF TypeOK, Names, Free
<1>b. /\ fs.unlink
      /\ dir[t].owner = p => pc[p] \in {"killed", "lost"} \/ (t = temp[p] /\ pc[p] \in TempHeld)
  BY FsFixed DEF Tidy, OneTemp
<1>1. CASE PickName(p)
  BY <1>1, <1>a, <1>b DEF PickName
<1>2. CASE OpenStage(p)
  BY <1>2, <1>a, <1>b DEF OpenStage, Names
<1>3. CASE DetachStage(p)
  BY <1>3, <1>a, <1>b DEF DetachStage, Unlinked
<1>4. CASE WriteStage(p)
  BY <1>4, <1>a, <1>b DEF WriteStage
<1>5. CASE CloseStage(p)
  BY <1>5, <1>a, <1>b DEF CloseStage
<1>6. CASE Link(p)
  BY <1>6, <1>a, <1>b DEF Link
<1>7. CASE LookUp(p)
  BY <1>7, <1>a, <1>b DEF LookUp
<1>8. CASE DrawTemp(p)
  BY <1>8, <1>a, <1>b DEF DrawTemp
<1>9. CASE CreateTemp(p)
  BY <1>9, <1>a, <1>b DEF CreateTemp
<1>10. CASE FillTemp(p)
  BY <1>10, <1>a, <1>b DEF FillTemp, Fill
<1>11. CASE SyncTemp(p)
  BY <1>11, <1>a, <1>b DEF SyncTemp, Sync
<1>12. CASE Rename(p)
  BY <1>12, <1>a, <1>b DEF Rename, MayRename
<1>13. CASE HardLink(p)
  BY <1>13, <1>a, <1>b DEF HardLink
<1>14. CASE DropTemp(p)
  BY <1>14, <1>a, <1>b DEF DropTemp, AfterDrop, Unlinked, NameTaken
<1>15. CASE CreateDirect(p)
  BY <1>15, <1>a, <1>b DEF CreateDirect
<1>16. CASE FillDirect(p)
  BY <1>16, <1>a, <1>b DEF FillDirect, Fill
<1>17. CASE SyncDirect(p)
  BY <1>17, <1>a, <1>b DEF SyncDirect, Sync
<1>18. CASE DropDirect(p)
  BY <1>18, <1>a, <1>b DEF DropDirect, Unlinked
<1>19. CASE SyncDir(p)
  BY <1>19, <1>a, <1>b DEF SyncDir
<1>20. CASE Announce(p)
  BY <1>20, <1>a, <1>b DEF Announce
<1>21. CASE ShowKey(p)
  BY <1>21, <1>a, <1>b DEF ShowKey
<1>22. CASE Trailer(p)
  BY <1>22, <1>a, <1>b DEF Trailer
<1>23. CASE Withdraw(p)
  BY <1>23, <1>a, <1>b DEF Withdraw, Unlinked
<1>24. CASE Report(p)
  BY <1>24, <1>a, <1>b DEF Report
<1>25. CASE Exit(p)
  BY <1>25, <1>a, <1>b DEF Exit
<1> QED
  BY <1>1, <1>2, <1>3, <1>4, <1>5, <1>6, <1>7, <1>8, <1>9, <1>10, <1>11, <1>12, <1>13, <1>14, <1>15, <1>16, <1>17, <1>18, <1>19, <1>20, <1>21, <1>22, <1>23, <1>24, <1>25 DEF Step

LEMMA OutcomeStep ==
  ASSUME TypeOK, Holds, Contents, KeyImages, Tidy, NEW p \in Procs, Step(p)
  PROVE  Outcome(p)'
<1> USE DEF files, plan, env, Goto, Return
<1>a. /\ dir \in [Names -> Entry] /\ name[p] \in Names /\ temp[p] \in Names
      /\ name[p] # temp[p] /\ name[p] \in FinalNames
      /\ pc \in [Procs -> Labels] /\ key \in [Procs -> BOOLEAN]
      /\ name \in [Procs -> FinalNames] /\ result \in [Procs -> Results]
  BY Distinct DEF TypeOK
<1>b. Outcome(p) /\ OneName(p) /\ fs' = fs
  BY FsFixed DEF Tidy
<1>c. /\ dir[name[p]].owner = p => HoldsName(p) \/ pc[p] \notin Working \ {"exit"}
      /\ Free.owner # p /\ NoOne # p
  BY <1>a, <1>b, Distinct DEF OneName, Free
<1>d. ASSUME pc[p] \notin {"exit"}, NameTaken(p)
      PROVE  /\ pc'[p] \in {"exit", "repick", "link"}
             /\ pc'[p] = "exit" => result'[p] = "failed" /\ name' = name
  BY <1>a, <1>d DEF NameTaken
<1>e. pc[p] = "report" => dir[name[p]] = OwnFile(p, TRUE, TRUE)
  BY <1>a DEF Holds, HoldsName, HoldsOutput, NameHeld, Contents, Prepared, Direct, Durable,
              Entry, OwnFile
<1> USE DEF HoldsName, NameHeld, Working, Outcome
<1>1. CASE PickName(p)
  BY <1>1, <1>a, <1>b, <1>c, <1>e DEF PickName
<1>2. CASE OpenStage(p)
  BY <1>2, <1>a, <1>b, <1>c, <1>e DEF OpenStage
<1>3. CASE DetachStage(p)
  BY <1>3, <1>a, <1>b, <1>c, <1>e DEF DetachStage, Unlinked
<1>4. CASE WriteStage(p)
  BY <1>4, <1>a, <1>b, <1>c, <1>e DEF WriteStage
<1>5. CASE CloseStage(p)
  BY <1>5, <1>a, <1>b, <1>c, <1>e DEF CloseStage
<1>6. CASE Link(p)
  BY <1>6, <1>a, <1>b, <1>c, <1>e, <1>d DEF Link
<1>7. CASE LookUp(p)
  BY <1>7, <1>a, <1>b, <1>c, <1>e, <1>d DEF LookUp
<1>8. CASE DrawTemp(p)
  BY <1>8, <1>a, <1>b, <1>c, <1>e DEF DrawTemp
<1>9. CASE CreateTemp(p)
  BY <1>9, <1>a, <1>b, <1>c, <1>e DEF CreateTemp
<1>10. CASE FillTemp(p)
  BY <1>10, <1>a, <1>b, <1>c, <1>e DEF FillTemp, Fill
<1>11. CASE SyncTemp(p)
  BY <1>11, <1>a, <1>b, <1>c, <1>e DEF SyncTemp, Sync
<1>12. CASE Rename(p)
  BY <1>12, <1>a, <1>b, <1>c, <1>e DEF Rename, MayRename
<1>13. CASE HardLink(p)
  BY <1>13, <1>a, <1>b, <1>c, <1>e DEF HardLink
<1>14. CASE DropTemp(p)
  BY <1>14, <1>a, <1>b, <1>c, <1>e, <1>d DEF DropTemp, AfterDrop, Unlinked
<1>15. CASE CreateDirect(p)
  BY <1>15, <1>a, <1>b, <1>c, <1>e, <1>d DEF CreateDirect
<1>16. CASE FillDirect(p)
  BY <1>16, <1>a, <1>b, <1>c, <1>e DEF FillDirect, Fill
<1>17. CASE SyncDirect(p)
  BY <1>17, <1>a, <1>b, <1>c, <1>e DEF SyncDirect, Sync
<1>18. CASE DropDirect(p)
  BY <1>18, <1>a, <1>b, <1>c, <1>e DEF DropDirect, Unlinked
<1>19. CASE SyncDir(p)
  BY <1>19, <1>a, <1>b, <1>c, <1>e DEF SyncDir
<1>20. CASE Announce(p)
  BY <1>20, <1>a, <1>b, <1>c, <1>e DEF Announce
<1>21. CASE ShowKey(p)
  BY <1>21, <1>a, <1>b, <1>c, <1>e DEF ShowKey
<1>22. CASE Trailer(p)
  BY <1>22, <1>a, <1>b, <1>c, <1>e DEF Trailer
<1>23. CASE Withdraw(p)
  BY <1>23, <1>a, <1>b, <1>c, <1>e DEF Withdraw, Unlinked
<1>24. CASE Report(p)
  BY <1>24, <1>a, <1>b, <1>c, <1>e DEF Report
<1>25. CASE Exit(p)
  BY <1>25, <1>a, <1>b, <1>c, <1>e DEF Exit
<1> QED
  BY <1>1, <1>2, <1>3, <1>4, <1>5, <1>6, <1>7, <1>8, <1>9, <1>10, <1>11, <1>12, <1>13, <1>14, <1>15, <1>16, <1>17, <1>18, <1>19, <1>20, <1>21, <1>22, <1>23, <1>24, <1>25 DEF Step

LEMMA TidyStep ==
  ASSUME TypeOK, Holds, Contents, KeyImages, Tidy, NEW p \in Procs, Step(p)
  PROVE  Tidy'
<1>1. ASSUME NEW q \in Procs \ {p} PROVE OneName(q)' /\ OneTemp(q)' /\ Outcome(q)'
  <2>1. /\ pc'[q] = pc[q] /\ name'[q] = name[q] /\ temp'[q] = temp[q]
        /\ after'[q] = after[q] /\ key'[q] = key[q] /\ result'[q] = result[q] /\ fs' = fs
    BY Locality
  <2>2. ASSUME NEW n \in Names, dir'[n].owner = q PROVE dir[n].owner = q
    BY <2>2, Makes, Distinct DEF Procs
  <2>3. ASSUME NEW n \in Names, disk'[n].owner = q PROVE q \in {dir[n].owner, disk[n].owner}
    BY <2>2, <2>3, DiskMakes
  <2>4. ASSUME NEW n \in Names, dir[n].owner = q PROVE dir'[n] = dir[n]
    BY <2>4, Touches, Distinct DEF Procs
  <2>5. OneName(q) /\ OneTemp(q) /\ Outcome(q)
    BY DEF Tidy
  <2>6. OneName(q)'
    <3>1. ASSUME NEW n \in FinalNames, q \in {dir'[n].owner, disk'[n].owner}
          PROVE  q \in {dir[n].owner, disk[n].owner}
      BY <2>2, <2>3, <3>1 DEF Names
    <3> QED BY <2>1, <2>5, <3>1 DEF OneName, HoldsName
  <2>7. OneTemp(q)'
    <3>1. ASSUME NEW t \in TempNames, dir'[t].owner = q PROVE dir[t].owner = q
      BY <2>2, <3>1 DEF Names
    <3> QED BY <2>1, <2>5, <3>1 DEF OneTemp
  <2>8. Outcome(q)'
    <3>1. name[q] \in Names /\ OwnFile(q, TRUE, TRUE).owner = q
      BY Distinct DEF OwnFile
    <3>2. dir[name[q]] = OwnFile(q, TRUE, TRUE) => dir'[name[q]] = OwnFile(q, TRUE, TRUE)
      BY <2>4, <3>1
    <3>3. dir[name[q]].owner # q => dir'[name[q]].owner # q
      BY <2>2, <3>1
    <3> QED BY <2>1, <2>5, <3>2, <3>3 DEF Outcome
  <2> QED BY <2>6, <2>7, <2>8
<1>2. OneName(p)' /\ OneTemp(p)' /\ Outcome(p)'
  BY OneNameStep, OneTempStep, OutcomeStep
<1> QED BY <1>1, <1>2 DEF Tidy

LEMMA InitTidy == Init => Tidy
<1> SUFFICES ASSUME Init, NEW p \in Procs PROVE OneName(p) /\ OneTemp(p) /\ Outcome(p)
  BY DEF Tidy
<1>1. ASSUME NEW n \in Names PROVE dir[n].owner # p /\ disk[n].owner # p
  BY PublishAssumption DEF Init, Free, UserFile
<1>2. name[p] \in Names
  BY InitType, Distinct
<1>3. OneName(p) /\ OneTemp(p)
  BY <1>1 DEF OneName, OneTemp, Names
<1>4. Outcome(p)
  <2>1. pc[p] \notin {"trailer", "report", "exit"} /\ result[p] = "none"
    BY InitStarts DEF Init
  <2> QED BY <1>1, <1>2, <2>1 DEF Outcome
<1> QED BY <1>3, <1>4

LEMMA OthersTidy == ASSUME TypeOK, Safe, Tidy, Others PROVE Tidy'
<1> USE DEF files, plan, env
<1> SUFFICES ASSUME NEW q \in Procs PROVE OneName(q)' /\ OneTemp(q)' /\ Outcome(q)'
  BY DEF Tidy
<1>a. OneName(q) /\ OneTemp(q) /\ Outcome(q)
  BY DEF Tidy
<1>b. name[q] \in Names /\ q \notin {User, NoOne}
  BY Distinct
<1>1. ASSUME NEW p \in Procs, Signal(p) \/ Kill(p)
      PROVE  OneName(q)' /\ OneTemp(q)' /\ Outcome(q)'
  <2>1. /\ UNCHANGED <<fs, dir, disk, name, temp, after, key, result>>
        /\ pc' = pc \/ (pc[p] \in Working /\ pc' = [pc EXCEPT ![p] = "killed"])
        /\ pc \in [Procs -> Labels]
    BY <1>1 DEF Signal, Kill, Goto, TypeOK
  <2>2. \/ pc'[q] = pc[q]
        \/ pc'[q] = "killed"
    BY <2>1
  <2>3. OneName(q)'
    BY <1>a, <2>1, <2>2 DEF OneName, HoldsName, Working
  <2>4. OneTemp(q)'
    BY <1>a, <2>1, <2>2 DEF OneTemp
  <2>5. Outcome(q)'
    BY <1>a, <2>1, <2>2 DEF Outcome
  <2> QED BY <2>3, <2>4, <2>5
<1>2. ASSUME NEW n \in FinalNames, UserCreates(n) \/ UserRemoves(n)
      PROVE  OneName(q)' /\ OneTemp(q)' /\ Outcome(q)'
  <2>1. /\ UNCHANGED <<fs, pc, name, temp, after, key, result>>
        /\ dir[n].owner \in {User, NoOne}
        /\ \E e \in {UserFile, Free} : /\ dir' = [dir EXCEPT ![n] = e]
                                       /\ disk' = [disk EXCEPT ![n] = e]
        /\ dir \in [Names -> Entry] /\ disk \in [Names -> Entry]
    BY <1>2 DEF UserCreates, UserRemoves, Taken, TypeOK
  <2>2. UserFile.owner # q /\ Free.owner # q
    BY <1>b DEF UserFile, Free
  <2>3. ASSUME NEW m \in Names
        PROVE  /\ dir'[m].owner = q => dir[m].owner = q
               /\ disk'[m].owner = q => disk[m].owner = q
               /\ dir[m].owner = q => dir'[m] = dir[m]
    BY <1>b, <2>1, <2>2
  <2>4. OneName(q)'
    BY <1>a, <2>1, <2>3 DEF OneName, HoldsName, Names
  <2>5. OneTemp(q)'
    BY <1>a, <2>1, <2>3 DEF OneTemp, Names
  <2>6. Outcome(q)'
    <3>1. OwnFile(q, TRUE, TRUE).owner = q
      BY DEF OwnFile
    <3>2. dir[name[q]] = OwnFile(q, TRUE, TRUE) => dir'[name[q]] = OwnFile(q, TRUE, TRUE)
      BY <1>b, <2>3, <3>1
    <3>3. dir[name[q]].owner # q => dir'[name[q]].owner # q
      BY <1>b, <2>3
    <3> QED BY <1>a, <2>1, <3>2, <3>3 DEF Outcome
  <2> QED BY <2>4, <2>5, <2>6
<1>3. ASSUME PowerLoss PROVE OneName(q)' /\ OneTemp(q)' /\ Outcome(q)'
  <2>1. pc'[q] = "lost" /\ disk' = dir' /\ name' = name
    BY <1>3 DEF PowerLoss
  <2>2. ASSUME NEW n \in Names PROVE dir'[n].owner \in {dir[n].owner, disk[n].owner}
    <3>1. dir[n] \in Entry /\ disk[n] \in Entry
      BY DEF TypeOK
    <3> QED BY <1>3, <3>1 DEF PowerLoss, Entry
  <2>3. OneName(q)'
    BY <1>a, <2>1, <2>2 DEF OneName, Names, Working
  <2>4. OneTemp(q)' /\ Outcome(q)'
    BY <2>1 DEF OneTemp, Outcome
  <2> QED BY <2>3, <2>4
<1> QED BY <1>1, <1>2, <1>3 DEF Others

LEMMA TidyUnchanged == Tidy /\ UNCHANGED vars => Tidy'
<1> SUFFICES ASSUME Tidy, UNCHANGED vars, NEW p \in Procs
             PROVE  OneName(p)' /\ OneTemp(p)' /\ Outcome(p)'
  BY DEF Tidy
<1>1. OneName(p) /\ OneTemp(p) /\ Outcome(p)
  BY DEF Tidy
<1>2. OneName(p)'
  BY <1>1 DEF OneName, HoldsName, vars
<1>3. OneTemp(p)' /\ Outcome(p)'
  BY <1>1 DEF OneTemp, Outcome, vars
<1> QED BY <1>2, <1>3

\* The inductive invariant with what a run leaves behind.
LEMMA TidyInvariant == Spec => [](TypeOK /\ Safe /\ Tidy)
<1>1. Init => Tidy
  BY InitTidy
<1>2. TypeOK /\ Safe /\ Tidy /\ [Next]_vars => Tidy'
  <2> SUFFICES ASSUME TypeOK, Safe, Tidy, [Next]_vars PROVE Tidy'
    OBVIOUS
  <2>1. CASE \E p \in Procs : Step(p)
    BY <2>1, TidyStep DEF Safe
  <2>2. CASE Others
    BY <2>2, OthersTidy
  <2>3. CASE UNCHANGED vars
    BY <2>3, TidyUnchanged
  <2> QED BY <2>1, <2>2, <2>3 DEF Next
<1> QED BY <1>1, <1>2, Invariant, PTL DEF Spec

\* Where entries can be removed, a run that ends by itself, whatever failed and
\* whatever signal came, leaves no hidden temporary, and a final name only for a
\* whole output it reported: every exit of commit_staging_file_no_replace,
\* commit_then and commit_recovered_output cleans up what it made.
THEOREM RunsEndClean == Spec => []CleanEnd
<1>1. TypeOK /\ Safe /\ Tidy => CleanEnd
  <2> SUFFICES ASSUME TypeOK, Tidy, fs.unlink, NEW p \in Procs, pc[p] \in {"exit", "done"}
               PROVE  /\ \A t \in TempNames : dir[t].owner # p
                      /\ \A n \in FinalNames : dir[n].owner = p =>
                           /\ dir[n].whole
                           /\ p \in Conceals => key[p]
                           /\ result[p] \in {"ok", "unreported"}
    BY DEF CleanEnd
  <2>1. OneName(p) /\ OneTemp(p) /\ Outcome(p)
    BY DEF Tidy
  <2>2. \A t \in TempNames : dir[t].owner # p
    BY <2>1 DEF OneTemp, TempHeld
  <2>3. ASSUME NEW n \in FinalNames, dir[n].owner = p
        PROVE  /\ dir[n].whole
               /\ p \in Conceals => key[p]
               /\ result[p] \in {"ok", "unreported"}
    <3>1. n = name[p]
      BY <2>1, <2>3 DEF OneName
    <3> QED BY <2>1, <2>3, <3>1 DEF Outcome, OwnFile
  <2> QED BY <2>2, <2>3
<1> QED BY <1>1, TidyInvariant, PTL

\* No run ever holds two final names, through all retries, kills and power losses
\* and on any file system, and a run that returned success has its output, whole
\* and fsynced, under the name it reported.
THEOREM SuccessHasItsOutput == Spec => []SuccessIsReal
<1>1. TypeOK /\ Safe /\ Tidy => SuccessIsReal
  <2> SUFFICES ASSUME Tidy, NEW p \in Procs
               PROVE  /\ \A m, n \in FinalNames :
                           dir[m].owner = p /\ dir[n].owner = p => m = n
                      /\ pc[p] \in {"exit", "done"} /\ result[p] = "ok" =>
                           dir[name[p]] = OwnFile(p, TRUE, TRUE)
    BY DEF SuccessIsReal
  <2>1. OneName(p) /\ Outcome(p)
    BY DEF Tidy
  <2>2. \A m, n \in FinalNames : dir[m].owner = p /\ dir[n].owner = p => m = n
    BY <2>1 DEF OneName
  <2>3. pc[p] \in {"exit", "done"} /\ result[p] = "ok" => dir[name[p]] = OwnFile(p, TRUE, TRUE)
    BY <2>1 DEF Outcome
  <2> QED BY <2>2, <2>3
<1> QED BY <1>1, TidyInvariant, PTL

(* Cancellation: a signal seen before the KEY keeps it hidden for good.     *)

\* The run of p has a signal recorded and is not in the middle of writing its KEY.
Cancelled(p) == pending[p] /\ ~key[p] /\ pc[p] # "showKey"

LEMMA CancelledStays ==
  ASSUME NEW p \in Conceals, TypeOK, Cancelled(p), [Next]_vars
  PROVE  Cancelled(p)'
<1> USE DEF files, plan, env, Goto, Return, Cancelled
<1>a. /\ pc \in [Procs -> Labels] /\ pending \in [Procs -> BOOLEAN]
      /\ key \in [Procs -> BOOLEAN] /\ p \in Procs
  BY DEF TypeOK, Procs
<1>1. ASSUME NEW q \in Procs, Step(q) PROVE Cancelled(p)'
  <2>1. CASE q # p
    BY <1>1, <2>1, Locality, <1>a
  <2>2. CASE q = p
    <3>1. CASE PickName(q)
      BY <3>1, <1>a, <2>2 DEF PickName
    <3>2. CASE OpenStage(q)
      BY <3>2, <1>a, <2>2 DEF OpenStage
    <3>3. CASE DetachStage(q)
      BY <3>3, <1>a, <2>2 DEF DetachStage
    <3>4. CASE WriteStage(q)
      BY <3>4, <1>a, <2>2 DEF WriteStage
    <3>5. CASE CloseStage(q)
      BY <3>5, <1>a, <2>2 DEF CloseStage
    <3>6. CASE Link(q)
      BY <3>6, <1>a, <2>2 DEF Link, NameTaken
    <3>7. CASE LookUp(q)
      BY <3>7, <1>a, <2>2 DEF LookUp, NameTaken
    <3>8. CASE DrawTemp(q)
      BY <3>8, <1>a, <2>2 DEF DrawTemp
    <3>9. CASE CreateTemp(q)
      BY <3>9, <1>a, <2>2 DEF CreateTemp
    <3>10. CASE FillTemp(q)
      BY <3>10, <1>a, <2>2 DEF FillTemp, Fill
    <3>11. CASE SyncTemp(q)
      BY <3>11, <1>a, <2>2 DEF SyncTemp, Sync
    <3>12. CASE Rename(q)
      BY <3>12, <1>a, <2>2 DEF Rename, MayRename
    <3>13. CASE HardLink(q)
      BY <3>13, <1>a, <2>2 DEF HardLink
    <3>14. CASE DropTemp(q)
      BY <3>14, <1>a, <2>2 DEF DropTemp, AfterDrop, NameTaken
    <3>15. CASE CreateDirect(q)
      BY <3>15, <1>a, <2>2 DEF CreateDirect, NameTaken
    <3>16. CASE FillDirect(q)
      BY <3>16, <1>a, <2>2 DEF FillDirect, Fill
    <3>17. CASE SyncDirect(q)
      BY <3>17, <1>a, <2>2 DEF SyncDirect, Sync
    <3>18. CASE DropDirect(q)
      BY <3>18, <1>a, <2>2 DEF DropDirect
    <3>19. CASE SyncDir(q)
      BY <3>19, <1>a, <2>2 DEF SyncDir
    <3>20. CASE Announce(q)
      BY <3>20, <1>a, <2>2 DEF Announce
    <3>21. CASE ShowKey(q)
      BY <3>21, <1>a, <2>2 DEF ShowKey
    <3>22. CASE Trailer(q)
      BY <3>22, <1>a, <2>2 DEF Trailer
    <3>23. CASE Withdraw(q)
      BY <3>23, <1>a, <2>2 DEF Withdraw
    <3>24. CASE Report(q)
      BY <3>24, <1>a, <2>2 DEF Report
    <3>25. CASE Exit(q)
      BY <3>25, <1>a, <2>2 DEF Exit
    <3> QED
      BY <1>1, <3>1, <3>2, <3>3, <3>4, <3>5, <3>6, <3>7, <3>8, <3>9, <3>10, <3>11, <3>12, <3>13, <3>14, <3>15, <3>16, <3>17, <3>18, <3>19, <3>20, <3>21, <3>22, <3>23, <3>24, <3>25 DEF Step
  <2> QED BY <2>1, <2>2
<1>2. ASSUME Others PROVE Cancelled(p)'
  <2>1. ASSUME NEW q \in Procs, Signal(q) \/ Kill(q) PROVE Cancelled(p)'
    BY <2>1, <1>a DEF Signal, Kill
  <2>2. ASSUME NEW n \in FinalNames, UserCreates(n) \/ UserRemoves(n) PROVE Cancelled(p)'
    BY <2>2 DEF UserCreates, UserRemoves
  <2>3. ASSUME PowerLoss PROVE Cancelled(p)'
    BY <2>3, <1>a DEF PowerLoss
  <2> QED BY <1>2, <2>1, <2>2, <2>3 DEF Others
<1>3. ASSUME UNCHANGED vars PROVE Cancelled(p)'
  BY <1>3 DEF vars
<1> QED BY <1>1, <1>2, <1>3 DEF Next

\* Once a signal is recorded before the last cancellation check of
\* deliver_conceal_key, no later step of any run shows the KEY.
THEOREM CancellationHidesTheKey == Spec => CancelledKeyStaysHidden
<1> SUFFICES ASSUME NEW p \in Conceals
             PROVE  Spec => [](pending[p] /\ ~key[p] /\ pc[p] # "showKey" => []~key[p])
  BY DEF CancelledKeyStaysHidden
<1>1. TypeOK /\ Cancelled(p) /\ [Next]_vars => Cancelled(p)'
  BY CancelledStays
<1>2. Cancelled(p) => ~key[p]
  BY DEF Cancelled
<1>3. pending[p] /\ ~key[p] /\ pc[p] # "showKey" => Cancelled(p)
  BY SMTT(30) DEF Cancelled
<1> QED BY <1>1, <1>2, <1>3, TypeCorrect, PTL DEF Spec

(* The refinement: seen from the listing, a run does what PublishPromise says. *)

\* The user's files are on disk as the directory shows them.
UserOnDisk == \A n \in FinalNames : dir[n].owner = User <=> disk[n].owner = User

\* A complete output a power loss would bring back is in the directory, or its
\* run has withdrawn it.
OnDisk(p) ==
  \A n \in FinalNames : disk[n].owner = p /\ Durable(disk[n]) =>
    \/ dir[n].owner = p /\ Durable(dir[n])
    \/ result[p] = "undelivered" /\ fs.unlink

\* A direct copy is no output before it is fsynced.
Copying(p) == pc[p] \in Direct \ {"createDirect"} => ~dir[name[p]].stable

\* A power loss ends every run.
LostTogether == \A p, q \in Procs : pc[p] = "lost" => pc[q] = "lost"

Lasting == UserOnDisk /\ LostTogether /\ \A p \in Procs : OnDisk(p) /\ Copying(p)

\* How a step of a run moves it on: an output it has named stays until the run
\* reports it or takes it back, and a run that fails makes no name.
Flow(p) ==
  /\ HoldsOutput(p) => name'[p] = name[p]
  /\ \/ /\ {pc[p], pc'[p]} \subseteq Working \ {"exit"}
        /\ HoldsOutput(p) => HoldsOutput(p)'
     \/ /\ pc[p] \in Working \ {"exit"} /\ pc'[p] = "exit"
        /\ \/ /\ HoldsOutput(p)
              /\ \/ result'[p] \in {"ok", "unreported"} /\ dir' = dir
                 \/ result'[p] = "undelivered" /\ dir' = Unlinked(name[p])
           \/ /\ ~HoldsOutput(p)
              /\ result'[p] = "failed"
              /\ \A n \in FinalNames : dir'[n] \in {dir[n], Free}
     \/ /\ pc[p] = "exit" /\ pc'[p] = "done"
        /\ UNCHANGED <<dir, name, result>>

LEMMA StepFlows ==
  ASSUME TypeOK, NEW p \in Procs, Step(p)
  PROVE  Flow(p)
<1> USE DEF files, plan, env, Goto, Return, Flow, HoldsOutput, HoldsName, NameHeld, Direct,
            Working
<1>a. /\ dir \in [Names -> Entry] /\ FinalNames \subseteq Names
      /\ pc \in [Procs -> Labels] /\ result \in [Procs -> Results]
      /\ name \in [Procs -> FinalNames]
      /\ after \in [Procs -> {"named", "taken", "direct", "failed"}]
  BY DEF TypeOK, Names
<1>c. ASSUME pc[p] \notin {"exit"}, NameTaken(p)
      PROVE  \/ pc'[p] \in {"repick", "link"}
             \/ pc'[p] = "exit" /\ result'[p] = "failed"
  BY <1>a, <1>c DEF NameTaken
<1>1. CASE PickName(p)
  BY <1>1, <1>a DEF PickName
<1>2. CASE OpenStage(p)
  BY <1>2, <1>a DEF OpenStage
<1>3. CASE DetachStage(p)
  BY <1>3, <1>a DEF DetachStage, Unlinked
<1>4. CASE WriteStage(p)
  BY <1>4, <1>a DEF WriteStage
<1>5. CASE CloseStage(p)
  BY <1>5, <1>a DEF CloseStage
<1>6. CASE Link(p)
  BY <1>6, <1>a, <1>c DEF Link
<1>7. CASE LookUp(p)
  BY <1>7, <1>a, <1>c DEF LookUp
<1>8. CASE DrawTemp(p)
  BY <1>8, <1>a DEF DrawTemp
<1>9. CASE CreateTemp(p)
  BY <1>9, <1>a DEF CreateTemp
<1>10. CASE FillTemp(p)
  BY <1>10, <1>a DEF FillTemp, Fill
<1>11. CASE SyncTemp(p)
  BY <1>11, <1>a DEF SyncTemp, Sync
<1>12. CASE Rename(p)
  BY <1>12, <1>a DEF Rename, MayRename
<1>13. CASE HardLink(p)
  BY <1>13, <1>a DEF HardLink
<1>14. CASE DropTemp(p)
  BY <1>14, <1>a, <1>c DEF DropTemp, AfterDrop, Unlinked
<1>15. CASE CreateDirect(p)
  BY <1>15, <1>a, <1>c DEF CreateDirect
<1>16. CASE FillDirect(p)
  BY <1>16, <1>a DEF FillDirect, Fill
<1>17. CASE SyncDirect(p)
  BY <1>17, <1>a DEF SyncDirect, Sync
<1>18. CASE DropDirect(p)
  BY <1>18, <1>a DEF DropDirect, Unlinked
<1>19. CASE SyncDir(p)
  BY <1>19, <1>a DEF SyncDir
<1>20. CASE Announce(p)
  BY <1>20, <1>a DEF Announce
<1>21. CASE ShowKey(p)
  BY <1>21, <1>a DEF ShowKey
<1>22. CASE Trailer(p)
  BY <1>22, <1>a DEF Trailer
<1>23. CASE Withdraw(p)
  BY <1>23, <1>a DEF Withdraw
<1>24. CASE Report(p)
  BY <1>24, <1>a DEF Report
<1>25. CASE Exit(p)
  BY <1>25, <1>a DEF Exit
<1> QED
  BY <1>1, <1>2, <1>3, <1>4, <1>5, <1>6, <1>7, <1>8, <1>9, <1>10, <1>11, <1>12, <1>13, <1>14, <1>15, <1>16, <1>17, <1>18, <1>19, <1>20, <1>21, <1>22, <1>23, <1>24, <1>25 DEF Step

LEMMA OnDiskStep ==
  ASSUME TypeOK, Safe, Tidy, Lasting, NEW p \in Procs, Step(p)
  PROVE  OnDisk(p)'
<1> SUFFICES ASSUME NEW n \in FinalNames, disk'[n].owner = p, Durable(disk'[n])
             PROVE  \/ dir'[n].owner = p /\ Durable(dir'[n])
                    \/ result'[p] = "undelivered" /\ fs'.unlink
  BY DEF OnDisk, Durable
<1>1. disk'[n] \in {disk[n], dir'[n]}
  BY DiskMakes DEF Safe, Names
<1>2. CASE disk'[n] = dir'[n]
  BY <1>2
<1>3. CASE disk'[n] = disk[n]
  <2>1. /\ n = name[p] /\ n \in Names
        /\ HoldsName(p) \/ pc[p] \notin Working \ {"exit"}
        /\ \/ dir[n].owner = p /\ Durable(dir[n])
           \/ result[p] = "undelivered" /\ fs.unlink
        /\ fs' = fs
    BY <1>3, FsFixed DEF Tidy, OneName, Lasting, OnDisk, Names
  <2>2. /\ pc[p] \in Working \ {"exit"} => result[p] = "none"
        /\ Copying(p) /\ Flow(p)
    BY StepFlows DEF Safe, KeyImages, KeyImage, Lasting
  <2>3. pc[p] \in Working \ {"exit"} => HoldsOutput(p)
    BY <2>1, <2>2
       DEF Copying, Durable, HoldsOutput, HoldsName, NameHeld, Direct
  <2>4. CASE {pc[p], pc'[p]} \subseteq Working \ {"exit"}
    <3>1. HoldsOutput(p)' /\ name'[p] = n
      BY <2>1, <2>2, <2>3, <2>4 DEF Flow
    <3>2. Holds' /\ Contents'
      BY StepSafe DEF Safe
    <3>3. dir'[n].owner = p /\ Durable(dir'[n])
      BY <3>1, <3>2 DEF Holds, HoldsOutput, Contents, Prepared, Durable
    <3> QED BY <3>3
  <2>5. CASE pc[p] \in Working \ {"exit"} /\ pc'[p] = "exit"
    BY <2>1, <2>2, <2>3, <2>5 DEF Flow, Unlinked
  <2>6. CASE pc[p] = "exit"
    BY <2>1, <2>2, <2>6 DEF Flow
  <2> QED BY <2>2, <2>4, <2>5, <2>6 DEF Flow
<1> QED BY <1>1, <1>2, <1>3

LEMMA CopyingStep ==
  ASSUME TypeOK, Lasting, NEW p \in Procs, Step(p)
  PROVE  Copying(p)'
<1> USE DEF files, plan, env, Goto, Return, Direct
<1>a. /\ dir \in [Names -> Entry] /\ name[p] \in Names /\ temp[p] \in Names
      /\ pc \in [Procs -> Labels]
      /\ after \in [Procs -> {"named", "taken", "direct", "failed"}]
  BY Distinct DEF TypeOK
<1>b. Copying(p)
  BY DEF Lasting
<1>c. ASSUME pc[p] \notin {"exit"}, NameTaken(p) PROVE pc'[p] \in {"exit", "repick", "link"}
  BY <1>a, <1>c DEF NameTaken
<1>d. \A e \in Entry : Filled(e, p).stable = e.stable
  BY DEF Entry, Filled
<1> USE DEF Copying
<1>1. CASE PickName(p)
  BY <1>1, <1>a, <1>b DEF PickName
<1>2. CASE OpenStage(p)
  BY <1>2, <1>a, <1>b DEF OpenStage
<1>3. CASE DetachStage(p)
  BY <1>3, <1>a, <1>b DEF DetachStage
<1>4. CASE WriteStage(p)
  BY <1>4, <1>a, <1>b DEF WriteStage
<1>5. CASE CloseStage(p)
  BY <1>5, <1>a, <1>b DEF CloseStage
<1>6. CASE Link(p)
  BY <1>6, <1>a, <1>b, <1>c DEF Link
<1>7. CASE LookUp(p)
  BY <1>7, <1>a, <1>b, <1>c DEF LookUp
<1>8. CASE DrawTemp(p)
  BY <1>8, <1>a, <1>b DEF DrawTemp
<1>9. CASE CreateTemp(p)
  BY <1>9, <1>a, <1>b DEF CreateTemp
<1>10. CASE FillTemp(p)
  BY <1>10, <1>a, <1>b, <1>d DEF FillTemp, Fill
<1>11. CASE SyncTemp(p)
  BY <1>11, <1>a, <1>b DEF SyncTemp, Sync
<1>12. CASE Rename(p)
  BY <1>12, <1>a, <1>b DEF Rename, MayRename
<1>13. CASE HardLink(p)
  BY <1>13, <1>a, <1>b DEF HardLink
<1>14. CASE DropTemp(p)
  BY <1>14, <1>a, <1>b, <1>c DEF DropTemp, AfterDrop
<1>15. CASE CreateDirect(p)
  BY <1>15, <1>a, <1>b, <1>c DEF CreateDirect, OwnFile
<1>16. CASE FillDirect(p)
  BY <1>16, <1>a, <1>b, <1>d DEF FillDirect, Fill
<1>17. CASE SyncDirect(p)
  BY <1>17, <1>a, <1>b DEF SyncDirect, Sync
<1>18. CASE DropDirect(p)
  BY <1>18, <1>a, <1>b DEF DropDirect
<1>19. CASE SyncDir(p)
  BY <1>19, <1>a, <1>b DEF SyncDir
<1>20. CASE Announce(p)
  BY <1>20, <1>a, <1>b DEF Announce
<1>21. CASE ShowKey(p)
  BY <1>21, <1>a, <1>b DEF ShowKey
<1>22. CASE Trailer(p)
  BY <1>22, <1>a, <1>b DEF Trailer
<1>23. CASE Withdraw(p)
  BY <1>23, <1>a, <1>b DEF Withdraw
<1>24. CASE Report(p)
  BY <1>24, <1>a, <1>b DEF Report
<1>25. CASE Exit(p)
  BY <1>25, <1>a, <1>b DEF Exit
<1> QED
  BY <1>1, <1>2, <1>3, <1>4, <1>5, <1>6, <1>7, <1>8, <1>9, <1>10, <1>11, <1>12, <1>13, <1>14, <1>15, <1>16, <1>17, <1>18, <1>19, <1>20, <1>21, <1>22, <1>23, <1>24, <1>25 DEF Step

LEMMA LastingStep ==
  ASSUME TypeOK, Safe, Tidy, Lasting, NEW p \in Procs, Step(p)
  PROVE  Lasting'
<1>0. /\ Holds /\ User \notin {p, NoOne}
      /\ \A n \in FinalNames : n \in Names
  BY Distinct DEF Safe, Names
<1>1. UserOnDisk'
  <2> SUFFICES ASSUME NEW n \in FinalNames PROVE dir'[n].owner = User <=> disk'[n].owner = User
    BY DEF UserOnDisk
  <2>1. dir[n].owner = User <=> disk[n].owner = User
    BY DEF Lasting, UserOnDisk
  <2>2. /\ dir'[n] = dir[n] \/ (dir[n].owner # User /\ dir'[n].owner # User)
        /\ disk'[n] \in {disk[n], dir'[n]}
    BY <1>0, Makes, DiskMakes
  <2> QED BY <2>1, <2>2
<1>2. LostTogether'
  <2>1. pc[p] # "lost" /\ pc'[p] # "lost"
    BY StepFlows DEF Flow, Working
  <2>2. \A q \in Procs : pc'[q] # "lost"
    BY <2>1, Locality DEF Lasting, LostTogether
  <2> QED BY <2>2 DEF LostTogether
<1>3. OnDisk(p)' /\ Copying(p)'
  BY OnDiskStep, CopyingStep
<1>4. ASSUME NEW q \in Procs \ {p} PROVE OnDisk(q)' /\ Copying(q)'
  <2>1. /\ pc'[q] = pc[q] /\ name'[q] = name[q] /\ result'[q] = result[q] /\ fs' = fs
        /\ OnDisk(q) /\ Copying(q) /\ name[q] \in Names
    BY Locality, Distinct DEF Lasting
  <2>2. ASSUME NEW n \in Names, dir[n].owner = q PROVE dir'[n] = dir[n]
    BY <1>0, <2>2, Touches, Distinct DEF Procs
  <2>3. OnDisk(q)'
    <3> SUFFICES ASSUME NEW n \in FinalNames, disk'[n].owner = q, Durable(disk'[n])
                 PROVE  \/ dir'[n].owner = q /\ Durable(dir'[n])
                        \/ result'[q] = "undelivered" /\ fs'.unlink
      BY DEF OnDisk, Durable
    <3>1. disk'[n] \in {disk[n], dir'[n]}
      BY <1>0, DiskMakes
    <3> QED BY <1>0, <2>1, <2>2, <3>1 DEF OnDisk, Durable
  <2>4. Copying(q)'
    <3>1. pc[q] \in Direct \ {"createDirect"} => dir[name[q]].owner = q
      BY <1>0 DEF Holds, HoldsName, NameHeld, Direct
    <3> QED BY <2>1, <2>2, <3>1 DEF Copying, Direct
  <2> QED BY <2>3, <2>4
<1> QED BY <1>1, <1>2, <1>3, <1>4 DEF Lasting

LEMMA InitLasting == Init => Lasting
<1> SUFFICES ASSUME Init PROVE Lasting
  OBVIOUS
<1>1. UserOnDisk
  BY DEF Init, UserOnDisk
<1>2. LostTogether
  BY InitStarts DEF LostTogether
<1>3. ASSUME NEW p \in Procs PROVE OnDisk(p) /\ Copying(p)
  BY InitStarts DEF Init, OnDisk, Copying, Direct
<1> QED BY <1>1, <1>2, <1>3 DEF Lasting

LEMMA OthersLasting == ASSUME TypeOK, Safe, Lasting, Others PROVE Lasting'
<1> USE DEF files, plan, env
<1>1. ASSUME NEW p \in Procs, Signal(p) \/ Kill(p) PROVE Lasting'
  <2>1. /\ UNCHANGED <<fs, dir, disk, name, result>>
        /\ pc' = pc \/ (pc[p] \in Working /\ pc' = [pc EXCEPT ![p] = "killed"])
        /\ pc \in [Procs -> Labels]
    BY <1>1 DEF Signal, Kill, Goto, TypeOK
  <2>2. UserOnDisk'
    BY <2>1 DEF Lasting, UserOnDisk
  <2>3. LostTogether'
    BY <2>1 DEF Lasting, LostTogether, Working
  <2>4. ASSUME NEW q \in Procs PROVE OnDisk(q)' /\ Copying(q)'
    <3>1. OnDisk(q) /\ Copying(q)
      BY DEF Lasting
    <3>2. OnDisk(q)'
      BY <2>1, <3>1 DEF OnDisk, Durable
    <3>3. Copying(q)'
      BY <2>1, <3>1 DEF Copying, Direct
    <3> QED BY <3>2, <3>3
  <2> QED BY <2>2, <2>3, <2>4 DEF Lasting
<1>2. ASSUME NEW n \in FinalNames, UserCreates(n) \/ UserRemoves(n) PROVE Lasting'
  <2>1. /\ UNCHANGED <<fs, pc, name, result>>
        /\ dir[n].owner \in {User, NoOne} /\ n \in Names
        /\ \E e \in {UserFile, Free} : /\ dir' = [dir EXCEPT ![n] = e]
                                       /\ disk' = [disk EXCEPT ![n] = e]
        /\ dir \in [Names -> Entry] /\ disk \in [Names -> Entry]
    BY <1>2 DEF UserCreates, UserRemoves, Taken, TypeOK, Names
  <2>2. UserOnDisk'
    BY <2>1 DEF Lasting, UserOnDisk, Names
  <2>3. LostTogether'
    BY <2>1 DEF Lasting, LostTogether
  <2>4. ASSUME NEW q \in Procs PROVE OnDisk(q)' /\ Copying(q)'
    <3>1. OnDisk(q) /\ Copying(q) /\ name[q] \in Names /\ q \notin {User, NoOne}
      BY Distinct DEF Lasting
    <3>2. ASSUME NEW m \in Names
          PROVE  /\ disk'[m].owner = q => disk'[m] = disk[m]
                 /\ dir[m].owner = q => dir'[m] = dir[m]
      BY <2>1, <3>1 DEF UserFile, Free
    <3>3. OnDisk(q)'
      BY <2>1, <3>1, <3>2 DEF OnDisk, Durable, Names
    <3>4. Copying(q)'
      <4>1. pc[q] \in Direct \ {"createDirect"} => dir[name[q]].owner = q
        BY DEF Safe, Holds, HoldsName, NameHeld, Direct
      <4> QED BY <2>1, <3>1, <3>2, <4>1 DEF Copying, Direct
    <3> QED BY <3>3, <3>4
  <2> QED BY <2>2, <2>3, <2>4 DEF Lasting
<1>3. ASSUME PowerLoss PROVE Lasting'
  <2>1. pc' = [p \in Procs |-> "lost"] /\ disk' = dir'
    BY <1>3 DEF PowerLoss
  <2> QED BY <2>1 DEF Lasting, UserOnDisk, LostTogether, OnDisk, Copying, Direct
<1> QED BY <1>1, <1>2, <1>3 DEF Others

LEMMA LastingUnchanged == Lasting /\ UNCHANGED vars => Lasting'
<1> SUFFICES ASSUME Lasting, UNCHANGED vars PROVE Lasting'
  OBVIOUS
<1>1. UserOnDisk' /\ LostTogether'
  BY DEF Lasting, UserOnDisk, LostTogether, vars
<1>2. ASSUME NEW p \in Procs PROVE OnDisk(p)' /\ Copying(p)'
  <2>1. OnDisk(p) /\ Copying(p)
    BY DEF Lasting
  <2> QED BY <2>1 DEF OnDisk, Copying, Durable, vars
<1> QED BY <1>1, <1>2 DEF Lasting

\* The inductive invariant the refinement rests on.
IInv == TypeOK /\ Safe /\ Tidy /\ Lasting

LEMMA PromiseInvariant == Spec => []IInv
<1>1. Init => Lasting
  BY InitLasting
<1>2. TypeOK /\ Safe /\ Tidy /\ Lasting /\ [Next]_vars => Lasting'
  <2> SUFFICES ASSUME TypeOK, Safe, Tidy, Lasting, [Next]_vars PROVE Lasting'
    OBVIOUS
  <2>1. CASE \E p \in Procs : Step(p)
    BY <2>1, LastingStep
  <2>2. CASE Others
    BY <2>2, OthersLasting
  <2>3. CASE UNCHANGED vars
    BY <2>3, LastingUnchanged
  <2> QED BY <2>1, <2>2, <2>3 DEF Next
<1> QED BY <1>1, <1>2, TidyInvariant, PTL DEF Spec, IInv

\* What the listing shows of the output of p.
Shows(p) == Shown(name[p]) = p

\* How the promise's view is read off the state.
View(p) ==
  /\ \A n \in FinalNames : Shown(n) = p => n = name[p]
  /\ ShowsOutput(p) <=> Shows(p)
  /\ Shows(p) <=> dir[name[p]].owner = p /\ Durable(dir[name[p]])
  /\ pc[p] \in Working \ {"exit"} =>
       /\ Shows(p) <=> HoldsOutput(p)
       /\ Phase(p) = IF HoldsOutput(p) THEN "named" ELSE "hidden"
  /\ pc[p] = "exit" =>
       Phase(p) = IF result[p] = "undelivered" /\ fs.unlink THEN "withdrawn"
                  ELSE IF Shows(p) THEN "kept" ELSE "gone"

\* A final name shows its owner if the owner's file is complete, else no one.
ShownOwner(n) ==
  Shown(n) = IF dir[n].owner \in Procs /\ ~Durable(dir[n]) THEN NoOne ELSE dir[n].owner

Viewed == (\A p \in Procs : View(p)) /\ (\A n \in FinalNames : ShownOwner(n))

LEMMA ViewHolds == IInv => Viewed
<1> SUFFICES ASSUME IInv PROVE Viewed
  OBVIOUS
<1>1. ASSUME NEW n \in FinalNames PROVE ShownOwner(n)
  BY DEF IInv, Safe, Sound, AtomicFs, Durable, Shown, ShownOwner
<1>2. ASSUME NEW p \in Procs PROVE View(p)
  <2>1. /\ TypeOK /\ name[p] \in FinalNames /\ p \notin {User, NoOne}
        /\ OneName(p) /\ Copying(p) /\ KeyImage(p)
    BY Distinct DEF IInv, TypeOK, Tidy, Lasting, Safe, KeyImages
  <2>2. ASSUME NEW n \in FinalNames PROVE Shown(n) = p <=> dir[n].owner = p /\ Durable(dir[n])
    BY <1>1, <2>1 DEF ShownOwner
  <2>3. \A n \in FinalNames : Shown(n) = p => n = name[p]
    BY <2>1, <2>2 DEF OneName
  <2>4. ShowsOutput(p) <=> Shows(p)
    BY <2>1, <2>3 DEF ShowsOutput, Shows
  <2>5. Shows(p) <=> dir[name[p]].owner = p /\ Durable(dir[name[p]])
    BY <2>1, <2>2 DEF Shows
  <2>6. ASSUME pc[p] \in Working \ {"exit"}
        PROVE  /\ Shows(p) <=> HoldsOutput(p)
               /\ Phase(p) = IF HoldsOutput(p) THEN "named" ELSE "hidden"
    <3>1. CASE HoldsOutput(p)
      <4>1. Shows(p)
        BY <2>5, <3>1 DEF IInv, Safe, Holds, Contents, Prepared, HoldsOutput
      <4> QED BY <2>1, <2>4, <2>6, <3>1, <4>1 DEF Phase, KeyImage, Working
    <3>2. CASE ~HoldsOutput(p)
      <4>1. ~Shows(p)
        <5>1. CASE HoldsName(p)
          <6>1. ~Durable(dir[name[p]])
            BY <2>1, <3>2, <5>1 DEF HoldsOutput, HoldsName, NameHeld, Direct, Copying, Durable
          <6> QED BY <2>5, <6>1
        <5>2. CASE ~HoldsName(p)
          BY <2>1, <2>5, <2>6, <5>2 DEF OneName
        <5> QED BY <5>1, <5>2
      <4> QED BY <2>1, <2>4, <2>6, <3>2, <4>1 DEF Phase, KeyImage, Working
    <3> QED BY <3>1, <3>2
  <2>7. ASSUME pc[p] = "exit"
        PROVE  Phase(p) = IF result[p] = "undelivered" /\ fs.unlink THEN "withdrawn"
                          ELSE IF Shows(p) THEN "kept" ELSE "gone"
    BY <2>4, <2>7 DEF Phase
  <2> QED BY <2>3, <2>4, <2>5, <2>6, <2>7 DEF View
<1> QED BY <1>1, <1>2 DEF Viewed

\* The other entries keep showing what they showed.
LEMMA ViewOfOthers ==
  ASSUME IInv, IInv', NEW p \in Procs, Step(p)
  PROVE  /\ \A n \in FinalNames : Shown(n)' = Shown(n) \/ {Shown(n), Shown(n)'} \subseteq {p, NoOne}
         /\ \A q \in Procs \ {p} : Phase(q)' = Phase(q)
<1>0. /\ TypeOK /\ Holds /\ fs' = fs
      /\ \A n \in FinalNames : n \in Names
  BY FsFixed DEF IInv, Safe, Names
<1>1. Viewed /\ Viewed'
  <2>1. IInv' => Viewed'
    BY ViewHolds, PTL
  <2> QED BY <2>1, ViewHolds
<1>2. ASSUME NEW n \in FinalNames
      PROVE  Shown(n)' = Shown(n) \/ {Shown(n), Shown(n)'} \subseteq {p, NoOne}
  <2>1. CASE dir'[n] = dir[n]
    BY <1>0, <2>1 DEF Shown
  <2>2. CASE dir[n].owner \in {p, NoOne} /\ dir'[n].owner \in {p, NoOne}
    BY <1>1, <2>2 DEF Viewed, ShownOwner
  <2> QED BY <1>0, <2>1, <2>2, Makes
<1>3. ASSUME NEW q \in Procs \ {p} PROVE Phase(q)' = Phase(q)
  <2>1. pc'[q] = pc[q] /\ result'[q] = result[q]
    BY <1>0, Locality
  <2>2. ShowsOutput(q)' <=> ShowsOutput(q)
    <3>1. \A n \in FinalNames : Shown(n)' = q <=> Shown(n) = q
      BY <1>0, <1>2, Distinct
    <3> QED BY <3>1 DEF ShowsOutput
  <2> QED BY <1>0, <2>1, <2>2 DEF Phase
<1> QED BY <1>2, <1>3

\* A step of a run is one of the promise's, or changes nothing it can see.
LEMMA StepKeeps ==
  ASSUME IInv, IInv', NEW p \in Procs, Step(p)
  PROVE  [Promise!Next]_(Promise!vars)
<1> DEFINE holder == [n \in FinalNames |-> Shown(n)]
           phase == [q \in Procs |-> Phase(q)]
<1>1. /\ TypeOK /\ Flow(p) /\ fs' = fs /\ p # NoOne
      /\ name[p] \in FinalNames /\ name'[p] \in FinalNames
      /\ name[p] \in Names /\ dir \in [Names -> Entry]
      /\ result[p] \in Results
  BY FsFixed, StepFlows, Distinct DEF IInv, TypeOK
<1>2. View(p) /\ View(p)'
  <2>1. IInv' => Viewed'
    BY ViewHolds, PTL
  <2> QED BY <2>1, ViewHolds DEF Viewed
<1>3. /\ \A n \in FinalNames :
           Shown(n)' = Shown(n) \/ {Shown(n), Shown(n)'} \subseteq {p, NoOne}
      /\ \A q \in Procs \ {p} : Phase(q)' = Phase(q)
  BY ViewOfOthers
<1>m. PICK m \in FinalNames : m = name'[p]
  BY <1>1
<1>s. Shows(p)' <=> Shown(m)' = p
  BY <1>m DEF Shows, Shown
\* The listing changes at most at the name of p, where it shows p or no one.
<1>4. ASSUME ~Shows(p), ~Shows(p)' PROVE \A n \in FinalNames : Shown(n)' = Shown(n)
  BY <1>2, <1>3, <1>4 DEF View, Shows
<1>5. ASSUME Shows(p), Shows(p)', name'[p] = name[p]
      PROVE  \A n \in FinalNames : Shown(n)' = Shown(n)
  BY <1>2, <1>3, <1>5 DEF View, Shows
<1>6. ASSUME ~Shows(p), Shows(p)'
      PROVE  /\ Shown(m) = NoOne /\ Shown(m)' = p
             /\ \A n \in FinalNames \ {m} : Shown(n)' = Shown(n)
  <2>1. Shown(m)' = p
    BY <1>6, <1>s
  <2>2. \A n \in FinalNames : Shown(n)' = p => n = m
    BY <1>2, <1>m DEF View, Shown
  <2>3. \A n \in FinalNames : Shown(n) # p
    BY <1>2, <1>6 DEF View, Shows
  <2> QED BY <1>1, <1>3, <2>1, <2>2, <2>3
<1>7. ASSUME Shows(p), ~Shows(p)', name'[p] = name[p]
      PROVE  /\ Shown(name[p])' = NoOne
             /\ \A n \in FinalNames \ {name[p]} : Shown(n)' = Shown(n)
  BY <1>1, <1>2, <1>3, <1>7 DEF View, Shows
<1>8. CASE {pc[p], pc'[p]} \subseteq Working \ {"exit"}
  <2>1. /\ Shows(p) <=> HoldsOutput(p)
        /\ Shows(p)' <=> HoldsOutput(p)'
        /\ Phase(p) = IF Shows(p) THEN "named" ELSE "hidden"
        /\ Phase(p)' = IF Shows(p)' THEN "named" ELSE "hidden"
        /\ Shows(p) => Shows(p)' /\ name'[p] = name[p]
    BY <1>1, <1>2, <1>8 DEF View, Flow
  <2>2. CASE Shows(p)' <=> Shows(p)
    <3>1. \A n \in FinalNames : Shown(n)' = Shown(n)
      BY <1>4, <1>5, <2>1, <2>2
    <3>2. Phase(p)' = Phase(p)
      BY <2>1, <2>2
    <3> QED BY <1>3, <3>1, <3>2 DEF Promise!vars
  <2>3. CASE ~Shows(p) /\ Shows(p)'
    <3>1. holder' = [holder EXCEPT ![m] = p]
      BY <1>6, <2>3
    <3>2. phase' = [phase EXCEPT ![p] = "named"]
      BY <1>3, <2>1, <2>3
    <3>3. Promise!Appear(p, m)
      BY <1>1, <1>6, <2>1, <2>3, <3>1, <3>2 DEF Promise!Appear
    <3> QED BY <1>1, <3>3 DEF Promise!Next
  <2> QED BY <2>1, <2>2, <2>3
<1>9. CASE pc[p] \in Working \ {"exit"} /\ pc'[p] = "exit"
  <2>1. /\ Shows(p) <=> HoldsOutput(p)
        /\ Phase(p) = IF Shows(p) THEN "named" ELSE "hidden"
        /\ Phase(p)' = IF result'[p] = "undelivered" /\ fs.unlink THEN "withdrawn"
                       ELSE IF Shows(p)' THEN "kept" ELSE "gone"
    BY <1>1, <1>2, <1>9 DEF View
  <2>2. CASE dir' = dir /\ HoldsOutput(p)
    <3>1. Shows(p)' /\ name'[p] = name[p] /\ Phase(p) = "named"
      BY <1>1, <1>2, <2>1, <2>2 DEF View, Flow, Shows, Shown
    <3>2. Phase(p)' = "kept"
      <4>1. ASSUME dir' = Unlinked(name[p]), fs.unlink PROVE FALSE
        <5>1. dir[name[p]].owner = NoOne
          BY <1>1, <2>2, <4>1 DEF Unlinked, Free
        <5> QED BY <1>1, <1>2, <2>1, <2>2, <5>1 DEF View
      <4>2. result'[p] \in {"ok", "unreported"} \/ ~fs.unlink
        BY <1>1, <1>9, <2>2, <4>1 DEF Flow
      <4> QED BY <2>1, <3>1, <4>2
    <3>3. holder' = holder
      BY <1>5, <2>1, <2>2, <3>1
    <3>4. phase' = [phase EXCEPT ![p] = "kept"]
      BY <1>3, <3>2
    <3>5. Promise!End(p)
      BY <3>1, <3>3, <3>4 DEF Promise!End
    <3> QED BY <3>5 DEF Promise!Next
  <2>3. CASE dir' # dir /\ HoldsOutput(p)
    <3>1. /\ result'[p] = "undelivered" /\ fs.unlink /\ dir' = [dir EXCEPT ![name[p]] = Free]
          /\ name'[p] = name[p]
      BY <1>1, <1>9, <2>3 DEF Flow, Unlinked
    <3>2. ~Shows(p)'
      BY <1>1, <1>2, <3>1 DEF View, Free
    <3>3. holder' = [holder EXCEPT ![name[p]] = NoOne]
      BY <1>1, <1>7, <2>1, <2>3, <3>1, <3>2
    <3>4. phase' = [phase EXCEPT ![p] = "withdrawn"]
      <4>1. Phase(p)' = "withdrawn"
        BY <2>1, <3>1
      <4> QED BY <1>3, <4>1
    <3>5. Promise!Withdraw(p, name[p])
      BY <1>1, <2>1, <2>3, <3>3, <3>4 DEF Promise!Withdraw, Shows
    <3> QED BY <1>1, <3>5 DEF Promise!Next
  <2>4. CASE ~HoldsOutput(p)
    <3>1. result'[p] = "failed" /\ \A n \in FinalNames : dir'[n] \in {dir[n], Free}
      BY <1>1, <1>9, <2>4 DEF Flow
    <3>2. ~Shows(p)'
      <4>1. Shown(m) # p
        BY <1>2, <2>1, <2>4 DEF View, Shows
      <4>2. CASE dir'[m] = dir[m]
        BY <1>1, <1>s, <4>1, <4>2 DEF Shown
      <4>3. CASE dir'[m] = Free
        BY <1>1, <1>s, <4>3, PublishAssumption DEF Shown, Free
      <4> QED BY <3>1, <4>2, <4>3
    <3>3. holder' = holder
      BY <1>4, <2>1, <2>4, <3>2
    <3>4. Phase(p) = "hidden" /\ phase' = [phase EXCEPT ![p] = "gone"]
      BY <1>3, <2>1, <2>4, <3>1, <3>2
    <3>5. Promise!End(p)
      BY <3>3, <3>4 DEF Promise!End
    <3> QED BY <3>5 DEF Promise!Next
  <2> QED BY <2>2, <2>3, <2>4
<1>10. CASE pc[p] = "exit" /\ pc'[p] = "done" /\ UNCHANGED <<dir, name, result>>
  <2>1. \A n \in FinalNames : Shown(n)' = Shown(n)
    BY <1>1, <1>10 DEF Shown
  <2>2. ShowsOutput(p)' <=> ShowsOutput(p)
    BY <2>1 DEF ShowsOutput
  <2>3. Phase(p)' = Phase(p)
    BY <1>1, <1>10, <2>2 DEF Phase, Working
  <2> QED BY <1>3, <2>1, <2>3 DEF Promise!vars
<1> QED BY <1>1, <1>8, <1>9, <1>10 DEF Flow

\* So is one of the environment.
LEMMA OthersKeep ==
  ASSUME IInv, IInv', Others
  PROVE  [Promise!Next]_(Promise!vars)
<1> DEFINE holder == [n \in FinalNames |-> Shown(n)]
           phase == [q \in Procs |-> Phase(q)]
<1> USE DEF files, plan, env
<1>1. Viewed /\ Viewed'
  <2>1. IInv' => Viewed'
    BY ViewHolds, PTL
  <2> QED BY <2>1, ViewHolds
<1>2. ASSUME NEW p \in Procs, Signal(p) \/ Kill(p)
      PROVE  [Promise!Next]_(Promise!vars)
  <2>1. /\ UNCHANGED <<fs, dir, result>> /\ pc \in [Procs -> Labels]
        /\ \/ pc' = pc
           \/ pc[p] \in Working /\ pc' = [pc EXCEPT ![p] = "killed"]
    BY <1>2 DEF Signal, Kill, Goto, IInv, TypeOK
  <2>2. \A n \in FinalNames : Shown(n)' = Shown(n)
    BY <2>1 DEF Shown
  <2>3. \A q \in Procs : ShowsOutput(q)' <=> ShowsOutput(q)
    BY <2>2 DEF ShowsOutput
  <2>4. CASE pc'[p] = pc[p]
    <3>1. \A q \in Procs : Phase(q)' = Phase(q)
      BY <2>1, <2>3, <2>4 DEF Phase
    <3> QED BY <2>2, <3>1 DEF Promise!vars
  <2>5. CASE pc[p] = "exit" /\ pc' = [pc EXCEPT ![p] = "killed"]
    <3>1. \A q \in Procs : Phase(q)' = Phase(q)
      BY <2>1, <2>3, <2>5 DEF Phase, Working
    <3> QED BY <2>2, <3>1 DEF Promise!vars
  <2>6. CASE pc[p] \in Working \ {"exit"} /\ pc' = [pc EXCEPT ![p] = "killed"]
    <3>1. \A q \in Procs \ {p} : Phase(q)' = Phase(q)
      BY <2>1, <2>3, <2>6 DEF Phase
    <3>2. /\ Phase(p) = IF Shows(p) THEN "named" ELSE "hidden"
          /\ ShowsOutput(p) <=> Shows(p)
          /\ result[p] # "undelivered"
      BY ZenonT(40), <1>1, <2>6 DEF Viewed, View, IInv, Safe, KeyImages, KeyImage
    <3>3. Phase(p)' = IF Shows(p) THEN "kept" ELSE "gone"
      BY <2>1, <2>3, <2>6, <3>2 DEF Phase, Working
    <3>4. holder' = holder
      BY <2>2
    <3>5. phase' = [phase EXCEPT ![p] = IF phase[p] = "named" THEN "kept" ELSE "gone"]
      BY <3>1, <3>2, <3>3
    <3>6. Promise!End(p)
      BY <3>2, <3>4, <3>5 DEF Promise!End
    <3> QED BY <3>6 DEF Promise!Next
  <2> QED BY <2>1, <2>4, <2>5, <2>6
<1>3. ASSUME NEW n \in FinalNames, UserCreates(n) \/ UserRemoves(n)
      PROVE  [Promise!Next]_(Promise!vars)
  <2>1. PICK e \in {UserFile, Free} : dir' = [dir EXCEPT ![n] = e]
    BY <1>3 DEF UserCreates, UserRemoves
  <2>2. /\ UNCHANGED <<fs, pc, result>> /\ dir[n].owner \in {User, NoOne}
        /\ dir \in [Names -> Entry] /\ n \in Names
    BY <1>3 DEF UserCreates, UserRemoves, Taken, IInv, TypeOK, Names
  <2>3. e.owner \in {User, NoOne} /\ {User, NoOne} \cap Procs = {}
    BY <2>1, PublishAssumption DEF UserFile, Free
  <2>4. /\ Shown(n) \in {User, NoOne} /\ Shown(n)' = e.owner
        /\ \A m \in FinalNames \ {n} : Shown(m)' = Shown(m)
    BY <2>1, <2>2, <2>3 DEF Shown, Names
  <2>5. \A q \in Procs : ShowsOutput(q)' <=> ShowsOutput(q)
    BY <2>3, <2>4 DEF ShowsOutput
  <2>6. phase' = phase
    BY <2>2, <2>5 DEF Phase
  <2>7. holder' = [holder EXCEPT ![n] = e.owner]
    BY <2>4
  <2>8. Promise!UserActs(n)
    BY <2>3, <2>4, <2>6, <2>7 DEF Promise!UserActs
  <2> QED BY <2>8 DEF Promise!Next
<1>4. ASSUME PowerLoss PROVE [Promise!Next]_(Promise!vars)
  <2>1. /\ pc' = [p \in Procs |-> "lost"] /\ UNCHANGED <<fs, result>>
        /\ dir \in [Names -> Entry] /\ disk \in [Names -> Entry]
        /\ \A p \in Procs : pc[p] # "lost"
    BY <1>4 DEF PowerLoss, IInv, TypeOK, Lasting, LostTogether, Working
  <2>2. ASSUME NEW n \in Names
        PROVE  \E e \in {dir[n], disk[n]} :
                 dir'[n].owner = e.owner /\ (Durable(dir'[n]) => Durable(e))
    <3>1. dir[n] \in Entry /\ disk[n] \in Entry
      BY <2>1
    <3> QED BY <1>4, <3>1 DEF PowerLoss, Entry, Durable
  <2>3. ASSUME NEW n \in FinalNames
        PROVE  \/ Shown(n)' \in {Shown(n), NoOne}
               \/ /\ Shown(n) # User
                  /\ Shown(n)' \in {p \in Procs : Phase(p) = "withdrawn"}
    <3>1. PICK e \in {dir[n], disk[n]} :
            dir'[n].owner = e.owner /\ (Durable(dir'[n]) => Durable(e))
      BY <2>2 DEF Names
    <3>2. /\ ShownOwner(n)
          /\ Shown(n)' = IF e.owner \in Procs /\ ~Durable(dir'[n]) THEN NoOne ELSE e.owner
          /\ e.owner \in Procs \cup {User, NoOne}
          /\ {User, NoOne} \cap Procs = {}
      BY <1>1, <2>1, <3>1, PublishAssumption DEF Viewed, ShownOwner, Names, Entry, Durable
    <3>3. CASE e.owner = NoOne \/ (~Durable(dir'[n]) /\ e.owner \in Procs)
      BY <3>2, <3>3
    <3>4. CASE e.owner = User
      <4>1. dir[n].owner = User
        BY <3>1, <3>4 DEF IInv, Lasting, UserOnDisk
      <4> QED BY <3>2, <3>4, <4>1 DEF ShownOwner
    <3>5. CASE e.owner \in Procs /\ Durable(dir'[n])
      <4>1. CASE dir[n].owner = e.owner /\ Durable(dir[n])
        BY <3>2, <3>5, <4>1 DEF ShownOwner
      <4>2. CASE ~(dir[n].owner = e.owner /\ Durable(dir[n]))
        <5>1. e = disk[n] /\ Durable(disk[n])
          BY <3>1, <3>5, <4>2
        <5>2. result[e.owner] = "undelivered" /\ fs.unlink
          BY <3>5, <4>2, <5>1 DEF IInv, Lasting, OnDisk
        <5>3. Phase(e.owner) = "withdrawn"
          BY <2>1, <3>5, <5>2 DEF Phase
        <5>4. dir[n].owner # User
          BY <3>2, <3>5, <5>1 DEF IInv, Lasting, UserOnDisk
        <5>5. Shown(n) # User
          BY <3>2, <5>4 DEF ShownOwner, User, NoOne
        <5> QED BY <3>2, <3>5, <5>3, <5>5
      <4> QED BY <4>1, <4>2
    <3> QED BY <3>2, <3>3, <3>4, <3>5
  <2>4. phase' = [p \in Procs |-> "gone"]
    BY <2>1 DEF Phase
  <2>5. Promise!PowerLoss
    BY <2>3, <2>4 DEF Promise!PowerLoss
  <2> QED BY <2>5 DEF Promise!Next
<1> QED BY <1>2, <1>3, <1>4 DEF Others

LEMMA InitKeeps == Init => Promise!Init
<1> SUFFICES ASSUME Init PROVE Promise!Init
  OBVIOUS
<1>1. IInv
  BY InitType, InitSafe, InitTidy, InitLasting DEF IInv
<1>2. \A n \in FinalNames : Shown(n) \in {User, NoOne}
  BY PublishAssumption DEF Init, Shown, Free, UserFile, Names
<1>3. \A p \in Procs : ~ShowsOutput(p)
  BY <1>2, PublishAssumption DEF ShowsOutput
<1>4. \A p \in Procs : Phase(p) \in {"hidden", "gone"}
  <2>1. \A p \in Procs : result[p] # "undelivered"
    BY DEF Init
  <2> QED BY <1>3, <2>1 DEF Phase
<1> QED BY <1>2, <1>4 DEF Promise!Init

\* Seen from the directory listing alone, publication by any number of runs, with
\* its fallbacks, failures, signals, kills and power losses, is what PublishPromise
\* says: an output appears at once and complete under one free name, only its own
\* run takes it away, and a power loss brings back nothing but a withdrawn image.
THEOREM PublishingKeepsItsPromise == Spec => KeepsPromise
<1>1. Init => Promise!Init
  BY InitKeeps
<1>2. IInv /\ IInv' /\ [Next]_vars => [Promise!Next]_(Promise!vars)
  <2> SUFFICES ASSUME IInv, IInv', [Next]_vars PROVE [Promise!Next]_(Promise!vars)
    OBVIOUS
  <2>1. CASE \E p \in Procs : Step(p)
    BY <2>1, StepKeeps
  <2>2. CASE Others
    BY <2>2, OthersKeep
  <2>3. CASE UNCHANGED vars
    <3>1. \A n \in FinalNames : Shown(n)' = Shown(n)
      BY <2>3 DEF vars, Shown
    <3>2. \A p \in Procs : Phase(p)' = Phase(p)
      <4>1. \A p \in Procs : ShowsOutput(p)' <=> ShowsOutput(p)
        BY <3>1 DEF ShowsOutput
      <4> QED BY <2>3, <4>1 DEF vars, Phase
    <3> QED BY <3>1, <3>2 DEF Promise!vars
  <2> QED BY <2>1, <2>2, <2>3 DEF Next
<1> QED BY <1>1, <1>2, PromiseInvariant, PTL DEF Spec, KeepsPromise, Promise!Spec
=============================================================================
