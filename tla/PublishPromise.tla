---------------------------- MODULE PublishPromise ----------------------------
(***************************************************************************)
(* What publishing promises, seen from the directory listing alone: an     *)
(* output appears under one final name that was free, in one step and      *)
(* complete, and only its own run takes it away again.                     *)
(***************************************************************************)
CONSTANTS Procs, FinalNames, User, NoOne

VARIABLES
  holder,  \* final name -> whose complete file it names
  phase    \* run -> what became of its output
vars == <<holder, phase>>

Init ==
  /\ holder \in [FinalNames -> {User, NoOne}]
  /\ phase \in [Procs -> {"hidden", "gone"}]  \* gone: not started

Appear(p, n) ==
  /\ phase[p] = "hidden" /\ holder[n] = NoOne
  /\ holder' = [holder EXCEPT ![n] = p]
  /\ phase' = [phase EXCEPT ![p] = "named"]

\* The KEY was not delivered: the image goes.
Withdraw(p, n) ==
  /\ phase[p] = "named" /\ holder[n] = p
  /\ holder' = [holder EXCEPT ![n] = NoOne]
  /\ phase' = [phase EXCEPT ![p] = "withdrawn"]

\* The run is over, with or without an output.
End(p) ==
  /\ phase[p] \in {"hidden", "named"}
  /\ phase' = [phase EXCEPT ![p] = IF @ = "named" THEN "kept" ELSE "gone"]
  /\ UNCHANGED holder

UserActs(n) ==
  /\ holder[n] \in {User, NoOne}
  /\ \E u \in {User, NoOne} : holder' = [holder EXCEPT ![n] = u]
  /\ UNCHANGED phase

\* Power loss ends every run.  An output may be gone, or a withdrawn one back;
\* it never comes back incomplete, and no user's file becomes a run's.
PowerLoss ==
  /\ \A n \in FinalNames :
       \/ holder'[n] \in {holder[n], NoOne}
       \/ /\ holder[n] # User
          /\ holder'[n] \in {p \in Procs : phase[p] = "withdrawn"}
  /\ DOMAIN holder' = FinalNames
  /\ phase' = [p \in Procs |-> "gone"]

Next ==
  \/ \E p \in Procs : End(p) \/ \E n \in FinalNames : Appear(p, n) \/ Withdraw(p, n)
  \/ \E n \in FinalNames : UserActs(n)
  \/ PowerLoss

Spec == Init /\ [][Next]_vars
=============================================================================
