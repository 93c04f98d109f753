------------------------------ MODULE MCPublish ------------------------------
(* Small instances of Publish for TLC.                                     *)
EXTENDS Publish

\* The base name and its first alternative.
TwoCandidates == [i \in 0..1 |-> IF i = 0 THEN "jrif_1.jpg" ELSE "jrif_1_1.jpg"]
OneCandidate == [i \in {0} |-> "jrif_1.jpg"]

\* One run at a time, or all of them.
OneRun == {{p} : p \in Procs}
AllRuns == {Procs}

AllFileSystems == Capabilities
\* One representative of each way of publishing.
EachPrimitive == {f \in Capabilities : f.unlink /\ f.dirSync /\ ~(f.link /\ f.rename)}
=============================================================================
