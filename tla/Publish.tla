------------------------------- MODULE Publish -------------------------------
(***************************************************************************)
(* How a jdvrif run gives its finished output a name: StagingFile (a       *)
(* link-free inode), commit_staging_file_no_replace with every fallback,   *)
(* StagedOutput::commit_then with the delivery of the KEY, and             *)
(* commit_recovered_output.  Several runs and other programs ("the user")  *)
(* share one directory.  Any step may fail, any run may get a termination  *)
(* signal or be killed, and power may be lost.                             *)
(*                                                                         *)
(* A directory entry is a value: whose file it names, whether the file's   *)
(* bytes are all there, and whether they were fsynced.  dir is what the    *)
(* kernel shows, disk what survives a power loss.                          *)
(***************************************************************************)
EXTENDS Naturals

CONSTANTS
  Conceals,        \* runs of "conceal": the output is an image with a KEY
  Recovers,        \* runs of "recover": the output is the hidden file
  ImageNames,      \* the names a conceal run can draw ("jrif_<token>.jpg")
  RecoveredNames,  \* the names a recover run tries
  Candidate,       \* Candidate[i]: the i-th of them (base, stem_1.ext, ...)
  TempNames,       \* ".jdvrif_*.tmp" names
  NameLimit,       \* MAX_PATH_ATTEMPTS of commit_then
  CandidateLimit,  \* number of candidates of commit_recovered_output
  TempLimit,       \* MAX_ATTEMPTS of copy_staging_file_to_publish_temp
  FileSystems,     \* the file systems considered
  Starts           \* the sets of runs that are started together

Procs == Conceals \cup Recovers
FinalNames == ImageNames \cup RecoveredNames
Names == FinalNames \cup TempNames
User == "user"
NoOne == "no one"

(* What a file system and directory can do: name an inode with link(2),    *)
(* renameat2(RENAME_NOREPLACE), remove an entry, fsync the directory.      *)
(* Where entries cannot be removed (an append-only directory) they cannot  *)
(* be renamed either.                                                      *)
Capabilities ==
  {f \in [link : BOOLEAN, rename : BOOLEAN, unlink : BOOLEAN, dirSync : BOOLEAN] :
     f.rename => f.unlink}

ASSUME PublishAssumption ==
  /\ Conceals \cap Recovers = {}
  /\ {User, NoOne} \cap Procs = {}
  /\ TempNames \cap FinalNames = {} /\ TempNames # {} /\ ImageNames # {}
  /\ NameLimit \in Nat \ {0} /\ TempLimit \in Nat \ {0}
  /\ CandidateLimit \in Nat \ {0}
  /\ Candidate \in [0..(CandidateLimit - 1) -> RecoveredNames]
  /\ FileSystems \subseteq Capabilities
  /\ Starts \subseteq SUBSET Procs

Entry == [owner : Procs \cup {User, NoOne}, whole : BOOLEAN, stable : BOOLEAN]
Free == [owner |-> NoOne, whole |-> FALSE, stable |-> FALSE]
UserFile == [owner |-> User, whole |-> TRUE, stable |-> TRUE]
OwnFile(p, w, s) == [owner |-> p, whole |-> w, stable |-> s]

\* A staging inode: whether linkat can still name it, and its contents.
Stage == [link : BOOLEAN, whole : BOOLEAN, stable : BOOLEAN]

VARIABLES
  fs,       \* the capabilities of the file system in use
  dir,      \* name -> entry, as every program sees it
  disk,     \* name -> entry, as a power loss would leave it
  pc,       \* run -> the call it is about to make
  stage,    \* run -> its staging inode
  name,     \* run -> the final name it is trying
  temp,     \* run -> the hidden temporary name it is using
  tries,    \* run -> names found taken so far
  redraws,  \* run -> temporary names found taken so far
  after,    \* run -> what follows the removal of the temporary
  pending,  \* run -> a termination signal is recorded (PENDING_SIGNAL)
  key,      \* run -> its whole KEY has been written to standard output
  result    \* run -> what the command returned

vars == <<fs, dir, disk, pc, stage, name, temp, tries, redraws, after,
          pending, key, result>>
files == <<dir, disk>>
plan == <<name, temp, tries, redraws, after>>
env == <<fs, pending>>

Working == {"pick", "stage", "detach", "write", "close", "link", "repick", "lookup",
            "drawTemp", "createTemp", "fillTemp", "syncTemp", "rename", "hardLink",
            "dropTemp", "createDirect", "fillDirect", "syncDirect", "dropDirect",
            "syncDir", "announce", "showKey", "trailer", "withdraw", "report", "exit"}
Labels == Working \cup {"done", "killed", "lost"}
Results == {"none", "ok", "failed", "undelivered", "unreported"}

Limit(p) == IF p \in Conceals THEN NameLimit ELSE CandidateLimit

\* The types, and the bounds the retry loops keep.
TypeOK ==
  /\ fs \in FileSystems
  /\ dir \in [Names -> Entry] /\ disk \in [Names -> Entry]
  /\ pc \in [Procs -> Labels]
  /\ stage \in [Procs -> Stage]
  /\ name \in [Procs -> FinalNames] /\ temp \in [Procs -> TempNames]
  /\ tries \in [Procs -> Nat] /\ redraws \in [Procs -> Nat]
  /\ \A p \in Procs : tries[p] <= Limit(p) /\ redraws[p] <= TempLimit
  /\ after \in [Procs -> {"named", "taken", "direct", "failed"}]
  /\ pending \in [Procs -> BOOLEAN] /\ key \in [Procs -> BOOLEAN]
  /\ result \in [Procs -> Results]

Taken(n) == dir[n].owner # NoOne
Goto(p, l) == pc' = [pc EXCEPT ![p] = l]
Return(p, r) == Goto(p, "exit") /\ result' = [result EXCEPT ![p] = r]
Unlinked(n) == IF fs.unlink THEN [dir EXCEPT ![n] = Free] ELSE dir

Init ==
  /\ fs \in FileSystems
  /\ \E there \in SUBSET FinalNames :
       dir = [n \in Names |-> IF n \in there THEN UserFile ELSE Free]
  /\ disk = dir
  /\ \E started \in Starts :
       pc = [p \in Procs |-> CASE p \notin started -> "done"
                              [] p \in started \cap Conceals -> "pick"
                              [] p \in started \cap Recovers -> "stage"]
  /\ stage = [p \in Procs |-> [link |-> FALSE, whole |-> FALSE, stable |-> FALSE]]
  /\ name = [p \in Procs |-> IF p \in Recovers THEN Candidate[0]
                             ELSE CHOOSE n \in ImageNames : TRUE]
  /\ temp = [p \in Procs |-> CHOOSE t \in TempNames : TRUE]
  /\ tries = [p \in Procs |-> 0] /\ redraws = [p \in Procs |-> 0]
  /\ after = [p \in Procs |-> "failed"]
  /\ pending = [p \in Procs |-> FALSE] /\ key = [p \in Procs |-> FALSE]
  /\ result = [p \in Procs |-> "none"]

-----------------------------------------------------------------------------
(* The staging inode.                                                      *)

\* Draw a random image name that lstat finds free; the draw may fail.
PickName(p) ==
  /\ pc[p] \in {"pick", "repick"}
  /\ \/ \E n \in ImageNames :
          /\ ~Taken(n)
          /\ name' = [name EXCEPT ![p] = n]
          /\ Goto(p, IF pc[p] = "pick" THEN "stage" ELSE "link")
          /\ UNCHANGED result
     \/ Return(p, "failed") /\ UNCHANGED name
  /\ UNCHANGED <<files, env, stage, temp, tries, redraws, after, key>>

Linkable(inode) == [inode EXCEPT !.link = TRUE]
Written(inode) == [inode EXCEPT !.whole = TRUE]

\* O_TMPFILE, or where that is refused a hidden file to unlink at once.
OpenStage(p) ==
  /\ pc[p] = "stage"
  /\ \/ /\ stage' = [stage EXCEPT ![p] = Linkable(@)]
        /\ Goto(p, "write")
        /\ UNCHANGED <<dir, temp, result>>
     \/ \E t \in TempNames :
          /\ ~Taken(t)
          /\ dir' = [dir EXCEPT ![t] = OwnFile(p, FALSE, FALSE)]
          /\ temp' = [temp EXCEPT ![p] = t]
          /\ Goto(p, "detach")
          /\ UNCHANGED <<stage, result>>
     \/ Return(p, "failed") /\ UNCHANGED <<dir, stage, temp>>
  /\ UNCHANGED <<disk, env, name, tries, redraws, after, key>>

\* A hidden file that cannot be detached from its name is not used.
DetachStage(p) ==
  /\ pc[p] = "detach"
  /\ dir' = Unlinked(temp[p])
  /\ IF fs.unlink THEN Goto(p, "write") /\ UNCHANGED result ELSE Return(p, "failed")
  /\ UNCHANGED <<disk, env, plan, stage, key>>

\* Everything that produces the output: encryption and embedding, or the
\* KEY prompt and decryption.  It ends early on a signal or an error.
WriteStage(p) ==
  /\ pc[p] = "write"
  /\ \/ /\ ~pending[p]
        /\ stage' = [stage EXCEPT ![p] = Written(@)]
        /\ Goto(p, "close")
        /\ UNCHANGED result
     \/ Return(p, "failed") /\ UNCHANGED stage
  /\ UNCHANGED <<files, env, plan, key>>

NotFsynced(file) == file  \* mutant: durable = false
Fsynced(file) == [file EXCEPT !.stable = TRUE]

\* OutputFile::close(durable): fsync, checked close, cancellation check.
CloseStage(p) ==
  /\ pc[p] = "close"
  /\ \/ /\ ~pending[p]
        /\ stage' = [stage EXCEPT ![p] = Fsynced(@)]
        /\ Goto(p, "link")
        /\ UNCHANGED result
     \/ Return(p, "failed") /\ UNCHANGED stage
  /\ UNCHANGED <<files, env, plan, key>>

-----------------------------------------------------------------------------
(* commit_staging_file_no_replace                                          *)

AttemptUncounted(p) == tries[p]  \* mutant: the attempt is not counted
Attempt(p) == tries[p] + 1

Exhausted(p) == Attempt(p) >= Limit(p)

\* Ok(false): a conceal run draws another name, a recover run takes the next
\* candidate, until the limit.
NameTaken(p) ==
  /\ tries' = [tries EXCEPT ![p] = Attempt(p)]
  /\ IF Exhausted(p)
     THEN Return(p, "failed") /\ UNCHANGED name
     ELSE /\ Goto(p, IF p \in Conceals THEN "repick" ELSE "link")
          /\ name' = IF p \in Conceals THEN name
                     ELSE [name EXCEPT ![p] = Candidate[Attempt(p)]]
          /\ UNCHANGED result

\* linkat(2) names an O_TMPFILE inode.  Refused for any reason that is not the
\* name being taken, the run copies instead.  A refusal changes nothing, so it
\* is one step with the lstat that interprets it.
Link(p) ==
  /\ pc[p] = "link"
  /\ \/ /\ ~pending[p] /\ stage[p].link /\ fs.link /\ ~Taken(name[p])
        /\ dir' = [dir EXCEPT ![name[p]] = OwnFile(p, stage[p].whole, stage[p].stable)]
        /\ Goto(p, "syncDir")
        /\ UNCHANGED <<name, tries, result>>
     \/ /\ ~pending[p] /\ stage[p].link /\ Taken(name[p])
        /\ NameTaken(p)
        /\ UNCHANGED dir
     \/ /\ ~pending[p]
        /\ Goto(p, "lookup")
        /\ UNCHANGED <<dir, name, tries, result>>
     \/ /\ pending[p]
        /\ Return(p, "failed")
        /\ UNCHANGED <<dir, name, tries>>
  /\ UNCHANGED <<disk, env, stage, temp, redraws, after, key>>

LookUpThenCopyOver(p) ==  \* mutant: copies straight to the final name
  /\ pc[p] = "lookup"
  /\ IF Taken(name[p]) THEN NameTaken(p)
     ELSE Goto(p, "createDirect") /\ UNCHANGED <<name, tries, result>>
  /\ UNCHANGED <<files, env, stage, temp, redraws, after, key>>

\* The early out of copy_staging_file_no_replace.
LookUp(p) ==
  /\ pc[p] = "lookup"
  /\ IF Taken(name[p]) THEN NameTaken(p)
     ELSE Goto(p, "drawTemp") /\ UNCHANGED <<name, tries, result>>
  /\ redraws' = [redraws EXCEPT ![p] = 0]
  /\ UNCHANGED <<files, env, stage, temp, after, key>>

DrawTemp(p) ==
  /\ pc[p] = "drawTemp"
  /\ \/ \E t \in TempNames :
          /\ ~Taken(t)
          /\ temp' = [temp EXCEPT ![p] = t]
          /\ Goto(p, "createTemp")
          /\ UNCHANGED result
     \/ Return(p, "failed") /\ UNCHANGED temp
  /\ UNCHANGED <<files, env, stage, name, tries, redraws, after, key>>

\* O_EXCL; a name taken since it was drawn is drawn again, up to the limit.
CreateTemp(p) ==
  /\ pc[p] = "createTemp"
  /\ \/ /\ ~Taken(temp[p])
        /\ dir' = [dir EXCEPT ![temp[p]] = OwnFile(p, FALSE, FALSE)]
        /\ Goto(p, "fillTemp")
        /\ UNCHANGED <<redraws, result>>
     \/ /\ Taken(temp[p])
        /\ redraws' = [redraws EXCEPT ![p] = @ + 1]
        /\ IF redraws[p] + 1 >= TempLimit THEN Return(p, "failed")
           ELSE Goto(p, "drawTemp") /\ UNCHANGED result
        /\ UNCHANGED dir
     \/ Return(p, "failed") /\ UNCHANGED <<dir, redraws>>
  /\ UNCHANGED <<disk, env, stage, name, temp, tries, after, key>>

\* A file holding all the bytes the staging inode of p has.
Filled(file, p) == [file EXCEPT !.whole = stage[p].whole]

\* The copy loop of copy_staging_file_to_new_path, into the file at path.
Fill(p, path, done, undo) ==
  /\ \/ /\ ~pending[p]
        /\ dir' = [dir EXCEPT ![path] = Filled(@, p)]
        /\ Goto(p, done)
        /\ UNCHANGED after
     \/ /\ Goto(p, undo)
        /\ after' = [after EXCEPT ![p] = "failed"]
        /\ UNCHANGED dir
  /\ UNCHANGED <<disk, env, stage, name, temp, tries, redraws, key, result>>

\* finish_file(durable): the bytes under path reach stable storage.
Sync(p, path, done, undo) ==
  /\ \/ /\ dir' = [dir EXCEPT ![path] = Fsynced(@)]
        /\ disk' = IF disk[path].owner = p THEN [disk EXCEPT ![path] = dir'[path]]
                   ELSE disk
        /\ Goto(p, done)
        /\ UNCHANGED after
     \/ /\ Goto(p, undo)
        /\ after' = [after EXCEPT ![p] = "failed"]
        /\ UNCHANGED files
  /\ UNCHANGED <<env, stage, name, temp, tries, redraws, key, result>>

FillTemp(p) == pc[p] = "fillTemp" /\ Fill(p, temp[p], "syncTemp", "dropTemp")
SyncTemp(p) == pc[p] = "syncTemp" /\ Sync(p, temp[p], "rename", "dropTemp")

MayRenameOver(p) == fs.rename  \* mutant: rename(2)
MayRename(p) == fs.rename /\ ~Taken(name[p])

\* renameat2(RENAME_NOREPLACE), the first primitive of publish_temp_no_replace.
Rename(p) ==
  /\ pc[p] = "rename"
  /\ \/ /\ ~pending[p] /\ MayRename(p)
        /\ dir' = [dir EXCEPT ![name[p]] = dir[temp[p]], ![temp[p]] = Free]
        /\ Goto(p, "syncDir")
        /\ UNCHANGED after
     \/ /\ ~pending[p] /\ ~fs.rename
        /\ Goto(p, "hardLink")
        /\ UNCHANGED <<dir, after>>
     \/ /\ \/ after' = [after EXCEPT ![p] = "failed"]
           \/ /\ ~pending[p] /\ Taken(name[p])
              /\ after' = [after EXCEPT ![p] = "taken"]
        /\ Goto(p, "dropTemp")
        /\ UNCHANGED dir
  /\ UNCHANGED <<disk, env, stage, name, temp, tries, redraws, key, result>>

\* link(2), the second.  A file system with neither leaves the direct copy.
HardLink(p) ==
  /\ pc[p] = "hardLink"
  /\ \/ /\ fs.link /\ ~Taken(name[p])
        /\ dir' = [dir EXCEPT ![name[p]] = dir[temp[p]]]
        /\ after' = [after EXCEPT ![p] = "named"]
     \/ /\ \/ Taken(name[p]) /\ after' = [after EXCEPT ![p] = "taken"]
           \/ ~fs.link /\ after' = [after EXCEPT ![p] = "direct"]
           \/ after' = [after EXCEPT ![p] = "failed"]
        /\ UNCHANGED dir
  /\ Goto(p, "dropTemp")
  /\ UNCHANGED <<disk, env, stage, name, temp, tries, redraws, key, result>>

AfterDropInverted(p) ==  \* mutant: Published is taken for NameTaken
  \/ after[p] \in {"named", "taken"} /\ NameTaken(p)
  \/ after[p] = "direct" /\ Goto(p, "createDirect") /\ UNCHANGED <<name, tries, result>>
  \/ after[p] = "failed" /\ Return(p, "failed") /\ UNCHANGED <<name, tries>>

\* What the outcome of publish_temp_no_replace calls for.
AfterDrop(p) ==
  \/ after[p] = "named" /\ Goto(p, "syncDir") /\ UNCHANGED <<name, tries, result>>
  \/ after[p] = "direct" /\ Goto(p, "createDirect") /\ UNCHANGED <<name, tries, result>>
  \/ after[p] = "taken" /\ NameTaken(p)
  \/ after[p] = "failed" /\ Return(p, "failed") /\ UNCHANGED <<name, tries>>

\* cleanup_path_no_throw(temp), then whatever the outcome calls for.
DropTemp(p) ==
  /\ pc[p] = "dropTemp"
  /\ dir' = Unlinked(temp[p])
  /\ AfterDrop(p)
  /\ UNCHANGED <<disk, env, stage, temp, redraws, after, key>>

\* copy_staging_file_to_new_path straight to the final name.
CreateDirect(p) ==
  /\ pc[p] = "createDirect"
  /\ \/ /\ ~Taken(name[p])
        /\ dir' = [dir EXCEPT ![name[p]] = OwnFile(p, FALSE, FALSE)]
        /\ Goto(p, "fillDirect")
        /\ UNCHANGED <<name, tries, result>>
     \/ Taken(name[p]) /\ NameTaken(p) /\ UNCHANGED dir
     \/ Return(p, "failed") /\ UNCHANGED <<dir, name, tries>>
  /\ UNCHANGED <<disk, env, stage, temp, redraws, after, key>>

FillDirect(p) == pc[p] = "fillDirect" /\ Fill(p, name[p], "syncDirect", "dropDirect")
SyncDirect(p) == pc[p] = "syncDirect" /\ Sync(p, name[p], "syncDir", "dropDirect")

DropDirect(p) ==
  /\ pc[p] = "dropDirect"
  /\ dir' = Unlinked(name[p])
  /\ Return(p, "failed")
  /\ UNCHANGED <<disk, env, plan, stage, key>>

\* sync_parent_directory_no_throw: best effort, the run goes on either way.
SyncDir(p) ==
  /\ pc[p] = "syncDir"
  /\ disk' = IF fs.dirSync THEN dir ELSE disk
  /\ Goto(p, IF p \in Conceals THEN "announce" ELSE "report")
  /\ UNCHANGED <<dir, env, plan, stage, key, result>>

-----------------------------------------------------------------------------
(* deliver_conceal_key inside commit_then, and the end of a run.           *)

AnnounceUnchecked(p) ==  \* mutant: no cancellation check before the KEY
  /\ pc[p] = "announce"
  /\ Goto(p, "showKey") \/ Goto(p, "withdraw")
  /\ UNCHANGED <<files, env, plan, stage, key, result>>

\* The platform list, the cancellation check, and the text before the KEY.
Announce(p) ==
  /\ pc[p] = "announce"
  /\ \/ ~pending[p] /\ Goto(p, "showKey")
     \/ Goto(p, "withdraw")
  /\ UNCHANGED <<files, env, plan, stage, key, result>>

\* The KEY itself, unbuffered, to file descriptor 1.
ShowKey(p) ==
  /\ pc[p] = "showKey"
  /\ \/ key' = [key EXCEPT ![p] = TRUE] /\ Goto(p, "trailer")
     \/ Goto(p, "withdraw") /\ UNCHANGED key
  /\ UNCHANGED <<files, env, plan, stage, result>>

\* The text after the KEY and the last flush.
Trailer(p) ==
  /\ pc[p] = "trailer"
  /\ \/ Goto(p, "report")
     \/ Goto(p, "withdraw")
  /\ UNCHANGED <<files, env, plan, stage, key, result>>

WithdrawNothing(p) ==  \* mutant: the image stays
  /\ pc[p] = "withdraw"
  /\ Return(p, "undelivered")
  /\ UNCHANGED <<files, env, plan, stage, key>>

\* deliver failed: commit_then removes the image it just named.
Withdraw(p) ==
  /\ pc[p] = "withdraw"
  /\ dir' = Unlinked(name[p])
  /\ Return(p, "undelivered")
  /\ UNCHANGED <<disk, env, plan, stage, key>>

\* print_conceal_complete or print_recovery_complete, which may fail.
Report(p) ==
  /\ pc[p] = "report"
  /\ Return(p, "ok") \/ Return(p, "unreported")
  /\ UNCHANGED <<files, env, plan, stage, key>>

\* main: exit with the result, or re-raise the pending signal.
Exit(p) ==
  /\ pc[p] = "exit"
  /\ Goto(p, "done")
  /\ UNCHANGED <<files, env, plan, stage, key, result>>

Step(p) ==
  \/ PickName(p) \/ OpenStage(p) \/ DetachStage(p) \/ WriteStage(p) \/ CloseStage(p)
  \/ Link(p) \/ LookUp(p) \/ DrawTemp(p) \/ CreateTemp(p) \/ FillTemp(p) \/ SyncTemp(p)
  \/ Rename(p) \/ HardLink(p) \/ DropTemp(p)
  \/ CreateDirect(p) \/ FillDirect(p) \/ SyncDirect(p) \/ DropDirect(p) \/ SyncDir(p)
  \/ Announce(p) \/ ShowKey(p) \/ Trailer(p) \/ Withdraw(p) \/ Report(p) \/ Exit(p)

-----------------------------------------------------------------------------
(* The environment.                                                        *)

\* The first HUP, INT, QUIT or TERM is recorded; later ones change nothing.
Signal(p) ==
  /\ pc[p] \in Working
  /\ ~pending[p]
  /\ pending' = [pending EXCEPT ![p] = TRUE]
  /\ UNCHANGED <<fs, files, plan, pc, stage, key, result>>

\* SIGKILL: the staging inode goes with its last descriptor, names stay.
Kill(p) ==
  /\ pc[p] \in Working
  /\ Goto(p, "killed")
  /\ UNCHANGED <<files, env, plan, stage, key, result>>

\* Another program creates a file under a free final name, or removes its own.
\* What it does is durable at once: its own durability is not at issue here.
UserCreates(n) ==
  /\ ~Taken(n)
  /\ dir' = [dir EXCEPT ![n] = UserFile]
  /\ disk' = [disk EXCEPT ![n] = UserFile]
  /\ UNCHANGED <<env, plan, pc, stage, key, result>>

UserRemoves(n) ==
  /\ dir[n].owner = User
  /\ dir' = [dir EXCEPT ![n] = Free]
  /\ disk' = [disk EXCEPT ![n] = Free]
  /\ UNCHANGED <<env, plan, pc, stage, key, result>>

\* Each change since the last directory fsync is kept or lost, and a file that
\* was not fsynced comes back incomplete.
PowerLoss ==
  /\ \E p \in Procs : pc[p] \in Working
  /\ \E kept \in SUBSET Names :
       LET left == [n \in Names |-> IF n \in kept THEN dir[n] ELSE disk[n]]
       IN  dir' = [n \in Names |-> [left[n] EXCEPT !.whole = @ /\ left[n].stable]]
  /\ disk' = dir'
  /\ pc' = [p \in Procs |-> "lost"]
  /\ UNCHANGED <<env, plan, stage, key, result>>

Others ==
  \/ \E p \in Procs : Signal(p) \/ Kill(p)
  \/ \E n \in FinalNames : UserCreates(n) \/ UserRemoves(n)
  \/ PowerLoss

Next == (\E p \in Procs : Step(p)) \/ Others

Spec == Init /\ [][Next]_vars

\* A run is a thread that keeps making its calls, and each call returns.
FairSpec == Spec /\ \A p \in Procs : WF_vars(Step(p))

-----------------------------------------------------------------------------
(* What must hold.                                                         *)

\* No step of a run replaces or removes an entry that is not its own: not a
\* user's file, not another run's output or temporary.
TouchesOnlyItsOwn ==
  [][\A p \in Procs : Step(p) =>
       \A n \in Names : dir[n].owner \notin {p, NoOne} => dir'[n] = dir[n]]_vars

\* Where the file system has an atomic no-replace primitive, a final name never
\* shows, even after a kill or power loss, a file whose bytes are not all there
\* and fsynced ("no process ever sees a partial file under the final name").
NoPartialOutput ==
  fs.link \/ fs.rename =>
    \A n \in FinalNames : dir[n].owner \in Procs => dir[n].whole /\ dir[n].stable

\* A KEY that was shown, and whose image was not withdrawn, opens an image that
\* is named and complete, and still is after a power loss if directory fsync works.
ShownKeyHasImage ==
  \A p \in Conceals :
    key[p] /\ pc[p] # "withdraw" /\ result[p] # "undelivered"
           /\ (pc[p] = "lost" => fs.dirSync) =>
      dir[name[p]] = OwnFile(p, TRUE, TRUE)

\* A run that ends by itself, with an error or after a signal too, leaves no
\* hidden temporary behind, and a final name only for an output it finished: an
\* image whose KEY was shown, a recovered file.
CleanEnd ==
  fs.unlink =>
    \A p \in Procs : pc[p] \in {"exit", "done"} =>
      /\ \A t \in TempNames : dir[t].owner # p
      /\ \A n \in FinalNames : dir[n].owner = p =>
           /\ dir[n].whole
           /\ p \in Conceals => key[p]
           /\ result[p] \in {"ok", "unreported"}

\* A run never holds two final names, whatever it tried before; and one that
\* reports success has its output, whole and fsynced, under the name it reports.
SuccessIsReal ==
  \A p \in Procs :
    /\ \A m, n \in FinalNames : dir[m].owner = p /\ dir[n].owner = p => m = n
    /\ pc[p] \in {"exit", "done"} /\ result[p] = "ok" =>
         dir[name[p]] = OwnFile(p, TRUE, TRUE)

\* A signal recorded before the last cancellation check keeps the KEY hidden
\* for good.
CancelledKeyStaysHidden ==
  \A p \in Conceals :
    [](pending[p] /\ ~key[p] /\ pc[p] # "showKey" => []~key[p])

\* Every run ends: the retry loops are bounded and nothing waits.
Termination == \A p \in Procs : <>(pc[p] \notin Working)

\* Whose complete file the listing shows under n.  Where the file system has an
\* atomic primitive, anything less is no holder the promise knows; elsewhere the
\* copy that is under way only keeps the name from others.
Shown(n) ==
  IF dir[n].owner \in Procs /\ ~(dir[n].whole /\ dir[n].stable)
  THEN IF fs.link \/ fs.rename THEN "partial" ELSE NoOne
  ELSE dir[n].owner
ShowsOutput(p) == \E n \in FinalNames : Shown(n) = p

\* What became of the output of p.
Phase(p) ==
  IF pc[p] = "lost" THEN "gone"
  ELSE IF result[p] = "undelivered" /\ fs.unlink THEN "withdrawn"
  ELSE IF pc[p] \in Working \ {"exit"}
       THEN IF ShowsOutput(p) THEN "named" ELSE "hidden"
       ELSE IF ShowsOutput(p) THEN "kept" ELSE "gone"

\* Seen from the directory listing, a run does what PublishPromise says.
Promise == INSTANCE PublishPromise WITH
  holder <- [n \in FinalNames |-> Shown(n)],
  phase <- [p \in Procs |-> Phase(p)]
KeepsPromise == Promise!Spec

\* The comment on commit_then: an image whose delivery failed is "without its
\* KEY" useless, so nothing is lost by removing it.
WithdrawnImageHasNoKey ==
  \A p \in Conceals : result[p] = "undelivered" => ~key[p]
=============================================================================
