-------------------------- MODULE DuplicateStart --------------------------
(***************************************************************************)
(* ModelDownload with a second daemon started beside the one that serves.  *)
(* bootstrap.NewService recovers the downloads before rpc.NewServer probes *)
(* the socket, so a start that is about to find it taken goes through the  *)
(* same records and resumes the same partial files, until its process      *)
(* ends, at any point of that.                                             *)
(*                                                                         *)
(* Its manager is a ModelDownload of its own on the same disk.  It takes no*)
(* calls, for it never serves: that the serving daemon dies just then, and *)
(* this one takes its place, is as if it ended and another were started.   *)
(***************************************************************************)
EXTENDS ModelDownload

VARIABLES
  jobs2, active2, work2, next2,  \* its jobs, active, work and next
  up2,                           \* it runs
  listed,                        \* issued when it listed the records
  met                            \* history: a second daemon has been started

second == <<jobs2, active2, work2, next2, up2, listed>>
own == <<jobs, active, work, caller, up, next, issued>>
dvars == <<vars, second, met>>

Second == INSTANCE ModelDownload
            WITH jobs <- jobs2, active <- active2, work <- work2, next <- next2, up <- up2,
                 caller <- NoCall, issued <- listed

\* The start, as far as it matters here: where nothing is recorded it has nothing to recover.
SecondStarts ==
  /\ "duplicate" \in Faults /\ up /\ ~up2 /\ issued > 0
  /\ up2' = TRUE /\ listed' = issued /\ next2' = 1 /\ met' = TRUE
  /\ UNCHANGED <<vars, jobs2, active2, work2>>

\* Its recovery goes from one record it listed to the next,
SecondRecovers == up2 /\ Second!Recover /\ UNCHANGED <<own, listed, met>>

\* and launches jobs, whose goroutines work as any daemon's do,
SecondWorks(j) == Second!Worker(j) /\ UNCHANGED <<own, listed, met>>

\* until the probe has found the socket taken, and the process ends.
SecondEnds ==
  /\ up2 /\ up2' = FALSE /\ next2' = 0 /\ listed' = 0
  /\ jobs2' = [j \in Jobs |-> "none"] /\ active2' = [t \in Targets |-> 0] /\ work2' = [j \in Jobs |-> Idle]
  /\ UNCHANGED <<vars, met>>

DInit ==
  /\ Init
  /\ jobs2 = jobs /\ active2 = active /\ work2 = work /\ next2 = 0 /\ up2 = FALSE /\ listed = 0 /\ met = FALSE

DNext ==
  \/ Next /\ UNCHANGED <<second, met>>
  \/ SecondStarts \/ SecondRecovers \/ SecondEnds
  \/ \E j \in Jobs : SecondWorks(j)

DSpec == DInit /\ [][DNext]_dvars /\ Fairness
-----------------------------------------------------------------------------
(* Properties                                                              *)

\* While no second daemon has been started the record of a job without a goroutine says what
\* the manager says (RecordsAgree of ModelDownload); one that has may write it later.
RecordsAgreeAlone == ~met => RecordsAgree

\* And what appears at a target is verified; two daemons that append to one partial file
\* may break it between the comparison of its digest and its renaming.
PublishedAlone == [][~met' => \A t \in Checked : target'[t] # target[t] /\ Exists(target'[t])
       => \E j \in fetched' : T(j) = t /\ target'[t] = Full(req[j].want)]_vars

\* manager.go:119 "A target that is already being downloaded returns the job that owns it
\* instead of a second one": one goroutine at a time writes a target's partial file.  Not so,
\* see "Known disagreements" in README.md; no run of the project checks it.
OneWriter ==
  \A j, k \in Jobs : work[j].pc = "copy" /\ work2[k].pc = "copy" => T(j) # T(k)
=============================================================================
