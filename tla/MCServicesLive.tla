--------------------------- MODULE MCServicesLive ---------------------------
(***************************************************************************)
(* What must happen in the end, in the components whose processes go on by *)
(* themselves: small instances, one in focus at a time, as in MCServices.  *)
(***************************************************************************)
EXTENDS AccountMail, WorkerLoop, Sessions, AiRuns, SnapshotStaging

CONSTANTS w1, w2, t1, t2, q1, q2, r1, r2

Asked == (q1 :> r1) @@ (q2 :> r2)
RunAskedBy == [q \in AiRequest |-> Asked[q]]
Costs == [r \in {RunAskedBy[q] : q \in AiRequest} |-> 1]

VARIABLE focus

LiveInit ==
  /\ focus \in {"mail", "loop", "sessions", "ai", "staging"}
  /\ MailInit /\ (focus # "mail" => account = "none" /\ invites = <<>>)
  /\ LoopInit /\ SessionInit /\ AiInit /\ StagingInit

LiveNext ==
  /\ UNCHANGED focus
  /\ \/ focus = "mail" /\ MailNext /\ UNCHANGED <<loopVars, sessionVars, aiVars, stagingVars>>
     \/ focus = "loop" /\ LoopNext /\ UNCHANGED <<mailVars, sessionVars, aiVars, stagingVars>>
     \/ focus = "sessions" /\ SessionNext /\ UNCHANGED <<mailVars, loopVars, aiVars, stagingVars>>
     \/ focus = "ai" /\ AiNext /\ UNCHANGED <<mailVars, loopVars, sessionVars, stagingVars>>
     \/ focus = "staging" /\ StagingNext /\ UNCHANGED <<mailVars, loopVars, sessionVars, aiVars>>

\* A store that rests has no bootstrap to go on with; the other components
\* enable no fair step in the state they rest in.
LiveSpec ==
  /\ LiveInit /\ [][LiveNext]_<<focus, mailVars, loopVars, sessionVars, aiVars, stagingVars>>
  /\ MailFairness /\ LoopFairness /\ SessionFairness /\ AiFairness
  /\ \A t \in StoreTab : WF_stagingVars(focus = "staging" /\ Bootstrapping(t))

StoreBecomesReady == focus = "staging" => BootstrapEnds
=============================================================================
