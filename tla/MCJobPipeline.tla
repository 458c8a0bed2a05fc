---------------------------- MODULE MCJobPipeline ----------------------------
(* Two sessions of JobPipeline in one run: the initial state chooses a V1   *)
(* session, where no job runs out of extranonce_2, or an extended channel   *)
(* whose jobs do and whose extranonce changes.  The bounds of the cfg are   *)
(* those of both; each session substitutes its own.                         *)
EXTENDS JobPipeline

VARIABLE kind

V1 == INSTANCE JobPipeline WITH MaxExtranonces <- 0
Ext == INSTANCE JobPipeline WITH Kind <- "EXT", SLOTS <- 1, EN2_SPACE <- 2, Exhausts <- TRUE,
                                 MaxSettings <- 0

MCInit == \/ kind = "V1" /\ V1!Init
          \/ kind = "EXT" /\ Ext!Init
MCNext == /\ UNCHANGED kind
          /\ \/ kind = "V1" /\ V1!Next
             \/ kind = "EXT" /\ Ext!Next
\* V1!Spec and Ext!FairSpec, of the session chosen.
MCSpec == /\ MCInit /\ [][MCNext]_<<kind, vars>>
          /\ WF_vars(kind = "EXT" /\ Ext!Loop)
          /\ WF_vars(kind = "EXT" /\ (Ext!ChipInit \/ Ext!ChipReady))
          /\ WF_vars(kind = "EXT" /\ Ext!RaiseFlag)

\* create_jobs_task.c:222: "extranonce_2 gives unique work each time": while the
\* extranonce stays and extranonce_2 is not used up, the chip never gets a work
\* twice (JobPipeline!NoRepeatedWork).
WorkNotRepeated == [][kind = "V1" => \/ chip'.work \in {chip.work, NoWork}
                                     \/ chip'.work \notin sent]_<<kind, vars>>

\* A clean job reaches the chip, or a newer one does, unless the ASIC goes down or
\* the connection is lost (JobPipeline!NewBlockReachesChip, on the extended channel).
CleanJobReachesChip ==
  \A n \in 1 .. MaxJobs :
    (kind = "EXT" /\ cleanAt = n /\ chip.state = "on")
      ~> (chip.work.job >= n \/ chip.state # "on" \/ cleanAt < n)
=============================================================================
