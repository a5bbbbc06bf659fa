---------------------------- MODULE B001Analysis ----------------------------
(***************************************************************************)
(* The final analysis of a B-001 run (app/b001_analysis_resilience.py and  *)
(* app/b001_robustness_resilience.py over app/b001_analysis.py): a long    *)
(* script of phases, each of which commits its evidence rows and then, in  *)
(* a second transaction, a mark in the work item's progress.  A worker     *)
(* that dies or fails between any two of these commits leaves the script   *)
(* to whoever claims the item next.                                        *)
(*                                                                         *)
(* One worker at a time holds the item (SingleOwner of B001Queue, while no *)
(* lock lapses).  Metrics are abstracted to whether they are stored, and a *)
(* verdict to the evidence it was computed from: a missing row is read as  *)
(* an empty one, and counts against the hypothesis without any error.      *)
(***************************************************************************)
EXTENDS Naturals, Sequences

CONSTANTS Variants,         \* robustness variants
          MaxAttempts,      \* crypto_b001_replication_work_items.max_attempts
          MaxDisturbances   \* bound on faults and operator commands

ASSUME AnalysisAssumption ==
  /\ MaxAttempts \in Nat \ {0}
  /\ MaxDisturbances \in Nat

VARIABLES run,        \* status of the run, and the verdict written on it
          item,       \* status, attempts and progress of the analysis item
          evidence,   \* families of evidence rows that are completely stored
          robustness, \* crypto_b001_replication_robustness, by variant
          export,     \* what the stored ZIP was made from
          job,        \* the worker in run_full_analysis_resumable
          disturbances

vars == <<run, item, evidence, robustness, export, job, disturbances>>
-----------------------------------------------------------------------------
Placebos == {"timestamp_placebos", "symbol_placebo", "low_dispersion_placebo",
             "component_ablations", "leave_out_tests"}
Families == {"trades", "metrics", "qa"} \cup Placebos

\* The phases in the order of the script.
Script == <<"trades", "metrics", "falsification_initialized", "timestamp_placebos",
            "symbol_placebo", "low_dispersion_placebo", "component_ablations",
            "leave_out_tests", "falsification", "robustness_initialized", "variants",
            "qa", "classification", "export", "finalized">>
Phases == {Script[k] : k \in DOMAIN Script}

\* The marks in item.progress that a phase leaves.
MarkOf(p) == CASE p = "metrics" -> "trade_simulation"
               [] p = "variants" -> "robustness"
               [] OTHER -> p
Marks == {MarkOf(p) : p \in Phases \ {"trades"}} \cup {"concentration"}

\* The marks that let a worker pass a phase by.
SkippedBy(p) == CASE p \in {"trades", "metrics"} -> {"trade_simulation"}
                  [] p \in Placebos \cup {"falsification_initialized"} -> {p, "falsification"}
                  [] p = "falsification" -> {p}
                  [] p = "robustness_initialized" -> {p, "robustness"}
                  [] p = "variants" -> {"robustness"}
                  [] p = "qa" -> {p}
                  [] OTHER -> {}

\* What is deleted before the phase writes; the placebos go before them all.
Clears(p) == CASE p \in {"trades", "metrics"} -> {p}
               [] p = "falsification_initialized" -> Placebos
               [] OTHER -> {}

Waiting == {"queued", "retry_wait"}
OpenRun == {"queued", "running"}
Everything == Families \cup Variants
Stored == evidence \cup robustness
Idle == [pc |-> "idle", at |-> 1, known |-> {}, outputs |-> {}, attempts |-> 0,
         basis |-> {}]

Init ==
  /\ run = [status |-> "running", basis |-> {}]
  /\ item = [status |-> "queued", attempts |-> 0, progress |-> {}]
  /\ evidence = {} /\ robustness = {} /\ export = {}
  /\ job = Idle
  /\ disturbances = 0

Here == Script[job.at]
In(pc, p) == job.pc = pc /\ Here = p
Disturb == disturbances < MaxDisturbances /\ disturbances' = disturbances + 1
-----------------------------------------------------------------------------
\* The worker's own copy of the progress is read as the script starts.
Claim ==
  /\ job.pc = "idle" /\ item.status \in Waiting /\ run.status \in OpenRun
  /\ item' = [item EXCEPT !.status = "running", !.attempts = @ + 1]
  /\ run' = [run EXCEPT !.status = "running"]
  /\ job' = [Idle EXCEPT !.pc = "enter", !.known = item.progress,
                         !.attempts = item.attempts + 1]
  /\ UNCHANGED <<evidence, robustness, export, disturbances>>

\* Robustness reads the progress again, and what its table already holds.
Known == IF Here = "robustness_initialized" THEN job.known \cup item.progress ELSE job.known
NextPhase(j) == [j EXCEPT !.pc = "enter", !.at = @ + 1]

\* A phase whose mark is known; the stored variants stand in for computed ones.
Skip ==
  /\ job.pc = "enter" /\ Known \cap SkippedBy(Here) # {}
  /\ job' = NextPhase(IF Here = "variants" THEN [job EXCEPT !.outputs = robustness] ELSE job)
  /\ UNCHANGED <<run, item, evidence, robustness, export, disturbances>>

\* Old rows go in a transaction of their own, except those of the QA checks,
\* which are replaced in the one that writes the new.
Enter ==
  /\ job.pc = "enter" /\ Known \cap SkippedBy(Here) = {}
  /\ evidence' = evidence \ Clears(Here)
  /\ robustness' = IF Here = "robustness_initialized" THEN {} ELSE robustness
  /\ job' = [job EXCEPT !.pc = "fill", !.outputs = IF Here = "variants" THEN robustness ELSE @]
  /\ UNCHANGED <<run, item, export, disturbances>>

\* The phase's rows, many commits of which only the last makes them complete.
Filled(p) ==
  /\ In("fill", p)
  /\ evidence' = evidence \cup {p}
  /\ UNCHANGED <<run, item, robustness, export, disturbances>>
Marking(p) == Filled(p) /\ job' = [job EXCEPT !.pc = "mark"]

BuildPrimaryTrades    == Filled("trades") /\ job' = NextPhase(job)
PersistPrimaryMetrics == Marking("metrics")
TimestampPlacebos     == Marking("timestamp_placebos")
SymbolPlacebo         == Marking("symbol_placebo")
LowDispersionPlacebo  == Marking("low_dispersion_placebo")
ComponentAblations    == Marking("component_ablations")
QaChecks              == Marking("qa")

\* Whether the result hangs on one or two symbols, for the verdict to come.
LeaveOutTests ==
  /\ Filled("leave_out_tests")
  /\ job' = [job EXCEPT !.pc = "mark", !.known = @ \cup {"concentration"}]

\* A phase without rows of its own: its mark is all it writes.
FillNothing ==
  /\ job.pc = "fill"
  /\ Here \in {"falsification_initialized", "falsification", "robustness_initialized"}
  /\ job' = [job EXCEPT !.pc = "mark"]
  /\ UNCHANGED <<run, item, evidence, robustness, export, disturbances>>

\* ensure: a variant and its mark in one transaction, unless it is there.
PersistVariant(v) ==
  /\ In("fill", "variants") /\ v \notin job.outputs
  /\ robustness' = robustness \cup {v}
  /\ job' = [job EXCEPT !.outputs = @ \cup {v}]
  /\ UNCHANGED <<run, item, evidence, export, disturbances>>

VariantsDone ==
  /\ In("fill", "variants") /\ Variants \subseteq job.outputs
  /\ job' = [job EXCEPT !.pc = "mark"]
  /\ UNCHANGED <<run, item, evidence, robustness, export, disturbances>>

\* What the verdict rests on: metrics read back, robustness and concentration
\* as the worker remembers them.
Classify ==
  /\ In("fill", "classification")
  /\ job' = [job EXCEPT !.pc = "mark",
                        !.basis = (evidence \cap {"metrics"}) \cup job.outputs
                                    \cup (job.known \cap {"concentration"})]
  /\ UNCHANGED <<run, item, evidence, robustness, export, disturbances>>

\* The object is uploaded and its row inserted, unless there is one already.
Export ==
  /\ In("fill", "export")
  /\ export' = IF export = {} THEN Stored ELSE export
  /\ job' = [job EXCEPT !.pc = "mark"]
  /\ UNCHANGED <<run, item, evidence, robustness, disturbances>>

\* The verdict, whatever the run's status is by now.
Finalize ==
  /\ In("fill", "finalized")
  /\ \E passed \in BOOLEAN :
       run' = [status |-> IF passed THEN "completed" ELSE "completed_with_errors",
               basis |-> job.basis]
  /\ job' = [job EXCEPT !.pc = "mark"]
  /\ UNCHANGED <<item, evidence, robustness, export, disturbances>>

\* Variant: the checkpoint of the leave-out tests without what they found.
MarkBare ==
  /\ job.pc = "mark"
  /\ item' = [item EXCEPT !.progress = @ \cup {MarkOf(Here)}]
  /\ job' = IF Here = "finalized" THEN [job EXCEPT !.pc = "complete"]
            ELSE NextPhase([job EXCEPT !.known = @ \cup {MarkOf(Here)}])
  /\ UNCHANGED <<run, evidence, robustness, export, disturbances>>

\* _checkpoint: the leave-out tests and the falsification carry what they found.
Mark ==
  LET found == IF Here \in {"leave_out_tests", "falsification"}
               THEN job.known \cap {"concentration"} ELSE {}
  IN
  /\ job.pc = "mark"
  /\ item' = [item EXCEPT !.progress = @ \cup {MarkOf(Here)} \cup found]
  /\ job' = IF Here = "finalized" THEN [job EXCEPT !.pc = "complete"]
            ELSE NextPhase([job EXCEPT !.known = @ \cup {MarkOf(Here)}])
  /\ UNCHANGED <<run, evidence, robustness, export, disturbances>>

\* _complete replaces the progress, and with it all the marks.
Complete ==
  /\ job.pc = "complete"
  /\ item' = [item EXCEPT !.status = "completed", !.progress = {}]
  /\ job' = [job EXCEPT !.pc = "advance"]
  /\ UNCHANGED <<run, evidence, robustness, export, disturbances>>

\* Variant: the worker keeps what it knew for its next item.
AdvanceRemembering ==
  /\ job.pc = "advance"
  /\ job' = [job EXCEPT !.pc = "idle"]
  /\ UNCHANGED <<run, item, evidence, robustness, export, disturbances>>

\* The advance after the last stage plans nothing.
Advance ==
  /\ job.pc = "advance"
  /\ job' = Idle
  /\ UNCHANGED <<run, item, evidence, robustness, export, disturbances>>
-----------------------------------------------------------------------------
\* A lost connection or a bad answer; after the completion as well.
FailTransient ==
  /\ job.pc # "idle" /\ Disturb
  /\ item' = [item EXCEPT !.status = "retry_wait", !.attempts = IF @ > 0 THEN @ - 1 ELSE 0]
  /\ job' = Idle
  /\ UNCHANGED <<run, evidence, robustness, export>>

FailOtherwise ==
  /\ job.pc # "idle" /\ Disturb
  /\ \/ /\ job.attempts < MaxAttempts
        /\ item' = [item EXCEPT !.status = "retry_wait"]
        /\ UNCHANGED run
     \/ /\ item' = [item EXCEPT !.status = "failed"]
        /\ run' = [run EXCEPT !.status = "completed_with_errors"]
  /\ job' = Idle
  /\ UNCHANGED <<evidence, robustness, export>>

Crash ==
  /\ job.pc # "idle" /\ Disturb
  /\ job' = Idle
  /\ UNCHANGED <<run, item, evidence, robustness, export>>

Reclaim ==
  /\ item.status = "running" /\ job.pc = "idle"
  /\ item' = [item EXCEPT !.status = "retry_wait"]
  /\ UNCHANGED <<run, evidence, robustness, export, job, disturbances>>

Pause ==
  /\ Disturb /\ run.status \in OpenRun
  /\ run' = [run EXCEPT !.status = "paused"]
  /\ UNCHANGED <<item, evidence, robustness, export, job>>

Cancel ==
  /\ Disturb
  /\ run' = [run EXCEPT !.status = "cancelled"]
  /\ item' = IF item.status \in Waiting \cup {"running"}
             THEN [item EXCEPT !.status = "cancelled"] ELSE item
  /\ UNCHANGED <<evidence, robustness, export, job>>

Resume ==
  /\ run.status \in {"paused", "completed_with_errors"}
  /\ run.status = "completed_with_errors" => Disturb
  /\ run.status = "paused" => UNCHANGED disturbances
  /\ run' = [run EXCEPT !.status = "running"]
  /\ item' = IF item.status = "failed" /\ item.attempts < MaxAttempts
             THEN [item EXCEPT !.status = "retry_wait"] ELSE item
  /\ UNCHANGED <<evidence, robustness, export, job>>

\* An archive of the run failed, and is put back into the queue.
RequeueFailedArchives ==
  /\ Disturb
  /\ run' = [run EXCEPT !.status = "running"]
  /\ UNCHANGED <<item, evidence, robustness, export, job>>
-----------------------------------------------------------------------------
Work ==
  \/ Skip \/ Enter \/ FillNothing
  \/ BuildPrimaryTrades \/ PersistPrimaryMetrics
  \/ TimestampPlacebos \/ SymbolPlacebo \/ LowDispersionPlacebo
  \/ ComponentAblations \/ LeaveOutTests \/ QaChecks
  \/ \E v \in Variants : PersistVariant(v)
  \/ VariantsDone \/ Classify \/ Export \/ Finalize \/ Mark \/ Complete \/ Advance

Next ==
  \/ Claim \/ Work \/ Reclaim
  \/ FailTransient \/ FailOtherwise \/ Crash
  \/ Pause \/ Cancel \/ Resume \/ RequeueFailedArchives

\* The worker's loop claims and works; locks without a heartbeat are reclaimed.
Fairness == WF_vars(Claim) /\ WF_vars(Work) /\ WF_vars(Reclaim)
Spec == Init /\ [][Next]_vars /\ Fairness
-----------------------------------------------------------------------------
RunStatus == OpenRun \cup {"paused", "cancelled", "completed", "completed_with_errors"}

\* Every variable has its type, and an idle worker remembers nothing.
TypeOK ==
  /\ run \in [status : RunStatus, basis : SUBSET (Everything \cup {"concentration"})]
  /\ item \in [status : Waiting \cup {"running", "completed", "failed", "cancelled"},
               attempts : Nat, progress : SUBSET Marks]
  /\ evidence \subseteq Families /\ robustness \subseteq Variants
  /\ export \subseteq Everything
  /\ job \in [pc : {"idle", "enter", "fill", "mark", "complete", "advance"},
              at : DOMAIN Script, known : SUBSET Marks, outputs : SUBSET Variants,
              attempts : Nat, basis : SUBSET (Everything \cup {"concentration"})]
  /\ job.pc = "idle" => job = Idle
  /\ disturbances \in Nat

\* The evidence that each mark vouches for.
Vouched(mark) == CASE mark = "trade_simulation" -> {"trades", "metrics"}
                   [] mark \in Placebos \cup {"qa"} -> {mark}
                   [] mark = "falsification" -> Placebos
                   [] mark = "robustness" -> Variants
                   [] OTHER -> {}

\* A mark stands for evidence that is completely stored, however often the item
\* was taken up again: a phase that is skipped has nothing to make up for.
MarksVouch == \A mark \in item.progress \cup job.known : Vouched(mark) \subseteq Stored

\* The verdict on a run was computed from the primary metrics, every robustness
\* variant and the concentration tests, though parts of it were carried over
\* from attempts that died: an empty reading would count as a failed gate.
VerdictRests == run.basis # {} => run.basis = {"metrics", "concentration"} \cup Variants

\* The ZIP that is offered for download was made from all the evidence.
ExportWhole == export # {} => export = Everything

\* While a run shows as completed, all its evidence is stored: no later attempt
\* deletes it under the verdict.
CompletedKeepsEvidence == run.status = "completed" => Stored = Everything

\* An analysis whose run stays open comes to an end, whatever attempts it lost.
AnalysisOver ==
  item.status \in {"completed", "failed", "cancelled"} \/ run.status \notin OpenRun
AnalysisEnds == <>[]AnalysisOver
=============================================================================
