------------------------ MODULE ResearchLanesProofs ------------------------
(***************************************************************************)
(* Proofs about the research lanes, for any number of events, buckets,     *)
(* months, days, sessions and workers.                                     *)
(*                                                                         *)
(* Each of the five parts has an inductive invariant of its own.  The      *)
(* steps of a part preserve it, one lemma per action; a step of another    *)
(* part leaves its variables alone; so that the conjunction of the five is *)
(* an invariant of all of them together, and what the runs check follows   *)
(* from it.                                                                *)
(***************************************************************************)
EXTENDS MCResearchLanes, FiniteSetTheorems, SequenceTheorems, WellFoundedInduction, TLAPS

(***************************************************************************)
(* The B-001 analysis                                                      *)
(***************************************************************************)
\* A phase has its place in the script, and every place its phase.
LEMMA ScriptIs ==
  /\ DOMAIN Script = 1..15
  /\ \A k \in 1..15 :
       /\ Script[k] \in Phases
       /\ Script[k] = "trades" <=> k = 1
       /\ Script[k] = "metrics" <=> k = 2
       /\ Script[k] = "falsification_initialized" <=> k = 3
       /\ Script[k] = "timestamp_placebos" <=> k = 4
       /\ Script[k] = "symbol_placebo" <=> k = 5
       /\ Script[k] = "low_dispersion_placebo" <=> k = 6
       /\ Script[k] = "component_ablations" <=> k = 7
       /\ Script[k] = "leave_out_tests" <=> k = 8
       /\ Script[k] = "falsification" <=> k = 9
       /\ Script[k] = "robustness_initialized" <=> k = 10
       /\ Script[k] = "variants" <=> k = 11
       /\ Script[k] = "qa" <=> k = 12
       /\ Script[k] = "classification" <=> k = 13
       /\ Script[k] = "export" <=> k = 14
       /\ Script[k] = "finalized" <=> k = 15
<1>1. DOMAIN Script = 1..15
  BY DEF Script
<1>2. ASSUME NEW k \in 1..15 PROVE Script[k] \in Phases
  BY <1>1 DEF Phases
<1>3. /\ Script[1] = "trades" /\ Script[2] = "metrics" /\ Script[3] = "falsification_initialized"
      /\ Script[4] = "timestamp_placebos" /\ Script[5] = "symbol_placebo"
      /\ Script[6] = "low_dispersion_placebo" /\ Script[7] = "component_ablations"
      /\ Script[8] = "leave_out_tests" /\ Script[9] = "falsification"
      /\ Script[10] = "robustness_initialized" /\ Script[11] = "variants" /\ Script[12] = "qa"
      /\ Script[13] = "classification" /\ Script[14] = "export" /\ Script[15] = "finalized"
  BY DEF Script
<1>4. \A k \in 1..15 : k \in {1, 2, 3, 4, 5, 6, 7, 8, 9, 10, 11, 12, 13, 14, 15}
  OBVIOUS
<1> QED BY <1>1, <1>2, <1>3, <1>4

\* A phase has one place in the script.
LEMMA OnePlace == \A j, k \in 1..15 : Script[j] = Script[k] => j = k
<1> SUFFICES ASSUME NEW j \in 1..15, NEW k \in 1..15, Script[j] = Script[k] PROVE j = k
  OBVIOUS
<1>1. j \in {1, 2, 3, 4, 5, 6, 7, 8, 9, 10, 11, 12, 13, 14, 15}
  OBVIOUS
<1> QED BY <1>1, ScriptIs

\* Which marks let a worker pass the phases by, and what these delete.
LEMMA TheTable ==
  \A k \in 1..15 :
    /\ SkippedBy(Script[k]) =
         IF k \in {1, 2} THEN {"trade_simulation"}
         ELSE IF k \in 3..8 THEN {Script[k], "falsification"}
         ELSE IF k = 9 THEN {"falsification"}
         ELSE IF k = 10 THEN {"robustness_initialized", "robustness"}
         ELSE IF k = 11 THEN {"robustness"}
         ELSE IF k = 12 THEN {"qa"} ELSE {}
    /\ Clears(Script[k]) = IF k \in {1, 2} THEN {Script[k]} ELSE IF k = 3 THEN Placebos ELSE {}
    /\ Script[k] \in Placebos <=> k \in 4..8
    /\ Script[k] \in Families <=> k \in {1, 2, 12} \cup 4..8
<1> SUFFICES ASSUME NEW k \in 1..15
             PROVE  /\ SkippedBy(Script[k]) =
                        IF k \in {1, 2} THEN {"trade_simulation"}
                        ELSE IF k \in 3..8 THEN {Script[k], "falsification"}
                        ELSE IF k = 9 THEN {"falsification"}
                        ELSE IF k = 10 THEN {"robustness_initialized", "robustness"}
                        ELSE IF k = 11 THEN {"robustness"}
                        ELSE IF k = 12 THEN {"qa"} ELSE {}
                    /\ Clears(Script[k]) =
                        IF k \in {1, 2} THEN {Script[k]} ELSE IF k = 3 THEN Placebos ELSE {}
                    /\ Script[k] \in Placebos <=> k \in 4..8
                    /\ Script[k] \in Families <=> k \in {1, 2, 12} \cup 4..8
  OBVIOUS
<1>1. Script[k] \in Placebos <=> k \in 4..8
  BY ScriptIs DEF Placebos
<1>2. Script[k] \in Families <=> k \in {1, 2, 12} \cup 4..8
  BY <1>1, ScriptIs DEF Families
<1>3. \/ k \in {1, 2} /\ Script[k] \in {"trades", "metrics"}
      \/ k = 3 /\ Script[k] = "falsification_initialized"
      \/ k \in 4..8 /\ Script[k] \in Placebos
      \/ k = 9 /\ Script[k] = "falsification"
      \/ k = 10 /\ Script[k] = "robustness_initialized"
      \/ k = 11 /\ Script[k] = "variants"
      \/ k = 12 /\ Script[k] = "qa"
      \/ k = 13 /\ Script[k] = "classification"
      \/ k = 14 /\ Script[k] = "export"
      \/ k = 15 /\ Script[k] = "finalized"
  BY <1>1, ScriptIs
<1>4. CASE k \in {1, 2}
  BY <1>1, <1>2, <1>3, <1>4 DEF SkippedBy, Clears
<1>5. CASE k = 3
  BY <1>1, <1>2, <1>3, <1>5 DEF SkippedBy, Clears
<1>6. CASE k \in 4..8
  BY <1>1, <1>2, <1>3, <1>6 DEF SkippedBy, Clears, Placebos
<1>7. CASE k \notin 1..8
  BY <1>1, <1>2, <1>3, <1>7 DEF SkippedBy, Clears
<1> QED BY <1>4, <1>5, <1>6, <1>7

\* What a mark vouches for is stored, each kind in its table.
Backed(mark, rows, variants) ==
  /\ mark = "trade_simulation" => {"trades", "metrics"} \subseteq rows
  /\ mark \in Placebos \cup {"qa"} => mark \in rows
  /\ mark = "falsification" => Placebos \subseteq rows
  /\ mark = "robustness" => Variants \subseteq variants

\* So is what a set of marks vouches for; a placebo is marked behind the mark that keeps
\* its rows from being deleted, and the leave-out tests with what they found.
Sound(marks, rows, variants) ==
  /\ \A mark \in marks : Backed(mark, rows, variants)
  /\ \A mark \in marks \cap Placebos :
       "falsification_initialized" \in marks \/ "falsification" \in marks
  /\ "leave_out_tests" \in marks \/ "falsification" \in marks => "concentration" \in marks

\* What a phase is for is there.
Done(k, rows, variants) ==
  /\ Script[k] \in Families => Script[k] \in rows
  /\ k = 11 => Variants \subseteq variants

Behind(j) == IF j.pc \in {"mark", "complete", "advance"} THEN j.at ELSE j.at - 1
Whole == {"metrics", "concentration"} \cup Variants

\* What the worker has behind it, and what it remembers of it.
Remembers(j, progress, rows, variants) ==
  /\ progress \subseteq j.known \cup {"finalized"}
  /\ j.pc # "advance" => j.known \subseteq progress \cup {"concentration"}
  /\ \A k \in 1..Behind(j) : Done(k, rows, variants)
  /\ j.at > 3 => "falsification_initialized" \in j.known \/ "falsification" \in j.known
  /\ Behind(j) >= 8 => "concentration" \in j.known
  /\ j.outputs \subseteq variants
  /\ j.at <= 10 => j.outputs = {}
  /\ Behind(j) >= 11 => Variants \subseteq j.outputs
  /\ Behind(j) >= 13 => j.basis = Whole
  /\ j.pc \in {"complete", "advance"} => j.at = 15
  /\ j.pc = "mark" => j.at # 1

Pcs == {"idle", "enter", "fill", "mark", "complete", "advance"}
Bases == SUBSET (Everything \cup {"concentration"})
Job == [pc : Pcs, at : 1..15, known : SUBSET Marks, outputs : SUBSET Variants,
        attempts : Nat, basis : Bases]
Item == [status : Waiting \cup {"running", "completed", "failed", "cancelled"},
         attempts : Nat, progress : SUBSET Marks]

AnalysisTyped ==
  /\ run \in [status : RunStatus, basis : Bases] /\ item \in Item
  /\ evidence \subseteq Families /\ robustness \subseteq Variants /\ export \subseteq Everything
  /\ job \in Job /\ (job.pc = "idle" => job = Idle)
  /\ disturbances \in Nat

\* The inductive invariant.
AnalysisIInv ==
  /\ AnalysisTyped
  /\ Sound(item.progress, evidence, robustness) /\ Sound(job.known, evidence, robustness)
  /\ job.pc # "idle" => Remembers(job, item.progress, evidence, robustness)
  /\ run.basis # {} => run.basis = Whole
  /\ export # {} => export = Everything
  /\ run.status = "completed" => Stored = Everything /\ (job.pc = "idle" \/ Behind(job) = 15)

\* The invariant's typing is the type invariant.
LEMMA AnalysisTypes == AnalysisTyped => TypeOK
BY ScriptIs DEF AnalysisTyped, TypeOK, Job, Item, Pcs, Bases

\* More rows vouch for the same marks and phases.
LEMMA MoreRows ==
  ASSUME NEW E, NEW F, NEW V, NEW W, E \subseteq F, V \subseteq W
  PROVE  /\ \A marks : Sound(marks, E, V) => Sound(marks, F, W)
         /\ \A k : Done(k, E, V) => Done(k, F, W)
BY DEF Sound, Backed, Done

\* A worker that is idle remembers nothing.
LEMMA IdleJob == Idle \in Job /\ Idle.pc = "idle" /\ Idle.known = {} /\ Sound({}, evidence, robustness)
BY DEF Idle, Job, Pcs, Bases, Sound

\* The invariant of the analysis holds at the start.
LEMMA AnalysisInit == Init => AnalysisIInv
<1> SUFFICES ASSUME Init PROVE AnalysisIInv
  OBVIOUS
<1>1. AnalysisTyped
  BY IdleJob, AnalysisAssumption DEF Init, AnalysisTyped, Item, RunStatus, OpenRun, Waiting, Bases
<1> QED BY <1>1, IdleJob DEF Init, AnalysisIInv

\* Whoever takes the item starts at the first phase, with the marks that are there.
LEMMA ClaimKeeps == ASSUME AnalysisIInv, Claim PROVE AnalysisIInv'
<1>1. /\ item' = [item EXCEPT !.status = "running", !.attempts = @ + 1]
      /\ run' = [run EXCEPT !.status = "running"]
      /\ job' = [pc |-> "enter", at |-> 1, known |-> item.progress, outputs |-> {},
                 attempts |-> item.attempts + 1, basis |-> {}]
      /\ UNCHANGED <<evidence, robustness, export, disturbances>>
  BY DEF Claim, Idle
<1>2. AnalysisTyped'
  <2>0. run \in [status : RunStatus, basis : Bases] /\ item \in Item
    BY DEF AnalysisIInv, AnalysisTyped
  <2>1. run' \in [status : RunStatus, basis : Bases]
    BY <1>1, <2>0 DEF RunStatus, OpenRun
  <2>2. item' \in Item
    <3>1. item' = [status |-> "running", attempts |-> item.attempts + 1, progress |-> item.progress]
      BY <1>1, <2>0 DEF Item
    <3>2. item.attempts + 1 \in Nat /\ item.progress \in SUBSET Marks
      BY <2>0 DEF Item
    <3> QED BY <3>1, <3>2 DEF Item
  <2>3. item.progress \in SUBSET Marks /\ item.attempts + 1 \in Nat
    BY <2>0 DEF Item
  <2>4. job' \in Job /\ job'.pc # "idle"
    BY <1>1, <2>3 DEF Job, Pcs, Bases
  <2> QED BY <1>1, <2>1, <2>2, <2>4 DEF AnalysisIInv, AnalysisTyped
<1>3. item'.progress = item.progress /\ run'.basis = run.basis /\ run'.status = "running"
  BY <1>1 DEF AnalysisIInv, AnalysisTyped, Item
<1>4. Behind(job') = 0 /\ job'.at = 1 /\ job'.known = item.progress /\ job'.outputs = {}
  BY <1>1 DEF Behind
<1> QED BY <1>1, <1>2, <1>3, <1>4 DEF AnalysisIInv, Remembers

\* What a worker at a place of the script can rely on.
LEMMA AtWork ==
  ASSUME AnalysisIInv, job.pc # "idle"
  PROVE  /\ job \in Job /\ item \in Item /\ run \in [status : RunStatus, basis : Bases]
         /\ job.at \in 1..15 /\ Here = Script[job.at]
         /\ Remembers(job, item.progress, evidence, robustness)
         /\ Sound(item.progress, evidence, robustness) /\ Sound(job.known, evidence, robustness)
         /\ job.pc \in {"enter", "fill"} => Behind(job) = job.at - 1 /\ run.status # "completed"
         /\ job.pc \in {"mark", "complete", "advance"} => Behind(job) = job.at
<1>1. job \in Job
  BY DEF AnalysisIInv, AnalysisTyped
<1> QED BY <1>1 DEF AnalysisIInv, AnalysisTyped, Job, Here, Behind

\* A worker that goes on to the next phase has the last one behind it.
LEMMA NextPhaseIs ==
  ASSUME NEW j \in Job, j.at < 15
  PROVE  /\ NextPhase(j) \in Job /\ NextPhase(j).pc = "enter" /\ NextPhase(j).at = j.at + 1
         /\ NextPhase(j).known = j.known /\ NextPhase(j).outputs = j.outputs
         /\ NextPhase(j).basis = j.basis /\ Behind(NextPhase(j)) = j.at
<1>1. j.at + 1 \in 1..15
  BY DEF Job
<1>2. NextPhase(j) \in Job
  BY <1>1 DEF NextPhase, Job, Pcs
<1>3. /\ NextPhase(j).pc = "enter" /\ NextPhase(j).at = j.at + 1
      /\ NextPhase(j).known = j.known /\ NextPhase(j).outputs = j.outputs
      /\ NextPhase(j).basis = j.basis
  BY DEF NextPhase, Job
<1>4. Behind(NextPhase(j)) = j.at
  BY <1>1, <1>3 DEF Behind, Job
<1> QED BY <1>2, <1>3, <1>4

\* A step of the worker that leaves the run, the item and the export alone.
Quiet == /\ UNCHANGED <<run, item, export>> /\ disturbances' \in Nat
         /\ evidence' \subseteq Families /\ robustness' \subseteq Variants
         /\ job' \in Job /\ job'.pc # "idle"

\* A step that neither marks nor ends anything keeps the invariant if the marks stay
\* sound.
LEMMA QuietKeeps ==
  ASSUME AnalysisIInv, Quiet,
         Sound(item.progress, evidence', robustness'), Sound(job'.known, evidence', robustness'),
         Remembers(job', item.progress, evidence', robustness'),
         run.status # "completed"
  PROVE  AnalysisIInv'
BY DEF AnalysisIInv, AnalysisTyped, Quiet

\* A mark for which a phase is skipped vouches for what the phase fills.
LEMMA MarkVouches ==
  ASSUME NEW marks, NEW E, NEW V, NEW k \in 1..15, Sound(marks, E, V),
         marks \cap SkippedBy(Script[k]) # {}
  PROVE  /\ Done(k, E, V)
         /\ k = 3 => "falsification_initialized" \in marks \/ "falsification" \in marks
         /\ k = 8 => "concentration" \in marks
         /\ k < 13
<1>1. PICK mark \in marks : mark \in SkippedBy(Script[k])
  OBVIOUS
<1>2. Backed(mark, E, V)
  BY <1>1 DEF Sound
<1>3. k \in {1, 2} \/ k \in 3..8 \/ k \in {9, 10} \/ k = 11 \/ k = 12 \/ k \in {13, 14, 15}
  OBVIOUS
<1>4. CASE k \in {1, 2}
  <2>1. mark = "trade_simulation" /\ Script[k] \in {"trades", "metrics"}
    BY <1>1, <1>4, TheTable, ScriptIs
  <2> QED BY <2>1, <1>2, <1>4 DEF Backed, Done
<1>5. CASE k \in 3..8
  <2>1. mark \in {Script[k], "falsification"}
    BY <1>1, <1>5, TheTable
  <2>2. k \in 4..8 => Script[k] \in Placebos
    BY TheTable
  <2>3. k = 3 => Script[k] = "falsification_initialized" /\ Script[k] \notin Families
    BY TheTable, ScriptIs
  <2>4. Done(k, E, V)
    BY <2>1, <2>2, <2>3, <1>2, <1>5 DEF Backed, Done
  <2>5. k = 8 => Script[k] = "leave_out_tests"
    BY ScriptIs
  <2> QED BY <1>1, <1>5, <2>1, <2>3, <2>4, <2>5 DEF Sound
<1>6. CASE k \in {9, 10}
  BY <1>6, TheTable DEF Done
<1>7. CASE k = 11
  BY <1>1, <1>2, <1>7, TheTable DEF Done, Backed
<1>8. CASE k = 12
  BY <1>1, <1>2, <1>8, TheTable, ScriptIs DEF Done, Backed
<1>9. CASE k \in {13, 14, 15}
  BY <1>1, <1>9, TheTable
<1> QED BY <1>3, <1>4, <1>5, <1>6, <1>7, <1>8, <1>9

\* A phase is skipped for the marks that the worker has read.
LEMMA SkipKeeps == ASSUME AnalysisIInv, Skip PROVE AnalysisIInv'
<1>1. /\ job.pc = "enter" /\ Known \cap SkippedBy(Here) # {}
      /\ UNCHANGED <<run, item, evidence, robustness, export, disturbances>>
      /\ job' = NextPhase(IF Here = "variants" THEN [job EXCEPT !.outputs = robustness] ELSE job)
  BY DEF Skip
<1>2. /\ job \in Job /\ job.at \in 1..15 /\ Here = Script[job.at] /\ Behind(job) = job.at - 1
      /\ Remembers(job, item.progress, evidence, robustness)
      /\ Sound(item.progress, evidence, robustness) /\ Sound(job.known, evidence, robustness)
      /\ run.status # "completed"
  BY <1>1, AtWork
<1>3. Known \subseteq job.known \cup {"finalized"}
  BY <1>2 DEF Known, Remembers
<1>4. "finalized" \notin SkippedBy(Here)
  BY <1>2, TheTable, ScriptIs
<1>5. job.known \cap SkippedBy(Script[job.at]) # {}
  BY <1>1, <1>2, <1>3, <1>4
<1>6. /\ Done(job.at, evidence, robustness) /\ job.at < 13
      /\ job.at = 3 => "falsification_initialized" \in job.known \/ "falsification" \in job.known
      /\ job.at = 8 => "concentration" \in job.known
  BY <1>2, <1>5, MarkVouches
<1>7. robustness \subseteq Variants
  BY DEF AnalysisIInv, AnalysisTyped
<1>8. /\ job' \in Job /\ job'.pc = "enter" /\ job'.at = job.at + 1 /\ job'.known = job.known
      /\ job'.outputs = IF job.at = 11 THEN robustness ELSE job.outputs
  <2> DEFINE j == IF Here = "variants" THEN [job EXCEPT !.outputs = robustness] ELSE job
  <2>1. /\ j \in Job /\ j.at = job.at /\ j.known = job.known
        /\ j.outputs = IF job.at = 11 THEN robustness ELSE job.outputs
    BY <1>2, <1>7, ScriptIs DEF Job
  <2>2. job' = NextPhase(j)
    BY <1>1
  <2> HIDE DEF j
  <2> QED BY <1>2, <1>6, <2>1, <2>2, NextPhaseIs
<1>9. Behind(job') = job.at
  BY <1>2, <1>8 DEF Behind
<1>10. Remembers(job', item.progress, evidence, robustness)
  <2>1. \A k \in 1..job.at : Done(k, evidence, robustness)
    BY <1>2, <1>6 DEF Remembers
  <2>2. job.at = 11 => Variants \subseteq robustness
    BY <1>6 DEF Done
  <2> QED BY <1>2, <1>6, <1>8, <1>9, <2>1, <2>2 DEF Remembers
<1>11. evidence \subseteq Families /\ disturbances \in Nat
  BY DEF AnalysisIInv, AnalysisTyped
<1>12. Quiet
  BY <1>1, <1>7, <1>8, <1>11 DEF Quiet
<1> QED BY <1>1, <1>2, <1>8, <1>10, <1>12, QuietKeeps

\* A phase is entered.
LEMMA EnterKeeps == ASSUME AnalysisIInv, Enter PROVE AnalysisIInv'
<1>1. /\ job.pc = "enter" /\ Known \cap SkippedBy(Here) = {}
      /\ UNCHANGED <<run, item, export, disturbances>>
      /\ evidence' = evidence \ Clears(Here)
      /\ robustness' = IF Here = "robustness_initialized" THEN {} ELSE robustness
      /\ job' = [job EXCEPT !.pc = "fill",
                            !.outputs = IF Here = "variants" THEN robustness ELSE @]
  BY DEF Enter
<1>2. /\ job \in Job /\ job.at \in 1..15 /\ Here = Script[job.at] /\ Behind(job) = job.at - 1
      /\ Remembers(job, item.progress, evidence, robustness)
      /\ Sound(item.progress, evidence, robustness) /\ Sound(job.known, evidence, robustness)
      /\ run.status # "completed" /\ item \in Item
  BY <1>1, AtWork
<1>3. evidence \subseteq Families /\ robustness \subseteq Variants /\ disturbances \in Nat
  BY DEF AnalysisIInv, AnalysisTyped
<1>4. /\ job' \in Job /\ job'.pc = "fill" /\ job'.at = job.at /\ job'.known = job.known
      /\ job'.basis = job.basis
      /\ job'.outputs = IF job.at = 11 THEN robustness ELSE job.outputs
  BY <1>1, <1>2, <1>3, ScriptIs DEF Job, Pcs
<1>5. Behind(job') = job.at - 1
  BY <1>2, <1>4 DEF Behind
<1>6. /\ item.progress \subseteq job.known \cup {"finalized"}
      /\ job.known \subseteq item.progress \cup {"concentration"}
  BY <1>1, <1>2 DEF Remembers
<1>7. ASSUME NEW marks, marks \subseteq job.known \cup {"finalized"},
             Sound(marks, evidence, robustness)
      PROVE  Sound(marks, evidence', robustness')
  <2>1. ASSUME NEW mark \in marks PROVE Backed(mark, evidence', robustness')
    <3>1. Backed(mark, evidence, robustness)
      BY <1>7 DEF Sound
    <3>2. CASE job.at \in {1, 2}
      <4>1. /\ evidence' = evidence \ {Script[job.at]} /\ Script[job.at] \in {"trades", "metrics"}
            /\ robustness' = robustness /\ "trade_simulation" \notin Known /\ Known = job.known
        BY <3>2, <1>1, <1>2, TheTable, ScriptIs DEF Known
      <4>2. mark # "trade_simulation"
        BY <4>1, <1>7
      <4>3. "trades" \notin Placebos \cup {"qa"} /\ "metrics" \notin Placebos \cup {"qa"}
        BY DEF Placebos
      <4> QED BY <3>1, <4>1, <4>2, <4>3 DEF Backed
    <3>3. CASE job.at = 3
      <4>1. /\ evidence' = evidence \ Placebos /\ robustness' = robustness /\ Known = job.known
            /\ "falsification" \notin Known /\ "falsification_initialized" \notin Known
        BY <3>3, <1>1, <1>2, TheTable, ScriptIs DEF Known
      <4>2. mark \notin Placebos /\ mark # "falsification"
        <5>1. "falsification" \notin marks /\ "falsification_initialized" \notin marks
          BY <4>1, <1>7
        <5> QED BY <5>1, <1>7 DEF Sound
      <4>3. "trades" \notin Placebos /\ "metrics" \notin Placebos /\ "qa" \notin Placebos
        BY DEF Placebos
      <4> QED BY <3>1, <4>1, <4>2, <4>3 DEF Backed
    <3>4. CASE job.at = 10
      <4>1. evidence' = evidence /\ job.known \subseteq Known /\ "robustness" \notin Known
        BY <3>4, <1>1, <1>2, TheTable, ScriptIs DEF Known
      <4>2. mark # "robustness"
        BY <4>1, <1>7
      <4> QED BY <3>1, <4>1, <4>2 DEF Backed
    <3>5. CASE job.at \notin {1, 2, 3, 10}
      <4>1. evidence' = evidence /\ robustness' = robustness
        BY <3>5, <1>1, <1>2, TheTable, ScriptIs
      <4> QED BY <3>1, <4>1
    <3> QED BY <3>2, <3>3, <3>4, <3>5
  <2> QED BY <2>1, <1>7 DEF Sound
<1>8. \A k \in 1..(job.at - 1) : Done(k, evidence', robustness')
  <2>1. SUFFICES ASSUME NEW k \in 1..(job.at - 1) PROVE Done(k, evidence', robustness')
    OBVIOUS
  <2>2. Done(k, evidence, robustness) /\ k \in 1..15
    BY <1>2 DEF Remembers
  <2>3. Script[k] \notin Clears(Here)
    BY <1>2, TheTable, ScriptIs
  <2>4. k = 11 => robustness' = robustness
    BY <1>1, <1>2, ScriptIs
  <2> QED BY <1>1, <2>2, <2>3, <2>4 DEF Done
<1>9. job'.outputs \subseteq robustness' /\ (job.at <= 10 => job'.outputs = {})
  BY <1>1, <1>2, <1>4, ScriptIs DEF Remembers
<1>10. Remembers(job', item.progress, evidence', robustness')
  BY <1>2, <1>1, <1>4, <1>5, <1>6, <1>8, <1>9 DEF Remembers
<1>11. Quiet
  BY <1>1, <1>3, <1>4 DEF Quiet
<1>12. Sound(job'.known, evidence', robustness') /\ Sound(item.progress, evidence', robustness')
  BY <1>2, <1>4, <1>6, <1>7
<1> QED BY <1>2, <1>10, <1>11, <1>12, QuietKeeps

\* What a worker does at the end of a phase that has rows of its own, or none.
Fills == /\ job.pc = "fill" /\ UNCHANGED <<run, item>> /\ disturbances' \in Nat
         /\ evidence \subseteq evidence' /\ evidence' \subseteq Families
         /\ robustness \subseteq robustness' /\ robustness' \subseteq Variants
         /\ export' = export \/ export' = Everything
         /\ Done(job.at, evidence', robustness')

\* A phase that has filled its rows is about to be marked.
LEMMA FillKeeps ==
  ASSUME AnalysisIInv, Fills, job' \in Job, job'.pc = "mark", job'.at = job.at, job.at # 1,
         job'.known = job.known \/ job'.known = job.known \cup {"concentration"},
         job'.outputs = job.outputs, job.at # 13 => job'.basis = job.basis,
         job.at = 8 => "concentration" \in job'.known,
         job.at = 11 => Variants \subseteq job.outputs,
         job.at = 13 => job'.basis = Whole
  PROVE  AnalysisIInv'
<1>1. /\ job \in Job /\ job.at \in 1..15 /\ Here = Script[job.at] /\ Behind(job) = job.at - 1
      /\ Remembers(job, item.progress, evidence, robustness)
      /\ Sound(item.progress, evidence, robustness) /\ Sound(job.known, evidence, robustness)
      /\ run.status # "completed"
  BY AtWork DEF Fills
<1>2. Behind(job') = job.at
  BY DEF Behind
<1>3. Sound(item.progress, evidence', robustness') /\ Sound(job.known, evidence', robustness')
  BY <1>1, MoreRows DEF Fills
<1>4. Sound(job'.known, evidence', robustness')
  <2>1. Backed("concentration", evidence', robustness') /\ "concentration" \notin Placebos
    BY DEF Backed, Placebos
  <2> QED BY <1>3, <2>1 DEF Sound
<1>5. \A k \in 1..job.at : Done(k, evidence', robustness')
  <2>1. \A k \in 1..(job.at - 1) : Done(k, evidence', robustness')
    BY <1>1, MoreRows DEF Remembers, Fills
  <2> QED BY <1>1, <2>1 DEF Fills
<1>6. Remembers(job', item.progress, evidence', robustness')
  BY <1>1, <1>2, <1>5 DEF Remembers, Fills
<1> QED BY <1>1, <1>3, <1>4, <1>6 DEF AnalysisIInv, AnalysisTyped, Fills

\* The same for the phases that are filled in one transaction.
LEMMA MarkingKeeps ==
  ASSUME AnalysisIInv, NEW k \in {2, 12} \cup 4..8, Filled(Script[k]),
         \/ job' = [job EXCEPT !.pc = "mark"] /\ k # 8
         \/ job' = [job EXCEPT !.pc = "mark", !.known = @ \cup {"concentration"}]
  PROVE  AnalysisIInv'
<1>1. /\ job.pc = "fill" /\ Here = Script[k] /\ evidence' = evidence \cup {Script[k]}
      /\ UNCHANGED <<run, item, robustness, export, disturbances>>
  BY DEF Filled, In
<1>2. job \in Job /\ job.at \in 1..15 /\ Here = Script[job.at]
  BY <1>1, AtWork
<1>3. job.at = k
  <2>1. k \in 1..15
    OBVIOUS
  <2> QED BY <1>1, <1>2, <2>1, OnePlace
<1>4. Fills
  <2>1. Script[k] \in Families
    BY TheTable
  <2>2. evidence \subseteq Families /\ robustness \subseteq Variants /\ disturbances \in Nat
    BY DEF AnalysisIInv, AnalysisTyped
  <2> QED BY <1>1, <1>3, <2>1, <2>2 DEF Fills, Done
<1>5. "concentration" \in Marks
  BY DEF Marks
<1>6. /\ job' \in Job /\ job'.pc = "mark" /\ job'.at = job.at /\ job'.outputs = job.outputs
      /\ job'.basis = job.basis
      /\ (job'.known = job.known /\ k # 8) \/ job'.known = job.known \cup {"concentration"}
  BY <1>2, <1>5 DEF Job, Pcs
<1> QED BY <1>3, <1>4, <1>6, FillKeeps

\* Each of them.
LEMMA FilledKeeps ==
  ASSUME AnalysisIInv,
         \/ PersistPrimaryMetrics \/ TimestampPlacebos \/ SymbolPlacebo \/ LowDispersionPlacebo
         \/ ComponentAblations \/ LeaveOutTests \/ QaChecks
  PROVE  AnalysisIInv'
<1>1. CASE LeaveOutTests
  <2>1. Filled(Script[8]) /\ job' = [job EXCEPT !.pc = "mark", !.known = @ \cup {"concentration"}]
    BY <1>1, ScriptIs DEF LeaveOutTests
  <2> QED BY <2>1, MarkingKeeps
<1>2. CASE PersistPrimaryMetrics
  <2>1. Filled(Script[2]) /\ job' = [job EXCEPT !.pc = "mark"]
    BY <1>2, ScriptIs DEF PersistPrimaryMetrics, Marking
  <2> QED BY <2>1, MarkingKeeps
<1>3. CASE TimestampPlacebos
  <2>1. Filled(Script[4]) /\ job' = [job EXCEPT !.pc = "mark"]
    BY <1>3, ScriptIs DEF TimestampPlacebos, Marking
  <2> QED BY <2>1, MarkingKeeps
<1>4. CASE SymbolPlacebo
  <2>1. Filled(Script[5]) /\ job' = [job EXCEPT !.pc = "mark"]
    BY <1>4, ScriptIs DEF SymbolPlacebo, Marking
  <2> QED BY <2>1, MarkingKeeps
<1>5. CASE LowDispersionPlacebo
  <2>1. Filled(Script[6]) /\ job' = [job EXCEPT !.pc = "mark"]
    BY <1>5, ScriptIs DEF LowDispersionPlacebo, Marking
  <2> QED BY <2>1, MarkingKeeps
<1>6. CASE ComponentAblations
  <2>1. Filled(Script[7]) /\ job' = [job EXCEPT !.pc = "mark"]
    BY <1>6, ScriptIs DEF ComponentAblations, Marking
  <2> QED BY <2>1, MarkingKeeps
<1>7. CASE QaChecks
  <2>1. Filled(Script[12]) /\ job' = [job EXCEPT !.pc = "mark"]
    BY <1>7, ScriptIs DEF QaChecks, Marking
  <2> QED BY <2>1, MarkingKeeps
<1> QED BY <1>1, <1>2, <1>3, <1>4, <1>5, <1>6, <1>7

\* The primary trades are built.
LEMMA TradesKeep == ASSUME AnalysisIInv, BuildPrimaryTrades PROVE AnalysisIInv'
<1>1. /\ job.pc = "fill" /\ Here = "trades" /\ evidence' = evidence \cup {"trades"}
      /\ UNCHANGED <<run, item, robustness, export, disturbances>> /\ job' = NextPhase(job)
  BY DEF BuildPrimaryTrades, Filled, In
<1>2. /\ job \in Job /\ job.at \in 1..15 /\ Here = Script[job.at] /\ Behind(job) = job.at - 1
      /\ Remembers(job, item.progress, evidence, robustness)
      /\ Sound(item.progress, evidence, robustness) /\ Sound(job.known, evidence, robustness)
      /\ run.status # "completed"
  BY <1>1, AtWork
<1>3. job.at = 1
  BY <1>1, <1>2, ScriptIs
<1>4. /\ job' \in Job /\ job'.pc = "enter" /\ job'.at = 2 /\ job'.known = job.known
      /\ job'.outputs = job.outputs /\ Behind(job') = 1
  BY <1>1, <1>2, <1>3, NextPhaseIs
<1>5. Done(1, evidence', robustness')
  BY <1>1, TheTable, ScriptIs DEF Done
<1>6. Sound(item.progress, evidence', robustness') /\ Sound(job'.known, evidence', robustness')
  BY <1>1, <1>2, <1>4, MoreRows
<1>7. Remembers(job', item.progress, evidence', robustness')
  BY <1>1, <1>2, <1>3, <1>4, <1>5 DEF Remembers
<1>8. Quiet
  <2>1. "trades" \in Families
    BY DEF Families
  <2> QED BY <1>1, <1>4, <2>1 DEF Quiet, AnalysisIInv, AnalysisTyped
<1> QED BY <1>2, <1>6, <1>7, <1>8, QuietKeeps

\* A phase without rows of its own goes on to its mark.
LEMMA NothingKeeps == ASSUME AnalysisIInv, FillNothing PROVE AnalysisIInv'
<1>1. /\ job.pc = "fill" /\ job' = [job EXCEPT !.pc = "mark"]
      /\ Here \in {"falsification_initialized", "falsification", "robustness_initialized"}
      /\ UNCHANGED <<run, item, evidence, robustness, export, disturbances>>
  BY DEF FillNothing
<1>2. job \in Job /\ job.at \in 1..15 /\ Here = Script[job.at]
  BY <1>1, AtWork
<1>3. job.at \in {3, 9, 10}
  BY <1>1, <1>2, ScriptIs
<1>4. Fills
  BY <1>1, <1>2, <1>3, TheTable DEF Fills, Done, AnalysisIInv, AnalysisTyped
<1>5. /\ job' \in Job /\ job'.pc = "mark" /\ job'.at = job.at /\ job'.outputs = job.outputs
      /\ job'.basis = job.basis /\ job'.known = job.known
  BY <1>1, <1>2 DEF Job, Pcs
<1> QED BY <1>3, <1>4, <1>5, FillKeeps

\* One variant of the robustness tests is stored.
LEMMA VariantKeeps == ASSUME AnalysisIInv, NEW v \in Variants, PersistVariant(v) PROVE AnalysisIInv'
<1>1. /\ job.pc = "fill" /\ Here = "variants" /\ robustness' = robustness \cup {v}
      /\ UNCHANGED <<run, item, evidence, export, disturbances>>
      /\ job' = [job EXCEPT !.outputs = @ \cup {v}]
  BY DEF PersistVariant, In
<1>2. /\ job \in Job /\ job.at \in 1..15 /\ Here = Script[job.at] /\ Behind(job) = job.at - 1
      /\ Remembers(job, item.progress, evidence, robustness)
      /\ Sound(item.progress, evidence, robustness) /\ Sound(job.known, evidence, robustness)
      /\ run.status # "completed"
  BY <1>1, AtWork
<1>3. job.at = 11
  BY <1>1, <1>2, ScriptIs
<1>4. /\ job' \in Job /\ job'.pc = "fill" /\ job'.at = 11 /\ job'.known = job.known
      /\ job'.outputs = job.outputs \cup {v} /\ Behind(job') = 10
  BY <1>1, <1>2, <1>3 DEF Job, Behind
<1>5. Sound(item.progress, evidence', robustness') /\ Sound(job'.known, evidence', robustness')
  BY <1>1, <1>2, <1>4, MoreRows
<1>6. \A k \in 1..10 : Done(k, evidence', robustness')
  BY <1>1, <1>2, <1>3, MoreRows DEF Remembers
<1>7. Remembers(job', item.progress, evidence', robustness')
  BY <1>1, <1>2, <1>3, <1>4, <1>6 DEF Remembers
<1>8. Quiet
  BY <1>1, <1>4 DEF Quiet, AnalysisIInv, AnalysisTyped
<1> QED BY <1>2, <1>5, <1>7, <1>8, QuietKeeps

\* All of them are.
LEMMA VariantsKeep == ASSUME AnalysisIInv, VariantsDone PROVE AnalysisIInv'
<1>1. /\ job.pc = "fill" /\ Here = "variants" /\ Variants \subseteq job.outputs
      /\ UNCHANGED <<run, item, evidence, robustness, export, disturbances>>
      /\ job' = [job EXCEPT !.pc = "mark"]
  BY DEF VariantsDone, In
<1>2. /\ job \in Job /\ job.at \in 1..15 /\ Here = Script[job.at]
      /\ job.outputs \subseteq robustness
  BY <1>1, AtWork DEF Remembers
<1>3. job.at = 11
  BY <1>1, <1>2, ScriptIs
<1>4. Fills
  BY <1>1, <1>2, <1>3, TheTable DEF Fills, Done, AnalysisIInv, AnalysisTyped
<1>5. /\ job' \in Job /\ job'.pc = "mark" /\ job'.at = job.at /\ job'.outputs = job.outputs
      /\ job'.basis = job.basis /\ job'.known = job.known
  BY <1>1, <1>2 DEF Job, Pcs
<1> QED BY <1>1, <1>3, <1>4, <1>5, FillKeeps

\* All that the verdict rests on is behind the worker that comes to the classification.
LEMMA ClassifyKeeps == ASSUME AnalysisIInv, Classify PROVE AnalysisIInv'
<1>1. /\ job.pc = "fill" /\ Here = "classification"
      /\ UNCHANGED <<run, item, evidence, robustness, export, disturbances>>
      /\ job' = [job EXCEPT !.pc = "mark",
                            !.basis = (evidence \cap {"metrics"}) \cup job.outputs
                                        \cup (job.known \cap {"concentration"})]
  BY DEF Classify, In
<1>2. /\ job \in Job /\ job.at \in 1..15 /\ Here = Script[job.at] /\ Behind(job) = job.at - 1
      /\ Remembers(job, item.progress, evidence, robustness)
  BY <1>1, AtWork
<1>3. job.at = 13
  BY <1>1, <1>2, ScriptIs
<1>4. "metrics" \in evidence /\ job.outputs = Variants /\ "concentration" \in job.known
  <2>1. Done(2, evidence, robustness)
    BY <1>2, <1>3 DEF Remembers
  <2>2. "metrics" \in evidence
    BY <2>1, TheTable, ScriptIs DEF Done
  <2> QED BY <1>2, <1>3, <2>2 DEF Remembers, Job
<1>5. (evidence \cap {"metrics"}) \cup job.outputs \cup (job.known \cap {"concentration"}) = Whole
  BY <1>4 DEF Whole
<1>6. Whole \in Bases
  BY DEF Whole, Bases, Everything, Families
<1>7. Fills
  BY <1>1, <1>2, <1>3, TheTable DEF Fills, Done, AnalysisIInv, AnalysisTyped
<1>8. /\ job' \in Job /\ job'.pc = "mark" /\ job'.at = job.at /\ job'.outputs = job.outputs
      /\ job'.basis = Whole /\ job'.known = job.known
  BY <1>1, <1>2, <1>5, <1>6 DEF Job, Pcs
<1> QED BY <1>3, <1>7, <1>8, FillKeeps

\* Behind the fourteenth phase all the evidence is stored.
LEMMA AllStored ==
  ASSUME NEW E, NEW V, E \subseteq Families, V \subseteq Variants,
         \A k \in 1..13 : Done(k, E, V)
  PROVE  E \cup V = Everything
<1>1. Families \subseteq E
  <2>1. \A k \in {1, 2, 12} \cup 4..8 : Script[k] \in E
    BY TheTable DEF Done
  <2>2. /\ Script[1] \in E /\ Script[2] \in E /\ Script[4] \in E /\ Script[5] \in E
        /\ Script[6] \in E /\ Script[7] \in E /\ Script[8] \in E /\ Script[12] \in E
    BY <2>1
  <2>3. /\ Script[1] = "trades" /\ Script[2] = "metrics" /\ Script[4] = "timestamp_placebos"
        /\ Script[5] = "symbol_placebo" /\ Script[6] = "low_dispersion_placebo"
        /\ Script[7] = "component_ablations" /\ Script[8] = "leave_out_tests"
        /\ Script[12] = "qa"
    BY ScriptIs
  <2> QED BY <2>2, <2>3 DEF Families, Placebos
<1>2. Variants \subseteq V
  BY DEF Done
<1> QED BY <1>1, <1>2 DEF Everything

\* The export is made from what is stored.
LEMMA ExportKeeps == ASSUME AnalysisIInv, Export PROVE AnalysisIInv'
<1>1. /\ job.pc = "fill" /\ Here = "export"
      /\ UNCHANGED <<run, item, evidence, robustness, disturbances>>
      /\ export' = IF export = {} THEN Stored ELSE export
      /\ job' = [job EXCEPT !.pc = "mark"]
  BY DEF Export, In
<1>2. /\ job \in Job /\ job.at \in 1..15 /\ Here = Script[job.at] /\ Behind(job) = job.at - 1
      /\ Remembers(job, item.progress, evidence, robustness)
  BY <1>1, AtWork
<1>3. job.at = 14
  BY <1>1, <1>2, ScriptIs
<1>4. Stored = Everything
  BY <1>2, <1>3, AllStored DEF Stored, Remembers, AnalysisIInv, AnalysisTyped
<1>5. Fills
  BY <1>1, <1>2, <1>3, <1>4, TheTable DEF Fills, Done, AnalysisIInv, AnalysisTyped
<1>6. /\ job' \in Job /\ job'.pc = "mark" /\ job'.at = job.at /\ job'.outputs = job.outputs
      /\ job'.basis = job.basis /\ job'.known = job.known
  BY <1>1, <1>2 DEF Job, Pcs
<1> QED BY <1>3, <1>5, <1>6, FillKeeps

\* The verdict is written from all evidence.
LEMMA FinalizeKeeps == ASSUME AnalysisIInv, Finalize PROVE AnalysisIInv'
<1>1. /\ job.pc = "fill" /\ Here = "finalized" /\ job' = [job EXCEPT !.pc = "mark"]
      /\ UNCHANGED <<item, evidence, robustness, export, disturbances>>
  BY DEF Finalize, In
<1>2. PICK status \in {"completed", "completed_with_errors"} :
        run' = [status |-> status, basis |-> job.basis]
  BY DEF Finalize
<1>3. /\ job \in Job /\ job.at \in 1..15 /\ Here = Script[job.at] /\ Behind(job) = job.at - 1
      /\ Remembers(job, item.progress, evidence, robustness)
      /\ Sound(item.progress, evidence, robustness) /\ Sound(job.known, evidence, robustness)
  BY <1>1, AtWork
<1>4. job.at = 15
  BY <1>1, <1>3, ScriptIs
<1>5. /\ job' \in Job /\ job'.pc = "mark" /\ job'.at = job.at /\ job'.outputs = job.outputs
      /\ job'.basis = job.basis /\ job'.known = job.known /\ Behind(job') = 15
  BY <1>1, <1>3, <1>4 DEF Job, Pcs, Behind
<1>6. Stored = Everything /\ job.basis = Whole
  BY <1>3, <1>4, AllStored DEF Stored, Remembers, AnalysisIInv, AnalysisTyped
<1>7. run' \in [status : RunStatus, basis : Bases] /\ run'.basis = Whole
  BY <1>2, <1>3, <1>6 DEF RunStatus, OpenRun, Job
<1>8. Remembers(job', item.progress, evidence, robustness)
  <2>1. \A k \in 1..15 : Done(k, evidence, robustness)
    <3>1. \A k \in 1..14 : Done(k, evidence, robustness)
      BY <1>3, <1>4 DEF Remembers
    <3>2. Done(15, evidence, robustness)
      BY TheTable DEF Done
    <3> QED BY <3>1, <3>2
  <2> QED BY <1>1, <1>3, <1>4, <1>5, <1>6, <2>1 DEF Remembers
<1>9. Stored' = Everything
  BY <1>1, <1>6 DEF Stored
<1> QED BY <1>1, <1>3, <1>5, <1>7, <1>8, <1>9 DEF AnalysisIInv, AnalysisTyped

\* A mark is set when what it vouches for is there.
LEMMA MarkKeeps == ASSUME AnalysisIInv, Mark PROVE AnalysisIInv'
<1> DEFINE found == IF Here \in {"leave_out_tests", "falsification"}
                    THEN job.known \cap {"concentration"} ELSE {}
           progress == item.progress \cup {MarkOf(Here)} \cup found
           j == [job EXCEPT !.known = @ \cup {MarkOf(Here)}]
<1>1. /\ job.pc = "mark" /\ item' = [item EXCEPT !.progress = progress]
      /\ job' = IF Here = "finalized" THEN [job EXCEPT !.pc = "complete"] ELSE NextPhase(j)
      /\ UNCHANGED <<run, evidence, robustness, export, disturbances>>
  BY Zenon DEF Mark
<1>2. /\ job \in Job /\ item \in Item /\ job.at \in 1..15 /\ Here = Script[job.at]
      /\ Behind(job) = job.at /\ Remembers(job, item.progress, evidence, robustness)
      /\ Sound(item.progress, evidence, robustness) /\ Sound(job.known, evidence, robustness)
  BY <1>1, AtWork
<1>3. job.at # 1 /\ (\A k \in 1..job.at : Done(k, evidence, robustness))
  BY <1>1, <1>2 DEF Remembers
<1>4. MarkOf(Here) = IF job.at = 2 THEN "trade_simulation"
                     ELSE IF job.at = 11 THEN "robustness" ELSE Script[job.at]
  BY <1>2, ScriptIs DEF MarkOf
<1>5. MarkOf(Here) \in Marks
  <2>1. Here \in Phases \ {"trades"}
    BY <1>2, <1>3, ScriptIs
  <2> QED BY <2>1 DEF Marks
<1>6. job.at \in 8..9 => found = {"concentration"}
  BY <1>2, ScriptIs DEF Remembers
<1>7. found \subseteq {"concentration"} /\ found \subseteq job.known /\ "concentration" \in Marks
  BY DEF Marks
<1>8. Backed(MarkOf(Here), evidence, robustness)
  <2>1. CASE job.at = 2
    <3>1. Done(1, evidence, robustness) /\ Done(2, evidence, robustness)
      BY <1>3, <2>1
    <3>2. {"trades", "metrics"} \subseteq evidence /\ MarkOf(Here) = "trade_simulation"
      BY <1>4, <2>1, <3>1, TheTable, ScriptIs DEF Done
    <3> QED BY <3>2 DEF Backed, Placebos
  <2>2. CASE job.at \in {12} \cup 4..8
    BY <1>2, <1>3, <1>4, <2>2, TheTable, ScriptIs DEF Done, Backed
  <2>3. CASE job.at = 9
    <3>1. \A k \in 4..8 : Script[k] \in evidence
      BY <1>3, <2>3, TheTable DEF Done
    <3>2. Placebos \subseteq evidence
      <4>1. /\ Script[4] \in evidence /\ Script[5] \in evidence /\ Script[6] \in evidence
            /\ Script[7] \in evidence /\ Script[8] \in evidence
        BY <3>1
      <4> QED BY <4>1, ScriptIs DEF Placebos
    <3>3. MarkOf(Here) = "falsification"
      BY <1>4, <2>3, ScriptIs
    <3> QED BY <3>2, <3>3 DEF Backed, Placebos
  <2>4. CASE job.at = 11
    <3>1. Variants \subseteq robustness
      BY <1>3, <2>4 DEF Done
    <3> QED BY <1>4, <2>4, <3>1 DEF Backed, Placebos
  <2>5. CASE job.at \in {3, 10, 13, 14, 15}
    <3>1. MarkOf(Here) \in {"falsification_initialized", "robustness_initialized",
                            "classification", "export", "finalized"}
      BY <1>4, <2>5, ScriptIs
    <3> QED BY <3>1 DEF Backed, Placebos
  <2> QED BY <1>2, <1>3, <2>1, <2>2, <2>3, <2>4, <2>5
<1>9. MarkOf(Here) \in Placebos => job.at \in 4..8
  <2>1. "trade_simulation" \notin Placebos /\ "robustness" \notin Placebos
    BY DEF Placebos
  <2> QED BY <1>2, <1>4, <2>1, TheTable
<1>10. MarkOf(Here) \in {"leave_out_tests", "falsification"} => job.at \in 8..9
  BY <1>2, <1>4, ScriptIs
<1>11. job.at > 3 => \/ /\ "falsification_initialized" \in job.known
                        /\ "falsification_initialized" \in item.progress
                     \/ "falsification" \in job.known /\ "falsification" \in item.progress
  BY <1>1, <1>2 DEF Remembers
<1>12. Backed("concentration", evidence, robustness) /\ "concentration" \notin Placebos
  BY DEF Backed, Placebos
<1>13. Sound(progress, evidence, robustness)
  <2>1. \A mark \in progress : Backed(mark, evidence, robustness)
    BY <1>2, <1>7, <1>8, <1>12 DEF Sound
  <2>2. \A mark \in progress \cap Placebos :
          "falsification_initialized" \in progress \/ "falsification" \in progress
    BY <1>2, <1>7, <1>9, <1>11, <1>12 DEF Sound
  <2>3. "leave_out_tests" \in progress \/ "falsification" \in progress
          => "concentration" \in progress
    BY <1>2, <1>6, <1>7, <1>10 DEF Sound
  <2> QED BY <2>1, <2>2, <2>3 DEF Sound
<1>14. Sound(job.known \cup {MarkOf(Here)}, evidence, robustness)
  <2>1. job.at \in 8..9 => "concentration" \in job.known
    BY <1>2 DEF Remembers
  <2> QED BY <1>2, <1>8, <1>9, <1>10, <1>11, <2>1 DEF Sound
<1>15. item' \in Item /\ item'.progress = progress
  <2>1. progress \in SUBSET Marks
    BY <1>2, <1>5, <1>7 DEF Item
  <2> HIDE DEF progress
  <2> QED BY <1>1, <1>2, <2>1 DEF Item
<1>16. evidence \subseteq Families /\ robustness \subseteq Variants /\ disturbances \in Nat
       /\ run \in [status : RunStatus, basis : Bases] /\ export \subseteq Everything
  BY DEF AnalysisIInv, AnalysisTyped
<1>17. job' \in Job /\ job'.pc # "idle" /\ Sound(job'.known, evidence, robustness)
       /\ Remembers(job', progress, evidence, robustness)
       /\ (job.at = 15 => Behind(job') = 15)
  <2>1. CASE job.at = 15
    <3>1. job' = [job EXCEPT !.pc = "complete"] /\ MarkOf(Here) = "finalized" /\ found = {}
      BY <1>1, <1>2, <1>4, <2>1, ScriptIs
    <3>2. /\ job' \in Job /\ job'.pc = "complete" /\ job'.at = 15 /\ job'.known = job.known
          /\ job'.outputs = job.outputs /\ job'.basis = job.basis
      BY <1>2, <2>1, <3>1 DEF Job, Pcs
    <3>3. Behind(job') = 15
      BY <3>2 DEF Behind
    <3> QED BY <1>1, <1>2, <2>1, <3>1, <3>2, <3>3 DEF Remembers
  <2>2. CASE job.at # 15
    <3>1. job' = NextPhase(j)
      BY <1>1, <1>2, <2>2, ScriptIs
    <3>2. /\ j \in Job /\ j.at = job.at /\ j.known = job.known \cup {MarkOf(Here)}
          /\ j.outputs = job.outputs /\ j.basis = job.basis
      BY <1>2, <1>5 DEF Job
    <3>3. /\ job' \in Job /\ job'.pc = "enter" /\ job'.at = job.at + 1
          /\ job'.known = job.known \cup {MarkOf(Here)} /\ job'.outputs = job.outputs
          /\ job'.basis = job.basis /\ Behind(job') = job.at
      <4> HIDE DEF j
      <4>1. j.at < 15
        BY <1>2, <2>2, <3>2
      <4> QED BY <3>1, <3>2, <4>1, NextPhaseIs
    <3>4. job.at = 3 => MarkOf(Here) = "falsification_initialized"
      BY <1>4, ScriptIs
    <3>5. Remembers(job', progress, evidence, robustness)
      <4>1. /\ progress \subseteq job'.known \cup {"finalized"}
            /\ job'.known \subseteq progress \cup {"concentration"}
        BY <1>1, <1>2, <1>7, <3>3 DEF Remembers
      <4>2. job'.at > 3 => \/ "falsification_initialized" \in job'.known
                           \/ "falsification" \in job'.known
        BY <1>2, <1>11, <3>3, <3>4
      <4>3. /\ job'.outputs \subseteq robustness
            /\ job'.at <= 10 => job'.outputs = {}
            /\ job.at >= 8 => "concentration" \in job'.known
            /\ job.at >= 11 => Variants \subseteq job'.outputs
            /\ job.at >= 13 => job'.basis = Whole
        BY <1>2, <3>3 DEF Remembers
      <4> HIDE DEF progress
      <4> QED BY <1>3, <3>3, <4>1, <4>2, <4>3 DEF Remembers
    <3> QED BY <1>14, <2>2, <3>3, <3>5
  <2> QED BY <2>1, <2>2
<1> HIDE DEF progress, found, j
<1>18. run.status = "completed" => job.at = 15 /\ Stored = Everything
  BY <1>1, <1>2 DEF AnalysisIInv
<1>19. Stored' = Stored
  BY <1>1 DEF Stored
<1> QED BY <1>1, <1>13, <1>15, <1>16, <1>17, <1>18, <1>19 DEF AnalysisIInv, AnalysisTyped

\* The analysis is reported and the run completed.
LEMMA CompleteKeeps == ASSUME AnalysisIInv, Complete PROVE AnalysisIInv'
<1>1. /\ job.pc = "complete" /\ item' = [item EXCEPT !.status = "completed", !.progress = {}]
      /\ job' = [job EXCEPT !.pc = "advance"]
      /\ UNCHANGED <<run, evidence, robustness, export, disturbances>>
  BY DEF Complete
<1>2. /\ job \in Job /\ item \in Item /\ job.at \in 1..15 /\ Behind(job) = job.at
      /\ Remembers(job, item.progress, evidence, robustness)
      /\ Sound(job.known, evidence, robustness)
  BY <1>1, AtWork
<1>3. item' \in Item /\ item'.progress = {}
  BY <1>1, <1>2 DEF Item
<1>4. /\ job' \in Job /\ job'.pc = "advance" /\ job'.at = job.at /\ job'.known = job.known
      /\ job'.outputs = job.outputs /\ job'.basis = job.basis /\ Behind(job') = job.at
  BY <1>1, <1>2 DEF Job, Pcs, Behind
<1>5. Remembers(job', {}, evidence, robustness) /\ job'.at = 15
  BY <1>1, <1>2, <1>4 DEF Remembers
<1>6. Sound({}, evidence, robustness)
  BY DEF Sound
<1>7. Stored' = Stored
  BY <1>1 DEF Stored
<1> QED BY <1>1, <1>2, <1>3, <1>4, <1>5, <1>6, <1>7 DEF AnalysisIInv, AnalysisTyped

\* A worker that has gone leaves sound marks behind, and a run that is completed no
\* longer has anybody to take anything away from it.
LEMMA LeaveKeeps ==
  ASSUME AnalysisIInv, item' \in Item, item'.progress = item.progress,
         run' \in [status : RunStatus, basis : Bases], run'.basis = run.basis,
         run'.status = "completed" => run.status = "completed",
         job' = job \/ job' = Idle, UNCHANGED <<evidence, robustness, export>>,
         disturbances' \in Nat
  PROVE  AnalysisIInv'
<1>1. Stored' = Stored
  BY DEF Stored
<1>2. CASE job' = job
  BY <1>1, <1>2 DEF AnalysisIInv, AnalysisTyped
<1>3. CASE job' = Idle
  BY <1>1, <1>3, IdleJob DEF AnalysisIInv, AnalysisTyped
<1> QED BY <1>2, <1>3

\* Progress of the run, failures, crashes and commands leave the evidence alone.
LEMMA OthersKeep ==
  ASSUME AnalysisIInv,
         \/ Advance \/ FailTransient \/ FailOtherwise \/ Crash \/ Reclaim
         \/ Pause \/ Cancel \/ Resume \/ RequeueFailedArchives
  PROVE  AnalysisIInv'
<1>1. item \in Item /\ run \in [status : RunStatus, basis : Bases] /\ disturbances \in Nat
  BY DEF AnalysisIInv, AnalysisTyped
<1>2. UNCHANGED <<evidence, robustness, export>> /\ (job' = job \/ job' = Idle)
  BY DEF Advance, FailTransient, FailOtherwise, Crash, Reclaim, Pause, Cancel, Resume,
     RequeueFailedArchives
<1>3. disturbances' \in Nat
  BY <1>1 DEF Advance, FailTransient, FailOtherwise, Crash, Reclaim, Pause, Cancel, Resume,
     RequeueFailedArchives, Disturb
<1>4. ASSUME NEW status \in RunStatus
      PROVE  /\ [run EXCEPT !.status = status] \in [status : RunStatus, basis : Bases]
             /\ [run EXCEPT !.status = status].basis = run.basis
             /\ [run EXCEPT !.status = status].status = status
  BY <1>1
<1>5. ASSUME NEW status \in {"retry_wait", "failed", "cancelled"}
      PROVE  /\ [item EXCEPT !.status = status] \in Item
             /\ [item EXCEPT !.status = status].progress = item.progress
  BY <1>1 DEF Item, Waiting
<1>6. item' \in Item /\ item'.progress = item.progress
  <2>1. CASE FailTransient
    <3>1. item' = [item EXCEPT !.status = "retry_wait",
                              !.attempts = IF item.attempts > 0 THEN item.attempts - 1 ELSE 0]
      BY <2>1 DEF FailTransient
    <3>2. (IF item.attempts > 0 THEN item.attempts - 1 ELSE 0) \in Nat
      BY <1>1 DEF Item
    <3> QED BY <1>1, <3>1, <3>2 DEF Item, Waiting
  <2>2. CASE ~FailTransient
    BY <1>1, <1>5, <2>2 DEF Advance, FailOtherwise, Crash, Reclaim, Pause, Cancel, Resume,
       RequeueFailedArchives
  <2> QED BY <2>1, <2>2
<1>7. run' = run \/ \E status \in RunStatus \ {"completed"} : run' = [run EXCEPT !.status = status]
  BY DEF Advance, FailTransient, FailOtherwise, Crash, Reclaim, Pause, Cancel, Resume,
     RequeueFailedArchives, RunStatus, OpenRun
<1>8. /\ run' \in [status : RunStatus, basis : Bases] /\ run'.basis = run.basis
      /\ run'.status = "completed" => run.status = "completed"
  BY <1>1, <1>4, <1>7
<1> QED BY <1>2, <1>3, <1>6, <1>8, LeaveKeeps

\* Every step of the analysis keeps its invariant.
LEMMA AnalysisNext == ASSUME AnalysisIInv, Next PROVE AnalysisIInv'
<1>1. CASE Work
  <2>1. CASE \/ PersistPrimaryMetrics \/ TimestampPlacebos \/ SymbolPlacebo
             \/ LowDispersionPlacebo \/ ComponentAblations \/ LeaveOutTests \/ QaChecks
    BY <2>1, FilledKeeps
  <2>2. CASE \E v \in Variants : PersistVariant(v)
    BY <2>2, VariantKeeps
  <2> QED BY <1>1, <2>1, <2>2, SkipKeeps, EnterKeeps, NothingKeeps, TradesKeep, VariantsKeep,
             ClassifyKeeps, ExportKeeps, FinalizeKeeps, MarkKeeps, CompleteKeeps, OthersKeep
             DEF Work
<1> QED BY <1>1, ClaimKeeps, OthersKeep DEF Next

\* So does a step of another lane.
LEMMA AnalysisStutters ==
  ASSUME AnalysisIInv, UNCHANGED analysis, disturbances' \in Nat PROVE AnalysisIInv'
<1>1. Stored' = Stored
  BY DEF Stored, analysis
<1> QED BY <1>1 DEF AnalysisIInv, AnalysisTyped, analysis

\* What the invariant is for.
LEMMA AnalysisVouched == ASSUME AnalysisIInv PROVE EvidenceVouched
<1>1. MarksVouch
  <2>1. SUFFICES ASSUME NEW mark \in item.progress \cup job.known PROVE Vouched(mark) \subseteq Stored
    BY DEF MarksVouch
  <2>2. Backed(mark, evidence, robustness)
    BY DEF AnalysisIInv, Sound
  <2> QED BY <2>2 DEF Backed, Vouched, Stored, Placebos
<1> QED BY <1>1 DEF EvidenceVouched, AnalysisIInv, VerdictRests, Whole, ExportWhole,
           CompletedKeepsEvidence

(***************************************************************************)
(* The option events                                                       *)
(***************************************************************************)
EventStatus == {"queued", "retry_wait", "running", "completed", "failed"}
OptionRow == [status : EventStatus, attempts : Nat, owner : Option!Workers \cup {Nobody},
              fresh : BOOLEAN]
Tally == [done : Nat, bad : Nat, pending : Nat]
OptionPlaces == {"idle", "picked", "fetch", "close", "counted", "report", "told"}
OptionJob == [at : OptionPlaces, event : Events \cup {Nobody}, attempts : Nat,
              todo : SUBSET Buckets,
              change : UNION {[D -> EventStatus] : D \in SUBSET Events},
              seen : Tally, retrying : BOOLEAN]
OptionRun == [status : {"queued", "running", "completed", "completed_with_errors"},
              done : Nat, bad : Nat]

OptionTyped ==
  /\ optionEvent \in [Events -> OptionRow] /\ optionRun \in OptionRun
  /\ optionRun.done + optionRun.bad <= Cardinality(Events)
  /\ optionResult \in [Events -> SUBSET Buckets]
  /\ optionJob \in [Option!Workers -> OptionJob]
  /\ misreported \in BOOLEAN

\* A worker has the results that it has not still to do, and completes only an event
\* that has them all; what it counts are events, none of them twice.
Prices(j, results) ==
  /\ j.at \in {"picked", "fetch", "close", "report", "told"} => j.event \in Events
  /\ j.at = "counted" /\ ~j.retrying => j.event \in Events
  /\ j.at = "fetch" => Buckets \ j.todo \subseteq results[j.event]
  /\ \A e \in DOMAIN j.change : j.change[e] = "completed" => results[e] = Buckets
  /\ j.seen.done + j.seen.bad <= Cardinality(Events)

\* The run is as its events were when they were last counted, unless one is open again.
Told(rows, row) ==
  \/ \E e \in Events : rows[e].status \notin {"completed", "failed"}
  \/ row = Option!RunOf(Option!Counts([e \in Events |-> rows[e].status]))

\* The inductive invariant.
OptionIInv ==
  /\ OptionTyped
  /\ \A w \in Option!Workers : Prices(optionJob[w], optionResult)
  /\ \A e \in Events : optionEvent[e].status = "completed" => optionResult[e] = Buckets
  /\ misreported \/ Events = {} \/ Told(optionEvent, optionRun)

\* The invariant's typing is the type invariant.
LEMMA OptionTypes == ASSUME OptionTyped PROVE Option!TypeOK
<1>1. \A S : Option!Cardinality(S) = Cardinality(S)
  BY Zenon DEF Option!Cardinality, Cardinality
<1>2. optionEvent \in [Events -> [status : Option!Waiting \cup Option!Ended \cup {"running"},
                                 attempts : Nat, owner : Option!Workers \cup {Nobody},
                                 fresh : BOOLEAN]]
  <2>1. EventStatus = Option!Waiting \cup Option!Ended \cup {"running"}
    BY DEF EventStatus, Option!Waiting, Option!Ended
  <2> QED BY <2>1 DEF OptionTyped, OptionRow
<1>3. \A w \in Option!Workers : optionJob[w].at \in OptionPlaces
  BY DEF OptionTyped, OptionJob
<1> QED BY <1>1, <1>2, <1>3 DEF OptionTyped, OptionRun, OptionPlaces, Option!TypeOK

\* Every event is counted once, as open, completed or failed.
LEMMA CountsAre ==
  ASSUME NEW statuses \in [Events -> EventStatus]
  PROVE  LET c == Option!Counts(statuses) IN
         /\ c \in Tally /\ c.done + c.bad <= Cardinality(Events)
         /\ c.bad = Cardinality({e \in Events : statuses[e] = "failed"})
         /\ (\A e \in Events : statuses[e] \in {"completed", "failed"})
              => c.pending = 0 /\ c.done + c.bad = Cardinality(Events)
<1> DEFINE D == {e \in Events : statuses[e] = "completed"}
           B == {e \in Events : statuses[e] = "failed"}
           P == {e \in Events : statuses[e] \in {"queued", "retry_wait", "running"}}
<1>1. \A S : Option!Cardinality(S) = Cardinality(S)
  BY Zenon DEF Option!Cardinality, Cardinality
<1>2. Option!Counts(statuses)
        = [done |-> Cardinality(D), bad |-> Cardinality(B), pending |-> Cardinality(P)]
  <2>1. /\ D = {e \in Events : statuses[e] \in {"completed"}}
        /\ B = {e \in Events : statuses[e] \in {"failed"}}
        /\ P = {e \in Events : statuses[e] \in Option!Waiting \cup {"running"}}
    BY DEF Option!Waiting
  <2> HIDE DEF D, B, P
  <2> QED BY <1>1, <2>1 DEF Option!Counts, Option!Number
<1>3. D \subseteq Events /\ B \subseteq Events /\ P \subseteq Events /\ D \cap B = {}
      /\ D \cup B \subseteq Events
  OBVIOUS
<1>4. (\A e \in Events : statuses[e] \in {"completed", "failed"}) => P = {} /\ D \cup B = Events
  OBVIOUS
<1> HIDE DEF D, B, P
<1>5. IsFiniteSet(D) /\ IsFiniteSet(B) /\ IsFiniteSet(P) /\ IsFiniteSet(Events)
  BY <1>3, LaneBounds, FS_Subset
<1>6. /\ Cardinality(D) \in Nat /\ Cardinality(B) \in Nat /\ Cardinality(P) \in Nat
      /\ Cardinality(Events) \in Nat
  BY <1>5, FS_CardinalityType
<1>7. Cardinality(D \cup B) = Cardinality(D) + Cardinality(B)
  <2>1. Cardinality(D \cup B) = Cardinality(D) + Cardinality(B) - Cardinality(D \cap B)
    BY <1>5, FS_Union
  <2>2. Cardinality(D \cap B) = 0
    BY <1>3, FS_EmptySet
  <2> QED BY <1>6, <2>1, <2>2
<1>8. Cardinality(D \cup B) <= Cardinality(Events)
  BY <1>3, <1>5, FS_Subset
<1>9. Cardinality({}) = 0
  BY FS_EmptySet
<1>10. /\ Option!Counts(statuses).done = Cardinality(D)
       /\ Option!Counts(statuses).bad = Cardinality(B)
       /\ Option!Counts(statuses).pending = Cardinality(P)
       /\ Option!Counts(statuses) \in Tally
  BY <1>2, <1>6 DEF Tally
<1>11. Cardinality(B) = Cardinality({e \in Events : statuses[e] = "failed"})
  BY DEF B
<1> QED BY <1>4, <1>6, <1>7, <1>8, <1>9, <1>10, <1>11

\* The statuses of rows are statuses.
LEMMA StatusesAre ==
  ASSUME NEW rows \in [Events -> OptionRow]
  PROVE  [e \in Events |-> rows[e].status] \in [Events -> EventStatus]
BY DEF OptionRow

\* What the run tells when its events are all over.
LEMMA OptionTold == ASSUME OptionIInv PROVE Option!RunTold
<1> SUFFICES ASSUME Events # {}, \A w \in Option!Workers : optionJob[w].at = "idle",
                    \A e \in Events : optionEvent[e].status \in Option!Ended, ~misreported
             PROVE  /\ optionRun.bad = Cardinality({e \in Events : optionEvent[e].status = "failed"})
                    /\ optionRun.done + optionRun.bad = Cardinality(Events)
                    /\ optionRun.status = IF optionRun.bad > 0 THEN "completed_with_errors" ELSE "completed"
  <2>1. \A S : Option!Cardinality(S) = Cardinality(S)
    BY Zenon DEF Option!Cardinality, Cardinality
  <2> QED BY <2>1 DEF Option!RunTold, OptionIInv
<1> DEFINE statuses == [e \in Events |-> optionEvent[e].status]
           c == Option!Counts(statuses)
<1>1. statuses \in [Events -> EventStatus] /\ \A e \in Events : statuses[e] = optionEvent[e].status
  BY StatusesAre DEF OptionIInv, OptionTyped
<1>2. optionRun = Option!RunOf(c)
  BY DEF OptionIInv, Told, Option!Ended
<1>3. {e \in Events : statuses[e] = "failed"} = {e \in Events : optionEvent[e].status = "failed"}
  BY <1>1
<1>4. \A e \in Events : statuses[e] \in {"completed", "failed"}
  BY <1>1 DEF Option!Ended
<1> HIDE DEF statuses
<1>5. /\ c.pending = 0 /\ c.done + c.bad = Cardinality(Events)
      /\ c.bad = Cardinality({e \in Events : optionEvent[e].status = "failed"})
      /\ c \in Tally
  BY <1>1, <1>3, <1>4, CountsAre
<1> QED BY <1>2, <1>5 DEF Option!RunOf, Tally

\* Statuses for some of the events.
LEMMA ChangesAre ==
  /\ \A D \in SUBSET Events : \A c \in [D -> EventStatus] :
       c \in UNION {[S -> EventStatus] : S \in SUBSET Events}
  /\ \A c \in UNION {[S -> EventStatus] : S \in SUBSET Events} :
       DOMAIN c \subseteq Events /\ \A e \in DOMAIN c : c[e] \in EventStatus
OBVIOUS

\* A worker that is idle has counted nothing.
LEMMA IdleOptionJob ==
  /\ Option!Idle \in OptionJob /\ Option!Idle.at = "idle"
  /\ Option!Idle.seen = [done |-> 0, bad |-> 0, pending |-> 0]
  /\ DOMAIN Option!Idle.change = {} /\ \A results : Prices(Option!Idle, results)
<1>1. Option!NoChange \in [{} -> EventStatus] /\ DOMAIN Option!NoChange = {}
  BY DEF Option!NoChange
<1>2. Option!NoChange \in UNION {[S -> EventStatus] : S \in SUBSET Events}
  BY <1>1, ChangesAre
<1>3. Option!Idle \in OptionJob
  BY <1>2 DEF Option!Idle, OptionJob, OptionPlaces, Tally
<1>4. /\ Option!Idle.at = "idle" /\ Option!Idle.seen = [done |-> 0, bad |-> 0, pending |-> 0]
      /\ DOMAIN Option!Idle.change = {}
  BY <1>1 DEF Option!Idle
<1>5. Cardinality(Events) \in Nat
  BY LaneBounds, FS_CardinalityType
<1> QED BY <1>3, <1>4, <1>5 DEF Prices

\* The invariant of the option run holds at the start.
LEMMA OptionInit == ASSUME Option!Init PROVE OptionIInv
<1>1. optionEvent \in [Events -> OptionRow]
  BY DEF Option!Init, OptionRow, EventStatus
<1>2. optionJob \in [Option!Workers -> OptionJob]
      /\ \A w \in Option!Workers : Prices(optionJob[w], optionResult)
  BY IdleOptionJob DEF Option!Init
<1>3. optionRun \in OptionRun /\ optionRun.done + optionRun.bad <= Cardinality(Events)
  <2>1. Cardinality(Events) \in Nat
    BY LaneBounds, FS_CardinalityType
  <2> QED BY <2>1 DEF Option!Init, OptionRun
<1>4. optionResult \in [Events -> SUBSET Buckets] /\ misreported = FALSE
  BY DEF Option!Init
<1>5. \A e \in Events : optionEvent[e].status = "queued"
  BY DEF Option!Init
<1> QED BY <1>1, <1>2, <1>3, <1>4, <1>5 DEF OptionIInv, OptionTyped, Told

\* A step of one worker.
LEMMA OptionStep ==
  ASSUME OptionIInv, NEW w \in Option!Workers, NEW j \in OptionJob,
         optionJob' = [optionJob EXCEPT ![w] = j],
         optionEvent' \in [Events -> OptionRow], optionRun' \in OptionRun,
         optionRun'.done + optionRun'.bad <= Cardinality(Events),
         optionResult' \in [Events -> SUBSET Buckets],
         \A e \in Events : optionResult[e] \subseteq optionResult'[e],
         Prices(j, optionResult'), misreported' \in BOOLEAN,
         \A e \in Events : optionEvent'[e].status = "completed"
                             => optionEvent[e].status = "completed" \/ optionResult'[e] = Buckets,
         misreported' \/ Events = {} \/ Told(optionEvent', optionRun')
  PROVE  OptionIInv'
<1>1. optionJob \in [Option!Workers -> OptionJob] /\ optionResult \in [Events -> SUBSET Buckets]
  BY DEF OptionIInv, OptionTyped
<1>2. ASSUME NEW v \in Option!Workers PROVE Prices(optionJob'[v], optionResult')
  <2>1. CASE v = w
    BY <1>1, <2>1
  <2>2. CASE v # w
    <3>1. optionJob'[v] = optionJob[v] /\ Prices(optionJob[v], optionResult) /\ optionJob[v] \in OptionJob
      BY <1>1, <2>2 DEF OptionIInv
    <3>2. DOMAIN optionJob[v].change \subseteq Events
      BY <3>1, ChangesAre DEF OptionJob
    <3>3. \A e \in Events : optionResult[e] = Buckets => optionResult'[e] = Buckets
      OBVIOUS
    <3>4. optionJob[v].at = "fetch"
            => Buckets \ optionJob[v].todo \subseteq optionResult'[optionJob[v].event]
      BY <3>1 DEF Prices
    <3> QED BY <3>1, <3>2, <3>3, <3>4 DEF Prices
  <2> QED BY <2>1, <2>2
<1>3. optionJob' \in [Option!Workers -> OptionJob]
  BY <1>1
<1>4. \A e \in Events : optionEvent'[e].status = "completed" => optionResult'[e] = Buckets
  BY <1>1 DEF OptionIInv
<1> QED BY <1>2, <1>3, <1>4 DEF OptionIInv, OptionTyped

\* A step that leaves the events and the run alone.
LEMMA OptionQuiet ==
  ASSUME OptionIInv, NEW w \in Option!Workers, NEW j \in OptionJob,
         optionJob' = [optionJob EXCEPT ![w] = j],
         UNCHANGED <<optionEvent, optionRun, misreported>>,
         optionResult' \in [Events -> SUBSET Buckets],
         \A e \in Events : optionResult[e] \subseteq optionResult'[e],
         Prices(j, optionResult')
  PROVE  OptionIInv'
BY OptionStep DEF OptionIInv, OptionTyped

\* What a worker of the option run is.
LEMMA OptionWorkerIs ==
  ASSUME OptionIInv, NEW w \in Option!Workers
  PROVE  /\ optionJob[w] \in OptionJob /\ Prices(optionJob[w], optionResult)
         /\ optionJob \in [Option!Workers -> OptionJob]
         /\ optionEvent \in [Events -> OptionRow]
         /\ optionResult \in [Events -> SUBSET Buckets]
         /\ Cardinality(Events) \in Nat
BY LaneBounds, FS_CardinalityType DEF OptionIInv, OptionTyped

\* The worker goes on to conclude its event.
LEMMA ToCloseKeeps ==
  ASSUME OptionIInv, NEW w \in Option!Workers, NEW status \in EventStatus, NEW retrying \in BOOLEAN,
         Option!ToClose(w, status, retrying), optionJob[w].event \in Events,
         status = "completed" => optionResult[optionJob[w].event] = Buckets,
         UNCHANGED <<optionEvent, optionRun, misreported, optionResult>>
  PROVE  OptionIInv'
<1> DEFINE c == [e \in {optionJob[w].event} |-> status]
           j == [optionJob[w] EXCEPT !.at = "close", !.retrying = retrying, !.change = c]
<1>1. optionJob' = [optionJob EXCEPT ![w] = j]
  BY OptionWorkerIs DEF Option!ToClose
<1>2. c \in [{optionJob[w].event} -> EventStatus]
  OBVIOUS
<1>3. c \in UNION {[S -> EventStatus] : S \in SUBSET Events}
  BY <1>2, ChangesAre
<1>4. DOMAIN c = {optionJob[w].event} /\ \A e \in DOMAIN c : c[e] = status
  OBVIOUS
<1> HIDE DEF c
<1>5. j \in OptionJob
  BY <1>3, OptionWorkerIs DEF OptionJob, OptionPlaces
<1>6. /\ j.at = "close" /\ j.event = optionJob[w].event /\ j.change = c
      /\ j.seen = optionJob[w].seen
  BY OptionWorkerIs DEF OptionJob
<1>7. Prices(j, optionResult)
  BY <1>4, <1>6, OptionWorkerIs DEF Prices
<1> HIDE DEF j
<1> QED BY <1>1, <1>5, <1>7, OptionWorkerIs, OptionQuiet

\* An event that is retried is not completed.
LEMMA RetriedIs ==
  ASSUME NEW w PROVE Option!Retried(w) \in EventStatus /\ Option!Retried(w) # "completed"
BY DEF Option!Retried, EventStatus

\* All buckets are stored: the event is about to be closed.
LEMMA DoneKeeps == ASSUME OptionIInv, NEW w \in Option!Workers, Option!Done(w) PROVE OptionIInv'
<1>1. /\ optionJob[w].at = "fetch" /\ optionJob[w].todo = {}
      /\ Option!ToClose(w, "completed", FALSE)
      /\ UNCHANGED <<optionEvent, optionRun, misreported, optionResult>>
  BY DEF Option!Done
<1>2. optionJob[w].event \in Events /\ optionResult[optionJob[w].event] = Buckets
  BY <1>1, OptionWorkerIs DEF Prices
<1> QED BY <1>1, <1>2, ToCloseKeeps DEF EventStatus

\* An event fails.
LEMMA OptionFails == ASSUME OptionIInv, NEW w \in Option!Workers, Option!Fails(w) PROVE OptionIInv'
<1>1. /\ optionJob[w].at = "fetch"
      /\ Option!ToClose(w, Option!Retried(w), TRUE) \/ Option!ToClose(w, "failed", w \in DbWorkers)
      /\ UNCHANGED <<optionEvent, optionRun, misreported, optionResult>>
  BY DEF Option!Fails
<1>2. optionJob[w].event \in Events
  BY <1>1, OptionWorkerIs DEF Prices
<1>3. CASE Option!ToClose(w, Option!Retried(w), TRUE)
  BY <1>1, <1>2, <1>3, RetriedIs, ToCloseKeeps
<1>4. CASE Option!ToClose(w, "failed", w \in DbWorkers)
  <2> DEFINE retrying == w \in DbWorkers
  <2>1. retrying \in BOOLEAN
    OBVIOUS
  <2>2. Option!ToClose(w, "failed", retrying)
    BY <1>4
  <2> HIDE DEF retrying
  <2>3. "failed" \in EventStatus
    BY DEF EventStatus
  <2> QED BY <1>1, <1>2, <2>1, <2>2, <2>3, ToCloseKeeps
<1> QED BY <1>1, <1>3, <1>4

\* After an error the worker gives up, or goes on to retry the event.
LEMMA AfterErrorKeeps ==
  ASSUME OptionIInv, NEW w \in Option!Workers, Option!AfterError(w),
         optionJob[w].at \in {"close", "counted", "report", "told"},
         UNCHANGED <<optionEvent, optionRun, misreported, optionResult>>
  PROVE  OptionIInv'
<1>1. CASE optionJob[w].retrying
  <2>1. optionJob' = [optionJob EXCEPT ![w] = Option!Idle]
    BY <1>1 DEF Option!AfterError
  <2> QED BY <2>1, IdleOptionJob, OptionWorkerIs, OptionQuiet
<1>2. CASE ~optionJob[w].retrying
  <2>1. Option!ToClose(w, Option!Retried(w), TRUE)
    BY <1>2 DEF Option!AfterError
  <2>2. optionJob[w].event \in Events
    BY <1>2, OptionWorkerIs DEF Prices
  <2> QED BY <2>1, <2>2, RetriedIs, ToCloseKeeps
<1> QED BY <1>1, <1>2

\* A worker dies, or a request of it fails.
LEMMA OptionCrash ==
  ASSUME OptionIInv, NEW w \in Option!Workers, Option!Crash(w) \/ Option!RequestErrs(w)
  PROVE  OptionIInv'
<1>1. UNCHANGED <<optionEvent, optionRun, misreported, optionResult>>
  BY DEF Option!Crash, Option!RequestErrs
<1>2. CASE optionJob' = [optionJob EXCEPT ![w] = Option!Idle]
  BY <1>1, <1>2, IdleOptionJob, OptionWorkerIs, OptionQuiet
<1>3. CASE optionJob[w].at \in {"close", "report", "told"} /\ Option!AfterError(w)
  BY <1>1, <1>3, AfterErrorKeeps
<1> QED BY <1>2, <1>3 DEF Option!Crash, Option!RequestErrs

\* An event is claimed.
LEMMA OptionClaim ==
  ASSUME OptionIInv, NEW w \in Option!Workers, NEW e \in Events, Option!Claim(w, e)
  PROVE  OptionIInv'
<1> DEFINE r == [status |-> "running", attempts |-> optionEvent[e].attempts + 1, owner |-> w,
                 fresh |-> TRUE]
           j == [Option!Idle EXCEPT !.at = "fetch", !.event = e, !.todo = Buckets,
                                    !.attempts = optionEvent[e].attempts + 1]
<1>1. /\ optionEvent' = [optionEvent EXCEPT ![e] = r] /\ optionJob' = [optionJob EXCEPT ![w] = j]
      /\ optionRun' = IF optionRun.status = "queued" THEN [optionRun EXCEPT !.status = "running"]
                      ELSE optionRun
      /\ UNCHANGED <<optionResult, misreported>>
  BY DEF Option!Claim
<1>2. optionEvent[e].attempts + 1 \in Nat
  BY OptionWorkerIs DEF OptionRow
<1>3. r \in OptionRow /\ r.status = "running"
  BY <1>2 DEF OptionRow, EventStatus
<1>4. /\ j \in OptionJob /\ j.at = "fetch" /\ j.event = e /\ j.todo = Buckets
      /\ j.change = Option!Idle.change /\ j.seen = Option!Idle.seen
  BY <1>2, IdleOptionJob DEF OptionJob, OptionPlaces
<1>5. optionRun' \in OptionRun /\ optionRun'.done = optionRun.done /\ optionRun'.bad = optionRun.bad
  BY <1>1 DEF OptionIInv, OptionTyped, OptionRun
<1> HIDE DEF j, r
<1>6. /\ optionEvent' \in [Events -> OptionRow] /\ optionEvent'[e].status = "running"
      /\ \A k \in Events \ {e} : optionEvent'[k] = optionEvent[k]
  BY <1>1, <1>3, OptionWorkerIs
<1>7. Prices(j, optionResult)
  BY <1>4, IdleOptionJob, OptionWorkerIs DEF Prices
<1>8. Told(optionEvent', optionRun')
  BY <1>6 DEF Told
<1>9. \A k \in Events : optionEvent'[k].status = "completed" => optionEvent[k].status = "completed"
  BY <1>6
<1>10. misreported' \in BOOLEAN /\ optionRun'.done + optionRun'.bad <= Cardinality(Events)
  BY <1>1, <1>5 DEF OptionIInv, OptionTyped
<1> QED BY <1>1, <1>4, <1>5, <1>6, <1>7, <1>8, <1>9, <1>10, OptionWorkerIs, OptionStep

\* An event is picked to be claimed by a patch.
LEMMA PickKeeps ==
  ASSUME OptionIInv, NEW w \in Option!Workers, NEW e \in Events, Option!Pick(w, e)
  PROVE  OptionIInv'
<1> DEFINE j == [Option!Idle EXCEPT !.at = "picked", !.event = e, !.attempts = optionEvent[e].attempts]
<1>1. /\ optionJob' = [optionJob EXCEPT ![w] = j]
      /\ UNCHANGED <<optionEvent, optionRun, optionResult, misreported>>
  BY DEF Option!Pick
<1>2. optionEvent[e].attempts \in Nat
  BY OptionWorkerIs DEF OptionRow
<1>3. /\ j \in OptionJob /\ j.at = "picked" /\ j.event = e
      /\ j.change = Option!Idle.change /\ j.seen = Option!Idle.seen
  BY <1>2, IdleOptionJob DEF OptionJob, OptionPlaces
<1> HIDE DEF j
<1>4. Prices(j, optionResult)
  BY <1>3, IdleOptionJob, OptionWorkerIs DEF Prices
<1> QED BY <1>1, <1>3, <1>4, OptionWorkerIs, OptionQuiet

\* The patch claims it, if it is still there to be claimed.
LEMMA PatchKeeps ==
  ASSUME OptionIInv, NEW w \in Option!Workers, Option!ClaimByPatch(w) PROVE OptionIInv'
<1>0. PICK e : e = optionJob[w].event
  OBVIOUS
<1> DEFINE n == optionJob[w].attempts + 1
           r == [status |-> "running", attempts |-> n, owner |-> w, fresh |-> TRUE]
           j == [optionJob[w] EXCEPT !.at = "fetch", !.attempts = n, !.todo = Buckets]
<1>1. /\ optionJob[w].at = "picked" /\ optionEvent' = [optionEvent EXCEPT ![e] = r]
      /\ optionJob' = [optionJob EXCEPT ![w] = j]
      /\ UNCHANGED <<optionRun, optionResult, misreported>>
  BY <1>0, OptionWorkerIs DEF Option!ClaimByPatch
<1>2. n \in Nat /\ e \in Events
  BY <1>0, <1>1, OptionWorkerIs DEF OptionJob, Prices
<1>3. r \in OptionRow /\ r.status = "running"
  BY <1>2 DEF OptionRow, EventStatus
<1>4. /\ j \in OptionJob /\ j.at = "fetch" /\ j.event = e /\ j.todo = Buckets
      /\ j.change = optionJob[w].change /\ j.seen = optionJob[w].seen
  BY <1>0, <1>2, OptionWorkerIs DEF OptionJob, OptionPlaces
<1> HIDE DEF j, r, n
<1>5. /\ optionEvent' \in [Events -> OptionRow] /\ optionEvent'[e].status = "running"
      /\ \A k \in Events \ {e} : optionEvent'[k] = optionEvent[k]
  BY <1>1, <1>2, <1>3, OptionWorkerIs
<1>6. Prices(j, optionResult)
  BY <1>2, <1>4, OptionWorkerIs DEF Prices
<1>7. Told(optionEvent', optionRun')
  BY <1>2, <1>5 DEF Told
<1>8. \A k \in Events : optionEvent'[k].status = "completed" => optionEvent[k].status = "completed"
  BY <1>5
<1> QED BY <1>1, <1>4, <1>5, <1>6, <1>7, <1>8, OptionWorkerIs, OptionStep DEF OptionIInv, OptionTyped

\* A bucket of results is stored.
LEMMA BucketKeeps ==
  ASSUME OptionIInv, NEW w \in Option!Workers, Option!StoreBucket(w) PROVE OptionIInv'
<1>0. PICK e : e = optionJob[w].event
  OBVIOUS
<1>1. PICK b \in optionJob[w].todo :
        /\ optionResult' = [optionResult EXCEPT ![e] = optionResult[e] \cup {b}]
        /\ optionJob' = [optionJob EXCEPT ![w].todo = optionJob[w].todo \ {b}]
  BY <1>0 DEF Option!StoreBucket
<1>2. optionJob[w].at = "fetch" /\ UNCHANGED <<optionEvent, optionRun, misreported>>
  BY DEF Option!StoreBucket
<1> DEFINE j == [optionJob[w] EXCEPT !.todo = optionJob[w].todo \ {b}]
<1>3. /\ optionJob' = [optionJob EXCEPT ![w] = j] /\ j \in OptionJob /\ j.at = "fetch" /\ j.event = e
      /\ j.todo = optionJob[w].todo \ {b}
      /\ j.change = optionJob[w].change /\ j.seen = optionJob[w].seen
  BY <1>0, <1>1, <1>2, OptionWorkerIs DEF OptionJob
<1>4. e \in Events /\ b \in Buckets
  BY <1>0, <1>1, <1>2, OptionWorkerIs DEF Prices, OptionJob
<1> HIDE DEF j
<1>5. /\ optionResult' \in [Events -> SUBSET Buckets] /\ optionResult'[e] = optionResult[e] \cup {b}
      /\ \A k \in Events : optionResult[k] \subseteq optionResult'[k]
  BY <1>1, <1>4, OptionWorkerIs
<1>6. \A k \in DOMAIN j.change : j.change[k] = "completed" => optionResult'[k] = Buckets
  <2>1. DOMAIN j.change \subseteq Events
    BY <1>3, ChangesAre DEF OptionJob
  <2>2. \A k \in Events : optionResult[k] = Buckets => optionResult'[k] = Buckets
    BY <1>5
  <2> QED BY <1>3, <2>1, <2>2, OptionWorkerIs DEF Prices
<1>7. Prices(j, optionResult')
  BY <1>0, <1>2, <1>3, <1>4, <1>5, <1>6, OptionWorkerIs DEF Prices
<1> QED BY <1>2, <1>3, <1>5, <1>7, OptionQuiet

\* The transaction counts the events as it will leave them.
LEMMA SeesCounts ==
  ASSUME OptionIInv, NEW c \in UNION {[S -> EventStatus] : S \in SUBSET Events}
  PROVE  /\ Option!Counts(Option!StatusesWith(c)) \in Tally
         /\ Option!Counts(Option!StatusesWith(c)).done + Option!Counts(Option!StatusesWith(c)).bad
              <= Cardinality(Events)
<1>1. Option!StatusesWith(c) \in [Events -> EventStatus]
  BY ChangesAre DEF Option!StatusesWith, OptionIInv, OptionTyped, OptionRow
<1> QED BY <1>1, CountsAre

\* The transaction that closes an event counts first.
LEMMA TransactionKeeps ==
  ASSUME OptionIInv, NEW w \in Option!Workers, Option!CloseInTransaction(w) PROVE OptionIInv'
<1> DEFINE c == optionJob[w].change
           seen == Option!Counts(Option!StatusesWith(c))
           j == [optionJob[w] EXCEPT !.at = "counted", !.seen = seen]
<1>1. /\ optionJob[w].at = "close" /\ optionJob' = [optionJob EXCEPT ![w] = j]
      /\ UNCHANGED <<optionEvent, optionRun, optionResult, misreported>>
  BY OptionWorkerIs DEF Option!CloseInTransaction
<1>2. c \in UNION {[S -> EventStatus] : S \in SUBSET Events}
  BY OptionWorkerIs DEF OptionJob
<1>3. seen \in Tally /\ seen.done + seen.bad <= Cardinality(Events)
  BY <1>2, SeesCounts
<1> HIDE DEF seen
<1>4. /\ j \in OptionJob /\ j.at = "counted" /\ j.event = optionJob[w].event /\ j.change = c
      /\ j.seen = seen
  BY <1>3, OptionWorkerIs DEF OptionJob, OptionPlaces
<1>5. Prices(j, optionResult)
  BY <1>1, <1>3, <1>4, OptionWorkerIs DEF Prices
<1> HIDE DEF j
<1> QED BY <1>1, <1>4, <1>5, OptionWorkerIs, OptionQuiet

\* Events that were given up are taken back.
LEMMA OptionReclaim ==
  ASSUME OptionIInv, NEW w \in Option!Workers, Option!Reclaim(w) PROVE OptionIInv'
<1> DEFINE stale == {e \in Events : optionEvent[e].status = "running" /\ ~optionEvent[e].fresh
                                    /\ ~Option!Locked(e)}
           c == [e \in stale |-> IF optionEvent[e].attempts >= MaxAttempts THEN "failed"
                                 ELSE "retry_wait"]
           seen == Option!Counts(Option!StatusesWith(c))
           j == [Option!Idle EXCEPT !.at = "counted", !.change = c, !.retrying = TRUE, !.seen = seen]
<1>1. /\ optionJob' = [optionJob EXCEPT ![w] = j]
      /\ UNCHANGED <<optionEvent, optionRun, optionResult, misreported>>
  BY Zenon DEF Option!Reclaim
<1>2. stale \in SUBSET Events
  OBVIOUS
<1>3. c \in [stale -> EventStatus] /\ DOMAIN c = stale /\ \A e \in stale : c[e] # "completed"
  <2> HIDE DEF stale
  <2> QED BY DEF EventStatus
<1> HIDE DEF c, stale
<1>4. c \in UNION {[S -> EventStatus] : S \in SUBSET Events}
  BY <1>2, <1>3, ChangesAre
<1>5. seen \in Tally /\ seen.done + seen.bad <= Cardinality(Events)
  BY <1>4, SeesCounts
<1> HIDE DEF seen
<1>6. /\ j \in OptionJob /\ j.at = "counted" /\ j.retrying = TRUE /\ j.change = c /\ j.seen = seen
  BY <1>4, <1>5, IdleOptionJob DEF OptionJob, OptionPlaces
<1>7. Prices(j, optionResult)
  BY <1>3, <1>5, <1>6 DEF Prices
<1> HIDE DEF j
<1> QED BY <1>1, <1>6, <1>7, OptionWorkerIs, OptionQuiet

\* The rows after a conclusion: the rest is as it was.
LEMMA ConcludedIs ==
  ASSUME OptionIInv, NEW w \in Option!Workers, NEW rows, rows = Option!Concluded(optionJob[w].change)
  PROVE  /\ rows \in [Events -> OptionRow]
         /\ \A e \in Events : rows[e].status = "completed"
              => optionEvent[e].status = "completed" \/ optionResult[e] = Buckets
<1> DEFINE c == optionJob[w].change
<1>1. /\ DOMAIN c \subseteq Events /\ \A e \in DOMAIN c : c[e] \in EventStatus
      /\ \A e \in DOMAIN c : c[e] = "completed" => optionResult[e] = Buckets
      /\ optionEvent \in [Events -> OptionRow]
  BY ChangesAre, OptionWorkerIs DEF OptionJob, Prices
<1>2. rows = [e \in Events |-> IF e \in DOMAIN c
                THEN [optionEvent[e] EXCEPT !.status = c[e], !.owner = Nobody, !.fresh = FALSE]
                ELSE optionEvent[e]]
  BY DEF Option!Concluded
<1> HIDE DEF c
<1>3. ASSUME NEW e \in Events
      PROVE  /\ rows[e] \in OptionRow
             /\ rows[e].status = "completed"
                  => optionEvent[e].status = "completed" \/ optionResult[e] = Buckets
  <2>1. CASE e \in DOMAIN c
    <3> DEFINE r == [optionEvent[e] EXCEPT !.status = c[e], !.owner = Nobody, !.fresh = FALSE]
    <3>1. r \in OptionRow /\ r.status = c[e]
      BY <1>1, <2>1 DEF OptionRow
    <3>2. rows[e] = r
      BY <1>2, <2>1
    <3> HIDE DEF r
    <3> QED BY <1>1, <2>1, <3>1, <3>2
  <2>2. CASE e \notin DOMAIN c
    BY <1>1, <1>2, <2>2
  <2> QED BY <2>1, <2>2
<1> QED BY <1>2, <1>3

\* A run that is written from counts tells what these counted, or is marked.
LEMMA ReportTells ==
  ASSUME NEW c \in Tally, c.done + c.bad <= Cardinality(Events), NEW rows, NEW row, NEW marked,
         row = Option!RunOf(c),
         marked = (c # Option!Counts([e \in Events |-> rows[e].status]))
  PROVE  /\ row \in OptionRun /\ row.done + row.bad <= Cardinality(Events)
         /\ marked \in BOOLEAN /\ (marked \/ Told(rows, row))
<1>1. row \in OptionRun /\ row.done = c.done /\ row.bad = c.bad
  BY DEF Option!RunOf, OptionRun, Tally
<1>2. marked \in BOOLEAN
  BY Zenon
<1>3. marked \/ Told(rows, row)
  BY DEF Told
<1> QED BY <1>1, <1>2, <1>3

\* The events and the run are written as they were counted.
LEMMA CommitKeeps ==
  ASSUME OptionIInv, NEW w \in Option!Workers, NEW j \in OptionJob, Prices(j, optionResult),
         optionJob' = [optionJob EXCEPT ![w] = j], optionResult' = optionResult,
         optionEvent' = Option!Concluded(optionJob[w].change),
         Option!Report(optionJob[w].seen, optionEvent')
  PROVE  OptionIInv'
<1>1. /\ optionJob[w].seen \in Tally
      /\ optionJob[w].seen.done + optionJob[w].seen.bad <= Cardinality(Events)
  BY OptionWorkerIs DEF OptionJob, Prices
<1>2. /\ optionRun' = Option!RunOf(optionJob[w].seen)
      /\ misreported' = (optionJob[w].seen # Option!Counts([e \in Events |-> optionEvent'[e].status]))
  BY DEF Option!Report
<1>3. /\ optionRun' \in OptionRun /\ optionRun'.done + optionRun'.bad <= Cardinality(Events)
      /\ misreported' \in BOOLEAN /\ (misreported' \/ Told(optionEvent', optionRun'))
  BY <1>1, <1>2, ReportTells
<1>4. /\ optionEvent' \in [Events -> OptionRow]
      /\ \A e \in Events : optionEvent'[e].status = "completed"
           => optionEvent[e].status = "completed" \/ optionResult[e] = Buckets
  BY ConcludedIs
<1> QED BY <1>3, <1>4, OptionWorkerIs, OptionStep

\* The transaction commits, whether or not the worker hears of it.
LEMMA CommitsKeep ==
  ASSUME OptionIInv, NEW w \in Option!Workers, Option!Commit(w) \/ Option!CommitErrs(w)
  PROVE  OptionIInv'
<1>1. CASE Option!Commit(w)
  BY <1>1, CommitKeeps, IdleOptionJob DEF Option!Commit
<1>2. CASE Option!CommitErrs(w) /\ UNCHANGED <<optionEvent, optionRun, misreported>>
  BY <1>2, AfterErrorKeeps DEF Option!CommitErrs
<1>3. CASE /\ Option!CommitErrs(w) /\ optionEvent' = Option!Concluded(optionJob[w].change)
           /\ Option!Report(optionJob[w].seen, optionEvent')
  <2>1. optionJob[w].at = "counted" /\ Option!AfterError(w) /\ optionResult' = optionResult
    BY <1>3 DEF Option!CommitErrs
  <2>2. CASE optionJob[w].retrying
    <3>1. optionJob' = [optionJob EXCEPT ![w] = Option!Idle]
      BY <2>1, <2>2 DEF Option!AfterError
    <3> QED BY <1>3, <2>1, <3>1, CommitKeeps, IdleOptionJob
  <2>3. CASE ~optionJob[w].retrying
    <3> DEFINE c == [e \in {optionJob[w].event} |-> Option!Retried(w)]
               j == [optionJob[w] EXCEPT !.at = "close", !.retrying = TRUE, !.change = c]
    <3>1. optionJob' = [optionJob EXCEPT ![w] = j]
      BY <2>1, <2>3, OptionWorkerIs DEF Option!AfterError, Option!ToClose
    <3>2. optionJob[w].event \in Events
      BY <2>1, <2>3, OptionWorkerIs DEF Prices
    <3>3. c \in [{optionJob[w].event} -> EventStatus] /\ \A e \in DOMAIN c : c[e] # "completed"
      BY RetriedIs
    <3>4. c \in UNION {[S -> EventStatus] : S \in SUBSET Events}
      BY <3>2, <3>3, ChangesAre
    <3> HIDE DEF c
    <3>5. /\ j \in OptionJob /\ j.at = "close" /\ j.event = optionJob[w].event /\ j.change = c
          /\ j.seen = optionJob[w].seen
      BY <3>4, OptionWorkerIs DEF OptionJob, OptionPlaces
    <3>6. Prices(j, optionResult)
      BY <3>2, <3>3, <3>5, OptionWorkerIs DEF Prices
    <3> HIDE DEF j
    <3> QED BY <1>3, <2>1, <3>1, <3>5, <3>6, CommitKeeps
  <2> QED BY <2>2, <2>3
<1> QED BY <1>1, <1>2, <1>3 DEF Option!CommitErrs

\* An event is closed by a patch.
LEMMA CloseKeeps ==
  ASSUME OptionIInv, NEW w \in Option!Workers, Option!CloseByPatch(w) PROVE OptionIInv'
<1> DEFINE j == [optionJob[w] EXCEPT !.at = "report"]
<1>1. /\ optionJob[w].at = "close" /\ optionEvent' = Option!Concluded(optionJob[w].change)
      /\ optionJob' = [optionJob EXCEPT ![w].at = "report"] /\ misreported' = TRUE
      /\ UNCHANGED <<optionRun, optionResult>>
  BY DEF Option!CloseByPatch
<1>2. /\ optionJob' = [optionJob EXCEPT ![w] = j] /\ j \in OptionJob /\ j.at = "report"
      /\ j.event = optionJob[w].event /\ j.change = optionJob[w].change /\ j.seen = optionJob[w].seen
  BY <1>1, OptionWorkerIs DEF OptionJob, OptionPlaces
<1>3. Prices(j, optionResult)
  BY <1>1, <1>2, OptionWorkerIs DEF Prices
<1> HIDE DEF j
<1>4. /\ optionEvent' \in [Events -> OptionRow]
      /\ \A e \in Events : optionEvent'[e].status = "completed"
           => optionEvent[e].status = "completed" \/ optionResult[e] = Buckets
  BY <1>1, ConcludedIs
<1> QED BY <1>1, <1>2, <1>3, <1>4, OptionWorkerIs, OptionStep DEF OptionIInv, OptionTyped

\* The statuses are read, to be written later.
LEMMA ReadsKeep ==
  ASSUME OptionIInv, NEW w \in Option!Workers, Option!ReadStatuses(w) PROVE OptionIInv'
<1> DEFINE seen == Option!Counts(Option!Statuses)
           j == [optionJob[w] EXCEPT !.at = "told", !.seen = seen]
<1>1. /\ optionJob[w].at = "report" /\ optionJob' = [optionJob EXCEPT ![w] = j]
      /\ UNCHANGED <<optionEvent, optionRun, optionResult, misreported>>
  BY OptionWorkerIs DEF Option!ReadStatuses
<1>2. Option!Statuses \in [Events -> EventStatus]
  BY StatusesAre, OptionWorkerIs DEF Option!Statuses
<1>3. seen \in Tally /\ seen.done + seen.bad <= Cardinality(Events)
  BY <1>2, CountsAre
<1> HIDE DEF seen
<1>4. /\ j \in OptionJob /\ j.at = "told" /\ j.event = optionJob[w].event
      /\ j.change = optionJob[w].change /\ j.seen = seen
  BY <1>3, OptionWorkerIs DEF OptionJob, OptionPlaces
<1>5. Prices(j, optionResult)
  BY <1>1, <1>3, <1>4, OptionWorkerIs DEF Prices
<1> HIDE DEF j
<1> QED BY <1>1, <1>4, <1>5, OptionWorkerIs, OptionQuiet

\* The run is written as its events were when they were read.
LEMMA WritesRun ==
  ASSUME OptionIInv, NEW w \in Option!Workers, Option!WriteRun(w) PROVE OptionIInv'
<1>1. /\ optionJob' = [optionJob EXCEPT ![w] = Option!Idle]
      /\ Option!Report(optionJob[w].seen, optionEvent) /\ UNCHANGED <<optionEvent, optionResult>>
  BY DEF Option!WriteRun
<1>2. /\ optionJob[w].seen \in Tally
      /\ optionJob[w].seen.done + optionJob[w].seen.bad <= Cardinality(Events)
  BY OptionWorkerIs DEF OptionJob, Prices
<1>3. /\ optionRun' = Option!RunOf(optionJob[w].seen)
      /\ misreported' = (optionJob[w].seen # Option!Counts([e \in Events |-> optionEvent[e].status]))
  BY <1>1 DEF Option!Report
<1>4. /\ optionRun' \in OptionRun /\ optionRun'.done + optionRun'.bad <= Cardinality(Events)
      /\ misreported' \in BOOLEAN /\ (misreported' \/ Told(optionEvent, optionRun'))
  BY <1>2, <1>3, ReportTells
<1> QED BY <1>1, <1>4, IdleOptionJob, OptionWorkerIs, OptionStep

\* The events change in nothing that is counted.
LEMMA OptionRests ==
  ASSUME OptionIInv, optionEvent' \in [Events -> OptionRow],
         UNCHANGED <<optionRun, optionResult, optionJob, misreported>>,
         \A e \in Events : optionEvent'[e].status = optionEvent[e].status
  PROVE  OptionIInv'
<1>1. [e \in Events |-> optionEvent'[e].status] = [e \in Events |-> optionEvent[e].status]
  OBVIOUS
<1>2. Told(optionEvent, optionRun) => Told(optionEvent', optionRun')
  BY <1>1 DEF Told
<1> QED BY <1>2 DEF OptionIInv, OptionTyped

\* An event is given up.
LEMMA OptionStale == ASSUME OptionIInv, NEW e \in Events, Option!GoStale(e) PROVE OptionIInv'
<1> DEFINE r == [optionEvent[e] EXCEPT !.fresh = FALSE]
<1>1. /\ optionEvent' = [optionEvent EXCEPT ![e].fresh = FALSE]
      /\ UNCHANGED <<optionRun, optionResult, optionJob, misreported>>
  BY DEF Option!GoStale
<1>2. optionEvent \in [Events -> OptionRow]
  BY DEF OptionIInv, OptionTyped
<1>3. r \in OptionRow /\ r.status = optionEvent[e].status
      /\ optionEvent' = [optionEvent EXCEPT ![e] = r]
  BY <1>1, <1>2 DEF OptionRow
<1> HIDE DEF r
<1> QED BY <1>1, <1>2, <1>3, OptionRests

\* Every step of the option run keeps its invariant.
LEMMA OptionNext == ASSUME OptionIInv, Option!Next PROVE OptionIInv'
<1>1. ASSUME NEW w \in Option!Workers, Option!Proceed(w) PROVE OptionIInv'
  BY <1>1, PatchKeeps, BucketKeeps, DoneKeeps, TransactionKeeps, CommitsKeep, CloseKeeps,
     ReadsKeep, WritesRun DEF Option!Proceed
<1>2. ASSUME NEW w \in Option!Workers, Option!Loop(w) PROVE OptionIInv'
  BY <1>2, OptionReclaim, OptionClaim DEF Option!Loop
<1>3. ASSUME NEW w \in Option!Workers,
             Option!Fails(w) \/ Option!CommitErrs(w) \/ Option!RequestErrs(w) \/ Option!Crash(w)
      PROVE  OptionIInv'
  BY <1>3, OptionFails, CommitsKeep, OptionCrash
<1> QED BY <1>1, <1>2, <1>3, PickKeeps, OptionStale DEF Option!Next

\* So does a step of another lane.
LEMMA OptionStutters == ASSUME OptionIInv, UNCHANGED option PROVE OptionIInv'
BY OptionRests DEF option, OptionIInv, OptionTyped

(***************************************************************************)
(* The execution run                                                       *)
(***************************************************************************)
MonthParts == {"spot", "contract", "bars"}
Prefixes == {{}, {"spot"}, {"spot", "contract"}, MonthParts}
AtAnalysis == {"trades", "metrics", "results", "settle"}
AtItem == AtAnalysis \cup {"store"}
Advancing == {"read", "write"}
Gathered == {"completed", "missing"}

MonthItem == [status : {"queued", "retry_wait", "running", "absent", "failed"} \cup Gathered,
              attempts : Nat, fresh : BOOLEAN]
MonthJob == [at : AtItem \cup Advancing \cup {"idle"}, item : Execution!Items, attempts : Nat,
             seen : SUBSET (Months \cup MonthParts), verdict : {"none", "failed", "analyse"}]
MonthRun == [status : {"queued", "running", "completed", "completed_with_errors"},
             stage : {"archive_backfill", "archive_backfill_failed", "execution_analysis",
                      "completed"}]

ExecutionTyped ==
  /\ executionItem \in [Execution!Items -> MonthItem] /\ executionRun \in MonthRun
  /\ stored \in [Months -> SUBSET MonthParts] /\ published \subseteq Months
  /\ trades \subseteq Months /\ result \subseteq Months
  /\ executionJob \in [MonthWorkers -> MonthJob]

\* The worker of a month has stored what it has seen; the analysis finds every month
\* whole, and what it rests on stays whole under it.
Sees(j, items, parts, months) ==
  /\ j.at = "store" => j.item \in Months /\ j.seen \in Prefixes /\ j.seen \subseteq parts[j.item]
  /\ j.at \in AtAnalysis => j.item = "analysis"
  /\ j.at # "idle" => items[j.item].status # "absent"
  /\ j.at = "metrics" => months = Months
  /\ j.at = "results" => j.seen = Months
  /\ j.at = "write" => j.verdict # "none"

Asking(j) == j.at = "write" /\ j.verdict = "analyse"

FailedMonth(items) == \E m \in Months : items[m].status = "failed"

\* While no item was reclaimed under its worker: one worker to an item, whose status is
\* the one that the worker gave it.
InHand(j, items) ==
  /\ j.at \in AtItem => items[j.item].status = "running"
  /\ j.at \in Advancing => items[j.item].status \in Gathered
  /\ j.at = "write" /\ j.verdict = "failed" => FailedMonth(items)

Orderly ==
  /\ \A w \in MonthWorkers : InHand(executionJob[w], executionItem)
  /\ \A v, w \in MonthWorkers :
       executionJob[v].at # "idle" /\ executionJob[w].at # "idle" /\ v # w
         => executionJob[v].item # executionJob[w].item
  /\ executionRun.status = "completed_with_errors" => FailedMonth(executionItem)

Grounded ==
  /\ \A m \in Months : /\ executionItem[m].status # "absent"
                       /\ executionItem[m].status \in Gathered => Execution!Whole(m)
  /\ \A w \in MonthWorkers : Sees(executionJob[w], executionItem, stored, trades)
  /\ executionRun.status = "completed" => result = Months
  /\ \/ executionItem["analysis"].status # "absent"
     \/ (\E w \in MonthWorkers : Asking(executionJob[w]))
     => \A m \in Months : Execution!Whole(m)

\* The inductive invariant.
ExecutionIInv == ExecutionTyped /\ Grounded /\ (executionLapsed \/ Orderly)

\* The invariant's typing is the type invariant.
LEMMA ExecutionTypes == ASSUME ExecutionTyped PROVE Execution!TypeOK
BY DEF ExecutionTyped, Execution!TypeOK, MonthItem, MonthRun, MonthParts, Gathered,
   Execution!Active, Execution!Waiting, Execution!Open

\* The invariant says that a completed run has all its results.
LEMMA ExecutionResult == ASSUME ExecutionIInv PROVE Execution!ResultComplete
BY DEF ExecutionIInv, Grounded, Orderly, FailedMonth, Execution!ResultComplete

\* A worker that is idle is a worker.
LEMMA IdleMonthJob == Execution!Idle \in MonthJob /\ Execution!Idle.at = "idle"
BY DEF Execution!Idle, MonthJob, Execution!Items

\* The invariant of the execution run holds at the start.
LEMMA ExecutionInit == ASSUME Execution!Init PROVE ExecutionIInv
<1>1. ExecutionTyped
  <2>1. executionItem \in [Execution!Items -> MonthItem]
    BY DEF Execution!Init, MonthItem, Execution!Queued, Execution!Absent
  <2>2. executionJob \in [MonthWorkers -> MonthJob]
    BY IdleMonthJob DEF Execution!Init
  <2> QED BY <2>1, <2>2 DEF Execution!Init, ExecutionTyped, MonthRun
<1>2. /\ \A m \in Months : executionItem[m].status = "queued"
      /\ executionItem["analysis"].status = "absent"
      /\ \A w \in MonthWorkers : executionJob[w].at = "idle"
      /\ executionRun.status = "queued"
  BY IdleMonthJob, LaneBounds DEF Execution!Init, Execution!Items, Execution!Queued, Execution!Absent
<1>3. Grounded
  BY <1>2 DEF Grounded, Sees, Asking, AtAnalysis, Gathered
<1>4. Orderly
  BY <1>2 DEF Orderly, InHand, AtItem, AtAnalysis, Advancing
<1> QED BY <1>1, <1>3, <1>4 DEF ExecutionIInv

\* What is stored stays stored, and a whole month whole.
LEMMA StaysWhole ==
  ASSUME published' = published, NEW m \in Months, stored[m] \subseteq stored'[m],
         Execution!Whole(m)
  PROVE  Execution!Whole(m)'
BY DEF Execution!Whole, Execution!Parts

\* A step of one worker w that writes at most its own item, or queues the analysis.
Alone(w) ==
  /\ executionJob' \in [MonthWorkers -> MonthJob]
  /\ \A v \in MonthWorkers \ {w} : executionJob'[v] = executionJob[v]
  /\ \A i \in Execution!Items \ {executionJob[w].item} :
       \/ executionItem'[i] = executionItem[i]
       \/ i = "analysis" /\ executionItem[i].status = "absent" /\ executionItem'[i].status = "queued"
  /\ executionItem' \in [Execution!Items -> MonthItem]
  /\ executionJob[w].at # "idle"
  /\ executionJob'[w].at = "idle" \/ executionJob'[w].item = executionJob[w].item

\* A worker that changes nothing but its own item leaves one worker to an item.
LEMMA AloneOrderly ==
  ASSUME ExecutionTyped, Orderly, NEW w \in MonthWorkers, Alone(w),
         InHand(executionJob'[w], executionItem'),
         executionRun'.status = "completed_with_errors"
           => executionRun.status = "completed_with_errors" \/ FailedMonth(executionItem)
  PROVE  Orderly'
<1>1. \A v \in MonthWorkers : executionJob[v].item \in Execution!Items
  BY DEF ExecutionTyped, MonthJob
<1>2. executionItem[executionJob[w].item].status # "failed"
  <2>1. executionJob[w].at \in AtItem \cup Advancing
    BY DEF ExecutionTyped, MonthJob, Alone
  <2> QED BY <2>1 DEF Orderly, InHand, Gathered
<1>3. FailedMonth(executionItem) => FailedMonth(executionItem')
  BY <1>2, LaneBounds DEF FailedMonth, Alone, Execution!Items
<1>4. ASSUME NEW v \in MonthWorkers PROVE InHand(executionJob'[v], executionItem')
  <2>1. CASE v = w
    BY <2>1
  <2>2. CASE v # w /\ executionJob[v].at # "idle"
    <3>1. executionJob'[v] = executionJob[v] /\ InHand(executionJob[v], executionItem)
      BY <2>2 DEF Alone, Orderly
    <3>2. executionItem'[executionJob[v].item] = executionItem[executionJob[v].item]
      <4>1. executionJob[v].item # executionJob[w].item
        BY <2>2 DEF Alone, Orderly
      <4>2. executionJob[v].at \in AtItem \cup Advancing
        BY <2>2 DEF ExecutionTyped, MonthJob
      <4>3. executionItem[executionJob[v].item].status # "absent"
        BY <3>1, <4>2 DEF InHand, Gathered
      <4> QED BY <1>1, <4>1, <4>3 DEF Alone
    <3> QED BY <1>3, <3>1, <3>2 DEF InHand
  <2>3. CASE v # w /\ executionJob[v].at = "idle"
    <3>1. executionJob'[v].at = "idle"
      BY <2>3 DEF Alone
    <3> QED BY <3>1 DEF InHand, AtItem, AtAnalysis, Advancing
  <2> QED BY <2>1, <2>2, <2>3
<1>5. ASSUME NEW u \in MonthWorkers, NEW v \in MonthWorkers, executionJob'[u].at # "idle",
             executionJob'[v].at # "idle", u # v
      PROVE  executionJob'[u].item # executionJob'[v].item
  BY <1>5 DEF Alone, Orderly
<1> QED BY <1>3, <1>4, <1>5 DEF Orderly

\* What it writes is grounded when what it stores is.
LEMMA AloneGrounded ==
  ASSUME ExecutionTyped, Grounded, NEW w \in MonthWorkers, Alone(w), published' = published,
         \A m \in Months : stored[m] \subseteq stored'[m],
         trades' = trades \/ trades' = Months,
         Sees(executionJob'[w], executionItem', stored', trades'),
         NEW i \in Execution!Items, i = executionJob[w].item, executionItem'[i].status # "absent",
         i \in Months /\ executionItem'[i].status \in Gathered => Execution!Whole(i)',
         Asking(executionJob'[w]) \/ executionItem'["analysis"].status # "absent"
           => \A m \in Months : Execution!Whole(m),
         executionRun'.status = "completed" => result' = Months
  PROVE  Grounded'
<1>1. \A m \in Months : Execution!Whole(m) => Execution!Whole(m)'
  BY StaysWhole
<1>2. "analysis" \in Execution!Items /\ \A m \in Months : m \in Execution!Items /\ m # "analysis"
  BY LaneBounds DEF Execution!Items
<1>3. ASSUME NEW m \in Months
      PROVE  /\ executionItem'[m].status # "absent"
             /\ executionItem'[m].status \in Gathered => Execution!Whole(m)'
  <2>1. CASE m = executionJob[w].item
    BY <2>1
  <2>2. CASE m # executionJob[w].item
    BY <1>1, <1>2, <2>2 DEF Alone, Grounded
  <2> QED BY <2>1, <2>2
<1>4. executionItem["analysis"].status # "absent" => executionItem'["analysis"].status # "absent"
  BY <1>2 DEF Alone
<1>5. ASSUME NEW v \in MonthWorkers
      PROVE  Sees(executionJob'[v], executionItem', stored', trades')
  <2>1. CASE v = w
    BY <2>1
  <2>2. CASE v # w
    <3>1. executionJob'[v] = executionJob[v] /\ Sees(executionJob[v], executionItem, stored, trades)
      BY <2>2 DEF Alone, Grounded
    <3>2. executionJob[v].at # "idle" => executionItem'[executionJob[v].item].status # "absent"
      BY <3>1 DEF Alone, Sees, ExecutionTyped, MonthJob
    <3> QED BY <3>1, <3>2 DEF Sees
  <2> QED BY <2>1, <2>2
<1>6. \/ executionItem'["analysis"].status # "absent"
      \/ (\E v \in MonthWorkers : Asking(executionJob'[v]))
      => \A m \in Months : Execution!Whole(m)'
  <2>1. ASSUME NEW v \in MonthWorkers, Asking(executionJob'[v]), v # w
        PROVE  \A m \in Months : Execution!Whole(m)
    BY <2>1 DEF Alone, Grounded
  <2> QED BY <1>1, <2>1
<1> QED BY <1>3, <1>5, <1>6 DEF Grounded

\* What a worker that is not idle knows of itself.
LEMMA MonthWorkerIs ==
  ASSUME ExecutionIInv, NEW w \in MonthWorkers
  PROVE  /\ executionJob[w] \in MonthJob /\ executionJob[w].item \in Execution!Items
         /\ executionItem[executionJob[w].item] \in MonthItem
         /\ Sees(executionJob[w], executionItem, stored, trades)
         /\ executionLapsed \/ InHand(executionJob[w], executionItem)
         /\ executionJob \in [MonthWorkers -> MonthJob]
         /\ executionItem \in [Execution!Items -> MonthItem]
         /\ \A m \in Months : m \in Execution!Items /\ m # "analysis"
BY LaneBounds DEF ExecutionIInv, ExecutionTyped, Grounded, Orderly, MonthJob, Execution!Items

\* The parts of a month, counted.
LEMMA PrefixCount ==
  /\ \A S : Execution!Cardinality(S) = Cardinality(S)
  /\ Cardinality({}) = 0 /\ Cardinality({"spot"}) = 1 /\ Cardinality({"spot", "contract"}) = 2
  /\ Cardinality(MonthParts) = 3
<1>1. \A S : Execution!Cardinality(S) = Cardinality(S)
  BY Zenon DEF Execution!Cardinality, Cardinality
<1>2. Cardinality({"spot"}) = 1 /\ IsFiniteSet({"spot"})
  BY FS_Singleton
<1>3. {"spot", "contract"} = {"spot"} \cup {"contract"} /\ "contract" \notin {"spot"}
  OBVIOUS
<1>4. Cardinality({"spot", "contract"}) = 2 /\ IsFiniteSet({"spot", "contract"})
  BY <1>2, <1>3, FS_AddElement
<1>5. MonthParts = {"spot", "contract"} \cup {"bars"} /\ "bars" \notin {"spot", "contract"}
  BY DEF MonthParts
<1>6. Cardinality(MonthParts) = 3
  BY <1>4, <1>5, FS_AddElement
<1> QED BY <1>1, <1>2, <1>4, <1>6, FS_EmptySet

\* An item is claimed.
LEMMA ClaimMonth ==
  ASSUME ExecutionIInv, NEW w \in MonthWorkers, NEW i \in Execution!Items, Execution!Claim(w, i)
  PROVE  ExecutionIInv'
<1> DEFINE j == [Execution!Idle EXCEPT !.at = IF i = "analysis" THEN "trades" ELSE "store",
                                       !.item = i, !.attempts = executionItem[i].attempts + 1]
<1>1. /\ executionJob[w].at = "idle" /\ executionItem[i].status \in {"queued", "retry_wait"}
      /\ executionRun.status \in {"queued", "running"}
      /\ executionItem' = [executionItem EXCEPT ![i] =
           [status |-> "running", attempts |-> executionItem[i].attempts + 1, fresh |-> TRUE]]
      /\ executionRun' = [executionRun EXCEPT !.status = "running"]
      /\ executionJob' = [executionJob EXCEPT ![w] = j]
      /\ UNCHANGED <<stored, published, trades, result, executionLapsed>>
  BY DEF Execution!Claim, Execution!At, Execution!Waiting, Execution!Open
<1>2. /\ executionJob \in [MonthWorkers -> MonthJob]
      /\ executionItem \in [Execution!Items -> MonthItem]
      /\ executionItem[i] \in MonthItem
      /\ \A m \in Months : m \in Execution!Items /\ m # "analysis"
  BY MonthWorkerIs DEF Execution!Items
<1>3. j \in MonthJob /\ j.item = i /\ j.seen = {}
      /\ \/ j.at = "store" /\ i \in Months
         \/ j.at = "trades" /\ i = "analysis"
  <2>1. executionItem[i].attempts + 1 \in Nat
    BY <1>2 DEF MonthItem
  <2> QED BY <2>1, IdleMonthJob DEF Execution!Idle, MonthJob, AtItem, AtAnalysis, Execution!Items
<1> HIDE DEF j
<1>4. /\ executionJob' \in [MonthWorkers -> MonthJob] /\ executionJob'[w] = j
      /\ \A v \in MonthWorkers \ {w} : executionJob'[v] = executionJob[v]
  BY <1>1, <1>2, <1>3
<1>5. /\ executionItem' \in [Execution!Items -> MonthItem] /\ executionItem'[i].status = "running"
      /\ \A k \in Execution!Items \ {i} : executionItem'[k] = executionItem[k]
  <2>1. [status |-> "running", attempts |-> executionItem[i].attempts + 1, fresh |-> TRUE] \in MonthItem
    BY <1>2 DEF MonthItem
  <2> QED BY <1>1, <1>2, <2>1
<1>6. ExecutionTyped'
  <2>1. executionRun' \in MonthRun
    BY <1>1 DEF ExecutionIInv, ExecutionTyped, MonthRun
  <2> QED BY <1>1, <1>4, <1>5, <2>1 DEF ExecutionIInv, ExecutionTyped
<1>7. executionRun'.status = "running"
  BY <1>1 DEF ExecutionIInv, ExecutionTyped, MonthRun
<1>8. Grounded'
  <2>1. \A m \in Months : Execution!Whole(m)' <=> Execution!Whole(m)
    BY <1>1 DEF Execution!Whole, Execution!Parts
  <2>2. executionItem["analysis"].status # "absent" <=> executionItem'["analysis"].status # "absent"
    BY <1>1, <1>5 DEF Execution!Items
  <2>3. ASSUME NEW v \in MonthWorkers PROVE Sees(executionJob'[v], executionItem', stored', trades')
    <3>1. CASE v = w
      <4> QED BY <1>3, <1>4, <1>5, <3>1 DEF Sees, Prefixes, AtAnalysis
    <3>2. CASE v # w
      <4>1. executionJob'[v] = executionJob[v]
            /\ Sees(executionJob[v], executionItem, stored, trades)
        BY <1>4, <3>2 DEF ExecutionIInv, Grounded
      <4>2. executionJob[v].at # "idle" => executionItem'[executionJob[v].item].status # "absent"
        BY <1>2, <1>5, <4>1 DEF Sees, MonthJob
      <4> QED BY <1>1, <4>1, <4>2 DEF Sees
    <3> QED BY <3>1, <3>2
  <2>4. \A v \in MonthWorkers : Asking(executionJob'[v]) => Asking(executionJob[v])
    BY <1>3, <1>4 DEF Asking
  <2>5. \A m \in Months : /\ executionItem'[m].status # "absent"
                          /\ executionItem'[m].status \in Gathered => Execution!Whole(m)
    BY <1>2, <1>5 DEF ExecutionIInv, Grounded, Gathered
  <2> QED BY <1>7, <2>1, <2>2, <2>3, <2>4, <2>5 DEF ExecutionIInv, Grounded
<1>9. ASSUME ~executionLapsed PROVE Orderly'
  <2>1. Orderly
    BY <1>9 DEF ExecutionIInv
  <2>2. \A v \in MonthWorkers : executionJob[v].at # "idle" => executionJob[v].item # i
    <3>1. ASSUME NEW v \in MonthWorkers, executionJob[v].at # "idle"
          PROVE  executionItem[executionJob[v].item].status \in Gathered \cup {"running"}
      <4>1. executionJob[v].at \in AtItem \cup Advancing
        BY <1>2, <3>1 DEF MonthJob
      <4> QED BY <2>1, <4>1 DEF Orderly, InHand
    <3> QED BY <1>1, <3>1 DEF Gathered
  <2>3. FailedMonth(executionItem) => FailedMonth(executionItem')
    BY <1>1, <1>2, <1>5 DEF FailedMonth
  <2>4. ASSUME NEW v \in MonthWorkers PROVE InHand(executionJob'[v], executionItem')
    <3>1. CASE v = w
      BY <1>3, <1>4, <1>5, <3>1 DEF InHand, Advancing
    <3>2. CASE v # w /\ executionJob[v].at # "idle"
      <4>1. executionJob[v].item \in Execution!Items \ {i}
        BY <1>2, <2>2, <3>2 DEF MonthJob
      <4>2. executionItem'[executionJob[v].item] = executionItem[executionJob[v].item]
        BY <1>5, <4>1
      <4> QED BY <1>4, <2>1, <2>3, <3>2, <4>2 DEF InHand, Orderly
    <3>3. CASE v # w /\ executionJob[v].at = "idle"
      BY <1>4, <3>3 DEF InHand, AtItem, AtAnalysis, Advancing
    <3> QED BY <3>1, <3>2, <3>3
  <2> QED BY <1>3, <1>4, <1>7, <2>1, <2>2, <2>4 DEF Orderly
<1> QED BY <1>1, <1>6, <1>8, <1>9 DEF ExecutionIInv

\* The two lemmas together.
LEMMA AloneKeeps ==
  ASSUME ExecutionIInv, NEW w \in MonthWorkers, Alone(w), executionRun' \in MonthRun,
         published' = published, stored' \in [Months -> SUBSET MonthParts],
         \A m \in Months : stored[m] \subseteq stored'[m],
         trades' = trades \/ trades' = Months, result' \subseteq Months,
         executionLapsed' = executionLapsed,
         Sees(executionJob'[w], executionItem', stored', trades'),
         NEW i \in Execution!Items, i = executionJob[w].item, executionItem'[i].status # "absent",
         i \in Months /\ executionItem'[i].status \in Gathered => Execution!Whole(i)',
         Asking(executionJob'[w]) \/ executionItem'["analysis"].status # "absent"
           => \A m \in Months : Execution!Whole(m),
         executionRun'.status = "completed" => result' = Months,
         ~executionLapsed => /\ InHand(executionJob'[w], executionItem')
                             /\ executionRun'.status = "completed_with_errors"
                                  => \/ executionRun.status = "completed_with_errors"
                                     \/ FailedMonth(executionItem)
  PROVE  ExecutionIInv'
<1>1. ExecutionTyped'
  BY DEF ExecutionIInv, ExecutionTyped, Alone
<1>2. Grounded'
  BY AloneGrounded DEF ExecutionIInv
<1>3. executionLapsed' \/ Orderly'
  BY AloneOrderly DEF ExecutionIInv
<1> QED BY <1>1, <1>2, <1>3 DEF ExecutionIInv

\* A worker that only moves on, with its item as it is.
LEMMA MovesOn ==
  ASSUME ExecutionIInv, NEW w \in MonthWorkers, executionJob[w].at # "idle", NEW j \in MonthJob,
         executionJob' = [executionJob EXCEPT ![w] = j],
         j.at = "idle" \/ j.item = executionJob[w].item,
         UNCHANGED <<executionItem, executionRun, published, result, executionLapsed>>,
         stored' \in [Months -> SUBSET MonthParts],
         \A m \in Months : stored[m] \subseteq stored'[m],
         trades' = trades \/ trades' = Months,
         Sees(j, executionItem, stored', trades'),
         Asking(j) => \A m \in Months : Execution!Whole(m),
         ~executionLapsed => InHand(j, executionItem)
  PROVE  ExecutionIInv'
<1>1. /\ executionJob[w].item \in Execution!Items
      /\ executionJob \in [MonthWorkers -> MonthJob]
      /\ executionItem \in [Execution!Items -> MonthItem]
      /\ Sees(executionJob[w], executionItem, stored, trades)
      /\ \A m \in Months : m \in Execution!Items /\ m # "analysis"
      /\ executionJob[w] \in MonthJob
  BY MonthWorkerIs
<1>2. executionJob'[w] = j /\ Alone(w)
  BY <1>1 DEF Alone
<1>3. PICK i \in Execution!Items : i = executionJob[w].item
  BY <1>1
<1>4. executionItem["analysis"].status # "absent" => \A m \in Months : Execution!Whole(m)
  BY DEF ExecutionIInv, Grounded
<1>5. i \in Months /\ executionItem[i].status \in Gathered => Execution!Whole(i)'
  BY StaysWhole DEF ExecutionIInv, Grounded
<1>6. executionItem[i].status # "absent"
  BY <1>1, <1>3 DEF Sees
<1> QED BY <1>2, <1>3, <1>4, <1>5, <1>6, AloneKeeps
        DEF ExecutionIInv, ExecutionTyped, Grounded, Orderly

\* A part of a month is stored.
LEMMA StoreKeeps == ASSUME ExecutionIInv, NEW w \in MonthWorkers, Execution!Store(w) PROVE ExecutionIInv'
<1> DEFINE m == executionJob[w].item
           k == Cardinality(executionJob[w].seen) + 1
           seen == executionJob[w].seen \cup {Execution!Parts(m)[k]}
<1>1. /\ executionJob[w].at = "store" /\ k \in DOMAIN Execution!Parts(m)
      /\ stored' = [stored EXCEPT ![m] = stored[m] \cup {Execution!Parts(m)[k]}]
      /\ executionJob' = [executionJob EXCEPT ![w].seen = seen]
      /\ UNCHANGED <<executionItem, executionRun, published, trades, result, executionLapsed>>
  BY PrefixCount DEF Execution!Store, Execution!At
<1>2. /\ executionJob[w] \in MonthJob /\ executionJob \in [MonthWorkers -> MonthJob]
      /\ m \in Months /\ executionJob[w].seen \in Prefixes
      /\ executionJob[w].seen \subseteq stored[m]
      /\ executionItem[m].status # "absent"
      /\ executionLapsed \/ InHand(executionJob[w], executionItem)
      /\ stored \in [Months -> SUBSET MonthParts]
  BY <1>1, MonthWorkerIs DEF Sees, ExecutionIInv, ExecutionTyped
<1>3. /\ DOMAIN Execution!Parts(m) = 1..2 \/ DOMAIN Execution!Parts(m) = 1..3
      /\ Execution!Parts(m)[1] = "spot" /\ Execution!Parts(m)[2] = "contract"
      /\ 3 \in DOMAIN Execution!Parts(m) => Execution!Parts(m)[3] = "bars"
  BY DEF Execution!Parts
<1>4. seen \in Prefixes /\ Execution!Parts(m)[k] \in MonthParts
  <2>1. CASE executionJob[w].seen = {}
    BY <1>3, <2>1, PrefixCount DEF Prefixes, MonthParts
  <2>2. CASE executionJob[w].seen = {"spot"}
    BY <1>3, <2>2, PrefixCount DEF Prefixes, MonthParts
  <2>3. CASE executionJob[w].seen = {"spot", "contract"}
    BY <1>1, <1>3, <2>3, PrefixCount DEF Prefixes, MonthParts
  <2>4. CASE executionJob[w].seen = MonthParts
    BY <1>1, <1>3, <2>4, PrefixCount DEF Prefixes, MonthParts
  <2> QED BY <1>2, <2>1, <2>2, <2>3, <2>4 DEF Prefixes
<1>5. /\ stored' \in [Months -> SUBSET MonthParts] /\ seen \subseteq stored'[m]
      /\ \A n \in Months : stored[n] \subseteq stored'[n]
  BY <1>1, <1>2, <1>4
<1> HIDE DEF seen, m, k
<1> DEFINE j == [executionJob[w] EXCEPT !.seen = seen]
<1>6. j \in MonthJob /\ j.at = "store" /\ j.item = m /\ j.seen = seen
      /\ executionJob[w].item = m
  <2>1. seen \in SUBSET (Months \cup MonthParts)
    BY <1>4 DEF Prefixes, MonthParts
  <2> QED BY <1>1, <1>2, <2>1 DEF MonthJob, m
<1>7. executionJob' = [executionJob EXCEPT ![w] = j]
  BY <1>1, <1>2
<1> HIDE DEF j
<1>8. Sees(j, executionItem, stored', trades')
  BY <1>2, <1>4, <1>5, <1>6 DEF Sees, AtAnalysis
<1>9. ~executionLapsed => InHand(j, executionItem)
  BY <1>1, <1>2, <1>6 DEF InHand, AtItem, Advancing
<1>10. ~Asking(j)
  BY <1>6 DEF Asking
<1> QED BY <1>1, <1>5, <1>6, <1>7, <1>8, <1>9, <1>10, MovesOn

\* The analysis begins when every month is whole.
LEMMA AnalysisFindsAll ==
  ASSUME ExecutionIInv, NEW w \in MonthWorkers, executionJob[w].at \in AtAnalysis
  PROVE  /\ \A m \in Months : Execution!Whole(m)
         /\ executionJob[w].item = "analysis"
         /\ executionJob[w].at = "metrics" => trades = Months
         /\ executionJob[w].at = "results" => executionJob[w].seen = Months
BY MonthWorkerIs DEF Sees, ExecutionIInv, Grounded, AtAnalysis

\* It writes the trades of all months.
LEMMA TradesKeeps ==
  ASSUME ExecutionIInv, NEW w \in MonthWorkers, Execution!Trades(w) PROVE ExecutionIInv'
<1> DEFINE j == [executionJob[w] EXCEPT !.at = "metrics"]
<1>1. /\ executionJob[w].at = "trades" /\ trades' = {m \in Months : Execution!Whole(m)}
      /\ executionJob' = [executionJob EXCEPT ![w].at = "metrics"]
      /\ UNCHANGED <<executionItem, executionRun, stored, published, result, executionLapsed>>
  BY DEF Execution!Trades, Execution!At, Execution!GoTo
<1>2. trades' = Months
  BY <1>1, AnalysisFindsAll DEF AtAnalysis
<1>3. j \in MonthJob /\ j.at = "metrics" /\ j.item = executionJob[w].item
      /\ executionJob' = [executionJob EXCEPT ![w] = j]
  BY <1>1, MonthWorkerIs DEF MonthJob, AtItem, AtAnalysis
<1> HIDE DEF j
<1>4. Sees(j, executionItem, stored, trades') /\ ~Asking(j)
  BY <1>1, <1>2, <1>3, MonthWorkerIs DEF Sees, Asking, AtAnalysis
<1>5. ~executionLapsed => InHand(j, executionItem)
  BY <1>1, <1>3, MonthWorkerIs DEF InHand, AtItem, AtAnalysis, Advancing
<1>6. stored \in [Months -> SUBSET MonthParts]
  BY DEF ExecutionIInv, ExecutionTyped
<1> QED BY <1>1, <1>2, <1>3, <1>4, <1>5, <1>6, MovesOn

\* It reads them back.
LEMMA MetricsKeeps ==
  ASSUME ExecutionIInv, NEW w \in MonthWorkers, Execution!Metrics(w) PROVE ExecutionIInv'
<1> DEFINE j == [executionJob[w] EXCEPT !.at = "results", !.seen = trades]
<1>1. /\ executionJob[w].at = "metrics" /\ executionJob' = [executionJob EXCEPT ![w] = j]
      /\ UNCHANGED <<executionItem, executionRun, stored, published, trades, result, executionLapsed>>
  BY DEF Execution!Metrics, Execution!At
<1>2. trades = Months
  BY <1>1, AnalysisFindsAll DEF AtAnalysis
<1>3. j \in MonthJob /\ j.at = "results" /\ j.item = executionJob[w].item /\ j.seen = Months
  BY <1>1, <1>2, MonthWorkerIs DEF MonthJob, AtItem, AtAnalysis
<1> HIDE DEF j
<1>4. Sees(j, executionItem, stored, trades) /\ ~Asking(j)
  BY <1>1, <1>3, MonthWorkerIs DEF Sees, Asking, AtAnalysis
<1>5. ~executionLapsed => InHand(j, executionItem)
  BY <1>1, <1>3, MonthWorkerIs DEF InHand, AtItem, AtAnalysis, Advancing
<1>6. stored \in [Months -> SUBSET MonthParts]
  BY DEF ExecutionIInv, ExecutionTyped
<1> QED BY <1>1, <1>3, <1>4, <1>5, <1>6, MovesOn

\* The verdict is "failed" only over a failed month, and "analyse" only over whole ones.
LEMMA VerdictIs ==
  ASSUME ExecutionIInv
  PROVE  /\ Execution!Verdict \in {"none", "failed", "analyse"}
         /\ Execution!Verdict = "failed" => FailedMonth(executionItem)
         /\ Execution!Verdict = "analyse" => \A m \in Months : Execution!Whole(m)
<1>1. ASSUME Execution!Verdict = "analyse" PROVE \A m \in Months : Execution!Whole(m)
  <2>1. \A m \in Months : executionItem[m].status \notin Execution!Active \cup {"failed"}
    BY <1>1 DEF Execution!Verdict
  <2>2. \A m \in Months : executionItem[m].status \in Gathered
    BY <2>1, MonthWorkerIs DEF Execution!Active, Execution!Waiting, MonthItem, ExecutionIInv,
       ExecutionTyped, Grounded, Execution!Items
  <2> QED BY <2>2 DEF ExecutionIInv, Grounded
<1> QED BY <1>1 DEF Execution!Verdict, FailedMonth

\* A worker reads the statuses of the items.
LEMMA ReadKeeps ==
  ASSUME ExecutionIInv, NEW w \in MonthWorkers, Execution!AdvanceRead(w) PROVE ExecutionIInv'
<1> DEFINE j == IF Execution!Verdict = "none" THEN Execution!Idle
                ELSE [executionJob[w] EXCEPT !.at = "write", !.verdict = Execution!Verdict]
<1>1. /\ executionJob[w].at = "read" /\ executionJob' = [executionJob EXCEPT ![w] = j]
      /\ UNCHANGED <<executionItem, executionRun, stored, published, trades, result, executionLapsed>>
  BY DEF Execution!AdvanceRead, Execution!At
<1>2. /\ j \in MonthJob
      /\ \/ j.at = "idle"
         \/ /\ j.at = "write" /\ j.item = executionJob[w].item
            /\ j.verdict = Execution!Verdict /\ j.verdict # "none"
  <2>1. [executionJob[w] EXCEPT !.at = "write", !.verdict = Execution!Verdict] \in MonthJob
    BY VerdictIs, MonthWorkerIs DEF MonthJob, Advancing
  <2>2. LET r == [executionJob[w] EXCEPT !.at = "write", !.verdict = Execution!Verdict] IN
        r.at = "write" /\ r.item = executionJob[w].item /\ r.verdict = Execution!Verdict
    BY MonthWorkerIs DEF MonthJob
  <2> QED BY <2>1, <2>2, IdleMonthJob
<1> HIDE DEF j
<1>3. Sees(j, executionItem, stored, trades)
  BY <1>1, <1>2, MonthWorkerIs DEF Sees, AtAnalysis
<1>4. Asking(j) => \A m \in Months : Execution!Whole(m)
  BY <1>2, VerdictIs DEF Asking
<1>5. ~executionLapsed => InHand(j, executionItem)
  BY <1>1, <1>2, VerdictIs, MonthWorkerIs DEF InHand, AtItem, AtAnalysis, Advancing
<1>6. stored \in [Months -> SUBSET MonthParts]
  BY DEF ExecutionIInv, ExecutionTyped
<1> QED BY <1>1, <1>2, <1>3, <1>4, <1>5, <1>6, MovesOn

\* A worker dies.
LEMMA CrashMonth ==
  ASSUME ExecutionIInv, NEW w \in MonthWorkers, Execution!Crash(w) PROVE ExecutionIInv'
<1>1. /\ executionJob[w].at # "idle"
      /\ executionJob' = [executionJob EXCEPT ![w] = Execution!Idle]
      /\ UNCHANGED <<executionItem, executionRun, stored, published, trades, result, executionLapsed>>
  BY DEF Execution!Crash, Execution!At
<1>2. /\ Sees(Execution!Idle, executionItem, stored, trades)
      /\ InHand(Execution!Idle, executionItem) /\ ~Asking(Execution!Idle)
  BY IdleMonthJob DEF Sees, InHand, Asking, AtItem, AtAnalysis, Advancing
<1>3. stored \in [Months -> SUBSET MonthParts]
  BY DEF ExecutionIInv, ExecutionTyped
<1> QED BY <1>1, <1>2, <1>3, IdleMonthJob, MovesOn

\* What writing the status of one item does.
LEMMA WrittenIs ==
  ASSUME ExecutionTyped, NEW i \in Execution!Items,
         NEW status \in {"retry_wait", "failed"} \cup Gathered
  PROVE  /\ Execution!Written(i, status) \in [Execution!Items -> MonthItem]
         /\ Execution!Written(i, status)[i].status = status
         /\ \A k \in Execution!Items \ {i} : Execution!Written(i, status)[k] = executionItem[k]
<1> DEFINE r == [executionItem[i] EXCEPT !.status = status, !.fresh = FALSE]
<1>1. executionItem \in [Execution!Items -> MonthItem] /\ executionItem[i] \in MonthItem
  BY DEF ExecutionTyped
<1>2. r \in MonthItem /\ r.status = status
  BY <1>1 DEF MonthItem
<1>3. Execution!Written(i, status) = [executionItem EXCEPT ![i] = r]
  BY DEF Execution!Written
<1> HIDE DEF r
<1> QED BY <1>1, <1>2, <1>3

\* All the parts of the month that a worker completes are stored.
LEMMA SettleKeeps ==
  ASSUME ExecutionIInv, NEW w \in MonthWorkers, Execution!Settle(w) PROVE ExecutionIInv'
<1>1. PICK i \in Execution!Items : i = executionJob[w].item
  BY MonthWorkerIs
<1>2. PICK status \in Gathered : executionItem' = Execution!Written(i, status)
  BY <1>1 DEF Execution!Settle, Gathered
<1> DEFINE j == [executionJob[w] EXCEPT !.at = "read"]
<1>3. /\ \/ executionJob[w].at = "store"
            /\ Cardinality(executionJob[w].seen) = Len(Execution!Parts(i))
         \/ executionJob[w].at = "settle"
      /\ executionJob' = [executionJob EXCEPT ![w].at = "read"]
      /\ UNCHANGED <<executionRun, stored, published, trades, result, executionLapsed>>
  BY <1>1, PrefixCount DEF Execution!Settle, Execution!At, Execution!GoTo
<1>4. /\ executionItem' \in [Execution!Items -> MonthItem] /\ executionItem'[i].status = status
      /\ \A k \in Execution!Items \ {i} : executionItem'[k] = executionItem[k]
  BY <1>2, WrittenIs DEF ExecutionIInv
<1>5. /\ executionJob \in [MonthWorkers -> MonthJob] /\ executionJob[w] \in MonthJob
      /\ executionItem[i].status # "absent"
      /\ executionJob[w].at = "store" => /\ i \in Months /\ executionJob[w].seen \in Prefixes
                                         /\ executionJob[w].seen \subseteq stored[i]
      /\ executionJob[w].at = "settle" => i = "analysis"
  BY <1>1, <1>3, MonthWorkerIs DEF Sees, AtAnalysis
<1>6. j \in MonthJob /\ j.at = "read" /\ j.item = i /\ executionJob' = [executionJob EXCEPT ![w] = j]
  BY <1>1, <1>3, <1>5 DEF MonthJob, Advancing
<1> HIDE DEF j
<1>7. executionJob'[w] = j /\ Alone(w)
  BY <1>1, <1>3, <1>4, <1>5, <1>6 DEF Alone
<1>8. i \in Months => Execution!Whole(i)
  <2>1. SUFFICES ASSUME i \in Months PROVE Execution!Whole(i)
    OBVIOUS
  <2>2. executionJob[w].at = "store" /\ Cardinality(executionJob[w].seen) = Len(Execution!Parts(i))
    BY <1>3, <1>5, <2>1, LaneBounds
  <2>3. CASE i \in published
    <3>1. Execution!Parts(i) = <<"spot", "contract", "bars">>
      BY <2>3 DEF Execution!Parts
    <3>2. Cardinality(executionJob[w].seen) = 3
      BY <2>2, <3>1
    <3>3. executionJob[w].seen = MonthParts
      BY <1>5, <2>2, <3>2, PrefixCount DEF Prefixes
    <3> QED BY <1>5, <2>2, <3>1, <3>3 DEF Execution!Whole, MonthParts
  <2>4. CASE i \notin published
    <3>1. Execution!Parts(i) = <<"spot", "contract">>
      BY <2>4 DEF Execution!Parts
    <3>2. Cardinality(executionJob[w].seen) = 2
      BY <2>2, <3>1
    <3>3. executionJob[w].seen = {"spot", "contract"}
      BY <1>5, <2>2, <3>2, PrefixCount DEF Prefixes
    <3> QED BY <1>5, <2>2, <3>1, <3>3 DEF Execution!Whole
  <2> QED BY <2>3, <2>4
<1>9. i \in Months => Execution!Whole(i)'
  BY <1>3, <1>8, StaysWhole
<1>10. Sees(j, executionItem', stored', trades')
  BY <1>4, <1>6 DEF Sees, AtAnalysis, Gathered
<1>11. ~Asking(j) /\ InHand(j, executionItem')
  BY <1>4, <1>6 DEF Asking, InHand, AtItem, AtAnalysis
<1>12. executionItem'["analysis"].status # "absent" => executionItem["analysis"].status # "absent"
  BY <1>4, <1>5 DEF Execution!Items
<1>13. executionItem'[i].status # "absent"
  BY <1>4 DEF Gathered
<1> QED BY <1>1, <1>3, <1>7, <1>9, <1>10, <1>11, <1>12, <1>13, AloneKeeps
        DEF ExecutionIInv, ExecutionTyped, Grounded, Orderly

\* A worker that gives up marks its item, and may have written the run before.
LEMMA GivesUp ==
  ASSUME ExecutionIInv, NEW w \in MonthWorkers, executionJob[w].at # "idle",
         executionJob' = [executionJob EXCEPT ![w] = Execution!Idle],
         NEW i \in Execution!Items, i = executionJob[w].item,
         executionItem' \in [Execution!Items -> MonthItem],
         executionItem'[i].status \in {"retry_wait", "failed"} \/ executionItem'[i] = executionItem[i],
         \A k \in Execution!Items \ {i} :
           \/ executionItem'[k] = executionItem[k]
           \/ /\ k = "analysis" /\ executionItem[k].status = "absent"
              /\ executionItem'[k].status = "queued" /\ Asking(executionJob[w]),
         UNCHANGED <<stored, published, trades, executionLapsed>>,
         executionRun' \in MonthRun, result' \subseteq Months,
         executionRun'.status = "completed" => result' = Months,
         executionRun'.status = "completed_with_errors"
           => \/ executionRun.status = "completed_with_errors"
              \/ executionJob[w].at = "write" /\ executionJob[w].verdict = "failed"
  PROVE  ExecutionIInv'
<1>1. /\ executionJob \in [MonthWorkers -> MonthJob] /\ executionItem[i].status # "absent"
      /\ executionLapsed \/ InHand(executionJob[w], executionItem)
  BY MonthWorkerIs DEF Sees
<1>2. executionJob'[w] = Execution!Idle /\ Execution!Idle.at = "idle"
  BY <1>1, IdleMonthJob
<1>3. Alone(w)
  BY <1>1, <1>2, IdleMonthJob DEF Alone
<1>4. /\ Sees(executionJob'[w], executionItem', stored', trades')
      /\ ~Asking(executionJob'[w]) /\ InHand(executionJob'[w], executionItem')
  BY <1>2 DEF Sees, Asking, InHand, AtItem, AtAnalysis, Advancing
<1>5. executionItem'[i].status # "absent"
  BY <1>1
<1>6. i \in Months /\ executionItem'[i].status \in Gathered => Execution!Whole(i)'
  <2>1. ASSUME i \in Months, executionItem'[i].status \in Gathered PROVE Execution!Whole(i)
    BY <2>1 DEF ExecutionIInv, Grounded, Gathered
  <2> QED BY <2>1, StaysWhole
<1>7. executionItem'["analysis"].status # "absent" => \A m \in Months : Execution!Whole(m)
  BY <1>1, <1>5 DEF ExecutionIInv, Grounded, Execution!Items
<1>8. ~executionLapsed => \/ executionRun'.status # "completed_with_errors"
                         \/ executionRun.status = "completed_with_errors"
                         \/ FailedMonth(executionItem)
  BY <1>1 DEF InHand
<1>9. stored \in [Months -> SUBSET MonthParts]
  BY DEF ExecutionIInv, ExecutionTyped
<1> QED BY <1>3, <1>4, <1>5, <1>6, <1>7, <1>8, <1>9, AloneKeeps

\* An item fails, or is retried.
LEMMA FailKeeps == ASSUME ExecutionIInv, NEW w \in MonthWorkers, Execution!Fail(w) PROVE ExecutionIInv'
<1>1. PICK i \in Execution!Items : i = executionJob[w].item
  BY MonthWorkerIs
<1>2. PICK status \in {"retry_wait", "failed"} : executionItem' = Execution!Written(i, status)
  BY <1>1 DEF Execution!Fail, Execution!FailedStatus
<1>3. /\ executionJob[w].at # "idle" /\ executionJob' = [executionJob EXCEPT ![w] = Execution!Idle]
      /\ UNCHANGED <<executionRun, stored, published, trades, result, executionLapsed>>
  BY DEF Execution!Fail, Execution!At
<1>4. /\ executionItem' \in [Execution!Items -> MonthItem] /\ executionItem'[i].status = status
      /\ \A k \in Execution!Items \ {i} : executionItem'[k] = executionItem[k]
  BY <1>2, WrittenIs DEF ExecutionIInv
<1> QED BY <1>1, <1>3, <1>4, GivesUp DEF ExecutionIInv, ExecutionTyped, Grounded

\* What the advance writes.
LEMMA AdvancedIs ==
  ASSUME ExecutionIInv, NEW w \in MonthWorkers, executionJob[w].at = "write",
         NEW run2, NEW items, run2 = Execution!Advanced(w).run, items = Execution!Advanced(w).item
  PROVE  /\ run2 \in MonthRun /\ items \in [Execution!Items -> MonthItem]
         /\ run2.status = "completed" => executionRun.status = "completed"
         /\ run2.status = "completed_with_errors"
              => \/ executionRun.status = "completed_with_errors"
                 \/ executionJob[w].verdict = "failed"
         /\ \A k \in Execution!Items :
              \/ items[k] = executionItem[k]
              \/ /\ k = "analysis" /\ executionItem[k].status = "absent"
                 /\ items[k].status = "queued" /\ executionJob[w].verdict # "failed"
<1>1. executionItem \in [Execution!Items -> MonthItem] /\ executionRun \in MonthRun
  BY DEF ExecutionIInv, ExecutionTyped
<1>2. CASE executionJob[w].verdict = "failed"
  <2>1. /\ run2 = [status |-> "completed_with_errors", stage |-> "archive_backfill_failed"]
        /\ items = executionItem
    BY <1>2 DEF Execution!Advanced
  <2> QED BY <1>1, <1>2, <2>1 DEF MonthRun
<1>3. CASE executionJob[w].verdict # "failed"
  <2>1. /\ run2 = [executionRun EXCEPT !.stage = "execution_analysis"]
        /\ items = IF executionItem["analysis"].status = "absent"
                   THEN [executionItem EXCEPT !["analysis"] = Execution!Queued] ELSE executionItem
    BY <1>3 DEF Execution!Advanced
  <2>2. Execution!Queued \in MonthItem /\ Execution!Queued.status = "queued"
    BY DEF Execution!Queued, Execution!Absent, MonthItem
  <2>3. run2 \in MonthRun /\ run2.status = executionRun.status
    BY <1>1, <2>1 DEF MonthRun
  <2> QED BY <1>1, <1>3, <2>1, <2>2, <2>3 DEF Execution!Items
<1> QED BY <1>2, <1>3

\* A worker writes what the run has advanced to.
LEMMA WriteKeeps ==
  ASSUME ExecutionIInv, NEW w \in MonthWorkers, Execution!AdvanceWrite(w) PROVE ExecutionIInv'
<1>1. /\ executionJob[w].at = "write" /\ executionRun' = Execution!Advanced(w).run
      /\ executionItem' = Execution!Advanced(w).item
      /\ executionJob' = [executionJob EXCEPT ![w] = Execution!Idle]
      /\ UNCHANGED <<stored, published, trades, result, executionLapsed>>
  BY DEF Execution!AdvanceWrite, Execution!At
<1>2. PICK i \in Execution!Items : i = executionJob[w].item
  BY MonthWorkerIs
<1>3. /\ executionItem[i].status # "absent"
      /\ executionJob[w].verdict # "failed" => Asking(executionJob[w])
  BY <1>1, <1>2, MonthWorkerIs DEF Sees, Asking, MonthJob
<1>4. /\ executionRun' \in MonthRun /\ executionItem' \in [Execution!Items -> MonthItem]
      /\ executionRun'.status = "completed" => executionRun.status = "completed"
      /\ executionRun'.status = "completed_with_errors"
           => \/ executionRun.status = "completed_with_errors"
              \/ executionJob[w].verdict = "failed"
      /\ \A k \in Execution!Items :
           \/ executionItem'[k] = executionItem[k]
           \/ /\ k = "analysis" /\ executionItem[k].status = "absent"
              /\ executionItem'[k].status = "queued" /\ executionJob[w].verdict # "failed"
  BY <1>1, AdvancedIs
<1> QED BY <1>1, <1>2, <1>3, <1>4, GivesUp DEF ExecutionIInv, ExecutionTyped, Grounded

\* The transaction of an advance, or of the results, commits unheard.
LEMMA UnheardKeeps ==
  ASSUME ExecutionIInv, NEW w \in MonthWorkers, Execution!Unheard(w) PROVE ExecutionIInv'
<1>1. /\ executionJob' = [executionJob EXCEPT ![w] = Execution!Idle]
      /\ UNCHANGED <<stored, published, trades, executionLapsed>>
  BY DEF Execution!Unheard
<1>2. PICK i \in Execution!Items : i = executionJob[w].item
  BY MonthWorkerIs
<1>3. PICK status \in {"retry_wait", "failed"} : status = Execution!FailedStatus(w)
  BY DEF Execution!FailedStatus
<1>4. CASE executionJob[w].at = "write"
  <2>1. PICK items : items = Execution!Advanced(w).item
    OBVIOUS
  <2>2. /\ executionRun' = Execution!Advanced(w).run /\ result' = result
        /\ executionItem' = [items EXCEPT ![i].status = status]
    BY <1>2, <1>3, <1>4, <2>1 DEF Execution!Unheard, Execution!At
  <2>3. /\ executionRun' \in MonthRun /\ items \in [Execution!Items -> MonthItem]
        /\ executionRun'.status = "completed" => executionRun.status = "completed"
        /\ executionRun'.status = "completed_with_errors"
             => \/ executionRun.status = "completed_with_errors"
                \/ executionJob[w].verdict = "failed"
        /\ \A k \in Execution!Items :
             \/ items[k] = executionItem[k]
             \/ /\ k = "analysis" /\ executionItem[k].status = "absent"
                /\ items[k].status = "queued" /\ executionJob[w].verdict # "failed"
    BY <1>4, <2>1, <2>2, AdvancedIs
  <2>4. executionJob[w].verdict # "failed" => Asking(executionJob[w])
    BY <1>4, MonthWorkerIs DEF Sees, Asking, MonthJob
  <2>5. [items[i] EXCEPT !.status = status] \in MonthItem
        /\ [items[i] EXCEPT !.status = status].status = status
    BY <2>3 DEF MonthItem
  <2>6. /\ executionItem' \in [Execution!Items -> MonthItem] /\ executionItem'[i].status = status
        /\ \A k \in Execution!Items \ {i} : executionItem'[k] = items[k]
    <3> DEFINE r == [items[i] EXCEPT !.status = status]
    <3>1. executionItem' = [items EXCEPT ![i] = r]
      BY <2>2, <2>3
    <3> HIDE DEF r
    <3> QED BY <2>3, <2>5, <3>1 DEF r
  <2>7. \A k \in Execution!Items \ {i} :
          \/ executionItem'[k] = executionItem[k]
          \/ /\ k = "analysis" /\ executionItem[k].status = "absent"
             /\ executionItem'[k].status = "queued" /\ Asking(executionJob[w])
    BY <2>3, <2>4, <2>6
  <2>8. result' \subseteq Months /\ (executionRun'.status = "completed" => result' = Months)
    BY <2>2, <2>3 DEF ExecutionIInv, ExecutionTyped, Grounded
  <2>9. executionItem'[i].status \in {"retry_wait", "failed"} /\ executionJob[w].at # "idle"
    BY <1>4, <2>6
  <2> QED BY <1>1, <1>2, <1>4, <2>3, <2>6, <2>7, <2>8, <2>9, GivesUp
<1>5. CASE executionJob[w].at = "results"
  <2>1. /\ result' = executionJob[w].seen
        /\ executionRun' = [status |-> "completed", stage |-> "completed"]
        /\ executionItem' = Execution!Written(i, status)
    BY <1>2, <1>3, <1>5 DEF Execution!Unheard, Execution!At, Execution!Finished
  <2>2. result' = Months
    BY <1>5, <2>1, AnalysisFindsAll DEF AtAnalysis
  <2>3. /\ executionItem' \in [Execution!Items -> MonthItem] /\ executionItem'[i].status = status
        /\ \A k \in Execution!Items \ {i} : executionItem'[k] = executionItem[k]
    BY <2>1, WrittenIs DEF ExecutionIInv
  <2>4. executionRun' \in MonthRun /\ executionRun'.status = "completed"
    BY <2>1 DEF MonthRun
  <2> QED BY <1>1, <1>2, <1>5, <2>2, <2>3, <2>4, GivesUp
<1> QED BY <1>4, <1>5 DEF Execution!Unheard, Execution!At

\* The results are written from the metrics.
LEMMA ResultsKeeps ==
  ASSUME ExecutionIInv, NEW w \in MonthWorkers, Execution!Results(w) PROVE ExecutionIInv'
<1> DEFINE j == [executionJob[w] EXCEPT !.at = "settle"]
<1>1. /\ executionJob[w].at = "results" /\ result' = executionJob[w].seen
      /\ executionRun' = [status |-> "completed", stage |-> "completed"]
      /\ executionJob' = [executionJob EXCEPT ![w].at = "settle"]
      /\ UNCHANGED <<executionItem, stored, published, trades, executionLapsed>>
  BY DEF Execution!Results, Execution!At, Execution!GoTo, Execution!Finished
<1>2. PICK i \in Execution!Items : i = executionJob[w].item
  BY MonthWorkerIs
<1>3. /\ i = "analysis" /\ result' = Months /\ \A m \in Months : Execution!Whole(m)
  BY <1>1, <1>2, AnalysisFindsAll DEF AtAnalysis
<1>4. /\ executionJob \in [MonthWorkers -> MonthJob] /\ executionJob[w] \in MonthJob
      /\ executionItem[i].status # "absent"
      /\ executionLapsed \/ InHand(executionJob[w], executionItem)
      /\ executionItem \in [Execution!Items -> MonthItem]
      /\ \A m \in Months : m # "analysis"
  BY <1>1, <1>2, MonthWorkerIs DEF Sees
<1>5. j \in MonthJob /\ j.at = "settle" /\ j.item = i /\ executionJob' = [executionJob EXCEPT ![w] = j]
  BY <1>1, <1>2, <1>4 DEF MonthJob, AtItem, AtAnalysis
<1> HIDE DEF j
<1>6. executionJob'[w] = j /\ Alone(w)
  BY <1>1, <1>2, <1>4, <1>5 DEF Alone
<1>7. executionRun' \in MonthRun /\ executionRun'.status = "completed"
  BY <1>1 DEF MonthRun
<1>8. Sees(j, executionItem', stored', trades') /\ ~Asking(j)
  BY <1>1, <1>3, <1>4, <1>5 DEF Sees, Asking
<1>9. ~executionLapsed => InHand(j, executionItem')
  BY <1>1, <1>2, <1>4, <1>5 DEF InHand, AtItem, AtAnalysis, Advancing
<1>10. stored \in [Months -> SUBSET MonthParts]
  BY DEF ExecutionIInv, ExecutionTyped
<1> QED BY <1>1, <1>2, <1>3, <1>4, <1>6, <1>7, <1>8, <1>9, <1>10, AloneKeeps

\* The items change but not the work on them.
LEMMA TimeKeeps ==
  ASSUME ExecutionIInv, executionItem' \in [Execution!Items -> MonthItem],
         UNCHANGED <<executionRun, stored, published, trades, result, executionJob>>,
         \A k \in Execution!Items :
           \/ executionItem'[k].status = executionItem[k].status
           \/ /\ executionItem[k].status = "running" /\ executionItem'[k].status = "retry_wait"
              /\ ~executionLapsed' => ~Execution!Held(k),
         executionLapsed => executionLapsed'
  PROVE  ExecutionIInv'
<1>1. ExecutionTyped'
  BY DEF ExecutionIInv, ExecutionTyped
<1>2. /\ \A w \in MonthWorkers : executionJob[w] \in MonthJob /\ executionJob[w].item \in Execution!Items
      /\ "analysis" \in Execution!Items /\ \A m \in Months : m \in Execution!Items
  BY MonthWorkerIs DEF Execution!Items
<1>3. Grounded'
  <2>1. \A m \in Months : Execution!Whole(m)' <=> Execution!Whole(m)
    BY DEF Execution!Whole, Execution!Parts
  <2>2. \A k \in Execution!Items :
          /\ executionItem'[k].status = "absent" <=> executionItem[k].status = "absent"
          /\ executionItem'[k].status \in Gathered => executionItem[k].status \in Gathered
    BY DEF Gathered
  <2>3. ASSUME NEW w \in MonthWorkers PROVE Sees(executionJob'[w], executionItem', stored', trades')
    <3>1. Sees(executionJob[w], executionItem, stored, trades)
      BY DEF ExecutionIInv, Grounded
    <3> QED BY <1>2, <2>2, <3>1 DEF Sees
  <2>4. \A m \in Months : /\ executionItem'[m].status # "absent"
                          /\ executionItem'[m].status \in Gathered => Execution!Whole(m)'
    BY <1>2, <2>1, <2>2 DEF ExecutionIInv, Grounded
  <2>5. executionItem'["analysis"].status # "absent" <=> executionItem["analysis"].status # "absent"
    BY <1>2, <2>2
  <2>6. executionRun'.status = "completed" => result' = Months
    BY DEF ExecutionIInv, Grounded
  <2>7. \/ executionItem["analysis"].status # "absent"
        \/ (\E w \in MonthWorkers : Asking(executionJob[w]))
        => \A m \in Months : Execution!Whole(m)'
    BY <2>1 DEF ExecutionIInv, Grounded
  <2> QED BY <2>3, <2>4, <2>5, <2>6, <2>7 DEF Grounded
<1>4. ASSUME ~executionLapsed' PROVE Orderly'
  <2>1. Orderly
    BY <1>4 DEF ExecutionIInv
  <2>2. FailedMonth(executionItem) => FailedMonth(executionItem')
    BY <1>2 DEF FailedMonth
  <2>3. ASSUME NEW w \in MonthWorkers PROVE InHand(executionJob'[w], executionItem')
    <3>1. InHand(executionJob[w], executionItem)
      BY <2>1 DEF Orderly
    <3>2. executionJob[w].at \in AtItem => Execution!Held(executionJob[w].item)
      BY DEF Execution!Held, AtItem, AtAnalysis
    <3>3. \/ executionItem'[executionJob[w].item].status = executionItem[executionJob[w].item].status
          \/ executionItem[executionJob[w].item].status = "running" /\ executionJob[w].at \notin AtItem
      BY <1>2, <1>4, <3>2
    <3> QED BY <2>2, <3>1, <3>3 DEF InHand, Gathered
  <2> QED BY <2>1, <2>2, <2>3 DEF Orderly
<1> QED BY <1>1, <1>3, <1>4 DEF ExecutionIInv

\* An item looks given up.
LEMMA StaleKeeps ==
  ASSUME ExecutionIInv, NEW i \in Execution!Items, Execution!GoStale(i) PROVE ExecutionIInv'
<1> DEFINE r == [executionItem[i] EXCEPT !.fresh = FALSE]
<1>1. /\ executionItem' = [executionItem EXCEPT ![i].fresh = FALSE]
      /\ UNCHANGED <<executionRun, stored, published, trades, result, executionJob, executionLapsed>>
  BY DEF Execution!GoStale
<1>2. executionItem \in [Execution!Items -> MonthItem]
  BY DEF ExecutionIInv, ExecutionTyped
<1>3. r \in MonthItem /\ r.status = executionItem[i].status
      /\ executionItem' = [executionItem EXCEPT ![i] = r]
  BY <1>1, <1>2 DEF MonthItem
<1> HIDE DEF r
<1>4. /\ executionItem' \in [Execution!Items -> MonthItem]
      /\ \A k \in Execution!Items : executionItem'[k].status = executionItem[k].status
  BY <1>2, <1>3
<1> QED BY <1>1, <1>4, TimeKeeps

\* It is taken back.
LEMMA ReclaimKeeps == ASSUME ExecutionIInv, Execution!Reclaim PROVE ExecutionIInv'
<1> DEFINE stale == {i \in Execution!Items :
                       executionItem[i].status = "running" /\ ~executionItem[i].fresh}
<1>1. /\ executionItem' = [i \in Execution!Items |->
           IF i \in stale THEN [executionItem[i] EXCEPT !.status = "retry_wait"] ELSE executionItem[i]]
      /\ executionLapsed' = (executionLapsed \/ \E i \in stale : Execution!Held(i))
      /\ UNCHANGED <<executionRun, stored, published, trades, result, executionJob>>
  BY Zenon DEF Execution!Reclaim
<1>2. executionItem \in [Execution!Items -> MonthItem]
  BY DEF ExecutionIInv, ExecutionTyped
<1>3. ASSUME NEW i \in Execution!Items
      PROVE  /\ [executionItem[i] EXCEPT !.status = "retry_wait"] \in MonthItem
             /\ [executionItem[i] EXCEPT !.status = "retry_wait"].status = "retry_wait"
  BY <1>2 DEF MonthItem
<1>4. executionItem' \in [Execution!Items -> MonthItem]
  BY <1>1, <1>2, <1>3
<1>5. ASSUME NEW k \in Execution!Items
      PROVE  \/ executionItem'[k].status = executionItem[k].status
             \/ k \in stale /\ executionItem'[k].status = "retry_wait"
  BY <1>1, <1>3
<1>6. \A k \in stale : executionItem[k].status = "running" /\ (~executionLapsed' => ~Execution!Held(k))
  BY Zenon, <1>1
<1> HIDE DEF stale
<1>7. executionLapsed => executionLapsed'
  BY Zenon, <1>1
<1> QED BY <1>1, <1>4, <1>5, <1>6, <1>7, TimeKeeps

\* Every step of the execution run keeps its invariant.
LEMMA ExecutionNext == ASSUME ExecutionIInv, Execution!Next PROVE ExecutionIInv'
<1>1. ASSUME NEW w \in MonthWorkers, Execution!Work(w) PROVE ExecutionIInv'
  BY <1>1, ClaimMonth, StoreKeeps, SettleKeeps, ReadKeeps, WriteKeeps, TradesKeeps, MetricsKeeps,
     ResultsKeeps DEF Execution!Work
<1>2. ASSUME NEW w \in MonthWorkers, Execution!Fail(w) \/ Execution!Unheard(w) \/ Execution!Crash(w)
      PROVE  ExecutionIInv'
  BY <1>2, FailKeeps, UnheardKeeps, CrashMonth
<1> QED BY <1>1, <1>2, StaleKeeps, ReclaimKeeps DEF Execution!Next

\* So does a step of another lane.
LEMMA ExecutionStutters == ASSUME ExecutionIInv, UNCHANGED execution PROVE ExecutionIInv'
<1>1. \A k \in Execution!Items : executionItem'[k].status = executionItem[k].status
  BY DEF execution
<1>2. executionItem' \in [Execution!Items -> MonthItem]
  BY DEF execution, ExecutionIInv, ExecutionTyped
<1> QED BY <1>1, <1>2, TimeKeeps DEF execution

(***************************************************************************)
(* The quote days                                                          *)
(***************************************************************************)
QuoteStatus == {"queued", "retry_wait", "running", "completed", "missing", "failed"}
QuoteLanes == {"book", "tardis", "depth"}
QuoteRow == [status : QuoteStatus, attempts : Nat, fresh : BOOLEAN, by : QuoteLanes \cup {"none"}]
QuoteSource == [price : QuoteLanes \cup {"none"}, label : QuoteLanes \cup {"none"}]
QuoteThread == [at : {"loop", "fetch", "finish", "returned", "dead"},
                day : Dates \cup {Quotes!NoDay}, attempts : Nat]

QuotesTyped ==
  /\ quoteDay \in [Dates -> QuoteRow] /\ snapshot \in [Dates -> QuoteSource]
  /\ thread \in [Quotes!Threads -> QuoteThread] /\ quoteLapsed \in BOOLEAN

Fetching(x) == x.at \in {"fetch", "finish"}

\* A thread at work has a day of its lane; and behind its snapshots, one that has targets.
Assigned(t, x) ==
  /\ Fetching(x) => x.day \in Dates /\ x.day \in Quotes!DaysOf(Quotes!LaneOf(t))
  /\ x.at = "finish" => x.day \notin Bare

\* No other thread is at work on the day, whose row says that someone is, and what
\* the thread has stored is what the day's snapshots hold.
Sole(threads, rows, sources) ==
  /\ \A t, u \in Quotes!Threads :
       Fetching(threads[t]) /\ Fetching(threads[u]) /\ threads[t].day = threads[u].day => t = u
  /\ \A t \in Quotes!Threads :
       /\ Fetching(threads[t]) => rows[threads[t].day].status = "running"
       /\ threads[t].at = "finish" => sources[threads[t].day].price = Quotes!LaneOf(t)

\* A completed day names the archive that its snapshots came from.
Sourced(rows, sources) ==
  \A d \in Dates : rows[d].status = "completed" => rows[d].by = sources[d].price

\* The inductive invariant.
QuotesIInv ==
  /\ QuotesTyped
  /\ \A t \in Quotes!Threads : Assigned(t, thread[t])
  /\ \A d \in Dates \cap Bare : snapshot[d].price = "none"
  /\ quoteLapsed \/ Sole(thread, quoteDay, snapshot)
  /\ quoteLapsed \/ Sourced(quoteDay, snapshot)

\* A thread has a lane, and the lane days.
LEMMA LanesAre ==
  ASSUME NEW t \in Quotes!Threads
  PROVE  /\ Quotes!LaneOf(t) \in QuoteLanes
         /\ Quotes!DaysOf(Quotes!LaneOf(t)) \subseteq Dates
<1>1. Quotes!LaneOf(t) \in QuoteLanes
  BY DEF Quotes!LaneOf, QuoteLanes
<1>2. BookDays \subseteq Dates /\ TardisDays \subseteq Dates /\ DepthDays \subseteq Dates
  BY LaneBounds
<1> QED BY <1>1, <1>2 DEF Quotes!DaysOf, QuoteLanes

\* The invariant's typing is the type invariant.
LEMMA QuotesTypes == ASSUME QuotesIInv PROVE Quotes!TypeOK
<1>1. QuoteStatus = Quotes!Waiting \cup Quotes!Ended \cup {"running"} /\ QuoteLanes = Quotes!Lanes
  BY DEF QuoteStatus, Quotes!Waiting, Quotes!Ended, QuoteLanes, Quotes!Lanes
<1> QED BY <1>1 DEF QuotesIInv, QuotesTyped, QuoteRow, QuoteSource, QuoteThread, Assigned, Fetching,
                    Quotes!TypeOK, Quotes!Busy

\* The invariant says where the checksum of a completed day comes from.
LEMMA QuotesSourced == ASSUME QuotesIInv PROVE Quotes!Provenance
BY DEF QuotesIInv, Sourced, Quotes!Provenance

\* A thread at its loop fetches nothing.
LEMMA IdleThread == Quotes!AtLoop \in QuoteThread /\ ~Fetching(Quotes!AtLoop) /\ Quotes!AtLoop.at = "loop"
BY DEF Quotes!AtLoop, QuoteThread, Fetching

\* The invariant of the quote days holds at the start.
LEMMA QuotesInit == ASSUME Quotes!Init PROVE QuotesIInv
<1>1. \A d \in Dates : quoteDay[d] \in QuoteRow /\ quoteDay[d].status = "queued"
  BY DEF Quotes!Init, QuoteRow, QuoteStatus
<1>2. snapshot \in [Dates -> QuoteSource] /\ \A d \in Dates : snapshot[d].price = "none"
  BY DEF Quotes!Init, QuoteSource
<1>3. thread \in [Quotes!Threads -> QuoteThread] /\ \A t \in Quotes!Threads : thread[t] = Quotes!AtLoop
  BY IdleThread DEF Quotes!Init
<1>4. quoteDay \in [Dates -> QuoteRow] /\ quoteLapsed = FALSE
  BY <1>1 DEF Quotes!Init
<1> QED BY <1>1, <1>2, <1>3, <1>4, IdleThread
        DEF QuotesIInv, QuotesTyped, Assigned, Fetching, Sole, Sourced

\* A thread that leaves its day, or moves on in it, leaves the others alone.
LEMMA ThreadKeeps ==
  ASSUME QuotesIInv, NEW t \in Quotes!Threads, NEW x \in QuoteThread,
         thread' = [thread EXCEPT ![t] = x], Assigned(t, x),
         Fetching(x) => Fetching(thread[t]) /\ x.day = thread[t].day,
         x.at = "finish" => thread[t].at = "finish",
         UNCHANGED <<quoteDay, snapshot, quoteLapsed>>
  PROVE  QuotesIInv'
<1>1. thread' \in [Quotes!Threads -> QuoteThread]
      /\ \A u \in Quotes!Threads : Assigned(u, thread'[u])
  BY DEF QuotesIInv, QuotesTyped
<1>2. ASSUME Sole(thread, quoteDay, snapshot) PROVE Sole(thread', quoteDay', snapshot')
  <2>1. /\ \A u \in Quotes!Threads : Fetching(thread'[u])
               => Fetching(thread[u]) /\ thread'[u].day = thread[u].day
        /\ \A u \in Quotes!Threads :
             thread'[u].at = "finish" => thread[u].at = "finish" /\ Fetching(thread'[u])
    BY DEF QuotesIInv, QuotesTyped, Fetching
  <2> QED BY <1>2, <2>1 DEF Sole
<1> QED BY <1>1, <1>2 DEF QuotesIInv, QuotesTyped

\* A day is claimed.
LEMMA QuoteClaim ==
  ASSUME QuotesIInv, NEW t \in Quotes!Threads, NEW d \in Dates, Quotes!Claim(t, d)
  PROVE  QuotesIInv'
<1> DEFINE r == [quoteDay[d] EXCEPT !.status = "running", !.fresh = TRUE,
                                !.attempts = quoteDay[d].attempts + 1]
           x == [at |-> "fetch", day |-> d, attempts |-> quoteDay[d].attempts + 1]
<1>2. quoteDay[d] \in QuoteRow /\ quoteDay \in [Dates -> QuoteRow]
      /\ thread \in [Quotes!Threads -> QuoteThread]
  BY DEF QuotesIInv, QuotesTyped
<1>0. /\ thread[t].at = "loop" /\ d \in Quotes!DaysOf(Quotes!LaneOf(t))
      /\ quoteDay[d].status \in {"queued", "retry_wait"}
      /\ thread' = [thread EXCEPT ![t] = x]
      /\ UNCHANGED <<snapshot, quoteLapsed>>
  BY DEF Quotes!Claim, Quotes!Waiting
<1>1. quoteDay' = [quoteDay EXCEPT ![d] = r]
  BY DEF Quotes!Claim
<1>3. r \in QuoteRow /\ r.status = "running"
  <2>1. quoteDay[d].attempts + 1 \in Nat
    BY <1>2 DEF QuoteRow
  <2> QED BY <1>2, <2>1 DEF QuoteRow, QuoteStatus
<1>4. x \in QuoteThread /\ Fetching(x) /\ x.day = d /\ x.at = "fetch"
  BY <1>2 DEF QuoteRow, QuoteThread, Fetching
<1> HIDE DEF r, x
<1>5. /\ quoteDay' \in [Dates -> QuoteRow] /\ thread' \in [Quotes!Threads -> QuoteThread]
      /\ \A u \in Quotes!Threads : Assigned(u, thread'[u])
  BY <1>0, <1>1, <1>3, <1>4 DEF QuotesIInv, QuotesTyped, Assigned
<1>6. ASSUME Sole(thread, quoteDay, snapshot) PROVE Sole(thread', quoteDay', snapshot')
  <2>1. \A u \in Quotes!Threads : Fetching(thread[u]) => thread[u].day \in Dates /\ thread[u].day # d
    BY <1>0, <1>1, <1>6 DEF QuotesIInv, Assigned, Sole
  <2> QED BY <1>0, <1>1, <1>3, <1>4, <1>6, <2>1 DEF QuotesIInv, QuotesTyped, Sole, Fetching
<1>7. ASSUME Sourced(quoteDay, snapshot) PROVE Sourced(quoteDay', snapshot')
  BY <1>0, <1>1, <1>3, <1>7 DEF QuotesIInv, QuotesTyped, Sourced
<1> QED BY <1>0, <1>1, <1>5, <1>6, <1>7 DEF QuotesIInv, QuotesTyped

\* The thread gives its day back: a completed one by the name of its snapshots.
LEMMA WriteKeepsDay ==
  ASSUME QuotesIInv, NEW t \in Quotes!Threads, Fetching(thread[t]),
         NEW status \in QuoteStatus, NEW by \in QuoteLanes \cup {"none"},
         Quotes!Write(t, status, by),
         status = "completed" => quoteLapsed \/ by = snapshot[thread[t].day].price,
         UNCHANGED <<snapshot, quoteLapsed>>
  PROVE  QuotesIInv'
<1> DEFINE d == thread[t].day
           r == [quoteDay[d] EXCEPT !.status = status, !.fresh = FALSE, !.by = by]
<1>1. quoteDay' = [quoteDay EXCEPT ![d] = r] /\ thread' = [thread EXCEPT ![t] = Quotes!AtLoop]
  BY DEF Quotes!Write
<1>2. d \in Dates /\ quoteDay[d] \in QuoteRow
  BY DEF QuotesIInv, QuotesTyped, Assigned
<1>3. r \in QuoteRow /\ r.status = status /\ r.by = by
  BY <1>2 DEF QuoteRow
<1> HIDE DEF r
<1>4. /\ quoteDay' \in [Dates -> QuoteRow] /\ thread' \in [Quotes!Threads -> QuoteThread]
      /\ \A u \in Quotes!Threads : Assigned(u, thread'[u])
  BY <1>1, <1>2, <1>3, IdleThread DEF QuotesIInv, QuotesTyped, Assigned
<1>5. ASSUME Sole(thread, quoteDay, snapshot) PROVE Sole(thread', quoteDay', snapshot')
  <2>1. \A u \in Quotes!Threads \ {t} : Fetching(thread[u]) => thread[u].day \in Dates /\ thread[u].day # d
    BY <1>5 DEF QuotesIInv, Assigned, Sole
  <2>2. ~Fetching(thread'[t]) /\ thread'[t].at = "loop"
    BY <1>1, IdleThread DEF QuotesIInv, QuotesTyped
  <2>3. \A u \in Quotes!Threads \ {t} : thread'[u] = thread[u]
    BY <1>1 DEF QuotesIInv, QuotesTyped
  <2>4. \A e \in Dates \ {d} : quoteDay'[e] = quoteDay[e]
    BY <1>1 DEF QuotesIInv, QuotesTyped
  <2> HIDE DEF d
  <2> QED BY <1>5, <2>1, <2>2, <2>3, <2>4 DEF Sole, Fetching
<1>6. ASSUME ~quoteLapsed, Sourced(quoteDay, snapshot) PROVE Sourced(quoteDay', snapshot')
  BY <1>1, <1>2, <1>3, <1>6 DEF QuotesIInv, QuotesTyped, Sourced
<1> QED BY <1>4, <1>5, <1>6 DEF QuotesIInv, QuotesTyped

\* The snapshots of a day are stored.
LEMMA StoreKeepsDay ==
  ASSUME QuotesIInv, NEW t \in Quotes!Threads, Quotes!Store(t) PROVE QuotesIInv'
<1> DEFINE d == thread[t].day
           s == Quotes!Snapshot(t, d)
           x == [thread[t] EXCEPT !.at = "finish"]
<1>1. /\ thread[t].at = "fetch" /\ d \notin Bare /\ snapshot' = [snapshot EXCEPT ![d] = s]
      /\ thread' = [thread EXCEPT ![t] = x] /\ UNCHANGED <<quoteDay, quoteLapsed>>
  BY DEF Quotes!Store, QuotesIInv, QuotesTyped
<1>2. d \in Dates /\ snapshot[d] \in QuoteSource /\ thread[t] \in QuoteThread
  BY <1>1 DEF QuotesIInv, QuotesTyped, Assigned, Fetching
<1>3. s \in QuoteSource /\ s.price = Quotes!LaneOf(t)
  BY <1>2, LanesAre DEF Quotes!Snapshot, QuoteSource
<1>4. x \in QuoteThread /\ x.at = "finish" /\ x.day = d /\ Fetching(x) /\ Fetching(thread[t])
  BY <1>1, <1>2 DEF QuoteThread, Fetching
<1> HIDE DEF s, x
<1>5. /\ snapshot' \in [Dates -> QuoteSource] /\ thread' \in [Quotes!Threads -> QuoteThread]
      /\ \A u \in Quotes!Threads : Assigned(u, thread'[u])
  BY <1>1, <1>2, <1>3, <1>4 DEF QuotesIInv, QuotesTyped, Assigned
<1>6. \A e \in Dates \cap Bare : snapshot'[e].price = "none"
  BY <1>1 DEF QuotesIInv, QuotesTyped
<1>7. ASSUME Sole(thread, quoteDay, snapshot) PROVE Sole(thread', quoteDay', snapshot')
  <2>1. \A u \in Quotes!Threads \ {t} : Fetching(thread[u]) => thread[u].day \in Dates /\ thread[u].day # d
    BY <1>4, <1>7 DEF QuotesIInv, Assigned, Sole
  <2>2. thread'[t] = x /\ \A u \in Quotes!Threads \ {t} : thread'[u] = thread[u]
    BY <1>1 DEF QuotesIInv, QuotesTyped
  <2>3. snapshot'[d] = s /\ \A e \in Dates \ {d} : snapshot'[e] = snapshot[e]
    BY <1>1, <1>2 DEF QuotesIInv, QuotesTyped
  <2> QED BY <1>1, <1>3, <1>4, <1>7, <2>1, <2>2, <2>3 DEF Sole, Fetching
<1>8. ASSUME Sole(thread, quoteDay, snapshot), Sourced(quoteDay, snapshot)
      PROVE  Sourced(quoteDay', snapshot')
  <2>1. quoteDay[d].status = "running"
    BY <1>4, <1>8 DEF Sole
  <2> QED BY <1>1, <1>2, <1>8, <2>1 DEF QuotesIInv, QuotesTyped, Sourced
<1> QED BY <1>1, <1>5, <1>6, <1>7, <1>8 DEF QuotesIInv, QuotesTyped

\* A day is finished, with an archive or without.
LEMMA QuoteFinishes ==
  ASSUME QuotesIInv, NEW t \in Quotes!Threads,
         Quotes!FinishBare(t) \/ Quotes!FinishMissing(t) \/ Quotes!Finish(t)
  PROVE  QuotesIInv'
<1>1. CASE Quotes!FinishBare(t)
  <2>1. /\ Fetching(thread[t]) /\ thread[t].day \in Dates \cap Bare
        /\ Quotes!Write(t, "completed", "none") /\ UNCHANGED <<snapshot, quoteLapsed>>
    BY <1>1 DEF Quotes!FinishBare, Fetching, QuotesIInv, Assigned
  <2>2. snapshot[thread[t].day].price = "none"
    BY <2>1 DEF QuotesIInv
  <2> QED BY <2>1, <2>2, WriteKeepsDay DEF QuoteStatus
<1>2. CASE Quotes!FinishMissing(t)
  <2>1. /\ Fetching(thread[t]) /\ Quotes!Write(t, "missing", "none")
        /\ UNCHANGED <<snapshot, quoteLapsed>>
    BY <1>2 DEF Quotes!FinishMissing, Fetching
  <2> QED BY <2>1, WriteKeepsDay DEF QuoteStatus
<1>3. CASE Quotes!Finish(t)
  <2>1. /\ thread[t].at = "finish" /\ Fetching(thread[t])
        /\ Quotes!Write(t, "completed", Quotes!LaneOf(t)) /\ UNCHANGED <<snapshot, quoteLapsed>>
    BY <1>3 DEF Quotes!Finish, Fetching
  <2>2. quoteLapsed \/ Quotes!LaneOf(t) = snapshot[thread[t].day].price
    BY <2>1 DEF QuotesIInv, Sole
  <2> QED BY <2>1, <2>2, LanesAre, WriteKeepsDay DEF QuoteStatus
<1> QED BY <1>1, <1>2, <1>3

\* A day fails.
LEMMA QuoteFails ==
  ASSUME QuotesIInv, NEW t \in Quotes!Threads, Quotes!Fail(t) PROVE QuotesIInv'
<1>1. Fetching(thread[t]) /\ UNCHANGED <<snapshot, quoteLapsed>>
  BY DEF Quotes!Fail, Quotes!Busy, Fetching
<1>2. quoteDay[thread[t].day].by \in QuoteLanes \cup {"none"}
  BY <1>1 DEF QuotesIInv, QuotesTyped, QuoteRow, Assigned
<1>3. PICK status \in {"failed", "retry_wait"}, by \in QuoteLanes \cup {"none"} :
        Quotes!Write(t, status, by)
  BY <1>2, LanesAre DEF Quotes!Fail
<1> QED BY <1>1, <1>3, WriteKeepsDay DEF QuoteStatus

\* A thread finds no day, or dies.
LEMMA QuoteLeaves ==
  ASSUME QuotesIInv, NEW t \in Quotes!Threads, Quotes!Drained(t) \/ Quotes!Die(t) PROVE QuotesIInv'
<1>1. PICK at \in {"returned", "dead"} : thread' = [thread EXCEPT ![t].at = at]
  BY DEF Quotes!Drained, Quotes!Die
<1> DEFINE x == [thread[t] EXCEPT !.at = at]
<1>2. thread[t] \in QuoteThread
  BY DEF QuotesIInv, QuotesTyped
<1>3. x \in QuoteThread /\ x.at = at /\ thread' = [thread EXCEPT ![t] = x]
  BY <1>1, <1>2 DEF QuoteThread
<1> HIDE DEF x
<1>4. ~Fetching(x) /\ Assigned(t, x) /\ x.at # "finish"
  BY <1>3 DEF Fetching, Assigned
<1>5. UNCHANGED <<quoteDay, snapshot, quoteLapsed>>
  BY DEF Quotes!Drained, Quotes!Die
<1> QED BY <1>3, <1>4, <1>5, ThreadKeeps

\* The process starts again.
LEMMA QuoteRestart == ASSUME QuotesIInv, Quotes!Restart PROVE QuotesIInv'
<1>1. /\ thread' = [t \in Quotes!Threads |-> Quotes!AtLoop]
      /\ UNCHANGED <<quoteDay, snapshot, quoteLapsed>>
  BY DEF Quotes!Restart
<1>2. \A t \in Quotes!Threads :
        thread'[t] \in QuoteThread /\ ~Fetching(thread'[t]) /\ thread'[t].at = "loop"
  BY <1>1, IdleThread
<1>3. thread' \in [Quotes!Threads -> QuoteThread]
  BY <1>1, IdleThread
<1> QED BY <1>1, <1>2, <1>3 DEF QuotesIInv, QuotesTyped, Assigned, Sole

\* A day looks given up.
LEMMA QuoteStale == ASSUME QuotesIInv, NEW d \in Dates, Quotes!GoStale(d) PROVE QuotesIInv'
<1> DEFINE r == [quoteDay[d] EXCEPT !.fresh = FALSE]
<1>1. quoteDay' = [quoteDay EXCEPT ![d] = r] /\ UNCHANGED <<snapshot, thread, quoteLapsed>>
  BY DEF Quotes!GoStale, QuotesIInv, QuotesTyped
<1>2. quoteDay[d] \in QuoteRow
  BY DEF QuotesIInv, QuotesTyped
<1>3. r \in QuoteRow /\ r.status = quoteDay[d].status /\ r.by = quoteDay[d].by
  BY <1>2 DEF QuoteRow
<1> HIDE DEF r
<1>4. quoteDay' \in [Dates -> QuoteRow]
      /\ \A e \in Dates : quoteDay'[e].status = quoteDay[e].status /\ quoteDay'[e].by = quoteDay[e].by
  BY <1>1, <1>3 DEF QuotesIInv, QuotesTyped
<1>5. Sole(thread, quoteDay, snapshot) => Sole(thread', quoteDay', snapshot')
  BY <1>1, <1>4 DEF QuotesIInv, Assigned, Sole
<1> QED BY <1>1, <1>4, <1>5 DEF QuotesIInv, QuotesTyped, Sourced

\* A day that is taken back is in nobody's hands, or the days have lapsed.
LEMMA QuoteReclaim == ASSUME QuotesIInv, Quotes!Reclaim PROVE QuotesIInv'
<1>1. /\ quoteDay' = [d \in Dates |-> IF d \in Quotes!Stale
                                     THEN [quoteDay[d] EXCEPT !.status = "retry_wait"] ELSE quoteDay[d]]
      /\ UNCHANGED <<snapshot, thread>>
  BY DEF Quotes!Reclaim
<1> DEFINE held == \E d \in Quotes!Stale : Quotes!Held(d) /\ ~quoteDay[d].fresh
<1>2. quoteLapsed' = (quoteLapsed \/ held) /\ held \in BOOLEAN
  BY DEF Quotes!Reclaim
<1>3. \A d \in Dates : quoteDay'[d] \in QuoteRow
  BY <1>1 DEF QuotesIInv, QuotesTyped, QuoteRow, QuoteStatus
<1>4. quoteDay' \in [Dates -> QuoteRow]
  BY <1>1, <1>3
<1>5. quoteLapsed' \in BOOLEAN /\ (~quoteLapsed' => ~quoteLapsed)
  BY <1>2 DEF QuotesIInv, QuotesTyped
<1>6. ASSUME ~held, Sole(thread, quoteDay, snapshot) PROVE Sole(thread', quoteDay', snapshot')
  <2>1. ASSUME NEW t \in Quotes!Threads, Fetching(thread[t])
        PROVE  quoteDay'[thread[t].day].status = "running"
    <3>1. thread[t].day \in Dates /\ Quotes!Held(thread[t].day)
      BY <2>1 DEF QuotesIInv, Assigned, Quotes!Held, Quotes!Busy, Fetching
    <3>2. thread[t].day \notin Quotes!Stale
      BY <1>6, <3>1 DEF Quotes!Stale
    <3> QED BY <1>1, <1>6, <2>1, <3>1, <3>2 DEF Sole
  <2> QED BY <1>1, <1>6, <2>1 DEF Sole
<1>7. ASSUME Sourced(quoteDay, snapshot) PROVE Sourced(quoteDay', snapshot')
  BY <1>1, <1>7 DEF QuotesIInv, QuotesTyped, QuoteRow, Sourced
<1> HIDE DEF held
<1> QED BY <1>1, <1>2, <1>4, <1>5, <1>6, <1>7 DEF QuotesIInv, QuotesTyped

\* Every step of the quote days keeps their invariant.
LEMMA QuotesNext == ASSUME QuotesIInv, Quotes!Next PROVE QuotesIInv'
<1>1. ASSUME NEW t \in Quotes!Threads, Quotes!Work(t) PROVE QuotesIInv'
  BY <1>1, QuoteClaim, QuoteLeaves, QuoteFinishes, StoreKeepsDay DEF Quotes!Work
<1>2. ASSUME NEW t \in Quotes!Threads, Quotes!Fail(t) \/ Quotes!Die(t) PROVE QuotesIInv'
  BY <1>2, QuoteFails, QuoteLeaves
<1> QED BY <1>1, <1>2, QuoteRestart, QuoteReclaim, QuoteStale DEF Quotes!Next

\* So does a step of another lane.
LEMMA QuotesStutters == ASSUME QuotesIInv, UNCHANGED quotes PROVE QuotesIInv'
BY DEF quotes, QuotesIInv, QuotesTyped

(***************************************************************************)
(* The equity reference                                                    *)
(***************************************************************************)
ReferenceStates == States \cup {NotListed}
ReferenceEvent ==
  {e \in [day : Reference!Days, kind : Reference!Kinds, state : ReferenceStates] :
     e.kind = "ABSENT_START" <=> e.state = NotListed}
Deltas == {<<>>} \cup {<<e>> : e \in ReferenceEvent}
ReferenceRow == [status : {"queued", "running", "retry", "completed", "blocked"}, fresh : BOOLEAN]
LatePhases == {"corporate_actions", "finalize", "complete"}
ReferenceRun == [status : {"queued", "running", "retry", "completed", "blocked"},
                 phase : LatePhases \cup {"reference_snapshots"}]
ReferenceScope == [seen : BOOLEAN, present : BOOLEAN, state : ReferenceStates]
ReferenceJob == [at : LatePhases \cup {"idle", "reference_snapshots", "fetch", "commit"},
                 day : Reference!Days, delta : Deltas, basis : SUBSET Reference!Days]

\* No two events of a day are of a kind.
Distinct(evs) ==
  \A j, k \in DOMAIN evs : evs[j].day = evs[k].day /\ evs[j].kind = evs[k].kind => j = k

ReferenceTyped ==
  /\ provider \in [Reference!Days -> ReferenceStates]
  /\ referenceDay \in [Reference!Days -> ReferenceRow] /\ referenceRun \in ReferenceRun
  /\ scope \in ReferenceScope /\ events \in Seq(ReferenceEvent) /\ Distinct(events)
  /\ \A i \in intervals : i.from \in Reference!Days /\ i.to \in Reference!Days \cup {Sessions + 1}
                          /\ i.state \in States
  /\ lane \in [ReferenceLanes -> ReferenceJob]
  /\ written \in SUBSET Reference!Days /\ disordered \in BOOLEAN

\* Nothing is past the snapshots before all of them are written.
Reached(rows, row, done) ==
  /\ row.phase \in LatePhases => done = Reference!Days
  /\ \A d \in Reference!Days : rows[d].status = "completed" => d \in done

\* What a lane has compared was written; and if it is still all that is, the
\* difference it found still is one.
Compared(j, done, outOfOrder) ==
  /\ j.basis \subseteq done
  /\ j.at \in LatePhases => done = Reference!Days
  /\ j.at = "commit" /\ j.basis = done => outOfOrder \/ j.delta = Reference!Delta(j.day)

\* Event k is the last one up to day d.
LastBy(evs, k, d) ==
  k \in DOMAIN evs /\ evs[k].day <= d /\ \A j \in DOMAIN evs : j > k => evs[j].day > d

\* The events say of day d what the provider said.
Says(prices, evs, d) ==
  \/ prices[d] = NotListed /\ \A k \in DOMAIN evs : evs[k].day > d
  \/ \E k \in DOMAIN evs : LastBy(evs, k, d) /\ evs[k].state = prices[d]

\* The events of the days that are done are in order and say everything of them, and
\* the scope row is as the last of the days left it.
Historic(prices, evs, row, done) ==
  /\ \A k \in DOMAIN evs : evs[k].day \in done
  /\ \A j, k \in DOMAIN evs : j < k => evs[j].day < evs[k].day
  /\ \A d \in done : Says(prices, evs, d)
  /\ \A n \in 0..Sessions : done = 1..n =>
       /\ row.present <=> n # 0 /\ prices[n] # NotListed
       /\ row.present => row.state = prices[n]

\* The inductive invariant.
ReferenceIInv ==
  /\ ReferenceTyped
  /\ Reached(referenceDay, referenceRun, written)
  /\ \A p \in ReferenceLanes : Compared(lane[p], written, disordered)
  /\ disordered \/ Historic(provider, events, scope, written)
  /\ referenceRun.status = "completed" =>
       written = Reference!Days /\ (disordered \/ intervals = Reference!Folded)

\* The sessions are numbers from one.
LEMMA SessionsAre ==
  /\ Reference!Days = 1..Sessions /\ Sessions \in Nat /\ Sessions >= 1
  /\ \A d \in Reference!Days : d \in Nat /\ 1 <= d /\ d <= Sessions
BY LaneBounds DEF Reference!Days

\* The invariant's typing is the type invariant.
LEMMA ReferenceTypes == ASSUME ReferenceIInv PROVE Reference!TypeOK
<1>1. /\ referenceDay \in [Reference!Days -> ReferenceRow] /\ referenceRun \in ReferenceRun
      /\ events \in Seq(ReferenceEvent) /\ Distinct(events) /\ written \subseteq Reference!Days
      /\ \A i \in intervals : i.from \in Reference!Days /\ i.to \in Reference!Days \cup {Sessions + 1}
                              /\ i.state \in States
  BY DEF ReferenceIInv, ReferenceTyped
<1>2. events \in Seq([day : Reference!Days, kind : Reference!Kinds, state : States \cup {NotListed}])
  <2>1. ReferenceEvent
          \subseteq [day : Reference!Days, kind : Reference!Kinds, state : States \cup {NotListed}]
    BY DEF ReferenceEvent, ReferenceStates
  <2> QED BY <1>1, <2>1, SeqMonotonic
<1>3. referenceRun.status \in Reference!ActiveRun \cup {"completed", "blocked"}
      /\ referenceRun.phase \in {"reference_snapshots", "corporate_actions", "finalize", "complete"}
  BY <1>1 DEF ReferenceRun, LatePhases, Reference!ActiveRun
<1> QED BY <1>1, <1>2, <1>3 DEF Distinct, ReferenceRow, Reference!TypeOK

(***************************************************************************)
(* Folding the events                                                      *)
(***************************************************************************)
\* A set of days that is not empty has a first one.
LEMMA FirstDay ==
  ASSUME NEW days \in SUBSET Nat, days # {}
  PROVE  \E d \in days : \A e \in days : d <= e
<1>1. PICK d \in days : \A e \in days : ~(<<e, d>> \in OpToRel(<, Nat))
  BY NatLessThanWellFounded, WFMin
<1>2. ASSUME NEW k \in Nat, NEW m \in Nat, k < m PROVE <<k, m>> \in OpToRel(<, Nat)
  BY <1>2 DEF OpToRel
<1>3. \A e \in days : ~(e < d)
  BY <1>1, <1>2
<1>4. d \in Nat /\ \A e \in days : e \in Nat
  OBVIOUS
<1> QED BY <1>3, <1>4

\* A state lasts until the first of the events behind the one that opened it.
LEMMA NextDayIs ==
  ASSUME events \in Seq(ReferenceEvent), NEW k \in DOMAIN events
  PROVE  /\ Reference!NextDay(k) \in Reference!Days \cup {Sessions + 1}
         /\ \A d \in Reference!Days : d < Reference!NextDay(k)
              <=> \A j \in Reference!Behind(k) : d < events[j].day
<1> DEFINE behind == Reference!Behind(k)
           days == {events[j].day : j \in behind}
<1>1. behind \subseteq DOMAIN events
  BY DEF Reference!Behind
<1>2. \A j \in DOMAIN events : events[j].day \in Reference!Days
  BY DEF ReferenceEvent
<1>3. CASE behind = {}
  <2>1. Reference!NextDay(k) = Sessions + 1
    BY <1>3 DEF Reference!NextDay
  <2> QED BY <1>3, <2>1, SessionsAre
<1>4. CASE behind # {}
  <2>1. days \subseteq Reference!Days /\ days # {}
    BY <1>1, <1>2, <1>4
  <2>2. days \in SUBSET Nat
    BY <2>1, SessionsAre
  <2>3. \E d \in days : \A e \in days : d <= e
    BY <2>1, <2>2, FirstDay
  <2>4. \E d \in days : \A j \in behind : d <= events[j].day
    BY <2>3
  <2>5. Reference!NextDay(k) \in days /\ \A j \in behind : Reference!NextDay(k) <= events[j].day
    BY <1>4, <2>4 DEF Reference!NextDay
  <2>6. PICK j \in behind : Reference!NextDay(k) = events[j].day
    BY <2>5
  <2>7. \A i \in behind : events[i].day \in Nat
    BY <1>1, <1>2, SessionsAre
  <2>8. Reference!NextDay(k) \in Reference!Days /\ Reference!NextDay(k) \in Nat
    BY <2>1, <2>5, SessionsAre
  <2> HIDE DEF days, behind
  <2>9. \A d \in Reference!Days : d < Reference!NextDay(k) <=> \A i \in behind : d < events[i].day
    BY <2>5, <2>6, <2>7, <2>8, SessionsAre
  <2> QED BY <2>8, <2>9 DEF behind
<1> QED BY <1>3, <1>4

\* The intervals are of days and states of the run.
LEMMA FoldedTyped ==
  ASSUME events \in Seq(ReferenceEvent)
  PROVE  \A i \in Reference!Folded : /\ i.from \in Reference!Days
                                     /\ i.to \in Reference!Days \cup {Sessions + 1}
                                     /\ i.state \in States
<1> SUFFICES ASSUME NEW k \in DOMAIN events, events[k].kind # "ABSENT_START"
             PROVE  events[k].day \in Reference!Days /\ events[k].state \in States
  BY NextDayIs DEF Reference!Folded
<1> QED BY DEF ReferenceEvent, ReferenceStates

\* Folded, the events say of each day what the provider said.
LEMMA FoldedFaithful ==
  ASSUME events \in Seq(ReferenceEvent), Historic(provider, events, scope, Reference!Days),
         NEW d \in Reference!Days
  PROVE  {i.state : i \in {j \in Reference!Folded : j.from <= d /\ d < j.to}}
           = {provider[d]} \ {NotListed}
<1> DEFINE Opening == {k \in DOMAIN events : events[k].kind # "ABSENT_START"}
           Covering == {k \in Opening : events[k].day <= d /\ d < Reference!NextDay(k)}
<1>1. \A k \in DOMAIN events :
        /\ events[k].day \in Nat /\ events[k].state \in ReferenceStates
        /\ events[k].kind = "ABSENT_START" <=> events[k].state = NotListed
        /\ k \in Nat
  BY SessionsAre DEF ReferenceEvent
<1>2. \A k \in DOMAIN events : Reference!Behind(k) = {j \in DOMAIN events : j > k}
  <2>1. \A j, k \in DOMAIN events : events[j].day > events[k].day <=> j > k
    BY <1>1 DEF Historic
  <2> QED BY <1>1, <2>1 DEF Reference!Behind
<1>3. \A k \in DOMAIN events : events[k].day <= d /\ d < Reference!NextDay(k) <=> LastBy(events, k, d)
  BY <1>1, <1>2, NextDayIs, SessionsAre DEF LastBy
<1>4. \A j, k \in DOMAIN events : LastBy(events, j, d) /\ LastBy(events, k, d) => j = k
  BY <1>1, SessionsAre DEF LastBy
<1>5. {i.state : i \in {j \in Reference!Folded : j.from <= d /\ d < j.to}}
        = {events[k].state : k \in Covering}
  <2> DEFINE piece(k) == [from |-> events[k].day, to |-> Reference!NextDay(k), state |-> events[k].state]
             over == {j \in Reference!Folded : j.from <= d /\ d < j.to}
  <2>1. Reference!Folded = {piece(k) : k \in Opening}
    BY DEF Reference!Folded
  <2>2. \A k \in Opening : /\ piece(k).from = events[k].day /\ piece(k).to = Reference!NextDay(k)
                            /\ piece(k).state = events[k].state
    OBVIOUS
  <2> HIDE DEF piece
  <2>3. \A i \in over : \E k \in Covering : i = piece(k)
    BY <2>1, <2>2
  <2>4. \A k \in Covering : piece(k) \in over
    BY <2>1, <2>2
  <2> HIDE DEF over
  <2>5. \A i \in over : i.state \in {events[k].state : k \in Covering}
    BY <2>2, <2>3
  <2>6. \A k \in Covering : events[k].state \in {i.state : i \in over}
    BY <2>2, <2>4
  <2>7. {i.state : i \in over} = {events[k].state : k \in Covering}
    BY <2>5, <2>6
  <2> QED BY <2>7 DEF over
<1>6. Covering = {k \in DOMAIN events : events[k].state # NotListed /\ LastBy(events, k, d)}
  BY <1>1, <1>3
<1>7. Says(provider, events, d)
  BY DEF Historic
<1>8. CASE provider[d] = NotListed /\ \A k \in DOMAIN events : events[k].day > d
  <2>1. Covering = {}
    BY <1>1, <1>6, <1>8, SessionsAre DEF LastBy
  <2> QED BY <1>5, <1>8, <2>1
<1>9. CASE \E k \in DOMAIN events : LastBy(events, k, d) /\ events[k].state = provider[d]
  <2>1. PICK k \in DOMAIN events : LastBy(events, k, d) /\ events[k].state = provider[d]
    BY <1>9
  <2>2. Covering = IF provider[d] = NotListed THEN {} ELSE {k}
    BY <1>4, <1>6, <2>1
  <2> HIDE DEF Covering
  <2> QED BY <1>5, <2>1, <2>2
<1> QED BY <1>7, <1>8, <1>9 DEF Says

\* The invariant says that the folded intervals give back the snapshots.
LEMMA ReferenceFaithful == ASSUME ReferenceIInv PROVE Reference!IntervalsFaithful
<1> SUFFICES ASSUME referenceRun.status = "completed", ~disordered, NEW d \in Reference!Days
             PROVE  {i.state : i \in {j \in intervals : j.from <= d /\ d < j.to}}
                      = {provider[d]} \ {NotListed}
  BY DEF Reference!IntervalsFaithful
<1>1. intervals = Reference!Folded /\ Historic(provider, events, scope, Reference!Days)
      /\ events \in Seq(ReferenceEvent)
  BY DEF ReferenceIInv, ReferenceTyped
<1> QED BY <1>1, FoldedFaithful

(***************************************************************************)
(* The steps of the equity reference                                       *)
(***************************************************************************)
LEMMA IdleLane ==
  /\ Reference!Idle \in ReferenceJob /\ Reference!Idle.at = "idle" /\ Reference!Idle.basis = {}
BY SessionsAre DEF Reference!Idle, ReferenceJob, Deltas

\* The invariant of the reference backfill holds at the start.
LEMMA ReferenceInit == ASSUME Reference!Init PROVE ReferenceIInv
<1>1. /\ provider \in [Reference!Days -> ReferenceStates] /\ scope \in ReferenceScope
      /\ events = <<>> /\ intervals = {} /\ written = {} /\ disordered = FALSE /\ ~scope.present
  BY DEF Reference!Init, ReferenceStates, ReferenceScope
<1>2. \A d \in Reference!Days : referenceDay[d] \in ReferenceRow /\ referenceDay[d].status = "queued"
  BY DEF Reference!Init, ReferenceRow
<1>3. referenceDay \in [Reference!Days -> ReferenceRow]
  BY <1>2 DEF Reference!Init
<1>4. referenceRun \in ReferenceRun /\ referenceRun.phase = "reference_snapshots"
      /\ referenceRun.status = "queued"
  BY DEF Reference!Init, ReferenceRun
<1>5. lane \in [ReferenceLanes -> ReferenceJob] /\ \A p \in ReferenceLanes : lane[p] = Reference!Idle
  BY IdleLane DEF Reference!Init
<1>6. events \in Seq(ReferenceEvent) /\ Distinct(events)
  BY <1>1 DEF Distinct
<1>7. ReferenceTyped
  BY <1>1, <1>3, <1>4, <1>5, <1>6 DEF ReferenceTyped
<1>8. Reached(referenceDay, referenceRun, written)
  BY <1>2, <1>4 DEF Reached, LatePhases
<1>9. \A p \in ReferenceLanes : Compared(lane[p], written, disordered)
  BY <1>5, IdleLane DEF Compared, LatePhases
<1>10. Historic(provider, events, scope, written)
  <2>1. \A n \in 0..Sessions : {} = 1..n => n = 0
    <3>1. \A n \in Nat \ {0} : 1 \in 1..n
      OBVIOUS
    <3> QED BY <3>1, SessionsAre
  <2> QED BY <1>1, <2>1 DEF Historic
<1> QED BY <1>4, <1>7, <1>8, <1>9, <1>10 DEF ReferenceIInv

\* What a lane does without writing a day or the intervals.
LEMMA ReferenceRests ==
  ASSUME ReferenceIInv, UNCHANGED <<provider, scope, events, intervals, written, disordered>>,
         referenceDay' \in [Reference!Days -> ReferenceRow], referenceRun' \in ReferenceRun,
         Reached(referenceDay', referenceRun', written),
         referenceRun'.status = "completed" => referenceRun.status = "completed",
         lane' \in [ReferenceLanes -> ReferenceJob],
         \A p \in ReferenceLanes : Compared(lane'[p], written, disordered)
  PROVE  ReferenceIInv'
<1>1. \A d : Reference!Delta(d)' = Reference!Delta(d)
  BY DEF Reference!Delta
<1>2. (\A p \in ReferenceLanes : Compared(lane[p], written, disordered))'
  BY <1>1 DEF Compared
<1>3. Reference!Folded' = Reference!Folded
  BY DEF Reference!Folded, Reference!NextDay, Reference!Behind
<1> QED BY <1>2, <1>3 DEF ReferenceIInv, ReferenceTyped

\* A process whose comparison is still right may move.
LEMMA LaneMoves ==
  ASSUME ReferenceIInv, NEW p \in ReferenceLanes, NEW j \in ReferenceJob,
         lane' = [lane EXCEPT ![p] = j], Compared(j, written, disordered)
  PROVE  /\ lane' \in [ReferenceLanes -> ReferenceJob]
         /\ \A q \in ReferenceLanes : Compared(lane'[q], written, disordered)
BY DEF ReferenceIInv, ReferenceTyped

\* A process that is idle has compared nothing.
LEMMA LaneIdles ==
  ASSUME ReferenceIInv, NEW p \in ReferenceLanes, Reference!ToIdle(p)
  PROVE  /\ lane' \in [ReferenceLanes -> ReferenceJob]
         /\ \A q \in ReferenceLanes : Compared(lane'[q], written, disordered)
<1>1. lane' = [lane EXCEPT ![p] = Reference!Idle]
  BY DEF Reference!ToIdle
<1>2. Compared(Reference!Idle, written, disordered)
  BY IdleLane DEF Compared, LatePhases
<1> QED BY <1>1, <1>2, IdleLane, LaneMoves

\* What the parts of the invariant are.
LEMMA ReferenceIs ==
  ASSUME ReferenceIInv
  PROVE  /\ referenceDay \in [Reference!Days -> ReferenceRow] /\ referenceRun \in ReferenceRun
         /\ Reached(referenceDay, referenceRun, written)
         /\ lane \in [ReferenceLanes -> ReferenceJob]
         /\ \A p \in ReferenceLanes : lane[p] \in ReferenceJob /\ Compared(lane[p], written, disordered)
BY DEF ReferenceIInv, ReferenceTyped

\* A process reads the run.
LEMMA RunRead ==
  ASSUME ReferenceIInv, NEW p \in ReferenceLanes, Reference!ReadRun(p) PROVE ReferenceIInv'
<1> DEFINE j == [lane[p] EXCEPT !.at = referenceRun.phase]
<1>1. /\ lane' = [lane EXCEPT ![p] = j]
      /\ UNCHANGED <<provider, referenceDay, referenceRun, scope, events, intervals, written, disordered>>
  BY ReferenceIs DEF Reference!ReadRun
<1>2. /\ j \in ReferenceJob /\ j.at = referenceRun.phase /\ j.basis = lane[p].basis
      /\ referenceRun.phase # "commit"
  BY ReferenceIs DEF ReferenceJob, ReferenceRun, LatePhases
<1>3. Compared(j, written, disordered)
  BY <1>2, ReferenceIs DEF Compared, Reached
<1> HIDE DEF j
<1> QED BY <1>1, <1>2, <1>3, LaneMoves, ReferenceIs, ReferenceRests

\* A session is claimed.
LEMMA DayClaimed ==
  ASSUME ReferenceIInv, NEW p \in ReferenceLanes, NEW d \in Reference!Days, Reference!ClaimDay(p, d)
  PROVE  ReferenceIInv'
<1> DEFINE j == [Reference!Idle EXCEPT !.at = "fetch", !.day = d]
           r == [referenceRun EXCEPT !.status = "running"]
           row == [status |-> "running", fresh |-> TRUE]
<1>1. /\ lane' = [lane EXCEPT ![p] = j] /\ referenceRun' = r
      /\ referenceDay' = [referenceDay EXCEPT ![d] = row]
      /\ UNCHANGED <<provider, scope, events, intervals, written, disordered>>
  BY DEF Reference!ClaimDay
<1>2. j \in ReferenceJob /\ j.at = "fetch" /\ j.basis = {}
  BY IdleLane DEF ReferenceJob
<1>3. r \in ReferenceRun /\ r.phase = referenceRun.phase /\ r.status = "running"
  BY ReferenceIs DEF ReferenceRun
<1>4. row \in ReferenceRow /\ row.status = "running"
  BY DEF ReferenceRow
<1>5. Compared(j, written, disordered)
  BY <1>2 DEF Compared, LatePhases
<1> HIDE DEF j, r, row
<1>6. referenceDay' \in [Reference!Days -> ReferenceRow] /\ Reached(referenceDay', referenceRun', written)
  BY <1>1, <1>3, <1>4, ReferenceIs DEF Reached
<1> QED BY <1>1, <1>2, <1>3, <1>5, <1>6, LaneMoves, ReferenceRests

\* No session is left to be claimed.
LEMMA DaysAreOver ==
  ASSUME ReferenceIInv, NEW p \in ReferenceLanes, Reference!DaysOver(p) PROVE ReferenceIInv'
<1> DEFINE over == \A d \in Reference!Days : referenceDay[d].status = "completed"
           r == [referenceRun EXCEPT !.phase = "corporate_actions"]
<1>1. /\ referenceRun' = IF over THEN r ELSE referenceRun
      /\ Reference!ToIdle(p)
      /\ UNCHANGED <<provider, referenceDay, scope, events, intervals, written, disordered>>
  BY DEF Reference!DaysOver
<1>2. r \in ReferenceRun /\ r.status = referenceRun.status
  BY ReferenceIs DEF ReferenceRun, LatePhases
<1>3. over => written = Reference!Days
  BY ReferenceIs DEF ReferenceIInv, ReferenceTyped, Reached
<1> HIDE DEF over, r
<1>4. referenceRun' \in ReferenceRun /\ Reached(referenceDay', referenceRun', written)
      /\ referenceRun'.status = referenceRun.status
  BY <1>1, <1>2, <1>3, ReferenceIs DEF Reached
<1> QED BY <1>1, <1>4, LaneIdles, ReferenceIs, ReferenceRests

\* What a session differs in is one event at most.
LEMMA DeltaIs ==
  ASSUME ReferenceIInv, NEW d \in Reference!Days
  PROVE  /\ Reference!Delta(d) \in Deltas
         /\ Reference!Delta(d) # <<>> =>
              Reference!Delta(d)[1].day = d /\ Reference!Delta(d)[1].state = provider[d]
         /\ Reference!Delta(d) = <<>> =>
              IF provider[d] = NotListed THEN ~scope.present
              ELSE scope.present /\ scope.state = provider[d]
<1>1. provider[d] \in ReferenceStates
  BY DEF ReferenceIInv, ReferenceTyped
<1>2. ASSUME NEW kind \in Reference!Kinds, kind = "ABSENT_START" <=> provider[d] = NotListed
      PROVE  /\ Reference!Event(d, kind, provider[d]) \in Deltas
             /\ Reference!Event(d, kind, provider[d]) # <<>>
             /\ Reference!Event(d, kind, provider[d])[1].day = d
             /\ Reference!Event(d, kind, provider[d])[1].state = provider[d]
  BY <1>1, <1>2 DEF Reference!Event, Deltas, ReferenceEvent
<1>3. \/ Reference!Delta(d) = <<>> /\ provider[d] = NotListed /\ ~scope.present
      \/ Reference!Delta(d) = <<>> /\ provider[d] # NotListed /\ scope.present /\ scope.state = provider[d]
      \/ \E kind \in Reference!Kinds : /\ kind = "ABSENT_START" <=> provider[d] = NotListed
                                       /\ Reference!Delta(d) = Reference!Event(d, kind, provider[d])
  <2>1. CASE provider[d] = NotListed
    <3>1. Reference!Delta(d)
            = IF scope.present THEN Reference!Event(d, "ABSENT_START", NotListed) ELSE <<>>
      BY <2>1 DEF Reference!Delta
    <3> QED BY <2>1, <3>1 DEF Reference!Kinds
  <2>2. CASE provider[d] # NotListed /\ ~scope.seen
    <3>1. Reference!Delta(d) = Reference!Event(d, "STATE_INITIAL", provider[d])
      BY <2>2 DEF Reference!Delta
    <3> QED BY <2>2, <3>1 DEF Reference!Kinds
  <2>3. CASE provider[d] # NotListed /\ scope.seen /\ ~scope.present
    <3>1. Reference!Delta(d) = Reference!Event(d, "REAPPEAR", provider[d])
      BY <2>3 DEF Reference!Delta
    <3> QED BY <2>3, <3>1 DEF Reference!Kinds
  <2>4. CASE provider[d] # NotListed /\ scope.seen /\ scope.present
    <3>1. Reference!Delta(d) = IF scope.state # provider[d]
                               THEN Reference!Event(d, "STATE_CHANGE", provider[d]) ELSE <<>>
      BY <2>4 DEF Reference!Delta
    <3> QED BY <2>4, <3>1 DEF Reference!Kinds
  <2> QED BY <2>1, <2>2, <2>3, <2>4
<1>4. <<>> \in Deltas
  BY DEF Deltas
<1> QED BY <1>2, <1>3, <1>4

\* A session's snapshot is compared with the scope row.
LEMMA DayCompared ==
  ASSUME ReferenceIInv, NEW p \in ReferenceLanes, Reference!Compare(p) PROVE ReferenceIInv'
<1> DEFINE delta == Reference!Delta(lane[p].day)
           j == [lane[p] EXCEPT !.at = "commit", !.delta = delta, !.basis = written]
<1>1. /\ lane' = [lane EXCEPT ![p] = j]
      /\ UNCHANGED <<provider, referenceDay, referenceRun, scope, events, intervals, written, disordered>>
  BY DEF Reference!Compare
<1>2. lane[p] \in ReferenceJob /\ lane[p].day \in Reference!Days /\ written \in SUBSET Reference!Days
  BY ReferenceIs DEF ReferenceJob, ReferenceIInv, ReferenceTyped
<1>3. delta \in Deltas
  BY <1>2, DeltaIs
<1>4. j \in ReferenceJob /\ j.at = "commit" /\ j.basis = written /\ j.delta = delta /\ j.day = lane[p].day
  BY <1>2, <1>3 DEF ReferenceJob
<1>5. Compared(j, written, disordered)
  BY <1>4 DEF Compared, LatePhases
<1> HIDE DEF j, delta
<1> QED BY <1>1, <1>4, <1>5, LaneMoves, ReferenceIs, ReferenceRests

\* The corporate actions are loaded.
LEMMA ActionsLoaded ==
  ASSUME ReferenceIInv, NEW p \in ReferenceLanes, Reference!LoadActions(p) PROVE ReferenceIInv'
<1> DEFINE r == [referenceRun EXCEPT !.phase = "finalize"]
<1>1. /\ lane[p].at = "corporate_actions" /\ referenceRun' = r /\ Reference!ToIdle(p)
      /\ UNCHANGED <<provider, referenceDay, scope, events, intervals, written, disordered>>
  BY DEF Reference!LoadActions, Reference!AtPhase
<1>2. r \in ReferenceRun /\ r.status = referenceRun.status
  BY ReferenceIs DEF ReferenceRun, LatePhases
<1>3. written = Reference!Days
  BY <1>1, ReferenceIs DEF Compared, LatePhases
<1> HIDE DEF r
<1>4. Reached(referenceDay', referenceRun', written)
  BY <1>1, <1>3, ReferenceIs DEF Reached
<1> QED BY <1>1, <1>2, <1>4, LaneIdles, ReferenceIs, ReferenceRests

\* The provider fails.
LEMMA ProviderRefuses ==
  ASSUME ReferenceIInv, NEW p \in ReferenceLanes, Reference!ProviderFails(p) PROVE ReferenceIInv'
<1>1. PICK status \in {"retry", "blocked"} :
        /\ referenceRun' = [referenceRun EXCEPT !.status = status]
        /\ referenceDay' = IF lane[p].at = "fetch"
                           THEN [referenceDay EXCEPT ![lane[p].day] = [status |-> status, fresh |-> FALSE]]
                           ELSE referenceDay
  BY DEF Reference!ProviderFails
<1>2. Reference!ToIdle(p) /\ UNCHANGED <<provider, scope, events, intervals, written, disordered>>
  BY DEF Reference!ProviderFails
<1> DEFINE r == [referenceRun EXCEPT !.status = status]
           row == [status |-> status, fresh |-> FALSE]
<1>3. r \in ReferenceRun /\ r.phase = referenceRun.phase /\ r.status = status
  BY ReferenceIs DEF ReferenceRun
<1>4. row \in ReferenceRow /\ row.status = status
  BY DEF ReferenceRow
<1>5. /\ referenceRun' = r
      /\ \/ referenceDay' = referenceDay
         \/ referenceDay' = [referenceDay EXCEPT ![lane[p].day] = row]
  BY <1>1
<1> HIDE DEF r, row
<1>6. referenceDay' \in [Reference!Days -> ReferenceRow] /\ Reached(referenceDay', referenceRun', written)
  BY <1>3, <1>4, <1>5, ReferenceIs DEF Reached
<1> QED BY <1>2, <1>3, <1>5, <1>6, LaneIdles, ReferenceRests

\* A process leaves its loop by an error.
LEMMA LaneEscapes ==
  ASSUME ReferenceIInv, NEW p \in ReferenceLanes, Reference!Escape(p) PROVE ReferenceIInv'
<1>1. /\ Reference!ToIdle(p)
      /\ UNCHANGED <<provider, referenceDay, referenceRun, scope, events, intervals, written, disordered>>
  BY DEF Reference!Escape
<1> QED BY <1>1, LaneIdles, ReferenceIs, ReferenceRests

\* A session looks given up.
LEMMA ReferenceStale ==
  ASSUME ReferenceIInv, NEW d \in Reference!Days, Reference!GoStale(d) PROVE ReferenceIInv'
<1> DEFINE row == [referenceDay[d] EXCEPT !.fresh = FALSE]
<1>1. /\ referenceDay' = [referenceDay EXCEPT ![d] = row]
      /\ UNCHANGED <<provider, referenceRun, scope, events, intervals, lane, written, disordered>>
  BY ReferenceIs DEF Reference!GoStale
<1>2. row \in ReferenceRow /\ row.status = referenceDay[d].status
  BY ReferenceIs DEF ReferenceRow
<1> HIDE DEF row
<1>3. referenceDay' \in [Reference!Days -> ReferenceRow] /\ Reached(referenceDay', referenceRun', written)
  BY <1>1, <1>2, ReferenceIs DEF Reached
<1> QED BY <1>1, <1>3, ReferenceIs, ReferenceRests

\* Nothing is stored twice: the events grow by what is new of a difference.
LEMMA NewIs ==
  ASSUME ReferenceIInv, NEW delta \in Deltas
  PROVE  /\ events \o Reference!New(delta) \in Seq(ReferenceEvent)
         /\ Distinct(events \o Reference!New(delta))
<1>1. events \in Seq(ReferenceEvent) /\ Distinct(events)
  BY DEF ReferenceIInv, ReferenceTyped
<1>2. CASE Reference!New(delta) = <<>>
  BY <1>1, <1>2
<1>3. CASE Reference!New(delta) # <<>>
  <2>1. PICK e \in ReferenceEvent : delta = <<e>>
    BY <1>3 DEF Reference!New, Deltas
  <2>2. /\ Reference!New(delta) = <<e>>
        /\ \A k \in DOMAIN events : ~(events[k].day = e.day /\ events[k].kind = e.kind)
    BY <1>3, <2>1 DEF Reference!New
  <2> QED BY <1>1, <2>2 DEF Distinct
<1> QED BY <1>2, <1>3

\* Sets of the first days are told apart by their last one.
LEMMA FirstDaysDiffer ==
  ASSUME NEW m \in Nat, NEW n \in Nat, 1..m = 1..n PROVE m = n
<1>1. m # 0 => m \in 1..n
  <2>1. m # 0 => m \in 1..m
    OBVIOUS
  <2> QED BY <2>1
<1>2. n # 0 => n \in 1..m
  <2>1. n # 0 => n \in 1..n
    OBVIOUS
  <2> QED BY <2>1
<1> QED BY <1>1, <1>2

\* The next day is written: its difference, if there is one, goes behind the others.
LEMMA NextDayWritten ==
  ASSUME ReferenceIInv, NEW d \in Reference!Days, Historic(provider, events, scope, 1..(d - 1))
  PROVE  Historic(provider, events \o Reference!New(Reference!Delta(d)), Reference!ScopeAfter(d), 1..d)
<1> DEFINE delta == Reference!Delta(d)
<1>1. /\ d \in Nat /\ 1 <= d /\ d <= Sessions /\ events \in Seq(ReferenceEvent)
      /\ \A k \in DOMAIN events : events[k].day \in Nat /\ k \in Nat
      /\ provider[d] \in ReferenceStates /\ scope \in ReferenceScope
  <2>1. \A e \in ReferenceEvent : e.day \in Nat
    BY SessionsAre DEF ReferenceEvent
  <2> QED BY <2>1, SessionsAre DEF ReferenceIInv, ReferenceTyped
<1>2. /\ \A k \in DOMAIN events : 1 <= events[k].day /\ events[k].day <= d - 1
      /\ \A j, k \in DOMAIN events : j < k => events[j].day < events[k].day
      /\ \A b \in 1..(d - 1) : Says(provider, events, b)
      /\ scope.present <=> d - 1 # 0 /\ provider[d - 1] # NotListed
      /\ scope.present => scope.state = provider[d - 1]
  <2>1. d - 1 \in 0..Sessions
    BY <1>1, SessionsAre
  <2> QED BY <1>1, <2>1 DEF Historic
<1>3. delta \in Deltas /\ Reference!New(delta) = delta
  <2>1. delta \in Deltas /\ (delta # <<>> => delta[1].day = d)
    BY DeltaIs
  <2> HIDE DEF delta
  <2> QED BY <1>1, <1>2, <2>1 DEF Reference!New
<1>4. \A n \in 0..Sessions : 1..d = 1..n =>
        /\ Reference!ScopeAfter(d).present <=> n # 0 /\ provider[n] # NotListed
        /\ Reference!ScopeAfter(d).present => Reference!ScopeAfter(d).state = provider[n]
  <2>1. \A n \in 0..Sessions : 1..d = 1..n => n = d
    BY <1>1, FirstDaysDiffer, SessionsAre
  <2>2. /\ Reference!ScopeAfter(d).present <=> provider[d] # NotListed
        /\ Reference!ScopeAfter(d).present => Reference!ScopeAfter(d).state = provider[d]
    BY <1>1 DEF Reference!ScopeAfter, ReferenceScope
  <2> QED BY <1>1, <2>1, <2>2
<1>5. CASE delta = <<>>
  <2>1. events \o Reference!New(delta) = events
    BY <1>1, <1>3, <1>5
  <2>2. IF provider[d] = NotListed THEN ~scope.present ELSE scope.present /\ scope.state = provider[d]
    BY <1>5, DeltaIs
  <2>3. Says(provider, events, d)
    <3>1. CASE d = 1
      <4>1. DOMAIN events = {}
        BY <1>1, <1>2, <3>1
      <4> QED BY <1>2, <2>2, <3>1, <4>1 DEF Says
    <3>2. CASE d # 1
      <4>1. provider[d] = provider[d - 1]
        BY <1>1, <1>2, <2>2, <3>2
      <4>2. d - 1 \in 1..(d - 1)
        BY <1>1, <3>2
      <4>3. Says(provider, events, d - 1)
        BY <1>2, <4>2
      <4> QED BY <1>1, <1>2, <4>1, <4>3 DEF Says, LastBy
    <3> QED BY <3>1, <3>2
  <2>4. \A b \in 1..d : b \in 1..(d - 1) \/ b = d
    BY <1>1
  <2>5. \A k \in DOMAIN events : events[k].day \in 1..d
    BY <1>1, <1>2
  <2> QED BY <1>2, <1>4, <2>1, <2>3, <2>4, <2>5 DEF Historic
<1>6. CASE delta # <<>>
  <2>1. PICK e \in ReferenceEvent : delta = <<e>>
    BY <1>3, <1>6 DEF Deltas
  <2>2. e.day = d /\ e.state = provider[d]
    <3>1. delta[1].day = d /\ delta[1].state = provider[d]
      BY <1>6, DeltaIs
    <3> HIDE DEF delta
    <3> QED BY <2>1, <3>1
  <2> DEFINE evs == events \o Reference!New(delta)
             n == Len(events)
  <2>3. /\ n \in Nat /\ DOMAIN events = 1..n /\ DOMAIN evs = 1..(n + 1) /\ evs[n + 1] = e
        /\ \A k \in 1..n : evs[k] = events[k]
    <3>1. evs = events \o <<e>>
      BY <1>3, <2>1
    <3> HIDE DEF evs
    <3> QED BY <1>1, <3>1
  <2> HIDE DEF evs, n
  <2>4. \A k \in DOMAIN evs : evs[k].day \in 1..d
    BY <1>1, <1>2, <2>2, <2>3
  <2>5. \A j, k \in DOMAIN evs : j < k => evs[j].day < evs[k].day
    BY <1>1, <1>2, <2>2, <2>3
  <2>6. \A b \in 1..d : Says(provider, evs, b)
    <3>1. Says(provider, evs, d)
      <4>1. LastBy(evs, n + 1, d) /\ n + 1 \in DOMAIN evs /\ evs[n + 1].state = provider[d]
        BY <1>1, <2>2, <2>3 DEF LastBy
      <4> QED BY <4>1 DEF Says
    <3>2. ASSUME NEW b \in 1..(d - 1) PROVE Says(provider, evs, b)
      <4>1. Says(provider, events, b)
        BY <1>2
      <4>2. CASE provider[b] = NotListed /\ \A k \in DOMAIN events : events[k].day > b
        <5>1. \A k \in DOMAIN evs : evs[k].day > b
          BY <1>1, <2>2, <2>3, <4>2
        <5> QED BY <4>2, <5>1 DEF Says
      <4>3. ASSUME NEW k \in DOMAIN events, LastBy(events, k, b), events[k].state = provider[b]
            PROVE  Says(provider, evs, b)
        <5>1. LastBy(evs, k, b) /\ k \in DOMAIN evs /\ evs[k].state = provider[b]
          BY <1>1, <2>2, <2>3, <4>3 DEF LastBy
        <5> QED BY <5>1 DEF Says
      <4> QED BY <4>1, <4>2, <4>3 DEF Says
    <3>3. \A b \in 1..d : b \in 1..(d - 1) \/ b = d
      BY <1>1
    <3> QED BY <3>1, <3>2, <3>3
  <2>7. Historic(provider, evs, Reference!ScopeAfter(d), 1..d)
    BY <1>4, <2>4, <2>5, <2>6 DEF Historic
  <2> QED BY <2>7 DEF evs
<1> QED BY <1>5, <1>6

\* The events of a session and the scope row are committed together.
LEMMA DayCommitted ==
  ASSUME ReferenceIInv, NEW p \in ReferenceLanes, Reference!CommitDay(p) PROVE ReferenceIInv'
<1> DEFINE d == lane[p].day
           row == [status |-> "completed", fresh |-> FALSE]
<1>1. /\ lane[p].at = "commit" /\ events' = events \o Reference!New(lane[p].delta)
      /\ scope' = Reference!ScopeAfter(d) /\ referenceDay' = [referenceDay EXCEPT ![d] = row]
      /\ written' = written \cup {d}
      /\ disordered' = (disordered \/ written # 1..(d - 1) \/ lane[p].basis # written)
      /\ UNCHANGED <<provider, referenceRun, intervals>>
      /\ lane' = [lane EXCEPT ![p] = Reference!Idle]
  BY DEF Reference!CommitDay, Reference!ToIdle
<1>2. /\ lane[p] \in ReferenceJob /\ d \in Reference!Days /\ lane[p].delta \in Deltas
      /\ written \in SUBSET Reference!Days /\ disordered \in BOOLEAN
      /\ provider[d] \in ReferenceStates /\ scope \in ReferenceScope
  BY DEF ReferenceIInv, ReferenceTyped, ReferenceJob
<1>3. row \in ReferenceRow
  BY DEF ReferenceRow
<1> HIDE DEF d
<1>4. disordered' \in BOOLEAN
      /\ (~disordered' => ~disordered /\ written = 1..(d - 1) /\ lane[p].basis = written)
  BY <1>1, <1>2
<1>5. /\ referenceDay' \in [Reference!Days -> ReferenceRow] /\ written' \in SUBSET Reference!Days
      /\ lane' \in [ReferenceLanes -> ReferenceJob]
      /\ \A q \in ReferenceLanes : lane'[q] = lane[q] \/ lane'[q] = Reference!Idle
  BY <1>1, <1>2, <1>3, IdleLane, ReferenceIs
<1>6. scope' \in ReferenceScope
  BY <1>1, <1>2 DEF Reference!ScopeAfter, ReferenceScope
<1>7. ReferenceTyped'
  BY <1>1, <1>2, <1>4, <1>5, <1>6, NewIs DEF ReferenceIInv, ReferenceTyped
<1>8. Reached(referenceDay', referenceRun', written')
  <2>1. referenceRun'.phase \in LatePhases => written' = Reference!Days
    BY <1>1, <1>2, ReferenceIs DEF Reached
  <2>2. \A e \in Reference!Days : referenceDay'[e].status = "completed" => e \in written'
    BY <1>1, <1>2, ReferenceIs DEF Reached
  <2> QED BY <2>1, <2>2 DEF Reached
<1>9. (\A q \in ReferenceLanes : Compared(lane[q], written, disordered))'
  <2>1. ASSUME ~disordered', NEW q \in ReferenceLanes PROVE lane[q].basis # written'
    <3>1. d \notin 1..(d - 1)
      BY <1>2, SessionsAre
    <3>2. d \in written' /\ d \notin written /\ lane[q].basis \subseteq written
      BY <1>1, <1>4, <2>1, <3>1, ReferenceIs DEF Compared
    <3> QED BY <3>2
  <2>2. \A q \in ReferenceLanes : lane[q].basis \subseteq written'
          /\ (lane[q].at \in LatePhases => written' = Reference!Days)
    BY <1>1, <1>2, ReferenceIs DEF Compared
  <2>3. Reference!Idle.basis \subseteq written' /\ Reference!Idle.at \notin LatePhases \cup {"commit"}
    BY IdleLane DEF LatePhases
  <2>4. \A q \in ReferenceLanes :
          /\ lane'[q].basis \subseteq written' /\ (lane'[q].at \in LatePhases => written' = Reference!Days)
          /\ lane'[q].at = "commit" /\ lane'[q].basis = written' => disordered'
    BY <1>5, <2>1, <2>2, <2>3
  <2> QED BY <2>4 DEF Compared
<1>10. disordered' \/ Historic(provider', events', scope', written')
  <2> SUFFICES ASSUME ~disordered' PROVE Historic(provider', events', scope', written')
    OBVIOUS
  <2>1. lane[p].delta = Reference!Delta(d) /\ Historic(provider, events, scope, 1..(d - 1))
    BY <1>1, <1>4, ReferenceIs DEF ReferenceIInv, Compared, d
  <2>2. written' = 1..d
    BY <1>1, <1>2, <1>4, SessionsAre
  <2> QED BY <1>1, <1>2, <2>1, <2>2, NextDayWritten
<1>11. referenceRun'.status = "completed" =>
         written' = Reference!Days /\ (disordered' \/ intervals' = Reference!Folded')
  <2> SUFFICES ASSUME referenceRun.status = "completed" PROVE written' = Reference!Days /\ disordered'
    BY <1>1
  <2>1. written = Reference!Days
    BY DEF ReferenceIInv
  <2>2. written # 1..(d - 1)
    BY <1>2, <2>1, SessionsAre
  <2> QED BY <1>1, <1>2, <1>4, <2>1, <2>2
<1> QED BY <1>7, <1>8, <1>9, <1>10, <1>11 DEF ReferenceIInv

\* The intervals are folded from the events.
LEMMA RunFinalized ==
  ASSUME ReferenceIInv, NEW p \in ReferenceLanes, Reference!Finalize(p) PROVE ReferenceIInv'
<1> DEFINE r == [status |-> "completed", phase |-> "complete"]
<1>1. /\ lane[p].at = "finalize" /\ intervals' = Reference!Folded /\ referenceRun' = r
      /\ Reference!ToIdle(p) /\ UNCHANGED <<provider, referenceDay, scope, events, written, disordered>>
  BY DEF Reference!Finalize, Reference!AtPhase
<1>2. r \in ReferenceRun
  BY DEF ReferenceRun, LatePhases
<1>3. written = Reference!Days
  BY <1>1, ReferenceIs DEF Compared, LatePhases
<1> HIDE DEF r
<1>4. Reference!Folded' = Reference!Folded /\ \A d : Reference!Delta(d)' = Reference!Delta(d)
  BY <1>1 DEF Reference!Folded, Reference!NextDay, Reference!Behind, Reference!Delta
<1>5. lane' \in [ReferenceLanes -> ReferenceJob]
      /\ \A q \in ReferenceLanes : Compared(lane'[q], written, disordered)
  BY <1>1, LaneIdles
<1>6. (\A q \in ReferenceLanes : Compared(lane[q], written, disordered))'
  BY <1>1, <1>4, <1>5 DEF Compared
<1>7. ReferenceTyped'
  BY <1>1, <1>2, <1>5, FoldedTyped DEF ReferenceIInv, ReferenceTyped
<1>8. Reached(referenceDay', referenceRun', written')
  BY <1>1, <1>3 DEF ReferenceIInv, Reached
<1> QED BY <1>1, <1>3, <1>4, <1>6, <1>7, <1>8 DEF ReferenceIInv

\* Every step of the reference backfill keeps its invariant.
LEMMA ReferenceNext == ASSUME ReferenceIInv, Reference!Next PROVE ReferenceIInv'
<1>1. ASSUME NEW p \in ReferenceLanes, Reference!Step(p) PROVE ReferenceIInv'
  BY <1>1, RunRead, DaysAreOver, DayCompared, DayCommitted, ActionsLoaded, RunFinalized, DayClaimed
  DEF Reference!Step
<1>2. ASSUME NEW p \in ReferenceLanes, Reference!ProviderFails(p) \/ Reference!Escape(p)
      PROVE  ReferenceIInv'
  BY <1>2, ProviderRefuses, LaneEscapes
<1> QED BY <1>1, <1>2, ReferenceStale DEF Reference!Next

\* So does a step of another lane.
LEMMA ReferenceStutters == ASSUME ReferenceIInv, UNCHANGED reference PROVE ReferenceIInv'
BY ReferenceIs, ReferenceRests DEF reference

(***************************************************************************)
(* The lanes together                                                      *)
(***************************************************************************)
LanesIInv == AnalysisIInv /\ OptionIInv /\ ExecutionIInv /\ QuotesIInv /\ ReferenceIInv

\* The one variable that the parts share is counted up or left alone.
Counted == UNCHANGED disturbances \/ disturbances' = disturbances + 1

\* A step of the option run counts the disturbances up or leaves them alone.
LEMMA OptionCounts == ASSUME Option!Next PROVE Counted
<1>1. ASSUME NEW w \in Option!Workers, Option!Proceed(w) PROVE Counted
  BY <1>1 DEF Counted, Option!Proceed, Option!ClaimByPatch, Option!StoreBucket, Option!Done,
     Option!CloseInTransaction, Option!Commit, Option!CloseByPatch, Option!ReadStatuses,
     Option!WriteRun
<1>2. ASSUME NEW w \in Option!Workers, Option!Loop(w) PROVE Counted
  BY <1>2 DEF Counted, Option!Loop, Option!Reclaim, Option!Claim
<1>3. ASSUME NEW w \in Option!Workers,
             Option!Fails(w) \/ Option!CommitErrs(w) \/ Option!RequestErrs(w) \/ Option!Crash(w)
      PROVE  Counted
  BY <1>3 DEF Counted, Option!Fails, Option!CommitErrs, Option!RequestErrs, Option!Crash, Option!Disturb
<1>4. ASSUME NEW e \in Events, Option!GoStale(e) PROVE Counted
  BY <1>4 DEF Counted, Option!GoStale, Option!Disturb
<1>5. ASSUME NEW w \in Option!Workers, NEW e \in Events, Option!Pick(w, e) PROVE Counted
  BY <1>5 DEF Counted, Option!Pick
<1> QED BY <1>1, <1>2, <1>3, <1>4, <1>5 DEF Option!Next

\* So does one of the execution run.
LEMMA ExecutionCounts == ASSUME Execution!Next PROVE Counted
<1>1. ASSUME NEW w \in MonthWorkers, Execution!Work(w) PROVE Counted
  BY <1>1 DEF Counted, Execution!Work, Execution!Claim, Execution!Store, Execution!Settle,
     Execution!AdvanceRead, Execution!AdvanceWrite, Execution!Trades, Execution!Metrics,
     Execution!Results
<1>2. ASSUME NEW w \in MonthWorkers, Execution!Fail(w) \/ Execution!Unheard(w) \/ Execution!Crash(w)
      PROVE  Counted
  BY <1>2 DEF Counted, Execution!Fail, Execution!Unheard, Execution!Crash, Execution!Disturb
<1>3. ASSUME NEW i \in Execution!Items, Execution!GoStale(i) PROVE Counted
  BY <1>3 DEF Counted, Execution!GoStale, Execution!Disturb
<1>4. ASSUME Execution!Reclaim PROVE Counted
  BY <1>4 DEF Counted, Execution!Reclaim
<1> QED BY <1>1, <1>2, <1>3, <1>4 DEF Execution!Next

\* So does one of the quote days.
LEMMA QuotesCounts == ASSUME Quotes!Next PROVE Counted
<1>1. ASSUME NEW t \in Quotes!Threads, Quotes!Work(t) PROVE Counted
  BY <1>1 DEF Counted, Quotes!Work, Quotes!Claim, Quotes!Drained, Quotes!FinishBare,
     Quotes!FinishMissing, Quotes!Store, Quotes!Finish
<1>2. ASSUME NEW t \in Quotes!Threads, Quotes!Fail(t) \/ Quotes!Die(t) PROVE Counted
  BY <1>2 DEF Counted, Quotes!Fail, Quotes!Die, Quotes!Disturb
<1>3. ASSUME Quotes!Restart \/ Quotes!Reclaim PROVE Counted
  BY <1>3 DEF Counted, Quotes!Restart, Quotes!Reclaim, Quotes!Disturb
<1>4. ASSUME NEW d \in Dates, Quotes!GoStale(d) PROVE Counted
  BY <1>4 DEF Counted, Quotes!GoStale, Quotes!Disturb
<1> QED BY <1>1, <1>2, <1>3, <1>4 DEF Quotes!Next

\* So does one of the reference backfill.
LEMMA ReferenceCounts == ASSUME Reference!Next PROVE Counted
<1>1. ASSUME NEW p \in ReferenceLanes, Reference!Step(p) PROVE Counted
  BY <1>1 DEF Counted, Reference!Step, Reference!ReadRun, Reference!DaysOver, Reference!Compare,
     Reference!CommitDay, Reference!LoadActions, Reference!Finalize, Reference!ClaimDay
<1>2. ASSUME NEW p \in ReferenceLanes, Reference!ProviderFails(p) \/ Reference!Escape(p) PROVE Counted
  BY <1>2 DEF Counted, Reference!ProviderFails, Reference!Escape, Reference!Disturb
<1>3. ASSUME NEW d \in Reference!Days, Reference!GoStale(d) PROVE Counted
  BY <1>3 DEF Counted, Reference!GoStale, Reference!Disturb
<1> QED BY <1>1, <1>2, <1>3 DEF Reference!Next

\* A step of one part leaves the analysis alone.
LEMMA AnalysisRests == ASSUME AnalysisIInv, UNCHANGED analysis, Counted PROVE AnalysisIInv'
<1>1. disturbances \in Nat
  BY DEF AnalysisIInv, AnalysisTyped
<1>2. disturbances' \in Nat
  BY <1>1 DEF Counted
<1> QED BY <1>2, AnalysisStutters

\* All five invariants hold at the start.
LEMMA LanesBegin == Begin => LanesIInv
BY AnalysisInit, OptionInit, ExecutionInit, QuotesInit, ReferenceInit DEF Begin, LanesIInv

\* Either one of the parts takes a step, or none does.
LEMMA LanesStep == LanesIInv /\ [Step]_everything => LanesIInv'
<1> SUFFICES ASSUME LanesIInv, [Step]_everything PROVE LanesIInv'
  OBVIOUS
<1>1. CASE InAnalysis(Next)
  BY <1>1, AnalysisNext, OptionStutters, ExecutionStutters, QuotesStutters, ReferenceStutters
  DEF InAnalysis, LanesIInv
<1>2. CASE InOption(Option!Next)
  BY <1>2, AnalysisRests, OptionCounts, OptionNext, ExecutionStutters, QuotesStutters, ReferenceStutters
  DEF InOption, LanesIInv
<1>3. CASE InExecution(Execution!Next)
  BY <1>3, AnalysisRests, ExecutionCounts, OptionStutters, ExecutionNext, QuotesStutters,
     ReferenceStutters DEF InExecution, LanesIInv
<1>4. CASE InQuotes(Quotes!Next)
  BY <1>4, AnalysisRests, QuotesCounts, OptionStutters, ExecutionStutters, QuotesNext,
     ReferenceStutters DEF InQuotes, LanesIInv
<1>5. CASE InReference(Reference!Next)
  BY <1>5, AnalysisRests, ReferenceCounts, OptionStutters, ExecutionStutters, QuotesStutters,
     ReferenceNext DEF InReference, LanesIInv
<1>6. CASE UNCHANGED everything
  <2>1. UNCHANGED <<analysis, option, execution, quotes, reference>> /\ Counted
    BY <1>6 DEF everything, Counted
  <2> QED BY <2>1, AnalysisRests, OptionStutters, ExecutionStutters, QuotesStutters, ReferenceStutters
          DEF LanesIInv
<1> QED BY <1>1, <1>2, <1>3, <1>4, <1>5, <1>6 DEF Step

\* The five invariants hold in every behaviour of the lanes.
THEOREM LanesInvariant == LanesSpec => []LanesIInv
BY LanesBegin, LanesStep, PTL DEF LanesSpec

\* Every part of the research lanes keeps its types: the rows, the jobs and the
\* copies of rows that a worker carries across its unlocked steps.
THEOREM LanesStayTyped == LanesSpec => []LanesTyped
<1>1. LanesIInv => LanesTyped
  BY AnalysisTypes, OptionTypes, ExecutionTypes, QuotesTypes, ReferenceTypes
  DEF LanesIInv, AnalysisIInv, OptionIInv, ExecutionIInv, LanesTyped
<1> QED BY <1>1, LanesInvariant, PTL

\* What the B-001 analysis has marked stays vouched for by stored evidence, through
\* any interleaving of attempts that die, are reclaimed or are paused
\* (app/b001_analysis.py writes marks and evidence in separate transactions).
THEOREM EvidenceStaysVouched == LanesSpec => []EvidenceVouched
<1>1. LanesIInv => EvidenceVouched
  BY AnalysisVouched DEF LanesIInv
<1> QED BY <1>1, LanesInvariant, PTL

\* The runs of the option events and of the execution validation tell what became of
\* their events and months, though the lanes count and write them in unlocked steps
\* (_refresh_run of app/option_vol.py and of option_convexity_http_worker.py,
\* _queue_analysis_if_ready of app/cint001_execution.py, _process_analysis of
\* app/cint001_execution_v2.py).
THEOREM RunsStayTruthful == LanesSpec => []RunsTruthful
<1>1. LanesIInv => RunsTruthful
  BY OptionTold, ExecutionResult DEF LanesIInv, RunsTruthful
<1> QED BY <1>1, LanesInvariant, PTL

\* A completed quote day names the archive that its snapshots came from, whichever of
\* the two lanes filled it (_process_item of app/cint001_bookticker.py and
\* of app/cint001_tardis_quotes.py); and the intervals that _finalize of
\* app/equity_reference_backfill.py folds say of every session what the provider said.
THEOREM SourcesStayFaithful == LanesSpec => []SourcesFaithful
<1>1. LanesIInv => SourcesFaithful
  BY QuotesSourced, ReferenceFaithful DEF LanesIInv, SourcesFaithful
<1> QED BY <1>1, LanesInvariant, PTL
=============================================================================
