---------------------------- MODULE AgentProofs -----------------------------
(***************************************************************************)
(* Proofs about Agent, for any number of attempts and of faults: a run     *)
(* cancelled at its gate never executes, the reports of a run's end agree, *)
(* a run is reported only when it is gone or the node is drained, two      *)
(* attempts never execute at once, and what executes is charged.           *)
(***************************************************************************)
EXTENDS AgentRuns, FiniteSetTheorems, WellFoundedInduction

\* CHOOSE finds the newest attempt of a nonempty set: the well-ordering of the
\* naturals, applied to the distances from MaxAttempt.
LEMMA MaxExists ==
    ASSUME NEW S, S \subseteq Attempt, S # {}
    PROVE  MaxOf(S) \in S /\ \A y \in S : y <= MaxOf(S)
<1> DEFINE R == OpToRel(<, Nat)
           T == {n \in Nat : \E x \in S : n = MaxAttempt - x}
<1>1. \A i, j \in Nat : i < j => <<i, j>> \in R
    BY Zenon DEF OpToRel
<1>2. IsWellFoundedOn(R, Nat)
    BY NatLessThanWellFounded, Zenon
<1> HIDE DEF R
<1>3. T \subseteq Nat /\ (\A y \in S : MaxAttempt - y \in T) /\ S \subseteq 1..MaxAttempt
    BY MaxAttemptAssumption DEF Attempt
<1> HIDE DEF T
<1>4. T # {}
    BY <1>3, Zenon
<1>5. PICK t \in T : \A u \in T : ~(<<u, t>> \in R)
    BY <1>2, <1>3, <1>4, WFMin, Zenon
<1>6. ASSUME NEW u \in T PROVE t <= u
  <2>1. t \in Nat /\ u \in Nat /\ ~(u < t)
    BY <1>1, <1>3, <1>5, Zenon
  <2>2. QED
    BY <2>1
<1>7. PICK x \in S : t = MaxAttempt - x
    BY <1>5, Zenon DEF T
<1>8. \A y \in S : y <= x
    BY <1>3, <1>6, <1>7, MaxAttemptAssumption
<1>9. QED
    BY <1>8, Zenon DEF MaxOf

(***************************************************************************)
(* The invariant, and what it gives.                                       *)
(***************************************************************************)
LEMMA InitInv == Init => AgentInv
<1> SUFFICES ASSUME Init PROVE AgentInv
    BY Zenon
<1>1. /\ Free \in Ledger /\ NoSession \in Session /\ ~Exists(NoSession)
      /\ NoSession.exit = "none" /\ NoSession.desc = "none"
      /\ NoLaunch.att = 0 /\ NoLaunch.pc = "idle" /\ NoReplay.att = 0
      /\ NoLaunch \in Launch
      /\ NoRep \in Report
      /\ NoReplay \in Replay
    BY NothingTypes, Zenon DEF NoSession, Session, Exists
<1>2. ASSUME NEW a \in Attempt
      PROVE  /\ sess[a] = NoSession /\ sup[a] = "none" /\ gate[a] = "open" /\ ~work[a]
             /\ rep[a] = NoRep /\ reported[a] = {} /\ a # 0
    BY DEF Init, StepdInit, Attempt
<1>3. StepdTypeOK
    BY <1>1, Zenon DEF Init, StepdInit, StepdTypeOK, SupState, GateState, ClnState
<1>4. TypeOK
  <2>1. rep \in [Attempt -> Report]
    BY <1>1, Zenon DEF Init
  <2>2. /\ cancelling \in [Attempt -> {"none", "drop", "tail"}]
        /\ reported \in [Attempt -> SUBSET {"real", "lost"}]
        /\ running \in 0..MaxAttempt /\ cur \in 0..MaxAttempt /\ events \in 0..MaxEvents
    BY MaxAttemptAssumption, MaxEventsAssumption DEF Init
  <2>3. slot \in Slot /\ ledger \in Ledger
    BY <1>1, NoSlotType, Zenon DEF Init
  <2>4. QED
    BY <1>1, <1>2, <1>3, <2>1, <2>2, <2>3, Zenon DEF Init, TypeOK, Slot, Ledger
<1>5. OneLaunch
    BY <1>1, <1>2, NoSlotType, Zenon DEF Init, OneLaunch
<1>6. ASSUME NEW a \in Attempt PROVE Good(a)
  <2>1. Known(a) = {}
    BY <1>1, <1>2, NoRepIdle DEF Init, Known
  <2>2. QED
    BY <1>1, <1>2, <2>1, NoRepIdle, Zenon DEF Init, Good, Gated, Settled, Gone, Startable
<1>7. QED
    BY <1>4, <1>5, <1>6, Zenon DEF AgentInv

LEMMA StutterKeeps ==
    ASSUME AgentInv, UNCHANGED vars
    PROVE  AgentInv'
<1>1. UNCHANGED <<sess, sup, gate, work, cln, up, running, slot, ledger, launch, rep, replay,
                  cancelling, recov, cur, net, reported, drained, events>>
    BY Zenon DEF vars, svars, avars, cvars
<1>2. TypeOK'
    BY <1>1, Zenon DEF AgentInv, TypeOK, StepdTypeOK
<1>3. LaunchQuiet
    BY <1>1, Zenon DEF LaunchQuiet, AgentInv, OneLaunch
<1>4. \A b \in Attempt : Same(b)
    BY <1>1, Zenon DEF Same
<1>5. QED
    BY <1>2, <1>3, <1>4, SameCalm, CalmStep, Zenon DEF AgentInv

LEMMA NextKeeps == AgentInv /\ [Next]_vars => AgentInv'
<1> SUFFICES ASSUME AgentInv, [Next]_vars PROVE AgentInv'
    BY Zenon
<1>1. CASE Environment
    BY <1>1, DispatchKeeps, SupMovesSteps, AgentCrashKeeps, Zenon DEF Environment
<1>2. CASE Launching
    BY Zenon, <1>2, LaunchRecvKeeps, FenceOlderRunKeeps, LaunchReserveKeeps, LaunchSpawnKeeps,
       LaunchFailsKeeps, LaunchClaimKeeps, LaunchCommitKeeps DEF Launching
<1>3. CASE AgentStart
    BY <1>3, MaxExists, AgentStartKeeps, Zenon
<1>4. CASE Reconcile
    BY <1>4, BooksSteps, Zenon
<1>5. CASE ReplaySend
    BY <1>5, ReplaySendKeeps, Zenon
<1>6. ASSUME NEW a \in Attempt, Supervisor(a) \/ PushUnanswered(a) \/ Expiry(a)
      PROVE  AgentInv'
    BY <1>6, SupervisorKeeps, SupMovesSteps, Zenon
<1>7. ASSUME NEW a \in Attempt, Handling(a)
      PROVE  AgentInv'
    BY <1>7, StartRecvKeeps, CancelRecvKeeps, BooksSteps, Zenon DEF Handling
<1>8. ASSUME NEW a \in Attempt, Reporting(a) \/ ReplayStart(a)
      PROVE  AgentInv'
    BY <1>8, ClaimSteps, RepReleaseKeeps, RepSendKeeps, RepFinalKeeps, ReplayStartKeeps, Zenon
        DEF Reporting
<1>9. ASSUME NEW a \in Attempt, Recovering(a) \/ Sweeping(a)
      PROVE  AgentInv'
    BY <1>9, RecoveryReportKeeps, ClaimSteps, SupMovesSteps, PruneKeeps, Zenon
        DEF Recovering, Sweeping
<1>10. QED
    BY <1>1, <1>2, <1>3, <1>4, <1>5, <1>6, <1>7, <1>8, <1>9, StutterKeeps, Zenon DEF Next

\* The invariant holds along every behaviour of the agent, its supervisors and
\* the controller's calls, for any number of attempts and of crashes.
THEOREM AgentInvariant == Spec => []AgentInv
<1>1. QED
    BY InitInv, NextKeeps, PTL DEF Spec

\* Every variable keeps its type, and a tracked entry that claim_stepd removed
\* stays removed while its reporter is at work.
THEOREM TypesHold == Spec => []TypeOK
<1>1. AgentInv => TypeOK
    BY Zenon DEF AgentInv
<1>2. QED
    BY <1>1, AgentInvariant, PTL

\* When the controller has a run's exit on record, the run's cgroup is empty or
\* the controller was told to drain the node (report_runtime_completion), for
\* any number of run attempts, supervisor deaths and agent restarts.
THEOREM ReportsFollowReap == Spec => []ReportedMeansGone
<1>1. AgentInv => ReportedMeansGone
    BY Zenon DEF AgentInv, Good, Gone, ReportedMeansGone
<1>2. QED
    BY <1>1, AgentInvariant, PTL

\* Every report of a run's end carries the same exit, however often it is
\* reported and by whichever of the push, the watchdog, the replay and the
\* recovery: an exit is invented only when the log holds none, and logged first.
THEOREM ReportsNeverDiffer == Spec => []ReportsAgree
<1>1. AgentInv => ReportsAgree
  <2> SUFFICES ASSUME AgentInv, NEW a \in Attempt
               PROVE  Cardinality(reported[a]) <= 1
    BY Zenon DEF ReportsAgree
  <2>1. reported[a] \subseteq Known(a) /\ Settled(a)
    BY Zenon DEF AgentInv, TypeOK, Known, Good
  <2>2. reported[a] = {} \/ reported[a] = {"real"} \/ reported[a] = {"lost"}
    BY <2>1, Zenon DEF Settled
  <2>3. /\ Cardinality({}) = 0 /\ Cardinality({"real"}) = 1 /\ Cardinality({"lost"}) = 1
    BY FS_EmptySet, FS_Singleton, Zenon
  <2>4. QED
    BY <2>2, <2>3
<1>2. QED
    BY <1>1, AgentInvariant, PTL

\* Nothing reopens a cancelled gate: only start_job and cancel_job touch it.
LEMMA GateStaysCancelled ==
    ASSUME NEW a \in Attempt, AgentInv, [Next]_vars, gate[a] = "cancelled"
    PROVE  gate'[a] = "cancelled"
<1>1. gate \in [Attempt -> GateState]
    BY Zenon DEF AgentInv, TypeOK, StepdTypeOK
<1>2. ASSUME NEW b \in Attempt, StartRecv(b)
      PROVE  gate'[a] = "cancelled"
    BY <1>1, <1>2, Zenon DEF StartRecv, ClaimDecision, svars
<1>3. ASSUME NEW b \in Attempt, CancelRecv(b)
      PROVE  gate'[a] = "cancelled"
    BY <1>1, <1>3, Zenon DEF CancelRecv, ClaimDecision
<1>4. CASE gate' = gate
    BY <1>4, Zenon
<1>5. Environment => gate' = gate
    BY Zenon DEF Environment, Dispatch, OrphanEnds, SupervisorDies, SupDies, AgentCrash, svars
<1>6. Launching => gate' = gate
    BY Zenon DEF Launching, LaunchRecv, FenceOlderRun, LaunchReserve, LaunchSpawn, LaunchFails,
           LaunchClaim, LaunchCommit, svars
<1>7. AgentStart \/ Reconcile \/ ReplaySend => gate' = gate
    BY Zenon DEF AgentStart, Reconcile, ReplaySend, svars
<1>8. ASSUME NEW b \in Attempt,
             Supervisor(b) \/ PushUnanswered(b) \/ Expiry(b) \/ CancelDrop(b) \/ CancelTail(b)
      PROVE  gate' = gate
    BY <1>8, Zenon DEF Supervisor, SupStep, SupPublish, SupGiveUpAtGate, SupLaunchWorkload,
                SupWorkloadExits, SupFails, SupRecordExit, SupTeardown, PushUnanswered,
                SupPushGivesUp, Expiry, CleanupExpires, CancelDrop, CancelTail, svars
<1>9. ASSUME NEW b \in Attempt, Reporting(b) \/ ReplayStart(b)
      PROVE  gate' = gate
    BY <1>9, Zenon DEF Reporting, WatchdogClaims, PushDelivered, RepRelease, RepSend, RepFinal,
                ReplayStart, svars
<1>10. ASSUME NEW b \in Attempt, Recovering(b) \/ Sweeping(b)
       PROVE  gate' = gate
    BY <1>10, Zenon DEF Recovering, RecoveryReport, Rejected, RecoveredClaims, Sweeping, RetryCleanup,
                 Quarantine, Prune, svars
<1>11. UNCHANGED vars => gate' = gate
    BY Zenon DEF vars, svars
<1>12. QED
    BY <1>2, <1>3, <1>4, <1>5, <1>6, <1>7, <1>8, <1>9, <1>10, <1>11, Zenon DEF Next, Handling

\* A run whose start gate took a Shutdown never executes, whatever Start calls
\* are still on their way and whoever crashes meanwhile (claim_decision).
THEOREM CancelledRunsNeverStart == Spec => CancelledNeverStarts
<1>1. ASSUME NEW a \in Attempt
      PROVE  Spec => [](gate[a] = "cancelled" => []~work[a])
  <2> DEFINE Shut == gate[a] = "cancelled"
             Idle == ~work[a]
  <2>1. AgentInv /\ Shut => Idle
    BY Zenon DEF AgentInv, Good, Gated
  <2>2. AgentInv /\ [Next]_vars /\ Shut => Shut'
    BY GateStaysCancelled, Zenon
  <2>3. QED
    BY <2>1, <2>2, AgentInvariant, PTL DEF Spec
<1>2. QED
    BY <1>1, Zenon DEF CancelledNeverStarts

(***************************************************************************)
(* Putting the steps together.                                             *)
(***************************************************************************)
LEMMA InitRuns == Init => RunInv
<1> SUFFICES ASSUME Init PROVE RunInv
  BY Zenon
<1>1. /\ slot = NoSlot /\ launch = NoLaunch /\ running = 0 /\ up = TRUE /\ net = {}
      /\ NoSlot.att = 0 /\ NoLaunch.att = 0 /\ NoLaunch.pc = "idle"
  BY NothingTypes, Zenon DEF Init
<1>2. ASSUME NEW a \in Attempt
      PROVE  sup[a] = "none" /\ ~work[a] /\ cancelling[a] = "none" /\ a # 0
  <2>1. sup[a] = "none" /\ ~work[a]
    BY DEF Init, StepdInit
  <2>2. cancelling[a] = "none"
    BY DEF Init
  <2>3. a # 0
    BY DEF Attempt
  <2> QED BY <2>1, <2>2, <2>3, Zenon
<1>3. Own
  BY <1>1, Zenon DEF Own
<1>4. ASSUME NEW a \in Attempt PROVE ~Armed(a) /\ Over(a) /\ Run(a)
  <2>1. ~Armed(a)
    BY <1>2, Zenon DEF Armed
  <2> QED BY <1>1, <1>2, <2>1, Zenon DEF Over, Run, Traced, Tracked
<1> QED BY <1>3, <1>4, Zenon DEF RunInv, OlderRunsOver

LEMMA StutterRuns ==
    ASSUME AgentInv, RunInv, UNCHANGED vars
    PROVE  RunInv'
<1>1. UNCHANGED <<sess, sup, gate, work, cln, up, running, slot, ledger, launch, rep, replay,
                  cancelling, recov, cur, net, reported, drained, events>>
  BY Zenon DEF vars, svars, avars, cvars
<1>2. OwnQuiet /\ \A b \in Attempt : Apart(b) /\ Kept(b)
  BY <1>1, Zenon DEF OwnQuiet, Apart, Kept, RunInv, Own
<1> QED BY <1>2, ApartStep, Zenon

LEMMA NextRuns == AgentInv /\ RunInv /\ [Next]_vars => RunInv'
<1> SUFFICES ASSUME AgentInv, RunInv, [Next]_vars PROVE RunInv'
  BY Zenon
<1>1. CASE Environment
  BY <1>1, DispatchRuns, FadingSteps, AgentCrashRuns, Zenon DEF Environment
<1>2. CASE Launching
  BY <1>2, LaunchRecvRuns, FenceOlderRunRuns, LaunchReserveRuns, LaunchSpawnRuns,
     LaunchFailsRuns, LaunchClaimRuns, LaunchCommitRuns, Zenon DEF Launching
<1>3. CASE AgentStart \/ Reconcile \/ ReplaySend
  BY <1>3, AgentStartRuns, MaxExists, BooksRuns, ReplaySendRuns, Zenon
<1>4. ASSUME NEW a \in Attempt, Supervisor(a) \/ PushUnanswered(a) \/ Expiry(a)
      PROVE  RunInv'
  BY <1>4, SupervisorRuns, FadingSteps, Zenon
<1>5. ASSUME NEW a \in Attempt, Handling(a)
      PROVE  RunInv'
  BY <1>5, StartRecvRuns, CancelRecvRuns, BooksRuns, Zenon DEF Handling
<1>6. ASSUME NEW a \in Attempt, Reporting(a) \/ ReplayStart(a)
      PROVE  RunInv'
  BY <1>6, ClaimsRuns, RepReleaseRuns, RepSendRuns, RepFinalRuns, ReplayStartRuns, Zenon
      DEF Reporting
<1>7. ASSUME NEW a \in Attempt, Recovering(a) \/ Sweeping(a)
      PROVE  RunInv'
  BY <1>7, RecoveryReportRuns, ClaimsRuns, FadingSteps, PruneRuns, Zenon DEF Recovering, Sweeping
<1> QED BY <1>1, <1>2, <1>3, <1>4, <1>5, <1>6, <1>7, StutterRuns, Zenon DEF Next

LEMMA RunsInvariant == Spec => [](AgentInv /\ RunInv)
<1>1. Init => AgentInv /\ RunInv
  BY InitInv, InitRuns, Zenon
<1>2. AgentInv /\ RunInv /\ [Next]_vars => (AgentInv /\ RunInv)'
  BY NextKeeps, NextRuns, Zenon
<1> QED BY <1>1, <1>2, PTL DEF Spec

\* Two attempts of a job never execute on the node at once: whatever is
\* redelivered, fenced, crashed or recovered, fence_older_runs has put an end to
\* every older run before a newer one is launched, and what is over stays over.
THEOREM RunsNeverOverlap == Spec => []OneRunAtATime
<1>1. AgentInv /\ RunInv => OneRunAtATime
  <2> SUFFICES ASSUME AgentInv, RunInv, NEW a \in Attempt, NEW b \in Attempt, work[a], work[b], a # b
               PROVE  FALSE
    BY Zenon DEF OneRunAtATime
  <2>1. sup[a] # "none" /\ sup[b] # "none"
    BY Zenon DEF AgentInv, Good, Gated
  <2>2. a < b \/ b < a
    BY DEF Attempt
  <2> QED BY <2>1, <2>2, Zenon DEF RunInv, OlderRunsOver, Fenced, Over
<1> QED BY <1>1, RunsInvariant, PTL

\* While the agent is up, a run that executes is charged in the node's ledger,
\* has a cleanup record, or has a reporter about to release it: no restart and
\* no report leaves a workload on devices that could be lent again.
THEOREM WorkloadsAreCharged == Spec => []LedgerCoversWorkload
<1>1. AgentInv /\ RunInv => LedgerCoversWorkload
  BY Zenon DEF RunInv, Run, Traced, Tracked, LedgerCoversWorkload
<1> QED BY <1>1, RunsInvariant, PTL

=============================================================================
