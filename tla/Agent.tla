-------------------------------- MODULE Agent --------------------------------
(***************************************************************************)
(* The node agent (spurd) around the sessions of StepdSession: its three   *)
(* in-memory maps (the tracked run, the tracked supervisor, the node's     *)
(* allocation ledger), the launch, start and cancel handlers, the three    *)
(* ways a run's end is found (the supervisor's push, the crash watchdog,   *)
(* the replay of durable records), and the agent's own crash and restart.  *)
(*                                                                         *)
(* The controller is the environment: it dispatches attempt after attempt, *)
(* possibly while an older one still runs (a requeue frees the nodes       *)
(* before their processes are killed), may cancel any attempt it           *)
(* dispatched, and records the exits reported to it.  Calls to the agent   *)
(* are delivered late, in any order, once or not at all; a report reaches  *)
(* the controller or not, and its reply comes back or not.                 *)
(***************************************************************************)
EXTENDS StepdSession

CONSTANT
    MaxEvents    \* bound: supervisor deaths, agent crashes and cancels, together

ASSUME MaxEventsAssumption == MaxEvents \in Nat

VARIABLES
    up,        \* the agent process runs
    running,   \* AgentService.running: the tracked run's attempt, 0 for none
    slot,      \* AgentService.stepds for the batch step: attempt and descriptor copy
    ledger,    \* NodeAllocation's owner for the job: attempt, and still launching
    launch,    \* the launch_job call holding the job's lifecycle guard
    rep,       \* Attempt -> the reporter that claimed the attempt's session
    replay,    \* the replay loop's report in progress
    cancelling,\* Attempt -> how far its cancel_job call is
    recov,     \* attempts whose recovery report is still owed
    cur,       \* the controller's current attempt
    net,       \* launch and start calls sent to the agent and not yet delivered
    reported,  \* Attempt -> exits the controller recorded
    drained,   \* the controller quarantined the node
    events     \* disturbances so far

avars == <<up, running, slot, ledger, launch, rep, replay, cancelling, recov>>
cvars == <<cur, net, reported, drained, events>>
vars == <<svars, avars, cvars>>

NoSlot == [att |-> 0, desc |-> "none"]
Free == [att |-> 0, launching |-> FALSE]
NoLaunch == [pc |-> "idle", att |-> 0, todo |-> {}]
NoRep == [pc |-> "none", by |-> "none", exit |-> "none", quar |-> FALSE]
NoReplay == [att |-> 0, exit |-> "none", quar |-> FALSE]

Slot == [att : 0..MaxAttempt, desc : {"none", "gate", "run", "prov"}]
Ledger == [att : 0..MaxAttempt, launching : BOOLEAN]
Launch == [pc : {"idle", "fence", "spawn", "wait", "commit"},
           att : 0..MaxAttempt, todo : SUBSET Attempt]
Report == [pc : {"none", "claimed", "send", "final"}, by : {"none", "watchdog", "push"},
           exit : {"none", "real", "lost"}, quar : BOOLEAN]
Replay == [att : 0..MaxAttempt, exit : {"none", "real", "lost"}, quar : BOOLEAN]
Call == [op : {"launch", "start"}, att : Attempt]

\* The type of the state; and the tracked entry that claim_stepd removed stays
\* removed while its reporter is at work.
TypeOK ==
    /\ StepdTypeOK
    /\ up \in BOOLEAN
    /\ running \in 0..MaxAttempt
    /\ slot \in Slot
    /\ ledger \in Ledger
    /\ launch \in Launch
    /\ rep \in [Attempt -> Report]
    /\ replay \in Replay
    /\ cancelling \in [Attempt -> {"none", "drop", "tail"}]
    /\ recov \subseteq Attempt
    /\ cur \in 0..MaxAttempt
    /\ net \subseteq Call
    /\ reported \in [Attempt -> SUBSET {"real", "lost"}]
    /\ drained \in BOOLEAN
    /\ events \in 0..MaxEvents
    /\ \A a \in Attempt : rep[a] # NoRep => slot.att # a

Init ==
    /\ StepdInit
    /\ up = TRUE
    /\ running = 0
    /\ slot = NoSlot
    /\ ledger = Free
    /\ launch = NoLaunch
    /\ rep = [a \in Attempt |-> NoRep]
    /\ replay = NoReplay
    /\ cancelling = [a \in Attempt |-> "none"]
    /\ recov = {}
    /\ cur = 0
    /\ net = {}
    /\ reported = [a \in Attempt |-> {}]
    /\ drained = FALSE
    /\ events = 0

(***************************************************************************)
(* The controller and the network                                          *)
(***************************************************************************)
Dispatch ==
    /\ cur < MaxAttempt
    /\ cur' = cur + 1
    /\ net' = net \cup {[op |-> "launch", att |-> cur + 1]}
    /\ UNCHANGED <<svars, avars, reported, drained, events>>

(***************************************************************************)
(* stepd_liveness of the session on disk: a provisional descriptor answers *)
(* for the agent that claimed it, a published one for its supervisor.      *)
(***************************************************************************)
Stale(a) ==
    /\ Exists(sess[a])
    /\ IF sess[a].desc = "prov" THEN ~(up /\ launch.att = a) ELSE ~Alive(a)

(***************************************************************************)
(* release_stepd_tracking: nothing is released until the cgroup is reaped  *)
(* or the exit was reported.  The tracked supervisor goes if it is this    *)
(* very descriptor; the tracked run and the ledger go only with the last   *)
(* supervisor of the attempt, and only if they still are this attempt's.   *)
(* m is what it may change: session, slot, running and ledger.  A reporter *)
(* that claimed the session passes d = "claimed": its entry is gone.       *)
(***************************************************************************)
Mem(a) == [sess |-> sess[a], slot |-> slot, running |-> running, ledger |-> ledger]

Releasing(l, a) == IF l.att = a THEN Free ELSE l       \* release_job_if

DropOwn(m, a) ==
    IF m.running = a
    THEN [sess |-> m.sess, slot |-> m.slot, running |-> 0, ledger |-> Releasing(m.ledger, a)]
    ELSE m

ReleaseTracking(m, a, d, p) ==
    LET freed == IF m.slot = [att |-> a, desc |-> d] THEN [m EXCEPT !.slot = NoSlot] ELSE m
        last == IF freed.slot.att = a THEN freed ELSE DropOwn(freed, a)
    IN  IF p.ok \/ Reported(m.sess)
        THEN [last EXCEPT !.sess = record_resources_released(@, p.cln # "none")]
        ELSE m

\* The state after a step whose memory effect on attempt a is m and whose cgroup
\* effect is p.
Becomes(a, m, p) ==
    /\ sess' = [sess EXCEPT ![a] = m.sess]
    /\ slot' = m.slot
    /\ running' = m.running
    /\ ledger' = m.ledger
    /\ work' = [work EXCEPT ![a] = p.work]
    /\ cln' = [cln EXCEPT ![a] = p.cln]

(***************************************************************************)
(* launch_job, under the job's lifecycle guard.                            *)
(***************************************************************************)
LaunchRecv(a) ==
    /\ up
    /\ launch = NoLaunch
    /\ [op |-> "launch", att |-> a] \in net
    /\ net' = net \ {[op |-> "launch", att |-> a]}
    /\ launch' = [pc |-> "fence", att |-> a,
                  todo |-> {b \in 1..(a - 1) : slot.att = b \/ Exists(sess[b]) \/ work[b]}]
    /\ UNCHANGED <<svars, up, running, slot, ledger, rep, replay, cancelling, recov,
                   cur, reported, drained, events>>

\* fence_older_runs, one older run: stop its supervisor, confirm its cgroup is
\* empty, drop it from the tracked map and mark its session released.  The
\* launch is refused when the old workload does not go.
FenceOlderRun_Unconfirmed(b) ==
    /\ launch.pc = "fence"
    /\ b \in launch.todo
    /\ sup' = [sup EXCEPT ![b] = IF sess[b].desc # "prov" /\ Alive(b) THEN "gone" ELSE @]
    /\ launch' = [launch EXCEPT !.todo = @ \ {b}]
    /\ slot' = IF slot.att = b THEN NoSlot ELSE slot
    /\ sess' = [sess EXCEPT ![b] = record_resources_released(@, cln[b] # "none")]
    /\ UNCHANGED <<gate, work, cln, up, running, ledger, rep, replay, cancelling, recov, cvars>>
FenceOlderRun(b) ==
    /\ launch.pc = "fence"
    /\ b \in launch.todo
    /\ sup' = [sup EXCEPT ![b] = IF sess[b].desc # "prov" /\ Alive(b) THEN "gone" ELSE @]
    /\ \E ok \in ReapOutcomes(b) :
          /\ work' = [work EXCEPT ![b] = ~ok]
          /\ launch' = IF ok THEN [launch EXCEPT !.todo = @ \ {b}] ELSE NoLaunch
          /\ slot' = IF ok /\ slot.att = b THEN NoSlot ELSE slot
          /\ sess' = IF ok
                     THEN [sess EXCEPT ![b] = record_resources_released(@, cln[b] # "none")]
                     ELSE sess
    /\ UNCHANGED <<gate, cln, up, running, ledger, rep, replay, cancelling, recov, cvars>>

\* allocate_local_resources: refuse while any cleanup is pending, or when the
\* ledger or the slot belong to a newer attempt; else reserve.
LaunchReserve ==
    /\ launch.pc = "fence"
    /\ launch.todo = {}
    /\ LET a == launch.att
           ok == CleanupReady /\ slot.att < a /\ ledger.att <= a /\ ~ledger.launching
       IN  /\ ledger' = IF ok THEN [att |-> a, launching |-> TRUE] ELSE ledger
           /\ launch' = IF ok THEN [launch EXCEPT !.pc = "spawn"] ELSE NoLaunch
    /\ UNCHANGED <<svars, up, running, slot, rep, replay, cancelling, recov, cvars>>

\* launch_stepd: claim the session directory (an existing one only if it is
\* stale and holds no exit), publish it provisionally, spawn the supervisor.
LaunchSpawn ==
    /\ launch.pc = "spawn"
    /\ LET a == launch.att IN
          /\ Exists(sess[a]) => Stale(a) /\ sess[a].exit = "none"
          /\ sess' = [sess EXCEPT ![a] = [NoSession EXCEPT !.desc = "prov"]]
          /\ sup' = [sup EXCEPT ![a] = "boot"]
    /\ launch' = [launch EXCEPT !.pc = "wait"]
    /\ UNCHANGED <<gate, work, cln, up, running, slot, ledger, rep, replay, cancelling,
                   recov, cvars>>

\* A prolog or spawn failure, a supervisor that is not ready in time: stop it,
\* cleanup_unstarted_stepd (a recorded exit is kept), and the reservation guard
\* gives the reservation back if it still is this attempt's.
LaunchFails ==
    /\ launch.pc \in {"spawn", "wait"}
    /\ LET a == launch.att
           spawned == launch.pc = "wait"
       IN  /\ sup' = IF spawned THEN [sup EXCEPT ![a] = "gone"] ELSE sup
           /\ sess' = IF spawned /\ sess[a].exit = "none"
                      THEN [sess EXCEPT ![a] = NoSession] ELSE sess
           /\ ledger' = Releasing(ledger, a)
    /\ launch' = NoLaunch
    /\ UNCHANGED <<gate, work, cln, up, running, slot, rep, replay, cancelling, recov, cvars>>

\* wait_for_stepd answered (the supervisor serves its socket), and the slot is
\* claimed: claim_stepd_slot yields to a newer attempt, and the session is then
\* discarded and the reservation given back.
LaunchClaim ==
    /\ launch.pc = "wait"
    /\ sup[launch.att] = "gate"
    /\ LET a == launch.att
           won == slot.att <= a
       IN  /\ slot' = IF won THEN [att |-> a, desc |-> "gate"] ELSE slot
           /\ launch' = IF won THEN [launch EXCEPT !.pc = "commit"] ELSE NoLaunch
           /\ sup' = IF won THEN sup ELSE [sup EXCEPT ![a] = "gone"]
           /\ sess' = IF won THEN sess ELSE [sess EXCEPT ![a] = NoSession]
           /\ ledger' = IF won THEN ledger ELSE Releasing(ledger, a)
    /\ UNCHANGED <<gate, work, cln, up, running, rep, replay, cancelling, recov, cvars>>

\* commit_reservation, under the running lock: the run is tracked, and the
\* controller, if it still wants this attempt, opens the gate; or the
\* reservation was reclaimed meanwhile and the session is discarded.
LaunchCommit ==
    /\ launch.pc = "commit"
    /\ LET a == launch.att
           committed == ledger.att = a
           discard == ~committed /\ slot = [att |-> a, desc |-> "gate"]
       IN  /\ ledger' = IF committed THEN [ledger EXCEPT !.launching = FALSE] ELSE ledger
           /\ running' = IF committed THEN a ELSE running
           /\ net' = IF committed /\ cur = a THEN net \cup {[op |-> "start", att |-> a]} ELSE net
           /\ slot' = IF discard THEN NoSlot ELSE slot
           /\ sup' = IF discard THEN [sup EXCEPT ![a] = "gone"] ELSE sup
           /\ sess' = IF discard THEN [sess EXCEPT ![a] = NoSession] ELSE sess
           /\ \E ok \in ReapOutcomes(a) :
                 work' = IF discard THEN [work EXCEPT ![a] = ~ok] ELSE work
    /\ launch' = NoLaunch
    /\ UNCHANGED <<gate, cln, up, rep, replay, cancelling, recov, cur, reported, drained,
                   events>>

(***************************************************************************)
(* start_job and cancel_job                                                *)
(***************************************************************************)
\* start_job for a tracked supervisor on a node with no pending cleanup.  A
\* waiting supervisor takes the decision, a running one acknowledges; one that
\* refuses (cancelled) or is gone is stopped and its tracking released.
StartRecv(a) ==
    /\ up
    /\ [op |-> "start", att |-> a] \in net
    /\ net' = net \ {[op |-> "start", att |-> a]}
    /\ IF slot.att # a \/ ~CleanupReady
       THEN UNCHANGED <<svars, slot, running, ledger>>
       ELSE LET decided == ClaimDecision(gate[a], "released")
            IN  /\ gate' = IF sup[a] = "gate" THEN [gate EXCEPT ![a] = decided] ELSE gate
                /\ IF \/ sup[a] = "gate" /\ decided = "released"
                      \/ sup[a] = "work"
                   THEN UNCHANGED <<sess, sup, work, cln, slot, running, ledger>>
                   ELSE \E p \in PrepareOutcomes(a) :
                          /\ sup' = [sup EXCEPT ![a] = "gone"]
                          /\ Becomes(a, ReleaseTracking(Mem(a), a, slot.desc, p), p)
    /\ UNCHANGED <<up, launch, rep, replay, cancelling, recov, cur, reported, drained,
                   events>>

\* cancel_job, the signal, for any attempt the controller ever dispatched: a
\* supervised run gets a Shutdown (at the gate it decides the gate, later it
\* only signals the workload); a tracked run with no supervisor is dropped; a
\* run this node does not have is left alone.
CancelRecv(a) ==
    /\ up
    /\ a <= cur
    /\ cancelling[a] = "none"
    /\ events < MaxEvents
    /\ events' = events + 1
    /\ gate' = IF slot.att = a /\ sup[a] = "gate"
               THEN [gate EXCEPT ![a] = ClaimDecision(@, "cancelled")] ELSE gate
    /\ cancelling' = [cancelling EXCEPT
                        ![a] = IF slot.att # a /\ running = a THEN "drop" ELSE "tail"]
    /\ UNCHANGED <<sess, sup, work, cln, up, running, slot, ledger, launch, rep, replay, recov,
                   cur, net, reported, drained>>

\* drop_tracked_job, under the lifecycle guard: not while the attempt's cleanup
\* is pending.
CancelDrop(a) ==
    /\ cancelling[a] = "drop"
    /\ launch = NoLaunch
    /\ LET dropped == cln[a] = "none" /\ running = a
       IN  /\ running' = IF dropped THEN 0 ELSE running
           /\ ledger' = IF dropped THEN Free ELSE ledger
           /\ slot' = IF dropped /\ slot.att = a THEN NoSlot ELSE slot
    /\ cancelling' = [cancelling EXCEPT ![a] = "tail"]
    /\ UNCHANGED <<svars, up, launch, rep, replay, recov, cvars>>

\* cancel_job, the tail: with no tracked run, a reservation still launching is
\* given back, if it is the cancelled attempt's.
CancelTail(a) ==
    /\ cancelling[a] = "tail"
    /\ ledger' = IF running = 0 THEN Releasing(ledger, a) ELSE ledger
    /\ cancelling' = [cancelling EXCEPT ![a] = "none"]
    /\ UNCHANGED <<svars, up, running, slot, launch, rep, replay, recov, cvars>>

\* start_monitor's backstop: a ledger entry with no tracked run is reclaimed,
\* one still launching after LAUNCHING_TTL.
Reconcile ==
    /\ up
    /\ running = 0
    /\ ledger # Free
    /\ ledger' = Free
    /\ UNCHANGED <<svars, up, running, slot, launch, rep, replay, cancelling, recov, cvars>>

(***************************************************************************)
(* The end of a run.  claim_stepd removes the tracked entry, so that one   *)
(* reporter speaks for it: the watchdog (fence_dead_stepd) or the push     *)
(* (handle_completion_notification).                                       *)
(***************************************************************************)
Claim_KeepsEntry(a, by, e) ==
    /\ UNCHANGED slot
    /\ rep' = [rep EXCEPT ![a] = [pc |-> "claimed", by |-> by, exit |-> e,
                                  quar |-> FALSE]]
Claim(a, by, e) ==
    /\ slot' = NoSlot
    /\ rep' = [rep EXCEPT ![a] = [pc |-> "claimed", by |-> by, exit |-> e,
                                  quar |-> FALSE]]

\* monitor_stepd_liveness, and a cancel that finds the supervisor dead.
WatchdogClaims(a) ==
    /\ up
    /\ slot.att = a
    /\ slot.desc # "prov"
    /\ ~Alive(a)
    /\ Claim(a, "watchdog", "none")
    /\ UNCHANGED <<svars, up, running, ledger, launch, replay, cancelling, recov, cvars>>

\* The push of a tracked session claims it; for any other, an unreported exit
\* is deferred to the replay and anything else acknowledged.
PushDelivered(a) ==
    /\ up
    /\ sup[a] = "push"
    /\ rep[a] = NoRep
    /\ IF slot.att = a
       THEN Claim(a, "push", "real") /\ UNCHANGED svars
       ELSE /\ sup' = [sup EXCEPT ![a] = "gone"]
            /\ UNCHANGED <<sess, gate, work, cln, slot, rep>>
    /\ UNCHANGED <<up, running, ledger, launch, replay, cancelling, recov, cvars>>

\* The claimed reporter first settles the exit (a dead supervisor's recorded
\* one, or a SIGKILL it appends), releases what may be released, and decides
\* whether it may report: the session is readable, and its cgroup is gone or
\* its cleanup has expired.
MayReport_WhenReaped(a, p) == Exists(sess[a]) /\ p.ok
MayReport(a, p) == Exists(sess[a]) /\ (p.ok \/ p.cln \in {"expired", "acked"})

\* Whether fence_dead_stepd has to invent the exit it reports.
ExitUnknown_Always(a) == rep[a].by = "watchdog"
ExitUnknown(a) == rep[a].by = "watchdog" /\ sess[a].exit = "none"

RepRelease(a) ==
    /\ rep[a].pc = "claimed"
    /\ \E p \in PrepareOutcomes(a) :
         LET lost == ExitUnknown(a)
             e == CASE rep[a].by = "push" -> "real"
                    [] lost -> "lost"
                    [] OTHER -> sess[a].exit
             m == IF lost THEN [Mem(a) EXCEPT !.sess = ObserveExit(@, "lost")] ELSE Mem(a)
         IN  /\ Becomes(a, ReleaseTracking(m, a, "claimed", p), p)
             /\ rep' = [rep EXCEPT ![a] =
                          [pc |-> IF MayReport(a, p) THEN "send" ELSE "final",
                           by |-> rep[a].by, exit |-> e, quar |-> ~p.ok]]
    /\ UNCHANGED <<sup, gate, up, launch, replay, cancelling, recov, cvars>>

\* report_completion reaches the controller or not; once it has, the reply may
\* still be lost, and only a reply is made durable (first the quarantine, then
\* the acknowledgement).  An expired cleanup reports with a drain.
Deliver_NoDrain(a, e, quar, got) ==
    /\ reported' = IF got THEN [reported EXCEPT ![a] = @ \cup {e}] ELSE reported
    /\ UNCHANGED drained
Deliver(a, e, quar, got) ==
    /\ reported' = IF got THEN [reported EXCEPT ![a] = @ \cup {e}] ELSE reported
    /\ drained' = (drained \/ (got /\ quar))

Acknowledge(a, quar) ==
    LET c == IF quar /\ cln[a] # "none" THEN "acked" ELSE cln[a]
    IN  /\ sess' = [sess EXCEPT ![a] = acknowledge_completion(@, c # "none")]
        /\ cln' = [cln EXCEPT ![a] = c]

RepSend(a) ==
    /\ rep[a].pc = "send"
    /\ \E got \in BOOLEAN, reply \in BOOLEAN :
          /\ reply => got
          /\ Deliver(a, rep[a].exit, rep[a].quar, got)
          /\ IF reply THEN Acknowledge(a, rep[a].quar) ELSE UNCHANGED <<sess, cln>>
    /\ rep' = [rep EXCEPT ![a].pc = "final"]
    /\ UNCHANGED <<sup, gate, work, up, running, slot, ledger, launch, replay, cancelling,
                   recov, cur, net, events>>

\* The second release, which a recorded report permits, and the answer to a
\* push, after which the supervisor exits (acknowledging again is idempotent).
RepFinal(a) ==
    /\ rep[a].pc = "final"
    /\ \E p \in PrepareOutcomes(a) :
          Becomes(a, ReleaseTracking(Mem(a), a, "claimed", p), p)
    /\ sup' = [sup EXCEPT ![a] = IF rep[a].by = "push" /\ @ = "push" THEN "gone" ELSE @]
    /\ rep' = [rep EXCEPT ![a] = NoRep]
    /\ UNCHANGED <<gate, up, launch, replay, cancelling, recov, cvars>>

(***************************************************************************)
(* retry_unacknowledged_stepd_completions: every dead supervisor's         *)
(* unacknowledged exit is reported again, then its tracking released with  *)
(* the descriptor read from disk; expired cleanups quarantine the node.    *)
(***************************************************************************)
ReplayStart(a) ==
    /\ up
    /\ replay = NoReplay
    /\ Stale(a)
    /\ sess[a].exit # "none"
    /\ ~sess[a].acked
    /\ \E p \in PrepareOutcomes(a) :
          /\ work' = [work EXCEPT ![a] = p.work]
          /\ cln' = [cln EXCEPT ![a] = p.cln]
          /\ replay' = IF MayReport(a, p)
                        THEN [att |-> a, exit |-> sess[a].exit, quar |-> ~p.ok]
                        ELSE NoReplay
    /\ UNCHANGED <<sess, sup, gate, up, running, slot, ledger, launch, rep, cancelling, recov,
                   cvars>>

ReplaySend ==
    /\ replay # NoReplay
    /\ LET a == replay.att IN
       \E got \in BOOLEAN, reply \in BOOLEAN, p \in PrepareOutcomes(a) :
          /\ reply => got
          /\ Deliver(a, replay.exit, replay.quar, got)
          /\ IF reply
             THEN LET c == IF replay.quar /\ cln[a] # "none" THEN "acked" ELSE cln[a]
                      acked == [Mem(a) EXCEPT !.sess = acknowledge_completion(@, c # "none")]
                      settled == IF p.ok \/ cln[a] = "none" THEN p ELSE [p EXCEPT !.cln = c]
                  IN  IF Exists(acked.sess)
                      THEN Becomes(a, ReleaseTracking(acked, a, sess[a].desc, settled), settled)
                      ELSE Becomes(a, acked, [work |-> work[a], cln |-> c])
             ELSE UNCHANGED <<sess, slot, running, ledger, work, cln>>
    /\ replay' = NoReplay
    /\ UNCHANGED <<sup, gate, up, launch, rep, cancelling, recov, cur, net, events>>

\* retry_cleanup: a recorded cgroup is reaped again.
RetryCleanup(a) ==
    /\ up
    /\ cln[a] # "none"
    /\ cln' = [cln EXCEPT ![a] = "none"]
    /\ work' = [work EXCEPT ![a] = FALSE]
    /\ UNCHANGED <<sess, sup, gate, avars, cvars>>

\* quarantine_expired_cleanup: the controller is asked to drain the node, and
\* its reply recorded.
Quarantine(a) ==
    /\ up
    /\ cln[a] = "expired"
    /\ drained' = TRUE
    /\ \E reply \in BOOLEAN : cln' = IF reply THEN [cln EXCEPT ![a] = "acked"] ELSE cln
    /\ UNCHANGED <<sess, sup, gate, work, avars, cur, net, reported, events>>

\* prune_finalized.
Prune(a) ==
    /\ up
    /\ Exists(sess[a])
    /\ sess' = [sess EXCEPT ![a] = Sweep(@, cln[a] # "none")]
    /\ UNCHANGED <<sup, gate, work, cln, avars, cvars>>

(***************************************************************************)
(* Crash, restart and recovery                                             *)
(***************************************************************************)
SupervisorDies(a) ==
    /\ events < MaxEvents
    /\ events' = events + 1
    /\ SupDies(a)
    /\ UNCHANGED <<avars, cur, net, reported, drained>>

AgentCrash ==
    /\ up
    /\ events < MaxEvents
    /\ events' = events + 1
    /\ up' = FALSE
    /\ running' = 0
    /\ slot' = NoSlot
    /\ ledger' = Free
    /\ launch' = NoLaunch
    /\ rep' = [a \in Attempt |-> NoRep]
    /\ replay' = NoReplay
    /\ cancelling' = [a \in Attempt |-> "none"]
    /\ recov' = {}
    /\ UNCHANGED <<svars, cur, net, reported, drained>>

MaxOf(S) == IF S = {} THEN 0 ELSE CHOOSE x \in S : \A y \in S : y <= x

\* main: sessions with a live supervisor are recovered, and so are dead ones
\* whose cgroup would not empty and whose exit is not reported; every other
\* dead session is settled.  A dead supervisor that recorded no exit gets a
\* lost one.  The newest recovered attempt is tracked and put back on the
\* ledger (recover_stepds, adopt_stepds, replay_adopted_allocations), and each
\* recovered session owes the controller a recovery report.
AgentStart ==
    /\ ~up
    /\ LET stale == {a \in Attempt : Stale(a)}
           live == {a \in Attempt : Exists(sess[a]) /\ ~Stale(a)}
       IN  \E cleaned \in SUBSET stale :
             /\ \A a \in stale \ cleaned : work[a]
             /\ LET held == {a \in stale \ cleaned : ~Reported(sess[a])}
                    kept == live \cup held
                    newest == MaxOf(kept)
                IN  /\ work' = [a \in Attempt |-> work[a] /\ a \notin cleaned]
                    /\ cln' = [a \in Attempt |->
                                 CASE a \in cleaned -> "none"
                                   [] a \in stale \ cleaned /\ cln[a] = "none" -> "pending"
                                   [] OTHER -> cln[a]]
                    /\ sess' = [a \in Attempt |->
                                  LET known == IF a \in stale /\ sess[a].exit = "none"
                                               THEN ObserveExit(sess[a], "lost")
                                               ELSE sess[a]
                                  IN  IF a \in stale \ held
                                      THEN record_resources_released(known, a \notin cleaned)
                                      ELSE known]
                    /\ running' = newest
                    /\ slot' = IF kept = {} THEN NoSlot
                               ELSE [att |-> newest, desc |-> sess[newest].desc]
                    /\ ledger' = IF kept = {} THEN Free
                                 ELSE [att |-> newest, launching |-> FALSE]
                    /\ recov' = kept
    /\ up' = TRUE
    /\ UNCHANGED <<sup, gate, launch, rep, replay, cancelling, cvars>>

\* StepdRecoveryCleanup::reject: the supervisor is stopped, and the session
\* released and forgotten once its cgroup is confirmed empty.
Rejected(a) ==
    /\ sup' = [sup EXCEPT ![a] = IF sess[a].desc # "prov" /\ Alive(a) THEN "gone" ELSE @]
    /\ \E ok \in ReapOutcomes(a) :
          IF ok
          THEN LET p == [ok |-> TRUE, work |-> FALSE, cln |-> "none"]
                   m == ReleaseTracking(Mem(a), a, slot.desc, p)
               IN  Becomes(a, [m EXCEPT !.sess = NoSession], p)
          ELSE UNCHANGED <<sess, slot, running, ledger, work, cln>>
    /\ UNCHANGED gate

\* A recovery report: the controller retains the run it is still waiting for and
\* rejects any other.
RecoveryReport(a) ==
    /\ a \in recov
    /\ recov' = recov \ {a}
    /\ IF cur = a /\ reported[a] = {}
       THEN UNCHANGED <<svars, slot, running, ledger>>
       ELSE Rejected(a)
    /\ UNCHANGED <<up, launch, rep, replay, cancelling, cvars>>

\* monitor_recovered_stepds: a recovered supervisor whose workload is over is
\* claimed like a push.
RecoveredClaims(a) ==
    /\ up
    /\ a \in recov
    /\ slot.att = a
    /\ sup[a] \in {"reap", "push"}
    /\ Claim(a, "push", "real")
    /\ UNCHANGED <<svars, up, running, ledger, launch, replay, cancelling, recov, cvars>>

(***************************************************************************)
(* The specification                                                       *)
(***************************************************************************)
Supervisor(a) == SupStep(a) /\ UNCHANGED <<avars, cvars>>

PushUnanswered(a) ==
    /\ rep[a] = NoRep
    /\ SupPushGivesUp(a)
    /\ UNCHANGED <<avars, cvars>>

Environment ==
    \/ Dispatch
    \/ \E a \in Attempt : OrphanEnds(a) /\ UNCHANGED <<avars, cvars>>
    \/ \E a \in Attempt : SupervisorDies(a)
    \/ AgentCrash

Expiry(a) == CleanupExpires(a) /\ UNCHANGED <<avars, cvars>>

Launching ==
    \/ \E a \in Attempt : LaunchRecv(a)
    \/ \E b \in Attempt : FenceOlderRun(b)
    \/ LaunchReserve
    \/ LaunchSpawn
    \/ LaunchFails
    \/ LaunchClaim
    \/ LaunchCommit

Handling(a) == StartRecv(a) \/ CancelRecv(a) \/ CancelDrop(a) \/ CancelTail(a)

Reporting(a) ==
    \/ WatchdogClaims(a)
    \/ PushDelivered(a)
    \/ RepRelease(a)
    \/ RepSend(a)
    \/ RepFinal(a)

Recovering(a) == RecoveryReport(a) \/ RecoveredClaims(a)

Sweeping(a) == RetryCleanup(a) \/ Quarantine(a) \/ Prune(a)

Next ==
    \/ Environment
    \/ Launching
    \/ AgentStart
    \/ Reconcile
    \/ ReplaySend
    \/ \E a \in Attempt :
          \/ Supervisor(a)
          \/ PushUnanswered(a)
          \/ Expiry(a)
          \/ Handling(a)
          \/ Reporting(a)
          \/ ReplayStart(a)
          \/ Recovering(a)
          \/ Sweeping(a)

Spec == Init /\ [][Next]_vars

\* What the agent's tasks and the supervisor do in a loop, they keep doing: the
\* agent is restarted, the watchdog and the retry loop tick, a supervisor past
\* its workload's exit runs to its end, a cleanup deadline passes.  The
\* controller answers some of the reports it is sent again and again.
Fairness ==
    /\ WF_vars(AgentStart)
    /\ SF_vars(ReplaySend /\ reported'[replay.att] # {})
    /\ \A a \in Attempt :
          /\ WF_vars(sup[a] # "work" /\ Supervisor(a))
          /\ WF_vars(PushDelivered(a) \/ PushUnanswered(a))
          /\ WF_vars(WatchdogClaims(a))
          /\ WF_vars(RepRelease(a))
          /\ WF_vars(RepSend(a))
          /\ WF_vars(RepFinal(a))
          /\ WF_vars(Expiry(a))
          /\ SF_vars(ReplayStart(a) /\ UNCHANGED work)

FairSpec == Spec /\ Fairness

(***************************************************************************)
(* Properties                                                              *)
(***************************************************************************)
\* Two runs of a job never have processes on the node together.  The controller
\* may dispatch a run while the previous one still executes here (a requeue
\* frees its nodes first); launch_job fences older runs before it reserves, and
\* start_job refuses while a cleanup is pending.
OneRunAtATime ==
    \A a, b \in Attempt : work[a] /\ work[b] => a = b

\* When the controller has a run's exit on record, the run's cgroup is empty or
\* the controller was told to drain the node: report_runtime_completion waits
\* for the reap, and reports an expired cleanup only together with the drain.
ReportedMeansGone ==
    \A a \in Attempt : reported[a] # {} => ~work[a] \/ drained

\* However often a run's end is reported (by the push, the watchdog, the replay
\* after a lost reply or after a restart), every report carries the same exit:
\* a SIGKILL is invented only when the log holds no exit, and is logged first.
ReportsAgree ==
    \A a \in Attempt : Cardinality(reported[a]) <= 1

\* While the agent runs, the resources of a workload that lives are held: the
\* ledger charges its attempt, or a durable cleanup record closes the node to
\* new work.  The one gap is fence_dead_stepd between claim_stepd and its first
\* release: a cancel in that window finds a tracked run without a supervisor
\* and frees it, before the cleanup record is written.
LedgerCoversWorkload ==
    \A a \in Attempt :
        up /\ work[a] => ledger.att = a \/ cln[a] # "none" \/ rep[a].pc = "claimed"

\* A run whose start gate took a Shutdown never executes, whatever Start calls
\* are still on their way (claim_decision).
CancelledNeverStarts ==
    \A a \in Attempt : [](gate[a] = "cancelled" => []~work[a])

\* A run that was started and whose supervisor is past its workload, or dead, is
\* reported to the controller in the end, whichever of the supervisor and the
\* agent crash on the way, unless a newer run has replaced it.
EndIsReported ==
    \A a \in Attempt :
        (sess[a].desc = "run" /\ sup[a] # "work") ~> (reported[a] # {} \/ cur > a)

=============================================================================
