----------------------------- MODULE AgentRuns ------------------------------
(***************************************************************************)
(* A second inductive invariant of Agent, on top of the one of AgentSteps: *)
(* an attempt is launched past the end of the older ones, and a workload   *)
(* is found through the agent's maps, its session or its cleanup record.   *)
(***************************************************************************)
EXTENDS AgentReports

(***************************************************************************)
(* One run at a time.  AgentInv says nothing of two attempts together, nor *)
(* of the agent's books; RunInv adds both.                                 *)
(***************************************************************************)
\* The supervisor waits at its gate, and has a Start or one is on its way.
Armed(a) == sup[a] = "gate" /\ (gate[a] = "released" \/ StartCall(a) \in net)

\* The run has no process and will have none.
Over(b) == ~work[b] /\ ~Armed(b)

\* Attempt a was launched past the fencing of attempt b.
Fenced(a, b) ==
    \/ sup[a] # "none"
    \/ launch.att = a /\ (launch.pc # "fence" \/ b \notin launch.todo)

\* The launch fences what its node runs: an older run that could still start
\* has a session, so that fence_older_runs finds it.
OlderRunsOver == \A a, b \in Attempt : b < a /\ Fenced(a, b) => Over(b)

\* The session, the cgroup and the cleanup record of one attempt: nothing is
\* started before the commit, and a workload is found through its session or
\* through its cleanup record, which outlives what was reported of it.
Traced(a) ==
    /\ Armed(a) \/ (sup[a] = "gate" /\ launch.att = a) => Exists(sess[a])
    /\ launch.att = a => ~work[a] /\ gate[a] # "released" /\ StartCall(a) \notin net
    /\ work[a] /\ cln[a] = "none" =>
          /\ Exists(sess[a]) /\ ~Reported(sess[a])
          /\ rep[a].pc # "send" /\ replay.att # a

\* The agent's maps: the tracked supervisor of a launched run has its run
\* tracked and its resources charged; a run that may start, or that executes and
\* has neither a cleanup record nor a reporter about to write one, is tracked.
Tracked(a) ==
    /\ slot.att = a /\ launch.att # a => running = a /\ ledger.att = a
    /\ up /\ sup[a] = "gate" /\ gate[a] = "released" => slot.att = a
    /\ up /\ work[a] /\ cln[a] = "none" => slot.att = a \/ rep[a].pc = "claimed"
    /\ running = a => launch.att # a /\ sup[a] # "none"
    /\ cancelling[a] = "drop" => launch.att # a /\ sup[a] # "none" /\ slot.att # a

\* The slot while a launch is on.
Own ==
    /\ launch.pc = "fence" /\ slot.att # 0 /\ slot.att < launch.att => slot.att \in launch.todo
    /\ launch.pc \in {"spawn", "wait"} => slot.att = 0
    /\ launch.pc = "commit" => slot \in {NoSlot, [att |-> launch.att, desc |-> "gate"]}
    /\ ~up => \A a \in Attempt : cancelling[a] = "none"

Run(a) == Traced(a) /\ Tracked(a)

RunInv == Own /\ OlderRunsOver /\ \A a \in Attempt : Run(a)

(***************************************************************************)
(* A step is plain for attempt b when it starts nothing of b, forgets      *)
(* nothing that holds b's workload, and tracks nothing new.                *)
(***************************************************************************)
Plain(b) ==
    /\ work'[b] => work[b]
    /\ Armed(b)' => Armed(b)
    /\ Armed(b)' \/ (sup'[b] = "gate" /\ launch'.att = b) => Exists(sess'[b])
    /\ launch'.att = b => /\ launch.att = b
                          /\ gate'[b] = "released" => gate[b] = "released"
                          /\ StartCall(b) \in net' => StartCall(b) \in net
    /\ work'[b] /\ cln'[b] = "none" =>
          /\ cln[b] = "none"
          /\ Exists(sess[b]) => Exists(sess'[b])
          /\ Reported(sess'[b]) => Reported(sess[b])
          /\ rep'[b].pc = "send" => rep[b].pc = "send"
          /\ replay'.att = b => replay.att = b
          /\ up' => /\ up
                    /\ slot.att = b => slot'.att = b \/ rep'[b].pc = "claimed"
                    /\ rep[b].pc = "claimed" => rep'[b].pc = "claimed"
    /\ up' /\ sup'[b] = "gate" /\ gate'[b] = "released" => slot'.att = b
    /\ slot'.att = b => /\ slot.att = b
                        /\ launch'.att # b => running' = b /\ ledger'.att = b
    /\ running' = b => running = b
    /\ cancelling'[b] = "drop" => cancelling[b] = "drop"
    /\ sup[b] # "none" => sup'[b] # "none"

LEMMA PlainKeeps ==
    ASSUME NEW b \in Attempt, Run(b), Plain(b)
    PROVE  Run(b)'
<1>1. Traced(b)'
  BY Zenon DEF Run, Plain, Traced
<1>2. Tracked(b)'
  BY Zenon DEF Run, Plain, Tracked
<1> QED BY <1>1, <1>2, Zenon DEF Run

\* What any step may do to a run that is over.
Tame(b) == (work'[b] => work[b] \/ Armed(b)) /\ (Armed(b)' => Armed(b) \/ cur = b)

LEMMA OverStays ==
    ASSUME AgentInv, RunInv, \A b \in Attempt : Tame(b),
           \A a, b \in Attempt : b < a /\ Fenced(a, b)' => Fenced(a, b) \/ Over(b)'
    PROVE  OlderRunsOver'
<1> SUFFICES ASSUME NEW a \in Attempt, NEW b \in Attempt, b < a, Fenced(a, b), Over(b)
             PROVE  Over(b)'
  BY Zenon DEF RunInv, OlderRunsOver
<1>1. a <= cur
  <2>1. launch.att = a => a <= cur
    <3>1. launch.att # 0 => launch.att <= cur
      BY Zenon DEF AgentInv, OneLaunch
    <3>2. a # 0
      BY MaxAttemptAssumption DEF Attempt
    <3> QED BY <3>1, <3>2, Zenon
  <2>2. sup[a] # "none" => ~(a > cur)
    BY Zenon DEF AgentInv, OneLaunch, Unborn
  <2>3. a \in Nat /\ cur \in Nat
    <3>1. cur \in 0..MaxAttempt
      BY Zenon DEF AgentInv, TypeOK
    <3> QED BY <3>1, MaxAttemptAssumption DEF Attempt
  <2> QED BY <2>1, <2>2, <2>3 DEF Fenced
<1>2. cur # b
  BY <1>1, MaxAttemptAssumption DEF AgentInv, TypeOK, Attempt
<1> QED BY <1>2, Zenon DEF Tame, Over

\* Most steps end the launch or leave it, and drop the tracked entry or keep it.
OwnQuiet ==
    /\ launch' \in {launch, NoLaunch}
    /\ slot' \in {slot, NoSlot}
    /\ up' \/ \A a \in Attempt : cancelling'[a] = "none"

LEMMA QuietOwn ==
    ASSUME RunInv, OwnQuiet
    PROVE  Own'
<1>1. NoSlot.att = 0 /\ NoLaunch.pc = "idle"
  BY NothingTypes, Zenon
<1> QED BY <1>1, Zenon DEF RunInv, OwnQuiet, Own

LEMMA LaunchStep ==
    ASSUME AgentInv, RunInv, Own', \A b \in Attempt : Plain(b) \/ (Run(b)' /\ Tame(b)),
           \A a, b \in Attempt : b < a /\ Fenced(a, b)' => Fenced(a, b) \/ Over(b)'
    PROVE  RunInv'
<1>1. ASSUME NEW b \in Attempt PROVE Run(b)' /\ Tame(b)
  BY PlainKeeps, Zenon DEF RunInv, Plain, Tame
<1>2. OlderRunsOver'
  BY <1>1, OverStays, Zenon
<1> QED BY <1>1, <1>2, Zenon DEF RunInv

LEMMA RunStep ==
    ASSUME AgentInv, RunInv, OwnQuiet,
           \A b \in Attempt : /\ Plain(b) \/ (Run(b)' /\ Tame(b))
                              /\ sup'[b] # "none" => sup[b] # "none"
    PROVE  RunInv'
<1>1. Own'
  BY QuietOwn, Zenon
<1>3. ASSUME NEW a \in Attempt, NEW b \in Attempt PROVE Fenced(a, b)' => Fenced(a, b)
  <2>1. launch' = NoLaunch => launch'.att # a
    BY NothingTypes, AttTypes, Zenon DEF AgentInv
  <2> QED BY <2>1, Zenon DEF Fenced, OwnQuiet
<1> QED BY <1>1, <1>3, LaunchStep, Zenon

\* What a step on another attempt leaves of attempt b.
Apart(b) ==
    /\ sess'[b] = sess[b] /\ sup'[b] = sup[b] /\ gate'[b] = gate[b]
    /\ work'[b] = work[b] /\ cln'[b] = cln[b]
    /\ StartCall(b) \in net' => StartCall(b) \in net

\* ... and of the agent's memory about it.
Kept(b) ==
    /\ up' => up
    /\ rep'[b] = rep[b]
    /\ replay'.att = b => replay.att = b
    /\ launch'.att = b => launch.att = b
    /\ slot'.att = b <=> slot.att = b
    /\ slot.att = b /\ launch'.att # b =>
          /\ launch.att # b
          /\ running = b /\ ledger.att = b => running' = b /\ ledger'.att = b
    /\ running' = b => running = b
    /\ cancelling'[b] = "drop" => cancelling[b] = "drop"

LEMMA ApartPlain ==
    ASSUME NEW b \in Attempt, Run(b), Apart(b), Kept(b)
    PROVE  Plain(b)
<1>2. Armed(b)' => Armed(b)
  BY Zenon DEF Armed, Apart
<1>3. Armed(b)' \/ (sup'[b] = "gate" /\ launch'.att = b) => Exists(sess'[b])
  BY <1>2, Zenon DEF Apart, Kept, Run, Traced
<1>4. slot'.att = b /\ launch'.att # b => running' = b /\ ledger'.att = b
  BY Zenon DEF Run, Tracked, Kept
<1> QED BY <1>2, <1>3, <1>4, Zenon DEF Plain, Apart, Kept, Run, Tracked

(***************************************************************************)
(* The supervisor's steps.                                                 *)
(***************************************************************************)
\* The agent and the network take no part.
Aside == UNCHANGED <<up, running, slot, ledger, launch, rep, replay, cancelling, cur, net>>

LEMMA AsideStep ==
    ASSUME AgentInv, RunInv, NEW a \in Attempt, Aside, \A b \in Attempt \ {a} : Apart(b),
           Plain(a) \/ (Run(a)' /\ Tame(a)), sup'[a] # "none" => sup[a] # "none"
    PROVE  RunInv'
<1>1. OwnQuiet
  BY Zenon DEF Aside, OwnQuiet, RunInv, Own
<1>2. ASSUME NEW b \in Attempt \ {a} PROVE Plain(b) /\ (sup'[b] # "none" => sup[b] # "none")
  <2>1. Kept(b)
    BY Zenon DEF Aside, Kept
  <2> QED BY <2>1, ApartPlain, Zenon DEF RunInv, Apart
<1> QED BY <1>1, <1>2, RunStep, Zenon

\* The supervisor moves on or dies, the cgroup may empty, and its cleanup record
\* goes only with it.
Fading(a) ==
    /\ sess'[a] = sess[a] /\ gate'[a] = gate[a]
    /\ sup'[a] = sup[a] \/ (sup[a] # "none" /\ sup'[a] \notin {"none", "gate"})
    /\ work'[a] => work[a]
    /\ work'[a] /\ cln'[a] = "none" => cln[a] = "none"

LEMMA FadingPlain ==
    ASSUME NEW a \in Attempt, Run(a), Aside, Fading(a)
    PROVE  Plain(a)
<1>1. Armed(a)' => Armed(a)
  BY Zenon DEF Armed, Fading, Aside
<1>2. Armed(a)' \/ (sup'[a] = "gate" /\ launch'.att = a) => Exists(sess'[a])
  BY <1>1, Zenon DEF Fading, Aside, Run, Traced
<1> QED BY <1>1, <1>2, Zenon DEF Plain, Fading, Aside, Run, Tracked

LEMMA PrepareFacts ==
    ASSUME NEW a \in Attempt, NEW p \in PrepareOutcomes(a)
    PROVE  /\ p.work \in BOOLEAN /\ p.ok \in BOOLEAN
           /\ p.work <=> ~p.ok
           /\ p.work => work[a] /\ p.cln # "none"
<1> DEFINE c == IF cln[a] = "none" THEN "pending" ELSE cln[a]
<1>1. CASE p = [ok |-> TRUE, work |-> FALSE, cln |-> "none"]
    BY <1>1, Zenon
<1>2. CASE work[a] /\ p = [ok |-> FALSE, work |-> TRUE, cln |-> c]
  <2>1. c # "none"
    BY Zenon
  <2> QED BY <1>2, <2>1, Zenon
<1> QED BY <1>1, <1>2, Zenon DEF PrepareOutcomes

LEMMA FadingSteps ==
    ASSUME AgentInv, RunInv, NEW a \in Attempt,
           \/ /\ SupGiveUpAtGate(a) \/ SupWorkloadExits(a) \/ SupFails(a) \/ SupTeardown(a)
              /\ UNCHANGED <<avars, cvars>>
           \/ PushUnanswered(a)
           \/ OrphanEnds(a) /\ UNCHANGED <<avars, cvars>>
           \/ SupervisorDies(a)
           \/ Expiry(a)
           \/ RetryCleanup(a)
           \/ Quarantine(a)
    PROVE  RunInv'
<1>1. /\ sup \in [Attempt -> SupState] /\ work \in [Attempt -> BOOLEAN]
      /\ cln \in [Attempt -> ClnState]
    BY Zenon DEF AgentInv, TypeOK, StepdTypeOK
<1>2. SUFFICES Aside /\ Fading(a) /\ \A b \in Attempt \ {a} : Apart(b)
  BY FadingPlain, AsideStep, Zenon DEF RunInv, Fading
<1>3. CASE SupGiveUpAtGate(a) /\ UNCHANGED <<avars, cvars>>
  BY <1>1, <1>3, Zenon DEF SupGiveUpAtGate, Aside, Fading, Apart, avars, cvars
<1>4. CASE SupWorkloadExits(a) /\ UNCHANGED <<avars, cvars>>
  BY <1>1, <1>4, Zenon DEF SupWorkloadExits, Aside, Fading, Apart, avars, cvars
<1>5. CASE /\ SupFails(a) \/ SupTeardown(a)
           /\ UNCHANGED <<avars, cvars>>
  <2>1. PICK p \in PrepareOutcomes(a) : /\ work' = [work EXCEPT ![a] = p.work]
                                        /\ cln' = [cln EXCEPT ![a] = p.cln]
    BY <1>5, Zenon DEF SupFails, SupTeardown
  <2>2. p.work => work[a] /\ p.cln # "none"
    BY PrepareFacts, Zenon
  <2>3. work'[a] = p.work /\ cln'[a] = p.cln
    BY <1>1, <2>1, Zenon
  <2> QED BY <1>1, <1>5, <2>1, <2>2, <2>3, Zenon
          DEF SupFails, SupTeardown, Aside, Fading, Apart, avars, cvars
<1>6. CASE PushUnanswered(a) \/ (OrphanEnds(a) /\ UNCHANGED <<avars, cvars>>)
  BY <1>1, <1>6, Zenon DEF PushUnanswered, SupPushGivesUp, OrphanEnds, Aside, Fading, Apart, avars, cvars
<1>7. CASE SupervisorDies(a)
  BY <1>1, <1>7, Zenon DEF SupervisorDies, SupDies, Alive, Aside, Fading, Apart, avars, cvars
<1>8. CASE Expiry(a) \/ RetryCleanup(a) \/ Quarantine(a)
  BY <1>1, <1>8, Zenon DEF Expiry, CleanupExpires, RetryCleanup, Quarantine, Aside, Fading, Apart, avars, cvars
<1> QED BY <1>3, <1>4, <1>5, <1>6, <1>7, <1>8, Zenon

LEMMA SupPublishRuns ==
    ASSUME AgentInv, RunInv, NEW a \in Attempt, SupPublish(a), UNCHANGED <<avars, cvars>>
    PROVE  RunInv'
<1>1. /\ sup \in [Attempt -> SupState] /\ sess \in [Attempt -> Session]
      /\ Gated(a) /\ Run(a) /\ sup[a] = "boot"
  BY Zenon DEF AgentInv, TypeOK, StepdTypeOK, Good, RunInv, SupPublish
<1>2. Aside /\ \A b \in Attempt \ {a} : Apart(b)
  BY <1>1, Zenon DEF SupPublish, Aside, Apart, avars, cvars
<1>3. CASE sup' = [sup EXCEPT ![a] = "gone"] /\ UNCHANGED sess
  <2>1. Fading(a)
    BY <1>1, <1>3, Zenon DEF SupPublish, Fading
  <2> QED BY <1>1, <1>2, <2>1, FadingPlain, AsideStep, Zenon
<1>4. CASE sup' = [sup EXCEPT ![a] = "gate"] /\ sess' = [sess EXCEPT ![a].desc = "gate"]
  <2>1. sess[a] \in Session /\ sess'[a] = [sess[a] EXCEPT !.desc = "gate"] /\ sup'[a] = "gate"
    BY <1>1, <1>4, Zenon
  <2>2. Exists(sess'[a]) /\ (Reported(sess'[a]) => Reported(sess[a]))
    BY <2>1, Zenon DEF Exists, Reported, Session
  <2>3. gate'[a] = "open" /\ ~Armed(a)' /\ ~work'[a]
    BY <1>1, <1>2, Zenon DEF SupPublish, Gated, Armed, Aside
  <2>4. Plain(a)
    BY <1>1, <1>2, <2>2, <2>3, <2>1, Zenon DEF SupPublish, Plain, Aside, Run, Tracked
  <2> QED BY <1>1, <1>2, <2>4, AsideStep, Zenon
<1> QED BY <1>3, <1>4, Zenon DEF SupPublish

LEMMA SupLaunchWorkloadRuns ==
    ASSUME AgentInv, RunInv, NEW a \in Attempt, SupLaunchWorkload(a), UNCHANGED <<avars, cvars>>
    PROVE  RunInv'
<1>1. /\ sup \in [Attempt -> SupState] /\ sess \in [Attempt -> Session]
      /\ work \in [Attempt -> BOOLEAN]
      /\ Settled(a) /\ Run(a) /\ sup[a] = "gate" /\ gate[a] = "released"
  BY Zenon DEF AgentInv, TypeOK, StepdTypeOK, Good, RunInv, SupLaunchWorkload
<1>2. Aside /\ \A b \in Attempt \ {a} : Apart(b)
  BY <1>1, Zenon DEF SupLaunchWorkload, Aside, Apart, avars, cvars
<1>3. CASE sup' = [sup EXCEPT ![a] = "gone"] /\ UNCHANGED <<work, sess>>
  <2>1. Fading(a)
    BY <1>1, <1>3, Zenon DEF SupLaunchWorkload, Fading
  <2> QED BY <1>1, <1>2, <2>1, FadingPlain, AsideStep, Zenon
<1>4. CASE /\ sup' = [sup EXCEPT ![a] = "work"] /\ work' = [work EXCEPT ![a] = TRUE]
           /\ sess' = IF Exists(sess[a]) THEN [sess EXCEPT ![a].desc = "run"] ELSE sess
  <2>1. Armed(a) /\ Exists(sess[a]) /\ launch.att # a
    BY <1>1, Zenon DEF Run, Traced, Armed
  <2>2. sess[a] \in Session /\ sess'[a] = [sess[a] EXCEPT !.desc = "run"] /\ sup'[a] = "work" /\ work'[a]
    BY <1>1, <1>4, <2>1, Zenon
  <2>3. Known(a) = {}
    BY <1>1, Zenon DEF Settled, Startable
  <2>4. sess[a].exit = "none" /\ rep[a].pc # "send" /\ replay.att # a
    <3>1. sess[a].exit \in {"none", "real", "lost"} /\ rep[a].exit \in {"none", "real", "lost"}
          /\ replay.exit \in {"none", "real", "lost"}
      BY <2>2, ExitTypes, Zenon DEF Session, AgentInv
    <3> QED BY <1>1, <2>3, <3>1, Zenon DEF Known, Settled
  <2>5. Exists(sess'[a]) /\ ~Reported(sess'[a])
    BY <2>2, <2>4, Zenon DEF Exists, Reported, Session
  <2>6. ~Armed(a)' /\ gate' = gate /\ cln' = cln
    BY <2>2, Zenon DEF Armed, SupLaunchWorkload
  <2>7. Traced(a)'
    BY <1>2, <2>1, <2>2, <2>4, <2>5, <2>6, Zenon DEF Traced, Aside
  <2>8. Tracked(a)'
    BY <1>1, <1>2, <2>2, <2>6, Zenon DEF Run, Tracked, Aside
  <2>9. Tame(a)
    BY <2>1, <2>6, Zenon DEF Tame
  <2> QED BY <1>1, <1>2, <2>7, <2>8, <2>9, AsideStep, Zenon DEF Run
<1> QED BY <1>3, <1>4, Zenon DEF SupLaunchWorkload

LEMMA ObserveKeeps ==
    ASSUME NEW s, NEW e
    PROVE  /\ Exists(s) => Exists(ObserveExit(s, e))
           /\ Reported(ObserveExit(s, e)) => Reported(s)
<1> DEFINE t == [desc |-> s.desc, exit |-> e, acked |-> FALSE, released |-> s.released]
<1>1. t.desc = s.desc /\ t.acked = FALSE
  BY Zenon
<1> HIDE DEF t
<1>2. CASE Exists(s)
  <2>1. ObserveExit(s, e) = t
    BY <1>2, Zenon DEF ObserveExit, t
  <2> QED BY <1>1, <1>2, <2>1, Zenon DEF Exists, Reported
<1>3. CASE ~Exists(s)
  BY <1>3, Zenon DEF ObserveExit
<1> QED BY <1>2, <1>3, Zenon

LEMMA SupRecordExitRuns ==
    ASSUME AgentInv, RunInv, NEW a \in Attempt, SupRecordExit(a), UNCHANGED <<avars, cvars>>
    PROVE  RunInv'
<1>1. /\ sup \in [Attempt -> SupState] /\ sess \in [Attempt -> Session] /\ Run(a)
  BY Zenon DEF AgentInv, TypeOK, StepdTypeOK, RunInv
<1>2. Aside /\ \A b \in Attempt \ {a} : Apart(b)
  BY <1>1, Zenon DEF SupRecordExit, Aside, Apart, avars, cvars
<1>3. sess'[a] = ObserveExit(sess[a], "real") /\ sup[a] = "exited" /\ sup'[a] \in {"reap", "gone"}
  BY <1>1, Zenon DEF SupRecordExit
<1>4. (Exists(sess[a]) => Exists(sess'[a])) /\ (Reported(sess'[a]) => Reported(sess[a]))
  BY <1>3, ObserveKeeps, Zenon
<1>5. ~Armed(a)'
  BY <1>3, Zenon DEF Armed
<1>6. Plain(a)
  BY <1>1, <1>2, <1>3, <1>4, <1>5, Zenon DEF SupRecordExit, Plain, Aside, Run, Tracked
<1> QED BY <1>2, <1>3, <1>6, AsideStep, Zenon

LEMMA SupervisorRuns ==
    ASSUME AgentInv, RunInv, NEW a \in Attempt, Supervisor(a)
    PROVE  RunInv'
BY FadingSteps, SupPublishRuns, SupLaunchWorkloadRuns, SupRecordExitRuns, Zenon
    DEF Supervisor, SupStep

LEMMA SweepKeeps ==
    ASSUME NEW s, NEW pending
    PROVE  /\ Exists(s) => Exists(Sweep(s, pending)) \/ (Reported(s) /\ ~pending)
           /\ Reported(Sweep(s, pending)) => Reported(s)
BY Zenon DEF Sweep, Exists, Reported, NoSession

\* A session with no exit is swept by nobody.
LEMMA StartableHasNoExit ==
    ASSUME AgentInv, NEW a \in Attempt, Startable(a)
    PROVE  ~Reported(sess[a]) /\ sess[a].exit = "none" /\ rep[a].pc # "send" /\ replay.att # a
<1>1. Settled(a) /\ Known(a) = {} /\ sess[a] \in Session
  BY Zenon DEF AgentInv, Good, Settled, TypeOK, StepdTypeOK
<1>2. sess[a].exit \in {"none", "real", "lost"} /\ rep[a].exit \in {"none", "real", "lost"}
      /\ replay.exit \in {"none", "real", "lost"}
  BY <1>1, ExitTypes, Zenon DEF Session, AgentInv
<1> QED BY <1>1, <1>2, Zenon DEF Known, Settled, Reported

LEMMA PruneRuns ==
    ASSUME AgentInv, RunInv, NEW a \in Attempt, Prune(a)
    PROVE  RunInv'
<1>1. sess \in [Attempt -> Session] /\ Run(a)
  BY Zenon DEF AgentInv, TypeOK, StepdTypeOK, RunInv
<1>2. Aside /\ \A b \in Attempt \ {a} : Apart(b)
  BY <1>1, Zenon DEF Prune, Aside, Apart, avars, cvars
<1>3. sess'[a] = Sweep(sess[a], cln[a] # "none") /\ sup' = sup /\ gate' = gate /\ work' = work /\ cln' = cln
  BY <1>1, Zenon DEF Prune
<1>4. /\ Exists(sess[a]) => Exists(sess'[a]) \/ Reported(sess[a])
      /\ Reported(sess'[a]) => Reported(sess[a])
  BY <1>3, SweepKeeps, Zenon
<1>5. Armed(a)' <=> Armed(a)
  BY <1>2, <1>3, Zenon DEF Armed, Aside
<1>6. Armed(a) \/ (sup[a] = "gate" /\ launch.att = a) => Exists(sess'[a])
  <2>1. Armed(a) \/ (sup[a] = "gate" /\ launch.att = a) => Startable(a)
    BY Zenon DEF Armed, Startable
  <2> QED BY <1>1, <1>4, <2>1, StartableHasNoExit, Zenon DEF Run, Traced
<1>7. Plain(a)
  BY <1>1, <1>2, <1>3, <1>4, <1>5, <1>6, Zenon DEF Plain, Aside, Run, Traced, Tracked
<1> QED BY <1>2, <1>3, <1>7, AsideStep, Zenon

(***************************************************************************)
(* The launch.                                                             *)
(***************************************************************************)
\* A run being launched, up to the commit.
LEMMA LaunchFacts ==
    ASSUME AgentInv, RunInv, launch.pc # "idle"
    PROVE  /\ up /\ launch.att \in Attempt /\ launch.att # 0
           /\ launch.pc \in {"fence", "spawn"} => sup[launch.att] = "none" /\ slot.att # launch.att
           /\ launch.pc \in {"wait", "commit"} => sup[launch.att] # "none"
<1>1. up /\ launch.att \in Attempt /\ launch.att # 0
  BY AttTypes, Zenon DEF AgentInv, OneLaunch
<1>2. launch.pc \in {"fence", "spawn"} => sup[launch.att] = "none"
  BY <1>1, Zenon DEF AgentInv, OneLaunch, Unborn
<1>3. slot.att = launch.att => sup[launch.att] # "none"
  BY <1>1, Zenon DEF AgentInv, OneLaunch
<1> QED BY <1>1, <1>2, <1>3, Zenon DEF AgentInv, OneLaunch

LEMMA LaunchRecvRuns ==
    ASSUME AgentInv, RunInv, NEW a \in Attempt, LaunchRecv(a)
    PROVE  RunInv'
<1>1. /\ up /\ launch = NoLaunch
      /\ launch'.pc = "fence" /\ launch'.att = a
      /\ launch'.todo = {b \in 1..(a - 1) : slot.att = b \/ Exists(sess[b]) \/ work[b]}
      /\ UNCHANGED <<sess, sup, gate, work, cln, up, running, slot, ledger, rep, replay, cancelling, cur>>
      /\ \A b \in Attempt : StartCall(b) \in net' => StartCall(b) \in net
  BY CallsDiffer, Zenon DEF LaunchRecv, LaunchCall, svars
<1>2. sup[a] = "none" /\ Gated(a) /\ Run(a)
  <2>1. LaunchCall(a) \in net
    BY Zenon DEF LaunchRecv, LaunchCall
  <2> QED BY <2>1, Zenon DEF AgentInv, OneLaunch, Unborn, Good, RunInv
<1>3. \A b \in Attempt : launch.att # b
  BY <1>1, NothingTypes, AttTypes, Zenon DEF AgentInv
<1>4. slot.att # a
  <2>1. a # 0
    BY MaxAttemptAssumption DEF Attempt
  <2> QED BY <1>2, <2>1, Zenon DEF AgentInv, OneLaunch
<1>5. Run(a)' /\ Tame(a)
  <2>1. ~Armed(a)' /\ ~work'[a] /\ gate'[a] = "open" /\ StartCall(a) \notin net'
    BY <1>1, <1>2, Zenon DEF Gated, Armed
  <2> QED BY <1>1, <1>2, <1>4, <2>1, Zenon DEF Run, Traced, Tracked, Tame
<1>6. ASSUME NEW b \in Attempt, b # a PROVE Plain(b)
  <2>1. Apart(b) /\ Kept(b)
    BY <1>1, <1>3, <1>6, Zenon DEF Apart, Kept
  <2> QED BY <2>1, ApartPlain, Zenon DEF RunInv
<1>7. ASSUME NEW c \in Attempt, NEW b \in Attempt, b < c, Fenced(c, b)'
      PROVE  Fenced(c, b) \/ Over(b)'
  <2>1. CASE sup[c] # "none"
    BY <2>1, Zenon DEF Fenced
  <2>2. CASE launch'.att = c /\ b \notin launch'.todo
    <3>1. b \in 1..(a - 1)
      BY <1>1, <1>7, <2>2 DEF Attempt
    <3>2. ~Exists(sess[b]) /\ ~work[b]
      BY <1>1, <2>2, <3>1, Zenon
    <3>3. ~Armed(b)
      BY <3>2, Zenon DEF RunInv, Run, Traced
    <3>4. ~Armed(b)'
      BY <1>1, <3>3, Zenon DEF Armed
    <3> QED BY <1>1, <3>2, <3>4, Zenon DEF Over
  <2> QED BY <1>1, <1>7, <2>1, <2>2, Zenon DEF Fenced
<1>8. Own'
  <2>1. slot.att # 0 /\ slot.att < a => slot.att \in launch'.todo
    <3>1. slot.att # 0 /\ slot.att < a => slot.att \in 1..(a - 1)
      BY AttTypes, MaxAttemptAssumption DEF AgentInv, Attempt
    <3> QED BY <1>1, <3>1, Zenon
  <2> QED BY <1>1, <2>1, Zenon DEF Own
<1> QED BY <1>5, <1>6, <1>7, <1>8, LaunchStep, Zenon

LEMMA FenceOlderRunRuns ==
    ASSUME AgentInv, RunInv, NEW a \in Attempt, FenceOlderRun(a)
    PROVE  RunInv'
<1>1. PICK ok \in ReapOutcomes(a) :
          /\ work' = [work EXCEPT ![a] = ~ok]
          /\ launch' = IF ok THEN [launch EXCEPT !.todo = @ \ {a}] ELSE NoLaunch
          /\ slot' = IF ok /\ slot.att = a THEN NoSlot ELSE slot
          /\ sess' = IF ok
                     THEN [sess EXCEPT ![a] = record_resources_released(@, cln[a] # "none")]
                     ELSE sess
  BY Zenon DEF FenceOlderRun
<1>2. ok \in BOOLEAN /\ (~ok => work[a])
  BY ReapType, Zenon DEF AgentInv
<1>3. /\ sess \in [Attempt -> Session] /\ sup \in [Attempt -> SupState]
      /\ work \in [Attempt -> BOOLEAN] /\ launch \in Launch /\ Run(a) /\ Settled(a)
  BY Zenon DEF AgentInv, TypeOK, StepdTypeOK, RunInv, Good
<1>4. /\ launch.pc = "fence" /\ launch.att \in Attempt /\ slot.att # launch.att /\ up
  BY LaunchFacts, Zenon DEF FenceOlderRun
<1>5. /\ sup' = [sup EXCEPT ![a] = IF sess[a].desc # "prov" /\ Alive(a) THEN "gone" ELSE @]
      /\ UNCHANGED <<gate, cln, up, running, ledger, rep, replay, cancelling, cur, net>>
  BY Zenon DEF FenceOlderRun, cvars
<1>6. sup'[a] \in {sup[a], "gone"} /\ sup'[a] # "gate" /\ (sup[a] = "none" <=> sup'[a] = "none")
  BY <1>3, <1>5, Zenon DEF Settled, Alive
<1>7. NoLaunch.att \notin Attempt /\ NoSlot.att = 0 /\ 0 \notin Attempt
  BY NothingTypes, AttTypes, Zenon DEF AgentInv
<1>8. ~Armed(a)'
  BY <1>6, Zenon DEF Armed
<1>9. CASE ~ok
  <2>1. launch' = NoLaunch /\ slot' = slot /\ sess' = sess /\ work'[a] = work[a]
    BY <1>1, <1>2, <1>3, <1>9, Zenon
  <2>2. OwnQuiet
    BY <1>4, <1>5, <2>1, Zenon DEF OwnQuiet
  <2>3. ASSUME NEW b \in Attempt, b # a PROVE Apart(b) /\ Kept(b)
    BY <1>1, <1>3, <1>4, <1>5, <1>7, <2>1, <2>3, Zenon DEF Apart, Kept
  <2>4. Plain(a)
    BY <1>3, <1>4, <1>5, <1>6, <1>7, <1>8, <2>1, Zenon DEF Plain, Run, Tracked
  <2> QED BY <1>5, <1>3, <1>6, <2>2, <2>3, <2>4, ApartPlain, RunStep, Zenon DEF RunInv, Apart
<1>10. CASE ok
  <2>1. /\ launch'.att = launch.att /\ launch'.pc = "fence" /\ launch'.todo = launch.todo \ {a}
        /\ ~work'[a] /\ slot'.att # a
        /\ slot' = slot \/ (slot.att = a /\ slot' = NoSlot)
    BY <1>1, <1>3, <1>4, <1>7, <1>10, Zenon DEF Launch
  <2>2. ASSUME NEW b \in Attempt, b # a PROVE Plain(b)
    <3>1. slot'.att = b <=> slot.att = b
      BY <1>7, <2>1, <2>2, Zenon
    <3>2. Apart(b)
      BY <1>1, <1>3, <1>5, <1>10, <2>2, Zenon DEF Apart
    <3>3. Kept(b)
      BY <1>5, <2>1, <3>1, Zenon DEF Kept
    <3> QED BY <3>2, <3>3, ApartPlain, Zenon DEF RunInv
  <2>3. Plain(a)
    BY <1>3, <1>5, <1>6, <1>8, <2>1, Zenon DEF Plain, Run, Tracked
  <2>4. ASSUME NEW c \in Attempt, NEW b \in Attempt, Fenced(c, b)'
        PROVE  Fenced(c, b) \/ Over(b)'
    <3>1. sup'[c] # "none" => sup[c] # "none"
      BY <1>3, <1>5, <1>6, Zenon
    <3>2. Over(a)'
      BY <1>8, <2>1, Zenon DEF Over
    <3> QED BY <1>4, <2>1, <2>4, <3>1, <3>2, Zenon DEF Fenced
  <2>5. Own'
    <3>1. slot'.att # 0 => slot' = slot
      BY <1>7, <2>1, Zenon
    <3> QED BY <1>4, <1>5, <2>1, <3>1, Zenon DEF RunInv, Own
  <2> QED BY <2>2, <2>3, <2>4, <2>5, LaunchStep, Zenon
<1> QED BY <1>2, <1>9, <1>10, Zenon

LEMMA LaunchReserveRuns ==
    ASSUME AgentInv, RunInv, LaunchReserve
    PROVE  RunInv'
<1>1. /\ launch.pc = "fence" /\ launch.todo = {} /\ UNCHANGED <<sess, sup, gate, work, cln, up, running, slot,
                                           rep, replay, cancelling, cur, net>>
  BY Zenon DEF LaunchReserve, svars, cvars
<1>2. launch.att \in Attempt /\ slot.att # launch.att /\ up /\ launch \in Launch
  BY <1>1, LaunchFacts, Zenon DEF AgentInv, TypeOK
<1>3. NoLaunch.att \notin Attempt
  BY NothingTypes, AttTypes, Zenon DEF AgentInv
<1>4. CASE launch' = NoLaunch /\ ledger' = ledger
  <2>1. OwnQuiet
    BY <1>1, <1>2, <1>4, Zenon DEF OwnQuiet
  <2>2. ASSUME NEW b \in Attempt PROVE Apart(b) /\ Kept(b)
    BY <1>1, <1>2, <1>3, <1>4, Zenon DEF Apart, Kept
  <2> QED BY <1>1, <2>1, <2>2, ApartPlain, RunStep, Zenon DEF RunInv
<1>5. CASE launch' = [launch EXCEPT !.pc = "spawn"] /\ slot.att < launch.att
  <2>1. launch'.pc = "spawn" /\ launch'.att = launch.att
    BY <1>2, <1>5, Zenon DEF Launch
  <2>2. slot.att = 0
    BY <1>1, <1>5, Zenon DEF RunInv, Own
  <2>3. ASSUME NEW b \in Attempt PROVE Plain(b)
    <3>1. slot.att # b
      BY <2>2, AttTypes, Zenon DEF AgentInv
    <3>2. Apart(b) /\ Kept(b)
      BY <1>1, <2>1, <3>1, Zenon DEF Apart, Kept
    <3> QED BY <3>2, ApartPlain, Zenon DEF RunInv
  <2>4. ASSUME NEW c \in Attempt, NEW b \in Attempt, Fenced(c, b)' PROVE Fenced(c, b)
    BY <1>1, <2>1, <2>4, Zenon DEF Fenced
  <2>5. Own'
    BY <1>1, <1>2, <2>1, <2>2, Zenon DEF Own
  <2> QED BY <2>3, <2>4, <2>5, LaunchStep, Zenon
<1> QED BY <1>4, <1>5, Zenon DEF LaunchReserve

LEMMA LaunchSpawnRuns ==
    ASSUME AgentInv, RunInv, LaunchSpawn
    PROVE  RunInv'
<1>1. PICK a \in Attempt : a = launch.att /\ launch.pc = "spawn" /\ up /\ sup[a] = "none"
  BY LaunchFacts, Zenon DEF LaunchSpawn
<1>2. /\ sess' = [sess EXCEPT ![a] = [NoSession EXCEPT !.desc = "prov"]]
      /\ sup' = [sup EXCEPT ![a] = "boot"]
      /\ launch' = [launch EXCEPT !.pc = "wait"]
      /\ UNCHANGED <<gate, work, cln, up, running, slot, ledger, rep, replay, cancelling, cur, net>>
  BY <1>1, Zenon DEF LaunchSpawn, cvars
<1>3. /\ sess \in [Attempt -> Session] /\ sup \in [Attempt -> SupState] /\ launch \in Launch /\ Run(a)
      /\ slot.att = 0 /\ slot.att # a
  BY <1>1, AttTypes, Zenon DEF AgentInv, TypeOK, StepdTypeOK, RunInv, Own
<1>4. launch'.pc = "wait" /\ launch'.att = launch.att
  BY <1>2, <1>3, Zenon DEF Launch
<1>5. sup'[a] = "boot" /\ ~Armed(a)'
  BY <1>2, <1>3, Zenon DEF Armed
<1>6. Run(a)' /\ Tame(a)
  BY <1>1, <1>2, <1>3, <1>4, <1>5, Zenon DEF Run, Traced, Tracked, Tame
<1>7. ASSUME NEW b \in Attempt, b # a PROVE Plain(b)
  <2>1. Apart(b) /\ Kept(b)
    BY <1>2, <1>3, <1>4, <1>7, AttTypes, Zenon DEF Apart, Kept, AgentInv
  <2> QED BY <2>1, ApartPlain, Zenon DEF RunInv
<1>8. ASSUME NEW c \in Attempt, NEW b \in Attempt, Fenced(c, b)' PROVE Fenced(c, b)
  <2>1. c # a => sup'[c] = sup[c]
    BY <1>2, <1>3, Zenon
  <2> QED BY <1>1, <1>4, <1>8, <2>1, Zenon DEF Fenced
<1>9. Own'
  BY <1>1, <1>2, <1>3, <1>4, Zenon DEF Own
<1> QED BY <1>6, <1>7, <1>8, <1>9, LaunchStep, Zenon

LEMMA LaunchFailsRuns ==
    ASSUME AgentInv, RunInv, LaunchFails
    PROVE  RunInv'
<1>1. PICK a \in Attempt : /\ a = launch.att /\ launch.pc \in {"spawn", "wait"} /\ up /\ slot.att = 0
                           /\ launch.pc = "spawn" => sup[a] = "none"
                           /\ launch.pc = "wait" => sup[a] # "none"
  BY LaunchFacts, Zenon DEF LaunchFails, RunInv, Own
<1>2. /\ sup' = IF launch.pc = "wait" THEN [sup EXCEPT ![a] = "gone"] ELSE sup
      /\ sess' = IF launch.pc = "wait" /\ sess[a].exit = "none"
                 THEN [sess EXCEPT ![a] = NoSession] ELSE sess
      /\ launch' = NoLaunch
      /\ UNCHANGED <<gate, work, cln, up, running, slot, rep, replay, cancelling, cur, net>>
  BY <1>1, Zenon DEF LaunchFails, cvars
<1>3. /\ sess \in [Attempt -> Session] /\ sup \in [Attempt -> SupState] /\ Run(a)
      /\ NoLaunch.att \notin Attempt /\ \A b \in Attempt : slot.att # b
  BY <1>1, NothingTypes, AttTypes, Zenon DEF AgentInv, TypeOK, StepdTypeOK, RunInv
<1>4. sup'[a] # "gate" /\ (sup'[a] = "none" <=> sup[a] = "none")
  BY <1>1, <1>2, <1>3, Zenon
<1>5. ~Armed(a)' /\ ~work'[a]
  BY <1>1, <1>2, <1>3, <1>4, Zenon DEF Armed, Run, Traced
<1>6. Plain(a)
  BY <1>2, <1>3, <1>4, <1>5, Zenon DEF Plain
<1>7. ASSUME NEW b \in Attempt, b # a PROVE Apart(b) /\ Kept(b)
  BY <1>2, <1>3, <1>7, Zenon DEF Apart, Kept
<1>8. OwnQuiet
  BY <1>1, <1>2, Zenon DEF OwnQuiet
<1> QED BY <1>4, <1>6, <1>7, <1>8, ApartPlain, RunStep, Zenon DEF RunInv, Apart

LEMMA LaunchClaimRuns ==
    ASSUME AgentInv, RunInv, LaunchClaim
    PROVE  RunInv'
<1>1. PICK a \in Attempt : a = launch.att /\ launch.pc = "wait" /\ up /\ slot.att = 0
  BY LaunchFacts, Zenon DEF LaunchClaim, RunInv, Own
<1>2. slot.att <= a
  BY <1>1, MaxAttemptAssumption DEF Attempt
<1>3. /\ slot' = [att |-> a, desc |-> "gate"]
      /\ launch' = [launch EXCEPT !.pc = "commit"]
      /\ UNCHANGED <<sess, sup, gate, work, cln, up, running, ledger, rep, replay, cancelling, cur, net>>
  BY <1>1, <1>2, Zenon DEF LaunchClaim, cvars
<1>4. /\ launch'.pc = "commit" /\ launch'.att = a /\ slot'.att = a
      /\ \A b \in Attempt : slot.att # b
  BY <1>1, <1>3, AttTypes, Zenon DEF AgentInv, TypeOK, Launch
<1>5. \A b \in Attempt : Armed(b)' <=> Armed(b)
  BY <1>3, Zenon DEF Armed
<1>6. Run(a) /\ Run(a)' /\ Tame(a)
  BY <1>1, <1>3, <1>4, <1>5, Zenon DEF RunInv, Run, Traced, Tracked, Tame
<1>7. ASSUME NEW b \in Attempt, b # a PROVE Plain(b)
  <2>1. Apart(b) /\ Kept(b)
    BY <1>1, <1>3, <1>4, <1>7, Zenon DEF Apart, Kept
  <2> QED BY <2>1, ApartPlain, Zenon DEF RunInv
<1>8. ASSUME NEW c \in Attempt, NEW b \in Attempt, Fenced(c, b)' PROVE Fenced(c, b)
  BY <1>1, <1>3, <1>4, <1>8, Zenon DEF Fenced
<1>9. Own'
  BY <1>1, <1>3, <1>4, Zenon DEF Own
<1> QED BY <1>6, <1>7, <1>8, <1>9, LaunchStep, Zenon

LEMMA LaunchCommitRuns ==
    ASSUME AgentInv, RunInv, LaunchCommit
    PROVE  RunInv'
<1>1. PICK a \in Attempt : /\ a = launch.att /\ launch.pc = "commit" /\ up /\ sup[a] # "none"
                           /\ slot \in {NoSlot, [att |-> a, desc |-> "gate"]}
  BY LaunchFacts, Zenon DEF LaunchCommit, RunInv, Own
<1> DEFINE committed == ledger.att = a
           discard == ~committed /\ slot = [att |-> a, desc |-> "gate"]
<1>2. /\ ledger' = IF committed THEN [ledger EXCEPT !.launching = FALSE] ELSE ledger
      /\ running' = IF committed THEN a ELSE running
      /\ net' = IF committed /\ cur = a THEN net \cup {StartCall(a)} ELSE net
      /\ slot' = IF discard THEN NoSlot ELSE slot
      /\ sup' = IF discard THEN [sup EXCEPT ![a] = "gone"] ELSE sup
      /\ sess' = IF discard THEN [sess EXCEPT ![a] = NoSession] ELSE sess
      /\ \E ok \in ReapOutcomes(a) : work' = IF discard THEN [work EXCEPT ![a] = ~ok] ELSE work
      /\ launch' = NoLaunch
      /\ UNCHANGED <<gate, cln, up, rep, replay, cancelling, cur>>
  BY <1>1, Zenon DEF LaunchCommit, StartCall
<1>3. /\ sess \in [Attempt -> Session] /\ sup \in [Attempt -> SupState] /\ work \in [Attempt -> BOOLEAN]
      /\ Run(a) /\ ledger \in Ledger
      /\ NoLaunch.att \notin Attempt /\ NoSlot.att \notin Attempt
  BY NothingTypes, AttTypes, Zenon DEF AgentInv, TypeOK, StepdTypeOK, RunInv
<1>4. /\ ~work[a] /\ gate[a] # "released" /\ StartCall(a) \notin net /\ cancelling[a] # "drop"
      /\ running # a /\ (sup[a] = "gate" => Exists(sess[a]))
  BY <1>1, <1>3, Zenon DEF Run, Traced, Tracked
<1>5. ~work'[a] /\ \A b \in Attempt \ {a} : work'[b] = work[b]
  <2>1. ReapOutcomes(a) = {TRUE}
    BY <1>4, Zenon DEF ReapOutcomes
  <2>2. discard => work' = [work EXCEPT ![a] = FALSE]
    BY <1>2, <2>1, Zenon
  <2> QED BY <1>2, <1>3, <1>4, <2>2, Zenon
<1>6. ledger'.att = ledger.att
  BY <1>2, <1>3, Zenon DEF Ledger
<1>7. Run(a)' /\ Tame(a) /\ sup'[a] # "none"
  <2>1. CASE discard
    <3>1. sup'[a] = "gone" /\ slot' = NoSlot /\ running' = running
      BY <1>2, <1>3, <2>1, Zenon
    <3>2. ~Armed(a)'
      BY <3>1, Zenon DEF Armed
    <3> QED BY <1>2, <1>3, <1>4, <1>5, <3>1, <3>2, Zenon DEF Run, Traced, Tracked, Tame
  <2>2. CASE ~discard
    <3>1. sup' = sup /\ sess' = sess /\ slot' = slot
      BY <1>2, <2>2, Zenon
    <3>2. Armed(a)' => sup[a] = "gate" /\ cur = a
      BY <1>2, <1>4, <3>1, Zenon DEF Armed
    <3>3. slot'.att = a => running' = a /\ ledger'.att = a
      BY <1>1, <1>2, <1>3, <1>6, <2>2, <3>1, Zenon
    <3> QED BY <1>1, <1>2, <1>3, <1>4, <1>5, <3>1, <3>2, <3>3, Zenon DEF Run, Traced, Tracked, Tame
  <2> QED BY <2>1, <2>2, Zenon
<1>8. ASSUME NEW b \in Attempt, b # a PROVE Apart(b) /\ Kept(b)
  <2>1. StartCall(b) \in net' => StartCall(b) \in net
    BY <1>2, <1>8, CallsDiffer, Zenon
  <2>2. slot.att # b /\ slot'.att # b
    <3>1. [att |-> a, desc |-> "gate"].att = a
      BY Zenon
    <3>2. slot.att # b
      BY <1>1, <1>3, <1>8, <3>1, Zenon
    <3> QED BY <1>2, <1>3, <3>2, Zenon
  <2> QED BY <1>2, <1>3, <1>5, <1>8, <2>1, <2>2, Zenon DEF Apart, Kept
<1>9. OwnQuiet
  BY <1>1, <1>2, Zenon DEF OwnQuiet
<1> QED BY <1>1, <1>7, <1>8, <1>9, ApartPlain, RunStep, Zenon DEF RunInv, Apart

LEMMA StaysUnreported ==
    ASSUME NEW s \in Session, NEW pending, Exists(s), ~Reported(s)
    PROVE  Exists(record_resources_released(s, pending))
<1>1. LET t == [s EXCEPT !.released = TRUE]
      IN  t.desc = s.desc /\ t.exit = s.exit /\ t.acked = s.acked
  BY Zenon DEF Session
<1> QED BY <1>1, Zenon DEF record_resources_released, Sweep, Reported, Exists

(***************************************************************************)
(* Releasing: what ReleaseTracking may drop of the agent's maps.           *)
(***************************************************************************)
Releases(r, a) ==
    /\ r.slot \in {slot, NoSlot} /\ (r.slot # slot => slot.att = a)
    /\ r.running \in {running, 0}
    /\ (r.running = running /\ r.ledger = ledger) \/ (running = a /\ r.slot.att # a)

LEMMA DropOwnReleases ==
    ASSUME NEW a \in Attempt, NEW m
    PROVE  LET r == DropOwn(m, a)
           IN  /\ r.slot = m.slot /\ r.sess = m.sess /\ r.running \in {m.running, 0}
               /\ (r.running = m.running /\ r.ledger = m.ledger) \/ m.running = a
BY Zenon DEF DropOwn

LEMMA TrackingReleases ==
    ASSUME NEW a \in Attempt, NEW m \in Memory, NEW d, NEW p,
           m.slot = slot, m.running = running, m.ledger = ledger
    PROVE  LET r == ReleaseTracking(m, a, d, p)
           IN  /\ Releases(r, a)
               /\ Exists(m.sess) /\ ~Reported(m.sess) => Exists(r.sess)
<1> DEFINE freed == IF m.slot = [att |-> a, desc |-> d] THEN [m EXCEPT !.slot = NoSlot] ELSE m
           last == IF freed.slot.att = a THEN freed ELSE DropOwn(freed, a)
           released == record_resources_released(last.sess, p.cln # "none")
           after == [last EXCEPT !.sess = released]
<1>1. NoSlot \in Slot /\ NoSlot.att = 0 /\ 0 # a
  BY NothingTypes, MaxAttemptAssumption DEF Attempt
<1>2. /\ freed \in Memory /\ freed.sess = m.sess /\ freed.running = running /\ freed.ledger = ledger
      /\ freed.slot = slot \/ (freed.slot = NoSlot /\ slot.att = a)
  <2>1. [att |-> a, desc |-> d].att = a
    BY Zenon
  <2>2. CASE m.slot = [att |-> a, desc |-> d]
    BY <1>1, <2>1, <2>2, Zenon DEF Memory
  <2>3. CASE m.slot # [att |-> a, desc |-> d]
    BY <2>3, Zenon
  <2> QED BY <2>2, <2>3, Zenon
<1> HIDE DEF freed
<1>3. /\ last \in Memory /\ last.sess = m.sess /\ last.slot = freed.slot /\ last.running \in {running, 0}
      /\ (last.running = running /\ last.ledger = ledger) \/ (running = a /\ last.slot.att # a)
  BY <1>2, DropOwnType, DropOwnReleases, Zenon
<1> HIDE DEF last
<1>4. /\ after.slot = last.slot /\ after.running = last.running /\ after.ledger = last.ledger
      /\ after.sess = released
  BY <1>3, Zenon DEF Memory
<1>5. Exists(m.sess) /\ ~Reported(m.sess) => Exists(released)
  BY <1>3, StaysUnreported, Zenon DEF Memory
<1>6. ReleaseTracking(m, a, d, p) = IF p.ok \/ Reported(m.sess) THEN after ELSE m
  BY Zenon DEF ReleaseTracking, freed, last
<1> HIDE DEF after, released
<1> QED BY <1>2, <1>3, <1>4, <1>5, <1>6, Zenon DEF Releases

\* A step of the agent about attempt a that ends in Becomes.
LEMMA BecomesStep ==
    ASSUME AgentInv, RunInv, NEW a \in Attempt, NEW r, NEW p,
           Becomes(a, r, p), Releases(r, a), p.work \in BOOLEAN, p.work => work[a] /\ p.cln # "none",
           UNCHANGED <<up, launch, cancelling>>,
           \A b \in Attempt \ {a} : /\ sup'[b] = sup[b] /\ gate'[b] = gate[b] /\ rep'[b] = rep[b]
                                    /\ replay'.att = b => replay.att = b,
           \A b \in Attempt : StartCall(b) \in net' => StartCall(b) \in net,
           sup'[a] \in {sup[a], "gone"}, sup'[a] # "none" <=> sup[a] # "none",
           gate'[a] = "released" /\ sup'[a] = "gate" => gate[a] = "released",
           gate'[a] = "released" => gate[a] = "released" \/ launch.att # a,
           Startable(a) /\ sup'[a] = "gate" => Exists(r.sess),
           sup'[a] = "gate" /\ gate[a] = "released" => r.slot = slot
    PROVE  RunInv'
<1>1. /\ sess \in [Attempt -> Session] /\ work \in [Attempt -> BOOLEAN] /\ cln \in [Attempt -> ClnState]
      /\ Run(a) /\ NoSlot.att \notin Attempt /\ 0 \notin Attempt
  BY NothingTypes, AttTypes, Zenon DEF AgentInv, TypeOK, StepdTypeOK, RunInv
<1>2. /\ slot' = r.slot /\ running' = r.running /\ ledger' = r.ledger
      /\ sess'[a] = r.sess /\ work'[a] = p.work /\ cln'[a] = p.cln
      /\ \A b \in Attempt \ {a} : sess'[b] = sess[b] /\ work'[b] = work[b] /\ cln'[b] = cln[b]
  BY <1>1, Zenon DEF Becomes
<1>3. OwnQuiet
  BY <1>2, Zenon DEF OwnQuiet, Releases, RunInv, Own
<1>4. ASSUME NEW b \in Attempt, b # a PROVE Plain(b)
  <2>1. Apart(b)
    BY <1>2, <1>4, Zenon DEF Apart
  <2>2. slot'.att = b <=> slot.att = b
    BY <1>1, <1>2, <1>4, Zenon DEF Releases
  <2>3. running = b => running' = b /\ ledger' = ledger
    BY <1>1, <1>2, <1>4, Zenon DEF Releases
  <2>4. running' = b => running = b
    BY <1>1, <1>2, Zenon DEF Releases
  <2>5. Kept(b)
    BY <1>4, <2>2, <2>3, <2>4, Zenon DEF Kept
  <2> QED BY <2>1, <2>5, ApartPlain, Zenon DEF RunInv
<1>5. Plain(a)
  <2>1. Armed(a)' => Armed(a)
    BY Zenon DEF Armed
  <2>2. Armed(a)' \/ (sup'[a] = "gate" /\ launch'.att = a) => Exists(sess'[a])
    BY <1>2, <2>1, Zenon DEF Armed, Startable
  <2>3. slot'.att = a => slot.att = a /\ running' = running /\ ledger' = ledger
    BY <1>1, <1>2, Zenon DEF Releases
  <2>4. running' = a => running = a
    BY <1>1, <1>2, Zenon DEF Releases
  <2>5. slot'.att = a /\ launch'.att # a => running' = a /\ ledger'.att = a
    BY <1>1, <2>3, Zenon DEF Run, Tracked
  <2>6. up' /\ sup'[a] = "gate" /\ gate'[a] = "released" => slot'.att = a
    BY <1>1, <1>2, Zenon DEF Run, Tracked
  <2>7. ~(work'[a] /\ cln'[a] = "none")
    BY <1>2, Zenon
  <2>8. launch'.att = a /\ gate'[a] = "released" => gate[a] = "released"
    BY Zenon
  <2> QED BY <1>2, <2>1, <2>2, <2>3, <2>4, <2>5, <2>6, <2>7, <2>8, Zenon DEF Plain
<1>6. \A b \in Attempt : sup'[b] # "none" => sup[b] # "none"
  BY Zenon
<1> QED BY <1>3, <1>4, <1>5, <1>6, RunStep, Zenon

LEMMA MemBooks ==
    ASSUME NEW a \in Attempt
    PROVE  /\ Mem(a).sess = sess[a] /\ Mem(a).slot = slot
           /\ Mem(a).running = running /\ Mem(a).ledger = ledger
BY Zenon DEF Mem

\* A step that leaves every attempt apart.
LEMMA ApartStep ==
    ASSUME AgentInv, RunInv, OwnQuiet, \A b \in Attempt : Apart(b) /\ Kept(b)
    PROVE  RunInv'
BY ApartPlain, RunStep, Zenon DEF RunInv, Apart

LEMMA DispatchRuns ==
    ASSUME AgentInv, RunInv, Dispatch
    PROVE  RunInv'
<1>1. UNCHANGED <<sess, sup, gate, work, cln, up, running, slot, ledger, launch, rep, replay, cancelling>>
  BY Zenon DEF Dispatch, svars, avars
<1>2. \A b \in Attempt : StartCall(b) \in net' => StartCall(b) \in net
  <2>1. net' = net \cup {LaunchCall(cur + 1)}
    BY Zenon DEF Dispatch, LaunchCall
  <2> QED BY <2>1, CallsDiffer, Zenon
<1>3. OwnQuiet
  BY <1>1, Zenon DEF OwnQuiet, RunInv, Own
<1>4. \A b \in Attempt : Apart(b) /\ Kept(b)
  BY <1>1, <1>2, Zenon DEF Apart, Kept
<1> QED BY <1>3, <1>4, ApartStep, Zenon

LEMMA StartRecvRuns ==
    ASSUME AgentInv, RunInv, NEW a \in Attempt, StartRecv(a)
    PROVE  RunInv'
<1>1. /\ up /\ StartCall(a) \in net
      /\ UNCHANGED <<up, launch, rep, replay, cancelling, cur>>
      /\ \A b \in Attempt : StartCall(b) \in net' => StartCall(b) \in net
  BY Zenon DEF StartRecv, StartCall
<1>2. /\ Run(a) /\ launch.att # a /\ gate \in [Attempt -> GateState] /\ sup \in [Attempt -> SupState]
  BY <1>1, Zenon DEF RunInv, Run, Traced, AgentInv, TypeOK, StepdTypeOK
<1>3. CASE slot.att # a \/ ~CleanupReady
  <2>1. UNCHANGED <<sess, sup, gate, work, cln, slot, running, ledger>>
    BY <1>3, Zenon DEF StartRecv, svars
  <2>2. OwnQuiet /\ \A b \in Attempt : Apart(b) /\ Kept(b)
    BY <1>1, <2>1, Zenon DEF OwnQuiet, Apart, Kept
  <2> QED BY <2>2, ApartStep, Zenon
<1>4. CASE slot.att = a /\ CleanupReady
  <2> DEFINE decided == ClaimDecision(gate[a], "released")
  <2>1. gate' = IF sup[a] = "gate" THEN [gate EXCEPT ![a] = decided] ELSE gate
    BY <1>4, Zenon DEF StartRecv
  <2>2. \A b \in Attempt \ {a} : gate'[b] = gate[b]
    BY <1>2, <2>1, Zenon
  <2>3. CASE UNCHANGED <<sess, sup, work, cln, slot, running, ledger>>
    <3>1. OwnQuiet
      BY <1>1, <2>3, Zenon DEF OwnQuiet
    <3>2. ASSUME NEW b \in Attempt, b # a PROVE Apart(b) /\ Kept(b)
      BY <1>1, <2>2, <2>3, <3>2, Zenon DEF Apart, Kept
    <3>3. Plain(a)
      <4>1. Armed(a)' => Armed(a)
        BY <1>1, <2>3, Zenon DEF Armed
      <4>2. Armed(a) => Exists(sess[a])
        BY <1>2, Zenon DEF Run, Traced
      <4> QED BY <1>1, <1>2, <1>4, <2>3, <4>1, <4>2, Zenon DEF Plain, Run, Tracked
    <3> QED BY <2>3, <3>1, <3>2, <3>3, ApartPlain, RunStep, Zenon DEF RunInv
  <2>4. CASE \E p \in PrepareOutcomes(a) :
                /\ sup' = [sup EXCEPT ![a] = "gone"]
                /\ Becomes(a, ReleaseTracking(Mem(a), a, slot.desc, p), p)
    <3>1. PICK p \in PrepareOutcomes(a) :
              /\ sup' = [sup EXCEPT ![a] = "gone"]
              /\ Becomes(a, ReleaseTracking(Mem(a), a, slot.desc, p), p)
      BY <2>4, Zenon
    <3> DEFINE r == ReleaseTracking(Mem(a), a, slot.desc, p)
    <3>2. Mem(a) \in Memory
      BY MemType, Zenon DEF AgentInv
    <3>3. Releases(r, a)
      BY <3>2, MemBooks, TrackingReleases, Zenon
    <3>4. p.work \in BOOLEAN /\ (p.work => work[a] /\ p.cln # "none")
      BY PrepareFacts, Zenon
    <3>5. sup'[a] = "gone" /\ sup[a] # "none" /\ \A b \in Attempt \ {a} : sup'[b] = sup[b]
      <4>1. sup[a] # "none"
        BY <1>1, Zenon DEF AgentInv, Good, Gated
      <4> QED BY <1>2, <3>1, <4>1, Zenon
    <3> HIDE DEF r
    <3>6. Becomes(a, r, p)
      BY <3>1, Zenon DEF r
    <3> QED BY <1>1, <1>2, <2>2, <3>3, <3>4, <3>5, <3>6, BecomesStep, Zenon
  <2> QED BY <1>4, <2>3, <2>4, Zenon DEF StartRecv
<1> QED BY <1>3, <1>4, Zenon

LEMMA CancelRecvRuns ==
    ASSUME AgentInv, RunInv, NEW a \in Attempt, CancelRecv(a)
    PROVE  RunInv'
<1>1. /\ up /\ UNCHANGED <<sess, sup, work, cln, up, running, slot, ledger, launch, rep, replay, cur, net>>
      /\ gate' = IF slot.att = a /\ sup[a] = "gate"
                 THEN [gate EXCEPT ![a] = ClaimDecision(@, "cancelled")] ELSE gate
      /\ cancelling' = [cancelling EXCEPT
                          ![a] = IF slot.att # a /\ running = a THEN "drop" ELSE "tail"]
  BY Zenon DEF CancelRecv
<1>2. /\ gate \in [Attempt -> GateState] /\ cancelling \in [Attempt -> {"none", "drop", "tail"}] /\ Run(a)
  BY Zenon DEF AgentInv, TypeOK, StepdTypeOK, RunInv
<1>3. /\ \A b \in Attempt \ {a} : gate'[b] = gate[b] /\ cancelling'[b] = cancelling[b]
      /\ gate'[a] = "released" => gate[a] = "released"
      /\ cancelling'[a] = "drop" => slot.att # a /\ running = a
  BY <1>1, <1>2, Zenon DEF ClaimDecision
<1>4. OwnQuiet
  BY <1>1, Zenon DEF OwnQuiet
<1>5. ASSUME NEW b \in Attempt, b # a PROVE Apart(b) /\ Kept(b)
  BY <1>1, <1>3, <1>5, Zenon DEF Apart, Kept
<1>6. Run(a)' /\ Tame(a)
  <2>1. Armed(a)' => Armed(a)
    BY <1>1, <1>3, Zenon DEF Armed
  <2> QED BY <1>1, <1>2, <1>3, <2>1, Zenon DEF Run, Traced, Tracked, Tame
<1> QED BY <1>1, <1>4, <1>5, <1>6, ApartPlain, RunStep, Zenon DEF RunInv

LEMMA BooksRuns ==
    ASSUME AgentInv, RunInv, Reconcile \/ \E a \in Attempt : CancelDrop(a) \/ CancelTail(a)
    PROVE  RunInv'
<1>1. 0 \notin Attempt /\ cancelling \in [Attempt -> {"none", "drop", "tail"}]
  BY AttTypes, Zenon DEF AgentInv, TypeOK
<1>2. SUFFICES OwnQuiet /\ \A b \in Attempt : Apart(b) /\ Kept(b)
  BY ApartStep, Zenon
<1>3. CASE Reconcile
  BY <1>1, <1>3, Zenon DEF Reconcile, OwnQuiet, Apart, Kept, svars, cvars
<1>4. ASSUME NEW a \in Attempt, CancelTail(a)
      PROVE  OwnQuiet /\ \A b \in Attempt : Apart(b) /\ Kept(b)
  <2>1. up
    BY <1>4, Zenon DEF CancelTail, RunInv, Own
  <2>2. UNCHANGED <<sess, sup, gate, work, cln, up, running, slot, launch, rep, replay, cur, net>>
    BY <1>4, Zenon DEF CancelTail, svars, cvars
  <2>3. running # 0 => ledger' = ledger
    BY <1>4, Zenon DEF CancelTail
  <2>4. \A b \in Attempt : cancelling'[b] = "drop" => cancelling[b] = "drop"
    BY <1>1, <1>4, Zenon DEF CancelTail
  <2> QED BY <1>1, <2>1, <2>2, <2>3, <2>4, Zenon DEF OwnQuiet, Apart, Kept
<1>5. ASSUME NEW a \in Attempt, CancelDrop(a)
      PROVE  OwnQuiet /\ \A b \in Attempt : Apart(b) /\ Kept(b)
  <2>1. up /\ slot.att # a
    BY <1>5, Zenon DEF CancelDrop, RunInv, Own, Run, Tracked
  <2>2. UNCHANGED <<sess, sup, gate, work, cln, up, slot, launch, rep, replay, cur, net>>
    BY <1>5, <2>1, Zenon DEF CancelDrop, svars, cvars
  <2>3. (running' = running /\ ledger' = ledger) \/ (running = a /\ running' = 0)
    BY <1>5, Zenon DEF CancelDrop
  <2>4. \A b \in Attempt : cancelling'[b] = "drop" => cancelling[b] = "drop"
    BY <1>1, <1>5, Zenon DEF CancelDrop
  <2>5. \A b \in Attempt : slot.att = b /\ running = b => running' = b /\ ledger' = ledger
    BY <2>1, <2>3, Zenon
  <2> QED BY <1>1, <2>1, <2>2, <2>3, <2>4, <2>5, Zenon DEF OwnQuiet, Apart, Kept
<1> QED BY <1>3, <1>4, <1>5, Zenon

(***************************************************************************)
(* Reporting.                                                              *)
(***************************************************************************)
LEMMA ClaimRuns ==
    ASSUME AgentInv, RunInv, NEW a \in Attempt, NEW by, NEW e, slot.att = a, up, Claim(a, by, e),
           sup[a] # "gate",
           UNCHANGED <<svars, up, running, ledger, launch, replay, cancelling, recov, cvars>>
    PROVE  RunInv'
<1>1. /\ slot' = NoSlot /\ rep' = [rep EXCEPT ![a] = [pc |-> "claimed", by |-> by, exit |-> e, quar |-> FALSE]]
      /\ UNCHANGED <<sess, sup, gate, work, cln, up, running, ledger, launch, replay, cancelling, cur, net>>
  BY Zenon DEF Claim, svars, cvars
<1>2. rep \in [Attempt -> Report] /\ Run(a) /\ NoSlot.att \notin Attempt
  BY NothingTypes, AttTypes, Zenon DEF AgentInv, TypeOK, RunInv
<1>3. rep'[a].pc = "claimed" /\ \A b \in Attempt \ {a} : rep'[b] = rep[b]
  <2>1. rep'[a] = [pc |-> "claimed", by |-> by, exit |-> e, quar |-> FALSE]
    BY <1>1, <1>2, Zenon
  <2> QED BY <1>1, <1>2, <2>1, Zenon
<1>4. OwnQuiet
  <2>1. up' = up /\ launch' = launch /\ slot' = NoSlot
    BY <1>1, Zenon
  <2>2. up'
    BY <2>1
  <2> QED BY <2>1, <2>2, Zenon DEF OwnQuiet
<1>5. ASSUME NEW b \in Attempt, b # a PROVE Apart(b) /\ Kept(b)
  BY <1>1, <1>2, <1>3, <1>5, Zenon DEF Apart, Kept
<1>6. Plain(a)
  <2>1. ~Armed(a)'
    BY <1>1, Zenon DEF Armed
  <2> QED BY <1>1, <1>2, <1>3, <2>1, Zenon DEF Plain
<1> QED BY <1>1, <1>4, <1>5, <1>6, ApartPlain, RunStep, Zenon DEF RunInv

LEMMA ClaimsRuns ==
    ASSUME AgentInv, RunInv, NEW a \in Attempt,
           WatchdogClaims(a) \/ RecoveredClaims(a) \/ PushDelivered(a)
    PROVE  RunInv'
<1>1. CASE WatchdogClaims(a)
  BY <1>1, ClaimRuns, Zenon DEF WatchdogClaims, Alive
<1>2. CASE RecoveredClaims(a)
  BY <1>2, ClaimRuns, Zenon DEF RecoveredClaims
<1>3. CASE PushDelivered(a) /\ slot.att = a
  BY <1>3, ClaimRuns, Zenon DEF PushDelivered
<1>4. CASE PushDelivered(a) /\ slot.att # a
  <2>1. sup \in [Attempt -> SupState]
    BY Zenon DEF AgentInv, TypeOK, StepdTypeOK
  <2>2. Aside /\ Fading(a) /\ \A b \in Attempt \ {a} : Apart(b)
    BY <1>4, <2>1, Zenon DEF PushDelivered, Aside, Fading, Apart, cvars
  <2> QED BY <2>2, FadingPlain, AsideStep, Zenon DEF RunInv, Fading
<1> QED BY <1>1, <1>2, <1>3, <1>4, Zenon

LEMMA ClaimedCannotStart ==
    ASSUME AgentInv, NEW a \in Attempt, rep[a].pc = "claimed"
    PROVE  ~Startable(a)
<1> SUFFICES ASSUME Startable(a) PROVE FALSE
  OBVIOUS
<1>1. Known(a) = {} /\ Settled(a)
  BY Zenon DEF AgentInv, Good, Settled
<1>2. rep[a].by # "push"
  <2> SUFFICES ASSUME rep[a].by = "push" PROVE FALSE
    OBVIOUS
  <2>1. "real" \in Known(a)
    BY Zenon DEF Known
  <2> QED BY <1>1, <2>1, Zenon
<1>3. sup[a] = "gone"
  BY <1>1, <1>2, Zenon DEF Settled
<1> QED BY <1>3, Zenon DEF Startable

LEMMA RepReleaseRuns ==
    ASSUME AgentInv, RunInv, NEW a \in Attempt, RepRelease(a)
    PROVE  RunInv'
<1> DEFINE m == IF ExitUnknown(a) THEN [Mem(a) EXCEPT !.sess = ObserveExit(@, "lost")] ELSE Mem(a)
<1>1. PICK p \in PrepareOutcomes(a) : Becomes(a, ReleaseTracking(m, a, "claimed", p), p)
  BY Zenon DEF RepRelease
<1>2. /\ rep[a].pc = "claimed" /\ UNCHANGED <<sup, gate, up, launch, replay, cancelling, cur, net>>
      /\ \A b \in Attempt \ {a} : rep'[b] = rep[b]
  <2>1. rep \in [Attempt -> Report]
    BY Zenon DEF AgentInv, TypeOK
  <2>2. \E x : rep' = [rep EXCEPT ![a] = x]
    BY Zenon DEF RepRelease
  <2> QED BY <2>1, <2>2, Zenon DEF RepRelease, cvars
<1>3. m \in Memory /\ m.slot = slot /\ m.running = running /\ m.ledger = ledger
  <2>1. Mem(a) \in Memory /\ sess[a] \in Session
    BY MemType, Zenon DEF AgentInv, TypeOK, StepdTypeOK
  <2>2. ObserveExit(sess[a], "lost") \in Session
    BY <2>1, Zenon DEF ObserveExit, Session
  <2> QED BY <2>1, <2>2, MemBooks, Zenon DEF Memory
<1>4. p.work \in BOOLEAN /\ (p.work => work[a] /\ p.cln # "none")
  BY PrepareFacts, Zenon
<1> DEFINE r == ReleaseTracking(m, a, "claimed", p)
<1> HIDE DEF m
<1>5. Releases(r, a)
  BY <1>3, TrackingReleases, Zenon
<1>6. Becomes(a, r, p)
  BY <1>1, Zenon DEF m
<1> HIDE DEF r
<1>7. ~Startable(a) /\ ~(sup[a] = "gate" /\ gate[a] = "released")
  BY <1>2, ClaimedCannotStart, Zenon DEF Startable
<1> QED BY <1>2, <1>4, <1>5, <1>6, <1>7, BecomesStep, Zenon

LEMMA RepSendRuns ==
    ASSUME AgentInv, RunInv, NEW a \in Attempt, RepSend(a)
    PROVE  RunInv'
<1>1. /\ sess \in [Attempt -> Session] /\ cln \in [Attempt -> ClnState] /\ rep \in [Attempt -> Report]
      /\ Run(a) /\ rep[a].pc = "send"
  BY Zenon DEF AgentInv, TypeOK, StepdTypeOK, RunInv, RepSend
<1>2. /\ UNCHANGED <<sup, gate, work, up, running, slot, ledger, launch, replay, cancelling, cur, net>>
      /\ \A b \in Attempt \ {a} : rep'[b] = rep[b]
  BY <1>1, Zenon DEF RepSend
<1>3. \/ UNCHANGED <<sess, cln>>
      \/ Acknowledge(a, rep[a].quar)
  BY Zenon DEF RepSend
<1>4. /\ \A b \in Attempt \ {a} : sess'[b] = sess[b] /\ cln'[b] = cln[b]
      /\ cln[a] # "none" => cln'[a] # "none"
  BY <1>1, <1>3, Zenon DEF Acknowledge
<1>5. work[a] => cln[a] # "none"
  BY <1>1, Zenon DEF Run, Traced
<1>6. ~Startable(a)
  BY <1>1, StartableHasNoExit, Zenon
<1>7. Armed(a)' <=> Armed(a)
  BY <1>2, Zenon DEF Armed
<1>8. ~Armed(a)' /\ ~(sup'[a] = "gate" /\ launch'.att = a)
  BY <1>2, <1>6, <1>7, Zenon DEF Armed, Startable
<1>9. Plain(a)
  BY <1>1, <1>2, <1>4, <1>5, <1>8, Zenon DEF Plain, Run, Tracked
<1>10. ASSUME NEW b \in Attempt, b # a PROVE Apart(b) /\ Kept(b)
  BY <1>2, <1>4, <1>10, Zenon DEF Apart, Kept
<1>11. OwnQuiet
  BY <1>2, Zenon DEF OwnQuiet, RunInv, Own
<1> QED BY <1>2, <1>9, <1>10, <1>11, ApartPlain, RunStep, Zenon DEF RunInv

LEMMA RepFinalRuns ==
    ASSUME AgentInv, RunInv, NEW a \in Attempt, RepFinal(a)
    PROVE  RunInv'
<1>1. PICK p \in PrepareOutcomes(a) : Becomes(a, ReleaseTracking(Mem(a), a, "claimed", p), p)
  BY Zenon DEF RepFinal
<1> DEFINE r == ReleaseTracking(Mem(a), a, "claimed", p)
<1>2. rep[a].pc = "final" /\ UNCHANGED <<gate, up, launch, replay, cancelling, cur, net>>
  BY Zenon DEF RepFinal, cvars
<1>3. /\ sup'[a] \in {sup[a], "gone"} /\ (sup'[a] # "none" <=> sup[a] # "none")
      /\ \A b \in Attempt \ {a} : sup'[b] = sup[b] /\ rep'[b] = rep[b]
  <2>1. sup \in [Attempt -> SupState] /\ rep \in [Attempt -> Report]
    BY Zenon DEF AgentInv, TypeOK, StepdTypeOK
  <2> QED BY <2>1, Zenon DEF RepFinal
<1>4. Mem(a) \in Memory
  BY MemType, Zenon DEF AgentInv
<1>5. Releases(r, a) /\ (Exists(sess[a]) /\ ~Reported(sess[a]) => Exists(r.sess))
  BY <1>4, MemBooks, TrackingReleases, Zenon
<1>6. p.work \in BOOLEAN /\ (p.work => work[a] /\ p.cln # "none")
  BY PrepareFacts, Zenon
<1> HIDE DEF r
<1>7. Becomes(a, r, p)
  BY <1>1, Zenon DEF r
<1>8. Startable(a) /\ sup'[a] = "gate" => Exists(r.sess)
  <2> SUFFICES ASSUME Startable(a), sup'[a] = "gate" PROVE Exists(r.sess)
    BY Zenon
  <2>1. ~Reported(sess[a]) /\ sup[a] = "gate"
    BY <1>3, StartableHasNoExit, Zenon
  <2>2. Exists(sess[a])
    BY <2>1, Zenon DEF RunInv, Run, Traced, Startable, Armed
  <2> QED BY <1>5, <2>1, <2>2, Zenon
<1>9. ~(sup'[a] = "gate" /\ gate[a] = "released")
  <2>1. up /\ slot.att # a
    BY <1>2, NoRepIdle, Zenon DEF AgentInv, OneLaunch, TypeOK
  <2> QED BY <1>3, <2>1, Zenon DEF RunInv, Run, Tracked
<1> QED BY <1>2, <1>3, <1>5, <1>6, <1>7, <1>8, <1>9, BecomesStep, Zenon

LEMMA ReplayStartRuns ==
    ASSUME AgentInv, RunInv, NEW a \in Attempt, ReplayStart(a)
    PROVE  RunInv'
<1>1. PICK p \in PrepareOutcomes(a) : /\ work' = [work EXCEPT ![a] = p.work]
                                      /\ cln' = [cln EXCEPT ![a] = p.cln]
                                      /\ replay' \in {NoReplay, [att |-> a, exit |-> sess[a].exit, quar |-> ~p.ok]}
  BY Zenon DEF ReplayStart
<1>2. UNCHANGED <<sess, sup, gate, up, running, slot, ledger, launch, rep, cancelling, cur, net>> /\ up
  BY Zenon DEF ReplayStart, cvars
<1>3. /\ work \in [Attempt -> BOOLEAN] /\ cln \in [Attempt -> ClnState] /\ Run(a)
      /\ NoReplay.att \notin Attempt /\ [att |-> a, exit |-> sess[a].exit, quar |-> ~p.ok].att = a
  BY NothingTypes, AttTypes, Zenon DEF AgentInv, TypeOK, StepdTypeOK, RunInv
<1>4. p.work \in BOOLEAN /\ (p.work => work[a] /\ p.cln # "none")
  BY PrepareFacts, Zenon
<1>5. /\ work'[a] => work[a] /\ cln'[a] # "none"
      /\ \A b \in Attempt \ {a} : work'[b] = work[b] /\ cln'[b] = cln[b] /\ replay'.att # b
  <2>1. replay'.att \in Attempt => replay'.att = a
    BY <1>1, <1>3, Zenon
  <2> QED BY <1>1, <1>3, <1>4, <2>1, Zenon
<1>6. Armed(a)' <=> Armed(a)
  BY <1>2, Zenon DEF Armed
<1>7. Plain(a)
  BY <1>2, <1>3, <1>5, <1>6, Zenon DEF Plain, Run, Traced, Tracked
<1>8. ASSUME NEW b \in Attempt, b # a PROVE Apart(b) /\ Kept(b)
  BY <1>2, <1>5, <1>8, Zenon DEF Apart, Kept
<1>9. OwnQuiet
  BY <1>2, Zenon DEF OwnQuiet
<1> QED BY <1>2, <1>7, <1>8, <1>9, ApartPlain, RunStep, Zenon DEF RunInv

LEMMA ReplaySendRuns ==
    ASSUME AgentInv, RunInv, ReplaySend
    PROVE  RunInv'
<1>1. PICK a \in Attempt : a = replay.att
  BY AttTypes, Zenon DEF ReplaySend, AgentInv, OneLaunch
<1>2. PICK reply \in BOOLEAN, p \in PrepareOutcomes(a) :
          IF reply
          THEN LET c == IF replay.quar /\ cln[a] # "none" THEN "acked" ELSE cln[a]
                   acked == [Mem(a) EXCEPT !.sess = acknowledge_completion(@, c # "none")]
                   settled == IF p.ok \/ cln[a] = "none" THEN p ELSE [p EXCEPT !.cln = c]
               IN  IF Exists(acked.sess)
                   THEN Becomes(a, ReleaseTracking(acked, a, sess[a].desc, settled), settled)
                   ELSE Becomes(a, acked, [work |-> work[a], cln |-> c])
          ELSE UNCHANGED <<sess, slot, running, ledger, work, cln>>
  BY <1>1, ZenonT(30) DEF ReplaySend
<1>3. /\ replay' = NoReplay /\ NoReplay.att \notin Attempt
      /\ UNCHANGED <<sup, gate, up, launch, rep, cancelling, cur, net>>
  BY NothingTypes, AttTypes, Zenon DEF ReplaySend, AgentInv
<1>4. Run(a) /\ (work[a] => cln[a] # "none") /\ work[a] \in BOOLEAN
  BY <1>1, Zenon DEF RunInv, Run, Traced, AgentInv, TypeOK, StepdTypeOK
<1>5. ~Startable(a) /\ ~(sup[a] = "gate" /\ gate[a] = "released")
  BY <1>1, StartableHasNoExit, Zenon DEF Startable
<1>6. CASE ~reply
  <2>1. OwnQuiet
    BY <1>2, <1>3, <1>6, Zenon DEF OwnQuiet, RunInv, Own
  <2>2. \A b \in Attempt : Apart(b) /\ Kept(b)
    BY <1>2, <1>3, <1>6, Zenon DEF Apart, Kept
  <2> QED BY <2>1, <2>2, ApartStep, Zenon
<1>7. CASE reply
  <2> DEFINE c == IF replay.quar /\ cln[a] # "none" THEN "acked" ELSE cln[a]
             s == acknowledge_completion(sess[a], c # "none")
             acked == [Mem(a) EXCEPT !.sess = s]
             settled == IF p.ok \/ cln[a] = "none" THEN p ELSE [p EXCEPT !.cln = c]
             m == ReleaseTracking(acked, a, sess[a].desc, settled)
             q == [work |-> work[a], cln |-> c]
  <2>1. Becomes(a, m, settled) \/ Becomes(a, acked, q)
    <3>1. Mem(a).sess = sess[a]
      BY MemFields, Zenon
    <3> QED BY <1>2, <1>7, <3>1, Zenon
  <2>2. cln[a] # "none" => c # "none"
    BY Zenon
  <2>3. s \in Session
    <3>1. sess[a] \in Session /\ (~Exists(sess[a]) => sess[a].exit = "none")
      BY Zenon DEF AgentInv, TypeOK, StepdTypeOK, Good, Settled
    <3> HIDE DEF c
    <3> QED BY <3>1, AcknowledgedFades, Zenon DEF Fades
  <2>4. acked \in Memory /\ acked.slot = slot /\ acked.running = running /\ acked.ledger = ledger
    <3>1. Mem(a) \in Memory
      BY MemType, Zenon DEF AgentInv
    <3> HIDE DEF s
    <3> QED BY <2>3, <3>1, MemBooks, Zenon DEF Memory
  <2>5. settled.work \in BOOLEAN /\ (settled.work => work[a] /\ settled.cln # "none")
    <3>1. p.work \in BOOLEAN /\ (p.work => work[a] /\ p.cln # "none")
      BY PrepareFacts, Zenon
    <3>2. PICK o, w, d : p = [ok |-> o, work |-> w, cln |-> d]
      BY <1>2, Zenon DEF PrepareOutcomes
    <3>3. CASE ~(p.ok \/ cln[a] = "none")
      <4>1. settled = [ok |-> o, work |-> w, cln |-> c]
        BY <3>2, <3>3, Zenon
      <4> HIDE DEF c, settled
      <4> QED BY <2>2, <3>1, <3>2, <3>3, <4>1, Zenon
    <3> QED BY <3>1, <3>3, Zenon
  <2>6. q.work = work[a] /\ q.cln = c
    BY Zenon
  <2> HIDE DEF acked, settled, c, q, s
  <2>7. Releases(m, a)
    BY <2>4, TrackingReleases, Zenon
  <2>8. Releases(acked, a)
    BY <2>4, Zenon DEF Releases
  <2> HIDE DEF m
  <2>9. CASE Becomes(a, m, settled)
    BY <1>3, <1>5, <2>5, <2>7, <2>9, BecomesStep, Zenon
  <2>10. CASE Becomes(a, acked, q)
    BY <1>3, <1>4, <1>5, <2>2, <2>6, <2>8, <2>10, BecomesStep, Zenon
  <2> QED BY <2>1, <2>9, <2>10, Zenon
<1> QED BY <1>6, <1>7, Zenon

LEMMA RecoveryReportRuns ==
    ASSUME AgentInv, RunInv, NEW a \in Attempt, RecoveryReport(a)
    PROVE  RunInv'
<1>1. UNCHANGED <<up, launch, rep, replay, cancelling, cur, net>>
  BY Zenon DEF RecoveryReport, cvars
<1>2. CASE UNCHANGED <<svars, slot, running, ledger>>
  <2>1. OwnQuiet /\ \A b \in Attempt : Apart(b) /\ Kept(b)
    BY <1>1, <1>2, Zenon DEF OwnQuiet, Apart, Kept, svars, RunInv, Own
  <2> QED BY <2>1, ApartStep, Zenon
<1>3. CASE Rejected(a)
  <2>1. sup \in [Attempt -> SupState] /\ Settled(a) /\ Run(a)
    BY Zenon DEF AgentInv, TypeOK, StepdTypeOK, Good, RunInv
  <2>2. /\ gate' = gate
        /\ sup' = [sup EXCEPT ![a] = IF sess[a].desc # "prov" /\ Alive(a) THEN "gone" ELSE @]
    BY <1>3, Zenon DEF Rejected
  <2>3. /\ sup'[a] \in {sup[a], "gone"} /\ sup'[a] # "gate" /\ (sup[a] # "none" <=> sup'[a] # "none")
        /\ \A b \in Attempt \ {a} : sup'[b] = sup[b]
    BY <2>1, <2>2, Zenon DEF Settled, Alive
  <2>4. CASE UNCHANGED <<sess, slot, running, ledger, work, cln>>
    <3>1. Aside /\ Fading(a) /\ \A b \in Attempt \ {a} : Apart(b)
      BY <1>1, <2>2, <2>3, <2>4, Zenon DEF Aside, Fading, Apart
    <3> QED BY <2>1, <2>3, <3>1, FadingPlain, AsideStep, Zenon
  <2> DEFINE p == [ok |-> TRUE, work |-> FALSE, cln |-> "none"]
             m == ReleaseTracking(Mem(a), a, slot.desc, p)
             r == [m EXCEPT !.sess = NoSession]
  <2>5. CASE Becomes(a, r, p)
    <3>1. p.work = FALSE
      BY Zenon
    <3>2. Mem(a) \in Memory /\ (~Exists(Mem(a).sess) => Mem(a).sess.exit = "none")
      BY <2>1, MemType, MemBooks, Zenon DEF AgentInv, Settled
    <3> HIDE DEF p
    <3>3. m \in Memory /\ Releases(m, a)
      BY <3>2, MemBooks, ReleaseTrackingType, TrackingReleases, Zenon
    <3> HIDE DEF m
    <3>4. r.slot = m.slot /\ r.running = m.running /\ r.ledger = m.ledger
      BY <3>3, Zenon DEF Memory
    <3> HIDE DEF r
    <3>5. Releases(r, a)
      BY <3>3, <3>4, Zenon DEF Releases
    <3> QED BY <1>1, <2>2, <2>3, <2>5, <3>1, <3>5, BecomesStep, Zenon
  <2> QED BY <1>3, <2>4, <2>5, Zenon DEF Rejected
<1> QED BY <1>2, <1>3, Zenon DEF RecoveryReport

LEMMA AgentCrashRuns ==
    ASSUME AgentInv, RunInv, AgentCrash
    PROVE  RunInv'
<1>1. /\ up' = FALSE /\ running' = 0 /\ slot' = NoSlot /\ launch' = NoLaunch
      /\ rep' = [a \in Attempt |-> NoRep] /\ replay' = NoReplay
      /\ cancelling' = [a \in Attempt |-> "none"]
      /\ UNCHANGED <<sess, sup, gate, work, cln, net>>
  BY Zenon DEF AgentCrash, svars
<1>2. /\ NoSlot.att \notin Attempt /\ NoLaunch.att \notin Attempt /\ NoReplay.att \notin Attempt
      /\ 0 \notin Attempt
  BY NothingTypes, AttTypes, Zenon DEF AgentInv
<1>3. OwnQuiet
  BY <1>1, Zenon DEF OwnQuiet
<1>4. ASSUME NEW b \in Attempt PROVE Plain(b)
  <2>1. rep'[b].pc = "none" /\ cancelling'[b] = "none"
    BY <1>1, NoRepIdle, Zenon
  <2>2. Armed(b)' <=> Armed(b)
    BY <1>1, Zenon DEF Armed
  <2>3. Armed(b) => Exists(sess[b])
    BY Zenon DEF RunInv, Run, Traced
  <2> QED BY <1>1, <1>2, <2>1, <2>2, <2>3, Zenon DEF Plain
<1> QED BY <1>1, <1>3, <1>4, RunStep, Zenon

LEMMA AgentStartRuns ==
    ASSUME AgentInv, RunInv, AgentStart,
           \A S \in SUBSET Attempt : S # {} => MaxOf(S) \in S /\ \A y \in S : y <= MaxOf(S)
    PROVE  RunInv'
<1> DEFINE stale == {a \in Attempt : Stale(a)}
           live == {a \in Attempt : Exists(sess[a]) /\ ~Stale(a)}
<1>1. /\ ~up /\ launch.att = 0 /\ launch.pc = "idle" /\ \A b \in Attempt : rep[b] = NoRep /\ cancelling[b] = "none"
  BY Zenon DEF AgentInv, OneLaunch, AgentStart, RunInv, Own
<1>2. PICK cleaned \in SUBSET stale :
          LET held == {a \in stale \ cleaned : ~Reported(sess[a])}
              kept == live \cup held
              newest == MaxOf(kept)
          IN  /\ work' = [a \in Attempt |-> work[a] /\ a \notin cleaned]
              /\ cln' = [a \in Attempt |->
                           CASE a \in cleaned -> "none"
                             [] a \in stale \ cleaned /\ cln[a] = "none" -> "pending"
                             [] OTHER -> cln[a]]
              /\ sess' = [a \in Attempt |->
                            LET known == IF a \in stale /\ sess[a].exit = "none"
                                         THEN ObserveExit(sess[a], "lost")
                                         ELSE sess[a]
                            IN  IF a \in stale \ held
                                THEN record_resources_released(known, a \notin cleaned)
                                ELSE known]
              /\ running' = newest
              /\ slot' = IF kept = {} THEN NoSlot
                         ELSE [att |-> newest, desc |-> sess[newest].desc]
              /\ ledger' = IF kept = {} THEN Free
                           ELSE [att |-> newest, launching |-> FALSE]
              /\ recov' = kept
  BY Zenon DEF AgentStart
<1> DEFINE kept == live \cup {a \in stale \ cleaned : ~Reported(sess[a])}
           newest == MaxOf(kept)
<1>3. up' = TRUE /\ UNCHANGED <<sup, gate, launch, rep, replay, cancelling, cur, net>>
  BY Zenon DEF AgentStart, cvars
\* A session is left as it is unless its supervisor is dead or never published.
<1>4. ASSUME NEW b \in Attempt, b \notin stale
      PROVE  work'[b] = work[b] /\ cln'[b] = cln[b] /\ sess'[b] = sess[b] /\ (Exists(sess[b]) => b \in kept)
  <2>1. work'[b] = (work[b] /\ b \notin cleaned) /\ work[b] \in BOOLEAN
    BY <1>2, Zenon DEF AgentInv, TypeOK, StepdTypeOK
  <2> QED BY <1>2, <1>4, <2>1, Zenon
<1>5. ASSUME NEW b \in stale
      PROVE  /\ b \in Attempt /\ sup[b] \in {"boot", "gone"} /\ (work'[b] => work[b])
             /\ work'[b] => cln'[b] # "none"
  <2>1. b \in Attempt /\ sup[b] \in {"boot", "gone"}
    BY <1>1, Zenon DEF Stale, Alive, AgentInv, Good, Settled, OneLaunch
  <2>2. work'[b] = (work[b] /\ b \notin cleaned)
    BY <1>2, <2>1, Zenon
  <2>3. b \notin cleaned => cln'[b] # "none"
    BY <1>2, <2>1, Zenon
  <2> QED BY <2>1, <2>2, <2>3, Zenon
<1>6. running' = newest /\ (kept # {} => slot'.att = newest /\ ledger'.att = newest)
      /\ (kept = {} => slot' = NoSlot)
  BY <1>2, Zenon
<1>7. kept \subseteq Attempt /\ \A b \in kept : sup[b] # "none"
  BY Zenon DEF Stale, AgentInv, OneLaunch
<1> HIDE DEF stale, live, kept, newest
<1>8. kept # {} => newest \in kept /\ \A b \in kept : b <= newest
  BY <1>7, Zenon DEF newest
<1>9. kept = {} => newest = 0 /\ slot'.att = 0
  BY <1>6, NothingTypes, Zenon DEF newest, MaxOf
\* The newest is the only session with a run that is not over.
<1>10. ASSUME NEW b \in kept, b # newest PROVE Over(b)
  <2>1. newest \in Attempt /\ b \in Attempt /\ b <= newest /\ sup[newest] # "none"
    BY <1>7, <1>8, Zenon
  <2>2. b < newest
    BY <1>10, <2>1 DEF Attempt
  <2> QED BY <2>1, <2>2, Zenon DEF RunInv, OlderRunsOver, Fenced
<1>11. ASSUME NEW b \in Attempt, b \notin stale, Exists(sess[b]), ~Over(b)
       PROVE  slot'.att = b
  BY <1>4, <1>6, <1>10, <1>11, Zenon
<1>12. ASSUME NEW b \in Attempt PROVE Run(b)' /\ Tame(b)
  <2>1. Armed(b)' <=> Armed(b)
    BY <1>3, Zenon DEF Armed
  <2>2. Run(b) /\ launch'.att # b /\ cancelling'[b] = "none" /\ b # 0
    BY <1>1, <1>3, AttTypes, Zenon DEF RunInv, AgentInv
  <2>3. Armed(b) => b \notin stale /\ Exists(sess[b]) /\ slot'.att = b
    <3>1. Armed(b) => b \notin stale /\ Exists(sess[b]) /\ ~Over(b)
      BY <1>5, <2>2, Zenon DEF Armed, Over, Run, Traced
    <3> QED BY <1>11, <3>1, Zenon
  <2>4. work'[b] /\ cln'[b] = "none" =>
           /\ b \notin stale /\ work[b] /\ cln[b] = "none" /\ Exists(sess[b]) /\ ~Reported(sess[b])
           /\ replay.att # b /\ slot'.att = b
    <3>1. work'[b] /\ cln'[b] = "none" => b \notin stale /\ work[b] /\ cln[b] = "none"
      BY <1>4, <1>5, Zenon
    <3>2. work[b] /\ cln[b] = "none" => Exists(sess[b]) /\ ~Reported(sess[b]) /\ replay.att # b
      BY <2>2, Zenon DEF Run, Traced
    <3> QED BY <1>11, <3>1, <3>2, Zenon DEF Over
  <2>5. rep'[b].pc = "none"
    BY <1>1, <1>3, NoRepIdle, Zenon
  <2>6. Traced(b)'
    BY <1>4, <2>1, <2>2, <2>3, <2>4, <2>5, <1>3, Zenon DEF Traced
  <2>7. slot'.att = b \/ running' = b => running' = b /\ ledger'.att = b /\ sup[b] # "none"
    BY <1>6, <1>7, <1>8, <1>9, <2>2, Zenon
  <2>8. Tracked(b)'
    BY <1>3, <2>1, <2>2, <2>3, <2>4, <2>7, Zenon DEF Tracked, Armed
  <2>9. work'[b] => work[b]
    BY <1>4, <1>5, Zenon
  <2> QED BY <2>1, <2>6, <2>8, <2>9, Zenon DEF Run, Tame
<1>13. Own'
  BY <1>1, <1>3, Zenon DEF Own
<1>14. ASSUME NEW a \in Attempt, NEW b \in Attempt, Fenced(a, b)' PROVE Fenced(a, b)
  BY <1>3, <1>14, Zenon DEF Fenced
<1> QED BY <1>12, <1>13, <1>14, LaunchStep, Zenon

=============================================================================
