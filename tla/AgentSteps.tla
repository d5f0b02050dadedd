----------------------------- MODULE AgentSteps -----------------------------
(***************************************************************************)
(* The inductive invariant of Agent, and that the supervisor's steps and   *)
(* the launch keep it.  AgentReports has the other actions, AgentRuns what *)
(* it takes for two attempts together, AgentProofs the conclusions.        *)
(***************************************************************************)
EXTENDS Agent, TLAPS

LaunchCall(a) == [op |-> "launch", att |-> a]
StartCall(a) == [op |-> "start", att |-> a]

\* The attempt has no supervisor yet: it is not dispatched, its launch is on its
\* way, or is before the spawn.
Unborn(a) ==
    \/ a > cur
    \/ LaunchCall(a) \in net
    \/ launch.att = a /\ launch.pc \in {"fence", "spawn"}

\* An attempt is launched once.
OneLaunch ==
    /\ launch.pc = "idle" <=> launch.att = 0
    /\ launch.att # 0 => launch.att <= cur /\ LaunchCall(launch.att) \notin net
    /\ \A c \in net : c.att <= cur
    /\ launch.pc = "wait" => rep[launch.att] = NoRep /\ slot.att # launch.att
    /\ launch.pc \in {"wait", "commit"} => sup[launch.att] # "none"
    /\ ~up => launch.att = 0 /\ \A a \in Attempt : rep[a] = NoRep
    /\ replay.att = 0 => replay = NoReplay
    /\ slot.att # 0 => sup[slot.att] # "none"
    /\ \A a \in Attempt :
          /\ Unborn(a) => sup[a] = "none"
          /\ sup[a] = "none" => /\ ~Exists(sess[a]) /\ reported[a] = {}
                                /\ rep[a] = NoRep /\ replay.att # a

\* A workload exists only past the gate, and never behind a cancelled one; nobody
\* opens the gate before its supervisor waits at it.
Gated(a) ==
    /\ work[a] => sup[a] \notin {"none", "boot", "gate"} /\ gate[a] # "cancelled"
    /\ sup[a] \in {"none", "boot"} =>
          /\ gate[a] = "open"
          /\ StartCall(a) \notin net
          /\ ~(launch.att = a /\ launch.pc = "commit")

\* The exits of attempt a that were reported, recorded, or are to be reported.
Known(a) ==
    {x \in {"real", "lost"} :
        \/ x \in reported[a]
        \/ sess[a].exit = x
        \/ rep[a].pc = "send" /\ rep[a].exit = x
        \/ rep[a].pc = "claimed" /\ rep[a].by = "push" /\ x = "real"
        \/ replay.att = a /\ replay.exit = x}

\* The workload may still be started.
Startable(a) ==
    \/ sup[a] = "gate" /\ (gate[a] = "released" \/ StartCall(a) \in net)
    \/ sup[a] \in {"boot", "gate"} /\ launch.att = a

\* All exits known of an attempt agree: none while its run may still start or is
\* under way; the real one once a supervisor has recorded it; and where a
\* session holds no exit or no workload was started, none but an invented one.
Settled(a) ==
    /\ Known(a) \subseteq {"real"} \/ Known(a) \subseteq {"lost"}
    /\ Startable(a) \/ sup[a] \in {"work", "exited"} => Known(a) = {}
    /\ sup[a] \in {"reap", "push"} =>
          Known(a) \subseteq {"real"} /\ (Exists(sess[a]) => sess[a].exit = "real")
    /\ (Exists(sess[a]) /\ sess[a].exit = "none") \/ sup[a] \in {"none", "boot", "gate"} =>
          Known(a) \subseteq {"lost"}
    /\ ~Exists(sess[a]) => sess[a].exit = "none"
    /\ sess[a].desc = "prov" => sup[a] \in {"boot", "gone"}
    /\ rep[a].pc = "claimed" =>
          rep[a].by = "push" \/ (rep[a].by = "watchdog" /\ sup[a] = "gone")
    /\ rep[a].pc = "send" => rep[a].exit # "none"
    /\ replay.att = a => replay.exit # "none"

\* What is to be reported without a drain is gone.
Gone(a) ==
    /\ rep[a].pc = "send" /\ ~rep[a].quar => ~work[a]
    /\ replay.att = a /\ ~replay.quar => ~work[a]
    /\ reported[a] # {} => ~work[a] \/ drained

Good(a) == Gated(a) /\ Settled(a) /\ Gone(a)

AgentInv ==
    /\ TypeOK
    /\ OneLaunch
    /\ \A a \in Attempt : Good(a)


(***************************************************************************)
(* A step is calm for attempt b when it starts nothing and learns nothing  *)
(* new about b: its session is removed or keeps what it says, its          *)
(* supervisor moves on or dies, its workload may only go, a claim may only *)
(* end, and only a known exit is reported.                                 *)
(***************************************************************************)
Fades(s, t) ==
    /\ t \in Session
    /\ \/ t.desc = "none" /\ t.exit = "none"
       \/ t.desc = s.desc /\ t.exit = s.exit

MovesOn(u, v) ==
    \/ v = u
    \/ v = "gone" /\ u # "none"
    \/ u = "work" /\ v = "exited"
    \/ u = "reap" /\ v = "push"

Calm(b) ==
    /\ Fades(sess[b], sess'[b])
    /\ MovesOn(sup[b], sup'[b])
    /\ gate'[b] = gate[b] \/ (gate'[b] = "cancelled" /\ sup[b] = "gate")
    /\ work'[b] => work[b]
    /\ \/ rep'[b] \in {rep[b], NoRep}
       \/ rep'[b].pc = "final" /\ rep[b].pc # "none"
    /\ replay'.att = b => replay' = replay
    /\ reported'[b] \subseteq Known(b)
    /\ reported'[b] # {} => ~work'[b] \/ drained'
    /\ StartCall(b) \in net' => StartCall(b) \in net
    /\ launch'.att = b =>
          \/ launch.att = b /\ (launch'.pc # "commit" \/ launch.pc = "commit" \/ sup[b] = "gate")
          \/ sup[b] = "none" /\ launch'.pc # "commit"

LEMMA CalmKeeps ==
    ASSUME NEW b \in Attempt, TypeOK, TypeOK', Good(b), Calm(b)
    PROVE  Good(b)'
<1> USE DEF Good, Calm
<1>1. Known(b)' \subseteq Known(b)
    BY DEF Known, Fades, NoRep
<1>2. sess[b] \in Session /\ sess'[b] \in Session /\ sup[b] \in SupState /\ sup'[b] \in SupState
    BY Zenon DEF TypeOK, StepdTypeOK
<1>3. Gated(b)'
    BY <1>2, Zenon DEF Gated, MovesOn
<1>4. Startable(b)' => Startable(b)
    BY Zenon DEF Startable, MovesOn
<1>5. Settled(b)'
    BY <1>1, <1>2, <1>4 DEF Settled, MovesOn, Fades, Exists, NoRep
<1>6. Gone(b)'
    BY DEF Gone, NoRep
<1>7. QED
    BY <1>3, <1>5, <1>6, Zenon

\* The launch, the calls and the slot do nothing new either.
LaunchQuiet ==
    /\ cur' = cur
    /\ \A c \in net' : c \in net \/ (c.op = "start" /\ c.att <= cur)
    /\ \/ launch' = NoLaunch
       \/ /\ launch'.att = launch.att
          /\ launch'.pc = "idle" <=> launch.pc = "idle"
          /\ launch'.pc \in {"fence", "spawn"} <=> launch.pc \in {"fence", "spawn"}
          /\ launch'.pc = "wait" => launch.pc = "wait"
    /\ up' \/ (launch'.att = 0 /\ \A b \in Attempt : rep'[b] = NoRep)
    /\ \/ slot'.att \in {0, slot.att}
       \/ sup'[slot'.att] # "none" /\ launch'.pc # "wait"
    /\ replay' \in {replay, NoReplay} \/ replay'.att # 0

LEMMA NoRepIdle == NoRep.pc = "none" /\ NoRep.exit = "none" /\ NoRep.by = "none"
BY Zenon DEF NoRep

\* What the other steps still keep of an attempt that has a supervisor.
Born(b) ==
    /\ sup[b] # "none"
    /\ sup'[b] # "none"
    /\ launch'.pc = "wait" /\ launch'.att = b => rep'[b] = NoRep

LEMMA AttTypes ==
    ASSUME TypeOK
    PROVE  /\ launch.att \in 0..MaxAttempt /\ (launch.att # 0 => launch.att \in Attempt)
           /\ slot.att \in 0..MaxAttempt /\ (slot.att # 0 => slot.att \in Attempt)
           /\ replay.att \in 0..MaxAttempt /\ (replay.att # 0 => replay.att \in Attempt)
           /\ launch.pc \in {"idle", "fence", "spawn", "wait", "commit"}
           /\ 0 \notin Attempt
BY MaxAttemptAssumption DEF TypeOK, Launch, Slot, Replay, Attempt

LEMMA ExitTypes ==
    ASSUME TypeOK, NEW b \in Attempt
    PROVE  /\ rep[b].exit \in {"none", "real", "lost"} /\ rep[b].quar \in BOOLEAN
           /\ replay.exit \in {"none", "real", "lost"} /\ replay.quar \in BOOLEAN
           /\ reported[b] \subseteq {"real", "lost"}
BY Zenon DEF TypeOK, Report, Replay

LEMMA ReportedKnown ==
    ASSUME TypeOK, NEW b \in Attempt
    PROVE  reported[b] \subseteq Known(b)
BY Zenon DEF TypeOK, Known

LEMMA NothingTypes ==
    /\ NoSlot \in Slot /\ NoSlot.att = 0
    /\ NoLaunch \in Launch /\ NoLaunch.att = 0 /\ NoLaunch.pc = "idle"
    /\ Free \in Ledger
    /\ NoRep \in Report
    /\ NoReplay \in Replay /\ NoReplay.att = 0
BY MaxAttemptAssumption
    DEF NoSlot, Slot, NoLaunch, Launch, Free, Ledger, NoRep, Report, NoReplay, Replay

LEMMA LaunchMoves ==
    ASSUME NEW l \in Launch, NEW pc \in {"idle", "fence", "spawn", "wait", "commit"}
    PROVE  LET m == [l EXCEPT !.pc = pc]
           IN  m \in Launch /\ m.pc = pc /\ m.att = l.att
BY Zenon DEF Launch

LEMMA DownIsIdle ==
    ASSUME OneLaunch
    PROVE  up \/ (launch.att = 0 /\ \A b \in Attempt : rep[b] = NoRep)
BY Zenon DEF OneLaunch

LEMMA ReportEnds ==
    ASSUME NEW r \in Report
    PROVE  [r EXCEPT !.pc = "final"] \in Report /\ [r EXCEPT !.pc = "final"].pc = "final"
BY Zenon DEF Report

LEMMA CalmStep ==
    ASSUME AgentInv, TypeOK', LaunchQuiet,
           \A b \in Attempt : Calm(b) \/ (Born(b) /\ Good(b)')
    PROVE  AgentInv'
<1>1. ASSUME NEW b \in Attempt PROVE Good(b)'
    BY <1>1, CalmKeeps, Zenon DEF AgentInv
<1>2. ASSUME NEW b \in Attempt
      PROVE  /\ sup'[b] = "none" <=> sup[b] = "none"
             /\ sup[b] = "none" => /\ ~Exists(sess'[b]) /\ reported'[b] = {}
                                   /\ rep'[b] = NoRep /\ replay'.att # b
  <2> SUFFICES ASSUME ~Born(b) PROVE <1>2!2
    BY Zenon DEF Born
  <2>1. OneLaunch /\ Settled(b) /\ Calm(b)
    BY <1>2, Zenon DEF AgentInv, Good
  <2>2. sup[b] = "none" => Known(b) = {}
    BY <2>1 DEF OneLaunch, Known, Settled, NoRep
  <2>3. sup'[b] = "none" <=> sup[b] = "none"
    BY <2>1, Zenon DEF Calm, MovesOn
  <2>4. sup[b] = "none" => ~Exists(sess[b]) /\ rep[b] = NoRep /\ replay.att # b
    BY <2>1, Zenon DEF OneLaunch
  <2>5. ~Exists(sess[b]) => ~Exists(sess'[b])
    BY <2>1, Zenon DEF Calm, Fades, Exists
  <2>6. rep[b] = NoRep => rep'[b] = NoRep
    BY <2>1, NoRepIdle, Zenon DEF Calm
  <2>7. QED
    BY <2>1, <2>2, <2>3, <2>4, <2>5, <2>6, Zenon DEF Calm
<1>3. ASSUME NEW b \in Attempt PROVE Unborn(b)' => Unborn(b)
    BY <1>3 DEF LaunchQuiet, Unborn, NoLaunch, LaunchCall
<1>4. launch'.pc = "wait" => rep'[launch'.att] = NoRep /\ slot'.att # launch'.att
  <2> SUFFICES ASSUME launch'.pc = "wait"
               PROVE  rep'[launch'.att] = NoRep /\ slot'.att # launch'.att
    BY Zenon
  <2>1. launch.pc = "wait" /\ launch'.att = launch.att
    BY DEF LaunchQuiet, NoLaunch
  <2>2. launch.att \in Attempt /\ rep[launch.att] = NoRep /\ slot.att # launch.att
    BY <2>1, AttTypes, Zenon DEF AgentInv, OneLaunch
  <2>3. Calm(launch.att) \/ Born(launch.att)
    BY <2>2, Zenon
  <2>4. QED
    BY <2>1, <2>2, <2>3, NoRepIdle, MaxAttemptAssumption DEF Calm, Born, LaunchQuiet, Attempt
<1>5. slot'.att # 0 => sup'[slot'.att] # "none"
  <2>1. CASE slot'.att = slot.att /\ slot.att # 0
    <3>1. slot.att \in Attempt /\ sup[slot.att] # "none"
      BY <2>1, AttTypes, Zenon DEF AgentInv, OneLaunch
    <3>2. QED
      BY <2>1, <3>1, <1>2
  <2>2. QED
    BY <2>1, Zenon DEF LaunchQuiet
<1>9. launch'.pc \in {"wait", "commit"} => sup'[launch'.att] # "none"
  <2> SUFFICES ASSUME launch'.pc \in {"wait", "commit"}
               PROVE  sup'[launch'.att] # "none"
    BY Zenon
  <2>1. launch.pc \in {"wait", "commit"} /\ launch'.att = launch.att
    BY AttTypes DEF LaunchQuiet, NoLaunch, AgentInv
  <2>2. launch.att \in Attempt /\ sup[launch.att] # "none"
    BY <2>1, AttTypes, Zenon DEF AgentInv, OneLaunch
  <2>3. QED
    BY <1>2, <2>1, <2>2, Zenon
<1>6. /\ launch'.pc = "idle" <=> launch'.att = 0
      /\ launch'.att # 0 => launch'.att <= cur' /\ LaunchCall(launch'.att) \notin net'
      /\ \A c \in net' : c.att <= cur'
      /\ ~up' => launch'.att = 0 /\ \A b \in Attempt : rep'[b] = NoRep
      /\ replay'.att = 0 => replay' = NoReplay
    BY DEF AgentInv, OneLaunch, LaunchQuiet, NoLaunch, LaunchCall
<1>7. OneLaunch'
    BY <1>2, <1>3, <1>4, <1>5, <1>6, <1>9, AgentInv, Zenon DEF AgentInv, OneLaunch, LaunchCall
<1>8. QED
    BY <1>1, <1>7, Zenon DEF AgentInv

\* A step that touches nothing of attempt b is calm for it.
Same(b) ==
    /\ sess'[b] = sess[b] /\ sup'[b] = sup[b] /\ gate'[b] = gate[b] /\ work'[b] = work[b]
    /\ rep'[b] \in {rep[b], NoRep} /\ reported'[b] = reported[b]
    /\ drained => drained'
    /\ replay'.att = b => replay' = replay
    /\ StartCall(b) \in net' => StartCall(b) \in net
    /\ launch'.att = b =>
          \/ launch.att = b /\ (launch'.pc # "commit" \/ launch.pc = "commit" \/ sup[b] = "gate")
          \/ sup[b] = "none" /\ launch'.pc # "commit"

LEMMA SameCalm ==
    ASSUME NEW b \in Attempt, TypeOK, Good(b), Same(b)
    PROVE  Calm(b)
<1>1. reported[b] \subseteq Known(b)
    BY Zenon DEF TypeOK, Known
<1>2. sess[b] \in Session
    BY Zenon DEF TypeOK, StepdTypeOK
<1>3. QED
    BY <1>1, <1>2, Zenon DEF Same, Calm, Good, Gone, Fades, MovesOn

(***************************************************************************)
(* What the helpers on sessions and on the agent's memory do.              *)
(***************************************************************************)
LEMMA SweepFades ==
    ASSUME NEW s \in Session, NEW pending
    PROVE  Fades(s, Sweep(s, pending))
BY Zenon DEF Session, Fades, Sweep, NoSession

LEMMA ReleasedFades ==
    ASSUME NEW s \in Session, NEW pending,
           ~Exists(s) => s.exit = "none"
    PROVE  Fades(s, record_resources_released(s, pending))
<1> DEFINE t == [s EXCEPT !.released = TRUE]
<1>1. t \in Session /\ t.desc = s.desc /\ t.exit = s.exit
    BY Zenon DEF Session
<1>2. Fades(t, Sweep(t, pending))
    BY <1>1, SweepFades, Zenon
<1> HIDE DEF t
<1>3. Fades(s, Sweep(t, pending))
    BY <1>1, <1>2, Zenon DEF Fades
<1>4. QED
    BY <1>3, Zenon DEF t, record_resources_released, Fades

LEMMA AcknowledgedFades ==
    ASSUME NEW s \in Session, NEW pending,
           ~Exists(s) => s.exit = "none"
    PROVE  Fades(s, acknowledge_completion(s, pending))
<1> DEFINE t == [s EXCEPT !.acked = (s.exit # "none")]
<1>1. t \in Session /\ t.desc = s.desc /\ t.exit = s.exit
    BY Zenon DEF Session
<1>2. Fades(t, Sweep(t, pending))
    BY <1>1, SweepFades, Zenon
<1> HIDE DEF t
<1>3. Fades(s, Sweep(t, pending))
    BY <1>1, <1>2, Zenon DEF Fades
<1>4. QED
    BY <1>3, Zenon DEF t, acknowledge_completion, Fades

Memory == [sess : Session, slot : Slot, running : 0..MaxAttempt, ledger : Ledger]

LEMMA DescSet ==
    ASSUME NEW s \in Session, NEW d \in {"none", "prov", "gate", "run"}
    PROVE  LET t == [s EXCEPT !.desc = d]
           IN  t \in Session /\ t.desc = d /\ t.exit = s.exit
BY Zenon DEF Session

LEMMA MemType ==
    ASSUME NEW a \in Attempt, TypeOK
    PROVE  Mem(a) \in Memory
BY Zenon DEF Mem, Memory, Slot, Ledger, TypeOK, StepdTypeOK

LEMMA DropOwnType ==
    ASSUME NEW a \in Attempt, NEW m \in Memory
    PROVE  /\ DropOwn(m, a) \in Memory
           /\ DropOwn(m, a).sess = m.sess
           /\ DropOwn(m, a).slot = m.slot
<1>1. Releasing(m.ledger, a) \in Ledger
    BY MaxAttemptAssumption DEF Memory, Ledger, Releasing, Free
<1>2. QED
    BY <1>1, MaxAttemptAssumption DEF Memory, DropOwn

LEMMA ReleaseTrackingType ==
    ASSUME NEW a \in Attempt, NEW m \in Memory, NEW d, NEW p,
           ~Exists(m.sess) => m.sess.exit = "none"
    PROVE  LET r == ReleaseTracking(m, a, d, p)
           IN  /\ r \in Memory
               /\ Fades(m.sess, r.sess)
               /\ r.slot \in {m.slot, NoSlot}
<1> DEFINE freed == IF m.slot = [att |-> a, desc |-> d] THEN [m EXCEPT !.slot = NoSlot] ELSE m
           last == IF freed.slot.att = a THEN freed ELSE DropOwn(freed, a)
           released == record_resources_released(last.sess, p.cln # "none")
           after == [last EXCEPT !.sess = released]
<1>1. NoSlot \in Slot
    BY MaxAttemptAssumption DEF NoSlot, Slot
<1>2. freed \in Memory /\ freed.sess = m.sess /\ freed.slot \in {m.slot, NoSlot}
    BY <1>1, Zenon DEF Memory
<1> HIDE DEF freed
<1>3. last \in Memory /\ last.sess = m.sess /\ last.slot \in {m.slot, NoSlot}
    BY <1>2, DropOwnType, Zenon
<1> HIDE DEF last
<1>4. m.sess \in Session
    BY Zenon DEF Memory
<1>5. Fades(m.sess, released) /\ released \in Session
    BY <1>3, <1>4, ReleasedFades DEF Fades
<1> HIDE DEF released
<1>6. after \in Memory /\ after.sess = released /\ after.slot = last.slot
    BY <1>3, <1>5, Zenon DEF Memory
<1> HIDE DEF after
<1>7. ReleaseTracking(m, a, d, p) = IF p.ok \/ Reported(m.sess) THEN after ELSE m
    BY Zenon DEF ReleaseTracking, after, released, last, freed
<1>8. Fades(m.sess, m.sess)
    BY <1>4, Zenon DEF Fades
<1>9. QED
    BY <1>3, <1>5, <1>6, <1>7, <1>8, Zenon

LEMMA PrepareType ==
    ASSUME NEW a \in Attempt, TypeOK, NEW p \in PrepareOutcomes(a)
    PROVE  /\ p.ok \in BOOLEAN /\ p.work \in BOOLEAN
           /\ p.cln \in ClnState
           /\ p.work => work[a] /\ ~p.ok
<1> DEFINE c == IF cln[a] = "none" THEN "pending" ELSE cln[a]
<1>1. c \in ClnState
    BY Zenon DEF TypeOK, StepdTypeOK, ClnState
<1>2. CASE p = [ok |-> TRUE, work |-> FALSE, cln |-> "none"]
    BY <1>2, Zenon DEF ClnState
<1>3. CASE work[a] /\ p = [ok |-> FALSE, work |-> TRUE, cln |-> c]
    BY <1>1, <1>3, Zenon
<1>4. QED
    BY <1>2, <1>3, Zenon DEF PrepareOutcomes

LEMMA ReapType ==
    ASSUME NEW a \in Attempt, TypeOK, NEW ok \in ReapOutcomes(a)
    PROVE  ok \in BOOLEAN /\ (~ok => work[a])
BY Zenon DEF ReapOutcomes, TypeOK, StepdTypeOK

(***************************************************************************)
(* The steps of the supervisor, and those that only touch its workload and *)
(* its cleanup record.                                                     *)
(***************************************************************************)
SupMove(a) ==
    /\ sup' \in [Attempt -> SupState] /\ MovesOn(sup[a], sup'[a])
    /\ work' \in [Attempt -> BOOLEAN] /\ (work'[a] => work[a])
    /\ cln' \in [Attempt -> ClnState]
    /\ \A b \in Attempt \ {a} : sup'[b] = sup[b] /\ work'[b] = work[b]
    /\ UNCHANGED <<sess, gate, avars, cur, net, reported>>
    /\ drained' \in BOOLEAN /\ (drained => drained')
    /\ events' \in 0..MaxEvents

LEMMA SupMoves ==
    ASSUME AgentInv, NEW a \in Attempt, SupMove(a)
    PROVE  AgentInv'
<1>1. TypeOK /\ \A b \in Attempt : Good(b)
    BY Zenon DEF AgentInv
<1>2. TypeOK'
    BY <1>1, Zenon DEF SupMove, TypeOK, StepdTypeOK, avars, ClnState
<1>3. LaunchQuiet
    BY Zenon DEF SupMove, LaunchQuiet, AgentInv, OneLaunch, avars
<1>4. ASSUME NEW b \in Attempt PROVE Calm(b)
  <2>1. CASE b # a
    <3>1. Same(b)
      BY <2>1, Zenon DEF SupMove, Same, avars
    <3>2. QED
      BY <1>1, <3>1, SameCalm, Zenon
  <2>2. CASE b = a
    <3>1. sess[a] \in Session /\ reported[a] \subseteq Known(a)
      BY <1>1, Zenon DEF TypeOK, StepdTypeOK, Known
    <3>2. Gone(a)
      BY <1>1, Zenon DEF Good
    <3>3. QED
      BY <2>2, <3>1, <3>2, Zenon DEF SupMove, Calm, Gone, Fades, avars
  <2>3. QED
    BY <2>1, <2>2, Zenon
<1>5. QED
    BY <1>2, <1>3, <1>4, CalmStep, Zenon

LEMMA SupMovesSteps ==
    ASSUME AgentInv, NEW a \in Attempt,
           \/ /\ SupGiveUpAtGate(a) \/ SupWorkloadExits(a) \/ SupFails(a) \/ SupTeardown(a)
              /\ UNCHANGED <<avars, cvars>>
           \/ SupDies(a) /\ UNCHANGED <<avars, cvars>>
           \/ PushUnanswered(a)
           \/ OrphanEnds(a) /\ UNCHANGED <<avars, cvars>>
           \/ SupervisorDies(a)
           \/ Expiry(a)
           \/ RetryCleanup(a)
           \/ Quarantine(a)
    PROVE  AgentInv'
<1>1. /\ sup \in [Attempt -> SupState] /\ work \in [Attempt -> BOOLEAN]
      /\ cln \in [Attempt -> ClnState] /\ events \in 0..MaxEvents /\ drained \in BOOLEAN
    BY Zenon DEF AgentInv, TypeOK, StepdTypeOK, ClnState
<1>2. {"gone", "exited", "push"} \subseteq SupState /\ {"none", "expired", "acked"} \subseteq ClnState
    BY Zenon DEF SupState, ClnState
<1>3. ASSUME NEW p \in PrepareOutcomes(a)
      PROVE  p.work \in BOOLEAN /\ p.cln \in ClnState /\ (p.work => work[a])
    BY PrepareType, Zenon DEF AgentInv, ClnState
<1> USE <1>1, <1>2 DEF SupMove, MovesOn, cvars
<1>4. CASE SupGiveUpAtGate(a) /\ UNCHANGED <<avars, cvars>>
  <2>1. SupMove(a)
    BY <1>4, Zenon DEF SupGiveUpAtGate
  <2>2. QED
    BY <2>1, SupMoves, Zenon
<1>5. CASE SupWorkloadExits(a) /\ UNCHANGED <<avars, cvars>>
  <2>1. PICK left \in {FALSE, work[a]} : work' = [work EXCEPT ![a] = left]
    BY <1>5, Zenon DEF SupWorkloadExits
  <2>2. work' \in [Attempt -> BOOLEAN] /\ (work'[a] => work[a])
    BY <2>1, Zenon
  <2>3. SupMove(a)
    BY <1>5, <2>2, Zenon DEF SupWorkloadExits
  <2>4. QED
    BY <2>3, SupMoves, Zenon
<1>6. CASE SupFails(a) /\ UNCHANGED <<avars, cvars>>
  <2>1. SupMove(a)
    BY <1>3, <1>6, Zenon DEF SupFails
  <2>2. QED
    BY <2>1, SupMoves, Zenon
<1>7. CASE SupTeardown(a) /\ UNCHANGED <<avars, cvars>>
  <2>1. SupMove(a)
    BY <1>3, <1>7, Zenon DEF SupTeardown
  <2>2. QED
    BY <2>1, SupMoves, Zenon
<1>8. CASE PushUnanswered(a)
  <2>1. SupMove(a)
    BY <1>8, Zenon DEF PushUnanswered, SupPushGivesUp
  <2>2. QED
    BY <2>1, SupMoves, Zenon
<1>9. CASE OrphanEnds(a) /\ UNCHANGED <<avars, cvars>>
  <2>1. SupMove(a)
    BY <1>9, Zenon DEF OrphanEnds
  <2>2. QED
    BY <2>1, SupMoves, Zenon
<1>10. CASE SupervisorDies(a) \/ (SupDies(a) /\ UNCHANGED <<avars, cvars>>)
  <2>1. events' \in 0..MaxEvents
    BY <1>10, MaxEventsAssumption DEF SupervisorDies
  <2>2. SupMove(a)
    BY <1>10, <2>1, Zenon DEF SupervisorDies, SupDies, Alive
  <2>3. QED
    BY <2>2, SupMoves, Zenon
<1>11. CASE Expiry(a)
  <2>1. SupMove(a)
    BY <1>11, Zenon DEF Expiry, CleanupExpires
  <2>2. QED
    BY <2>1, SupMoves, Zenon
<1>12. CASE RetryCleanup(a)
  <2>1. SupMove(a)
    BY <1>12, Zenon DEF RetryCleanup
  <2>2. QED
    BY <2>1, SupMoves, Zenon
<1>13. CASE Quarantine(a)
  <2>1. SupMove(a)
    BY <1>13, Zenon DEF Quarantine
  <2>2. QED
    BY <2>1, SupMoves, Zenon
<1>14. QED
    BY <1>4, <1>5, <1>6, <1>7, <1>8, <1>9, <1>10, <1>11, <1>12, <1>13, Zenon

\* A supervisor step that is not calm for its own attempt.
LEMMA OwnStep ==
    ASSUME AgentInv, TypeOK', NEW a \in Attempt, UNCHANGED <<avars, cvars>>,
           sup[a] # "none", sup'[a] # "none", Good(a)',
           \A b \in Attempt \ {a} : /\ sess'[b] = sess[b] /\ sup'[b] = sup[b]
                                    /\ gate'[b] = gate[b] /\ work'[b] = work[b]
    PROVE  AgentInv'
<1>1. LaunchQuiet
    BY Zenon DEF LaunchQuiet, AgentInv, OneLaunch, avars, cvars
<1>2. ASSUME NEW b \in Attempt, b # a PROVE Calm(b)
  <2>1. Same(b)
    BY <1>2, Zenon DEF Same, avars, cvars
  <2>2. QED
    BY <2>1, SameCalm, Zenon DEF AgentInv
<1>3. Born(a)
    BY Zenon DEF Born, AgentInv, OneLaunch, avars, cvars
<1>4. QED
    BY <1>1, <1>2, <1>3, CalmStep, Zenon

LEMMA SupPublishKeeps ==
    ASSUME AgentInv, NEW a \in Attempt, SupPublish(a), UNCHANGED <<avars, cvars>>
    PROVE  AgentInv'
<1>1. TypeOK /\ OneLaunch /\ Gated(a) /\ Settled(a) /\ Gone(a)
    BY Zenon DEF AgentInv, Good
<1>2. CASE UNCHANGED sess /\ sup' = [sup EXCEPT ![a] = "gone"]
  <2>1. SupMove(a)
    BY <1>1, <1>2, Zenon DEF SupPublish, SupMove, MovesOn, TypeOK, StepdTypeOK, SupState, ClnState, cvars
  <2>2. QED
    BY <2>1, SupMoves, Zenon
<1>3. CASE sup' = [sup EXCEPT ![a] = "gate"] /\ sess' = [sess EXCEPT ![a].desc = "gate"]
  <2>1. sess[a] \in Session /\ sup'[a] = "gate"
    BY <1>1, <1>3, Zenon DEF TypeOK, StepdTypeOK
  <2>2. /\ sess'[a] \in Session /\ sess'[a].desc = "gate" /\ sess'[a].exit = sess[a].exit
        /\ sess' \in [Attempt -> Session]
        /\ \A b \in Attempt \ {a} : sess'[b] = sess[b]
    <3> DEFINE t == [sess[a] EXCEPT !.desc = "gate"]
    <3>1. t \in Session /\ t.desc = "gate" /\ t.exit = sess[a].exit
      BY <2>1, DescSet, Zenon
    <3>2. sess' = [sess EXCEPT ![a] = t]
      BY <1>3, Zenon
    <3> HIDE DEF t
    <3>3. QED
      BY <1>1, <3>1, <3>2, Zenon DEF TypeOK, StepdTypeOK
  <2>3. TypeOK'
    BY <1>1, <1>3, <2>2, Zenon DEF SupPublish, TypeOK, StepdTypeOK, SupState, avars, cvars
  <2>4. Known(a)' = Known(a)
    BY <2>2, Zenon DEF Known, avars, cvars
  <2>5. Gated(a)' /\ Gone(a)' /\ sup[a] = "boot"
    BY <1>1, <2>1, Zenon DEF SupPublish, Gated, Gone, avars, cvars
  <2>6. Startable(a)' => Startable(a)
    BY <1>1, <2>1, <2>5, Zenon DEF SupPublish, Startable, Gated, avars, cvars
  <2>7. sess[a].exit = "none" => Known(a) \subseteq {"lost"}
    BY <1>1, <2>5, Zenon DEF Settled, Known
  <2>8. Settled(a)'
    BY <1>1, <2>1, <2>2, <2>4, <2>5, <2>6, <2>7, Zenon DEF Settled, Exists, avars, cvars
  <2>9. QED
    BY <1>1, <1>3, <2>1, <2>2, <2>3, <2>5, <2>8, OwnStep, Zenon
        DEF SupPublish, Good, TypeOK, StepdTypeOK
<1>4. QED
    BY <1>2, <1>3, Zenon DEF SupPublish

LEMMA SupLaunchWorkloadKeeps ==
    ASSUME AgentInv, NEW a \in Attempt, SupLaunchWorkload(a), UNCHANGED <<avars, cvars>>
    PROVE  AgentInv'
<1>1. TypeOK /\ OneLaunch /\ Gated(a) /\ Settled(a) /\ Gone(a)
    BY Zenon DEF AgentInv, Good
<1>2. CASE UNCHANGED <<work, sess>> /\ sup' = [sup EXCEPT ![a] = "gone"]
  <2>1. SupMove(a)
    BY <1>1, <1>2, Zenon
        DEF SupLaunchWorkload, SupMove, MovesOn, TypeOK, StepdTypeOK, SupState, ClnState, cvars
  <2>2. QED
    BY <2>1, SupMoves, Zenon
<1>3. CASE /\ sup' = [sup EXCEPT ![a] = "work"]
           /\ work' = [work EXCEPT ![a] = TRUE]
           /\ sess' = IF Exists(sess[a]) THEN [sess EXCEPT ![a].desc = "run"] ELSE sess
  <2>1. sess[a] \in Session /\ sup'[a] = "work" /\ work'[a]
    BY <1>1, <1>3, Zenon DEF TypeOK, StepdTypeOK
  <2>2. /\ sess'[a] \in Session /\ sess'[a].exit = sess[a].exit
        /\ Exists(sess[a]) <=> Exists(sess'[a])
        /\ Exists(sess[a]) => sess'[a].desc = "run"
        /\ sess' \in [Attempt -> Session]
        /\ \A b \in Attempt \ {a} : sess'[b] = sess[b]
    <3> DEFINE t == IF Exists(sess[a]) THEN [sess[a] EXCEPT !.desc = "run"] ELSE sess[a]
    <3>1. /\ t \in Session /\ t.exit = sess[a].exit
          /\ IF Exists(sess[a]) THEN t.desc = "run" ELSE t = sess[a]
      BY <2>1, DescSet, Zenon
    <3>2. sess \in [Attempt -> Session]
      BY <1>1, Zenon DEF TypeOK, StepdTypeOK
    <3>3. sess' = [sess EXCEPT ![a] = t]
      BY <1>3, <3>2, Zenon
    <3> HIDE DEF t
    <3>4. QED
      BY <3>1, <3>2, <3>3, Zenon DEF Exists
  <2>3. TypeOK'
    BY <1>1, <1>3, <2>2, Zenon DEF SupLaunchWorkload, TypeOK, StepdTypeOK, SupState, avars, cvars
  <2>4. Known(a) = {} /\ sup[a] = "gate" /\ gate[a] = "released"
    BY <1>1, Zenon DEF SupLaunchWorkload, Settled, Startable
  <2>5. Known(a)' = {}
    BY <2>2, <2>4, Zenon DEF Known, avars, cvars
  <2>6. reported[a] = {} /\ rep[a].pc # "send" /\ replay.att # a
    BY <1>1, <2>4, ExitTypes, Zenon DEF Known, Settled
  <2>7. Gated(a)' /\ Gone(a)'
    BY <2>1, <2>4, <2>6, Zenon DEF SupLaunchWorkload, Gated, Gone, avars, cvars
  <2>8. Settled(a)'
    BY <1>1, <2>1, <2>2, <2>4, <2>5, <2>6, Zenon DEF Settled, Exists, avars, cvars
  <2>9. QED
    BY <1>1, <1>3, <2>1, <2>2, <2>3, <2>4, <2>7, <2>8, OwnStep, Zenon
        DEF SupLaunchWorkload, Good, TypeOK, StepdTypeOK
<1>4. QED
    BY <1>2, <1>3, Zenon DEF SupLaunchWorkload

LEMMA SupRecordExitKeeps ==
    ASSUME AgentInv, NEW a \in Attempt, SupRecordExit(a), UNCHANGED <<avars, cvars>>
    PROVE  AgentInv'
<1>1. TypeOK /\ OneLaunch /\ Gated(a) /\ Settled(a) /\ Gone(a)
    BY Zenon DEF AgentInv, Good
<1> DEFINE s == ObserveExit(sess[a], "real")
<1>2. sess[a] \in Session /\ sup[a] = "exited"
    BY <1>1, Zenon DEF SupRecordExit, TypeOK, StepdTypeOK
<1>3. /\ s \in Session /\ s.desc = sess[a].desc
      /\ Exists(sess[a]) => s.exit = "real"
      /\ ~Exists(sess[a]) => s.exit = "none"
    BY <1>1, <1>2, Zenon DEF ObserveExit, Session, Exists, Settled
<1>4. sess' = [sess EXCEPT ![a] = s]
    BY Zenon DEF SupRecordExit
<1> HIDE DEF s
<1>5. /\ sess'[a] = s
      /\ sup'[a] = IF Exists(sess[a]) THEN "reap" ELSE "gone"
      /\ \A b \in Attempt \ {a} : sess'[b] = sess[b] /\ sup'[b] = sup[b]
      /\ TypeOK'
    BY <1>1, <1>3, <1>4 DEF SupRecordExit, TypeOK, StepdTypeOK, SupState, avars, cvars
<1>6. Known(a) = {}
    BY <1>1, <1>2, Zenon DEF Settled
<1>7. Known(a)' = {x \in {"real"} : Exists(sess[a])}
    BY <1>3, <1>5, <1>6, Zenon DEF Known, avars, cvars
<1>8. Gated(a)' /\ Gone(a)'
    BY <1>1, <1>2, <1>5 DEF SupRecordExit, Gated, Gone, avars, cvars
<1>9. Settled(a)'
    BY <1>1, <1>2, <1>3, <1>5, <1>7, Zenon DEF Settled, Startable, Exists, avars, cvars
<1>10. QED
    BY <1>2, <1>5, <1>8, <1>9, OwnStep DEF SupRecordExit, Good

LEMMA SupervisorKeeps ==
    ASSUME AgentInv, NEW a \in Attempt, Supervisor(a)
    PROVE  AgentInv'
BY SupPublishKeeps, SupLaunchWorkloadKeeps, SupRecordExitKeeps, SupMovesSteps, Zenon
    DEF Supervisor, SupStep

(***************************************************************************)
(* The launch.                                                             *)
(***************************************************************************)
LEMMA CallsDiffer ==
    ASSUME NEW a, NEW b
    PROVE  /\ StartCall(a) # LaunchCall(b)
           /\ LaunchCall(a) = LaunchCall(b) => a = b
           /\ StartCall(a) = StartCall(b) => a = b
           /\ LaunchCall(a).att = a /\ StartCall(a).att = a
           /\ LaunchCall(a).op = "launch" /\ StartCall(a).op = "start"
BY Zenon DEF StartCall, LaunchCall

LEMMA DispatchKeeps ==
    ASSUME AgentInv, Dispatch
    PROVE  AgentInv'
<1>1. TypeOK /\ OneLaunch /\ \A b \in Attempt : Good(b)
    BY Zenon DEF AgentInv
<1>2. /\ cur \in Nat /\ cur' = cur + 1 /\ cur < MaxAttempt
      /\ net' = net \cup {LaunchCall(cur + 1)}
    BY <1>1, MaxAttemptAssumption DEF TypeOK, Dispatch, LaunchCall
<1>3. LaunchCall(cur + 1) \in Call
    BY <1>2, MaxAttemptAssumption DEF LaunchCall, Call, Attempt
<1>4. TypeOK'
    BY <1>1, <1>2, <1>3, MaxAttemptAssumption DEF TypeOK, StepdTypeOK, Dispatch, avars, svars
<1>5. ASSUME NEW b \in Attempt PROVE Good(b)'
  <2>1. Same(b)
    BY <1>2, CallsDiffer, Zenon DEF Same, Dispatch, avars, svars
  <2>2. QED
    BY <1>1, <1>4, <2>1, SameCalm, CalmKeeps, Zenon
<1>6. ASSUME NEW b \in Attempt PROVE Unborn(b)' => Unborn(b)
  <2>1. b > cur + 1 => b > cur
    BY <1>2 DEF Attempt
  <2>2. LaunchCall(b) = LaunchCall(cur + 1) => b > cur
    BY <1>2, CallsDiffer
  <2>3. QED
    BY <1>2, <2>1, <2>2, Zenon DEF Unborn, Dispatch, avars
<1>7. launch.att # 0 => LaunchCall(launch.att) # LaunchCall(cur + 1) /\ launch.att <= cur + 1
  <2>1. launch.att # 0 => launch.att \in Nat /\ launch.att <= cur
    BY <1>1, MaxAttemptAssumption, AttTypes DEF OneLaunch
  <2>2. QED
    BY <2>1, <1>2, CallsDiffer
<1>8. \A c \in net' : c.att <= cur'
  <2>1. \A c \in net : c.att \in Nat /\ c.att <= cur
    BY <1>1, MaxAttemptAssumption DEF OneLaunch, TypeOK, Call, Attempt
  <2>2. QED
    BY <2>1, <1>2, CallsDiffer
<1>9. UNCHANGED <<sess, sup, up, slot, launch, rep, replay, reported>>
    BY Zenon DEF Dispatch, avars, svars
<1>10. OneLaunch'
  <2> SUFFICES ASSUME NEW a \in Attempt
               PROVE  Unborn(a)' => sup'[a] = "none"
    BY <1>1, <1>2, <1>7, <1>8, <1>9, Zenon DEF OneLaunch, LaunchCall
  <2>1. QED
    BY <1>1, <1>6, <1>9, Zenon DEF OneLaunch
<1>11. QED
    BY <1>4, <1>5, <1>10, Zenon DEF AgentInv

LEMMA LaunchRecvKeeps ==
    ASSUME AgentInv, NEW a \in Attempt, LaunchRecv(a)
    PROVE  AgentInv'
<1>1. TypeOK /\ OneLaunch /\ \A b \in Attempt : Good(b)
    BY Zenon DEF AgentInv
<1>2. /\ LaunchCall(a) \in net /\ net' = net \ {LaunchCall(a)} /\ launch = NoLaunch
      /\ launch'.pc = "fence" /\ launch'.att = a
      /\ launch' \in Launch
    BY MaxAttemptAssumption DEF LaunchRecv, LaunchCall, Attempt, Launch
<1>3. sup[a] = "none" /\ a <= cur
    BY <1>1, <1>2, CallsDiffer DEF OneLaunch, Unborn
<1>4. UNCHANGED <<svars, up, running, slot, ledger, rep, replay, cancelling, recov, cur,
                  reported, drained, events>> /\ up
    BY Zenon DEF LaunchRecv
<1>5. TypeOK'
    BY <1>1, <1>2, <1>4, Zenon DEF TypeOK, StepdTypeOK, svars
<1>6. ASSUME NEW b \in Attempt PROVE Good(b)'
  <2>1. Same(b)
    BY <1>2, <1>3, <1>4, Zenon DEF Same, svars
  <2>2. QED
    BY <1>1, <1>5, <2>1, SameCalm, CalmKeeps, Zenon
<1>7. ASSUME NEW b \in Attempt PROVE Unborn(b)' => Unborn(b)
    BY <1>2, <1>4, Zenon DEF Unborn, LaunchCall
<1>8. OneLaunch'
  <2> SUFFICES ASSUME NEW b \in Attempt
               PROVE  Unborn(b)' => sup'[b] = "none"
    BY <1>1, <1>2, <1>3, <1>4 DEF OneLaunch, LaunchCall, svars, Attempt
  <2>1. QED
    BY <1>1, <1>4, <1>7, Zenon DEF OneLaunch, svars
<1>9. QED
    BY <1>5, <1>6, <1>8, Zenon DEF AgentInv

LEMMA FenceOlderRunKeeps ==
    ASSUME AgentInv, NEW a \in Attempt, FenceOlderRun(a)
    PROVE  AgentInv'
<1>1. TypeOK /\ OneLaunch /\ \A b \in Attempt : Good(b)
    BY Zenon DEF AgentInv
<1>2. PICK ok \in ReapOutcomes(a) :
          /\ work' = [work EXCEPT ![a] = ~ok]
          /\ launch' = IF ok THEN [launch EXCEPT !.todo = @ \ {a}] ELSE NoLaunch
          /\ slot' = IF ok /\ slot.att = a THEN NoSlot ELSE slot
          /\ sess' = IF ok
                     THEN [sess EXCEPT ![a] = record_resources_released(@, cln[a] # "none")]
                     ELSE sess
    BY Zenon DEF FenceOlderRun
<1>3. ok \in BOOLEAN /\ (~ok => work[a])
    BY <1>1, <1>2, ReapType, Zenon
<1>4. Fades(sess[a], record_resources_released(sess[a], cln[a] # "none"))
    BY <1>1, ReleasedFades, Zenon DEF Good, Settled, TypeOK, StepdTypeOK
<1>5. /\ Fades(sess[a], sess'[a])
      /\ sess' \in [Attempt -> Session]
      /\ \A b \in Attempt \ {a} : sess'[b] = sess[b]
    BY <1>1, <1>2, <1>4, Zenon DEF Fades, TypeOK, StepdTypeOK
<1>6. UNCHANGED <<gate, cln, up, running, ledger, rep, replay, cancelling, recov, cvars>>
    BY Zenon DEF FenceOlderRun
<1>7. /\ launch' = NoLaunch \/ (launch'.pc = "fence" /\ launch.pc = "fence"
                                /\ launch'.att = launch.att)
      /\ launch' \in Launch
    BY <1>1, <1>2, MaxAttemptAssumption DEF FenceOlderRun, TypeOK, NoLaunch, Launch
<1>8. slot' \in {slot, NoSlot} /\ NoSlot.att = 0 /\ NoSlot \in Slot
    BY <1>2, MaxAttemptAssumption DEF NoSlot, Slot
<1>9. /\ MovesOn(sup[a], sup'[a])
      /\ sup' \in [Attempt -> SupState]
      /\ \A b \in Attempt \ {a} : sup'[b] = sup[b]
    BY <1>1 DEF FenceOlderRun, MovesOn, Alive, TypeOK, StepdTypeOK, SupState
<1>10. /\ work'[a] => work[a]
       /\ work' \in [Attempt -> BOOLEAN]
       /\ \A b \in Attempt \ {a} : work'[b] = work[b]
    BY <1>1, <1>2, <1>3, Zenon DEF TypeOK, StepdTypeOK
<1>11. TypeOK'
    BY <1>1, <1>5, <1>6, <1>7, <1>8, <1>9, <1>10 DEF TypeOK, StepdTypeOK, Slot, cvars, Attempt
<1>12. LaunchQuiet
  <2>1. launch.pc = "fence" /\ up'
    BY <1>1, <1>6 DEF OneLaunch, FenceOlderRun
  <2>2. cur' = cur /\ net' = net
    BY <1>6, Zenon DEF cvars
  <2>3. slot'.att \in {0, slot.att}
    BY <1>8, Zenon
  <2>4. QED
    BY <1>6, <1>7, <2>1, <2>2, <2>3, Zenon DEF LaunchQuiet
<1>13. ASSUME NEW b \in Attempt PROVE Calm(b)
  <2>1. launch'.att = b => launch.att = b /\ launch'.pc = "fence"
    BY <1>7 DEF NoLaunch, Attempt
  <2>2. CASE b # a
    <3>1. Same(b)
      BY <1>5, <1>6, <1>9, <1>10, <2>1, <2>2, Zenon DEF Same, cvars
    <3>2. QED
      BY <1>1, <3>1, SameCalm, Zenon
  <2>3. CASE b = a
    <3>1. Good(a) /\ reported[a] \subseteq Known(a)
      BY <1>1, ReportedKnown, Zenon
    <3>2. QED
      BY <1>5, <1>6, <1>9, <1>10, <2>1, <2>3, <3>1, Zenon DEF Calm, Good, Gone, cvars
  <2>4. QED
    BY <2>2, <2>3, Zenon
<1>14. QED
    BY <1>11, <1>12, <1>13, CalmStep, Zenon

LEMMA StepOf ==
    ASSUME AgentInv, TypeOK', LaunchQuiet, NEW a \in Attempt,
           \A b \in Attempt \ {a} : Same(b),
           Same(a) \/ Calm(a) \/ (Born(a) /\ Good(a)')
    PROVE  AgentInv'
BY SameCalm, CalmStep, Zenon DEF AgentInv

LEMMA LaunchReserveKeeps ==
    ASSUME AgentInv, LaunchReserve
    PROVE  AgentInv'
<1>1. TypeOK /\ OneLaunch /\ \A b \in Attempt : Good(b)
    BY Zenon DEF AgentInv
<1>2. launch.pc = "fence" /\ launch.att \in Attempt /\ up
    BY <1>1, AttTypes, Zenon DEF LaunchReserve, OneLaunch
<1>3. launch' \in {[launch EXCEPT !.pc = "spawn"], NoLaunch}
    BY Zenon DEF LaunchReserve
<1>4. /\ launch' = NoLaunch \/ (launch'.pc = "spawn" /\ launch'.att = launch.att)
      /\ launch' \in Launch
    BY <1>1, <1>3, MaxAttemptAssumption DEF TypeOK, NoLaunch, Launch
<1>5. ledger' \in {[att |-> launch.att, launching |-> TRUE], ledger}
    BY Zenon DEF LaunchReserve
<1>6. ledger' \in Ledger
  <2>1. launch.att \in 0..MaxAttempt
    BY <1>1, AttTypes, Zenon
  <2>2. [att |-> launch.att, launching |-> TRUE] \in Ledger
    BY <2>1, Zenon DEF Ledger
  <2>3. QED
    BY <1>1, <1>5, <2>2, Zenon DEF TypeOK
<1>7. UNCHANGED <<svars, up, running, slot, rep, replay, cancelling, recov, cvars>>
    BY Zenon DEF LaunchReserve
<1>8. TypeOK'
    BY <1>1, <1>4, <1>6, <1>7, Zenon DEF TypeOK, StepdTypeOK, svars, cvars
<1>9. LaunchQuiet
    BY <1>2, <1>4, <1>7, Zenon DEF LaunchQuiet, cvars
<1>10. ASSUME NEW b \in Attempt PROVE Same(b)
  <2>1. launch'.att = b => launch.att = b /\ launch'.pc # "commit"
    BY <1>4 DEF NoLaunch, Attempt
  <2>2. QED
    BY <1>7, <2>1, Zenon DEF Same, svars, cvars
<1>11. QED
    BY <1>2, <1>8, <1>9, <1>10, StepOf, Zenon

LEMMA LaunchSpawnKeeps ==
    ASSUME AgentInv, LaunchSpawn
    PROVE  AgentInv'
<1> DEFINE s == [NoSession EXCEPT !.desc = "prov"]
<1>1. TypeOK /\ OneLaunch /\ \A b \in Attempt : Good(b)
    BY Zenon DEF AgentInv
<1>2. PICK a \in Attempt : launch.pc = "spawn" /\ a = launch.att /\ up
    BY <1>1, AttTypes, Zenon DEF LaunchSpawn, OneLaunch
<1>3. s \in Session /\ s.desc = "prov" /\ s.exit = "none"
    BY Zenon DEF NoSession, Session
<1>4. /\ sess' = [sess EXCEPT ![a] = s]
      /\ sup' = [sup EXCEPT ![a] = "boot"]
      /\ launch' = [launch EXCEPT !.pc = "wait"]
      /\ UNCHANGED <<gate, work, cln, up, running, slot, ledger, rep, replay, cancelling,
                     recov, cvars>>
    BY <1>2, Zenon DEF LaunchSpawn
<1> HIDE DEF s
<1>5. /\ launch'.pc = "wait" /\ launch'.att = a
      /\ launch' \in Launch
    BY <1>1, <1>2, <1>4, Zenon DEF TypeOK, Launch
<1>6. /\ sess'[a] = s /\ sup'[a] = "boot"
      /\ \A b \in Attempt \ {a} : sess'[b] = sess[b] /\ sup'[b] = sup[b]
      /\ sess' \in [Attempt -> Session] /\ sup' \in [Attempt -> SupState]
    BY <1>1, <1>2, <1>3, <1>4, Zenon DEF TypeOK, StepdTypeOK, SupState
<1>7. TypeOK'
    BY <1>1, <1>4, <1>5, <1>6, Zenon DEF TypeOK, StepdTypeOK, cvars
<1>8. sup[a] = "none" /\ rep[a] = NoRep /\ replay.att # a /\ reported[a] = {} /\ slot.att # a
    BY <1>1, <1>2, Zenon DEF OneLaunch, Unborn, Attempt
<1>9. ASSUME NEW b \in Attempt, b # a PROVE Good(b)'
  <2>1. Same(b)
    BY <1>4, <1>5, <1>6, <1>9, Zenon DEF Same, cvars
  <2>2. QED
    BY <1>1, <1>7, <2>1, SameCalm, CalmKeeps, Zenon
<1>10. Good(a)'
  <2>1. Known(a)' = {}
    BY <1>3, <1>4, <1>6, <1>8, NoRepIdle, Zenon DEF Known, cvars
  <2>2. Gated(a)
    BY <1>1, <1>2, Zenon DEF Good
  <2>3. Gated(a)' /\ Gone(a)'
    BY <1>4, <1>5, <1>6, <1>8, <2>2, NoRepIdle, Zenon DEF Gated, Gone, cvars
  <2>4. Settled(a)'
    BY <1>3, <1>4, <1>6, <1>8, <2>1, NoRepIdle, Zenon DEF Settled, Exists, cvars
  <2>5. QED
    BY <2>3, <2>4, Zenon DEF Good
<1>11. ASSUME NEW b \in Attempt PROVE Unborn(b)' => Unborn(b) /\ b # a
  <2>1. a <= cur /\ ~(a > cur) /\ LaunchCall(a) \notin net
    BY <1>1, <1>2, MaxAttemptAssumption DEF OneLaunch, TypeOK, Attempt
  <2>2. QED
    BY <1>4, <1>5, <2>1, Zenon DEF Unborn, cvars, LaunchCall
<1>12. OneLaunch'
  <2>1. ASSUME NEW b \in Attempt PROVE (Unborn(b) => sup[b] = "none")'
    BY <1>1, <1>6, <1>11 DEF OneLaunch
  <2>2. ASSUME NEW b \in Attempt
        PROVE  sup'[b] = "none" => /\ ~Exists(sess'[b]) /\ reported'[b] = {}
                                   /\ rep'[b] = NoRep /\ replay'.att # b
    BY <1>1, <1>4, <1>6, Zenon DEF OneLaunch, cvars
  <2>3. slot'.att # 0 => sup'[slot'.att] # "none"
    BY <1>1, <1>4, <1>6, MaxAttemptAssumption DEF OneLaunch, TypeOK, Attempt
  <2>4. QED
    BY <1>1, <1>2, <1>4, <1>5, <1>6, <1>8, <2>1, <2>2, <2>3 DEF OneLaunch, LaunchCall, cvars
<1>13. QED
    BY <1>7, <1>9, <1>10, <1>12, Zenon DEF AgentInv

LEMMA LaunchFailsKeeps ==
    ASSUME AgentInv, LaunchFails
    PROVE  AgentInv'
<1> DEFINE a == launch.att
<1>1. TypeOK /\ OneLaunch /\ \A b \in Attempt : Good(b)
    BY Zenon DEF AgentInv
<1>2. launch.pc \in {"spawn", "wait"} /\ a \in Attempt /\ up
    BY <1>1, AttTypes, Zenon DEF LaunchFails, OneLaunch
<1>3. /\ sup' = IF launch.pc = "wait" THEN [sup EXCEPT ![a] = "gone"] ELSE sup
      /\ sess' = IF launch.pc = "wait" /\ sess[a].exit = "none"
                 THEN [sess EXCEPT ![a] = NoSession] ELSE sess
      /\ ledger' = Releasing(ledger, a)
      /\ launch' = NoLaunch
      /\ UNCHANGED <<gate, work, cln, up, running, slot, rep, replay, cancelling, recov, cvars>>
    BY Zenon DEF LaunchFails
<1>4. launch.pc = "wait" => sup[a] # "none"
    BY <1>1, Zenon DEF OneLaunch
<1>5. NoSession \in Session /\ NoSession.desc = "none" /\ NoSession.exit = "none"
    BY Zenon DEF NoSession, Session
<1>6. /\ Fades(sess[a], sess'[a]) /\ MovesOn(sup[a], sup'[a])
      /\ \A b \in Attempt \ {a} : sess'[b] = sess[b] /\ sup'[b] = sup[b]
      /\ sess' \in [Attempt -> Session] /\ sup' \in [Attempt -> SupState]
    BY <1>1, <1>2, <1>3, <1>4, <1>5, Zenon DEF TypeOK, StepdTypeOK, SupState, Fades, MovesOn
<1>7. /\ ledger' \in Ledger
      /\ launch' \in Launch
    BY <1>1, <1>3, MaxAttemptAssumption DEF TypeOK, Releasing, Free, NoLaunch, Launch, Ledger
<1>8. TypeOK'
    BY <1>1, <1>3, <1>6, <1>7, Zenon DEF TypeOK, StepdTypeOK, cvars
<1>9. LaunchQuiet
    BY <1>2, <1>3, Zenon DEF LaunchQuiet, cvars
<1>10. launch'.att = 0
    BY <1>3, Zenon DEF NoLaunch
<1>11. \A b \in Attempt \ {a} : Same(b)
    BY <1>3, <1>6, <1>10 DEF Same, cvars, Attempt
<1>12. Calm(a)
  <2>1. Good(a) /\ reported[a] \subseteq Known(a)
    BY <1>1, <1>2, ReportedKnown, Zenon
  <2>2. QED
    BY <1>2, <1>3, <1>6, <1>10, <2>1 DEF Calm, Good, Gone, cvars, Attempt
<1>13. QED
    BY <1>2, <1>8, <1>9, <1>11, <1>12, StepOf, Zenon

LEMMA LaunchClaimKeeps ==
    ASSUME AgentInv, LaunchClaim
    PROVE  AgentInv'
<1> DEFINE a == launch.att
           won == slot.att <= a
<1>1. TypeOK /\ OneLaunch /\ \A b \in Attempt : Good(b)
    BY Zenon DEF AgentInv
<1>2. launch.pc = "wait" /\ a \in Attempt /\ up /\ sup[a] = "gate" /\ rep[a] = NoRep
    BY <1>1, AttTypes, Zenon DEF LaunchClaim, OneLaunch
<1>3. /\ slot' = IF won THEN [att |-> a, desc |-> "gate"] ELSE slot
      /\ launch' = IF won THEN [launch EXCEPT !.pc = "commit"] ELSE NoLaunch
      /\ sup' = IF won THEN sup ELSE [sup EXCEPT ![a] = "gone"]
      /\ sess' = IF won THEN sess ELSE [sess EXCEPT ![a] = NoSession]
      /\ ledger' = IF won THEN ledger ELSE Releasing(ledger, a)
      /\ UNCHANGED <<gate, work, cln, up, running, rep, replay, cancelling, recov, cvars>>
    BY Zenon DEF LaunchClaim
<1>4. NoSession \in Session /\ NoSession.desc = "none" /\ NoSession.exit = "none"
    BY Zenon DEF NoSession, Session
<1>5. /\ Fades(sess[a], sess'[a]) /\ MovesOn(sup[a], sup'[a])
      /\ \A b \in Attempt \ {a} : sess'[b] = sess[b] /\ sup'[b] = sup[b]
      /\ sess' \in [Attempt -> Session] /\ sup' \in [Attempt -> SupState]
    BY <1>1, <1>2, <1>3, <1>4, Zenon DEF TypeOK, StepdTypeOK, SupState, Fades, MovesOn
<1>6. ledger' \in Ledger /\ launch' \in Launch /\ slot' \in Slot
  <2>1. ledger' \in Ledger
    BY <1>1, <1>3, NothingTypes, Zenon DEF TypeOK, Releasing
  <2>2. launch' \in Launch
    BY <1>1, <1>3, NothingTypes, LaunchMoves, Zenon DEF TypeOK
  <2>3. slot' \in Slot
    BY <1>1, <1>2, <1>3 DEF TypeOK, Slot, Attempt
  <2>4. QED
    BY <2>1, <2>2, <2>3, Zenon
<1>7. /\ launch'.att # 0 => launch'.att = a /\ launch'.pc = "commit"
      /\ slot'.att = slot.att \/ (slot'.att = a /\ launch'.pc = "commit")
      /\ sup'[a] # "none"
      /\ launch' = NoLaunch \/ (launch'.att = a /\ launch'.pc = "commit")
    BY <1>1, <1>2, <1>3 DEF NoLaunch, TypeOK, StepdTypeOK
<1>8. TypeOK'
    BY <1>1, <1>2, <1>3, <1>5, <1>6, <1>7, Zenon DEF TypeOK, StepdTypeOK, cvars, Slot
<1>9. LaunchQuiet
    BY <1>2, <1>3, <1>7, Zenon DEF LaunchQuiet, cvars
<1>10. \A b \in Attempt \ {a} : Same(b)
    BY <1>3, <1>5, <1>7 DEF Same, cvars, Attempt
<1>11. Calm(a)
  <2>1. Good(a) /\ reported[a] \subseteq Known(a)
    BY <1>1, <1>2, ReportedKnown, Zenon
  <2>2. QED
    BY <1>2, <1>3, <1>5, <2>1, Zenon DEF Calm, Good, Gone, cvars
<1>12. QED
    BY <1>2, <1>8, <1>9, <1>10, <1>11, StepOf, Zenon

LEMMA LaunchCommitKeeps ==
    ASSUME AgentInv, LaunchCommit
    PROVE  AgentInv'
<1>1. TypeOK /\ OneLaunch /\ \A b \in Attempt : Good(b)
    BY Zenon DEF AgentInv
<1>2. PICK a \in Attempt : /\ a = launch.att /\ launch.pc = "commit"
                           /\ up /\ sup[a] # "none" /\ a <= cur
    BY <1>1, AttTypes, Zenon DEF LaunchCommit, OneLaunch
<1> DEFINE committed == ledger.att = a
           discard == ~committed /\ slot = [att |-> a, desc |-> "gate"]
<1>3. /\ ledger' = IF committed THEN [ledger EXCEPT !.launching = FALSE] ELSE ledger
      /\ running' = IF committed THEN a ELSE running
      /\ net' = IF committed /\ cur = a THEN net \cup {StartCall(a)} ELSE net
      /\ slot' = IF discard THEN NoSlot ELSE slot
      /\ sup' = IF discard THEN [sup EXCEPT ![a] = "gone"] ELSE sup
      /\ sess' = IF discard THEN [sess EXCEPT ![a] = NoSession] ELSE sess
      /\ launch' = NoLaunch
      /\ UNCHANGED <<gate, cln, up, rep, replay, cancelling, recov, cur, reported, drained,
                     events>>
    BY <1>2, Zenon DEF LaunchCommit, StartCall
<1>4. PICK ok \in ReapOutcomes(a) : work' = IF discard THEN [work EXCEPT ![a] = ~ok] ELSE work
    BY <1>2, Zenon DEF LaunchCommit
<1>5. ok \in BOOLEAN /\ (~ok => work[a])
    BY <1>1, <1>2, <1>4, ReapType, Zenon
<1>6. NoSession \in Session /\ NoSession.desc = "none" /\ NoSession.exit = "none"
    BY Zenon DEF NoSession, Session
<1>7. /\ Fades(sess[a], sess'[a]) /\ MovesOn(sup[a], sup'[a])
      /\ \A b \in Attempt \ {a} : sess'[b] = sess[b] /\ sup'[b] = sup[b]
      /\ sess' \in [Attempt -> Session] /\ sup' \in [Attempt -> SupState]
    BY <1>1, <1>2, <1>3, <1>6, Zenon DEF TypeOK, StepdTypeOK, SupState, Fades, MovesOn
<1>8. /\ work'[a] => work[a]
      /\ work' \in [Attempt -> BOOLEAN]
      /\ \A b \in Attempt \ {a} : work'[b] = work[b]
    BY <1>1, <1>2, <1>4, <1>5, Zenon DEF TypeOK, StepdTypeOK
<1>9. /\ ledger' \in Ledger
      /\ running' \in 0..MaxAttempt
      /\ launch' \in Launch
      /\ slot' \in Slot /\ slot'.att \in {0, slot.att}
      /\ StartCall(a) \in Call
  <2>1. ledger' \in Ledger
    <3>1. [ledger EXCEPT !.launching = FALSE] \in Ledger
      BY <1>1, Zenon DEF TypeOK, Ledger
    <3>2. QED
      BY <1>1, <1>3, <3>1, Zenon DEF TypeOK
  <2>2. running' \in 0..MaxAttempt
    BY <1>1, <1>3, MaxAttemptAssumption DEF TypeOK, Attempt
  <2>3. launch' \in Launch
    BY <1>3, MaxAttemptAssumption DEF NoLaunch, Launch
  <2>4. slot' \in Slot /\ slot'.att \in {0, slot.att}
    BY <1>1, <1>3, MaxAttemptAssumption DEF TypeOK, NoSlot, Slot
  <2>5. StartCall(a) \in Call
    BY Zenon DEF Call, StartCall
  <2>6. QED
    BY <2>1, <2>2, <2>3, <2>4, <2>5, Zenon
<1>10. TypeOK'
    BY <1>1, <1>3, <1>7, <1>8, <1>9 DEF TypeOK, StepdTypeOK, Slot, Attempt
<1>11. LaunchQuiet
    BY <1>2, <1>3, <1>9, CallsDiffer DEF LaunchQuiet
<1>12. launch'.att = 0
    BY <1>3, Zenon DEF NoLaunch
<1>13. \A b \in Attempt \ {a} : Same(b)
    BY <1>3, <1>7, <1>8, <1>12, CallsDiffer DEF Same, Attempt
<1>14. CASE StartCall(a) \notin net' \/ StartCall(a) \in net
  <2>1. Good(a) /\ reported[a] \subseteq Known(a)
    BY <1>1, <1>2, ReportedKnown, Zenon
  <2>2. Calm(a)
    BY <1>2, <1>3, <1>7, <1>8, <1>12, <1>14, <2>1, Zenon DEF Calm, Good, Gone, Attempt
  <2>3. QED
    BY <1>2, <1>10, <1>11, <1>13, <2>2, StepOf, Zenon
<1>15. CASE StartCall(a) \in net' /\ StartCall(a) \notin net
  <2>1. ~discard /\ UNCHANGED <<sess, sup, work, slot>>
    BY <1>3, <1>4, <1>15, Zenon
  <2>2. Gated(a) /\ Settled(a) /\ Gone(a)
    BY <1>1, <1>2, Zenon DEF Good
  <2>3. Known(a)' = Known(a)
    BY <1>3, <2>1, Zenon DEF Known
  <2>4. Startable(a)' => Startable(a)
    BY <1>2, <1>3, <1>12, <2>1, Zenon DEF Startable, Attempt
  <2>5. Gated(a)' /\ Gone(a)'
    BY <1>2, <1>3, <1>12, <2>1, <2>2, Zenon DEF Gated, Gone, Attempt
  <2>6. Settled(a)'
    BY <1>3, <2>1, <2>2, <2>3, <2>4, Zenon DEF Settled
  <2>7. Born(a)
    BY <1>2, <1>12, <2>1 DEF Born, Attempt
  <2>8. QED
    BY <1>2, <1>10, <1>11, <1>13, <2>5, <2>6, <2>7, StepOf, Zenon DEF Good
<1>16. QED
    BY <1>14, <1>15, Zenon

=============================================================================
