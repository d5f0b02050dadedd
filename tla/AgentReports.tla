---------------------------- MODULE AgentReports ----------------------------
(***************************************************************************)
(* The invariant of Agent is kept by the handlers of start_job and         *)
(* cancel_job, by what reports a run's end, and by the agent's crash and   *)
(* recovery.                                                               *)
(***************************************************************************)
EXTENDS AgentSteps

(***************************************************************************)
(* The handlers of start_job and cancel_job, and the backstop.             *)
(***************************************************************************)
LEMMA BecomesEffect ==
    ASSUME TypeOK, NEW a \in Attempt, NEW m \in Memory, NEW p,
           p.work \in BOOLEAN, p.cln \in ClnState, Becomes(a, m, p)
    PROVE  /\ sess' \in [Attempt -> Session] /\ sess'[a] = m.sess
           /\ \A b \in Attempt \ {a} : sess'[b] = sess[b]
           /\ slot' = m.slot /\ slot' \in Slot
           /\ running' \in 0..MaxAttempt /\ ledger' \in Ledger
           /\ work' \in [Attempt -> BOOLEAN] /\ work'[a] = p.work
           /\ \A b \in Attempt \ {a} : work'[b] = work[b]
           /\ cln' \in [Attempt -> ClnState]
<1>1. /\ sess \in [Attempt -> Session] /\ work \in [Attempt -> BOOLEAN]
      /\ cln \in [Attempt -> ClnState]
    BY Zenon DEF TypeOK, StepdTypeOK, ClnState
<1>2. /\ m.sess \in Session /\ m.slot \in Slot /\ m.running \in 0..MaxAttempt
      /\ m.ledger \in Ledger
    BY Zenon DEF Memory
<1>3. QED
    BY <1>1, <1>2, Zenon DEF Becomes

LEMMA MemFields ==
    ASSUME NEW a \in Attempt
    PROVE  Mem(a).sess = sess[a] /\ Mem(a).slot = slot
BY Zenon DEF Mem

LEMMA NoSlotType == NoSlot \in Slot /\ NoSlot.att = 0
BY MaxAttemptAssumption DEF NoSlot, Slot

LEMMA StartRecvKeeps ==
    ASSUME AgentInv, NEW a \in Attempt, StartRecv(a)
    PROVE  AgentInv'
<1>1. TypeOK /\ OneLaunch /\ \A b \in Attempt : Good(b)
    BY Zenon DEF AgentInv
<1>2. /\ up /\ StartCall(a) \in net /\ net' = net \ {StartCall(a)}
      /\ UNCHANGED <<up, launch, rep, replay, cancelling, recov, cur, reported, drained,
                     events>>
    BY Zenon DEF StartRecv, StartCall
<1>3. Gated(a) /\ Settled(a) /\ Gone(a) /\ reported[a] \subseteq Known(a)
    BY <1>1, Zenon DEF Good, Known, TypeOK
<1>4. CASE UNCHANGED <<svars, slot, running, ledger>>
  <2>1. TypeOK'
    BY <1>1, <1>2, <1>4, Zenon DEF TypeOK, StepdTypeOK, svars
  <2>2. LaunchQuiet
    BY <1>2, <1>4, Zenon DEF LaunchQuiet
  <2>3. \A b \in Attempt : Same(b)
    BY <1>2, <1>4, Zenon DEF Same, svars
  <2>4. QED
    BY <2>1, <2>2, <2>3, StepOf, Zenon
<1>5. CASE /\ gate' = IF sup[a] = "gate"
                      THEN [gate EXCEPT ![a] = ClaimDecision(gate[a], "released")] ELSE gate
           /\ sup[a] = "gate" /\ ClaimDecision(gate[a], "released") = "released"
           /\ UNCHANGED <<sess, sup, work, cln, slot, running, ledger>>
  <2>1. /\ gate'[a] = "released" /\ gate' \in [Attempt -> GateState]
        /\ \A b \in Attempt \ {a} : gate'[b] = gate[b]
        /\ gate[a] # "cancelled"
    BY <1>1, <1>5, Zenon DEF TypeOK, StepdTypeOK, GateState, ClaimDecision
  <2>2. TypeOK'
    BY <1>1, <1>2, <1>5, <2>1, Zenon DEF TypeOK, StepdTypeOK
  <2>3. LaunchQuiet
    BY <1>2, <1>5, Zenon DEF LaunchQuiet
  <2>4. \A b \in Attempt \ {a} : Same(b)
    BY <1>2, <1>5, <2>1, Zenon DEF Same
  <2>5. Known(a)' = Known(a) /\ Known(a) = {}
    BY <1>2, <1>3, <1>5, Zenon DEF Known, Settled, Startable
  <2>6. Gated(a)' /\ Gone(a)'
    BY <1>2, <1>3, <1>5, <2>1, Zenon DEF Gated, Gone
  <2>7. Settled(a)'
    BY <1>2, <1>3, <1>5, <2>5, Zenon DEF Settled
  <2>8. Born(a)
    BY <1>1, <1>2, <1>5, Zenon DEF Born, OneLaunch
  <2>9. QED
    BY <2>2, <2>3, <2>4, <2>6, <2>7, <2>8, StepOf, Zenon DEF Good
<1>6. CASE /\ gate' = IF sup[a] = "gate"
                      THEN [gate EXCEPT ![a] = ClaimDecision(gate[a], "released")] ELSE gate
           /\ sup[a] = "work"
           /\ UNCHANGED <<sess, sup, work, cln, slot, running, ledger>>
  <2>1. UNCHANGED <<svars, slot, running, ledger>>
    BY <1>6, Zenon DEF svars
  <2>2. QED
    BY <1>4, <2>1, Zenon
<1>7. ASSUME gate' = IF sup[a] = "gate"
                     THEN [gate EXCEPT ![a] = ClaimDecision(gate[a], "released")] ELSE gate,
             ~(sup[a] = "gate" /\ ClaimDecision(gate[a], "released") = "released"),
             slot.att = a, NEW p \in PrepareOutcomes(a),
             sup' = [sup EXCEPT ![a] = "gone"],
             Becomes(a, ReleaseTracking(Mem(a), a, slot.desc, p), p)
      PROVE  AgentInv'
  <2> DEFINE m == ReleaseTracking(Mem(a), a, slot.desc, p)
  <2>1. m \in Memory /\ Fades(sess[a], m.sess) /\ m.slot \in {slot, NoSlot}
    BY <1>1, <1>3, MemType, MemFields, ReleaseTrackingType DEF Settled
  <2>2. p.work \in BOOLEAN /\ p.cln \in ClnState /\ (p.work => work[a])
    BY <1>1, PrepareType, Zenon DEF ClnState
  <2> HIDE DEF m
  <2>3. Becomes(a, m, p)
    BY <1>7, Zenon DEF m
  <2>4. /\ sess' \in [Attempt -> Session] /\ sess'[a] = m.sess
        /\ \A b \in Attempt \ {a} : sess'[b] = sess[b]
        /\ slot' = m.slot /\ slot' \in Slot
        /\ running' \in 0..MaxAttempt /\ ledger' \in Ledger
        /\ work' \in [Attempt -> BOOLEAN] /\ work'[a] = p.work
        /\ \A b \in Attempt \ {a} : work'[b] = work[b]
        /\ cln' \in [Attempt -> ClnState]
    BY <1>1, <2>1, <2>2, <2>3, BecomesEffect
  <2>5. gate' = gate
    BY <1>1, <1>7, Zenon DEF TypeOK, StepdTypeOK, ClaimDecision
  <2>6. /\ sup' \in [Attempt -> SupState] /\ sup'[a] = "gone" /\ sup[a] # "none"
        /\ \A b \in Attempt \ {a} : sup'[b] = sup[b]
    BY <1>1, <1>7, MaxAttemptAssumption
        DEF TypeOK, StepdTypeOK, SupState, OneLaunch, Attempt
  <2>7. TypeOK'
    BY <1>1, <1>2, <2>1, <2>4, <2>5, <2>6, NoSlotType
        DEF TypeOK, StepdTypeOK, Slot, Ledger, ClnState, Attempt
  <2>8. LaunchQuiet
    BY <1>2, <2>1, <2>4, NoSlotType, Zenon DEF LaunchQuiet
  <2>9. \A b \in Attempt \ {a} : Same(b)
    BY <1>2, <2>4, <2>5, <2>6, Zenon DEF Same
  <2>10. Calm(a)
    BY <1>2, <1>3, <2>1, <2>2, <2>4, <2>5, <2>6, Zenon DEF Calm, MovesOn, Gone
  <2>11. QED
    BY <2>7, <2>8, <2>9, <2>10, StepOf, Zenon
<1>8. QED
    BY <1>4, <1>5, <1>6, <1>7, Zenon DEF StartRecv

LEMMA CancelRecvKeeps ==
    ASSUME AgentInv, NEW a \in Attempt, CancelRecv(a)
    PROVE  AgentInv'
<1>1. TypeOK /\ OneLaunch /\ \A b \in Attempt : Good(b)
    BY Zenon DEF AgentInv
<1>2. /\ up /\ events' \in 0..MaxEvents
      /\ cancelling' \in [Attempt -> {"none", "drop", "tail"}]
      /\ UNCHANGED <<sess, sup, work, cln, up, running, slot, ledger, launch, rep, replay,
                     recov, cur, net, reported, drained>>
    BY <1>1, MaxEventsAssumption DEF CancelRecv, TypeOK
<1>3. /\ gate' \in [Attempt -> GateState]
      /\ \A b \in Attempt \ {a} : gate'[b] = gate[b]
      /\ gate'[a] = gate[a] \/ (gate'[a] = "cancelled" /\ sup[a] = "gate")
    BY <1>1, Zenon DEF CancelRecv, TypeOK, StepdTypeOK, GateState, ClaimDecision
<1>4. TypeOK'
    BY <1>1, <1>2, <1>3, Zenon DEF TypeOK, StepdTypeOK
<1>5. LaunchQuiet
    BY <1>2, Zenon DEF LaunchQuiet
<1>6. \A b \in Attempt \ {a} : Same(b)
    BY <1>2, <1>3, Zenon DEF Same
<1>7. Calm(a)
  <2>1. Gone(a) /\ reported[a] \subseteq Known(a) /\ sess[a] \in Session
    BY <1>1, Zenon DEF Good, Known, TypeOK, StepdTypeOK
  <2>2. QED
    BY <1>2, <1>3, <2>1, Zenon DEF Calm, MovesOn, Fades, Gone
<1>8. QED
    BY <1>4, <1>5, <1>6, <1>7, StepOf, Zenon

\* Steps on the agent's own books only.
LEMMA BooksKeep ==
    ASSUME AgentInv, UNCHANGED <<svars, up, launch, rep, replay, cvars>>,
           running' \in 0..MaxAttempt, ledger' \in Ledger, slot' \in {slot, NoSlot},
           cancelling' \in [Attempt -> {"none", "drop", "tail"}], recov' \subseteq Attempt
    PROVE  AgentInv'
<1>1. TypeOK /\ OneLaunch
    BY Zenon DEF AgentInv
<1>2. slot' \in Slot /\ slot'.att \in {0, slot.att}
    BY <1>1, NoSlotType, Zenon DEF TypeOK, Slot
<1>3. TypeOK'
    BY <1>1, <1>2 DEF TypeOK, StepdTypeOK, svars, cvars, Slot, Ledger, Attempt
<1>4. LaunchQuiet
    BY <1>1, <1>2, DownIsIdle, Zenon DEF LaunchQuiet, cvars
<1>5. \A b \in Attempt : Same(b)
    BY Zenon DEF Same, svars, cvars
<1>6. 1 \in Attempt
    BY MaxAttemptAssumption DEF Attempt
<1>7. QED
    BY <1>3, <1>4, <1>5, <1>6, StepOf, Zenon

LEMMA BooksSteps ==
    ASSUME AgentInv,
           Reconcile \/ \E a \in Attempt : CancelDrop(a) \/ CancelTail(a)
    PROVE  AgentInv'
<1>1. TypeOK
    BY Zenon DEF AgentInv
<1>2. Free \in Ledger /\ ledger \in Ledger /\ running \in 0..MaxAttempt /\ recov \subseteq Attempt
      /\ 0 \in 0..MaxAttempt /\ cancelling \in [Attempt -> {"none", "drop", "tail"}]
    BY <1>1, MaxAttemptAssumption DEF Free, Ledger, TypeOK
<1>3. CASE Reconcile
    BY <1>2, <1>3, BooksKeep, Zenon DEF Reconcile
<1>4. ASSUME NEW a \in Attempt, CancelDrop(a) PROVE AgentInv'
  <2>1. running' \in {0, running} /\ ledger' \in {Free, ledger} /\ slot' \in {slot, NoSlot}
    BY <1>4, Zenon DEF CancelDrop
  <2>2. cancelling' \in [Attempt -> {"none", "drop", "tail"}]
    BY <1>2, <1>4, Zenon DEF CancelDrop
  <2>3. QED
    BY <1>2, <1>4, <2>1, <2>2, BooksKeep, Zenon DEF CancelDrop
<1>5. ASSUME NEW a \in Attempt, CancelTail(a) PROVE AgentInv'
  <2>1. ledger' \in {Free, ledger}
    BY <1>5, Zenon DEF CancelTail, Releasing
  <2>2. cancelling' \in [Attempt -> {"none", "drop", "tail"}]
    BY <1>2, <1>5, Zenon DEF CancelTail
  <2>3. QED
    BY <1>2, <1>5, <2>1, <2>2, BooksKeep, Zenon DEF CancelTail
<1>6. QED
    BY <1>3, <1>4, <1>5, Zenon

(***************************************************************************)
(* The end of a run.                                                       *)
(***************************************************************************)
LEMMA ClaimKeeps ==
    ASSUME AgentInv, NEW a \in Attempt, NEW by \in {"watchdog", "push"},
           NEW e \in {"none", "real", "lost"}, slot.att = a, up, Claim(a, by, e),
           by = "watchdog" => sup[a] = "gone",
           by = "push" => sup[a] \in {"reap", "push"},
           UNCHANGED <<svars, up, running, ledger, launch, replay, cancelling, recov, cvars>>
    PROVE  AgentInv'
<1> DEFINE r == [pc |-> "claimed", by |-> by, exit |-> e, quar |-> FALSE]
<1>1. TypeOK /\ OneLaunch /\ Gated(a) /\ Settled(a) /\ Gone(a) /\ rep[a] = NoRep
    BY Zenon DEF AgentInv, Good, TypeOK
<1>2. /\ r.pc = "claimed" /\ r.by = by
      /\ r \in Report
    BY Zenon DEF Report
<1>3. rep' = [rep EXCEPT ![a] = r] /\ slot' = NoSlot
    BY Zenon DEF Claim
<1> HIDE DEF r
<1>4. rep'[a] = r /\ \A b \in Attempt \ {a} : rep'[b] = rep[b]
    BY <1>1, <1>3, Zenon DEF TypeOK
<1>5. TypeOK'
    BY <1>1, <1>2, <1>3, NoSlotType, AttTypes, Zenon
        DEF TypeOK, StepdTypeOK, svars, cvars
<1>6. LaunchQuiet
    BY <1>3, NoSlotType, Zenon DEF LaunchQuiet, cvars
<1>7. \A b \in Attempt \ {a} : Same(b)
    BY <1>4, SMTT(30) DEF Same, svars, cvars
<1>8. Born(a)
  <2>1. sup[a] # "none"
    BY <1>1, Zenon DEF OneLaunch, Attempt
  <2>2. ~(launch.pc = "wait" /\ launch.att = a)
    BY <1>1, Zenon DEF OneLaunch
  <2>3. QED
    BY <2>1, <2>2, Zenon DEF Born, svars
<1>9. UNCHANGED <<sess, sup, gate, work, launch, replay, net, reported, drained>>
    BY Zenon DEF svars, cvars
<1>10. Known(a)' = Known(a) \cup {x \in {"real"} : by = "push"}
    BY <1>1, <1>2, <1>4, <1>9, NoRepIdle, ZenonT(30) DEF Known
<1>11. Gated(a)' /\ Gone(a)'
    BY <1>1, <1>2, <1>4, <1>9, Zenon DEF Gated, Gone
<1>12. Startable(a)' <=> Startable(a)
    BY <1>9, Zenon DEF Startable
<1>13. by = "push" => Known(a) \subseteq {"real"} /\ ~Startable(a)
                      /\ (Exists(sess[a]) => sess[a].exit = "real")
    BY <1>1, Zenon DEF Settled, Startable
<1>14. Settled(a)'
  <2>1. CASE by = "watchdog"
    BY <1>1, <1>2, <1>4, <1>9, <1>10, <1>12, <2>1, SMTT(30) DEF Settled
  <2>2. CASE by = "push"
    BY <1>1, <1>2, <1>4, <1>9, <1>10, <1>12, <1>13, <2>2, Zenon DEF Settled
  <2>3. QED
    BY <2>1, <2>2, Zenon
<1>15. QED
    BY <1>5, <1>6, <1>7, <1>8, <1>11, <1>14, StepOf, Zenon DEF Good

LEMMA ClaimSteps ==
    ASSUME AgentInv, NEW a \in Attempt,
           WatchdogClaims(a) \/ RecoveredClaims(a) \/ PushDelivered(a)
    PROVE  AgentInv'
<1>1. TypeOK /\ OneLaunch
    BY Zenon DEF AgentInv
<1>2. CASE WatchdogClaims(a)
  <2>1. sup[a] = "gone"
    BY <1>1, <1>2 DEF WatchdogClaims, OneLaunch, Alive, Attempt
  <2>2. QED
    BY <1>2, <2>1, ClaimKeeps, Zenon DEF WatchdogClaims
<1>3. CASE RecoveredClaims(a)
    BY <1>3, ClaimKeeps, Zenon DEF RecoveredClaims
<1>4. CASE PushDelivered(a)
  <2>1. CASE slot.att = a
    BY <1>4, <2>1, ClaimKeeps, Zenon DEF PushDelivered
  <2>2. CASE slot.att # a
    <3>1. /\ sup[a] = "push" /\ sup' = [sup EXCEPT ![a] = "gone"]
          /\ UNCHANGED <<sess, gate, work, cln, avars, cvars>>
      BY <1>4, <2>2, Zenon DEF PushDelivered, avars
    <3>2. SupMove(a)
      BY <1>1, <3>1, Zenon DEF SupMove, MovesOn, TypeOK, StepdTypeOK, SupState, cvars
    <3>3. QED
      BY <3>2, SupMoves, Zenon
  <2>3. QED
    BY <2>1, <2>2, Zenon
<1>5. QED
    BY <1>2, <1>3, <1>4, Zenon

LEMMA RepReleaseKeeps ==
    ASSUME AgentInv, NEW a \in Attempt, RepRelease(a)
    PROVE  AgentInv'
<1> DEFINE lost == ExitUnknown(a)
           e == CASE rep[a].by = "push" -> "real"
                  [] lost -> "lost"
                  [] OTHER -> sess[a].exit
           m == IF lost THEN [Mem(a) EXCEPT !.sess = ObserveExit(@, "lost")] ELSE Mem(a)
<1>1. TypeOK /\ OneLaunch /\ Gated(a) /\ Settled(a) /\ Gone(a) /\ sess[a] \in Session
    BY Zenon DEF AgentInv, Good, TypeOK, StepdTypeOK
<1>2. PICK p \in PrepareOutcomes(a) :
          /\ Becomes(a, ReleaseTracking(m, a, "claimed", p), p)
          /\ rep' = [rep EXCEPT ![a] =
                       [pc |-> IF MayReport(a, p) THEN "send" ELSE "final",
                        by |-> rep[a].by, exit |-> e, quar |-> ~p.ok]]
    BY Zenon DEF RepRelease
<1>3. /\ rep[a].pc = "claimed"
      /\ UNCHANGED <<sup, gate, up, launch, replay, cancelling, recov, cvars>>
    BY Zenon DEF RepRelease
<1>4. /\ p.ok \in BOOLEAN /\ p.work \in BOOLEAN /\ p.cln \in ClnState
      /\ p.work => work[a] /\ ~p.ok
    BY <1>1, <1>2, PrepareType, Zenon DEF ClnState
<1>5. rep[a].by = "push" \/ (rep[a].by = "watchdog" /\ sup[a] = "gone")
    BY <1>1, <1>3, Zenon DEF Settled
<1>6. /\ e \in {"real", "lost"}
      /\ rep[a].by = "push" => e = "real" /\ ~lost
      /\ rep[a].by = "watchdog" => e = IF sess[a].exit = "none" THEN "lost" ELSE sess[a].exit
      /\ lost <=> rep[a].by = "watchdog" /\ sess[a].exit = "none"
    BY <1>1, <1>5, Zenon DEF ExitUnknown, Session
<1>7. /\ m \in Memory /\ m.slot = slot /\ m.sess.desc = sess[a].desc
      /\ m.sess.exit = IF lost /\ Exists(sess[a]) THEN "lost" ELSE sess[a].exit
  <2> DEFINE s == ObserveExit(sess[a], "lost")
  <2>1. /\ s \in Session /\ s.desc = sess[a].desc
        /\ s.exit = IF Exists(sess[a]) THEN "lost" ELSE sess[a].exit
    BY <1>1, Zenon DEF ObserveExit, Session
  <2>2. Mem(a) \in Memory /\ Mem(a).sess = sess[a] /\ Mem(a).slot = slot
    BY <1>1, MemType, MemFields, Zenon
  <2>3. m = IF lost THEN [Mem(a) EXCEPT !.sess = s] ELSE Mem(a)
    BY <2>2, Zenon
  <2> HIDE DEF s, m, lost
  <2>4. CASE lost
    BY <2>1, <2>2, <2>3, <2>4, Zenon DEF Memory
  <2>5. CASE ~lost
    BY <2>2, <2>3, <2>5, Zenon
  <2>6. QED
    BY <2>4, <2>5, Zenon
<1> HIDE DEF m, e, lost
<1> DEFINE n == ReleaseTracking(m, a, "claimed", p)
           r == [pc |-> IF MayReport(a, p) THEN "send" ELSE "final",
                 by |-> rep[a].by, exit |-> e, quar |-> ~p.ok]
<1>8. n \in Memory /\ Fades(m.sess, n.sess) /\ n.slot \in {slot, NoSlot}
  <2>1. ~Exists(m.sess) => m.sess.exit = "none"
    BY <1>1, <1>7, Zenon DEF Settled, Exists
  <2>2. QED
    BY <1>7, <2>1, ReleaseTrackingType, Zenon
<1>9. /\ r \in Report
      /\ r.pc \in {"send", "final"} /\ r.by = rep[a].by /\ r.exit = e /\ r.quar = ~p.ok
      /\ r.pc = "send" => Exists(sess[a])
    BY <1>4, <1>5, <1>6, Zenon DEF MayReport, Report
<1>10. Becomes(a, n, p) /\ rep' = [rep EXCEPT ![a] = r]
    BY <1>2, Zenon
<1> HIDE DEF n, r
<1>11. /\ sess' \in [Attempt -> Session] /\ sess'[a] = n.sess
       /\ \A b \in Attempt \ {a} : sess'[b] = sess[b]
       /\ slot' = n.slot /\ slot' \in Slot
       /\ running' \in 0..MaxAttempt /\ ledger' \in Ledger
       /\ work' \in [Attempt -> BOOLEAN] /\ work'[a] = p.work
       /\ \A b \in Attempt \ {a} : work'[b] = work[b]
       /\ cln' \in [Attempt -> ClnState]
    BY <1>1, <1>4, <1>8, <1>10, BecomesEffect
<1>12. /\ rep'[a] = r /\ \A b \in Attempt \ {a} : rep'[b] = rep[b]
       /\ rep' \in [Attempt -> Report]
    BY <1>1, <1>9, <1>10, Zenon DEF TypeOK
<1>13. rep[a] # NoRep /\ slot.att # a
    BY <1>1, <1>3, NoRepIdle, Zenon DEF TypeOK
<1>14. TypeOK'
    BY <1>1, <1>3, <1>8, <1>11, <1>12, <1>13, NoSlotType
        DEF TypeOK, StepdTypeOK, cvars, Slot, Ledger, ClnState, Attempt
<1>15. LaunchQuiet
    BY <1>1, <1>3, <1>8, <1>11, <1>13, NoSlotType, DownIsIdle, Zenon DEF LaunchQuiet, cvars
<1>16. \A b \in Attempt \ {a} : Same(b)
    BY <1>3, <1>11, <1>12, Zenon DEF Same, cvars
<1>17. Born(a)
    BY <1>1, <1>3, <1>13, Zenon DEF Born, OneLaunch
<1>18. UNCHANGED <<sup, gate, launch, replay, net, reported, drained>>
    BY <1>3, Zenon DEF cvars
<1>19. Gated(a)' /\ Gone(a)'
    BY <1>1, <1>4, <1>9, <1>11, <1>12, <1>18, Zenon DEF Gated, Gone
<1>20. Known(a)' \subseteq Known(a) \cup
            {x \in {"lost"} : lost /\ Exists(sess[a])}
  <2>1. sess'[a].exit # "none" => sess'[a].exit = m.sess.exit
    BY <1>8, <1>11, Zenon DEF Fades
  <2>2. r.pc = "send" =>
            r.exit \in Known(a) \cup {x \in {"lost"} : lost /\ Exists(sess[a])}
    BY <1>3, <1>5, <1>6, <1>9, Zenon DEF Known
  <2>3. \A x \in {"real", "lost"} : m.sess.exit = x =>
            x \in Known(a) \cup {y \in {"lost"} : lost /\ Exists(sess[a])}
    BY <1>7, Zenon DEF Known
  <2>4. QED
    BY <1>9, <1>12, <1>18, <2>1, <2>2, <2>3, Zenon DEF Known
<1>21. lost /\ Exists(sess[a]) => sup[a] = "gone" /\ Known(a) \subseteq {"lost"}
    BY <1>1, <1>5, <1>6, Zenon DEF Settled
<1>22. Startable(a)' => Startable(a)
    BY <1>18, Zenon DEF Startable
<1>23. /\ Exists(sess'[a]) /\ sess'[a].exit = "none" =>
             Exists(sess[a]) /\ sess[a].exit = "none" /\ ~lost
       /\ Exists(sess'[a]) => Exists(sess[a]) /\ sess'[a].exit = m.sess.exit
                              /\ sess'[a].desc = sess[a].desc
       /\ ~Exists(sess'[a]) => sess'[a].exit = "none"
  <2>1. m.sess.exit = "none" => sess[a].exit = "none"
    BY <1>7, Zenon
  <2>2. ~Exists(m.sess) => m.sess.exit = "none"
    BY <1>1, <1>7, Zenon DEF Settled, Exists
  <2>3. QED
    BY <1>7, <1>8, <1>11, <2>1, <2>2, Zenon DEF Fades, Exists
<1>24. Settled(a)'
  <2>1. CASE lost /\ Exists(sess[a])
    BY <1>1, <1>9, <1>6, <1>12, <1>18, <1>20, <1>21, <1>22, <1>23, <2>1, Zenon
        DEF Settled, Startable, Exists
  <2>2. CASE ~(lost /\ Exists(sess[a]))
    <3>1. Known(a)' \subseteq Known(a)
      BY <1>20, <2>2, Zenon
    <3>2. Exists(sess'[a]) => sess'[a].exit = sess[a].exit
      BY <1>7, <1>23, <2>2, Zenon
    <3>3. QED
      BY <1>1, <1>6, <1>9, <1>12, <1>18, <1>22, <1>23, <3>1, <3>2, Zenon DEF Settled, Exists
  <2>3. QED
    BY <2>1, <2>2, Zenon
<1>25. QED
    BY <1>14, <1>15, <1>16, <1>17, <1>19, <1>24, StepOf, Zenon DEF Good

LEMMA RepSendKeeps ==
    ASSUME AgentInv, NEW a \in Attempt, RepSend(a)
    PROVE  AgentInv'
<1>1. TypeOK /\ OneLaunch /\ Settled(a) /\ Gone(a) /\ sess[a] \in Session
    BY Zenon DEF AgentInv, Good, TypeOK, StepdTypeOK
<1>2. PICK got \in BOOLEAN, reply \in BOOLEAN :
          /\ Deliver(a, rep[a].exit, rep[a].quar, got)
          /\ IF reply THEN Acknowledge(a, rep[a].quar) ELSE UNCHANGED <<sess, cln>>
    BY Zenon DEF RepSend
<1>3. /\ rep[a].pc = "send" /\ rep' = [rep EXCEPT ![a].pc = "final"]
      /\ UNCHANGED <<sup, gate, work, up, running, slot, ledger, launch, replay, cancelling,
                     recov, cur, net, events>>
    BY Zenon DEF RepSend
<1>4. /\ Fades(sess[a], sess'[a]) /\ sess' \in [Attempt -> Session]
      /\ \A b \in Attempt \ {a} : sess'[b] = sess[b]
      /\ cln' \in [Attempt -> ClnState]
  <2>1. CASE reply
    <3> DEFINE c == IF rep[a].quar /\ cln[a] # "none" THEN "acked" ELSE cln[a]
               s == acknowledge_completion(sess[a], c # "none")
    <3>1. c \in ClnState
      BY <1>1, Zenon DEF TypeOK, StepdTypeOK, ClnState
    <3>2. Fades(sess[a], s)
      BY <1>1, AcknowledgedFades, Zenon DEF Settled
    <3>3. sess' = [sess EXCEPT ![a] = s] /\ cln' = [cln EXCEPT ![a] = c]
      BY <1>2, <2>1, Zenon DEF Acknowledge
    <3> HIDE DEF c, s
    <3>4. QED
      BY <1>1, <3>1, <3>2, <3>3, Zenon DEF Fades, TypeOK, StepdTypeOK, ClnState
  <2>2. CASE ~reply
    BY <1>1, <1>2, <2>2, Zenon DEF Fades, TypeOK, StepdTypeOK, ClnState
  <2>3. QED
    BY <2>1, <2>2, Zenon
<1>5. /\ rep'[a].pc = "final" /\ \A b \in Attempt \ {a} : rep'[b] = rep[b]
      /\ rep' \in [Attempt -> Report]
  <2> DEFINE r == [rep[a] EXCEPT !.pc = "final"]
  <2>1. r \in Report /\ r.pc = "final"
    BY <1>1, ReportEnds, Zenon DEF TypeOK
  <2>2. rep' = [rep EXCEPT ![a] = r]
    BY <1>3, Zenon
  <2> HIDE DEF r
  <2>3. QED
    BY <1>1, <2>1, <2>2, Zenon DEF TypeOK
<1>6. rep[a].exit \in Known(a) /\ rep[a].exit \in {"real", "lost"}
      /\ reported[a] \subseteq Known(a) /\ rep[a].quar \in BOOLEAN
  <2>1. rep[a].exit \in {"real", "lost"} /\ rep[a].quar \in BOOLEAN
    BY <1>1, <1>3, ExitTypes, Zenon DEF Settled
  <2>2. QED
    BY <1>1, <1>3, <2>1, ReportedKnown, Zenon DEF Known
<1>7. /\ reported' \in [Attempt -> SUBSET {"real", "lost"}] /\ drained' \in BOOLEAN
      /\ reported'[a] \subseteq Known(a)
      /\ \A b \in Attempt \ {a} : reported'[b] = reported[b]
      /\ drained => drained'
      /\ reported'[a] # {} => ~work[a] \/ drained'
  <2>1. /\ reported' = IF got THEN [reported EXCEPT ![a] = @ \cup {rep[a].exit}] ELSE reported
        /\ drained' = (drained \/ (got /\ rep[a].quar))
    BY <1>2, Zenon DEF Deliver
  <2>2. reported \in [Attempt -> SUBSET {"real", "lost"}] /\ drained \in BOOLEAN
    BY <1>1, Zenon DEF TypeOK
  <2>3. drained' \in BOOLEAN /\ (drained => drained')
    BY <2>1, <2>2, Zenon
  <2>4. reported' \in [Attempt -> SUBSET {"real", "lost"}] /\ reported'[a] \subseteq Known(a)
        /\ \A b \in Attempt \ {a} : reported'[b] = reported[b]
    BY <1>6, <2>1, <2>2, Zenon
  <2>5. reported'[a] # {} => ~work[a] \/ drained'
    BY <1>1, <1>3, <2>1, <2>2, Zenon DEF Gone
  <2>6. QED
    BY <2>3, <2>4, <2>5, Zenon
<1>8. slot.att # a
    BY <1>1, <1>3, NoRepIdle, Zenon DEF TypeOK
<1>9. TypeOK'
    BY <1>1, <1>3, <1>4, <1>5, <1>7, <1>8, Zenon DEF TypeOK, StepdTypeOK, ClnState
<1>10. LaunchQuiet
    BY <1>1, <1>3, NoRepIdle, DownIsIdle, Zenon DEF LaunchQuiet
<1>11. \A b \in Attempt \ {a} : Same(b)
    BY <1>3, <1>4, <1>5, <1>7, Zenon DEF Same
<1>12. Calm(a)
    BY <1>3, <1>4, <1>5, <1>7, Zenon DEF Calm, MovesOn
<1>13. QED
    BY <1>9, <1>10, <1>11, <1>12, StepOf, Zenon

LEMMA RepFinalKeeps ==
    ASSUME AgentInv, NEW a \in Attempt, RepFinal(a)
    PROVE  AgentInv'
<1>1. TypeOK /\ OneLaunch /\ Settled(a) /\ Gone(a) /\ reported[a] \subseteq Known(a)
    BY Zenon DEF AgentInv, Good, TypeOK, Known
<1>2. PICK p \in PrepareOutcomes(a) :
          Becomes(a, ReleaseTracking(Mem(a), a, "claimed", p), p)
    BY Zenon DEF RepFinal
<1>3. /\ rep[a].pc = "final" /\ rep' = [rep EXCEPT ![a] = NoRep]
      /\ sup' = [sup EXCEPT ![a] = IF rep[a].by = "push" /\ @ = "push" THEN "gone" ELSE @]
      /\ UNCHANGED <<gate, up, launch, replay, cancelling, recov, cvars>>
    BY Zenon DEF RepFinal
<1> DEFINE m == ReleaseTracking(Mem(a), a, "claimed", p)
<1>4. m \in Memory /\ Fades(sess[a], m.sess) /\ m.slot \in {slot, NoSlot}
    BY <1>1, MemType, MemFields, ReleaseTrackingType DEF Settled
<1>5. p.work \in BOOLEAN /\ p.cln \in ClnState /\ (p.work => work[a])
    BY <1>1, <1>2, PrepareType, Zenon DEF ClnState
<1> HIDE DEF m
<1>6. /\ sess' \in [Attempt -> Session] /\ sess'[a] = m.sess
      /\ \A b \in Attempt \ {a} : sess'[b] = sess[b]
      /\ slot' = m.slot /\ slot' \in Slot
      /\ running' \in 0..MaxAttempt /\ ledger' \in Ledger
      /\ work' \in [Attempt -> BOOLEAN] /\ work'[a] = p.work
      /\ \A b \in Attempt \ {a} : work'[b] = work[b]
      /\ cln' \in [Attempt -> ClnState]
    BY <1>1, <1>2, <1>4, <1>5, BecomesEffect DEF m
<1>7. /\ MovesOn(sup[a], sup'[a])
      /\ sup' \in [Attempt -> SupState]
      /\ \A b \in Attempt \ {a} : sup'[b] = sup[b]
    BY <1>1, <1>3, Zenon DEF MovesOn, TypeOK, StepdTypeOK, SupState
<1>8. /\ rep'[a] = NoRep /\ \A b \in Attempt \ {a} : rep'[b] = rep[b]
      /\ rep' \in [Attempt -> Report]
    BY <1>1, <1>3, NothingTypes, Zenon DEF TypeOK
<1>9. TypeOK'
  <2>1. ASSUME NEW b \in Attempt PROVE rep'[b] # NoRep => slot'.att # b
    BY <1>1, <1>4, <1>6, <1>8, <2>1, NoSlotType, AttTypes, Zenon DEF TypeOK
  <2>2. QED
    BY <1>1, <1>3, <1>6, <1>7, <1>8, <2>1, Zenon DEF TypeOK, StepdTypeOK, cvars
<1>10. LaunchQuiet
    BY <1>1, <1>3, <1>4, <1>6, NoSlotType, NoRepIdle, DownIsIdle, SMTT(30) DEF LaunchQuiet, cvars
<1>11. \A b \in Attempt \ {a} : Same(b)
    BY <1>3, <1>6, <1>7, <1>8, Zenon DEF Same, cvars
<1>12. Calm(a)
    BY <1>1, <1>3, <1>4, <1>5, <1>6, <1>7, <1>8, Zenon DEF Calm, Gone, cvars
<1>13. QED
    BY <1>9, <1>10, <1>11, <1>12, StepOf, Zenon

LEMMA PruneKeeps ==
    ASSUME AgentInv, NEW a \in Attempt, Prune(a)
    PROVE  AgentInv'
<1>1. TypeOK /\ OneLaunch /\ Gone(a) /\ reported[a] \subseteq Known(a) /\ sess[a] \in Session
    BY Zenon DEF AgentInv, Good, TypeOK, StepdTypeOK, Known
<1> DEFINE s == Sweep(sess[a], cln[a] # "none")
<1>2. Fades(sess[a], s)
    BY <1>1, SweepFades, Zenon
<1>3. sess' = [sess EXCEPT ![a] = s] /\ UNCHANGED <<sup, gate, work, cln, avars, cvars>>
    BY Zenon DEF Prune
<1> HIDE DEF s
<1>4. /\ Fades(sess[a], sess'[a]) /\ sess' \in [Attempt -> Session]
      /\ \A b \in Attempt \ {a} : sess'[b] = sess[b]
    BY <1>1, <1>2, <1>3, Zenon DEF Fades, TypeOK, StepdTypeOK
<1>5. TypeOK'
    BY <1>1, <1>3, <1>4, Zenon DEF TypeOK, StepdTypeOK, avars, cvars
<1>6. LaunchQuiet
    BY <1>1, <1>3, DownIsIdle, SMTT(30) DEF LaunchQuiet, avars, cvars
<1>7. \A b \in Attempt \ {a} : Same(b)
    BY <1>3, <1>4, Zenon DEF Same, avars, cvars
<1>8. Calm(a)
    BY <1>1, <1>3, <1>4, Zenon DEF Calm, MovesOn, Gone, avars, cvars
<1>9. QED
    BY <1>5, <1>6, <1>7, <1>8, StepOf, Zenon

LEMMA ReplayStartKeeps ==
    ASSUME AgentInv, NEW a \in Attempt, ReplayStart(a)
    PROVE  AgentInv'
<1>1. TypeOK /\ OneLaunch /\ Gated(a) /\ Settled(a) /\ Gone(a) /\ sess[a] \in Session
    BY Zenon DEF AgentInv, Good, TypeOK, StepdTypeOK
<1>2. PICK p \in PrepareOutcomes(a) :
          /\ work' = [work EXCEPT ![a] = p.work]
          /\ cln' = [cln EXCEPT ![a] = p.cln]
          /\ replay' = IF MayReport(a, p)
                       THEN [att |-> a, exit |-> sess[a].exit, quar |-> ~p.ok]
                       ELSE NoReplay
    BY Zenon DEF ReplayStart
<1>3. /\ replay = NoReplay /\ Exists(sess[a]) /\ sess[a].exit \in {"real", "lost"}
      /\ UNCHANGED <<sess, sup, gate, up, running, slot, ledger, launch, rep, cancelling,
                     recov, cvars>>
    BY <1>1, Zenon DEF ReplayStart, Stale, Session
<1>4. /\ p.ok \in BOOLEAN /\ p.work \in BOOLEAN /\ p.cln \in ClnState
      /\ p.work => work[a] /\ ~p.ok
    BY <1>1, <1>2, PrepareType, Zenon DEF ClnState
<1>5. /\ replay' \in Replay
      /\ replay' = NoReplay \/ (replay'.att = a /\ replay'.exit = sess[a].exit
                                /\ replay'.quar = ~p.ok)
  <2> DEFINE r == [att |-> a, exit |-> sess[a].exit, quar |-> ~p.ok]
  <2>1. /\ r.att = a /\ r.exit = sess[a].exit /\ r.quar = ~p.ok
        /\ r \in Replay
    BY <1>3, <1>4 DEF Attempt, Replay
  <2>2. NoReplay \in Replay
    BY NothingTypes, Zenon
  <2>3. replay' \in {r, NoReplay}
    BY <1>2, Zenon
  <2> HIDE DEF r
  <2>4. QED
    BY <2>1, <2>2, <2>3, Zenon
<1>6. /\ work'[a] = p.work /\ \A b \in Attempt \ {a} : work'[b] = work[b]
      /\ work' \in [Attempt -> BOOLEAN] /\ cln' \in [Attempt -> ClnState]
    BY <1>1, <1>2, <1>4, Zenon DEF TypeOK, StepdTypeOK, ClnState
<1>7. TypeOK'
    BY <1>1, <1>3, <1>5, <1>6, Zenon DEF TypeOK, StepdTypeOK, ClnState, cvars
<1>8. LaunchQuiet
    BY <1>1, <1>3, <1>5, DownIsIdle DEF LaunchQuiet, cvars, Attempt
<1>9. NoReplay.att = 0
    BY Zenon DEF NoReplay
<1>10. \A b \in Attempt \ {a} : Same(b)
    BY <1>3, <1>5, <1>6, <1>9, Zenon DEF Same, cvars, Attempt
<1>11. Born(a)
    BY <1>1, <1>3, Zenon DEF Born, OneLaunch
<1>12. UNCHANGED <<sess, sup, gate, rep, launch, net, reported, drained>>
    BY <1>3, Zenon DEF cvars
<1>13. Known(a)' = Known(a)
    BY <1>3, <1>5, <1>9, <1>12 DEF Known, Attempt
<1>14. Gated(a)'
    BY <1>1, <1>4, <1>6, <1>12, Zenon DEF Gated
<1>15. Gone(a)'
    BY <1>1, <1>4, <1>5, <1>6, <1>9, <1>12 DEF Gone, Attempt
<1>16. Startable(a)' <=> Startable(a)
    BY <1>12, Zenon DEF Startable
<1>17. replay'.att = a => replay'.exit # "none"
    BY <1>3, <1>5, <1>9 DEF Attempt
<1>18. Settled(a)'
    BY <1>1, <1>12, <1>13, <1>16, <1>17, Zenon DEF Settled
<1>19. QED
    BY <1>7, <1>8, <1>10, <1>11, <1>14, <1>15, <1>18, StepOf, Zenon DEF Good

LEMMA ReplaySendKeeps ==
    ASSUME AgentInv, ReplaySend
    PROVE  AgentInv'
<1>1. PICK a \in Attempt : a = replay.att
    BY AttTypes, Zenon DEF ReplaySend, AgentInv, OneLaunch
<1>2. TypeOK /\ OneLaunch /\ Settled(a) /\ Gone(a) /\ sess[a] \in Session
      /\ reported[a] \subseteq Known(a)
    BY Zenon DEF AgentInv, Good, TypeOK, StepdTypeOK, Known
<1>3. PICK got \in BOOLEAN, reply \in BOOLEAN, p \in PrepareOutcomes(a) :
          /\ Deliver(a, replay.exit, replay.quar, got)
          /\ IF reply
             THEN LET c == IF replay.quar /\ cln[a] # "none" THEN "acked" ELSE cln[a]
                      acked == [Mem(a) EXCEPT !.sess = acknowledge_completion(@, c # "none")]
                      settled == IF p.ok \/ cln[a] = "none" THEN p ELSE [p EXCEPT !.cln = c]
                  IN  IF Exists(acked.sess)
                      THEN Becomes(a, ReleaseTracking(acked, a, sess[a].desc, settled), settled)
                      ELSE Becomes(a, acked, [work |-> work[a], cln |-> c])
             ELSE UNCHANGED <<sess, slot, running, ledger, work, cln>>
    BY <1>1, ZenonT(30) DEF ReplaySend
<1>4. /\ replay' = NoReplay
      /\ UNCHANGED <<sup, gate, up, launch, rep, cancelling, recov, cur, net, events>>
    BY Zenon DEF ReplaySend
<1>5. /\ sess' \in [Attempt -> Session] /\ Fades(sess[a], sess'[a])
      /\ \A b \in Attempt \ {a} : sess'[b] = sess[b]
      /\ slot' \in {slot, NoSlot}
      /\ running' \in 0..MaxAttempt /\ ledger' \in Ledger
      /\ work' \in [Attempt -> BOOLEAN] /\ (work'[a] => work[a])
      /\ \A b \in Attempt \ {a} : work'[b] = work[b]
      /\ cln' \in [Attempt -> ClnState]
  <2>1. CASE ~reply
    BY <1>2, <1>3, <2>1, Zenon DEF Fades, TypeOK, StepdTypeOK, ClnState, Ledger
  <2>2. CASE reply
    <3> DEFINE c == IF replay.quar /\ cln[a] # "none" THEN "acked" ELSE cln[a]
               s == acknowledge_completion(sess[a], c # "none")
               acked == [Mem(a) EXCEPT !.sess = s]
               settled == IF p.ok \/ cln[a] = "none" THEN p ELSE [p EXCEPT !.cln = c]
               m == ReleaseTracking(acked, a, sess[a].desc, settled)
               q == [work |-> work[a], cln |-> c]
    <3>1. c \in ClnState /\ work[a] \in BOOLEAN
      BY <1>2, Zenon DEF TypeOK, StepdTypeOK, ClnState
    <3>2. Fades(sess[a], s)
      BY <1>2, AcknowledgedFades, Zenon DEF Settled
    <3>3. \/ Exists(acked.sess) /\ Becomes(a, m, settled)
          \/ Becomes(a, acked, q)
      <4>1. Mem(a).sess = sess[a]
        BY MemFields, Zenon
      <4>2. QED
        BY <1>3, <2>2, <4>1, Zenon
    <3> HIDE DEF s
    <3>4. /\ acked \in Memory /\ acked.sess = s /\ acked.slot = slot
          /\ ~Exists(s) => s.exit = "none"
      <4>1. Mem(a) \in Memory /\ Mem(a).slot = slot
        BY <1>2, MemType, MemFields, Zenon
      <4>2. QED
        BY <1>2, <3>2, <4>1, Zenon DEF Memory, Fades, Exists, Settled
    <3>5. /\ settled.work \in BOOLEAN /\ settled.cln \in ClnState
          /\ settled.work => work[a]
      <4>1. p.work \in BOOLEAN /\ p.cln \in ClnState /\ (p.work => work[a])
        BY <1>2, <1>3, PrepareType, Zenon DEF ClnState
      <4>2. PICK o, w, d : p = [ok |-> o, work |-> w, cln |-> d]
        BY <1>3, Zenon DEF PrepareOutcomes
      <4>3. CASE p.ok \/ cln[a] = "none"
        BY <4>1, <4>3, Zenon
      <4>4. CASE ~(p.ok \/ cln[a] = "none")
        <5>1. settled = [ok |-> o, work |-> w, cln |-> c]
          BY <4>2, <4>4, Zenon
        <5>2. QED
          BY <3>1, <4>1, <4>2, <5>1, Zenon
      <4>5. QED
        BY <4>3, <4>4, Zenon
    <3>6. q.work = work[a] /\ q.cln = c
      BY Zenon
    <3> HIDE DEF acked, settled, c, q
    <3>7. m \in Memory /\ Fades(s, m.sess) /\ m.slot \in {slot, NoSlot}
      BY <3>4, ReleaseTrackingType, Zenon
    <3> HIDE DEF m
    <3>8. Fades(sess[a], m.sess)
      BY <3>2, <3>7, Zenon DEF Fades
    <3>9. CASE Becomes(a, m, settled)
      BY <1>2, <3>5, <3>7, <3>8, <3>9, BecomesEffect
    <3>10. CASE Becomes(a, acked, q)
      BY <1>2, <3>1, <3>2, <3>4, <3>6, <3>10, BecomesEffect
    <3>11. QED
      BY <3>3, <3>9, <3>10, Zenon
  <2>3. QED
    BY <2>1, <2>2, Zenon
<1>6. replay.exit \in Known(a) /\ replay.exit \in {"real", "lost"} /\ replay.quar \in BOOLEAN
  <2>1. replay.exit \in {"real", "lost"} /\ replay.quar \in BOOLEAN
    BY <1>1, <1>2, ExitTypes, Zenon DEF Settled
  <2>2. QED
    BY <1>1, <2>1, Zenon DEF Known
<1>7. /\ reported' \in [Attempt -> SUBSET {"real", "lost"}] /\ drained' \in BOOLEAN
      /\ reported'[a] \subseteq Known(a)
      /\ \A b \in Attempt \ {a} : reported'[b] = reported[b]
      /\ drained => drained'
      /\ reported'[a] # {} => ~work[a] \/ drained'
  <2>1. /\ reported' = IF got THEN [reported EXCEPT ![a] = @ \cup {replay.exit}] ELSE reported
        /\ drained' = (drained \/ (got /\ replay.quar))
    BY <1>3, Zenon DEF Deliver
  <2>2. reported \in [Attempt -> SUBSET {"real", "lost"}] /\ drained \in BOOLEAN
    BY <1>2, Zenon DEF TypeOK
  <2>3. drained' \in BOOLEAN /\ (drained => drained')
    BY <2>1, <2>2, Zenon
  <2>4. reported' \in [Attempt -> SUBSET {"real", "lost"}] /\ reported'[a] \subseteq Known(a)
        /\ \A b \in Attempt \ {a} : reported'[b] = reported[b]
    BY <1>2, <1>6, <2>1, <2>2, Zenon
  <2>5. reported'[a] # {} => ~work[a] \/ drained'
    BY <1>1, <1>2, <2>1, <2>2, Zenon DEF Gone
  <2>6. QED
    BY <2>3, <2>4, <2>5, Zenon
<1>8. NoReplay.att = 0
      /\ NoReplay \in Replay
    BY NothingTypes, Zenon
<1>9. slot' \in Slot /\ slot'.att \in {0, slot.att}
    BY <1>2, <1>5, NoSlotType, Zenon DEF TypeOK, Slot
<1>10. TypeOK'
    BY <1>2, <1>4, <1>5, <1>7, <1>8, <1>9
        DEF TypeOK, StepdTypeOK, Slot, Ledger, ClnState, Attempt
<1>11. LaunchQuiet
    BY <1>2, <1>4, <1>9, DownIsIdle, Zenon DEF LaunchQuiet
<1>12. \A b \in Attempt \ {a} : Same(b)
    BY <1>4, <1>5, <1>7, <1>8 DEF Same, Attempt
<1>13. Calm(a)
    BY <1>4, <1>5, <1>7, <1>8 DEF Calm, MovesOn, Attempt
<1>14. QED
    BY <1>10, <1>11, <1>12, <1>13, StepOf, Zenon

LEMMA AgentCrashKeeps ==
    ASSUME AgentInv, AgentCrash
    PROVE  AgentInv'
<1>1. TypeOK /\ OneLaunch /\ \A b \in Attempt : Good(b)
    BY Zenon DEF AgentInv
<1>2. /\ events' = events + 1 /\ events < MaxEvents /\ up' = FALSE /\ running' = 0
      /\ slot' = NoSlot /\ ledger' = Free /\ launch' = NoLaunch
      /\ rep' = [a \in Attempt |-> NoRep] /\ replay' = NoReplay
      /\ cancelling' = [a \in Attempt |-> "none"] /\ recov' = {}
      /\ UNCHANGED <<svars, cur, net, reported, drained>>
    BY Zenon DEF AgentCrash
<1>3. /\ events' \in 0..MaxEvents
      /\ Free \in Ledger /\ NoLaunch.att = 0 /\ NoReplay.att = 0
      /\ NoLaunch \in Launch
      /\ NoRep \in Report
      /\ NoReplay \in Replay
    BY <1>1, <1>2, MaxEventsAssumption, NothingTypes DEF TypeOK
<1>4. rep' \in [Attempt -> Report]
      /\ \A b \in Attempt : rep'[b] = NoRep
    BY <1>2, <1>3, Zenon
<1>5. TypeOK'
  <2>1. StepdTypeOK'
    BY <1>1, <1>2, Zenon DEF TypeOK, StepdTypeOK, svars
  <2>2. cancelling' \in [Attempt -> {"none", "drop", "tail"}] /\ running' \in 0..MaxAttempt
    BY <1>2, MaxAttemptAssumption
  <2>3. slot' \in Slot /\ ledger' \in Ledger
    BY <1>2, <1>3, NoSlotType, Zenon
  <2>4. QED
    BY <1>1, <1>2, <1>3, <1>4, <2>1, <2>2, <2>3, Zenon DEF TypeOK
<1>6. LaunchQuiet
    BY <1>1, <1>2, <1>3, <1>4, NoSlotType, DownIsIdle, Zenon DEF LaunchQuiet
<1>7. \A b \in Attempt : Same(b)
    BY <1>2, <1>3, <1>4 DEF Same, svars, Attempt
<1>8. QED
    BY <1>1, <1>5, <1>6, <1>7, SameCalm, CalmStep, Zenon

\* MaxExists of AgentProofs discharges the assumption on MaxOf.
LEMMA AgentStartKeeps ==
    ASSUME AgentInv, AgentStart,
           \A S \in SUBSET Attempt : S # {} => MaxOf(S) \in S
    PROVE  AgentInv'
<1> DEFINE stale == {a \in Attempt : Stale(a)}
           live == {a \in Attempt : Exists(sess[a]) /\ ~Stale(a)}
<1>1. /\ TypeOK /\ OneLaunch /\ \A b \in Attempt : Good(b)
      /\ ~up /\ launch.att = 0 /\ \A b \in Attempt : rep[b] = NoRep
    BY Zenon DEF AgentInv, OneLaunch, AgentStart
<1>2. PICK cleaned \in SUBSET stale :
          LET held == {a \in stale \ cleaned : ~Reported(sess[a])}
              kept == live \cup held
              newest == MaxOf(kept)
          IN  /\ work' = [a \in Attempt |-> work[a] /\ a \notin cleaned]
              /\ cln' = [a \in Attempt |->
                           CASE a \in cleaned -> "none"
                             [] a \in stale \ cleaned /\ cln[a] = "none" -> "pending"
                             [] OTHER -> cln[a]]
              /\ sess' = [a \in Attempt |->
                            LET known == IF a \in stale /\ sess[a].exit = "none"
                                         THEN ObserveExit(sess[a], "lost")
                                         ELSE sess[a]
                            IN  IF a \in stale \ held
                                THEN record_resources_released(known, a \notin cleaned)
                                ELSE known]
              /\ running' = newest
              /\ slot' = IF kept = {} THEN NoSlot
                         ELSE [att |-> newest, desc |-> sess[newest].desc]
              /\ ledger' = IF kept = {} THEN Free
                           ELSE [att |-> newest, launching |-> FALSE]
              /\ recov' = kept
    BY Zenon DEF AgentStart
<1> DEFINE held == {a \in stale \ cleaned : ~Reported(sess[a])}
           kept == live \cup held
           newest == MaxOf(kept)
           known(a) == IF a \in stale /\ sess[a].exit = "none"
                       THEN ObserveExit(sess[a], "lost")
                       ELSE sess[a]
<1>3. /\ work' = [a \in Attempt |-> work[a] /\ a \notin cleaned]
      /\ cln' = [a \in Attempt |->
                   CASE a \in cleaned -> "none"
                     [] a \in stale \ cleaned /\ cln[a] = "none" -> "pending"
                     [] OTHER -> cln[a]]
      /\ sess' = [a \in Attempt |->
                    IF a \in stale \ held
                    THEN record_resources_released(known(a), a \notin cleaned)
                    ELSE known(a)]
    BY <1>2, Zenon
<1>4. /\ running' = newest
      /\ slot' = IF kept = {} THEN NoSlot ELSE [att |-> newest, desc |-> sess[newest].desc]
      /\ ledger' = IF kept = {} THEN Free ELSE [att |-> newest, launching |-> FALSE]
      /\ recov' = kept
    BY <1>2, Zenon
<1>5. up' = TRUE /\ UNCHANGED <<sup, gate, launch, rep, replay, cancelling, cvars>>
    BY Zenon DEF AgentStart
<1>6. /\ cleaned \subseteq stale /\ stale \subseteq Attempt /\ kept \subseteq Attempt
      /\ \A b \in kept : Exists(sess[b])
    BY Zenon DEF Stale
\* A stale session's supervisor is dead, or has not published its descriptor.
<1>7. ASSUME NEW b \in stale
      PROVE  b \in Attempt /\ Exists(sess[b]) /\ sup[b] \in {"boot", "gone"}
    BY <1>1, Zenon DEF Stale, Alive, Good, Settled, OneLaunch
<1>8. ASSUME NEW b \in Attempt
      PROVE  /\ known(b) \in Session /\ known(b).desc = sess[b].desc
             /\ known(b).exit = IF b \in stale /\ sess[b].exit = "none"
                                THEN "lost" ELSE sess[b].exit
             /\ ~Exists(known(b)) => known(b).exit = "none"
  <2>1. sess[b] \in Session /\ (~Exists(sess[b]) => sess[b].exit = "none")
    BY <1>1, Zenon DEF TypeOK, StepdTypeOK, Good, Settled
  <2>2. CASE b \in stale /\ sess[b].exit = "none"
    <3>1. known(b) = [desc |-> sess[b].desc, exit |-> "lost", acked |-> FALSE,
                      released |-> sess[b].released]
      BY <1>7, <2>2, Zenon DEF ObserveExit
    <3>2. Exists(sess[b])
      BY <1>7, <2>2, Zenon
    <3> HIDE DEF known, stale
    <3>3. QED
      BY <2>1, <2>2, <3>1, <3>2 DEF Session, Exists
  <2>3. CASE ~(b \in stale /\ sess[b].exit = "none")
    BY <2>1, <2>3, Zenon
  <2>4. QED
    BY <2>2, <2>3, Zenon
<1> HIDE DEF known
<1>9. ASSUME NEW b \in Attempt
      PROVE  Fades(known(b), sess'[b]) /\ (b \notin stale => sess'[b] = known(b))
  <2>1. sess'[b] = IF b \in stale \ held
                   THEN record_resources_released(known(b), b \notin cleaned)
                   ELSE known(b)
    BY <1>3, Zenon
  <2>2. Fades(known(b), record_resources_released(known(b), b \notin cleaned))
    BY <1>8, ReleasedFades, Zenon
  <2>3. Fades(known(b), known(b))
    BY <1>8, Zenon DEF Fades
  <2>4. QED
    BY <2>1, <2>2, <2>3, Zenon
<1> HIDE DEF stale, live
<1>10. /\ work' \in [Attempt -> BOOLEAN]
       /\ \A b \in Attempt : work'[b] = (work[b] /\ b \notin cleaned)
    BY <1>1, <1>3, Zenon DEF TypeOK, StepdTypeOK
<1>11. sess' \in [Attempt -> Session] /\ cln' \in [Attempt -> ClnState]
  <2>1. \A b \in Attempt : sess'[b] \in Session
    BY <1>9, Zenon DEF Fades
  <2>2. sess' = [b \in Attempt |-> sess'[b]]
    BY <1>3, Zenon
  <2>3. \A b \in Attempt : cln[b] \in ClnState
    BY <1>1, Zenon DEF TypeOK, StepdTypeOK, ClnState
  <2>4. cln' \in [Attempt -> ClnState]
    BY <1>3, <2>3, Zenon DEF ClnState
  <2>5. QED
    BY <2>1, <2>2, <2>4, Zenon
<1> HIDE DEF kept, newest, held
<1>12. /\ running' \in 0..MaxAttempt /\ slot' \in Slot /\ ledger' \in Ledger
       /\ slot'.att # 0 => sup[slot'.att] # "none"
  <2>1. CASE kept = {}
    <3>1. newest = 0
      BY <2>1, Zenon DEF newest, MaxOf
    <3>2. QED
      BY <1>4, <2>1, <3>1, NoSlotType, MaxAttemptAssumption DEF Free, Ledger
  <2>2. CASE kept # {}
    <3>1. newest \in kept
      BY <1>6, <2>2, Zenon DEF newest
    <3>2. newest \in Attempt /\ Exists(sess[newest]) /\ sess[newest] \in Session
      BY <1>1, <1>6, <3>1, Zenon DEF TypeOK, StepdTypeOK
    <3>3. sup[newest] # "none"
      BY <1>1, <3>2, Zenon DEF OneLaunch
    <3>4. newest \in 0..MaxAttempt /\ sess[newest].desc \in {"none", "prov", "gate", "run"}
      BY <3>2 DEF Attempt, Session
    <3>5. /\ slot' = [att |-> newest, desc |-> sess[newest].desc]
          /\ ledger' = [att |-> newest, launching |-> FALSE]
      BY <1>4, <2>2, Zenon
    <3>6. slot' \in Slot /\ ledger' \in Ledger /\ slot'.att = newest
      BY <3>4, <3>5, Zenon DEF Slot, Ledger
    <3>7. QED
      BY <1>4, <3>3, <3>4, <3>6, Zenon
  <2>3. QED
    BY <2>1, <2>2, Zenon
<1>13. TypeOK'
    BY <1>1, <1>4, <1>5, <1>6, <1>10, <1>11, <1>12, Zenon
        DEF TypeOK, StepdTypeOK, cvars, Slot, Ledger, ClnState
<1>14. launch.pc = "idle" /\ launch' = launch /\ sup' = sup
    BY <1>1, <1>5, Zenon DEF OneLaunch
<1>15. LaunchQuiet
    BY <1>1, <1>5, <1>12, <1>14, DownIsIdle, Zenon DEF LaunchQuiet, cvars
<1>16. ASSUME NEW b \in Attempt
       PROVE  Calm(b) \/ (Born(b) /\ Good(b)')
  <2>1. CASE b \notin stale
    <3>1. sess'[b] = sess[b] /\ work'[b] = work[b]
      BY <1>1, <1>6, <1>9, <1>10, <2>1, Zenon DEF known, TypeOK, StepdTypeOK
    <3>2. Same(b)
      BY <1>1, <1>5, <3>1, Zenon DEF Same, cvars, Attempt
    <3>3. QED
      BY <1>1, <3>2, SameCalm, Zenon
  <2>2. reported[b] \subseteq Known(b)
    BY <1>1, ReportedKnown, Zenon
  <2>3. CASE b \in stale /\ sess[b].exit # "none"
    <3>1. Fades(sess[b], sess'[b])
      BY <1>8, <1>9, <2>3, Zenon DEF Fades
    <3>2. QED
      BY <1>1, <1>5, <1>10, <2>2, <3>1, Zenon DEF Calm, MovesOn, Good, Gone, cvars, Attempt
  <2>4. CASE b \in stale /\ sess[b].exit = "none"
    <3>1. /\ sup[b] \in {"boot", "gone"} /\ Exists(sess[b])
          /\ Gated(b) /\ Settled(b) /\ Gone(b)
      BY <1>1, <1>7, <2>4, Zenon DEF Good
    <3>2. known(b).exit = "lost" /\ known(b).desc = sess[b].desc /\ (work'[b] => work[b])
      BY <1>8, <1>10, <2>4, Zenon
    <3>3. UNCHANGED <<sup, gate, rep, launch, net, reported, drained, replay>>
      BY <1>5, Zenon DEF cvars
    <3>4. Known(b) \subseteq {"lost"}
      BY <2>4, <3>1, Zenon DEF Settled
    <3>5. Known(b)' \subseteq {"lost"}
      BY <1>9, <3>2, <3>3, <3>4, Zenon DEF Known, Fades
    <3>6. ~Startable(b)'
      BY <1>1, <3>1, <3>3 DEF Startable, Attempt
    <3>7. /\ Gated(b)' /\ Gone(b)'
      BY <3>1, <3>2, <3>3, Zenon DEF Gated, Gone
    <3>8. sess'[b].desc = "prov" => sess[b].desc = "prov"
      BY <1>9, <3>2, Zenon DEF Fades
    <3>9. ~Exists(sess'[b]) => sess'[b].exit = "none"
      BY <1>8, <1>9, Zenon DEF Fades, Exists
    <3>10. Settled(b)'
      BY <3>1, <3>3, <3>5, <3>6, <3>8, <3>9, Zenon DEF Settled
    <3>11. Born(b)
      BY <1>1, <3>1, <3>3, Zenon DEF Born
    <3>12. QED
      BY <3>7, <3>10, <3>11, Zenon DEF Good
  <2>5. QED
    BY <2>1, <2>3, <2>4, Zenon
<1>17. QED
    BY <1>13, <1>15, <1>16, CalmStep, Zenon

LEMMA RecoveryReportKeeps ==
    ASSUME AgentInv, NEW a \in Attempt, RecoveryReport(a)
    PROVE  AgentInv'
<1>1. /\ TypeOK /\ OneLaunch /\ Settled(a) /\ Gone(a) /\ reported[a] \subseteq Known(a)
      /\ sess[a] \in Session
    BY Zenon DEF AgentInv, Good, TypeOK, StepdTypeOK, Known
<1>2. /\ recov' = recov \ {a}
      /\ UNCHANGED <<up, launch, rep, replay, cancelling, cvars>>
    BY Zenon DEF RecoveryReport
<1>3. /\ sess' \in [Attempt -> Session] /\ Fades(sess[a], sess'[a])
      /\ \A b \in Attempt \ {a} : sess'[b] = sess[b]
      /\ slot' \in {slot, NoSlot} /\ running' \in 0..MaxAttempt /\ ledger' \in Ledger
      /\ work' \in [Attempt -> BOOLEAN] /\ (work'[a] => work[a])
      /\ \A b \in Attempt \ {a} : work'[b] = work[b]
      /\ cln' \in [Attempt -> ClnState]
      /\ sup' \in [Attempt -> SupState] /\ MovesOn(sup[a], sup'[a])
      /\ \A b \in Attempt \ {a} : sup'[b] = sup[b]
      /\ gate' = gate
  <2>1. CASE UNCHANGED <<svars, slot, running, ledger>>
    BY <1>1, <2>1, Zenon DEF svars, Fades, MovesOn, TypeOK, StepdTypeOK, ClnState, Ledger
  <2>2. CASE Rejected(a)
    <3>1. /\ sup' \in [Attempt -> SupState] /\ MovesOn(sup[a], sup'[a])
          /\ \A b \in Attempt \ {a} : sup'[b] = sup[b]
          /\ gate' = gate
      BY <1>1, <2>2, Zenon DEF Rejected, Alive, MovesOn, TypeOK, StepdTypeOK, SupState
    <3>2. CASE UNCHANGED <<sess, slot, running, ledger, work, cln>>
      BY <1>1, <3>1, <3>2, Zenon DEF Fades, TypeOK, StepdTypeOK, ClnState, Ledger
    <3> DEFINE p == [ok |-> TRUE, work |-> FALSE, cln |-> "none"]
               m == ReleaseTracking(Mem(a), a, slot.desc, p)
               n == [m EXCEPT !.sess = NoSession]
    <3>3. CASE Becomes(a, n, p)
      <4>1. p.work = FALSE /\ p.work \in BOOLEAN /\ p.cln \in ClnState
        BY Zenon DEF ClnState
      <4> HIDE DEF p
      <4>2. m \in Memory /\ m.slot \in {slot, NoSlot}
        BY <1>1, MemType, MemFields, ReleaseTrackingType DEF Settled
      <4> HIDE DEF m
      <4>3. NoSession \in Session /\ Fades(sess[a], NoSession)
        BY Zenon DEF NoSession, Session, Fades
      <4>4. n \in Memory /\ n.slot = m.slot /\ n.sess = NoSession
        BY <4>2, <4>3, Zenon DEF Memory
      <4> HIDE DEF n
      <4>5. /\ sess' \in [Attempt -> Session] /\ sess'[a] = n.sess
            /\ \A b \in Attempt \ {a} : sess'[b] = sess[b]
            /\ slot' = n.slot
            /\ running' \in 0..MaxAttempt /\ ledger' \in Ledger
            /\ work' \in [Attempt -> BOOLEAN] /\ work'[a] = p.work
            /\ \A b \in Attempt \ {a} : work'[b] = work[b]
            /\ cln' \in [Attempt -> ClnState]
        BY <1>1, <3>3, <4>1, <4>4, BecomesEffect
      <4>6. QED
        BY <3>1, <4>1, <4>2, <4>3, <4>4, <4>5, Zenon
    <3>4. QED
      BY <2>2, <3>2, <3>3, Zenon DEF Rejected
  <2>3. QED
    BY <2>1, <2>2, Zenon DEF RecoveryReport
<1>4. slot' \in Slot /\ slot'.att \in {0, slot.att}
    BY <1>1, <1>3, NoSlotType, Zenon DEF TypeOK, Slot
<1>5. TypeOK'
    BY <1>1, <1>2, <1>3, <1>4, AttTypes DEF TypeOK, StepdTypeOK, cvars
<1>6. LaunchQuiet
    BY <1>1, <1>2, <1>4, DownIsIdle, Zenon DEF LaunchQuiet, cvars
<1>7. \A b \in Attempt \ {a} : Same(b)
    BY <1>2, <1>3, Zenon DEF Same, cvars
<1>8. Calm(a)
    BY <1>1, <1>2, <1>3, Zenon DEF Calm, Gone, cvars
<1>9. QED
    BY <1>5, <1>6, <1>7, <1>8, StepOf, Zenon

=============================================================================
