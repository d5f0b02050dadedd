------------------------- MODULE IdentifiersProofs -------------------------
(***************************************************************************)
(* Proofs about Identifiers: for any number of replicas, clients, ids and  *)
(* entries, an id that a replica has applied is below the counter from     *)
(* which it would hand out the next one.                                   *)
(***************************************************************************)
EXTENDS Identifiers, TLAPS

SubmitEntry == [op : {"submit"}, id : Id]
StepEntry == [op : {"step"}, id : Id, step : 0..MaxStep]
StateEntry == [op : {"finish", "requeue"}, id : Id]
EvictEntry == [op : {"evict"}, ids : SUBSET Id]
LogEntry == SubmitEntry \cup StepEntry \cup StateEntry \cup EvictEntry

\* n is above every id that table t holds or that was applied to it from log l.
Below(l, t, n) ==
    /\ n \in Nat /\ n >= first_job_id
    /\ \A j \in DOMAIN t.jobs : j < n
    /\ \A i \in 1..t.applied : l[i].op = "submit" => l[i].id < n

\* A recorded step belongs to a job of the table and is below the job's mark.
Marked(t) ==
    /\ DOMAIN t.jobs \subseteq Id
    /\ \A j \in DOMAIN t.next_step_id : t.next_step_id[j] \in Nat
    /\ t.steps \subseteq Id \X (0..MaxStep)
    /\ \A j \in Id, s \in 0..MaxStep : <<j, s>> \in t.steps =>
          /\ j \in DOMAIN t.jobs
          /\ j \in DOMAIN t.next_step_id
          /\ s < t.next_step_id[j]

Table(l, t) ==
    /\ t.applied \in 0..Len(l)
    /\ Below(l, t, t.next_job_id)
    /\ Marked(t)

\* What apply_operation loaded is as good as the counter itself, and it has an
\* entry to apply.
Loading(l, t) ==
    t.loaded # Unset => Below(l, t, t.loaded) /\ t.applied < Len(l)

Shape(t) == t \in [applied : Nat, loaded : {t.loaded}, next_job_id : {t.next_job_id},
                   jobs : {t.jobs}, steps : {t.steps}, next_step_id : {t.next_step_id}]

Request ==
    [pc : {"task", "propose", "wait"}, r : Replica, left : Nat,
     entry : SubmitEntry \cup StepEntry, at : Nat]

\* Only an array job has tasks left.
RequestOK(q) ==
    q # Idle => /\ q \in Request
                /\ q.left > 0 => q.entry \in SubmitEntry
                /\ q.pc = "task" => q.left > 0

IdsInv ==
    /\ log \in Seq(LogEntry)
    /\ leader \in Replica
    /\ DOMAIN rep = Replica
    /\ \A r \in Replica : Shape(rep[r]) /\ Table(log, rep[r]) /\ Loading(log, rep[r])
    /\ DOMAIN snap = Replica
    /\ \A r \in Replica : Table(log, snap[r])
    /\ DOMAIN req = Client
    /\ \A c \in Client : RequestOK(req[c])

LEMMA MaxIs ==
    ASSUME NEW S \in SUBSET Int, NEW x \in S, \A y \in S : x >= y
    PROVE  Max(S) = x
<1> DEFINE m == Max(S)
<1>1. m \in S /\ \A y \in S : m >= y
  BY Zenon DEF Max
<1> HIDE DEF m
<1>2. m >= x /\ x >= m /\ m \in Int /\ x \in Int
  BY <1>1, Zenon
<1>3. m = x
  BY <1>2
<1> QED BY <1>3, Zenon DEF m

LEMMA MaxOfTwo ==
    ASSUME NEW a \in Nat, NEW b \in Nat
    PROVE  /\ Max({a} \cup {b}) \in Nat
           /\ Max({a} \cup {b}) >= a /\ Max({a} \cup {b}) >= b
           /\ Max({a} \cup {b}) \in {a, b}
<1>1. CASE a >= b
  <2>1. Max({a} \cup {b}) = a
    BY <1>1, MaxIs
  <2> QED BY <1>1, <2>1
<1>2. CASE b >= a
  <2>1. Max({a} \cup {b}) = b
    BY <1>2, MaxIs
  <2> QED BY <1>2, <2>1
<1> QED BY <1>1, <1>2

\* The log only grows, and what holds of a table goes on to hold.
LEMMA LogGrows ==
    ASSUME NEW l \in Seq(LogEntry), NEW e \in LogEntry, NEW t, Table(l, t)
    PROVE  /\ Append(l, e) \in Seq(LogEntry)
           /\ Table(Append(l, e), t)
           /\ Loading(l, t) => Loading(Append(l, e), t)
<1> DEFINE m == Append(l, e)
<1>1. m \in Seq(LogEntry) /\ Len(m) = Len(l) + 1 /\ \A i \in 1..Len(l) : m[i] = l[i]
  OBVIOUS
<1>2. t.applied \in 0..Len(l)
  BY Zenon DEF Table
<1>3. \A i \in 1..t.applied : m[i] = l[i]
  BY <1>1, <1>2
<1> HIDE DEF m
<1>4. ASSUME NEW n, Below(l, t, n) PROVE Below(m, t, n)
  BY <1>3, <1>4, Zenon DEF Below
<1>5. Table(m, t)
  BY <1>1, <1>2, <1>4 DEF Table
<1>6. Loading(l, t) => Loading(m, t)
  BY <1>1, <1>2, <1>4 DEF Loading
<1> QED BY <1>1, <1>5, <1>6, Zenon DEF m

\* What an entry does to a table, the counter apart.
Keeps(t, u) ==
    /\ Shape(u)
    /\ u.applied = t.applied /\ u.next_job_id = t.next_job_id /\ u.loaded = t.loaded
    /\ Marked(u)

LEMMA SubmitKeeps ==
    ASSUME NEW t, Shape(t), Marked(t), NEW e \in SubmitEntry
    PROVE  /\ Keeps(t, JobSubmit(t, e))
           /\ DOMAIN JobSubmit(t, e).jobs = DOMAIN t.jobs \cup {e.id}
<1> DEFINE u == JobSubmit(t, e)
<1>1. /\ u.applied = t.applied /\ u.next_job_id = t.next_job_id /\ u.loaded = t.loaded
      /\ u.steps = t.steps /\ u.next_step_id = t.next_step_id
      /\ u.jobs = Bind(t.jobs, e.id, "live")
      /\ Shape(u)
  BY Zenon DEF Shape, JobSubmit
<1>2. DOMAIN Bind(t.jobs, e.id, "live") = DOMAIN t.jobs \cup {e.id}
  BY Zenon DEF Bind
<1>3. e.id \in Id
  BY Zenon DEF SubmitEntry
<1> HIDE DEF u
<1>4. Marked(u)
  BY <1>1, <1>2, <1>3, Zenon DEF Marked
<1> QED BY <1>1, <1>2, <1>4, Zenon DEF u, Keeps

LEMMA StateKeeps ==
    ASSUME NEW t, Shape(t), Marked(t), NEW j, NEW state
    PROVE  /\ Keeps(t, SetState(t, j, state))
           /\ DOMAIN SetState(t, j, state).jobs = DOMAIN t.jobs
<1> DEFINE u == [t EXCEPT !.jobs = [t.jobs EXCEPT ![j] = state]]
<1>1. /\ u.applied = t.applied /\ u.next_job_id = t.next_job_id /\ u.loaded = t.loaded
      /\ u.steps = t.steps /\ u.next_step_id = t.next_step_id
      /\ DOMAIN u.jobs = DOMAIN t.jobs
      /\ Shape(u)
  BY Zenon DEF Shape
<1>2. SetState(t, j, state) \in {t, u}
  BY Zenon DEF SetState
<1> HIDE DEF u
<1>3. Marked(u)
  BY <1>1, Zenon DEF Marked
<1> QED BY <1>1, <1>2, <1>3, Zenon DEF Keeps

LEMMA EvictKeeps ==
    ASSUME NEW t, Shape(t), Marked(t), NEW e \in EvictEntry
    PROVE  /\ Keeps(t, EvictTerminalJobs(t, e))
           /\ DOMAIN EvictTerminalJobs(t, e).jobs \subseteq DOMAIN t.jobs
<1> DEFINE u == EvictTerminalJobs(t, e)
           S == e.ids \cap Finished(t)
<1>1. /\ u.applied = t.applied /\ u.next_job_id = t.next_job_id /\ u.loaded = t.loaded
      /\ u.steps = {s \in t.steps : s[1] \notin S}
      /\ u.next_step_id = Without(t.next_step_id, S)
      /\ u.jobs = Without(t.jobs, S)
      /\ Shape(u)
  BY Zenon DEF Shape, EvictTerminalJobs
<1>2. ASSUME NEW f
      PROVE  /\ DOMAIN Without(f, S) = DOMAIN f \ S
             /\ \A x \in DOMAIN f \ S : Without(f, S)[x] = f[x]
  BY Zenon DEF Without, Restrict
<1> HIDE DEF u, S
<1>3. /\ DOMAIN u.jobs = DOMAIN t.jobs \ S
      /\ DOMAIN u.next_step_id = DOMAIN t.next_step_id \ S
      /\ \A x \in DOMAIN t.next_step_id \ S : u.next_step_id[x] = t.next_step_id[x]
  <2>1. /\ DOMAIN Without(t.jobs, S) = DOMAIN t.jobs \ S
        /\ DOMAIN Without(t.next_step_id, S) = DOMAIN t.next_step_id \ S
        /\ \A x \in DOMAIN t.next_step_id \ S :
              Without(t.next_step_id, S)[x] = t.next_step_id[x]
    BY <1>2, Zenon
  <2> QED BY <1>1, <2>1, Zenon
<1>4. Marked(u)
  BY <1>1, <1>3, Zenon DEF Marked
<1> QED BY <1>1, <1>3, <1>4, Zenon DEF u, Keeps

LEMMA StepKeeps ==
    ASSUME NEW t, Shape(t), Marked(t), NEW e \in StepEntry
    PROVE  /\ Keeps(t, JobStepCreate(t, e))
           /\ DOMAIN JobStepCreate(t, e).jobs = DOMAIN t.jobs
<1>0. e.id \in Id /\ e.step \in 0..MaxStep /\ MaxStep \in Nat
  BY IdsAssumption, Zenon DEF StepEntry
<1> DEFINE u == [t EXCEPT !.steps = @ \cup {<<e.id, e.step>>}, !.next_step_id = Floored(t, e)]
<1>1. /\ u.applied = t.applied /\ u.next_job_id = t.next_job_id /\ u.loaded = t.loaded
      /\ u.steps = t.steps \cup {<<e.id, e.step>>}
      /\ u.next_step_id = Floored(t, e)
      /\ u.jobs = t.jobs
      /\ Shape(u)
  BY Zenon DEF Shape
<1> DEFINE marks == {t.next_step_id[j] : j \in DOMAIN t.next_step_id \cap {e.id}}
           top == Max({e.step + 1} \cup marks)
<1>2. /\ DOMAIN Floored(t, e) = DOMAIN t.next_step_id \cup {e.id}
      /\ Floored(t, e)[e.id] = top
      /\ \A x \in DOMAIN t.next_step_id \ {e.id} : Floored(t, e)[x] = t.next_step_id[x]
  BY Zenon DEF Floored, Bind
<1>3. /\ top \in Nat /\ top > e.step
      /\ e.id \in DOMAIN t.next_step_id => top >= t.next_step_id[e.id]
  <2>1. CASE e.id \notin DOMAIN t.next_step_id
    <3>1. marks = {}
      BY <2>1, Zenon
    <3>2. top = e.step + 1
      BY <1>0, <3>1, MaxIs
    <3> QED BY <1>0, <2>1, <3>2
  <2>2. CASE e.id \in DOMAIN t.next_step_id
    <3>1. marks = {t.next_step_id[e.id]} /\ t.next_step_id[e.id] \in Nat
      BY <2>2, Zenon DEF Marked
    <3>2. top = Max({e.step + 1} \cup {t.next_step_id[e.id]})
      BY <3>1, Zenon
    <3> HIDE DEF top, marks
    <3>3. e.step + 1 \in Nat
      BY <1>0
    <3>4. top \in Nat /\ top >= e.step + 1 /\ top >= t.next_step_id[e.id]
      BY <3>1, <3>2, <3>3, MaxOfTwo, Zenon
    <3> QED BY <1>0, <3>4
  <2> QED BY <2>1, <2>2, Zenon
<1> HIDE DEF u, top
<1>4. ASSUME e.id \in DOMAIN t.jobs PROVE Marked(u)
  <2>1. u.steps \subseteq Id \X (0..MaxStep)
    BY <1>0, <1>1 DEF Marked
  <2>2. \A j \in DOMAIN u.next_step_id : u.next_step_id[j] \in Nat
    BY <1>1, <1>2, <1>3, Zenon DEF Marked
  <2>3. ASSUME NEW j \in Id, NEW s \in 0..MaxStep, <<j, s>> \in u.steps
        PROVE  /\ j \in DOMAIN u.jobs
               /\ j \in DOMAIN u.next_step_id
               /\ s < u.next_step_id[j]
    <3>1. CASE <<j, s>> \in t.steps
      <4>1. j \in DOMAIN t.jobs /\ j \in DOMAIN t.next_step_id /\ s < t.next_step_id[j]
            /\ t.next_step_id[j] \in Nat
        BY <3>1, Zenon DEF Marked
      <4> QED BY <4>1, <1>0, <1>1, <1>2, <1>3
    <3>2. CASE j = e.id /\ s = e.step
      BY <3>2, <1>4, <1>1, <1>2, <1>3, <1>0, Zenon
    <3> QED BY <2>3, <3>1, <3>2, <1>1, Zenon
  <2> QED BY <1>1, <2>1, <2>2, <2>3, Zenon DEF Marked
<1>5. JobStepCreate(t, e) = IF e.id \in DOMAIN t.jobs /\ t.jobs[e.id] = "live" THEN u ELSE t
  BY Zenon DEF JobStepCreate, u
<1> QED BY <1>1, <1>4, <1>5, Zenon DEF Keeps

LEMMA EffectKeeps ==
    ASSUME NEW t, Shape(t), Marked(t), NEW e \in LogEntry
    PROVE  /\ Keeps(t, Effect(t, e))
           /\ \A j \in DOMAIN Effect(t, e).jobs :
                 j \in DOMAIN t.jobs \/ (e.op = "submit" /\ j = e.id)
<1>1. CASE e \in SubmitEntry
  <2>1. e.op = "submit"
    BY <1>1, Zenon DEF SubmitEntry
  <2>2. Effect(t, e) = JobSubmit(t, e)
    BY <2>1, Zenon DEF Effect
  <2> QED BY <1>1, <2>1, <2>2, SubmitKeeps
<1>2. CASE e \in StepEntry
  <2>1. e.op = "step"
    BY <1>2, Zenon DEF StepEntry
  <2>2. Effect(t, e) = JobStepCreate(t, e)
    BY <2>1, Zenon DEF Effect
  <2> QED BY <1>2, <2>2, StepKeeps, Zenon
<1>3. CASE e \in StateEntry
  <2>1. e.op = "finish" \/ e.op = "requeue"
    BY <1>3, Zenon DEF StateEntry
  <2>2. Effect(t, e) = SetState(t, e.id, "done") \/ Effect(t, e) = SetState(t, e.id, "live")
    BY <2>1, Zenon DEF Effect
  <2> QED BY <2>2, StateKeeps
<1>4. CASE e \in EvictEntry
  <2>1. e.op = "evict"
    BY <1>4, Zenon DEF EvictEntry
  <2>2. Effect(t, e) = EvictTerminalJobs(t, e)
    BY <2>1, Zenon DEF Effect
  <2> QED BY <1>4, <2>2, EvictKeeps, Zenon
<1> QED BY <1>1, <1>2, <1>3, <1>4, Zenon DEF LogEntry

LEMMA StoreFields ==
    ASSUME NEW v, Shape(v), NEW n
    PROVE  LET u == [v EXCEPT !.next_job_id = n, !.applied = @ + 1, !.loaded = Unset] IN
           /\ u.next_job_id = n /\ u.applied = v.applied + 1 /\ u.loaded = Unset
           /\ u.jobs = v.jobs /\ u.steps = v.steps /\ u.next_step_id = v.next_step_id
           /\ Shape(u)
<1> DEFINE a == [v EXCEPT !.next_job_id = n]
           b == [a EXCEPT !.applied = a.applied + 1]
           u == [b EXCEPT !.loaded = Unset]
<1>1. /\ a.next_job_id = n /\ a.applied = v.applied /\ a.loaded = v.loaded
      /\ a.jobs = v.jobs /\ a.steps = v.steps /\ a.next_step_id = v.next_step_id
      /\ Shape(a)
  BY Zenon DEF Shape
<1> HIDE DEF a
<1>2. /\ b.next_job_id = n /\ b.applied = v.applied + 1 /\ b.loaded = v.loaded
      /\ b.jobs = v.jobs /\ b.steps = v.steps /\ b.next_step_id = v.next_step_id
      /\ Shape(b)
  BY <1>1 DEF Shape
<1> HIDE DEF b
<1>3. /\ u.next_job_id = n /\ u.applied = v.applied + 1 /\ u.loaded = Unset
      /\ u.jobs = v.jobs /\ u.steps = v.steps /\ u.next_step_id = v.next_step_id
      /\ Shape(u)
  BY <1>2, Zenon DEF Shape
<1>4. u = [v EXCEPT !.next_job_id = n, !.applied = @ + 1, !.loaded = Unset]
  BY <1>1, Zenon DEF a, b
<1> QED BY <1>3, <1>4, Zenon

\* The end of an apply: the counter is stored from what was loaded before it.
LEMMA StoreKeeps ==
    ASSUME NEW l \in Seq(LogEntry), NEW t, Shape(t), Table(l, t), Loading(l, t),
           t.loaded # Unset
    PROVE  LET e == l[t.applied + 1]
               u == [Effect(t, e) EXCEPT !.next_job_id = StoredNext(t, e),
                                         !.applied = @ + 1, !.loaded = Unset]
           IN  Shape(u) /\ Table(l, u) /\ Loading(l, u)
<1> DEFINE e == l[t.applied + 1]
           v == Effect(t, e)
           n == StoredNext(t, e)
           u == [v EXCEPT !.next_job_id = n, !.applied = @ + 1, !.loaded = Unset]
<1>0. /\ t.applied \in Nat /\ t.applied < Len(l) /\ Len(l) \in Nat
      /\ Below(l, t, t.loaded) /\ Marked(t)
  BY DEF Table, Loading
<1>1. e \in LogEntry
  BY <1>0
<1>2. /\ Keeps(t, v)
      /\ \A j \in DOMAIN v.jobs : j \in DOMAIN t.jobs \/ (e.op = "submit" /\ j = e.id)
  BY <1>0, <1>1, EffectKeeps, Zenon
<1>3. e.op = "submit" => e.id \in Nat /\ e.id + 1 \in Nat
  BY <1>1, IdsAssumption DEF LogEntry, SubmitEntry, StepEntry, StateEntry, EvictEntry, Id
<1>4. t.loaded \in Nat /\ t.loaded >= first_job_id /\ first_job_id \in Nat
  BY <1>0, IdsAssumption, Zenon DEF Below
<1>5. n \in Nat /\ n >= t.loaded /\ (e.op = "submit" => n > e.id)
  <2>1. CASE e.op = "submit"
    <3>1. n = Max({t.loaded} \cup {e.id + 1})
      <4>1. {t.loaded, e.id + 1} = {t.loaded} \cup {e.id + 1}
        BY Zenon
      <4> QED BY <2>1, <4>1, Zenon DEF StoredNext
    <3> HIDE DEF n, e
    <3>2. n \in Nat /\ n >= t.loaded /\ n >= e.id + 1
      BY <1>3, <1>4, <2>1, <3>1, MaxOfTwo, Zenon
    <3> QED BY <1>3, <2>1, <3>2
  <2>2. CASE e.op # "submit"
    BY <1>4, <2>2 DEF StoredNext
  <2> QED BY <2>1, <2>2, Zenon
<1> HIDE DEF n, v
<1>6. /\ u.next_job_id = n /\ u.applied = t.applied + 1 /\ u.loaded = Unset
      /\ u.jobs = v.jobs /\ u.steps = v.steps /\ u.next_step_id = v.next_step_id
      /\ Shape(u)
  <2>1. Shape(v) /\ v.applied = t.applied
    BY <1>2, Zenon DEF Keeps
  <2>2. /\ u.next_job_id = n /\ u.applied = v.applied + 1 /\ u.loaded = Unset
        /\ u.jobs = v.jobs /\ u.steps = v.steps /\ u.next_step_id = v.next_step_id
        /\ Shape(u)
    BY <2>1, StoreFields, Zenon
  <2> HIDE DEF u
  <2> QED BY <2>1, <2>2, Zenon
<1> HIDE DEF u
<1>7. \A j \in DOMAIN u.jobs : j < n
  <2> SUFFICES ASSUME NEW j \in DOMAIN v.jobs PROVE j < n
    BY <1>6, Zenon
  <2>1. CASE j \in DOMAIN t.jobs
    <3>1. j < t.loaded /\ j \in Id
      BY <2>1, <1>0, Zenon DEF Below, Marked
    <3>2. j \in Nat
      BY <3>1, IdsAssumption DEF Id
    <3> QED BY <3>1, <3>2, <1>4, <1>5
  <2> QED BY <2>1, <1>2, <1>3, <1>5, Zenon
<1>8. \A i \in 1..u.applied : l[i].op = "submit" => l[i].id < n
  <2> SUFFICES ASSUME NEW i \in 1..u.applied, l[i].op = "submit" PROVE l[i].id < n
    BY Zenon
  <2>1. CASE i = t.applied + 1
    BY <2>1, <1>3, <1>5, Zenon
  <2>2. CASE i \in 1..t.applied
    <3>1. l[i].id < t.loaded
      BY <2>2, <1>0, Zenon DEF Below
    <3>2. l[i] \in LogEntry
      BY <2>2, <1>0
    <3>3. l[i].id \in Nat
      BY <3>2, IdsAssumption DEF LogEntry, SubmitEntry, StepEntry, StateEntry, EvictEntry, Id
    <3> QED BY <3>1, <3>3, <1>4, <1>5
  <2> QED BY <1>0, <1>6, <2>1, <2>2
<1>9. Marked(u)
  BY <1>2, <1>6, Zenon DEF Keeps, Marked
<1>10. Table(l, u) /\ Loading(l, u)
  BY <1>0, <1>4, <1>5, <1>6, <1>7, <1>8, <1>9 DEF Table, Loading, Below
<1> QED BY <1>6, <1>10, Zenon DEF u, v, n

\* A restored table: the counter and the marks are at least what was saved.
LEMMA RestoreKeeps ==
    ASSUME NEW l \in Seq(LogEntry), NEW s, Table(l, s)
    PROVE  LET t == restore_from_snapshot(s) IN
           Shape(t) /\ Table(l, t) /\ Loading(l, t)
<1> DEFINE t == restore_from_snapshot(s)
<1>1. /\ t.applied = s.applied /\ t.loaded = Unset /\ t.jobs = s.jobs /\ t.steps = s.steps
      /\ t.next_job_id = RestoredNext(s) /\ t.next_step_id = RestoredMarks(s)
      /\ t.applied \in Nat => Shape(t)
  BY Zenon DEF restore_from_snapshot, Shape
<1>2. /\ s.applied \in 0..Len(l) /\ s.applied \in Nat
      /\ Below(l, s, s.next_job_id) /\ Marked(s)
  BY DEF Table
<1>3. RestoredNext(s) = s.next_job_id
  <2> DEFINE S == {first_job_id, s.next_job_id} \cup {j + 1 : j \in DOMAIN s.jobs}
  <2>1. /\ first_job_id \in Nat /\ s.next_job_id \in Nat /\ s.next_job_id >= first_job_id
        /\ \A j \in DOMAIN s.jobs : j \in Nat /\ j < s.next_job_id
    BY <1>2, IdsAssumption DEF Below, Marked, Id
  <2>2. S \in SUBSET Int /\ s.next_job_id \in S /\ \A y \in S : s.next_job_id >= y
    BY <2>1
  <2>3. RestoredNext(s) = Max(S)
    BY Zenon DEF RestoredNext
  <2> HIDE DEF S
  <2> QED BY <2>2, <2>3, MaxIs, Zenon
<1>4. /\ \A j \in DOMAIN RestoredMarks(s) : RestoredMarks(s)[j] \in Nat
      /\ \A j \in Id, m \in 0..MaxStep : <<j, m>> \in s.steps =>
            j \in DOMAIN RestoredMarks(s) /\ m < RestoredMarks(s)[j]
  <2> DEFINE stepped == {j \in Id : StepsOf(s, j) # {}}
             marked == DOMAIN s.next_step_id \cap DOMAIN s.jobs
             F(j) == {m + 1 : m \in StepsOf(s, j)}
                     \cup IF j \in marked THEN {s.next_step_id[j]} ELSE {}
  <2>1. RestoredMarks(s) = [j \in stepped \cup marked |-> Max(F(j))]
    BY Zenon DEF RestoredMarks
  <2>2. stepped \subseteq marked
    BY <1>2, Zenon DEF StepsOf, Marked
  <2>3. ASSUME NEW j \in marked
        PROVE  Max(F(j)) = s.next_step_id[j] /\ s.next_step_id[j] \in Nat
    <3>1. s.next_step_id[j] \in Nat /\ j \in Id
      BY <1>2, Zenon DEF Marked
    <3>2. \A m \in StepsOf(s, j) : m \in Nat /\ m < s.next_step_id[j]
      BY <1>2, <3>1, IdsAssumption DEF StepsOf, Marked
    <3>3. F(j) = {m + 1 : m \in StepsOf(s, j)} \cup {s.next_step_id[j]}
      BY Zenon
    <3>4. /\ F(j) \in SUBSET Int /\ s.next_step_id[j] \in F(j)
          /\ \A y \in F(j) : s.next_step_id[j] >= y
      BY <3>1, <3>2, <3>3
    <3> HIDE DEF F
    <3> QED BY <3>1, <3>4, MaxIs, Zenon
  <2>4. ASSUME NEW j \in Id, NEW m \in 0..MaxStep, <<j, m>> \in s.steps
        PROVE  j \in marked /\ m < s.next_step_id[j]
    BY <2>4, <1>2, Zenon DEF Marked
  <2> HIDE DEF F, stepped, marked
  <2>5. /\ DOMAIN RestoredMarks(s) = marked
        /\ \A j \in marked : RestoredMarks(s)[j] = s.next_step_id[j]
    BY <2>1, <2>2, <2>3, Zenon
  <2> QED BY <2>3, <2>4, <2>5, Zenon
<1> HIDE DEF t
<1>5. Marked(t)
  <2>1. \A j \in Id, m \in 0..MaxStep : <<j, m>> \in s.steps => j \in DOMAIN s.jobs
    BY <1>2, Zenon DEF Marked
  <2>2. DOMAIN s.jobs \subseteq Id /\ s.steps \subseteq Id \X (0..MaxStep)
    BY <1>2, Zenon DEF Marked
  <2> QED BY <1>1, <1>4, <2>1, <2>2, Zenon DEF Marked
<1>6. Below(l, t, t.next_job_id)
  BY <1>1, <1>2, <1>3, Zenon DEF Below
<1>7. Table(l, t) /\ Loading(l, t) /\ Shape(t)
  BY <1>1, <1>2, <1>5, <1>6, Zenon DEF Table, Loading
<1> QED BY <1>7, Zenon DEF t

\* The next value of what IdsInv says of a table is what it says of the table's
\* next value.
LEMMA InvPrimes ==
    ASSUME NEW q \in Replica
    PROVE  /\ Shape(rep[q])' <=> Shape(rep'[q])
           /\ Table(log, rep[q])' <=> Table(log', rep'[q])
           /\ Loading(log, rep[q])' <=> Loading(log', rep'[q])
           /\ Table(log, snap[q])' <=> Table(log', snap'[q])
<1>1. Shape(rep[q])' <=> Shape(rep'[q])
  BY Zenon DEF Shape
<1>2. Table(log, rep[q])' <=> Table(log', rep'[q])
  BY Zenon DEF Table, Below, Marked, Id
<1>3. Loading(log, rep[q])' <=> Loading(log', rep'[q])
  BY Zenon DEF Loading, Below, Unset, Id
<1>4. Table(log, snap[q])' <=> Table(log', snap'[q])
  BY Zenon DEF Table, Below, Marked, Id
<1> QED BY <1>1, <1>2, <1>3, <1>4, Zenon

\* A step that changes one replica's table only.
LEMMA OneTable ==
    ASSUME IdsInv, NEW r \in Replica, NEW u,
           rep' = [rep EXCEPT ![r] = u], UNCHANGED <<log, leader, snap>>,
           Shape(u), Table(log, u), Loading(log, u),
           DOMAIN req' = Client, \A c \in Client : RequestOK(req'[c])
    PROVE  IdsInv'
<1>1. DOMAIN rep' = Replica /\ \A q \in Replica : rep'[q] = IF q = r THEN u ELSE rep[q]
  BY Zenon DEF IdsInv
<1>2. \A q \in Replica : Shape(rep'[q]) /\ Table(log, rep'[q]) /\ Loading(log, rep'[q])
  BY <1>1, Zenon DEF IdsInv
<1>3. \A q \in Replica : Shape(rep[q])' /\ Table(log, rep[q])' /\ Loading(log, rep[q])'
  BY <1>2, InvPrimes, Zenon
<1>4. \A q \in Replica : Table(log, snap[q])'
  <2>1. \A q \in Replica : Table(log', snap'[q])
    BY Zenon DEF IdsInv
  <2> QED BY <2>1, InvPrimes, Zenon
<1> QED BY <1>1, <1>3, <1>4, Zenon DEF IdsInv, RequestOK, Request, SubmitEntry, StepEntry, Idle, Id,
          LogEntry, StateEntry, EvictEntry

\* A step that appends an entry, or none, and changes no table.
LEMMA Appended ==
    ASSUME IdsInv, UNCHANGED <<leader, rep, snap>>,
           UNCHANGED log \/ \E e \in LogEntry : log' = Append(log, e),
           DOMAIN req' = Client, \A c \in Client : RequestOK(req'[c])
    PROVE  IdsInv'
<1>1. log' \in Seq(LogEntry)
  BY DEF IdsInv
<1>2. \A r \in Replica : Table(log', rep[r]) /\ Loading(log', rep[r]) /\ Table(log', snap[r])
  <2>1. CASE UNCHANGED log
    BY <2>1, Zenon DEF IdsInv
  <2>2. ASSUME NEW e \in LogEntry, log' = Append(log, e)
        PROVE  \A r \in Replica :
                  Table(log', rep[r]) /\ Loading(log', rep[r]) /\ Table(log', snap[r])
    <3>1. log \in Seq(LogEntry)
      BY Zenon DEF IdsInv
    <3> QED BY <2>2, <3>1, LogGrows, Zenon DEF IdsInv
  <2> QED BY <2>1, <2>2, Zenon
<1>3. ASSUME NEW r \in Replica
      PROVE  Shape(rep[r])' /\ Table(log, rep[r])' /\ Loading(log, rep[r])' /\ Table(log, snap[r])'
  <2>1. rep'[r] = rep[r] /\ snap'[r] = snap[r] /\ Shape(rep[r])
    BY Zenon DEF IdsInv
  <2>2. Table(log', rep'[r]) /\ Loading(log', rep'[r]) /\ Table(log', snap'[r]) /\ Shape(rep'[r])
    BY <1>2, <2>1, Zenon
  <2> QED BY <2>2, InvPrimes, Zenon
<1> QED BY <1>1, <1>3, Zenon DEF IdsInv, RequestOK, Request, SubmitEntry, StepEntry, Idle, Id,
          LogEntry, StateEntry, EvictEntry

\* The counter moves up by one.
LEMMA CounterUp ==
    ASSUME NEW l \in Seq(LogEntry), NEW t, Shape(t), Table(l, t), Loading(l, t)
    PROVE  LET u == [t EXCEPT !.next_job_id = @ + 1] IN
           Shape(u) /\ Table(l, u) /\ Loading(l, u)
<1> DEFINE u == [t EXCEPT !.next_job_id = @ + 1]
<1>1. /\ u.applied = t.applied /\ u.next_job_id = t.next_job_id + 1 /\ u.loaded = t.loaded
      /\ u.jobs = t.jobs /\ u.steps = t.steps /\ u.next_step_id = t.next_step_id
      /\ Shape(u)
  BY Zenon DEF Shape
<1> HIDE DEF u
<1>2. Marked(u) /\ u.applied \in 0..Len(l)
  BY <1>1, Zenon DEF Marked, Table
<1>3. Loading(l, u)
  BY <1>1, Zenon DEF Loading, Below
<1>4. /\ t.next_job_id \in Nat /\ t.next_job_id >= first_job_id /\ first_job_id \in Nat
      /\ t.applied \in 0..Len(l)
      /\ \A j \in DOMAIN t.jobs : j \in Nat /\ j < t.next_job_id
  BY IdsAssumption DEF Table, Below, Marked, Id
<1>5. \A i \in 1..t.applied : l[i].op = "submit" => l[i].id \in Nat /\ l[i].id < t.next_job_id
  <2>1. \A i \in 1..t.applied : l[i] \in LogEntry
    BY <1>4
  <2>2. \A i \in 1..t.applied : l[i].op = "submit" => l[i].id \in Nat
    BY <2>1, IdsAssumption DEF LogEntry, SubmitEntry, StepEntry, StateEntry, EvictEntry, Id
  <2> QED BY <2>2, Zenon DEF Table, Below
<1>6. Below(l, u, u.next_job_id)
  BY <1>1, <1>4, <1>5 DEF Below
<1>7. Shape(u) /\ Table(l, u) /\ Loading(l, u)
  BY <1>1, <1>2, <1>3, <1>6, Zenon DEF Table
<1> QED BY <1>7, Zenon DEF u

LEMMA FetchAdd ==
    ASSUME IdsInv, NEW r \in Replica, fetch_add(r), UNCHANGED <<log, leader, snap>>,
           DOMAIN req' = Client, \A c \in Client : RequestOK(req'[c])
    PROVE  IdsInv'
<1> DEFINE u == [rep[r] EXCEPT !.next_job_id = @ + 1]
<1>1. Shape(rep[r]) /\ Table(log, rep[r]) /\ Loading(log, rep[r]) /\ log \in Seq(LogEntry)
  BY Zenon DEF IdsInv
<1>2. Shape(u) /\ Table(log, u) /\ Loading(log, u)
  BY <1>1, CounterUp, Zenon
<1>3. rep' = [rep EXCEPT ![r] = u]
  BY Zenon DEF fetch_add
<1> HIDE DEF u
<1> QED BY <1>2, <1>3, OneTable, Zenon

\* The id that fetch_add hands out.
LEMMA ReservedId ==
    ASSUME IdsInv, NEW r \in Replica, fetch_add(r)
    PROVE  Reserved(r) \in Id
<1>1. rep[r].next_job_id \in Nat /\ rep[r].next_job_id >= first_job_id
  BY Zenon DEF IdsInv, Table, Below
<1> QED BY <1>1, IdsAssumption DEF fetch_add, Reserved, Id

\* A request that is replaced.
LEMMA OneRequest ==
    ASSUME IdsInv, NEW c \in Client, NEW q, RequestOK(q), req' = [req EXCEPT ![c] = q]
    PROVE  DOMAIN req' = Client /\ \A d \in Client : RequestOK(req'[d])
BY Zenon DEF IdsInv

LEMMA SubmitStep ==
    ASSUME IdsInv, NEW c \in Client, NEW n \in 0..MaxTasks, submit_job(c, n)
    PROVE  IdsInv'
<1> DEFINE e == Submission(leader)
           q == [pc |-> IF n = 0 THEN "propose" ELSE "task", r |-> leader, left |-> n,
                 entry |-> e, at |-> 0]
<1>0. leader \in Replica /\ fetch_add(leader) /\ UNCHANGED <<log, leader, snap>>
  BY Zenon DEF IdsInv, submit_job
<1>1. e \in SubmitEntry
  BY <1>0, ReservedId, Zenon DEF SubmitEntry, Submission
<1>2. n \in Nat
  BY IdsAssumption
<1>3. req' = [req EXCEPT ![c] = q]
  BY Zenon DEF submit_job
<1> HIDE DEF e
<1>4. RequestOK(q)
  BY <1>0, <1>1, <1>2 DEF RequestOK, Request
<1> HIDE DEF q
<1> QED BY <1>0, <1>3, <1>4, OneRequest, FetchAdd, Zenon

LEMMA TaskFields ==
    ASSUME NEW x \in Request, NEW e \in SubmitEntry, x.left > 0
    PROVE  RequestOK([x EXCEPT !.pc = "propose", !.left = @ - 1, !.entry = e])
<1> DEFINE a == [x EXCEPT !.pc = "propose"]
           b == [a EXCEPT !.left = a.left - 1]
           q == [b EXCEPT !.entry = e]
<1>1. a \in Request /\ a.left = x.left /\ a.pc = "propose"
  BY Zenon DEF Request
<1>2. q = [x EXCEPT !.pc = "propose", !.left = @ - 1, !.entry = e]
  BY <1>1, Zenon DEF a
<1> HIDE DEF a
<1>3. b \in Request /\ b.pc = "propose"
  BY <1>1 DEF Request
<1> HIDE DEF b
<1>4. q \in Request /\ q.pc = "propose" /\ q.entry = e
  BY <1>3, Zenon DEF Request
<1> HIDE DEF q
<1>5. RequestOK(q)
  BY <1>4, Zenon DEF RequestOK
<1> QED BY <1>2, <1>5, Zenon

LEMMA TaskStep ==
    ASSUME IdsInv, NEW c \in Client, NextTask(c)
    PROVE  IdsInv'
<1>1. /\ req[c] \in Request /\ req[c].left > 0 /\ req[c].entry \in SubmitEntry
      /\ req[c].r \in Replica /\ req[c].left \in Nat
  <2>1. req[c] # Idle
    BY DEF NextTask, Idle
  <2> QED BY <2>1, Zenon DEF IdsInv, RequestOK, Request, NextTask
<1>2. /\ fetch_add(req[c].r) /\ UNCHANGED <<log, leader, snap>>
      /\ Reserved(req[c].r) \in Id
  BY <1>1, ReservedId, Zenon DEF NextTask
<1> DEFINE e == Submission(req[c].r)
           q == [req[c] EXCEPT !.pc = "propose", !.left = @ - 1, !.entry = e]
<1>3. req' = [req EXCEPT ![c] = q]
  BY Zenon DEF NextTask
<1>4. e \in SubmitEntry
  BY <1>2, Zenon DEF SubmitEntry, Submission
<1> HIDE DEF e
<1>5. RequestOK(q)
  BY <1>1, <1>4, TaskFields, Zenon
<1> HIDE DEF q
<1> QED BY <1>1, <1>2, <1>3, <1>5, OneRequest, FetchAdd, Zenon

\* The id that allocate_step_id hands out, and the mark it leaves.
LEMMA NextStepIs ==
    ASSUME NEW t, Marked(t), NEW j \in Id
    PROVE  /\ NextStep(t, j) \in Nat
           /\ j \in DOMAIN t.next_step_id => NextStep(t, j) = t.next_step_id[j]
<1>1. CASE j \in DOMAIN t.next_step_id
  BY <1>1, Zenon DEF NextStep, Marked
<1>2. CASE j \notin DOMAIN t.next_step_id
  <2>1. StepsOf(t, j) = {}
    BY <1>2, Zenon DEF StepsOf, Marked
  <2>2. {-1} \cup StepsOf(t, j) = {-1}
    BY <2>1, Zenon
  <2>3. Max({-1}) = -1
    BY MaxIs
  <2>4. NextStep(t, j) = Max({-1}) + 1
    BY <1>2, <2>2, Zenon DEF NextStep
  <2> QED BY <1>2, <2>3, <2>4
<1> QED BY <1>1, <1>2, Zenon

LEMMA MarkUp ==
    ASSUME NEW l, NEW t, Shape(t), Table(l, t), Loading(l, t), NEW j \in Id
    PROVE  LET u == [t EXCEPT !.next_step_id = Bind(@, j, NextStep(t, j) + 1)] IN
           Shape(u) /\ Table(l, u) /\ Loading(l, u)
<1> DEFINE marks == Bind(t.next_step_id, j, NextStep(t, j) + 1)
           u == [t EXCEPT !.next_step_id = marks]
<1>1. /\ u.applied = t.applied /\ u.next_job_id = t.next_job_id /\ u.loaded = t.loaded
      /\ u.jobs = t.jobs /\ u.steps = t.steps /\ u.next_step_id = marks
      /\ Shape(u)
  <2> HIDE DEF marks
  <2> QED BY Zenon DEF Shape
<1>2. Marked(t)
  BY Zenon DEF Table
<1>3. /\ NextStep(t, j) \in Nat
      /\ j \in DOMAIN t.next_step_id => NextStep(t, j) = t.next_step_id[j]
  BY <1>2, NextStepIs, Zenon
<1>4. /\ DOMAIN marks = DOMAIN t.next_step_id \cup {j}
      /\ marks[j] = NextStep(t, j) + 1
      /\ \A x \in DOMAIN t.next_step_id \ {j} : marks[x] = t.next_step_id[x]
  BY Zenon DEF Bind
<1> HIDE DEF u, marks
<1>5. \A x \in DOMAIN u.next_step_id : u.next_step_id[x] \in Nat
  BY <1>1, <1>2, <1>3, <1>4 DEF Marked
<1>6. ASSUME NEW x \in Id, NEW s \in 0..MaxStep, <<x, s>> \in u.steps
      PROVE  x \in DOMAIN u.jobs /\ x \in DOMAIN u.next_step_id /\ s < u.next_step_id[x]
  <2>1. /\ x \in DOMAIN t.jobs /\ x \in DOMAIN t.next_step_id /\ s < t.next_step_id[x]
        /\ t.next_step_id[x] \in Nat
    BY <1>1, <1>2, <1>6, Zenon DEF Marked
  <2> QED BY <2>1, <1>1, <1>3, <1>4, IdsAssumption
<1>7. Marked(u)
  BY <1>1, <1>2, <1>5, <1>6, Zenon DEF Marked
<1>8. Shape(u) /\ Table(l, u) /\ Loading(l, u)
  BY <1>1, <1>7, Zenon DEF Table, Loading, Below
<1> QED BY <1>8, Zenon DEF u, marks

LEMMA AllocateStep ==
    ASSUME IdsInv, NEW c \in Client, NEW j \in Id, allocate_step_id(c, j)
    PROVE  IdsInv'
<1> DEFINE s == NextStep(rep[leader], j)
           u == [rep[leader] EXCEPT !.next_step_id = Bind(@, j, s + 1)]
           e == [op |-> "step", id |-> j, step |-> s]
           q == [pc |-> "propose", r |-> leader, left |-> 0, entry |-> e, at |-> 0]
<1>0. /\ leader \in Replica /\ Shape(rep[leader]) /\ Table(log, rep[leader])
      /\ Loading(log, rep[leader]) /\ Marked(rep[leader])
  BY Zenon DEF IdsInv, Table
<1>1. Shape(u) /\ Table(log, u) /\ Loading(log, u)
  BY <1>0, MarkUp, Zenon
<1>2. s \in Nat /\ s <= MaxStep
  BY <1>0, NextStepIs, Zenon DEF allocate_step_id
<1>3. e \in StepEntry
  BY <1>2, IdsAssumption DEF StepEntry
<1>4. rep' = [rep EXCEPT ![leader] = u] /\ UNCHANGED <<log, leader, snap>>
  BY Zenon DEF allocate_step_id
<1>5. req' = [req EXCEPT ![c] = q]
  BY Zenon DEF allocate_step_id
<1> HIDE DEF e, u
<1>6. RequestOK(q)
  BY <1>0, <1>3 DEF RequestOK, Request
<1> HIDE DEF q
<1> QED BY <1>0, <1>1, <1>4, <1>5, <1>6, OneRequest, OneTable, Zenon

LEMMA ProposeFields ==
    ASSUME NEW x \in Request, RequestOK(x), x # Idle, NEW n \in Nat
    PROVE  RequestOK([x EXCEPT !.pc = "wait", !.at = n])
<1> DEFINE a == [x EXCEPT !.pc = "wait"]
           q == [a EXCEPT !.at = n]
<1>1. a \in Request /\ a.left = x.left /\ a.pc = "wait" /\ a.entry = x.entry
  BY Zenon DEF Request
<1> HIDE DEF a
<1>2. q \in Request /\ q.left = x.left /\ q.pc = "wait" /\ q.entry = x.entry
  BY <1>1, Zenon DEF Request
<1> HIDE DEF q
<1>3. RequestOK(q)
  BY <1>2, Zenon DEF RequestOK
<1> QED BY <1>3, Zenon DEF a, q

LEMMA ProposeStep ==
    ASSUME IdsInv, NEW c \in Client, propose(c)
    PROVE  IdsInv'
<1>1. req[c] # Idle /\ req[c] \in Request /\ RequestOK(req[c]) /\ req[c].entry \in LogEntry
  <2>1. req[c] # Idle
    BY DEF propose, Idle
  <2> QED BY <2>1, Zenon DEF IdsInv, RequestOK, Request, LogEntry
<1>2. Len(log) + 1 \in Nat
  BY DEF IdsInv
<1> DEFINE q == [req[c] EXCEPT !.pc = "wait", !.at = Len(log) + 1]
<1>3. RequestOK(q)
  BY <1>1, <1>2, ProposeFields, Zenon
<1>4. req' = [req EXCEPT ![c] = q]
  BY Zenon DEF propose
<1> HIDE DEF q
<1>5. UNCHANGED <<leader, rep, snap>> /\ log' = Append(log, req[c].entry)
  BY Zenon DEF propose, Committed
<1> QED BY <1>1, <1>3, <1>4, <1>5, OneRequest, Appended, Zenon

LEMMA ReturnStep ==
    ASSUME IdsInv, NEW c \in Client, ProposeReturns(c) \/ ProposeFails(c)
    PROVE  IdsInv'
<1>1. UNCHANGED <<log, leader, rep, snap>>
  BY Zenon DEF ProposeReturns, ProposeFails
<1>2. RequestOK(Idle)
  BY Zenon DEF RequestOK
<1>3. CASE req' = [req EXCEPT ![c] = Idle]
  BY <1>1, <1>2, <1>3, OneRequest, Appended, Zenon
<1>4. CASE ProposeReturns(c) /\ req[c].left > 0
  <2> DEFINE q == [req[c] EXCEPT !.pc = "task"]
  <2>1. req[c] # Idle
    BY <1>4 DEF ProposeReturns, Idle
  <2>2. req[c] \in Request /\ req[c].entry \in SubmitEntry
    BY <1>4, <2>1, Zenon DEF IdsInv, RequestOK
  <2>3. q \in Request /\ q.left = req[c].left /\ q.entry = req[c].entry
    BY <2>2, Zenon DEF Request
  <2>4. req' = [req EXCEPT ![c] = q]
    BY <1>4, Zenon DEF ProposeReturns
  <2> HIDE DEF q
  <2>5. RequestOK(q)
    BY <1>4, <2>2, <2>3, Zenon DEF RequestOK
  <2> QED BY <1>1, <2>4, <2>5, OneRequest, Appended, Zenon
<1> QED BY <1>3, <1>4, Zenon DEF ProposeReturns, ProposeFails

LEMMA EntryStep ==
    ASSUME IdsInv, \/ \E j \in Id : OtherEntry(j)
                   \/ \E S \in SUBSET Id : evict_expired_terminal_jobs(S)
    PROVE  IdsInv'
<1>1. UNCHANGED <<leader, rep, snap, req>>
  BY Zenon DEF OtherEntry, evict_expired_terminal_jobs
<1>2. \E e \in LogEntry : log' = Append(log, e)
  <2>1. ASSUME NEW j \in Id, OtherEntry(j) PROVE \E e \in LogEntry : log' = Append(log, e)
    <3> DEFINE e == [op |-> IF rep[leader].jobs[j] = "live" THEN "finish" ELSE "requeue",
                     id |-> j]
    <3>1. e \in LogEntry
      BY Zenon DEF LogEntry, StateEntry
    <3>2. log' = Append(log, e)
      BY <2>1, Zenon DEF OtherEntry, Committed
    <3> QED BY <3>1, <3>2, Zenon
  <2>2. ASSUME NEW S \in SUBSET Id, evict_expired_terminal_jobs(S)
        PROVE \E e \in LogEntry : log' = Append(log, e)
    <3> DEFINE e == [op |-> "evict", ids |-> S]
    <3>1. e \in LogEntry
      BY Zenon DEF LogEntry, EvictEntry
    <3>2. log' = Append(log, e)
      BY <2>2, Zenon DEF evict_expired_terminal_jobs, Committed
    <3> QED BY <3>1, <3>2, Zenon
  <2> QED BY <2>1, <2>2, Zenon
<1>3. DOMAIN req' = Client /\ \A c \in Client : RequestOK(req'[c])
  BY <1>1, Zenon DEF IdsInv
<1> QED BY <1>1, <1>2, <1>3, Appended, Zenon

LEMMA ApplyStep ==
    ASSUME IdsInv, NEW r \in Replica, ApplyLoads(r) \/ ApplyStores(r)
    PROVE  IdsInv'
<1>0. /\ Shape(rep[r]) /\ Table(log, rep[r]) /\ Loading(log, rep[r]) /\ log \in Seq(LogEntry)
      /\ DOMAIN req = Client /\ \A c \in Client : RequestOK(req[c])
  BY Zenon DEF IdsInv
<1>1. CASE ApplyLoads(r)
  <2> DEFINE u == [rep[r] EXCEPT !.loaded = rep[r].next_job_id]
  <2>1. /\ u.applied = rep[r].applied /\ u.next_job_id = rep[r].next_job_id
        /\ u.loaded = rep[r].next_job_id /\ u.jobs = rep[r].jobs
        /\ u.steps = rep[r].steps /\ u.next_step_id = rep[r].next_step_id
        /\ Shape(u)
    BY <1>0, Zenon DEF Shape
  <2>2. rep' = [rep EXCEPT ![r] = u] /\ UNCHANGED <<log, leader, snap, req>>
    BY <1>1, Zenon DEF ApplyLoads
  <2> HIDE DEF u
  <2>3. Table(log, u) /\ Below(log, u, u.loaded)
    BY <1>0, <2>1, Zenon DEF Table, Below, Marked
  <2>4. Loading(log, u)
    BY <1>1, <2>1, <2>3, Zenon DEF Loading, ApplyLoads
  <2> QED BY <1>0, <2>1, <2>2, <2>3, <2>4, OneTable, Zenon
<1>2. CASE ApplyStores(r)
  <2> DEFINE e == log[rep[r].applied + 1]
             u == [Effect(rep[r], e) EXCEPT !.next_job_id = StoredNext(rep[r], e),
                                            !.applied = @ + 1, !.loaded = Unset]
  <2>1. rep[r].loaded # Unset
    BY <1>2, Zenon DEF ApplyStores
  <2>2. Shape(u) /\ Table(log, u) /\ Loading(log, u)
    BY <1>0, <2>1, StoreKeeps, Zenon
  <2>3. rep' = [rep EXCEPT ![r] = u] /\ UNCHANGED <<log, leader, snap, req>>
    BY <1>2, Zenon DEF ApplyStores
  <2> HIDE DEF u
  <2> QED BY <1>0, <2>2, <2>3, OneTable, Zenon
<1> QED BY <1>1, <1>2, Zenon

LEMMA SavedFields ==
    ASSUME NEW l, NEW t, Table(l, t)
    PROVE  Table(l, Saved(t))
<1> DEFINE s == Saved(t)
<1>1. /\ s.applied = t.applied /\ s.next_job_id = t.next_job_id
      /\ s.jobs = t.jobs /\ s.steps = t.steps /\ s.next_step_id = t.next_step_id
  BY Zenon DEF Saved
<1> HIDE DEF s
<1>2. Table(l, s)
  BY <1>1, Zenon DEF Table, Below, Marked
<1> QED BY <1>2, Zenon DEF s

\* A step that changes one replica's table and its snapshot, and no log.
LEMMA OneSnapshot ==
    ASSUME IdsInv, NEW r \in Replica, NEW s, Table(log, s),
           snap' = [snap EXCEPT ![r] = s] \/ UNCHANGED snap,
           NEW u, Shape(u), Table(log, u), Loading(log, u), rep' = [rep EXCEPT ![r] = u],
           leader' \in Replica, UNCHANGED log,
           DOMAIN req' = Client, \A c \in Client : RequestOK(req'[c])
    PROVE  IdsInv'
<1>1. DOMAIN rep' = Replica /\ \A q \in Replica : rep'[q] = IF q = r THEN u ELSE rep[q]
  BY Zenon DEF IdsInv
<1>2. DOMAIN snap' = Replica /\ \A q \in Replica : snap'[q] \in {s, snap[q]}
  BY Zenon DEF IdsInv
<1>3. \A q \in Replica : /\ Shape(rep'[q]) /\ Table(log, rep'[q]) /\ Loading(log, rep'[q])
                         /\ Table(log, snap'[q])
  BY <1>1, <1>2, Zenon DEF IdsInv
<1>4. \A q \in Replica : /\ Shape(rep[q])' /\ Table(log, rep[q])' /\ Loading(log, rep[q])'
                         /\ Table(log, snap[q])'
  BY <1>3, InvPrimes, Zenon
<1> QED BY <1>1, <1>2, <1>4, Zenon DEF IdsInv, RequestOK, Request, SubmitEntry, StepEntry, Idle, Id,
          LogEntry, StateEntry, EvictEntry

LEMMA SnapshotStep ==
    ASSUME IdsInv, NEW r \in Replica,
           snapshot_state(r) \/ Restart(r) \/ InstallSnapshot(r) \/ Elect(r)
    PROVE  IdsInv'
<1>0. /\ Shape(rep[r]) /\ Table(log, rep[r]) /\ Loading(log, rep[r]) /\ log \in Seq(LogEntry)
      /\ Table(log, snap[r]) /\ Table(log, snap[leader]) /\ leader \in Replica
      /\ DOMAIN req = Client /\ \A c \in Client : RequestOK(req[c])
      /\ DOMAIN rep = Replica
  BY Zenon DEF IdsInv
<1>1. CASE snapshot_state(r)
  <2>1. Table(log, Saved(rep[r]))
    BY <1>0, SavedFields, Zenon
  <2>2. /\ snap' = [snap EXCEPT ![r] = Saved(rep[r])]
        /\ UNCHANGED <<log, leader, rep, req>>
    BY <1>1, Zenon DEF snapshot_state
  <2>3. DOMAIN snap' = Replica /\ \A q \in Replica : snap'[q] \in {Saved(rep[r]), snap[q]}
    BY <2>2, Zenon DEF IdsInv
  <2>4. \A q \in Replica : Table(log, snap'[q])
    BY <2>1, <2>3, Zenon DEF IdsInv
  <2>5. \A q \in Replica : /\ Shape(rep[q])' /\ Table(log, rep[q])' /\ Loading(log, rep[q])'
                           /\ Table(log, snap[q])'
    <3>1. \A q \in Replica : Shape(rep'[q]) /\ Table(log', rep'[q]) /\ Loading(log', rep'[q])
      BY <2>2, Zenon DEF IdsInv
    <3>2. \A q \in Replica : Table(log', snap'[q])
      BY <2>2, <2>4, Zenon
    <3> QED BY <3>1, <3>2, InvPrimes, Zenon
  <2> QED BY <1>0, <2>2, <2>3, <2>5, Zenon DEF IdsInv, RequestOK, Request, SubmitEntry, StepEntry,
            Idle, Id, LogEntry, StateEntry, EvictEntry
<1>2. CASE Restart(r)
  <2> DEFINE u == restore_from_snapshot(snap[r])
  <2>1. Shape(u) /\ Table(log, u) /\ Loading(log, u)
    BY <1>0, RestoreKeeps, Zenon
  <2>2. rep' = [rep EXCEPT ![r] = u] /\ UNCHANGED <<log, leader, snap>>
    BY <1>2, Zenon DEF Restart
  <2>3. RequestOK(Idle)
    BY Zenon DEF RequestOK
  <2>4. DOMAIN req' = Client /\ \A c \in Client : RequestOK(req'[c])
    BY <1>0, <1>2, <2>3, Zenon DEF Restart
  <2> HIDE DEF u
  <2> QED BY <2>1, <2>2, <2>4, OneTable, Zenon
<1>3. CASE InstallSnapshot(r)
  <2> DEFINE u == restore_from_snapshot(snap[leader])
  <2>1. Shape(u) /\ Table(log, u) /\ Loading(log, u)
    BY <1>0, RestoreKeeps, Zenon
  <2>2. /\ rep' = [rep EXCEPT ![r] = u] /\ UNCHANGED <<log, leader, req>>
        /\ snap' = [snap EXCEPT ![r] = snap[leader]]
    BY <1>3, Zenon DEF InstallSnapshot
  <2> HIDE DEF u
  <2> QED BY <1>0, <2>1, <2>2, OneSnapshot, Zenon
<1>4. CASE Elect(r)
  <2>1. leader' = r /\ UNCHANGED <<log, rep, snap, req>>
    BY <1>4, Zenon DEF Elect
  <2>2. \A q \in Replica : /\ Shape(rep'[q]) /\ Table(log', rep'[q]) /\ Loading(log', rep'[q])
                           /\ Table(log', snap'[q])
    BY <2>1, Zenon DEF IdsInv
  <2>3. \A q \in Replica : /\ Shape(rep[q])' /\ Table(log, rep[q])' /\ Loading(log, rep[q])'
                           /\ Table(log, snap[q])'
    BY <2>2, InvPrimes, Zenon
  <2> QED BY <2>1, <2>3, Zenon DEF IdsInv, RequestOK, Request, SubmitEntry, StepEntry, Idle, Id,
            LogEntry, StateEntry, EvictEntry
<1> QED BY <1>1, <1>2, <1>3, <1>4, Zenon

LEMMA InitIds == Init => IdsInv
<1> SUFFICES ASSUME Init PROVE IdsInv
  BY Zenon
<1>1. log = <<>> /\ log \in Seq(LogEntry) /\ Len(log) = 0
  BY DEF Init
<1>2. /\ Fresh.applied = 0 /\ Fresh.loaded = Unset /\ Fresh.next_job_id = first_job_id
      /\ Fresh.jobs = <<>> /\ Fresh.steps = {} /\ Fresh.next_step_id = <<>>
      /\ Shape(Fresh)
  BY Zenon DEF Fresh, Shape
<1>3. DOMAIN <<>> = {}
  OBVIOUS
<1>4. Table(log, Fresh) /\ Loading(log, Fresh)
  BY <1>1, <1>2, <1>3, IdsAssumption DEF Table, Loading, Below, Marked
<1>5. Table(log, Saved(Fresh))
  BY <1>4, SavedFields, Zenon
<1>6. RequestOK(Idle)
  BY Zenon DEF RequestOK
<1> QED BY <1>1, <1>2, <1>4, <1>5, <1>6, Zenon DEF Init, IdsInv

LEMMA NextIds == IdsInv /\ [Next]_vars => IdsInv'
<1> SUFFICES ASSUME IdsInv, [Next]_vars PROVE IdsInv'
  BY Zenon
<1>1. CASE UNCHANGED vars
  <2>1. UNCHANGED <<log, leader, rep, snap, req>>
    BY <1>1, Zenon DEF vars
  <2> QED BY <2>1, Appended, Zenon DEF IdsInv
<1>2. CASE Next
  BY Zenon, <1>2, SubmitStep, TaskStep, AllocateStep, ProposeStep, ReturnStep, EntryStep, ApplyStep,
     SnapshotStep DEF Next
<1> QED BY <1>1, <1>2, Zenon

LEMMA IdsInvariant == Spec => []IdsInv
  BY InitIds, NextIds, PTL DEF Spec

\* On any number of replicas, whatever elections, snapshots, installs, restarts,
\* evictions and racing submissions there were: next_job_id is above every job
\* id the replica has applied.
THEOREM AppliedIdsUsed == Spec => []AppliedIdsStayUsed
<1>1. IdsInv => AppliedIdsStayUsed
  BY Zenon DEF IdsInv, Table, Below, AppliedIdsStayUsed
<1> QED BY <1>1, IdsInvariant, PTL

\* The step id that allocate_step_id would hand out is above every step recorded
\* for its job, on every replica: the marks that JobStepCreate floors and that
\* restore_from_snapshot rebuilds cover the steps.
THEOREM RecordedStepsUsed == Spec => []RecordedStepsStayUsed
<1>1. IdsInv => RecordedStepsStayUsed
  <2> SUFFICES ASSUME IdsInv, NEW r \in Replica, NEW s \in rep[r].steps
               PROVE  s[2] < NextStep(rep[r], s[1])
    BY Zenon DEF RecordedStepsStayUsed
  <2>1. Marked(rep[r])
    BY Zenon DEF IdsInv, Table
  <2>2. PICK j \in Id, m \in 0..MaxStep : s = <<j, m>>
    BY <2>1 DEF Marked
  <2>3. j \in DOMAIN rep[r].next_step_id /\ m < rep[r].next_step_id[j]
    BY <2>1, <2>2, Zenon DEF Marked
  <2> QED BY <2>2, <2>3, Zenon DEF NextStep
<1> QED BY <1>1, IdsInvariant, PTL

=============================================================================
