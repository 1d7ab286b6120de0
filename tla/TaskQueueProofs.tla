-------------------------- MODULE TaskQueueProofs --------------------------
(***************************************************************************)
(* Theorems about TaskQueue for any tasks of any kind, any cap, any        *)
(* callers and any number of executions, calls, ticks and failed writes.   *)
(***************************************************************************)
EXTENDS TaskQueue, FiniteSetTheorems, WellFoundedInduction, TLAPS

(***************************************************************************)
(* The invariant.                                                          *)
(***************************************************************************)
\* Where each process is, and what it waits for there.
Placed ==
  /\ drainer.at = "resolve" => drainer.item \in Items
  /\ drainer.at \in {"off", "pick", "resolve", "others"} => drainer.todo = {}
  /\ tick.at \in {"save", "drain"} => tick.task \in Scheduled
  /\ job["tick"] # NoJob => tick.at = "save" /\ ~job["tick"].del
  /\ \A r \in Runs : job[r] # NoJob => exec[r].at \in {"finish", "notify", "abort"}
  /\ \A p \in Procs : job[p].at = "write" => job[p].copy.present

Typed == TypeOK /\ Placed

\* Two items never have the same stamp, so that one of them is before the other;
\* the item drain holds may not be in the queue any more.
Given == IF drainer.item \in Items THEN {drainer.item} ELSE {}
Stamped ==
  /\ \A x \in queue \union Given : x.at < stamp
  /\ \A x, y \in queue \union Given : x.at = y.at => x = y

\* The tasks shown as running are the ones that are executed, once each; what drain
\* is about to queue or to start is none of them, and there is room for it.
RunningTasks == {t \in Tasks : entry[t].present /\ entry[t].state = "running"}
Shown ==
  ~strayed =>
    /\ \A r \in Runs : Executing(r) => entry[exec[r].task].state = "running"
    /\ \A q, r \in Runs : Executing(q) /\ Executing(r) /\ exec[q].task = exec[r].task => q = r
    /\ \A t \in RunningTasks : \E r \in Runs : Executing(r) /\ exec[r].task = t
    /\ Cardinality(RunningTasks) <= MaxConcurrent
    /\ drainer.at = "resolve" =>
         /\ entry[drainer.item.task].state # "running"
         /\ Cardinality(RunningTasks) < MaxConcurrent
    /\ \A t \in drainer.todo : entry[t].state # "running"

\* A pass over the queue is still to come, or one that has not ended yet.
Awake ==
  \/ wanted
  \/ drainer.at \in {"pass", "push", "save", "pick", "resolve"}
  \/ tick.at # "off"
  \/ \E c \in Clients : job[c] # NoJob /\ job[c].then = "drain"
  \/ \E r \in Runs : exec[r].at \in {"finish", "notify", "tail"}
  \/ \E r \in Runs : Executing(r) /\ ~entry[exec[r].task].present

Startable == {x \in queue : x.task \notin Idle \union Bound /\ Live(x.task)}
Woken ==
  /\ drainer.skip \subseteq Idle \union Bound
  /\ fails = 0 =>
       /\ wanted => drainer.at # "off"
       /\ ~strayed /\ Cardinality(RunningTasks) < MaxConcurrent => Awake \/ Startable = {}

Inv == Typed /\ Stamped /\ Shown /\ Woken

(***************************************************************************)
(* Jobs, entries and calls of drain.                                       *)
(***************************************************************************)
LEMMA Distinct ==
  /\ "drain" \in Procs /\ "tick" \in Procs /\ Clients \subseteq Procs /\ Runs \subseteq Procs
  /\ \A c \in Clients : c # "drain" /\ c # "tick" /\ c \notin Runs
  /\ \A r \in Runs : r # "drain" /\ r # "tick" /\ r \notin Clients
BY ProcessAssumption DEF Procs

LEMMA JobFields ==
  ASSUME NEW j \in Jobs
  PROVE  /\ j.at \in {"none", "wait", "write"} /\ (j.at = "none" <=> j = NoJob)
         /\ j # NoJob => j.task \in Tasks /\ j.then \in Thens /\ j.del \in BOOLEAN
         /\ j.at = "write" => j.copy \in Entries
BY DEF Jobs, NoJob

LEMMA JobMade ==
  ASSUME NEW t \in Tasks, NEW then \in Thens
  PROVE  /\ Saving(t, then) \in Jobs /\ Saving(t, then).at = "wait"
         /\ Saving(t, then).then = then /\ Saving(t, then) # NoJob
         /\ Deleting(t, then) \in Jobs /\ Deleting(t, then).at = "wait"
         /\ Deleting(t, then).then = then /\ Deleting(t, then) # NoJob
         /\ Saving(t, then).task = t /\ Deleting(t, then).task = t
         /\ ~Saving(t, then).del
BY DEF Jobs, NoJob, Saving, Deleting

LEMMA ExecFields ==
  ASSUME NEW e \in Execs
  PROVE  /\ e.at \in {"free", "starting", "run", "finish", "notify", "tail", "abort"}
         /\ e.at = "free" <=> e = NoRun
         /\ e # NoRun => e.task \in Tasks
BY DEF Execs, NoRun

\* The write of a process that returns changes one entry.  Unless it overwrites
\* another change, that entry keeps its state, and is only ever taken away.
LEMMA WrittenTyped ==
  ASSUME TypeOK, NEW p \in Procs, job[p].at = "write"
  PROVE  Written(p) \in [Tasks -> Entries]
<1>1. job[p].task \in Tasks /\ job[p].copy \in Entries
  BY JobFields DEF TypeOK, NoJob
<1>2. CASE job[p].del
  <2>1. entry \in [Tasks -> Entries] /\ entry[job[p].task] \in Entries
    BY <1>1 DEF TypeOK
  <2>2. [entry[job[p].task] EXCEPT !.present = FALSE] \in Entries
    BY <2>1 DEF Entries
  <2>3. Written(p) = [entry EXCEPT ![job[p].task] = [entry[job[p].task] EXCEPT !.present = FALSE]]
    BY <1>2 DEF Written
  <2> QED BY <2>1, <2>2, <2>3
<1>3. CASE ~job[p].del
  BY <1>1, <1>3 DEF Written, TypeOK
<1> QED BY <1>2, <1>3 DEF Written

LEMMA WrittenKeeps ==
  ASSUME Typed, NEW p \in Procs, job[p].at = "write", ~Overwrites(p), NEW t \in Tasks
  PROVE  /\ Written(p)[t].state = entry[t].state
         /\ Written(p)[t].present => entry[t].present
         /\ entry[t].present => Written(p)[t].present \/ job[p].del
<1>1. job[p].task \in Tasks /\ job[p].copy \in Entries /\ job[p].copy.present
      /\ entry \in [Tasks -> Entries] /\ job[p].del \in BOOLEAN
  BY JobFields DEF Typed, TypeOK, Placed, NoJob
<1>2. CASE job[p].del
  BY <1>1, <1>2 DEF Written, Entries
<1>3. CASE ~job[p].del
  BY <1>1, <1>3 DEF Written, Entries, Overwrites
<1> QED BY <1>2, <1>3

LEMMA CallTyped ==
  ASSUME Typed, NEW owner \in {"none", "tick"}, CallDrain(owner)
  PROVE  /\ drainer' \in Drainers /\ wanted' \in BOOLEAN
         /\ \/ (drainer' = drainer /\ drainer.at # "off" /\ wanted')
            \/ (/\ drainer.at = "off" /\ drainer'.at = "pass" /\ drainer'.todo = {}
                /\ drainer'.skip = {} /\ drainer'.item = NoItem /\ wanted' = wanted)
BY DEF CallDrain, Resting, Typed, TypeOK, Drainers

(***************************************************************************)
(* The order of the queue.                                                 *)
(***************************************************************************)
LEMMA Least ==
  ASSUME NEW T, T \subseteq Nat, T # {}
  PROVE  \E n \in T : \A m \in T : n <= m
<1> DEFINE R == OpToRel(<, Nat)
<1>1. IsWellFoundedOn(R, Nat)
  BY NatLessThanWellFounded
<1>2. \A n, m \in Nat : m < n => <<m, n>> \in R
  BY DEF OpToRel
<1> HIDE DEF R
<1>3. PICK n \in T : \A m \in T : ~ (<<m, n>> \in R)
  BY <1>1, WFMin
<1>4. ASSUME NEW m \in T PROVE n <= m
  <2>1. n \in Nat /\ m \in Nat
    OBVIOUS
  <2>2. ~ (m < n)
    BY <1>2, <1>3, <2>1
  <2> QED BY <2>1, <2>2
<1> QED BY <1>4

LEMMA Priorities ==
  ASSUME NEW x \in Items
  PROVE  Priority(x) \in 0..3 /\ (Priority(x) = 3 <=> x.task \in Idle)
BY KindsAssumption DEF Priority, Items, Tasks

LEMMA FirstIsBefore ==
  ASSUME NEW S, S \subseteq Items, S # {}, \A x, y \in S : x.at = y.at => x = y
  PROVE  First(S) \in S /\ \A y \in S \ {First(S)} : Before(First(S), y)
<1> DEFINE P == {Priority(x) : x \in S}
<1>1. P \subseteq Nat /\ P # {}
  BY Priorities
<1>2. PICK x0 \in S : \A y \in S : Priority(x0) <= Priority(y)
  <2>1. PICK n \in P : \A m \in P : n <= m
    <3> HIDE DEF P
    <3> QED BY <1>1, Least
  <2> QED BY <2>1
<1> DEFINE A == {x.at : x \in {y \in S : Priority(y) = Priority(x0)}}
<1>3. A \subseteq Nat /\ A # {}
  BY DEF Items
<1>4. PICK x \in S : /\ Priority(x) = Priority(x0)
                     /\ \A y \in S : Priority(y) = Priority(x0) => x.at <= y.at
  <2>1. PICK n \in A : \A m \in A : n <= m
    <3> HIDE DEF A
    <3> QED BY <1>3, Least
  <2> QED BY <2>1
<1>5. ASSUME NEW y \in S \ {x} PROVE Before(x, y)
  <2>1. Priority(x) \in Nat /\ Priority(y) \in Nat /\ x.at \in Nat /\ y.at \in Nat
    BY Priorities DEF Items
  <2>2. x.at # y.at
    BY <1>5
  <2> QED BY <1>2, <1>4, <2>1, <2>2 DEF Before
<1> QED BY <1>5 DEF First

LEMMA ItemsAreFirst ==
  ASSUME Typed, Stamped, NEW S \in SUBSET queue, S # {}
  PROVE  First(S) \in S /\ First(S) \in Items /\ \A y \in S \ {First(S)} : Before(First(S), y)
<1>1. S \subseteq Items /\ \A x, y \in S : x.at = y.at => x = y
  BY DEF Typed, TypeOK, Stamped
<1> QED BY <1>1, FirstIsBefore

LEMMA WithoutIsLess == ASSUME NEW t PROVE Without(t) \subseteq queue
BY DEF Without

(***************************************************************************)
(* Types.                                                                  *)
(***************************************************************************)
\* A job that is given or taken, by a process where that is in order.
LEMMA JobStep ==
  ASSUME Typed, NEW p \in Procs, NEW j \in Jobs, j.at # "write",
         job' = [job EXCEPT ![p] = j],
         p = "tick" /\ j # NoJob => tick'.at = "save" /\ ~j.del,
         p # "tick" /\ job["tick"] # NoJob => tick'.at = tick.at,
         \A r \in Runs : p = r /\ j # NoJob => exec'[r].at \in {"finish", "notify", "abort"},
         \A r \in Runs : p # r /\ job[r] # NoJob => exec'[r].at = exec[r].at
  PROVE  /\ job' \in [Procs -> Jobs]
         /\ job'["tick"] # NoJob => tick'.at = "save" /\ ~job'["tick"].del
         /\ \A r \in Runs : job'[r] # NoJob => exec'[r].at \in {"finish", "notify", "abort"}
         /\ \A q \in Procs : job'[q].at = "write" => job'[q].copy.present
<1>1. /\ job \in [Procs -> Jobs] /\ job' \in [Procs -> Jobs]
      /\ job'[p] = j /\ \A q \in Procs : q # p => job'[q] = job[q]
  BY DEF Typed, TypeOK
<1>2. job'["tick"] # NoJob => tick'.at = "save" /\ ~job'["tick"].del
  BY <1>1, Distinct DEF Typed, Placed
<1>3. ASSUME NEW r \in Runs, job'[r] # NoJob
      PROVE  exec'[r].at \in {"finish", "notify", "abort"}
  BY <1>1, <1>3, Distinct DEF Typed, Placed
<1>4. \A q \in Procs : job'[q].at = "write" => job'[q].copy.present
  BY <1>1 DEF Typed, Placed
<1> QED BY <1>1, <1>2, <1>3, <1>4

LEMMA NoJobMade == NoJob \in Jobs /\ NoJob.at = "none"
BY DEF NoJob, Jobs

LEMMA PushTyped ==
  ASSUME Typed, NEW t \in Tasks, NEW source \in {"manual", "schedule", "idle"},
         NEW front \in BOOLEAN, Push(t, source, front)
  PROVE  queue' \subseteq Items /\ stamp' \in Nat
BY DEF Push, Typed, TypeOK, Items

\* What the changes of an entry leave of it.
LEMMA StateIs ==
  ASSUME NEW t \in Tasks, NEW e \in [Tasks -> Entries], NEW s \in {"idle", "queued", "running"},
         NEW f, f = [e EXCEPT ![t].state = s]
  PROVE  /\ f \in [Tasks -> Entries] /\ f[t].state = s /\ f[t].present = e[t].present
         /\ \A u \in Tasks : u # t => f[u] = e[u]
BY DEF Entries

Marked(e, t, s, on, arm) ==
  [e EXCEPT ![t].state = s, ![t].enabled = on, ![t].armed = arm]

LEMMA MarksAre ==
  ASSUME NEW t \in Tasks, NEW e \in [Tasks -> Entries],
         NEW s \in {"idle", "queued", "running"}, NEW on \in BOOLEAN, NEW arm \in BOOLEAN
  PROVE  /\ Marked(e, t, s, on, arm) \in [Tasks -> Entries]
         /\ Marked(e, t, s, on, arm)[t].state = s
         /\ Marked(e, t, s, on, arm)[t].present = e[t].present
         /\ \A u \in Tasks : u # t => Marked(e, t, s, on, arm)[u] = e[u]
<1> DEFINE f1 == [e EXCEPT ![t].state = s, ![t].enabled = on]
           f2 == [f1 EXCEPT ![t].armed = arm]
<1>1. /\ f1 \in [Tasks -> Entries] /\ f1[t].state = s /\ f1[t].present = e[t].present
      /\ \A u \in Tasks : u # t => f1[u] = e[u]
  BY DEF Entries
<1>2. Marked(e, t, s, on, arm) = f2
  BY DEF Marked
<1> HIDE DEF f1
<1>3. /\ f2 \in [Tasks -> Entries] /\ f2[t].state = s /\ f2[t].present = e[t].present
      /\ \A u \in Tasks : u # t => f2[u] = e[u]
  BY <1>1 DEF Entries
<1> QED BY <1>2, <1>3

\* Where an entry is set idle, switched off or armed.
LEMMA IdleIs ==
  ASSUME TypeOK, NEW t \in Tasks, NEW off \in BOOLEAN, NEW f \in {Finished(t, off), Recovered(t)}
  PROVE  /\ f \in [Tasks -> Entries] /\ f[t].state = "idle" /\ f[t].present = entry[t].present
         /\ \A u \in Tasks : u # t => f[u] = entry[u]
<1>1. entry \in [Tasks -> Entries] /\ entry[t].enabled \in BOOLEAN /\ entry[t].armed \in BOOLEAN
  BY DEF TypeOK, Entries
<1>2. CASE f = Finished(t, off)
  <2> DEFINE on == entry[t].enabled /\ ~off /\ t \notin Idle \union OneShot
             arm == entry[t].armed /\ t \notin OneShot
  <2>1. f = Marked(entry, t, "idle", on, arm)
    BY <1>1, <1>2 DEF Finished, Marked
  <2>2. on \in BOOLEAN /\ arm \in BOOLEAN
    OBVIOUS
  <2> HIDE DEF on, arm
  <2>3. /\ Marked(entry, t, "idle", on, arm) \in [Tasks -> Entries]
        /\ Marked(entry, t, "idle", on, arm)[t].state = "idle"
        /\ Marked(entry, t, "idle", on, arm)[t].present = entry[t].present
        /\ \A u \in Tasks : u # t => Marked(entry, t, "idle", on, arm)[u] = entry[u]
    BY <1>1, <2>2, MarksAre
  <2> QED BY <2>1, <2>3
<1>3. CASE f = Recovered(t)
  <2> DEFINE on == entry[t].enabled /\ t \notin OneShot
             arm == t \notin OneShot
  <2>1. f = Marked(entry, t, "idle", on, arm)
    BY <1>1, <1>3 DEF Recovered, Marked
  <2>2. on \in BOOLEAN /\ arm \in BOOLEAN
    OBVIOUS
  <2> HIDE DEF on, arm
  <2>3. /\ Marked(entry, t, "idle", on, arm) \in [Tasks -> Entries]
        /\ Marked(entry, t, "idle", on, arm)[t].state = "idle"
        /\ Marked(entry, t, "idle", on, arm)[t].present = entry[t].present
        /\ \A u \in Tasks : u # t => Marked(entry, t, "idle", on, arm)[u] = entry[u]
    BY <1>1, <2>2, MarksAre
  <2> QED BY <2>1, <2>3
<1> QED BY <1>2, <1>3

LEMMA RecoveredIs ==
  ASSUME TypeOK, NEW t \in Tasks
  PROVE  /\ Recovered(t) \in [Tasks -> Entries] /\ Recovered(t)[t].state = "idle"
         /\ Recovered(t)[t].present = entry[t].present
         /\ \A u \in Tasks : u # t => Recovered(t)[u] = entry[u]
BY IdleIs

LEMMA UpdateIs ==
  ASSUME TypeOK, NEW c \in Clients, NEW t \in Tasks, NEW on \in BOOLEAN, Update(c, t, on)
  PROVE  /\ entry' \in [Tasks -> Entries] /\ entry'[t].present = entry[t].present
         /\ \/ entry'[t].state = entry[t].state
            \/ (entry[t].state = "queued" /\ entry'[t].state = "idle")
         /\ \A u \in Tasks : u # t => entry'[u] = entry[u]
<1> DEFINE arm == entry[t].armed \/ (t \in Scheduled /\ on)
           s == IF ~on /\ entry[t].state = "queued" THEN "idle" ELSE entry[t].state
<1>0. entry \in [Tasks -> Entries] /\ entry[t].state \in {"idle", "queued", "running"}
  BY DEF TypeOK, Entries
<1>1. arm \in BOOLEAN
  OBVIOUS
<1>2. /\ (on \/ entry[t].state # "queued") => s = entry[t].state
      /\ (~on /\ entry[t].state = "queued") => s = "idle"
  OBVIOUS
<1>3. entry' = [entry EXCEPT ![t].enabled = on, ![t].armed = arm, ![t].state = s]
  BY <1>0 DEF Update, Entries
<1> HIDE DEF arm, s
<1>4. s \in {"idle", "queued", "running"}
  BY <1>0, <1>2
<1>5. entry' = Marked(entry, t, s, on, arm)
  BY <1>0, <1>1, <1>3, <1>4 DEF Marked, Entries
<1>6. /\ entry' \in [Tasks -> Entries] /\ entry'[t].state = s
      /\ entry'[t].present = entry[t].present
      /\ \A u \in Tasks : u # t => entry'[u] = entry[u]
  BY <1>0, <1>1, <1>4, <1>5, MarksAre
<1>7. s = entry[t].state \/ (entry[t].state = "queued" /\ s = "idle")
  BY <1>2
<1> QED BY <1>6, <1>7

LEMMA Returned ==
  ASSUME TypeOK, NEW p, Return(p)
  PROVE  /\ job[p].at = "write" /\ strayed' \in BOOLEAN
         /\ ~strayed' => ~strayed /\ ~Overwrites(p)
BY DEF Return, TypeOK

LEMMA EnqueueTyped ==
  ASSUME Typed, NEW c \in Clients, NEW t \in Tasks, NEW front \in BOOLEAN, Enqueue(c, t, front)
  PROVE  Typed'
<1>1. c \in Procs /\ c # "tick" /\ c \notin Runs
  BY Distinct
<1>2. /\ job' = [job EXCEPT ![c] = Saving(t, "drain")]
      /\ Saving(t, "drain") \in Jobs /\ Saving(t, "drain").at # "write"
  BY JobMade DEF Enqueue, Save, Thens
<1>3. UNCHANGED <<drainer, wanted, exec, tick, talking, ticks, fails, strayed>> /\ ops' \in Nat
  BY DEF Enqueue, Called, Typed, TypeOK
<1>4. entry' \in [Tasks -> Entries]
  BY StateIs DEF Enqueue, Typed, TypeOK
<1>5. queue' \subseteq Items /\ stamp' \in Nat
  BY PushTyped DEF Enqueue
<1>6. /\ job' \in [Procs -> Jobs]
      /\ job'["tick"] # NoJob => tick'.at = "save" /\ ~job'["tick"].del
      /\ \A r \in Runs : job'[r] # NoJob => exec'[r].at \in {"finish", "notify", "abort"}
      /\ \A q \in Procs : job'[q].at = "write" => job'[q].copy.present
  BY <1>1, <1>2, <1>3, JobStep
<1> QED BY <1>3, <1>4, <1>5, <1>6 DEF Typed, TypeOK, Placed

LEMMA MoveToFrontTyped ==
  ASSUME Typed, Stamped, NEW c \in Clients, NEW t \in Tasks, MoveToFront(c, t)
  PROVE  Typed'
<1>1. c \in Procs /\ c # "tick" /\ c \notin Runs
  BY Distinct
<1>2. /\ job' = [job EXCEPT ![c] = Saving(t, "return")]
      /\ Saving(t, "return") \in Jobs /\ Saving(t, "return").at # "write"
  BY JobMade DEF MoveToFront, Save, Thens
<1>3. UNCHANGED <<entry, stamp, wanted, exec, tick, talking, ticks, fails, strayed>> /\ ops' \in Nat
  BY DEF MoveToFront, Called, Typed, TypeOK
<1> DEFINE x == First(ItemsOf(t))
           y == [x EXCEPT !.front = TRUE]
<1>4. x \in Items /\ y \in Items
  <2>1. ItemsOf(t) # {} /\ ItemsOf(t) \in SUBSET queue
    BY DEF MoveToFront, ItemsOf
  <2>2. First(ItemsOf(t)) \in Items
    BY <2>1, ItemsAreFirst
  <2> QED BY <2>2 DEF Items
<1>5. /\ queue' = (queue \ {x}) \union {y}
      /\ drainer' = IF drainer.item = x THEN [drainer EXCEPT !.item = y] ELSE drainer
  BY DEF MoveToFront
<1> HIDE DEF x, y
<1>6. /\ queue' \subseteq Items /\ drainer' \in Drainers
      /\ drainer'.at = drainer.at /\ drainer'.todo = drainer.todo
      /\ drainer.item \in Items => drainer'.item \in Items
  BY <1>4, <1>5 DEF Typed, TypeOK, Drainers
<1>7. /\ job' \in [Procs -> Jobs]
      /\ job'["tick"] # NoJob => tick'.at = "save" /\ ~job'["tick"].del
      /\ \A r \in Runs : job'[r] # NoJob => exec'[r].at \in {"finish", "notify", "abort"}
      /\ \A q \in Procs : job'[q].at = "write" => job'[q].copy.present
  BY <1>1, <1>2, <1>3, JobStep
<1> QED BY <1>3, <1>6, <1>7 DEF Typed, TypeOK, Placed

LEMMA CallTypes ==
  ASSUME Typed, NEW c \in Clients, NEW t \in Tasks, NEW on \in BOOLEAN,
         Dequeue(c, t) \/ Update(c, t, on) \/ Remove(c, t)
  PROVE  Typed'
<1>1. c \in Procs /\ c # "tick" /\ c \notin Runs
  BY Distinct
<1>2. PICK j \in Jobs : j.at # "write" /\ job' = [job EXCEPT ![c] = j]
  BY JobMade DEF Dequeue, Update, Remove, Save, Thens
<1>3. UNCHANGED <<stamp, drainer, wanted, exec, tick, talking, ticks, fails, strayed>> /\ ops' \in Nat
  BY DEF Dequeue, Update, Remove, Called, Typed, TypeOK
<1>4. entry' \in [Tasks -> Entries]
  <2>1. CASE Dequeue(c, t)
    BY <2>1, StateIs DEF Dequeue, Typed, TypeOK
  <2>2. CASE Update(c, t, on)
    BY <2>2, UpdateIs DEF Typed
  <2>3. CASE Remove(c, t)
    BY <2>3 DEF Remove, Typed, TypeOK
  <2> QED BY <2>1, <2>2, <2>3
<1>5. queue' \subseteq Items
  BY WithoutIsLess DEF Dequeue, Update, Remove, Typed, TypeOK
<1>6. /\ job' \in [Procs -> Jobs]
      /\ job'["tick"] # NoJob => tick'.at = "save" /\ ~job'["tick"].del
      /\ \A r \in Runs : job'[r] # NoJob => exec'[r].at \in {"finish", "notify", "abort"}
      /\ \A q \in Procs : job'[q].at = "write" => job'[q].copy.present
  BY <1>1, <1>2, <1>3, JobStep
<1> QED BY <1>3, <1>4, <1>5, <1>6 DEF Typed, TypeOK, Placed

LEMMA ClientTypes ==
  ASSUME Typed, NEW c \in Clients, ClientReturns(c) \/ ClientFails(c)
  PROVE  Typed'
<1> USE DEF budget
<1>1. c \in Procs /\ c # "tick" /\ c \notin Runs
  BY Distinct
<1>2. job' = [job EXCEPT ![c] = NoJob]
  BY DEF ClientReturns, ClientFails, Done
<1>3. UNCHANGED <<queue, stamp, exec, tick, talking, ops, ticks>> /\ fails' \in Nat /\ strayed' \in BOOLEAN
  <2>1. CASE ClientReturns(c)
    BY <2>1, Returned DEF ClientReturns, Typed, TypeOK
  <2>2. CASE ClientFails(c)
    BY <2>2 DEF ClientFails, GiveUp, Typed, TypeOK
  <2> QED BY <2>1, <2>2
<1>4. entry' \in [Tasks -> Entries]
  BY <1>1, WrittenTyped DEF ClientReturns, ClientFails, Return, Typed, TypeOK
<1>5. UNCHANGED <<drainer, wanted>> \/ CallDrain("none")
  BY DEF ClientReturns, ClientFails
<1>6. /\ drainer' \in Drainers /\ wanted' \in BOOLEAN
      /\ drainer'.at = "resolve" => drainer'.item \in Items
      /\ drainer'.at \in {"off", "pick", "resolve", "others"} => drainer'.todo = {}
  BY <1>5, CallTyped DEF Typed, TypeOK, Placed
<1>7. /\ job' \in [Procs -> Jobs]
      /\ job'["tick"] # NoJob => tick'.at = "save" /\ ~job'["tick"].del
      /\ \A r \in Runs : job'[r] # NoJob => exec'[r].at \in {"finish", "notify", "abort"}
      /\ \A q \in Procs : job'[q].at = "write" => job'[q].copy.present
  BY <1>1, <1>2, <1>3, JobStep, NoJobMade
<1> QED BY <1>3, <1>4, <1>6, <1>7 DEF Typed, TypeOK, Placed

LEMMA LockTypes == ASSUME Typed, NEW p \in Procs, TakeLock(p) PROVE Typed'
<1> USE DEF budget
<1>1. UNCHANGED <<entry, queue, stamp, drainer, wanted, exec, tick, talking, ops, ticks, fails, strayed>>
  BY DEF TakeLock
<1> DEFINE j == [at |-> "write", task |-> job[p].task, then |-> job[p].then, del |-> job[p].del,
                 copy |-> [entry[job[p].task] EXCEPT !.present = TRUE]]
<1>2. job' = [job EXCEPT ![p] = j]
  BY DEF TakeLock
<1>3. job[p] \in Jobs /\ job[p] # NoJob /\ job \in [Procs -> Jobs]
  BY JobFields DEF TakeLock, Typed, TypeOK
<1>4. job[p].task \in Tasks /\ job[p].then \in Thens /\ job[p].del \in BOOLEAN
  BY <1>3, JobFields
<1>a. j.del = job[p].del
  OBVIOUS
<1>5. j \in Jobs /\ j.copy.present
  <2>0. entry[job[p].task] \in Entries
    BY <1>4 DEF Typed, TypeOK
  <2>1. [entry[job[p].task] EXCEPT !.present = TRUE] \in Entries
    BY <2>0 DEF Entries
  <2>2. [entry[job[p].task] EXCEPT !.present = TRUE].present
    BY <2>0 DEF Entries
  <2> QED BY <1>4, <2>1, <2>2 DEF Jobs
<1> HIDE DEF j
<1>6. /\ job' \in [Procs -> Jobs] /\ \A q \in Procs : job'[q].at = "write" => job'[q].copy.present
      /\ \A q \in Procs : job'[q] # NoJob => job[q] # NoJob /\ job'[q].del = job[q].del
  BY <1>a, <1>2, <1>3, <1>5 DEF Typed, Placed
<1> QED BY <1>1, <1>6, Distinct DEF Typed, TypeOK, Placed

LEMMA TickTypes ==
  ASSUME Typed,
         \/ \E due \in SUBSET Scheduled : TickStarts(due)
         \/ \E t \in Tasks : TickTask(t)
         \/ TickDrained \/ TickEnds
  PROVE  Typed'
<1> USE DEF budget
<1>0. UNCHANGED <<queue, stamp, exec, talking, ops, fails, strayed>>
  BY DEF TickStarts, TickTask, TickDrained, TickEnds
<1>1. UNCHANGED <<queue, stamp, exec, talking, ops, fails, strayed>> /\ ticks' \in Nat
  <2>1. ticks' = ticks \/ ticks' = ticks + 1
    BY DEF TickStarts, TickTask, TickDrained, TickEnds
  <2> QED BY <1>0, <2>1 DEF Typed, TypeOK
<1>2. ASSUME NEW due \in SUBSET Scheduled, TickStarts(due) PROVE Typed'
  <2>1. /\ tick' \in [at : {"off", "loop", "save", "drain"}, due : SUBSET Scheduled,
                      task : Scheduled \union {"none"}]
        /\ tick'.at = "loop" /\ job["tick"] = NoJob
    BY <1>2 DEF TickStarts, Typed, TypeOK, Placed
  <2>2. UNCHANGED <<entry, drainer, wanted, job>>
    BY <1>2 DEF TickStarts
  <2> QED BY <1>1, <2>1, <2>2 DEF Typed, TypeOK, Placed
<1>3. ASSUME NEW t \in Tasks, TickTask(t) PROVE Typed'
  <2>1. CASE entry[t].enabled /\ entry[t].armed
    <3>1. /\ t \in Scheduled /\ tick' = [at |-> "save", due |-> tick.due \ {t}, task |-> t]
          /\ tick.due \in SUBSET Scheduled
      BY <1>3, <2>1 DEF TickTask, Typed, TypeOK
    <3>2. entry' \in [Tasks -> Entries]
      <4> DEFINE arm == t \notin OneShot
      <4>1. arm \in BOOLEAN /\ entry' = [entry EXCEPT ![t].armed = arm]
        BY <1>3, <2>1 DEF TickTask
      <4> HIDE DEF arm
      <4>2. entry \in [Tasks -> Entries] /\ t \in Tasks
        BY DEF Typed, TypeOK
      <4> QED BY <4>1, <4>2 DEF Entries
    <3>3. PICK j \in Jobs : j.at # "write" /\ ~j.del /\ job' = [job EXCEPT !["tick"] = j]
      BY <1>3, <2>1, JobMade DEF TickTask, Save, Thens
    <3>4. /\ job' \in [Procs -> Jobs]
          /\ job'["tick"] # NoJob => tick'.at = "save" /\ ~job'["tick"].del
          /\ \A r \in Runs : job'[r] # NoJob => exec'[r].at \in {"finish", "notify", "abort"}
          /\ \A q \in Procs : job'[q].at = "write" => job'[q].copy.present
      BY <1>1, <3>1, <3>3, JobStep, Distinct
    <3>5. UNCHANGED <<drainer, wanted>>
      BY <1>3 DEF TickTask
    <3> QED BY <1>1, <3>1, <3>2, <3>4, <3>5 DEF Typed, TypeOK, Placed
  <2>2. CASE ~(entry[t].enabled /\ entry[t].armed)
    BY <1>1, <1>3, <2>2 DEF TickTask, Typed, TypeOK, Placed
  <2> QED BY <2>1, <2>2
<1>4. CASE TickDrained
  BY <1>1, <1>4 DEF TickDrained, Typed, TypeOK, Placed
<1>5. CASE TickEnds
  <2>1. CallDrain("none") /\ UNCHANGED <<entry, job>>
    BY <1>5 DEF TickEnds
  <2>2. /\ drainer' \in Drainers /\ wanted' \in BOOLEAN
        /\ drainer'.at = "resolve" => drainer'.item \in Items
        /\ drainer'.at \in {"off", "pick", "resolve", "others"} => drainer'.todo = {}
    BY <2>1, CallTyped DEF Typed, TypeOK, Placed
  <2>3. tick' = [at |-> "off", due |-> {}, task |-> "none"] /\ job'["tick"] = NoJob
    BY <1>5 DEF TickEnds, Typed, Placed
  <2> QED BY <1>1, <2>1, <2>2, <2>3 DEF Typed, TypeOK, Placed
<1> QED BY <1>2, <1>3, <1>4, <1>5

LEMMA TickReturnTypes ==
  ASSUME Typed, TickEnqueues \/ TickReturns PROVE Typed'
<1> USE DEF budget
<1>1. UNCHANGED <<exec, talking, ops, ticks, fails>> /\ Return("tick") /\ "tick" \in Procs
  BY Distinct DEF TickEnqueues, TickReturns
<1>2. strayed' \in BOOLEAN /\ job["tick"].at = "write" /\ job["tick"] # NoJob
  BY <1>1, Returned DEF Typed, NoJob
<1>3. /\ Written("tick") \in [Tasks -> Entries] /\ tick.at = "save"
      /\ job["tick"].task \in Tasks
  BY <1>1, <1>2, WrittenTyped, JobFields DEF Typed, TypeOK, Placed
<1>4. CASE TickEnqueues
  <2> DEFINE t == job["tick"].task
             e == job["tick"].copy
  <2>1. UNCHANGED <<drainer, wanted>>
    BY <1>4 DEF TickEnqueues
  <2>2. CASE e.enabled /\ e.state = "idle"
    <3>1. /\ entry' = [Written("tick") EXCEPT ![t].state = "queued"]
          /\ Push(t, "schedule", FALSE) /\ Save("tick", t, "drain") /\ tick' = tick
      BY <1>4, <2>2 DEF TickEnqueues
    <3> HIDE DEF t, e
    <3>2. entry' \in [Tasks -> Entries]
      BY <1>3, <3>1, StateIs DEF t
    <3>3. queue' \subseteq Items /\ stamp' \in Nat
      BY <1>3, <3>1, PushTyped DEF t
    <3>4. PICK j \in Jobs : j.at # "write" /\ ~j.del /\ job' = [job EXCEPT !["tick"] = j]
      <4>1. /\ Saving(t, "drain") \in Jobs /\ Saving(t, "drain").at # "write"
            /\ ~Saving(t, "drain").del
        BY <1>3, JobMade DEF Thens, t
      <4> QED BY <3>1, <4>1 DEF Save
    <3>5. /\ job' \in [Procs -> Jobs]
          /\ job'["tick"] # NoJob => tick'.at = "save" /\ ~job'["tick"].del
          /\ \A r \in Runs : job'[r] # NoJob => exec'[r].at \in {"finish", "notify", "abort"}
          /\ \A q \in Procs : job'[q].at = "write" => job'[q].copy.present
      BY <1>1, <1>3, <3>1, <3>4, JobStep, Distinct
    <3> QED BY <1>1, <1>2, <1>3, <2>1, <3>1, <3>2, <3>3, <3>5 DEF Typed, TypeOK, Placed
  <2>3. CASE ~(e.enabled /\ e.state = "idle")
    <3>1. /\ entry' = Written("tick") /\ Done("tick") /\ tick' = [tick EXCEPT !.at = "loop"]
          /\ UNCHANGED <<queue, stamp>>
      BY <1>4, <2>3 DEF TickEnqueues
    <3>2. /\ job' \in [Procs -> Jobs] /\ job'["tick"] = NoJob
          /\ \A r \in Runs : job'[r] # NoJob => exec'[r].at \in {"finish", "notify", "abort"}
          /\ \A q \in Procs : job'[q].at = "write" => job'[q].copy.present
      BY <1>1, <3>1, NoJobMade, Distinct DEF Done, Typed, TypeOK, Placed
    <3> QED BY <1>1, <1>2, <1>3, <2>1, <3>1, <3>2 DEF Typed, TypeOK, Placed
  <2> QED BY <2>2, <2>3
<1>5. CASE TickReturns
  <2>1. /\ entry' = Written("tick") /\ Done("tick") /\ UNCHANGED <<queue, stamp>>
        /\ \/ tick' = [tick EXCEPT !.at = "loop"]
           \/ tick' = [tick EXCEPT !.at = "drain"]
        /\ UNCHANGED <<drainer, wanted>> \/ CallDrain("tick")
    BY <1>5 DEF TickReturns
  <2>2. /\ drainer' \in Drainers /\ wanted' \in BOOLEAN
        /\ drainer'.at = "resolve" => drainer'.item \in Items
        /\ drainer'.at \in {"off", "pick", "resolve", "others"} => drainer'.todo = {}
    BY <2>1, CallTyped DEF Typed, TypeOK, Placed
  <2>3. /\ job' \in [Procs -> Jobs] /\ job'["tick"] = NoJob
        /\ \A r \in Runs : job'[r] # NoJob => exec'[r].at \in {"finish", "notify", "abort"}
        /\ \A q \in Procs : job'[q].at = "write" => job'[q].copy.present
    BY <1>1, <2>1, NoJobMade, Distinct DEF Done, Typed, TypeOK, Placed
  <2>4. tick'.at \in {"loop", "drain"} /\ tick'.task = tick.task /\ tick'.due = tick.due
        /\ tick' \in [at : {"off", "loop", "save", "drain"}, due : SUBSET Scheduled,
                      task : Scheduled \union {"none"}]
        /\ tick.task \in Scheduled
    BY <1>3, <2>1 DEF Typed, TypeOK, Placed
  <2> QED BY <1>1, <1>2, <1>3, <2>1, <2>2, <2>3, <2>4 DEF Typed, TypeOK, Placed
<1> QED BY <1>4, <1>5

LEMMA TickFailTypes == ASSUME Typed, TickFails PROVE Typed'
<1> USE DEF budget
<1>1. UNCHANGED <<stamp, drainer, wanted, exec, talking, ops, ticks>> /\ fails' \in Nat
  BY DEF TickFails, GiveUp, Typed, TypeOK
<1>2. /\ job["tick"] # NoJob /\ "tick" \in Procs /\ tick.at = "save" /\ tick.task \in Scheduled
      /\ tick.task \in Tasks
  BY Distinct, JobFields DEF TickFails, GiveUp, NoJob, Typed, TypeOK, Placed, Tasks
<1>3. CASE job["tick"].then = "next"
  <2>1. /\ Done("tick") /\ tick' = [tick EXCEPT !.at = "loop"]
        /\ UNCHANGED <<entry, queue, strayed>>
    BY <1>3 DEF TickFails
  <2>2. /\ job' \in [Procs -> Jobs] /\ job'["tick"] = NoJob
        /\ \A r \in Runs : job'[r] # NoJob => exec'[r].at \in {"finish", "notify", "abort"}
        /\ \A q \in Procs : job'[q].at = "write" => job'[q].copy.present
    BY <1>1, <1>2, <2>1, NoJobMade, Distinct DEF Done, Typed, TypeOK, Placed
  <2> QED BY <1>1, <2>1, <2>2 DEF Typed, TypeOK, Placed
<1>4. CASE job["tick"].then # "next"
  <2>1. /\ entry' = Recovered(tick.task) /\ queue' = Without(tick.task)
        /\ Save("tick", tick.task, "next") /\ tick' = tick
        /\ strayed' = (strayed \/ entry[tick.task].state = "running")
    BY <1>4 DEF TickFails
  <2>2. entry' \in [Tasks -> Entries] /\ queue' \subseteq Items /\ strayed' \in BOOLEAN
    <3>1. entry' \in [Tasks -> Entries]
      BY <1>2, <2>1, IdleIs DEF Typed
    <3>2. queue' \subseteq Items
      BY <2>1, WithoutIsLess DEF Typed, TypeOK
    <3>3. strayed' \in BOOLEAN
      BY <2>1 DEF Typed, TypeOK
    <3> QED BY <3>1, <3>2, <3>3
  <2>3. PICK j \in Jobs : j.at # "write" /\ ~j.del /\ job' = [job EXCEPT !["tick"] = j]
    <3>1. /\ Saving(tick.task, "next") \in Jobs /\ Saving(tick.task, "next").at # "write"
          /\ ~Saving(tick.task, "next").del
      BY <1>2, JobMade DEF Thens
    <3> QED BY <2>1, <3>1 DEF Save
  <2>4. /\ job' \in [Procs -> Jobs]
        /\ job'["tick"] # NoJob => tick'.at = "save" /\ ~job'["tick"].del
        /\ \A r \in Runs : job'[r] # NoJob => exec'[r].at \in {"finish", "notify", "abort"}
        /\ \A q \in Procs : job'[q].at = "write" => job'[q].copy.present
    BY <1>1, <1>2, <2>1, <2>3, JobStep, Distinct
  <2> QED BY <1>1, <1>2, <2>1, <2>2, <2>4 DEF Typed, TypeOK, Placed
<1> QED BY <1>3, <1>4

LEMMA PickedIs ==
  ASSUME Typed, Stamped, MayPick
  PROVE  /\ Picked \in queue /\ Picked \in Items /\ Live(Picked.task) /\ Picked.task \in Tasks
         /\ Picked.task \notin drainer.skip
         /\ \A y \in Pickable \ {Picked} : Before(Picked, y)
<1>1. Pickable \in SUBSET queue /\ Pickable # {}
  BY DEF Pickable, Candidates, MayPick
<1>2. Picked \in Pickable /\ Picked \in Items /\ \A y \in Pickable \ {Picked} : Before(Picked, y)
  BY <1>1, ItemsAreFirst DEF Picked
<1> QED BY <1>2 DEF Pickable, Candidates, Items

LEMMA StartTypes ==
  ASSUME Typed, NEW x \in Items, NEW S \in SUBSET queue, Start(x, S),
         UNCHANGED <<stamp, wanted, tick, fails, strayed, talking, ops, ticks>>
  PROVE  Typed'
<1>1. x.task \in Tasks
  BY DEF Items
<1>2. PICK r \in Runs : exec[r] = NoRun /\ exec' = [exec EXCEPT ![r] = [at |-> "starting", task |-> x.task]]
  BY DEF Start
<1>3. exec' \in [Runs -> Execs] /\ \A q \in Runs : q # r => exec'[q] = exec[q]
  BY <1>1, <1>2 DEF Execs, Typed, TypeOK
<1>4. job[r] = NoJob
  BY <1>2 DEF Typed, Placed, NoRun
<1>5. entry' \in [Tasks -> Entries]
  <2>1. entry' = [entry EXCEPT ![x.task].state = "running"]
    BY DEF Start
  <2> QED BY <1>1, <2>1, StateIs DEF Typed, TypeOK
<1>6. queue' \subseteq Items
  BY DEF Start, Typed, TypeOK
<1>7. drainer' \in Drainers /\ drainer'.at = "save"
  BY DEF Start, Typed, TypeOK, Drainers
<1>8. PICK j \in Jobs : j.at # "write" /\ job' = [job EXCEPT !["drain"] = j]
  <2>1. Saving(x.task, "start") \in Jobs /\ Saving(x.task, "start").at # "write"
    BY <1>1, JobMade DEF Thens
  <2> QED BY <2>1 DEF Start, Save
<1>9. /\ job' \in [Procs -> Jobs]
      /\ job'["tick"] # NoJob => tick'.at = "save" /\ ~job'["tick"].del
      /\ \A q \in Runs : job'[q] # NoJob => exec'[q].at \in {"finish", "notify", "abort"}
      /\ \A q \in Procs : job'[q].at = "write" => job'[q].copy.present
  BY <1>3, <1>4, <1>8, JobStep, Distinct
<1> QED BY <1>3, <1>5, <1>6, <1>7, <1>9 DEF Typed, TypeOK, Placed

\* What drain does without a write.
LEMMA PassTypes ==
  ASSUME Typed, Stamped,
         \/ \E outside \in SUBSET Windowed : DrainPass(outside)
         \/ PassEnds \/ DrainLoops \/ PickPrompt \/ PickClosed \/ ResolveDefers
  PROVE  Typed'
<1>1. /\ UNCHANGED <<entry, stamp, job, exec, tick, fails, strayed, talking, ops, ticks>>
  BY DEF DrainPass, PassEnds, DrainLoops, PickPrompt, PickClosed, ResolveDefers, DrainStep
<1>2. wanted' \in BOOLEAN
  BY DEF DrainPass, PassEnds, DrainLoops, PickPrompt, PickClosed, ResolveDefers, Typed, TypeOK
<1>3. queue' \subseteq Items
  <2>1. queue \subseteq Items
    BY DEF Typed, TypeOK
  <2>2. queue' \subseteq queue \/ ResolveDefers
    BY DEF DrainPass, PassEnds, DrainLoops, PickPrompt, PickClosed
  <2>3. CASE ResolveDefers
    <3>1. drainer.item \in Items
      BY <2>3 DEF ResolveDefers, Typed, Placed
    <3> QED BY <2>1, <2>3, <3>1, WithoutIsLess DEF ResolveDefers
  <2> QED BY <2>1, <2>2, <2>3
<1>4. /\ drainer' \in Drainers
      /\ drainer'.at = "resolve" => drainer'.item \in Items
      /\ drainer'.at \in {"off", "pick", "resolve", "others"} => drainer'.todo = {}
  <2>1. ASSUME NEW outside \in SUBSET Windowed, DrainPass(outside)
        PROVE  /\ drainer' \in Drainers
               /\ drainer'.at = "resolve" => drainer'.item \in Items
               /\ drainer'.at \in {"off", "pick", "resolve", "others"} => drainer'.todo = {}
    BY <2>1 DEF DrainPass, Typed, TypeOK, Drainers
  <2>2. CASE PassEnds
    BY <2>2 DEF PassEnds, Typed, TypeOK, Drainers, Placed
  <2>3. CASE DrainLoops
    BY <2>3 DEF DrainLoops, Resting, Typed, TypeOK, Drainers, Placed
  <2>4. CASE PickPrompt
    BY <2>4, PickedIs DEF PickPrompt, MayPick, Typed, TypeOK, Drainers, Placed
  <2>5. CASE PickClosed
    BY <2>5, PickedIs DEF PickClosed, MayPick, Typed, TypeOK, Drainers, Placed
  <2>6. CASE ResolveDefers
    BY <2>6 DEF ResolveDefers, Typed, TypeOK, Drainers, Placed, Items
  <2> QED BY <2>1, <2>2, <2>3, <2>4, <2>5, <2>6
<1> QED BY <1>1, <1>2, <1>3, <1>4 DEF Typed, TypeOK, Placed

LEMMA FinishMade ==
  ASSUME NEW t \in Tasks
  PROVE  FinishJob(t) \in Jobs /\ FinishJob(t).at = "wait" /\ FinishJob(t) # NoJob
BY JobMade DEF FinishJob, Thens

LEMMA PushTypes ==
  ASSUME Typed,
         \/ \E t \in Tasks : DrainPush(t)
         \/ \E off \in BOOLEAN : ResolveFails(off)
  PROVE  Typed'
<1>1. UNCHANGED <<wanted, exec, tick, fails, strayed, talking, ops, ticks>>
  BY DEF DrainPush, ResolveFails, DrainStep
<1>2. /\ entry' \in [Tasks -> Entries] /\ queue' \subseteq Items /\ stamp' \in Nat
      /\ \E j \in Jobs : j.at # "write" /\ job' = [job EXCEPT !["drain"] = j]
      /\ drainer' \in Drainers /\ drainer'.at = "save"
  <2>1. ASSUME NEW t \in Tasks, DrainPush(t)
        PROVE  /\ entry' \in [Tasks -> Entries] /\ queue' \subseteq Items /\ stamp' \in Nat
               /\ \E j \in Jobs : j.at # "write" /\ job' = [job EXCEPT !["drain"] = j]
               /\ drainer' \in Drainers /\ drainer'.at = "save"
    <3>1. entry' \in [Tasks -> Entries]
      BY <2>1, StateIs DEF DrainPush, Typed, TypeOK
    <3>2. queue' \subseteq Items /\ stamp' \in Nat
      BY <2>1, PushTyped DEF DrainPush
    <3>3. Saving(t, "push") \in Jobs /\ Saving(t, "push").at # "write"
      BY JobMade DEF Thens
    <3>4. drainer' \in Drainers /\ drainer'.at = "save"
      BY <2>1 DEF DrainPush, Typed, TypeOK, Drainers
    <3> QED BY <2>1, <3>1, <3>2, <3>3, <3>4 DEF DrainPush, Save
  <2>2. ASSUME NEW off \in BOOLEAN, ResolveFails(off)
        PROVE  /\ entry' \in [Tasks -> Entries] /\ queue' \subseteq Items /\ stamp' \in Nat
               /\ \E j \in Jobs : j.at # "write" /\ job' = [job EXCEPT !["drain"] = j]
               /\ drainer' \in Drainers /\ drainer'.at = "save"
    <3> DEFINE t == drainer.item.task
    <3>1. t \in Tasks
      BY <2>2 DEF ResolveFails, Typed, Placed, Items
    <3>2. /\ queue' = Without(t) /\ entry' = Finished(t, off)
          /\ job' = [job EXCEPT !["drain"] = FinishJob(t)]
          /\ drainer' = [drainer EXCEPT !.at = "save", !.item = NoItem] /\ stamp' = stamp
      BY <2>2 DEF ResolveFails
    <3> HIDE DEF t
    <3>3. entry' \in [Tasks -> Entries]
      BY <3>1, <3>2, IdleIs DEF Typed
    <3>4. queue' \subseteq Items /\ stamp' \in Nat
      BY <3>2, WithoutIsLess DEF Typed, TypeOK
    <3>5. FinishJob(t) \in Jobs /\ FinishJob(t).at # "write"
      BY <3>1, FinishMade
    <3>6. drainer' \in Drainers /\ drainer'.at = "save"
      BY <3>2 DEF Typed, TypeOK, Drainers
    <3> QED BY <3>2, <3>3, <3>4, <3>5, <3>6
  <2> QED BY <2>1, <2>2
<1>3. /\ job' \in [Procs -> Jobs]
      /\ job'["tick"] # NoJob => tick'.at = "save" /\ ~job'["tick"].del
      /\ \A q \in Runs : job'[q] # NoJob => exec'[q].at \in {"finish", "notify", "abort"}
      /\ \A q \in Procs : job'[q].at = "write" => job'[q].copy.present
  BY <1>1, <1>2, JobStep, Distinct
<1> QED BY <1>1, <1>2, <1>3 DEF Typed, TypeOK, Placed

LEMMA PicksTypes ==
  ASSUME Typed, Stamped, PickScript \/ ResolveStarts PROVE Typed'
<1>1. UNCHANGED <<stamp, wanted, tick, fails, strayed, talking, ops, ticks>>
  BY DEF PickScript, ResolveStarts, DrainStep
<1>2. CASE PickScript
  <2>1. Picked \in Items /\ queue \ Dead \in SUBSET queue /\ Start(Picked, queue \ Dead)
    BY <1>2, PickedIs DEF PickScript
  <2> QED BY <1>1, <2>1, StartTypes
<1>3. CASE ResolveStarts
  <2>1. drainer.item \in Items /\ queue \in SUBSET queue /\ Start(drainer.item, queue)
    BY <1>3 DEF ResolveStarts, Typed, Placed
  <2> QED BY <1>1, <2>1, StartTypes
<1> QED BY <1>2, <1>3

\* What drain does when its write is over.
LEMMA GoesOn ==
  ASSUME Typed, job["drain"] # NoJob, DrainGoesOn
  PROVE  /\ drainer' \in Drainers /\ wanted' \in BOOLEAN
         /\ \E j \in Jobs : j.at # "write" /\ job' = [job EXCEPT !["drain"] = j]
         /\ exec' \in [Runs -> Execs]
         /\ \A r \in Runs :
              /\ Executing(r)' <=> Executing(r)
              /\ Executing(r) => exec'[r].task = exec[r].task
              /\ ~Executing(r) => exec'[r] = exec[r]
         /\ drainer'.todo = drainer.todo /\ drainer'.skip = drainer.skip
         /\ drainer'.item = drainer.item
         /\ \/ drainer' = drainer /\ wanted' = wanted
            \/ drainer'.at = (IF drainer.todo = {} THEN "pick" ELSE "push")
<1>1. job["drain"].task \in Tasks
  BY Distinct, JobFields DEF Typed, TypeOK
<1>2. CASE MustNotify(job["drain"].task, job["drain"].then)
  <2>1. Save("drain", job["drain"].task, "notify") /\ UNCHANGED <<drainer, wanted, exec>>
    BY <1>2 DEF DrainGoesOn
  <2>2. Saving(job["drain"].task, "notify") \in Jobs /\ Saving(job["drain"].task, "notify").at # "write"
    BY <1>1, JobMade DEF Thens
  <2> QED BY <2>1, <2>2 DEF Save, Typed, TypeOK, Executing
<1>3. CASE ~MustNotify(job["drain"].task, job["drain"].then)
  <2>1. /\ Done("drain") /\ exec' = Launched
        /\ wanted' = (wanted \/ job["drain"].then \in {"finish", "notify"})
        /\ drainer' = [drainer EXCEPT !.at = IF drainer.todo = {} THEN "pick" ELSE "push"]
    BY <1>3 DEF DrainGoesOn
  <2>2. wanted' \in BOOLEAN
    BY <2>1 DEF Typed, TypeOK
  <2>3. /\ drainer' \in Drainers /\ drainer'.at = (IF drainer.todo = {} THEN "pick" ELSE "push")
        /\ drainer'.todo = drainer.todo /\ drainer'.skip = drainer.skip
        /\ drainer'.item = drainer.item
    BY <2>1 DEF Typed, TypeOK, Drainers
  <2>4. \E j \in Jobs : j.at # "write" /\ job' = [job EXCEPT !["drain"] = j]
    BY <2>1, NoJobMade DEF Done
  <2>5. ASSUME NEW r \in Runs
        PROVE  /\ exec'[r] \in Execs
               /\ Executing(r)' <=> Executing(r)
               /\ Executing(r) => exec'[r].task = exec[r].task
               /\ ~Executing(r) => exec'[r] = exec[r]
    <3>1. exec[r] \in Execs /\ exec'[r] = IF exec[r].at = "starting" THEN [exec[r] EXCEPT !.at = "run"] ELSE exec[r]
      BY <2>1 DEF Launched, Typed, TypeOK
    <3>2. CASE exec[r].at = "starting"
      BY <3>1, <3>2 DEF Execs, NoRun, Executing
    <3>3. CASE exec[r].at # "starting"
      BY <3>1, <3>3 DEF Executing
    <3> QED BY <3>2, <3>3
  <2>6. exec' \in [Runs -> Execs]
    BY <2>1, <2>5 DEF Launched
  <2> QED BY <2>2, <2>3, <2>4, <2>5, <2>6
<1> QED BY <1>2, <1>3

LEMMA GoesOnTypes ==
  ASSUME Typed, job["drain"] # NoJob, DrainGoesOn, UNCHANGED <<queue, stamp, tick, talking, ops, ticks>>,
         entry' \in [Tasks -> Entries], fails' \in Nat, strayed' \in BOOLEAN
  PROVE  Typed'
<1>1. /\ drainer' \in Drainers /\ wanted' \in BOOLEAN /\ exec' \in [Runs -> Execs]
      /\ \E j \in Jobs : j.at # "write" /\ job' = [job EXCEPT !["drain"] = j]
      /\ \A r \in Runs : job[r] # NoJob => exec'[r].at = exec[r].at
  BY GoesOn DEF Executing, Typed, Placed
<1>2. /\ drainer'.at = "resolve" => drainer'.item \in Items
      /\ drainer'.at \in {"off", "pick", "resolve", "others"} => drainer'.todo = {}
  BY GoesOn DEF Typed, Placed
<1>3. /\ job' \in [Procs -> Jobs]
      /\ job'["tick"] # NoJob => tick'.at = "save" /\ ~job'["tick"].del
      /\ \A q \in Runs : job'[q] # NoJob => exec'[q].at \in {"finish", "notify", "abort"}
      /\ \A q \in Procs : job'[q].at = "write" => job'[q].copy.present
  <2>1. PICK j \in Jobs : j.at # "write" /\ job' = [job EXCEPT !["drain"] = j]
    BY <1>1
  <2>2. /\ "drain" \in Procs /\ "drain" # "tick" /\ tick' = tick
        /\ \A r \in Runs : r # "drain"
    BY Distinct
  <2>3. \A r \in Runs : job[r] # NoJob => exec'[r].at = exec[r].at
    BY <1>1
  <2> QED BY <2>1, <2>2, <2>3, JobStep
<1> QED BY <1>1, <1>2, <1>3 DEF Typed, TypeOK, Placed

LEMMA DrainWriteTypes ==
  ASSUME Typed, DrainReturns \/ DrainFails PROVE Typed'
<1>1. UNCHANGED <<stamp, talking, ops, ticks>> /\ job["drain"] # NoJob
  BY DEF DrainReturns, DrainFails, DrainStep, Return, GiveUp, NoJob
<1>2. CASE DrainReturns
  <2>1. /\ Return("drain") /\ DrainGoesOn /\ UNCHANGED <<queue, tick, fails>>
        /\ entry' = Written("drain")
    BY <1>2 DEF DrainReturns
  <2>2. strayed' \in BOOLEAN /\ job["drain"].at = "write"
    BY <2>1, Returned DEF Typed
  <2>3. entry' \in [Tasks -> Entries] /\ fails' \in Nat
    BY <2>1, <2>2, WrittenTyped, Distinct DEF Typed, TypeOK
  <2> QED BY <1>1, <2>1, <2>2, <2>3, GoesOnTypes
<1>3. CASE DrainFails
  <2>0. fails' \in Nat
    BY <1>3 DEF DrainFails, GiveUp, Typed, TypeOK
  <2>1. CASE job["drain"].then # "push"
    <3>1. DrainGoesOn /\ UNCHANGED <<entry, queue, tick, strayed>>
      BY <1>3, <2>1 DEF DrainFails
    <3>2. entry' \in [Tasks -> Entries] /\ strayed' \in BOOLEAN
      BY <3>1 DEF Typed, TypeOK
    <3> QED BY <1>1, <2>0, <3>1, <3>2, GoesOnTypes
  <2>2. CASE job["drain"].then = "push"
    <3>1. drainer' = Resting /\ UNCHANGED <<wanted, exec>>
      BY <1>3, <2>2 DEF DrainFails
    <3>2. drainer' \in Drainers /\ drainer'.at = "off" /\ drainer'.todo = {}
      BY <3>1 DEF Resting, Drainers
    <3>3. CASE drainer.owner = "tick" /\ tick.at = "drain"
      <4>1. /\ entry' = Recovered(tick.task) /\ queue' = Without(tick.task)
            /\ job' = [job EXCEPT !["drain"] = NoJob, !["tick"] = Saving(tick.task, "next")]
            /\ strayed' = (strayed \/ entry[tick.task].state = "running")
            /\ tick' = [tick EXCEPT !.at = "save"]
        BY <1>3, <2>2, <3>3 DEF DrainFails
      <4>2. tick.task \in Scheduled /\ tick.task \in Tasks
        BY <3>3 DEF Typed, Placed, Tasks
      <4>3. entry' \in [Tasks -> Entries]
        BY <4>1, <4>2, IdleIs DEF Typed
      <4>4. queue' \subseteq Items
        BY <4>1, WithoutIsLess DEF Typed, TypeOK
      <4>5. strayed' \in BOOLEAN
        BY <4>1 DEF Typed, TypeOK
      <4>6. /\ tick' \in [at : {"off", "loop", "save", "drain"}, due : SUBSET Scheduled,
                          task : Scheduled \union {"none"}]
            /\ tick'.at = "save" /\ tick'.task \in Scheduled
        BY <4>1, <4>2 DEF Typed, TypeOK
      <4>7. /\ Saving(tick.task, "next") \in Jobs /\ Saving(tick.task, "next").at # "write"
            /\ ~Saving(tick.task, "next").del
        BY <4>2, JobMade DEF Thens
      <4> DEFINE j == Saving(tick.task, "next")
      <4>8. /\ job' \in [Procs -> Jobs]
            /\ \A q \in Procs : job'[q] = IF q = "tick" THEN j
                                          ELSE IF q = "drain" THEN NoJob ELSE job[q]
        BY <4>1, <4>7, NoJobMade, Distinct DEF Typed, TypeOK
      <4> HIDE DEF j
      <4>9. /\ ~job'["tick"].del
            /\ \A r \in Runs : job'[r] # NoJob => exec'[r].at \in {"finish", "notify", "abort"}
            /\ \A q \in Procs : job'[q].at = "write" => job'[q].copy.present
        BY <3>1, <4>7, <4>8, NoJobMade, Distinct DEF Typed, Placed, j
      <4> QED BY <1>1, <2>0, <3>1, <3>2, <4>3, <4>4, <4>5, <4>6, <4>8, <4>9 DEF Typed, TypeOK, Placed
    <3>4. CASE ~(drainer.owner = "tick" /\ tick.at = "drain")
      <4>1. Done("drain") /\ UNCHANGED <<entry, queue, tick, strayed>>
        BY <1>3, <2>2, <3>4 DEF DrainFails
      <4>2. /\ job' \in [Procs -> Jobs]
            /\ job'["tick"] # NoJob => tick'.at = "save" /\ ~job'["tick"].del
            /\ \A r \in Runs : job'[r] # NoJob => exec'[r].at \in {"finish", "notify", "abort"}
            /\ \A q \in Procs : job'[q].at = "write" => job'[q].copy.present
        BY <3>1, <4>1, JobStep, NoJobMade, Distinct DEF Done
      <4> QED BY <1>1, <2>0, <3>1, <3>2, <4>1, <4>2 DEF Typed, TypeOK, Placed
    <3> QED BY <3>3, <3>4
  <2> QED BY <2>1, <2>2
<1> QED BY <1>2, <1>3

\* What a step of an execution does to exec and job.
LEMMA RunStep ==
  ASSUME Typed, NEW r \in Runs, NEW e \in Execs, NEW j \in Jobs, j.at # "write",
         exec' = [exec EXCEPT ![r] = e],
         job' = job \/ job' = [job EXCEPT ![r] = j], job[r] = NoJob \/ job' # job,
         job' # job => j = NoJob \/ e.at \in {"finish", "notify", "abort"},
         UNCHANGED tick
  PROVE  /\ exec' \in [Runs -> Execs] /\ job' \in [Procs -> Jobs]
         /\ job'["tick"] # NoJob => tick'.at = "save" /\ ~job'["tick"].del
         /\ \A q \in Runs : job'[q] # NoJob => exec'[q].at \in {"finish", "notify", "abort"}
         /\ \A q \in Procs : job'[q].at = "write" => job'[q].copy.present
<1>1. exec' \in [Runs -> Execs] /\ exec'[r] = e /\ \A q \in Runs : q # r => exec'[q] = exec[q]
  BY DEF Typed, TypeOK
<1>2. CASE job' = job
  <2>1. job[r] = NoJob
    BY <1>2
  <2> QED BY <1>1, <1>2, <2>1 DEF Typed, TypeOK, Placed
<1>3. CASE job' = [job EXCEPT ![r] = j] /\ job' # job
  <2>1. r \in Procs /\ r # "tick"
    BY Distinct
  <2>2. \A q \in Runs : r = q /\ j # NoJob => exec'[q].at \in {"finish", "notify", "abort"}
    BY <1>1, <1>3
  <2>3. \A q \in Runs : r # q /\ job[q] # NoJob => exec'[q].at = exec[q].at
    BY <1>1
  <2>4. /\ job' \in [Procs -> Jobs]
        /\ job'["tick"] # NoJob => tick'.at = "save" /\ ~job'["tick"].del
        /\ \A q \in Runs : job'[q] # NoJob => exec'[q].at \in {"finish", "notify", "abort"}
        /\ \A q \in Procs : job'[q].at = "write" => job'[q].copy.present
    BY <1>3, <2>1, <2>2, <2>3, JobStep
  <2> QED BY <1>1, <2>4
<1> QED BY <1>1, <1>2, <1>3

LEMMA RunTypes ==
  ASSUME Typed, NEW r \in Runs,
         \/ \E off \in BOOLEAN : RunEnds(r, off)
         \/ RunAborts(r) \/ RunNotifies(r) \/ RunDrains(r)
  PROVE  Typed'
<1> USE DEF budget
<1>1. /\ UNCHANGED <<queue, stamp, tick, talking, ops, ticks, fails, strayed>>
      /\ exec[r] # NoRun /\ exec[r] \in Execs /\ exec[r].task \in Tasks /\ r \in Procs
  BY ExecFields, Distinct DEF RunEnds, RunAborts, RunNotifies, RunDrains, NoRun, Typed, TypeOK
<1>2. exec[r].at # "notify" => job[r] = NoJob \/ exec[r].at \in {"finish", "abort"}
  BY DEF Typed, Placed
<1>3. /\ entry' \in [Tasks -> Entries]
      /\ UNCHANGED <<drainer, wanted>> \/ CallDrain("none")
  <2>1. ASSUME NEW off \in BOOLEAN, RunEnds(r, off)
        PROVE  /\ entry' \in [Tasks -> Entries]
               /\ UNCHANGED <<drainer, wanted>> \/ CallDrain("none")
    <3>1. entry' = Finished(exec[r].task, off)
      BY <2>1 DEF RunEnds
    <3> QED BY <1>1, <2>1, <3>1, IdleIs DEF RunEnds, Typed
  <2>2. CASE RunAborts(r)
    <3>1. CASE entry[exec[r].task].state = "running"
      <4> DEFINE t == exec[r].task
                 on == entry[t].enabled /\ t \notin Idle
      <4>1. on \in BOOLEAN /\ entry' = [entry EXCEPT ![t].state = "idle", ![t].enabled = on]
        BY <2>2, <3>1 DEF RunAborts, Typed, TypeOK, Entries
      <4> HIDE DEF on
      <4>2. entry' \in [Tasks -> Entries]
        BY <1>1, <4>1 DEF Typed, TypeOK, Entries
      <4> QED BY <2>2, <3>1, <4>2 DEF RunAborts
    <3>2. CASE entry[exec[r].task].state # "running"
      BY <2>2, <3>2 DEF RunAborts, Typed, TypeOK
    <3> QED BY <3>1, <3>2
  <2>3. CASE RunNotifies(r) \/ RunDrains(r)
    BY <2>3 DEF RunNotifies, RunDrains, Typed, TypeOK
  <2> QED BY <2>1, <2>2, <2>3
<1>4. /\ drainer' \in Drainers /\ wanted' \in BOOLEAN
      /\ drainer'.at = "resolve" => drainer'.item \in Items
      /\ drainer'.at \in {"off", "pick", "resolve", "others"} => drainer'.todo = {}
  BY <1>3, CallTyped DEF Typed, TypeOK, Placed
<1>5. \E e \in Execs, j \in Jobs :
        /\ j.at # "write" /\ exec' = [exec EXCEPT ![r] = e]
        /\ job' = job \/ job' = [job EXCEPT ![r] = j]
        /\ job[r] = NoJob
        /\ job' # job => j = NoJob \/ e.at \in {"finish", "notify", "abort"}
  <2>1. NoRun \in Execs /\ \A at \in {"finish", "notify", "tail", "abort"} :
                             [exec[r] EXCEPT !.at = at] \in Execs /\ [exec[r] EXCEPT !.at = at].at = at
    BY <1>1 DEF Execs
  <2>2. ASSUME NEW off \in BOOLEAN, RunEnds(r, off)
        PROVE  \E e \in Execs, j \in Jobs :
                 /\ j.at # "write" /\ exec' = [exec EXCEPT ![r] = e]
                 /\ job' = job \/ job' = [job EXCEPT ![r] = j]
                 /\ job[r] = NoJob
                 /\ job' # job => j = NoJob \/ e.at \in {"finish", "notify", "abort"}
    <3>1. FinishJob(exec[r].task) \in Jobs /\ FinishJob(exec[r].task).at # "write"
      BY <1>1, FinishMade
    <3>2. exec' = [exec EXCEPT ![r] = [exec[r] EXCEPT !.at = "finish"]]
      BY <1>1, <2>2 DEF RunEnds, Typed, TypeOK
    <3>3. job[r] = NoJob /\ job' = [job EXCEPT ![r] = FinishJob(exec[r].task)]
      BY <1>2, <2>2 DEF RunEnds
    <3> QED BY <2>1, <3>1, <3>2, <3>3
  <2>3. CASE RunAborts(r)
    <3>1. job[r] = NoJob
      BY <1>2, <2>3 DEF RunAborts
    <3>2. CASE exec' = [exec EXCEPT ![r] = NoRun] /\ job' = job
      BY <2>1, <3>1, <3>2, NoJobMade
    <3>3. CASE Save(r, exec[r].task, "abort") /\ exec' = [exec EXCEPT ![r].at = "abort"]
      <4>1. Saving(exec[r].task, "abort") \in Jobs /\ Saving(exec[r].task, "abort").at # "write"
        BY <1>1, JobMade DEF Thens
      <4>2. exec' = [exec EXCEPT ![r] = [exec[r] EXCEPT !.at = "abort"]]
        BY <1>1, <3>3 DEF Typed, TypeOK
      <4> QED BY <2>1, <3>1, <3>3, <4>1, <4>2 DEF Save
    <3> QED BY <2>3, <3>2, <3>3 DEF RunAborts
  <2>4. CASE RunNotifies(r)
    <3>1. Saving(exec[r].task, "notify") \in Jobs /\ Saving(exec[r].task, "notify").at # "write"
      BY <1>1, JobMade DEF Thens
    <3>2. job[r] = NoJob /\ exec' = [exec EXCEPT ![r] = exec[r]] /\ exec[r].at = "notify"
      BY <2>4, Distinct, JobFields DEF RunNotifies, Typed, TypeOK
    <3> QED BY <1>1, <2>4, <3>1, <3>2 DEF RunNotifies, Save
  <2>5. CASE RunDrains(r)
    <3>1. job[r] = NoJob /\ exec' = [exec EXCEPT ![r] = NoRun] /\ job' = job
      BY <1>2, <2>5 DEF RunDrains
    <3> QED BY <2>1, <3>1, NoJobMade
  <2> QED BY <2>2, <2>3, <2>4, <2>5
<1>6. /\ exec' \in [Runs -> Execs] /\ job' \in [Procs -> Jobs]
      /\ job'["tick"] # NoJob => tick'.at = "save" /\ ~job'["tick"].del
      /\ \A q \in Runs : job'[q] # NoJob => exec'[q].at \in {"finish", "notify", "abort"}
      /\ \A q \in Procs : job'[q].at = "write" => job'[q].copy.present
  <2>1. PICK e \in Execs, j \in Jobs :
          /\ j.at # "write" /\ exec' = [exec EXCEPT ![r] = e]
          /\ job' = job \/ job' = [job EXCEPT ![r] = j]
          /\ job[r] = NoJob
          /\ job' # job => j = NoJob \/ e.at \in {"finish", "notify", "abort"}
    BY <1>5
  <2> QED BY <1>1, <2>1, RunStep
<1> QED BY <1>1, <1>3, <1>4, <1>6 DEF Typed, TypeOK, Placed

\* The step of an execution whose write is over.
LEMMA RunGoes ==
  ASSUME Typed, NEW r \in Runs, job[r] # NoJob, RunGoesOn(r)
  PROVE  /\ exec[r].at \in {"finish", "notify", "abort"}
         /\ \E e \in Execs : /\ exec' = [exec EXCEPT ![r] = e] /\ e.at \in {"free", "notify", "tail"}
                             /\ exec[r].at \in {"finish", "notify"} => e.at \in {"notify", "tail"}
         /\ job' = [job EXCEPT ![r] = NoJob]
<1>1. exec[r].at \in {"finish", "notify", "abort"} /\ exec[r] \in Execs
  BY DEF Typed, Placed, TypeOK
<1>2. job' = [job EXCEPT ![r] = NoJob]
  BY DEF RunGoesOn, Done
<1>3. PICK at \in {"notify", "tail"} :
        exec' = [exec EXCEPT ![r] = IF exec[r].at = "abort" THEN NoRun ELSE [exec[r] EXCEPT !.at = at]]
  BY DEF RunGoesOn, Typed, TypeOK
<1>4. CASE exec[r].at = "abort"
  <2>1. NoRun \in Execs /\ NoRun.at = "free" /\ exec' = [exec EXCEPT ![r] = NoRun]
    BY <1>3, <1>4 DEF Execs, NoRun
  <2> QED BY <1>1, <1>2, <1>4, <2>1
<1>5. CASE exec[r].at # "abort"
  <2>1. [exec[r] EXCEPT !.at = at] \in Execs /\ [exec[r] EXCEPT !.at = at].at = at
    BY <1>1, <1>5 DEF Execs, NoRun
  <2>2. exec' = [exec EXCEPT ![r] = [exec[r] EXCEPT !.at = at]]
    BY <1>3, <1>5
  <2> QED BY <1>1, <1>2, <2>1, <2>2
<1> QED BY <1>4, <1>5

LEMMA RunWriteTypes ==
  ASSUME Typed, NEW r \in Runs, RunReturns(r) \/ RunFails(r) PROVE Typed'
<1> USE DEF budget
<1>1. /\ UNCHANGED <<queue, stamp, drainer, wanted, tick, talking, ops, ticks>>
      /\ RunGoesOn(r) /\ job[r] # NoJob /\ r \in Procs
  BY Distinct DEF RunReturns, RunFails, Return, GiveUp, NoJob
<1>2. entry' \in [Tasks -> Entries] /\ strayed' \in BOOLEAN /\ fails' \in Nat
  <2>1. CASE RunReturns(r)
    <3>1. Return(r) /\ entry' = Written(r) /\ fails' = fails
      BY <2>1 DEF RunReturns
    <3>2. strayed' \in BOOLEAN /\ job[r].at = "write"
      BY <3>1, Returned DEF Typed
    <3> QED BY <1>1, <3>1, <3>2, WrittenTyped DEF Typed, TypeOK
  <2>2. CASE RunFails(r)
    BY <2>2 DEF RunFails, GiveUp, Typed, TypeOK
  <2> QED BY <1>1, <2>1, <2>2
<1>3. PICK e \in Execs : exec' = [exec EXCEPT ![r] = e]
  BY <1>1, RunGoes
<1>4. job' = [job EXCEPT ![r] = NoJob]
  BY <1>1, RunGoes
<1>5. /\ exec' \in [Runs -> Execs] /\ job' \in [Procs -> Jobs]
      /\ job'["tick"] # NoJob => tick'.at = "save" /\ ~job'["tick"].del
      /\ \A q \in Runs : job'[q] # NoJob => exec'[q].at \in {"finish", "notify", "abort"}
      /\ \A q \in Procs : job'[q].at = "write" => job'[q].copy.present
  <2>1. job' # job
    BY <1>1, <1>4 DEF Typed, TypeOK
  <2> QED BY <1>1, <1>3, <1>4, <2>1, RunStep, NoJobMade
<1> QED BY <1>1, <1>2, <1>5 DEF Typed, TypeOK, Placed

LEMMA TypesNext == Typed /\ Stamped /\ [Next]_vars => Typed'
<1> SUFFICES ASSUME Typed, Stamped, [Next]_vars PROVE Typed'
  OBVIOUS
<1>1. CASE Api
  BY <1>1, EnqueueTyped, MoveToFrontTyped, CallTypes DEF Api
<1>2. CASE Talk \/ Hush
  <2>1. /\ UNCHANGED <<entry, queue, stamp, drainer, wanted, job, exec, tick, ticks, fails, strayed>>
        /\ talking' \in BOOLEAN /\ (ops' = ops \/ ops' = ops + 1)
    BY <1>2 DEF Talk, Hush, budget
  <2>2. ops' \in Nat
    BY <2>1 DEF Typed, TypeOK
  <2> QED BY <2>1, <2>2 DEF Typed, TypeOK, Placed
<1>3. CASE Trouble
  BY <1>3, ClientTypes, RunWriteTypes, TickFailTypes, DrainWriteTypes DEF Trouble
<1>4. CASE Ticking \/ \E due \in SUBSET Scheduled : TickStarts(due)
  BY <1>4, TickTypes, TickReturnTypes DEF Ticking
<1>5. CASE \E p \in Procs : TakeLock(p)
  BY <1>5, LockTypes
<1>6. CASE \E c \in Clients : ClientReturns(c)
  BY <1>6, ClientTypes
<1>7. CASE Draining
  BY <1>7, PassTypes, PushTypes, PicksTypes, DrainWriteTypes DEF Draining
<1>8. CASE \E r \in Runs : Running(r)
  BY <1>8, RunTypes, RunWriteTypes DEF Running
<1>9. CASE UNCHANGED vars
  BY <1>9 DEF vars, budget, Typed, TypeOK, Placed
<1> QED BY <1>1, <1>2, <1>3, <1>4, <1>5, <1>6, <1>7, <1>8, <1>9 DEF Next

(***************************************************************************)
(* Stamps.                                                                 *)
(***************************************************************************)
LEMMA NoItemIsNone == NoItem \notin Items
<1>1. DOMAIN NoItem = {"task"}
  BY DEF NoItem
<1>2. \A x \in Items : "at" \in DOMAIN x
  BY DEF Items
<1> QED BY <1>1, <1>2

LEMMA NothingNew ==
  ASSUME Typed, Stamped, stamp' = stamp,
         drainer'.item \in queue \union {drainer.item, NoItem},
         queue' \subseteq queue \union Given
  PROVE  Stamped'
<1>1. Given' \subseteq queue \union Given
  BY NoItemIsNone DEF Given, Typed, TypeOK
<1> QED BY <1>1 DEF Stamped

LEMMA NewItem ==
  ASSUME Typed, Stamped, NEW t \in Tasks, NEW source \in {"manual", "schedule", "idle"},
         NEW front \in BOOLEAN, Push(t, source, front), drainer'.item = drainer.item
  PROVE  Stamped'
<1> DEFINE z == [task |-> t, source |-> source, front |-> front, at |-> stamp]
<1>1. queue' = queue \union {z} /\ stamp' = stamp + 1 /\ stamp \in Nat /\ z.at = stamp
  BY DEF Push, Typed, TypeOK
<1> HIDE DEF z
<1>2. Given' = Given
  BY DEF Given
<1>3. \A x \in queue \union Given : x.at \in Nat
  BY DEF Typed, TypeOK, Given, Items
<1>4. ASSUME NEW x \in queue' \union Given' PROVE x.at < stamp'
  BY <1>1, <1>2, <1>3 DEF Stamped
<1>5. ASSUME NEW x \in queue' \union Given', NEW y \in queue' \union Given', x.at = y.at
      PROVE  x = y
  <2>1. CASE x \in queue \union Given /\ y \in queue \union Given
    BY <1>5, <2>1 DEF Stamped
  <2>2. CASE x = z \/ y = z
    <3>1. \A w \in queue \union Given : w.at # z.at
      BY <1>1, <1>3 DEF Stamped
    <3> QED BY <1>1, <1>2, <1>5, <2>2, <3>1
  <2> QED BY <1>1, <1>2, <2>1, <2>2
<1> QED BY <1>4, <1>5 DEF Stamped

LEMMA MovedItem ==
  ASSUME Typed, Stamped, NEW c \in Clients, NEW t \in Tasks, MoveToFront(c, t)
  PROVE  Stamped'
<1> DEFINE x == First(ItemsOf(t))
           y == [x EXCEPT !.front = TRUE]
<1>1. x \in queue /\ x \in Items /\ y \in Items /\ y.at = x.at
  <2>1. ItemsOf(t) # {} /\ ItemsOf(t) \in SUBSET queue
    BY DEF MoveToFront, ItemsOf
  <2>2. First(ItemsOf(t)) \in Items /\ First(ItemsOf(t)) \in ItemsOf(t)
    BY <2>1, ItemsAreFirst
  <2> QED BY <2>1, <2>2 DEF Items
<1>2. /\ queue' = (queue \ {x}) \union {y}
      /\ drainer' = IF drainer.item = x THEN [drainer EXCEPT !.item = y] ELSE drainer
      /\ stamp' = stamp
  BY DEF MoveToFront
<1> HIDE DEF x, y
<1>3. Given' \subseteq (Given \ {x}) \union {y}
  <2>1. CASE drainer.item = x
    <3>1. drainer'.item = y
      BY <1>2, <2>1 DEF Typed, TypeOK, Drainers
    <3> QED BY <3>1 DEF Given
  <2>2. CASE drainer.item # x
    BY <1>2, <2>2 DEF Given
  <2> QED BY <2>1, <2>2
<1>4. \A w \in queue' \union Given' : w = y \/ (w \in queue \union Given /\ w # x)
  BY <1>2, <1>3
<1>5. \A w \in queue \union Given : w # x => w.at # x.at
  BY <1>1 DEF Stamped
<1>6. ASSUME NEW w \in queue' \union Given' PROVE w.at < stamp'
  BY <1>1, <1>2, <1>4 DEF Stamped
<1>7. ASSUME NEW w \in queue' \union Given', NEW z \in queue' \union Given', w.at = z.at
      PROVE  w = z
  BY <1>1, <1>4, <1>5, <1>7 DEF Stamped
<1> QED BY <1>6, <1>7 DEF Stamped

LEMMA StampsNext == Typed /\ Stamped /\ [Next]_vars => Stamped'
<1> SUFFICES ASSUME Typed, Stamped, [Next]_vars PROVE Stamped'
  OBVIOUS
<1> USE DEF budget
\* Neither the queue nor the item changes, or drain gives its item up.
<1>1. CASE /\ UNCHANGED <<queue, stamp>>
           /\ drainer'.item \in {drainer.item, NoItem}
  BY <1>1, NothingNew
<1>2. CASE \E c \in Clients, t \in Tasks, b \in BOOLEAN : Enqueue(c, t, b)
  BY <1>2, NewItem DEF Enqueue
<1>3. CASE \E c \in Clients, t \in Tasks : MoveToFront(c, t)
  BY <1>3, MovedItem
<1>4. ASSUME NEW c \in Clients, NEW t \in Tasks, NEW b \in BOOLEAN,
             Update(c, t, b) \/ Dequeue(c, t) \/ Remove(c, t)
      PROVE  Stamped'
  <2>1. queue' \subseteq queue /\ UNCHANGED <<stamp, drainer>>
    BY <1>4, WithoutIsLess DEF Update, Dequeue, Remove
  <2> QED BY <2>1, NothingNew
<1>5. CASE TickEnqueues
  <2>1. CASE Push(job["tick"].task, "schedule", FALSE) /\ UNCHANGED drainer
    <3>1. job["tick"].task \in Tasks
      BY <1>5, Distinct, JobFields DEF TickEnqueues, Return, NoJob, Typed, TypeOK
    <3> QED BY <2>1, <3>1, NewItem
  <2>2. CASE UNCHANGED <<queue, stamp, drainer>>
    BY <2>2, NothingNew
  <2> QED BY <1>5, <2>1, <2>2 DEF TickEnqueues
<1>6. CASE TickFails
  <2>1. queue' \subseteq queue /\ UNCHANGED <<stamp, drainer>>
    BY <1>6, WithoutIsLess DEF TickFails
  <2> QED BY <2>1, NothingNew
<1>7. ASSUME NEW owner \in {"none", "tick"}, CallDrain(owner) \/ UNCHANGED drainer
      PROVE  drainer'.item \in {drainer.item, NoItem}
  BY <1>7, CallTyped
<1>8. CASE \E t \in Tasks : DrainPush(t)
  <2>1. PICK t \in Tasks : DrainPush(t)
    BY <1>8
  <2>2. Push(t, "idle", FALSE) /\ drainer'.item = drainer.item
    BY <2>1 DEF DrainPush, Typed, TypeOK, Drainers
  <2> QED BY <2>2, NewItem
<1>9. CASE PassEnds \/ PickClosed \/ PickPrompt
  <2>1. queue' \subseteq queue /\ stamp' = stamp
    BY <1>9 DEF PassEnds, PickClosed, PickPrompt
  <2>2. drainer'.item = drainer.item \/ (drainer'.item = Picked /\ MayPick)
    BY <1>9 DEF PassEnds, PickClosed, PickPrompt, Typed, TypeOK, Drainers
  <2> QED BY <2>1, <2>2, NothingNew, PickedIs
<1>10. CASE PickScript \/ ResolveStarts
  <2>1. PICK x : \E S \in SUBSET queue : Start(x, S)
    <3>1. queue \ Dead \in SUBSET queue /\ queue \in SUBSET queue
      OBVIOUS
    <3> QED BY <1>10, <3>1 DEF PickScript, ResolveStarts
  <2>2. queue' \subseteq queue /\ stamp' = stamp
    BY <1>10, <2>1 DEF Start, PickScript, ResolveStarts
  <2>3. drainer'.item = NoItem
    BY <2>1 DEF Start, Typed, TypeOK, Drainers
  <2> QED BY <2>2, <2>3, NothingNew
<1>11. CASE ResolveDefers
  <2>1. queue' \subseteq queue \union Given /\ stamp' = stamp /\ drainer'.item = NoItem
    BY <1>11, WithoutIsLess DEF ResolveDefers, Given, Typed, TypeOK, Placed, Drainers
  <2> QED BY <2>1, NothingNew
<1>12. CASE \E off \in BOOLEAN : ResolveFails(off)
  <2>1. queue' \subseteq queue /\ stamp' = stamp /\ drainer'.item = NoItem
    BY <1>12, WithoutIsLess DEF ResolveFails, Typed, TypeOK, Drainers
  <2> QED BY <2>1, NothingNew
<1>13. CASE DrainReturns \/ DrainFails
  <2>1. job["drain"] # NoJob
    BY <1>13 DEF DrainReturns, DrainFails, Return, GiveUp, NoJob
  <2>2. drainer'.item \in {drainer.item, NoItem}
    BY <1>13, <2>1, GoesOn DEF DrainReturns, DrainFails, Resting
  <2>3. queue' \subseteq queue /\ stamp' = stamp
    BY <1>13, WithoutIsLess DEF DrainReturns, DrainFails
  <2> QED BY <2>2, <2>3, NothingNew
<1>14. CASE DrainLoops \/ \E outside \in SUBSET Windowed : DrainPass(outside)
  <2>1. UNCHANGED <<queue, stamp>>
    BY <1>14 DEF DrainLoops, DrainPass
  <2>2. drainer'.item \in {drainer.item, NoItem}
    <3>1. CASE DrainLoops
      BY <3>1 DEF DrainLoops, Resting, Typed, TypeOK, Drainers
    <3>2. ASSUME NEW outside \in SUBSET Windowed, DrainPass(outside)
          PROVE  drainer'.item = drainer.item
      BY <3>2 DEF DrainPass, Typed, TypeOK, Drainers
    <3> QED BY <1>14, <3>1, <3>2
  <2> QED BY <1>1, <2>1, <2>2
<1>15. CASE Api
  BY <1>2, <1>3, <1>4, <1>15 DEF Api
<1>16. CASE Talk \/ Hush \/ (\E p \in Procs : TakeLock(p)) \/ UNCHANGED vars
  BY <1>1, <1>16 DEF Talk, Hush, TakeLock, vars
<1>17. CASE Trouble
  BY <1>1, <1>6, <1>13, <1>17 DEF Trouble, ClientFails, RunFails
<1>18. CASE (\E due \in SUBSET Scheduled : TickStarts(due)) \/ (\E t \in Tasks : TickTask(t))
            \/ TickReturns \/ TickDrained \/ TickEnds
  <2>1. UNCHANGED <<queue, stamp>>
    BY <1>18 DEF TickStarts, TickTask, TickReturns, TickDrained, TickEnds
  <2>2. UNCHANGED drainer \/ \E owner \in {"none", "tick"} : CallDrain(owner)
    BY <1>18 DEF TickStarts, TickTask, TickReturns, TickDrained, TickEnds
  <2> QED BY <1>1, <1>7, <2>1, <2>2
<1>19. CASE \E c \in Clients : ClientReturns(c)
  <2>1. UNCHANGED <<queue, stamp>> /\ (CallDrain("none") \/ UNCHANGED drainer)
    BY <1>19 DEF ClientReturns
  <2> QED BY <1>1, <1>7, <2>1
<1>20. CASE \E r \in Runs : Running(r)
  <2>1. UNCHANGED <<queue, stamp>> /\ (CallDrain("none") \/ UNCHANGED drainer)
    BY <1>20 DEF Running, RunEnds, RunAborts, RunReturns, RunNotifies, RunDrains
  <2> QED BY <1>1, <1>7, <2>1
<1>21. CASE Ticking
  BY <1>5, <1>18, <1>21 DEF Ticking
<1>22. CASE Draining
  BY <1>8, <1>9, <1>10, <1>11, <1>12, <1>13, <1>14, <1>22 DEF Draining
<1> QED BY <1>15, <1>16, <1>17, <1>18, <1>19, <1>20, <1>21, <1>22 DEF Next

(***************************************************************************)
(* What is shown as running.                                               *)
(***************************************************************************)
LEMMA TasksRun ==
  ASSUME Typed, NEW r \in Runs
  PROVE  Executing(r) => exec[r].task \in Tasks
<1>1. exec[r] \in Execs
  BY DEF Typed, TypeOK
<1> QED BY <1>1, ExecFields DEF Executing

LEMMA CountsFinite ==
  IsFiniteSet(RunningTasks) /\ Cardinality(RunningTasks) \in Nat
<1>1. RunningTasks \in SUBSET Tasks
  BY DEF RunningTasks
<1> QED BY <1>1, TasksAssumption, FS_Subset, FS_CardinalityType

LEMMA FewerRun ==
  ASSUME RunningTasks' \subseteq RunningTasks
  PROVE  /\ Cardinality(RunningTasks') <= Cardinality(RunningTasks)
         /\ Cardinality(RunningTasks') \in Nat /\ Cardinality(RunningTasks) \in Nat
<1>1. RunningTasks' \in SUBSET RunningTasks
  OBVIOUS
<1>2. IsFiniteSet(RunningTasks') /\ Cardinality(RunningTasks') <= Cardinality(RunningTasks)
  BY <1>1, CountsFinite, FS_Subset
<1> QED BY <1>2, CountsFinite, FS_CardinalityType

\* Where no execution starts or ends and no entry starts or stops to be running.
LEMMA SameRuns ==
  ASSUME Typed, Typed', Shown,
         ~strayed' => ~strayed,
         ~strayed' =>
           /\ \A t \in Tasks : /\ entry'[t].state = "running" <=> entry[t].state = "running"
                               /\ entry'[t].present => entry[t].present
           /\ \A r \in Runs : /\ Executing(r)' <=> Executing(r)
                              /\ Executing(r) => exec'[r].task = exec[r].task,
         drainer'.at = "resolve" =>
           drainer.at = "resolve" /\ drainer'.item.task = drainer.item.task,
         drainer'.todo \subseteq drainer.todo
  PROVE  Shown'
<1>1. CASE strayed'
  BY <1>1 DEF Shown
<1>2. CASE ~strayed'
  <2>1. /\ \A t \in Tasks : /\ entry'[t].state = "running" <=> entry[t].state = "running"
                            /\ entry'[t].present => entry[t].present
        /\ \A r \in Runs : /\ Executing(r)' <=> Executing(r)
                           /\ Executing(r) => exec'[r].task = exec[r].task
    BY <1>2
  <2>2. /\ \A r \in Runs : Executing(r) => entry[exec[r].task].state = "running"
        /\ \A q, r \in Runs : Executing(q) /\ Executing(r) /\ exec[q].task = exec[r].task => q = r
        /\ \A t \in RunningTasks : \E r \in Runs : Executing(r) /\ exec[r].task = t
        /\ Cardinality(RunningTasks) <= MaxConcurrent
        /\ drainer.at = "resolve" =>
             /\ entry[drainer.item.task].state # "running"
             /\ Cardinality(RunningTasks) < MaxConcurrent
        /\ \A t \in drainer.todo : entry[t].state # "running"
    BY <1>2 DEF Shown
  <2>3. RunningTasks' \subseteq RunningTasks
    BY <2>1 DEF RunningTasks
  <2>4. /\ Cardinality(RunningTasks)' <= Cardinality(RunningTasks)
        /\ Cardinality(RunningTasks)' \in Nat /\ Cardinality(RunningTasks) \in Nat
    BY <2>3, FewerRun
  <2>5. \A r \in Runs : Executing(r)' => entry'[exec'[r].task].state = "running"
    BY <2>1, <2>2, TasksRun
  <2>6. \A q, r \in Runs : Executing(q)' /\ Executing(r)' /\ exec'[q].task = exec'[r].task => q = r
    BY <2>1, <2>2
  <2>7. \A t \in RunningTasks' : \E r \in Runs : Executing(r)' /\ exec'[r].task = t
    BY <2>1, <2>2, <2>3
  <2>8. drainer'.at = "resolve" =>
             /\ entry'[drainer'.item.task].state # "running"
             /\ Cardinality(RunningTasks)' < MaxConcurrent
    <3>1. drainer.at = "resolve" => drainer.item.task \in Tasks
      BY DEF Typed, Placed, Items
    <3> QED BY <2>1, <2>2, <2>4, <3>1, CapAssumption
  <2>9. \A t \in drainer'.todo : entry'[t].state # "running"
    <3>1. drainer.todo \subseteq Tasks
      BY DEF Typed, TypeOK, Drainers, Tasks
    <3> QED BY <2>1, <2>2, <3>1
  <2>10. Cardinality(RunningTasks)' <= MaxConcurrent
    BY <2>2, <2>4, CapAssumption
  <2> QED BY <2>5, <2>6, <2>7, <2>8, <2>9, <2>10 DEF Shown
<1> QED BY <1>1, <1>2

\* An execution ends, and its task is idle.
LEMMA OneLess ==
  ASSUME Typed, Typed', Shown, NEW r \in Runs, Executing(r), strayed' = strayed,
         entry'[exec[r].task].state = "idle",
         \A t \in Tasks : t # exec[r].task => entry'[t] = entry[t],
         ~Executing(r)', \A q \in Runs : q # r => exec'[q] = exec[q],
         drainer'.at = "resolve" =>
           drainer.at = "resolve" /\ drainer'.item.task = drainer.item.task,
         drainer'.todo \subseteq drainer.todo
  PROVE  Shown'
<1>1. CASE strayed'
  BY <1>1 DEF Shown
<1>2. CASE ~strayed'
  <2>2. /\ \A q \in Runs : Executing(q) => entry[exec[q].task].state = "running"
        /\ \A p, q \in Runs : Executing(p) /\ Executing(q) /\ exec[p].task = exec[q].task => p = q
        /\ \A t \in RunningTasks : \E q \in Runs : Executing(q) /\ exec[q].task = t
        /\ Cardinality(RunningTasks) <= MaxConcurrent
        /\ drainer.at = "resolve" =>
             /\ entry[drainer.item.task].state # "running"
             /\ Cardinality(RunningTasks) < MaxConcurrent
        /\ \A t \in drainer.todo : entry[t].state # "running"
    BY <1>2 DEF Shown
  <2>1. \A q \in Runs : Executing(q)' => q # r /\ Executing(q) /\ exec'[q] = exec[q]
    BY DEF Executing
  <2>3. RunningTasks' \subseteq RunningTasks \ {exec[r].task}
    BY DEF RunningTasks
  <2>4. /\ Cardinality(RunningTasks)' <= Cardinality(RunningTasks)
        /\ Cardinality(RunningTasks)' \in Nat /\ Cardinality(RunningTasks) \in Nat
    BY <2>3, FewerRun
  <2>5. \A q \in Runs : Executing(q)' => entry'[exec'[q].task].state = "running"
    <3> TAKE q \in Runs
    <3> HAVE Executing(q)'
    <3>1. exec[q].task # exec[r].task /\ exec[q].task \in Tasks
      BY <2>1, <2>2, TasksRun
    <3> QED BY <2>1, <2>2, <3>1
  <2>6. \A p, q \in Runs : Executing(p)' /\ Executing(q)' /\ exec'[p].task = exec'[q].task => p = q
    BY <2>1, <2>2
  <2>7. \A t \in RunningTasks' : \E q \in Runs : Executing(q)' /\ exec'[q].task = t
    <3> TAKE t \in RunningTasks'
    <3>1. PICK q \in Runs : Executing(q) /\ exec[q].task = t
      BY <2>2, <2>3
    <3>2. q # r
      BY <2>3, <3>1
    <3>3. Executing(q)' /\ exec'[q].task = t
      BY <3>1, <3>2 DEF Executing
    <3> QED BY <3>3
  <2>8. drainer'.at = "resolve" =>
             /\ entry'[drainer'.item.task].state # "running"
             /\ Cardinality(RunningTasks)' < MaxConcurrent
    <3>1. drainer.at = "resolve" => drainer.item.task \in Tasks
      BY DEF Typed, Placed, Items
    <3>2. drainer.at = "resolve" => entry'[drainer.item.task].state # "running"
      BY <2>2, <3>1
    <3> QED BY <2>2, <2>4, <3>2, CapAssumption
  <2>9. \A t \in drainer'.todo : entry'[t].state # "running"
    <3>1. drainer.todo \subseteq Tasks
      BY DEF Typed, TypeOK, Drainers, Tasks
    <3> QED BY <2>2, <3>1
  <2>10. Cardinality(RunningTasks)' <= MaxConcurrent
    BY <2>2, <2>4, CapAssumption
  <2> QED BY <2>5, <2>6, <2>7, <2>8, <2>9, <2>10 DEF Shown
<1> QED BY <1>1, <1>2

\* A task that is not running is started where there is room.
LEMMA OneMore ==
  ASSUME Typed, Typed', Shown, NEW x \in Items, NEW S, Start(x, S), UNCHANGED strayed,
         entry[x.task].state # "running" \/ strayed,
         Cardinality(RunningTasks) < MaxConcurrent \/ strayed,
         drainer.at \in {"pick", "resolve"}
  PROVE  Shown'
<1>1. CASE strayed'
  BY <1>1 DEF Shown
<1>2. CASE ~strayed'
  <2> DEFINE t == x.task
  <2>1. t \in Tasks /\ entry[t].state # "running" /\ Cardinality(RunningTasks) < MaxConcurrent
    BY <1>2 DEF Items
  <2>2. /\ \A q \in Runs : Executing(q) => entry[exec[q].task].state = "running"
        /\ \A p, q \in Runs : Executing(p) /\ Executing(q) /\ exec[p].task = exec[q].task => p = q
        /\ \A u \in RunningTasks : \E q \in Runs : Executing(q) /\ exec[q].task = u
    BY <1>2 DEF Shown
  <2>3. PICK r \in Runs : exec[r] = NoRun /\ exec' = [exec EXCEPT ![r] = [at |-> "starting", task |-> t]]
    BY DEF Start
  <2>4. entry' = [entry EXCEPT ![t].state = "running"] /\ entry \in [Tasks -> Entries]
    BY DEF Start, Typed, TypeOK
  <2>5. drainer'.at = "save" /\ drainer'.todo = {}
    BY DEF Start, Typed, TypeOK, Placed, Drainers
  <2> HIDE DEF t
  <2>6. /\ entry'[t].state = "running" /\ entry'[t].present = entry[t].present
        /\ \A u \in Tasks : u # t => entry'[u] = entry[u]
    BY <2>1, <2>4, StateIs
  <2>7. /\ ~Executing(r) /\ Executing(r)' /\ exec'[r].task = t
        /\ \A q \in Runs : q # r => exec'[q] = exec[q]
        /\ \A q \in Runs : q # r => (Executing(q)' <=> Executing(q))
    BY <2>3 DEF Executing, NoRun, Typed, TypeOK
  <2>8. \A q \in Runs : Executing(q) => exec[q].task # t /\ exec[q].task \in Tasks
    BY <2>1, <2>2, TasksRun
  <2>9. RunningTasks' \subseteq RunningTasks \union {t}
    BY <2>6 DEF RunningTasks
  <2>10. Cardinality(RunningTasks)' <= MaxConcurrent
    <3>1. /\ IsFiniteSet(RunningTasks \union {t})
          /\ Cardinality(RunningTasks \union {t}) =
               IF t \in RunningTasks THEN Cardinality(RunningTasks) ELSE Cardinality(RunningTasks) + 1
      BY CountsFinite, FS_AddElement
    <3>2. RunningTasks' \in SUBSET (RunningTasks \union {t})
      BY <2>9
    <3>3. IsFiniteSet(RunningTasks') /\ Cardinality(RunningTasks') <= Cardinality(RunningTasks \union {t})
      BY <3>1, <3>2, FS_Subset
    <3>4. Cardinality(RunningTasks') \in Nat
      BY <3>3, FS_CardinalityType
    <3> QED BY <2>1, <3>1, <3>3, <3>4, CountsFinite, CapAssumption
  <2>11. \A q \in Runs : Executing(q)' => entry'[exec'[q].task].state = "running"
    BY <2>2, <2>6, <2>7, <2>8
  <2>12. \A p, q \in Runs : Executing(p)' /\ Executing(q)' /\ exec'[p].task = exec'[q].task => p = q
    BY <2>2, <2>7, <2>8
  <2>13. \A u \in RunningTasks' : \E q \in Runs : Executing(q)' /\ exec'[q].task = u
    <3> TAKE u \in RunningTasks'
    <3>1. CASE u = t
      BY <2>7, <3>1
    <3>2. CASE u # t
      <4>1. PICK q \in Runs : Executing(q) /\ exec[q].task = u
        BY <2>2, <2>9, <3>2
      <4> QED BY <2>7, <4>1
    <3> QED BY <3>1, <3>2
  <2> QED BY <2>5, <2>10, <2>11, <2>12, <2>13 DEF Shown
<1> QED BY <1>1, <1>2

LEMMA CountIs == RunningCount = Cardinality(RunningTasks)
BY DEF RunningCount, RunningTasks

\* The steps of drain that look at the entries.
LEMMA LooksShown ==
  ASSUME Typed, Typed', Stamped, Shown,
         PickPrompt \/ \E outside \in SUBSET Windowed : DrainPass(outside)
  PROVE  Shown'
<1>1. UNCHANGED <<entry, exec, strayed>>
  BY DEF PickPrompt, DrainPass
<1>2. CASE strayed
  BY <1>1, <1>2 DEF Shown
<1>3. CASE ~strayed
  <2>1. /\ \A r \in Runs : Executing(r)' <=> Executing(r)
        /\ Cardinality(RunningTasks)' = Cardinality(RunningTasks) /\ RunningTasks' = RunningTasks
    BY <1>1 DEF Executing, RunningTasks
  <2>2. /\ drainer'.at = "resolve" =>
             /\ entry[drainer'.item.task].state # "running"
             /\ Cardinality(RunningTasks) < MaxConcurrent
        /\ \A t \in drainer'.todo : entry[t].state # "running"
    <3>1. CASE PickPrompt
      <4>1. drainer'.item = Picked /\ drainer'.todo = {}
        BY <3>1 DEF PickPrompt, MayPick, Typed, TypeOK, Placed, Drainers
      <4>2. Live(Picked.task) /\ HasSlot
        BY <3>1, PickedIs DEF PickPrompt, MayPick
      <4> QED BY <4>1, <4>2, CountIs DEF Live, HasSlot
    <3>2. ASSUME NEW outside \in SUBSET Windowed, DrainPass(outside)
          PROVE  drainer'.at # "resolve" /\ \A t \in drainer'.todo : entry[t].state = "idle"
      <4> DEFINE idles == {t \in Idle : entry[t].present /\ entry[t].enabled /\ entry[t].state = "idle"}
                 todo  == IF IdleEligible(queue) THEN idles \ outside ELSE {}
      <4>1. drainer' = [drainer EXCEPT !.at = IF todo = {} THEN "pick" ELSE "push",
                                       !.todo = todo, !.skip = {}]
        BY <3>2 DEF DrainPass
      <4>2. \A t \in todo : entry[t].state = "idle"
        OBVIOUS
      <4> HIDE DEF todo
      <4>3. drainer'.todo = todo /\ drainer'.at \in {"pick", "push"}
        BY <4>1 DEF Typed, TypeOK, Drainers
      <4> QED BY <4>2, <4>3
    <3> QED BY <3>1, <3>2
  <2> QED BY <1>1, <1>3, <2>1, <2>2 DEF Shown
<1> QED BY <1>2, <1>3

\* A write that returns, or is given up, changes no state unless it overwrites one.
LEMMA WrittenStates ==
  ASSUME Typed, NEW p \in Procs, Return(p), entry' = Written(p)
  PROVE  /\ ~strayed' => ~strayed
         /\ ~strayed' => \A t \in Tasks : /\ entry'[t].state = entry[t].state
                                          /\ entry'[t].present => entry[t].present
BY Returned, WrittenKeeps DEF Typed

LEMMA ApiShown ==
  ASSUME Typed, Typed', Stamped, Shown, NEW c \in Clients, NEW t \in Tasks, NEW b \in BOOLEAN,
         Enqueue(c, t, b) \/ Update(c, t, b) \/ MoveToFront(c, t) \/ Dequeue(c, t) \/ Remove(c, t)
  PROVE  Shown'
<1>1. UNCHANGED <<exec, strayed>>
  BY DEF Enqueue, Update, MoveToFront, Dequeue, Remove
<1>2. \A u \in Tasks : /\ entry'[u].state = "running" <=> entry[u].state = "running"
                       /\ entry'[u].present => entry[u].present
  <2>0. entry \in [Tasks -> Entries]
    BY DEF Typed, TypeOK
  <2>1. CASE Enqueue(c, t, b)
    BY <2>0, <2>1, StateIs DEF Enqueue
  <2>2. CASE Update(c, t, b)
    BY <2>2, UpdateIs DEF Typed
  <2>3. CASE Dequeue(c, t)
    BY <2>0, <2>3, StateIs DEF Dequeue, Live
  <2>4. CASE MoveToFront(c, t) \/ Remove(c, t)
    BY <2>4 DEF MoveToFront, Remove
  <2> QED BY <2>1, <2>2, <2>3, <2>4
<1>3. /\ drainer'.at = drainer.at /\ drainer'.todo = drainer.todo
      /\ drainer'.at = "resolve" => drainer'.item.task = drainer.item.task
  <2>1. CASE MoveToFront(c, t)
    <3> DEFINE x == First(ItemsOf(t))
    <3>1. x \in Items
      <4>1. ItemsOf(t) # {} /\ ItemsOf(t) \in SUBSET queue
        BY <2>1 DEF MoveToFront, ItemsOf
      <4> QED BY <4>1, ItemsAreFirst
    <3>2. drainer' = IF drainer.item = x THEN [drainer EXCEPT !.item = [x EXCEPT !.front = TRUE]]
                                         ELSE drainer
      BY <2>1 DEF MoveToFront
    <3> HIDE DEF x
    <3> QED BY <3>1, <3>2 DEF Typed, TypeOK, Drainers, Items
  <2>2. CASE UNCHANGED drainer
    BY <2>2
  <2> QED BY <2>1, <2>2 DEF Enqueue, Update, Dequeue, Remove
<1>4. \A r \in Runs : Executing(r)' <=> Executing(r)
  BY <1>1 DEF Executing
<1> QED BY <1>1, <1>2, <1>3, <1>4, SameRuns

LEMMA TickShown ==
  ASSUME Typed, Typed', Shown, TickEnqueues \/ TickReturns \/ TickFails \/ \E t \in Tasks : TickTask(t)
  PROVE  Shown'
<1>1. exec' = exec /\ \A r \in Runs : Executing(r)' <=> Executing(r)
  BY DEF TickEnqueues, TickReturns, TickFails, TickTask, Executing
<1>2. /\ drainer'.at = "resolve" => drainer' = drainer
      /\ drainer'.todo \subseteq drainer.todo
  BY CallTyped DEF TickEnqueues, TickReturns, TickFails, TickTask
<1>3. /\ ~strayed' => ~strayed
      /\ ~strayed' => \A t \in Tasks : /\ entry'[t].state = "running" <=> entry[t].state = "running"
                                       /\ entry'[t].present => entry[t].present
  <2>1. CASE TickEnqueues
    <3> DEFINE t == job["tick"].task
    <3>1. Return("tick") /\ "tick" \in Procs
      BY <2>1, Distinct DEF TickEnqueues
    <3>2. /\ t \in Tasks /\ Written("tick") \in [Tasks -> Entries]
          /\ job["tick"].copy \in Entries /\ job["tick"].del \in BOOLEAN
      BY <3>1, Returned, WrittenTyped, JobFields DEF NoJob, Typed, TypeOK
    <3>3. /\ ~strayed' => ~strayed /\ ~Overwrites("tick")
          /\ ~strayed' => \A u \in Tasks :
               /\ Written("tick")[u].state = entry[u].state
               /\ Written("tick")[u].present => entry[u].present
      BY <3>1, Returned, WrittenKeeps DEF Typed
    <3>4. CASE entry' = Written("tick")
      BY <3>3, <3>4
    <3>5. CASE /\ entry' = [Written("tick") EXCEPT ![t].state = "queued"]
               /\ job["tick"].copy.state = "idle"
      <4>1. /\ entry'[t].state = "queued" /\ entry'[t].present = Written("tick")[t].present
            /\ \A u \in Tasks : u # t => entry'[u] = Written("tick")[u]
        BY <3>2, <3>5, StateIs
      <4>2. ~job["tick"].del
        BY <3>1, Returned DEF Typed, Placed, NoJob
      <4>3. ~strayed' => entry[t].state = "idle"
        BY <3>3, <3>5, <4>2 DEF Overwrites
      <4> QED BY <3>2, <3>3, <4>1, <4>3
    <3> QED BY <2>1, <3>4, <3>5 DEF TickEnqueues
  <2>2. CASE TickReturns
    BY <2>2, WrittenStates, Distinct DEF TickReturns
  <2>3. CASE TickFails
    <3>1. CASE UNCHANGED <<entry, strayed>>
      BY <3>1
    <3>2. CASE /\ entry' = Recovered(tick.task)
               /\ strayed' = (strayed \/ entry[tick.task].state = "running")
      <4>1. tick.task \in Tasks
        BY <2>3 DEF TickFails, GiveUp, Typed, Placed, Tasks, NoJob
      <4> QED BY <3>2, <4>1, RecoveredIs DEF Typed
    <3> QED BY <2>3, <3>1, <3>2 DEF TickFails
  <2>4. CASE \E t \in Tasks : TickTask(t)
    <3>1. PICK t \in Tasks : TickTask(t)
      BY <2>4
    <3>2. CASE UNCHANGED <<entry, strayed>>
      BY <3>2
    <3>3. CASE entry' = [entry EXCEPT ![t].armed = t \notin OneShot] /\ strayed' = strayed
      BY <3>3 DEF Typed, TypeOK, Entries
    <3> QED BY <3>1, <3>2, <3>3 DEF TickTask
  <2> QED BY <2>1, <2>2, <2>3, <2>4
<1> QED BY <1>1, <1>2, <1>3, SameRuns

\* The writes of drain and of the executions, and what is given up.
LEMMA WritesShown ==
  ASSUME Typed, Typed', Shown,
         \/ DrainReturns \/ DrainFails
         \/ \E r \in Runs : RunReturns(r) \/ RunFails(r)
  PROVE  Shown'
<1>1. CASE DrainReturns \/ DrainFails
  <2>1. job["drain"] # NoJob
    BY <1>1 DEF DrainReturns, DrainFails, Return, GiveUp, NoJob
  <2>2. /\ drainer'.at = "resolve" =>
             drainer.at = "resolve" /\ drainer'.item.task = drainer.item.task
        /\ drainer'.todo \subseteq drainer.todo
        /\ \A r \in Runs : /\ Executing(r)' <=> Executing(r)
                           /\ Executing(r) => exec'[r].task = exec[r].task
    <3>1. CASE DrainGoesOn
      BY <2>1, <3>1, GoesOn
    <3>2. CASE drainer' = Resting /\ UNCHANGED exec
      BY <3>2 DEF Resting, Executing
    <3> QED BY <1>1, <3>1, <3>2 DEF DrainReturns, DrainFails
  <2>3. /\ ~strayed' => ~strayed
        /\ ~strayed' => \A t \in Tasks : /\ entry'[t].state = "running" <=> entry[t].state = "running"
                                         /\ entry'[t].present => entry[t].present
    <3>1. CASE DrainReturns
      BY <3>1, WrittenStates, Distinct DEF DrainReturns
    <3>2. CASE UNCHANGED <<entry, strayed>>
      BY <3>2
    <3>3. CASE /\ entry' = Recovered(tick.task) /\ tick.at = "drain"
               /\ strayed' = (strayed \/ entry[tick.task].state = "running")
      <4>1. tick.task \in Tasks
        BY <3>3 DEF Typed, Placed, Tasks
      <4> QED BY <3>3, <4>1, RecoveredIs DEF Typed
    <3> QED BY <1>1, <3>1, <3>2, <3>3 DEF DrainFails
  <2> QED BY <2>2, <2>3, SameRuns
<1>2. ASSUME NEW r \in Runs, RunReturns(r) \/ RunFails(r) PROVE Shown'
  <2>1. /\ job[r] # NoJob /\ RunGoesOn(r) /\ UNCHANGED drainer /\ r \in Procs
    BY <1>2, Distinct DEF RunReturns, RunFails, Return, GiveUp, NoJob
  <2>2. PICK e \in Execs :
          /\ exec' = [exec EXCEPT ![r] = e] /\ e.at \in {"free", "notify", "tail"}
          /\ exec[r].at \in {"finish", "notify", "abort"}
    BY <2>1, RunGoes
  <2>3. \A q \in Runs : /\ Executing(q)' <=> Executing(q)
                        /\ Executing(q) => exec'[q].task = exec[q].task
    BY <2>2 DEF Executing, Typed, TypeOK
  <2>4. /\ ~strayed' => ~strayed
        /\ ~strayed' => \A t \in Tasks : /\ entry'[t].state = "running" <=> entry[t].state = "running"
                                         /\ entry'[t].present => entry[t].present
    BY <1>2, <2>1, WrittenStates DEF RunReturns, RunFails
  <2> QED BY <2>1, <2>3, <2>4, SameRuns
<1> QED BY <1>1, <1>2

LEMMA StartShown ==
  ASSUME Typed, Typed', Stamped, Shown, PickScript \/ ResolveStarts PROVE Shown'
<1>1. CASE PickScript
  <2>1. Picked \in Items /\ entry[Picked.task].state # "running" /\ Start(Picked, queue \ Dead)
    BY <1>1, PickedIs DEF PickScript, Live
  <2>2. Cardinality(RunningTasks) < MaxConcurrent /\ drainer.at = "pick" /\ UNCHANGED strayed
    BY <1>1, CountIs DEF PickScript, MayPick, HasSlot
  <2> QED BY <2>1, <2>2, OneMore
<1>2. CASE ResolveStarts
  <2>1. drainer.item \in Items /\ Start(drainer.item, queue) /\ drainer.at = "resolve" /\ UNCHANGED strayed
    BY <1>2 DEF ResolveStarts, Typed, Placed
  <2>2. /\ entry[drainer.item.task].state # "running" \/ strayed
        /\ Cardinality(RunningTasks) < MaxConcurrent \/ strayed
    BY <2>1 DEF Shown
  <2> QED BY <2>1, <2>2, OneMore
<1> QED BY <1>1, <1>2

LEMMA QueueingShown ==
  ASSUME Typed, Typed', Shown,
         \/ \E t \in Tasks : DrainPush(t)
         \/ \E off \in BOOLEAN : ResolveFails(off)
  PROVE  Shown'
<1>1. UNCHANGED <<exec, strayed>> /\ \A r \in Runs : Executing(r)' <=> Executing(r)
  BY DEF DrainPush, ResolveFails, Executing
<1>2. drainer'.at = "save" /\ drainer'.todo \subseteq drainer.todo
  <2>1. CASE \E t \in Tasks : DrainPush(t)
    <3>1. PICK t \in Tasks : drainer' = [drainer EXCEPT !.at = "save", !.todo = @ \ {t}]
      BY <2>1 DEF DrainPush
    <3> QED BY <3>1 DEF Typed, TypeOK, Drainers
  <2>2. CASE \E off \in BOOLEAN : ResolveFails(off)
    BY <2>2 DEF ResolveFails, Typed, TypeOK, Drainers
  <2> QED BY <2>1, <2>2
<1>3. ~strayed => \A u \in Tasks : /\ entry'[u].state = "running" <=> entry[u].state = "running"
                                   /\ entry'[u].present => entry[u].present
  <2>1. ASSUME NEW t \in Tasks, DrainPush(t), ~strayed
        PROVE  \A u \in Tasks : /\ entry'[u].state = "running" <=> entry[u].state = "running"
                                /\ entry'[u].present => entry[u].present
    <3>1. entry[t].state # "running"
      BY <2>1 DEF DrainPush, Shown
    <3>2. entry' = [entry EXCEPT ![t].state = "queued"] /\ entry \in [Tasks -> Entries]
      BY <2>1 DEF DrainPush, Typed, TypeOK
    <3> QED BY <3>1, <3>2, StateIs
  <2>2. ASSUME NEW off \in BOOLEAN, ResolveFails(off), ~strayed
        PROVE  \A u \in Tasks : /\ entry'[u].state = "running" <=> entry[u].state = "running"
                                /\ entry'[u].present => entry[u].present
    <3>1. /\ drainer.item.task \in Tasks /\ entry[drainer.item.task].state # "running"
          /\ entry' = Finished(drainer.item.task, off)
      BY <2>2 DEF ResolveFails, Shown, Typed, Placed, Items
    <3> QED BY <3>1, IdleIs DEF Typed
  <2> QED BY <2>1, <2>2
<1> QED BY <1>1, <1>2, <1>3, SameRuns

LEMMA RunShown ==
  ASSUME Typed, Typed', Shown, NEW r \in Runs,
         \/ \E off \in BOOLEAN : RunEnds(r, off)
         \/ RunAborts(r)
  PROVE  Shown'
<1>1. Executing(r) /\ UNCHANGED strayed /\ exec[r].task \in Tasks
  BY TasksRun DEF RunEnds, RunAborts, Executing
<1>2. /\ drainer'.at = "resolve" => drainer' = drainer
      /\ drainer'.todo \subseteq drainer.todo
  BY CallTyped DEF RunEnds, RunAborts
<1>3. ASSUME NEW off \in BOOLEAN, RunEnds(r, off) PROVE Shown'
  <2>1. /\ entry' = Finished(exec[r].task, off)
        /\ exec' = [exec EXCEPT ![r].at = "finish"]
    BY <1>3 DEF RunEnds
  <2>2. /\ entry'[exec[r].task].state = "idle"
        /\ \A t \in Tasks : t # exec[r].task => entry'[t] = entry[t]
    BY <1>1, <2>1, IdleIs DEF Typed
  <2>3. ~Executing(r)' /\ \A q \in Runs : q # r => exec'[q] = exec[q]
    BY <1>1, <2>1, ExecFields DEF Executing, Typed, TypeOK, Execs, NoRun
  <2> QED BY <1>1, <1>2, <2>2, <2>3, OneLess
<1>4. CASE RunAborts(r)
  <2>1. CASE entry[exec[r].task].state = "running"
    <3> DEFINE t == exec[r].task
    <3>1. entry' = [entry EXCEPT ![t].state = "idle", ![t].enabled = @ /\ t \notin Idle]
      BY <1>4, <2>1 DEF RunAborts
    <3>2. /\ entry'[t].state = "idle"
          /\ \A u \in Tasks : u # t => entry'[u] = entry[u]
      BY <1>1, <3>1 DEF Typed, TypeOK, Entries
    <3>3. exec' = [exec EXCEPT ![r].at = "abort"] \/ exec' = [exec EXCEPT ![r] = NoRun]
      BY <1>4, <2>1 DEF RunAborts
    <3>4. ~Executing(r)' /\ \A q \in Runs : q # r => exec'[q] = exec[q]
      BY <1>1, <3>3, ExecFields DEF Executing, Typed, TypeOK, Execs, NoRun
    <3> QED BY <1>1, <1>2, <3>2, <3>4, OneLess
  <2>2. CASE entry[exec[r].task].state # "running"
    BY <1>1, <2>2 DEF Shown
  <2> QED BY <2>1, <2>2
<1> QED BY <1>3, <1>4

LEMMA ShownNext == Typed /\ Typed' /\ Stamped /\ Shown /\ [Next]_vars => Shown'
<1> SUFFICES ASSUME Typed, Typed', Stamped, Shown, [Next]_vars PROVE Shown'
  OBVIOUS
<1> USE DEF budget
\* The steps that change no entry and no execution.
<1>1. CASE /\ UNCHANGED <<entry, exec, strayed>>
           /\ drainer'.at = "resolve" => drainer' = drainer
           /\ drainer'.todo \subseteq drainer.todo
  <2>1. \A r \in Runs : Executing(r)' <=> Executing(r)
    BY <1>1 DEF Executing
  <2> QED BY <1>1, <2>1, SameRuns
<1>2. CASE Api
  BY <1>2, ApiShown DEF Api
<1>3. CASE Talk \/ Hush \/ (\E p \in Procs : TakeLock(p)) \/ UNCHANGED vars
           \/ (\E c \in Clients : ClientFails(c)) \/ (\E due \in SUBSET Scheduled : TickStarts(due))
           \/ TickDrained \/ (\E r \in Runs : RunNotifies(r))
  BY <1>1, <1>3 DEF Talk, Hush, TakeLock, vars, ClientFails, TickStarts, TickDrained, RunNotifies
<1>4. CASE TickEnds
  BY <1>1, <1>4, CallTyped DEF TickEnds
<1>5. ASSUME NEW r \in Runs, RunDrains(r) PROVE Shown'
  <2>1. \A q \in Runs : /\ Executing(q)' <=> Executing(q)
                        /\ Executing(q) => exec'[q].task = exec[q].task
    BY <1>5 DEF RunDrains, Executing, Typed, TypeOK, NoRun
  <2>2. /\ UNCHANGED <<entry, strayed>>
        /\ drainer'.at = "resolve" => drainer' = drainer
        /\ drainer'.todo \subseteq drainer.todo
    BY <1>5, CallTyped DEF RunDrains
  <2> QED BY <2>1, <2>2, SameRuns
<1>6. ASSUME NEW c \in Clients, ClientReturns(c) PROVE Shown'
  <2>1. /\ ~strayed' => ~strayed
        /\ ~strayed' => \A t \in Tasks : /\ entry'[t].state = entry[t].state
                                         /\ entry'[t].present => entry[t].present
    BY <1>6, WrittenStates, Distinct DEF ClientReturns
  <2>2. /\ exec' = exec
        /\ drainer'.at = "resolve" => drainer' = drainer
        /\ drainer'.todo \subseteq drainer.todo
    BY <1>6, CallTyped DEF ClientReturns
  <2>3. \A r \in Runs : Executing(r)' <=> Executing(r)
    BY <2>2 DEF Executing
  <2> QED BY <2>1, <2>2, <2>3, SameRuns
<1>7. CASE PassEnds \/ DrainLoops \/ PickClosed \/ ResolveDefers
  <2>1. UNCHANGED <<entry, exec, strayed>>
    BY <1>7 DEF PassEnds, DrainLoops, PickClosed, ResolveDefers
  <2>2. drainer'.at # "resolve" /\ drainer'.todo \subseteq drainer.todo
    <3>1. CASE PassEnds \/ PickClosed
      BY <3>1 DEF PassEnds, PickClosed, MayPick, Typed, TypeOK, Drainers
    <3>2. CASE DrainLoops
      BY <3>2 DEF DrainLoops, Resting, Typed, TypeOK, Drainers
    <3>3. CASE ResolveDefers
      BY <3>3 DEF ResolveDefers, Typed, TypeOK, Drainers
    <3> QED BY <1>7, <3>1, <3>2, <3>3
  <2> QED BY <1>1, <2>1, <2>2
<1>8. CASE Trouble
  BY <1>3, <1>8, WritesShown, TickShown DEF Trouble
<1>9. CASE Ticking
  BY <1>3, <1>4, <1>9, TickShown DEF Ticking
<1>10. CASE Draining
  BY <1>7, <1>10, LooksShown, StartShown, QueueingShown, WritesShown DEF Draining
<1>11. CASE \E r \in Runs : Running(r)
  BY <1>3, <1>5, <1>11, RunShown, WritesShown DEF Running
<1> QED BY <1>2, <1>3, <1>6, <1>8, <1>9, <1>10, <1>11 DEF Next

(***************************************************************************)
(* Wake-ups.                                                               *)
(***************************************************************************)
Room == Cardinality(RunningTasks) < MaxConcurrent

\* A step after which a pass over the queue is due.
LEMMA WokenNow ==
  ASSUME Woken, drainer'.skip \subseteq Idle \union Bound,
         fails' = 0 => fails = 0,
         fails' = 0 => (wanted' => drainer'.at # "off"),
         ~strayed' => Awake'
  PROVE  Woken'
BY DEF Woken

\* A step that leaves the executions and the queue in order as they are.
LEMMA WokenStill ==
  ASSUME Woken, drainer'.skip \subseteq Idle \union Bound,
         fails' = 0 => fails = 0,
         fails' = 0 => (wanted' => drainer'.at # "off"),
         ~strayed' => ~strayed,
         ~strayed' => /\ Awake => Awake'
                      /\ RunningTasks \subseteq RunningTasks' \/ Awake'
                      /\ Startable = {} => Startable' = {}
  PROVE  Woken'
<1>1. CASE strayed' \/ fails' # 0 \/ Awake'
  BY <1>1 DEF Woken
<1>2. CASE ~strayed' /\ fails' = 0 /\ ~Awake'
  <2>1. /\ ~strayed /\ fails = 0 /\ ~Awake /\ RunningTasks \subseteq RunningTasks'
        /\ Startable = {} => Startable' = {}
    BY <1>2
  <2>2. Cardinality(RunningTasks) <= Cardinality(RunningTasks)'
    <3>1. IsFiniteSet(RunningTasks') /\ RunningTasks \in SUBSET RunningTasks'
      <4>1. RunningTasks' \in SUBSET Tasks
        BY DEF RunningTasks
      <4> QED BY <2>1, <4>1, TasksAssumption, FS_Subset
    <3> QED BY <3>1, FS_Subset
  <2>3. Cardinality(RunningTasks) \in Nat /\ Cardinality(RunningTasks)' \in Nat
    <3>1. RunningTasks' \in SUBSET Tasks
      BY DEF RunningTasks
    <3>2. IsFiniteSet(RunningTasks') /\ Cardinality(RunningTasks') \in Nat
      BY <3>1, TasksAssumption, FS_Subset, FS_CardinalityType
    <3> QED BY <3>2, CountsFinite
  <2>4. Room' => Room
    BY <2>2, <2>3, CapAssumption DEF Room
  <2>5. Room => Startable = {}
    BY <2>1 DEF Woken, Room
  <2> QED BY <1>2, <2>1, <2>4, <2>5 DEF Woken, Room
<1> QED BY <1>1, <1>2

\* A call of drain is heard.
LEMMA CallWakes ==
  ASSUME Typed, Woken, NEW owner \in {"none", "tick"}, CallDrain(owner), UNCHANGED fails
  PROVE  /\ drainer'.skip \subseteq Idle \union Bound
         /\ fails' = 0 => (wanted' => drainer'.at # "off")
         /\ Awake'
BY CallTyped DEF Woken, Awake

\* A write that returns: where it takes a running task away, that is still executed.
LEMMA WrittenWakes ==
  ASSUME Typed, Shown, NEW p \in Procs, Return(p), entry' = Written(p),
         UNCHANGED queue,
         \A r \in Runs : /\ Executing(r) => Executing(r)'
                         /\ Executing(r) => exec'[r].task = exec[r].task
  PROVE  /\ ~strayed' => ~strayed
         /\ ~strayed' => /\ RunningTasks \subseteq RunningTasks' \/ Awake'
                         /\ Startable = {} => Startable' = {}
                         /\ (\E r \in Runs : Executing(r) /\ ~entry[exec[r].task].present) => Awake'
<1>1. /\ ~strayed' => ~strayed
      /\ ~strayed' => \A t \in Tasks : /\ entry'[t].state = entry[t].state
                                       /\ entry'[t].present => entry[t].present
  BY WrittenStates
<1> SUFFICES ASSUME ~strayed'
             PROVE  /\ RunningTasks \subseteq RunningTasks' \/ Awake'
                    /\ Startable = {} => Startable' = {}
                    /\ (\E r \in Runs : Executing(r) /\ ~entry[exec[r].task].present) => Awake'
  BY <1>1
<1>2. ASSUME NEW t \in RunningTasks, t \notin RunningTasks' PROVE Awake'
  <2>1. ~entry'[t].present
    BY <1>1, <1>2 DEF RunningTasks
  <2>2. PICK r \in Runs : Executing(r) /\ exec[r].task = t
    BY <1>1, <1>2 DEF Shown
  <2>3. Executing(r)' /\ exec'[r].task = t
    BY <2>2
  <2> QED BY <2>1, <2>3 DEF Awake
<1>3. Startable' \subseteq Startable
  <2>1. \A x \in queue : x.task \in Tasks
    BY DEF Typed, TypeOK, Items
  <2> QED BY <1>1, <2>1 DEF Startable, Live
<1>4. ASSUME NEW r \in Runs, Executing(r), ~entry[exec[r].task].present PROVE Awake'
  <2>1. exec[r].task \in Tasks /\ Executing(r)' /\ exec'[r].task = exec[r].task
    BY <1>4, TasksRun
  <2>2. ~entry'[exec'[r].task].present
    BY <1>1, <1>4, <2>1
  <2> QED BY <2>1, <2>2 DEF Awake
<1> QED BY <1>2, <1>3, <1>4

LEMMA ApiWoken ==
  ASSUME Typed, Typed', Stamped, Shown, Woken, NEW c \in Clients, NEW t \in Tasks, NEW b \in BOOLEAN,
         Enqueue(c, t, b) \/ Update(c, t, b) \/ MoveToFront(c, t) \/ Dequeue(c, t) \/ Remove(c, t)
  PROVE  Woken'
<1>1. /\ UNCHANGED <<wanted, exec, tick, fails, strayed>>
      /\ job[c] = NoJob /\ \A p \in Procs : p # c => job'[p] = job[p]
      /\ job \in [Procs -> Jobs] /\ c \in Procs
  BY Distinct, JobFields DEF Enqueue, Update, MoveToFront, Dequeue, Remove, Called, Save, Typed, TypeOK
<1>2. /\ drainer'.skip = drainer.skip /\ drainer'.at = drainer.at
  <2>1. CASE MoveToFront(c, t)
    BY <2>1 DEF MoveToFront, Typed, TypeOK, Drainers
  <2>2. CASE UNCHANGED drainer
    BY <2>2
  <2> QED BY <2>1, <2>2 DEF Enqueue, Update, Dequeue, Remove
<1>3. /\ drainer'.skip \subseteq Idle \union Bound
      /\ fails' = 0 => fails = 0
      /\ fails' = 0 => (wanted' => drainer'.at # "off")
  BY <1>1, <1>2 DEF Woken
<1>4. CASE Enqueue(c, t, b)
  <2>1. job'[c] # NoJob /\ job'[c].then = "drain"
    BY <1>1, <1>4, JobMade DEF Enqueue, Save, Thens
  <2>2. Awake'
    BY <2>1 DEF Awake
  <2> QED BY <1>3, <2>2, WokenNow
<1>5. CASE Update(c, t, b) \/ MoveToFront(c, t) \/ Dequeue(c, t) \/ Remove(c, t)
  <2>0. entry \in [Tasks -> Entries]
    BY DEF Typed, TypeOK
  <2>1. \A u \in Tasks : /\ entry'[u].state \in {entry[u].state, "idle"}
                         /\ entry'[u].state # "running" => entry[u].state # "running"
                         /\ entry'[u].present = entry[u].present
    <3>1. CASE Update(c, t, b)
      BY <3>1, UpdateIs DEF Typed
    <3>2. CASE Dequeue(c, t)
      BY <2>0, <3>2, StateIs DEF Dequeue, Live
    <3>3. CASE UNCHANGED entry
      BY <3>3
    <3> QED BY <1>5, <3>1, <3>2, <3>3 DEF MoveToFront, Remove
  <2>2. Awake => Awake'
    <3>1. \A r \in Runs : Executing(r)' = Executing(r)
      BY <1>1 DEF Executing
    <3>2. ASSUME NEW d \in Clients, job[d] # NoJob, job[d].then = "drain"
          PROVE  job'[d] # NoJob /\ job'[d].then = "drain"
      BY <1>1, <3>2, Distinct
    <3>3. ASSUME NEW r \in Runs, Executing(r), ~entry[exec[r].task].present
          PROVE  Executing(r)' /\ ~entry'[exec'[r].task].present
      BY <1>1, <2>1, <3>1, <3>3, TasksRun
    <3> QED BY <1>1, <1>2, <3>2, <3>3 DEF Awake
  <2>3. RunningTasks \subseteq RunningTasks'
    BY <2>1 DEF RunningTasks
  <2>4. ASSUME Startable = {} PROVE Startable' = {}
    <3>1. \A x \in queue' : \E y \in queue : y.task = x.task
      <4>1. CASE queue' \subseteq queue
        BY <4>1
      <4>2. CASE MoveToFront(c, t)
        <5>1. ItemsOf(t) # {} /\ ItemsOf(t) \in SUBSET queue
          BY <4>2 DEF MoveToFront, ItemsOf
        <5>2. First(ItemsOf(t)) \in Items /\ First(ItemsOf(t)) \in queue
          BY <5>1, ItemsAreFirst
        <5>3. queue' = (queue \ {First(ItemsOf(t))}) \union {[First(ItemsOf(t)) EXCEPT !.front = TRUE]}
          BY <4>2 DEF MoveToFront
        <5>4. [First(ItemsOf(t)) EXCEPT !.front = TRUE].task = First(ItemsOf(t)).task
          BY <5>2 DEF Items
        <5> QED BY <5>2, <5>3, <5>4
      <4> QED BY <1>5, <4>1, <4>2, WithoutIsLess DEF Update, Dequeue, Remove
    <3>2. \A x \in queue : x.task \in Tasks
      BY DEF Typed, TypeOK, Items
    <3> QED BY <2>1, <2>4, <3>1, <3>2 DEF Startable, Live
  <2> QED BY <1>1, <1>3, <2>2, <2>3, <2>4, WokenStill
<1> QED BY <1>4, <1>5

LEMMA ClientWoken ==
  ASSUME Typed, Typed', Shown, Woken, NEW c \in Clients, ClientReturns(c)
  PROVE  Woken'
<1> USE DEF budget
<1>1. CASE CallDrain("none")
  <2>1. fails' = fails
    BY DEF ClientReturns
  <2> QED BY <1>1, <2>1, CallWakes, WokenNow
<1>2. CASE UNCHANGED <<drainer, wanted>> /\ job[c].then # "drain"
  <2>1. /\ UNCHANGED <<queue, exec, tick, fails>> /\ Return(c) /\ entry' = Written(c) /\ c \in Procs
        /\ \A p \in Procs : p # c => job'[p] = job[p]
    BY Distinct DEF ClientReturns, Done, Typed, TypeOK
  <2>2. \A r \in Runs : Executing(r)' = Executing(r)
    BY <2>1 DEF Executing
  <2>3. /\ ~strayed' => ~strayed
        /\ ~strayed' => /\ RunningTasks \subseteq RunningTasks' \/ Awake'
                        /\ Startable = {} => Startable' = {}
                        /\ (\E r \in Runs : Executing(r) /\ ~entry[exec[r].task].present) => Awake'
    BY <2>1, <2>2, WrittenWakes
  <2>4. ~strayed' => (Awake => Awake')
    <3>1. \A d \in Clients : job[d] # NoJob /\ job[d].then = "drain" =>
                               job'[d] # NoJob /\ job'[d].then = "drain"
      BY <1>2, <2>1, Distinct
    <3> QED BY <1>2, <2>1, <2>3, <3>1 DEF Awake
  <2> QED BY <1>2, <2>1, <2>3, <2>4, WokenStill DEF Woken
<1> QED BY <1>1, <1>2 DEF ClientReturns

\* What is in order as long as nothing it looks at changes.
LEMMA QuietWoken ==
  ASSUME Typed, Woken,
         UNCHANGED <<entry, queue, drainer, wanted, exec, fails, strayed>>,
         tick.at # "off" => tick'.at # "off",
         \A c \in Clients : job[c] # NoJob /\ job[c].then = "drain" =>
                              job'[c] # NoJob /\ job'[c].then = "drain"
  PROVE  Woken'
<1>1. \A r \in Runs : Executing(r)' = Executing(r)
  BY DEF Executing
<1>2. Awake => Awake'
  BY <1>1 DEF Awake
<1>3. RunningTasks' = RunningTasks /\ Startable' = Startable
  BY DEF RunningTasks, Startable, Live
<1>4. /\ drainer'.skip \subseteq Idle \union Bound
      /\ fails' = 0 => fails = 0
      /\ fails' = 0 => (wanted' => drainer'.at # "off")
      /\ ~strayed' => ~strayed
  BY DEF Woken
<1> QED BY <1>2, <1>3, <1>4, WokenStill

LEMMA StepsAside ==
  ASSUME Typed, Woken, Talk \/ Hush \/ (\E p \in Procs : TakeLock(p)) \/ UNCHANGED vars
  PROVE  Woken'
<1> USE DEF budget
<1>1. UNCHANGED <<entry, queue, drainer, wanted, exec, fails, strayed, tick>>
  BY DEF Talk, Hush, TakeLock, vars
<1>2. \A q \in Procs : job[q] # NoJob => job'[q] # NoJob /\ job'[q].then = job[q].then
  <2>1. CASE UNCHANGED job
    BY <2>1
  <2>2. ASSUME NEW p \in Procs, TakeLock(p)
        PROVE  \A q \in Procs : job[q] # NoJob => job'[q] # NoJob /\ job'[q].then = job[q].then
    <3> DEFINE j == [at |-> "write", task |-> job[p].task, then |-> job[p].then, del |-> job[p].del,
                     copy |-> [entry[job[p].task] EXCEPT !.present = TRUE]]
    <3>1. job' = [job EXCEPT ![p] = j]
      BY <2>2 DEF TakeLock
    <3>2. j.at = "write" /\ j.then = job[p].then
      OBVIOUS
    <3>3. j # NoJob
      BY <3>2 DEF NoJob
    <3> HIDE DEF j
    <3> QED BY <3>1, <3>2, <3>3 DEF Typed, TypeOK
  <2> QED BY <2>1, <2>2 DEF Talk, Hush, vars
<1>3. Clients \subseteq Procs
  BY Distinct
<1> QED BY <1>1, <1>2, <1>3, QuietWoken

\* After a failed write only the list of the skipped tasks matters.
LEMMA FailuresWoken ==
  ASSUME Typed, Woken, Trouble PROVE Woken'
<1>1. fails' # 0
  BY DEF Trouble, ClientFails, RunFails, TickFails, DrainFails, GiveUp, Typed, TypeOK
<1>2. drainer'.skip = drainer.skip \/ drainer'.skip = {}
  <2>1. CASE UNCHANGED drainer
    BY <2>1
  <2>2. CASE DrainFails
    <3>1. CASE drainer' = Resting
      BY <3>1 DEF Resting
    <3>2. CASE DrainGoesOn
      BY <3>2 DEF DrainGoesOn, Typed, TypeOK, Drainers
    <3> QED BY <2>2, <3>1, <3>2 DEF DrainFails
  <2> QED BY <2>1, <2>2 DEF Trouble, ClientFails, RunFails, TickFails
<1> QED BY <1>1, <1>2 DEF Woken

\* A tick ends in a pass of its own.
LEMMA TickWoken ==
  ASSUME Typed, Typed', Woken, Ticking \/ \E due \in SUBSET Scheduled : TickStarts(due)
  PROVE  Woken'
<1> USE DEF budget
<1>0. fails' = fails
  BY DEF Ticking, TickTask, TickEnqueues, TickReturns, TickDrained, TickEnds, TickStarts
<1>1. CASE TickEnds
  <2>1. CallDrain("none")
    BY <1>1 DEF TickEnds
  <2> QED BY <1>0, <2>1, CallWakes, WokenNow
<1>2. CASE TickReturns
  <2>1. tick'.at # "off"
    BY <1>2 DEF TickReturns, Typed, TypeOK
  <2>2. CASE CallDrain("tick")
    BY <1>0, <2>2, CallWakes, WokenNow
  <2>3. CASE UNCHANGED <<drainer, wanted>>
    BY <1>0, <2>1, <2>3, WokenNow DEF Woken, Awake
  <2> QED BY <1>2, <2>2, <2>3 DEF TickReturns
<1>3. CASE TickDrained \/ TickEnqueues \/ (\E t \in Tasks : TickTask(t))
           \/ \E due \in SUBSET Scheduled : TickStarts(due)
  <2>1. UNCHANGED <<drainer, wanted>>
    BY <1>3 DEF TickDrained, TickEnqueues, TickTask, TickStarts
  <2>2. tick'.at # "off"
    <3>1. CASE TickEnqueues
      <4>1. "tick" \in Procs /\ job["tick"] # NoJob
        BY <3>1, Distinct DEF TickEnqueues, Return, NoJob
      <4>2. tick.at = "save"
        BY <4>1 DEF Typed, Placed
      <4> QED BY <3>1, <4>2 DEF TickEnqueues, Typed, TypeOK
    <3>2. CASE \E t \in Tasks : TickTask(t)
      BY <3>2 DEF TickTask, Typed, TypeOK
    <3>3. CASE TickDrained \/ \E due \in SUBSET Scheduled : TickStarts(due)
      BY <3>3 DEF TickDrained, TickStarts, Typed, TypeOK
    <3> QED BY <1>3, <3>1, <3>2, <3>3
  <2> QED BY <1>0, <2>1, <2>2, WokenNow DEF Woken, Awake
<1> QED BY <1>1, <1>2, <1>3 DEF Ticking

\* The steps of drain before the end of the pass.
LEMMA PassWoken ==
  ASSUME Typed, Stamped, Woken,
         \/ \E outside \in SUBSET Windowed : DrainPass(outside)
         \/ \E t \in Tasks : DrainPush(t)
         \/ PickScript \/ PickPrompt \/ PickClosed \/ ResolveStarts \/ ResolveDefers
         \/ \E off \in BOOLEAN : ResolveFails(off)
  PROVE  Woken'
<1>1. drainer \in Drainers /\ fails' = fails
  BY DEF DrainPass, DrainPush, PickScript, PickPrompt, PickClosed, ResolveStarts,
         ResolveDefers, ResolveFails, Typed, TypeOK
<1>2. /\ drainer'.at \in {"pass", "push", "save", "pick", "resolve"}
      /\ drainer'.skip \subseteq Idle \union Bound
  <2>1. ASSUME NEW outside \in SUBSET Windowed, DrainPass(outside)
        PROVE  drainer'.at \in {"push", "pick"} /\ drainer'.skip = {}
    <3> DEFINE idles == {t \in Idle : entry[t].present /\ entry[t].enabled /\ entry[t].state = "idle"}
               todo  == IF IdleEligible(queue) THEN idles \ outside ELSE {}
    <3>1. drainer' = [drainer EXCEPT !.at = IF todo = {} THEN "pick" ELSE "push",
                                     !.todo = todo, !.skip = {}]
      BY <2>1 DEF DrainPass
    <3> HIDE DEF todo
    <3> QED BY <1>1, <3>1 DEF Drainers
  <2>2. ASSUME NEW t \in Tasks, DrainPush(t) PROVE drainer'.at = "save" /\ drainer'.skip = drainer.skip
    BY <1>1, <2>2 DEF DrainPush, Drainers
  <2>3. CASE PickScript \/ ResolveStarts
    BY <1>1, <2>3 DEF PickScript, ResolveStarts, Start, Drainers, Woken
  <2>4. CASE PickPrompt
    BY <1>1, <2>4 DEF PickPrompt, Drainers, Woken
  <2>5. CASE PickClosed
    <3>1. drainer.at = "pick" /\ drainer' = [drainer EXCEPT !.skip = drainer.skip \union {Picked.task}]
      BY <2>5 DEF PickClosed, MayPick
    <3>2. Picked.task \in Idle
      BY <2>5, KindsAssumption DEF PickClosed
    <3> QED BY <1>1, <3>1, <3>2 DEF Drainers, Woken
  <2>6. CASE ResolveDefers
    <3>1. drainer' = [drainer EXCEPT !.at = "pick", !.item = NoItem,
                                     !.skip = drainer.skip \union {drainer.item.task}]
      BY <2>6 DEF ResolveDefers
    <3>2. drainer.item.task \in Bound
      BY <2>6 DEF ResolveDefers, TargetBusy
    <3> QED BY <1>1, <3>1, <3>2 DEF Drainers, Woken
  <2>7. ASSUME NEW off \in BOOLEAN, ResolveFails(off) PROVE drainer'.at = "save" /\ drainer'.skip = drainer.skip
    BY <1>1, <2>7 DEF ResolveFails, Drainers
  <2> QED BY <2>1, <2>2, <2>3, <2>4, <2>5, <2>6, <2>7 DEF Woken
<1>3. Awake' /\ drainer'.at # "off"
  BY <1>2 DEF Awake
<1> QED BY <1>1, <1>2, <1>3, WokenNow

\* The pass ends with room left only when nothing but tasks of idle times is left,
\* or of the session the user talks in: they are after every other item.
LEMMA PassEndWoken ==
  ASSUME Typed, Stamped, Woken, PassEnds PROVE Woken'
<1>1. /\ UNCHANGED <<entry, wanted, exec, fails, strayed>>
      /\ drainer' = [drainer EXCEPT !.at = "others"] /\ drainer.at = "pick"
  BY DEF PassEnds
<1>2. drainer'.at = "others" /\ drainer'.skip = drainer.skip
  BY <1>1 DEF Typed, TypeOK, Drainers
<1>3. ASSUME Room, NEW x \in Startable' PROVE FALSE
  <2>1. HasSlot /\ queue' = queue \ Dead
    BY <1>3, CountIs DEF PassEnds, Room, HasSlot
  <2>2. x \in queue /\ x.task \notin Idle \union Bound /\ Live(x.task)
    BY <1>1, <1>3, <2>1 DEF Startable, Live
  <2>3. x \in Pickable /\ Pickable \in SUBSET queue
    BY <2>2 DEF Pickable, Candidates, Woken
  <2>4. /\ Picked \in Items /\ x \in Items
        /\ \A y \in Pickable \ {Picked} : Before(Picked, y)
    BY <2>3, ItemsAreFirst DEF Picked, Typed, TypeOK
  <2>5. Picked.task \in Idle
    BY <1>1, <2>1, <2>3 DEF PassEnds, MayPick
  <2>6. Before(Picked, x)
    BY <2>2, <2>3, <2>4, <2>5
  <2>7. Priority(Picked) = 3 /\ Priority(x) \in 0..3 /\ Priority(x) # 3
    BY <2>2, <2>4, <2>5, Priorities
  <2> QED BY <2>6, <2>7 DEF Before
<1>4. RunningTasks' = RunningTasks
  BY <1>1 DEF RunningTasks
<1> QED BY <1>1, <1>2, <1>3, <1>4 DEF Woken, Room

LEMMA LoopWoken ==
  ASSUME Typed, Woken, DrainLoops PROVE Woken'
<1>1. UNCHANGED <<entry, queue, wanted, job, exec, tick, fails, strayed>> /\ drainer.at = "others"
  BY DEF DrainLoops
<1>2. CASE wanted
  <2>1. drainer'.at = "pass" /\ drainer'.skip = drainer.skip
    BY <1>2 DEF DrainLoops, Typed, TypeOK, Drainers
  <2>2. Awake'
    BY <2>1 DEF Awake
  <2> QED BY <1>1, <2>1, <2>2, WokenNow DEF Woken
<1>3. CASE ~wanted
  <2>1. drainer'.skip = {}
    BY <1>3 DEF DrainLoops, Resting
  <2>2. \A r \in Runs : Executing(r)' = Executing(r)
    BY <1>1 DEF Executing
  <2>3. Awake => Awake'
    BY <1>1, <1>3, <2>2 DEF Awake
  <2>4. RunningTasks' = RunningTasks /\ Startable' = Startable
    BY <1>1 DEF RunningTasks, Startable, Live
  <2> QED BY <1>1, <1>3, <2>1, <2>3, <2>4, WokenStill
<1> QED BY <1>2, <1>3

LEMMA DrainWriteWoken ==
  ASSUME Typed, Shown, Woken, DrainReturns PROVE Woken'
<1>1. /\ Return("drain") /\ entry' = Written("drain") /\ DrainGoesOn
      /\ UNCHANGED <<queue, tick, fails>> /\ job["drain"] # NoJob /\ "drain" \in Procs
  BY Distinct DEF DrainReturns, Return, NoJob
<1>2. /\ \A r \in Runs : /\ Executing(r)' <=> Executing(r)
                         /\ Executing(r) => exec'[r].task = exec[r].task
                         /\ ~Executing(r) => exec'[r] = exec[r]
      /\ drainer'.skip = drainer.skip
      /\ \/ drainer' = drainer /\ wanted' = wanted
         \/ drainer'.at \in {"pick", "push"}
      /\ \A p \in Procs : p # "drain" => job'[p] = job[p]
  <2>1. job \in [Procs -> Jobs]
    BY DEF Typed, TypeOK
  <2> QED BY <1>1, <2>1, GoesOn
<1>3. CASE drainer'.at \in {"pick", "push"}
  <2>1. Awake'
    BY <1>3 DEF Awake
  <2> QED BY <1>1, <1>2, <1>3, <2>1, WokenNow DEF Woken
<1>4. CASE drainer' = drainer /\ wanted' = wanted
  <2>1. /\ ~strayed' => ~strayed
        /\ ~strayed' => /\ RunningTasks \subseteq RunningTasks' \/ Awake'
                        /\ Startable = {} => Startable' = {}
                        /\ (\E r \in Runs : Executing(r) /\ ~entry[exec[r].task].present) => Awake'
    BY <1>1, <1>2, WrittenWakes
  <2>2. ~strayed' => (Awake => Awake')
    <3>1. \A c \in Clients : job'[c] = job[c]
      BY <1>2, Distinct
    <3>2. \A r \in Runs : exec[r].at \in {"finish", "notify", "tail"} => exec'[r].at = exec[r].at
      BY <1>2 DEF Executing
    <3> QED BY <1>1, <1>4, <2>1, <3>1, <3>2 DEF Awake
  <2> QED BY <1>1, <1>2, <1>4, <2>1, <2>2, WokenStill DEF Woken
<1> QED BY <1>2, <1>3, <1>4

LEMMA RunWoken ==
  ASSUME Typed, Shown, Woken, NEW r \in Runs, Running(r) PROVE Woken'
<1> USE DEF budget
<1>1. fails' = fails /\ exec \in [Runs -> Execs]
  BY DEF Running, RunEnds, RunAborts, RunReturns, RunNotifies, RunDrains, Typed, TypeOK
<1>2. CASE (\E off \in BOOLEAN : RunEnds(r, off)) \/ RunNotifies(r)
  <2>1. UNCHANGED <<drainer, wanted>> /\ exec'[r].at \in {"finish", "notify", "tail"}
    <3>1. CASE \E off \in BOOLEAN : RunEnds(r, off)
      <4>1. exec' = [exec EXCEPT ![r].at = "finish"] /\ exec[r].at = "run"
        BY <3>1 DEF RunEnds
      <4>2. exec'[r].at = "finish"
        BY <1>1, <4>1 DEF Execs, NoRun
      <4> QED BY <3>1, <4>2 DEF RunEnds
    <3>2. CASE RunNotifies(r)
      BY <3>2 DEF RunNotifies
    <3> QED BY <1>2, <3>1, <3>2
  <2>2. Awake'
    BY <2>1 DEF Awake
  <2> QED BY <1>1, <2>1, <2>2, WokenNow DEF Woken
<1>3. CASE CallDrain("none")
  BY <1>1, <1>3, CallWakes, WokenNow
<1>4. CASE RunAborts(r) /\ UNCHANGED <<drainer, wanted>> /\ entry[exec[r].task].state # "running"
  <2>1. strayed /\ strayed' = strayed
    BY <1>4 DEF RunAborts, Shown, Executing
  <2> QED BY <1>1, <1>4, <2>1, WokenNow DEF Woken
<1>5. CASE RunReturns(r)
  <2>1. /\ Return(r) /\ entry' = Written(r) /\ RunGoesOn(r)
        /\ UNCHANGED <<queue, drainer, wanted, tick>>
        /\ job[r] # NoJob /\ r \in Procs
    BY <1>5, Distinct DEF RunReturns, Return, NoJob
  <2>2. PICK e \in Execs :
          /\ exec' = [exec EXCEPT ![r] = e] /\ e.at \in {"free", "notify", "tail"}
          /\ exec[r].at \in {"finish", "notify"} => e.at \in {"notify", "tail"}
    BY <2>1, RunGoes
  <2>3. exec[r].at \in {"finish", "notify", "abort"} /\ job' = [job EXCEPT ![r] = NoJob]
    BY <2>1, RunGoes
  <2>4. exec'[r] = e /\ \A q \in Runs : q # r => exec'[q] = exec[q]
    BY <1>1, <2>2
  <2>5. CASE exec[r].at \in {"finish", "notify"}
    <3>1. Awake'
      BY <2>2, <2>4, <2>5 DEF Awake
    <3> QED BY <1>1, <2>1, <3>1, WokenNow DEF Woken
  <2>6. CASE exec[r].at = "abort"
    <3>1. \A q \in Runs : /\ Executing(q)' <=> Executing(q)
                          /\ Executing(q) => exec'[q].task = exec[q].task
                          /\ exec[q].at \in {"finish", "notify", "tail"} => exec'[q] = exec[q]
      BY <2>2, <2>4, <2>6 DEF Executing
    <3>2. /\ ~strayed' => ~strayed
          /\ ~strayed' => /\ RunningTasks \subseteq RunningTasks' \/ Awake'
                          /\ Startable = {} => Startable' = {}
                          /\ (\E q \in Runs : Executing(q) /\ ~entry[exec[q].task].present) => Awake'
      BY <2>1, <3>1, WrittenWakes
    <3>3. \A c \in Clients : job'[c] = job[c]
      BY <2>3, Distinct DEF Typed, TypeOK
    <3>4. ~strayed' => (Awake => Awake')
      BY <2>1, <3>1, <3>2, <3>3 DEF Awake
    <3> QED BY <1>1, <2>1, <3>2, <3>4, WokenStill DEF Woken
  <2> QED BY <2>3, <2>5, <2>6
<1> QED BY <1>2, <1>3, <1>4, <1>5 DEF Running, RunAborts, RunDrains

LEMMA WokenNext == Typed /\ Typed' /\ Stamped /\ Shown /\ Woken /\ [Next]_vars => Woken'
<1> SUFFICES ASSUME Typed, Typed', Stamped, Shown, Woken, [Next]_vars PROVE Woken'
  OBVIOUS
<1>1. CASE Api
  BY <1>1, ApiWoken DEF Api
<1>2. CASE Talk \/ Hush \/ (\E p \in Procs : TakeLock(p)) \/ UNCHANGED vars
  BY <1>2, StepsAside
<1>3. CASE Trouble
  BY <1>3, FailuresWoken
<1>4. CASE Ticking \/ \E due \in SUBSET Scheduled : TickStarts(due)
  BY <1>4, TickWoken
<1>5. CASE \E c \in Clients : ClientReturns(c)
  BY <1>5, ClientWoken
<1>6. CASE Draining
  BY <1>6, PassWoken, PassEndWoken, LoopWoken, DrainWriteWoken DEF Draining
<1>7. CASE \E r \in Runs : Running(r)
  BY <1>7, RunWoken
<1> QED BY <1>1, <1>2, <1>3, <1>4, <1>5, <1>6, <1>7 DEF Next

(***************************************************************************)
(* The theorems.                                                           *)
(***************************************************************************)
LEMMA InitInv == Init => Inv
<1> SUFFICES ASSUME Init PROVE Inv
  OBVIOUS
<1>1. Typed
  <2>1. entry \in [Tasks -> Entries] /\ queue \subseteq Items /\ stamp \in Nat
    BY DEF Init, Entries
  <2>2. drainer \in Drainers /\ wanted \in BOOLEAN
    BY DEF Init, Drainers, Resting, NoItem
  <2>3. job \in [Procs -> Jobs] /\ exec \in [Runs -> Execs]
    BY DEF Init, Jobs, Execs
  <2>4. /\ tick \in [at : {"off", "loop", "save", "drain"}, due : SUBSET Scheduled,
                     task : Scheduled \union {"none"}]
        /\ talking \in BOOLEAN /\ ops \in Nat /\ ticks \in Nat /\ fails \in Nat
        /\ strayed \in BOOLEAN
    BY DEF Init
  <2>5. Placed
    BY Distinct DEF Init, Placed, Resting, NoJob
  <2> QED BY <2>1, <2>2, <2>3, <2>4, <2>5 DEF Typed, TypeOK
<1>2. Stamped
  <2>1. Given = {}
    BY NoItemIsNone DEF Init, Given, Resting
  <2> QED BY <2>1 DEF Init, Stamped
<1>3. RunningTasks = {} /\ \A r \in Runs : ~Executing(r)
  BY DEF Init, RunningTasks, Executing, NoRun
<1>4. Shown
  <2>1. Cardinality(RunningTasks) = 0
    BY <1>3, FS_EmptySet
  <2> QED BY <1>3, <2>1, CapAssumption DEF Init, Shown, Resting
<1>5. Woken
  BY DEF Init, Woken, Resting, Startable
<1> QED BY <1>1, <1>2, <1>4, <1>5 DEF Inv

\* The four parts are inductive together.
THEOREM Invariance == Spec => []Inv
<1>1. Inv /\ [Next]_vars => Inv'
  BY TypesNext, StampsNext, ShownNext, WokenNext DEF Inv
<1> QED BY <1>1, InitInv, PTL DEF Spec

THEOREM TypeCorrect == Spec => []TypeOK
<1>1. Inv => TypeOK
  BY DEF Inv, Typed
<1> QED BY <1>1, Invariance, PTL

\* While no write overwrote another change, an execution in progress is shown as
\* running, and no other is of the same task, whatever the callers, the ticks and
\* the ends of runs do between the check of drain and the start.
THEOREM TasksRunOnce == Spec => []OneRunPerTask
<1>1. Inv => OneRunPerTask
  BY DEF Inv, Shown, OneRunPerTask
<1> QED BY <1>1, Invariance, PTL

\* Under the same condition no user has more executions than the cap: the tasks shown
\* as running are counted, and each of them is executed once.
THEOREM CapHolds == Spec => []CapKept
<1>1. ASSUME Inv PROVE CapKept
  <2> DEFINE S == {r \in Runs : Executing(r) /\ entry[exec[r].task].present}
             f == [r \in S |-> exec[r].task]
  <2>1. SUFFICES ASSUME ~strayed PROVE Cardinality(S) <= MaxConcurrent
    BY DEF CapKept
  <2>2. f \in [S -> RunningTasks]
    BY <1>1, <2>1, TasksRun DEF Inv, Shown, RunningTasks
  <2>3. \A q, r \in S : f[q] = f[r] => q = r
    BY <1>1, <2>1 DEF Inv, Shown
  <2>4. f \in Injection(S, RunningTasks)
    BY <2>2, <2>3 DEF Injection, IsInjective
  <2> HIDE DEF S, f
  <2>5. IsFiniteSet(RunningTasks) /\ Cardinality(RunningTasks) \in Nat
    BY CountsFinite
  <2>6. IsFiniteSet(S) /\ Cardinality(S) <= Cardinality(RunningTasks)
    BY <2>4, <2>5, FS_Injection
  <2>7. Cardinality(S) \in Nat /\ Cardinality(RunningTasks) <= MaxConcurrent
    BY <1>1, <2>1, <2>6, FS_CardinalityType DEF Inv, Shown
  <2> QED BY <2>5, <2>6, <2>7, CapAssumption
<1> QED BY <1>1, Invariance, PTL

\* A drain that finds another under way only leaves a mark, and yet no item that could
\* start stays in the queue: the drain that sees the mark looks again, and every step
\* that makes room or queues a task is followed by a pass.
THEOREM WakeupsKept == Spec => []NoLostWakeup
<1>1. ASSUME Inv PROVE NoLostWakeup
  <2>1. SUFFICES ASSUME Settled, fails = 0, ~strayed, HasSlot, NEW x \in queue,
                        x.task \notin Idle \union Bound, Live(x.task)
                 PROVE  FALSE
    BY DEF NoLostWakeup
  <2>2. ~wanted
    BY <1>1, <2>1 DEF Inv, Woken, Settled
  <2>3. \A c \in Clients : job[c] = NoJob
    BY <1>1, <2>1, Distinct, JobFields DEF Inv, Typed, TypeOK, Settled
  <2>4. \A r \in Runs : /\ exec[r].at \notin {"finish", "notify", "tail"}
                        /\ Executing(r) => entry[exec[r].task].present
    BY <2>1 DEF Settled, Executing, NoRun
  <2>5. ~Awake
    BY <2>1, <2>2, <2>3, <2>4 DEF Awake, Settled
  <2>6. x \in Startable /\ Cardinality(RunningTasks) < MaxConcurrent
    BY <2>1, CountIs DEF Startable, HasSlot
  <2> QED BY <1>1, <2>1, <2>5, <2>6 DEF Inv, Woken
<1> QED BY <1>1, Invariance, PTL

=============================================================================
