------------------------------ MODULE TaskQueue ------------------------------
(***************************************************************************)
(* The task queue of one user (core/schedule/tasks.ts): the entries in     *)
(* memory, the queue, the single drain that starts what may start, the     *)
(* executions it launches, the scheduler's tick and the API calls, each    *)
(* split at its awaits.                                                    *)
(*                                                                         *)
(* Every change of an entry ends in persistEntry: under the write lock of  *)
(* the user's file a copy of the entry is taken and written, and when the  *)
(* await returns that copy is assigned back over the entry.  The file      *)
(* itself is read by nobody here but under that lock, so what it holds of  *)
(* an entry is the copy of the last write and has no variable.             *)
(*                                                                         *)
(* Left out: restart, task contents and history records; a tick that       *)
(* outlasts the interval and meets the next one; the kind and the runner   *)
(* of a task do not change.                                                *)
(***************************************************************************)
EXTENDS Naturals, FiniteSets

CONSTANTS
  Scheduled, Manual, Idle,  \* the tasks, by kind
  OneShot,        \* scheduled tasks with an @at schedule
  Prompt,         \* tasks run by a session; the others run a script
  Bound,          \* prompt tasks whose session is the one the user talks in
  Ephemeral,      \* tasks deleted by the end of their run
  Windowed,       \* idle tasks that have an execution window
  Notified,       \* tasks that are saved once more after a notification
  MaxConcurrent,  \* running tasks allowed to the user
  Clients,        \* concurrent callers of the API
  Runs,           \* bound of the model: executions in progress
  MaxOps, MaxTicks, MaxFails  \* bounds: API calls and turns, ticks, failed writes

Tasks == Scheduled \union Manual \union Idle

ASSUME CapAssumption == MaxConcurrent \in Nat \ {0}
ASSUME KindsAssumption ==
  /\ Scheduled \intersect Manual = {} /\ (Scheduled \union Manual) \intersect Idle = {}
  /\ OneShot \subseteq Scheduled /\ Windowed \subseteq Idle
  /\ Notified \subseteq Tasks \ Ephemeral
  /\ Bound \subseteq Prompt /\ Prompt \subseteq Tasks /\ Ephemeral \subseteq Tasks
ASSUME TasksAssumption == IsFiniteSet(Tasks)
ASSUME ProcessAssumption ==
  /\ Clients \intersect Runs = {}
  /\ {"drain", "tick"} \intersect (Clients \union Runs) = {}

Procs == Clients \union Runs \union {"drain", "tick"}

VARIABLES
  entry,    \* this.entries, what the queue needs of each task
  queue,    \* this.queue as a set; its order is Before
  stamp,    \* enqueuedAt of the next item
  drainer,  \* where drain is: its owner, the idle tasks it enters, skip, item
  wanted,   \* drainWanted
  job,      \* the persistEntry or deleteEntry each process awaits
  exec,     \* the executions in progress
  tick,     \* where the scheduler's tick is, the due tasks left and the one at hand
  talking,  \* the user's session has a run of its own
  ops, ticks, fails,  \* how much of the bounds is used
  strayed   \* history: an entry stopped saying what its task is doing

vars == <<entry, queue, stamp, drainer, wanted, job, exec, tick, talking,
          ops, ticks, fails, strayed>>
budget == <<ops, ticks, fails>>

NoJob   == [at |-> "none"]
NoRun   == [at |-> "free"]
NoItem  == [task |-> "none"]
Resting == [at |-> "off", owner |-> "none", todo |-> {}, skip |-> {}, item |-> NoItem]

Init ==
  /\ entry = [t \in Tasks |->
       [present |-> TRUE, enabled |-> TRUE, armed |-> TRUE, state |-> "idle"]]
  /\ queue = {} /\ stamp = 0
  /\ drainer = Resting /\ wanted = FALSE
  /\ job = [p \in Procs |-> NoJob]
  /\ exec = [r \in Runs |-> NoRun]
  /\ tick = [at |-> "off", due |-> {}, task |-> "none"]
  /\ talking = FALSE
  /\ ops = 0 /\ ticks = 0 /\ fails = 0
  /\ strayed = FALSE

(***************************************************************************)
(* The queue.                                                              *)
(***************************************************************************)
Priority(x) ==
  CASE x.task \in Scheduled -> 0
    [] x.task \in Idle      -> 3
    [] OTHER                -> IF x.front THEN 1 ELSE 2

Before(x, y) ==
  \/ Priority(x) < Priority(y)
  \/ Priority(x) = Priority(y) /\ x.at < y.at

First(items) == CHOOSE x \in items : \A y \in items \ {x} : Before(x, y)

ItemsOf(t) == {x \in queue : x.task = t}

\* dropQueueItem: the first item of the task, if it has one.
Without(t) == IF ItemsOf(t) = {} THEN queue ELSE queue \ {First(ItemsOf(t))}

\* pushQueueItem up to its await: whatever the entry was, it is queued.
Push(t, source, front) ==
  /\ queue' = queue \union {[task |-> t, source |-> source, front |-> front, at |-> stamp]}
  /\ stamp' = stamp + 1

Live(t) == entry[t].present /\ entry[t].state = "queued"

RunningCount == Cardinality({t \in Tasks : entry[t].present /\ entry[t].state = "running"})

\* engine.isRunning(session the user talks in) and engine.busyUser.
SessionBusy == talking \/ \E r \in Runs : exec[r].at = "run" /\ exec[r].task \in Bound
UserBusy    == talking \/ \E r \in Runs : exec[r].at = "run" /\ exec[r].task \in Prompt

IdleEligible(items) ==
  /\ \A x \in items : x.task \in Idle
  /\ RunningCount = 0
  /\ ~UserBusy

(***************************************************************************)
(* persistEntry and deleteEntry.  The copy is taken when the lock is held; *)
(* the lock is not first come, first served.                               *)
(***************************************************************************)
Saving(t, then) == [at |-> "wait", task |-> t, then |-> then, del |-> FALSE]
Deleting(t, then) == [Saving(t, then) EXCEPT !.del = TRUE]

Save(p, t, then) == job' = [job EXCEPT ![p] = Saving(t, then)]

TakeLock(p) ==
  /\ job[p].at = "wait"
  /\ \A q \in Procs : job[q].at # "write"
  /\ job' = [job EXCEPT ![p] =
       [at |-> "write", task |-> @.task, then |-> @.then, del |-> @.del,
        copy |-> [entry[@.task] EXCEPT !.present = TRUE]]]
  /\ UNCHANGED <<entry, queue, stamp, drainer, wanted, exec, tick, talking, budget, strayed>>

\* The entries when the write of p has returned, and what that overwrote.
Written(p) ==
  IF job[p].del THEN [entry EXCEPT ![job[p].task].present = FALSE]
                ELSE [entry EXCEPT ![job[p].task] = job[p].copy]

Overwrites(p) ==
  LET now == entry[job[p].task]
  IN  ~job[p].del /\ (now.state # job[p].copy.state \/ ~now.present)

Return(p) ==
  /\ job[p].at = "write"
  /\ strayed' = (strayed \/ Overwrites(p))

\* The lock was not had in time, or the write failed: the file is unchanged.
GiveUp(p) ==
  /\ job[p].at # "none"
  /\ fails < MaxFails
  /\ fails' = fails + 1

Done(p) == job' = [job EXCEPT ![p] = NoJob]

\* Mutant of CallDrain: a call that finds drain under way leaves no mark.
CallDrainOnce(owner) ==
  /\ drainer' = IF drainer.at = "off"
                THEN [Resting EXCEPT !.at = "pass", !.owner = owner] ELSE drainer
  /\ UNCHANGED wanted

\* A call of drain: one that finds it under way marks wanted.
CallDrain(owner) ==
  IF drainer.at = "off"
  THEN drainer' = [Resting EXCEPT !.at = "pass", !.owner = owner] /\ UNCHANGED wanted
  ELSE wanted' = TRUE /\ UNCHANGED drainer

(***************************************************************************)
(* The API.                                                                *)
(***************************************************************************)
Called(c) ==
  /\ job[c].at = "none"
  /\ ops < MaxOps
  /\ ops' = ops + 1

\* Mutant of Enqueue: a running task may be queued again.
EnqueueRunning(c, t, front) ==
  /\ Called(c)
  /\ entry[t].present /\ entry[t].enabled /\ entry[t].state # "queued"
  /\ entry' = [entry EXCEPT ![t].state = "queued"]
  /\ Push(t, "manual", front)
  /\ Save(c, t, "drain")
  /\ UNCHANGED <<drainer, wanted, exec, tick, talking, ticks, fails, strayed>>

\* enqueue of a task that is neither queued nor running.
Enqueue(c, t, front) ==
  /\ Called(c)
  /\ entry[t].present /\ entry[t].enabled /\ entry[t].state = "idle"
  /\ entry' = [entry EXCEPT ![t].state = "queued"]
  /\ Push(t, "manual", front)
  /\ Save(c, t, "drain")
  /\ UNCHANGED <<drainer, wanted, exec, tick, talking, ticks, fails, strayed>>

\* enqueue of a task already queued, to the front.  drain holds the item
\* itself, not a copy.
MoveToFront(c, t) ==
  /\ Called(c)
  /\ entry[t].present /\ entry[t].enabled /\ entry[t].state = "queued"
  /\ ItemsOf(t) # {}
  /\ LET x == First(ItemsOf(t))
         y == [x EXCEPT !.front = TRUE]
     IN  /\ queue' = (queue \ {x}) \union {y}
         /\ drainer' = IF drainer.item = x THEN [drainer EXCEPT !.item = y] ELSE drainer
  /\ Save(c, t, "return")
  /\ UNCHANGED <<entry, stamp, wanted, exec, tick, talking, ticks, fails, strayed>>

\* dequeue; cancel and, on a queued task, stopRun.
Dequeue(c, t) ==
  /\ Called(c)
  /\ Live(t)
  /\ queue' = Without(t)
  /\ entry' = [entry EXCEPT ![t].state = "idle"]
  /\ Save(c, t, "return")
  /\ UNCHANGED <<stamp, drainer, wanted, exec, tick, talking, ticks, fails, strayed>>

\* update, with on as the new value of enabled.
Update(c, t, on) ==
  /\ Called(c)
  /\ entry[t].present
  /\ queue' = IF on THEN queue ELSE Without(t)
  /\ entry' = [entry EXCEPT
       ![t].enabled = on,
       ![t].armed   = @ \/ (t \in Scheduled /\ on),
       ![t].state   = IF ~on /\ @ = "queued" THEN "idle" ELSE @]
  /\ Save(c, t, "update")
  /\ UNCHANGED <<stamp, drainer, wanted, exec, tick, talking, ticks, fails, strayed>>

Remove(c, t) ==
  /\ Called(c)
  /\ entry[t].present
  /\ queue' = Without(t)
  /\ job' = [job EXCEPT ![c] = Deleting(t, "return")]
  /\ UNCHANGED <<entry, stamp, drainer, wanted, exec, tick, talking, ticks, fails, strayed>>

ClientReturns(c) ==
  /\ Return(c)
  /\ entry' = Written(c)
  /\ Done(c)
  /\ IF \/ job[c].then = "drain"
        \/ job[c].then = "update" /\ job[c].task \in Idle /\ job[c].copy.enabled
     THEN CallDrain("none")
     ELSE UNCHANGED <<drainer, wanted>>
  /\ UNCHANGED <<queue, stamp, exec, tick, talking, budget>>

\* The caller is given the error; the entry and the queue stay as they are.
ClientFails(c) ==
  /\ GiveUp(c)
  /\ Done(c)
  /\ UNCHANGED <<entry, queue, stamp, drainer, wanted, exec, tick, talking, ops, ticks, strayed>>

\* The user's session starts and ends a run of its own.
Talk ==
  /\ ~talking /\ ops < MaxOps
  /\ talking' = TRUE /\ ops' = ops + 1
  /\ UNCHANGED <<entry, queue, stamp, drainer, wanted, job, exec, tick, ticks, fails, strayed>>

Hush ==
  /\ talking
  /\ talking' = FALSE
  /\ UNCHANGED <<entry, queue, stamp, drainer, wanted, job, exec, tick, budget, strayed>>

(***************************************************************************)
(* tick.                                                                   *)
(***************************************************************************)
TickStarts(due) ==
  /\ tick.at = "off" /\ ticks < MaxTicks
  /\ ticks' = ticks + 1
  /\ \A t \in due : entry[t].present
  /\ tick' = [tick EXCEPT !.at = "loop", !.due = due]
  /\ UNCHANGED <<entry, queue, stamp, drainer, wanted, job, exec, talking, ops, fails, strayed>>

\* enqueueDue: a task still running or queued is skipped.
TickTask(t) ==
  /\ tick.at = "loop" /\ t \in tick.due
  /\ IF entry[t].enabled /\ entry[t].armed
     THEN /\ entry' = [entry EXCEPT ![t].armed = t \notin OneShot]
          /\ Save("tick", t, IF entry[t].state = "idle" THEN "enqueue" ELSE "skip")
          /\ tick' = [at |-> "save", due |-> tick.due \ {t}, task |-> t]
     ELSE /\ tick' = [tick EXCEPT !.due = @ \ {t}]
          /\ UNCHANGED <<entry, job>>
  /\ UNCHANGED <<queue, stamp, drainer, wanted, exec, talking, budget, strayed>>

\* The write of enqueueDue has returned; its call of enqueue.
TickEnqueues ==
  /\ Return("tick") /\ job["tick"].then = "enqueue"
  /\ LET t == job["tick"].task
         e == job["tick"].copy
     IN  IF e.enabled /\ e.state = "idle"
         THEN /\ entry' = [Written("tick") EXCEPT ![t].state = "queued"]
              /\ Push(t, "schedule", FALSE)
              /\ Save("tick", t, "drain")
              /\ UNCHANGED tick
         ELSE /\ entry' = Written("tick")
              /\ Done("tick")
              /\ tick' = [tick EXCEPT !.at = "loop"]
              /\ UNCHANGED <<queue, stamp>>
  /\ UNCHANGED <<drainer, wanted, exec, talking, budget>>

\* The last write of a due task has returned.  A drain the tick started is
\* awaited, one that was under way is not.
TickReturns ==
  /\ Return("tick") /\ job["tick"].then \in {"drain", "skip", "next"}
  /\ entry' = Written("tick")
  /\ Done("tick")
  /\ IF job["tick"].then = "drain"
     THEN /\ CallDrain("tick")
          /\ tick' = [tick EXCEPT !.at = IF drainer.at = "off" THEN "drain" ELSE "loop"]
     ELSE /\ tick' = [tick EXCEPT !.at = "loop"]
          /\ UNCHANGED <<drainer, wanted>>
  /\ UNCHANGED <<queue, stamp, exec, talking, budget>>

TickDrained ==
  /\ tick.at = "drain" /\ drainer.owner # "tick"
  /\ tick' = [tick EXCEPT !.at = "loop"]
  /\ UNCHANGED <<entry, queue, stamp, drainer, wanted, job, exec, talking, budget, strayed>>

\* The catch of tick: the task is idle, whatever it was, and not queued.
Recovered(t) ==
  [entry EXCEPT ![t].state = "idle",
                ![t].enabled = @ /\ t \notin OneShot,
                ![t].armed = t \notin OneShot]

TickFails ==
  /\ GiveUp("tick")
  /\ LET t == tick.task
     IN  IF job["tick"].then = "next"
         THEN /\ Done("tick")
              /\ tick' = [tick EXCEPT !.at = "loop"]
              /\ UNCHANGED <<entry, queue, strayed>>
         ELSE /\ entry' = Recovered(t)
              /\ queue' = Without(t)
              /\ Save("tick", t, "next")
              /\ strayed' = (strayed \/ entry[t].state = "running")
              /\ UNCHANGED tick
  /\ UNCHANGED <<stamp, drainer, wanted, exec, talking, ops, ticks>>

TickEnds ==
  /\ tick.at = "loop" /\ tick.due = {}
  /\ tick' = [at |-> "off", due |-> {}, task |-> "none"]
  /\ CallDrain("none")
  /\ UNCHANGED <<entry, queue, stamp, job, exec, talking, budget, strayed>>

(***************************************************************************)
(* drain.                                                                  *)
(***************************************************************************)
DrainStep == UNCHANGED <<talking, ops, ticks>>

\* The head of the loop, with the list of enqueueIdle: computed once.
DrainPass(outside) ==
  /\ drainer.at = "pass"
  /\ wanted' = FALSE
  /\ LET idles == {t \in Idle : entry[t].present /\ entry[t].enabled /\ entry[t].state = "idle"}
         todo  == IF IdleEligible(queue) THEN idles \ outside ELSE {}
     IN  drainer' = [drainer EXCEPT !.at = IF todo = {} THEN "pick" ELSE "push",
                                    !.todo = todo, !.skip = {}]
  /\ UNCHANGED <<entry, queue, stamp, job, exec, tick, fails, strayed>>
  /\ DrainStep

DrainPush(t) ==
  /\ drainer.at = "push" /\ t \in drainer.todo
  /\ entry' = [entry EXCEPT ![t].state = "queued"]
  /\ Push(t, "idle", FALSE)
  /\ Save("drain", t, "push")
  /\ drainer' = [drainer EXCEPT !.at = "save", !.todo = @ \ {t}]
  /\ UNCHANGED <<wanted, exec, tick, fails, strayed>>
  /\ DrainStep

\* pickNext: the first item of a queued task, and the dead ones before it.
Candidates == {x \in queue : x.task \notin drainer.skip}
Pickable   == {x \in Candidates : Live(x.task)}
Dead       == {x \in Candidates \ Pickable : \A y \in Pickable : Before(x, y)}
Picked     == First(Pickable)

\* Mutant of HasSlot: one more than the cap.
HasSlotLoose == RunningCount <= MaxConcurrent

HasSlot == RunningCount < MaxConcurrent

MayPick ==
  /\ drainer.at = "pick"
  /\ HasSlot /\ Pickable # {}
  /\ Picked.task \in Idle => IdleEligible(queue \ Dead)

PassEnds ==
  /\ drainer.at = "pick" /\ ~MayPick
  /\ queue' = IF HasSlot THEN queue \ Dead ELSE queue
  /\ drainer' = [drainer EXCEPT !.at = "others"]
  /\ UNCHANGED <<entry, stamp, wanted, job, exec, tick, fails, strayed>>
  /\ DrainStep

\* The items of the other users, with their awaits, and the loop condition.
DrainLoops ==
  /\ drainer.at = "others"
  /\ drainer' = IF wanted THEN [drainer EXCEPT !.at = "pass"] ELSE Resting
  /\ UNCHANGED <<entry, queue, stamp, wanted, job, exec, tick, fails, strayed>>
  /\ DrainStep

\* The end of startItem: the task runs, whatever its entry says by now.
Start(x, items) ==
  LET free == {r \in Runs : exec[r] = NoRun}
  IN
    /\ free # {}
    /\ exec' = [exec EXCEPT ![CHOOSE r \in free : TRUE] = [at |-> "starting", task |-> x.task]]
    /\ queue' = IF \E y \in items : y.task = x.task
                THEN items \ {First({y \in items : y.task = x.task})} ELSE items
    /\ entry' = [entry EXCEPT ![x.task].state = "running"]
    /\ Save("drain", x.task, "start")
    /\ drainer' = [drainer EXCEPT !.at = "save", !.item = NoItem]

\* startItem of a script: no await before the start.
PickScript ==
  /\ MayPick /\ Picked.task \notin Prompt
  /\ Start(Picked, queue \ Dead)
  /\ UNCHANGED <<stamp, wanted, tick, fails, strayed>>
  /\ DrainStep

\* startItem of a prompt awaits resolveSession.
PickPrompt ==
  /\ MayPick /\ Picked.task \in Prompt
  /\ queue' = queue \ Dead
  /\ drainer' = [drainer EXCEPT !.at = "resolve", !.item = Picked]
  /\ UNCHANGED <<entry, stamp, wanted, job, exec, tick, fails, strayed>>
  /\ DrainStep

\* The window of an idle task closed while it was queued by enqueueIdle.
PickClosed ==
  /\ MayPick /\ Picked.task \in Windowed /\ Picked.source = "idle"
  /\ queue' = queue \ Dead
  /\ drainer' = [drainer EXCEPT !.skip = @ \union {Picked.task}]
  /\ UNCHANGED <<entry, stamp, wanted, job, exec, tick, fails, strayed>>
  /\ DrainStep

TargetBusy(x) == x.task \in Bound /\ SessionBusy

ResolveStarts ==
  /\ drainer.at = "resolve" /\ ~TargetBusy(drainer.item)
  /\ Start(drainer.item, queue)
  /\ UNCHANGED <<stamp, wanted, tick, fails, strayed>>
  /\ DrainStep

\* Mutant of ResolveDefers: the item is not skipped for the rest of the pass.
ResolveRetries ==
  /\ drainer.at = "resolve" /\ TargetBusy(drainer.item)
  /\ queue' = Without(drainer.item.task) \union {drainer.item}
  /\ drainer' = [drainer EXCEPT !.at = "pick", !.item = NoItem]
  /\ UNCHANGED <<entry, stamp, wanted, job, exec, tick, fails, strayed>>
  /\ DrainStep

\* The item goes back where it was, even if it was taken out meanwhile.
ResolveDefers ==
  /\ drainer.at = "resolve" /\ TargetBusy(drainer.item)
  /\ queue' = Without(drainer.item.task) \union {drainer.item}
  /\ drainer' = [drainer EXCEPT !.at = "pick", !.item = NoItem,
                                !.skip = @ \union {drainer.item.task}]
  /\ UNCHANGED <<entry, stamp, wanted, job, exec, tick, fails, strayed>>
  /\ DrainStep

\* Mutant of Finished: the status of the run is taken for the task's state.
FinishedStatus(t, off) == [entry EXCEPT ![t].state = IF off THEN "error" ELSE "idle"]

\* finishRun up to its first await; off: too many failures in a row.
Finished(t, off) ==
  [entry EXCEPT ![t].state = "idle",
                ![t].enabled = @ /\ ~off /\ t \notin Idle \union OneShot,
                ![t].armed = @ /\ t \notin OneShot]

FinishJob(t) == IF t \in Ephemeral THEN Deleting(t, "finish") ELSE Saving(t, "finish")

ResolveFails(off) ==
  /\ drainer.at = "resolve"
  /\ LET t == drainer.item.task
     IN  /\ queue' = Without(t)
         /\ entry' = Finished(t, off)
         /\ job' = [job EXCEPT !["drain"] = FinishJob(t)]
  /\ drainer' = [drainer EXCEPT !.at = "save", !.item = NoItem]
  /\ UNCHANGED <<stamp, wanted, exec, tick, fails, strayed>>
  /\ DrainStep

\* execute is called when the write of the start is over.
Launched ==
  [r \in Runs |-> IF exec[r].at = "starting" THEN [exec[r] EXCEPT !.at = "run"] ELSE exec[r]]

\* Where finishRun is after its write: dispatchNotify ends in one more.
MustNotify(t, then) == then = "finish" /\ t \in Notified

\* What drain does once the write it awaited is over.
DrainGoesOn ==
  IF MustNotify(job["drain"].task, job["drain"].then)
  THEN Save("drain", job["drain"].task, "notify") /\ UNCHANGED <<drainer, wanted, exec>>
  ELSE /\ Done("drain")
       /\ exec' = Launched
       /\ wanted' = (wanted \/ job["drain"].then \in {"finish", "notify"})
       /\ drainer' = [drainer EXCEPT !.at = IF drainer.todo = {} THEN "pick" ELSE "push"]

DrainReturns ==
  /\ Return("drain")
  /\ entry' = Written("drain")
  /\ DrainGoesOn
  /\ UNCHANGED <<queue, stamp, tick, fails>>
  /\ DrainStep

\* startItem and finishRun only log the failure of their write; that of
\* enqueueIdle ends the drain, and is given to the tick that awaits it.
DrainFails ==
  /\ GiveUp("drain")
  /\ IF job["drain"].then # "push"
     THEN DrainGoesOn /\ UNCHANGED <<entry, queue, tick, strayed>>
     ELSE /\ drainer' = Resting
          /\ UNCHANGED <<wanted, exec>>
          /\ IF drainer.owner = "tick" /\ tick.at = "drain"
             THEN /\ entry' = Recovered(tick.task)
                  /\ queue' = Without(tick.task)
                  /\ job' = [job EXCEPT !["drain"] = NoJob,
                                        !["tick"] = Saving(tick.task, "next")]
                  /\ strayed' = (strayed \/ entry[tick.task].state = "running")
                  /\ tick' = [tick EXCEPT !.at = "save"]
             ELSE Done("drain") /\ UNCHANGED <<entry, queue, tick, strayed>>
  /\ UNCHANGED stamp
  /\ DrainStep

(***************************************************************************)
(* execute and finishRun, one process per execution.                       *)
(***************************************************************************)
RunEnds(r, off) ==
  /\ exec[r].at = "run"
  /\ entry' = Finished(exec[r].task, off)
  /\ job' = [job EXCEPT ![r] = FinishJob(exec[r].task)]
  /\ exec' = [exec EXCEPT ![r].at = "finish"]
  /\ UNCHANGED <<queue, stamp, drainer, wanted, tick, talking, budget, strayed>>

\* abortRun: nothing is done for an entry that is not running.
RunAborts(r) ==
  /\ exec[r].at = "run"
  /\ LET t == exec[r].task
     IN  IF entry[t].state = "running"
         THEN /\ entry' = [entry EXCEPT ![t].state = "idle", ![t].enabled = @ /\ t \notin Idle]
              /\ CallDrain("none")
              /\ IF t \in Idle
                 THEN Save(r, t, "abort") /\ exec' = [exec EXCEPT ![r].at = "abort"]
                 ELSE exec' = [exec EXCEPT ![r] = NoRun] /\ UNCHANGED job
         ELSE /\ exec' = [exec EXCEPT ![r] = NoRun]
              /\ UNCHANGED <<entry, drainer, wanted, job>>
  /\ UNCHANGED <<queue, stamp, tick, talking, budget, strayed>>

\* After its write finishRun awaits the hooks and the notification.
RunGoesOn(r) ==
  /\ Done(r)
  /\ exec' = [exec EXCEPT ![r] =
       IF @.at = "abort" THEN NoRun
       ELSE [@ EXCEPT !.at = IF MustNotify(exec[r].task, @) THEN "notify" ELSE "tail"]]

RunReturns(r) ==
  /\ Return(r)
  /\ entry' = Written(r)
  /\ RunGoesOn(r)
  /\ UNCHANGED <<queue, stamp, drainer, wanted, tick, talking, budget>>

RunFails(r) ==
  /\ GiveUp(r)
  /\ RunGoesOn(r)
  /\ UNCHANGED <<entry, queue, stamp, drainer, wanted, tick, talking, ops, ticks, strayed>>

\* The notification is sent, or not, and the outcome saved.
RunNotifies(r) ==
  /\ exec[r].at = "notify" /\ job[r].at = "none"
  /\ Save(r, exec[r].task, "notify")
  /\ UNCHANGED <<entry, queue, stamp, drainer, wanted, exec, tick, talking, budget, strayed>>

RunDrains(r) ==
  /\ exec[r].at = "tail"
  /\ exec' = [exec EXCEPT ![r] = NoRun]
  /\ CallDrain("none")
  /\ UNCHANGED <<entry, queue, stamp, job, tick, talking, budget, strayed>>

(***************************************************************************)
(* The specification.                                                      *)
(***************************************************************************)
Api ==
  \E c \in Clients, t \in Tasks :
    \/ \E b \in BOOLEAN : Enqueue(c, t, b) \/ Update(c, t, b)
    \/ MoveToFront(c, t) \/ Dequeue(c, t) \/ Remove(c, t)

Trouble == \/ \E c \in Clients : ClientFails(c)
           \/ \E r \in Runs : RunFails(r)
           \/ TickFails \/ DrainFails

Ticking == \/ \E t \in Tasks : TickTask(t)
           \/ TickEnqueues \/ TickReturns \/ TickDrained \/ TickEnds

Draining == \/ \E outside \in SUBSET Windowed : DrainPass(outside)
            \/ \E t \in Tasks : DrainPush(t)
            \/ PassEnds \/ DrainLoops \/ PickScript \/ PickPrompt \/ PickClosed
            \/ ResolveStarts \/ ResolveDefers
            \/ \E off \in BOOLEAN : ResolveFails(off)
            \/ DrainReturns

Running(r) == \/ \E off \in BOOLEAN : RunEnds(r, off)
              \/ RunAborts(r) \/ RunReturns(r) \/ RunNotifies(r) \/ RunDrains(r)

Next ==
  \/ Api \/ Talk \/ Hush \/ Trouble
  \/ \E due \in SUBSET Scheduled : TickStarts(due)
  \/ \E p \in Procs : TakeLock(p)
  \/ \E c \in Clients : ClientReturns(c)
  \/ Ticking \/ Draining
  \/ \E r \in Runs : Running(r)

\* Callers, the user and failures owe nothing; timeouts end every execution,
\* and a started continuation is run by the event loop.
Fairness ==
  /\ \A p \in Procs : WF_vars(TakeLock(p))
  /\ \A c \in Clients : WF_vars(ClientReturns(c))
  /\ WF_vars(Ticking) /\ WF_vars(Draining)
  /\ \A r \in Runs : WF_vars(Running(r))

Spec     == Init /\ [][Next]_vars
FairSpec == Spec /\ Fairness

(***************************************************************************)
(* Properties                                                              *)
(***************************************************************************)
Items == [task : Tasks, source : {"manual", "schedule", "idle"},
          front : BOOLEAN, at : Nat]
Entries == [present : BOOLEAN, enabled : BOOLEAN, armed : BOOLEAN,
            state : {"idle", "queued", "running"}]
Thens == {"return", "drain", "update", "enqueue", "skip", "next",
          "push", "start", "finish", "notify", "abort"}
Drainers ==
  [at : {"off", "pass", "push", "save", "pick", "resolve", "others"},
   owner : {"none", "tick"}, todo : SUBSET Idle, skip : SUBSET Tasks,
   item : Items \union {NoItem}]
Execs ==
  {NoRun} \union
    [at : {"starting", "run", "finish", "notify", "tail", "abort"}, task : Tasks]
Jobs ==
  {NoJob}
    \union [at : {"wait"}, task : Tasks, then : Thens, del : BOOLEAN]
    \union [at : {"write"}, task : Tasks, then : Thens, del : BOOLEAN, copy : Entries]

TypeOK ==
  /\ entry \in [Tasks -> Entries]
  /\ queue \subseteq Items
  /\ stamp \in Nat
  /\ drainer \in Drainers
  /\ wanted \in BOOLEAN
  /\ job \in [Procs -> Jobs]
  /\ exec \in [Runs -> Execs]
  /\ tick \in [at : {"off", "loop", "save", "drain"}, due : SUBSET Scheduled,
               task : Scheduled \union {"none"}]
  /\ talking \in BOOLEAN
  /\ ops \in Nat /\ ticks \in Nat /\ fails \in Nat
  /\ strayed \in BOOLEAN

Executing(r) == exec[r].at \in {"starting", "run"}

\* While no entry has been overwritten under its task's feet, a user never
\* has more executions in progress than MaxConcurrent, whatever calls, ticks
\* and ends of runs come between the check of drain and the start.  The
\* execution of a task that was removed meanwhile is not counted, as
\* runningCount does not count it.
CapKept ==
  ~strayed =>
    Cardinality({r \in Runs : Executing(r) /\ entry[exec[r].task].present}) <= MaxConcurrent

\* Under the same condition a task is never executed twice at a time, and
\* an execution in progress is always shown as running, so that neither a
\* tick nor a caller can have it queued again.
OneRunPerTask ==
  ~strayed =>
    \A r \in Runs : Executing(r) =>
      /\ entry[exec[r].task].state = "running"
      /\ \A q \in Runs \ {r} : Executing(q) => exec[q].task # exec[r].task

\* Nothing is under way but executions, each shown as running.
Settled ==
  /\ drainer.at = "off" /\ tick.at = "off"
  /\ \A p \in Procs : job[p].at = "none"
  /\ \A r \in Runs : exec[r] = NoRun \/
       /\ exec[r].at = "run"
       /\ entry[exec[r].task].present /\ entry[exec[r].task].state = "running"

\* No wake-up is lost: when the dust has settled no item that could start
\* is left in the queue for the next tick, although a drain that finds
\* another under way only leaves a mark.  Not for idle tasks and tasks of
\* the user's session, which the code leaves to the tick, and not after a
\* failed write.
NoLostWakeup ==
  Settled /\ fails = 0 /\ ~strayed /\ HasSlot =>
    \A x \in queue : x.task \in Idle \union Bound \/ ~Live(x.task)

\* Every drain ends: an item that cannot start is skipped for the rest of
\* the pass, and drain calls itself again only for what is new.  No drain,
\* no start: one that went on forever would stop the queue of all users.
DrainEnds == drainer.at # "off" ~> drainer.at = "off"

\* The comment of replaceUserEntries: a task that is being finished is not
\* set back by what a concurrent write of it read.  An entry set back to
\* running blocks the task, and a slot of the user, until the next restart.
FinishNotUndone ==
  \A r \in Runs :
    exec[r].at \in {"finish", "notify", "tail"} /\ entry[exec[r].task].state = "running" =>
      \E q \in Runs : Executing(q) /\ exec[q].task = exec[r].task
=============================================================================
