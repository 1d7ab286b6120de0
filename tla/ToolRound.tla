----------------------------- MODULE ToolRound -----------------------------
(***************************************************************************)
(* One round of tool calls of the main loop (core/engine/engine.ts, the    *)
(* tool part of runLoop with runToolPool and runToolInterruptible).        *)
(*                                                                         *)
(* The assistant message with the calls is already persisted.  The calls   *)
(* pass the gate one by one, then a pool of workers takes them in order:   *)
(* each asks for its approval if it needs one, executes its tool and has   *)
(* its result persisted.  The user approves, rejects and cancels; timers   *)
(* fire; a write may fail.  Whatever happens, every call has to end up     *)
(* with a result in the history, or the provider refuses the session.      *)
(*                                                                         *)
(* Which answer reaches a wait is the matter of Interactions.tla; here a   *)
(* wait ends by an answer, by its timer or by the abort of the run.        *)
(***************************************************************************)
EXTENDS Naturals, Sequences, FiniteSets

CONSTANTS
  N,            \* number of calls in the assistant message
  MaxParallel,  \* MAX_PARALLEL_TOOLS (8)
  MaxFailures   \* bound of the model: writes that fail

ASSUME RoundAssumption ==
  /\ N \in Nat
  /\ MaxParallel \in Nat \ {0}
  /\ MaxFailures \in Nat

Calls == 1..N

Phases == {"new", "queued", "waiting", "resolved", "running", "grace",
           "writing", "done", "lost", "failed"}
Verdicts == {"none", "approved", "rejected", "timeout"}
\* What the persisted result tells the model.
Notes == {"none", "gated", "skipped", "denied", "expired", "result",
          "interrupted", "overtime", "broken"}

VARIABLES
  at,         \* where the round is
  cursor,     \* the next call to gate
  ask,        \* calls found to need an approval
  phase,      \* where each call is
  verdict,    \* what the wait of each call was given
  note,       \* the result to write for each call
  log,        \* results of each call in the history
  started,    \* calls whose tool was executed
  alive,      \* calls whose tool has not returned
  aborted,    \* controller.signal.aborted
  cancelled,  \* task.cancelled: the user pressed stop
  error,      \* firstError of the pool
  failures    \* history: writes that failed so far

vars == <<at, cursor, ask, phase, verdict, note, log, started, alive,
          aborted, cancelled, error, failures>>

signals == <<aborted, cancelled>>

Init ==
  /\ at = "entry" /\ cursor = 1
  /\ ask = {}
  /\ phase = [c \in Calls |-> "new"]
  /\ verdict = [c \in Calls |-> "none"]
  /\ note = [c \in Calls |-> "none"]
  /\ log = [c \in Calls |-> <<>>]
  /\ started = {} /\ alive = {}
  /\ aborted = FALSE /\ cancelled = FALSE
  /\ error = FALSE /\ failures = 0

pool == <<cursor, ask>>
In(p) == {c \in Calls : phase[c] = p}
Active == UNION {In(p) : p \in {"waiting", "resolved", "running", "grace", "writing"}}
Over == at \in {"ended", "thrown"}

\* The code after an awaited approval runs before any other event.
Quiet == In("resolved") = {}

\* persistTool: the result of c joins the chain of writes.
Answer(c, kind) ==
  /\ phase' = [phase EXCEPT ![c] = "writing"]
  /\ note' = [note EXCEPT ![c] = kind]

(***************************************************************************)
(* The gate: calls in order, each either noted without being executed      *)
(* (repeated, bad arguments, unknown, disabled, safe mode, nobody to       *)
(* approve) or passed on.  The signal is looked at once, before the gate.  *)
(***************************************************************************)
Enter ==
  /\ at = "entry"
  /\ at' = IF aborted THEN "skip" ELSE "gate"
  /\ UNCHANGED <<pool, phase, verdict, note, log, started, alive, signals, error, failures>>

Gate(c) ==
  /\ at = "gate" /\ c = cursor /\ phase[c] = "new"
  /\ UNCHANGED <<at, verdict, log, started, alive, signals, error, failures>>
  /\ \/ /\ Answer(c, "gated")
        /\ UNCHANGED pool
     \/ /\ phase' = [phase EXCEPT ![c] = "queued"]
        /\ cursor' = cursor + 1
        /\ ask' \in {ask, ask \union {c}}
        /\ UNCHANGED note

GateDone ==
  /\ at = "gate" /\ cursor = N + 1
  /\ at' = "pool"
  /\ UNCHANGED <<pool, phase, verdict, note, log, started, alive, signals, error, failures>>

(***************************************************************************)
(* The pool                                                                *)
(***************************************************************************)
Execute(c) ==
  /\ phase' = [phase EXCEPT ![c] = "running"]
  /\ started' = started \union {c}
  /\ alive' = alive \union {c}

\* A worker takes the first call of the queue.
Take(c) ==
  /\ at = "pool" /\ Quiet
  /\ c \in In("queued") /\ \A d \in In("queued") : c <= d
  /\ Cardinality(Active) < MaxParallel

TakeSkipped(c) ==
  /\ Take(c) /\ aborted
  /\ Answer(c, "skipped")
  /\ UNCHANGED <<at, pool, verdict, log, started, alive, signals, error, failures>>

TakeAsking(c) ==
  /\ Take(c) /\ ~aborted /\ c \in ask
  /\ phase' = [phase EXCEPT ![c] = "waiting"]
  /\ UNCHANGED <<at, pool, verdict, note, log, started, alive, signals, error, failures>>

\* Mutant of TakeFree: the signal is not looked at.
TakeFreeAlways(c) ==
  /\ Take(c) /\ c \notin ask
  /\ Execute(c)
  /\ UNCHANGED <<at, pool, verdict, note, log, signals, error, failures>>

TakeFree(c) ==
  /\ Take(c) /\ ~aborted /\ c \notin ask
  /\ Execute(c)
  /\ UNCHANGED <<at, pool, verdict, note, log, signals, error, failures>>

(***************************************************************************)
(* The waits for an approval.  An abort resolves the waits like a timeout  *)
(* and starts the grace period of the running tools.                       *)
(***************************************************************************)
Abort(rejected) ==
  /\ aborted' = TRUE
  /\ phase' = [c \in Calls |-> CASE phase[c] = "waiting" -> "resolved"
                                 [] phase[c] = "running" -> "grace"
                                 [] OTHER -> phase[c]]
  /\ verdict' = [c \in Calls |-> IF phase[c] # "waiting" THEN verdict[c]
                                 ELSE IF c \in rejected THEN "rejected" ELSE "timeout"]
  /\ UNCHANGED <<at, pool, note, log, started, alive, error, failures>>

Approve(c) ==
  /\ Quiet /\ phase[c] = "waiting"
  /\ phase' = [phase EXCEPT ![c] = "resolved"]
  /\ verdict' = [verdict EXCEPT ![c] = "approved"]
  /\ UNCHANGED <<at, pool, note, log, started, alive, signals, error, failures>>

ApprovalTimeout(c) ==
  /\ Quiet /\ phase[c] = "waiting"
  /\ phase' = [phase EXCEPT ![c] = "resolved"]
  /\ verdict' = [verdict EXCEPT ![c] = "timeout"]
  /\ UNCHANGED <<at, pool, note, log, started, alive, signals, error, failures>>

\* A rejection aborts the run without the cancelled mark.
Reject(c) ==
  /\ Quiet /\ phase[c] = "waiting"
  /\ Abort({c})
  /\ UNCHANGED cancelled

\* A rejection of an id nobody waits on aborts it too.
RejectUnknown ==
  /\ Quiet /\ ~Over
  /\ Abort({})
  /\ UNCHANGED cancelled

Cancel ==
  /\ Quiet /\ ~Over
  /\ Abort({})
  /\ cancelled' = TRUE

(***************************************************************************)
(* After the wait: a cancelled run throws, so that nothing is noted as     *)
(* rejected; a call not approved gets its note; an approved one executes.  *)
(***************************************************************************)
Thrown == aborted /\ cancelled

Throw(c) ==
  /\ phase[c] = "resolved" /\ Thrown
  /\ phase' = [phase EXCEPT ![c] = "lost"]
  /\ error' = TRUE
  /\ UNCHANGED <<at, pool, verdict, note, log, started, alive, signals, failures>>

\* Mutant of Deny: a timeout is noted as the user's rejection.
DenyAll(c) ==
  /\ phase[c] = "resolved" /\ ~Thrown /\ verdict[c] # "approved"
  /\ Answer(c, "denied")
  /\ UNCHANGED <<at, pool, verdict, log, started, alive, signals, error, failures>>

Deny(c) ==
  /\ phase[c] = "resolved" /\ ~Thrown /\ verdict[c] # "approved"
  /\ Answer(c, IF verdict[c] = "timeout" THEN "expired" ELSE "denied")
  /\ UNCHANGED <<at, pool, verdict, log, started, alive, signals, error, failures>>

ExecuteApproved(c) ==
  /\ phase[c] = "resolved" /\ ~aborted /\ verdict[c] = "approved"
  /\ Execute(c)
  /\ UNCHANGED <<at, pool, verdict, note, log, signals, error, failures>>

(***************************************************************************)
(* runToolInterruptible: the first of the return of the tool, its timeout  *)
(* and the end of the grace period after an abort is the result.  A tool   *)
(* that loses goes on by itself, and its return is dropped.                *)
(***************************************************************************)
ToolReturns(c) ==
  /\ Quiet /\ c \in alive
  /\ alive' = alive \ {c}
  /\ \/ phase[c] = "running" /\ Answer(c, "result")
     \/ phase[c] = "grace" /\ Answer(c, "interrupted")
     \/ phase[c] \notin {"running", "grace"} /\ UNCHANGED <<phase, note>>
  /\ UNCHANGED <<at, pool, verdict, log, started, signals, error, failures>>

ToolTimeout(c) ==
  /\ Quiet /\ phase[c] = "running"
  /\ Answer(c, "overtime")
  /\ UNCHANGED <<at, pool, verdict, log, started, alive, signals, error, failures>>

GraceEnds(c) ==
  /\ Quiet /\ phase[c] = "grace"
  /\ Answer(c, "interrupted")
  /\ UNCHANGED <<at, pool, verdict, log, started, alive, signals, error, failures>>

(***************************************************************************)
(* Persisting.  persistChain makes the writes of a round one after the     *)
(* other; a call is done (toolCallDone) when its write succeeded.          *)
(***************************************************************************)
\* Mutant of Write: every write moves the gate on.
WriteAdvances(c) ==
  /\ Quiet /\ phase[c] = "writing"
  /\ log' = [log EXCEPT ![c] = Append(@, note[c])]
  /\ phase' = [phase EXCEPT ![c] = "done"]
  /\ cursor' = cursor + 1
  /\ UNCHANGED <<at, ask, verdict, note, started, alive, signals, error, failures>>

Write(c) ==
  /\ Quiet /\ phase[c] = "writing"
  /\ log' = [log EXCEPT ![c] = Append(@, note[c])]
  /\ phase' = [phase EXCEPT ![c] = "done"]
  /\ cursor' = IF at = "gate" THEN cursor + 1 ELSE cursor
  /\ UNCHANGED <<at, ask, verdict, note, started, alive, signals, error, failures>>

\* appendMessage fails before it has pushed the message (the session cannot
\* be loaded) or after that (the save fails).  The gate throws at once, the
\* pool when it has drained, the filling goes on.
WriteFails(c) ==
  /\ Quiet /\ phase[c] = "writing" /\ failures < MaxFailures
  /\ failures' = failures + 1
  /\ log' \in {log, [log EXCEPT ![c] = Append(@, note[c])]}
  /\ phase' = [phase EXCEPT ![c] = IF at = "fill" THEN "failed" ELSE "lost"]
  /\ at' = IF at = "gate" THEN "fill" ELSE at
  /\ error' = (error \/ at = "pool")
  /\ UNCHANGED <<pool, verdict, note, started, alive, signals>>

\* Mutant of PoolDone: it waits for every tool to return.
PoolDoneReturned ==
  /\ at = "pool" /\ In("queued") = {} /\ Active = {} /\ alive = {}
  /\ at' = IF error THEN "fill" ELSE "ended"
  /\ UNCHANGED <<pool, phase, verdict, note, log, started, alive, signals, error, failures>>

PoolDone ==
  /\ at = "pool" /\ In("queued") = {} /\ Active = {}
  /\ at' = IF error THEN "fill" ELSE "ended"
  /\ UNCHANGED <<pool, phase, verdict, note, log, started, alive, signals, error, failures>>

(***************************************************************************)
(* fillMissingToolResults: before the gate when the run is aborted there   *)
(* ("skip"), and when an error ends the round ("fill", which also retries  *)
(* what failed in "skip"); then the error is thrown on.                    *)
(***************************************************************************)
\* Mutant of Missing: calls whose handling threw are forgotten.
MissingUntaken ==
  IF at = "skip" THEN In("new") ELSE In("new") \union In("queued")

Missing ==
  IF at = "skip" THEN In("new") ELSE In("new") \union In("queued") \union In("lost")

FillNote ==
  IF at = "skip" THEN "skipped" ELSE IF aborted THEN "interrupted" ELSE "broken"

Fill(c) ==
  /\ at \in {"skip", "fill"} /\ In("writing") = {}
  /\ c \in Missing /\ \A d \in Missing : c <= d
  /\ Answer(c, FillNote)
  /\ UNCHANGED <<at, pool, verdict, log, started, alive, signals, error, failures>>

FillDone ==
  /\ at \in {"skip", "fill"} /\ In("writing") = {} /\ Missing = {}
  /\ at' = IF at = "skip" THEN "fill" ELSE "thrown"
  /\ UNCHANGED <<pool, phase, verdict, note, log, started, alive, signals, error, failures>>

Next ==
  \/ Enter \/ GateDone \/ PoolDone \/ FillDone
  \/ Cancel \/ RejectUnknown
  \/ \E c \in Calls :
       \/ Gate(c)
       \/ TakeSkipped(c) \/ TakeAsking(c) \/ TakeFree(c)
       \/ Approve(c) \/ ApprovalTimeout(c) \/ Reject(c)
       \/ Throw(c) \/ Deny(c) \/ ExecuteApproved(c)
       \/ ToolReturns(c) \/ ToolTimeout(c) \/ GraceEnds(c)
       \/ Write(c) \/ WriteFails(c)
       \/ Fill(c)

\* The event loop runs on and timers fire; nobody has to answer, no tool has
\* to return.
Fairness ==
  /\ WF_vars(Enter) /\ WF_vars(GateDone) /\ WF_vars(PoolDone) /\ WF_vars(FillDone)
  /\ \A c \in Calls :
       /\ WF_vars(Gate(c)) /\ WF_vars(Fill(c))
       /\ WF_vars(TakeSkipped(c) \/ TakeAsking(c) \/ TakeFree(c))
       /\ WF_vars(ApprovalTimeout(c))
       /\ WF_vars(Throw(c) \/ Deny(c) \/ ExecuteApproved(c))
       /\ WF_vars(ToolTimeout(c)) /\ WF_vars(GraceEnds(c))
       /\ WF_vars(Write(c) \/ WriteFails(c))

Spec     == Init /\ [][Next]_vars
FairSpec == Spec /\ Fairness

(***************************************************************************)
(* Properties                                                              *)
(***************************************************************************)
TypeOK ==
  /\ at \in {"entry", "gate", "pool", "skip", "fill", "ended", "thrown"}
  /\ cursor \in 1..N+1
  /\ ask \subseteq Calls
  /\ phase \in [Calls -> Phases]
  /\ verdict \in [Calls -> Verdicts]
  /\ note \in [Calls -> Notes]
  /\ log \in [Calls -> Seq(Notes)]
  /\ started \subseteq Calls /\ alive \subseteq Calls
  /\ aborted \in BOOLEAN /\ cancelled \in BOOLEAN /\ error \in BOOLEAN
  /\ failures \in 0..MaxFailures

\* However the round ends, every call has its result: exactly one if it ends
\* normally; if it is thrown, one for each call whose filling could be
\* written, and a second one only where a failed write was repeated.
EveryCallAnswered ==
  /\ at = "ended" => \A c \in Calls : Len(log[c]) = 1
  /\ at = "thrown" =>
       \A c \in Calls : /\ Len(log[c]) >= 1 \/ phase[c] = "failed"
                        /\ Len(log[c]) <= 1 + failures

\* What the history tells the model is what happened: a call noted as
\* skipped, denied or expired never executed, one noted with a result has
\* returned, and only the user's own rejection is noted as one (a stopped
\* run leaves no record of a rejection).
NotesAreTrue ==
  \A c \in Calls : \A k \in DOMAIN log[c] :
    /\ log[c][k] \in {"gated", "skipped", "denied", "expired"} => c \notin started
    /\ log[c][k] = "result" => c \in started \ alive
    /\ log[c][k] = "denied" => verdict[c] = "rejected"

\* A call that asked executes only with the user's approval, and no tool is
\* executed once the run is stopped, wherever in the round that happens.
ExecutionIsAllowed ==
  [][\A c \in started' \ started :
       /\ ~aborted'
       /\ c \in ask => verdict[c] = "approved"]_vars

\* The history of the round is final once the round is over: a tool that
\* returns after its timeout or its grace period adds no second result.
NoLateResult ==
  [][Over => UNCHANGED <<log, phase>>]_vars

\* A round ends, even if no user answers and no tool returns.
RoundEnds == <>Over
=============================================================================
