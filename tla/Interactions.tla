---------------------------- MODULE Interactions ----------------------------
(***************************************************************************)
(* The interaction hub of the engine (core/engine/interactions.ts with     *)
(* waitApproval, cancel and the end of run in core/engine/engine.ts).      *)
(*                                                                         *)
(* One session.  Its runs follow each other; each has a TaskState holding  *)
(* the waits registered by tools (approval, choice, env, draw, capture),   *)
(* the decisions that arrived before a wait was registered, and the ids    *)
(* already settled.  The users decide at any time, on any id; timers fire; *)
(* the run is cancelled or ends.  Async sub-sessions outlive the run that  *)
(* spawned them and ask for approvals in whichever run is then live.       *)
(***************************************************************************)
EXTENDS Naturals, Sequences, FiniteSets

CONSTANTS
  Approvals, Choices, Envs, Draws, Captures,  \* interaction ids, by kind
  Background,    \* approvals asked by async sub-sessions
  PendingLimit,  \* PENDING_QUEUE_LIMIT and CAPTURE_PENDING_LIMIT (64)
  SettledLimit,  \* SETTLED_LIMIT (128)
  MaxRuns        \* bound of the model: runs of the session

Ids == Approvals \union Choices \union Envs \union Draws \union Captures

ASSUME LimitsAssumption ==
  /\ PendingLimit \in Nat \ {0}
  /\ SettledLimit \in Nat \ {0}
  /\ MaxRuns \in Nat
ASSUME KindsAssumption ==
  /\ IsFiniteSet(Ids)
  /\ Background \subseteq Approvals
  /\ \A K, L \in {Approvals, Choices, Envs, Draws, Captures} : K = L \/ K \intersect L = {}

Values   == {"yes", "no"}
Verdicts == {"none", "timeout"} \union Values
Statuses == {"idle", "spawned", "asked", "waiting", "done"}

VARIABLES
  run,       \* how many runs have started
  live,      \* tasks.has(sessionId)
  aborted,   \* controller.signal.aborted of the live run
  child,     \* ids whose abort signal follows the live run's controller
  sig,       \* ids whose abort signal has fired
  status,    \* where the waiter of each id is
  verdict,   \* what the waiter was given
  held,      \* ids registered in the live TaskState's wait maps
  timer,     \* ids whose timeout timer is armed
  pend,      \* decisions queued before registration ("none": no entry)
  settled,   \* task.settled of the live TaskState, oldest first
  said,      \* history: values submitted for a question still open
  acked      \* history: <<i, v>> answered "ok" to the user

vars == <<run, live, aborted, child, sig, status, verdict, held,
          timer, pend, settled, said, acked>>

taskVars == <<run, live, aborted>>

Init ==
  /\ run = 0 /\ live = FALSE /\ aborted = FALSE
  /\ child = {} /\ sig = {}
  /\ status = [i \in Ids |-> "idle"]
  /\ verdict = [i \in Ids |-> "none"]
  /\ held = {} /\ timer = {}
  /\ pend = [i \in Ids |-> "none"]
  /\ settled = <<>>
  /\ said = [i \in Ids |-> {}]
  /\ acked = {}

(***************************************************************************)
(* markSettled.  Marking ids that are not in the list one after the other  *)
(* leaves its last SettledLimit elements; marking an id already there      *)
(* still drops the oldest when the list is full.                           *)
(***************************************************************************)
LastN(s, n) == IF Len(s) <= n THEN s ELSE SubSeq(s, Len(s) - n + 1, Len(s))

MarkAll(s, ids) == LastN(s \o ids, SettledLimit)

\* decideX marks the id and the resolver it then calls marks it again.
MarkTwice(s, i) ==
  LET once == MarkAll(s, <<i>>)
  IN  IF SettledLimit > 1 /\ Len(once) = SettledLimit THEN Tail(once) ELSE once

\* The orders in which the abort listeners of S may have been registered.
Orders(S) ==
  {q \in UNION {[1..n -> S] : n \in 0..Cardinality(Ids)} :
     /\ \A i \in S : \E k \in DOMAIN q : q[k] = i
     /\ \A k, l \in DOMAIN q : q[k] = q[l] => k = l}

InSettled(i) == \E k \in DOMAIN settled : settled[k] = i

(***************************************************************************)
(* A publication and the registration after it are one synchronous block:  *)
(* only calls made by a subscriber of the published event, a decision or a *)
(* cancel, come between them.                                              *)
(***************************************************************************)
Quiet == \A i \in Ids : status[i] # "asked"

\* done(): timer and listener removed, wait dropped, promise resolved.  For
\* an env question the value goes into the task's env exactly when the
\* waiter is given "yes", in the same step.
Resolve(answer) ==
  LET S == DOMAIN answer IN
  /\ status' = [i \in Ids |-> IF i \in S THEN "done" ELSE status[i]]
  /\ verdict' = [i \in Ids |-> IF i \in S THEN answer[i] ELSE verdict[i]]
  /\ held' = held \ S
  /\ timer' = timer \ S

Keep == UNCHANGED <<status, verdict, held, timer>>

\* The waits an abort of the live run's controller resolves.
Abortable == {i \in child : status[i] = "waiting"}

(***************************************************************************)
(* The run                                                                 *)
(***************************************************************************)
StartRun ==
  /\ Quiet /\ ~live /\ run < MaxRuns
  /\ run' = run + 1
  /\ live' = TRUE
  /\ said' = [i \in Ids |-> IF verdict[i] = "none" THEN {} ELSE said[i]]
  /\ UNCHANGED <<aborted, child, sig, pend, settled, acked>>
  /\ Keep

\* Mutant of FinishRun: the queued decisions survive the run.
FinishRunWithQueue ==
  /\ Quiet /\ live
  /\ \A i \in Approvals \ Background : status[i] # "waiting"
  /\ live' = FALSE /\ aborted' = FALSE
  /\ timer' = timer \ (held \intersect (Approvals \union Choices))
  /\ held' = {} /\ child' = {}
  /\ settled' = <<>>
  /\ UNCHANGED <<run, sig, status, verdict, pend, said, acked>>

\* finally: the timers of approvals and choices are cleared, the TaskState
\* is dropped.  The pool of the main loop has awaited its own approvals; a
\* tool that ran into its timeout may have left another wait behind, and
\* so may an async sub-session.
FinishRun ==
  /\ Quiet /\ live
  /\ \A i \in Approvals \ Background : status[i] # "waiting"
  /\ live' = FALSE /\ aborted' = FALSE
  /\ timer' = timer \ (held \intersect (Approvals \union Choices))
  /\ held' = {} /\ child' = {}
  /\ pend' = [i \in Ids |-> "none"]
  /\ settled' = <<>>
  /\ UNCHANGED <<run, sig, status, verdict, said, acked>>

\* The preparation of the run fails (no such session, an attachment that
\* cannot be saved): the TaskState is dropped with its timers armed.  Only
\* async sub-sessions can have asked anything by then.
FailRun ==
  /\ Quiet /\ live /\ held \subseteq Background
  /\ live' = FALSE /\ aborted' = FALSE
  /\ held' = {} /\ child' = {}
  /\ pend' = [i \in Ids |-> "none"]
  /\ settled' = <<>>
  /\ UNCHANGED <<run, sig, status, verdict, timer, said, acked>>

\* Mutant of Cancel: the queues are filled with timeouts, not emptied.
CancelFillsQueue ==
  /\ live
  /\ aborted' = TRUE
  /\ sig' = sig \union child
  /\ pend' = [i \in Ids |-> IF pend[i] = "none" THEN "none" ELSE "timeout"]
  /\ Resolve([i \in held |-> "timeout"])
  /\ UNCHANGED <<run, live, child, settled, said, acked>>

\* Mutant of Cancel: it resolves what has been resolved before.
CancelAgain ==
  /\ live
  /\ aborted' = TRUE
  /\ sig' = sig \union child
  /\ pend' = [i \in Ids |-> "none"]
  /\ Resolve([i \in held \union {j \in child : status[j] = "done"} |-> "timeout"])
  /\ UNCHANGED <<run, live, child, settled, said, acked>>

\* engine.cancel: the abort and the loops after it resolve every wait of
\* the task; the queues are emptied.  (The cancelled mark it sets is read by
\* the tool rounds only: ToolRound.tla.)
Cancel ==
  /\ live
  /\ aborted' = TRUE
  /\ sig' = sig \union child
  /\ pend' = [i \in Ids |-> "none"]
  /\ \E q \in Orders(held) :
       /\ Resolve([i \in held |-> "timeout"])
       /\ settled' = MarkAll(settled, q)
  /\ UNCHANGED <<run, live, child, said, acked>>

(***************************************************************************)
(* The waiters                                                             *)
(***************************************************************************)
\* SubSessionRegistry.start ties the sub-session's controller to the
\* parent's signal.
Spawn(i) ==
  /\ Quiet /\ live /\ i \in Background /\ status[i] = "idle"
  /\ status' = [status EXCEPT ![i] = "spawned"]
  /\ child' = child \union {i}
  /\ sig' = IF aborted THEN sig \union {i} ELSE sig
  /\ UNCHANGED <<taskVars, verdict, held, timer, pend, settled, said, acked>>

\* The request event is published.  An approval is only asked for while the
\* signal is quiet; a tool in its grace period may still ask the rest.
AskMain(i) ==
  /\ Quiet /\ live /\ i \in Ids \ Background /\ status[i] = "idle"
  /\ i \in Approvals => ~aborted
  /\ status' = [status EXCEPT ![i] = "asked"]
  /\ child' = child \union {i}
  /\ sig' = IF aborted THEN sig \union {i} ELSE sig
  /\ UNCHANGED <<taskVars, verdict, held, timer, pend, settled, said, acked>>

AskBackground(i) ==
  /\ Quiet /\ i \in Background /\ status[i] = "spawned" /\ i \notin sig
  /\ status' = [status EXCEPT ![i] = "asked"]
  /\ UNCHANGED <<taskVars, child, sig, verdict, held, timer, pend, settled, said, acked>>

\* waitForCapture drops queued results that have outlived its timeout.
StaleCaptures(i) ==
  IF i \in Captures THEN SUBSET {c \in Captures : pend[c] # "none"} ELSE {{}}

\* waitApproval finds no task: nobody can approve any more.
RegisterNoTask(i) ==
  /\ status[i] = "asked" /\ ~live
  /\ Resolve([j \in {i} |-> "timeout"])
  /\ UNCHANGED <<taskVars, child, sig, pend, settled, said, acked>>

\* A queued decision is consumed at once.
RegisterEarly(i) ==
  /\ status[i] = "asked" /\ live
  /\ \E stale \in StaleCaptures(i) :
       /\ i \notin stale /\ pend[i] # "none"
       /\ pend' = [j \in Ids |-> IF j = i \/ j \in stale THEN "none" ELSE pend[j]]
  /\ Resolve([j \in {i} |-> pend[i]])
  /\ settled' = MarkAll(settled, <<i>>)
  /\ UNCHANGED <<taskVars, child, sig, said, acked>>

\* The signal fired before the listener could be added: the wait is over
\* before it started, and the id is not marked as settled.
RegisterAborted(i) ==
  /\ status[i] = "asked" /\ live /\ i \in sig
  /\ \E stale \in StaleCaptures(i) :
       /\ i \in stale \/ pend[i] = "none"
       /\ pend' = [j \in Ids |-> IF j \in stale THEN "none" ELSE pend[j]]
  /\ Resolve([j \in {i} |-> "timeout"])
  /\ UNCHANGED <<taskVars, child, sig, settled, said, acked>>

\* Mutant of RegisterWait: the queue is not looked at.
RegisterWaitBlind(i) ==
  /\ status[i] = "asked" /\ live /\ i \notin sig
  /\ status' = [status EXCEPT ![i] = "waiting"]
  /\ held' = held \union {i}
  /\ timer' = timer \union {i}
  /\ UNCHANGED <<taskVars, child, sig, verdict, pend, settled, said, acked>>

\* Mutant of RegisterWait: a signal that has fired is listened to.
RegisterWaitDeaf(i) ==
  /\ status[i] = "asked" /\ live /\ pend[i] = "none"
  /\ status' = [status EXCEPT ![i] = "waiting"]
  /\ held' = held \union {i}
  /\ timer' = timer \union {i}
  /\ UNCHANGED <<taskVars, child, sig, verdict, pend, settled, said, acked>>

\* Mutant of RegisterWait: no timer is armed.
RegisterWaitForever(i) ==
  /\ status[i] = "asked" /\ live /\ i \notin sig /\ pend[i] = "none"
  /\ status' = [status EXCEPT ![i] = "waiting"]
  /\ held' = held \union {i}
  /\ UNCHANGED <<taskVars, child, sig, verdict, timer, pend, settled, said, acked>>

RegisterWait(i) ==
  /\ status[i] = "asked" /\ live /\ i \notin sig
  /\ \E stale \in StaleCaptures(i) :
       /\ i \in stale \/ pend[i] = "none"
       /\ pend' = [j \in Ids |-> IF j \in stale THEN "none" ELSE pend[j]]
  /\ status' = [status EXCEPT ![i] = "waiting"]
  /\ held' = held \union {i}
  /\ timer' = timer \union {i}
  /\ UNCHANGED <<taskVars, child, sig, verdict, settled, said, acked>>

\* APPROVAL_TIMEOUT, DRAW_TIMEOUT or the capture timeout.
Timeout(i) ==
  /\ Quiet /\ i \in timer /\ status[i] = "waiting"
  /\ Resolve([j \in {i} |-> "timeout"])
  /\ settled' = IF i \in held THEN MarkAll(settled, <<i>>) ELSE settled
  /\ UNCHANGED <<taskVars, child, sig, pend, said, acked>>

\* bg_task stop, or the grace period of a sub-session told to finish.
StopBackground(i) ==
  /\ Quiet /\ i \in Background /\ status[i] \in {"spawned", "waiting"} /\ i \notin sig
  /\ sig' = sig \union {i}
  /\ \/ /\ status[i] = "waiting"
        /\ Resolve([j \in {i} |-> "timeout"])
        /\ settled' = IF i \in held THEN MarkAll(settled, <<i>>) ELSE settled
     \/ /\ status[i] = "spawned" /\ Keep /\ UNCHANGED settled
  /\ UNCHANGED <<taskVars, child, pend, said, acked>>

(***************************************************************************)
(* The user: decideApproval, decideChoice, decideEnvResult,                *)
(* decideDrawResult, decideCaptureResult                                   *)
(***************************************************************************)
KindOf(i) ==
  CHOOSE K \in {Approvals, Choices, Envs, Draws, Captures} : i \in K

\* Rejecting an approval aborts the run.
Rejects(i, v) == i \in Approvals /\ v = "no"

StopsRun(i, v) ==
  /\ aborted' = (aborted \/ Rejects(i, v))
  /\ sig' = IF Rejects(i, v) THEN sig \union child ELSE sig
  /\ UNCHANGED <<run, live, child>>

\* Waits other than i that the rejection resolves.
Collateral(i, v) == IF Rejects(i, v) THEN Abortable \ {i} ELSE {}

\* "ok": the wait is registered.
DecideHeld(i, v) ==
  /\ live /\ i \in held
  /\ StopsRun(i, v)
  /\ Resolve([j \in {i} \union Collateral(i, v) |-> IF j = i THEN v ELSE "timeout"])
  /\ \E q \in Orders(Collateral(i, v)) : settled' = MarkAll(MarkTwice(settled, i), q)
  /\ said' = [said EXCEPT ![i] = @ \union {v}]
  /\ acked' = acked \union {<<i, v>>}
  /\ UNCHANGED pend

\* "expired": no task, or the id is known to be settled.
DecideExpired(i, v) ==
  /\ \/ ~live
     \/ i \notin held /\ InSettled(i)
  /\ UNCHANGED <<taskVars, child, sig, pend, settled, said, acked>>
  /\ Keep

\* "queued": the wait may yet be registered.  A full queue loses an entry
\* (draw results are not limited).
Queued(K) == {j \in K : pend[j] # "none"}

DecideQueued(i, v) ==
  /\ live /\ i \notin held /\ ~InSettled(i)
  /\ \E lost \in SUBSET Queued(KindOf(i)) :
       /\ IF i \notin Draws /\ Cardinality(Queued(KindOf(i))) >= PendingLimit
          THEN \E j \in Queued(KindOf(i)) : lost = {j}
          ELSE lost = {}
       /\ pend' = [j \in Ids |-> IF j = i THEN v
                                 ELSE IF j \in lost THEN "none" ELSE pend[j]]
  /\ StopsRun(i, v)
  /\ Resolve([j \in Collateral(i, v) |-> "timeout"])
  /\ \E q \in Orders(Collateral(i, v)) : settled' = MarkAll(settled, q)
  /\ said' = IF status[i] = "done" THEN said ELSE [said EXCEPT ![i] = @ \union {v}]
  /\ UNCHANGED acked

Next ==
  \/ StartRun
  \/ FinishRun
  \/ FailRun
  \/ Cancel
  \/ \E i \in Ids :
       \/ Spawn(i) \/ AskMain(i) \/ AskBackground(i)
       \/ RegisterNoTask(i) \/ RegisterEarly(i) \/ RegisterAborted(i) \/ RegisterWait(i)
       \/ Timeout(i) \/ StopBackground(i)
       \/ \E v \in Values : DecideHeld(i, v) \/ DecideExpired(i, v) \/ DecideQueued(i, v)

\* The event loop continues a synchronous block and fires armed timers; it
\* is not assumed that a user decides, cancels or starts anything.
Fairness ==
  \A i \in Ids :
    /\ WF_vars(RegisterNoTask(i) \/ RegisterEarly(i) \/ RegisterAborted(i) \/ RegisterWait(i))
    /\ WF_vars(Timeout(i))

Spec     == Init /\ [][Next]_vars
FairSpec == Spec /\ Fairness

(***************************************************************************)
(* Properties                                                              *)
(***************************************************************************)
TypeOK ==
  /\ run \in Nat
  /\ live \in BOOLEAN /\ aborted \in BOOLEAN
  /\ child \subseteq Ids /\ sig \subseteq Ids
  /\ status \in [Ids -> Statuses]
  /\ verdict \in [Ids -> Verdicts]
  /\ held \subseteq Ids /\ timer \subseteq Ids
  /\ pend \in [Ids -> {"none"} \union Values]
  /\ settled \in Seq(Ids)
  /\ said \in [Ids -> SUBSET Values]
  /\ acked \subseteq Ids \X Values

\* A decision never sits in the queue while the waiter it answers is
\* waiting: a decision that loses the race against the registration is
\* consumed by it, one that wins it resolves the wait.
NoDecisionStranded ==
  \A i \in held : pend[i] = "none"

\* Every wait a live task knows of has its timer armed, and only waits in
\* progress have one: neither a wait without a way out nor a timer that
\* fires into a wait that is over.
TimersMatchWaits ==
  /\ held \subseteq timer
  /\ \A i \in timer : status[i] = "waiting"

\* Once the signal of a waiter has fired (cancel, a rejection, a stopped
\* sub-session) it is not waiting, and it cannot start to wait.
AbortLeavesNoWaiter ==
  \A i \in sig : status[i] # "waiting"

\* A waiter is only ever given a value the user submitted for that very
\* question while it could still be answered.
VerdictWasSaid ==
  \A i \in Ids : verdict[i] \in Values => verdict[i] \in said[i]

\* The user was told "ok" only for the answer the waiter received: two
\* answers to one question are never both acknowledged.
AckMeansDelivered ==
  \A a \in acked : verdict[a[1]] = a[2]

\* The hub implements the one-shot promise.
Promise == INSTANCE OneShot
  WITH Ids <- Ids, said <- said, verdict <- verdict, acked <- acked
OneShotHolds == Promise!OneShotSpec

\* Every approval the main loop waits for, and every env, draw and capture
\* wait, is eventually over, whatever the user does.
MustEnd == (Approvals \ Background) \union Envs \union Draws \union Captures
WaitsEnd ==
  \A i \in MustEnd : status[i] = "waiting" ~> status[i] = "done"

\* The doc of ApprovalVerdict and waitApproval: an approval nobody answers
\* ends in a timeout, also one asked by a background run.
BackgroundWaitsEnd ==
  \A i \in Background : status[i] = "waiting" ~> status[i] = "done"
=============================================================================
