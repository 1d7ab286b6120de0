--------------------------- MODULE ToolRoundProofs ---------------------------
(***************************************************************************)
(* Theorems about ToolRound for every number of calls, every width of the  *)
(* pool and any number of failing writes.  Inv is the inductive invariant. *)
(***************************************************************************)
EXTENDS ToolRound, SequenceTheorems, TLAPS

\* Which phases a call can be in at each point of the round.
PhasesFit ==
  \A c \in Calls :
    /\ at = "entry" => cursor = 1 /\ phase[c] = "new"
    /\ at = "gate" =>
         /\ c < cursor => phase[c] \in {"queued", "done"}
         /\ c = cursor => phase[c] \in {"new", "writing"}
         /\ c > cursor => phase[c] = "new"
    /\ at = "pool" => phase[c] \notin {"new", "failed"}
    /\ at = "skip" => phase[c] \in {"new", "queued", "writing", "done", "lost"}
    /\ at = "fill" => phase[c] \in {"new", "queued", "writing", "done", "lost", "failed"}
    /\ at = "thrown" => phase[c] \in {"done", "failed"}
    /\ at = "ended" => phase[c] = "done"

\* What has been executed, and what has returned, fits the phase; so does
\* what the wait was given.
RunsFit ==
  \A c \in Calls :
    /\ phase[c] \in {"new", "queued", "waiting", "resolved"} => c \notin started
    /\ phase[c] \in {"running", "grace"} => c \in started
    /\ phase[c] = "resolved" => verdict[c] # "none"

\* Whether n may be the result of c.
NoteFits(n, c) ==
  /\ n \in {"gated", "skipped", "denied", "expired"} => c \notin started
  /\ n = "result" => c \in started \ alive
  /\ n = "denied" => verdict[c] = "rejected"

\* The results written and about to be written are true; only a call that
\* is over can have one.
LogFits ==
  \A c \in Calls :
    /\ phase[c] = "writing" => NoteFits(note[c], c)
    /\ \A k \in DOMAIN log[c] : NoteFits(log[c][k], c)
    /\ phase[c] \notin {"writing", "done", "lost", "failed"} => log[c] = << >>

\* Every result of a call but the one it is done with stems from a write
\* that failed, and a failure keeps the round from ending normally.
FailuresFit ==
  /\ \A c \in Calls :
       /\ Len(log[c]) <= failures + (IF phase[c] = "done" THEN 1 ELSE 0)
       /\ phase[c] = "done" => Len(log[c]) >= 1
       /\ at = "pool" /\ phase[c] = "lost" => error
  /\ at \in {"entry", "gate", "ended"} => failures = 0
  /\ at = "pool" /\ ~error => failures = 0

Inv == TypeOK /\ PhasesFit /\ RunsFit /\ LogFits /\ FailuresFit

(***************************************************************************)
(* The invariant                                                           *)
(***************************************************************************)
\* A result added to a history that is true keeps it true.
LEMMA AppendFits ==
  ASSUME NEW s \in Seq(Notes), NEW n \in Notes
  PROVE  /\ Append(s, n) \in Seq(Notes)
         /\ Len(s) \in Nat /\ Len(Append(s, n)) = Len(s) + 1
         /\ \A k \in DOMAIN Append(s, n) :
              \/ Append(s, n)[k] = n
              \/ k \in DOMAIN s /\ Append(s, n)[k] = s[k]
<1>1. /\ Append(s, n) \in Seq(Notes)
      /\ Len(Append(s, n)) = Len(s) + 1
      /\ \A k \in 1..Len(s) : Append(s, n)[k] = s[k]
      /\ Append(s, n)[Len(s) + 1] = n
  BY AppendProperties
<1>2. Len(s) \in Nat /\ DOMAIN s = 1..Len(s) /\ DOMAIN Append(s, n) = 1..Len(s)+1
  BY <1>1, LenProperties
<1> QED BY <1>1, <1>2

\* The initial state.
LEMMA InitInv == Init => Inv
<1> SUFFICES ASSUME Init PROVE Inv
  OBVIOUS
<1>1. << >> \in Seq(Notes) /\ Len(<< >>) = 0 /\ DOMAIN << >> = {}
  BY EmptySeq
<1>2. log \in [Calls -> Seq(Notes)]
  BY <1>1 DEF Init
<1>6. phase \in [Calls -> Phases] /\ verdict \in [Calls -> Verdicts] /\ note \in [Calls -> Notes]
  BY DEF Init, Phases, Verdicts, Notes
<1>7. cursor \in 1..N+1 /\ failures \in 0..MaxFailures
  BY RoundAssumption DEF Init
<1>8. TypeOK
  BY <1>2, <1>6, <1>7 DEF Init, TypeOK
<1>3. PhasesFit /\ RunsFit
  BY DEF Init, PhasesFit, RunsFit, Calls
<1>4. LogFits
  BY <1>1 DEF Init, LogFits
<1>5. FailuresFit
  BY <1>1 DEF Init, FailuresFit
<1> QED BY <1>3, <1>4, <1>5, <1>8 DEF Inv

\* Step: the signal is looked at.
LEMMA EnterInv ==
  ASSUME Inv, Enter
  PROVE  Inv'
<1>1. TypeOK'
  BY RoundAssumption DEF Inv, TypeOK, Phases, Verdicts, Notes, Calls, PhasesFit, Enter, pool, signals
<1>2. PhasesFit'
  BY RoundAssumption DEF Inv, TypeOK, Phases, Verdicts, Notes, Calls, PhasesFit, FailuresFit, Enter, pool, signals
<1>3. RunsFit'
  BY DEF Inv, TypeOK, Phases, Verdicts, Notes, Calls, RunsFit, Enter, pool, signals
<1>4. LogFits'
  BY DEF Inv, TypeOK, Phases, Verdicts, Notes, Calls, PhasesFit, RunsFit, LogFits, NoteFits, Enter, pool, signals
<1>5. FailuresFit'
  BY DEF Inv, TypeOK, Phases, Verdicts, Notes, Calls, PhasesFit, FailuresFit, Enter, pool, signals
<1> QED BY <1>1, <1>2, <1>3, <1>4, <1>5 DEF Inv

\* Step: the gate ends.
LEMMA GateDoneInv ==
  ASSUME Inv, GateDone
  PROVE  Inv'
<1>1. TypeOK'
  BY RoundAssumption DEF Inv, TypeOK, Phases, Verdicts, Notes, Calls, PhasesFit, GateDone, pool, signals
<1>2. PhasesFit'
  <2>1. \A c \in Calls : c < cursor
    BY RoundAssumption DEF GateDone, Calls
  <2>2. \A c \in Calls : phase[c] \in {"queued", "done"}
    BY <2>1 DEF Inv, PhasesFit, GateDone
  <2>3. at' = "pool" /\ phase' = phase
    BY DEF GateDone
  <2> QED BY <2>2, <2>3 DEF PhasesFit
<1>3. RunsFit'
  BY DEF Inv, TypeOK, Phases, Verdicts, Notes, Calls, RunsFit, GateDone, pool, signals
<1>4. LogFits'
  BY DEF Inv, TypeOK, Phases, Verdicts, Notes, Calls, PhasesFit, RunsFit, LogFits, NoteFits, GateDone, pool, signals
<1>5. FailuresFit'
  BY DEF Inv, TypeOK, Phases, Verdicts, Notes, Calls, PhasesFit, FailuresFit, GateDone, pool, signals
<1> QED BY <1>1, <1>2, <1>3, <1>4, <1>5 DEF Inv

\* Step: the pool has drained.
LEMMA PoolDoneInv ==
  ASSUME Inv, PoolDone
  PROVE  Inv'
<1>1. TypeOK'
  BY RoundAssumption DEF Inv, TypeOK, Phases, Verdicts, Notes, Calls, PhasesFit, PoolDone, In, Active, pool, signals
<1>2. PhasesFit'
  <2>1. \A p \in {"waiting", "resolved", "running", "grace", "writing"} : In(p) = {}
    BY DEF PoolDone, Active
  <2>2. \A c \in Calls : phase[c] \notin {"queued", "waiting", "resolved", "running", "grace", "writing"}
    BY <2>1 DEF PoolDone, In
  <2>3. \A c \in Calls : phase[c] \in {"done", "lost"} /\ (phase[c] = "lost" => error)
    BY <2>2 DEF Inv, TypeOK, Phases, PhasesFit, FailuresFit, PoolDone
  <2>4. at' = (IF error THEN "fill" ELSE "ended") /\ phase' = phase
    BY DEF PoolDone
  <2> QED BY <2>3, <2>4 DEF PhasesFit
<1>3. RunsFit'
  BY DEF Inv, TypeOK, Phases, Verdicts, Notes, Calls, RunsFit, PoolDone, In, Active, pool, signals
<1>4. LogFits'
  BY DEF Inv, TypeOK, Phases, Verdicts, Notes, Calls, PhasesFit, RunsFit, LogFits, NoteFits, PoolDone, In, Active, pool, signals
<1>5. FailuresFit'
  BY DEF Inv, TypeOK, Phases, Verdicts, Notes, Calls, PhasesFit, FailuresFit, PoolDone, In, Active, pool, signals
<1> QED BY <1>1, <1>2, <1>3, <1>4, <1>5 DEF Inv

\* Step: filling is over.
LEMMA FillDoneInv ==
  ASSUME Inv, FillDone
  PROVE  Inv'
<1>1. TypeOK'
  BY RoundAssumption DEF Inv, TypeOK, Phases, Verdicts, Notes, Calls, PhasesFit, FillDone, In, Missing, pool, signals
<1>2. PhasesFit'
  BY RoundAssumption DEF Inv, TypeOK, Phases, Verdicts, Notes, Calls, PhasesFit, FailuresFit, FillDone, In, Missing, pool, signals
<1>3. RunsFit'
  BY DEF Inv, TypeOK, Phases, Verdicts, Notes, Calls, RunsFit, FillDone, In, Missing, pool, signals
<1>4. LogFits'
  BY DEF Inv, TypeOK, Phases, Verdicts, Notes, Calls, PhasesFit, RunsFit, LogFits, NoteFits, FillDone, In, Missing, pool, signals
<1>5. FailuresFit'
  BY DEF Inv, TypeOK, Phases, Verdicts, Notes, Calls, PhasesFit, FailuresFit, FillDone, In, Missing, pool, signals
<1> QED BY <1>1, <1>2, <1>3, <1>4, <1>5 DEF Inv

\* Step: the user stops the run.
LEMMA CancelInv ==
  ASSUME Inv, Cancel
  PROVE  Inv'
<1>1. TypeOK'
  BY RoundAssumption DEF Inv, TypeOK, Phases, Verdicts, Notes, Calls, PhasesFit, Cancel, Abort, pool, signals
<1>2. PhasesFit'
  BY RoundAssumption DEF Inv, TypeOK, Phases, Verdicts, Notes, Calls, PhasesFit, FailuresFit, Cancel, Abort, pool, signals
<1>3. RunsFit'
  BY DEF Inv, TypeOK, Phases, Verdicts, Notes, Calls, RunsFit, Cancel, Abort, pool, signals
<1>4. LogFits'
  BY DEF Inv, TypeOK, Phases, Verdicts, Notes, Calls, PhasesFit, RunsFit, LogFits, NoteFits, Cancel, Abort, pool, signals
<1>5. FailuresFit'
  BY DEF Inv, TypeOK, Phases, Verdicts, Notes, Calls, PhasesFit, FailuresFit, Cancel, Abort, pool, signals
<1> QED BY <1>1, <1>2, <1>3, <1>4, <1>5 DEF Inv

\* Step: an unknown id is rejected.
LEMMA RejectUnknownInv ==
  ASSUME Inv, RejectUnknown
  PROVE  Inv'
<1>1. TypeOK'
  BY RoundAssumption DEF Inv, TypeOK, Phases, Verdicts, Notes, Calls, PhasesFit, RejectUnknown, Abort, signals, pool
<1>2. PhasesFit'
  BY RoundAssumption DEF Inv, TypeOK, Phases, Verdicts, Notes, Calls, PhasesFit, FailuresFit, RejectUnknown, Abort, signals, pool
<1>3. RunsFit'
  BY DEF Inv, TypeOK, Phases, Verdicts, Notes, Calls, RunsFit, RejectUnknown, Abort, signals, pool
<1>4. LogFits'
  BY DEF Inv, TypeOK, Phases, Verdicts, Notes, Calls, PhasesFit, RunsFit, LogFits, NoteFits, RejectUnknown, Abort, signals, pool
<1>5. FailuresFit'
  BY DEF Inv, TypeOK, Phases, Verdicts, Notes, Calls, PhasesFit, FailuresFit, RejectUnknown, Abort, signals, pool
<1> QED BY <1>1, <1>2, <1>3, <1>4, <1>5 DEF Inv

\* Step: a call passes the gate.
LEMMA GateInv ==
  ASSUME Inv, NEW c \in Calls, Gate(c)
  PROVE  Inv'
<1>1. TypeOK'
  <2>1. CASE Answer(c, "gated") /\ UNCHANGED pool
    BY <2>1, RoundAssumption DEF Inv, TypeOK, Phases, Verdicts, Notes, Calls, PhasesFit, Gate, Answer, pool, signals
  <2>2. CASE /\ phase' = [phase EXCEPT ![c] = "queued"]
             /\ cursor' = cursor + 1
             /\ ask' \in {ask, ask \union {c}}
             /\ UNCHANGED note
    BY <2>2, RoundAssumption DEF Inv, TypeOK, Phases, Verdicts, Notes, Calls, PhasesFit, Gate, signals
  <2> QED BY <2>1, <2>2 DEF Gate
<1>2. PhasesFit'
  <2>1. CASE Answer(c, "gated") /\ UNCHANGED pool
    BY <2>1, RoundAssumption DEF Inv, TypeOK, Calls, PhasesFit, Gate, Answer, pool, signals
  <2>2. CASE /\ phase' = [phase EXCEPT ![c] = "queued"]
             /\ cursor' = cursor + 1
             /\ ask' \in {ask, ask \union {c}}
             /\ UNCHANGED note
    BY <2>2, RoundAssumption DEF Inv, TypeOK, Calls, PhasesFit, Gate, signals
  <2> QED BY <2>1, <2>2 DEF Gate
<1>3. RunsFit'
  BY ZenonT(40) DEF Inv, TypeOK, Phases, Verdicts, Notes, Calls, RunsFit, Gate, Answer, pool, signals
<1>4. LogFits'
  <2>1. CASE Answer(c, "gated") /\ UNCHANGED pool
    BY <2>1, RoundAssumption DEF Inv, TypeOK, Phases, Verdicts, Notes, Calls, PhasesFit, RunsFit, LogFits, NoteFits, Gate, Answer, pool, signals
  <2>2. CASE /\ phase' = [phase EXCEPT ![c] = "queued"]
             /\ cursor' = cursor + 1
             /\ ask' \in {ask, ask \union {c}}
             /\ UNCHANGED note
    BY <2>2, RoundAssumption, ZenonT(60) DEF Inv, TypeOK, Phases, Verdicts, Notes, Calls, PhasesFit, RunsFit, LogFits, NoteFits, Gate, signals
  <2> QED BY <2>1, <2>2 DEF Gate
<1>5. FailuresFit'
  BY ZenonT(40) DEF Inv, TypeOK, Phases, Verdicts, Notes, Calls, PhasesFit, FailuresFit, Gate, Answer, pool, signals
<1> QED BY <1>1, <1>2, <1>3, <1>4, <1>5 DEF Inv

\* Step: a call is skipped.
LEMMA TakeSkippedInv ==
  ASSUME Inv, NEW c \in Calls, TakeSkipped(c)
  PROVE  Inv'
<1>1. TypeOK'
  BY RoundAssumption DEF Inv, TypeOK, Phases, Verdicts, Notes, Calls, PhasesFit, TakeSkipped, Take, In, Answer, pool, signals
<1>2. PhasesFit'
  BY RoundAssumption DEF Inv, TypeOK, Phases, Verdicts, Notes, Calls, PhasesFit, FailuresFit, TakeSkipped, Take, In, Answer, pool, signals
<1>3. RunsFit'
  BY DEF Inv, TypeOK, Phases, Verdicts, Notes, Calls, RunsFit, TakeSkipped, Take, In, Answer, pool, signals
<1>4. LogFits'
  BY DEF Inv, TypeOK, Phases, Verdicts, Notes, Calls, PhasesFit, RunsFit, LogFits, NoteFits, TakeSkipped, Take, In, Answer, pool, signals
<1>5. FailuresFit'
  BY DEF Inv, TypeOK, Phases, Verdicts, Notes, Calls, PhasesFit, FailuresFit, TakeSkipped, Take, In, Answer, pool, signals
<1> QED BY <1>1, <1>2, <1>3, <1>4, <1>5 DEF Inv

\* Step: a call asks.
LEMMA TakeAskingInv ==
  ASSUME Inv, NEW c \in Calls, TakeAsking(c)
  PROVE  Inv'
<1>1. TypeOK'
  BY RoundAssumption DEF Inv, TypeOK, Phases, Verdicts, Notes, Calls, PhasesFit, TakeAsking, Take, In, pool, signals
<1>2. PhasesFit'
  BY RoundAssumption DEF Inv, TypeOK, Phases, Verdicts, Notes, Calls, PhasesFit, FailuresFit, TakeAsking, Take, In, pool, signals
<1>3. RunsFit'
  BY DEF Inv, TypeOK, Phases, Verdicts, Notes, Calls, RunsFit, TakeAsking, Take, In, pool, signals
<1>4. LogFits'
  BY DEF Inv, TypeOK, Phases, Verdicts, Notes, Calls, PhasesFit, RunsFit, LogFits, NoteFits, TakeAsking, Take, In, pool, signals
<1>5. FailuresFit'
  BY DEF Inv, TypeOK, Phases, Verdicts, Notes, Calls, PhasesFit, FailuresFit, TakeAsking, Take, In, pool, signals
<1> QED BY <1>1, <1>2, <1>3, <1>4, <1>5 DEF Inv

\* Step: a call executes without asking.
LEMMA TakeFreeInv ==
  ASSUME Inv, NEW c \in Calls, TakeFree(c)
  PROVE  Inv'
<1>1. TypeOK'
  BY RoundAssumption DEF Inv, TypeOK, Phases, Verdicts, Notes, Calls, PhasesFit, TakeFree, Take, In, Execute, pool, signals
<1>2. PhasesFit'
  BY RoundAssumption DEF Inv, TypeOK, Phases, Verdicts, Notes, Calls, PhasesFit, FailuresFit, TakeFree, Take, In, Execute, pool, signals
<1>3. RunsFit'
  BY DEF Inv, TypeOK, Phases, Verdicts, Notes, Calls, RunsFit, TakeFree, Take, In, Execute, pool, signals
<1>4. LogFits'
  BY DEF Inv, TypeOK, Phases, Verdicts, Notes, Calls, PhasesFit, RunsFit, LogFits, NoteFits, TakeFree, Take, In, Execute, pool, signals
<1>5. FailuresFit'
  BY DEF Inv, TypeOK, Phases, Verdicts, Notes, Calls, PhasesFit, FailuresFit, TakeFree, Take, In, Execute, pool, signals
<1> QED BY <1>1, <1>2, <1>3, <1>4, <1>5 DEF Inv

\* Step: an approval.
LEMMA ApproveInv ==
  ASSUME Inv, NEW c \in Calls, Approve(c)
  PROVE  Inv'
<1>1. TypeOK'
  BY RoundAssumption DEF Inv, TypeOK, Phases, Verdicts, Notes, Calls, PhasesFit, Approve, pool, signals
<1>2. PhasesFit'
  BY RoundAssumption DEF Inv, TypeOK, Phases, Verdicts, Notes, Calls, PhasesFit, FailuresFit, Approve, pool, signals
<1>3. RunsFit'
  BY DEF Inv, TypeOK, Phases, Verdicts, Notes, Calls, RunsFit, Approve, pool, signals
<1>4. LogFits'
  BY DEF Inv, TypeOK, Phases, Verdicts, Notes, Calls, PhasesFit, RunsFit, LogFits, NoteFits, Approve, pool, signals
<1>5. FailuresFit'
  BY DEF Inv, TypeOK, Phases, Verdicts, Notes, Calls, PhasesFit, FailuresFit, Approve, pool, signals
<1> QED BY <1>1, <1>2, <1>3, <1>4, <1>5 DEF Inv

\* Step: an approval times out.
LEMMA ApprovalTimeoutInv ==
  ASSUME Inv, NEW c \in Calls, ApprovalTimeout(c)
  PROVE  Inv'
<1>1. TypeOK'
  BY RoundAssumption DEF Inv, TypeOK, Phases, Verdicts, Notes, Calls, PhasesFit, ApprovalTimeout, pool, signals
<1>2. PhasesFit'
  BY RoundAssumption DEF Inv, TypeOK, Phases, Verdicts, Notes, Calls, PhasesFit, FailuresFit, ApprovalTimeout, pool, signals
<1>3. RunsFit'
  BY DEF Inv, TypeOK, Phases, Verdicts, Notes, Calls, RunsFit, ApprovalTimeout, pool, signals
<1>4. LogFits'
  BY DEF Inv, TypeOK, Phases, Verdicts, Notes, Calls, PhasesFit, RunsFit, LogFits, NoteFits, ApprovalTimeout, pool, signals
<1>5. FailuresFit'
  BY DEF Inv, TypeOK, Phases, Verdicts, Notes, Calls, PhasesFit, FailuresFit, ApprovalTimeout, pool, signals
<1> QED BY <1>1, <1>2, <1>3, <1>4, <1>5 DEF Inv

\* Step: a rejection.
LEMMA RejectInv ==
  ASSUME Inv, NEW c \in Calls, Reject(c)
  PROVE  Inv'
<1>1. TypeOK'
  BY RoundAssumption DEF Inv, TypeOK, Phases, Verdicts, Notes, Calls, PhasesFit, Reject, Abort, signals, pool
<1>2. PhasesFit'
  BY RoundAssumption DEF Inv, TypeOK, Phases, Verdicts, Notes, Calls, PhasesFit, FailuresFit, Reject, Abort, signals, pool
<1>3. RunsFit'
  BY DEF Inv, TypeOK, Phases, Verdicts, Notes, Calls, RunsFit, Reject, Abort, signals, pool
<1>4. LogFits'
  BY DEF Inv, TypeOK, Phases, Verdicts, Notes, Calls, PhasesFit, RunsFit, LogFits, NoteFits, Reject, Abort, signals, pool
<1>5. FailuresFit'
  BY DEF Inv, TypeOK, Phases, Verdicts, Notes, Calls, PhasesFit, FailuresFit, Reject, Abort, signals, pool
<1> QED BY <1>1, <1>2, <1>3, <1>4, <1>5 DEF Inv

\* Step: a stopped wait throws.
LEMMA ThrowInv ==
  ASSUME Inv, NEW c \in Calls, Throw(c)
  PROVE  Inv'
<1>1. TypeOK'
  BY RoundAssumption DEF Inv, TypeOK, Phases, Verdicts, Notes, Calls, PhasesFit, Throw, pool, signals
<1>2. PhasesFit'
  BY RoundAssumption DEF Inv, TypeOK, Phases, Verdicts, Notes, Calls, PhasesFit, FailuresFit, Throw, pool, signals
<1>3. RunsFit'
  BY DEF Inv, TypeOK, Phases, Verdicts, Notes, Calls, RunsFit, Throw, pool, signals
<1>4. LogFits'
  BY DEF Inv, TypeOK, Phases, Verdicts, Notes, Calls, PhasesFit, RunsFit, LogFits, NoteFits, Throw, pool, signals
<1>5. FailuresFit'
  BY DEF Inv, TypeOK, Phases, Verdicts, Notes, Calls, PhasesFit, FailuresFit, Throw, pool, signals
<1> QED BY <1>1, <1>2, <1>3, <1>4, <1>5 DEF Inv

\* Step: a call is not executed.
LEMMA DenyInv ==
  ASSUME Inv, NEW c \in Calls, Deny(c)
  PROVE  Inv'
<1>1. TypeOK'
  BY RoundAssumption DEF Inv, TypeOK, Phases, Verdicts, Notes, Calls, PhasesFit, Deny, Thrown, Answer, pool, signals
<1>2. PhasesFit'
  BY RoundAssumption DEF Inv, TypeOK, Phases, Verdicts, Notes, Calls, PhasesFit, FailuresFit, Deny, Thrown, Answer, pool, signals
<1>3. RunsFit'
  BY DEF Inv, TypeOK, Phases, Verdicts, Notes, Calls, RunsFit, Deny, Thrown, Answer, pool, signals
<1>4. LogFits'
  BY DEF Inv, TypeOK, Phases, Verdicts, Notes, Calls, PhasesFit, RunsFit, LogFits, NoteFits, Deny, Thrown, Answer, pool, signals
<1>5. FailuresFit'
  BY DEF Inv, TypeOK, Phases, Verdicts, Notes, Calls, PhasesFit, FailuresFit, Deny, Thrown, Answer, pool, signals
<1> QED BY <1>1, <1>2, <1>3, <1>4, <1>5 DEF Inv

\* Step: an approved call executes.
LEMMA ExecuteApprovedInv ==
  ASSUME Inv, NEW c \in Calls, ExecuteApproved(c)
  PROVE  Inv'
<1>1. TypeOK'
  BY RoundAssumption DEF Inv, TypeOK, Phases, Verdicts, Notes, Calls, PhasesFit, ExecuteApproved, Execute, pool, signals
<1>2. PhasesFit'
  BY RoundAssumption DEF Inv, TypeOK, Phases, Verdicts, Notes, Calls, PhasesFit, FailuresFit, ExecuteApproved, Execute, pool, signals
<1>3. RunsFit'
  BY DEF Inv, TypeOK, Phases, Verdicts, Notes, Calls, RunsFit, ExecuteApproved, Execute, pool, signals
<1>4. LogFits'
  BY DEF Inv, TypeOK, Phases, Verdicts, Notes, Calls, PhasesFit, RunsFit, LogFits, NoteFits, ExecuteApproved, Execute, pool, signals
<1>5. FailuresFit'
  BY DEF Inv, TypeOK, Phases, Verdicts, Notes, Calls, PhasesFit, FailuresFit, ExecuteApproved, Execute, pool, signals
<1> QED BY <1>1, <1>2, <1>3, <1>4, <1>5 DEF Inv

\* Step: a tool returns.
LEMMA ToolReturnsInv ==
  ASSUME Inv, NEW c \in Calls, ToolReturns(c)
  PROVE  Inv'
<1>1. TypeOK'
  BY RoundAssumption, ZenonT(60) DEF Inv, TypeOK, Phases, Verdicts, Notes, Calls, PhasesFit, ToolReturns, Answer, pool, signals
<1>2. PhasesFit'
  BY RoundAssumption, ZenonT(60) DEF Inv, TypeOK, Phases, Verdicts, Notes, Calls, PhasesFit, FailuresFit, ToolReturns, Answer, pool, signals
<1>3. RunsFit'
  BY DEF Inv, TypeOK, Phases, Verdicts, Notes, Calls, RunsFit, ToolReturns, Answer, pool, signals
<1>4. LogFits'
  <2>1. CASE phase[c] = "running" /\ Answer(c, "result")
    BY <2>1 DEF Inv, TypeOK, Phases, Verdicts, Notes, Calls, PhasesFit, RunsFit, LogFits, NoteFits, ToolReturns, Answer, signals
  <2>2. CASE phase[c] = "grace" /\ Answer(c, "interrupted")
    BY <2>2 DEF Inv, TypeOK, Phases, Verdicts, Notes, Calls, PhasesFit, RunsFit, LogFits, NoteFits, ToolReturns, Answer, signals
  <2>3. CASE phase[c] \notin {"running", "grace"} /\ UNCHANGED <<phase, note>>
    BY <2>3 DEF Inv, TypeOK, Phases, Verdicts, Notes, Calls, PhasesFit, RunsFit, LogFits, NoteFits, ToolReturns, signals
  <2> QED BY <2>1, <2>2, <2>3 DEF ToolReturns
<1>5. FailuresFit'
  BY ZenonT(60) DEF Inv, TypeOK, Phases, Verdicts, Notes, Calls, PhasesFit, FailuresFit, ToolReturns, Answer, pool, signals
<1> QED BY <1>1, <1>2, <1>3, <1>4, <1>5 DEF Inv

\* Step: a tool times out.
LEMMA ToolTimeoutInv ==
  ASSUME Inv, NEW c \in Calls, ToolTimeout(c)
  PROVE  Inv'
<1>1. TypeOK'
  BY RoundAssumption DEF Inv, TypeOK, Phases, Verdicts, Notes, Calls, PhasesFit, ToolTimeout, Answer, pool, signals
<1>2. PhasesFit'
  BY RoundAssumption DEF Inv, TypeOK, Phases, Verdicts, Notes, Calls, PhasesFit, FailuresFit, ToolTimeout, Answer, pool, signals
<1>3. RunsFit'
  BY DEF Inv, TypeOK, Phases, Verdicts, Notes, Calls, RunsFit, ToolTimeout, Answer, pool, signals
<1>4. LogFits'
  BY DEF Inv, TypeOK, Phases, Verdicts, Notes, Calls, PhasesFit, RunsFit, LogFits, NoteFits, ToolTimeout, Answer, pool, signals
<1>5. FailuresFit'
  BY DEF Inv, TypeOK, Phases, Verdicts, Notes, Calls, PhasesFit, FailuresFit, ToolTimeout, Answer, pool, signals
<1> QED BY <1>1, <1>2, <1>3, <1>4, <1>5 DEF Inv

\* Step: the grace period ends.
LEMMA GraceEndsInv ==
  ASSUME Inv, NEW c \in Calls, GraceEnds(c)
  PROVE  Inv'
<1>1. TypeOK'
  BY RoundAssumption DEF Inv, TypeOK, Phases, Verdicts, Notes, Calls, PhasesFit, GraceEnds, Answer, pool, signals
<1>2. PhasesFit'
  BY RoundAssumption DEF Inv, TypeOK, Phases, Verdicts, Notes, Calls, PhasesFit, FailuresFit, GraceEnds, Answer, pool, signals
<1>3. RunsFit'
  BY DEF Inv, TypeOK, Phases, Verdicts, Notes, Calls, RunsFit, GraceEnds, Answer, pool, signals
<1>4. LogFits'
  BY DEF Inv, TypeOK, Phases, Verdicts, Notes, Calls, PhasesFit, RunsFit, LogFits, NoteFits, GraceEnds, Answer, pool, signals
<1>5. FailuresFit'
  BY DEF Inv, TypeOK, Phases, Verdicts, Notes, Calls, PhasesFit, FailuresFit, GraceEnds, Answer, pool, signals
<1> QED BY <1>1, <1>2, <1>3, <1>4, <1>5 DEF Inv

\* Step: a missing result is filled in.
LEMMA FillInv ==
  ASSUME Inv, NEW c \in Calls, Fill(c)
  PROVE  Inv'
<1>1. TypeOK'
  BY RoundAssumption DEF Inv, TypeOK, Phases, Verdicts, Notes, Calls, PhasesFit, Fill, Missing, In, FillNote, Answer, pool, signals
<1>2. PhasesFit'
  BY RoundAssumption DEF Inv, TypeOK, Phases, Verdicts, Notes, Calls, PhasesFit, FailuresFit, Fill, Missing, In, FillNote, Answer, pool, signals
<1>3. RunsFit'
  BY DEF Inv, TypeOK, Phases, Verdicts, Notes, Calls, RunsFit, Fill, Missing, In, FillNote, Answer, pool, signals
<1>4. LogFits'
  BY DEF Inv, TypeOK, Phases, Verdicts, Notes, Calls, PhasesFit, RunsFit, LogFits, NoteFits, Fill, Missing, In, FillNote, Answer, pool, signals
<1>5. FailuresFit'
  BY DEF Inv, TypeOK, Phases, Verdicts, Notes, Calls, PhasesFit, FailuresFit, Fill, Missing, In, FillNote, Answer, pool, signals
<1> QED BY <1>1, <1>2, <1>3, <1>4, <1>5 DEF Inv

\* Step: the write of a result succeeds.
LEMMA WriteInv ==
  ASSUME Inv, NEW c \in Calls, Write(c)
  PROVE  Inv'
<1>1. /\ log' = [log EXCEPT ![c] = Append(log[c], note[c])]
      /\ log[c] \in Seq(Notes) /\ note[c] \in Notes
      /\ phase[c] = "writing" /\ phase' = [phase EXCEPT ![c] = "done"]
      /\ cursor' = IF at = "gate" THEN cursor + 1 ELSE cursor
      /\ UNCHANGED <<at, ask, verdict, note, started, alive, aborted, cancelled, error, failures>>
  BY DEF Inv, TypeOK, Write, signals
<1>2. log' \in [Calls -> Seq(Notes)] /\ log'[c] = Append(log[c], note[c])
  BY <1>1, AppendFits DEF Inv, TypeOK
<1>3. at = "gate" => c = cursor
  <2>1. at = "gate" => (c < cursor => phase[c] \in {"queued", "done"}) /\ (c > cursor => phase[c] = "new")
    BY DEF Inv, PhasesFit
  <2>2. c \in Nat /\ cursor \in Nat
    BY RoundAssumption DEF Inv, TypeOK, Calls
  <2> QED BY <1>1, <2>1, <2>2
<1>4. TypeOK'
  BY <1>1, <1>2, <1>3, RoundAssumption DEF Inv, TypeOK, Phases, Calls
<1>5. PhasesFit'
  <2>1. CASE at = "gate"
    BY <1>1, <1>3, <2>1, RoundAssumption DEF Inv, TypeOK, Calls, PhasesFit
  <2>2. CASE at # "gate"
    BY <1>1, <2>2 DEF Inv, TypeOK, Calls, PhasesFit
  <2> QED BY <2>1, <2>2
<1>6. RunsFit'
  BY <1>1 DEF Inv, TypeOK, RunsFit
<1>7. LogFits'
  <2>1. ASSUME NEW d \in Calls, NEW k \in DOMAIN log'[d]
        PROVE  NoteFits(log'[d][k], d)
    <3>1. CASE d # c
      BY <1>1, <3>1, <2>1 DEF Inv, TypeOK, LogFits
    <3>2. CASE d = c
      BY <1>1, <1>2, <3>2, <2>1, AppendFits DEF Inv, LogFits
    <3> QED BY <3>1, <3>2
  <2>2. \A n : \A d \in Calls : NoteFits(n, d)' <=> NoteFits(n, d)
    BY <1>1 DEF NoteFits
  <2> QED BY <1>1, <2>1, <2>2 DEF Inv, TypeOK, LogFits
<1>8. FailuresFit'
  BY <1>1, <1>2, AppendFits DEF Inv, TypeOK, FailuresFit
<1> QED BY <1>4, <1>5, <1>6, <1>7, <1>8 DEF Inv

\* Step: the write of a result fails, before or after the message was pushed.
LEMMA WriteFailsInv ==
  ASSUME Inv, NEW c \in Calls, WriteFails(c)
  PROVE  Inv'
<1>1. /\ log' \in {log, [log EXCEPT ![c] = Append(log[c], note[c])]}
      /\ log[c] \in Seq(Notes) /\ note[c] \in Notes
      /\ phase[c] = "writing"
      /\ phase' = [phase EXCEPT ![c] = IF at = "fill" THEN "failed" ELSE "lost"]
      /\ at' = IF at = "gate" THEN "fill" ELSE at
      /\ error' = (error \/ at = "pool")
      /\ failures < MaxFailures /\ failures' = failures + 1
      /\ UNCHANGED <<cursor, ask, verdict, note, started, alive, aborted, cancelled>>
  BY DEF Inv, TypeOK, WriteFails, pool, signals
<1>2. /\ log' \in [Calls -> Seq(Notes)]
      /\ log'[c] = log[c] \/ log'[c] = Append(log[c], note[c])
      /\ \A d \in Calls : d # c => log'[d] = log[d]
  <2>1. log \in [Calls -> Seq(Notes)]
    BY DEF Inv, TypeOK
  <2>2. CASE log' = log
    BY <2>1, <2>2
  <2>3. CASE log' = [log EXCEPT ![c] = Append(log[c], note[c])]
    BY <1>1, <2>1, <2>3, AppendFits
  <2> QED BY <1>1, <2>2, <2>3
<1>3. at \in {"gate", "pool", "skip", "fill"}
  BY <1>1 DEF Inv, TypeOK, PhasesFit
<1>4. TypeOK'
  <2>1. failures' \in 0..MaxFailures
    BY <1>1, RoundAssumption DEF Inv, TypeOK
  <2>2. phase' \in [Calls -> Phases]
    BY <1>1 DEF Inv, TypeOK, Phases
  <2>3. at' \in {"entry", "gate", "pool", "skip", "fill", "ended", "thrown"}
    BY <1>1 DEF Inv, TypeOK
  <2>4. error' \in BOOLEAN
    BY <1>1 DEF Inv, TypeOK
  <2> QED BY <1>1, <1>2, <2>1, <2>2, <2>3, <2>4 DEF Inv, TypeOK
<1>5. PhasesFit'
  BY <1>1, <1>3, RoundAssumption DEF Inv, TypeOK, Calls, PhasesFit
<1>6. RunsFit'
  BY <1>1 DEF Inv, TypeOK, RunsFit
<1>7. LogFits'
  <2>1. ASSUME NEW d \in Calls, NEW k \in DOMAIN log'[d]
        PROVE  NoteFits(log'[d][k], d)
    <3>1. CASE log'[d] = log[d]
      BY <3>1, <2>1 DEF Inv, LogFits
    <3>2. CASE d = c /\ log'[c] = Append(log[c], note[c])
      BY <1>1, <3>2, <2>1, AppendFits DEF Inv, LogFits
    <3> QED BY <1>2, <3>1, <3>2
  <2>2. \A n : \A d \in Calls : NoteFits(n, d)' <=> NoteFits(n, d)
    BY <1>1 DEF NoteFits
  <2> QED BY <1>1, <1>2, <2>1, <2>2 DEF Inv, TypeOK, LogFits
<1>8. FailuresFit'
  <2>1. Len(log[c]) \in Nat /\ Len(log'[c]) \in {Len(log[c]), Len(log[c]) + 1}
    BY <1>1, <1>2, AppendFits
  <2>2. at' \notin {"entry", "ended"} /\ at' # "gate" /\ (at' = "pool" => error')
    BY <1>1, <1>3
  <2>3. failures \in Nat
    BY DEF Inv, TypeOK
  <2>4. \A d \in Calls : Len(log[d]) \in Nat
    BY LenProperties DEF Inv, TypeOK
  <2>5. \A d \in Calls : Len(log'[d]) <= failures' + (IF phase'[d] = "done" THEN 1 ELSE 0)
    BY <1>1, <1>2, <2>1, <2>3, <2>4 DEF Inv, TypeOK, FailuresFit
  <2>6. \A d \in Calls : phase'[d] = "done" => Len(log'[d]) >= 1
    BY <1>1, <1>2 DEF Inv, TypeOK, FailuresFit
  <2> QED BY <2>2, <2>5, <2>6 DEF FailuresFit
<1> QED BY <1>4, <1>5, <1>6, <1>7, <1>8 DEF Inv

\* Every step of the round keeps the invariant.
LEMMA NextInv == Inv /\ [Next]_vars => Inv'
<1> SUFFICES ASSUME Inv, [Next]_vars PROVE Inv'
  OBVIOUS
<1>1. CASE UNCHANGED vars
  <2> USE <1>1 DEF vars, pool, signals
  <2>1. TypeOK' BY DEF Inv, TypeOK
  <2>2. PhasesFit' /\ RunsFit' BY DEF Inv, PhasesFit, RunsFit
  <2>3. LogFits' BY DEF Inv, LogFits, NoteFits
  <2>4. FailuresFit' BY DEF Inv, FailuresFit
  <2> QED BY <2>1, <2>2, <2>3, <2>4 DEF Inv
<1>2. CASE Enter \/ GateDone \/ PoolDone \/ FillDone \/ Cancel \/ RejectUnknown
  BY <1>2, EnterInv, GateDoneInv, PoolDoneInv, FillDoneInv, CancelInv, RejectUnknownInv
<1>3. ASSUME NEW c \in Calls,
             Gate(c) \/ TakeSkipped(c) \/ TakeAsking(c) \/ TakeFree(c) \/ Approve(c)
               \/ ApprovalTimeout(c) \/ Reject(c) \/ Throw(c) \/ Deny(c) \/ ExecuteApproved(c)
      PROVE  Inv'
  BY <1>3, GateInv, TakeSkippedInv, TakeAskingInv, TakeFreeInv, ApproveInv, ApprovalTimeoutInv,
     RejectInv, ThrowInv, DenyInv, ExecuteApprovedInv
<1>4. ASSUME NEW c \in Calls,
             ToolReturns(c) \/ ToolTimeout(c) \/ GraceEnds(c) \/ Write(c) \/ WriteFails(c) \/ Fill(c)
      PROVE  Inv'
  BY <1>4, ToolReturnsInv, ToolTimeoutInv, GraceEndsInv, WriteInv, WriteFailsInv, FillInv
<1> QED BY <1>1, <1>2, <1>3, <1>4 DEF Next

\* Inv holds in every state of every round.
THEOREM Invariance == Spec => []Inv
<1>1. Init => Inv
  BY InitInv
<1>2. Inv /\ [Next]_vars => Inv'
  BY NextInv
<1> QED BY <1>1, <1>2, PTL DEF Spec

(***************************************************************************)
(* What follows from it                                                    *)
(***************************************************************************)
\* The variables of a round stay within their types, for every number of
\* calls and every width of the pool.
THEOREM TypeCorrect == Spec => []TypeOK
<1>1. Inv => TypeOK
  BY DEF Inv
<1> QED BY <1>1, Invariance, PTL

\* Every call of a round that is over has its result: exactly one if the
\* round ended normally, and no more than the failed writes explain
\* otherwise.
THEOREM CallsAreAnswered == Spec => []EveryCallAnswered
<1>1. Inv => EveryCallAnswered
  <2> SUFFICES ASSUME Inv PROVE EveryCallAnswered
    OBVIOUS
  <2>1. \A c \in Calls : Len(log[c]) \in Nat
    BY LenProperties DEF Inv, TypeOK
  <2>2. ASSUME at = "ended", NEW c \in Calls PROVE Len(log[c]) = 1
    <3>1. phase[c] = "done" /\ failures = 0
      BY <2>2 DEF Inv, PhasesFit, FailuresFit
    <3>2. Len(log[c]) \in Nat /\ failures \in Nat
      BY <2>1 DEF Inv, TypeOK
    <3>3. Len(log[c]) <= failures + 1 /\ Len(log[c]) >= 1
      BY <3>1 DEF Inv, FailuresFit
    <3> DEFINE n == Len(log[c])
    <3>4. n \in Nat /\ n <= failures + 1 /\ n >= 1 /\ failures = 0
      BY <3>1, <3>2, <3>3
    <3> HIDE DEF n
    <3>5. n = 1
      BY <3>4
    <3> QED BY <3>5 DEF n
  <2>3. ASSUME at = "thrown", NEW c \in Calls
        PROVE  /\ Len(log[c]) >= 1 \/ phase[c] = "failed"
               /\ Len(log[c]) <= 1 + failures
    BY <2>1, <2>3 DEF Inv, TypeOK, PhasesFit, FailuresFit
  <2> QED BY <2>2, <2>3 DEF EveryCallAnswered
<1> QED BY <1>1, Invariance, PTL

\* What the history tells the model of a call is what happened to it.
THEOREM HistoryIsTrue == Spec => []NotesAreTrue
<1>1. Inv => NotesAreTrue
  BY DEF Inv, LogFits, NoteFits, NotesAreTrue
<1> QED BY <1>1, Invariance, PTL

\* A step of the round executes a tool only if nothing forbids it.
LEMMA StepIsAllowed ==
  [Next]_vars => [\A c \in started' \ started : ~aborted' /\ (c \in ask => verdict[c] = "approved")]_vars
<1> SUFFICES ASSUME Next, NEW c \in started' \ started
             PROVE  ~aborted' /\ (c \in ask => verdict[c] = "approved")
  OBVIOUS
<1>1. PICK d \in Calls : TakeFree(d) \/ ExecuteApproved(d)
  BY DEF Next, Enter, GateDone, PoolDone, FillDone, Cancel, RejectUnknown, Abort, Gate, TakeSkipped,
     TakeAsking, Approve, ApprovalTimeout, Reject, Throw, Deny, ToolReturns, ToolTimeout, GraceEnds,
     Write, WriteFails, Fill
<1>2. c = d
  BY <1>1 DEF TakeFree, ExecuteApproved, Execute
<1> QED BY <1>1, <1>2 DEF TakeFree, ExecuteApproved, signals

\* No tool is executed after a stop, and none that has to ask without the
\* user's approval.
THEOREM ExecutionsAreAllowed == Spec => ExecutionIsAllowed
<1>1. [Next]_vars =>
        [\A c \in started' \ started :
           /\ ~aborted'
           /\ c \in ask => verdict[c] = "approved"]_vars
  BY StepIsAllowed
<1> QED BY <1>1, PTL DEF Spec, ExecutionIsAllowed

\* Once the round is over, no step changes its part of the history.
LEMMA StepAfterEnd ==
  Inv /\ [Next]_vars => [Over => UNCHANGED <<log, phase>>]_vars
<1> SUFFICES ASSUME Inv, Next, Over PROVE UNCHANGED <<log, phase>>
  OBVIOUS
<1>1. at \in {"ended", "thrown"} /\ \A c \in Calls : phase[c] \in {"done", "failed"}
  BY DEF Inv, PhasesFit, Over
<1>2. CASE Enter \/ GateDone \/ PoolDone \/ FillDone \/ Cancel \/ RejectUnknown
  BY <1>1, <1>2 DEF Enter, GateDone, PoolDone, FillDone, Cancel, RejectUnknown, Over
<1>3. ASSUME NEW c \in Calls,
             Gate(c) \/ TakeSkipped(c) \/ TakeAsking(c) \/ TakeFree(c) \/ Approve(c)
               \/ ApprovalTimeout(c) \/ Reject(c) \/ Throw(c) \/ Deny(c) \/ ExecuteApproved(c)
      PROVE  FALSE
  BY <1>1, <1>3 DEF Gate, TakeSkipped, TakeAsking, TakeFree, Take, Approve, ApprovalTimeout, Reject,
     Throw, Deny, ExecuteApproved
<1>4. ASSUME NEW c \in Calls,
             ToolReturns(c) \/ ToolTimeout(c) \/ GraceEnds(c) \/ Write(c) \/ WriteFails(c) \/ Fill(c)
      PROVE  UNCHANGED <<log, phase>>
  BY <1>1, <1>4 DEF ToolReturns, ToolTimeout, GraceEnds, Write, WriteFails, Fill
<1> QED BY <1>2, <1>3, <1>4 DEF Next

\* A tool that returns after its timeout or its grace period leaves the
\* history of the round as it is.
THEOREM EndIsFinal == Spec => NoLateResult
<1>1. Inv /\ [Next]_vars => [Over => UNCHANGED <<log, phase>>]_vars
  BY StepAfterEnd
<1> QED BY <1>1, Invariance, PTL DEF Spec, NoLateResult
=============================================================================
