------------------------- MODULE InteractionsProofs -------------------------
(***************************************************************************)
(* Theorems about Interactions for every set of questions, every limit and *)
(* any number of runs.  Inv is the inductive invariant.                    *)
(***************************************************************************)
EXTENDS Interactions, FiniteSetTheorems, SequenceTheorems, TLAPS

\* Only waits of the live run are held, and the abort of its controller
\* reaches no wait outside its TaskState.
HeldWaits ==
  /\ \A i \in held : status[i] = "waiting"
  /\ \A i \in child : status[i] = "waiting" => i \in held
  /\ ~live => held = {} /\ child = {} /\ pend = [i \in Ids |-> "none"]

\* A waiter is done exactly when it has its verdict.
DoneHasVerdict ==
  \A i \in Ids : status[i] = "done" <=> verdict[i] # "none"

\* What is queued for an open question was submitted in this run.
PendWasSaid ==
  \A i \in Ids : pend[i] # "none" /\ verdict[i] = "none" => pend[i] \in said[i]

Inv ==
  /\ TypeOK
  /\ HeldWaits
  /\ DoneHasVerdict
  /\ PendWasSaid
  /\ NoDecisionStranded
  /\ TimersMatchWaits
  /\ AbortLeavesNoWaiter
  /\ VerdictWasSaid
  /\ AckMeansDelivered

(***************************************************************************)
(* Sequences of ids                                                        *)
(***************************************************************************)
\* The end of a sequence of ids is a sequence of ids.
LEMMA LastNType ==
  ASSUME NEW s \in Seq(Ids), NEW n \in Nat \ {0}
  PROVE  LastN(s, n) \in Seq(Ids)
<1>1. CASE Len(s) <= n
  BY <1>1 DEF LastN
<1>2. CASE ~(Len(s) <= n)
  <2>1. Len(s) \in Nat /\ Len(s) - n + 1 \in 1..Len(s)+1 /\ Len(s) \in Len(s)-n..Len(s)
    BY <1>2, LenProperties
  <2>2. SubSeq(s, Len(s) - n + 1, Len(s)) \in Seq(Ids)
    BY <2>1, SubSeqProperties
  <2> QED BY <1>2, <2>2 DEF LastN
<1> QED BY <1>1, <1>2

\* markSettled keeps a sequence of ids.
LEMMA MarkAllType ==
  ASSUME NEW s \in Seq(Ids), NEW q \in Seq(Ids)
  PROVE  MarkAll(s, q) \in Seq(Ids)
<1>1. s \o q \in Seq(Ids)
  BY ConcatProperties
<1> QED BY <1>1, LastNType, LimitsAssumption DEF MarkAll

\* Marking an id twice keeps a sequence of ids.
LEMMA MarkTwiceType ==
  ASSUME NEW s \in Seq(Ids), NEW i \in Ids
  PROVE  MarkTwice(s, i) \in Seq(Ids)
<1> DEFINE once == MarkAll(s, <<i>>)
<1>1. <<i>> \in Seq(Ids)
  OBVIOUS
<1>2. once \in Seq(Ids)
  BY <1>1, MarkAllType
<1>3. SettledLimit > 1 /\ Len(once) = SettledLimit => once # << >>
  BY <1>2, LimitsAssumption, EmptySeq
<1>4. SettledLimit > 1 /\ Len(once) = SettledLimit => Tail(once) \in Seq(Ids)
  BY <1>2, <1>3, HeadTailProperties
<1> QED BY <1>2, <1>4 DEF MarkTwice

\* A listener order is a sequence of ids.
LEMMA OrdersType ==
  ASSUME NEW S \in SUBSET Ids, NEW q \in Orders(S)
  PROVE  q \in Seq(Ids)
<1>1. Cardinality(Ids) \in Nat
  BY KindsAssumption, FS_CardinalityType
<1>2. PICK n \in 0..Cardinality(Ids) : q \in [1..n -> S]
  BY DEF Orders
<1>3. n \in Nat /\ q \in [1..n -> Ids]
  BY <1>1, <1>2
<1> QED BY <1>3, IsASeq

(***************************************************************************)
(* The invariant                                                           *)
(***************************************************************************)
\* The invariant holds when the session is new.
LEMMA InitInv == Init => Inv
<1> SUFFICES ASSUME Init PROVE Inv
  OBVIOUS
<1>1. settled \in Seq(Ids)
  BY EmptySeq DEF Init
<1>2. said \in [Ids -> SUBSET Values] /\ acked \subseteq Ids \X Values
  BY DEF Init
<1>3. TypeOK
  BY <1>1, <1>2 DEF Init, TypeOK, Statuses, Verdicts
<1> QED BY <1>3 DEF Init, Inv, HeldWaits, DoneHasVerdict, PendWasSaid, NoDecisionStranded,
           TimersMatchWaits, AbortLeavesNoWaiter, VerdictWasSaid, AckMeansDelivered, Values

\* A new run starts with nothing held and nothing queued.
LEMMA StartRunInv ==
  ASSUME Inv, StartRun
  PROVE  Inv'
<1>1. settled' \in Seq(Ids)
  BY DEF Inv, TypeOK, StartRun, taskVars
<1>3. TypeOK'
  BY <1>1 DEF Inv, TypeOK, Values, Verdicts, Statuses, StartRun, Keep, taskVars
<1>4. HeldWaits' /\ DoneHasVerdict'
  BY DEF Inv, TypeOK, HeldWaits, DoneHasVerdict, TimersMatchWaits, Values, Verdicts, StartRun, Keep, taskVars
<1>5. PendWasSaid' /\ VerdictWasSaid'
  BY DEF Inv, TypeOK, HeldWaits, DoneHasVerdict, PendWasSaid, VerdictWasSaid, Values, StartRun, Keep, taskVars
<1>6. NoDecisionStranded' /\ TimersMatchWaits' /\ AbortLeavesNoWaiter'
  BY DEF Inv, TypeOK, HeldWaits, NoDecisionStranded, TimersMatchWaits, AbortLeavesNoWaiter, StartRun, Keep, taskVars
<1>7. AckMeansDelivered'
  BY DEF Inv, TypeOK, HeldWaits, DoneHasVerdict, AckMeansDelivered, Values, StartRun, Keep, taskVars
<1> QED BY <1>3, <1>4, <1>5, <1>6, <1>7 DEF Inv

\* The end of a run drops its TaskState; no held wait is left behind.
LEMMA FinishRunInv ==
  ASSUME Inv, FinishRun
  PROVE  Inv'
<1>1. settled' \in Seq(Ids)
  BY DEF Inv, TypeOK, FinishRun
<1>3. TypeOK'
  BY <1>1 DEF Inv, TypeOK, Values, Verdicts, Statuses, FinishRun, taskVars
<1>4. HeldWaits' /\ DoneHasVerdict'
  BY DEF Inv, TypeOK, HeldWaits, DoneHasVerdict, TimersMatchWaits, Values, Verdicts, FinishRun, taskVars
<1>5. PendWasSaid' /\ VerdictWasSaid'
  BY DEF Inv, TypeOK, HeldWaits, DoneHasVerdict, PendWasSaid, VerdictWasSaid, Values, FinishRun, taskVars
<1>6. NoDecisionStranded' /\ TimersMatchWaits' /\ AbortLeavesNoWaiter'
  BY DEF Inv, TypeOK, HeldWaits, NoDecisionStranded, TimersMatchWaits, AbortLeavesNoWaiter, FinishRun, taskVars
<1>7. AckMeansDelivered'
  BY DEF Inv, TypeOK, HeldWaits, DoneHasVerdict, AckMeansDelivered, Values, FinishRun, taskVars
<1> QED BY <1>3, <1>4, <1>5, <1>6, <1>7 DEF Inv

\* A run that could not be prepared drops its TaskState too.
LEMMA FailRunInv ==
  ASSUME Inv, FailRun
  PROVE  Inv'
<1>1. settled' \in Seq(Ids)
  BY DEF Inv, TypeOK, FailRun
<1>3. TypeOK'
  BY <1>1 DEF Inv, TypeOK, Values, Verdicts, Statuses, FailRun, taskVars
<1>4. HeldWaits' /\ DoneHasVerdict'
  BY DEF Inv, TypeOK, HeldWaits, DoneHasVerdict, TimersMatchWaits, Values, Verdicts, FailRun, taskVars
<1>5. PendWasSaid' /\ VerdictWasSaid'
  BY DEF Inv, TypeOK, HeldWaits, DoneHasVerdict, PendWasSaid, VerdictWasSaid, Values, FailRun, taskVars
<1>6. NoDecisionStranded' /\ TimersMatchWaits' /\ AbortLeavesNoWaiter'
  BY DEF Inv, TypeOK, HeldWaits, NoDecisionStranded, TimersMatchWaits, AbortLeavesNoWaiter, FailRun, taskVars
<1>7. AckMeansDelivered'
  BY DEF Inv, TypeOK, HeldWaits, DoneHasVerdict, AckMeansDelivered, Values, FailRun, taskVars
<1> QED BY <1>3, <1>4, <1>5, <1>6, <1>7 DEF Inv

\* cancel gives up every wait the task holds.
LEMMA CancelInv ==
  ASSUME Inv, Cancel
  PROVE  Inv'
<1>1. settled' \in Seq(Ids)
  BY MarkAllType, OrdersType DEF Inv, TypeOK, Cancel
<1>3. TypeOK'
  BY <1>1 DEF Inv, TypeOK, Values, Verdicts, Statuses, Cancel, Resolve, taskVars
<1>4. HeldWaits' /\ DoneHasVerdict'
  BY DEF Inv, TypeOK, HeldWaits, DoneHasVerdict, TimersMatchWaits, Values, Verdicts, Cancel, Resolve, taskVars
<1>5. PendWasSaid' /\ VerdictWasSaid'
  BY DEF Inv, TypeOK, HeldWaits, DoneHasVerdict, PendWasSaid, VerdictWasSaid, Values, Cancel, Resolve, taskVars
<1>6. NoDecisionStranded' /\ TimersMatchWaits' /\ AbortLeavesNoWaiter'
  BY DEF Inv, TypeOK, HeldWaits, NoDecisionStranded, TimersMatchWaits, AbortLeavesNoWaiter, Cancel, Resolve, taskVars
<1>7. AckMeansDelivered'
  BY DEF Inv, TypeOK, HeldWaits, DoneHasVerdict, AckMeansDelivered, Values, Cancel, Resolve, taskVars
<1> QED BY <1>3, <1>4, <1>5, <1>6, <1>7 DEF Inv

\* A spawned sub-session waits for nothing yet.
LEMMA SpawnInv ==
  ASSUME Inv, NEW i \in Ids, Spawn(i)
  PROVE  Inv'
<1>1. settled' \in Seq(Ids)
  BY DEF Inv, TypeOK, Spawn, taskVars
<1>3. TypeOK'
  BY <1>1 DEF Inv, TypeOK, Values, Verdicts, Statuses, Spawn, taskVars
<1>4. HeldWaits' /\ DoneHasVerdict'
  BY DEF Inv, TypeOK, HeldWaits, DoneHasVerdict, TimersMatchWaits, Values, Verdicts, Spawn, taskVars
<1>5. PendWasSaid' /\ VerdictWasSaid'
  BY DEF Inv, TypeOK, HeldWaits, DoneHasVerdict, PendWasSaid, VerdictWasSaid, Values, Spawn, taskVars
<1>6. NoDecisionStranded' /\ TimersMatchWaits' /\ AbortLeavesNoWaiter'
  BY DEF Inv, TypeOK, HeldWaits, NoDecisionStranded, TimersMatchWaits, AbortLeavesNoWaiter, Spawn, taskVars
<1>7. AckMeansDelivered'
  BY DEF Inv, TypeOK, HeldWaits, DoneHasVerdict, AckMeansDelivered, Values, Spawn, taskVars
<1> QED BY <1>3, <1>4, <1>5, <1>6, <1>7 DEF Inv

\* A question asked by the main loop has no wait yet.
LEMMA AskMainInv ==
  ASSUME Inv, NEW i \in Ids, AskMain(i)
  PROVE  Inv'
<1>1. settled' \in Seq(Ids)
  BY DEF Inv, TypeOK, AskMain, taskVars
<1>3. TypeOK'
  BY <1>1 DEF Inv, TypeOK, Values, Verdicts, Statuses, AskMain, taskVars
<1>4. HeldWaits' /\ DoneHasVerdict'
  BY DEF Inv, TypeOK, HeldWaits, DoneHasVerdict, TimersMatchWaits, Values, Verdicts, AskMain, taskVars
<1>5. PendWasSaid' /\ VerdictWasSaid'
  BY DEF Inv, TypeOK, HeldWaits, DoneHasVerdict, PendWasSaid, VerdictWasSaid, Values, AskMain, taskVars
<1>6. NoDecisionStranded' /\ TimersMatchWaits' /\ AbortLeavesNoWaiter'
  BY DEF Inv, TypeOK, HeldWaits, NoDecisionStranded, TimersMatchWaits, AbortLeavesNoWaiter, AskMain, taskVars
<1>7. AckMeansDelivered'
  BY DEF Inv, TypeOK, HeldWaits, DoneHasVerdict, AckMeansDelivered, Values, AskMain, taskVars
<1> QED BY <1>3, <1>4, <1>5, <1>6, <1>7 DEF Inv

\* A question asked by a sub-session has no wait yet.
LEMMA AskBackgroundInv ==
  ASSUME Inv, NEW i \in Ids, AskBackground(i)
  PROVE  Inv'
<1>1. settled' \in Seq(Ids)
  BY DEF Inv, TypeOK, AskBackground, taskVars
<1>3. TypeOK'
  BY <1>1 DEF Inv, TypeOK, Values, Verdicts, Statuses, AskBackground, taskVars
<1>4. HeldWaits' /\ DoneHasVerdict'
  BY DEF Inv, TypeOK, HeldWaits, DoneHasVerdict, TimersMatchWaits, Values, Verdicts, AskBackground, taskVars
<1>5. PendWasSaid' /\ VerdictWasSaid'
  BY DEF Inv, TypeOK, HeldWaits, DoneHasVerdict, PendWasSaid, VerdictWasSaid, Values, AskBackground, taskVars
<1>6. NoDecisionStranded' /\ TimersMatchWaits' /\ AbortLeavesNoWaiter'
  BY DEF Inv, TypeOK, HeldWaits, NoDecisionStranded, TimersMatchWaits, AbortLeavesNoWaiter, AskBackground, taskVars
<1>7. AckMeansDelivered'
  BY DEF Inv, TypeOK, HeldWaits, DoneHasVerdict, AckMeansDelivered, Values, AskBackground, taskVars
<1> QED BY <1>3, <1>4, <1>5, <1>6, <1>7 DEF Inv

\* Without a task the wait is over at once.
LEMMA RegisterNoTaskInv ==
  ASSUME Inv, NEW i \in Ids, RegisterNoTask(i)
  PROVE  Inv'
<1>1. settled' \in Seq(Ids)
  BY DEF Inv, TypeOK, RegisterNoTask, taskVars
<1>3. TypeOK'
  BY <1>1 DEF Inv, TypeOK, Values, Verdicts, Statuses, RegisterNoTask, Resolve, taskVars
<1>4. HeldWaits' /\ DoneHasVerdict'
  BY DEF Inv, TypeOK, HeldWaits, DoneHasVerdict, TimersMatchWaits, Values, Verdicts, RegisterNoTask, Resolve, taskVars
<1>5. PendWasSaid' /\ VerdictWasSaid'
  BY DEF Inv, TypeOK, HeldWaits, DoneHasVerdict, PendWasSaid, VerdictWasSaid, Values, RegisterNoTask, Resolve, taskVars
<1>6. NoDecisionStranded' /\ TimersMatchWaits' /\ AbortLeavesNoWaiter'
  BY DEF Inv, TypeOK, HeldWaits, NoDecisionStranded, TimersMatchWaits, AbortLeavesNoWaiter, RegisterNoTask, Resolve, taskVars
<1>7. AckMeansDelivered'
  BY DEF Inv, TypeOK, HeldWaits, DoneHasVerdict, AckMeansDelivered, Values, RegisterNoTask, Resolve, taskVars
<1> QED BY <1>3, <1>4, <1>5, <1>6, <1>7 DEF Inv

\* A queued decision is the one its waiter is given.
LEMMA RegisterEarlyInv ==
  ASSUME Inv, NEW i \in Ids, RegisterEarly(i)
  PROVE  Inv'
<1>1. settled' \in Seq(Ids)
  BY MarkAllType, <<i>> \in Seq(Ids) DEF Inv, TypeOK, RegisterEarly
<1>3. TypeOK'
  BY <1>1 DEF Inv, TypeOK, Values, Verdicts, Statuses, RegisterEarly, Resolve, taskVars
<1>4. HeldWaits' /\ DoneHasVerdict'
  BY DEF Inv, TypeOK, HeldWaits, DoneHasVerdict, TimersMatchWaits, Values, Verdicts, RegisterEarly, Resolve, taskVars
<1>5. PendWasSaid' /\ VerdictWasSaid'
  BY DEF Inv, TypeOK, HeldWaits, DoneHasVerdict, PendWasSaid, VerdictWasSaid, Values, RegisterEarly, Resolve, taskVars
<1>6. NoDecisionStranded' /\ TimersMatchWaits' /\ AbortLeavesNoWaiter'
  BY DEF Inv, TypeOK, HeldWaits, NoDecisionStranded, TimersMatchWaits, AbortLeavesNoWaiter, RegisterEarly, Resolve, taskVars
<1>7. AckMeansDelivered'
  BY DEF Inv, TypeOK, HeldWaits, DoneHasVerdict, AckMeansDelivered, Values, RegisterEarly, Resolve, taskVars
<1> QED BY <1>3, <1>4, <1>5, <1>6, <1>7 DEF Inv

\* A fired signal ends the wait before it is held.
LEMMA RegisterAbortedInv ==
  ASSUME Inv, NEW i \in Ids, RegisterAborted(i)
  PROVE  Inv'
<1>1. settled' \in Seq(Ids)
  BY DEF Inv, TypeOK, RegisterAborted, taskVars
<1>3. TypeOK'
  BY <1>1 DEF Inv, TypeOK, Values, Verdicts, Statuses, RegisterAborted, Resolve, taskVars
<1>4. HeldWaits' /\ DoneHasVerdict'
  BY DEF Inv, TypeOK, HeldWaits, DoneHasVerdict, TimersMatchWaits, Values, Verdicts, RegisterAborted, Resolve, taskVars
<1>5. PendWasSaid' /\ VerdictWasSaid'
  BY DEF Inv, TypeOK, HeldWaits, DoneHasVerdict, PendWasSaid, VerdictWasSaid, Values, RegisterAborted, Resolve, taskVars
<1>6. NoDecisionStranded' /\ TimersMatchWaits' /\ AbortLeavesNoWaiter'
  BY DEF Inv, TypeOK, HeldWaits, NoDecisionStranded, TimersMatchWaits, AbortLeavesNoWaiter, RegisterAborted, Resolve, taskVars
<1>7. AckMeansDelivered'
  BY DEF Inv, TypeOK, HeldWaits, DoneHasVerdict, AckMeansDelivered, Values, RegisterAborted, Resolve, taskVars
<1> QED BY <1>3, <1>4, <1>5, <1>6, <1>7 DEF Inv

\* A registered wait is held and timed, and nothing is queued for it.
LEMMA RegisterWaitInv ==
  ASSUME Inv, NEW i \in Ids, RegisterWait(i)
  PROVE  Inv'
<1>1. settled' \in Seq(Ids)
  BY DEF Inv, TypeOK, RegisterWait, taskVars
<1>3. TypeOK'
  BY <1>1 DEF Inv, TypeOK, Values, Verdicts, Statuses, RegisterWait, taskVars
<1>4. HeldWaits' /\ DoneHasVerdict'
  BY DEF Inv, TypeOK, HeldWaits, DoneHasVerdict, TimersMatchWaits, Values, Verdicts, RegisterWait, taskVars
<1>5. PendWasSaid' /\ VerdictWasSaid'
  BY DEF Inv, TypeOK, HeldWaits, DoneHasVerdict, PendWasSaid, VerdictWasSaid, Values, RegisterWait, taskVars
<1>6. NoDecisionStranded' /\ TimersMatchWaits' /\ AbortLeavesNoWaiter'
  BY DEF Inv, TypeOK, HeldWaits, NoDecisionStranded, TimersMatchWaits, AbortLeavesNoWaiter, RegisterWait, taskVars
<1>7. AckMeansDelivered'
  BY DEF Inv, TypeOK, HeldWaits, DoneHasVerdict, AckMeansDelivered, Values, RegisterWait, taskVars
<1> QED BY <1>3, <1>4, <1>5, <1>6, <1>7 DEF Inv

\* A timer only ends the wait it belongs to.
LEMMA TimeoutInv ==
  ASSUME Inv, NEW i \in Ids, Timeout(i)
  PROVE  Inv'
<1>1. settled' \in Seq(Ids)
  BY MarkAllType, <<i>> \in Seq(Ids) DEF Inv, TypeOK, Timeout
<1>3. TypeOK'
  BY <1>1 DEF Inv, TypeOK, Values, Verdicts, Statuses, Timeout, Resolve, taskVars
<1>4. HeldWaits' /\ DoneHasVerdict'
  BY DEF Inv, TypeOK, HeldWaits, DoneHasVerdict, TimersMatchWaits, Values, Verdicts, Timeout, Resolve, taskVars
<1>5. PendWasSaid' /\ VerdictWasSaid'
  BY DEF Inv, TypeOK, HeldWaits, DoneHasVerdict, PendWasSaid, VerdictWasSaid, Values, Timeout, Resolve, taskVars
<1>6. NoDecisionStranded' /\ TimersMatchWaits' /\ AbortLeavesNoWaiter'
  BY DEF Inv, TypeOK, HeldWaits, NoDecisionStranded, TimersMatchWaits, AbortLeavesNoWaiter, Timeout, Resolve, taskVars
<1>7. AckMeansDelivered'
  BY DEF Inv, TypeOK, HeldWaits, DoneHasVerdict, AckMeansDelivered, Values, Timeout, Resolve, taskVars
<1> QED BY <1>3, <1>4, <1>5, <1>6, <1>7 DEF Inv

\* Stopping a sub-session ends its own wait only.
LEMMA StopBackgroundInv ==
  ASSUME Inv, NEW i \in Ids, StopBackground(i)
  PROVE  Inv'
<1>1. settled' \in Seq(Ids)
  BY MarkAllType, <<i>> \in Seq(Ids) DEF Inv, TypeOK, StopBackground
<1>3. TypeOK'
  BY <1>1 DEF Inv, TypeOK, Values, Verdicts, Statuses, StopBackground, Resolve, Keep, taskVars
<1>4. HeldWaits' /\ DoneHasVerdict'
  BY DEF Inv, TypeOK, HeldWaits, DoneHasVerdict, TimersMatchWaits, Values, Verdicts, StopBackground, Resolve, Keep, taskVars
<1>5. PendWasSaid' /\ VerdictWasSaid'
  BY DEF Inv, TypeOK, HeldWaits, DoneHasVerdict, PendWasSaid, VerdictWasSaid, Values, StopBackground, Resolve, Keep, taskVars
<1>6. NoDecisionStranded' /\ TimersMatchWaits' /\ AbortLeavesNoWaiter'
  BY DEF Inv, TypeOK, HeldWaits, NoDecisionStranded, TimersMatchWaits, AbortLeavesNoWaiter, StopBackground, Resolve, Keep, taskVars
<1>7. AckMeansDelivered'
  BY DEF Inv, TypeOK, HeldWaits, DoneHasVerdict, AckMeansDelivered, Values, StopBackground, Resolve, Keep, taskVars
<1> QED BY <1>3, <1>4, <1>5, <1>6, <1>7 DEF Inv

\* A decision on a held wait resolves it, and a rejection the other ones.
LEMMA DecideHeldInv ==
  ASSUME Inv, NEW i \in Ids, NEW v \in Values, DecideHeld(i, v)
  PROVE  Inv'
<1>1. Collateral(i, v) \in SUBSET Ids
  BY DEF Inv, TypeOK, Collateral, Abortable
<1>2. settled' \in Seq(Ids)
  BY <1>1, MarkAllType, MarkTwiceType, OrdersType DEF Inv, TypeOK, DecideHeld
<1>3. TypeOK'
  BY <1>2 DEF Inv, TypeOK, Values, Verdicts, Statuses, DecideHeld, Resolve, StopsRun, Collateral, Rejects, Abortable, taskVars
<1>4. HeldWaits' /\ DoneHasVerdict'
  BY DEF Inv, TypeOK, HeldWaits, DoneHasVerdict, TimersMatchWaits, Values, Verdicts, DecideHeld, Resolve, StopsRun, Collateral, Rejects, Abortable, taskVars
<1>5. PendWasSaid' /\ VerdictWasSaid'
  BY DEF Inv, TypeOK, HeldWaits, DoneHasVerdict, PendWasSaid, VerdictWasSaid, Values, DecideHeld, Resolve, StopsRun, Collateral, Rejects, Abortable, taskVars
<1>6. NoDecisionStranded' /\ TimersMatchWaits' /\ AbortLeavesNoWaiter'
  BY DEF Inv, TypeOK, HeldWaits, NoDecisionStranded, TimersMatchWaits, AbortLeavesNoWaiter, DecideHeld, Resolve, StopsRun, Collateral, Rejects, Abortable, taskVars
<1>7. AckMeansDelivered'
  BY DEF Inv, TypeOK, HeldWaits, DoneHasVerdict, AckMeansDelivered, Values, DecideHeld, Resolve, StopsRun, Collateral, Rejects, Abortable, taskVars
<1> QED BY <1>3, <1>4, <1>5, <1>6, <1>7 DEF Inv

\* An expired decision changes nothing.
LEMMA DecideExpiredInv ==
  ASSUME Inv, NEW i \in Ids, NEW v \in Values, DecideExpired(i, v)
  PROVE  Inv'
<1>1. settled' \in Seq(Ids)
  BY DEF Inv, TypeOK, DecideExpired, taskVars
<1>3. TypeOK'
  BY <1>1 DEF Inv, TypeOK, Values, Verdicts, Statuses, DecideExpired, Keep, taskVars
<1>4. HeldWaits' /\ DoneHasVerdict'
  BY DEF Inv, TypeOK, HeldWaits, DoneHasVerdict, TimersMatchWaits, Values, Verdicts, DecideExpired, Keep, taskVars
<1>5. PendWasSaid' /\ VerdictWasSaid'
  BY DEF Inv, TypeOK, HeldWaits, DoneHasVerdict, PendWasSaid, VerdictWasSaid, Values, DecideExpired, Keep, taskVars
<1>6. NoDecisionStranded' /\ TimersMatchWaits' /\ AbortLeavesNoWaiter'
  BY DEF Inv, TypeOK, HeldWaits, NoDecisionStranded, TimersMatchWaits, AbortLeavesNoWaiter, DecideExpired, Keep, taskVars
<1>7. AckMeansDelivered'
  BY DEF Inv, TypeOK, HeldWaits, DoneHasVerdict, AckMeansDelivered, Values, DecideExpired, Keep, taskVars
<1> QED BY <1>3, <1>4, <1>5, <1>6, <1>7 DEF Inv

\* A queued decision is never one for a held wait.
LEMMA DecideQueuedInv ==
  ASSUME Inv, NEW i \in Ids, NEW v \in Values, DecideQueued(i, v)
  PROVE  Inv'
<1>1. Collateral(i, v) \in SUBSET Ids
  BY DEF Inv, TypeOK, Collateral, Abortable
<1>2. settled' \in Seq(Ids)
  BY <1>1, MarkAllType, OrdersType DEF Inv, TypeOK, DecideQueued
<1>3. TypeOK'
  BY <1>2 DEF Inv, TypeOK, Values, Verdicts, Statuses, DecideQueued, Resolve, StopsRun, Collateral, Rejects, Abortable, taskVars
<1>4. HeldWaits' /\ DoneHasVerdict'
  BY DEF Inv, TypeOK, HeldWaits, DoneHasVerdict, TimersMatchWaits, Values, Verdicts, DecideQueued, Resolve, StopsRun, Collateral, Rejects, Abortable, taskVars
<1>5. PendWasSaid' /\ VerdictWasSaid'
  BY DEF Inv, TypeOK, HeldWaits, DoneHasVerdict, PendWasSaid, VerdictWasSaid, Values, DecideQueued, Resolve, StopsRun, Collateral, Rejects, Abortable, taskVars
<1>6. NoDecisionStranded' /\ TimersMatchWaits' /\ AbortLeavesNoWaiter'
  BY DEF Inv, TypeOK, HeldWaits, NoDecisionStranded, TimersMatchWaits, AbortLeavesNoWaiter, DecideQueued, Resolve, StopsRun, Collateral, Rejects, Abortable, taskVars
<1>7. AckMeansDelivered'
  BY DEF Inv, TypeOK, HeldWaits, DoneHasVerdict, AckMeansDelivered, Values, DecideQueued, Resolve, StopsRun, Collateral, Rejects, Abortable, taskVars
<1> QED BY <1>3, <1>4, <1>5, <1>6, <1>7 DEF Inv

\* A step that leaves the hub alone keeps the invariant.
LEMMA StutterInv == Inv /\ UNCHANGED vars => Inv'
  BY DEF vars, Inv, TypeOK, HeldWaits, DoneHasVerdict, PendWasSaid, NoDecisionStranded,
         TimersMatchWaits, AbortLeavesNoWaiter, VerdictWasSaid, AckMeansDelivered

\* Every step keeps the invariant: one case per action.
LEMMA NextInv == Inv /\ [Next]_vars => Inv'
<1> SUFFICES ASSUME Inv, [Next]_vars PROVE Inv'
  OBVIOUS
<1>1. CASE UNCHANGED vars
  BY <1>1, StutterInv
<1>2. CASE StartRun \/ FinishRun \/ FailRun \/ Cancel
  BY <1>2, StartRunInv, FinishRunInv, FailRunInv, CancelInv
<1>3. ASSUME NEW i \in Ids,
             \/ Spawn(i) \/ AskMain(i) \/ AskBackground(i)
             \/ RegisterNoTask(i) \/ RegisterEarly(i) \/ RegisterAborted(i) \/ RegisterWait(i)
             \/ Timeout(i) \/ StopBackground(i)
      PROVE  Inv'
  BY <1>3, SpawnInv, AskMainInv, AskBackgroundInv, RegisterNoTaskInv, RegisterEarlyInv,
     RegisterAbortedInv, RegisterWaitInv, TimeoutInv, StopBackgroundInv
<1>4. ASSUME NEW i \in Ids, NEW v \in Values,
             DecideHeld(i, v) \/ DecideExpired(i, v) \/ DecideQueued(i, v)
      PROVE  Inv'
  BY <1>4, DecideHeldInv, DecideExpiredInv, DecideQueuedInv
<1> QED BY <1>1, <1>2, <1>3, <1>4 DEF Next

\* Inv holds in every state the hub can reach.
THEOREM Invariance == Spec => []Inv
<1>1. Init => Inv
  BY InitInv
<1>2. Inv /\ [Next]_vars => Inv'
  BY NextInv
<1> QED BY <1>1, <1>2, PTL DEF Spec

(***************************************************************************)
(* The properties of the runs                                              *)
(***************************************************************************)
\* The state of the hub keeps its type.
THEOREM TypeCorrect == Spec => []TypeOK
<1>1. Inv => TypeOK
  BY DEF Inv
<1> QED BY <1>1, Invariance, PTL

\* No decision is stranded in the queue, and every wait of a live task has
\* its timer.
THEOREM WaitsAreSound == Spec => [](NoDecisionStranded /\ TimersMatchWaits)
<1>1. Inv => NoDecisionStranded /\ TimersMatchWaits
  BY DEF Inv
<1> QED BY <1>1, Invariance, PTL

\* No wait survives the abort of its run, also when the wait is registered
\* only after the abort (interactions.ts, register).
THEOREM AbortsEndWaits == Spec => []AbortLeavesNoWaiter
<1>1. Inv => AbortLeavesNoWaiter
  BY DEF Inv
<1> QED BY <1>1, Invariance, PTL

\* A waiter only receives what the user submitted for its question, and an
\* acknowledged answer is the one that was received.
THEOREM AnswersAreTheUsers == Spec => [](VerdictWasSaid /\ AckMeansDelivered)
<1>1. Inv => VerdictWasSaid /\ AckMeansDelivered
  BY DEF Inv
<1> QED BY <1>1, Invariance, PTL

(***************************************************************************)
(* The hub implements the one-shot promise                                 *)
(***************************************************************************)
\* Giving up a set of waits is the promise's GiveUp.
LEMMA ResolveGivesUp ==
  ASSUME Inv, NEW S \in SUBSET Ids,
         \A i \in S : verdict[i] = "none",
         Resolve([i \in S |-> "timeout"]), UNCHANGED <<said, acked>>
  PROVE  Promise!GiveUp
<1>1. verdict' = [j \in Ids |-> IF Promise!GivenUp(S, j) THEN "timeout" ELSE verdict[j]]
  BY DEF Resolve, Promise!GivenUp
<1> QED BY <1>1 DEF Promise!GiveUp

\* Only open questions have a waiter.
LEMMA OpenHasNoVerdict ==
  ASSUME Inv, NEW i \in Ids, status[i] # "done"
  PROVE  verdict[i] = "none"
  BY DEF Inv, DoneHasVerdict

\* A start forgets, and a cancel gives up what the task held.
LEMMA RunRefines ==
  ASSUME Inv, StartRun \/ FinishRun \/ FailRun \/ Cancel
  PROVE  [Promise!OneShotNext]_(Promise!oneShotVars)
<1>1. CASE StartRun
  BY <1>1 DEF StartRun, Keep, Promise!OneShotNext, Promise!Forget
<1>2. CASE FinishRun \/ FailRun
  BY <1>2 DEF FinishRun, FailRun, Promise!oneShotVars
<1>3. CASE Cancel
  <2>1. held \in SUBSET Ids /\ \A i \in held : verdict[i] = "none"
    BY DEF Inv, TypeOK, HeldWaits, DoneHasVerdict
  <2>2. Resolve([i \in held |-> "timeout"]) /\ UNCHANGED <<said, acked>>
    BY <1>3 DEF Cancel
  <2> QED BY <2>1, <2>2, ResolveGivesUp DEF Promise!OneShotNext
<1> QED BY <1>1, <1>2, <1>3

\* What a waiter does is invisible, takes an early answer, or gives up.
LEMMA WaiterRefines ==
  ASSUME Inv, NEW i \in Ids,
         \/ Spawn(i) \/ AskMain(i) \/ AskBackground(i)
         \/ RegisterNoTask(i) \/ RegisterEarly(i) \/ RegisterAborted(i) \/ RegisterWait(i)
         \/ Timeout(i) \/ StopBackground(i)
  PROVE  [Promise!OneShotNext]_(Promise!oneShotVars)
<1>1. CASE Spawn(i) \/ AskMain(i) \/ AskBackground(i) \/ RegisterWait(i)
  BY <1>1 DEF Spawn, AskMain, AskBackground, RegisterWait, Promise!oneShotVars
<1>2. CASE RegisterEarly(i)
  <2>1. verdict[i] = "none"
    BY <1>2, OpenHasNoVerdict DEF RegisterEarly
  <2>2. pend[i] \in said[i]
    BY <1>2, <2>1 DEF RegisterEarly, Inv, PendWasSaid
  <2>3. verdict' = [verdict EXCEPT ![i] = pend[i]]
    BY <1>2 DEF RegisterEarly, Resolve, Inv, TypeOK
  <2>4. UNCHANGED <<said, acked>>
    BY <1>2 DEF RegisterEarly
  <2>5. Promise!TakeEarly(i)
    BY <2>1, <2>2, <2>3, <2>4 DEF Promise!TakeEarly
  <2> QED BY <2>5 DEF Promise!OneShotNext
<1>3. CASE StopBackground(i) /\ status[i] = "spawned"
  BY <1>3 DEF StopBackground, Keep, Promise!oneShotVars
<1>4. CASE \/ RegisterNoTask(i) \/ RegisterAborted(i) \/ Timeout(i)
           \/ StopBackground(i) /\ status[i] = "waiting"
  <2>1. verdict[i] = "none"
    BY <1>4, OpenHasNoVerdict DEF RegisterNoTask, RegisterAborted, Timeout
  <2>2. Resolve([j \in {i} |-> "timeout"]) /\ UNCHANGED <<said, acked>>
    BY <1>4 DEF RegisterNoTask, RegisterAborted, Timeout, StopBackground
  <2>3. Promise!GiveUp
    BY <2>1, <2>2, ResolveGivesUp
  <2> QED BY <2>3 DEF Promise!OneShotNext
<1>5. StopBackground(i) => status[i] = "spawned" \/ status[i] = "waiting"
  BY DEF StopBackground
<1> QED BY <1>1, <1>2, <1>3, <1>4, <1>5

\* The waits a rejection resolves are open, and exclude the one decided.
LEMMA CollateralOpen ==
  ASSUME Inv, NEW i \in Ids, NEW v \in Values
  PROVE  /\ Collateral(i, v) \in SUBSET (Ids \ {i})
         /\ \A j \in Collateral(i, v) : verdict[j] = "none"
  BY DEF Inv, TypeOK, DoneHasVerdict, Collateral, Abortable

\* A decision answers its question, or changes nothing.
LEMMA DecisionRefines ==
  ASSUME Inv, NEW i \in Ids, NEW v \in Values,
         DecideHeld(i, v) \/ DecideExpired(i, v) \/ DecideQueued(i, v)
  PROVE  [Promise!OneShotNext]_(Promise!oneShotVars)
<1> DEFINE S == Collateral(i, v)
<1>0. S \in SUBSET (Ids \ {i}) /\ \A j \in S : verdict[j] = "none"
  BY CollateralOpen
<1>a. v \in Promise!Values
  BY DEF Values, Promise!Values
<1>1. CASE DecideHeld(i, v)
  <2>1. verdict[i] = "none"
    BY <1>1 DEF DecideHeld, Inv, HeldWaits, DoneHasVerdict
  <2>2. verdict' = [j \in Ids |-> IF j = i THEN v
                                  ELSE IF Promise!GivenUp(S, j) THEN "timeout" ELSE verdict[j]]
    BY <1>0, <1>1 DEF DecideHeld, Resolve, Promise!GivenUp
  <2>3. said' = [said EXCEPT ![i] = @ \union {v}] /\ acked' = acked \union {<<i, v>>}
    BY <1>1 DEF DecideHeld
  <2>4. Promise!Answer(i, v)
    BY <1>0, <2>1, <2>2, <2>3 DEF Promise!Answer
  <2> QED BY <1>a, <2>4 DEF Promise!OneShotNext
<1>2. CASE DecideExpired(i, v)
  BY <1>2 DEF DecideExpired, Keep, Promise!oneShotVars
<1>3. CASE DecideQueued(i, v)
  <2>1. Resolve([j \in S |-> "timeout"]) /\ UNCHANGED acked
    BY <1>3 DEF DecideQueued
  <2>2. CASE status[i] = "done"
    <3>1. UNCHANGED <<said, acked>> /\ S \in SUBSET Ids
      BY <1>0, <1>3, <2>2 DEF DecideQueued
    <3>2. Promise!GiveUp
      BY <1>0, <2>1, <3>1, ResolveGivesUp
    <3> QED BY <3>2 DEF Promise!OneShotNext
  <2>3. CASE status[i] # "done"
    <3>1. said' = [said EXCEPT ![i] = @ \union {v}]
      BY <1>3, <2>3 DEF DecideQueued
    <3>2. verdict' = [j \in Ids |-> IF Promise!GivenUp(S, j) THEN "timeout" ELSE verdict[j]]
      BY <1>0, <2>1 DEF Resolve, Promise!GivenUp
    <3>3. Promise!Answer(i, v)
      BY <1>0, <2>1, <3>1, <3>2 DEF Promise!Answer
    <3> QED BY <1>a, <3>3 DEF Promise!OneShotNext
  <2> QED BY <2>2, <2>3
<1> QED BY <1>1, <1>2, <1>3

\* Every step of the hub is a step of the promise, or invisible to it.
LEMMA StepRefines == Inv /\ [Next]_vars => [Promise!OneShotNext]_(Promise!oneShotVars)
<1> SUFFICES ASSUME Inv, [Next]_vars PROVE [Promise!OneShotNext]_(Promise!oneShotVars)
  OBVIOUS
<1>1. CASE UNCHANGED vars
  BY <1>1 DEF vars, Promise!oneShotVars
<1>2. CASE StartRun \/ FinishRun \/ FailRun \/ Cancel
  BY <1>2, RunRefines
<1>3. ASSUME NEW i \in Ids,
             \/ Spawn(i) \/ AskMain(i) \/ AskBackground(i)
             \/ RegisterNoTask(i) \/ RegisterEarly(i) \/ RegisterAborted(i) \/ RegisterWait(i)
             \/ Timeout(i) \/ StopBackground(i)
      PROVE  [Promise!OneShotNext]_(Promise!oneShotVars)
  BY <1>3, WaiterRefines
<1>4. ASSUME NEW i \in Ids, NEW v \in Values,
             DecideHeld(i, v) \/ DecideExpired(i, v) \/ DecideQueued(i, v)
      PROVE  [Promise!OneShotNext]_(Promise!oneShotVars)
  BY <1>4, DecisionRefines
<1> QED BY <1>1, <1>2, <1>3, <1>4 DEF Next

\* Every behaviour of the hub is one of the one-shot promise.
THEOREM HubKeepsPromise == Spec => OneShotHolds
<1>1. Init => Promise!OneShotInit
  BY DEF Init, Promise!OneShotInit
<1> QED BY <1>1, StepRefines, Invariance, PTL DEF Spec, OneShotHolds, Promise!OneShotSpec
=============================================================================
