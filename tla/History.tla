------------------------------ MODULE History ------------------------------
(***************************************************************************)
(* The message history of one session (core/session/store.ts,              *)
(* core/engine/compressor.ts, loadHistory of core/engine/engine.ts): what  *)
(* is appended by whom, how it is repaired when it is read back, trimmed   *)
(* when it is long, replaced by a summary when the context is full and cut *)
(* when the user takes a message back.                                     *)
(*                                                                         *)
(* A message is its role and its identity; of its content the model keeps  *)
(* what other messages refer to: the calls of an assistant message, and    *)
(* the messages a summary was written from.                                *)
(***************************************************************************)
EXTENDS Naturals, SequencesExt

CONSTANTS
  MaxMessages,  \* MAX_CACHE_MESSAGES (2000)
  LowWater,     \* TRIM_LOW_WATER_MESSAGES (1800)
  Window,       \* COMPACT_WINDOW_MESSAGES (12)
  MaxCalls,     \* bound of the model: calls in one assistant message
  MaxIds,       \* bound of the model: messages ever written
  MaxLoads,     \* bound of the model: loads from the disk
  MaxSummaries  \* bound of the model: compactions ever started

ASSUME HistoryAssumption ==
  /\ MaxMessages \in Nat \ {0} /\ LowWater \in 0..MaxMessages
  /\ Window \in Nat \ {0}
  /\ MaxCalls \in Nat \ {0}
  /\ MaxIds \in Nat /\ MaxLoads \in Nat /\ MaxSummaries \in Nat

Ids == 1..MaxIds

\* "prompt" is the system prompt of a loaded agent, "report" the user message
\* with the archive of a sub-session, "stub" a placeholder for a result.
Roles == {"user", "report", "prompt", "summary", "assistant", "tool", "stub"}
Messages == [role : Roles, id : 0..MaxIds, refs : SUBSET Ids]

\* Who compacts: the task between its calls of the model, or the user.
By == {"task", "user"}
NoPlan == [from |-> 0, to |-> 0, input |-> {}, carried |-> {}]

VARIABLES
  chat,      \* session.messages
  running,   \* a task of the session runs (tasks.has)
  open,      \* calls of the round whose result is still to come
  plan,      \* the compactions that await their summary
  next,      \* the next identity
  loads,     \* history: loads from the disk
  summaries, \* history: compactions started
  excused,   \* history: messages trimmed or taken back
  stale      \* history: some compaction was applied to a history that had changed

vars == <<chat, running, open, plan, next, loads, summaries, excused, stale>>
bounds == <<loads, summaries>>

\* The roles of isCompressibleMessage.
Compressibles == {"user", "assistant", "tool", "stub"}

Message(role, id, refs) == [role |-> role, id |-> id, refs |-> refs]

Result(m) == m.role \in {"tool", "stub"}
Protected(m) == m.role \notin {"assistant", "tool", "stub"}
Compressible(m) == m.role \in Compressibles
IdsOf(msgs) == {m.id : m \in Range(msgs)}

\* The messages of these roles, in order.
Only(msgs, roles) ==
  FoldLeft(LAMBDA out, m : IF m.role \in roles THEN Append(out, m) ELSE out, <<>>, msgs)

(***************************************************************************)
(* repairToolPairing.  `pending` holds the calls without a result so far;  *)
(* any message but a result closes them with stubs, and a result of none   *)
(* of them is dropped.  The calls left at the end are closed only for the  *)
(* model (flushTail), for their results may still come.                    *)
(***************************************************************************)
\* The calls in ascending order, the one at k.
NthCall(calls, k) == CHOOSE c \in calls : Cardinality({d \in calls : d <= c}) = k
Stubs(calls) == [k \in 1..Cardinality(calls) |-> Message("stub", NthCall(calls, k), {})]

\* Mutant of RepairStep: another message does not close the calls.
RepairStepAcross(acc, m) ==
  IF Result(m)
  THEN IF m.id \in acc.pending
       THEN [out |-> Append(acc.out, m), pending |-> acc.pending \ {m.id}]
       ELSE acc
  ELSE [out |-> Append(acc.out, m), pending |-> acc.pending \union m.refs]

\* Mutant of RepairStep: the first result closes the calls.
RepairStepFirst(acc, m) ==
  IF Result(m)
  THEN IF m.id \in acc.pending
       THEN [out |-> Append(acc.out, m), pending |-> {}]
       ELSE acc
  ELSE [out |-> Append(acc.out \o Stubs(acc.pending), m),
        pending |-> IF m.role = "assistant" THEN m.refs ELSE {}]

RepairStep(acc, m) ==
  IF Result(m)
  THEN IF m.id \in acc.pending
       THEN [out |-> Append(acc.out, m), pending |-> acc.pending \ {m.id}]
       ELSE acc
  ELSE [out |-> Append(acc.out \o Stubs(acc.pending), m),
        pending |-> IF m.role = "assistant" THEN m.refs ELSE {}]

Repair(msgs, flushTail) ==
  LET end == FoldLeft(RepairStep, [out |-> <<>>, pending |-> {}], msgs) IN
  end.out \o (IF flushTail THEN Stubs(end.pending) ELSE <<>>)

(***************************************************************************)
(* trimToCacheLimit: over the limit, the oldest unprotected messages go    *)
(* until the low water mark is reached; with an assistant message the      *)
(* results right behind it go too, whatever the mark.                      *)
(***************************************************************************)
\* Mutant of TrimStep: results may outlive their assistant message.
TrimStepApart(acc, m) ==
  IF ~Protected(m) /\ acc.toDrop > 0
  THEN [acc EXCEPT !.toDrop = @ - 1]
  ELSE [acc EXCEPT !.out = Append(@, m)]

TrimStep(acc, m) ==
  IF ~Protected(m) /\ ((acc.tail /\ Result(m)) \/ acc.toDrop > 0)
  THEN [out    |-> acc.out,
        toDrop |-> IF acc.toDrop = 0 THEN 0 ELSE acc.toDrop - 1,
        tail   |-> (acc.tail /\ Result(m)) \/ m.refs # {}]
  ELSE [acc EXCEPT !.out = Append(@, m), !.tail = FALSE]

\* Mutant of Trim: just back under the limit.
TrimToLimit(msgs) ==
  IF Len(msgs) <= MaxMessages THEN msgs
  ELSE FoldLeft(TrimStep,
                [out |-> <<>>, toDrop |-> Len(msgs) - MaxMessages, tail |-> FALSE],
                msgs).out

Trim(msgs) ==
  IF Len(msgs) <= MaxMessages THEN msgs
  ELSE FoldLeft(TrimStep,
                [out |-> <<>>, toDrop |-> Len(msgs) - LowWater, tail |-> FALSE],
                msgs).out

\* What the model is sent: the prompts first (loadHistory), then repaired.
View(msgs) == Only(msgs, {"prompt"}) \o Only(msgs, Roles \ {"prompt"})
Sent(msgs) == Repair(View(msgs), TRUE)

(***************************************************************************)
(* Ranges to compact.  alignPairingBounds takes in one result behind a     *)
(* range that ends with its assistant message, and goes back from a result *)
(* at the start to the message before the results.                         *)
(***************************************************************************)
Align(msgs, from, to) ==
  <<Max({k \in 1..from : k = 1 \/ ~Result(msgs[k])}),
    IF to < Len(msgs) /\ Result(msgs[to + 1]) /\ msgs[to].role = "assistant" /\ msgs[to].refs # {}
    THEN to + 1 ELSE to>>

\* Mutant of Planned: no window of recent messages.
PlannedToTheEnd(msgs) ==
  LET old == {i \in DOMAIN msgs : Compressible(msgs[i])}
  IN  {Align(msgs, Min(old), to) : to \in {i \in old : i > Min(old)}}

\* planCompactRange: the oldest compressible messages outside the window of
\* recent ones, at least two; how many depends on the size of their contents.
Planned(msgs) ==
  LET half   == Len(msgs) \div 2
      kept   == IF Window < half THEN Window ELSE half
      window == IF kept = 0 THEN 1 ELSE kept
      old == {i \in DOMAIN msgs : Compressible(msgs[i]) /\ i + window <= Len(msgs)}
  IN  {Align(msgs, Min(old), to) : to \in {i \in old : i > Min(old)}}

\* A range the user asked for.
Asked(msgs) ==
  IF Cardinality({i \in DOMAIN msgs : Compressible(msgs[i])}) < 2 THEN {}
  ELSE {Align(msgs, from, to) : from \in DOMAIN msgs, to \in DOMAIN msgs}

Slice(msgs, from, to) == SubSeq(msgs, from, IF to < Len(msgs) THEN to ELSE Len(msgs))
Removable(msgs, from, to) == Only(Slice(msgs, from, to), Compressibles)

\* Mutant of Remaining: one message behind the range goes with it.
RemainingOneLess(msgs, from, to) ==
  SubSeq(msgs, 1, from - 1)
    \o Only(Slice(msgs, from, to), Roles \ Compressibles)
    \o SubSeq(msgs, to + 2, Len(msgs))

\* What a compaction of the range leaves.
Remaining(msgs, from, to) ==
  SubSeq(msgs, 1, from - 1)
    \o Only(Slice(msgs, from, to), Roles \ Compressibles)
    \o SubSeq(msgs, to + 1, Len(msgs))

Carried(msgs) == UNION {m.refs : m \in {n \in Range(msgs) : n.role = "summary"}}

\* Everything the session still knows: its messages, and what its summary
\* was written from.
Known(msgs) == {m.id : m \in {n \in Range(msgs) : n.role # "stub"}} \union Carried(msgs)

Init ==
  /\ chat = <<>>
  /\ running = FALSE /\ open = {}
  /\ plan = [by \in By |-> NoPlan]
  /\ next = 1
  /\ loads = 0 /\ summaries = 0
  /\ excused = {} /\ stale = FALSE

\* The loop of the task waits while it compacts.
Free == plan["task"] = NoPlan

\* appendMessage: push, trim, save.
AppendMessage(m) ==
  /\ chat' = Trim(Append(chat, m))
  /\ excused' = excused \union ((IdsOf(chat) \union {m.id}) \ IdsOf(chat'))

(***************************************************************************)
(* The task                                                                *)
(***************************************************************************)
Prompt ==
  /\ ~running /\ next <= MaxIds
  /\ AppendMessage(Message("user", next, {}))
  /\ running' = TRUE /\ next' = next + 1
  /\ UNCHANGED <<open, plan, bounds, stale>>

CallTools(calls) ==
  /\ running /\ Free /\ open = {} /\ next + calls <= MaxIds
  /\ open' = next + 1 .. next + calls
  /\ AppendMessage(Message("assistant", next, open'))
  /\ next' = next + calls + 1
  /\ UNCHANGED <<running, plan, bounds, stale>>

\* Results come in any order; an interrupted round writes the rest as notes.
ToolResult(c) ==
  /\ running /\ Free /\ c \in open
  /\ AppendMessage(Message("tool", c, {}))
  /\ open' = open \ {c}
  /\ UNCHANGED <<running, plan, next, bounds, stale>>

\* After its reply the run ends, or is reminded of what is left to do (the
\* reminder is a user message like the others: WriteBack).
Reply ==
  /\ running /\ Free /\ open = {} /\ next <= MaxIds
  /\ AppendMessage(Message("assistant", next, {}))
  /\ next' = next + 1
  /\ UNCHANGED <<running, open, plan, bounds, stale>>

\* The run ends, is cancelled or fails.  Its round has been filled with
\* notes, unless the failure hits that very writing or the compaction behind
\* the assistant message: then calls stay without a result.
EndRun ==
  /\ running
  /\ running' = FALSE /\ open' = {}
  /\ plan' = [plan EXCEPT !["task"] = NoPlan]
  /\ UNCHANGED <<chat, next, bounds, excused, stale>>

(***************************************************************************)
(* Others that write to the session                                        *)
(***************************************************************************)
\* A scheduled task writes its result back, whatever runs in the session
\* (appendOriginMessage).
WriteBack ==
  /\ chat # <<>> /\ next <= MaxIds
  /\ AppendMessage(Message("user", next, {}))
  /\ next' = next + 1
  /\ UNCHANGED <<running, open, plan, bounds, stale>>

\* The report of a sub-session waits for the end of the round
\* (enqueueParentMerge, drainParentMerges).
Merge ==
  /\ chat # <<>> /\ open = {} /\ Free /\ next <= MaxIds
  /\ AppendMessage(Message("report", next, {}))
  /\ next' = next + 1
  /\ UNCHANGED <<running, open, plan, bounds, stale>>

\* An agent is loaded, by a tool of the round or from the page; it is pushed
\* without trimming (loadAgentsForSession), once.
LoadAgent ==
  /\ chat # <<>> /\ next <= MaxIds
  /\ \A m \in Range(chat) : m.role # "prompt"
  /\ chat' = Append(chat, Message("prompt", next, {}))
  /\ next' = next + 1
  /\ UNCHANGED <<running, open, plan, bounds, excused, stale>>

UnloadAgent ==
  /\ \E m \in Range(chat) : m.role = "prompt"
  /\ chat' = Only(chat, Roles \ {"prompt"})
  /\ excused' = excused \union (IdsOf(chat) \ IdsOf(chat'))
  /\ UNCHANGED <<running, open, plan, next, bounds, stale>>

\* The user takes back a message and all after it; not while a task runs.
Truncate(k) ==
  /\ ~running /\ k \in DOMAIN chat
  /\ chat' = SubSeq(chat, 1, k - 1)
  /\ excused' = excused \union Known(chat)
  /\ UNCHANGED <<running, open, plan, next, bounds, stale>>

(***************************************************************************)
(* Loading.  The session left the cache and is read from the disk, which   *)
(* repairs it; that may happen at any time.  After a crash the next start  *)
(* notes that the task was interrupted.                                    *)
(***************************************************************************)
Load ==
  /\ loads < MaxLoads /\ loads' = loads + 1
  /\ chat' = Repair(chat, FALSE)
  /\ UNCHANGED <<running, open, plan, next, summaries, excused, stale>>

\* Mutant of Restart: the round of the task stays open.
RestartInRound ==
  /\ loads < MaxLoads /\ loads' = loads + 1
  /\ chat' = Repair(chat, FALSE)
  /\ running' = FALSE /\ plan' = [by \in By |-> NoPlan]
  /\ UNCHANGED <<open, next, summaries, excused, stale>>

Restart ==
  /\ loads < MaxLoads /\ loads' = loads + 1
  /\ next <= MaxIds
  /\ LET back == Repair(chat, FALSE) IN
     IF running
     THEN /\ chat' = Trim(Append(back, Message("user", next, {})))
          /\ excused' = excused \union ((IdsOf(back) \union {next}) \ IdsOf(chat'))
          /\ next' = next + 1
     ELSE /\ chat' = back /\ UNCHANGED <<excused, next>>
  /\ running' = FALSE /\ open' = {} /\ plan' = [by \in By |-> NoPlan]
  /\ UNCHANGED <<summaries, stale>>

(***************************************************************************)
(* Compaction: a range is chosen, the model is asked for a summary of it,  *)
(* and when that comes the range is replaced.  The task compacts before a  *)
(* call of the model and after an assistant message with calls; the user   *)
(* only while no task runs, but a task may start before the summary comes. *)
(***************************************************************************)
StartCompaction(by, ranges) ==
  /\ plan[by] = NoPlan /\ summaries < MaxSummaries
  /\ summaries' = summaries + 1
  /\ \E r \in ranges :
       LET input == IdsOf(Removable(chat, r[1], r[2])) IN
       /\ Removable(chat, r[1], r[2]) # <<>>
       /\ plan' = [plan EXCEPT ![by] =
            [from |-> r[1], to |-> r[2], input |-> input, carried |-> Carried(chat)]]
  /\ UNCHANGED <<chat, running, open, next, loads, excused, stale>>

\* The last message is the assistant's own, or its round is complete.
TaskCompacts ==
  /\ running
  /\ open = {} \/ \E m \in Range(chat) : m.refs = open /\ m.role = "assistant"
  /\ StartCompaction("task", Planned(chat))

UserCompacts == ~running /\ StartCompaction("user", Asked(chat))

\* compactMessages.  The summary goes to the front and takes the place of
\* older ones; prompts and reports in the range stay.  When the model fails,
\* the summary is the skeleton of the range alone (summarizeFallback).
FinishCompaction(by, ok) ==
  LET p       == plan[by]
      gone    == Removable(chat, p.from, p.to)
      summary == Message("summary", 0, p.input \union IF ok THEN p.carried ELSE {})
      rest    == Only(Remaining(chat, p.from, p.to), Roles \ {"summary"})
      fixed   == Repair(<<summary>> \o rest, FALSE)
  IN
  /\ p # NoPlan
  /\ plan' = [plan EXCEPT ![by] = NoPlan]
  /\ IF gone = <<>> THEN UNCHANGED <<chat, excused, stale>>
     ELSE /\ chat' = Trim(fixed)
          /\ excused' = excused \union (IdsOf(fixed) \ IdsOf(chat'))
          /\ stale' = (stale \/ IdsOf(gone) # p.input \/ Carried(chat) # p.carried)
  /\ UNCHANGED <<running, open, next, bounds>>

Next ==
  \/ Prompt \/ Reply \/ EndRun
  \/ \E calls \in 1..MaxCalls : CallTools(calls)
  \/ \E c \in open : ToolResult(c)
  \/ WriteBack \/ Merge \/ LoadAgent \/ UnloadAgent
  \/ \E k \in DOMAIN chat : Truncate(k)
  \/ Load \/ Restart
  \/ TaskCompacts \/ UserCompacts
  \/ \E by \in By, ok \in BOOLEAN : FinishCompaction(by, ok)

Spec == Init /\ [][Next]_vars

(***************************************************************************)
(* Properties                                                              *)
(***************************************************************************)
TypeOK ==
  /\ \A m \in Range(chat) : m \in Messages
  /\ running \in BOOLEAN /\ open \subseteq Ids /\ (open # {} => running)
  /\ \A by \in By : /\ plan[by].from \in Nat /\ plan[by].to \in Nat
                    /\ plan[by].input \subseteq Ids /\ plan[by].carried \subseteq Ids
  /\ next \in 1..MaxIds+1
  /\ loads \in 0..MaxLoads /\ summaries \in 0..MaxSummaries
  /\ excused \subseteq 0..MaxIds /\ stale \in BOOLEAN

\* The result at j answers the assistant message at i.
Answers(msgs, i, j) ==
  /\ i < j /\ msgs[i].role = "assistant" /\ Result(msgs[j]) /\ msgs[j].id \in msgs[i].refs

\* ... with nothing but results between them.
Follows(msgs, i, j) ==
  Answers(msgs, i, j) /\ \A k \in i+1..j : Result(msgs[k])

\* Results nothing came before, neither another message nor a placeholder.
Attached(msgs) ==
  {msgs[j].id : j \in {k \in DOMAIN msgs :
     /\ msgs[k].role = "tool"
     /\ \E i \in DOMAIN msgs : /\ Follows(msgs, i, k)
                             /\ \A h \in i+1..k-1 : msgs[h].id # msgs[k].id}}
Present(msgs) == {m.id : m \in {n \in Range(msgs) : n.role # "stub"}}

\* What the provider insists on: every result follows its assistant message,
\* and every call has exactly one result there.
WellPaired(msgs) ==
  /\ \A j \in DOMAIN msgs : Result(msgs[j]) => \E i \in DOMAIN msgs : Follows(msgs, i, j)
  /\ \A i \in DOMAIN msgs : msgs[i].role = "assistant" =>
       \A c \in msgs[i].refs :
         Cardinality({j \in DOMAIN msgs : Follows(msgs, i, j) /\ msgs[j].id = c}) = 1

\* Whatever was written, trimmed, compacted, cut or lost in a crash, what the
\* model is sent is well paired: a session never gets stuck on it.
SentWellPaired == WellPaired(Sent(chat))

\* The assistant message of a round just opened is not chosen for compaction,
\* and as long as nobody writes behind it, it stays in the history, so that
\* the results still to come are not orphans, unless it is trimmed or a compaction is
\* applied to another history than it was planned for.
RoundKept ==
  [][open # {} /\ open' # {} /\ ~stale' =>
       \A i \in DOMAIN chat :
         /\ chat[i].role = "assistant" /\ open \subseteq chat[i].refs
         /\ \A j \in i+1..Len(chat) : Result(chat[j])
         /\ \A by \in By : chat[i].id \notin plan[by].input
         => /\ chat[i] \in Range(chat') \/ chat[i].id \in excused'
            /\ i = Len(chat) => \A by \in By : chat[i].id \notin plan'[by].input]_vars

\* A result behind its assistant message stays there as long as it is in the
\* history at all: trimming, cutting and compacting never part the two.
StaysAttached ==
  [][Attached(chat) \intersect Present(chat') \subseteq Attached(chat')]_vars

\* Reading the session back loses no message but results that were parted
\* from their assistant message.
LoadKeepsAttached ==
  [][loads' # loads =>
       \A m \in Range(chat) :
         m.role \notin {"tool", "stub"} \/ m.id \in Attached(chat) => m \in Range(chat') \/ m.id \in excused']_vars

\* A compaction of the range it was planned for takes nothing that is not in
\* its summary, but results of the calls it compacts.
CompactionTakesWhatItRead ==
  [][\A by \in By :
       plan[by] # NoPlan /\ plan'[by] = NoPlan /\ loads' = loads /\ ~stale' =>
         \A m \in Range(chat) :
           \/ m.id \in Known(chat') \union excused' \union plan[by].input
           \/ m.role = "stub"
           \/ m.role = "tool" /\ (m.id \notin Attached(chat)
                \/ \E a \in Range(chat) : m.id \in a.refs /\ a.id \in plan[by].input)]_vars

\* A message appended to a full history makes room down to the low water
\* mark, or takes all there is to take; of what users wrote nothing goes.
TrimMakesRoom ==
  [][Len(chat) >= MaxMessages /\ next' # next /\ loads' = loads =>
       \/ \E m \in Range(chat') \ Range(chat) : m.role = "prompt"
       \/ Len(chat') <= LowWater
       \/ \A m \in Range(chat') : Protected(m)]_vars
=============================================================================
