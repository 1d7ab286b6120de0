----------------------------- MODULE LspClient -----------------------------
(***************************************************************************)
(* The language server client of the editor                                *)
(* (src/shuangtian/src/lsp/client.cpp): one server process, a thread that  *)
(* reads its output, a thread that writes its input, and the main thread,  *)
(* which alone owns the session: it starts and stops it, keeps the open    *)
(* documents, sends requests and, once a frame, pumps what has come in.    *)
(* The threads share two queues under a mutex.  The server is external: it *)
(* answers in any order, late, with errors or never, it may ask something, *)
(* and it may die at any time.  What a request or a notification of the    *)
(* server says is left out, and so are the capabilities.                   *)
(***************************************************************************)
EXTENDS Integers, Sequences, SequencesExt

CONSTANTS
  Uris,        \* documents
  MaxStarts,   \* bound on the sessions
  MaxIds,      \* bound on the requests sent, initialize and shutdown included
  MaxTurns     \* bound on what is done to documents and asked by the server,
               \* where a request of the server counts twice

ASSUME BoundsAssumption ==
  /\ IsFiniteSet(Uris)
  /\ MaxStarts \in Nat /\ MaxIds \in Nat /\ MaxTurns \in Nat

VARIABLES
  state,       \* SessionState
  pending,     \* pending_requests: id, method, and whether its time is over
  documents,   \* version of each open document, 0 when not open
  counter,     \* request_counter
  exitSent,    \* exit_sent
  pc,          \* what the main thread is in
  batch,       \* the local of pump: messages taken and not yet handled
  finished,    \* the local of pump: the reader had ended
  late,        \* the deadline of stop has passed
  incoming, outgoing, readerDone,   \* shared, under queue_mutex
  stopping,    \* request_stop was called on the threads, outgoing_closed is set
  reader, writer,
  process,     \* "none", "alive" or "dead"
  owed,        \* requests the server has read and not answered
  heeds,       \* it minds documents before it has accepted initialize
  greeted,     \* the server has accepted initialize
  docs,        \* the documents the server has open, as versions
  starts, turns,   \* operations so far
  named        \* history: how often each id was answered with its method

sessionVars == <<state, pending, documents, counter, exitSent, named>>
mainVars == <<pc, batch, finished, late, starts, turns>>
queueVars == <<incoming, outgoing, readerDone>>
threadVars == <<stopping, reader, writer>>
serverVars == <<process, owed, heeds, greeted, docs>>
vars == <<sessionVars, mainVars, queueVars, threadVars, serverVars>>

States == {"Idle", "Starting", "Ready", "Failed", "ShuttingDown", "Stopped"}
Ids == 1..MaxIds
Methods == {"initialize", "shutdown", "other"}

Request(i, method) == [kind |-> "request", id |-> i, method |-> method]
Open(u, v) == [kind |-> "open", uri |-> u, version |-> v]
Change(u, v) == [kind |-> "change", uri |-> u, version |-> v]
Close(u) == [kind |-> "close", uri |-> u]
Plain(kind) == [kind |-> kind]   \* initialized, exit, reply

Init ==
  /\ state = "Idle" /\ pending = {}
  /\ documents = [u \in Uris |-> 0] /\ counter = 0 /\ exitSent = FALSE
  /\ named = [i \in Ids |-> 0]
  /\ pc = "host" /\ batch = <<>> /\ finished = FALSE /\ late = FALSE
  /\ starts = 0 /\ turns = 0
  /\ incoming = <<>> /\ outgoing = <<>> /\ readerDone = FALSE
  /\ stopping = FALSE /\ reader = "none" /\ writer = "none"
  /\ process = "none" /\ owed = {}
  /\ heeds = FALSE /\ greeted = FALSE /\ docs = [u \in Uris |-> 0]

---------------------------------------------------------------------------
(* What the host of the client calls.                                      *)

New(method) == [id |-> counter + 1, method |-> method, old |-> FALSE]
Enqueue(messages) == outgoing' = outgoing \o messages

\* start, when the threads of an earlier session were joined: the editor
\* always stops a session before it starts the next.
Start ==
  /\ pc = "host" /\ starts < MaxStarts /\ counter < MaxIds
  /\ state \in {"Idle", "Failed", "Stopped"}
  /\ reader \in {"none", "done"} /\ writer \in {"none", "done"}
  /\ starts' = starts + 1
  /\ exitSent' = FALSE /\ incoming' = <<>>
  /\ readerDone' = FALSE /\ stopping' = FALSE /\ owed' = {}
  /\ greeted' = FALSE
  /\ docs' = [u \in Uris |-> 0] /\ heeds' \in BOOLEAN
  /\ \/ /\ state' = "Failed" /\ process' = "none"     \* the program is missing
        /\ pending' = {} /\ outgoing' = <<>>
        /\ UNCHANGED <<counter, reader, writer>>
     \/ /\ state' = "Starting" /\ process' = "alive"
        /\ reader' = "reading" /\ writer' = "waiting"
        /\ counter' = counter + 1
        /\ pending' = {New("initialize")}
        /\ outgoing' = <<Request(counter + 1, "initialize")>>
  /\ UNCHANGED <<documents, named, pc, batch, finished, late, turns>>

\* did_open; a document that is open is closed first.
DidOpen(u) ==
  /\ pc = "host" /\ turns < MaxTurns
  /\ turns' = turns + 1
  /\ documents' = [documents EXCEPT ![u] = 1]
  /\ Enqueue(IF documents[u] > 0 THEN <<Close(u), Open(u, 1)>> ELSE <<Open(u, 1)>>)
  /\ UNCHANGED <<state, pending, counter, exitSent, named, pc, batch,
                 finished, late, starts, incoming, readerDone,
                 threadVars, serverVars>>

DidChange(u) ==
  /\ pc = "host" /\ turns < MaxTurns /\ documents[u] > 0
  /\ turns' = turns + 1
  /\ documents' = [documents EXCEPT ![u] = @ + 1]
  /\ Enqueue(<<Change(u, documents[u] + 1)>>)
  /\ UNCHANGED <<state, pending, counter, exitSent, named, pc, batch,
                 finished, late, starts, incoming, readerDone,
                 threadVars, serverVars>>

DidClose(u) ==
  /\ pc = "host" /\ turns < MaxTurns /\ documents[u] > 0
  /\ turns' = turns + 1
  /\ documents' = [documents EXCEPT ![u] = 0]
  /\ Enqueue(<<Close(u)>>)
  /\ UNCHANGED <<state, pending, counter, exitSent, named, pc, batch,
                 finished, late, starts, incoming, readerDone,
                 threadVars, serverVars>>

\* request: only a session that is ready sends it.
Ask ==
  /\ pc = "host" /\ counter < MaxIds - 1
  /\ state = "Ready"
  /\ counter' = counter + 1
  /\ pending' = pending \union {New("other")}
  /\ Enqueue(<<Request(counter + 1, "other")>>)
  /\ UNCHANGED <<state, documents, exitSent, named, mainVars, incoming,
                 readerDone, threadVars, serverVars>>

---------------------------------------------------------------------------
(* pump: take what came in, handle it message by message, look at the      *)
(* clock and at the end of the reader.                                     *)

Transient == state \in {"Starting", "ShuttingDown"}

PumpBegin ==
  /\ pc = "host" \/ (pc = "stop" /\ ~late)
  /\ incoming # <<>> \/ readerDone \/ Transient
  /\ batch' = incoming /\ incoming' = <<>>
  /\ finished' = readerDone
  /\ pc' = IF pc = "host" THEN "pump" ELSE "stopPump"
  /\ UNCHANGED <<sessionVars, late, starts, turns, outgoing, readerDone,
                 threadVars, serverVars>>

Pumping == pc \in {"pump", "stopPump"}
Handling == Pumping /\ batch # <<>>
message == Head(batch)
Asked(method) == \E p \in pending : p.id = message.id /\ p.method = method
Forget == pending' = {p \in pending : p.id # message.id}

\* The other variables of a step that handles a message.
HandledOnly ==
  /\ batch' = Tail(batch)
  /\ UNCHANGED <<documents, counter, pc, finished, late, starts, turns,
                 incoming, readerDone, threadVars, serverVars>>

\* The documents that are open are sent, as opened, to a server that is new.
OpenDocuments ==
  LET uris == SetToSeq({u \in Uris : documents[u] > 0})
  IN  [i \in 1..Len(uris) |-> Open(uris[i], documents[uris[i]])]

\* Mutants of HandleInitialized: the documents are not sent again, and the
\* answer is not looked at.
HandleInitializedBare ==
  /\ Handling /\ Asked("initialize") /\ message.ok
  /\ Forget
  /\ state' = "Ready"
  /\ Enqueue(<<Plain("initialized")>>)
  /\ named' = [named EXCEPT ![message.id] = @ + 1]
  /\ UNCHANGED exitSent
  /\ HandledOnly

HandleInitializedAlways ==
  /\ Handling /\ Asked("initialize")
  /\ Forget
  /\ state' = "Ready"
  /\ Enqueue(<<Plain("initialized")>> \o OpenDocuments)
  /\ named' = [named EXCEPT ![message.id] = @ + 1]
  /\ UNCHANGED exitSent
  /\ HandledOnly

\* Whatever the state is by now.
HandleInitialized ==
  /\ Handling /\ Asked("initialize") /\ message.ok
  /\ Forget
  /\ state' = "Ready"
  /\ Enqueue(<<Plain("initialized")>> \o OpenDocuments)
  /\ named' = [named EXCEPT ![message.id] = @ + 1]
  /\ UNCHANGED exitSent
  /\ HandledOnly

HandleRefused ==
  /\ Handling /\ Asked("initialize") /\ ~message.ok
  /\ Forget
  /\ state' = "Failed"
  /\ UNCHANGED <<outgoing, exitSent, named>>
  /\ HandledOnly

HandleShutdown ==
  /\ Handling /\ Asked("shutdown")
  /\ Forget
  /\ state' = "Stopped" /\ exitSent' = TRUE
  /\ Enqueue(<<Plain("exit")>>)
  /\ named' = [named EXCEPT ![message.id] = @ + 1]
  /\ HandledOnly

HandleAnswer ==
  /\ Handling /\ Asked("other")
  /\ Forget
  /\ named' = [named EXCEPT ![message.id] = @ + 1]
  /\ UNCHANGED <<state, outgoing, exitSent>>
  /\ HandledOnly

\* The answer to a request that is not pending any more: on_response gets it
\* with an empty method.
HandleUnknown ==
  /\ Handling /\ message.id > 0
  /\ \A p \in pending : p.id # message.id
  /\ UNCHANGED <<state, pending, outgoing, exitSent, named>>
  /\ HandledOnly

\* A request of the server is always replied to.
HandleAsk ==
  /\ Handling /\ message.id = 0
  /\ Enqueue(<<Plain("reply")>>)
  /\ UNCHANGED <<state, pending, exitSent, named>>
  /\ HandledOnly

\* Mutants of PumpEnd: what is over time stays pending, and the end of the
\* reader is acted on before what it left is handled.
PumpEndKeeping ==
  LET old == {p \in pending : p.old}
      ids == {p.id : p \in old}
  IN
  /\ Pumping /\ batch = <<>> /\ state = "Ready"
  /\ named' = [i \in Ids |-> IF i \in ids THEN named[i] + 1 ELSE named[i]]
  /\ state' = IF finished THEN "Failed" ELSE state
  /\ pc' = IF pc = "pump" THEN "host" ELSE "stop"
  /\ finished' = FALSE
  /\ UNCHANGED <<pending, documents, counter, exitSent, batch, late, starts, turns,
                 queueVars, threadVars, serverVars>>

PumpEndEarly ==
  /\ Pumping /\ (batch = <<>> \/ finished)
  /\ state' = IF finished THEN "Failed" ELSE state
  /\ pc' = IF pc = "pump" THEN "host" ELSE "stop"
  /\ finished' = FALSE
  /\ UNCHANGED <<pending, documents, counter, exitSent, named, batch, late, starts,
                 turns, queueVars, threadVars, serverVars>>

PumpEnd ==
  LET old == {p \in pending : p.old}
      shaken == IF state = "Starting" /\ \E p \in old : p.method = "initialize"
                THEN "Failed" ELSE state
      expired == IF shaken = "Ready" THEN old ELSE {}
      ids == {p.id : p \in expired}
  IN
  /\ Pumping /\ batch = <<>>
  /\ pending' = pending \ expired
  /\ named' = [i \in Ids |-> IF i \in ids THEN named[i] + 1 ELSE named[i]]
  /\ state' = IF ~finished \/ shaken \in {"Stopped", "Failed"} THEN shaken
              ELSE IF shaken = "ShuttingDown" THEN "Stopped" ELSE "Failed"
  /\ pc' = IF pc = "pump" THEN "host" ELSE "stop"
  /\ finished' = FALSE
  /\ UNCHANGED <<documents, counter, exitSent, batch, late, starts, turns, queueVars,
                 threadVars, serverVars>>

\* Time passes.
GetOld ==
  \E p \in pending :
    /\ ~p.old
    /\ pending' = (pending \ {p}) \union {[p EXCEPT !.old = TRUE]}
    /\ UNCHANGED <<state, documents, counter, exitSent, named, mainVars, queueVars,
                   threadVars, serverVars>>

---------------------------------------------------------------------------
(* stop: shutdown, a bounded wait for its answer, exit, then the threads   *)
(* and the process are taken down.                                         *)

Stop ==
  /\ pc = "host"
  /\ \/ /\ process = "none"
        /\ state # "Stopped" /\ state' = "Stopped"
        /\ UNCHANGED <<pending, counter, outgoing, pc>>
     \/ /\ process # "none"
        /\ pc' = "stop"
        /\ \/ /\ state \in {"Ready", "Starting"} /\ counter < MaxIds
              /\ counter' = counter + 1
              /\ pending' = pending \union {New("shutdown")}
              /\ state' = "ShuttingDown"
              /\ Enqueue(<<Request(counter + 1, "shutdown")>>)
           \/ /\ state \notin {"Ready", "Starting"}
              /\ UNCHANGED <<state, pending, counter, outgoing>>
  /\ UNCHANGED <<documents, exitSent, named, batch, finished, late, starts, turns,
                 incoming, readerDone, threadVars, serverVars>>

StopLate ==
  /\ pc \in {"stop", "stopPump"} /\ ~late
  /\ late' = TRUE
  /\ UNCHANGED <<sessionVars, pc, batch, finished, starts, turns, queueVars,
                 threadVars, serverVars>>

StopThreads ==
  /\ pc = "stop"
  /\ late \/ state = "Stopped" \/ exitSent
  /\ exitSent' = (exitSent \/ state # "Failed")
  /\ Enqueue(IF exitSent' # exitSent THEN <<Plain("exit")>> ELSE <<>>)
  /\ stopping' = TRUE
  /\ pc' = "kill"
  /\ UNCHANGED <<state, pending, documents, counter, named, batch,
                 finished, late, starts, turns, incoming, readerDone, reader,
                 writer, serverVars>>

\* A process that is gone has nothing open and answers nothing.
Gone ==
  /\ process' = "dead" /\ owed' = {} /\ docs' = [u \in Uris |-> 0]

\* Mutant of Kill: the process is left to end by itself.
KillPolitely ==
  /\ pc = "kill"
  /\ pc' = "join"
  /\ UNCHANGED <<sessionVars, batch, finished, late, starts, turns, queueVars,
                 threadVars, serverVars>>

\* terminate
Kill ==
  /\ pc = "kill"
  /\ pc' = "join"
  /\ Gone
  /\ UNCHANGED <<sessionVars, batch, finished, late, starts, turns, queueVars,
                 threadVars, heeds, greeted>>

\* Mutant of Join: only the reader is waited for.
JoinReader ==
  /\ pc = "join"
  /\ reader \in {"none", "done"}
  /\ state' = "Stopped" /\ pc' = "host" /\ late' = FALSE
  /\ UNCHANGED <<pending, documents, counter, exitSent, named, batch,
                 finished, starts, turns, queueVars, threadVars, serverVars>>

Join ==
  /\ pc = "join"
  /\ reader \in {"none", "done"} /\ writer \in {"none", "done"}
  /\ state' = "Stopped" /\ pc' = "host" /\ late' = FALSE
  /\ UNCHANGED <<pending, documents, counter, exitSent, named, batch,
                 finished, starts, turns, queueVars, threadVars, serverVars>>

---------------------------------------------------------------------------
(* The threads and the server.  The pipes between them only delay what     *)
(* goes through, and the server may be as slow as it likes: a message is   *)
(* read when it is written.                                                *)

\* writer_loop: it sleeps until there is something to write or to end for,
\* and ends when a write fails.
sentNow == Head(outgoing)
Minded == greeted \/ heeds

WriterWrite ==
  /\ writer = "waiting" /\ outgoing # <<>>
  /\ outgoing' = Tail(outgoing)
  /\ writer' = IF stopping \/ process = "dead" THEN "done" ELSE "waiting"
  /\ \/ /\ process = "alive" /\ sentNow.kind = "exit"
        /\ Gone
     \/ /\ process = "alive" /\ sentNow.kind = "request"
        /\ owed' = owed \union {[id |-> sentNow.id, method |-> sentNow.method]}
        /\ UNCHANGED <<process, docs>>
     \/ /\ process = "alive" /\ sentNow.kind \in {"open", "change", "close"} /\ Minded
        /\ docs' = [docs EXCEPT ![sentNow.uri] =
                      IF sentNow.kind = "close" THEN 0 ELSE sentNow.version]
        /\ UNCHANGED <<process, owed>>
     \/ /\ \/ process = "dead"
           \/ sentNow.kind \in {"initialized", "reply"}
           \/ sentNow.kind \in {"open", "change", "close"} /\ ~Minded
        /\ UNCHANGED <<process, owed, docs>>
  /\ UNCHANGED <<sessionVars, mainVars, incoming, readerDone, stopping,
                 reader, heeds, greeted>>

WriterEnd ==
  /\ writer = "waiting" /\ stopping
  /\ writer' = "done"
  /\ UNCHANGED <<sessionVars, mainVars, queueVars, stopping, reader, serverVars>>

\* reader_loop: what the server says goes to the queue.
ServerAnswer ==
  \E r \in owed, ok \in BOOLEAN :
    /\ process = "alive" /\ reader = "reading"
    /\ ok \/ r.method = "initialize"   \* only there an error is looked at
    /\ owed' = owed \ {r}
    /\ incoming' = Append(incoming, [id |-> r.id, ok |-> ok])
    /\ greeted' = (greeted \/ (r.method = "initialize" /\ ok))
    /\ UNCHANGED <<sessionVars, mainVars, outgoing, readerDone, threadVars,
                   process, heeds, docs>>

ServerAsk ==
  /\ process = "alive" /\ reader = "reading" /\ turns + 2 <= MaxTurns
  /\ turns' = turns + 2
  /\ incoming' = Append(incoming, [id |-> 0, ok |-> TRUE])
  /\ UNCHANGED <<sessionVars, pc, batch, finished, late, starts, outgoing,
                 readerDone, threadVars, serverVars>>

ServerDie ==
  /\ process = "alive"
  /\ Gone
  /\ UNCHANGED <<sessionVars, mainVars, queueVars, threadVars, heeds, greeted>>

\* The end of the output; blocked in a read the thread sees nothing else.
ReaderEnd ==
  /\ reader = "reading" /\ process = "dead"
  /\ reader' = "done" /\ readerDone' = TRUE
  /\ UNCHANGED <<sessionVars, mainVars, incoming, outgoing, stopping, writer,
                 serverVars>>

\* It looks at its stop token between two reads.
ReaderStops ==
  /\ reader = "reading" /\ process = "alive" /\ stopping
  /\ reader' = "done" /\ readerDone' = TRUE
  /\ UNCHANGED <<sessionVars, mainVars, incoming, outgoing, stopping, writer,
                 serverVars>>

---------------------------------------------------------------------------
Handle ==
  \/ HandleInitialized \/ HandleRefused \/ HandleShutdown \/ HandleAnswer
  \/ HandleUnknown \/ HandleAsk

Host == Start \/ Ask \/ Stop \/ \E u \in Uris : DidOpen(u) \/ DidChange(u) \/ DidClose(u)
Main == PumpBegin \/ Handle \/ PumpEnd \/ StopThreads \/ Kill \/ Join
Writer == WriterWrite \/ WriterEnd
Server == ServerAnswer \/ ServerAsk \/ ServerDie
Clock == GetOld \/ StopLate

Next == Host \/ Main \/ ReaderEnd \/ ReaderStops \/ Writer \/ Server \/ Clock

Spec == Init /\ [][Next]_vars

\* The host pumps every frame and stop waits in a loop; the threads run and
\* time passes.  Nothing is assumed of the server.
FairSpec ==
  Spec /\ WF_vars(Main) /\ WF_vars(ReaderEnd) /\ WF_vars(Writer)
       /\ WF_vars(GetOld) /\ WF_vars(StopLate)

(***************************************************************************)
(* Properties                                                              *)
(***************************************************************************)
TypeOK ==
  /\ state \in States
  /\ pending \subseteq [id : Ids, method : Methods, old : BOOLEAN]
  /\ documents \in [Uris -> Nat] /\ docs \in [Uris -> Nat]
  /\ counter \in 0..MaxIds /\ exitSent \in BOOLEAN
  /\ pc \in {"host", "pump", "stop", "stopPump", "kill", "join"}
  /\ finished \in BOOLEAN /\ late \in BOOLEAN
  /\ batch # <<>> => Pumping
  /\ readerDone \in BOOLEAN /\ stopping \in BOOLEAN
  /\ reader \in {"none", "reading", "done"}
  /\ writer \in {"none", "waiting", "done"}
  /\ process \in {"none", "alive", "dead"}
  /\ heeds \in BOOLEAN /\ greeted \in BOOLEAN
  /\ owed \subseteq [id : Ids, method : Methods]
  /\ starts \in 0..MaxStarts /\ turns \in 0..MaxTurns
  /\ named \in [Ids -> Nat]

\* A server that has accepted initialize and has read all it was sent has the
\* documents the client has, whatever was opened, changed or closed while the
\* session was starting and whatever the server ignored then.
DocumentsAgree ==
  state = "Ready" /\ process = "alive" /\ outgoing = <<>> => docs = documents

\* The session is ready only when the server this session started has
\* accepted initialize: no answer of an earlier session is taken for it.
ReadyMeansGreeted ==
  state = "Ready" => greeted

\* No request is answered twice under its method, by a late answer after the
\* timeout, by the timeout after the answer or by an earlier session's server;
\* one that is pending has not been answered.
AnsweredOnce ==
  /\ \A i \in Ids : named[i] <= 1
  /\ \A p \in pending : named[p.id] = 0
  /\ \A p, q \in pending : p.id = q.id => p = q

\* When stop has returned nothing of the session is left: no thread that
\* could touch the queues, no process.
NothingLeft ==
  pc = "host" /\ state \in {"Idle", "Stopped"} =>
    /\ process # "alive"
    /\ reader \in {"none", "done"} /\ writer \in {"none", "done"}

\* Every request of a session that stays ready is answered in the end, by the
\* server or as timed out.
RequestsEnd ==
  \A i \in Ids :
    (state = "Ready" /\ \E p \in pending : p.id = i)
      ~> (state # "Ready" \/ \A p \in pending : p.id # i)

\* stop returns, whatever the server does.
StopReturns ==
  pc \in {"stop", "stopPump", "kill", "join"} ~> pc = "host"
=============================================================================
