--------------------------- MODULE ControlServer ---------------------------
(***************************************************************************)
(* The control channel of a native application                             *)
(* (src/shuangtian/src/control/server.cpp): scripts and agents connect,    *)
(* say hello with a token, then inspect and drive the user interface,      *)
(* subscribe to its changes and wait for conditions.  The server has no    *)
(* thread of its own: the frame loop of the application calls poll, which  *)
(* accepts, reads and serves every connection, looks at the waits and      *)
(* publishes changes, while peers send and close and time goes by.         *)
(* What a frame asks is chosen when it is dispatched: nothing looks at it  *)
(* earlier.  Times and frame numbers are kept relative to now.             *)
(***************************************************************************)
EXTENDS Integers, Sequences, FiniteSets

CONSTANTS
  Connections,   \* each connects at most once and gets an id of its own
  MaxRequests,   \* bound on the requests of each connection
  Fragile,       \* bound: the connections on which writing an answer may fail
  Timeouts,      \* what timeout_ms may be, in ticks
  StillTime,     \* 120 ms without a change, in ticks
  Frames,        \* what frames may be in a wait for frames
  Kinds          \* conditions: "element", "gone", "stable", "frames"

ASSUME BoundsAssumption ==
  /\ MaxRequests \in [Connections -> Nat]
  /\ Fragile \subseteq Connections /\ StillTime \in Nat
  /\ Timeouts \subseteq Nat /\ Frames \subseteq Nat \ {0}
  /\ Kinds \subseteq {"element", "gone", "stable", "frames"}

VARIABLES
  phase,      \* how far poll has come
  index,      \* the client the loop is at
  closed,     \* the local of read_clients: drop the client after its frames
  clients,    \* the accepted connections, in order
  backlog,    \* the listener's: connected, not accepted
  peer,       \* the other end of each connection
  sent,       \* number of frames that have arrived for each connection
  read,       \* how many of them are in its buffer or dispatched
  served,     \* how many of them are dispatched
  greeted, waiting, listening,   \* fields of Client, as sets of connections
  waits,      \* the PendingWaits
  shown,      \* the condition the waits of this model are about
  dirty,      \* root.version() differs from last_published_version
  replies,    \* history: how often each request was answered, 0 once broken
  broken,     \* history: connections an answer could not be written to
  visited,    \* history: the connections this poll has read
  behind,     \* history: subscribers not yet told of a change they missed
  calm        \* history: ticks since the last change, up to StillTime

loopVars == <<phase, index, closed, visited>>
netVars == <<backlog, peer, sent>>
uiVars == <<shown, dirty, behind, calm>>
answerVars == <<replies, broken>>
vars == <<loopVars, netVars, uiVars, answerVars, clients, read, served, greeted,
          waiting, listening, waits>>

Requests(c) == 1..MaxRequests[c]
Alive == {clients[i] : i \in 1..Len(clients)}
Waits == [client : Connections, request : Nat, kind : Kinds,
          due : Nat, still : 0..StillTime, moved : BOOLEAN, left : Nat]

Init ==
  /\ phase = "idle" /\ index = 1 /\ closed = FALSE /\ visited = {}
  /\ clients = <<>> /\ backlog = <<>>
  /\ peer = [c \in Connections |-> "new"]
  /\ sent = [c \in Connections |-> 0]
  /\ read = [c \in Connections |-> 0]
  /\ served = [c \in Connections |-> 0]
  /\ greeted = {} /\ waiting = {} /\ listening = {} /\ waits = {}
  /\ shown = FALSE /\ dirty = TRUE /\ behind = {} /\ calm = 0
  /\ replies = [c \in Connections |-> [n \in Requests(c) |-> 0]]
  /\ broken = {}

---------------------------------------------------------------------------
(* The peers, the clock and the application.  They move between two calls  *)
(* of poll: what comes while poll is under way is read as if it had come   *)
(* before, or in the next call, and a tick is longer than a poll.          *)

Connect(c) ==
  /\ phase = "idle" /\ peer[c] = "new"
  /\ peer' = [peer EXCEPT ![c] = "open"]
  /\ backlog' = Append(backlog, c)
  /\ UNCHANGED <<loopVars, uiVars, answerVars, sent, clients, read, served,
                 greeted, waiting, listening, waits>>

Send(c) ==
  /\ phase = "idle" /\ peer[c] = "open" /\ sent[c] < MaxRequests[c]
  /\ sent' = [sent EXCEPT ![c] = @ + 1]
  /\ UNCHANGED <<loopVars, uiVars, answerVars, peer, backlog, clients, read,
                 served, greeted, waiting, listening, waits>>

Hangup(c) ==
  /\ phase = "idle" /\ peer[c] = "open"
  /\ peer' = [peer EXCEPT ![c] = "closed"]
  /\ UNCHANGED <<loopVars, uiVars, answerVars, backlog, sent, clients, read,
                 served, greeted, waiting, listening, waits>>

Older(w) ==
  [w EXCEPT !.due = IF @ > 0 THEN @ - 1 ELSE 0,
            !.still = IF w.kind = "stable" /\ @ < StillTime THEN @ + 1 ELSE @]

Tick ==
  /\ phase = "idle"
  /\ calm < StillTime \/ \E w \in waits : w.due > 0
  /\ calm' = IF calm < StillTime THEN calm + 1 ELSE calm
  /\ waits' = {Older(w) : w \in waits}
  /\ UNCHANGED <<loopVars, netVars, answerVars, shown, dirty, behind, clients,
                 read, served, greeted, waiting, listening>>

\* The user interface changes: its version grows.
Changed(W) ==
  /\ shown' \in BOOLEAN
  /\ dirty' = TRUE /\ calm' = 0
  /\ behind' = behind \union (listening \intersect Alive)
  /\ waits' = {[w EXCEPT !.moved = (w.kind = "stable")] : w \in W}

ChangeByUser ==
  /\ phase = "idle"
  /\ Changed(waits)
  /\ UNCHANGED <<loopVars, netVars, answerVars, clients, read, served, greeted,
                 waiting, listening>>

---------------------------------------------------------------------------
(* Pieces of the handlers.                                                 *)

current == clients[index]
request == served[current] + 1

\* send: a peer that is gone or does not read, and an answer above the frame
\* limit, lose the answer.  respond and fail do not look at the result, and
\* the server goes on; what the peer then makes of the stream is left out.
Answer(A) ==
  \E B \in SUBSET ({a[1] : a \in A} \intersect Fragile) :
    /\ broken' = broken \union B
    /\ replies' = [c \in Connections |-> [n \in Requests(c) |->
         IF c \in broken' THEN 0
         ELSE IF <<c, n>> \in A THEN replies[c][n] + 1 ELSE replies[c][n]]]

Served == served' = [served EXCEPT ![current] = request]

\* Mutant: the waits of the client stay.
DroppedAlone ==
  /\ peer' = [peer EXCEPT ![current] = "closed"]
  /\ sent' = [sent EXCEPT ![current] = 0]
  /\ read' = [read EXCEPT ![current] = 0]
  /\ served' = [served EXCEPT ![current] = 0]
  /\ replies' = [replies EXCEPT ![current] = [n \in Requests(current) |-> 0]]
  /\ broken' = broken \ {current}
  /\ clients' = [i \in 1..(Len(clients) - 1) |->
                   IF i < index THEN clients[i] ELSE clients[i + 1]]
  /\ waits' = waits
  /\ greeted' = greeted \ {current}
  /\ waiting' = waiting \ {current}
  /\ listening' = listening \ {current}
  /\ behind' = behind \ {current}

\* drop_client, for the client the loop is at: its stream and its buffer are
\* gone and its waits go with it.  The next client moves to its index.
Dropped ==
  /\ peer' = [peer EXCEPT ![current] = "closed"]
  /\ sent' = [sent EXCEPT ![current] = 0]
  /\ read' = [read EXCEPT ![current] = 0]
  /\ served' = [served EXCEPT ![current] = 0]
  /\ replies' = [replies EXCEPT ![current] = [n \in Requests(current) |-> 0]]
  /\ broken' = broken \ {current}
  /\ clients' = [i \in 1..(Len(clients) - 1) |->
                   IF i < index THEN clients[i] ELSE clients[i + 1]]
  /\ waits' = {w \in waits : w.client # current}
  /\ greeted' = greeted \ {current}
  /\ waiting' = waiting \ {current}
  /\ listening' = listening \ {current}
  /\ behind' = behind \ {current}

---------------------------------------------------------------------------
(* poll, up to the frames of a client.                                     *)

\* accept_clients takes the whole backlog.
BeginFrame ==
  /\ phase = "idle"
  /\ phase' = "read" /\ index' = 1 /\ closed' = FALSE /\ visited' = {}
  /\ waits' = {[w EXCEPT !.left = IF @ > 0 THEN @ - 1 ELSE 0] : w \in waits}
  /\ clients' = clients \o backlog /\ backlog' = <<>>
  /\ UNCHANGED <<uiVars, answerVars, peer, sent, read, served, greeted, waiting,
                 listening>>

\* The end of the stream is seen once there is nothing left to read, and
\* possibly in the same round.
ReadClient ==
  /\ phase = "read" /\ index <= Len(clients)
  /\ read' = [read EXCEPT ![current] = sent[current]]
  /\ closed' \in BOOLEAN
  /\ closed' => peer[current] = "closed"
  /\ read[current] = sent[current] /\ peer[current] = "closed" => closed'
  /\ visited' = visited \union {current}
  /\ phase' = "serve"
  /\ UNCHANGED <<netVars, uiVars, answerVars, index, clients, served, greeted,
                 waiting, listening, waits>>

---------------------------------------------------------------------------
(* dispatch_frame.                                                         *)

\* Mutant: a frame that has not arrived in full is dispatched.
DispatchingEarly ==
  /\ phase = "serve"
  /\ served[current] < MaxRequests[current]
  /\ served[current] <= read[current]

Dispatching ==
  phase = "serve" /\ served[current] < read[current]

\* A client that may call methods and has no wait pending.
Calling ==
  Dispatching /\ current \in greeted /\ current \notin waiting

\* Not JSON, or no method: answered whoever asks, before any gate.
BadFrame ==
  /\ Dispatching /\ Served
  /\ Answer({<<current, request>>})
  /\ UNCHANGED <<loopVars, netVars, uiVars, clients, read, greeted, waiting,
                 listening, waits>>

\* A length of zero or above the limit: no answer, the rest is not looked at.
BadLength ==
  /\ Dispatching /\ ~closed
  /\ closed' = TRUE
  /\ read' = [read EXCEPT ![current] = served[current]]
  /\ UNCHANGED <<phase, index, visited, netVars, uiVars, answerVars, clients,
                 served, greeted, waiting, listening, waits>>

\* A wrong token, or another method than hello and ping before hello: a last
\* answer.  The loop goes on with the client that is now at index.
Reject ==
  /\ Dispatching /\ current \notin greeted
  /\ Dropped
  /\ phase' = "read" /\ closed' = FALSE
  /\ UNCHANGED <<index, visited, backlog, shown, dirty, calm>>

\* It may subscribe at once.
Hello(on) ==
  /\ Dispatching /\ current \notin greeted
  /\ Served /\ Answer({<<current, request>>})
  /\ greeted' = greeted \union {current}
  /\ listening' = IF on THEN listening \union {current} ELSE listening
  /\ UNCHANGED <<loopVars, netVars, uiVars, clients, read, waiting, waits>>

\* While a wait is pending every other request is refused at once.
Refuse ==
  /\ Dispatching /\ current \in waiting
  /\ Served /\ Answer({<<current, request>>})
  /\ UNCHANGED <<loopVars, netVars, uiVars, clients, read, greeted, waiting,
                 listening, waits>>

\* A method that changes nothing here, or fails; ping is one, and so are
\* shutdown and quit: the loop they ask to end may end at any time.
Look ==
  /\ Dispatching /\ current \notin waiting
  /\ Served /\ Answer({<<current, request>>})
  /\ UNCHANGED <<loopVars, netVars, uiVars, clients, read, greeted, waiting,
                 listening, waits>>

\* set, invoke, ui.create, ui.remove, input.
Drive ==
  /\ Calling
  /\ Served /\ Answer({<<current, request>>})
  /\ Changed(waits)
  /\ UNCHANGED <<loopVars, netVars, clients, read, greeted, waiting, listening>>

\* handle_events, or hello said again, with or without ui.changed among the
\* kinds.
Subscribe(on) ==
  /\ Calling
  /\ Served /\ Answer({<<current, request>>})
  /\ listening' = IF on THEN listening \union {current} ELSE listening \ {current}
  /\ behind' = IF on THEN behind ELSE behind \ {current}
  /\ UNCHANGED <<loopVars, netVars, shown, dirty, calm, clients, read, greeted,
                 waiting, waits>>

\* wait_satisfied, for the conditions that look at the interface.
Satisfied(kind) ==
  \/ kind = "element" /\ shown
  \/ kind = "gone" /\ ~shown

\* handle_wait with a condition that holds already.
WaitOver(kind) ==
  /\ Calling /\ Satisfied(kind)
  /\ Served /\ Answer({<<current, request>>})
  /\ UNCHANGED <<loopVars, netVars, uiVars, clients, read, greeted, waiting,
                 listening, waits>>

\* handle_wait, deferred: poll_waits will answer.
WaitBegin(kind, timeout, frames) ==
  /\ Calling /\ ~Satisfied(kind)
  /\ kind # "frames" => frames = 0
  /\ kind = "frames" => frames \in Frames
  /\ Served
  /\ waiting' = waiting \union {current}
  /\ waits' = waits \union
       {[client |-> current, request |-> request, kind |-> kind, due |-> timeout,
         still |-> 0, moved |-> FALSE, left |-> frames]}
  /\ UNCHANGED <<loopVars, netVars, uiVars, answerVars, clients, read, greeted,
                 listening>>

\* Mutant: after a drop the loop goes to the next index.
EndClientSkipping ==
  /\ phase = "serve" /\ served[current] = read[current]
  /\ phase' = "read" /\ closed' = FALSE
  /\ index' = index + 1
  /\ \/ closed /\ Dropped
     \/ /\ ~closed
        /\ UNCHANGED <<peer, sent, answerVars, read, served, clients, waits,
                       greeted, waiting, listening, behind>>
  /\ UNCHANGED <<visited, backlog, shown, dirty, calm>>

\* Nothing left to dispatch: a closed client is dropped.
EndClient ==
  /\ phase = "serve" /\ served[current] = read[current]
  /\ phase' = "read" /\ closed' = FALSE
  /\ \/ /\ closed /\ Dropped /\ index' = index
     \/ /\ ~closed /\ index' = index + 1
        /\ UNCHANGED <<peer, sent, answerVars, read, served, clients, waits,
                       greeted, waiting, listening, behind>>
  /\ UNCHANGED <<visited, backlog, shown, dirty, calm>>

---------------------------------------------------------------------------
(* poll, after the clients.                                                *)

\* Mutant: the quiet time goes on.
LookedAway(w) == [w EXCEPT !.moved = FALSE]

\* A change found by this poll starts the quiet time anew.
Looked(w) ==
  IF w.moved THEN [w EXCEPT !.moved = FALSE, !.still = 0] ELSE w

Settled(w) == w.kind = "stable" /\ Looked(w).still >= StillTime

\* Mutant: no deadline.
OverInTime(w) ==
  \/ Settled(w)
  \/ w.kind = "frames" /\ w.left = 0
  \/ Satisfied(w.kind)

Over(w) ==
  \/ Settled(w)
  \/ w.kind = "frames" /\ w.left = 0
  \/ Satisfied(w.kind)
  \/ w.due = 0

\* Mutant: a wait that times out is answered and not erased.
PollWaitsAgain ==
  /\ phase = "read" /\ index > Len(clients)
  /\ LET over == {w \in waits : Over(w)} IN
       /\ Answer({<<w.client, w.request>> : w \in over})
       /\ waiting' = waiting \ {w.client : w \in over}
       /\ waits' = {Looked(w) : w \in {v \in waits : v.due = 0 \/ ~Over(v)}}
  /\ phase' = IF dirty /\ clients # <<>> THEN "publish" ELSE "idle"
  /\ dirty' = FALSE /\ index' = 1 /\ visited' = {}
  /\ UNCHANGED <<closed, netVars, shown, behind, calm, clients, read, served,
                 greeted, listening>>

\* poll_waits, then the version check of publish_changes.
PollWaits ==
  /\ phase = "read" /\ index > Len(clients)
  /\ LET over == {w \in waits : Over(w)} IN
       /\ Answer({<<w.client, w.request>> : w \in over})
       /\ waiting' = waiting \ {w.client : w \in over}
       /\ waits' = {Looked(w) : w \in waits \ over}
  /\ phase' = IF dirty /\ clients # <<>> THEN "publish" ELSE "idle"
  /\ dirty' = FALSE /\ index' = 1 /\ visited' = {}
  /\ UNCHANGED <<closed, netVars, shown, behind, calm, clients, read, served,
                 greeted, listening>>

\* Mutant: after a drop the iterator moves on.
PublishSkipping ==
  /\ phase = "publish"
  /\ index' = index + 1
  /\ \/ current \in listening /\ Dropped
     \/ /\ behind' = behind \ {current}
        /\ UNCHANGED <<peer, sent, answerVars, read, served, clients, waits,
                       greeted, waiting, listening>>
  /\ phase' = IF index' <= Len(clients') THEN phase ELSE "idle"
  /\ UNCHANGED <<closed, visited, backlog, shown, dirty, calm>>

\* publish_to_clients: a subscriber the event cannot be written to is dropped,
\* and the iterator is at the one that took its place.
PublishNext ==
  /\ phase = "publish"
  /\ \/ /\ current \in listening
        /\ Dropped /\ index' = index
     \/ /\ index' = index + 1
        /\ behind' = behind \ {current}
        /\ UNCHANGED <<peer, sent, answerVars, read, served, clients, waits,
                       greeted, waiting, listening>>
  /\ phase' = IF index' <= Len(clients') THEN phase ELSE "idle"
  /\ UNCHANGED <<closed, visited, backlog, shown, dirty, calm>>

\* The frame loop ends, because the window is closed or because of
\* request_quit, and the destructor calls stop.
Stop ==
  /\ phase = "idle"
  /\ phase' = "stopped"
  /\ peer' = [c \in Connections |-> "closed"]
  /\ sent' = [c \in Connections |-> 0]
  /\ read' = [c \in Connections |-> 0]
  /\ served' = [c \in Connections |-> 0]
  /\ clients' = <<>> /\ backlog' = <<>> /\ waits' = {}
  /\ greeted' = {} /\ waiting' = {} /\ listening' = {} /\ behind' = {}
  /\ UNCHANGED <<index, closed, visited, answerVars, shown, dirty, calm>>

Serve ==
  \/ BadFrame \/ BadLength \/ Reject \/ Refuse \/ Look \/ Drive
  \/ \E on \in BOOLEAN : Hello(on) \/ Subscribe(on)
  \/ \E kind \in Kinds : WaitOver(kind)
  \/ \E kind \in Kinds, timeout \in Timeouts, frames \in Frames \union {0} :
       WaitBegin(kind, timeout, frames)

Poll ==
  \/ BeginFrame \/ ReadClient \/ Serve \/ EndClient \/ PollWaits
  \/ PublishNext

Next ==
  \/ \E c \in Connections : Connect(c) \/ Send(c) \/ Hangup(c)
  \/ Tick \/ ChangeByUser
  \/ Poll \/ Stop

Spec == Init /\ [][Next]_vars

\* The frame loop calls poll again and again until it ends, and time passes.
FairSpec == Spec /\ WF_vars(Poll) /\ SF_vars(Tick)

(***************************************************************************)
(* Properties                                                              *)
(***************************************************************************)
TypeOK ==
  /\ phase \in {"idle", "read", "serve", "publish", "stopped"}
  /\ index \in Nat /\ closed \in BOOLEAN /\ visited \subseteq Connections
  /\ clients \in Seq(Connections) /\ backlog \in Seq(Connections)
  /\ peer \in [Connections -> {"new", "open", "closed"}]
  /\ sent \in [Connections -> Nat] /\ read \in [Connections -> Nat]
  /\ served \in [Connections -> Nat]
  /\ \A c \in Connections :
       served[c] <= read[c] /\ read[c] <= sent[c] /\ sent[c] <= MaxRequests[c]
  /\ greeted \subseteq Connections /\ waiting \subseteq Connections
  /\ listening \subseteq Connections /\ waits \subseteq Waits
  /\ shown \in BOOLEAN /\ dirty \in BOOLEAN /\ behind \subseteq Connections
  /\ calm \in 0..StillTime
  /\ \A c \in Connections : replies[c] \in [Requests(c) -> Nat]
  /\ broken \subseteq Fragile

\* A wait belongs to a client that is there (poll_waits writes to its owner
\* without looking) and that knows it waits, and a client that refuses its
\* requests because of a wait has exactly one.
WaitsMatchClients ==
  /\ \A w \in waits : w.client \in Alive \intersect waiting
  /\ \A c \in waiting : \E w \in waits : \A v \in waits : v.client = c <=> v = w

\* Of every dispatched request of a connected client, on a connection no
\* write has failed on, there is exactly one of an answer and a wait that
\* will answer; a request not dispatched has neither.
EachAnsweredOnce ==
  \A c \in Alive \ broken : \A n \in Requests(c) :
    replies[c][n] + Cardinality({w \in waits : w.client = c /\ w.request = n})
      = IF n <= served[c] THEN 1 ELSE 0

\* Every poll has read every client before it looks at the waits, also when
\* clients before it were dropped on the way.
EveryoneRead ==
  phase = "read" /\ index > Len(clients) => Alive \subseteq visited

\* A subscriber that was not told of a change is still to be told: the change
\* is not published yet, or publishing has not come to the subscriber.
NoChangeMissed ==
  \A c \in behind :
    /\ c \in listening
    /\ dirty \/ \E i \in index..Len(clients) : phase = "publish" /\ clients[i] = c

\* A wait for stillness is only satisfied when nothing has changed for the
\* whole quiet time, whatever happened in the poll that says so.
StableMeansStill ==
  \A w \in waits : Settled(w) => calm = StillTime

\* Again and again the server has caught up with a client, whatever happens
\* to the others: every frame is dispatched, and every wait is answered,
\* because its condition holds or because its time is over.
CatchesUp ==
  \A c \in Connections :
    []<>(served[c] = sent[c] /\ c \notin waiting)
=============================================================================
