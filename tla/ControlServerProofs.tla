------------------------ MODULE ControlServerProofs ------------------------
(***************************************************************************)
(* Theorems about ControlServer for any connections, any number of         *)
(* requests, and any timeouts and conditions.                              *)
(***************************************************************************)
EXTENDS ControlServer, FiniteSetTheorems, TLAPS

Queued == {backlog[i] : i \in 1..Len(backlog)}

\* A wait will answer request n of connection c.
Owed(c, n) == \E w \in waits : w.client = c /\ w.request = n

Types == TypeOK /\ replies = [c \in Connections |-> replies[c]]

\* A connection is in one place of one of the two lists, once it is made.
Places ==
  /\ \A i, j \in 1..Len(clients) : clients[i] = clients[j] => i = j
  /\ \A i, j \in 1..Len(backlog) : backlog[i] = backlog[j] => i = j
  /\ Alive \intersect Queued = {}
  /\ \A c \in Alive \union Queued : peer[c] # "new"

Members == greeted \subseteq Alive /\ waiting \subseteq Alive /\ listening \subseteq Alive

WaitsFit ==
  /\ \A w \in waits : w.client \in waiting /\ w.request <= served[w.client]
  /\ \A c \in waiting : \E w \in waits : w.client = c
  /\ \A v, w \in waits : v.client = w.client => v = w

\* The loop is at a client, and has read the ones before it.
LoopFit ==
  /\ index >= 1
  /\ phase \in {"serve", "publish"} => index <= Len(clients)
  /\ phase \in {"read", "serve"} =>
       \A i \in 1..Len(clients) : i < index => clients[i] \in visited
  /\ phase = "serve" => clients[index] \in visited
  /\ phase = "stopped" => clients = <<>>

\* The quiet time a wait has counted is quiet time, unless a change it has
\* not looked at came between.
QuietFit == \A w \in waits : w.kind = "stable" => w.moved \/ w.still <= calm

AnswersFit ==
  phase # "stopped" =>
    \A c \in Connections \ broken : \A n \in Requests(c) :
      replies[c][n] = IF n <= served[c] /\ ~Owed(c, n) THEN 1 ELSE 0

Inv ==
  /\ Types
  /\ Places
  /\ Members
  /\ WaitsFit
  /\ LoopFit
  /\ QuietFit
  /\ AnswersFit
  /\ NoChangeMissed

---------------------------------------------------------------------------
(* What the properties say follows from the invariant.                     *)

LEMMA InvWaits == Inv => WaitsMatchClients
<1> SUFFICES ASSUME Inv PROVE WaitsMatchClients
  OBVIOUS
<1>1. \A w \in waits : w.client \in Alive \intersect waiting
  BY DEF Inv, WaitsFit, Members
<1>2. ASSUME NEW c \in waiting
      PROVE  \E w \in waits : \A v \in waits : v.client = c <=> v = w
  <2>1. PICK w \in waits : w.client = c
    BY DEF Inv, WaitsFit
  <2> QED BY <2>1 DEF Inv, WaitsFit
<1> QED BY <1>1, <1>2 DEF WaitsMatchClients

LEMMA InvAnswered == Inv => EachAnsweredOnce
<1> SUFFICES ASSUME Inv, NEW c \in Alive \ broken, NEW n \in Requests(c)
             PROVE  replies[c][n]
                      + Cardinality({w \in waits : w.client = c /\ w.request = n})
                      = IF n <= served[c] THEN 1 ELSE 0
  BY DEF EachAnsweredOnce
<1> DEFINE W == {w \in waits : w.client = c /\ w.request = n}
<1>1. c \in Connections /\ phase # "stopped"
  BY DEF Inv, Types, TypeOK, Alive, LoopFit
<1>2. CASE Owed(c, n)
  <2>1. PICK w \in waits : w.client = c /\ w.request = n
    BY <1>2 DEF Owed
  <2>2. W = {w}
    BY <2>1 DEF Inv, WaitsFit
  <2>3. Cardinality(W) = 1
    BY <2>2, FS_Singleton
  <2>4. n <= served[c]
    BY <2>1 DEF Inv, WaitsFit
  <2>5. replies[c][n] = 0
    BY <1>1, <1>2 DEF Inv, AnswersFit
  <2> QED BY <2>3, <2>4, <2>5
<1>3. CASE ~Owed(c, n)
  <2>1. W = {}
    BY <1>3 DEF Owed
  <2>2. Cardinality(W) = 0
    BY <2>1, FS_EmptySet
  <2>3. replies[c][n] = IF n <= served[c] THEN 1 ELSE 0
    BY <1>1, <1>3 DEF Inv, AnswersFit
  <2> QED BY <2>2, <2>3
<1> QED BY <1>2, <1>3

LEMMA InvRead == Inv => EveryoneRead
BY DEF Inv, LoopFit, EveryoneRead, Alive, Types, TypeOK

LEMMA InvStill == Inv => StableMeansStill
<1> SUFFICES ASSUME Inv, NEW w \in waits, Settled(w) PROVE calm = StillTime
  BY DEF StableMeansStill
<1>1. w \in Waits /\ calm \in 0..StillTime /\ StillTime \in Nat
  BY BoundsAssumption DEF Inv, Types, TypeOK
<1>2. w.moved \/ w.still <= calm
  BY DEF Inv, QuietFit, Settled
<1>3. w.moved => Looked(w).still = 0
  BY <1>1 DEF Looked, Waits
<1>4. Looked(w).still >= StillTime /\ (~w.moved => Looked(w).still = w.still)
  BY DEF Settled, Looked
<1> QED BY <1>1, <1>2, <1>3, <1>4 DEF Waits

---------------------------------------------------------------------------
(* Each part of the invariant looks at a few of the variables.             *)

LEMMA PlacesSame == ASSUME Places, UNCHANGED <<clients, backlog, peer>> PROVE Places'
<1>1. Alive' = Alive /\ Queued' = Queued
  BY DEF Alive, Queued
<1> QED BY <1>1 DEF Places

LEMMA MembersSame ==
  ASSUME Members, UNCHANGED <<clients, greeted, waiting, listening>> PROVE Members'
BY DEF Members, Alive

LEMMA WaitsSame ==
  ASSUME WaitsFit, QuietFit, UNCHANGED <<waits, waiting, served, calm>>
  PROVE  WaitsFit' /\ QuietFit'
BY DEF WaitsFit, QuietFit

LEMMA LoopSame ==
  ASSUME LoopFit, UNCHANGED <<phase, index, clients, visited>> PROVE LoopFit'
BY DEF LoopFit

LEMMA MissedSame ==
  ASSUME NoChangeMissed, UNCHANGED <<behind, listening, dirty, index, clients, phase>>
  PROVE  NoChangeMissed'
BY DEF NoChangeMissed

---------------------------------------------------------------------------
(* Pieces of the handlers.                                                 *)

\* What a wait is owed does not depend on its clock.
LEMMA WaitsMapped ==
  ASSUME WaitsFit, NEW f,
         \A w \in waits : f[w].client = w.client /\ f[w].request = w.request,
         waits' = {f[w] : w \in waits}, waiting' = waiting, served' = served
  PROVE  WaitsFit' /\ \A c, n : Owed(c, n)' <=> Owed(c, n)
<1>1. \A c, n : Owed(c, n)' <=> Owed(c, n)
  BY DEF Owed
<1>2. \A w \in waits' : w.client \in waiting' /\ w.request <= served'[w.client]
  BY DEF WaitsFit
<1>3. \A c \in waiting' : \E w \in waits' : w.client = c
  BY DEF WaitsFit
<1>4. \A v, w \in waits' : v.client = w.client => v = w
  BY DEF WaitsFit
<1> QED BY <1>1, <1>2, <1>3, <1>4 DEF WaitsFit

\* The loop is at a connection while frames are dispatched or changes published.
LEMMA AtClient ==
  ASSUME Inv, phase \in {"serve", "publish"}
  PROVE  index \in 1..Len(clients) /\ current \in Alive /\ current \in Connections
BY DEF Inv, Types, TypeOK, LoopFit, current, Alive

LEMMA AtRequest ==
  ASSUME Inv, Dispatching
  PROVE  /\ phase = "serve" /\ current \in Alive /\ current \in Connections
         /\ request \in Requests(current) /\ request = served[current] + 1
         /\ served[current] \in Nat /\ request <= read[current]
<1>1. phase = "serve" /\ served[current] < read[current]
  BY DEF Dispatching
<1>2. current \in Alive /\ current \in Connections
  BY <1>1, AtClient
<1>3. /\ served[current] \in Nat /\ read[current] \in Nat /\ MaxRequests[current] \in Nat
      /\ read[current] <= MaxRequests[current]
  BY <1>2, BoundsAssumption DEF Inv, Types, TypeOK
<1> QED BY <1>1, <1>2, <1>3 DEF request, Requests

\* Answering keeps the table of answers a table.
LEMMA AnswerTypes ==
  ASSUME Types, NEW A, Answer(A)
  PROVE  /\ replies' = [c \in Connections |-> replies'[c]]
         /\ \A c \in Connections : replies'[c] \in [Requests(c) -> Nat]
         /\ broken \subseteq broken' /\ broken' \subseteq Fragile
         /\ \A c \in Connections \ broken' : \A n \in Requests(c) :
              replies'[c][n] = IF <<c, n>> \in A THEN replies[c][n] + 1 ELSE replies[c][n]
<1>1. PICK B \in SUBSET ({a[1] : a \in A} \intersect Fragile) :
        /\ broken' = broken \union B
        /\ replies' = [c \in Connections |-> [n \in Requests(c) |->
             IF c \in broken' THEN 0
             ELSE IF <<c, n>> \in A THEN replies[c][n] + 1 ELSE replies[c][n]]]
  BY DEF Answer
<1>2. \A c \in Connections : replies[c] \in [Requests(c) -> Nat]
  BY DEF Types, TypeOK
<1> QED BY <1>1, <1>2 DEF Types, TypeOK

\* The current request is dispatched.
LEMMA ServedTypes ==
  ASSUME Inv, Dispatching, Served
  PROVE  /\ served' \in [Connections -> Nat] /\ served'[current] = request
         /\ \A c \in Connections : served'[c] <= read[c]
         /\ \A c \in Connections : c # current => served'[c] = served[c]
         /\ \A c \in Connections : served[c] <= served'[c]
<1>1. /\ served \in [Connections -> Nat] /\ read \in [Connections -> Nat]
      /\ \A c \in Connections : served[c] <= read[c]
  BY DEF Inv, Types, TypeOK
<1>2. served' = [served EXCEPT ![current] = request]
  BY DEF Served
<1>3. /\ current \in Connections /\ request = served[current] + 1
      /\ request <= read[current]
  BY AtRequest
<1> QED BY <1>1, <1>2, <1>3

\* A request that is dispatched and answered is answered once.
LEMMA AnswerFits ==
  ASSUME Inv, Dispatching, Served, Answer({<<current, request>>}), phase' = phase,
         \A c, n : Owed(c, n)' <=> Owed(c, n)
  PROVE  AnswersFit'
<1> SUFFICES ASSUME NEW c \in Connections \ broken', NEW n \in Requests(c)
             PROVE  replies'[c][n] = IF n <= served'[c] /\ ~Owed(c, n) THEN 1 ELSE 0
  BY DEF AnswersFit
<1>1. phase = "serve" /\ served[current] \in Nat /\ request = served[current] + 1
  BY AtRequest
<1>2. /\ c \notin broken
      /\ replies'[c][n] = IF <<c, n>> \in {<<current, request>>} THEN replies[c][n] + 1
                          ELSE replies[c][n]
  <2> DEFINE A == {<<current, request>>}
  <2>1. Answer(A) /\ Types
    BY DEF Inv
  <2> HIDE DEF A
  <2>2. /\ broken \subseteq broken'
        /\ replies'[c][n] = IF <<c, n>> \in A THEN replies[c][n] + 1 ELSE replies[c][n]
    BY <2>1, AnswerTypes
  <2> QED BY <2>2 DEF A
<1>3. replies[c][n] = IF n <= served[c] /\ ~Owed(c, n) THEN 1 ELSE 0
  BY <1>1, <1>2 DEF Inv, AnswersFit
<1>4. n \in Nat
  BY BoundsAssumption DEF Requests
<1>5. CASE c = current /\ n = request
  <2>1. ~Owed(c, n)
    BY <1>1, <1>5 DEF Owed, Inv, WaitsFit
  <2> QED BY <2>1, <1>1, <1>2, <1>3, <1>5, ServedTypes
<1>6. CASE c = current /\ n # request
  BY <1>1, <1>2, <1>3, <1>4, <1>6, ServedTypes
<1>7. CASE c # current
  BY <1>2, <1>3, <1>7, ServedTypes
<1> QED BY <1>5, <1>6, <1>7

\* Nobody waits for what is dispatched now.
LEMMA ServedWaits ==
  ASSUME Inv, Dispatching, Served, waits' = waits, waiting' = waiting
  PROVE  WaitsFit' /\ \A c, n : Owed(c, n)' <=> Owed(c, n)
<1>1. \A w \in waits : w.client \in Connections /\ w.request \in Nat
  BY DEF Inv, Types, TypeOK, Waits
<1>2. \A c \in Connections : served[c] <= served'[c] /\ served[c] \in Nat /\ served'[c] \in Nat
  BY ServedTypes DEF Inv, Types, TypeOK
<1>3. \A w \in waits' : w.client \in waiting' /\ w.request <= served'[w.client]
  <2> SUFFICES ASSUME NEW w \in waits
               PROVE  w.client \in waiting /\ w.request <= served'[w.client]
    OBVIOUS
  <2>1. w.client \in waiting /\ w.request <= served[w.client]
    BY DEF Inv, WaitsFit
  <2> QED BY <2>1, <1>1, <1>2
<1> QED BY <1>3 DEF Inv, WaitsFit, Owed


\* Dropping the client the loop is at takes it out of the list, and nothing
\* of it stays.
LEMMA DropTypes ==
  ASSUME Inv, phase \in {"serve", "publish"}, Dropped
  PROVE  /\ clients' \in Seq(Connections) /\ Len(clients') = Len(clients) - 1
         /\ \A i \in 1..Len(clients') :
              clients'[i] = IF i < index THEN clients[i] ELSE clients[i + 1]
         /\ \A i, j \in 1..Len(clients') : clients'[i] = clients'[j] => i = j
         /\ Alive' = Alive \ {current} /\ current \in Connections
<1>1. /\ index \in 1..Len(clients) /\ clients \in Seq(Connections) /\ Len(clients) \in Nat
      /\ current = clients[index] /\ current \in Connections
      /\ \A i, j \in 1..Len(clients) : clients[i] = clients[j] => i = j
  <2>1. clients \in Seq(Connections)
    BY DEF Inv, Types, TypeOK
  <2>2. \A i, j \in 1..Len(clients) : clients[i] = clients[j] => i = j
    BY DEF Inv, Places
  <2> QED BY <2>1, <2>2, AtClient DEF current
<1>2. clients' = [i \in 1..(Len(clients) - 1) |->
                    IF i < index THEN clients[i] ELSE clients[i + 1]]
  BY DEF Dropped
<1>3. Len(clients) - 1 \in Nat
  BY <1>1
<1>4. \A i \in 1..(Len(clients) - 1) :
        (IF i < index THEN clients[i] ELSE clients[i + 1]) \in Connections
  BY <1>1
<1>5. clients' \in Seq(Connections) /\ Len(clients') = Len(clients) - 1
  BY <1>2, <1>3, <1>4
<1>6. \A i \in 1..Len(clients') :
        clients'[i] = IF i < index THEN clients[i] ELSE clients[i + 1]
  BY <1>2, <1>5
<1>7. \A i, j \in 1..Len(clients') : clients'[i] = clients'[j] => i = j
  <2> SUFFICES ASSUME NEW i \in 1..Len(clients'), NEW j \in 1..Len(clients'),
                      clients'[i] = clients'[j]
               PROVE  i = j
    OBVIOUS
  <2> DEFINE at(k) == IF k < index THEN k ELSE k + 1
  <2>1. /\ at(i) \in 1..Len(clients) /\ clients'[i] = clients[at(i)]
        /\ at(j) \in 1..Len(clients) /\ clients'[j] = clients[at(j)]
    BY <1>1, <1>5, <1>6
  <2>2. at(i) = at(j)
    BY <2>1, <1>1
  <2> QED BY <2>2, <1>1
<1>8. Alive' = Alive \ {current}
  <2>1. ASSUME NEW c \in Alive' PROVE c \in Alive \ {current}
    <3>1. PICK i \in 1..Len(clients') : clients'[i] = c
      BY <2>1 DEF Alive
    <3>2. CASE i < index
      BY <3>1, <3>2, <1>1, <1>5, <1>6 DEF Alive
    <3>3. CASE i >= index
      <4>1. c = clients[i + 1] /\ i + 1 \in 1..Len(clients) /\ i + 1 # index
        BY <3>1, <3>3, <1>1, <1>5, <1>6
      <4> QED BY <4>1, <1>1 DEF Alive
    <3> QED BY <3>2, <3>3, <1>1
  <2>2. ASSUME NEW c \in Alive \ {current} PROVE c \in Alive'
    <3>1. PICK i \in 1..Len(clients) : clients[i] = c
      BY <2>2 DEF Alive
    <3>2. i # index
      BY <3>1, <2>2, <1>1
    <3>3. CASE i < index
      <4>1. i \in 1..Len(clients') /\ clients'[i] = c
        BY <3>1, <3>3, <1>1, <1>5, <1>6
      <4> QED BY <4>1 DEF Alive
    <3>4. CASE i > index
      <4>1. i - 1 \in 1..Len(clients') /\ clients'[i - 1] = c
        BY <3>1, <3>4, <1>1, <1>5, <1>6
      <4> QED BY <4>1 DEF Alive
    <3> QED BY <3>2, <3>3, <3>4, <1>1
  <2> QED BY <2>1, <2>2
<1> QED BY <1>1, <1>5, <1>6, <1>7, <1>8

\* Dropping a client keeps what does not depend on where the loop is.
LEMMA DropKeeps ==
  ASSUME Inv, phase \in {"serve", "publish"}, Dropped, index' = index,
         phase' \in {"read", "publish", "idle"}, closed' \in BOOLEAN,
         UNCHANGED <<visited, backlog, shown, dirty, calm>>
  PROVE  Types' /\ Places' /\ Members' /\ WaitsFit' /\ QuietFit' /\ AnswersFit'
<1>1. Types'
  <2>1. Types
    BY DEF Inv
  <2>2. clients' \in Seq(Connections) /\ current \in Connections
    BY DropTypes
  <2>3. replies' = [replies EXCEPT ![current] = [n \in Requests(current) |-> 0]]
    BY DEF Dropped
  <2>4. /\ replies' = [c \in Connections |-> replies'[c]]
        /\ \A c \in Connections : replies'[c] \in [Requests(c) -> Nat]
    BY <2>1, <2>2, <2>3 DEF Types, TypeOK
  <2>5. /\ peer' \in [Connections -> {"new", "open", "closed"}]
        /\ sent' \in [Connections -> Nat] /\ read' \in [Connections -> Nat]
        /\ served' \in [Connections -> Nat]
        /\ \A c \in Connections :
             served'[c] <= read'[c] /\ read'[c] <= sent'[c] /\ sent'[c] <= MaxRequests[c]
    BY <2>1, <2>2, BoundsAssumption DEF Types, TypeOK, Dropped
  <2> QED BY <2>1, <2>2, <2>4, <2>5 DEF Types, TypeOK, Dropped
<1>2. Places'
  <2>1. Queued' = Queued
    BY DEF Queued
  <2>2. Alive' = Alive \ {current}
    BY DropTypes
  <2>3. \A c \in Connections : c # current => peer'[c] = peer[c]
    BY DEF Inv, Types, TypeOK, Dropped
  <2>4. current \notin Queued
    BY AtClient DEF Inv, Places
  <2>5. Alive \subseteq Connections /\ Queued \subseteq Connections
    <3>1. clients \in Seq(Connections) /\ backlog \in Seq(Connections)
      BY DEF Inv, Types, TypeOK
    <3> QED BY <3>1 DEF Alive, Queued
  <2>6. \A c \in Alive' \union Queued' : peer'[c] # "new"
    BY <2>1, <2>2, <2>3, <2>4, <2>5 DEF Inv, Places
  <2>7. \A i, j \in 1..Len(clients') : clients'[i] = clients'[j] => i = j
    BY DropTypes
  <2> QED BY <2>1, <2>2, <2>6, <2>7 DEF Inv, Places
<1>3. Members'
  BY DropTypes DEF Inv, Members, Dropped
<1>4. \A c \in Connections : c # current => served'[c] = served[c]
  BY DEF Inv, Types, TypeOK, Dropped
<1>5. waits' = {w \in waits : w.client # current} /\ waiting' = waiting \ {current}
  BY DEF Dropped
<1>6. \A w \in waits : w.client \in Connections
  BY DEF Inv, Types, TypeOK, Waits
<1>7. WaitsFit'
  BY <1>4, <1>5, <1>6 DEF Inv, WaitsFit
<1>8. QuietFit'
  BY <1>5 DEF Inv, QuietFit
<1>9. AnswersFit'
  <2> SUFFICES ASSUME NEW c \in Connections \ broken', NEW n \in Requests(c)
               PROVE  replies'[c][n] = IF n <= served'[c] /\ ~Owed(c, n)' THEN 1 ELSE 0
    BY DEF AnswersFit
  <2>1. broken' = broken \ {current} /\ current \in Connections
    BY DropTypes DEF Dropped
  <2>2. CASE c = current
    <3>1. served'[c] = 0 /\ replies'[c][n] = 0
      BY <2>1, <2>2 DEF Inv, Types, TypeOK, Dropped
    <3>2. n \in Nat /\ n >= 1
      BY BoundsAssumption DEF Requests
    <3> QED BY <3>1, <3>2
  <2>3. CASE c # current
    <3>1. served'[c] = served[c] /\ replies'[c] = replies[c] /\ c \notin broken
      BY <2>1, <2>3, <1>4 DEF Inv, Types, Dropped
    <3>2. Owed(c, n)' <=> Owed(c, n)
      BY <2>3, <1>5 DEF Owed
    <3> QED BY <3>1, <3>2 DEF Inv, AnswersFit
  <2> QED BY <2>2, <2>3
<1> QED BY <1>1, <1>2, <1>3, <1>7, <1>8, <1>9

---------------------------------------------------------------------------
(* The peers, the clock and the application.                               *)

LEMMA ConnectKeeps == ASSUME Inv, NEW c \in Connections, Connect(c) PROVE Inv'
<1> USE DEF Connect, loopVars, uiVars, answerVars
<1>1. Types'
  BY DEF Inv, Types, TypeOK
<1>2. Places'
  <2>1. c \notin Alive /\ c \notin Queued
    BY DEF Inv, Places
  <2>2. /\ backlog \in Seq(Connections) /\ peer \in [Connections -> {"new", "open", "closed"}]
        /\ clients \in Seq(Connections)
    BY DEF Inv, Types, TypeOK
  <2>3. /\ Len(backlog') = Len(backlog) + 1 /\ backlog'[Len(backlog) + 1] = c
        /\ \A i \in 1..Len(backlog) : backlog'[i] = backlog[i]
    BY <2>2
  <2>4. Queued' = Queued \union {c} /\ Alive' = Alive
    BY <2>2, <2>3 DEF Queued, Alive
  <2>5. \A i, j \in 1..Len(backlog') : backlog'[i] = backlog'[j] => i = j
    BY <2>1, <2>2, <2>3 DEF Inv, Places, Queued
  <2>6. \A d \in Alive' \union Queued' : peer'[d] # "new"
    <3>1. Alive \subseteq Connections /\ Queued \subseteq Connections
      BY <2>2 DEF Alive, Queued
    <3> QED BY <3>1, <2>2, <2>4 DEF Inv, Places
  <2> QED BY <2>1, <2>4, <2>5, <2>6 DEF Inv, Places
<1>3. Members' /\ WaitsFit' /\ LoopFit' /\ QuietFit' /\ AnswersFit' /\ NoChangeMissed'
  BY DEF Inv, Members, Alive, WaitsFit, LoopFit, QuietFit, AnswersFit, Owed, NoChangeMissed
<1> QED BY <1>1, <1>2, <1>3 DEF Inv

LEMMA PeerKeeps == ASSUME Inv, NEW c \in Connections, Send(c) \/ Hangup(c) PROVE Inv'
<1> USE DEF Send, Hangup, loopVars, uiVars, answerVars
<1>1. /\ peer' \in [Connections -> {"new", "open", "closed"}]
      /\ sent' \in [Connections -> Nat]
      /\ \A d \in Connections : read[d] <= sent'[d] /\ sent'[d] <= MaxRequests[d]
      /\ \A d \in Connections : peer'[d] = "new" => peer[d] = "new"
  <2>1. /\ peer \in [Connections -> {"new", "open", "closed"}]
        /\ sent \in [Connections -> Nat] /\ read \in [Connections -> Nat]
        /\ MaxRequests \in [Connections -> Nat]
        /\ \A d \in Connections : read[d] <= sent[d] /\ sent[d] <= MaxRequests[d]
    BY BoundsAssumption DEF Inv, Types, TypeOK
  <2>2. CASE Send(c)
    BY <2>1, <2>2
  <2>3. CASE Hangup(c)
    BY <2>1, <2>3
  <2> QED BY <2>2, <2>3
<1>2. Types'
  BY <1>1 DEF Inv, Types, TypeOK
<1>4. Places'
  <2>1. Alive \subseteq Connections /\ Queued \subseteq Connections
    <3>1. clients \in Seq(Connections) /\ backlog \in Seq(Connections)
      BY DEF Inv, Types, TypeOK
    <3> QED BY <3>1 DEF Alive, Queued
  <2>2. Alive' = Alive /\ Queued' = Queued
    BY DEF Alive, Queued
  <2> QED BY <1>1, <2>1, <2>2 DEF Inv, Places
<1>3. Members' /\ WaitsFit' /\ LoopFit' /\ QuietFit' /\ AnswersFit' /\ NoChangeMissed'
  BY DEF Inv, Members, Alive, WaitsFit, LoopFit, QuietFit, AnswersFit, Owed, NoChangeMissed
<1> QED BY <1>2, <1>3, <1>4 DEF Inv

\* What of the invariant does not look at the clocks of the waits nor at the
\* user interface.
LEMMA ClocksKeep ==
  ASSUME Inv, NEW f,
         \A w \in waits : f[w].client = w.client /\ f[w].request = w.request,
         waits' = {f[w] : w \in waits}, phase # "stopped", phase' # "stopped",
         UNCHANGED <<peer, broken, replies, clients, backlog, served, greeted, waiting,
                     listening>>
  PROVE  Places' /\ Members' /\ WaitsFit' /\ AnswersFit'
<1>1. WaitsFit' /\ \A c, n : Owed(c, n)' <=> Owed(c, n)
  BY WaitsMapped DEF Inv
<1>2. Places' /\ Members'
  BY PlacesSame, MembersSame DEF Inv
<1>3. AnswersFit'
  BY <1>1 DEF Inv, AnswersFit
<1> QED BY <1>1, <1>2, <1>3

LEMMA OlderType ==
  ASSUME NEW w \in Waits
  PROVE  /\ Older(w) \in Waits /\ Older(w).client = w.client
         /\ Older(w).request = w.request /\ Older(w).kind = w.kind
         /\ Older(w).moved = w.moved
         /\ w.kind = "stable" =>
              Older(w).still = IF w.still < StillTime THEN w.still + 1 ELSE w.still
<1> DEFINE due == IF w.due > 0 THEN w.due - 1 ELSE 0
           still == IF w.kind = "stable" /\ w.still < StillTime THEN w.still + 1
                    ELSE w.still
<1>1. StillTime \in Nat /\ w.due \in Nat /\ w.still \in 0..StillTime
  BY BoundsAssumption DEF Waits
<1>2. due \in Nat /\ still \in 0..StillTime
  BY <1>1
<1>3. Older(w) = [w EXCEPT !.due = due, !.still = still]
  BY DEF Older
<1> HIDE DEF due
<1>4. /\ Older(w) \in Waits /\ Older(w).client = w.client
      /\ Older(w).request = w.request /\ Older(w).kind = w.kind
      /\ Older(w).moved = w.moved /\ Older(w).still = still
  <2> HIDE DEF still
  <2> QED BY <1>2, <1>3 DEF Waits
<1> QED BY <1>4

LEMMA TickKeeps == ASSUME Inv, Tick PROVE Inv'
<1> USE DEF Tick, loopVars, netVars, answerVars
<1> DEFINE f == [w \in waits |-> Older(w)]
<1>1. waits \subseteq Waits /\ calm \in 0..StillTime /\ StillTime \in Nat
  BY BoundsAssumption DEF Inv, Types, TypeOK
<1>2. waits' = {f[w] : w \in waits}
  OBVIOUS
<1>3. Types'
  <2>1. waits' \subseteq Waits
    BY <1>1, OlderType
  <2>2. calm' \in 0..StillTime
    BY <1>1
  <2> QED BY <2>1, <2>2 DEF Inv, Types, TypeOK
<1>4. Places' /\ Members' /\ WaitsFit' /\ AnswersFit'
  <2>1. \A w \in waits : f[w].client = w.client /\ f[w].request = w.request
    BY <1>1, OlderType
  <2> HIDE DEF f
  <2> QED BY <1>2, <2>1, ClocksKeep
<1>5. QuietFit'
  <2> SUFFICES ASSUME NEW w \in waits, w.kind = "stable", ~w.moved
               PROVE  Older(w).still <= calm'
    BY <1>1, OlderType DEF QuietFit
  <2>1. w.still <= calm /\ w.still \in 0..StillTime
    BY <1>1 DEF Inv, QuietFit, Waits
  <2>2. Older(w).still = IF w.still < StillTime THEN w.still + 1 ELSE w.still
    BY <1>1, OlderType
  <2> QED BY <2>1, <2>2, <1>1
<1>6. LoopFit' /\ NoChangeMissed'
  BY DEF Inv, LoopFit, NoChangeMissed
<1> QED BY <1>3, <1>4, <1>5, <1>6 DEF Inv

\* A change of the interface.
LEMMA ChangedTypes ==
  ASSUME Inv, Changed(waits), UNCHANGED <<phase, index, clients, listening>>
  PROVE  /\ waits' \subseteq Waits /\ shown' \in BOOLEAN /\ dirty' \in BOOLEAN
         /\ behind' \subseteq Connections /\ calm' \in 0..StillTime
         /\ QuietFit' /\ NoChangeMissed'
<1>1. waits \subseteq Waits /\ listening \subseteq Connections /\ behind \subseteq Connections
  BY DEF Inv, Types, TypeOK
<1>2. \A w \in waits : [w EXCEPT !.moved = (w.kind = "stable")] \in Waits
  BY <1>1 DEF Waits
<1>3. \A w \in waits : [w EXCEPT !.moved = (w.kind = "stable")].kind = w.kind
                       /\ [w EXCEPT !.moved = (w.kind = "stable")].moved = (w.kind = "stable")
  BY <1>1 DEF Waits
<1>4. waits' = {[w EXCEPT !.moved = (w.kind = "stable")] : w \in waits}
  BY DEF Changed
<1>5. QuietFit'
  <2> SUFFICES ASSUME NEW v \in waits', v.kind = "stable"
               PROVE  v.moved
    BY DEF QuietFit
  <2>1. PICK w \in waits : v = [w EXCEPT !.moved = (w.kind = "stable")]
    BY <1>4
  <2> QED BY <2>1, <1>3
<1>6. NoChangeMissed'
  BY DEF Inv, NoChangeMissed, Changed
<1>7. calm' \in 0..StillTime
  BY BoundsAssumption DEF Changed
<1>8. waits' \subseteq Waits
  BY <1>2, <1>4
<1> QED BY <1>1, <1>5, <1>6, <1>7, <1>8 DEF Changed

LEMMA MovedWaits ==
  ASSUME Inv, Changed(waits)
  PROVE  \E f : /\ \A w \in waits : f[w].client = w.client /\ f[w].request = w.request
                /\ waits' = {f[w] : w \in waits}
<1> DEFINE f == [w \in waits |-> [w EXCEPT !.moved = (w.kind = "stable")]]
<1>1. waits \subseteq Waits
  BY DEF Inv, Types, TypeOK
<1>2. \A w \in waits : f[w].client = w.client /\ f[w].request = w.request
  BY <1>1 DEF Waits
<1>3. waits' = {f[w] : w \in waits}
  BY DEF Changed
<1> QED BY <1>2, <1>3

LEMMA ChangeKeeps == ASSUME Inv, ChangeByUser PROVE Inv'
<1> USE DEF ChangeByUser, loopVars, netVars, answerVars
<1>1. QuietFit' /\ NoChangeMissed'
  BY ChangedTypes
<1>2. Types'
  BY ChangedTypes DEF Inv, Types, TypeOK
<1>3. Places' /\ Members' /\ WaitsFit' /\ AnswersFit'
  BY MovedWaits, ClocksKeep
<1>4. LoopFit'
  BY DEF Inv, LoopFit
<1> QED BY <1>1, <1>2, <1>3, <1>4 DEF Inv

---------------------------------------------------------------------------
(* poll, up to the frames of a client.                                     *)

LEMMA BeginKeeps == ASSUME Inv, BeginFrame PROVE Inv'
<1> USE DEF BeginFrame, uiVars, answerVars
<1> DEFINE f == [w \in waits |-> [w EXCEPT !.left = IF @ > 0 THEN @ - 1 ELSE 0]]
<1>1. /\ waits \subseteq Waits /\ clients \in Seq(Connections) /\ backlog \in Seq(Connections)
  BY DEF Inv, Types, TypeOK
<1>2. waits' = {f[w] : w \in waits}
  OBVIOUS
<1>3. \A w \in waits :
        /\ f[w] \in Waits /\ f[w].client = w.client /\ f[w].request = w.request
        /\ f[w].kind = w.kind /\ f[w].moved = w.moved /\ f[w].still = w.still
  <2> SUFFICES ASSUME NEW w \in waits
               PROVE  /\ f[w] \in Waits /\ f[w].client = w.client
                      /\ f[w].request = w.request /\ f[w].kind = w.kind
                      /\ f[w].moved = w.moved /\ f[w].still = w.still
    OBVIOUS
  <2> DEFINE left == IF w.left > 0 THEN w.left - 1 ELSE 0
  <2>1. left \in Nat /\ w \in Waits
    BY <1>1 DEF Waits
  <2>2. f[w] = [w EXCEPT !.left = left]
    OBVIOUS
  <2> HIDE DEF left, f
  <2> QED BY <2>1, <2>2 DEF Waits
<1>4. /\ clients' \in Seq(Connections) /\ Len(clients') = Len(clients) + Len(backlog)
      /\ \A i \in 1..Len(clients) : clients'[i] = clients[i]
      /\ \A i \in 1..Len(clients') :
           i > Len(clients) => /\ clients'[i] = backlog[i - Len(clients)]
                               /\ i - Len(clients) \in 1..Len(backlog)
  BY <1>1
<1>5. Types'
  <2>1. waits' \subseteq Waits
    BY <1>2, <1>3
  <2>2. clients' \in Seq(Connections) /\ backlog' \in Seq(Connections)
    BY <1>4
  <2> HIDE DEF f
  <2> QED BY <2>1, <2>2 DEF Inv, Types, TypeOK
<1>6. Alive' = Alive \union Queued /\ Queued' = {}
  <2>1. Alive' \subseteq Alive \union Queued
    BY <1>1, <1>4 DEF Alive, Queued
  <2>2. ASSUME NEW c \in Alive PROVE c \in Alive'
    BY <2>2, <1>1, <1>4 DEF Alive
  <2>3. ASSUME NEW c \in Queued PROVE c \in Alive'
    <3>1. PICK i \in 1..Len(backlog) : backlog[i] = c
      BY <2>3 DEF Queued
    <3>2. Len(clients) + i \in 1..Len(clients') /\ clients'[Len(clients) + i] = c
      BY <3>1, <1>1, <1>4
    <3> QED BY <3>2 DEF Alive
  <2>4. Queued' = {}
    BY DEF Queued
  <2> QED BY <2>1, <2>2, <2>3, <2>4
<1>7. Places'
  <2>1. \A i, j \in 1..Len(clients') : clients'[i] = clients'[j] => i = j
    <3> SUFFICES ASSUME NEW i \in 1..Len(clients'), NEW j \in 1..Len(clients'),
                        clients'[i] = clients'[j]
                 PROVE  i = j
      OBVIOUS
    <3>1. CASE i <= Len(clients) /\ j <= Len(clients)
      BY <3>1, <1>1, <1>4 DEF Inv, Places
    <3>2. CASE i > Len(clients) /\ j > Len(clients)
      <4>1. i - Len(clients) = j - Len(clients)
        BY <3>2, <1>1, <1>4 DEF Inv, Places
      <4> QED BY <4>1, <1>1
    <3>3. ASSUME NEW k \in 1..Len(clients'), NEW m \in 1..Len(clients'),
                 k <= Len(clients), m > Len(clients)
          PROVE  clients'[k] # clients'[m]
      <4>1. clients'[k] \in Alive
        BY <3>3, <1>1, <1>4 DEF Alive
      <4>2. clients'[m] \in Queued
        BY <3>3, <1>1, <1>4 DEF Queued
      <4> QED BY <4>1, <4>2 DEF Inv, Places
    <3> QED BY <3>1, <3>2, <3>3, <1>1
  <2> QED BY <2>1, <1>6 DEF Inv, Places
<1>8. Members'
  BY <1>6 DEF Inv, Members
<1>9. WaitsFit' /\ \A c, n : Owed(c, n)' <=> Owed(c, n)
  <2>1. \A w \in waits : f[w].client = w.client /\ f[w].request = w.request
    BY <1>3
  <2>2. waiting' = waiting /\ served' = served /\ WaitsFit
    BY DEF Inv
  <2> HIDE DEF f, BeginFrame
  <2> QED BY <1>2, <2>1, <2>2, WaitsMapped
<1>10. AnswersFit'
  BY <1>9 DEF Inv, AnswersFit
<1>11. QuietFit'
  <2> HIDE DEF f
  <2> QED BY <1>2, <1>3 DEF Inv, QuietFit
<1>12. LoopFit' /\ NoChangeMissed'
  BY <1>4 DEF Inv, LoopFit, NoChangeMissed
<1> QED BY <1>5, <1>7, <1>8, <1>9, <1>10, <1>11, <1>12 DEF Inv

LEMMA ReadKeeps == ASSUME Inv, ReadClient PROVE Inv'
<1> USE DEF ReadClient, netVars, uiVars, answerVars
<1>1. index \in 1..Len(clients) /\ clients \in Seq(Connections) /\ current \in Connections
  <2>1. index \in 1..Len(clients) /\ clients \in Seq(Connections)
    BY DEF Inv, Types, TypeOK, LoopFit
  <2> QED BY <2>1 DEF current
<1>2. Types'
  <2>1. /\ read' \in [Connections -> Nat]
        /\ \A c \in Connections : served[c] <= read'[c] /\ read'[c] <= sent[c]
    <3>1. /\ read \in [Connections -> Nat] /\ sent \in [Connections -> Nat]
          /\ served \in [Connections -> Nat]
          /\ \A c \in Connections : served[c] <= read[c] /\ read[c] <= sent[c]
      BY DEF Inv, Types, TypeOK
    <3>2. read' = [read EXCEPT ![current] = sent[current]]
      OBVIOUS
    <3> HIDE DEF ReadClient
    <3> QED BY <1>1, <3>1, <3>2
  <2>2. visited' \subseteq Connections
    BY <1>1 DEF Inv, Types, TypeOK
  <2> QED BY <2>1, <2>2 DEF Inv, Types, TypeOK
<1>3. LoopFit'
  BY <1>1 DEF Inv, LoopFit, current
<1>4. Places' /\ Members' /\ WaitsFit' /\ QuietFit'
  BY PlacesSame, MembersSame, WaitsSame DEF Inv
<1>5. AnswersFit' /\ NoChangeMissed'
  BY DEF Inv, AnswersFit, Owed, NoChangeMissed
<1> QED BY <1>2, <1>3, <1>4, <1>5 DEF Inv

---------------------------------------------------------------------------
(* dispatch_frame.                                                         *)

\* A request that is dispatched, answered and changes nothing else.
LEMMA PlainKeeps ==
  ASSUME Inv, Dispatching, Served, Answer({<<current, request>>}),
         UNCHANGED <<loopVars, netVars, uiVars, clients, read, greeted, waiting,
                     listening, waits>>
  PROVE  Inv'
<1> USE DEF loopVars, netVars, uiVars
<1>1. WaitsFit' /\ \A c, n : Owed(c, n)' <=> Owed(c, n)
  BY ServedWaits
<1>2. AnswersFit'
  BY <1>1, AnswerFits
<1>3. Types'
  <2>1. Types
    BY DEF Inv
  <2> DEFINE A == {<<current, request>>}
  <2>2. Answer(A)
    OBVIOUS
  <2> HIDE DEF A
  <2>3. /\ replies' = [c \in Connections |-> replies'[c]]
        /\ \A c \in Connections : replies'[c] \in [Requests(c) -> Nat]
        /\ broken' \subseteq Fragile
    BY <2>1, <2>2, AnswerTypes
  <2>4. served' \in [Connections -> Nat] /\ \A c \in Connections : served'[c] <= read[c]
    BY ServedTypes
  <2> QED BY <2>1, <2>3, <2>4 DEF Types, TypeOK
<1>4. Places' /\ Members' /\ LoopFit' /\ NoChangeMissed'
  BY PlacesSame, MembersSame, LoopSame, MissedSame DEF Inv
<1>5. QuietFit'
  BY DEF Inv, QuietFit
<1> QED BY <1>1, <1>2, <1>3, <1>4, <1>5 DEF Inv

LEMMA BadLengthKeeps == ASSUME Inv, BadLength PROVE Inv'
<1> USE DEF BadLength, netVars, uiVars, answerVars
<1>1. Types'
  <2>1. /\ read' \in [Connections -> Nat]
        /\ \A c \in Connections : served[c] <= read'[c] /\ read'[c] <= sent[c]
    BY AtRequest DEF Inv, Types, TypeOK
  <2> QED BY <2>1 DEF Inv, Types, TypeOK
<1>2. Places' /\ Members' /\ LoopFit' /\ NoChangeMissed'
  BY PlacesSame, MembersSame, LoopSame, MissedSame DEF Inv
<1>3. WaitsFit' /\ QuietFit'
  BY WaitsSame DEF Inv
<1>4. AnswersFit'
  BY DEF Inv, AnswersFit, Owed
<1> QED BY <1>1, <1>2, <1>3, <1>4 DEF Inv

LEMMA RejectKeeps == ASSUME Inv, Reject PROVE Inv'
<1>1. phase = "serve" /\ Dropped /\ index' = index /\ phase' = "read" /\ closed' = FALSE
  BY DEF Reject, Dispatching
<1>2. UNCHANGED <<visited, backlog, shown, dirty, calm>>
  BY DEF Reject
<1>3. Types' /\ Places' /\ Members' /\ WaitsFit' /\ QuietFit' /\ AnswersFit'
  BY <1>1, <1>2, DropKeeps
<1>4. index \in 1..Len(clients) /\ Len(clients) \in Nat
  BY <1>1, AtClient DEF Inv, Types, TypeOK
<1>5. LoopFit'
  <2>1. \A i \in 1..Len(clients') : i < index => clients'[i] \in visited
    BY <1>1, <1>4, DropTypes DEF Inv, LoopFit
  <2> QED BY <2>1, <1>1, <1>2, <1>4 DEF LoopFit
<1>6. NoChangeMissed'
  BY <1>1, <1>2 DEF Inv, NoChangeMissed, Dropped
<1> QED BY <1>3, <1>5, <1>6 DEF Inv

\* A request is dispatched and answered, and the type of the rest is kept.
LEMMA AnsweredTypes ==
  ASSUME Inv, Dispatching, Served, Answer({<<current, request>>})
  PROVE  /\ replies' = [c \in Connections |-> replies'[c]]
         /\ \A c \in Connections : replies'[c] \in [Requests(c) -> Nat]
         /\ broken' \subseteq Fragile /\ served' \in [Connections -> Nat]
         /\ \A c \in Connections : served'[c] <= read[c]
<1> DEFINE A == {<<current, request>>}
<1>1. Types /\ Answer(A)
  BY DEF Inv
<1> HIDE DEF A
<1> QED BY <1>1, AnswerTypes, ServedTypes

LEMMA HelloKeeps == ASSUME Inv, NEW on \in BOOLEAN, Hello(on) PROVE Inv'
<1> USE DEF Hello, loopVars, netVars, uiVars
<1>1. WaitsFit' /\ \A c, n : Owed(c, n)' <=> Owed(c, n)
  BY ServedWaits
<1>2. AnswersFit'
  BY <1>1, AnswerFits
<1>3. current \in Alive /\ current \in Connections
  BY AtRequest
<1>4. Types'
  BY <1>3, AnsweredTypes DEF Inv, Types, TypeOK
<1>5. Members' /\ NoChangeMissed'
  BY <1>3 DEF Inv, Members, Alive, NoChangeMissed
<1>6. Places' /\ LoopFit'
  BY PlacesSame, LoopSame DEF Inv
<1>7. QuietFit'
  BY DEF Inv, QuietFit
<1> QED BY <1>1, <1>2, <1>4, <1>5, <1>6, <1>7 DEF Inv

LEMMA SubscribeKeeps == ASSUME Inv, NEW on \in BOOLEAN, Subscribe(on) PROVE Inv'
<1> USE DEF Subscribe, Calling, loopVars, netVars
<1>1. WaitsFit' /\ \A c, n : Owed(c, n)' <=> Owed(c, n)
  BY ServedWaits
<1>2. AnswersFit'
  BY <1>1, AnswerFits
<1>3. current \in Alive /\ current \in Connections
  BY AtRequest
<1>4. Types'
  BY <1>3, AnsweredTypes DEF Inv, Types, TypeOK
<1>5. Members' /\ NoChangeMissed'
  BY <1>3 DEF Inv, Members, Alive, NoChangeMissed
<1>6. Places' /\ LoopFit'
  BY PlacesSame, LoopSame DEF Inv
<1>7. QuietFit'
  BY DEF Inv, QuietFit
<1> QED BY <1>1, <1>2, <1>4, <1>5, <1>6, <1>7 DEF Inv

LEMMA DriveKeeps == ASSUME Inv, Drive PROVE Inv'
<1> USE DEF Drive, Calling, loopVars, netVars
<1>1. PICK f : /\ \A w \in waits : f[w].client = w.client /\ f[w].request = w.request
               /\ waits' = {f[w] : w \in waits}
  BY MovedWaits
<1>2. \A c, n : Owed(c, n)' <=> Owed(c, n)
  BY <1>1 DEF Owed
<1>3. WaitsFit'
  <2>1. \A c \in Connections : served[c] <= served'[c] /\ served[c] \in Nat /\ served'[c] \in Nat
    BY ServedTypes DEF Inv, Types, TypeOK
  <2>2. \A w \in waits : w.client \in Connections /\ w.request \in Nat
    BY DEF Inv, Types, TypeOK, Waits
  <2>3. \A w \in waits : w.client \in waiting /\ w.request <= served'[w.client]
    <3> SUFFICES ASSUME NEW w \in waits
                 PROVE  w.client \in waiting /\ w.request <= served'[w.client]
      OBVIOUS
    <3>1. w.client \in waiting /\ w.request <= served[w.client]
      BY DEF Inv, WaitsFit
    <3> QED BY <3>1, <2>1, <2>2
  <2>4. \A w \in waits' : w.client \in waiting' /\ w.request <= served'[w.client]
    BY <1>1, <2>3
  <2>5. \A c \in waiting' : \E w \in waits' : w.client = c
    BY <1>1 DEF Inv, WaitsFit
  <2>6. \A v, w \in waits' : v.client = w.client => v = w
    BY <1>1 DEF Inv, WaitsFit
  <2> QED BY <2>4, <2>5, <2>6 DEF WaitsFit
<1>4. AnswersFit'
  BY <1>2, AnswerFits
<1>5. /\ waits' \subseteq Waits /\ shown' \in BOOLEAN /\ dirty' \in BOOLEAN
      /\ behind' \subseteq Connections /\ calm' \in 0..StillTime
      /\ QuietFit' /\ NoChangeMissed'
  BY ChangedTypes
<1>6. Types'
  BY <1>5, AnsweredTypes DEF Inv, Types, TypeOK
<1>7. Places' /\ Members' /\ LoopFit'
  <2> HIDE DEF Drive
  <2>1. UNCHANGED <<clients, backlog, peer, greeted, waiting, listening, index, phase, visited>>
    BY DEF Drive
  <2> QED BY <2>1, PlacesSame, MembersSame, LoopSame DEF Inv
<1> QED BY <1>3, <1>4, <1>5, <1>6, <1>7 DEF Inv

LEMMA WaitBeginKeeps ==
  ASSUME Inv, NEW kind \in Kinds, NEW timeout \in Timeouts, NEW frames \in Frames \union {0},
         WaitBegin(kind, timeout, frames)
  PROVE  Inv'
<1> USE DEF WaitBegin, loopVars, netVars, uiVars, answerVars
<1> DEFINE new == [client |-> current, request |-> request, kind |-> kind, due |-> timeout,
                   still |-> 0, moved |-> FALSE, left |-> frames]
<1>1. Dispatching /\ Served /\ current \notin waiting /\ phase = "serve"
  BY DEF Calling, Dispatching
<1>2. /\ current \in Alive /\ current \in Connections /\ request = served[current] + 1
      /\ request \in Nat /\ served[current] \in Nat
  BY <1>1, AtRequest
<1>3. waits' = waits \union {new} /\ waiting' = waiting \union {current}
  OBVIOUS
<1>4. /\ new \in Waits /\ new.client = current /\ new.request = request /\ new.still = 0
  BY <1>2, BoundsAssumption DEF Waits
<1>5. /\ waits \subseteq Waits /\ calm \in Nat
      /\ \A w \in waits : w.client # current
  BY <1>1, BoundsAssumption DEF Inv, Types, TypeOK, WaitsFit
<1> HIDE DEF new
<1>6. Types'
  <2>1. waits' \subseteq Waits
    BY <1>3, <1>4, <1>5
  <2>2. served' \in [Connections -> Nat] /\ \A c \in Connections : served'[c] <= read[c]
    BY <1>1, ServedTypes
  <2>3. waiting' \subseteq Connections
    BY <1>2, <1>3 DEF Inv, Types, TypeOK
  <2>4. UNCHANGED <<loopVars, netVars, uiVars, answerVars, clients, read, greeted, listening>>
    OBVIOUS
  <2> HIDE DEF WaitBegin
  <2> QED BY <2>1, <2>2, <2>3, <2>4 DEF Inv, Types, TypeOK
<1>7. WaitsFit'
  <2>1. \A c \in Connections : served[c] <= served'[c] /\ served[c] \in Nat /\ served'[c] \in Nat
    BY <1>1, ServedTypes DEF Inv, Types, TypeOK
  <2>2. \A w \in waits : w.client \in waiting' /\ w.request <= served'[w.client]
    <3> SUFFICES ASSUME NEW w \in waits
                 PROVE  w.client \in waiting' /\ w.request <= served'[w.client]
      OBVIOUS
    <3>1. w.client \in waiting /\ w.request <= served[w.client]
      BY DEF Inv, WaitsFit
    <3>2. w.client \in Connections /\ w.request \in Nat
      BY <1>5 DEF Waits
    <3> QED BY <3>1, <3>2, <2>1, <1>3
  <2>3. new.request <= served'[new.client]
    BY <1>1, <1>2, <1>4, ServedTypes
  <2>4. \A c \in waiting' : \E w \in waits' : w.client = c
    BY <1>3, <1>4 DEF Inv, WaitsFit
  <2>5. \A v, w \in waits' : v.client = w.client => v = w
    BY <1>3, <1>4, <1>5 DEF Inv, WaitsFit
  <2> QED BY <2>2, <2>3, <2>4, <2>5, <1>3, <1>4 DEF WaitsFit
<1>8. AnswersFit'
  <2> SUFFICES ASSUME NEW c \in Connections \ broken, NEW n \in Requests(c)
               PROVE  replies[c][n] = IF n <= served'[c] /\ ~Owed(c, n)' THEN 1 ELSE 0
    BY DEF AnswersFit
  <2>1. replies[c][n] = IF n <= served[c] /\ ~Owed(c, n) THEN 1 ELSE 0
    BY <1>1 DEF Inv, AnswersFit
  <2>2. Owed(c, n)' <=> Owed(c, n) \/ (c = current /\ n = request)
    BY <1>3, <1>4 DEF Owed
  <2>3. n \in Nat /\ served'[current] = request
    BY <1>1, ServedTypes, BoundsAssumption DEF Requests
  <2>4. CASE c = current
    BY <2>1, <2>2, <2>3, <2>4, <1>2
  <2>5. CASE c # current
    <3>1. served'[c] = served[c]
      BY <2>5, <1>1, ServedTypes
    <3> QED BY <3>1, <2>1, <2>2, <2>5
  <2> QED BY <2>4, <2>5
<1>9. QuietFit'
  BY <1>3, <1>4, <1>5 DEF Inv, QuietFit
<1>10. Members'
  BY <1>2, <1>3 DEF Inv, Members, Alive
<1>11. Places' /\ LoopFit' /\ NoChangeMissed'
  <2>1. UNCHANGED <<clients, backlog, peer, index, phase, visited, behind, listening, dirty>>
    OBVIOUS
  <2> HIDE DEF WaitBegin
  <2> QED BY <2>1, PlacesSame, LoopSame, MissedSame DEF Inv
<1> QED BY <1>6, <1>7, <1>8, <1>9, <1>10, <1>11 DEF Inv

LEMMA EndClientKeeps == ASSUME Inv, EndClient PROVE Inv'
<1>1. phase = "serve" /\ phase' = "read" /\ closed' = FALSE
      /\ UNCHANGED <<visited, backlog, shown, dirty, calm>>
  BY DEF EndClient
<1>2. index \in 1..Len(clients) /\ Len(clients) \in Nat /\ current = clients[index]
  BY <1>1, AtClient DEF Inv, Types, TypeOK, current
<1>3. CASE closed /\ Dropped /\ index' = index
  <2>1. Types' /\ Places' /\ Members' /\ WaitsFit' /\ QuietFit' /\ AnswersFit'
    BY <1>1, <1>3, DropKeeps
  <2>2. LoopFit'
    <3>1. \A i \in 1..Len(clients') : i < index => clients'[i] \in visited
      BY <1>1, <1>2, <1>3, DropTypes DEF Inv, LoopFit
    <3> QED BY <3>1, <1>1, <1>2, <1>3 DEF LoopFit
  <2>3. NoChangeMissed'
    BY <1>1, <1>3 DEF Inv, NoChangeMissed, Dropped
  <2> QED BY <2>1, <2>2, <2>3 DEF Inv
<1>4. CASE /\ index' = index + 1
           /\ UNCHANGED <<peer, sent, answerVars, read, served, clients, waits,
                          greeted, waiting, listening, behind>>
  <2> USE DEF answerVars
  <2>1. Types'
    <3>1. index' \in Nat
      BY <1>2, <1>4
    <3>3. phase' = "read" /\ closed' = FALSE
      BY <1>1
    <3>2. Types
      BY DEF Inv
    <3> QED BY <3>1, <3>2, <3>3, <1>1, <1>4 DEF Types, TypeOK
  <2>2. LoopFit'
    BY <1>1, <1>2, <1>4 DEF Inv, LoopFit
  <2>3. NoChangeMissed'
    BY <1>1, <1>4 DEF Inv, NoChangeMissed
  <2>4. Places' /\ Members' /\ WaitsFit' /\ QuietFit'
    BY <1>1, <1>4, PlacesSame, MembersSame, WaitsSame DEF Inv
  <2>5. AnswersFit'
    BY <1>1, <1>4 DEF Inv, AnswersFit, Owed
  <2> QED BY <2>1, <2>2, <2>3, <2>4, <2>5 DEF Inv
<1> QED BY <1>3, <1>4 DEF EndClient

---------------------------------------------------------------------------
(* poll, after the clients.                                                *)

LEMMA LookedType ==
  ASSUME NEW w \in Waits
  PROVE  /\ Looked(w) \in Waits /\ Looked(w).client = w.client
         /\ Looked(w).request = w.request /\ Looked(w).kind = w.kind
         /\ Looked(w).moved = FALSE
         /\ Looked(w).still = IF w.moved THEN 0 ELSE w.still
<1>1. StillTime \in Nat /\ w.moved \in BOOLEAN
  BY BoundsAssumption DEF Waits
<1>2. CASE w.moved
  <2>1. 0 \in 0..StillTime
    BY <1>1
  <2>2. Looked(w) = [w EXCEPT !.moved = FALSE, !.still = 0]
    BY <1>2 DEF Looked
  <2> QED BY <1>2, <2>1, <2>2 DEF Waits
<1>3. CASE ~w.moved
  BY <1>1, <1>3 DEF Looked, Waits
<1> QED BY <1>2, <1>3

LEMMA PollWaitsKeeps == ASSUME Inv, PollWaits PROVE Inv'
<1> DEFINE over == {w \in waits : Over(w)}
           A == {<<w.client, w.request>> : w \in over}
<1>1. /\ phase = "read" /\ Answer(A)
      /\ waiting' = waiting \ {w.client : w \in over}
      /\ waits' = {Looked(w) : w \in waits \ over}
      /\ phase' = IF dirty /\ clients # <<>> THEN "publish" ELSE "idle"
      /\ dirty' = FALSE /\ index' = 1 /\ visited' = {}
      /\ UNCHANGED <<closed, backlog, peer, sent, shown, behind, calm, clients, read, served,
                     greeted, listening>>
  BY DEF PollWaits, netVars
<1>2. over \subseteq waits /\ waits \subseteq Waits /\ Types
  BY DEF Inv, Types, TypeOK
<1> HIDE DEF over
<1>3. Types'
  <2>1. /\ replies' = [c \in Connections |-> replies'[c]]
        /\ \A c \in Connections : replies'[c] \in [Requests(c) -> Nat]
        /\ broken' \subseteq Fragile
    <3>1. Answer(A)
      BY <1>1
    <3> HIDE DEF A
    <3> QED BY <3>1, <1>2, AnswerTypes
  <2>2. waits' \subseteq Waits
    BY <1>1, <1>2, LookedType
  <2>3. /\ waiting' \subseteq Connections /\ phase' \in {"idle", "publish"}
        /\ index' \in Nat /\ visited' \subseteq Connections /\ dirty' \in BOOLEAN
    BY <1>1, <1>2 DEF Types, TypeOK
  <2> HIDE DEF A
  <2> QED BY <2>1, <2>2, <2>3, <1>1, <1>2 DEF Types, TypeOK
<1>4. Places' /\ Members'
  <2>1. Places'
    BY <1>1, PlacesSame DEF Inv
  <2>2. Members'
    BY <1>1 DEF Inv, Members, Alive
  <2> QED BY <2>1, <2>2
<1>5. \A v, w \in waits : v.client = w.client => v = w
  BY DEF Inv, WaitsFit
<1>6. WaitsFit'
  <2>1. \A w \in waits \ over : w.client \in waiting' /\ w.request <= served[w.client]
    BY <1>1, <1>2, <1>5 DEF Inv, WaitsFit
  <2>2. \A w \in waits' : w.client \in waiting' /\ w.request <= served'[w.client]
    <3> SUFFICES ASSUME NEW w \in waits \ over
                 PROVE  /\ Looked(w).client \in waiting'
                        /\ Looked(w).request <= served[Looked(w).client]
      BY <1>1
    <3>1. Looked(w).client = w.client /\ Looked(w).request = w.request
      BY <1>2, LookedType
    <3> QED BY <2>1, <3>1
  <2>3. ASSUME NEW c \in waiting' PROVE \E w \in waits' : w.client = c
    <3>1. PICK w \in waits : w.client = c
      BY <2>3, <1>1 DEF Inv, WaitsFit
    <3>2. w \notin over
      BY <2>3, <3>1, <1>1
    <3>3. Looked(w) \in waits' /\ Looked(w).client = c
      BY <3>1, <3>2, <1>1, <1>2, LookedType
    <3> QED BY <3>3
  <2>4. ASSUME NEW x \in waits', NEW y \in waits', x.client = y.client PROVE x = y
    <3>1. PICK v \in waits \ over : x = Looked(v)
      BY <1>1
    <3>2. PICK w \in waits \ over : y = Looked(w)
      BY <1>1
    <3>3. v.client = w.client
      BY <2>4, <3>1, <3>2, <1>2, LookedType
    <3> QED BY <3>1, <3>2, <3>3, <1>5
  <2> QED BY <2>2, <2>3, <2>4 DEF WaitsFit
<1>7. AnswersFit'
  <2> SUFFICES ASSUME NEW c \in Connections \ broken', NEW n \in Requests(c)
               PROVE  replies'[c][n] = IF n <= served[c] /\ ~Owed(c, n)' THEN 1 ELSE 0
    BY <1>1 DEF AnswersFit
  <2>1. /\ c \notin broken
        /\ replies'[c][n] = IF <<c, n>> \in A THEN replies[c][n] + 1 ELSE replies[c][n]
    <3>1. Answer(A)
      BY <1>1
    <3> HIDE DEF A
    <3> QED BY <3>1, <1>2, AnswerTypes
  <2>2. replies[c][n] = IF n <= served[c] /\ ~Owed(c, n) THEN 1 ELSE 0
    BY <2>1, <1>1 DEF Inv, AnswersFit
  <2>3. CASE <<c, n>> \in A
    <3>1. PICK w \in over : w.client = c /\ w.request = n
      BY <2>3
    <3>2. Owed(c, n) /\ n <= served[c]
      BY <3>1, <1>2 DEF Owed, Inv, WaitsFit
    <3>3. ~Owed(c, n)'
      <4> SUFFICES ASSUME NEW x \in waits', x.client = c PROVE FALSE
        BY DEF Owed
      <4>1. PICK v \in waits \ over : x = Looked(v)
        BY <1>1
      <4>2. v.client = w.client
        BY <4>1, <3>1, <1>2, LookedType
      <4> QED BY <4>1, <4>2, <3>1, <1>2, <1>5
    <3> QED BY <2>1, <2>2, <2>3, <3>2, <3>3
  <2>4. CASE <<c, n>> \notin A
    <3>1. Owed(c, n)' => Owed(c, n)
      <4> SUFFICES ASSUME NEW x \in waits', x.client = c, x.request = n PROVE Owed(c, n)
        BY DEF Owed
      <4>1. PICK v \in waits \ over : x = Looked(v)
        BY <1>1
      <4> QED BY <4>1, <1>2, LookedType DEF Owed
    <3>2. ASSUME Owed(c, n) PROVE Owed(c, n)'
      <4>1. PICK w \in waits : w.client = c /\ w.request = n
        BY <3>2 DEF Owed
      <4>2. w \notin over
        BY <4>1, <2>4
      <4>3. Looked(w) \in waits' /\ Looked(w).client = c /\ Looked(w).request = n
        BY <4>1, <4>2, <1>1, <1>2, LookedType
      <4> QED BY <4>3 DEF Owed
    <3> QED BY <2>1, <2>2, <2>4, <3>1, <3>2
  <2> QED BY <2>3, <2>4
<1>8. QuietFit'
  <2> SUFFICES ASSUME NEW x \in waits', x.kind = "stable" PROVE x.still <= calm
    BY <1>1 DEF QuietFit
  <2>1. PICK w \in waits : x = Looked(w)
    BY <1>1
  <2>2. calm \in Nat
    BY BoundsAssumption DEF Inv, Types, TypeOK
  <2>3. /\ Looked(w).kind = w.kind
        /\ Looked(w).still = IF w.moved THEN 0 ELSE w.still
    BY <1>2, LookedType
  <2>4. w.kind = "stable" => w.moved \/ w.still <= calm
    BY DEF Inv, QuietFit
  <2> QED BY <2>1, <2>2, <2>3, <2>4
<1>9. LoopFit'
  <2>1. clients # <<>> => 1 <= Len(clients)
    BY DEF Inv, Types, TypeOK
  <2> QED BY <2>1, <1>1 DEF LoopFit
<1>10. NoChangeMissed'
  <2> SUFFICES ASSUME NEW c \in behind
               PROVE  /\ c \in listening
                      /\ \E i \in 1..Len(clients) : phase' = "publish" /\ clients[i] = c
    BY <1>1 DEF NoChangeMissed
  <2>1. c \in listening /\ dirty
    BY <1>1 DEF Inv, NoChangeMissed
  <2>2. PICK i \in 1..Len(clients) : clients[i] = c
    BY <2>1 DEF Inv, Members, Alive
  <2>3. clients # <<>>
    BY <2>2
  <2> QED BY <2>1, <2>2, <2>3, <1>1
<1> QED BY <1>3, <1>4, <1>6, <1>7, <1>8, <1>9, <1>10 DEF Inv

LEMMA PublishKeeps == ASSUME Inv, PublishNext PROVE Inv'
<1>1. /\ phase = "publish"
      /\ phase' = IF index' <= Len(clients') THEN phase ELSE "idle"
      /\ UNCHANGED <<closed, visited, backlog, shown, dirty, calm>>
  BY DEF PublishNext
<1>2. /\ index \in 1..Len(clients) /\ Len(clients) \in Nat /\ current = clients[index]
      /\ closed \in BOOLEAN
  BY <1>1, AtClient DEF Inv, Types, TypeOK, current
<1>3. CASE current \in listening /\ Dropped /\ index' = index
  <2>1. Types' /\ Places' /\ Members' /\ WaitsFit' /\ QuietFit' /\ AnswersFit'
    BY <1>1, <1>2, <1>3, DropKeeps
  <2>2. LoopFit'
    BY <1>1, <1>2, <1>3 DEF LoopFit
  <2>3. NoChangeMissed'
    <3> SUFFICES ASSUME NEW c \in behind'
                 PROVE  /\ c \in listening'
                        /\ dirty \/ \E i \in index..Len(clients') :
                                      phase' = "publish" /\ clients'[i] = c
      BY <1>1, <1>3 DEF NoChangeMissed
    <3>1. c \in behind /\ c # current /\ c \in listening'
      BY <1>3 DEF Dropped, Inv, NoChangeMissed
    <3>2. CASE dirty
      BY <3>1, <3>2
    <3>3. CASE ~dirty
      <4>1. PICK i \in index..Len(clients) : clients[i] = c
        BY <3>1, <3>3 DEF Inv, NoChangeMissed
      <4>2. i # index
        BY <4>1, <3>1, <1>2
      <4>3. i - 1 \in index..Len(clients') /\ clients'[i - 1] = c
        BY <4>1, <4>2, <1>1, <1>2, <1>3, DropTypes
      <4>4. phase' = "publish"
        BY <4>3, <1>1, <1>2, <1>3, DropTypes
      <4> QED BY <3>1, <4>3, <4>4
    <3> QED BY <3>2, <3>3
  <2> QED BY <2>1, <2>2, <2>3 DEF Inv
<1>4. CASE /\ index' = index + 1 /\ behind' = behind \ {current}
           /\ UNCHANGED <<peer, sent, answerVars, read, served, clients, waits,
                          greeted, waiting, listening>>
  <2> USE DEF answerVars
  <2>1. Types'
    <3>1. /\ index' \in Nat /\ phase' \in {"publish", "idle"} /\ closed' \in BOOLEAN
      BY <1>1, <1>2, <1>4
    <3>2. Types /\ behind' \subseteq behind
      BY <1>4 DEF Inv
    <3> QED BY <3>1, <3>2, <1>1, <1>4 DEF Types, TypeOK
  <2>2. LoopFit'
    BY <1>1, <1>2, <1>4 DEF Inv, LoopFit
  <2>3. NoChangeMissed'
    <3> SUFFICES ASSUME NEW c \in behind \ {current}
                 PROVE  /\ c \in listening
                        /\ dirty \/ \E i \in (index + 1)..Len(clients) :
                                      phase' = "publish" /\ clients[i] = c
      BY <1>1, <1>4 DEF NoChangeMissed
    <3>1. c \in listening
      BY DEF Inv, NoChangeMissed
    <3>2. CASE ~dirty
      <4>1. PICK i \in index..Len(clients) : clients[i] = c
        BY <3>2 DEF Inv, NoChangeMissed
      <4>2. i \in (index + 1)..Len(clients)
        BY <4>1, <1>2
      <4> QED BY <3>1, <4>1, <4>2, <1>1, <1>2, <1>4
    <3> QED BY <3>1, <3>2
  <2>4. Places' /\ Members' /\ WaitsFit' /\ QuietFit'
    BY <1>1, <1>4, PlacesSame, MembersSame, WaitsSame DEF Inv
  <2>5. AnswersFit'
    BY <1>1, <1>4 DEF Inv, AnswersFit, Owed
  <2> QED BY <2>1, <2>2, <2>3, <2>4, <2>5 DEF Inv
<1> QED BY <1>3, <1>4 DEF PublishNext

LEMMA StopKeeps == ASSUME Inv, Stop PROVE Inv'
<1> USE DEF Stop
<1>1. Types'
  BY BoundsAssumption DEF Inv, Types, TypeOK, answerVars
<1>2. Places' /\ Members' /\ WaitsFit' /\ QuietFit'
  BY DEF Places, Members, Alive, Queued, WaitsFit, QuietFit
<1>3. LoopFit' /\ AnswersFit' /\ NoChangeMissed'
  BY DEF Inv, LoopFit, AnswersFit, NoChangeMissed
<1> QED BY <1>1, <1>2, <1>3 DEF Inv

---------------------------------------------------------------------------
(* The theorems                                                            *)

LEMMA InitInv == Init => Inv
<1> SUFFICES ASSUME Init PROVE Inv
  OBVIOUS
<1>1. Types
  <2>1. /\ peer = [c \in Connections |-> "new"] /\ sent = [c \in Connections |-> 0]
        /\ read = [c \in Connections |-> 0] /\ served = [c \in Connections |-> 0]
        /\ replies = [c \in Connections |-> [n \in Requests(c) |-> 0]]
    BY DEF Init
  <2>2. \A c \in Connections : MaxRequests[c] \in Nat
    BY BoundsAssumption
  <2>3. calm \in 0..StillTime /\ broken \subseteq Fragile
    BY BoundsAssumption DEF Init
  <2>4. /\ replies = [c \in Connections |-> replies[c]]
        /\ \A c \in Connections : replies[c] \in [Requests(c) -> Nat]
    BY <2>1
  <2>5. /\ peer \in [Connections -> {"new", "open", "closed"}]
        /\ sent \in [Connections -> Nat] /\ read \in [Connections -> Nat]
        /\ served \in [Connections -> Nat]
        /\ \A c \in Connections :
             served[c] <= read[c] /\ read[c] <= sent[c] /\ sent[c] <= MaxRequests[c]
    BY <2>1, <2>2
  <2>6. clients \in Seq(Connections) /\ backlog \in Seq(Connections)
    BY DEF Init
  <2> QED BY <2>3, <2>4, <2>5, <2>6 DEF Init, Types, TypeOK
<1>2. Places /\ Members /\ WaitsFit /\ LoopFit /\ QuietFit /\ NoChangeMissed
  BY DEF Init, Places, Members, Alive, Queued, WaitsFit, LoopFit, QuietFit, NoChangeMissed
<1>3. AnswersFit
  <2> SUFFICES ASSUME NEW c \in Connections, NEW n \in Requests(c)
               PROVE  replies[c][n] = IF n <= served[c] /\ ~Owed(c, n) THEN 1 ELSE 0
    BY DEF AnswersFit
  <2>1. served[c] = 0 /\ replies[c][n] = 0
    BY DEF Init
  <2>2. n \in Nat /\ n >= 1
    BY BoundsAssumption DEF Requests
  <2> QED BY <2>1, <2>2
<1> QED BY <1>1, <1>2, <1>3 DEF Inv

LEMMA PlainActions ==
  ASSUME Inv, BadFrame \/ Refuse \/ Look \/ \E kind \in Kinds : WaitOver(kind)
  PROVE  Inv'
<1>1. /\ Dispatching /\ Served /\ Answer({<<current, request>>})
      /\ UNCHANGED <<loopVars, netVars, uiVars, clients, read, greeted, waiting,
                     listening, waits>>
  BY DEF BadFrame, Refuse, Look, WaitOver, Calling
<1> QED BY <1>1, PlainKeeps

LEMMA ServeKeeps == ASSUME Inv, Serve PROVE Inv'
<1>1. CASE BadFrame \/ Refuse \/ Look \/ \E kind \in Kinds : WaitOver(kind)
  BY <1>1, PlainActions
<1>2. CASE BadLength
  BY <1>2, BadLengthKeeps
<1>3. CASE Reject
  BY <1>3, RejectKeeps
<1>4. CASE Drive
  BY <1>4, DriveKeeps
<1>5. CASE \E on \in BOOLEAN : Hello(on) \/ Subscribe(on)
  BY <1>5, HelloKeeps, SubscribeKeeps
<1>6. CASE \E kind \in Kinds, timeout \in Timeouts, frames \in Frames \union {0} :
             WaitBegin(kind, timeout, frames)
  BY <1>6, WaitBeginKeeps
<1> QED BY <1>1, <1>2, <1>3, <1>4, <1>5, <1>6 DEF Serve

LEMMA NextInv == Inv /\ [Next]_vars => Inv'
<1> SUFFICES ASSUME Inv, [Next]_vars PROVE Inv'
  OBVIOUS
<1>1. CASE \E c \in Connections : Connect(c) \/ Send(c) \/ Hangup(c)
  BY <1>1, ConnectKeeps, PeerKeeps
<1>2. CASE Tick
  BY <1>2, TickKeeps
<1>3. CASE ChangeByUser
  BY <1>3, ChangeKeeps
<1>4. CASE BeginFrame
  BY <1>4, BeginKeeps
<1>5. CASE ReadClient
  BY <1>5, ReadKeeps
<1>6. CASE Serve
  BY <1>6, ServeKeeps
<1>7. CASE EndClient
  BY <1>7, EndClientKeeps
<1>8. CASE PollWaits
  BY <1>8, PollWaitsKeeps
<1>9. CASE PublishNext
  BY <1>9, PublishKeeps
<1>10. CASE Stop
  BY <1>10, StopKeeps
<1>11. CASE UNCHANGED vars
  <2>1. UNCHANGED <<phase, index, closed, visited, backlog, peer, sent, shown, dirty, behind,
                    calm, replies, broken, clients, read, served, greeted, waiting, listening,
                    waits>>
    BY <1>11 DEF vars, loopVars, netVars, uiVars, answerVars
  <2>2. Types'
    BY <2>1 DEF Inv, Types, TypeOK
  <2>3. /\ Places' /\ Members' /\ WaitsFit' /\ QuietFit' /\ LoopFit' /\ NoChangeMissed'
    BY <2>1, PlacesSame, MembersSame, WaitsSame, LoopSame, MissedSame DEF Inv
  <2>4. AnswersFit'
    BY <2>1 DEF Inv, AnswersFit, Owed
  <2> QED BY <2>2, <2>3, <2>4 DEF Inv
<1> QED BY <1>1, <1>2, <1>3, <1>4, <1>5, <1>6, <1>7, <1>8, <1>9, <1>10, <1>11 DEF Next, Poll

\* The invariant the properties follow from.
THEOREM InvHolds == Spec => []Inv
BY InitInv, NextInv, PTL DEF Spec

\* The state has the shape its declarations say, and no frame is dispatched
\* that has not arrived.
THEOREM TypeCorrect == Spec => []TypeOK
<1>1. Inv => TypeOK
  BY DEF Inv, Types
<1> QED BY InvHolds, <1>1, PTL

\* A wait never outlives the client it belongs to, and a client is refused its
\* requests because of a wait exactly while it has one.
THEOREM WaitsBelong == Spec => []WaitsMatchClients
BY InvHolds, InvWaits, PTL

\* Every dispatched request has exactly one of an answer and a wait that will
\* answer, through deferred waits, refusals, drops and timeouts.
THEOREM OneAnswerEach == Spec => []EachAnsweredOnce
BY InvHolds, InvAnswered, PTL

\* No poll overlooks a client, however many are dropped while it reads.
THEOREM NobodySkipped == Spec => []EveryoneRead
BY InvHolds, InvRead, PTL

\* No subscriber is left without the event of a change it was there for, however
\* many are dropped while it is published.
THEOREM EveryChangeTold == Spec => []NoChangeMissed
<1>1. Inv => NoChangeMissed
  BY DEF Inv
<1> QED BY InvHolds, <1>1, PTL

\* Stillness is only reported after a whole quiet time without a change.
THEOREM StillnessIsReal == Spec => []StableMeansStill
BY InvHolds, InvStill, PTL
=============================================================================
