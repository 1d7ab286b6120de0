-------------------------- MODULE LspClientProofs --------------------------
(***************************************************************************)
(* Theorems about LspClient for any documents, any number of sessions,     *)
(* requests and questions of the server.                                   *)
(***************************************************************************)
EXTENDS LspClient, FiniteSetTheorems, SequenceTheorems, TLAPS

\* What the queues hold.
Answers == [id : 0..MaxIds, ok : BOOLEAN]
Sends ==
  [kind : {"request"}, id : Ids, method : Methods]
    \union [kind : {"open", "change"}, uri : Uris, version : Nat]
    \union [kind : {"close"}, uri : Uris]
    \union [kind : {"initialized", "exit", "reply"}]

Said == {incoming[i] : i \in 1..Len(incoming)} \union {batch[i] : i \in 1..Len(batch)}
ToSend == {m \in {outgoing[i] : i \in 1..Len(outgoing)} : m.kind = "request"}

Types ==
  /\ TypeOK
  /\ incoming \in Seq(Answers) /\ batch \in Seq(Answers) /\ outgoing \in Seq(Sends)

\* Ids are new when they are given: nothing under way has a later one.
Fresh == \A x \in pending \union owed \union Said \union ToSend : x.id <= counter

Named == AnsweredOnce /\ \A i \in Ids : i > counter => named[i] = 0

\* Under one id goes one method.
OneMethod ==
  \A p \in pending, x \in owed \union ToSend : p.id = x.id => p.method = x.method

\* Who answers initialize well has accepted it.
TruthSaid ==
  \A p \in pending, m \in Said :
    p.id = m.id /\ p.method = "initialize" /\ m.ok => greeted

\* While anything of a session runs outside of stop, its shutdown has not been asked
\* for.
Running == process = "alive" \/ reader = "reading" \/ writer = "waiting"
Alone ==
  /\ process = "none" => reader # "reading" /\ writer # "waiting"
  /\ pc \in {"host", "pump"} /\ Running =>
       /\ state \notin {"Idle", "Stopped", "ShuttingDown"}
       /\ \A p \in pending : p.method # "shutdown"
  /\ pc = "join" => process # "alive"

Inv ==
  /\ Types
  /\ Fresh
  /\ OneMethod
  /\ TruthSaid
  /\ Named
  /\ ReadyMeansGreeted
  /\ Alone

---------------------------------------------------------------------------
(* The documents as a sequence.                                            *)

LEMMA SeqOfSet ==
  ASSUME NEW S, IsFiniteSet(S)
  PROVE  /\ SetToSeq(S) \in Seq(S)
         /\ \A i, j \in 1..Len(SetToSeq(S)) : SetToSeq(S)[i] = SetToSeq(S)[j] => i = j
         /\ \A x \in S : \E i \in 1..Len(SetToSeq(S)) : SetToSeq(S)[i] = x
<1> DEFINE s == SetToSeq(S)
<1>1. PICK n \in Nat : ExistsBijection(1..n, S)
  BY FS_NatBijection
<1>2. Cardinality(S) = n
  BY <1>1, FS_CountingElements
<1>3. \E f \in [1..Cardinality(S) -> S] : IsInjective(f)
  BY <1>1, <1>2 DEF ExistsBijection, Bijection, Injection, IsInjective
<1>4. s \in [1..n -> S] /\ IsInjective(s)
  BY <1>2, <1>3 DEF SetToSeq
<1> HIDE DEF s
<1>5. s \in Seq(S) /\ Len(s) = n
  BY <1>4
<1>6. \A i, j \in 1..n : s[i] = s[j] => i = j
  BY <1>4 DEF IsInjective
<1>7. s \in Surjection(1..n, S)
  <2>1. s \in Injection(1..n, S)
    BY <1>4, <1>6 DEF Injection
  <2>2. IsFiniteSet(1..n) /\ Cardinality(1..n) = n
    BY FS_Interval
  <2> QED BY <1>2, <2>1, <2>2, FS_Injection DEF Surjection, Bijection
<1>8. \A x \in S : \E i \in 1..n : s[i] = x
  BY <1>7 DEF Surjection
<1> QED BY <1>5, <1>6, <1>8 DEF s

---------------------------------------------------------------------------
(* What is under way.                                                      *)

\* Handling takes the first message of the batch.
LEMMA BatchTail ==
  ASSUME Types, Handling, batch' = Tail(batch), incoming' = incoming
  PROVE  /\ message \in Answers /\ message \in Said
         /\ batch' \in Seq(Answers) /\ Said' \subseteq Said
<1>1. batch \in Seq(Answers) /\ batch # <<>>
  BY DEF Types, Handling
<1>2. /\ batch' \in Seq(Answers) /\ Len(batch') = Len(batch) - 1
      /\ \A i \in 1..Len(batch') : batch'[i] = batch[i + 1] /\ i + 1 \in 1..Len(batch)
      /\ message = batch[1] /\ 1 \in 1..Len(batch)
  BY <1>1 DEF message
<1>3. message \in Answers
  BY <1>1, <1>2
<1> QED BY <1>2, <1>3 DEF Said

\* Adding to the output keeps it, and of the requests only those added are new.
LEMMA Enqueued ==
  ASSUME Types, NEW messages \in Seq(Sends), Enqueue(messages)
  PROVE  /\ outgoing' \in Seq(Sends)
         /\ \A m \in ToSend' : m \in ToSend \/ \E i \in 1..Len(messages) : messages[i] = m
<1>1. outgoing \in Seq(Sends) /\ outgoing' = outgoing \o messages
  BY DEF Types, Enqueue
<1>2. /\ outgoing' \in Seq(Sends) /\ Len(outgoing') = Len(outgoing) + Len(messages)
      /\ \A i \in 1..Len(outgoing') :
           outgoing'[i] = IF i <= Len(outgoing) THEN outgoing[i]
                          ELSE messages[i - Len(outgoing)]
  BY <1>1
<1>3. ASSUME NEW m \in ToSend'
      PROVE  m \in ToSend \/ \E i \in 1..Len(messages) : messages[i] = m
  <2>1. PICK i \in 1..Len(outgoing') : outgoing'[i] = m /\ m.kind = "request"
    BY DEF ToSend
  <2>2. CASE i <= Len(outgoing)
    BY <1>1, <1>2, <2>1, <2>2 DEF ToSend
  <2>3. CASE i > Len(outgoing)
    <3>1. i - Len(outgoing) \in 1..Len(messages) /\ messages[i - Len(outgoing)] = m
      BY <1>1, <1>2, <2>1, <2>3
    <3> QED BY <3>1
  <2> QED BY <1>1, <2>2, <2>3
<1> QED BY <1>2, <1>3

\* One message that is no request.
LEMMA PlainEnqueued ==
  ASSUME Types, NEW m \in Sends, m.kind # "request", Enqueue(<<m>>)
  PROVE  outgoing' \in Seq(Sends) /\ ToSend' \subseteq ToSend
<1> DEFINE messages == <<m>>
<1>1. messages \in Seq(Sends) /\ Len(messages) = 1 /\ messages[1] = m
  OBVIOUS
<1>2. Enqueue(messages)
  OBVIOUS
<1> HIDE DEF messages
<1>3. /\ outgoing' \in Seq(Sends)
      /\ \A x \in ToSend' : x \in ToSend \/ \E i \in 1..Len(messages) : messages[i] = x
  BY <1>1, <1>2, Enqueued
<1>4. \A x \in ToSend' : x.kind = "request"
  BY DEF ToSend
<1> QED BY <1>1, <1>3, <1>4

\* Where nothing new comes under way, what is said of it stays true.
LEMMA FlowKeeps ==
  ASSUME Inv, Types',
         \A p \in pending' : \E q \in pending : q.id = p.id /\ q.method = p.method,
         \A x \in owed' \union ToSend' :
           \E y \in owed \union ToSend : y.id = x.id /\ y.method = x.method,
         Said' \subseteq Said, counter' = counter, greeted => greeted'
  PROVE  Fresh' /\ OneMethod' /\ TruthSaid'
<1>1. Fresh'
  <2> SUFFICES ASSUME NEW x \in pending' \union owed' \union Said' \union ToSend'
               PROVE  x.id <= counter
    BY DEF Fresh
  <2>1. \E y \in pending \union owed \union Said \union ToSend : y.id = x.id
    OBVIOUS
  <2> QED BY <2>1 DEF Inv, Fresh
<1>2. OneMethod'
  <2> SUFFICES ASSUME NEW p \in pending', NEW x \in owed' \union ToSend', p.id = x.id
               PROVE  p.method = x.method
    BY DEF OneMethod
  <2>1. PICK q \in pending : q.id = p.id /\ q.method = p.method
    OBVIOUS
  <2>2. PICK y \in owed \union ToSend : y.id = x.id /\ y.method = x.method
    OBVIOUS
  <2> QED BY <2>1, <2>2 DEF Inv, OneMethod
<1>3. TruthSaid'
  <2> SUFFICES ASSUME NEW p \in pending', NEW m \in Said', p.id = m.id,
                      p.method = "initialize", m.ok
               PROVE  greeted'
    BY DEF TruthSaid
  <2>1. PICK q \in pending : q.id = p.id /\ q.method = p.method
    OBVIOUS
  <2> QED BY <2>1 DEF Inv, TruthSaid
<1> QED BY <1>1, <1>2, <1>3

\* A request is given the next id, which nothing under way has.
LEMMA NewKeeps ==
  ASSUME Inv, NEW method \in Methods, counter < MaxIds,
         counter' = counter + 1, pending' = pending \union {New(method)},
         Enqueue(<<Request(counter + 1, method)>>),
         UNCHANGED <<owed, incoming, batch, greeted, named>>
  PROVE  /\ counter' \in 0..MaxIds /\ outgoing' \in Seq(Sends)
         /\ pending' \subseteq [id : Ids, method : Methods, old : BOOLEAN]
         /\ Fresh' /\ OneMethod' /\ TruthSaid' /\ Named'
<1> DEFINE req == Request(counter + 1, method)
           new == New(method)
           messages == <<req>>
<1>1. counter \in 0..MaxIds /\ MaxIds \in Nat /\ counter + 1 \in Ids
  BY BoundsAssumption DEF Inv, Types, TypeOK, Ids
<1>2. /\ req \in Sends /\ req.id = counter + 1 /\ req.method = method
      /\ req.kind = "request"
  BY <1>1 DEF Request, Sends
<1>3. /\ new \in [id : Ids, method : Methods, old : BOOLEAN]
      /\ new.id = counter + 1 /\ new.method = method
  BY <1>1 DEF New
<1>4. messages \in Seq(Sends) /\ Len(messages) = 1 /\ messages[1] = req /\ Enqueue(messages)
  BY <1>2
<1> HIDE DEF req, new
<1>5. outgoing' \in Seq(Sends) /\ ToSend' \subseteq ToSend \union {req}
  <2> HIDE DEF messages
  <2>1. Types
    BY DEF Inv
  <2> QED BY <1>4, <2>1, Enqueued
<1>6. Said' = Said
  BY DEF Said
<1>7. pending' = pending \union {new}
  BY DEF new
<1>8. \A x \in pending \union owed \union Said \union ToSend : x.id <= counter /\ x.id \in Int
  <2>1. \A x \in pending : x.id \in Int
    BY DEF Inv, Types, TypeOK, Ids
  <2>2. \A x \in owed : x.id \in Int
    BY DEF Inv, Types, TypeOK, Ids
  <2>3. \A x \in Said : x.id \in Int
    <3>1. incoming \in Seq(Answers) /\ batch \in Seq(Answers)
      BY DEF Inv, Types
    <3>2. \A x \in Said : x \in Answers
      BY <3>1 DEF Said
    <3> QED BY <3>2 DEF Answers
  <2>4. \A x \in ToSend : x.id \in Int
    <3>1. outgoing \in Seq(Sends)
      BY DEF Inv, Types
    <3>2. \A x \in ToSend : x \in Sends /\ x.kind = "request"
      BY <3>1 DEF ToSend
    <3> QED BY <3>2 DEF Sends, Ids
  <2> QED BY <2>1, <2>2, <2>3, <2>4 DEF Inv, Fresh
<1>9. Fresh'
  BY <1>1, <1>2, <1>3, <1>5, <1>6, <1>7, <1>8 DEF Fresh
<1>10. OneMethod'
  <2> SUFFICES ASSUME NEW p \in pending', NEW x \in owed \union ToSend', p.id = x.id
               PROVE  p.method = x.method
    BY DEF OneMethod
  <2>1. CASE p \in pending /\ x \in owed \union ToSend
    BY <2>1 DEF Inv, OneMethod
  <2>2. CASE p = new /\ x = req
    BY <2>2, <1>2, <1>3
  <2>3. CASE p = new /\ x \in owed \union ToSend
    BY <2>3, <1>1, <1>3, <1>8
  <2>4. CASE p \in pending /\ x = req
    BY <2>4, <1>1, <1>2, <1>8
  <2> QED BY <2>1, <2>2, <2>3, <2>4, <1>5, <1>7
<1>11. TruthSaid'
  <2> SUFFICES ASSUME NEW p \in pending', NEW m \in Said, p.id = m.id,
                      p.method = "initialize", m.ok
               PROVE  greeted
    BY <1>6 DEF TruthSaid
  <2>1. p # new
    BY <1>1, <1>3, <1>8
  <2> QED BY <2>1, <1>7 DEF Inv, TruthSaid
<1>12. Named'
  <2>1. named[counter + 1] = 0
    BY <1>1 DEF Inv, Named
  <2>2. \A i \in Ids : i > counter + 1 => named[i] = 0
    BY <1>1 DEF Inv, Named, Ids
  <2>3. \A p \in pending : p.id # new.id
    BY <1>1, <1>3, <1>8
  <2> QED BY <2>1, <2>2, <2>3, <1>3, <1>7 DEF Inv, Named, AnsweredOnce
<1>13. /\ counter' \in 0..MaxIds
       /\ pending' \subseteq [id : Ids, method : Methods, old : BOOLEAN]
  BY <1>1, <1>3, <1>7 DEF Inv, Types, TypeOK
<1> QED BY <1>5, <1>9, <1>10, <1>11, <1>12, <1>13

---------------------------------------------------------------------------
(* What the host calls.                                                    *)

LEMMA StartKeeps == ASSUME Inv, Start PROVE Inv'
<1>1. /\ pc = "host" /\ counter < MaxIds /\ starts < MaxStarts
      /\ reader \in {"none", "done"} /\ writer \in {"none", "done"}
      /\ starts' = starts + 1 /\ exitSent' = FALSE /\ incoming' = <<>>
      /\ readerDone' = FALSE /\ stopping' = FALSE /\ owed' = {} /\ greeted' = FALSE
      /\ docs' = [u \in Uris |-> 0] /\ heeds' \in BOOLEAN
      /\ UNCHANGED <<documents, named, pc, batch, finished, late, turns>>
  BY DEF Start
<1>2. /\ counter \in 0..MaxIds /\ MaxIds \in Nat /\ starts \in 0..MaxStarts /\ MaxStarts \in Nat
      /\ batch = <<>> /\ TypeOK /\ Types
  BY <1>1, BoundsAssumption DEF Inv, Types, TypeOK, Pumping
<1>3. starts' \in 0..MaxStarts /\ Said' = {}
  BY <1>1, <1>2 DEF Said
<1>0. docs' \in [Uris -> Nat] /\ incoming' \in Seq(Answers) /\ batch' \in Seq(Answers)
  BY <1>1, <1>2
<1>4. CASE /\ state' = "Failed" /\ process' = "none"
           /\ pending' = {} /\ outgoing' = <<>>
           /\ UNCHANGED <<counter, reader, writer>>
  <2>1. Types'
    <3>1. outgoing' \in Seq(Sends) /\ pending' = {} /\ counter' = counter
      BY <1>4
    <3>2. state' = "Failed" /\ process' = "none" /\ reader' = reader /\ writer' = writer
      BY <1>4
    <3> QED BY <1>0, <1>1, <1>2, <1>3, <3>1, <3>2 DEF Types, TypeOK, States
  <2>2. Fresh' /\ OneMethod' /\ TruthSaid'
    BY <1>1, <1>3, <1>4 DEF Fresh, OneMethod, TruthSaid, ToSend
  <2>3. Named' /\ ReadyMeansGreeted' /\ Alone'
    BY <1>1, <1>4 DEF Inv, Named, AnsweredOnce, ReadyMeansGreeted, Alone, Running
  <2> QED BY <2>1, <2>2, <2>3 DEF Inv
<1>5. CASE /\ state' = "Starting" /\ process' = "alive"
           /\ reader' = "reading" /\ writer' = "waiting"
           /\ counter' = counter + 1
           /\ pending' = {New("initialize")}
           /\ outgoing' = <<Request(counter + 1, "initialize")>>
  <2> DEFINE req == Request(counter + 1, "initialize")
             new == New("initialize")
  <2>1. counter + 1 \in Ids /\ counter' \in 0..MaxIds
    BY <1>1, <1>2, <1>5 DEF Ids
  <2>2. /\ req \in Sends /\ req.id = counter + 1 /\ req.method = "initialize"
    BY <2>1 DEF Request, Sends, Methods
  <2>3. /\ new \in [id : Ids, method : Methods, old : BOOLEAN]
        /\ new.id = counter + 1 /\ new.method = "initialize"
    BY <2>1 DEF New, Methods
  <2>4. pending' = {new} /\ outgoing' = <<req>>
    BY <1>5
  <2> HIDE DEF req, new
  <2>5. outgoing' \in Seq(Sends) /\ ToSend' \subseteq {req}
    BY <2>2, <2>4 DEF ToSend
  <2>6. Types'
    BY <1>0, <1>1, <1>2, <1>3, <1>5, <2>1, <2>3, <2>4, <2>5 DEF Types, TypeOK, States
  <2>7. Fresh' /\ OneMethod' /\ TruthSaid'
    <3>1. counter' = counter + 1 /\ owed' = {} /\ counter + 1 <= counter + 1
      BY <1>1, <1>5, <2>1 DEF Ids
    <3>2. Fresh'
      BY <1>3, <2>2, <2>3, <2>4, <2>5, <3>1 DEF Fresh
    <3>3. OneMethod'
      BY <2>2, <2>3, <2>4, <2>5, <3>1 DEF OneMethod
    <3>4. TruthSaid'
      BY <1>3 DEF TruthSaid
    <3> QED BY <3>2, <3>3, <3>4
  <2>8. Named'
    <3>1. named[counter + 1] = 0 /\ \A i \in Ids : i > counter + 1 => named[i] = 0
      BY <1>2, <2>1 DEF Inv, Named, Ids
    <3> QED BY <3>1, <1>1, <1>5, <2>3, <2>4 DEF Inv, Named, AnsweredOnce
  <2>9. ReadyMeansGreeted' /\ Alone'
    BY <1>1, <1>5, <2>3, <2>4 DEF ReadyMeansGreeted, Alone, Running
  <2> QED BY <2>6, <2>7, <2>8, <2>9 DEF Inv
<1> QED BY <1>4, <1>5 DEF Start

\* A change of the documents sends what is no request.
LEMMA DocumentsKeep ==
  ASSUME Inv, pc = "host", turns < MaxTurns, turns' = turns + 1,
         documents' \in [Uris -> Nat],
         outgoing' \in Seq(Sends), ToSend' \subseteq ToSend,
         UNCHANGED <<state, pending, counter, exitSent, named, pc, batch,
                     finished, late, starts, incoming, readerDone, threadVars, serverVars>>
  PROVE  Inv'
<1> USE DEF threadVars, serverVars
<1>1. Types'
  <2>1. turns' \in 0..MaxTurns
    BY BoundsAssumption DEF Inv, Types, TypeOK
  <2> QED BY <2>1 DEF Inv, Types, TypeOK, Pumping
<1>2. Said' = Said
  BY DEF Said
<1>3. Fresh' /\ OneMethod' /\ TruthSaid'
  BY <1>1, <1>2, FlowKeeps
<1>4. Named' /\ ReadyMeansGreeted' /\ Alone'
  BY DEF Inv, Named, AnsweredOnce, ReadyMeansGreeted, Alone, Running
<1> QED BY <1>1, <1>3, <1>4 DEF Inv

LEMMA DidOpenKeeps == ASSUME Inv, NEW u \in Uris, DidOpen(u) PROVE Inv'
<1> DEFINE new == Open(u, 1)
           gone == Close(u)
           both == <<gone, new>>
<1>1. new \in Sends /\ gone \in Sends /\ new.kind # "request" /\ gone.kind # "request"
  BY DEF Open, Close, Sends
<1>2. documents' \in [Uris -> Nat] /\ Types
  BY DEF DidOpen, Inv, Types, TypeOK
<1>3. Enqueue(both) \/ Enqueue(<<new>>)
  BY DEF DidOpen
<1> HIDE DEF new, gone
<1>4. outgoing' \in Seq(Sends) /\ ToSend' \subseteq ToSend
  <2>1. CASE Enqueue(both)
    <3>1. both \in Seq(Sends) /\ Len(both) = 2 /\ both[1] = gone /\ both[2] = new
      BY <1>1
    <3> HIDE DEF both
    <3>2. /\ outgoing' \in Seq(Sends)
          /\ \A x \in ToSend' : x \in ToSend \/ \E i \in 1..Len(both) : both[i] = x
      BY <2>1, <3>1, <1>2, Enqueued
    <3>3. \A x \in ToSend' : x.kind = "request"
      BY DEF ToSend
    <3>4. \A i \in 1..Len(both) : both[i] = gone \/ both[i] = new
      BY <3>1
    <3> QED BY <3>2, <3>3, <3>4, <1>1
  <2>2. CASE Enqueue(<<new>>)
    BY <2>2, <1>1, <1>2, PlainEnqueued
  <2> QED BY <1>3, <2>1, <2>2
<1>5. /\ pc = "host" /\ turns < MaxTurns /\ turns' = turns + 1
      /\ UNCHANGED <<state, pending, counter, exitSent, named, pc, batch,
                     finished, late, starts, incoming, readerDone, threadVars, serverVars>>
  BY DEF DidOpen
<1> QED BY <1>2, <1>4, <1>5, DocumentsKeep

LEMMA DidChangeKeeps ==
  ASSUME Inv, NEW u \in Uris, DidChange(u) \/ DidClose(u) PROVE Inv'
<1> DEFINE change == Change(u, documents[u] + 1)
           gone == Close(u)
<1>1. documents[u] \in Nat /\ Types /\ documents \in [Uris -> Nat]
  BY DEF Inv, Types, TypeOK
<1>2. change \in Sends /\ gone \in Sends /\ change.kind # "request" /\ gone.kind # "request"
  BY <1>1 DEF Change, Close, Sends
<1>3. documents' \in [Uris -> Nat]
  BY <1>1 DEF DidChange, DidClose
<1>4. Enqueue(<<change>>) \/ Enqueue(<<gone>>)
  BY DEF DidChange, DidClose
<1> HIDE DEF change, gone
<1>5. outgoing' \in Seq(Sends) /\ ToSend' \subseteq ToSend
  BY <1>1, <1>2, <1>4, PlainEnqueued
<1>6. /\ pc = "host" /\ turns < MaxTurns /\ turns' = turns + 1
      /\ UNCHANGED <<state, pending, counter, exitSent, named, pc, batch,
                     finished, late, starts, incoming, readerDone, threadVars, serverVars>>
  BY DEF DidChange, DidClose
<1> QED BY <1>3, <1>5, <1>6, DocumentsKeep

LEMMA AskKeeps == ASSUME Inv, Ask PROVE Inv'
<1> USE DEF mainVars, threadVars, serverVars
<1>1. counter < MaxIds /\ state = "Ready"
  BY BoundsAssumption DEF Ask, Inv, Types, TypeOK
<1>2. /\ counter' \in 0..MaxIds /\ outgoing' \in Seq(Sends)
      /\ pending' \subseteq [id : Ids, method : Methods, old : BOOLEAN]
      /\ Fresh' /\ OneMethod' /\ TruthSaid' /\ Named'
  <2>1. "other" \in Methods
    BY DEF Methods
  <2>2. /\ counter' = counter + 1 /\ pending' = pending \union {New("other")}
        /\ Enqueue(<<Request(counter + 1, "other")>>)
        /\ UNCHANGED <<owed, incoming, batch, greeted, named>>
    BY DEF Ask
  <2> QED BY <1>1, <2>1, <2>2, NewKeeps
<1>3. Types'
  BY <1>2 DEF Ask, Inv, Types, TypeOK, Pumping
<1>4. ReadyMeansGreeted' /\ Alone'
  BY DEF Ask, New, Inv, ReadyMeansGreeted, Alone, Running
<1> QED BY <1>2, <1>3, <1>4 DEF Inv

LEMMA StopKeeps == ASSUME Inv, Stop PROVE Inv'
<1> USE DEF threadVars, serverVars
<1>1. /\ pc = "host" /\ Types
      /\ UNCHANGED <<documents, exitSent, named, batch, finished, late, starts, turns,
                     incoming, readerDone, threadVars, serverVars>>
  BY DEF Stop, Inv
<1>2. Said' = Said
  BY <1>1 DEF Said
<1>3. CASE /\ state' \in {state, "Stopped"} /\ (state' = "Stopped" => process = "none" \/ pc' = "stop")
           /\ pc' \in {pc, "stop"} /\ UNCHANGED <<pending, counter, outgoing>>
           /\ (pc' = pc => process = "none")
  <2>1. Types'
    BY <1>1, <1>3 DEF Types, TypeOK, Pumping, States
  <2>2. ToSend' = ToSend
    BY <1>3 DEF ToSend
  <2>3. Fresh' /\ OneMethod' /\ TruthSaid'
    BY <1>1, <1>2, <1>3, <2>1, <2>2, FlowKeeps
  <2>4. Named' /\ ReadyMeansGreeted' /\ Alone'
    BY <1>1, <1>3 DEF Inv, Named, AnsweredOnce, ReadyMeansGreeted, Alone, Running
  <2> QED BY <2>1, <2>3, <2>4 DEF Inv
<1>4. CASE /\ pc' = "stop" /\ counter < MaxIds /\ counter' = counter + 1
           /\ pending' = pending \union {New("shutdown")}
           /\ state' = "ShuttingDown"
           /\ Enqueue(<<Request(counter + 1, "shutdown")>>)
  <2>1. /\ counter' \in 0..MaxIds /\ outgoing' \in Seq(Sends)
        /\ pending' \subseteq [id : Ids, method : Methods, old : BOOLEAN]
        /\ Fresh' /\ OneMethod' /\ TruthSaid' /\ Named'
    <3>1. "shutdown" \in Methods
      BY DEF Methods
    <3> QED BY <3>1, <1>1, <1>4, NewKeeps
  <2>2. Types'
    BY <1>1, <1>4, <2>1 DEF Types, TypeOK, Pumping, States
  <2>3. ReadyMeansGreeted' /\ Alone'
    BY <1>1, <1>4 DEF Inv, ReadyMeansGreeted, Alone, Running
  <2> QED BY <2>1, <2>2, <2>3 DEF Inv
<1> QED BY <1>1, <1>3, <1>4 DEF Stop

---------------------------------------------------------------------------
(* The pump.                                                               *)

\* Where no request, answer or id is added, what is said of them stays true.
LEMMA QuietKeeps ==
  ASSUME Inv, Types', UNCHANGED <<pending, counter, named, outgoing, greeted>>,
         owed' \subseteq owed, Said' \subseteq Said
  PROVE  Fresh' /\ OneMethod' /\ TruthSaid' /\ Named'
<1>1. ToSend' = ToSend
  BY DEF ToSend
<1>2. Fresh' /\ OneMethod' /\ TruthSaid'
  BY <1>1, FlowKeeps
<1>3. Named'
  BY DEF Inv, Named, AnsweredOnce
<1> QED BY <1>2, <1>3

LEMMA PumpBeginKeeps == ASSUME Inv, PumpBegin PROVE Inv'
<1> USE DEF sessionVars, threadVars, serverVars
<1>1. /\ (pc = "host" /\ pc' = "pump") \/ (pc = "stop" /\ pc' = "stopPump")
      /\ batch' = incoming /\ incoming' = <<>> /\ finished' = readerDone
      /\ UNCHANGED <<sessionVars, late, starts, turns, outgoing, readerDone,
                     threadVars, serverVars>>
  <2>1. pc = "host" \/ pc = "stop"
    BY DEF PumpBegin
  <2>2. pc' = IF pc = "host" THEN "pump" ELSE "stopPump"
    BY DEF PumpBegin
  <2>3. (pc = "host" /\ pc' = "pump") \/ (pc = "stop" /\ pc' = "stopPump")
    BY <2>1, <2>2
  <2>4. /\ batch' = incoming /\ incoming' = <<>> /\ finished' = readerDone
        /\ UNCHANGED <<sessionVars, late, starts, turns, outgoing, readerDone,
                       threadVars, serverVars>>
    BY DEF PumpBegin
  <2> QED BY <2>3, <2>4
<1>2. Types'
  BY <1>1 DEF Inv, Types, TypeOK, Pumping
<1>3. Said' \subseteq Said
  BY <1>1 DEF Said
<1>4. Fresh' /\ OneMethod' /\ TruthSaid' /\ Named'
  BY <1>1, <1>2, <1>3, QuietKeeps
<1>5. ReadyMeansGreeted' /\ Alone'
  BY <1>1 DEF Inv, ReadyMeansGreeted, Alone, Running
<1> QED BY <1>2, <1>4, <1>5 DEF Inv

\* What handling one message keeps, given what it does to the session.
LEMMA HandledKeeps ==
  ASSUME Inv, Handling, HandledOnly,
         state' \in States, exitSent' \in BOOLEAN,
         outgoing' \in Seq(Sends), ToSend' \subseteq ToSend,
         \/ UNCHANGED <<pending, named>>
         \/ /\ Forget /\ \E p \in pending : p.id = message.id
            /\ named' = named \/ named' = [named EXCEPT ![message.id] = @ + 1],
         state' = "Ready" => state = "Ready" \/ greeted,
         state' \in {"Idle", "Stopped", "ShuttingDown"} =>
           state' = state \/ pc = "stopPump" \/ ~Running
  PROVE  Inv'
<1> USE DEF threadVars, serverVars
<1>1. /\ batch' = Tail(batch) /\ pc \in {"pump", "stopPump"} /\ Types
      /\ UNCHANGED <<documents, counter, pc, finished, late, starts, turns,
                     incoming, readerDone, threadVars, serverVars>>
  BY DEF HandledOnly, Handling, Pumping, Inv
<1>2. batch' \in Seq(Answers) /\ Said' \subseteq Said
  BY <1>1, BatchTail
<1>3. pending' \subseteq pending
  BY DEF Forget
<1>4. named' \in [Ids -> Nat]
  <2>1. named \in [Ids -> Nat]
    BY <1>1 DEF Types, TypeOK
  <2>2. named' = named \/ named' = [named EXCEPT ![message.id] = @ + 1]
    OBVIOUS
  <2> QED BY <2>1, <2>2
<1>5. Types'
  <2>1. /\ pending' \subseteq [id : Ids, method : Methods, old : BOOLEAN]
        /\ incoming' \in Seq(Answers) /\ outgoing' \in Seq(Sends)
    BY <1>1, <1>3 DEF Types, TypeOK
  <2>2. Pumping'
    BY <1>1 DEF Pumping
  <2>3. TypeOK'
    BY <1>1, <1>4, <2>1, <2>2 DEF Types, TypeOK
  <2> QED BY <1>2, <2>1, <2>3 DEF Types
<1>6. Fresh' /\ OneMethod' /\ TruthSaid'
  BY <1>1, <1>2, <1>3, <1>5, FlowKeeps
<1>7. Named'
  <2>1. CASE UNCHANGED <<pending, named>>
    BY <2>1, <1>1 DEF Inv, Named, AnsweredOnce
  <2>2. CASE /\ Forget /\ \E p \in pending : p.id = message.id
             /\ named' = named \/ named' = [named EXCEPT ![message.id] = @ + 1]
    <3>1. PICK p \in pending : p.id = message.id
      BY <2>2
    <3>2. p.id \in Ids /\ named[p.id] = 0 /\ p.id <= counter /\ named \in [Ids -> Nat]
      BY <1>1 DEF Inv, Named, AnsweredOnce, Fresh, Types, TypeOK
    <3>3. \A i \in Ids : IF i = message.id THEN named'[i] \in {0, 1}
                                           ELSE named'[i] = named[i]
      BY <2>2, <3>1, <3>2
    <3>4. \A q \in pending' : q \in pending /\ q.id # message.id /\ q.id \in Ids
      BY <2>2, <1>1 DEF Forget, Types, TypeOK
    <3>5. \A i \in Ids : i > counter => i # message.id
      BY <3>1, <3>2, <1>1 DEF Ids, Types, TypeOK
    <3>6. AnsweredOnce'
      BY <3>3, <3>4 DEF Inv, Named, AnsweredOnce
    <3> QED BY <3>3, <3>5, <3>6, <1>1 DEF Inv, Named
  <2> QED BY <2>1, <2>2
<1>8. ReadyMeansGreeted' /\ Alone'
  <2>1. ReadyMeansGreeted'
    BY <1>1 DEF Inv, ReadyMeansGreeted
  <2>2. Alone'
    BY <1>1, <1>3 DEF Inv, Alone, Running
  <2> QED BY <2>1, <2>2
<1> QED BY <1>5, <1>6, <1>7, <1>8 DEF Inv

LEMMA Joined ==
  ASSUME NEW S, NEW s \in Seq(S), NEW t \in Seq(S)
  PROVE  /\ s \o t \in Seq(S) /\ Len(s \o t) = Len(s) + Len(t)
         /\ \A i \in 1..Len(s \o t) :
              (s \o t)[i] = IF i <= Len(s) THEN s[i] ELSE t[i - Len(s)]
OBVIOUS

\* What is sent of the documents is no request.
LEMMA OpenedAgain ==
  ASSUME Types, Enqueue(<<Plain("initialized")>> \o OpenDocuments)
  PROVE  outgoing' \in Seq(Sends) /\ ToSend' \subseteq ToSend
<1> DEFINE S == {u \in Uris : documents[u] > 0}
           uris == SetToSeq(S)
           opened == [i \in 1..Len(uris) |-> Open(uris[i], documents[uris[i]])]
           first == <<Plain("initialized")>>
           messages == first \o opened
<1>1. IsFiniteSet(S)
  BY BoundsAssumption, FS_Subset
<1>2. uris \in Seq(S)
  <2> HIDE DEF S
  <2> QED BY <1>1, SeqOfSet
<1>3. Enqueue(messages)
  BY DEF OpenDocuments
<1> HIDE DEF uris
<1>4. \A i \in 1..Len(uris) : opened[i] \in Sends /\ opened[i].kind = "open"
  <2> TAKE i \in 1..Len(uris)
  <2>1. uris[i] \in S
    <3> HIDE DEF S
    <3> QED BY <1>2
  <2>2. uris[i] \in Uris /\ documents \in [Uris -> Nat]
    BY <2>1 DEF Types, TypeOK
  <2> QED BY <2>2 DEF Open, Sends
<1>5. opened \in Seq(Sends) /\ Len(opened) = Len(uris) /\ Len(uris) \in Nat
  BY <1>2, <1>4
<1>6. /\ first \in Seq(Sends) /\ Len(first) = 1 /\ first[1].kind = "initialized"
  BY DEF Plain, Sends
<1> HIDE DEF opened, first
<1>7. /\ messages \in Seq(Sends) /\ Len(messages) = 1 + Len(uris)
      /\ \A i \in 1..Len(messages) : messages[i] = IF i <= 1 THEN first[i] ELSE opened[i - 1]
  <2>1. /\ messages \in Seq(Sends) /\ Len(messages) = Len(first) + Len(opened)
        /\ \A i \in 1..Len(messages) :
             messages[i] = IF i <= Len(first) THEN first[i] ELSE opened[i - Len(first)]
    <3> HIDE DEF Sends
    <3>1. first \in Seq(Sends) /\ opened \in Seq(Sends)
      BY <1>5, <1>6
    <3> QED BY <3>1, Joined
  <2> QED BY <1>5, <1>6, <2>1
<1>8. \A i \in 1..Len(messages) : messages[i].kind # "request"
  <2> TAKE i \in 1..Len(messages)
  <2>1. CASE i = 1
    BY <2>1, <1>6, <1>7
  <2>2. CASE i > 1
    <3>1. i - 1 \in 1..Len(uris) /\ messages[i] = opened[i - 1]
      BY <2>2, <1>5, <1>7
    <3> QED BY <3>1, <1>4
  <2> QED BY <2>1, <2>2, <1>5, <1>7
<1> HIDE DEF messages
<1>9. /\ outgoing' \in Seq(Sends)
      /\ \A x \in ToSend' : x \in ToSend \/ \E i \in 1..Len(messages) : messages[i] = x
  BY <1>3, <1>7, Enqueued
<1>10. \A x \in ToSend' : x.kind = "request"
  BY DEF ToSend
<1> QED BY <1>8, <1>9, <1>10

LEMMA HandleKeeps == ASSUME Inv, Handle PROVE Inv'
<1>1. /\ Handling /\ HandledOnly /\ Types /\ TypeOK /\ batch' = Tail(batch)
      /\ incoming' = incoming
  BY DEF Handle, HandleInitialized, HandleRefused, HandleShutdown, HandleAnswer,
         HandleUnknown, HandleAsk, HandledOnly, Inv, Types
<1>2. message \in Said
  BY <1>1, BatchTail
<1>3. outgoing \in Seq(Sends) /\ state \in States /\ exitSent \in BOOLEAN
  BY <1>1 DEF Types, TypeOK
<1>4. CASE HandleInitialized
  <2>1. /\ outgoing' \in Seq(Sends) /\ ToSend' \subseteq ToSend
    BY <1>1, <1>4, OpenedAgain DEF HandleInitialized
  <2>2. greeted
    BY <1>2, <1>4 DEF HandleInitialized, Asked, Inv, TruthSaid
  <2>3. /\ state' = "Ready" /\ state' \in States /\ exitSent' = exitSent /\ Forget
        /\ named' = [named EXCEPT ![message.id] = @ + 1]
        /\ \E p \in pending : p.id = message.id
    BY <1>4 DEF HandleInitialized, Asked, States
  <2> QED BY <1>1, <1>3, <2>1, <2>2, <2>3, HandledKeeps
<1>5. CASE HandleRefused
  <2>1. /\ state' = "Failed" /\ state' \in States /\ Forget
        /\ UNCHANGED <<outgoing, exitSent, named>>
        /\ \E p \in pending : p.id = message.id
    BY <1>5 DEF HandleRefused, Asked, States
  <2>2. ToSend' = ToSend
    BY <2>1 DEF ToSend
  <2> QED BY <1>1, <1>3, <2>1, <2>2, HandledKeeps
<1>6. CASE HandleShutdown
  <2>1. /\ state' = "Stopped" /\ state' \in States /\ exitSent' = TRUE /\ Forget
        /\ named' = [named EXCEPT ![message.id] = @ + 1]
        /\ Enqueue(<<Plain("exit")>>)
        /\ \E p \in pending : p.id = message.id /\ p.method = "shutdown"
    BY <1>6 DEF HandleShutdown, Asked, States
  <2>2. /\ outgoing' \in Seq(Sends) /\ ToSend' \subseteq ToSend
    <3>1. Plain("exit") \in Sends /\ Plain("exit").kind # "request"
      BY DEF Plain, Sends
    <3> QED BY <1>1, <2>1, <3>1, PlainEnqueued
  <2>3. pc = "stopPump" \/ ~Running
    BY <1>1, <2>1 DEF Inv, Alone, Handling, Pumping
  <2> QED BY <1>1, <2>1, <2>2, <2>3, HandledKeeps
<1>7. CASE HandleAnswer
  <2>1. /\ Forget /\ UNCHANGED <<state, outgoing, exitSent>>
        /\ named' = [named EXCEPT ![message.id] = @ + 1]
        /\ \E p \in pending : p.id = message.id
    BY <1>7 DEF HandleAnswer, Asked
  <2>2. ToSend' = ToSend
    BY <2>1 DEF ToSend
  <2> QED BY <1>1, <1>3, <2>1, <2>2, HandledKeeps
<1>8. CASE HandleUnknown
  <2>1. UNCHANGED <<state, pending, outgoing, exitSent, named>>
    BY <1>8 DEF HandleUnknown
  <2>2. ToSend' = ToSend
    BY <2>1 DEF ToSend
  <2> QED BY <1>1, <1>3, <2>1, <2>2, HandledKeeps
<1>9. CASE HandleAsk
  <2>1. UNCHANGED <<state, pending, exitSent, named>> /\ Enqueue(<<Plain("reply")>>)
    BY <1>9 DEF HandleAsk
  <2>2. /\ outgoing' \in Seq(Sends) /\ ToSend' \subseteq ToSend
    <3>1. Plain("reply") \in Sends /\ Plain("reply").kind # "request"
      BY DEF Plain, Sends
    <3> QED BY <1>1, <2>1, <3>1, PlainEnqueued
  <2> QED BY <1>1, <1>3, <2>1, <2>2, HandledKeeps
<1> QED BY <1>4, <1>5, <1>6, <1>7, <1>8, <1>9 DEF Handle

LEMMA PumpEndKeeps == ASSUME Inv, PumpEnd PROVE Inv'
<1> DEFINE old == {p \in pending : p.old}
           shaken == IF state = "Starting" /\ \E p \in old : p.method = "initialize"
                     THEN "Failed" ELSE state
           expired == IF shaken = "Ready" THEN old ELSE {}
           ids == {p.id : p \in expired}
<1>1. /\ (pc = "pump" /\ pc' = "host") \/ (pc = "stopPump" /\ pc' = "stop")
      /\ batch = <<>> /\ finished' = FALSE /\ TypeOK
  BY DEF PumpEnd, Pumping, Inv, Types
<1>2. /\ UNCHANGED <<documents, counter, exitSent, batch, late, starts, turns, queueVars,
                     threadVars, serverVars>>
      /\ pending' = pending \ expired
      /\ named' = [i \in Ids |-> IF i \in ids THEN named[i] + 1 ELSE named[i]]
      /\ state' = IF ~finished \/ shaken \in {"Stopped", "Failed"} THEN shaken
                  ELSE IF shaken = "ShuttingDown" THEN "Stopped" ELSE "Failed"
  BY DEF PumpEnd
<1>3. /\ shaken \in {state, "Failed"} /\ expired \subseteq pending
      /\ state' \in States /\ state' \in {state, "Failed", "Stopped"}
      /\ state' = "Stopped" => state \in {"Stopped", "ShuttingDown"}
  BY <1>1, <1>2 DEF TypeOK, States
<1> HIDE DEF old, shaken, expired
<1>4. named' \in [Ids -> Nat]
  BY <1>1, <1>2 DEF TypeOK
<1> USE DEF queueVars, threadVars, serverVars
<1>5. Types'
  <2>1. /\ state' \in States /\ pending' \subseteq [id : Ids, method : Methods, old : BOOLEAN]
        /\ finished' \in BOOLEAN /\ pc' \in {"host", "stop"} /\ batch' = <<>>
    BY <1>1, <1>2, <1>3 DEF TypeOK
  <2> QED BY <1>1, <1>2, <1>4, <2>1 DEF Inv, Types, TypeOK
<1>6. Said' = Said /\ ToSend' = ToSend
  BY <1>2 DEF Said, ToSend
<1>7. Fresh' /\ OneMethod' /\ TruthSaid'
  BY <1>2, <1>5, <1>6, FlowKeeps
<1>8. Named'
  <2>1. \A p \in pending : p.id \in Ids /\ named[p.id] = 0 /\ p.id <= counter
    BY <1>1 DEF Inv, Named, AnsweredOnce, Fresh, TypeOK
  <2>2. \A i \in ids : i \in Ids /\ named[i] = 0 /\ i <= counter
    BY <2>1, <1>3
  <2>3. \A i \in Ids : IF i \in ids THEN named'[i] = 1 ELSE named'[i] = named[i]
    BY <1>2, <2>2
  <2>4. \A p \in pending' : p \in pending /\ p.id \in Ids /\ p.id \notin ids
    BY <1>2, <1>3, <2>1 DEF Inv, Named, AnsweredOnce
  <2>5. \A i \in Ids : i > counter => i \notin ids
    BY <1>1, <2>2 DEF TypeOK, Ids
  <2> HIDE DEF ids
  <2>6. AnsweredOnce'
    BY <2>3, <2>4 DEF Inv, Named, AnsweredOnce
  <2> QED BY <1>2, <2>3, <2>5, <2>6 DEF Inv, Named
<1>9. ReadyMeansGreeted' /\ Alone'
  BY <1>1, <1>2, <1>3 DEF Inv, ReadyMeansGreeted, Alone, Running
<1> QED BY <1>5, <1>7, <1>8, <1>9 DEF Inv

LEMMA GetOldKeeps == ASSUME Inv, GetOld PROVE Inv'
<1> USE DEF mainVars, queueVars, threadVars, serverVars
<1>1. PICK p \in pending :
        /\ pending' = (pending \ {p}) \union {[p EXCEPT !.old = TRUE]}
        /\ UNCHANGED <<state, documents, counter, exitSent, named, mainVars, queueVars,
                       threadVars, serverVars>>
  BY DEF GetOld
<1> DEFINE aged == [p EXCEPT !.old = TRUE]
<1>2. /\ aged \in [id : Ids, method : Methods, old : BOOLEAN]
      /\ aged.id = p.id /\ aged.method = p.method /\ TypeOK
  BY DEF Inv, Types, TypeOK
<1>3. pending' = (pending \ {p}) \union {aged}
  BY <1>1
<1> HIDE DEF aged
<1>4. Types'
  BY <1>1, <1>2, <1>3 DEF Inv, Types, TypeOK, Pumping
<1>5. Said' = Said /\ ToSend' = ToSend
  BY <1>1 DEF Said, ToSend
<1>6. \A q \in pending' : \E r \in pending : r.id = q.id /\ r.method = q.method
  BY <1>2, <1>3
<1>7. Fresh' /\ OneMethod' /\ TruthSaid'
  BY <1>1, <1>4, <1>5, <1>6, FlowKeeps
<1>8. Named'
  <2>1. \A q \in pending' : named[q.id] = 0
    BY <1>6 DEF Inv, Named, AnsweredOnce
  <2>2. \A q, r \in pending' : q.id = r.id => q = r
    BY <1>2, <1>3 DEF Inv, Named, AnsweredOnce
  <2> QED BY <1>1, <2>1, <2>2 DEF Inv, Named, AnsweredOnce
<1>9. ReadyMeansGreeted' /\ Alone'
  BY <1>1, <1>6 DEF Inv, ReadyMeansGreeted, Alone, Running
<1> QED BY <1>4, <1>7, <1>8, <1>9 DEF Inv

---------------------------------------------------------------------------
(* The rest of stop.                                                       *)

\* Steps that only move the main thread, the threads and the process.
LEMMA QuietInv ==
  ASSUME Inv, Types', Alone', UNCHANGED <<pending, counter, named, outgoing, greeted>>,
         state' \in {state, "Stopped"}, owed' \subseteq owed, Said' \subseteq Said
  PROVE  Inv'
<1>1. Fresh' /\ OneMethod' /\ TruthSaid' /\ Named'
  BY QuietKeeps
<1>2. ReadyMeansGreeted'
  BY DEF Inv, ReadyMeansGreeted
<1> QED BY <1>1, <1>2 DEF Inv

LEMMA StopLateKeeps == ASSUME Inv, StopLate PROVE Inv'
<1> USE DEF sessionVars, queueVars, threadVars, serverVars
<1>1. Types'
  BY DEF StopLate, Inv, Types, TypeOK, Pumping
<1>2. Alone'
  BY DEF StopLate, Inv, Alone, Running
<1>3. Said' = Said
  BY DEF StopLate, Said
<1> QED BY <1>1, <1>2, <1>3, QuietInv DEF StopLate

LEMMA StopThreadsKeeps == ASSUME Inv, StopThreads PROVE Inv'
<1> USE DEF serverVars
<1>1. /\ pc = "stop" /\ pc' = "kill" /\ stopping' = TRUE
      /\ exitSent' = (exitSent \/ state # "Failed")
      /\ UNCHANGED <<state, pending, documents, counter, named, batch,
                     finished, late, starts, turns, incoming, readerDone, reader,
                     writer, serverVars>>
  BY DEF StopThreads
<1>2. outgoing' \in Seq(Sends) /\ ToSend' \subseteq ToSend
  <2>1. CASE exitSent' # exitSent
    <3>1. Plain("exit") \in Sends /\ Plain("exit").kind # "request"
      BY DEF Plain, Sends
    <3>2. Enqueue(<<Plain("exit")>>)
      BY <2>1 DEF StopThreads
    <3> QED BY <3>1, <3>2, PlainEnqueued DEF Inv
  <2>2. CASE exitSent' = exitSent
    <3>1. outgoing \in Seq(Sends) /\ outgoing' = outgoing \o <<>>
      BY <2>2 DEF StopThreads, Enqueue, Inv, Types
    <3>2. outgoing' = outgoing
      BY <3>1
    <3> QED BY <3>1, <3>2 DEF ToSend
  <2> QED BY <2>1, <2>2
<1>3. Types'
  BY <1>1, <1>2 DEF Inv, Types, TypeOK, Pumping
<1>4. Said' = Said
  BY <1>1 DEF Said
<1>5. Fresh' /\ OneMethod' /\ TruthSaid'
  BY <1>1, <1>2, <1>3, <1>4, FlowKeeps
<1>6. Named' /\ ReadyMeansGreeted' /\ Alone'
  BY <1>1 DEF Inv, Named, AnsweredOnce, ReadyMeansGreeted, Alone, Running
<1> QED BY <1>3, <1>5, <1>6 DEF Inv

LEMMA KillKeeps == ASSUME Inv, Kill PROVE Inv'
<1> USE DEF sessionVars, queueVars, threadVars
<1>1. Types'
  BY DEF Kill, Gone, Inv, Types, TypeOK, Pumping
<1>2. Alone'
  BY DEF Kill, Gone, Inv, Alone, Running
<1>3. Said' = Said
  BY DEF Kill, Said
<1> QED BY <1>1, <1>2, <1>3, QuietInv DEF Kill, Gone

LEMMA JoinKeeps == ASSUME Inv, Join PROVE Inv'
<1> USE DEF queueVars, threadVars, serverVars
<1>1. Types'
  <2>1. /\ state' = "Stopped" /\ pc' = "host" /\ late' = FALSE
        /\ UNCHANGED <<pending, documents, counter, exitSent, named, batch, finished, starts,
                       turns, incoming, outgoing, readerDone, stopping, reader, writer,
                       process, owed, heeds, greeted, docs>>
    BY DEF Join
  <2>2. pc = "join" /\ TypeOK
    BY DEF Join, Inv, Types
  <2>3. batch' = <<>>
    BY <2>1, <2>2 DEF TypeOK, Pumping
  <2>4. TypeOK'
    <3>1. /\ state' \in States /\ pc' \in {"host", "pump", "stop", "stopPump", "kill", "join"}
          /\ late' \in BOOLEAN
      BY <2>1 DEF States
    <3>2. /\ pending' \subseteq [id : Ids, method : Methods, old : BOOLEAN]
          /\ owed' \subseteq [id : Ids, method : Methods]
          /\ documents' \in [Uris -> Nat] /\ docs' \in [Uris -> Nat]
          /\ named' \in [Ids -> Nat]
      BY <2>1, <2>2 DEF TypeOK
    <3>3. /\ counter' \in 0..MaxIds /\ exitSent' \in BOOLEAN /\ finished' \in BOOLEAN
          /\ readerDone' \in BOOLEAN /\ stopping' \in BOOLEAN
          /\ reader' \in {"none", "reading", "done"} /\ writer' \in {"none", "waiting", "done"}
          /\ process' \in {"none", "alive", "dead"}
          /\ heeds' \in BOOLEAN /\ greeted' \in BOOLEAN
          /\ starts' \in 0..MaxStarts /\ turns' \in 0..MaxTurns
      BY <2>1, <2>2 DEF TypeOK
    <3> QED BY <2>3, <3>1, <3>2, <3>3 DEF TypeOK
  <2> QED BY <2>1, <2>4 DEF Inv, Types
<1>2. Alone'
  BY DEF Join, Inv, Alone, Running
<1>3. Said' = Said
  BY DEF Join, Said
<1> QED BY <1>1, <1>2, <1>3, QuietInv DEF Join

---------------------------------------------------------------------------
(* The threads and the server.                                             *)

LEMMA WriterWriteKeeps == ASSUME Inv, WriterWrite PROVE Inv'
<1> USE DEF sessionVars, mainVars
<1>1. /\ writer = "waiting" /\ outgoing # <<>> /\ outgoing' = Tail(outgoing)
      /\ writer' \in {"done", "waiting"}
      /\ UNCHANGED <<sessionVars, mainVars, incoming, readerDone, stopping,
                     reader, heeds, greeted>>
  BY DEF WriterWrite
<1>2. /\ outgoing \in Seq(Sends) /\ TypeOK
  BY DEF Inv, Types
<1>3. /\ outgoing' \in Seq(Sends) /\ Len(outgoing') = Len(outgoing) - 1
      /\ \A i \in 1..Len(outgoing') : outgoing'[i] = outgoing[i + 1] /\ i + 1 \in 1..Len(outgoing)
      /\ sentNow = outgoing[1] /\ 1 \in 1..Len(outgoing)
  BY <1>1, <1>2 DEF sentNow
<1>4. ToSend' \subseteq ToSend /\ sentNow \in Sends
  BY <1>2, <1>3 DEF ToSend
<1>5. \A x \in owed' : x \in owed \/ \E y \in ToSend : y.id = x.id /\ y.method = x.method
  <2> TAKE x \in owed'
  <2>1. CASE sentNow.kind = "request"
            /\ owed' = owed \union {[id |-> sentNow.id, method |-> sentNow.method]}
    <3>1. sentNow \in ToSend
      BY <1>3, <2>1 DEF ToSend
    <3> QED BY <2>1, <3>1
  <2>2. CASE owed' = owed \/ owed' = {}
    BY <2>2
  <2> QED BY <2>1, <2>2 DEF WriterWrite, Gone
<1>6. owed' \subseteq [id : Ids, method : Methods]
  <2>1. \A y \in ToSend : y.id \in Ids /\ y.method \in Methods
    <3>1. \A y \in ToSend : y \in Sends /\ y.kind = "request"
      BY <1>2 DEF ToSend
    <3> QED BY <3>1 DEF Sends
  <2>2. CASE sentNow.kind = "request"
            /\ owed' = owed \union {[id |-> sentNow.id, method |-> sentNow.method]}
    <3>1. sentNow \in ToSend
      BY <1>3, <2>2 DEF ToSend
    <3> QED BY <1>2, <2>1, <2>2, <3>1 DEF TypeOK
  <2>3. CASE owed' = owed \/ owed' = {}
    BY <1>2, <2>3 DEF TypeOK
  <2> QED BY <2>2, <2>3 DEF WriterWrite, Gone
<1>7. docs' \in [Uris -> Nat]
  <2>1. CASE sentNow.kind \in {"open", "change", "close"}
            /\ docs' = [docs EXCEPT ![sentNow.uri] =
                          IF sentNow.kind = "close" THEN 0 ELSE sentNow.version]
    <3>1. sentNow.kind # "close" => sentNow.version \in Nat
      BY <1>4, <2>1 DEF Sends
    <3> QED BY <1>2, <2>1, <3>1 DEF TypeOK
  <2>2. CASE docs' = docs \/ docs' = [u \in Uris |-> 0]
    BY <1>2, <2>2 DEF TypeOK
  <2> QED BY <2>1, <2>2 DEF WriterWrite, Gone
<1>8. process' = process \/ (process = "alive" /\ process' = "dead")
  BY DEF WriterWrite, Gone
<1>9. Types'
  BY <1>1, <1>2, <1>3, <1>6, <1>7, <1>8 DEF Inv, Types, TypeOK, Pumping
<1>10. Said' = Said
  BY <1>1 DEF Said
<1>11. Fresh' /\ OneMethod' /\ TruthSaid'
  BY <1>1, <1>4, <1>5, <1>9, <1>10, FlowKeeps
<1>12. Named' /\ ReadyMeansGreeted' /\ Alone'
  BY <1>1, <1>8 DEF Inv, Named, AnsweredOnce, ReadyMeansGreeted, Alone, Running
<1> QED BY <1>9, <1>11, <1>12 DEF Inv

LEMMA WriterEndKeeps == ASSUME Inv, WriterEnd PROVE Inv'
<1> USE DEF sessionVars, mainVars, queueVars, serverVars
<1>1. Types'
  BY DEF WriterEnd, Inv, Types, TypeOK, Pumping
<1>2. Alone'
  BY DEF WriterEnd, Inv, Alone, Running
<1>3. Said' = Said
  BY DEF WriterEnd, Said
<1> QED BY <1>1, <1>2, <1>3, QuietInv DEF WriterEnd

\* What is added to the queue is said, and nothing else is new.
LEMMA Appended ==
  ASSUME Types, NEW m \in Answers, incoming' = Append(incoming, m), batch' = batch
  PROVE  incoming' \in Seq(Answers) /\ Said' \subseteq Said \union {m}
<1>1. incoming \in Seq(Answers)
  BY DEF Types
<1>2. /\ incoming' \in Seq(Answers) /\ Len(incoming') = Len(incoming) + 1
      /\ \A i \in 1..Len(incoming') : IF i <= Len(incoming) THEN incoming'[i] = incoming[i]
                                                            ELSE incoming'[i] = m
  BY <1>1
<1>3. \A i \in 1..Len(incoming') : i <= Len(incoming) => i \in 1..Len(incoming)
  BY <1>1, <1>2
<1> QED BY <1>2, <1>3 DEF Said

LEMMA ServerAnswerKeeps == ASSUME Inv, ServerAnswer PROVE Inv'
<1> USE DEF sessionVars, mainVars, threadVars
<1>1. PICK r \in owed, ok \in BOOLEAN :
        /\ process = "alive" /\ reader = "reading"
        /\ owed' = owed \ {r}
        /\ incoming' = Append(incoming, [id |-> r.id, ok |-> ok])
        /\ greeted' = (greeted \/ (r.method = "initialize" /\ ok))
        /\ UNCHANGED <<sessionVars, mainVars, outgoing, readerDone, threadVars,
                       process, heeds, docs>>
  BY DEF ServerAnswer
<1> DEFINE new == [id |-> r.id, ok |-> ok]
<1>2. TypeOK /\ Types /\ r.id \in Ids /\ r.id \in 0..MaxIds
  <2>1. TypeOK /\ Types
    BY DEF Inv, Types
  <2>2. r.id \in Ids
    BY <2>1 DEF TypeOK
  <2> QED BY <2>1, <2>2, BoundsAssumption DEF Ids
<1>3. new \in Answers /\ new.id = r.id /\ new.ok = ok /\ incoming' = Append(incoming, new)
  BY <1>1, <1>2 DEF Answers
<1> HIDE DEF new
<1>4. incoming' \in Seq(Answers) /\ Said' \subseteq Said \union {new}
  BY <1>1, <1>2, <1>3, Appended
<1>5. Types'
  BY <1>1, <1>2, <1>4 DEF Types, TypeOK, Pumping
<1>6. ToSend' = ToSend
  BY <1>1 DEF ToSend
<1>7. Fresh'
  BY <1>1, <1>3, <1>4, <1>6 DEF Inv, Fresh
<1>8. OneMethod'
  BY <1>1, <1>6 DEF Inv, OneMethod
<1>9. TruthSaid'
  <2> SUFFICES ASSUME NEW p \in pending, NEW m \in Said', p.id = m.id,
                      p.method = "initialize", m.ok
               PROVE  greeted'
    BY <1>1 DEF TruthSaid
  <2>1. CASE m \in Said
    BY <2>1, <1>1 DEF Inv, TruthSaid
  <2>2. CASE m = new
    <3>1. r.method = "initialize"
      BY <2>2, <1>3 DEF Inv, OneMethod
    <3> QED BY <3>1, <2>2, <1>1, <1>3
  <2> QED BY <2>1, <2>2, <1>4
<1>10. Named' /\ ReadyMeansGreeted' /\ Alone'
  BY <1>1 DEF Inv, Named, AnsweredOnce, ReadyMeansGreeted, Alone, Running
<1> QED BY <1>5, <1>7, <1>8, <1>9, <1>10 DEF Inv

LEMMA ServerAskKeeps == ASSUME Inv, ServerAsk PROVE Inv'
<1> USE DEF sessionVars, threadVars, serverVars
<1> DEFINE new == [id |-> 0, ok |-> TRUE]
<1>1. /\ incoming' = Append(incoming, new) /\ turns' = turns + 2 /\ turns + 2 <= MaxTurns
      /\ UNCHANGED <<sessionVars, pc, batch, finished, late, starts, outgoing,
                     readerDone, threadVars, serverVars>>
  BY DEF ServerAsk
<1>2. TypeOK /\ Types /\ MaxTurns \in Nat /\ MaxIds \in Nat
  BY BoundsAssumption DEF Inv, Types
<1>3. new \in Answers /\ new.id = 0
  BY <1>2 DEF Answers
<1> HIDE DEF new
<1>4. incoming' \in Seq(Answers) /\ Said' \subseteq Said \union {new}
  BY <1>1, <1>2, <1>3, Appended
<1>5. Types'
  <2>1. turns' \in 0..MaxTurns
    BY <1>1, <1>2 DEF TypeOK
  <2> QED BY <1>1, <1>2, <1>4, <2>1 DEF Types, TypeOK, Pumping
<1>6. ToSend' = ToSend
  BY <1>1 DEF ToSend
<1>7. Fresh'
  <2>1. counter \in Nat
    BY <1>2 DEF TypeOK
  <2> QED BY <2>1, <1>1, <1>3, <1>4, <1>6 DEF Inv, Fresh
<1>8. OneMethod'
  BY <1>1, <1>6 DEF Inv, OneMethod
<1>9. TruthSaid'
  <2>1. \A p \in pending : p.id # 0
    BY <1>2 DEF TypeOK, Ids
  <2> QED BY <2>1, <1>1, <1>3, <1>4 DEF Inv, TruthSaid
<1>10. Named' /\ ReadyMeansGreeted' /\ Alone'
  BY <1>1 DEF Inv, Named, AnsweredOnce, ReadyMeansGreeted, Alone, Running
<1> QED BY <1>5, <1>7, <1>8, <1>9, <1>10 DEF Inv

LEMMA ServerDieKeeps == ASSUME Inv, ServerDie PROVE Inv'
<1> USE DEF sessionVars, mainVars, queueVars, threadVars
<1>1. Types'
  BY DEF ServerDie, Gone, Inv, Types, TypeOK, Pumping
<1>2. Alone'
  BY DEF ServerDie, Gone, Inv, Alone, Running
<1>3. Said' = Said
  BY DEF ServerDie, Said
<1> QED BY <1>1, <1>2, <1>3, QuietInv DEF ServerDie, Gone

LEMMA ReaderKeeps == ASSUME Inv, ReaderEnd \/ ReaderStops PROVE Inv'
<1> USE DEF sessionVars, mainVars, serverVars
<1>1. /\ reader' = "done" /\ readerDone' = TRUE
      /\ UNCHANGED <<sessionVars, mainVars, incoming, outgoing, stopping, writer,
                     serverVars>>
  BY DEF ReaderEnd, ReaderStops
<1>2. Types'
  BY <1>1 DEF Inv, Types, TypeOK, Pumping
<1>3. Alone'
  BY <1>1 DEF Inv, Alone, Running
<1>4. Said' = Said
  BY <1>1 DEF Said
<1> QED BY <1>1, <1>2, <1>3, <1>4, QuietInv

---------------------------------------------------------------------------
(* The documents of both sides.  What is still to be sent of a document    *)
(* ends with what the client has; where nothing is, the server has it,     *)
(* unless it did not mind the message that said so.                        *)

About(m, u) == m.kind \in {"open", "change", "close"} /\ m.uri = u
Says(m) == IF m.kind = "close" THEN 0 ELSE m.version

Silent(messages, u) == \A i \in 1..Len(messages) : ~About(messages[i], u)
Tells(messages, u, v) ==
  \E i \in 1..Len(messages) :
    /\ About(messages[i], u) /\ Says(messages[i]) = v
    /\ \A j \in 1..Len(messages) : j > i => ~About(messages[j], u)

InStep(u) ==
  \/ Tells(outgoing, u, documents[u])
  \/ Silent(outgoing, u) /\ (docs[u] = documents[u] \/ (docs[u] = 0 /\ state # "Ready"))

Synced ==
  process = "alive" =>
    /\ \A u \in Uris : InStep(u)
    /\ ~Minded => \A u \in Uris : docs[u] = 0

LEMMA SilentOrTold ==
  ASSUME NEW s \in Seq(Sends), NEW t \in Seq(Sends), NEW u, NEW v
  PROVE  /\ Silent(s, u) /\ Silent(t, u) => Silent(s \o t, u)
         /\ Tells(s, u, v) /\ Silent(t, u) => Tells(s \o t, u, v)
         /\ Tells(t, u, v) => Tells(s \o t, u, v)
<1> DEFINE st == s \o t
<1>1. /\ Len(s) \in Nat /\ Len(t) \in Nat /\ Len(st) = Len(s) + Len(t)
      /\ \A i \in 1..Len(st) : st[i] = IF i <= Len(s) THEN s[i] ELSE t[i - Len(s)]
  BY Joined
<1> HIDE DEF st
<1>2. ASSUME Silent(t, u)
      PROVE  \A i \in 1..Len(st) : i > Len(s) => ~About(st[i], u)
  <2> TAKE i \in 1..Len(st)
  <2> HAVE i > Len(s)
  <2>1. i - Len(s) \in 1..Len(t) /\ st[i] = t[i - Len(s)]
    BY <1>1
  <2> QED BY <2>1, <1>2 DEF Silent
<1>3. ASSUME Silent(s, u), Silent(t, u) PROVE Silent(st, u)
  <2> SUFFICES ASSUME NEW i \in 1..Len(st) PROVE ~About(st[i], u)
    BY DEF Silent
  <2>1. CASE i <= Len(s)
    <3>1. i \in 1..Len(s) /\ st[i] = s[i]
      BY <2>1, <1>1
    <3> QED BY <3>1, <1>3 DEF Silent
  <2>2. CASE i > Len(s)
    BY <2>2, <1>2, <1>3
  <2> QED BY <2>1, <2>2, <1>1
<1>4. ASSUME Tells(s, u, v), Silent(t, u) PROVE Tells(st, u, v)
  <2>1. PICK i \in 1..Len(s) :
          /\ About(s[i], u) /\ Says(s[i]) = v
          /\ \A j \in 1..Len(s) : j > i => ~About(s[j], u)
    BY <1>4 DEF Tells
  <2>2. i \in 1..Len(st) /\ st[i] = s[i]
    BY <1>1
  <2>3. ASSUME NEW j \in 1..Len(st), j > i PROVE ~About(st[j], u)
    <3>1. CASE j <= Len(s)
      <4>1. j \in 1..Len(s) /\ st[j] = s[j]
        BY <3>1, <1>1
      <4> QED BY <4>1, <2>1, <2>3
    <3>2. CASE j > Len(s)
      BY <3>2, <1>2, <1>4
    <3> QED BY <3>1, <3>2, <1>1
  <2> QED BY <2>1, <2>2, <2>3 DEF Tells
<1>5. ASSUME Tells(t, u, v) PROVE Tells(st, u, v)
  <2>1. PICK i \in 1..Len(t) :
          /\ About(t[i], u) /\ Says(t[i]) = v
          /\ \A j \in 1..Len(t) : j > i => ~About(t[j], u)
    BY <1>5 DEF Tells
  <2>2. i + Len(s) \in 1..Len(st) /\ st[i + Len(s)] = t[i]
    <3>1. i + Len(s) \in 1..Len(st) /\ i + Len(s) > Len(s)
      BY <1>1
    <3>2. (i + Len(s)) - Len(s) = i
      BY <1>1
    <3> QED BY <1>1, <3>1, <3>2
  <2>3. ASSUME NEW j \in 1..Len(st), j > i + Len(s) PROVE ~About(st[j], u)
    <3>1. j - Len(s) \in 1..Len(t) /\ j - Len(s) > i /\ st[j] = t[j - Len(s)]
      BY <1>1, <2>3
    <3> QED BY <3>1, <2>1
  <2> QED BY <2>1, <2>2, <2>3 DEF Tells
<1> QED BY <1>3, <1>4, <1>5 DEF st

\* The first message is taken.
LEMMA Taken ==
  ASSUME NEW s \in Seq(Sends), s # <<>>, NEW u, NEW v
  PROVE  /\ Silent(s, u) => Silent(Tail(s), u)
         /\ Tells(s, u, v) =>
              \/ Tells(Tail(s), u, v)
              \/ Silent(Tail(s), u) /\ About(Head(s), u) /\ Says(Head(s)) = v
<1> DEFINE t == Tail(s)
<1>1. /\ Len(s) \in Nat /\ Len(t) = Len(s) - 1 /\ Head(s) = s[1] /\ Len(s) > 0
      /\ \A i \in 1..Len(t) : t[i] = s[i + 1] /\ i + 1 \in 1..Len(s)
  OBVIOUS
<1> HIDE DEF t
<1>2. ASSUME Silent(s, u) PROVE Silent(t, u)
  BY <1>1, <1>2 DEF Silent
<1>3. ASSUME Tells(s, u, v)
      PROVE  Tells(t, u, v) \/ (Silent(t, u) /\ About(Head(s), u) /\ Says(Head(s)) = v)
  <2>1. PICK i \in 1..Len(s) :
          /\ About(s[i], u) /\ Says(s[i]) = v
          /\ \A j \in 1..Len(s) : j > i => ~About(s[j], u)
    BY <1>3 DEF Tells
  <2>2. CASE i = 1
    <3>1. \A j \in 1..Len(t) : ~About(t[j], u)
      BY <1>1, <2>1, <2>2
    <3> QED BY <3>1, <1>1, <2>1, <2>2 DEF Silent
  <2>3. CASE i > 1
    <3>1. i - 1 \in 1..Len(t) /\ t[i - 1] = s[i]
      BY <1>1, <2>3
    <3>2. \A j \in 1..Len(t) : j > i - 1 => ~About(t[j], u)
      BY <1>1, <2>1
    <3> QED BY <3>1, <3>2, <2>1 DEF Tells
  <2> QED BY <2>2, <2>3
<1> QED BY <1>2, <1>3 DEF t

\* One message.
LEMMA One ==
  ASSUME NEW m, NEW u
  PROVE  /\ ~About(m, u) => Silent(<<m>>, u)
         /\ About(m, u) => Tells(<<m>>, u, Says(m))
<1>1. Len(<<m>>) = 1 /\ <<m>>[1] = m
  OBVIOUS
<1> QED BY <1>1 DEF Silent, Tells

\* What the client adds keeps the two in step.
LEMMA AddingKeeps ==
  ASSUME Inv, Synced, NEW messages \in Seq(Sends), Enqueue(messages),
         UNCHANGED <<process, docs, heeds, greeted>>,
         \A u \in Uris :
           \/ Tells(messages, u, documents'[u])
           \/ /\ Silent(messages, u) /\ documents'[u] = documents[u]
              /\ state' = "Ready" => state = "Ready" \/ documents[u] = 0
  PROVE  Synced'
<1>1. outgoing \in Seq(Sends) /\ outgoing' = outgoing \o messages
  BY DEF Inv, Types, Enqueue
<1> SUFFICES ASSUME process = "alive"
             PROVE  (\A u \in Uris : InStep(u)') /\ (~Minded => \A u \in Uris : docs[u] = 0)
  BY DEF Synced, Minded
<1>2. ASSUME NEW u \in Uris PROVE InStep(u)'
  <2>1. CASE Tells(messages, u, documents'[u])
    <3>1. Tells(outgoing', u, documents'[u])
      BY <1>1, <2>1, SilentOrTold
    <3> QED BY <3>1 DEF InStep
  <2>2. CASE /\ Silent(messages, u) /\ documents'[u] = documents[u]
             /\ state' = "Ready" => state = "Ready" \/ documents[u] = 0
    <3>1. InStep(u)
      BY DEF Synced
    <3>2. CASE Tells(outgoing, u, documents[u])
      <4>1. Tells(outgoing', u, documents'[u])
        BY <1>1, <2>2, <3>2, SilentOrTold
      <4> QED BY <4>1 DEF InStep
    <3>3. CASE Silent(outgoing, u) /\ (docs[u] = documents[u] \/ (docs[u] = 0 /\ state # "Ready"))
      <4>1. Silent(outgoing', u)
        BY <1>1, <2>2, <3>3, SilentOrTold
      <4> QED BY <4>1, <2>2, <3>3 DEF InStep
    <3> QED BY <3>1, <3>2, <3>3 DEF InStep
  <2> QED BY <2>1, <2>2
<1>3. ~Minded => \A u \in Uris : docs[u] = 0
  BY DEF Synced
<1> QED BY <1>2, <1>3

\* Messages that are not about documents.
LEMMA AsideKeeps ==
  ASSUME Inv, Synced, NEW m \in Sends, m.kind \notin {"open", "change", "close"},
         Enqueue(<<m>>), UNCHANGED <<process, docs, documents, heeds, greeted>>,
         state' = "Ready" => state = "Ready"
  PROVE  Synced'
<1> DEFINE messages == <<m>>
<1>1. messages \in Seq(Sends) /\ Enqueue(messages)
  OBVIOUS
<1>2. \A u \in Uris : Silent(messages, u)
  BY One DEF About
<1> HIDE DEF messages
<1> QED BY <1>1, <1>2, AddingKeeps

\* Where neither side of it changes.
LEMMA SameKeeps ==
  ASSUME Synced, UNCHANGED <<outgoing, documents, docs, heeds>>,
         process' = "alive" => process = "alive", greeted => greeted',
         state' = "Ready" => state = "Ready"
  PROVE  Synced'
<1> SUFFICES ASSUME process' = "alive"
             PROVE  (\A u \in Uris : InStep(u)') /\ (~Minded' => \A u \in Uris : docs[u] = 0)
  BY DEF Synced
<1>1. \A u \in Uris : InStep(u)'
  <2> TAKE u \in Uris
  <2>1. InStep(u)
    BY DEF Synced
  <2> QED BY <2>1 DEF InStep
<1>2. ~Minded' => ~Minded
  BY DEF Minded
<1> QED BY <1>1, <1>2 DEF Synced

LEMMA DeadKeeps == ASSUME process' # "alive" PROVE Synced'
BY DEF Synced

LEMMA StartInStep == ASSUME Inv, Synced, Start PROVE Synced'
<1>1. docs' = [u \in Uris |-> 0]
  BY DEF Start
<1>2. CASE process' = "none"
  BY <1>2, DeadKeeps
<1>3. CASE state' = "Starting" /\ outgoing' = <<Request(counter + 1, "initialize")>>
  <2> DEFINE m == Request(counter + 1, "initialize")
  <2>1. m.kind = "request" /\ outgoing' = <<m>>
    BY <1>3 DEF Request
  <2> HIDE DEF m
  <2>2. \A u \in Uris : Silent(outgoing', u)
    BY <2>1, One DEF About
  <2>3. \A u \in Uris : InStep(u)'
    BY <1>1, <1>3, <2>2 DEF InStep
  <2> QED BY <1>1, <2>3 DEF Synced
<1> QED BY <1>2, <1>3 DEF Start

LEMMA DidOpenInStep == ASSUME Inv, Synced, NEW u \in Uris, DidOpen(u) PROVE Synced'
<1> USE DEF serverVars
<1> DEFINE new == Open(u, 1)
           gone == Close(u)
           one == <<new>>
           both == <<gone>> \o one
<1>1. /\ new \in Sends /\ gone \in Sends /\ About(new, u) /\ Says(new) = 1 /\ Len(one) = 1
      /\ \A w \in Uris : w # u => ~About(new, w) /\ ~About(gone, w)
  BY DEF Open, Close, Sends, About, Says
<1>2. /\ \A w \in Uris : w # u => documents'[w] = documents[w]
      /\ documents'[u] = 1
      /\ UNCHANGED <<process, docs, heeds, greeted, state>>
  BY DEF DidOpen, Inv, Types, TypeOK
<1>3. Enqueue(both) \/ Enqueue(one)
  <2>1. <<gone, new>> = both
    OBVIOUS
  <2> QED BY <2>1 DEF DidOpen
<1> HIDE DEF new, gone
<1>4. /\ one \in Seq(Sends) /\ <<gone>> \in Seq(Sends)
      /\ Tells(one, u, 1) /\ \A w \in Uris : w # u => Silent(one, w)
      /\ \A w \in Uris : w # u => Silent(<<gone>>, w)
  <2>1. one \in Seq(Sends) /\ <<gone>> \in Seq(Sends)
    BY <1>1
  <2>2. Tells(one, u, 1)
    BY <1>1, One
  <2>3. ASSUME NEW w \in Uris, w # u PROVE Silent(one, w) /\ Silent(<<gone>>, w)
    <3>1. ~About(new, w) /\ ~About(gone, w)
      BY <1>1, <2>3
    <3> QED BY <3>1, One
  <2> QED BY <2>1, <2>2, <2>3
<1>5. one \in Seq(Sends) /\ both \in Seq(Sends)
  BY <1>4, Joined
<1>6. Tells(both, u, 1) /\ \A w \in Uris : w # u => Silent(both, w)
  <2> HIDE DEF one
  <2>1. Tells(both, u, 1)
    BY <1>4, SilentOrTold
  <2>2. ASSUME NEW w \in Uris, w # u PROVE Silent(both, w)
    BY <2>2, <1>4, SilentOrTold
  <2> QED BY <2>1, <2>2
<1> HIDE DEF one, both
<1>7. CASE Enqueue(both)
  <2>1. \A w \in Uris : Tells(both, w, documents'[w])
                        \/ (Silent(both, w) /\ documents'[w] = documents[w] /\ state' = state)
    BY <1>2, <1>6
  <2> QED BY <1>2, <1>5, <1>7, <2>1, AddingKeeps
<1>8. CASE Enqueue(one)
  <2>1. \A w \in Uris : Tells(one, w, documents'[w])
                        \/ (Silent(one, w) /\ documents'[w] = documents[w] /\ state' = state)
    BY <1>2, <1>4
  <2> QED BY <1>2, <1>5, <1>8, <2>1, AddingKeeps
<1> QED BY <1>3, <1>7, <1>8

LEMMA DidChangeInStep ==
  ASSUME Inv, Synced, NEW u \in Uris, DidChange(u) \/ DidClose(u) PROVE Synced'
<1> USE DEF serverVars
<1>1. /\ documents \in [Uris -> Nat]
      /\ UNCHANGED <<process, docs, heeds, greeted, state>>
  BY DEF DidChange, DidClose, Inv, Types, TypeOK
<1>2. PICK m \in Sends :
        /\ About(m, u) /\ \A w \in Uris : w # u => ~About(m, w)
        /\ documents' = [documents EXCEPT ![u] = Says(m)] /\ Enqueue(<<m>>)
  <2>1. CASE DidChange(u)
    <3>1. Change(u, documents[u] + 1) \in Sends
      BY <1>1 DEF Change, Sends
    <3> QED BY <2>1, <3>1 DEF DidChange, Change, About, Says
  <2>2. CASE DidClose(u)
    <3>1. Close(u) \in Sends
      BY DEF Close, Sends
    <3> QED BY <2>2, <3>1 DEF DidClose, Close, About, Says
  <2> QED BY <2>1, <2>2
<1> DEFINE messages == <<m>>
<1>3. /\ messages \in Seq(Sends) /\ Enqueue(messages)
      /\ Tells(messages, u, Says(m)) /\ \A w \in Uris : w # u => Silent(messages, w)
  BY <1>2, One
<1> HIDE DEF messages
<1>4. \A w \in Uris : Tells(messages, w, documents'[w])
                      \/ (Silent(messages, w) /\ documents'[w] = documents[w] /\ state' = state)
  BY <1>1, <1>2, <1>3
<1> QED BY <1>1, <1>3, <1>4, AddingKeeps

\* Every open document is sent again, and no other.
LEMMA EachAgain ==
  ASSUME Types
  PROVE  /\ OpenDocuments \in Seq(Sends)
         /\ \A u \in Uris : IF documents[u] > 0 THEN Tells(OpenDocuments, u, documents[u])
                                                ELSE Silent(OpenDocuments, u)
<1> DEFINE S == {u \in Uris : documents[u] > 0}
           uris == SetToSeq(S)
<1>0. documents \in [Uris -> Nat]
  BY DEF Types, TypeOK
<1>1. IsFiniteSet(S)
  BY BoundsAssumption, FS_Subset
<1>2. /\ uris \in Seq(S) /\ \A i, j \in 1..Len(uris) : uris[i] = uris[j] => i = j
      /\ \A u \in S : \E i \in 1..Len(uris) : uris[i] = u
  <2> HIDE DEF S
  <2> QED BY <1>1, SeqOfSet
<1>3. \A i \in 1..Len(uris) : uris[i] \in Uris /\ documents[uris[i]] > 0
  <2> TAKE i \in 1..Len(uris)
  <2>1. uris[i] \in S
    <3> HIDE DEF S
    <3> QED BY <1>2
  <2> QED BY <2>1
<1>4. OpenDocuments = [i \in 1..Len(uris) |-> Open(uris[i], documents[uris[i]])]
  BY DEF OpenDocuments
<1>5. Len(uris) \in Nat
  BY <1>2
<1>6. \A u \in Uris : documents[u] > 0 => \E i \in 1..Len(uris) : uris[i] = u
  BY <1>2
<1> HIDE DEF uris, S
<1>7. \A i \in 1..Len(uris) : OpenDocuments[i] \in Sends
  BY <1>0, <1>3, <1>4 DEF Open, Sends
<1>8. OpenDocuments \in Seq(Sends) /\ Len(OpenDocuments) = Len(uris)
  BY <1>4, <1>5, <1>7
<1>9. \A i \in 1..Len(uris), u \in Uris :
        /\ About(OpenDocuments[i], u) <=> uris[i] = u
        /\ Says(OpenDocuments[i]) = documents[uris[i]]
  BY <1>4 DEF Open, About, Says
<1>10. ASSUME NEW u \in Uris, documents[u] > 0 PROVE Tells(OpenDocuments, u, documents[u])
  <2>1. PICK i \in 1..Len(uris) : uris[i] = u
    BY <1>6, <1>10
  <2>2. ASSUME NEW j \in 1..Len(uris), j > i PROVE uris[j] # u
    <3>1. uris[i] = uris[j] => i = j
      BY <1>2
    <3> QED BY <3>1, <2>1, <2>2
  <2> QED BY <1>8, <1>9, <2>1, <2>2 DEF Tells
<1>11. ASSUME NEW u \in Uris, ~(documents[u] > 0) PROVE Silent(OpenDocuments, u)
  <2>1. \A i \in 1..Len(uris) : uris[i] # u
    BY <1>3, <1>11
  <2> QED BY <1>8, <1>9, <2>1 DEF Silent
<1> QED BY <1>8, <1>10, <1>11

LEMMA HandleInStep == ASSUME Inv, Synced, Handle PROVE Synced'
<1> USE DEF serverVars
<1>1. UNCHANGED <<process, docs, heeds, greeted, documents>> /\ Types
  BY DEF Handle, HandleInitialized, HandleRefused, HandleShutdown, HandleAnswer,
         HandleUnknown, HandleAsk, HandledOnly, Inv
<1>2. CASE HandleInitialized
  <2> DEFINE first == <<Plain("initialized")>>
             messages == first \o OpenDocuments
  <2>1. first \in Seq(Sends) /\ \A u \in Uris : Silent(first, u)
    <3>1. Plain("initialized") \in Sends /\ \A u \in Uris : ~About(Plain("initialized"), u)
      BY DEF Plain, Sends, About
    <3> QED BY <3>1, One
  <2>2. Enqueue(messages)
    BY <1>2 DEF HandleInitialized
  <2> HIDE DEF first
  <2>3. OpenDocuments \in Seq(Sends)
    BY <1>1, EachAgain
  <2>4. messages \in Seq(Sends)
    BY <2>1, <2>3, Joined
  <2>5. ASSUME NEW u \in Uris
        PROVE  Tells(messages, u, documents[u]) \/ (Silent(messages, u) /\ documents[u] = 0)
    <3>1. CASE documents[u] > 0
      BY <1>1, <2>1, <2>3, <3>1, EachAgain, SilentOrTold
    <3>2. CASE ~(documents[u] > 0)
      <4>1. documents[u] = 0
        BY <1>1, <3>2 DEF Types, TypeOK
      <4>2. Silent(messages, u)
        BY <1>1, <2>1, <2>3, <3>2, EachAgain, SilentOrTold
      <4> QED BY <4>1, <4>2
    <3> QED BY <3>1, <3>2
  <2> HIDE DEF messages
  <2> QED BY <1>1, <2>2, <2>4, <2>5, AddingKeeps
<1>3. CASE HandleRefused \/ HandleAnswer \/ HandleUnknown
  <2>1. UNCHANGED outgoing /\ (state' = "Ready" => state = "Ready")
    BY <1>3 DEF HandleRefused, HandleAnswer, HandleUnknown
  <2> QED BY <1>1, <2>1, SameKeeps
<1>4. CASE HandleShutdown \/ HandleAsk
  <2>1. PICK k \in {"exit", "reply"} :
          Enqueue(<<Plain(k)>>) /\ (state' = "Ready" => state = "Ready")
    BY <1>4 DEF HandleShutdown, HandleAsk
  <2>2. Plain(k) \in Sends /\ Plain(k).kind \notin {"open", "change", "close"}
    BY DEF Plain, Sends
  <2> QED BY <1>1, <2>1, <2>2, AsideKeeps
<1> QED BY <1>2, <1>3, <1>4 DEF Handle

LEMMA RequestInStep == ASSUME Inv, Synced, Ask \/ Stop PROVE Synced'
<1> USE DEF serverVars, mainVars
<1>1. UNCHANGED <<process, docs, heeds, greeted, documents>> /\ (state' = "Ready" => state = "Ready")
  BY DEF Ask, Stop
<1>2. CASE UNCHANGED outgoing
  BY <1>1, <1>2, SameKeeps
<1>3. CASE \E method \in Methods : counter < MaxIds /\ Enqueue(<<Request(counter + 1, method)>>)
  <2>1. PICK method \in Methods : counter < MaxIds /\ Enqueue(<<Request(counter + 1, method)>>)
    BY <1>3
  <2>2. counter + 1 \in Ids
    BY <2>1, BoundsAssumption DEF Inv, Types, TypeOK, Ids
  <2>3. /\ Request(counter + 1, method) \in Sends
        /\ Request(counter + 1, method).kind \notin {"open", "change", "close"}
    BY <2>2 DEF Request, Sends
  <2> QED BY <1>1, <2>1, <2>3, AsideKeeps
<1>4. CASE Ask
  <2>1. counter < MaxIds
    BY <1>4, BoundsAssumption DEF Ask, Inv, Types, TypeOK
  <2> QED BY <1>3, <1>4, <2>1 DEF Ask, Methods
<1>5. CASE Stop
  BY <1>2, <1>3, <1>5 DEF Stop, Methods
<1> QED BY <1>4, <1>5

LEMMA StopThreadsInStep == ASSUME Inv, Synced, StopThreads PROVE Synced'
<1> USE DEF serverVars
<1>1. UNCHANGED <<process, docs, heeds, greeted, documents, state>>
  BY DEF StopThreads
<1>2. CASE exitSent' # exitSent
  <2>1. Enqueue(<<Plain("exit")>>)
    BY <1>2 DEF StopThreads
  <2>2. Plain("exit") \in Sends /\ Plain("exit").kind \notin {"open", "change", "close"}
    BY DEF Plain, Sends
  <2> QED BY <1>1, <2>1, <2>2, AsideKeeps
<1>3. CASE exitSent' = exitSent
  <2>1. outgoing \in Seq(Sends) /\ outgoing' = outgoing \o <<>>
    BY <1>3 DEF StopThreads, Enqueue, Inv, Types
  <2>2. outgoing' = outgoing
    BY <2>1
  <2> QED BY <1>1, <2>2, SameKeeps
<1> QED BY <1>2, <1>3

LEMMA WriterInStep == ASSUME Inv, Synced, WriterWrite PROVE Synced'
<1> USE DEF sessionVars
<1>1. /\ outgoing # <<>> /\ outgoing' = Tail(outgoing)
      /\ UNCHANGED <<documents, state, heeds, greeted>>
  BY DEF WriterWrite
<1>2. outgoing \in Seq(Sends) /\ docs \in [Uris -> Nat]
  BY DEF Inv, Types, TypeOK
<1>3. CASE process' # "alive"
  BY <1>3, DeadKeeps
<1>4. CASE process' = "alive"
  <2>1. process = "alive" /\ sentNow.kind # "exit"
    BY <1>4 DEF WriterWrite, Gone
  <2>2. \A u \in Uris :
          /\ Silent(outgoing, u) => Silent(outgoing', u)
          /\ Tells(outgoing, u, documents[u]) =>
               \/ Tells(outgoing', u, documents[u])
               \/ Silent(outgoing', u) /\ About(sentNow, u) /\ Says(sentNow) = documents[u]
    BY <1>1, <1>2, Taken DEF sentNow
  <2>3. CASE sentNow.kind \in {"open", "change", "close"} /\ Minded
    <3>1. docs' = [docs EXCEPT ![sentNow.uri] =
                     IF sentNow.kind = "close" THEN 0 ELSE sentNow.version]
      BY <2>1, <2>3 DEF WriterWrite
    <3>2. ASSUME NEW u \in Uris PROVE InStep(u)'
      <4>1. InStep(u)
        BY <2>1 DEF Synced
      <4>2. CASE Tells(outgoing', u, documents[u])
        BY <1>1, <4>2 DEF InStep
      <4>3. CASE Silent(outgoing', u) /\ About(sentNow, u) /\ Says(sentNow) = documents[u]
        <5>1. docs'[u] = documents[u]
          BY <1>2, <3>1, <4>3 DEF About, Says
        <5> QED BY <1>1, <4>3, <5>1 DEF InStep
      <4>4. CASE /\ Silent(outgoing, u)
                 /\ docs[u] = documents[u] \/ (docs[u] = 0 /\ state # "Ready")
        <5>1. ~About(sentNow, u)
          <6>1. 1 \in 1..Len(outgoing) /\ sentNow = outgoing[1]
            BY <1>1, <1>2 DEF sentNow
          <6> QED BY <4>4, <6>1 DEF Silent
        <5>2. docs'[u] = docs[u]
          BY <1>2, <2>3, <3>1, <5>1 DEF About
        <5> QED BY <1>1, <2>2, <4>4, <5>2 DEF InStep
      <4> QED BY <2>2, <4>1, <4>2, <4>3, <4>4 DEF InStep
    <3> QED BY <1>1, <2>3, <3>2 DEF Synced, Minded
  <2>4. CASE ~(sentNow.kind \in {"open", "change", "close"} /\ Minded)
    <3>1. docs' = docs
      BY <2>1, <2>4 DEF WriterWrite
    <3>2. ASSUME NEW u \in Uris PROVE InStep(u)'
      <4>1. InStep(u)
        BY <2>1 DEF Synced
      <4>2. CASE Tells(outgoing', u, documents[u])
        BY <1>1, <4>2 DEF InStep
      <4>3. CASE Silent(outgoing', u) /\ About(sentNow, u)
        <5>1. docs[u] = 0 /\ state # "Ready"
          BY <2>1, <2>4, <4>3 DEF About, Minded, Synced, Inv, ReadyMeansGreeted
        <5> QED BY <1>1, <3>1, <4>3, <5>1 DEF InStep
      <4>4. CASE /\ Silent(outgoing, u)
                 /\ docs[u] = documents[u] \/ (docs[u] = 0 /\ state # "Ready")
        BY <1>1, <2>2, <3>1, <4>4 DEF InStep
      <4> QED BY <2>2, <4>1, <4>2, <4>3, <4>4 DEF InStep
    <3>3. ~Minded' => ~Minded
      BY <1>1 DEF Minded
    <3> QED BY <2>1, <3>1, <3>2, <3>3 DEF Synced
  <2> QED BY <2>3, <2>4
<1> QED BY <1>3, <1>4

LEMMA NextInStep == Inv /\ Synced /\ [Next]_vars => Synced'
<1> SUFFICES ASSUME Inv, Synced, [Next]_vars PROVE Synced'
  OBVIOUS
<1> USE DEF sessionVars, mainVars, queueVars, threadVars, serverVars
<1>1. CASE Host
  BY <1>1, StartInStep, RequestInStep, DidOpenInStep, DidChangeInStep DEF Host
<1>2. CASE PumpBegin \/ PumpEnd
  <2>1. /\ UNCHANGED <<outgoing, documents, docs, heeds, process, greeted>>
        /\ state' = "Ready" => state = "Ready"
    BY <1>2 DEF PumpBegin, PumpEnd
  <2> QED BY <2>1, SameKeeps
<1>3. CASE Kill \/ ServerDie
  <2>1. process' # "alive"
    BY <1>3 DEF Kill, ServerDie, Gone
  <2> QED BY <2>1, DeadKeeps
<1>4. CASE Join \/ ServerAnswer \/ ServerAsk \/ ReaderEnd \/ ReaderStops \/ WriterEnd
           \/ GetOld \/ StopLate
  <2>1. /\ UNCHANGED <<outgoing, documents, docs, heeds, process>> /\ (greeted => greeted')
        /\ state' = "Ready" => state = "Ready"
    <3>1. CASE Join \/ ReaderEnd \/ ReaderStops \/ WriterEnd \/ GetOld \/ StopLate
      BY <3>1 DEF Join, ReaderEnd, ReaderStops, WriterEnd, GetOld, StopLate
    <3>2. CASE ServerAnswer
      BY <3>2 DEF ServerAnswer
    <3>3. CASE ServerAsk
      BY <3>3 DEF ServerAsk
    <3> QED BY <1>4, <3>1, <3>2, <3>3
  <2> QED BY <2>1, SameKeeps
<1>5. CASE UNCHANGED vars
  BY <1>5, SameKeeps DEF vars
<1>6. CASE Main
  BY <1>2, <1>3, <1>4, <1>6, HandleInStep, StopThreadsInStep DEF Main
<1> QED BY <1>1, <1>3, <1>4, <1>5, <1>6, WriterInStep DEF Next, Writer, Server, Clock

---------------------------------------------------------------------------
(* The theorems.                                                           *)

LEMMA InitInv == Init => Inv
<1> SUFFICES ASSUME Init PROVE Inv
  OBVIOUS
<1>1. Types
  <2>1. TypeOK
    <3>1. /\ 0 \in 0..MaxIds /\ 0 \in 0..MaxStarts /\ 0 \in 0..MaxTurns
          /\ [u \in Uris |-> 0] \in [Uris -> Nat] /\ [i \in Ids |-> 0] \in [Ids -> Nat]
      BY BoundsAssumption
    <3> QED BY <3>1 DEF Init, TypeOK, States
  <2>2. incoming \in Seq(Answers) /\ batch \in Seq(Answers) /\ outgoing \in Seq(Sends)
    BY DEF Init
  <2> QED BY <2>1, <2>2 DEF Types
<1>2. Said = {} /\ ToSend = {}
  BY DEF Init, Said, ToSend
<1>3. Fresh /\ OneMethod /\ TruthSaid
  BY <1>2 DEF Init, Fresh, OneMethod, TruthSaid
<1>4. Named /\ ReadyMeansGreeted /\ Alone
  BY DEF Init, Named, AnsweredOnce, ReadyMeansGreeted, Alone, Running
<1> QED BY <1>1, <1>3, <1>4 DEF Inv

LEMMA NextInv == Inv /\ [Next]_vars => Inv'
<1> SUFFICES ASSUME Inv, [Next]_vars PROVE Inv'
  OBVIOUS
<1>1. CASE Host
  BY <1>1, StartKeeps, AskKeeps, StopKeeps, DidOpenKeeps, DidChangeKeeps DEF Host
<1>2. CASE Main
  BY <1>2, PumpBeginKeeps, HandleKeeps, PumpEndKeeps, StopThreadsKeeps, KillKeeps, JoinKeeps
     DEF Main
<1>3. CASE ReaderEnd \/ ReaderStops
  BY <1>3, ReaderKeeps
<1>4. CASE Writer
  BY <1>4, WriterWriteKeeps, WriterEndKeeps DEF Writer
<1>5. CASE Server
  BY <1>5, ServerAnswerKeeps, ServerAskKeeps, ServerDieKeeps DEF Server
<1>6. CASE Clock
  BY <1>6, GetOldKeeps, StopLateKeeps DEF Clock
<1>7. CASE UNCHANGED vars
  <2> USE <1>7 DEF vars, sessionVars, mainVars, queueVars, threadVars, serverVars
  <2>1. Types' /\ Said' = Said
    BY DEF Inv, Types, TypeOK, Pumping, Said
  <2>2. Alone'
    BY DEF Inv, Alone, Running
  <2> QED BY <2>1, <2>2, QuietInv
<1> QED BY <1>1, <1>2, <1>3, <1>4, <1>5, <1>6, <1>7 DEF Next

\* The inductive invariant holds in every reachable state, whatever the
\* documents, the bounds and the server.
THEOREM InvHolds == Spec => []Inv
<1> QED BY InitInv, NextInv, PTL DEF Spec

\* Every variable of the client, its threads and the server has its type, and
\* the queues hold only answers and messages.
THEOREM TypeCorrect == Spec => []TypeOK
<1>1. Inv => TypeOK
  BY DEF Inv, Types
<1> QED BY <1>1, InvHolds, PTL

\* No request is answered twice under its method, by the server and by its
\* timeout, in one session or over several (client.cpp, pump).
THEOREM RequestsAnsweredOnce == Spec => []AnsweredOnce
<1>1. Inv => AnsweredOnce
  BY DEF Inv, Named
<1> QED BY <1>1, InvHolds, PTL

\* A session is ready only when its own server has accepted initialize, though
\* answers and requests of an earlier one may be left (client.cpp, on_response).
THEOREM ReadyIsGreeted == Spec => []ReadyMeansGreeted
<1>1. Inv => ReadyMeansGreeted
  BY DEF Inv
<1> QED BY <1>1, InvHolds, PTL

\* After stop no thread and no process of the session is left, whenever the
\* server dies, answers or is slow (client.cpp, stop).
THEOREM StopLeavesNothing == Spec => []NothingLeft
<1>1. Inv => NothingLeft
  BY DEF Inv, Alone, Running, NothingLeft, Types, TypeOK
<1> QED BY <1>1, InvHolds, PTL

\* In a session that is ready, once everything is sent, the server has the documents
\* the client has, whatever was opened, changed or closed while it started and
\* whatever it ignored then (client.cpp, resend_open_documents).
THEOREM DocumentsInStep == Spec => []DocumentsAgree
<1>1. Init => Synced
  BY DEF Init, Synced
<1>2. Inv /\ Synced => DocumentsAgree
  <2> SUFFICES ASSUME Inv, Synced, state = "Ready", process = "alive", outgoing = <<>>
               PROVE  docs = documents
    BY DEF DocumentsAgree
  <2>1. docs \in [Uris -> Nat] /\ documents \in [Uris -> Nat]
    BY DEF Inv, Types, TypeOK
  <2>2. \A u \in Uris : ~Tells(outgoing, u, documents[u])
    BY DEF Tells
  <2>3. \A u \in Uris : docs[u] = documents[u]
    BY <2>2 DEF Synced, InStep
  <2> QED BY <2>1, <2>3
<1> QED BY <1>1, <1>2, InvHolds, NextInStep, PTL DEF Spec

=============================================================================
