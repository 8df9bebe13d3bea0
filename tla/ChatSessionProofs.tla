------------------------- MODULE ChatSessionProofs -------------------------
(* Theorems about ChatSession, for any number of pairs of peers, any number *)
(* of messages and any number of session restarts, crashes and losses.      *)
EXTENDS ChatSessionInvariant, SequenceTheorems, TLAPS

----------------------------------------------------------------------------
(* Type correctness. *)

\* The initial state is well-formed.
LEMMA InitTypeOK == Init => TypeOK
BY PeerAssumption DEF Init, TypeOK, SessionShape

\* Every way a process ends leaves a well-shaped session.
LEMMA ExitTypeOK ==
    ASSUME TypeOK, NEW n \in Node, Exit(n)
    PROVE  TypeOK'
<1> USE PeerAssumption DEF TypeOK, Exit, disk
<1>1. link' \in [Node -> {"idle", "open", "acked", "closed"}]
  OBVIOUS
<1>2. queue' \in [Node -> Seq(Message)]
  <2>1. <<>> \in Seq(Message)
    OBVIOUS
  <2>2. QED
    BY <2>1
<1>3. ASSUME NEW k \in Node PROVE SessionShape(k)'
  <2>1. CASE k = n
    BY <2>1 DEF SessionShape
  <2>2. CASE k # n
    <3>1. /\ pc'[k] = pc[k] /\ sending'[k] = sending[k] /\ expired'[k] = expired[k]
          /\ inbox'[k] = inbox[k] /\ handler'[k] = handler[k] /\ queue'[k] = queue[k]
      BY <2>2
    <3>2. link'[k] # "idle" <=> link[k] # "idle"
      BY <2>2
    <3>3. QED
      BY <3>1, <3>2 DEF SessionShape
  <2>3. QED
    BY <2>1, <2>2
<1>4. QED
  BY <1>1, <1>2, <1>3

\* The steps of a handler keep the types.
LEMMA HandleTypeOK ==
    ASSUME TypeOK, NEW n \in Node, NEW m \in inbox[n] \cup handler[n],
           LoseRequest(n, m) \/ Handle(n, m)
    PROVE  TypeOK'
<1> m \in Message /\ m.src \in Node /\ m.hash \in Hash
  BY DEF TypeOK, Message
<1>1. CASE LoseRequest(n, m)
  BY <1>1 DEF LoseRequest, Closed, Connected, TypeOK, SessionShape, disk, main, history
<1>2. CASE Accept(n, m)
  BY <1>2 DEF Accept, Polling, TypeOK, SessionShape, disk, main, wire
<1>3. CASE Refuse(n, m)
  BY <1>3 DEF Refuse, Polling, Closed, Connected, TypeOK, SessionShape, disk, main, history
<1>4. CASE WriteAck(n, m)
  BY <1>4 DEF WriteAck, Polling, Connected, TypeOK, SessionShape, disk, main, history
<1>5. CASE AckWriteFails(n, m)
  BY <1>5 DEF AckWriteFails, Polling, TypeOK, SessionShape, disk, main, wire, history
<1>6. QED
  BY <1>1, <1>2, <1>3, <1>4, <1>5 DEF Handle

\* What a Send writes: a message with a hash no earlier one has.
LEMMA SendBuilds ==
    ASSUME TypeOK, NEW n \in Node, Send(n)
    PROVE  \E m \in Message :
              /\ m.src = n /\ m.prev = latest[n] /\ m.conv = conv[n]
              /\ \A k \in composed : k.hash # m.hash
              /\ composed' = composed \cup {m}
              /\ sending' = [sending EXCEPT ![n] = m]
              /\ inbox' = [inbox EXCEPT ![Peer[n]] = @ \cup {m}]
<1>1. PICK m \in Buildable(n) :
        /\ composed' = composed \cup {m}
        /\ sending' = [sending EXCEPT ![n] = m]
        /\ inbox' = [inbox EXCEPT ![Peer[n]] = @ \cup {m}]
  BY DEF Send
<1>2. m \in Message
  BY DEF Buildable, Message, TypeOK
<1>3. m.src = n /\ m.prev = latest[n] /\ m.conv = conv[n]
  BY DEF Buildable
<1>4. m.hash \notin Hashes(composed)
  BY DEF Buildable
<1>5. \A k \in composed : k.hash # m.hash
  BY <1>4 DEF Hashes
<1>6. QED
  BY <1>1, <1>2, <1>3, <1>5

\* The steps of the main task and of the process keep the types.
LEMMA NodeStepTypeOK ==
    ASSUME TypeOK, NEW n \in Node, NodeStep(n)
    PROVE  TypeOK'
<1>1. ASSUME NEW c \in Conv, StartChat(n, c) PROVE TypeOK'
  <2>1. PICK h \in Heads(InConv(store[n], c)) :
          /\ latest' = [latest EXCEPT ![n] = h]
          /\ expected' = [expected EXCEPT ![n] = h]
          /\ taken' = [taken EXCEPT ![n] = h]
    BY <1>1 DEF StartChat
  <2>2. h \in Hash \cup {Zero}
    BY <2>1 DEF Heads, InConv, Hashes, TypeOK, Message
  <2>3. QED
    BY <1>1, <2>1, <2>2 DEF StartChat, TypeOK, SessionShape, disk, wire
<1>2. ASSUME NEW c \in Conv, StartRefused(n, c) PROVE TypeOK'
  BY <1>2 DEF StartRefused, TypeOK, SessionShape, vars, disk, main, wire, listener, history
<1>3. CASE DeadlineFires(n)
  BY <1>3 DEF DeadlineFires, TypeOK, SessionShape, disk, wire, listener, history
<1>4. CASE Stop(n) \/ Crash(n) \/ ConnectRefused(n) \/ SendFails(n)
  BY <1>4, ExitTypeOK DEF Stop, Crash, ConnectRefused, SendFails
<1>5. CASE Send(n)
  <2>1. PICK m \in Message :
          /\ m.src = n
          /\ composed' = composed \cup {m}
          /\ sending' = [sending EXCEPT ![n] = m]
          /\ inbox' = [inbox EXCEPT ![Peer[n]] = @ \cup {m}]
    BY <1>5, SendBuilds
  <2>2. m # NoMsg
    BY NoMsgAssumption
  <2>3. ASSUME NEW k \in Node PROVE SessionShape(k)'
    BY <1>5, <2>1, <2>2, PeerAssumption DEF Send, TypeOK, SessionShape, disk
  <2>4. /\ composed' \in SUBSET Message
        /\ sending' \in [Node -> Message \cup {NoMsg}]
        /\ inbox' \in [Node -> SUBSET Message]
    <3>1. composed' \in SUBSET Message
      BY <2>1 DEF TypeOK
    <3>2. sending' \in [Node -> Message \cup {NoMsg}]
      BY <2>1 DEF TypeOK
    <3>3. inbox' \in [Node -> SUBSET Message]
      BY <2>1 DEF TypeOK
    <3> QED  BY <3>1, <3>2, <3>3
  <2>5. QED
    BY <1>5, <2>3, <2>4 DEF Send, TypeOK, disk
<1>6. CASE RecordAck(n)
  <2>1. sending[n] \in Message /\ sending[n].hash \in Hash
    BY <1>6 DEF RecordAck, TypeOK, SessionShape, Message
  <2>2. QED
    BY <1>6, <2>1 DEF RecordAck, TypeOK, SessionShape, listener, history
<1>7. CASE InsertSent(n)
  <2>1. sending[n] \in Message /\ sending[n].hash \in Hash
    BY <1>7 DEF InsertSent, TypeOK, SessionShape, Message
  <2>2. QED
    BY <1>7, <2>1 DEF InsertSent, TypeOK, SessionShape, listener, history
<1>8. CASE LoseConnection(n)
  BY <1>8 DEF LoseConnection, TypeOK, SessionShape, disk, main, listener, history
<1>9. CASE Receive(n)
  <2>1. Head(queue[n]) \in Message /\ Head(queue[n]).hash \in Hash
        /\ Tail(queue[n]) \in Seq(Message)
    <3>1. queue[n] \in Seq(Message) /\ queue[n] # <<>>
      BY <1>9 DEF Receive, TypeOK
    <3>2. Head(queue[n]) \in Message /\ Tail(queue[n]) \in Seq(Message)
      BY <3>1, HeadTailProperties
    <3>3. QED
      BY <3>2 DEF Message
  <2>2. store' \in [Node -> SUBSET Message]
    BY <1>9, <2>1 DEF Receive, TypeOK
  <2>3. /\ latest' \in [Node -> Hash \cup {Zero}]
        /\ taken' \in [Node -> Hash \cup {Zero}]
        /\ queue' \in [Node -> Seq(Message)]
    BY <1>9, <2>1 DEF Receive, TypeOK
  <2>4. ASSUME NEW k \in Node PROVE SessionShape(k)'
    BY <1>9 DEF Receive, TypeOK, SessionShape, wire
  <2>5. QED
    BY <1>9, <2>2, <2>3, <2>4 DEF Receive, TypeOK, wire
<1>10. QED
  BY <1>1, <1>2, <1>3, <1>4, <1>5, <1>6, <1>7, <1>8, <1>9 DEF NodeStep

\* A session has at most one message in flight, its connection exists only
\* while it sends, and nothing of it survives in memory when its process ends.
THEOREM TypeCorrect == Spec => []TypeOK
<1>1. TypeOK /\ [Next]_vars => TypeOK'
  <2>1. TypeOK /\ Next => TypeOK'
    BY NodeStepTypeOK, HandleTypeOK DEF Next
  <2>2. TypeOK /\ UNCHANGED vars => TypeOK'
    BY DEF TypeOK, SessionShape, vars, disk, main, wire, listener, history
  <2>3. QED
    BY <2>1, <2>2
<1>2. QED
  BY InitTypeOK, <1>1, PTL DEF Spec

----------------------------------------------------------------------------
(* What the actions do to the channel. *)

\* Queueing one message adds nothing else to the queue.
LEMMA QueueGrows ==
    ASSUME TypeOK, NEW n \in Node, NEW m \in handler[n], WriteAck(n, m)
    PROVE  /\ Len(queue[n]) \in Nat
           /\ Len(queue'[n]) = Len(queue[n]) + 1
           /\ \A i \in 1..Len(queue[n]) : queue'[n][i] = queue[n][i]
           /\ queue'[n][Len(queue[n]) + 1] = m
           /\ \A k \in Node \ {n} : queue'[k] = queue[k]
<1>1. queue[n] \in Seq(Message) /\ m \in Message
  BY DEF TypeOK
<1>2. queue'[n] = Append(queue[n], m) /\ \A k \in Node \ {n} : queue'[k] = queue[k]
  BY DEF WriteAck, TypeOK
<1>3. QED
  BY <1>1, <1>2, AppendProperties, LenProperties

\* Taking a message leaves a part of the queue.
LEMMA QueueShrinks ==
    ASSUME TypeOK, NEW n \in Node, Receive(n)
    PROVE  /\ Len(queue[n]) \in Nat \ {0}
           /\ Len(queue'[n]) = Len(queue[n]) - 1
           /\ \A i \in 1..Len(queue'[n]) : queue'[n][i] = queue[n][i + 1]
           /\ \A k \in Node \ {n} : queue'[k] = queue[k] /\ store'[k] = store[k]
           /\ queue[n][1] \in Message
           /\ store'[n] = store[n] \cup {queue[n][1]}
           /\ latest' = [latest EXCEPT ![n] = queue[n][1].hash]
           /\ taken' = [taken EXCEPT ![n] = queue[n][1].hash]
<1>1. queue[n] \in Seq(Message) /\ queue[n] # <<>>
  BY DEF TypeOK, Receive
<1>2. Len(queue[n]) \in Nat \ {0}
  BY <1>1, EmptySeq
<1>3. Head(queue[n]) = queue[n][1]
  BY <1>1
<1>4. queue[n][1] \in Message
  BY <1>1, <1>2, ElementOfSeq
<1>5. queue'[n] = Tail(queue[n])
  BY DEF Receive, TypeOK
<1>6. /\ Len(queue'[n]) = Len(queue[n]) - 1
      /\ \A i \in 1..Len(queue'[n]) : queue'[n][i] = queue[n][i + 1]
  BY <1>1, <1>5, HeadTailProperties
<1>7. QED
  BY <1>2, <1>3, <1>4, <1>6 DEF Receive, TypeOK

----------------------------------------------------------------------------
(* Where messages come from, and what an ACK on record proves. *)

\* Nothing has an origin to explain at first.
LEMMA InitOrigin == Init => Origin
<1> SUFFICES ASSUME Init PROVE Origin
  OBVIOUS
<1>1. \A n \in Node : Peer[n] \in Node
  BY PeerAssumption
<1>2. \A n \in Node : queue[n] = <<>> /\ Len(queue[n]) = 0
  BY DEF Init
<1>3. QED
  BY <1>1, <1>2 DEF Init, Origin, ComposedUnique, SendingOrigin, InboxOrigin,
     AcceptedOrigin, StoreOrigin, AckedWasAccepted

\* What a process leaves behind when it ends keeps its origin.
LEMMA ExitOrigin ==
    ASSUME TypeOK, Origin, NEW n \in Node, Exit(n)
    PROVE  Origin'
<1> USE PeerAssumption DEF Exit, TypeOK, disk
<1>1. \A k \in Node : queue'[k] = queue[k] \/ queue'[k] = <<>>
  OBVIOUS
<1>2. ComposedUnique' /\ StoreOrigin' /\ AckedWasAccepted'
  BY DEF Origin, ComposedUnique, StoreOrigin, AckedWasAccepted
<1>3. ASSUME NEW k \in Node, sending'[k] # NoMsg
      PROVE  /\ k # n
             /\ sending'[k] = sending[k] /\ latest'[k] = latest[k] /\ pc'[k] = pc[k]
             /\ link'[k] = "acked" => link[k] = "acked"
  BY <1>3
<1>4. SendingOrigin'
  BY <1>3 DEF Origin, SendingOrigin
<1>5. InboxOrigin'
  BY DEF Origin, InboxOrigin
<1>6. AcceptedOrigin'
  BY <1>1 DEF Origin, AcceptedOrigin
<1>7. QED
  BY <1>2, <1>4, <1>5, <1>6 DEF Origin

\* A handler only moves messages on from where they came.
LEMMA HandleOrigin ==
    ASSUME TypeOK, Origin, NEW n \in Node, NEW m \in inbox[n] \cup handler[n],
           LoseRequest(n, m) \/ Handle(n, m)
    PROVE  Origin'
<1> USE PeerAssumption
<1> m \in Message /\ m \in composed /\ m.src = Peer[n] /\ Peer[n] \in Node
  BY DEF TypeOK, Origin, InboxOrigin, AcceptedOrigin
<1>1. CASE LoseRequest(n, m) \/ Refuse(n, m)
  <2>1. \A k \in Node : link'[k] = "acked" => link[k] = "acked"
    BY <1>1 DEF LoseRequest, Refuse, Closed, TypeOK
  <2>2. \A k \in Node : inbox'[k] \subseteq inbox[k]
    <3>1. inbox' = [inbox EXCEPT ![n] = @ \ {m}]
      BY <1>1 DEF LoseRequest, Refuse
    <3>2. inbox \in [Node -> SUBSET Message]
      BY DEF TypeOK
    <3> QED  BY <3>1, <3>2
  <2>3. QED
    BY <1>1, <2>1, <2>2 DEF LoseRequest, Refuse, Origin, ComposedUnique, SendingOrigin,
       InboxOrigin, AcceptedOrigin, StoreOrigin, AckedWasAccepted, disk, main, history
<1>2. CASE Accept(n, m)
  <2>1. /\ \A k \in Node : accepted[k] \subseteq accepted'[k]
        /\ accepted'[n] = accepted[n] \cup {m}
        /\ inbox'[n] = inbox[n] \ {m}
        /\ handler'[n] = handler[n] \cup {m}
        /\ \A k \in Node \ {n} :
              inbox'[k] = inbox[k] /\ accepted'[k] = accepted[k] /\ handler'[k] = handler[k]
    BY <1>2 DEF Accept, TypeOK
  <2>2. InboxOrigin' /\ AcceptedOrigin'
    BY <1>2, <2>1 DEF Accept, Origin, InboxOrigin, AcceptedOrigin
  <2>3. ComposedUnique' /\ SendingOrigin' /\ StoreOrigin' /\ AckedWasAccepted'
    BY <1>2, <2>1 DEF Accept, Origin, ComposedUnique, SendingOrigin, StoreOrigin,
       AckedWasAccepted, disk, main, wire
  <2>4. QED
    BY <2>2, <2>3 DEF Origin
<1>3. CASE WriteAck(n, m)
  <2>1. m \in handler[n] /\ m \in accepted[n]
    BY <1>3 DEF WriteAck, Origin, AcceptedOrigin
  <2>2. ASSUME NEW k \in Node, link'[k] = "acked"
        PROVE  link[k] = "acked" \/ (k = Peer[n] /\ sending[k] = m)
    BY <1>3, <2>2 DEF WriteAck, Connected, TypeOK
  <2>3. SendingOrigin'
    BY <1>3, <2>1, <2>2 DEF WriteAck, Origin, SendingOrigin, disk, main, history
  <2>4. \A k \in Node : handler'[k] \subseteq handler[k]
    BY <1>3 DEF WriteAck, TypeOK
  <2>5. ASSUME NEW k \in Node, NEW i \in 1..Len(queue'[k])
        PROVE  queue'[k][i] \in accepted[k]
    BY <1>3, <2>1, QueueGrows DEF Origin, AcceptedOrigin
  <2>6. AcceptedOrigin'
    BY <1>3, <2>4, <2>5 DEF WriteAck, Origin, AcceptedOrigin, history
  <2>7. QED
    BY <1>3, <2>3, <2>6 DEF WriteAck, Origin, ComposedUnique, InboxOrigin, StoreOrigin,
       AckedWasAccepted, disk, main, history
<1>4. CASE AckWriteFails(n, m)
  <2>1. \A k \in Node : handler'[k] \subseteq handler[k]
    BY <1>4 DEF AckWriteFails, TypeOK
  <2>2. QED
    BY <1>4, <2>1 DEF AckWriteFails, Origin, ComposedUnique, SendingOrigin, InboxOrigin,
       AcceptedOrigin, StoreOrigin, AckedWasAccepted, disk, main, wire, history
<1>5. QED
  BY <1>1, <1>2, <1>3, <1>4 DEF Handle

\* The main task stores what was accepted, and records ACKs that were sent.
LEMMA NodeStepOrigin ==
    ASSUME TypeOK, Origin, NEW n \in Node, NodeStep(n)
    PROVE  Origin'
<1> USE PeerAssumption
<1>1. ASSUME NEW c \in Conv, StartChat(n, c) PROVE Origin'
  <2>1. sending[n] = NoMsg
    BY <1>1 DEF StartChat, TypeOK, SessionShape
  <2>2. \A k \in Node \ {n} : latest'[k] = latest[k] /\ pc'[k] = pc[k]
    BY <1>1 DEF StartChat, TypeOK
  <2>3. SendingOrigin'
    BY <1>1, <2>1, <2>2 DEF StartChat, Origin, SendingOrigin, disk, wire
  <2>4. QED
    BY <1>1, <2>3 DEF StartChat, Origin, ComposedUnique, InboxOrigin, AcceptedOrigin,
       StoreOrigin, AckedWasAccepted, disk, wire
<1>2. ASSUME NEW c \in Conv, StartRefused(n, c) PROVE Origin'
  BY <1>2 DEF StartRefused, Origin, ComposedUnique, SendingOrigin, InboxOrigin,
     AcceptedOrigin, StoreOrigin, AckedWasAccepted, vars, disk, main, wire, listener, history
<1>3. CASE DeadlineFires(n)
  BY <1>3 DEF DeadlineFires, Origin, ComposedUnique, SendingOrigin, InboxOrigin,
     AcceptedOrigin, StoreOrigin, AckedWasAccepted, disk, wire, listener, history
<1>4. CASE Stop(n) \/ Crash(n) \/ ConnectRefused(n) \/ SendFails(n)
  BY <1>4, ExitOrigin DEF Stop, Crash, ConnectRefused, SendFails
<1>5. CASE Send(n)
  <2>1. PICK m \in Message :
          /\ m.src = n /\ m.prev = latest[n]
          /\ \A k \in composed : k.hash # m.hash
          /\ composed' = composed \cup {m}
          /\ sending' = [sending EXCEPT ![n] = m]
          /\ inbox' = [inbox EXCEPT ![Peer[n]] = @ \cup {m}]
    BY <1>5, SendBuilds
  <2>2. m \notin composed
    BY <2>1
  <2>3. \A k \in Node : m \notin accepted[k] /\ m \notin store[k]
    BY <2>2 DEF Origin, AcceptedOrigin, StoreOrigin
  <2>4. ComposedUnique'
    BY <2>1 DEF Origin, ComposedUnique
  <2>5. /\ sending'[n] = m /\ pc'[n] = "sending" /\ link'[n] = "open"
        /\ \A k \in Node \ {n} :
              sending'[k] = sending[k] /\ pc'[k] = pc[k] /\ link'[k] = link[k]
    BY <1>5, <2>1 DEF Send, TypeOK
  <2>6. SendingOrigin'
    BY <1>5, <2>1, <2>3, <2>5 DEF Send, Origin, SendingOrigin, disk
  <2>7. InboxOrigin'
    BY <1>5, <2>1, <2>3 DEF Send, Origin, InboxOrigin, TypeOK
  <2>8. QED
    BY <1>5, <2>1, <2>4, <2>6, <2>7 DEF Send, Origin, AcceptedOrigin, StoreOrigin,
       AckedWasAccepted, disk
<1>6. CASE RecordAck(n)
  <2>1. /\ sending[n] \in accepted[Peer[n]] /\ sending[n].src = n
        /\ acks'[n] = acks[n] \cup {sending[n].hash}
        /\ pc'[n] = "insert" /\ link'[n] = "idle"
        /\ \A k \in Node \ {n} :
              acks'[k] = acks[k] /\ pc'[k] = pc[k] /\ link'[k] = link[k]
    BY <1>6 DEF RecordAck, Origin, SendingOrigin, TypeOK, SessionShape
  <2>2. SendingOrigin' /\ StoreOrigin' /\ AckedWasAccepted'
    BY <1>6, <2>1 DEF RecordAck, Origin, SendingOrigin, StoreOrigin, AckedWasAccepted,
       listener, history
  <2>3. QED
    BY <1>6, <2>2 DEF RecordAck, Origin, ComposedUnique, InboxOrigin, AcceptedOrigin,
       listener, history
<1>7. CASE InsertSent(n)
  <2>1. /\ sending[n] # NoMsg /\ sending[n] \in accepted[Peer[n]]
        /\ sending[n].src = n /\ sending[n].hash \in acks[n]
    BY <1>7 DEF InsertSent, Origin, SendingOrigin, TypeOK, SessionShape
  <2>2. /\ store'[n] = store[n] \cup {sending[n]} /\ sending'[n] = NoMsg
        /\ \A k \in Node \ {n} : /\ store'[k] = store[k] /\ sending'[k] = sending[k]
                                 /\ latest'[k] = latest[k] /\ pc'[k] = pc[k]
    BY <1>7 DEF InsertSent, TypeOK
  <2>3. SendingOrigin' /\ StoreOrigin'
    BY <1>7, <2>1, <2>2 DEF InsertSent, Origin, SendingOrigin, StoreOrigin, listener, history
  <2>4. QED
    BY <1>7, <2>3 DEF InsertSent, Origin, ComposedUnique, InboxOrigin, AcceptedOrigin,
       AckedWasAccepted, listener, history
<1>8. CASE LoseConnection(n)
  <2>1. \A k \in Node : link'[k] = "acked" => link[k] = "acked"
    BY <1>8 DEF LoseConnection, TypeOK
  <2>2. QED
    BY <1>8, <2>1 DEF LoseConnection, Origin, ComposedUnique, SendingOrigin, InboxOrigin,
       AcceptedOrigin, StoreOrigin, AckedWasAccepted, disk, main, listener, history
<1>9. CASE Receive(n)
  <2>1. sending[n] = NoMsg
    BY <1>9 DEF Receive, TypeOK, SessionShape
  <2>2. queue[n][1] \in accepted[n] /\ queue[n][1].src = Peer[n]
    BY <1>9, QueueShrinks DEF Origin, AcceptedOrigin
  <2>3. \A k \in Node \ {n} : latest'[k] = latest[k] /\ store'[k] = store[k]
    BY <1>9, QueueShrinks DEF TypeOK
  <2>4. SendingOrigin'
    BY <1>9, <2>1, <2>3 DEF Receive, Origin, SendingOrigin, wire
  <2>5. StoreOrigin'
    BY <1>9, <2>2, QueueShrinks DEF Receive, Origin, StoreOrigin
  <2>6. ASSUME NEW k \in Node, NEW i \in 1..Len(queue'[k])
        PROVE  queue'[k][i] \in accepted[k]
    <3>1. CASE k = n
      <4>1. i + 1 \in 1..Len(queue[n]) /\ queue'[n][i] = queue[n][i + 1]
        BY <1>9, <3>1, QueueShrinks
      <4>2. QED
        BY <3>1, <4>1 DEF Origin, AcceptedOrigin
    <3>2. CASE k # n
      BY <1>9, <3>2, QueueShrinks DEF Origin, AcceptedOrigin
    <3>3. QED
      BY <3>1, <3>2
  <2>7. AcceptedOrigin'
    BY <1>9, <2>6 DEF Receive, Origin, AcceptedOrigin
  <2>8. QED
    BY <1>9, <2>4, <2>5, <2>7 DEF Receive, Origin, ComposedUnique, InboxOrigin,
       AckedWasAccepted
<1>10. QED
  BY <1>1, <1>2, <1>3, <1>4, <1>5, <1>6, <1>7, <1>8, <1>9 DEF NodeStep

\* Messages are where the code can have put them, and each has one hash.
THEOREM OriginCorrect == Spec => []Origin
<1>1. TypeOK /\ Origin /\ [Next]_vars => Origin'
  <2>1. TypeOK /\ Origin /\ Next => Origin'
    BY NodeStepOrigin, HandleOrigin DEF Next
  <2>2. Origin /\ UNCHANGED vars => Origin'
    BY DEF Origin, ComposedUnique, SendingOrigin, InboxOrigin, AcceptedOrigin, StoreOrigin,
       AckedWasAccepted, vars, disk, main, wire, listener, history
  <2>3. QED
    BY <2>1, <2>2
<1>2. QED
  BY InitOrigin, TypeCorrect, <1>1, PTL DEF Spec

\* Every ACK on record is true of the peer's listener.
THEOREM AckedWasAcceptedAlways == Spec => []AckedWasAccepted
<1>1. Origin => AckedWasAccepted
  BY DEF Origin
<1>2. QED
  BY OriginCorrect, <1>1, PTL

\* Every own message in the history has its ACK on record.
THEOREM StoredOwnIsAckedAlways == Spec => []StoredOwnIsAcked
<1>1. Origin => StoredOwnIsAcked
  BY PeerAssumption DEF Origin, StoreOrigin, StoredOwnIsAcked
<1>2. QED
  BY OriginCorrect, <1>1, PTL

----------------------------------------------------------------------------
(* What every step respects. *)

\* Histories only grow.
LEMMA StoreGrows ==
    ASSUME TypeOK, Next
    PROVE  \A k \in Node : store[k] \subseteq store'[k]
<1>1. ASSUME NEW n \in Node, NodeStep(n) PROVE \A k \in Node : store[k] \subseteq store'[k]
  <2>1. CASE InsertSent(n)
    BY <2>1 DEF InsertSent, TypeOK
  <2>2. CASE Receive(n)
    BY <2>2, QueueShrinks
  <2>3. CASE ~InsertSent(n) /\ ~Receive(n)
    BY <1>1, <2>3 DEF NodeStep, StartChat, StartRefused, DeadlineFires, Stop, Crash, Send,
       ConnectRefused, SendFails, RecordAck, LoseConnection, Exit, vars, disk
  <2>4. QED
    BY <2>1, <2>2, <2>3
<1>2. ASSUME NEW n \in Node, NEW m \in inbox[n] \cup handler[n],
             LoseRequest(n, m) \/ Handle(n, m)
      PROVE  store' = store
  BY <1>2 DEF LoseRequest, Handle, Accept, Refuse, WriteAck, AckWriteFails, disk
<1>3. QED
  BY <1>1, <1>2 DEF Next

\* So do their hashes.
LEMMA HashesGrow ==
    ASSUME TypeOK, Next, NEW k \in Node, NEW h \in Hashes(store[k]) \cup {Zero}
    PROVE  h \in Hashes(store'[k]) \cup {Zero}
BY StoreGrows DEF Hashes

\* A message that nobody has seen stays so until its handler writes the ACK.
LEMMA UnseenPersists ==
    ASSUME TypeOK, Origin, Next, NEW n \in Node, NEW m \in accepted[n],
           Unseen(n, m), ~WriteAck(n, m)
    PROVE  Unseen(n, m)'
<1> USE PeerAssumption
<1> DEFINE p == Peer[n]
<1>0. /\ p \in Node /\ p # n /\ m \in Message /\ m.src = p /\ m \in composed
      /\ m \notin store[n] /\ m \notin store[p]
      /\ \A i \in 1..Len(queue[n]) : queue[n][i] # m
      /\ ~(sending[p] = m /\ (link[p] = "acked" \/ pc[p] = "insert"))
  BY DEF Origin, AcceptedOrigin, Unseen, TypeOK
<1> HIDE DEF p
<1> SUFFICES /\ m \notin store'[n] /\ m \notin store'[p]
             /\ \A i \in 1..Len(queue'[n]) : queue'[n][i] # m
             /\ ~(sending'[p] = m /\ (link'[p] = "acked" \/ pc'[p] = "insert"))
  BY DEF Unseen, p
<1>1. ASSUME NEW k \in Node, Exit(k) PROVE Unseen(n, m)'
  <2>1. store' = store /\ (queue'[n] = queue[n] \/ queue'[n] = <<>>)
    BY <1>1 DEF Exit, TypeOK, disk
  <2>2. \/ sending'[p] = NoMsg
        \/ /\ sending'[p] = sending[p] /\ pc'[p] = pc[p]
           /\ link'[p] = "acked" => link[p] = "acked"
    BY <1>0, <1>1 DEF Exit, TypeOK
  <2>3. m # NoMsg
    BY <1>0, NoMsgAssumption
  <2>4. QED
    BY <1>0, <2>1, <2>2, <2>3 DEF Unseen, p
<1>2. ASSUME NEW k \in Node, NodeStep(k) PROVE Unseen(n, m)'
  <2>1. CASE \E c \in Conv : StartChat(k, c) \/ StartRefused(k, c)
    BY <1>0, <2>1 DEF StartChat, StartRefused, TypeOK, Unseen, p, disk, wire, vars, main,
       listener
  <2>2. CASE DeadlineFires(k)
    BY <1>0, <2>2 DEF DeadlineFires, Unseen, p, disk, wire, listener
  <2>3. CASE Stop(k) \/ Crash(k) \/ ConnectRefused(k) \/ SendFails(k)
    BY <1>1, <2>3 DEF Stop, Crash, ConnectRefused, SendFails
  <2>4. CASE Send(k)
    <3>1. PICK w \in Message : /\ \A j \in composed : j.hash # w.hash
                               /\ sending' = [sending EXCEPT ![k] = w]
      BY <2>4, SendBuilds
    <3>2. w # m
      BY <1>0, <3>1
    <3>3. /\ pc' = [pc EXCEPT ![k] = "sending"] /\ link' = [link EXCEPT ![k] = "open"]
          /\ store' = store /\ queue' = queue
      BY <2>4 DEF Send, disk
    <3>4. QED
      BY <1>0, <3>1, <3>2, <3>3 DEF Unseen, p, TypeOK
  <2>5. CASE RecordAck(k)
    BY <1>0, <2>5 DEF RecordAck, Unseen, p, TypeOK, listener
  <2>6. CASE InsertSent(k)
    <3>1. sending[k].src = k /\ pc[k] = "insert"
      BY <2>6 DEF InsertSent, Origin, SendingOrigin, TypeOK, SessionShape
    <3>2. sending[k] # m
      BY <1>0, <3>1
    <3>3. m \notin store'[n] /\ m \notin store'[p]
      BY <1>0, <2>6, <3>2 DEF InsertSent, TypeOK
    <3>4. QED
      BY <1>0, <2>6, <3>3, NoMsgAssumption DEF InsertSent, Unseen, p, TypeOK, listener
  <2>7. CASE LoseConnection(k)
    BY <1>0, <2>7 DEF LoseConnection, Unseen, p, TypeOK, disk, main, listener
  <2>8. CASE Receive(k)
    <3>1. Len(queue[k]) \in Nat \ {0}
      BY <2>8, QueueShrinks
    <3>2. queue[k][1] \in accepted[k] /\ queue[k][1].src = Peer[k]
      BY <3>1 DEF Origin, AcceptedOrigin
    <3>3. k = n => queue[k][1] # m
      BY <1>0, <3>1
    <3>4. k = p => queue[k][1] # m
      BY <1>0, <3>2 DEF p
    <3>5. m \notin store'[n] /\ m \notin store'[p]
      BY <1>0, <2>8, <3>3, <3>4, QueueShrinks
    <3>6. ASSUME NEW i \in 1..Len(queue'[n]) PROVE queue'[n][i] # m
      <4>1. CASE k = n
        <5>1. i + 1 \in 1..Len(queue[n]) /\ queue'[n][i] = queue[n][i + 1]
          BY <2>8, <4>1, QueueShrinks
        <5>2. QED
          BY <1>0, <5>1
      <4>2. CASE k # n
        BY <1>0, <2>8, <4>2, QueueShrinks
      <4>3. QED
        BY <4>1, <4>2
    <3>7. sending' = sending /\ link' = link /\ pc' = pc
      BY <2>8 DEF Receive, wire
    <3>8. QED
      BY <1>0, <3>5, <3>6, <3>7 DEF Unseen, p
  <2>9. QED
    BY <1>2, <2>1, <2>2, <2>3, <2>4, <2>5, <2>6, <2>7, <2>8 DEF NodeStep
<1>3. ASSUME NEW k \in Node, NEW w \in inbox[k] \cup handler[k],
             LoseRequest(k, w) \/ Handle(k, w)
      PROVE  Unseen(n, m)'
  <2>1. store' = store /\ sending' = sending /\ pc' = pc
    BY <1>3 DEF LoseRequest, Handle, Accept, Refuse, WriteAck, AckWriteFails, disk, main, wire
  <2>2. CASE WriteAck(k, w)
    <3>1. w \in handler[k] /\ w \in accepted[k] /\ w.src = Peer[k]
      BY <2>2 DEF WriteAck, Origin, AcceptedOrigin
    <3>2. w # m
      BY <1>0, <2>2, <3>1 DEF p
    <3>3. link'[p] = "acked" => link[p] = "acked" \/ sending[p] # m
      BY <1>0, <2>2, <3>2 DEF WriteAck, Connected, TypeOK
    <3>4. \A i \in 1..Len(queue'[n]) : queue'[n][i] # m
      BY <1>0, <2>2, <3>1, <3>2, QueueGrows
    <3>5. QED
      BY <1>0, <2>1, <3>3, <3>4 DEF Unseen, p
  <2>3. CASE ~WriteAck(k, w)
    <3>1. queue' = queue /\ (link'[p] = "acked" => link[p] = "acked")
      BY <1>0, <1>3, <2>3 DEF LoseRequest, Handle, Accept, Refuse, AckWriteFails, Closed,
         TypeOK, wire
    <3>2. QED
      BY <1>0, <2>1, <3>1 DEF Unseen, p
  <2>4. QED
    BY <2>2, <2>3
<1>4. QED
  BY <1>2, <1>3 DEF Next, Unseen, p

----------------------------------------------------------------------------
(* The chain invariant. *)

\* Two empty histories satisfy the invariant.
LEMMA InitChainInv == Init => ChainInv
<1> SUFFICES ASSUME Init PROVE ChainInv
  OBVIOUS
<1>1. \A n \in Node : Len(queue[n]) = 0
  BY DEF Init
<1>2. QED
  BY <1>1 DEF Init, ChainInv, FollowsStored, QueueFresh, ReceivedInOrder, Chained,
     ListenerAtEnd, NoGaps

\* What a node follows it has stored, and histories only grow.
LEMMA FollowsStoredStep ==
    ASSUME TypeOK, Origin, FollowsStored, Next
    PROVE  FollowsStored'
<1>1. ASSUME NEW m \in composed' PROVE m.prev \in Hashes(store'[m.src]) \cup {Zero}
  <2>1. CASE m \in composed
    <3>1. m.src \in Node
      BY <2>1 DEF TypeOK, Message
    <3>2. QED
      BY <2>1, <3>1, HashesGrow DEF FollowsStored
  <2>2. CASE m \notin composed
    <3>1. PICK n \in Node : Send(n)
      BY <2>2 DEF Next, NodeStep, StartChat, StartRefused, DeadlineFires, Stop, Crash,
         ConnectRefused, SendFails, RecordAck, InsertSent, LoseConnection, Receive, Exit,
         LoseRequest, Handle, Accept, Refuse, WriteAck, AckWriteFails, vars, history
    <3>2. m.src = n /\ m.prev = latest[n]
      BY <2>2, <3>1, SendBuilds
    <3>3. m.prev \in Hashes(store[n]) \cup {Zero}
      BY <3>2 DEF FollowsStored
    <3>4. QED
      BY <3>2, <3>3, HashesGrow
  <2>3. QED
    BY <2>1, <2>2
<1>2. ASSUME NEW k \in Node
      PROVE  /\ latest'[k] \in Hashes(store'[k]) \cup {Zero}
             /\ taken'[k] \in Hashes(store'[k]) \cup {Zero}
  <2>1. CASE latest'[k] = latest[k] /\ taken'[k] = taken[k]
    BY <2>1, HashesGrow DEF FollowsStored
  <2>2. CASE latest'[k] = Zero /\ taken'[k] = Zero
    BY <2>2
  <2>3. ASSUME NEW c \in Conv, StartChat(k, c)
        PROVE  latest'[k] \in Hashes(store[k]) \cup {Zero} /\ taken'[k] = latest'[k]
    BY <2>3 DEF StartChat, Heads, InConv, Hashes, TypeOK
  <2>4. CASE InsertSent(k)
    <3>1. store'[k] = store[k] \cup {sending[k]} /\ latest'[k] = sending[k].hash
          /\ taken' = taken
      BY <2>4 DEF InsertSent, TypeOK, history
    <3>2. QED
      BY <3>1, HashesGrow DEF Hashes, FollowsStored
  <2>5. CASE Receive(k)
    <3>1. store'[k] = store[k] \cup {queue[k][1]} /\ latest'[k] = queue[k][1].hash
          /\ taken'[k] = queue[k][1].hash
      BY <2>5, QueueShrinks DEF TypeOK
    <3>2. QED
      BY <3>1 DEF Hashes
  <2>6. \/ latest'[k] = latest[k] /\ taken'[k] = taken[k]
        \/ latest'[k] = Zero /\ taken'[k] = Zero
        \/ \E c \in Conv : StartChat(k, c)
        \/ InsertSent(k)
        \/ Receive(k)
    <3>1. ASSUME NEW n \in Node, NodeStep(n), n # k
          PROVE  latest'[k] = latest[k] /\ taken'[k] = taken[k]
      BY <3>1 DEF NodeStep, StartChat, StartRefused, DeadlineFires, Stop, Crash, Send,
         ConnectRefused, SendFails, RecordAck, InsertSent, LoseConnection, Receive, Exit,
         TypeOK, vars, main, history
    <3>2. CASE NodeStep(k)
      BY <3>2 DEF NodeStep, StartRefused, DeadlineFires, Stop, Crash, Send,
         ConnectRefused, SendFails, RecordAck, LoseConnection, Exit,
         TypeOK, vars, main, history
    <3>3. ASSUME NEW n \in Node, NEW m \in inbox[n] \cup handler[n],
                 LoseRequest(n, m) \/ Handle(n, m)
          PROVE  latest'[k] = latest[k] /\ taken'[k] = taken[k]
      BY <3>3 DEF LoseRequest, Handle, Accept, Refuse, WriteAck, AckWriteFails, main, history
    <3>4. QED
      BY <3>1, <3>2, <3>3 DEF Next
  <2>7. QED
    BY <2>1, <2>2, <2>3, <2>4, <2>5, <2>6, HashesGrow
<1>3. QED
  BY <1>1, <1>2 DEF FollowsStored

\* What a step does to the chain of k: nothing, or one of five actions of k.
LEMMA ChainEffects ==
    ASSUME TypeOK, Next, NEW k \in Node
    PROVE  \/ /\ queue'[k] = queue[k] /\ taken'[k] = taken[k] /\ store'[k] = store[k]
              /\ latest'[k] = latest[k]
              /\ expected'[k] = expected[k] /\ handler'[k] \subseteq handler[k]
              /\ pc'[k] # "down" => pc[k] # "down"
           \/ Exit(k)
           \/ \E c \in Conv : StartChat(k, c)
           \/ InsertSent(k)
           \/ Receive(k)
           \/ \E m \in inbox[k] : Accept(k, m)
           \/ \E m \in handler[k] : WriteAck(k, m)
<1> DEFINE Quiet == /\ queue'[k] = queue[k] /\ taken'[k] = taken[k] /\ store'[k] = store[k]
                    /\ latest'[k] = latest[k]
                    /\ expected'[k] = expected[k] /\ handler'[k] \subseteq handler[k]
                    /\ pc'[k] # "down" => pc[k] # "down"
<1>1. ASSUME NEW n \in Node, NodeStep(n), n # k PROVE Quiet
  <2>1. CASE Receive(n)
    BY <1>1, <2>1, QueueShrinks DEF Receive, TypeOK
  <2>2. CASE ~Receive(n)
    BY <1>1, <2>2 DEF NodeStep, StartChat, StartRefused, DeadlineFires, Stop, Crash, Send,
       ConnectRefused, SendFails, RecordAck, InsertSent, LoseConnection, Exit,
       TypeOK, vars, disk, main, listener, history
  <2>3. QED
    BY <2>1, <2>2
<1>2. CASE NodeStep(k)
  <2>1. CASE Stop(k) \/ Crash(k) \/ ConnectRefused(k) \/ SendFails(k)
    BY <2>1 DEF Stop, Crash, ConnectRefused, SendFails
  <2>2. CASE \E c \in Conv : StartRefused(k, c)
    BY <2>2 DEF StartRefused, vars, disk, main, listener, history
  <2>3. CASE DeadlineFires(k) \/ LoseConnection(k)
    BY <2>3 DEF DeadlineFires, LoseConnection, disk, main, listener, history
  <2>4. CASE Send(k) \/ RecordAck(k)
    BY <2>4 DEF Send, RecordAck, disk, listener, history, TypeOK
  <2>5. QED
    BY <1>2, <2>1, <2>2, <2>3, <2>4 DEF NodeStep
<1>3. ASSUME NEW n \in Node, NEW m \in inbox[n] \cup handler[n],
             LoseRequest(n, m) \/ Handle(n, m)
      PROVE  \/ Quiet
             \/ \E w \in inbox[k] : Accept(k, w)
             \/ \E w \in handler[k] : WriteAck(k, w)
  <2>1. CASE LoseRequest(n, m) \/ Refuse(n, m) \/ AckWriteFails(n, m)
    <3>1. /\ queue' = queue /\ taken' = taken /\ store' = store /\ latest' = latest
          /\ expected' = expected /\ pc' = pc
      BY <2>1 DEF LoseRequest, Refuse, AckWriteFails, disk, main, history
    <3>2. handler'[k] \subseteq handler[k]
      <4>1. handler' = handler \/ handler' = [handler EXCEPT ![n] = handler[n] \ {m}]
        BY <2>1 DEF LoseRequest, Refuse, AckWriteFails
      <4>2. handler \in [Node -> SUBSET Message]
        BY DEF TypeOK
      <4>3. QED
        BY <4>1, <4>2
    <3>3. QED
      BY <3>1, <3>2
  <2>2. CASE Accept(n, m)
    <3>1. m \in inbox[n]
      BY <2>2 DEF Accept
    <3>2. CASE n # k
      BY <2>2, <3>2 DEF Accept, TypeOK, disk, main
    <3>3. QED
      BY <2>2, <3>1, <3>2
  <2>3. CASE WriteAck(n, m)
    <3>1. m \in handler[n]
      BY <2>3 DEF WriteAck
    <3>2. CASE n # k
      BY <2>3, <3>2 DEF WriteAck, TypeOK, disk, main, history
    <3>3. QED
      BY <2>3, <3>1, <3>2
  <2>4. QED
    BY <1>3, <2>1, <2>2, <2>3 DEF Handle
<1>4. QED
  BY <1>1, <1>2, <1>3 DEF Next

\* Whatever a handler is about to queue, nobody has seen.
LEMMA HandlerUnseen ==
    ASSUME ListenerAtEnd, NEW n \in Node, NEW m \in handler[n], WriteAck(n, m)
    PROVE  m.hash = expected[n] /\ m.prev = EndOf(n) /\ handler[n] = {m} /\ Unseen(n, m)
<1>1. pc[n] # "down"
  BY DEF WriteAck, Polling
<1>2. QED
  BY <1>1 DEF ListenerAtEnd

\* A message that the listener accepts follows the end of the queue.
LEMMA AcceptFollows ==
    ASSUME TypeOK, Origin, FollowsStored, ListenerAtEnd,
           NEW n \in Node, NEW m \in inbox[n], Accept(n, m)
    PROVE  /\ expected[n] = EndOf(n) /\ handler[n] = {}
           /\ Unseen(n, m)
<1> USE PeerAssumption
<1>1. /\ m \in Message /\ m \in composed /\ m.src = Peer[n] /\ m \notin accepted[n]
      /\ Peer[n] \in Node /\ Peer[n] # n /\ Peer[Peer[n]] = n
      /\ pc[n] # "down" /\ m.prev = expected[n]
  BY DEF TypeOK, Origin, InboxOrigin, Accept, Polling
<1>2. ASSUME NEW w \in accepted[n], w.hash = expected[n], Unseen(n, w) PROVE FALSE
  <2>1. w \in composed /\ w \in Message
    BY DEF Origin, AcceptedOrigin, TypeOK
  <2>2. m.prev \in Hashes(store[Peer[n]]) \cup {Zero}
    BY <1>1 DEF FollowsStored
  <2>3. m.prev # Zero
    BY <1>1, <1>2, <2>1, ZeroAssumption DEF Message
  <2>4. PICK k \in store[Peer[n]] : k.hash = w.hash
    BY <1>1, <1>2, <2>2, <2>3 DEF Hashes
  <2>5. k \in composed
    BY <1>1, <2>4 DEF Origin, StoreOrigin, AcceptedOrigin
  <2>6. k = w
    BY <2>1, <2>4, <2>5 DEF Origin, ComposedUnique
  <2>7. QED
    BY <1>2, <2>4, <2>6 DEF Unseen
<1>3. expected[n] = EndOf(n) /\ handler[n] = {}
  BY <1>1, <1>2 DEF ListenerAtEnd
<1>4. m \notin store[n] /\ m \notin store[Peer[n]]
  BY <1>1 DEF Origin, StoreOrigin
<1>5. ~(sending[Peer[n]] = m /\ (link[Peer[n]] = "acked" \/ pc[Peer[n]] = "insert"))
  <2>1. m # NoMsg
    BY <1>1, NoMsgAssumption
  <2>2. QED
    BY <1>1, <2>1 DEF Origin, SendingOrigin
<1>6. \A i \in 1..Len(queue[n]) : queue[n][i] # m
  BY <1>1 DEF Origin, AcceptedOrigin
<1>7. QED
  BY <1>3, <1>4, <1>5, <1>6 DEF Unseen

\* No queued message is stored or queued twice.
LEMMA QueueFreshStep ==
    ASSUME TypeOK, Origin, QueueFresh, ListenerAtEnd, Next
    PROVE  QueueFresh'
<1> SUFFICES ASSUME NEW n \in Node
             PROVE  /\ \A i \in 1..Len(queue'[n]) : queue'[n][i] \notin store'[n]
                    /\ \A i, j \in 1..Len(queue'[n]) : queue'[n][i] = queue'[n][j] => i = j
  BY DEF QueueFresh
<1> USE PeerAssumption
<1>0. Len(queue[n]) \in Nat
  BY LenProperties DEF TypeOK
<1>1. CASE queue'[n] = queue[n] /\ store'[n] = store[n]
  BY <1>1 DEF QueueFresh
<1>2. CASE Len(queue'[n]) = 0
  BY <1>2
<1>3. CASE InsertSent(n)
  <2>1. queue' = queue /\ store'[n] = store[n] \cup {sending[n]} /\ sending[n].src = n
    BY <1>3 DEF InsertSent, TypeOK, SessionShape, Origin, SendingOrigin, listener
  <2>2. \A i \in 1..Len(queue[n]) : queue[n][i].src = Peer[n]
    BY DEF Origin, AcceptedOrigin
  <2>3. QED
    BY <2>1, <2>2 DEF QueueFresh
<1>4. CASE Receive(n)
  <2>1. /\ Len(queue[n]) \in Nat \ {0} /\ Len(queue'[n]) = Len(queue[n]) - 1
        /\ store'[n] = store[n] \cup {queue[n][1]}
        /\ \A i \in 1..Len(queue'[n]) : queue'[n][i] = queue[n][i + 1]
    BY <1>4, QueueShrinks
  <2>2. \A i \in 1..Len(queue'[n]) : i + 1 \in 1..Len(queue[n]) /\ i + 1 # 1
    BY <2>1
  <2>3. 1 \in 1..Len(queue[n])
    BY <2>1
  <2>4. ASSUME NEW i \in 1..Len(queue'[n]) PROVE queue'[n][i] \notin store'[n]
    BY <2>1, <2>2, <2>3 DEF QueueFresh
  <2>5. ASSUME NEW i \in 1..Len(queue'[n]), NEW j \in 1..Len(queue'[n]),
               queue'[n][i] = queue'[n][j]
        PROVE  i = j
    <3>1. i + 1 = j + 1
      BY <2>1, <2>2, <2>5 DEF QueueFresh
    <3>2. QED
      BY <2>1, <3>1
  <2>6. QED
    BY <2>4, <2>5
<1>5. ASSUME NEW m \in handler[n], WriteAck(n, m)
      PROVE  /\ \A i \in 1..Len(queue'[n]) : queue'[n][i] \notin store'[n]
             /\ \A i, j \in 1..Len(queue'[n]) : queue'[n][i] = queue'[n][j] => i = j
  <2>1. /\ Len(queue'[n]) = Len(queue[n]) + 1
        /\ \A i \in 1..Len(queue[n]) : queue'[n][i] = queue[n][i]
        /\ queue'[n][Len(queue[n]) + 1] = m
        /\ store' = store
    BY <1>5, QueueGrows DEF WriteAck, disk
  <2>2. m \notin store[n] /\ \A i \in 1..Len(queue[n]) : queue[n][i] # m
    BY <1>5, HandlerUnseen DEF Unseen
  <2>3. \A i \in 1..Len(queue'[n]) : i \in 1..Len(queue[n]) \/ i = Len(queue[n]) + 1
    BY <1>0, <2>1
  <2>4. ASSUME NEW i \in 1..Len(queue'[n]) PROVE queue'[n][i] \notin store'[n]
    <3>1. CASE i \in 1..Len(queue[n])
      BY <2>1, <3>1 DEF QueueFresh
    <3>2. CASE i = Len(queue[n]) + 1
      BY <2>1, <2>2, <3>2
    <3>3. QED
      BY <2>3, <3>1, <3>2
  <2>5. ASSUME NEW i \in 1..Len(queue'[n]), NEW j \in 1..Len(queue'[n]),
               queue'[n][i] = queue'[n][j]
        PROVE  i = j
    <3>1. CASE i \in 1..Len(queue[n]) /\ j \in 1..Len(queue[n])
      BY <2>1, <2>5, <3>1 DEF QueueFresh
    <3>2. CASE i \in 1..Len(queue[n]) /\ j = Len(queue[n]) + 1
      BY <2>1, <2>2, <2>5, <3>2
    <3>3. CASE i = Len(queue[n]) + 1 /\ j \in 1..Len(queue[n])
      BY <2>1, <2>2, <2>5, <3>3
    <3>4. QED
      BY <2>3, <3>1, <3>2, <3>3
  <2>6. QED
    BY <2>4, <2>5
<1>6. ASSUME Exit(n) \/ \E c \in Conv : StartChat(n, c) PROVE Len(queue'[n]) = 0
  BY <1>6 DEF Exit, StartChat, TypeOK, SessionShape
<1>7. ASSUME NEW m \in inbox[n], Accept(n, m)
      PROVE  queue'[n] = queue[n] /\ store'[n] = store[n]
  BY <1>7 DEF Accept, disk
<1>8. QED
  BY <1>1, <1>2, <1>3, <1>4, <1>5, <1>6, <1>7, ChainEffects

\* The queue stays a chain that continues the last message taken.
LEMMA ReceivedInOrderStep ==
    ASSUME TypeOK, ReceivedInOrder, ListenerAtEnd, Next
    PROVE  ReceivedInOrder'
<1> SUFFICES ASSUME NEW n \in Node, NEW i \in 1..Len(queue'[n])
             PROVE  queue'[n][i].prev = IF i = 1 THEN taken'[n] ELSE queue'[n][i - 1].hash
  BY DEF ReceivedInOrder, Chained
<1>0. /\ Len(queue[n]) \in Nat
      /\ \A j \in 1..Len(queue[n]) :
            queue[n][j].prev = IF j = 1 THEN taken[n] ELSE queue[n][j - 1].hash
  BY LenProperties DEF TypeOK, ReceivedInOrder, Chained
<1>1. CASE queue'[n] = queue[n] /\ taken'[n] = taken[n]
  BY <1>0, <1>1
<1>2. CASE Exit(n) \/ \E c \in Conv : StartChat(n, c)
  <2>1. Len(queue'[n]) = 0
    BY <1>2 DEF Exit, StartChat, TypeOK, SessionShape
  <2>2. QED
    BY <2>1
<1>3. CASE Receive(n)
  <2>1. /\ Len(queue[n]) \in Nat \ {0} /\ Len(queue'[n]) = Len(queue[n]) - 1
        /\ taken'[n] = queue[n][1].hash
        /\ \A j \in 1..Len(queue'[n]) : queue'[n][j] = queue[n][j + 1]
    <3>1. taken' = [taken EXCEPT ![n] = queue[n][1].hash]
      BY <1>3, QueueShrinks
    <3>2. taken'[n] = queue[n][1].hash
      BY <3>1 DEF TypeOK
    <3>3. QED
      BY <1>3, <3>2, QueueShrinks
  <2>2. i + 1 \in 1..Len(queue[n]) /\ i + 1 # 1 /\ (i + 1) - 1 = i
    BY <2>1
  <2>3. queue'[n][i].prev = queue[n][i].hash
    <3>1. PICK j \in 1..Len(queue[n]) : j = i + 1 /\ j # 1 /\ j - 1 = i
      BY <2>2
    <3>2. queue[n][j].prev = queue[n][j - 1].hash
      BY <1>0, <3>1
    <3>3. queue'[n][i] = queue[n][j]
      BY <2>1, <3>1
    <3>4. QED
      BY <3>1, <3>2, <3>3
  <2>4. CASE i = 1
    BY <2>1, <2>3, <2>4
  <2>5. CASE i # 1
    <3>1. i - 1 \in 1..Len(queue'[n]) /\ (i - 1) + 1 = i
      BY <2>1, <2>5
    <3>2. QED
      BY <2>1, <2>3, <2>5, <3>1
  <2>6. QED
    BY <2>4, <2>5
<1>4. ASSUME NEW m \in handler[n], WriteAck(n, m)
      PROVE  queue'[n][i].prev = IF i = 1 THEN taken'[n] ELSE queue'[n][i - 1].hash
  <2>1. /\ Len(queue'[n]) = Len(queue[n]) + 1
        /\ \A j \in 1..Len(queue[n]) : queue'[n][j] = queue[n][j]
        /\ queue'[n][Len(queue[n]) + 1] = m
        /\ taken' = taken
    BY <1>4, QueueGrows DEF WriteAck, history
  <2>2. CASE i \in 1..Len(queue[n])
    <3>1. i # 1 => i - 1 \in 1..Len(queue[n])
      BY <1>0, <2>2
    <3>2. QED
      BY <1>0, <2>1, <2>2, <3>1
  <2>3. CASE i = Len(queue[n]) + 1
    <3>1. m.prev = EndOf(n)
      BY <1>4, HandlerUnseen
    <3>2. i # 1 => Len(queue[n]) \in 1..Len(queue[n]) /\ i - 1 = Len(queue[n])
      BY <1>0, <2>3
    <3>3. QED
      BY <1>0, <2>1, <2>3, <3>1, <3>2 DEF EndOf
  <2>4. QED
    BY <1>0, <2>1, <2>2, <2>3
<1>5. ASSUME InsertSent(n) \/ \E m \in inbox[n] : Accept(n, m)
      PROVE  queue'[n] = queue[n] /\ taken'[n] = taken[n]
  BY <1>5 DEF InsertSent, Accept, listener, history
<1>6. QED
  BY <1>1, <1>2, <1>3, <1>4, <1>5, ChainEffects

\* Taking a message from the channel leaves its end where it is.
LEMMA EndKept ==
    ASSUME TypeOK, NEW n \in Node,
           Receive(n) \/ (queue'[n] = queue[n] /\ taken'[n] = taken[n])
    PROVE  EndOf(n)' = EndOf(n)
<1>1. CASE queue'[n] = queue[n] /\ taken'[n] = taken[n]
  BY <1>1 DEF EndOf
<1>2. CASE Receive(n)
  <2>1. /\ Len(queue[n]) \in Nat \ {0} /\ Len(queue'[n]) = Len(queue[n]) - 1
        /\ taken'[n] = queue[n][1].hash
        /\ \A j \in 1..Len(queue'[n]) : queue'[n][j] = queue[n][j + 1]
    BY <1>2, QueueShrinks DEF TypeOK
  <2> DEFINE l == Len(queue[n])
             k == Len(queue'[n])
  <2>0. l \in Nat /\ l # 0 /\ k = l - 1
    BY <2>1
  <2> HIDE DEF l, k
  <2>a. k \in Nat /\ (k = 0 => l = 1) /\ (k # 0 => k \in 1..k /\ k + 1 = l)
    BY <2>0
  <2>2. CASE Len(queue'[n]) = 0
    <3>1. Len(queue[n]) = 1
      BY <2>2, <2>a DEF l, k
    <3>2. queue[n][Len(queue[n])] = queue[n][1]
      BY <3>1
    <3>3. EndOf(n) = queue[n][Len(queue[n])].hash
      BY <3>1 DEF EndOf
    <3>4. EndOf(n)' = taken'[n]
      BY <2>2 DEF EndOf
    <3>5. QED
      BY <2>1, <3>2, <3>3, <3>4
  <2>3. CASE Len(queue'[n]) # 0
    <3>1. Len(queue'[n]) \in 1..Len(queue'[n]) /\ Len(queue'[n]) + 1 = Len(queue[n])
      BY <2>3, <2>a DEF l, k
    <3>2. queue'[n][Len(queue'[n])] = queue[n][Len(queue[n])]
      BY <2>1, <3>1
    <3>3. EndOf(n) = queue[n][Len(queue[n])].hash
      BY <2>1 DEF EndOf
    <3>4. EndOf(n)' = queue'[n][Len(queue'[n])].hash
      BY <2>3 DEF EndOf
    <3>5. QED
      BY <3>2, <3>3, <3>4
  <2>4. QED
    BY <2>2, <2>3
<1>3. QED
  BY <1>1, <1>2

\* A listener never forgets what it accepted.
LEMMA AcceptedGrows ==
    ASSUME TypeOK, Next
    PROVE  \A k \in Node : accepted[k] \subseteq accepted'[k]
<1>1. ASSUME NEW n \in Node, NodeStep(n) PROVE \A k \in Node : accepted[k] \subseteq accepted'[k]
  BY <1>1 DEF NodeStep, StartChat, StartRefused, DeadlineFires, Stop, Crash, Send,
     ConnectRefused, SendFails, RecordAck, InsertSent, LoseConnection, Receive, Exit,
     vars, history
<1>2. ASSUME NEW n \in Node, NEW m \in inbox[n] \cup handler[n],
             LoseRequest(n, m) \/ Handle(n, m)
      PROVE  \A k \in Node : accepted[k] \subseteq accepted'[k]
  <2>1. \/ accepted' = accepted
        \/ accepted' = [accepted EXCEPT ![n] = @ \cup {m}]
    BY <1>2 DEF LoseRequest, Handle, Accept, Refuse, WriteAck, AckWriteFails, history
  <2>2. DOMAIN accepted = Node
    BY DEF TypeOK
  <2>3. QED
    BY <2>1, <2>2
<1>3. QED
  BY <1>1, <1>2 DEF Next

\* The listener stays at the end of the queue, or one message ahead of it.
LEMMA ListenerAtEndStep ==
    ASSUME TypeOK, Origin, FollowsStored, ListenerAtEnd, Next
    PROVE  ListenerAtEnd'
<1> DEFINE AtEnd(n) ==
      \/ expected[n] = EndOf(n) /\ handler[n] = {}
      \/ \E m \in accepted[n] :
            /\ m.hash = expected[n]
            /\ m.prev = EndOf(n)
            /\ handler[n] \subseteq {m}
            /\ Unseen(n, m)
<1> SUFFICES ASSUME NEW n \in Node, pc'[n] # "down" PROVE AtEnd(n)'
  BY DEF ListenerAtEnd
<1>1. ASSUME pc[n] # "down", expected'[n] = expected[n], handler'[n] \subseteq handler[n],
             EndOf(n)' = EndOf(n), \A m \in handler[n] : ~WriteAck(n, m)
      PROVE  AtEnd(n)'
  <2>1. AtEnd(n)
    BY <1>1 DEF ListenerAtEnd
  <2>2. CASE expected[n] = EndOf(n) /\ handler[n] = {}
    BY <1>1, <2>2
  <2>3. ASSUME NEW m \in accepted[n], m.hash = expected[n], m.prev = EndOf(n),
               handler[n] \subseteq {m}, Unseen(n, m)
        PROVE  AtEnd(n)'
    <3>1. ~WriteAck(n, m)
      BY <1>1 DEF WriteAck
    <3>2. Unseen(n, m)'
      BY <2>3, <3>1, UnseenPersists
    <3>3. m \in accepted'[n]
      BY AcceptedGrows
    <3>4. QED
      BY <1>1, <2>3, <3>2, <3>3
  <2>4. QED
    BY <2>1, <2>2, <2>3
<1>2. CASE /\ queue'[n] = queue[n] /\ taken'[n] = taken[n] /\ store'[n] = store[n]
           /\ expected'[n] = expected[n] /\ handler'[n] \subseteq handler[n]
           /\ pc'[n] # "down" => pc[n] # "down"
  <2>1. \A m \in handler[n] : ~WriteAck(n, m)
    <3>1. ASSUME NEW m \in handler[n], WriteAck(n, m) PROVE FALSE
      BY <1>2, <3>1, QueueGrows
    <3>2. QED
      BY <3>1
  <2>2. QED
    BY <1>1, <1>2, <2>1, EndKept
<1>3. ASSUME Exit(n) PROVE FALSE
  BY <1>3 DEF Exit, TypeOK
<1>4. ASSUME NEW c \in Conv, StartChat(n, c) PROVE AtEnd(n)'
  BY <1>4 DEF StartChat, TypeOK, SessionShape, EndOf
<1>5. CASE InsertSent(n)
  BY <1>1, <1>5, EndKept DEF InsertSent, WriteAck, Polling, listener, history
<1>6. CASE Receive(n)
  <2>1. \A m \in handler[n] : ~WriteAck(n, m)
    <3>1. ASSUME NEW m \in handler[n], WriteAck(n, m) PROVE FALSE
      BY <1>6, <3>1, QueueGrows, QueueShrinks
    <3>2. QED
      BY <3>1
  <2>2. QED
    BY <1>1, <1>6, <2>1, EndKept DEF Receive
<1>7. ASSUME NEW m \in inbox[n], Accept(n, m) PROVE AtEnd(n)'
  <2>1. expected[n] = EndOf(n) /\ handler[n] = {} /\ Unseen(n, m)
    BY <1>7, AcceptFollows
  <2>2. m.prev = EndOf(n)' /\ Unseen(n, m)'
    BY <1>7, <2>1, EndKept DEF Accept, Unseen, disk, main, wire
  <2>3. expected'[n] = m.hash /\ handler'[n] = {m} /\ m \in accepted'[n]
    BY <1>7, <2>1 DEF Accept, TypeOK
  <2>4. QED
    BY <2>2, <2>3
<1>8. ASSUME NEW m \in handler[n], WriteAck(n, m) PROVE AtEnd(n)'
  <2>1. m.hash = expected[n] /\ handler[n] = {m}
    BY <1>8, HandlerUnseen
  <2>2. expected'[n] = expected[n] /\ handler'[n] = {}
    BY <1>8, <2>1 DEF WriteAck, TypeOK
  <2>3. EndOf(n)' = m.hash
    BY <1>8, QueueGrows DEF EndOf
  <2>4. QED
    BY <2>1, <2>2, <2>3
<1>9. QED
  BY <1>2, <1>3, <1>4, <1>5, <1>6, <1>7, <1>8, ChainEffects

\* A message is stored only after its predecessor.
LEMMA NoGapsStep ==
    ASSUME TypeOK, Origin, FollowsStored, ReceivedInOrder, NoGaps, Next
    PROVE  NoGaps'
<1> SUFFICES ASSUME NEW n \in Node, NEW m \in store'[n]
             PROVE  m.prev \in Hashes(store'[n]) \cup {Zero}
  BY DEF NoGaps
<1>1. CASE m \in store[n]
  BY <1>1, HashesGrow DEF NoGaps
<1>2. CASE InsertSent(n)
  <2>1. /\ store'[n] = store[n] \cup {sending[n]}
        /\ sending[n].prev = latest[n]
    BY <1>2 DEF InsertSent, TypeOK, SessionShape, Origin, SendingOrigin
  <2>2. latest[n] \in Hashes(store[n]) \cup {Zero}
    BY DEF FollowsStored
  <2>3. QED
    BY <1>1, <2>1, <2>2, HashesGrow
<1>3. CASE Receive(n)
  <2>1. Len(queue[n]) \in Nat \ {0} /\ store'[n] = store[n] \cup {queue[n][1]}
    BY <1>3, QueueShrinks
  <2>2. queue[n][1].prev = taken[n]
    BY <2>1 DEF ReceivedInOrder, Chained
  <2>3. taken[n] \in Hashes(store[n]) \cup {Zero}
    BY DEF FollowsStored
  <2>4. QED
    BY <1>1, <2>1, <2>2, <2>3, HashesGrow
<1>4. ASSUME \/ Exit(n)
             \/ \E c \in Conv : StartChat(n, c)
             \/ \E w \in inbox[n] : Accept(n, w)
             \/ \E w \in handler[n] : WriteAck(n, w)
      PROVE  store' = store
  BY <1>4 DEF Exit, StartChat, Accept, WriteAck, disk
<1>5. QED
  BY <1>1, <1>2, <1>3, <1>4, ChainEffects

----------------------------------------------------------------------------
\* The inductive invariant holds in every reachable state.
LEMMA ChainInvCorrect == Spec => []ChainInv
<1>1. TypeOK /\ Origin /\ ChainInv /\ [Next]_vars => ChainInv'
  <2>1. TypeOK /\ Origin /\ ChainInv /\ Next => ChainInv'
    BY FollowsStoredStep, QueueFreshStep, ReceivedInOrderStep, ListenerAtEndStep, NoGapsStep
       DEF ChainInv
  <2>2. ChainInv /\ UNCHANGED vars => ChainInv'
    BY DEF ChainInv, FollowsStored, QueueFresh, ReceivedInOrder, Chained, ListenerAtEnd,
       EndOf, Unseen, NoGaps, Hashes, vars, disk, main, wire, listener, history
  <2>3. QED
    BY <2>1, <2>2
<1>2. QED
  BY InitChainInv, TypeCorrect, OriginCorrect, <1>1, PTL DEF Spec

\* What waits for the main task continues the chain from what it took last.
THEOREM ReceivedInOrderAlways == Spec => []ReceivedInOrder
<1>1. ChainInv => ReceivedInOrder
  BY DEF ChainInv
<1>2. QED
  BY ChainInvCorrect, <1>1, PTL

\* The predecessor of every stored message is stored.
THEOREM NoGapsAlways == Spec => []NoGaps
<1>1. ChainInv => NoGaps
  BY DEF ChainInv
<1>2. QED
  BY ChainInvCorrect, <1>1, PTL

----------------------------------------------------------------------------
(* Forks. *)

\* What a node keeps of its peer has been accepted, and so was composed.
LEMMA ReceivedOrigin ==
    ASSUME TypeOK, Origin, NEW n \in Node, NEW m, Received(n, m)
    PROVE  m \in composed /\ m \in accepted[n] /\ m.src = Peer[n] /\ m \in Message
<1>1. m \in accepted[n]
  BY PeerAssumption DEF Received, Origin, StoreOrigin, AcceptedOrigin
<1>2. QED
  BY <1>1 DEF Origin, AcceptedOrigin, TypeOK

\* Nothing that was composed follows a message that its own sender has not stored.
LEMMA NothingFollows ==
    ASSUME TypeOK, Origin, FollowsStored, NEW n \in Node,
           NEW m \in composed, m \notin store[n]
    PROVE  \A w \in composed : w.src = n => w.prev # m.hash
<1> SUFFICES ASSUME NEW w \in composed, w.src = n, w.prev = m.hash PROVE FALSE
  OBVIOUS
<1>1. m.hash # Zero
  BY ZeroAssumption DEF TypeOK, Message
<1>2. PICK k \in store[n] : k.hash = m.hash
  BY <1>1 DEF FollowsStored, Hashes
<1>3. k \in composed
  BY <1>2, PeerAssumption DEF Origin, StoreOrigin, AcceptedOrigin
<1>4. QED
  BY <1>2, <1>3 DEF Origin, ComposedUnique

\* A session opens at a message of its conversation that none of it follows.
LEMMA OpensAtHead ==
    ASSUME TypeOK, NEW n \in Node, NEW c \in Conv, StartChat(n, c)
    PROVE  /\ latest'[n] = expected'[n] /\ conv'[n] = c
           /\ \A m \in store[n] : m.conv = c => m.prev # latest'[n]
           /\ latest'[n] = Zero \/ \E m \in store[n] : m.conv = c /\ m.hash = latest'[n]
<1>1. /\ latest'[n] \in Heads(InConv(store[n], c)) /\ expected'[n] = latest'[n]
      /\ conv'[n] = c
  BY DEF StartChat, TypeOK
<1>2. \A m \in store[n] : m.conv = c <=> m \in InConv(store[n], c)
  BY DEF InConv
<1>3. InConv(store[n], c) \subseteq store[n]
  BY DEF InConv
<1>4. QED
  BY <1>1, <1>2, <1>3 DEF Heads, Hashes

\* Only a session that opens changes its conversation.
LEMMA ConvStep ==
    ASSUME TypeOK, Next, NEW n \in Node, \A c \in Conv : ~StartChat(n, c)
    PROVE  conv'[n] = conv[n]
<1>1. ASSUME NEW k \in Node, NodeStep(k) PROVE conv'[n] = conv[n]
  BY <1>1 DEF NodeStep, StartChat, StartRefused, DeadlineFires, Stop, Crash, Send,
     ConnectRefused, SendFails, RecordAck, InsertSent, LoseConnection, Receive, Exit,
     TypeOK, vars, main
<1>2. ASSUME NEW k \in Node, NEW m, LoseRequest(k, m) \/ Handle(k, m)
      PROVE  conv'[n] = conv[n]
  BY <1>2 DEF LoseRequest, Handle, Accept, Refuse, WriteAck, AckWriteFails, main
<1>3. QED
  BY <1>1, <1>2 DEF Next

\* What Send does with the message it composes.
LEMMA SendEffect ==
    ASSUME TypeOK, NEW n \in Node, Send(n)
    PROVE  /\ pc[n] # "down" /\ pc[Peer[n]] # "down"
           /\ \E m \in Message :
                 /\ m.src = n /\ m.conv = conv[n] /\ m.hash \notin Hashes(composed)
                 /\ composed' = composed \cup {m}
                 /\ sending'[n] = m
                 /\ inbox' = [inbox EXCEPT ![Peer[n]] = @ \cup {m}]
                 /\ \A k \in Node \ {n} : sending'[k] = sending[k]
<1>1. PICK m \in Buildable(n) :
          /\ composed' = composed \cup {m}
          /\ sending' = [sending EXCEPT ![n] = m]
          /\ inbox' = [inbox EXCEPT ![Peer[n]] = @ \cup {m}]
  BY DEF Send
<1>2. /\ m \in Message /\ m.src = n /\ m.conv = conv[n]
      /\ m.hash \notin Hashes(composed)
  BY <1>1 DEF Buildable, Message, TypeOK
<1>3. QED
  BY <1>1, <1>2 DEF Send, TypeOK

\* Only Send composes, starts to send and fills an inbox.
LEMMA SendingStep ==
    ASSUME TypeOK, Next, \A k \in Node : ~Send(k)
    PROVE  /\ composed' = composed
           /\ \A n \in Node : sending'[n] \in {sending[n], NoMsg}
           /\ \A n \in Node : inbox'[n] \subseteq inbox[n]
<1>1. ASSUME NEW k \in Node, NodeStep(k)
      PROVE  /\ composed' = composed
             /\ \A n \in Node : sending'[n] \in {sending[n], NoMsg}
             /\ \A n \in Node : inbox'[n] \subseteq inbox[n]
  BY <1>1 DEF NodeStep, StartChat, StartRefused, DeadlineFires, Stop, Crash,
     ConnectRefused, SendFails, RecordAck, InsertSent, LoseConnection, Receive, Exit,
     TypeOK, vars, main, wire, listener, history
<1>2. ASSUME NEW k \in Node, NEW m, LoseRequest(k, m) \/ Handle(k, m)
      PROVE  /\ composed' = composed /\ sending' = sending
             /\ \A n \in Node : inbox'[n] \subseteq inbox[n]
  <2>1. composed' = composed /\ sending' = sending
    BY <1>2 DEF LoseRequest, Handle, Accept, Refuse, WriteAck, AckWriteFails, wire, history
  <2>2. inbox' = inbox \/ inbox' = [inbox EXCEPT ![k] = @ \ {m}]
    BY <1>2 DEF LoseRequest, Handle, Accept, Refuse, WriteAck, AckWriteFails
  <2>3. inbox \in [Node -> SUBSET Message]
    BY DEF TypeOK
  <2>4. QED
    BY <2>1, <2>2, <2>3
<1>3. QED
  BY <1>1, <1>2 DEF Next

\* Whether a message follows its own conversation never changes: what it follows
\* was composed before it.
LEMMA FollowsOwnStays ==
    ASSUME TypeOK, Origin, FollowsStored, Next, NEW m \in composed
    PROVE  FollowsOwn(m)' <=> FollowsOwn(m)
<1> USE PeerAssumption
<1>1. CASE composed' = composed
  BY <1>1 DEF FollowsOwn
<1>2. ASSUME NEW n \in Node, Send(n)
      PROVE  FollowsOwn(m)' <=> FollowsOwn(m)
  <2>1. PICK w \in Message : /\ w.hash \notin Hashes(composed)
                             /\ composed' = composed \cup {w}
    BY <1>2, SendEffect
  <2>2. m.prev # w.hash
    <3>1. m.src \in Node /\ w.hash \in Hash
      BY <2>1 DEF TypeOK, Message
    <3>2. store[m.src] \subseteq composed
      BY <3>1 DEF Origin, StoreOrigin, AcceptedOrigin
    <3>3. m.prev \in Hashes(store[m.src]) \cup {Zero}
      BY DEF FollowsStored
    <3>4. QED
      BY <2>1, <3>1, <3>2, <3>3, ZeroAssumption DEF Hashes
  <2>3. QED
    BY <2>1, <2>2 DEF FollowsOwn, Hashes, InConv
<1>3. QED
  BY <1>1, <1>2, SendingStep

\* A node gains a message of its peer only when its listener accepts one.
LEMMA ReceivedStep ==
    ASSUME TypeOK, Origin, Next, NEW n \in Node, NEW w, Received(n, w)',
           ~Received(n, w)
    PROVE  w \in inbox[n] /\ Accept(n, w)
<1> USE PeerAssumption
<1>1. CASE queue'[n] = queue[n] /\ store'[n] = store[n] /\ handler'[n] \subseteq handler[n]
  BY <1>1 DEF Received
<1>2. CASE Exit(n) \/ \E c \in Conv : StartChat(n, c)
  <2>1. store' = store /\ handler'[n] \subseteq handler[n]
        /\ (queue'[n] = queue[n] \/ Len(queue'[n]) = 0)
    BY <1>2 DEF Exit, StartChat, disk, TypeOK
  <2>2. QED
    BY <2>1 DEF Received
<1>3. CASE InsertSent(n)
  <2>1. /\ queue' = queue /\ handler' = handler /\ sending[n].src = n
        /\ store'[n] = store[n] \cup {sending[n]}
    BY <1>3 DEF InsertSent, listener, TypeOK, SessionShape, Origin, SendingOrigin
  <2>2. QED
    BY <2>1 DEF Received
<1>4. CASE Receive(n)
  <2>1. /\ Len(queue[n]) \in Nat \ {0} /\ Len(queue'[n]) = Len(queue[n]) - 1
        /\ store'[n] = store[n] \cup {queue[n][1]}
        /\ \A i \in 1..Len(queue'[n]) : queue'[n][i] = queue[n][i + 1]
    BY <1>4, QueueShrinks
  <2>2. \A i \in 1..Len(queue'[n]) : i + 1 \in 1..Len(queue[n])
    BY <2>1
  <2>3. 1 \in 1..Len(queue[n]) /\ handler' = handler
    BY <1>4, <2>1 DEF Receive
  <2>4. queue[n][1] # w /\ w \notin handler[n] /\ (w \in store[n] => w.src # Peer[n])
    BY <2>3 DEF Received
  <2>5. PICK i \in 1..Len(queue'[n]) : queue'[n][i] = w
    BY <2>1, <2>3, <2>4 DEF Received
  <2>6. queue[n][i + 1] = w /\ i + 1 \in 1..Len(queue[n])
    BY <2>1, <2>2, <2>5
  <2>7. QED
    BY <2>6 DEF Received
<1>5. ASSUME NEW m \in inbox[n], Accept(n, m)
      PROVE  w = m
  <2>1. queue' = queue /\ store' = store /\ handler'[n] = handler[n] \cup {m}
    BY <1>5 DEF Accept, disk, TypeOK
  <2>2. QED
    BY <2>1 DEF Received
<1>6. ASSUME NEW m \in handler[n], WriteAck(n, m)
      PROVE  FALSE
  <2>1. /\ Len(queue[n]) \in Nat
        /\ Len(queue'[n]) = Len(queue[n]) + 1
        /\ \A i \in 1..Len(queue[n]) : queue'[n][i] = queue[n][i]
        /\ queue'[n][Len(queue[n]) + 1] = m
        /\ store' = store /\ handler'[n] \subseteq handler[n]
    BY <1>6, QueueGrows, LenProperties DEF WriteAck, disk, TypeOK
  <2>2. \A i \in 1..Len(queue'[n]) : i \in 1..Len(queue[n]) \/ i = Len(queue[n]) + 1
    BY <2>1
  <2>3. QED
    BY <2>1, <2>2 DEF Received
<1>7. QED
  BY <1>1, <1>2, <1>3, <1>4, <1>5, <1>6, ChainEffects

\* What a listener does to the messages it keeps when it accepts one.
LEMMA AcceptExtends ==
    ASSUME TypeOK, Origin, ChainInv, Next, NEW n \in Node, NEW m \in inbox[n], Accept(n, m)
    PROVE  /\ m \in composed /\ m.prev = expected[n] /\ pc[n] # "down"
           /\ expected'[n] = m.hash
           /\ \A w : Received(n, w)' => Received(n, w) \/ w = m
           /\ \A w : Received(n, w)' => w \in composed /\ w.prev # m.hash
<1> USE PeerAssumption
<1>1. /\ m \in composed /\ m.src = Peer[n] /\ m.prev = expected[n] /\ pc[n] # "down"
      /\ expected'[n] = m.hash
  BY DEF Origin, InboxOrigin, Accept, Polling, TypeOK
<1>2. \A w : Received(n, w)' => Received(n, w) \/ w = m
  <2>1. ASSUME NEW w, Accept(n, w) PROVE w = m \/ w \in handler[n]
    BY <2>1 DEF Accept, TypeOK
  <2>2. QED
    BY <2>1, ReceivedStep DEF Received
<1>3. m \notin store[Peer[n]]
  BY AcceptFollows DEF ChainInv, Unseen
<1>4. \A w \in composed : w.src = Peer[n] => w.prev # m.hash
  BY <1>1, <1>3, NothingFollows DEF ChainInv
<1>5. \A w : Received(n, w)' => w \in composed /\ w.prev # m.hash
  BY <1>1, <1>2, <1>4, ReceivedOrigin
<1>6. QED
  BY <1>1, <1>2, <1>5

\* Without an Accept a listener keeps nothing new, and what it expects changes
\* only when a session opens.
LEMMA NothingAccepted ==
    ASSUME TypeOK, Origin, Next, NEW n \in Node, \A m \in inbox[n] : ~Accept(n, m)
    PROVE  /\ \A m : Received(n, m)' => Received(n, m) /\ m \in composed
           /\ pc'[n] # "down" =>
                 \/ /\ pc[n] # "down" /\ expected'[n] = expected[n]
                    /\ conv'[n] = conv[n]
                 \/ \E c \in Conv : StartChat(n, c) /\ \A m : Received(n, m)' => m \in store[n]
<1>1. \A m : Received(n, m)' => Received(n, m) /\ m \in composed
  BY ReceivedStep, ReceivedOrigin
<1>2. ASSUME NEW c \in Conv, StartChat(n, c)
      PROVE  \A m : Received(n, m)' => m \in store[n]
  <2>1. store' = store /\ handler'[n] = {} /\ Len(queue'[n]) = 0
    BY <1>2 DEF StartChat, disk, TypeOK, SessionShape
  <2>2. QED
    BY <2>1 DEF Received
<1>3. ASSUME pc'[n] # "down", \A c \in Conv : ~StartChat(n, c)
      PROVE  pc[n] # "down" /\ expected'[n] = expected[n]
  <2>1. ASSUME Exit(n) PROVE FALSE
    BY <1>3, <2>1 DEF Exit, TypeOK
  <2>2. ASSUME InsertSent(n) \/ Receive(n) \/ \E m \in handler[n] : WriteAck(n, m)
        PROVE  pc[n] # "down" /\ expected'[n] = expected[n]
    BY <2>2 DEF InsertSent, Receive, WriteAck, Polling, listener
  <2>3. QED
    BY <1>3, <2>1, <2>2, ChainEffects
<1>4. QED
  BY <1>1, <1>2, <1>3, ConvStep

\* The peer's messages that follow their own conversation do not fork, and none
\* follows the hash that the listener expects next.
LEMMA PeerNeverForksStep ==
    ASSUME TypeOK, Origin, ChainInv, PeerNeverForks, Next
    PROVE  PeerNeverForks'
<1> USE PeerAssumption
<1> SUFFICES ASSUME NEW n \in Node
             PROVE  /\ \A m1, m2 \in composed' :
                          /\ Received(n, m1)' /\ Received(n, m2)'
                          /\ m1.conv = m2.conv /\ m1.prev = m2.prev /\ FollowsOwn(m1)'
                          => m1 = m2
                    /\ pc'[n] # "down" =>
                          \A m \in composed' :
                              (Received(n, m)' /\ FollowsOwn(m)') => m.prev # expected'[n]
  BY DEF PeerNeverForks
<1>1. \A m \in composed : FollowsOwn(m)' <=> FollowsOwn(m)
  BY FollowsOwnStays DEF ChainInv
<1>2. \A m1, m2 \in composed :
          (m1.conv = m2.conv /\ m1.prev = m2.prev /\ FollowsOwn(m1)) => FollowsOwn(m2)
  BY DEF FollowsOwn
<1>3. ASSUME NEW m \in inbox[n], Accept(n, m)
      PROVE  /\ \A m1, m2 :
                   /\ Received(n, m1)' /\ Received(n, m2)'
                   /\ m1.conv = m2.conv /\ m1.prev = m2.prev /\ FollowsOwn(m1)'
                   => m1 = m2
             /\ \A w : Received(n, w)' => w.prev # expected'[n]
  <2>1. /\ m \in composed /\ m.prev = expected[n] /\ pc[n] # "down"
        /\ expected'[n] = m.hash
        /\ \A w : Received(n, w)' => Received(n, w) \/ w = m
        /\ \A w : Received(n, w)' => w \in composed /\ w.prev # m.hash
    BY <1>3, AcceptExtends
  <2>2. \A w \in composed : (Received(n, w) /\ FollowsOwn(w)) => w.prev # m.prev
    BY <2>1 DEF PeerNeverForks
  <2>3. QED
    BY <1>1, <1>2, <2>1, <2>2 DEF PeerNeverForks
<1>4. ASSUME \A m \in inbox[n] : ~Accept(n, m)
      PROVE  \A m1, m2 :
                /\ Received(n, m1)' /\ Received(n, m2)'
                /\ m1.conv = m2.conv /\ m1.prev = m2.prev /\ FollowsOwn(m1)'
                => m1 = m2
  BY <1>1, <1>4, NothingAccepted DEF PeerNeverForks
<1>5. ASSUME \A m \in inbox[n] : ~Accept(n, m), pc'[n] # "down"
      PROVE  \A m : (Received(n, m)' /\ FollowsOwn(m)') => m.prev # expected'[n]
  <2>1. CASE pc[n] # "down" /\ expected'[n] = expected[n]
    BY <1>1, <1>5, <2>1, NothingAccepted DEF PeerNeverForks
  <2>2. ASSUME NEW c \in Conv, StartChat(n, c), \A m : Received(n, m)' => m \in store[n],
               NEW m, Received(n, m)', FollowsOwn(m)', m.prev = expected'[n]
        PROVE  FALSE
    <3>1. m \in store[n] /\ store[n] \subseteq composed
      BY <2>2 DEF Origin, StoreOrigin, AcceptedOrigin
    <3>2. PICK k \in composed : k.conv = m.conv /\ k.hash = m.prev
      BY <1>1, <2>2, <3>1 DEF FollowsOwn, Hashes, InConv
    <3>3. k.hash \in Hash
      BY DEF TypeOK, Message
    <3>4. expected'[n] # Zero
      BY <2>2, <3>2, <3>3, ZeroAssumption
    <3>5. PICK j \in store[n] : j.conv = c /\ j.hash = expected'[n]
      BY <2>2, <3>4, OpensAtHead
    <3>6. j = k
      BY <2>2, <3>1, <3>2, <3>5 DEF Origin, ComposedUnique
    <3>7. QED
      BY <2>2, <3>1, <3>2, <3>5, <3>6, OpensAtHead
  <2>3. QED
    BY <1>5, <2>1, <2>2, NothingAccepted
<1>6. QED
  BY <1>3, <1>4, <1>5

\* While sessions agree, the peer's messages of a conversation do not fork.
LEMMA AgreedNeverForksStep ==
    ASSUME TypeOK, Origin, ChainInv, AgreedNeverForks, SessionsAgree, Next
    PROVE  AgreedNeverForks'
<1> USE PeerAssumption
<1> SUFFICES ASSUME NEW n \in Node
             PROVE  /\ \A m \in inbox'[n] : m.conv = conv'[n]
                    /\ \A m1, m2 \in composed' :
                          /\ Received(n, m1)' /\ Received(n, m2)'
                          /\ m1.conv = m2.conv /\ m1.prev = m2.prev
                          => m1 = m2
                    /\ pc'[n] # "down" =>
                          \A m \in composed' :
                              (Received(n, m)' /\ m.conv = conv'[n]) => m.prev # expected'[n]
  BY DEF AgreedNeverForks
<1>1. \A m \in inbox'[n] : m.conv = conv'[n]
  <2>1. ASSUME NEW c \in Conv, StartChat(n, c) PROVE inbox'[n] = {}
    BY <2>1 DEF StartChat, TypeOK, SessionShape
  <2>2. ASSUME NEW k \in Node, Send(k) PROVE \A m \in inbox'[n] : m.conv = conv'[n]
    <3>1. PICK m \in Message : /\ m.conv = conv[k]
                               /\ inbox' = [inbox EXCEPT ![Peer[k]] = @ \cup {m}]
      BY <2>2, SendEffect
    <3>2. conv' = conv /\ conv[k] = conv[Peer[k]]
      BY <2>2, SendEffect DEF Send, SessionsAgree
    <3>3. QED
      BY <3>1, <3>2 DEF AgreedNeverForks, TypeOK
  <2>3. CASE /\ \A k \in Node : ~Send(k)
             /\ \A c \in Conv : ~StartChat(n, c)
    BY <2>3, SendingStep, ConvStep DEF AgreedNeverForks
  <2>4. QED
    BY <2>1, <2>2, <2>3
<1>2. ASSUME NEW m \in inbox[n], Accept(n, m)
      PROVE  /\ \A m1, m2 :
                   /\ Received(n, m1)' /\ Received(n, m2)'
                   /\ m1.conv = m2.conv /\ m1.prev = m2.prev
                   => m1 = m2
             /\ \A w : Received(n, w)' => w.prev # expected'[n]
  <2>1. /\ m \in composed /\ m.prev = expected[n] /\ pc[n] # "down"
        /\ expected'[n] = m.hash
        /\ \A w : Received(n, w)' => Received(n, w) \/ w = m
        /\ \A w : Received(n, w)' => w \in composed /\ w.prev # m.hash
    BY <1>2, AcceptExtends
  <2>2. \A w \in composed : (Received(n, w) /\ w.conv = m.conv) => w.prev # m.prev
    BY <2>1 DEF AgreedNeverForks
  <2>3. QED
    BY <2>1, <2>2 DEF AgreedNeverForks
<1>3. ASSUME \A m \in inbox[n] : ~Accept(n, m)
      PROVE  \A m1, m2 :
                /\ Received(n, m1)' /\ Received(n, m2)'
                /\ m1.conv = m2.conv /\ m1.prev = m2.prev
                => m1 = m2
  BY <1>3, NothingAccepted DEF AgreedNeverForks
<1>4. ASSUME \A m \in inbox[n] : ~Accept(n, m), pc'[n] # "down"
      PROVE  \A m : (Received(n, m)' /\ m.conv = conv'[n]) => m.prev # expected'[n]
  <2>1. CASE pc[n] # "down" /\ expected'[n] = expected[n] /\ conv'[n] = conv[n]
    BY <1>4, <2>1, NothingAccepted DEF AgreedNeverForks
  <2>2. ASSUME NEW c \in Conv, StartChat(n, c), \A m : Received(n, m)' => m \in store[n]
        PROVE  \A m : (Received(n, m)' /\ m.conv = conv'[n]) => m.prev # expected'[n]
    BY <2>2, OpensAtHead
  <2>3. QED
    BY <1>4, <2>1, <2>2, NothingAccepted
<1>5. QED
  BY <1>1, <1>2, <1>3, <1>4

\* The messages of a conversation that a node sent and stored do not fork, and
\* none follows the hash that its session sends after.
LEMMA SelfNeverForksStep ==
    ASSUME TypeOK, Origin, ChainInv, SelfNeverForks, Next
    PROVE  SelfNeverForks'
<1> USE PeerAssumption
<1> SUFFICES ASSUME NEW n \in Node
             PROVE  /\ \A m1, m2 \in store'[n] :
                          (m1.src = n /\ m2.src = n /\ m1.conv = m2.conv /\ m1.prev = m2.prev)
                              => m1 = m2
                    /\ sending'[n] # NoMsg => sending'[n].conv = conv'[n]
                    /\ pc'[n] # "down" =>
                          \A m \in store'[n] :
                              (m.src = n /\ m.conv = conv'[n]) => m.prev # latest'[n]
  BY DEF SelfNeverForks
<1>1. \A m \in store[n] : m \in composed
  BY DEF Origin, StoreOrigin, AcceptedOrigin
<1>2. sending'[n] # NoMsg => sending'[n].conv = conv'[n]
  <2>1. ASSUME NEW c \in Conv, StartChat(n, c) PROVE sending'[n] = NoMsg
    BY <2>1 DEF StartChat, wire, TypeOK, SessionShape
  <2>2. ASSUME NEW k \in Node, Send(k) PROVE sending'[n] # NoMsg => sending'[n].conv = conv'[n]
    <3>1. conv' = conv
      BY <2>2 DEF Send
    <3>2. CASE n = k
      BY <2>2, <3>1, <3>2, SendEffect
    <3>3. CASE n # k
      <4>1. sending'[n] = sending[n]
        BY <2>2, <3>3, SendEffect
      <4>2. QED
        BY <3>1, <4>1 DEF SelfNeverForks
    <3>4. QED
      BY <3>2, <3>3
  <2>3. CASE /\ \A k \in Node : ~Send(k)
             /\ \A c \in Conv : ~StartChat(n, c)
    BY <2>3, SendingStep, ConvStep DEF SelfNeverForks
  <2>4. QED
    BY <2>1, <2>2, <2>3
<1> DEFINE Stored ==
      /\ \A m1, m2 \in store'[n] :
            (m1.src = n /\ m2.src = n /\ m1.conv = m2.conv /\ m1.prev = m2.prev) => m1 = m2
      /\ pc'[n] # "down" =>
            \A m \in store'[n] : (m.src = n /\ m.conv = conv'[n]) => m.prev # latest'[n]
<1>3. ASSUME store'[n] = store[n], latest'[n] = latest[n], conv'[n] = conv[n],
             pc'[n] # "down" => pc[n] # "down"
      PROVE  Stored
  BY <1>3 DEF SelfNeverForks
<1>4. ASSUME Exit(n) PROVE Stored
  <2>1. store' = store /\ pc'[n] = "down"
    BY <1>4 DEF Exit, TypeOK, disk
  <2>2. QED
    BY <2>1 DEF SelfNeverForks
<1>5. ASSUME NEW c \in Conv, StartChat(n, c) PROVE Stored
  <2>1. store' = store
    BY <1>5 DEF StartChat, disk
  <2>2. QED
    BY <1>5, <2>1, OpensAtHead DEF SelfNeverForks
<1>6. ASSUME InsertSent(n) PROVE Stored
  <2> DEFINE w == sending[n]
  <2>1. /\ w \in composed /\ w.src = n /\ w.prev = latest[n] /\ w \notin store[n]
        /\ pc[n] # "down" /\ store'[n] = store[n] \cup {w} /\ latest'[n] = w.hash
        /\ w.conv = conv[n]
    BY <1>6 DEF InsertSent, TypeOK, SessionShape, Origin, SendingOrigin, SelfNeverForks
  <2>2. \A m \in composed : m.src = n => m.prev # w.hash
    BY <2>1, NothingFollows DEF ChainInv
  <2> HIDE DEF w
  <2>3. \A m \in store[n] : (m.src = n /\ m.conv = w.conv) => m.prev # w.prev
    BY <2>1 DEF SelfNeverForks
  <2>4. QED
    BY <1>1, <2>1, <2>2, <2>3 DEF SelfNeverForks
<1>7. ASSUME Receive(n) PROVE Stored
  <2> DEFINE w == queue[n][1]
  <2>1. Len(queue[n]) \in Nat \ {0} /\ store'[n] = store[n] \cup {w}
    BY <1>7, QueueShrinks
  <2>2. 1 \in 1..Len(queue[n])
    BY <2>1
  <2>3. w \in composed /\ w.src = Peer[n] /\ w \notin store[n]
    BY <2>2 DEF Origin, AcceptedOrigin, ChainInv, QueueFresh
  <2>4. latest'[n] = w.hash
    BY <1>7, QueueShrinks DEF Receive, TypeOK
  <2> HIDE DEF w
  <2>5. \A m \in composed : m.src = n => m.prev # w.hash
    BY <2>3, NothingFollows DEF ChainInv
  <2>6. w.src # n
    BY <2>3
  <2>7. QED
    BY <1>1, <2>1, <2>4, <2>5, <2>6 DEF SelfNeverForks
<1>8. ASSUME (\E m \in inbox[n] : Accept(n, m)) \/ (\E m \in handler[n] : WriteAck(n, m))
      PROVE  store' = store /\ latest' = latest /\ pc' = pc /\ conv' = conv
  BY <1>8 DEF Accept, WriteAck, disk, main
<1>9. Stored
  <2>1. CASE \A c \in Conv : ~StartChat(n, c)
    BY <1>3, <1>4, <1>6, <1>7, <1>8, <2>1, ChainEffects, ConvStep
  <2>2. QED
    BY <1>5, <2>1
<1>10. QED
  BY <1>2, <1>9

\* Neither side forks within a conversation, in any reachable state.
LEMMA ForkInvCorrect == Spec => []ForkInv
<1>1. Init => ForkInv
  BY DEF Init, ForkInv, PeerNeverForks, SelfNeverForks
<1>2. TypeOK /\ Origin /\ ChainInv /\ ForkInv /\ [Next]_vars => ForkInv'
  <2>1. TypeOK /\ Origin /\ ChainInv /\ ForkInv /\ Next => ForkInv'
    BY PeerNeverForksStep, SelfNeverForksStep DEF ForkInv
  <2>2. ForkInv /\ UNCHANGED vars => ForkInv'
    BY DEF ForkInv, PeerNeverForks, SelfNeverForks, Received, FollowsOwn, vars, disk, main,
       wire, listener, history
  <2>3. QED
    BY <2>1, <2>2
<1>3. QED
  BY <1>1, <1>2, TypeCorrect, OriginCorrect, ChainInvCorrect, PTL DEF Spec

\* Where a conversation is followed, no history forks by one sender, whatever
\* conversations the sessions of the two sides are of, and however often a process
\* died before its ACK was written or read and another message was sent.
THEOREM ConversationNeverForksAlways == Spec => []ConversationNeverForks
<1>1. TypeOK /\ Origin /\ ForkInv => ConversationNeverForks
  <2> SUFFICES ASSUME TypeOK, Origin, ForkInv, NEW n \in Node,
                      NEW m1 \in store[n], NEW m2 \in store[n],
                      m1.src = m2.src, m1.conv = m2.conv, m1.prev = m2.prev,
                      m1.src = n \/ m1.prev \in Hashes(InConv(store[n], m1.conv))
               PROVE  m1 = m2
    BY DEF ConversationNeverForks
  <2>1. CASE m1.src = n
    BY <2>1 DEF ForkInv, SelfNeverForks
  <2>2. CASE m1.src # n
    <3>1. m1.src = Peer[n] /\ m2.src = Peer[n]
      BY <2>2 DEF Origin, StoreOrigin
    <3>2. Received(n, m1) /\ Received(n, m2)
      BY <3>1 DEF Received
    <3>3. store[n] \subseteq composed
      BY PeerAssumption DEF Origin, StoreOrigin, AcceptedOrigin
    <3>4. FollowsOwn(m1)
      BY <2>2, <3>3 DEF FollowsOwn, Hashes, InConv
    <3>5. QED
      BY <3>2, <3>3, <3>4 DEF ForkInv, PeerNeverForks
  <2>3. QED
    BY <2>1, <2>2
<1>2. QED
  BY <1>1, TypeCorrect, OriginCorrect, ForkInvCorrect, PTL

\* While sessions that run at the same time are of the same conversation, no
\* stored conversation forks by one sender, its first messages included:
\* order_history has to settle only what crossed.
THEOREM SameSenderNeverForksAlways ==
    Spec /\ []SessionsAgree => []SameSenderNeverForks
<1>1. Init => AgreedNeverForks
  BY DEF Init, AgreedNeverForks
<1>2. /\ TypeOK /\ Origin /\ ChainInv /\ AgreedNeverForks /\ SessionsAgree /\ [Next]_vars
      => AgreedNeverForks'
  <2>1. AgreedNeverForks /\ UNCHANGED vars => AgreedNeverForks'
    BY DEF AgreedNeverForks, Received, vars, disk, main, wire, listener, history
  <2>2. QED
    BY <2>1, AgreedNeverForksStep
<1>3. TypeOK /\ Origin /\ ForkInv /\ AgreedNeverForks => SameSenderNeverForks
  <2> SUFFICES ASSUME TypeOK, Origin, ForkInv, AgreedNeverForks, NEW n \in Node,
                      NEW m1 \in store[n], NEW m2 \in store[n],
                      m1.src = m2.src, m1.conv = m2.conv, m1.prev = m2.prev
               PROVE  m1 = m2
    BY DEF SameSenderNeverForks
  <2>1. CASE m1.src = n
    BY <2>1 DEF ForkInv, SelfNeverForks
  <2>2. CASE m1.src # n
    <3>1. m1.src = Peer[n] /\ m2.src = Peer[n]
      BY <2>2 DEF Origin, StoreOrigin
    <3>2. Received(n, m1) /\ Received(n, m2)
      BY <3>1 DEF Received
    <3>3. QED
      BY <3>2, ReceivedOrigin DEF AgreedNeverForks
  <2>3. QED
    BY <2>1, <2>2
<1>4. QED
  BY <1>1, <1>2, <1>3, TypeCorrect, OriginCorrect, ChainInvCorrect, ForkInvCorrect, PTL
     DEF Spec

----------------------------------------------------------------------------
(* The chat sessions implement Delivery: Send composes, Accept accepts,     *)
(* RecordAck confirms, and every other step changes nothing that it sees.   *)

\* The state of Delivery.
AllAccepted == UNION {accepted[n] : n \in Node}
Confirmed == {m \in composed : m.hash \in acks[m.src]}

----------------------------------------------------------------------------
\* A message of a history was confirmed or accepted, so both ends agree on it.
LEMMA StoredIsAgreed ==
    ASSUME TypeOK, Origin, NEW n \in Node, NEW m \in store[n]
    PROVE  m \in Abstract!AgreedBy(n)
<1>1. Peer[n] \in Node
  BY PeerAssumption
<1>2. CASE m.src = n /\ m \in accepted[Peer[n]] /\ m.hash \in acks[n]
  <2>1. m \in composed
    BY <1>1, <1>2 DEF Origin, AcceptedOrigin
  <2> QED  BY <1>2, <2>1 DEF Abstract!AgreedBy
<1>3. CASE m.src = Peer[n] /\ m \in accepted[n]
  <2>1. m \in UNION {accepted[k] : k \in Node}
    BY <1>3
  <2> QED  BY <1>3, <2>1 DEF Abstract!AgreedBy
<1> QED  BY <1>2, <1>3 DEF Origin, StoreOrigin

\* A message goes on the wire with a hash of its own and follows one that both
\* ends agree on.
LEMMA SendComposes ==
    ASSUME TypeOK, Origin, ChainInv, NEW n \in Node, Send(n)
    PROVE  \E m \in Message : Abstract!Compose(m)
<1>1. PICK m \in Message :
          /\ m.src = n /\ m.prev = latest[n]
          /\ \A k \in composed : k.hash # m.hash
          /\ composed' = composed \cup {m}
  BY SendBuilds
<1>2. accepted' = accepted /\ acks' = acks
  BY DEF Send, disk
<1>3. m.prev = Zero \/ \E k \in Abstract!AgreedBy(m.src) : k.hash = m.prev
  <2>1. latest[n] \in Hashes(store[n]) \cup {Zero}
    BY DEF ChainInv, FollowsStored
  <2> QED  BY <1>1, <2>1, StoredIsAgreed DEF Hashes
<1>4. AllAccepted' = AllAccepted
  BY <1>2 DEF AllAccepted
<1>5. m.hash \notin acks[n]
  <2>1. \A h \in acks[n] : \E k \in composed : k.hash = h
    BY PeerAssumption DEF Origin, AckedWasAccepted, AcceptedOrigin
  <2> QED  BY <1>1, <2>1
<1>6. Confirmed' = Confirmed
  BY <1>1, <1>2, <1>5 DEF Confirmed
<1>7. Abstract!Compose(m)
  BY <1>1, <1>3, <1>4, <1>6 DEF Abstract!Compose, AllAccepted, Confirmed
<1> QED  BY <1>7

\* A listener accepts what was composed and nobody accepted before.
LEMMA AcceptAccepts ==
    ASSUME TypeOK, Origin, NEW n \in Node, NEW m \in inbox[n], Accept(n, m)
    PROVE  m \in Message /\ Abstract!Accept(m)
<1>1. m \in Message /\ m \in composed /\ m.src = Peer[n] /\ m \notin accepted[n]
  BY DEF TypeOK, Origin, InboxOrigin
<1>2. m \notin AllAccepted
  <2> SUFFICES ASSUME NEW k \in Node, m \in accepted[k] PROVE FALSE
    BY DEF AllAccepted
  <2>1. m.src = Peer[k]
    BY DEF Origin, AcceptedOrigin
  <2>2. k = n
    BY <1>1, <2>1, PeerAssumption
  <2> QED  BY <1>1, <2>2
<1>3. AllAccepted' = AllAccepted \cup {m}
  <2>1. /\ accepted'[n] = accepted[n] \cup {m}
        /\ \A k \in Node \ {n} : accepted'[k] = accepted[k]
    BY DEF Accept, TypeOK
  <2>2. ASSUME NEW x PROVE x \in AllAccepted' <=> x \in AllAccepted \cup {m}
    BY <2>1 DEF AllAccepted
  <2> QED  BY <2>2
<1>4. composed' = composed /\ Confirmed' = Confirmed
  BY DEF Accept, disk, Confirmed
<1> QED
  BY <1>1, <1>2, <1>3, <1>4 DEF Abstract!Accept, AllAccepted, Confirmed

\* A recorded ACK confirms an accepted message, or repeats what was confirmed.
LEMMA RecordAckConfirms ==
    ASSUME TypeOK, Origin, NEW n \in Node, RecordAck(n)
    PROVE  \/ \E m \in Message : Abstract!Confirm(m)
           \/ UNCHANGED <<composed, AllAccepted, Confirmed>>
<1>1. sending[n] # NoMsg /\ link[n] = "acked"
  BY DEF RecordAck, TypeOK, SessionShape
<1> PICK m \in Message : m = sending[n]
  BY <1>1 DEF TypeOK
<1>2. /\ m \in Message /\ m \in composed /\ m.src = n
      /\ m \in accepted[Peer[n]] /\ Peer[n] \in Node
  BY <1>1, PeerAssumption DEF TypeOK, Origin, SendingOrigin
<1>3. m \in AllAccepted
  BY <1>2 DEF AllAccepted
<1>4. /\ composed' = composed /\ accepted' = accepted
      /\ acks'[n] = acks[n] \cup {m.hash}
      /\ \A k \in Node \ {n} : acks'[k] = acks[k]
  BY DEF RecordAck, TypeOK, history
<1>5. AllAccepted' = AllAccepted
  BY <1>4 DEF AllAccepted
<1>6. Confirmed' = Confirmed \cup {m}
  <2>1. ASSUME NEW x \in composed
        PROVE  x.hash \in acks'[x.src] <=> x.hash \in acks[x.src] \/ x = m
    <3>1. x.src \in Node
      BY DEF TypeOK, Message
    <3>2. x.hash = m.hash => x = m
      BY <1>2 DEF Origin, ComposedUnique
    <3>3. CASE x.src = n
      BY <1>4, <3>2, <3>3
    <3>4. CASE x.src # n
      BY <1>2, <1>4, <3>1, <3>4
    <3> QED  BY <3>3, <3>4
  <2>2. ASSUME NEW x PROVE x \in Confirmed' <=> x \in Confirmed \cup {m}
    BY <1>2, <1>4, <2>1 DEF Confirmed
  <2> QED  BY <2>2
<1>7. CASE m \in Confirmed
  BY <1>4, <1>5, <1>6, <1>7
<1>8. CASE m \notin Confirmed
  <2>1. Abstract!Confirm(m)
    BY <1>2, <1>3, <1>4, <1>5, <1>6, <1>8 DEF Abstract!Confirm, AllAccepted, Confirmed
  <2> QED  BY <1>2, <2>1
<1> QED  BY <1>7, <1>8

\* Every other step is invisible to Delivery.
LEMMA OthersStutter ==
    ASSUME UNCHANGED <<composed, accepted, acks>>
    PROVE  UNCHANGED <<composed, AllAccepted, Confirmed>>
BY DEF AllAccepted, Confirmed

----------------------------------------------------------------------------
\* One step of the sessions is a step of Delivery or a stutter.
LEMMA StepImplements ==
    ASSUME TypeOK, Origin, ChainInv, [Next]_vars
    PROVE  Abstract!Next \/ UNCHANGED <<composed, AllAccepted, Confirmed>>
<1>1. ASSUME NEW n \in Node, NodeStep(n)
      PROVE  Abstract!Next \/ UNCHANGED <<composed, AllAccepted, Confirmed>>
  <2>1. CASE Send(n)
    BY <2>1, SendComposes DEF Abstract!Next, Abstract!Message, Message
  <2>2. CASE RecordAck(n)
    BY <2>2, RecordAckConfirms DEF Abstract!Next, Abstract!Message, Message
  <2>3. ASSUME Exit(n) PROVE UNCHANGED <<composed, accepted, acks>>
    BY <2>3 DEF Exit, disk
  <2>4. ASSUME ~Send(n), ~RecordAck(n) PROVE UNCHANGED <<composed, accepted, acks>>
    BY <1>1, <2>3, <2>4
    DEF NodeStep, StartChat, StartRefused, DeadlineFires, Stop, Crash, ConnectRefused,
        SendFails, InsertSent, LoseConnection, Receive, vars, disk, history
  <2> QED  BY <2>1, <2>2, <2>4, OthersStutter
<1>2. ASSUME NEW n \in Node, NEW m \in inbox[n] \cup handler[n],
             LoseRequest(n, m) \/ Handle(n, m)
      PROVE  Abstract!Next \/ UNCHANGED <<composed, AllAccepted, Confirmed>>
  <2>1. CASE Accept(n, m)
    <3>1. m \in inbox[n]
      BY <2>1 DEF Accept
    <3> QED  BY <2>1, <3>1, AcceptAccepts DEF Abstract!Next, Abstract!Message, Message
  <2>2. CASE ~Accept(n, m)
    <3>1. UNCHANGED <<composed, accepted, acks>>
      BY <1>2, <2>2 DEF LoseRequest, Handle, Refuse, WriteAck, AckWriteFails, disk, history
    <3> QED  BY <3>1, OthersStutter
  <2> QED  BY <2>1, <2>2
<1>3. CASE UNCHANGED vars
  <2>1. UNCHANGED <<composed, accepted, acks>>
    BY <1>3 DEF vars, disk, history
  <2> QED  BY <2>1, OthersStutter
<1> QED  BY <1>1, <1>2, <1>3 DEF Next

\* What Delivery promises of the acknowledged transport holds of the sessions,
\* whatever breaks.
THEOREM SessionsImplementDelivery == Spec => ImplementsDelivery
<1>1. Init => Abstract!Init
  BY DEF Init, Abstract!Init
<1>2. TypeOK /\ Origin /\ ChainInv /\ [Next]_vars =>
        [Abstract!Next]_<<composed, UNION {accepted[n] : n \in Node},
                          {m \in composed : m.hash \in acks[m.src]}>>
  BY StepImplements DEF AllAccepted, Confirmed
<1> QED
  BY <1>1, <1>2, TypeCorrect, OriginCorrect, ChainInvCorrect, PTL
  DEF Spec, ImplementsDelivery, Abstract!Spec
============================================================================
