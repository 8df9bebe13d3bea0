---------------------------- MODULE OneShotProofs ----------------------------
(* The tables of the one-shot commands and who holds which message, for any *)
(* number of processes, peers, conversations and messages, and any clocks.  *)
EXTENDS OneShotInvariant, SequenceTheorems, FiniteSetTheorems, TLAPS

\* The initial state is well-formed.
LEMMA InitTypeOK == Init => TypeOK
BY NoneAssumption DEF Init, TypeOK, CommandShape, Inserting

\* The end of a process keeps the shape of it and of all others.
LEMMA ExitShape ==
    ASSUME TypeOK, NEW p \in Process, NEW how \in {"done", "timed out", "failed"},
           how = "done" => current[p] \in Message,
           Exit(p, how), UNCHANGED <<current, at, to, source>>
    PROVE  /\ pc' \in [Process -> {"ready", "listening", "sending", "lookup",
                                   "conversation", "touch", "row", "done", "timed out", "failed"}]
           /\ link' \in [Process -> {"idle", "open", "acked", "closed"}]
           /\ inbox' \in [Process -> SUBSET Message]
           /\ handler' \in [Process -> SUBSET Message]
           /\ channel' \in [Process -> Seq(Message)]
           /\ \A q \in Process : CommandShape(q)'
<1>1. /\ pc' = [pc EXCEPT ![p] = how]
      /\ link' = ClosedBy(p)
      /\ inbox' = [inbox EXCEPT ![p] = {}]
      /\ handler' = [handler EXCEPT ![p] = {}]
      /\ channel' = [channel EXCEPT ![p] = <<>>]
  BY DEF Exit
<1>2. link' \in [Process -> {"idle", "open", "acked", "closed"}]
  BY <1>1 DEF ClosedBy, TypeOK
<1>3. channel' \in [Process -> Seq(Message)]
  <2>1. <<>> \in Seq(Message)
    BY EmptySeq
  <2>2. channel \in [Process -> Seq(Message)]
    BY DEF TypeOK
  <2> QED  BY <1>1, <2>1, <2>2
<1>4. ASSUME NEW q \in Process PROVE CommandShape(q)'
  <2>1. CASE q = p
    BY <1>1, <2>1 DEF CommandShape, Inserting, ClosedBy, TypeOK
  <2>2. CASE q # p
    <3>1. /\ pc'[q] = pc[q] /\ inbox'[q] = inbox[q] /\ handler'[q] = handler[q]
          /\ channel'[q] = channel[q]
          /\ link'[q] # "idle" <=> link[q] # "idle"
      BY <1>1, <2>2 DEF ClosedBy, TypeOK
    <3> QED  BY <3>1 DEF CommandShape, Inserting, TypeOK
  <2> QED  BY <2>1, <2>2
<1> QED  BY <1>1, <1>2, <1>3, <1>4 DEF TypeOK

\* The hashes a user can give are hashes of messages, or zero.
LEMMA GivenType ==
    ASSUME TypeOK, NEW n \in Node
    PROVE  Given(n) \subseteq Hash \cup {Zero}
<1>1. ASSUME NEW r \in messages[n] PROVE r.msg.hash \in Hash
  <2>1. messages[n] \in SUBSET [msg : Message, at : Time]
    BY DEF TypeOK
  <2>2. r.msg \in Message
    BY <2>1
  <2> QED  BY <2>2 DEF Message
<1>2. \A k \in Process : pc[k] = "done" => current[k].hash \in Hash
  BY DEF TypeOK, CommandShape, Message
<1> QED  BY <1>1, <1>2 DEF Given, Hashes

\* The message that a send writes.
LEMMA SendBuilds ==
    ASSUME TypeOK, NEW p \in Process, NEW q \in Process, Send(p, q)
    PROVE  \E m \in Message :
              /\ \A k \in composed : k.hash # m.hash
              /\ m.src = Owner[p] /\ m.prev \in Given(Owner[p])
              /\ composed' = composed \cup {m}
              /\ current' = [current EXCEPT ![p] = m]
              /\ inbox' = [inbox EXCEPT ![q] = @ \cup {m}]
<1>1. PICK m \in Buildable(Owner[p]) :
        /\ composed' = composed \cup {m}
        /\ current' = [current EXCEPT ![p] = m]
        /\ inbox' = [inbox EXCEPT ![q] = @ \cup {m}]
  BY DEF Send
<1>2. m.prev \in Hash \cup {Zero}
  BY <1>1, GivenType, OwnerAssumption DEF Buildable
<1>3. m \in Message
  BY <1>1, <1>2, OwnerAssumption, PeerAssumption DEF Buildable, Message
<1>4. /\ \A k \in composed : k.hash # m.hash
      /\ m.src = Owner[p] /\ m.prev \in Given(Owner[p])
  BY <1>1 DEF Buildable, Hashes
<1> QED  BY <1>1, <1>3, <1>4

\* The steps of a handler keep the types.
LEMMA HandleTypeOK ==
    ASSUME TypeOK, NEW p \in Process, NEW m \in inbox[p] \cup handler[p],
           LoseRequest(p, m) \/ Handle(p, m)
    PROVE  TypeOK'
<1> USE DEF tables, main
<1>1. m \in Message /\ m.hash \in Hash
  <2>1. m \in Message
    BY DEF TypeOK
  <2> QED  BY <2>1 DEF Message
<1>2. ASSUME NEW state \in {"acked", "closed"}, link' = LinkOf(m, state)
      PROVE  /\ link' \in [Process -> {"idle", "open", "acked", "closed"}]
             /\ \A q \in Process : link'[q] # "idle" <=> link[q] # "idle"
  BY <1>2 DEF TypeOK, LinkOf, Waiting
<1>3. ASSUME NEW q \in Process, link'[q] # "idle" <=> link[q] # "idle",
             UNCHANGED main, pc[p] = "listening",
             q # p => /\ inbox'[q] = inbox[q] /\ handler'[q] = handler[q]
                      /\ channel'[q] = channel[q]
      PROVE  CommandShape(q)'
  BY <1>3 DEF TypeOK, CommandShape, Inserting
<1>4. CASE LoseRequest(p, m)
  <2>1. /\ link' \in [Process -> {"idle", "open", "acked", "closed"}]
        /\ \A q \in Process : link'[q] # "idle" <=> link[q] # "idle"
    BY <1>2, <1>4 DEF LoseRequest
  <2>2. inbox' \in [Process -> SUBSET Message] /\ \A q \in Process : inbox'[q] \subseteq inbox[q]
    BY <1>4 DEF LoseRequest, TypeOK
  <2>3. ASSUME NEW q \in Process PROVE CommandShape(q)'
    <3>1. CommandShape(q) /\ inbox'[q] \subseteq inbox[q]
      BY <2>2 DEF TypeOK
    <3>2. UNCHANGED <<main, handler, channel>>
      BY <1>4 DEF LoseRequest
    <3> QED  BY <2>1, <3>1, <3>2 DEF CommandShape, Inserting
  <2> QED  BY <1>4, <2>1, <2>2, <2>3 DEF LoseRequest, TypeOK
<1>5. CASE Refuse(p, m)
  <2>1. /\ link' \in [Process -> {"idle", "open", "acked", "closed"}]
        /\ \A q \in Process : link'[q] # "idle" <=> link[q] # "idle"
    BY <1>2, <1>5 DEF Refuse
  <2>2. ASSUME NEW q \in Process PROVE CommandShape(q)'
    BY <1>3, <1>5, <2>1 DEF Refuse, TypeOK
  <2> QED  BY <1>5, <2>1, <2>2 DEF Refuse, TypeOK
<1>6. CASE Accept(p, m)
  <2>1. ASSUME NEW q \in Process PROVE CommandShape(q)'
    BY <1>3, <1>6 DEF Accept, TypeOK
  <2> QED  BY <1>1, <1>6, <2>1 DEF Accept, TypeOK
<1>7. CASE WriteAck(p, m)
  <2>1. /\ link' \in [Process -> {"idle", "open", "acked", "closed"}]
        /\ \A q \in Process : link'[q] # "idle" <=> link[q] # "idle"
    BY <1>2, <1>7 DEF WriteAck
  <2>2. ASSUME NEW q \in Process PROVE CommandShape(q)'
    BY <1>3, <1>7, <2>1 DEF WriteAck, TypeOK
  <2>3. channel' \in [Process -> Seq(Message)]
    <3>1. channel[p] \in Seq(Message)
      BY DEF TypeOK
    <3>2. Append(channel[p], m) \in Seq(Message)
      BY <1>1, <3>1, AppendProperties
    <3> QED  BY <1>7, <3>2 DEF WriteAck, TypeOK
  <2> QED  BY <1>7, <2>1, <2>2, <2>3 DEF WriteAck, TypeOK
<1>8. CASE AckWriteFails(p, m)
  <2>1. ASSUME NEW q \in Process PROVE CommandShape(q)'
    BY <1>3, <1>8 DEF AckWriteFails, TypeOK
  <2> QED  BY <1>8, <2>1 DEF AckWriteFails, TypeOK
<1> QED  BY <1>4, <1>5, <1>6, <1>7, <1>8 DEF Handle

\* An insert or an update of one conversation keeps the type of its table.
LEMMA ConversationType ==
    ASSUME conversations \in [Node -> [Conv -> Time \cup {NoRow}]],
           NEW n, NEW c, NEW t \in Time
    PROVE  /\ [conversations EXCEPT ![n][c] = t] \in [Node -> [Conv -> Time \cup {NoRow}]]
           /\ [conversations EXCEPT ![n][c] = IF @ = NoRow THEN t ELSE @]
                \in [Node -> [Conv -> Time \cup {NoRow}]]
           /\ [conversations EXCEPT ![n][c] = IF @ < t THEN t ELSE @]
                \in [Node -> [Conv -> Time \cup {NoRow}]]
  OBVIOUS

\* The steps of the main task and of the process keep the types.
LEMMA CommandTypeOK ==
    ASSUME TypeOK, NEW p \in Process,
           \/ \E q \in Process : Send(p, q)
           \/ SendRefused(p) \/ Listen(p) \/ Main(p) \/ LoseConnection(p) \/ Quit(p)
    PROVE  TypeOK'
<1> USE DEF tables, listener
<1> Owner[p] \in Node
  BY OwnerAssumption
<1>1. ASSUME NEW q \in Process, Send(p, q) PROVE TypeOK'
  <2>1. PICK m \in Message :
          /\ composed' = composed \cup {m}
          /\ current' = [current EXCEPT ![p] = m]
          /\ inbox' = [inbox EXCEPT ![q] = @ \cup {m}]
    BY <1>1, SendBuilds
  <2>2. ASSUME NEW k \in Process PROVE CommandShape(k)'
    <3>1. CASE k = p
      <4>1. k # q
        BY <1>1, <3>1 DEF Send, Bound, Inserting
      <4>2. /\ pc'[p] = "sending" /\ link'[p] = "open" /\ to'[p] = q
            /\ current'[p] = m
        BY <1>1, <2>1 DEF Send, TypeOK
      <4>3. inbox'[p] = inbox[p] /\ handler'[p] = handler[p] /\ channel'[p] = channel[p]
        <5>1. p # q
          BY <3>1, <4>1
        <5>2. inbox'[p] = inbox[p]
          BY <2>1, <5>1 DEF TypeOK
        <5> QED  BY <1>1, <5>2 DEF Send
      <4>4. inbox[p] = {} /\ handler[p] = {} /\ channel[p] = <<>>
        BY <1>1 DEF Send, TypeOK, CommandShape, Inserting
      <4> QED  BY <2>1, <3>1, <4>2, <4>3, <4>4 DEF CommandShape, Inserting
    <3>2. CASE k # p /\ k = q
      <4>1. /\ pc'[k] = pc[k] /\ link'[k] = link[k] /\ to'[k] = to[k]
            /\ current'[k] = current[k] /\ source'[k] = source[k] /\ at'[k] = at[k]
            /\ pc[k] = "listening" \/ Inserting(k)
        BY <1>1, <2>1, <3>2 DEF Send, Bound, TypeOK
      <4> QED  BY <4>1 DEF TypeOK, CommandShape, Inserting
    <3>3. CASE k # p /\ k # q
      BY <1>1, <2>1, <3>3 DEF Send, TypeOK, CommandShape, Inserting
    <3> QED  BY <3>1, <3>2, <3>3
  <2>3. UNCHANGED <<tables, at, source, expected, handler, channel, accepted>>
    BY <1>1 DEF Send
  <2>4. /\ pc' = [pc EXCEPT ![p] = "sending"]
        /\ to' = [to EXCEPT ![p] = q]
        /\ link' = [link EXCEPT ![p] = "open"]
    BY <1>1 DEF Send
  <2> QED  BY <2>1, <2>2, <2>3, <2>4 DEF TypeOK
<1>2. CASE SendRefused(p)
  BY <1>2 DEF SendRefused, TypeOK, CommandShape, Inserting
<1>3. CASE Listen(p)
  <2>1. expected' \in [Process -> Hash \cup {Zero}]
    BY <1>3, GivenType DEF Listen, TypeOK
  <2>2. PICK n \in Peer[Owner[p]] : source' = [source EXCEPT ![p] = n]
    BY <1>3 DEF Listen
  <2>3. source' \in [Process -> Node \cup {Nobody}] /\ source'[p] \in Node
    BY <2>2, PeerAssumption DEF TypeOK
  <2>4. ASSUME NEW k \in Process PROVE CommandShape(k)'
    <3>1. CASE k = p
      <4>1. pc'[k] = "listening" /\ link'[k] = link[k] /\ link[k] = "idle"
        <5>1. pc[k] = "ready" /\ pc'[k] = "listening" /\ link' = link
          BY <1>3, <3>1 DEF Listen, TypeOK
        <5>2. CommandShape(k)
          BY DEF TypeOK
        <5> QED  BY <5>1, <5>2 DEF CommandShape
      <4> QED  BY <2>3, <3>1, <4>1 DEF CommandShape, Inserting
    <3>2. CASE k # p
      <4>1. pc'[k] = pc[k] /\ source'[k] = source[k]
        BY <1>3, <2>2, <3>2 DEF Listen, TypeOK
      <4>2. CommandShape(k)
        BY DEF TypeOK
      <4>3. UNCHANGED <<current, at, to, link, inbox, handler, channel>>
        BY <1>3 DEF Listen
      <4> QED  BY <4>1, <4>2, <4>3 DEF CommandShape, Inserting
    <3> QED  BY <3>1, <3>2
  <2> QED  BY <1>3, <2>1, <2>3, <2>4 DEF Listen, TypeOK
<1>4. CASE RecordAck(p)
  <2>1. current[p].hash \in Hash
    BY <1>4 DEF RecordAck, AckedByPeer, TypeOK, CommandShape, Message
  <2>2. acks' \in [Node -> SUBSET Hash]
    BY <1>4, <2>1 DEF RecordAck, TypeOK
  <2>3. ASSUME NEW k \in Process PROVE CommandShape(k)'
    BY <1>4 DEF RecordAck, TypeOK, CommandShape, Inserting
  <2> QED  BY <1>4, <2>2, <2>3 DEF RecordAck, TypeOK
<1>5. CASE SendFails(p) \/ TimeOut(p) \/ Quit(p)
  <2>1. /\ Exit(p, "failed") \/ Exit(p, "timed out")
        /\ UNCHANGED <<messages, acks, conversations, current, at, to, source, expected,
                       composed, accepted>>
    BY <1>5 DEF SendFails, TimeOut, Quit
  <2>2. /\ pc' \in [Process -> {"ready", "listening", "sending", "lookup",
                                "conversation", "touch", "row", "done", "timed out", "failed"}]
        /\ link' \in [Process -> {"idle", "open", "acked", "closed"}]
        /\ inbox' \in [Process -> SUBSET Message]
        /\ handler' \in [Process -> SUBSET Message]
        /\ channel' \in [Process -> Seq(Message)]
        /\ \A q \in Process : CommandShape(q)'
    BY <2>1, ExitShape
  <2> QED  BY <2>1, <2>2 DEF TypeOK
<1>6. CASE Take(p)
  <2>1. /\ Head(channel[p]) \in Message
        /\ Tail(channel[p]) \in Seq(Message)
    <3>1. channel[p] \in Seq(Message) /\ channel[p] # <<>>
      BY <1>6 DEF Take, TypeOK
    <3> QED  BY <3>1, HeadTailProperties
  <2>2. channel' \in [Process -> Seq(Message)]
    BY <1>6, <2>1 DEF Take, TypeOK
  <2>3. ASSUME NEW k \in Process PROVE CommandShape(k)'
    BY <1>6, <2>1 DEF Take, TypeOK, CommandShape, Inserting
  <2> QED  BY <1>6, <2>1, <2>2, <2>3 DEF Take, TypeOK
<1>7. CASE AddConversation(p)
  <2>1. PICK t \in Time :
          /\ at' = [at EXCEPT ![p] = t]
          /\ conversations' = [conversations EXCEPT ![Owner[p]][current[p].conv] =
                                  IF @ = NoRow THEN t ELSE @]
    BY <1>7 DEF AddConversation, InsertOrIgnore
  <2>2. conversations' \in [Node -> [Conv -> Time \cup {NoRow}]]
    BY <2>1, ConversationType DEF TypeOK
  <2>3. ASSUME NEW k \in Process PROVE CommandShape(k)'
    BY <1>7, <2>1 DEF AddConversation, TypeOK, CommandShape, Inserting
  <2>4. at' \in [Process -> Time \cup {0}]
    BY <2>1 DEF TypeOK
  <2>5. pc' = [pc EXCEPT ![p] = "touch"]
        /\ UNCHANGED <<messages, acks, current, to, source, link, listener, composed>>
    BY <1>7 DEF AddConversation
  <2> QED  BY <2>2, <2>3, <2>4, <2>5 DEF TypeOK
<1>8. CASE Touch(p)
  <2>1. at[p] \in Time
    BY <1>8 DEF Touch, TypeOK, CommandShape
  <2>2. conversations' \in [Node -> [Conv -> Time \cup {NoRow}]]
    BY <1>8, <2>1, ConversationType DEF Touch, TypeOK
  <2>3. ASSUME NEW k \in Process PROVE CommandShape(k)'
    BY <1>8 DEF Touch, TypeOK, CommandShape, Inserting
  <2> QED  BY <1>8, <2>2, <2>3 DEF Touch, TypeOK
<1>9. CASE AddRow(p)
  <2>1. at[p] \in Time /\ current[p] \in Message
    BY <1>9 DEF AddRow, TypeOK, CommandShape, Inserting
  <2>2. [msg |-> current[p], at |-> at[p]] \in [msg : Message, at : Time]
    BY <2>1
  <2>3. messages' \in [Node -> SUBSET [msg : Message, at : Time]]
    BY <1>9, <2>2 DEF AddRow, TypeOK
  <2> QED  BY <1>9, <2>1, <2>3, ExitShape DEF AddRow, TypeOK
<1>10. CASE AlreadyStored(p)
  <2>1. current[p] \in Message
    BY <1>10 DEF AlreadyStored, TypeOK, CommandShape, Inserting
  <2> QED  BY <1>10, <2>1, ExitShape DEF AlreadyStored, TypeOK
<1>11. CASE NotStored(p)
  <2>1. ASSUME NEW k \in Process PROVE CommandShape(k)'
    BY <1>11 DEF NotStored, TypeOK, CommandShape, Inserting
  <2> QED  BY <1>11, <2>1 DEF NotStored, TypeOK
<1>12. CASE LoseConnection(p)
  BY <1>12 DEF LoseConnection, main, TypeOK, CommandShape, Inserting
<1> QED
  BY <1>1, <1>2, <1>3, <1>4, <1>5, <1>6, <1>7, <1>8, <1>9, <1>10, <1>11, <1>12 DEF Main

\* So does a chat that opens.
LEMMA EnsureTypeOK ==
    ASSUME TypeOK, NEW n \in Node, NEW c \in Conv, EnsureConversation(n, c)
    PROVE  TypeOK'
<1>1. PICK t \in Time :
        conversations' = [conversations EXCEPT ![n][c] = IF @ = NoRow THEN t ELSE @]
  BY DEF EnsureConversation, InsertOrIgnore
<1>2. conversations' \in [Node -> [Conv -> Time \cup {NoRow}]]
  BY <1>1, ConversationType DEF TypeOK
<1>3. ASSUME NEW k \in Process PROVE CommandShape(k)'
  BY DEF EnsureConversation, TypeOK, CommandShape, Inserting, main, listener
<1> QED  BY <1>2, <1>3 DEF EnsureConversation, TypeOK, main, listener

\* Rows and commands are well-formed, a connection lasts exactly as long as its
\* send waits, and a command that ended holds nothing that a peer waits for.
THEOREM TypeCorrect == Spec => []TypeOK
<1>1. TypeOK /\ [Next]_vars => TypeOK'
  <2>1. TypeOK /\ Next => TypeOK'
    BY CommandTypeOK, HandleTypeOK, EnsureTypeOK DEF Next, Command
  <2>2. TypeOK /\ UNCHANGED vars => TypeOK'
    BY DEF TypeOK, CommandShape, Inserting, vars, tables, main, listener
  <2> QED  BY <2>1, <2>2
<1> QED  BY InitTypeOK, <1>1, PTL DEF Spec

----------------------------------------------------------------------------
(* The conversation of a stored message. *)

\* No step removes a conversation or makes it older.
LEMMA RowsRise ==
    ASSUME TypeOK, [Next]_vars, NEW n \in Node, NEW c \in Conv,
           conversations[n][c] # NoRow
    PROVE  conversations'[n][c] # NoRow /\ conversations'[n][c] >= conversations[n][c]
<1> DEFINE cs == conversations
<1>1. cs \in [Node -> [Conv -> Time \cup {NoRow}]] /\ cs[n][c] \in Time /\ cs[n][c] \in Nat
  <2>1. cs \in [Node -> [Conv -> Time \cup {NoRow}]]
    BY DEF TypeOK
  <2>2. cs[n] \in [Conv -> Time \cup {NoRow}]
    BY <2>1
  <2> QED  BY <2>1, <2>2, TimeAssumption
<1>2. ASSUME NEW k, NEW d, NEW t \in Time, cs' = InsertOrIgnore(k, d, t)
      PROVE  cs'[n][c] = cs[n][c]
  <2>1. cs' = [cs EXCEPT ![k][d] = IF @ = NoRow THEN t ELSE @]
    BY <1>2 DEF InsertOrIgnore
  <2>2. CASE k = n /\ d = c
    BY <1>1, <2>1, <2>2
  <2>3. CASE k # n \/ d # c
    BY <1>1, <2>1, <2>3
  <2> QED  BY <2>2, <2>3
<1>3. ASSUME NEW p \in Process, Touch(p)
      PROVE  cs'[n][c] \in Time /\ cs'[n][c] >= cs[n][c]
  <2>1. at[p] \in Time /\ at[p] \in Nat
    BY <1>3, TimeAssumption DEF Touch, TypeOK, CommandShape
  <2>2. cs' = [cs EXCEPT ![Owner[p]][current[p].conv] = IF @ < at[p] THEN at[p] ELSE @]
    BY <1>3 DEF Touch
  <2>3. CASE Owner[p] = n /\ current[p].conv = c
    BY <1>1, <2>1, <2>2, <2>3
  <2>4. CASE Owner[p] # n \/ current[p].conv # c
    BY <1>1, <2>2, <2>4
  <2> QED  BY <2>3, <2>4
<1>4. CASE UNCHANGED conversations
  BY <1>1, <1>4
<1>5. ASSUME NEW p \in Process, Command(p)
      PROVE  UNCHANGED conversations \/ AddConversation(p) \/ Touch(p)
  BY <1>5 DEF Command, Main, Send, SendRefused, Listen, RecordAck, SendFails, Take, TimeOut,
     AlreadyStored, NotStored, AddRow, LoseConnection, Quit, LoseRequest, Handle, Accept, Refuse, WriteAck,
     AckWriteFails, tables
<1>6. CASE \E p \in Process : Command(p)
  <2>1. PICK p \in Process : Command(p)
    BY <1>6
  <2>2. CASE AddConversation(p)
    <3>1. PICK t \in Time : cs' = InsertOrIgnore(Owner[p], current[p].conv, t)
      BY <2>2 DEF AddConversation
    <3> QED  BY <1>1, <1>2, <3>1, NoneAssumption
  <2>3. CASE Touch(p)
    BY <1>1, <1>3, <2>3, NoneAssumption
  <2> QED  BY <1>4, <1>5, <2>1, <2>2, <2>3
<1>7. CASE \E k \in Node, d \in Conv : EnsureConversation(k, d)
  <2>1. PICK k \in Node, d \in Conv, t \in Time : cs' = InsertOrIgnore(k, d, t)
    BY <1>7 DEF EnsureConversation
  <2> QED  BY <1>1, <1>2, <2>1, NoneAssumption
<1>8. CASE UNCHANGED vars
  BY <1>4, <1>8 DEF vars, tables
<1> QED  BY <1>6, <1>7, <1>8 DEF Next

\* An insert finds, makes and keeps its conversation, whatever others do to it.
LEMMA StepCovers ==
    ASSUME TypeOK, TypeOK', CoverInv, [Next]_vars
    PROVE  CoverInv'
<1>1. ASSUME NEW n \in Node, NEW c \in Conv, NEW t \in Time, Covers(n, c, t)
      PROVE  Covers(n, c, t)'
  <2>1. conversations[n][c] # NoRow /\ conversations[n][c] >= t
    BY <1>1 DEF Covers
  <2>2. conversations'[n][c] # NoRow /\ conversations'[n][c] >= conversations[n][c]
    BY <2>1, RowsRise
  <2>3. conversations[n][c] \in Nat /\ conversations'[n][c] \in Nat /\ t \in Nat
    <3>1. /\ conversations[n] \in [Conv -> Time \cup {NoRow}]
          /\ conversations'[n] \in [Conv -> Time \cup {NoRow}]
      BY DEF TypeOK
    <3> QED  BY <2>1, <2>2, <3>1, TimeAssumption
  <2> QED  BY <2>1, <2>2, <2>3 DEF Covers
<1>2. ASSUME NEW p \in Process, pc'[p] \in {"touch", "row"}
      PROVE  \/ pc[p] = pc'[p] /\ current'[p] = current[p] /\ at'[p] = at[p]
             \/ AddConversation(p)
             \/ Touch(p)
  <2> DEFINE Kept == pc[p] = pc'[p] /\ current'[p] = current[p] /\ at'[p] = at[p]
  <2>1. ASSUME NEW k \in Process, NEW q \in Process, Send(k, q)
        PROVE  Kept
    BY <1>2, <2>1 DEF Send, TypeOK
  <2>2. ASSUME NEW k \in Process,
               \/ SendRefused(k) \/ Listen(k) \/ RecordAck(k) \/ Take(k)
               \/ NotStored(k) \/ LoseConnection(k)
        PROVE  Kept
    BY <1>2, <2>2 DEF SendRefused, Listen, RecordAck, Take, NotStored, LoseConnection,
       TypeOK, main
  <2>3. ASSUME NEW k \in Process,
               SendFails(k) \/ TimeOut(k) \/ AlreadyStored(k) \/ AddRow(k) \/ Quit(k)
        PROVE  Kept
    BY <1>2, <2>3 DEF SendFails, TimeOut, AlreadyStored, AddRow, Quit, Exit, TypeOK
  <2>4. ASSUME NEW k \in Process, NEW m, LoseRequest(k, m) \/ Handle(k, m)
        PROVE  Kept
    BY <2>4 DEF LoseRequest, Handle, Accept, Refuse, WriteAck, AckWriteFails, main
  <2>5. ASSUME NEW k \in Process, k # p, AddConversation(k) \/ Touch(k)
        PROVE  Kept
    BY <2>5 DEF AddConversation, Touch, TypeOK
  <2>6. UNCHANGED vars \/ (\E n \in Node, c \in Conv : EnsureConversation(n, c)) => Kept
    BY DEF vars, main, EnsureConversation
  <2> QED  BY <2>1, <2>2, <2>3, <2>4, <2>5, <2>6 DEF Next, Command, Main
<1>3. ASSUME NEW p \in Process, pc'[p] = "touch"
      PROVE  conversations'[Owner[p]][current'[p].conv] # NoRow
  <2>1. current'[p] \in Message /\ current'[p].conv \in Conv /\ Owner[p] \in Node
    BY <1>3, OwnerAssumption DEF TypeOK, CommandShape, Inserting, Message
  <2>2. CASE pc[p] = "touch" /\ current'[p] = current[p]
    BY <2>1, <2>2, RowsRise DEF CoverInv, InsertCovers
  <2>3. CASE AddConversation(p)
    <3>1. PICK t \in Time :
            conversations' = [conversations EXCEPT ![Owner[p]][current[p].conv] =
                                IF @ = NoRow THEN t ELSE @]
      BY <2>3 DEF AddConversation, InsertOrIgnore
    <3>2. current'[p] = current[p]
      BY <2>3 DEF AddConversation
    <3>3. conversations \in [Node -> [Conv -> Time \cup {NoRow}]] /\ t # NoRow
      BY NoneAssumption DEF TypeOK
    <3> QED  BY <2>1, <3>1, <3>2, <3>3
  <2> QED  BY <1>2, <1>3, <2>2, <2>3 DEF Touch, TypeOK
<1>4. ASSUME NEW p \in Process, pc'[p] = "row"
      PROVE  Covers(Owner[p], current[p].conv, at[p])' /\ at'[p] \in Time
  <2>1. /\ current'[p] \in Message /\ current'[p].conv \in Conv
        /\ Owner[p] \in Node /\ at'[p] \in Time
    BY <1>4, OwnerAssumption DEF TypeOK, CommandShape, Inserting, Message
  <2>2. CASE pc[p] = "row" /\ current'[p] = current[p] /\ at'[p] = at[p]
    BY <1>1, <2>1, <2>2 DEF CoverInv, InsertCovers, Covers
  <2>3. CASE Touch(p)
    <3> DEFINE row == conversations[Owner[p]][current[p].conv]
    <3>1. row # NoRow /\ at'[p] = at[p] /\ current'[p] = current[p]
      BY <2>3 DEF Touch, CoverInv, InsertCovers
    <3>2. conversations \in [Node -> [Conv -> Time \cup {NoRow}]]
      BY DEF TypeOK
    <3>3. row \in Time /\ row \in Nat /\ at[p] \in Nat
      <4>1. conversations[Owner[p]] \in [Conv -> Time \cup {NoRow}]
        BY <2>1, <3>2
      <4> QED  BY <2>1, <3>1, <4>1, TimeAssumption
    <3>4. conversations' = [conversations EXCEPT ![Owner[p]][current[p].conv] =
                              IF @ < at[p] THEN at[p] ELSE @]
      BY <2>3 DEF Touch
    <3>5. conversations'[Owner[p]][current[p].conv] = IF row < at[p] THEN at[p] ELSE row
      BY <2>1, <3>1, <3>2, <3>4
    <3> QED  BY <2>1, <3>1, <3>3, <3>5, NoneAssumption DEF Covers
  <2> QED  BY <1>2, <1>4, <2>1, <2>2, <2>3 DEF AddConversation, TypeOK
<1>5. ASSUME NEW n \in Node, NEW r \in messages'[n]
      PROVE  Covers(n, r.msg.conv, r.at)'
  <2>1. CASE r \in messages[n]
    <3>1. r.msg \in Message /\ r.at \in Time
      <4>1. messages[n] \in SUBSET [msg : Message, at : Time]
        BY DEF TypeOK
      <4> QED  BY <2>1, <4>1
    <3>2. r.msg.conv \in Conv
      BY <3>1 DEF Message
    <3>3. Covers(n, r.msg.conv, r.at)
      BY <2>1 DEF CoverInv, ConversationCovers, Covers, Listed
    <3> QED  BY <1>1, <3>1, <3>2, <3>3 DEF Covers
  <2>2. CASE r \notin messages[n]
    <3>1. PICK p \in Process : AddRow(p)
      <4>1. \A k \in Process : \A m \in inbox[k] \cup handler[k] :
               LoseRequest(k, m) \/ Handle(k, m) => UNCHANGED messages
        BY DEF LoseRequest, Handle, Accept, Refuse, WriteAck, AckWriteFails, tables
      <4>2. \A k \in Process :
               SendRefused(k) \/ Listen(k) \/ LoseConnection(k) \/ Quit(k) => UNCHANGED messages
        BY DEF SendRefused, Listen, LoseConnection, Quit, tables
      <4>3. \A k, q \in Process : Send(k, q) => UNCHANGED messages
        BY DEF Send, tables
      <4>4. \A k \in Process : Main(k) => AddRow(k) \/ UNCHANGED messages
        BY DEF Main, RecordAck, SendFails, Take, TimeOut, AlreadyStored, NotStored,
           AddConversation, Touch, tables
      <4>5. messages' # messages
        BY <2>2
      <4> QED
        BY <4>1, <4>2, <4>3, <4>4, <4>5 DEF Next, Command, EnsureConversation, vars, tables
    <3>2. n = Owner[p] /\ r = [msg |-> current[p], at |-> at[p]]
      BY <2>2, <3>1 DEF AddRow, TypeOK
    <3>3. pc[p] = "row" /\ conversations' = conversations
      BY <3>1 DEF AddRow
    <3>4. conversations[n][r.msg.conv] # NoRow /\ conversations[n][r.msg.conv] >= r.at
      BY <3>2, <3>3 DEF CoverInv, InsertCovers, Covers
    <3> QED  BY <3>3, <3>4 DEF Covers
  <2> QED  BY <2>1, <2>2
<1> QED
  <2>1. \A n \in Node : \A r \in messages'[n] : r.msg.conv \in Conv
    <3> SUFFICES ASSUME NEW n \in Node, NEW r \in messages'[n] PROVE r.msg.conv \in Conv
      OBVIOUS
    <3>1. messages'[n] \in SUBSET [msg : Message, at : Time]
      BY DEF TypeOK
    <3>2. r.msg \in Message
      BY <3>1
    <3> QED  BY <3>2 DEF Message
  <2> QED
    BY <1>3, <1>4, <1>5, <2>1 DEF CoverInv, ConversationCovers, InsertCovers, Covers, Listed

\* The list of conversations leaves out no stored message, and is never behind
\* one, for any number of processes and any clocks.
THEOREM ConversationCoversAlways == Spec => []ConversationCovers
<1>1. Init => CoverInv
  BY DEF Init, CoverInv, ConversationCovers, InsertCovers
<1>2. TypeOK /\ TypeOK' /\ CoverInv /\ [Next]_vars => CoverInv'
  BY StepCovers
<1>3. CoverInv => ConversationCovers
  BY DEF CoverInv
<1> QED  BY <1>1, <1>2, <1>3, TypeCorrect, PTL DEF Spec

----------------------------------------------------------------------------
(* Who holds which message. *)

\* What most steps at most do to a process, and to the rest.
MinorAt(k) ==
    /\ inbox'[k] \subseteq inbox[k] /\ handler'[k] \subseteq handler[k]
    /\ link'[k] = "acked" => link[k] = "acked"
    /\ channel'[k] = channel[k] \/ channel'[k] = <<>>
    /\ pc'[k] = "ready" => pc[k] = "ready"
    /\ pc'[k] = "listening" => pc[k] = "listening" /\ channel'[k] = channel[k]
    /\ pc'[k] = "timed out" =>
          pc[k] = "timed out" \/ (pc[k] = "listening" /\ channel[k] = <<>>)
    /\ Inserting(k)' => Inserting(k) \/ RecordAck(k)
    /\ pc'[k] = "done" =>
          pc[k] = "done" \/ (Inserting(k) /\ RowsOf(Owner[k], current[k])' # {})

Minor ==
    /\ UNCHANGED <<composed, current, to, source, accepted>>
    /\ messages' = messages \/ \E p \in Process : AddRow(p)
    /\ acks' = acks \/ \E p \in Process : RecordAck(p)
    /\ \A k \in Process : MinorAt(k)

\* What the end of a process does to it and to the others.
LEMMA ExitEffect ==
    ASSUME TypeOK, NEW p \in Process, NEW how, Exit(p, how), NEW k \in Process
    PROVE  /\ inbox'[k] \subseteq inbox[k] /\ handler'[k] \subseteq handler[k]
           /\ k = p => pc'[k] = how /\ channel'[k] = <<>> /\ link'[k] = "idle"
           /\ k # p => /\ pc'[k] = pc[k] /\ channel'[k] = channel[k]
                       /\ inbox'[k] = inbox[k] /\ handler'[k] = handler[k]
           /\ link'[k] = "acked" => link[k] = "acked"
           /\ link'[k] = "open" => link[k] = "open" /\ to[k] # p
BY DEF Exit, ClosedBy, TypeOK

LEMMA ExitIsMinor ==
    ASSUME TypeOK, NEW p \in Process, NEW how \in {"failed", "timed out", "done"},
           Exit(p, how),
           how = "timed out" => pc[p] = "listening" /\ channel[p] = <<>>,
           how = "done" => Inserting(p) /\ RowsOf(Owner[p], current[p])' # {},
           NEW k \in Process
    PROVE  MinorAt(k)
<1>1. CASE k = p
  BY <1>1, ExitEffect DEF MinorAt, Inserting
<1>2. CASE k # p
  BY <1>2, ExitEffect DEF MinorAt, Inserting
<1> QED  BY <1>1, <1>2

\* A step sends, listens, takes, accepts or acknowledges a message, or it is minor.
LEMMA Changes ==
    ASSUME TypeOK, Next
    PROVE  \/ \E p, q \in Process : Send(p, q)
           \/ \E p \in Process : Listen(p)
           \/ \E p \in Process : Take(p)
           \/ \E p \in Process : \E m \in inbox[p] : Accept(p, m)
           \/ \E p \in Process : \E m \in handler[p] : WriteAck(p, m)
           \/ Minor
<1> USE DEF tables, main, listener
<1>1. ASSUME NEW n \in Node, NEW c \in Conv, EnsureConversation(n, c) PROVE Minor
  BY <1>1 DEF EnsureConversation, Minor, MinorAt, Inserting
<1>2. ASSUME NEW p \in Process, SendRefused(p) \/ LoseConnection(p) PROVE Minor
  <2>1. UNCHANGED <<tables, current, to, source, listener, composed>>
    BY <1>2 DEF SendRefused, LoseConnection
  <2>2. ASSUME NEW k \in Process
        PROVE  /\ pc'[k] = pc[k] \/ pc'[k] = "failed"
               /\ link'[k] = "acked" => link[k] = "acked"
    BY <1>2 DEF SendRefused, LoseConnection, TypeOK
  <2>3. \A k \in Process : MinorAt(k)
    BY <2>1, <2>2 DEF MinorAt, Inserting
  <2> QED  BY <2>1, <2>3 DEF Minor
<1>3. ASSUME NEW p \in Process, NotStored(p) \/ AddConversation(p) \/ Touch(p) PROVE Minor
  <2>1. UNCHANGED <<messages, acks, current, to, source, link, listener, composed>>
    BY <1>3 DEF NotStored, AddConversation, Touch
  <2>2. ASSUME NEW k \in Process
        PROVE  pc'[k] = pc[k] \/ (Inserting(k) /\ pc'[k] \in {"conversation", "touch", "row"})
    BY <1>3 DEF NotStored, AddConversation, Touch, Inserting, TypeOK
  <2>3. \A k \in Process : MinorAt(k)
    BY <2>1, <2>2 DEF MinorAt, Inserting
  <2> QED  BY <2>1, <2>3 DEF Minor
<1>4. ASSUME NEW p \in Process, RecordAck(p) PROVE Minor
  <2>1. UNCHANGED <<messages, current, to, source, listener, composed>>
    BY <1>4 DEF RecordAck
  <2>2. ASSUME NEW k \in Process
        PROVE  /\ pc'[k] = pc[k] \/ (RecordAck(k) /\ pc'[k] = "lookup")
               /\ link'[k] = "acked" => link[k] = "acked"
    BY <1>4 DEF RecordAck, TypeOK
  <2>3. \A k \in Process : MinorAt(k)
    BY <2>1, <2>2 DEF MinorAt, Inserting
  <2> QED  BY <1>4, <2>1, <2>3 DEF Minor
<1>5. ASSUME NEW p \in Process, Quit(p) \/ SendFails(p) PROVE Minor
  <2>1. /\ Exit(p, "failed")
        /\ UNCHANGED <<tables, current, at, to, source, expected, composed, accepted>>
    BY <1>5 DEF Quit, SendFails
  <2>2. \A k \in Process : MinorAt(k)
    BY <2>1, ExitIsMinor
  <2> QED  BY <2>1, <2>2 DEF Minor
<1>6. ASSUME NEW p \in Process, TimeOut(p) PROVE Minor
  <2>1. /\ Exit(p, "timed out") /\ pc[p] = "listening" /\ channel[p] = <<>>
        /\ UNCHANGED <<tables, current, at, to, source, expected, composed, accepted>>
    BY <1>6 DEF TimeOut
  <2>2. \A k \in Process : MinorAt(k)
    BY <2>1, ExitIsMinor
  <2> QED  BY <2>1, <2>2 DEF Minor
<1>7. ASSUME NEW p \in Process, AlreadyStored(p) PROVE Minor
  <2>1. /\ Exit(p, "done") /\ Inserting(p) /\ RowsOf(Owner[p], current[p]) # {}
        /\ UNCHANGED <<tables, current, at, to, source, expected, composed, accepted>>
    BY <1>7 DEF AlreadyStored, Inserting
  <2>2. RowsOf(Owner[p], current[p])' # {}
    BY <2>1 DEF RowsOf
  <2>3. \A k \in Process : MinorAt(k)
    BY <2>1, <2>2, ExitIsMinor
  <2> QED  BY <2>1, <2>3 DEF Minor
<1>8. ASSUME NEW p \in Process, AddRow(p) PROVE Minor
  <2>1. /\ Exit(p, "done") /\ Inserting(p)
        /\ UNCHANGED <<acks, current, at, to, source, expected, composed, accepted>>
    BY <1>8 DEF AddRow, Inserting
  <2>2. [msg |-> current[p], at |-> at[p]] \in messages'[Owner[p]]
    BY <1>8, OwnerAssumption DEF AddRow, TypeOK
  <2>3. RowsOf(Owner[p], current[p])' # {}
    BY <2>1, <2>2 DEF RowsOf
  <2>4. \A k \in Process : MinorAt(k)
    BY <2>1, <2>3, ExitIsMinor
  <2> QED  BY <1>8, <2>1, <2>4 DEF Minor
<1>9. ASSUME NEW p \in Process, NEW m \in inbox[p] \cup handler[p],
             LoseRequest(p, m) \/ Refuse(p, m) \/ AckWriteFails(p, m)
      PROVE  Minor
  <2>1. UNCHANGED <<tables, main, channel, composed, accepted>>
    BY <1>9 DEF LoseRequest, Refuse, AckWriteFails
  <2>2. ASSUME NEW k \in Process
        PROVE  /\ inbox'[k] \subseteq inbox[k] /\ handler'[k] \subseteq handler[k]
               /\ link'[k] = "acked" => link[k] = "acked"
    <3>1. link' = link \/ link' = LinkOf(m, "closed")
      BY <1>9 DEF LoseRequest, Refuse, AckWriteFails
    <3>2. \/ inbox' = [inbox EXCEPT ![p] = @ \ {m}] /\ handler' = handler
          \/ inbox' = inbox /\ handler' = [handler EXCEPT ![p] = @ \ {m}]
      BY <1>9 DEF LoseRequest, Refuse, AckWriteFails
    <3>3. link'[k] = "acked" => link[k] = "acked"
      BY <3>1 DEF LinkOf
    <3>4. DOMAIN inbox = Process /\ DOMAIN handler = Process
      BY DEF TypeOK
    <3> QED  BY <3>2, <3>3, <3>4
  <2>3. \A k \in Process : MinorAt(k)
    BY <2>1, <2>2 DEF MinorAt, Inserting
  <2> QED  BY <2>1, <2>3 DEF Minor
<1>10. ASSUME NEW p \in Process, NEW m \in inbox[p] \cup handler[p], Handle(p, m)
       PROVE  \/ m \in inbox[p] /\ Accept(p, m)
              \/ m \in handler[p] /\ WriteAck(p, m)
              \/ Minor
  BY <1>9, <1>10 DEF Handle, Accept, WriteAck
<1>11. ASSUME NEW p \in Process, Main(p) PROVE Take(p) \/ Minor
  BY <1>3, <1>4, <1>5, <1>6, <1>7, <1>8, <1>11 DEF Main
<1> QED
  BY <1>1, <1>2, <1>5, <1>9, <1>10, <1>11 DEF Next, Command

\* A send keeps its message and its receive.
LEMMA SenderKeeps ==
    ASSUME TypeOK, Roles, Next, NEW s \in Process, Sender(s)
    PROVE  to'[s] = to[s] /\ current'[s] = current[s] /\ Sender(s)'
<1>1. ASSUME NEW p \in Process, NEW q \in Process, Send(p, q)
      PROVE  to'[s] = to[s] /\ current'[s] = current[s]
  <2>1. s # p
    BY <1>1 DEF Send, Roles
  <2> QED  BY <1>1, <2>1 DEF Send, TypeOK
<1>2. ASSUME NEW p \in Process, Take(p)
      PROVE  to'[s] = to[s] /\ current'[s] = current[s]
  <2>1. s # p
    BY <1>2 DEF Take, Roles
  <2> QED  BY <1>2, <2>1 DEF Take, TypeOK
<1>3. ASSUME NEW p \in Process, NEW m,
             Listen(p) \/ Accept(p, m) \/ WriteAck(p, m) \/ Minor
      PROVE  to'[s] = to[s] /\ current'[s] = current[s]
  BY <1>3 DEF Listen, Accept, WriteAck, Minor, main
<1>4. to'[s] = to[s] /\ current'[s] = current[s]
  BY <1>1, <1>2, <1>3, Changes
<1> QED  BY <1>4 DEF Sender

\* Nothing is removed from a history, a table of ACKs or what was accepted.
LEMMA Grows ==
    ASSUME TypeOK, Next
    PROVE  /\ composed \subseteq composed'
           /\ \A n \in Node : messages[n] \subseteq messages'[n] /\ acks[n] \subseteq acks'[n]
           /\ \A p \in Process : accepted[p] \subseteq accepted'[p]
           /\ \A m : Stored(m) => Stored(m)'
<1>1. /\ composed \subseteq composed'
      /\ \A n \in Node : messages[n] \subseteq messages'[n] /\ acks[n] \subseteq acks'[n]
      /\ \A p \in Process : accepted[p] \subseteq accepted'[p]
  <2>1. ASSUME NEW p \in Process, NEW q \in Process, NEW m,
               Send(p, q) \/ Listen(p) \/ Take(p) \/ Accept(p, m) \/ WriteAck(p, m)
        PROVE  /\ composed \subseteq composed' /\ messages' = messages /\ acks' = acks
               /\ \A k \in Process : accepted[k] \subseteq accepted'[k]
    <3>1. messages' = messages /\ acks' = acks /\ composed \subseteq composed'
      BY <2>1 DEF Send, Listen, Take, Accept, WriteAck, tables
    <3>2. CASE Accept(p, m)
      <4>1. DOMAIN accepted = Process
        BY DEF TypeOK
      <4> QED  BY <3>1, <3>2, <4>1 DEF Accept
    <3>3. CASE ~Accept(p, m)
      BY <2>1, <3>1, <3>3 DEF Send, Listen, Take, WriteAck
    <3> QED  BY <3>2, <3>3
  <2>2. ASSUME Minor
        PROVE  /\ composed' = composed /\ accepted' = accepted
               /\ \A n \in Node : messages[n] \subseteq messages'[n] /\ acks[n] \subseteq acks'[n]
    <3>1. ASSUME NEW p \in Process, AddRow(p)
          PROVE  \A n \in Node : messages[n] \subseteq messages'[n]
      <4>1. DOMAIN messages = Node
        BY DEF TypeOK
      <4> QED  BY <3>1, <4>1 DEF AddRow
    <3>2. ASSUME NEW p \in Process, RecordAck(p)
          PROVE  \A n \in Node : acks[n] \subseteq acks'[n]
      <4>1. DOMAIN acks = Node
        BY DEF TypeOK
      <4> QED  BY <3>2, <4>1 DEF RecordAck
    <3> QED  BY <2>2, <3>1, <3>2 DEF Minor
  <2> QED  BY <2>1, <2>2, Changes
<1> QED  BY <1>1 DEF Stored, RowsOf

\* A message that a listener holds or accepted is of a send that is connected to
\* it; so it was composed, and no other listener has it.
LEMMA OneReceive ==
    ASSUME TypeOK, Roles, SoleSender, Placed,
           NEW p \in Process, NEW m \in inbox[p] \cup accepted[p]
    PROVE  /\ m \in composed /\ m \in Message /\ pc[p] # "ready"
           /\ \A s \in Process : Sender(s) /\ current[s] = m => to[s] = p
           /\ \A q \in Process : m \in inbox[q] \cup accepted[q] => q = p
<1>1. PICK s \in Process : to[s] = p /\ current[s] = m
  BY DEF Placed
<1>2. Sender(s)
  BY <1>1, NoneAssumption DEF Sender
<1>3. \A k \in Process : Sender(k) /\ current[k] = m => to[k] = p
  BY <1>1, <1>2 DEF SoleSender
<1>4. ASSUME NEW q \in Process, m \in inbox[q] \cup accepted[q] PROVE q = p
  <2>1. PICK k \in Process : to[k] = q /\ current[k] = m
    BY <1>4 DEF Placed
  <2>2. Sender(k)
    BY <2>1, NoneAssumption DEF Sender
  <2> QED  BY <1>3, <2>1, <2>2
<1>5. m \in composed /\ pc[p] # "ready"
  BY <1>1, <1>2 DEF Roles
<1> QED  BY <1>3, <1>4, <1>5 DEF TypeOK

\* A message that waits to be read is stored nowhere.
LEMMA UnreadNotStored ==
    ASSUME TypeOK, Roles, SoleSender, Placed, RowOrigin,
           NEW p \in Process, NEW m \in inbox[p]
    PROVE  ~Stored(m)
<1> SUFFICES ASSUME NEW n \in Node, NEW r \in messages[n], r.msg = m PROVE FALSE
  BY DEF Stored, RowsOf
<1>1. PICK q \in Process : m \in accepted[q]
  BY DEF RowOrigin
<1>2. q = p
  BY <1>1, OneReceive
<1> QED  BY <1>1, <1>2 DEF Placed

\* A send builds a message that nobody has heard of.
LEMMA SendIsNew ==
    ASSUME TypeOK, Roles, NEW p \in Process, NEW q \in Process, Send(p, q)
    PROVE  /\ pc[p] = "ready" /\ ~Sender(p) /\ ~Sender(q) /\ p # q
           /\ pc[q] # "ready" /\ pc[q] # "timed out"
           /\ to'[p] = q /\ \A k \in Process : k # p => to'[k] = to[k]
           /\ \A k \in Process : Sender(k) => k # p /\ to[k] # p
<1>1. pc[p] = "ready" /\ Bound(q) /\ to' = [to EXCEPT ![p] = q]
  BY DEF Send
<1>2. pc[q] # "ready" /\ pc[q] # "timed out" /\ ~Sender(q)
  BY <1>1 DEF Bound, Inserting, Roles, Sender
<1>3. \A k \in Process : Sender(k) => k # p /\ to[k] # p
  BY <1>1 DEF Roles
<1> QED  BY <1>1, <1>2, <1>3 DEF Roles, TypeOK

\* The messages that are composed keep having hashes of their own.
LEMMA ComposedUniqueStep ==
    ASSUME TypeOK, ComposedUnique, Next
    PROVE  ComposedUnique'
<1>1. ASSUME NEW p \in Process, NEW q \in Process, Send(p, q) PROVE ComposedUnique'
  <2>1. PICK m \in Message : /\ \A k \in composed : k.hash # m.hash
                             /\ composed' = composed \cup {m}
    BY <1>1, SendBuilds
  <2> QED  BY <2>1 DEF ComposedUnique
<1>2. ASSUME NEW p \in Process, NEW m,
             Listen(p) \/ Take(p) \/ Accept(p, m) \/ WriteAck(p, m)
      PROVE  composed' = composed
  BY <1>2 DEF Listen, Take, Accept, WriteAck
<1>3. CASE Minor
  BY <1>3 DEF Minor, ComposedUnique
<1>4. CASE composed' = composed
  BY <1>4 DEF ComposedUnique
<1> QED  BY <1>1, <1>2, <1>3, <1>4, Changes

\* Two sends never hold the same message.
LEMMA SoleSenderStep ==
    ASSUME TypeOK, Roles, SoleSender, Next
    PROVE  SoleSender'
<1>1. ASSUME NEW p \in Process, NEW q \in Process, Send(p, q) PROVE SoleSender'
  <2>1. PICK m \in Message : /\ \A k \in composed : k.hash # m.hash
                             /\ current' = [current EXCEPT ![p] = m]
    BY <1>1, SendBuilds
  <2>2. \A k \in Process : Sender(k) => current[k] # m
    BY <2>1 DEF Roles
  <2>3. \A k \in Process : k # p => current'[k] = current[k] /\ to'[k] = to[k]
    <3>1. \A k \in Process : k # p => to'[k] = to[k]
      BY <1>1, SendIsNew
    <3>2. DOMAIN current = Process
      BY DEF TypeOK
    <3> QED  BY <2>1, <3>1, <3>2
  <2>4. current'[p] = m
    BY <2>1 DEF TypeOK
  <2> QED  BY <2>2, <2>3, <2>4 DEF SoleSender, Sender
<1>2. ASSUME NEW p \in Process, NEW m,
             Listen(p) \/ Take(p) \/ Accept(p, m) \/ WriteAck(p, m)
      PROVE  to' = to
  BY <1>2 DEF Listen, Take, Accept, WriteAck, main
<1>3. Minor => to' = to
  BY DEF Minor
<1>4. CASE to' = to
  <2>1. \A k \in Process : Sender(k)' => Sender(k)
    BY <1>4 DEF Sender
  <2>2. \A k \in Process : Sender(k)' => current'[k] = current[k]
    BY <2>1, SenderKeeps
  <2> QED  BY <2>1, <2>2 DEF SoleSender
<1> QED  BY <1>1, <1>2, <1>3, <1>4, Changes

\* Sends and receives keep their roles.
LEMMA RolesStep ==
    ASSUME TypeOK, Roles, Placed, Next
    PROVE  Roles'
<1> DEFINE Role(k) ==
      /\ pc[k] \in {"ready", "listening", "timed out"} =>
            ~Sender(k) /\ current[k] = NoMsg
      /\ Sender(k) =>
            /\ current[k] \in composed
            /\ current[k].src = Owner[k]
            /\ ~Sender(to[k]) /\ pc[to[k]] # "ready"
      /\ ~Sender(k) /\ current[k] # NoMsg => current[k] \in accepted[k]
<1> SUFFICES ASSUME NEW k \in Process PROVE Role(k)'
  BY DEF Roles
<1>1. Role(k) /\ (Sender(k) => to[k] \in Process)
  BY DEF Roles, Sender, TypeOK
<1>2. ASSUME NEW p \in Process, NEW q \in Process, Send(p, q) PROVE Role(k)'
  <2>1. PICK m \in Message : /\ m.src = Owner[p]
                             /\ composed' = composed \cup {m}
                             /\ current' = [current EXCEPT ![p] = m]
    BY <1>2, SendBuilds
  <2>2. pc' = [pc EXCEPT ![p] = "sending"] /\ accepted' = accepted
    BY <1>2 DEF Send
  <2>3. DOMAIN pc = Process /\ DOMAIN current = Process /\ q \in Process /\ q # NoProcess
    BY NoneAssumption DEF TypeOK
  <2>4. /\ ~Sender(q) /\ p # q /\ pc[q] # "ready"
        /\ to'[p] = q /\ \A j \in Process : j # p => to'[j] = to[j]
        /\ \A j \in Process : Sender(j) => j # p /\ to[j] # p
    BY <1>2, SendIsNew
  <2>5. CASE k = p
    <3>1. pc'[k] = "sending" /\ current'[k] = m /\ to'[k] = q
      BY <2>1, <2>2, <2>5, <2>3, <2>4
    <3>2. pc'[q] = pc[q] /\ to'[q] = to[q]
      BY <2>2, <2>3, <2>4
    <3>3. Sender(k)' /\ ~Sender(q)'
      BY <2>3, <2>4, <3>1, <3>2 DEF Sender
    <3> QED  BY <2>1, <2>5, <2>4, <3>1, <3>2, <3>3
  <2>6. CASE k # p
    <3>1. pc'[k] = pc[k] /\ current'[k] = current[k] /\ to'[k] = to[k]
      BY <2>1, <2>2, <2>6, <2>3, <2>4
    <3>2. Sender(k) => pc'[to[k]] = pc[to[k]] /\ to'[to[k]] = to[to[k]]
      BY <1>1, <2>2, <2>3, <2>4
    <3>3. CASE Sender(k)
      <4>1. to[to[k]] = NoProcess /\ pc[to[k]] # "ready" /\ to[k] # NoProcess
        BY <1>1, <3>3 DEF Sender
      <4>2. to'[to'[k]] = NoProcess /\ pc'[to'[k]] # "ready" /\ to'[k] # NoProcess
        BY <3>1, <3>2, <3>3, <4>1
      <4>3. pc'[k] \notin {"ready", "listening", "timed out"}
        BY <1>1, <3>1, <3>3
      <4>4. current[k] \in composed /\ current[k].src = Owner[k]
        BY <1>1, <3>3
      <4>5. current'[k] \in composed' /\ current'[k].src = Owner[k]
        BY <2>1, <3>1, <4>4
      <4> QED  BY <4>2, <4>3, <4>5 DEF Sender
    <3>4. CASE ~Sender(k)
      BY <1>1, <2>1, <2>2, <3>1, <3>4 DEF Sender
    <3> QED  BY <3>3, <3>4
  <2> QED  BY <2>5, <2>6
<1>3. ASSUME NEW p \in Process, Listen(p) PROVE Role(k)'
  <2>1. UNCHANGED <<current, to, composed, accepted>>
    BY <1>3 DEF Listen
  <2>2. \A j \in Process : pc'[j] = pc[j] \/ (pc[j] = "ready" /\ pc'[j] = "listening")
    BY <1>3 DEF Listen, TypeOK
  <2> QED  BY <1>1, <2>1, <2>2 DEF Sender
<1>4. ASSUME NEW p \in Process, Take(p) PROVE Role(k)'
  <2>1. UNCHANGED <<to, composed, accepted>> /\ pc[p] = "listening" /\ ~Sender(p)
    BY <1>4 DEF Take, Roles
  <2>2. \A j \in Process : pc'[j] = pc[j] \/ (j = p /\ pc'[j] = "lookup")
    BY <1>4 DEF Take, TypeOK
  <2>3. CASE k = p
    <3>1. channel[p] \in Seq(Message) /\ channel[p] # <<>>
      BY <1>4 DEF Take, TypeOK
    <3>2. Head(channel[p]) = channel[p][1] /\ 1 \in 1 .. Len(channel[p])
      BY <3>1, EmptySeq, HeadTailProperties
    <3>3. current'[p] = channel[p][1] /\ pc'[p] = "lookup"
      BY <1>4, <3>2 DEF Take, TypeOK
    <3>4. channel[p][1] \in accepted[p]
      BY <3>2 DEF Placed
    <3> QED  BY <2>1, <2>3, <3>3, <3>4 DEF Sender
  <2>4. CASE k # p
    <3>1. current'[k] = current[k] /\ pc'[k] = pc[k]
      BY <1>4, <2>4 DEF Take, TypeOK
    <3> QED  BY <1>1, <2>1, <2>2, <3>1 DEF Sender
  <2> QED  BY <2>3, <2>4
<1>5. ASSUME NEW p \in Process, NEW m, Accept(p, m) \/ WriteAck(p, m) PROVE Role(k)'
  <2>1. UNCHANGED <<current, to, pc, composed>>
    BY <1>5 DEF Accept, WriteAck, main
  <2> QED  BY <1>1, <2>1, Grows DEF Sender
<1>6. CASE Minor
  <2>1. UNCHANGED <<current, to, composed, accepted>>
    BY <1>6 DEF Minor
  <2>2. \A j \in Process : /\ pc'[j] = "ready" => pc[j] = "ready"
                           /\ pc'[j] = "listening" => pc[j] = "listening"
                           /\ pc'[j] = "timed out" => pc[j] \in {"timed out", "listening"}
    BY <1>6 DEF Minor, MinorAt
  <2> QED  BY <1>1, <2>1, <2>2 DEF Sender
<1> QED  BY <1>2, <1>3, <1>4, <1>5, <1>6, Changes

\* What a send does.
LEMMA SendEffect ==
    ASSUME TypeOK, Roles, NEW p \in Process, NEW q \in Process, Send(p, q)
    PROVE  /\ \E m \in Message :
                 /\ \A k \in composed : k.hash # m.hash
                 /\ m.src = Owner[p] /\ m.prev \in Given(Owner[p])
                 /\ composed' = composed \cup {m}
                 /\ current'[p] = m
                 /\ inbox'[q] = inbox[q] \cup {m}
           /\ p # q /\ pc'[p] = "sending" /\ link'[p] = "open" /\ to'[p] = q
           /\ \A k \in Process : k # p =>
                 /\ pc'[k] = pc[k] /\ link'[k] = link[k] /\ to'[k] = to[k]
                 /\ current'[k] = current[k]
           /\ \A k \in Process : k # q => inbox'[k] = inbox[k]
           /\ UNCHANGED <<messages, acks, source, handler, channel, accepted>>
<1>1. PICK m \in Message :
        /\ \A k \in composed : k.hash # m.hash
        /\ m.src = Owner[p] /\ m.prev \in Given(Owner[p])
        /\ composed' = composed \cup {m}
        /\ current' = [current EXCEPT ![p] = m]
        /\ inbox' = [inbox EXCEPT ![q] = @ \cup {m}]
  BY SendBuilds
<1>2. DOMAIN current = Process /\ DOMAIN inbox = Process
      /\ DOMAIN pc = Process /\ DOMAIN link = Process /\ DOMAIN to = Process
  BY DEF TypeOK
<1>3. /\ pc' = [pc EXCEPT ![p] = "sending"] /\ link' = [link EXCEPT ![p] = "open"]
      /\ to' = [to EXCEPT ![p] = q]
      /\ UNCHANGED <<messages, acks, source, handler, channel, accepted>>
  BY DEF Send, tables
<1>4. p # q
  BY SendIsNew
<1>5. \A k \in Process : k # p => current'[k] = current[k]
  BY <1>1, <1>2
<1>6. current'[p] = m /\ inbox'[q] = inbox[q] \cup {m}
  BY <1>1, <1>2
<1>7. \A k \in Process : k # q => inbox'[k] = inbox[k]
  BY <1>1, <1>2
<1>8. \E w \in Message :
         /\ \A k \in composed : k.hash # w.hash
         /\ w.src = Owner[p] /\ w.prev \in Given(Owner[p])
         /\ composed' = composed \cup {w}
         /\ current'[p] = w
         /\ inbox'[q] = inbox[q] \cup {w}
  BY <1>1, <1>6
<1> QED  BY <1>2, <1>3, <1>4, <1>5, <1>7, <1>8

\* What a receive that takes a message from its channel does.
LEMMA TakeEffect ==
    ASSUME TypeOK, NEW p \in Process, Take(p)
    PROVE  /\ pc[p] = "listening" /\ pc'[p] = "lookup"
           /\ 1 \in 1 .. Len(channel[p]) /\ current'[p] = channel[p][1]
           /\ \A i \in 1 .. Len(channel'[p]) :
                 i + 1 \in 1 .. Len(channel[p]) /\ channel'[p][i] = channel[p][i + 1]
           /\ \A k \in Process : k # p =>
                 pc'[k] = pc[k] /\ current'[k] = current[k] /\ channel'[k] = channel[k]
           /\ UNCHANGED <<messages, acks, to, source, link, inbox, handler, composed, accepted>>
<1>1. channel[p] \in Seq(Message) /\ channel[p] # <<>>
  BY DEF Take, TypeOK
<1>2. DOMAIN current = Process /\ DOMAIN channel = Process /\ DOMAIN pc = Process
  BY DEF TypeOK
<1>3. /\ current' = [current EXCEPT ![p] = Head(channel[p])]
      /\ channel' = [channel EXCEPT ![p] = Tail(channel[p])]
      /\ pc' = [pc EXCEPT ![p] = "lookup"] /\ pc[p] = "listening"
      /\ UNCHANGED <<messages, acks, to, source, link, inbox, handler, composed, accepted>>
  BY DEF Take, tables
<1>4. /\ Head(channel[p]) = channel[p][1]
      /\ Len(channel[p]) \in Nat /\ Len(channel[p]) # 0
      /\ Len(Tail(channel[p])) = Len(channel[p]) - 1
      /\ \A i \in 1 .. Len(Tail(channel[p])) : Tail(channel[p])[i] = channel[p][i + 1]
  BY <1>1, EmptySeq, LenProperties, HeadTailProperties
<1>5. channel'[p] = Tail(channel[p]) /\ current'[p] = channel[p][1] /\ pc'[p] = "lookup"
  BY <1>2, <1>3, <1>4
<1>6. 1 \in 1 .. Len(channel[p])
      /\ \A i \in 1 .. Len(Tail(channel[p])) : i + 1 \in 1 .. Len(channel[p])
  BY <1>4
<1>7. \A i \in 1 .. Len(channel'[p]) :
         i + 1 \in 1 .. Len(channel[p]) /\ channel'[p][i] = channel[p][i + 1]
  BY <1>4, <1>5, <1>6
<1>8. \A k \in Process : k # p =>
         pc'[k] = pc[k] /\ current'[k] = current[k] /\ channel'[k] = channel[k]
  BY <1>2, <1>3
<1> QED  BY <1>3, <1>5, <1>6, <1>7, <1>8

\* What a listener that accepts a message does.
LEMMA AcceptEffect ==
    ASSUME TypeOK, NEW p \in Process, NEW m \in inbox[p], Accept(p, m)
    PROVE  /\ pc[p] = "listening" /\ m.src = source[p] /\ m.dst = Owner[p]
           /\ inbox'[p] = inbox[p] \ {m} /\ handler'[p] = handler[p] \cup {m}
           /\ accepted'[p] = accepted[p] \cup {m}
           /\ \A k \in Process : k # p =>
                 /\ inbox'[k] = inbox[k] /\ handler'[k] = handler[k]
                 /\ accepted'[k] = accepted[k]
           /\ UNCHANGED <<messages, acks, pc, current, to, source, link, channel, composed>>
<1>1. DOMAIN inbox = Process /\ DOMAIN handler = Process /\ DOMAIN accepted = Process
  BY DEF TypeOK
<1> QED  BY <1>1 DEF Accept, Acceptable, tables, main

\* What a handler that writes an ACK does.
LEMMA AckEffect ==
    ASSUME TypeOK, NEW p \in Process, NEW m \in handler[p], WriteAck(p, m)
    PROVE  /\ pc[p] = "listening" /\ handler'[p] = handler[p] \ {m}
           /\ Len(channel[p]) \in Nat /\ Len(channel'[p]) = Len(channel[p]) + 1
           /\ \A i \in 1 .. Len(channel[p]) : channel'[p][i] = channel[p][i]
           /\ channel'[p][Len(channel[p]) + 1] = m
           /\ \A k \in Process : k # p =>
                 handler'[k] = handler[k] /\ channel'[k] = channel[k]
           /\ link' = LinkOf(m, "acked")
           /\ \A k \in Process : \A w : Queued(k, w) => Queued(k, w)'
           /\ Queued(p, m)'
           /\ UNCHANGED <<messages, acks, pc, current, to, source, inbox, composed, accepted>>
<1>1. channel[p] \in Seq(Message) /\ m \in Message
      /\ DOMAIN handler = Process /\ DOMAIN channel = Process
  BY DEF TypeOK
<1>2. /\ pc[p] = "listening" /\ link' = LinkOf(m, "acked")
      /\ handler' = [handler EXCEPT ![p] = @ \ {m}]
      /\ channel' = [channel EXCEPT ![p] = Append(@, m)]
      /\ UNCHANGED <<messages, acks, pc, current, to, source, inbox, composed, accepted>>
  BY DEF WriteAck, tables, main
<1>3. /\ handler'[p] = handler[p] \ {m} /\ channel'[p] = Append(channel[p], m)
      /\ \A k \in Process : k # p => handler'[k] = handler[k] /\ channel'[k] = channel[k]
  BY <1>1, <1>2
<1>4. /\ Len(channel[p]) \in Nat
      /\ Len(channel'[p]) = Len(channel[p]) + 1
      /\ \A i \in 1 .. Len(channel[p]) : channel'[p][i] = channel[p][i]
      /\ channel'[p][Len(channel[p]) + 1] = m
  BY <1>1, <1>3, LenProperties, AppendProperties
<1>5. Len(channel'[p]) \in 1 .. Len(channel'[p])
      /\ \A i \in 1 .. Len(channel[p]) : i \in 1 .. Len(channel'[p])
  BY <1>4
<1>6. Queued(p, m)'
  BY <1>4, <1>5 DEF Queued
<1>7. ASSUME NEW k \in Process, NEW w, Queued(k, w) PROVE Queued(k, w)'
  <2>1. CASE k = p
    BY <1>4, <1>5, <1>7, <2>1 DEF Queued
  <2>2. CASE k # p
    BY <1>3, <1>7, <2>2 DEF Queued
  <2> QED  BY <2>1, <2>2
<1> QED  BY <1>2, <1>3, <1>4, <1>6, <1>7

\* A listener goes on to hold only what was sent to it.
LEMMA PlacedStep ==
    ASSUME TypeOK, Roles, SoleSender, Placed, Next
    PROVE  Placed'
<1> DEFINE Sent(p, m) == \E s \in Process : to[s] = p /\ current[s] = m
           Mine(p) == /\ \A m \in inbox[p] \cup accepted[p] : Sent(p, m)
                      /\ inbox[p] \cap accepted[p] = {}
                      /\ handler[p] \subseteq accepted[p]
                      /\ \A i \in 1 .. Len(channel[p]) : channel[p][i] \in accepted[p]
                      /\ \A m \in accepted[p] : m.src = source[p] /\ m.dst = Owner[p]
<1> SUFFICES ASSUME NEW k \in Process PROVE Mine(k)'
  BY DEF Placed
<1>1. Mine(k)
  BY DEF Placed
<1>2. ASSUME NEW m \in inbox[k] \cup accepted[k] PROVE Sent(k, m)'
  <2>1. PICK s \in Process : to[s] = k /\ current[s] = m
    BY <1>1
  <2>2. Sender(s)
    BY <2>1, NoneAssumption DEF Sender
  <2>3. to'[s] = k /\ current'[s] = m
    BY <2>1, <2>2, SenderKeeps
  <2> QED  BY <2>3
<1> HIDE DEF Sent
<1>3. ASSUME NEW p \in Process, NEW q \in Process, Send(p, q) PROVE Mine(k)'
  <2>1. PICK m \in Message : /\ \A j \in composed : j.hash # m.hash
                             /\ current'[p] = m
                             /\ inbox'[q] = inbox[q] \cup {m}
    BY <1>3, SendEffect
  <2>2. /\ to'[p] = q /\ \A j \in Process : j # q => inbox'[j] = inbox[j]
        /\ UNCHANGED <<source, handler, channel, accepted>>
    BY <1>3, SendEffect
  <2>3. m \notin accepted[k]
    BY <2>1, OneReceive
  <2>4. Sent(q, m)'
    BY <2>1, <2>2 DEF Sent
  <2>5. inbox'[k] \subseteq inbox[k] \cup {m} /\ (m \in inbox'[k] => m \in inbox[k] \/ k = q)
    BY <2>1, <2>2
  <2>6. \A w \in inbox'[k] \cup accepted'[k] : Sent(k, w)'
    BY <1>2, <2>2, <2>4, <2>5
  <2>7. inbox'[k] \cap accepted'[k] = {}
    BY <1>1, <2>2, <2>3, <2>5
  <2> QED  BY <1>1, <2>2, <2>6, <2>7
<1>4. ASSUME NEW p \in Process, Listen(p) PROVE Mine(k)'
  <2>1. UNCHANGED <<inbox, handler, channel, accepted>>
    BY <1>4 DEF Listen
  <2>2. \A m \in inbox'[k] \cup accepted'[k] : Sent(k, m)'
    BY <1>2, <2>1
  <2>3. source'[k] = source[k] \/ accepted[k] = {}
    <3>1. CASE k = p
      BY <1>4, <3>1, OneReceive DEF Listen
    <3>2. CASE k # p
      <4>1. \E n : source' = [source EXCEPT ![p] = n]
        BY <1>4 DEF Listen
      <4> QED  BY <3>2, <4>1 DEF TypeOK
    <3> QED  BY <3>1, <3>2
  <2> QED  BY <1>1, <2>1, <2>2, <2>3
<1>5. ASSUME NEW p \in Process, Take(p) PROVE Mine(k)'
  <2>1. UNCHANGED <<source, inbox, handler, accepted>>
    BY <1>5, TakeEffect
  <2>2. \A i \in 1 .. Len(channel'[k]) : channel'[k][i] \in accepted[k]
    <3>1. CASE k = p
      BY <1>1, <1>5, <3>1, TakeEffect
    <3>2. CASE k # p
      <4>1. channel'[k] = channel[k]
        BY <1>5, <3>2, TakeEffect
      <4> QED  BY <1>1, <4>1
    <3> QED  BY <3>1, <3>2
  <2>3. \A m \in inbox'[k] \cup accepted'[k] : Sent(k, m)'
    BY <1>2, <2>1
  <2> QED  BY <1>1, <2>1, <2>2, <2>3
<1>6. ASSUME NEW p \in Process, NEW m \in inbox[p], Accept(p, m) PROVE Mine(k)'
  <2>1. UNCHANGED <<source, channel>>
    BY <1>6, AcceptEffect
  <2>2. CASE k = p
    <3>1. /\ inbox'[k] = inbox[k] \ {m} /\ handler'[k] = handler[k] \cup {m}
          /\ accepted'[k] = accepted[k] \cup {m}
          /\ m.src = source[k] /\ m.dst = Owner[k] /\ m \in inbox[k]
      BY <1>6, <2>2, AcceptEffect
    <3>2. \A w \in inbox'[k] \cup accepted'[k] : Sent(k, w)'
      BY <1>2, <3>1
    <3> QED  BY <1>1, <2>1, <3>1, <3>2
  <2>3. CASE k # p
    <3>1. /\ inbox'[k] = inbox[k] /\ handler'[k] = handler[k]
          /\ accepted'[k] = accepted[k]
      BY <1>6, <2>3, AcceptEffect
    <3> QED  BY <1>1, <1>2, <2>1, <3>1
  <2> QED  BY <2>2, <2>3
<1>7. ASSUME NEW p \in Process, NEW m \in handler[p], WriteAck(p, m) PROVE Mine(k)'
  <2>1. UNCHANGED <<source, inbox, accepted>>
    BY <1>7, AckEffect
  <2>2. handler'[k] \subseteq handler[k]
    BY <1>7, AckEffect
  <2>3. \A i \in 1 .. Len(channel'[k]) : channel'[k][i] \in accepted[k]
    <3>1. CASE k = p
      <4>1. m \in accepted[k]
        BY <1>1, <1>7, <3>1
      <4>2. /\ Len(channel[k]) \in Nat /\ Len(channel'[k]) = Len(channel[k]) + 1
            /\ \A i \in 1 .. Len(channel[k]) : channel'[k][i] = channel[k][i]
            /\ channel'[k][Len(channel[k]) + 1] = m
        BY <1>7, <3>1, AckEffect
      <4>3. \A i \in 1 .. Len(channel'[k]) :
               i \in 1 .. Len(channel[k]) \/ i = Len(channel[k]) + 1
        BY <4>2
      <4> QED  BY <1>1, <4>1, <4>2, <4>3
    <3>2. CASE k # p
      <4>1. channel'[k] = channel[k]
        BY <1>7, <3>2, AckEffect
      <4> QED  BY <1>1, <4>1
    <3> QED  BY <3>1, <3>2
  <2> QED  BY <1>1, <1>2, <2>1, <2>2, <2>3
<1>8. CASE Minor
  <2>1. UNCHANGED <<source, accepted>>
    BY <1>8 DEF Minor
  <2>2. /\ inbox'[k] \subseteq inbox[k] /\ handler'[k] \subseteq handler[k]
        /\ channel'[k] = channel[k] \/ channel'[k] = <<>>
    BY <1>8 DEF Minor, MinorAt
  <2>3. \A i \in 1 .. Len(channel'[k]) : channel'[k][i] \in accepted[k]
    <3>1. CASE channel'[k] = channel[k]
      BY <1>1, <3>1
    <3>2. CASE channel'[k] = <<>>
      <4>1. Len(channel'[k]) = 0
        BY <3>2, EmptySeq
      <4> QED  BY <4>1
    <3> QED  BY <2>2, <3>1, <3>2
  <2> QED  BY <1>1, <1>2, <2>1, <2>2, <2>3
<1> QED  BY <1>3, <1>4, <1>5, <1>6, <1>7, <1>8, Changes

\* What a send that reads its ACK does.
LEMMA RecordAckEffect ==
    ASSUME TypeOK, NEW p \in Process, RecordAck(p)
    PROVE  /\ Sender(p) /\ link[p] = "acked"
           /\ current[p].hash \in acks'[Owner[p]]
           /\ \A n \in Node : acks'[n] \subseteq acks[n] \cup {current[p].hash}
<1>1. DOMAIN acks = Node /\ Owner[p] \in Node
  BY OwnerAssumption DEF TypeOK
<1>2. acks' = [acks EXCEPT ![Owner[p]] = @ \cup {current[p].hash}]
  BY DEF RecordAck
<1>3. pc[p] = "sending" /\ link[p] = "acked"
  BY DEF RecordAck, AckedByPeer
<1>4. to[p] \in Process
  BY <1>3 DEF TypeOK, CommandShape
<1> QED  BY <1>1, <1>2, <1>3, <1>4, NoneAssumption DEF Sender

\* An ACK is recorded by the send that read it: minor steps acknowledge nothing.
LEMMA MinorAcksNothing ==
    ASSUME TypeOK, ComposedUnique, Roles, SoleSender, Minor,
           NEW q \in Process, Sender(q), Acked(q)'
    PROVE  Acked(q)
<1>1. current'[q] = current[q] /\ (link'[q] = "acked" => link[q] = "acked")
  BY DEF Minor, MinorAt
<1>2. ASSUME NEW p \in Process, RecordAck(p), current[q].hash \in acks'[Owner[q]]
      PROVE  Acked(q)
  <2>1. Sender(p) /\ link[p] = "acked"
    BY <1>2, RecordAckEffect
  <2>2. current[q].hash \in acks[Owner[q]] \/ current[q].hash = current[p].hash
    BY <1>2, RecordAckEffect, OwnerAssumption
  <2>3. ASSUME current[q].hash = current[p].hash PROVE link[q] = "acked"
    <3>1. current[q] = current[p]
      BY <2>1, <2>3 DEF Roles, ComposedUnique
    <3>2. q = p
      BY <2>1, <3>1 DEF SoleSender
    <3> QED  BY <2>1, <3>2
  <2> QED  BY <2>2, <2>3 DEF Acked
<1>3. current[q].hash \in acks'[Owner[q]] => Acked(q)
  <2>1. CASE acks' = acks
    BY <2>1 DEF Acked
  <2>2. CASE acks' # acks
    BY <1>2, <2>2 DEF Minor
  <2> QED  BY <2>1, <2>2
<1>4. link'[q] = "acked" \/ current[q].hash \in acks'[Owner[q]]
  BY <1>1 DEF Acked
<1> QED  BY <1>1, <1>3, <1>4 DEF Acked

\* An ACK stays one of a message that was accepted and not left behind.
LEMMA AckOriginStep ==
    ASSUME TypeOK, ComposedUnique, Roles, SoleSender, Placed, AckOrigin, Next
    PROVE  AckOrigin'
<1>1. ASSUME NEW n \in Node PROVE acks'[n] \subseteq Hashes(composed')
  <2>1. acks[n] \subseteq Hashes(composed')
    BY Grows DEF AckOrigin, Hashes
  <2>2. ASSUME NEW p \in Process, RecordAck(p) PROVE acks'[n] \subseteq Hashes(composed')
    <3>1. Sender(p)
      BY <2>2, RecordAckEffect
    <3>2. current[p].hash \in Hashes(composed')
      BY <3>1, Grows DEF Roles, Hashes
    <3>3. acks'[n] \subseteq acks[n] \cup {current[p].hash}
      BY <2>2, RecordAckEffect
    <3> QED  BY <2>1, <3>2, <3>3
  <2>3. ASSUME NEW p \in Process, NEW q \in Process, NEW m,
               Send(p, q) \/ Listen(p) \/ Take(p) \/ Accept(p, m) \/ WriteAck(p, m)
        PROVE  acks' = acks
    BY <2>3 DEF Send, Listen, Take, Accept, WriteAck, tables
  <2>4. acks' = acks \/ \E p \in Process : RecordAck(p)
    BY <2>3, Changes DEF Minor
  <2> QED  BY <2>1, <2>2, <2>4
<1> DEFINE Told(k) == Acked(k) => /\ current[k] \in accepted[to[k]]
                                  /\ pc[to[k]] # "timed out"
                                  /\ pc[to[k]] = "listening" => Queued(to[k], current[k])
           Recorded(k) == Inserting(k) \/ pc[k] = "done" => current[k].hash \in acks[Owner[k]]
<1> SUFFICES ASSUME NEW k \in Process, Sender(k)' PROVE Told(k)' /\ Recorded(k)'
  BY <1>1 DEF AckOrigin
<1>2. Sender(k) => Told(k) /\ Recorded(k) /\ to[k] \in Process /\ pc[to[k]] # "ready"
  BY DEF AckOrigin, Roles, Sender, TypeOK
<1>3. Sender(k) => to'[k] = to[k] /\ current'[k] = current[k]
  BY SenderKeeps
<1>4. ASSUME NEW p \in Process, NEW q \in Process, Send(p, q)
      PROVE  Told(k)' /\ Recorded(k)'
  <2>1. PICK m \in Message : /\ \A j \in composed : j.hash # m.hash
                             /\ current'[p] = m
    BY <1>4, SendEffect
  <2>2. /\ pc'[p] = "sending" /\ link'[p] = "open"
        /\ \A j \in Process : j # p => /\ pc'[j] = pc[j] /\ link'[j] = link[j]
                                       /\ to'[j] = to[j] /\ current'[j] = current[j]
        /\ acks' = acks /\ channel' = channel /\ accepted' = accepted
    BY <1>4, SendEffect
  <2>3. CASE k = p
    <3>1. m.hash \notin acks[Owner[p]]
      BY <2>1, OwnerAssumption DEF AckOrigin, Hashes
    <3>2. ~Acked(p)'
      BY <2>1, <2>2, <3>1 DEF Acked
    <3>3. ~Inserting(p)' /\ pc'[p] # "done"
      BY <2>2 DEF Inserting
    <3> QED  BY <2>3, <3>2, <3>3
  <2>4. CASE k # p
    <3>1. Sender(k)
      BY <2>2, <2>4 DEF Sender
    <3>2. to[k] # p
      BY <1>4, <3>1, SendIsNew
    <3>3. pc'[to[k]] = pc[to[k]]
      BY <1>2, <2>2, <3>1, <3>2
    <3>4. /\ Acked(k)' <=> Acked(k)
          /\ Inserting(k)' <=> Inserting(k)
          /\ Queued(to[k], current[k])' <=> Queued(to'[k], current'[k])
      BY <2>2, <2>4 DEF Acked, Inserting, Queued
    <3>5. Queued(to'[k], current'[k]) <=> Queued(to[k], current[k])
      BY <2>2, <2>4
    <3> QED  BY <1>2, <2>2, <2>4, <3>1, <3>3, <3>4, <3>5
  <2> QED  BY <2>3, <2>4
<1>5. ASSUME NEW p \in Process, Listen(p) PROVE Told(k)' /\ Recorded(k)'
  <2>1. UNCHANGED <<acks, current, to, link, channel, accepted>>
    BY <1>5 DEF Listen, tables
  <2>2. Sender(k) /\ k # p /\ to[k] # p
    BY <1>2, <1>5, <2>1 DEF Listen, Sender, Roles
  <2>3. pc'[k] = pc[k] /\ pc'[to[k]] = pc[to[k]]
    BY <1>2, <1>5, <2>2 DEF Listen, TypeOK
  <2> QED  BY <1>2, <2>1, <2>2, <2>3 DEF Acked, Inserting, Queued
<1>6. ASSUME NEW p \in Process, Take(p) PROVE Told(k)' /\ Recorded(k)'
  <2>1. /\ pc'[p] = "lookup" /\ UNCHANGED <<acks, to, link, accepted>>
        /\ \A j \in Process : j # p =>
              pc'[j] = pc[j] /\ current'[j] = current[j] /\ channel'[j] = channel[j]
    BY <1>6, TakeEffect
  <2>2. Sender(k) /\ k # p
    BY <1>6, <2>1 DEF Take, Sender, Roles
  <2>3. Recorded(k)'
    BY <1>2, <2>1, <2>2 DEF Inserting
  <2>4. Acked(k)' => Acked(k)
    BY <2>1, <2>2 DEF Acked
  <2>5. CASE to[k] = p
    BY <1>2, <2>1, <2>2, <2>3, <2>4, <2>5
  <2>6. CASE to[k] # p
    <3>1. pc'[to[k]] = pc[to[k]] /\ channel'[to[k]] = channel[to[k]]
      BY <1>2, <2>1, <2>2, <2>6
    <3>2. Queued(to[k], current[k]) => Queued(to[k], current[k])'
      BY <1>3, <2>2, <3>1 DEF Queued
    <3> QED  BY <1>2, <2>1, <2>2, <2>3, <2>4, <3>1, <3>2
  <2> QED  BY <2>5, <2>6
<1>7. ASSUME NEW p \in Process, NEW m \in inbox[p], Accept(p, m)
      PROVE  Told(k)' /\ Recorded(k)'
  <2>1. UNCHANGED <<acks, pc, current, to, link, channel>>
    BY <1>7, AcceptEffect
  <2>2. Sender(k)
    BY <2>1 DEF Sender
  <2>3. current[k] \in accepted[to[k]] => current[k] \in accepted'[to[k]]
    BY <1>2, <2>2, Grows
  <2> QED  BY <1>2, <2>1, <2>2, <2>3 DEF Acked, Inserting, Queued
<1>8. ASSUME NEW p \in Process, NEW m \in handler[p], WriteAck(p, m)
      PROVE  Told(k)' /\ Recorded(k)'
  <2>1. /\ pc[p] = "listening" /\ link' = LinkOf(m, "acked") /\ Queued(p, m)'
        /\ \A j \in Process : \A w : Queued(j, w) => Queued(j, w)'
        /\ UNCHANGED <<acks, pc, current, to, accepted>>
    BY <1>8, AckEffect
  <2>2. Sender(k)
    BY <2>1 DEF Sender
  <2>3. Recorded(k)'
    BY <1>2, <2>1, <2>2 DEF Inserting
  <2>4. CASE current[k] = m
    <3>1. m \in accepted[p]
      BY <1>8 DEF Placed
    <3>2. to[k] = p
      BY <2>2, <2>4, <3>1, OneReceive
    <3>3. Queued(to[k], current[k])'
      BY <2>1, <2>4, <3>2 DEF Queued
    <3> QED  BY <2>1, <2>3, <2>4, <3>1, <3>2, <3>3
  <2>5. CASE current[k] # m
    <3>1. link'[k] = link[k]
      BY <2>1, <2>5 DEF LinkOf, Waiting
    <3>2. Acked(k)' => Acked(k)
      BY <2>1, <3>1 DEF Acked
    <3>3. Queued(to[k], current[k]) => Queued(to[k], current[k])'
      <4>1. ASSUME NEW j \in Process, NEW w, Queued(j, w)
            PROVE  \E i \in 1 .. Len(channel'[j]) : channel'[j][i] = w
        BY <2>1, <4>1 DEF Queued
      <4>2. UNCHANGED <<to, current>> /\ to[k] \in Process
        BY <1>2, <2>1, <2>2
      <4> QED  BY <4>1, <4>2 DEF Queued
    <3> QED  BY <1>2, <2>1, <2>2, <2>3, <3>2, <3>3
  <2> QED  BY <2>4, <2>5
<1>9. CASE Minor
  <2>1. UNCHANGED <<composed, current, to, source, accepted>> /\ Sender(k)
    BY <1>9 DEF Minor, Sender
  <2>2. Recorded(k)'
    <3>1. acks[Owner[k]] \subseteq acks'[Owner[k]]
      BY Grows, OwnerAssumption
    <3>2. RecordAck(k) => current[k].hash \in acks'[Owner[k]]
      BY RecordAckEffect
    <3>3. /\ Inserting(k)' => Inserting(k) \/ RecordAck(k)
          /\ pc'[k] = "done" => pc[k] = "done" \/ Inserting(k)
      BY <1>9 DEF Minor, MinorAt
    <3> QED  BY <1>2, <2>1, <3>1, <3>2, <3>3
  <2>3. ASSUME Acked(k)'
        PROVE  /\ current[k] \in accepted[to[k]] /\ pc[to[k]] # "timed out"
               /\ pc[to[k]] = "listening" => Queued(to[k], current[k])
    <3>1. Acked(k)
      BY <1>9, <2>1, <2>3, MinorAcksNothing
    <3> QED  BY <1>2, <2>1, <3>1
  <2>4. /\ pc'[to[k]] = "listening" =>
              pc[to[k]] = "listening" /\ channel'[to[k]] = channel[to[k]]
        /\ pc'[to[k]] = "timed out" =>
              pc[to[k]] = "timed out" \/ (pc[to[k]] = "listening" /\ channel[to[k]] = <<>>)
    BY <1>2, <1>9, <2>1 DEF Minor, MinorAt
  <2>5. channel[to[k]] = <<>> => ~Queued(to[k], current[k])
    BY EmptySeq DEF Queued
  <2>6. pc'[to[k]] = "listening" /\ Queued(to[k], current[k]) => Queued(to[k], current[k])'
    BY <2>1, <2>4 DEF Queued
  <2>7. Told(k)'
    BY <2>1, <2>3, <2>4, <2>5, <2>6
  <2> QED  BY <2>2, <2>7
<1> QED  BY <1>4, <1>5, <1>6, <1>7, <1>8, <1>9, Changes

\* What the last statement of an insert does.
LEMMA AddRowEffect ==
    ASSUME TypeOK, NEW p \in Process, AddRow(p)
    PROVE  /\ Inserting(p) /\ pc[p] = "row" /\ current[p] \in Message
           /\ RowsOf(Owner[p], current[p]) = {}
           /\ messages'[Owner[p]] =
                messages[Owner[p]] \cup {[msg |-> current[p], at |-> at[p]]}
           /\ \A n \in Node : n # Owner[p] => messages'[n] = messages[n]
           /\ current' = current
<1>1. DOMAIN messages = Node /\ Owner[p] \in Node
  BY OwnerAssumption DEF TypeOK
<1>2. Inserting(p) /\ current[p] \in Message
  BY DEF AddRow, Inserting, TypeOK, CommandShape
<1> QED  BY <1>1, <1>2 DEF AddRow

\* What is inserted was accepted by a listener.
LEMMA InsertsAccepted ==
    ASSUME TypeOK, Roles, AckOrigin, NEW p \in Process, Inserting(p) \/ pc[p] = "done"
    PROVE  /\ current[p] \in Message
           /\ Sender(p) => /\ to[p] \in Process /\ current[p] \in accepted[to[p]]
                           /\ pc[to[p]] # "timed out"
                           /\ pc[to[p]] = "listening" => Queued(to[p], current[p])
           /\ ~Sender(p) => current[p] \in accepted[p]
           /\ \E q \in Process : current[p] \in accepted[q]
<1>1. current[p] \in Message
  BY DEF TypeOK, CommandShape
<1>2. ASSUME Sender(p)
      PROVE  /\ to[p] \in Process /\ current[p] \in accepted[to[p]]
             /\ pc[to[p]] # "timed out"
             /\ pc[to[p]] = "listening" => Queued(to[p], current[p])
  <2>1. Acked(p)
    BY <1>2 DEF AckOrigin, Acked
  <2>2. to[p] \in Process
    BY <1>2 DEF TypeOK, Sender
  <2> QED  BY <1>2, <2>1, <2>2 DEF AckOrigin
<1>3. ASSUME ~Sender(p) PROVE current[p] \in accepted[p]
  <2>1. current[p] # NoMsg
    BY <1>1, NoneAssumption
  <2> QED  BY <1>3, <2>1 DEF Roles
<1> QED  BY <1>1, <1>2, <1>3

\* A command that is done was done before, or has its row now.
LEMMA DoneHasRow ==
    ASSUME TypeOK, Next, NEW k \in Process, pc'[k] = "done"
    PROVE  \/ pc[k] = "done" /\ current'[k] = current[k]
           \/ RowsOf(Owner[k], current[k])' # {}
<1>1. ASSUME NEW p \in Process, NEW q \in Process, Send(p, q)
      PROVE  pc[k] = "done" /\ current'[k] = current[k]
  <2>1. k # p
    BY <1>1 DEF Send, TypeOK
  <2>2. \E m : current' = [current EXCEPT ![p] = m]
    BY <1>1 DEF Send
  <2> QED  BY <1>1, <2>1, <2>2 DEF Send, TypeOK
<1>2. ASSUME NEW p \in Process, Take(p)
      PROVE  pc[k] = "done" /\ current'[k] = current[k]
  BY <1>2, TakeEffect
<1>3. ASSUME NEW p \in Process, NEW m, Listen(p) \/ Accept(p, m) \/ WriteAck(p, m)
      PROVE  pc[k] = "done" /\ current'[k] = current[k]
  BY <1>3 DEF Listen, Accept, WriteAck, main, TypeOK
<1>4. CASE Minor
  <2>1. /\ current' = current
        /\ pc[k] = "done" \/ RowsOf(Owner[k], current[k])' # {}
    BY <1>4 DEF Minor, MinorAt
  <2> QED  BY <2>1
<1> QED  BY <1>1, <1>2, <1>3, <1>4, Changes

\* Every row still has a message of its own, which a listener accepted.
LEMMA RowOriginStep ==
    ASSUME TypeOK, Roles, AckOrigin, RowOrigin, Next
    PROVE  RowOrigin'
<1>1. ASSUME NEW k \in Process, pc'[k] = "done"
      PROVE  RowsOf(Owner[k], current[k])' # {}
  <2>1. CASE pc[k] = "done" /\ current'[k] = current[k]
    <3>1. PICK r \in messages[Owner[k]] : r.msg = current[k]
      BY <2>1 DEF RowOrigin, RowsOf
    <3>2. r \in messages'[Owner[k]]
      BY Grows, OwnerAssumption
    <3> QED  BY <2>1, <3>1, <3>2 DEF RowsOf
  <2>2. CASE ~(pc[k] = "done" /\ current'[k] = current[k])
    BY <1>1, <2>2, DoneHasRow
  <2> QED  BY <2>1, <2>2
<1>2. ASSUME NEW n \in Node
      PROVE  /\ \A r1, r2 \in messages'[n] : r1.msg = r2.msg => r1 = r2
             /\ \A r \in messages'[n] : \E q \in Process : r.msg \in accepted'[q]
  <2>1. /\ \A r1, r2 \in messages[n] : r1.msg = r2.msg => r1 = r2
        /\ \A r \in messages[n] : \E q \in Process : r.msg \in accepted'[q]
    <3>1. \A r \in messages[n] : \E q \in Process : r.msg \in accepted[q]
      BY DEF RowOrigin
    <3> QED  BY <3>1, Grows DEF RowOrigin
  <2>2. ASSUME NEW p \in Process, AddRow(p), n = Owner[p]
        PROVE  /\ \A r1, r2 \in messages'[n] : r1.msg = r2.msg => r1 = r2
               /\ \A r \in messages'[n] : \E q \in Process : r.msg \in accepted'[q]
    <3> DEFINE new == [msg |-> current[p], at |-> at[p]]
    <3>1. messages'[n] = messages[n] \cup {new} /\ new.msg = current[p]
      BY <2>2, AddRowEffect
    <3>2. \A r \in messages[n] : r.msg # new.msg
      BY <2>2, <3>1, AddRowEffect DEF RowsOf
    <3>3. \E q \in Process : new.msg \in accepted'[q]
      <4>1. \E q \in Process : current[p] \in accepted[q]
        BY <2>2, AddRowEffect, InsertsAccepted
      <4> QED  BY <3>1, <4>1, Grows
    <3> HIDE DEF new
    <3>4. \A r1, r2 \in messages'[n] : r1.msg = r2.msg => r1 = r2
      BY <2>1, <3>1, <3>2
    <3> QED  BY <2>1, <3>1, <3>3, <3>4
  <2>3. messages'[n] = messages[n] \/ \E p \in Process : AddRow(p) /\ n = Owner[p]
    <3>1. messages' = messages \/ \E p \in Process : AddRow(p)
      <4>1. ASSUME NEW p \in Process, NEW q \in Process, NEW m,
                   Send(p, q) \/ Listen(p) \/ Take(p) \/ Accept(p, m) \/ WriteAck(p, m)
            PROVE  messages' = messages
        BY <4>1 DEF Send, Listen, Take, Accept, WriteAck, tables
      <4> QED  BY <4>1, Changes DEF Minor
    <3> QED  BY <3>1, AddRowEffect
  <2> QED  BY <2>1, <2>2, <2>3
<1> QED  BY <1>1, <1>2 DEF RowOrigin

\* What a row of the next state stands for.
LEMMA NewlyStored ==
    ASSUME TypeOK, Next, NEW m, Stored(m)'
    PROVE  Stored(m) \/ \E p \in Process : AddRow(p) /\ m = current[p]
<1>1. PICK n \in Node : \E r \in messages'[n] : r.msg = m
  BY DEF Stored, RowsOf
<1>2. PICK r \in messages'[n] : r.msg = m
  BY <1>1
<1>3. messages' = messages \/ \E p \in Process : AddRow(p)
  <2>1. ASSUME NEW p \in Process, NEW q \in Process, NEW w,
               Send(p, q) \/ Listen(p) \/ Take(p) \/ Accept(p, w) \/ WriteAck(p, w)
        PROVE  messages' = messages
    BY <2>1 DEF Send, Listen, Take, Accept, WriteAck, tables
  <2> QED  BY <2>1, Changes DEF Minor
<1>4. r \in messages[n] \/ \E p \in Process : AddRow(p) /\ m = current[p]
  BY <1>2, <1>3, AddRowEffect
<1> QED  BY <1>2, <1>4 DEF Stored, RowsOf

\* A message that is built follows a stored one.
LEMMA FollowsStoredStep ==
    ASSUME TypeOK, Roles, SoleSender, Placed, RowOrigin, FollowsStored, Next
    PROVE  FollowsStored'
<1>1. ASSUME NEW m \in composed
      PROVE  m.prev = Zero \/ \E k \in composed' : k.hash = m.prev /\ Stored(k)'
  BY Grows DEF FollowsStored
<1>2. ASSUME NEW p \in Process, NEW q \in Process, Send(p, q) PROVE FollowsStored'
  <2>1. PICK m \in Message : m.prev \in Given(Owner[p]) /\ composed' = composed \cup {m}
    BY <1>2, SendEffect
  <2>2. ASSUME m.prev # Zero
        PROVE  \E k \in composed' : k.hash = m.prev /\ Stored(k)'
    <3>1. ASSUME NEW n \in Node, NEW r \in messages[n], r.msg.hash = m.prev
          PROVE  \E k \in composed' : k.hash = m.prev /\ Stored(k)'
      <4>1. Stored(r.msg) /\ \E s \in Process : r.msg \in accepted[s]
        BY DEF Stored, RowsOf, RowOrigin
      <4>2. r.msg \in composed'
        BY <4>1, OneReceive, Grows
      <4> QED  BY <3>1, <4>1, <4>2, Grows
    <3>2. ASSUME NEW s \in Process, pc[s] = "done", current[s].hash = m.prev
          PROVE  \E k \in composed' : k.hash = m.prev /\ Stored(k)'
      <4>1. PICK r \in messages[Owner[s]] : r.msg = current[s]
        BY <3>2 DEF RowOrigin, RowsOf
      <4> QED  BY <3>1, <3>2, <4>1, OwnerAssumption
    <3> QED  BY <2>1, <2>2, <3>1, <3>2, OwnerAssumption DEF Given, Hashes
  <2> QED  BY <1>1, <2>1, <2>2 DEF FollowsStored
<1>3. ASSUME NEW p \in Process, NEW m,
             Listen(p) \/ Take(p) \/ Accept(p, m) \/ WriteAck(p, m)
      PROVE  composed' = composed
  BY <1>3 DEF Listen, Take, Accept, WriteAck
<1>4. Minor => composed' = composed
  BY DEF Minor
<1>5. CASE composed' = composed
  BY <1>1, <1>5 DEF FollowsStored
<1> QED  BY <1>2, <1>3, <1>4, <1>5, Changes

\* What is stored while its receive listens stays in the channel.
LEMMA StoredIsQueuedStep ==
    ASSUME TypeOK, Roles, SoleSender, Placed, AckOrigin, RowOrigin, StoredIsQueued, Next
    PROVE  StoredIsQueued'
<1> SUFFICES ASSUME NEW k \in Process, pc'[k] = "listening",
                    NEW m \in accepted'[k], Stored(m)'
             PROVE  Queued(k, m)'
  BY DEF StoredIsQueued
<1>1. ASSUME pc[k] = "listening", m \in accepted[k] PROVE Queued(k, m)
  <2>1. CASE Stored(m)
    BY <1>1, <2>1 DEF StoredIsQueued
  <2>2. ASSUME NEW p \in Process, AddRow(p), m = current[p] PROVE Queued(k, m)
    <3>1. Inserting(p) /\ pc[p] = "row"
      BY <2>2, AddRowEffect
    <3>2. CASE Sender(p)
      <4>1. to[p] = k
        BY <1>1, <2>2, <3>2, OneReceive
      <4>2. pc[to[p]] = "listening" => Queued(to[p], current[p])
        BY <3>1, <3>2, InsertsAccepted
      <4> QED  BY <1>1, <2>2, <4>1, <4>2
    <3>3. CASE ~Sender(p)
      <4>1. current[p] \in accepted[p]
        BY <3>1, <3>3, InsertsAccepted
      <4>2. p = k
        BY <1>1, <2>2, <4>1, OneReceive
      <4> QED  BY <1>1, <3>1, <4>2
    <3> QED  BY <3>2, <3>3
  <2> QED  BY <2>1, <2>2, NewlyStored
<1>2. ASSUME pc[k] = "listening", m \in accepted[k], channel'[k] = channel[k]
      PROVE  Queued(k, m)'
  BY <1>1, <1>2 DEF Queued
<1>3. ASSUME NEW p \in Process, NEW q \in Process, Send(p, q) PROVE Queued(k, m)'
  <2>1. k # p /\ pc[k] = "listening" /\ channel'[k] = channel[k] /\ m \in accepted[k]
    BY <1>3, SendEffect
  <2> QED  BY <1>2, <2>1
<1>4. ASSUME NEW p \in Process, Listen(p) PROVE Queued(k, m)'
  <2>1. accepted' = accepted /\ channel' = channel
    BY <1>4 DEF Listen
  <2>2. k # p
    BY <1>4, <2>1, OneReceive DEF Listen
  <2>3. pc[k] = "listening"
    BY <1>4, <2>2 DEF Listen, TypeOK
  <2> QED  BY <1>2, <2>1, <2>3
<1>5. ASSUME NEW p \in Process, Take(p) PROVE Queued(k, m)'
  <2>1. k # p /\ accepted' = accepted
    BY <1>5, TakeEffect
  <2>2. pc[k] = "listening" /\ channel'[k] = channel[k]
    BY <1>5, <2>1, TakeEffect
  <2> QED  BY <1>2, <2>1, <2>2
<1>6. ASSUME NEW p \in Process, NEW w \in inbox[p], Accept(p, w) PROVE Queued(k, m)'
  <2>1. UNCHANGED <<messages, pc, channel>> /\ pc[k] = "listening"
    BY <1>6, AcceptEffect
  <2>2. Stored(m)
    BY <2>1 DEF Stored, RowsOf
  <2>3. m # w
    BY <1>6, <2>2, UnreadNotStored
  <2>4. m \in accepted[k]
    <3>1. CASE k = p
      BY <1>6, <2>3, <3>1, AcceptEffect
    <3>2. CASE k # p
      BY <1>6, <3>2, AcceptEffect
    <3> QED  BY <3>1, <3>2
  <2> QED  BY <1>2, <2>1, <2>4
<1>7. ASSUME NEW p \in Process, NEW w \in handler[p], WriteAck(p, w) PROVE Queued(k, m)'
  <2>1. pc[k] = "listening" /\ m \in accepted[k] /\ (Queued(k, m) => Queued(k, m)')
    BY <1>7, AckEffect
  <2> QED  BY <1>1, <2>1
<1>8. CASE Minor
  BY <1>2, <1>8 DEF Minor, MinorAt
<1> QED  BY <1>3, <1>4, <1>5, <1>6, <1>7, <1>8, Changes

\* The predecessor of a message, when it is one of the messages composed, is stored.
LEMMA PredecessorStored ==
    ASSUME TypeOK, ComposedUnique, FollowsStored,
           NEW m \in composed, NEW k \in composed, k.hash = m.prev
    PROVE  Stored(k)
<1>1. k \in Message
  BY DEF TypeOK
<1>2. k.hash # Zero
  BY <1>1, NoneAssumption DEF Message
<1>3. PICK j \in composed : j.hash = m.prev /\ Stored(j)
  BY <1>2 DEF FollowsStored
<1>4. j = k
  BY <1>3 DEF ComposedUnique
<1> QED  BY <1>3, <1>4

\* The channel stays in the order of the chain.
LEMMA QueuedInOrderStep ==
    ASSUME TypeOK, ComposedUnique, Roles, SoleSender, Placed, RowOrigin, FollowsStored,
           StoredIsQueued, QueuedInOrder, Next
    PROVE  QueuedInOrder'
<1> SUFFICES ASSUME NEW k \in Process, pc'[k] = "listening",
                    NEW i \in 1 .. Len(channel'[k]), NEW m \in accepted'[k],
                    m.hash = channel'[k][i].prev
             PROVE  \E j \in 1 .. Len(channel'[k]) : j < i /\ channel'[k][j] = m
  BY DEF QueuedInOrder
<1>1. ASSUME pc[k] = "listening", m \in accepted[k], channel'[k] = channel[k]
      PROVE  \E j \in 1 .. Len(channel'[k]) : j < i /\ channel'[k][j] = m
  BY <1>1 DEF QueuedInOrder
<1>2. ASSUME NEW p \in Process, NEW q \in Process, Send(p, q)
      PROVE  pc[k] = "listening" /\ m \in accepted[k] /\ channel'[k] = channel[k]
  <2>1. k # p /\ UNCHANGED <<channel, accepted>>
    BY <1>2, SendEffect
  <2>2. pc'[k] = pc[k]
    BY <1>2, <2>1, SendEffect
  <2> QED  BY <2>1, <2>2
<1>3. ASSUME NEW p \in Process, Listen(p)
      PROVE  pc[k] = "listening" /\ m \in accepted[k] /\ channel'[k] = channel[k]
  <2>1. accepted' = accepted /\ channel' = channel
    BY <1>3 DEF Listen
  <2>2. k # p
    BY <1>3, <2>1, OneReceive DEF Listen
  <2>3. pc[k] = "listening"
    BY <1>3, <2>2 DEF Listen, TypeOK
  <2> QED  BY <2>1, <2>3
<1>4. ASSUME NEW p \in Process, Take(p)
      PROVE  pc[k] = "listening" /\ m \in accepted[k] /\ channel'[k] = channel[k]
  <2>1. k # p /\ accepted' = accepted
    BY <1>4, TakeEffect
  <2>2. pc'[k] = pc[k] /\ channel'[k] = channel[k]
    BY <1>4, <2>1, TakeEffect
  <2> QED  BY <2>1, <2>2
<1>5. ASSUME NEW p \in Process, NEW w \in inbox[p], Accept(p, w)
      PROVE  pc[k] = "listening" /\ m \in accepted[k] /\ channel'[k] = channel[k]
  <2>1. UNCHANGED <<pc, channel>> /\ pc[k] = "listening"
    BY <1>5, AcceptEffect
  <2>2. ASSUME k = p PROVE m # w
    <3> DEFINE f == channel[k][i]
    <3>1. f \in accepted[p]
      BY <2>1, <2>2 DEF Placed
    <3>2. f \in composed /\ w \in composed
      BY <3>1, OneReceive
    <3>3. ~Stored(w)
      BY UnreadNotStored
    <3>4. w.hash # f.prev
      BY <3>2, <3>3, PredecessorStored
    <3> QED  BY <2>1, <3>4
  <2>3. CASE k = p
    BY <1>5, <2>1, <2>2, <2>3, AcceptEffect
  <2>4. CASE k # p
    BY <1>5, <2>1, <2>4, AcceptEffect
  <2> QED  BY <2>3, <2>4
<1>6. ASSUME NEW p \in Process, NEW w \in handler[p], WriteAck(p, w)
      PROVE  \E j \in 1 .. Len(channel'[k]) : j < i /\ channel'[k][j] = m
  <2>1. UNCHANGED <<pc, accepted>> /\ pc[k] = "listening" /\ m \in accepted[k]
    BY <1>6, AckEffect
  <2>2. CASE k # p
    BY <1>1, <1>6, <2>1, <2>2, AckEffect
  <2>3. CASE k = p
    <3>1. /\ Len(channel[k]) \in Nat /\ Len(channel'[k]) = Len(channel[k]) + 1
          /\ \A j \in 1 .. Len(channel[k]) : channel'[k][j] = channel[k][j]
          /\ channel'[k][Len(channel[k]) + 1] = w
      BY <1>6, <2>3, AckEffect
    <3>2. CASE i \in 1 .. Len(channel[k])
      <4>1. PICK j \in 1 .. Len(channel[k]) : j < i /\ channel[k][j] = m
        BY <2>1, <3>1, <3>2 DEF QueuedInOrder
      <4> QED  BY <3>1, <4>1
    <3>3. CASE i \notin 1 .. Len(channel[k])
      <4>1. i = Len(channel[k]) + 1
        BY <3>1, <3>3
      <4>2. m.hash = w.prev /\ w \in accepted[p]
        BY <3>1, <4>1 DEF Placed
      <4>3. Stored(m)
        <5>1. m \in composed /\ w \in composed
          BY <2>1, <4>2, OneReceive
        <5> QED  BY <4>2, <5>1, PredecessorStored
      <4>4. PICK j \in 1 .. Len(channel[k]) : channel[k][j] = m
        BY <2>1, <4>3 DEF StoredIsQueued, Queued
      <4> QED  BY <3>1, <4>1, <4>4
    <3> QED  BY <3>2, <3>3
  <2> QED  BY <2>2, <2>3
<1>7. CASE Minor
  BY <1>1, <1>7 DEF Minor, MinorAt
<1> QED  BY <1>1, <1>2, <1>3, <1>4, <1>5, <1>6, <1>7, Changes

\* A receive stores the first message of its chain.
LEMMA ReceivesTheFirstStep ==
    ASSUME TypeOK, Placed, QueuedInOrder, ReceivesTheFirst, Next
    PROVE  ReceivesTheFirst'
<1> SUFFICES ASSUME NEW k \in Process, to'[k] = NoProcess,
                    Inserting(k)' \/ pc'[k] = "done", NEW m \in accepted'[k]
             PROVE  m.hash # current'[k].prev
  BY DEF ReceivesTheFirst
<1>1. ASSUME to[k] = NoProcess, Inserting(k) \/ pc[k] = "done",
             m \in accepted[k], current'[k] = current[k]
      PROVE  m.hash # current'[k].prev
  BY <1>1 DEF ReceivesTheFirst
<1>2. ASSUME NEW p \in Process, NEW q \in Process, Send(p, q)
      PROVE  m.hash # current'[k].prev
  <2>1. k # p
    BY <1>2, NoneAssumption DEF Send, TypeOK
  <2>2. \E w : current' = [current EXCEPT ![p] = w]
    BY <1>2 DEF Send
  <2>3. /\ pc'[k] = pc[k] /\ to'[k] = to[k] /\ current'[k] = current[k]
        /\ accepted' = accepted
    BY <1>2, <2>1, <2>2 DEF Send, TypeOK
  <2> QED  BY <1>1, <2>3 DEF Inserting
<1>3. ASSUME NEW p \in Process, Listen(p) PROVE m.hash # current'[k].prev
  <2>1. UNCHANGED <<to, current, accepted>> /\ (pc'[k] = pc[k] \/ pc'[k] = "listening")
    BY <1>3 DEF Listen, TypeOK
  <2> QED  BY <1>1, <2>1 DEF Inserting
<1>4. ASSUME NEW p \in Process, Take(p) PROVE m.hash # current'[k].prev
  <2>1. UNCHANGED <<to, accepted>>
    BY <1>4, TakeEffect
  <2>2. CASE k = p
    <3>1. /\ pc[p] = "listening" /\ 1 \in 1 .. Len(channel[p])
          /\ current'[p] = channel[p][1]
      BY <1>4, TakeEffect
    <3>2. ASSUME m.hash = channel[p][1].prev PROVE FALSE
      <4>1. PICK j \in 1 .. Len(channel[p]) : j < 1
        BY <2>1, <2>2, <3>1, <3>2 DEF QueuedInOrder
      <4> QED  BY <4>1
    <3> QED  BY <2>2, <3>1, <3>2
  <2>3. CASE k # p
    <3>1. pc'[k] = pc[k] /\ current'[k] = current[k]
      BY <1>4, <2>3, TakeEffect
    <3> QED  BY <1>1, <2>1, <3>1 DEF Inserting
  <2> QED  BY <2>2, <2>3
<1>5. ASSUME NEW p \in Process, NEW w \in inbox[p], Accept(p, w)
      PROVE  m.hash # current'[k].prev
  <2>1. UNCHANGED <<pc, to, current>> /\ pc[p] = "listening"
    BY <1>5, AcceptEffect
  <2>2. k # p
    BY <2>1 DEF Inserting
  <2>3. accepted'[k] = accepted[k]
    BY <1>5, <2>2, AcceptEffect
  <2> QED  BY <1>1, <2>1, <2>3 DEF Inserting
<1>6. ASSUME NEW p \in Process, NEW w \in handler[p], WriteAck(p, w)
      PROVE  m.hash # current'[k].prev
  <2>1. UNCHANGED <<pc, to, current, accepted>>
    BY <1>6, AckEffect
  <2> QED  BY <1>1, <2>1 DEF Inserting
<1>7. CASE Minor
  <2>1. UNCHANGED <<to, current, accepted>>
    BY <1>7 DEF Minor
  <2>2. /\ Inserting(k)' => Inserting(k) \/ RecordAck(k)
        /\ pc'[k] = "done" => pc[k] = "done" \/ Inserting(k)
    BY <1>7 DEF Minor, MinorAt
  <2>3. ~RecordAck(k)
    BY <2>1, NoneAssumption DEF RecordAck, TypeOK, CommandShape
  <2> QED  BY <1>1, <2>1, <2>2, <2>3
<1> QED  BY <1>2, <1>3, <1>4, <1>5, <1>6, <1>7, Changes

\* A send that waits goes on to be in the hands of a receive that runs.
LEMMA WaitingSendIsHeldStep ==
    ASSUME TypeOK, Roles, WaitingSendIsHeld, Next
    PROVE  WaitingSendIsHeld'
<1> SUFFICES ASSUME NEW k \in Process, link'[k] = "open"
             PROVE  Bound(to[k])' /\ current'[k] \in inbox'[to'[k]] \cup handler'[to'[k]]
  BY DEF WaitingSendIsHeld
<1> DEFINE Goal == Bound(to[k])' /\ current'[k] \in inbox'[to'[k]] \cup handler'[to'[k]]
           Runs(j) == \/ pc[j] = "listening"
                      \/ /\ pc[j] \in {"lookup", "conversation", "touch", "row"}
                         /\ to[j] = NoProcess
           h == to[k]
           m == current[k]
<1>1. ASSUME link[k] = "open"
      PROVE  /\ h \in Process /\ m \in inbox[h] \cup handler[h] /\ Runs(h)
             /\ pc[k] = "sending" /\ Sender(k)
  <2>1. pc[k] = "sending" /\ to[k] \in Process
    BY <1>1 DEF TypeOK, CommandShape
  <2>2. Bound(to[k]) /\ current[k] \in inbox[to[k]] \cup handler[to[k]]
    BY <1>1 DEF WaitingSendIsHeld
  <2> QED  BY <2>1, <2>2, NoneAssumption DEF Bound, Inserting, Sender
<1>2. ASSUME NEW j \in Process, to'[k] = j, Runs(j)',
             current'[k] \in inbox'[j] \cup handler'[j]
      PROVE  Goal
  BY <1>2 DEF Bound, Inserting
<1>3. ASSUME link[k] = "open", to' = to, current'[k] = m, Runs(h)',
             m \in inbox'[h] \cup handler'[h]
      PROVE  Goal
  BY <1>1, <1>2, <1>3
<1> HIDE DEF Goal
<1>4. ASSUME NEW p \in Process, NEW q \in Process, Send(p, q) PROVE Goal
  <2>1. PICK w : current'[p] = w /\ inbox'[q] = inbox[q] \cup {w}
    BY <1>4, SendEffect
  <2>2. /\ p # q /\ to'[p] = q /\ handler' = handler
        /\ \A j \in Process : j # p => /\ pc'[j] = pc[j] /\ link'[j] = link[j]
                                       /\ to'[j] = to[j] /\ current'[j] = current[j]
        /\ \A j \in Process : j # q => inbox'[j] = inbox[j]
    BY <1>4, SendEffect
  <2>3. Runs(q)
    BY <1>4 DEF Send, Bound, Inserting
  <2>4. CASE k = p
    <3>1. Runs(q)'
      BY <2>2, <2>3
    <3> QED  BY <1>2, <2>1, <2>2, <2>4, <3>1
  <2>5. CASE k # p
    <3>1. link[k] = "open" /\ current'[k] = m /\ to'[k] = h
      BY <2>2, <2>5
    <3>2. h # p
      BY <1>1, <1>4, <3>1, SendIsNew
    <3>3. Runs(h)'
      BY <1>1, <2>2, <3>1, <3>2
    <3>4. inbox[h] \subseteq inbox'[h] /\ handler'[h] = handler[h]
      BY <1>1, <2>1, <2>2, <3>1
    <3> QED  BY <1>1, <1>2, <3>1, <3>3, <3>4
  <2> QED  BY <2>4, <2>5
<1>5. ASSUME NEW p \in Process, SendRefused(p) \/ Listen(p) PROVE Goal
  <2>1. UNCHANGED <<current, to, link, inbox, handler>> /\ pc[p] = "ready"
    BY <1>5 DEF SendRefused, Listen, listener
  <2>2. h # p /\ link[k] = "open"
    BY <1>1, <2>1
  <2>3. pc'[h] = pc[h]
    BY <1>1, <1>5, <2>2 DEF SendRefused, Listen, TypeOK
  <2> QED  BY <1>1, <1>3, <2>1, <2>2, <2>3
<1>6. ASSUME NEW p \in Process, RecordAck(p) PROVE Goal
  <2>1. UNCHANGED <<current, to, inbox, handler>> /\ pc[p] = "sending"
    BY <1>6 DEF RecordAck, listener
  <2>2. link[k] = "open"
    BY <1>6 DEF RecordAck, TypeOK
  <2>3. h # p
    BY <1>1, <2>1, <2>2
  <2>4. pc'[h] = pc[h]
    BY <1>1, <1>6, <2>2, <2>3 DEF RecordAck, TypeOK
  <2> QED  BY <1>1, <1>3, <2>1, <2>2, <2>4
<1>7. ASSUME NEW p \in Process, NEW how, Exit(p, how), UNCHANGED <<current, to>> PROVE Goal
  <2>1. k # p /\ link[k] = "open" /\ h # p
    BY <1>7, ExitEffect
  <2>2. pc'[h] = pc[h] /\ inbox'[h] = inbox[h] /\ handler'[h] = handler[h]
    BY <1>1, <1>7, <2>1, ExitEffect
  <2> QED  BY <1>1, <1>3, <1>7, <2>1, <2>2
<1>8. ASSUME NEW p \in Process, NotStored(p) \/ AddConversation(p) \/ Touch(p) PROVE Goal
  <2>1. UNCHANGED <<current, to, link, inbox, handler>> /\ link[k] = "open"
    BY <1>8 DEF NotStored, AddConversation, Touch, listener
  <2>2. \/ pc'[h] = pc[h]
        \/ /\ h = p /\ pc[p] # "listening"
           /\ pc'[h] \in {"lookup", "conversation", "touch", "row"}
    BY <1>1, <1>8, <2>1 DEF NotStored, AddConversation, Touch, TypeOK
  <2> QED  BY <1>1, <1>3, <2>1, <2>2
<1>9. ASSUME NEW p \in Process, LoseConnection(p) PROVE Goal
  <2>1. UNCHANGED <<pc, current, to, inbox, handler>>
    BY <1>9 DEF LoseConnection, main, listener
  <2>2. link[k] = "open"
    BY <1>9 DEF LoseConnection, TypeOK
  <2> QED  BY <1>1, <1>3, <2>1, <2>2
<1>10. ASSUME NEW p \in Process, Take(p) PROVE Goal
  <2>1. /\ pc[p] = "listening" /\ pc'[p] = "lookup"
        /\ UNCHANGED <<to, link, inbox, handler>>
        /\ \A j \in Process : j # p => pc'[j] = pc[j] /\ current'[j] = current[j]
    BY <1>10, TakeEffect
  <2>2. link[k] = "open" /\ to[p] = NoProcess
    BY <2>1 DEF Roles, Sender
  <2>3. k # p
    BY <1>1, <2>1, <2>2
  <2>4. Runs(h)'
    BY <1>1, <2>1, <2>2
  <2> QED  BY <1>1, <1>3, <2>1, <2>2, <2>3, <2>4
<1>11. ASSUME NEW p \in Process, NEW w, NEW state \in {"acked", "closed"},
              link' = LinkOf(w, state)
       PROVE  link[k] = "open" /\ w # m
  BY <1>11 DEF LinkOf, Waiting
<1>12. ASSUME NEW p \in Process, NEW w, LoseRequest(p, w) \/ Refuse(p, w) PROVE Goal
  <2>1. link' = LinkOf(w, "closed") /\ UNCHANGED <<pc, current, to, handler>>
        /\ inbox' = [inbox EXCEPT ![p] = @ \ {w}]
    BY <1>12 DEF LoseRequest, Refuse, main
  <2>2. link[k] = "open" /\ w # m
    BY <1>11, <2>1
  <2>3. m \in inbox[h] => m \in inbox'[h]
    BY <1>1, <2>1, <2>2 DEF TypeOK
  <2> QED  BY <1>1, <1>3, <2>1, <2>2, <2>3
<1>13. ASSUME NEW p \in Process, NEW w \in inbox[p], Accept(p, w) PROVE Goal
  <2>1. UNCHANGED <<pc, current, to, link>>
    BY <1>13, AcceptEffect
  <2>2. \A j \in Process : inbox[j] \cup handler[j] \subseteq inbox'[j] \cup handler'[j]
    BY <1>13, AcceptEffect
  <2>3. link[k] = "open"
    BY <2>1
  <2> QED  BY <1>1, <1>3, <2>1, <2>2, <2>3
<1>14. ASSUME NEW p \in Process, NEW w \in handler[p], WriteAck(p, w) PROVE Goal
  <2>1. link' = LinkOf(w, "acked") /\ UNCHANGED <<pc, current, to, inbox>>
    BY <1>14, AckEffect
  <2>2. link[k] = "open" /\ w # m
    BY <1>11, <2>1
  <2>3. m \in handler[h] => m \in handler'[h]
    BY <1>1, <1>14, <2>2, AckEffect
  <2> QED  BY <1>1, <1>3, <2>1, <2>2, <2>3
<1>15. ASSUME NEW p \in Process, NEW w \in handler[p], AckWriteFails(p, w) PROVE Goal
  <2>1. /\ UNCHANGED <<pc, current, to, link, inbox>> /\ Waiting(w) = {}
        /\ handler' = [handler EXCEPT ![p] = @ \ {w}]
    BY <1>15 DEF AckWriteFails, main
  <2>2. link[k] = "open" /\ w # m
    BY <2>1 DEF Waiting
  <2>3. m \in handler[h] => m \in handler'[h]
    BY <1>1, <2>1, <2>2 DEF TypeOK
  <2> QED  BY <1>1, <1>3, <2>1, <2>2, <2>3
<1>16. ASSUME NEW n \in Node, NEW c \in Conv, EnsureConversation(n, c) PROVE Goal
  <2>1. UNCHANGED <<pc, current, to, link, inbox, handler>>
    BY <1>16 DEF EnsureConversation, main, listener
  <2> QED  BY <1>1, <1>3, <2>1
<1>17. ASSUME NEW p \in Process,
              Quit(p) \/ SendFails(p) \/ TimeOut(p) \/ AlreadyStored(p) \/ AddRow(p)
       PROVE  Goal
  <2>1. UNCHANGED <<current, to>> /\ \E how : Exit(p, how)
    BY <1>17 DEF Quit, SendFails, TimeOut, AlreadyStored, AddRow
  <2> QED  BY <1>7, <2>1
<1>18. ASSUME NEW p \in Process, NEW w \in inbox[p] \cup handler[p], Handle(p, w) PROVE Goal
  <2>1. Accept(p, w) => w \in inbox[p]
    BY DEF Accept
  <2>2. WriteAck(p, w) \/ AckWriteFails(p, w) => w \in handler[p]
    BY DEF WriteAck, AckWriteFails
  <2> QED  BY <1>12, <1>13, <1>14, <1>15, <1>18, <2>1, <2>2 DEF Handle
<1>19. ASSUME NEW p \in Process, Main(p) PROVE Goal
  BY <1>6, <1>8, <1>10, <1>17, <1>19 DEF Main
<1>20. Goal
  BY <1>4, <1>5, <1>9, <1>12, <1>16, <1>17, <1>18, <1>19 DEF Next, Command
<1> QED  BY <1>20 DEF Goal

\* Initially nobody holds anything.
LEMMA InitHoldInv == Init => HoldInv
<1> SUFFICES ASSUME Init PROVE HoldInv
  OBVIOUS
<1> USE DEF Init
<1>1. ComposedUnique /\ SoleSender /\ Roles
  BY DEF ComposedUnique, SoleSender, Roles, Sender
<1>2. \A p \in Process : Len(channel[p]) = 0
  BY EmptySeq
<1>3. Placed /\ QueuedInOrder
  BY <1>2 DEF Placed, QueuedInOrder
<1>4. AckOrigin /\ RowOrigin
  BY DEF AckOrigin, RowOrigin, Sender, Hashes
<1>5. FollowsStored /\ StoredIsQueued /\ ReceivesTheFirst /\ WaitingSendIsHeld
  BY DEF FollowsStored, StoredIsQueued, ReceivesTheFirst, WaitingSendIsHeld, Inserting
<1> QED  BY <1>1, <1>3, <1>4, <1>5 DEF HoldInv

\* A step that changes nothing changes nobody's hands.
LEMMA StutterHoldInv ==
    ASSUME HoldInv, UNCHANGED vars
    PROVE  HoldInv'
<1> USE DEF vars, tables, main, listener
<1>1. ComposedUnique' /\ SoleSender' /\ Roles'
  BY DEF HoldInv, ComposedUnique, SoleSender, Roles, Sender
<1>2. Placed' /\ QueuedInOrder'
  BY DEF HoldInv, Placed, QueuedInOrder
<1>3. RowOrigin' /\ FollowsStored'
  BY DEF HoldInv, RowOrigin, RowsOf, FollowsStored, Stored
<1>4. AckOrigin'
  BY DEF HoldInv, AckOrigin, Acked, Sender, Queued, Inserting, Hashes
<1>5. StoredIsQueued'
  BY DEF HoldInv, StoredIsQueued, Stored, RowsOf, Queued
<1>6. ReceivesTheFirst' /\ WaitingSendIsHeld'
  BY DEF HoldInv, ReceivesTheFirst, WaitingSendIsHeld, Inserting, Bound
<1> QED  BY <1>1, <1>2, <1>3, <1>4, <1>5, <1>6 DEF HoldInv

\* Every message, row and ACK is where the commands that hold it say, and every
\* channel keeps the order of its chain.
THEOREM HoldInvCorrect == Spec => []HoldInv
<1>1. TypeOK /\ HoldInv /\ [Next]_vars => HoldInv'
  <2>1. ASSUME TypeOK, HoldInv, Next PROVE HoldInv'
    <3>1. /\ ComposedUnique /\ Roles /\ SoleSender /\ Placed /\ AckOrigin /\ RowOrigin
          /\ FollowsStored /\ StoredIsQueued /\ QueuedInOrder
          /\ ReceivesTheFirst /\ WaitingSendIsHeld
      BY <2>1 DEF HoldInv
    <3>2. ComposedUnique' /\ Roles' /\ SoleSender' /\ Placed'
      BY <2>1, <3>1, ComposedUniqueStep, RolesStep, SoleSenderStep, PlacedStep
    <3>3. AckOrigin' /\ RowOrigin'
      BY <2>1, <3>1, AckOriginStep, RowOriginStep
    <3>4. FollowsStored' /\ StoredIsQueued'
      BY <2>1, <3>1, FollowsStoredStep, StoredIsQueuedStep
    <3>5. QueuedInOrder'
      BY <2>1, <3>1, QueuedInOrderStep
    <3>6. ReceivesTheFirst' /\ WaitingSendIsHeld'
      BY <2>1, <3>1, ReceivesTheFirstStep, WaitingSendIsHeldStep
    <3> QED  BY <3>2, <3>3, <3>4, <3>5, <3>6 DEF HoldInv
  <2> QED  BY <2>1, StutterHoldInv
<1> QED  BY InitHoldInv, <1>1, TypeCorrect, PTL DEF Spec

\* What a send reports as delivered was accepted by a receive of its peer that
\* waited for this node (validate_message_ack), and run_send leaves it in the
\* history once, with its ACK.
THEOREM DeliveredIsTrueAlways == Spec => []DeliveredIsTrue
<1>1. TypeOK /\ HoldInv => DeliveredIsTrue
  <2> SUFFICES ASSUME TypeOK, HoldInv, NEW p \in Process, pc[p] = "done", Sender(p)
               PROVE  /\ current[p] \in accepted[to[p]]
                      /\ Owner[to[p]] = current[p].dst /\ source[to[p]] = Owner[p]
                      /\ current[p].hash \in acks[Owner[p]]
                      /\ Cardinality(RowsOf(Owner[p], current[p])) = 1
    BY DEF DeliveredIsTrue, Sender
  <2>1. to[p] \in Process /\ current[p] \in accepted[to[p]]
    BY InsertsAccepted DEF HoldInv
  <2>2. current[p].src = source[to[p]] /\ current[p].dst = Owner[to[p]]
    BY <2>1 DEF HoldInv, Placed
  <2>3. current[p].src = Owner[p]
    BY DEF HoldInv, Roles
  <2>4. current[p].hash \in acks[Owner[p]]
    BY DEF HoldInv, AckOrigin
  <2>5. Cardinality(RowsOf(Owner[p], current[p])) = 1
    <3>1. PICK r : r \in RowsOf(Owner[p], current[p])
      BY DEF HoldInv, RowOrigin
    <3>2. RowsOf(Owner[p], current[p]) = {r}
      BY <3>1, OwnerAssumption DEF HoldInv, RowOrigin, RowsOf
    <3> QED  BY <3>2, FS_Singleton
  <2> QED  BY <2>1, <2>2, <2>3, <2>4, <2>5
<1> QED  BY <1>1, TypeCorrect, HoldInvCorrect, PTL

\* A receive whose timer ran out has acknowledged nothing (timeout() polls
\* recv() first): no message that was lost with it counts as delivered.
THEOREM TimeOutAcknowledgesNothingAlways == Spec => []TimeOutAcknowledgesNothing
<1>1. TypeOK /\ HoldInv => TimeOutAcknowledgesNothing
  <2> SUFFICES ASSUME TypeOK, HoldInv, NEW p \in Process, NEW q \in Process,
                      pc[p] = "timed out", current[q] \in accepted[p]
               PROVE  ~Acked(q)
    BY DEF TimeOutAcknowledgesNothing, Acked
  <2>1. CASE Sender(q)
    <3>1. to[q] = p
      BY <2>1, OneReceive DEF HoldInv
    <3> QED  BY <2>1, <3>1 DEF HoldInv, AckOrigin
  <2>2. CASE ~Sender(q)
    <3>1. current[q] \in Message /\ current[q] \in composed
      BY OneReceive DEF HoldInv
    <3>2. current[q] \in accepted[q]
      BY <2>2, <3>1, NoneAssumption DEF HoldInv, Roles
    <3>3. q = p
      BY <3>2, OneReceive DEF HoldInv
    <3>4. current[q] = NoMsg
      BY <3>3 DEF HoldInv, Roles
    <3> QED  BY <3>1, <3>4, NoneAssumption
  <2> QED  BY <2>1, <2>2
<1> QED  BY <1>1, TypeCorrect, HoldInvCorrect, PTL

\* The message that run_receive stores follows no other that its listener
\* accepted: handle_connection fills the channel in the order of the chain.
THEOREM ReceivesTheFirstAlways == Spec => []ReceivesTheFirst
<1>1. HoldInv => ReceivesTheFirst
  BY DEF HoldInv
<1> QED  BY <1>1, HoldInvCorrect, PTL

\* A send that waits for its ACK is in the hands of a receive that still runs:
\* when that process ends, its sockets close and the send ends with it.
THEOREM WaitingSendIsHeldAlways == Spec => []WaitingSendIsHeld
<1>1. HoldInv => WaitingSendIsHeld
  BY DEF HoldInv
<1> QED  BY <1>1, HoldInvCorrect, PTL
=============================================================================
