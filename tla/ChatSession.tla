---------------------------- MODULE ChatSession ----------------------------
(***************************************************************************)
(* Two peers that hold `chat` sessions with each other (cli/commands.rs,   *)
(* run_chat) over the type-4/type-5 message transport                      *)
(* (message_transport.rs) and keep what they exchanged in SQLite.          *)
(*                                                                         *)
(* A session is one process: its main task runs the select! loop, and its  *)
(* listener runs one handler task per inbound TCP connection.  What a      *)
(* process does between two awaits is one action, except that a crash may  *)
(* fall between two SQLite statements.  Every TCP connection carries one   *)
(* message one way and its ACK the other way.                              *)
(*                                                                         *)
(* A message is known by its SHA-256, a fresh element of Hash.  Payload,   *)
(* headers and cryptography are left out: the peer is the honest holder of *)
(* the trusted key, so version, UUID, fingerprint and signature checks all *)
(* pass.  A stale timestamp, a truncated frame and a reset connection have *)
(* the same effect on both ends and are LoseRequest.                       *)
(***************************************************************************)
EXTENDS Naturals, FiniteSets, Sequences

CONSTANTS
    Node,   \* the peers
    Peer,   \* Peer[n] is the contact that n chats with
    Conv,   \* conversation UUIDs
    Hash,   \* message hashes; as many messages are ever composed
    Zero,   \* the all-zero previous hash of a first message
    NoMsg   \* no message in flight

ASSUME PeerAssumption ==
    /\ Peer \in [Node -> Node]
    /\ \A n \in Node : Peer[n] # n /\ Peer[Peer[n]] = n

ASSUME ZeroAssumption == Zero \notin Hash

Message == [hash : Hash, src : Node, conv : Conv, prev : Hash \cup {Zero}]

ASSUME NoMsgAssumption == NoMsg \notin Message

VARIABLES
    \* Durable: the SQLite file of each node.
    store,      \* store[n]: rows of `messages`
    acks,       \* acks[n]: hashes in `message_acks`
    \* The main task of each node's session.
    pc,         \* "down", "loop" (in select!), "sending" (awaiting the ACK), "insert"
    conv,       \* the conversation the session was opened for
    latest,     \* run_chat's latest_hash
    expired,    \* the --duration-ms timer has fired
    sending,    \* the message main is sending, or NoMsg
    link,       \* its connection: "idle", "open", "acked" (ACK readable), "closed"
    \* The listener of each node's session.
    inbox,      \* requests written to the listener's sockets and not yet read
    expected,   \* the mutex-guarded expected_previous_hash
    handler,    \* accepted messages whose handler has not written the ACK yet
    queue,      \* the mpsc channel, handlers parked on a full channel at its end
    \* History variables: no code reads them.
    composed,   \* every message ever sent
    accepted,   \* accepted[n]: every message n's listeners ever accepted
    taken       \* hash of the last message the main task took from the channel

disk == <<store, acks>>
main == <<pc, conv, latest, expired>>
wire == <<sending, link>>
listener == <<inbox, expected, handler, queue>>
history == <<composed, accepted, taken>>
vars == <<disk, main, wire, listener, history>>

Hashes(S) == {m.hash : m \in S}
InConv(S, c) == {m \in S : m.conv = c}

----------------------------------------------------------------------------
(* What run_chat asks of the conversation engine when it opens and when it *)
(* stops. History models the ordering itself.                              *)

\* order_history answers unless two messages follow the same stored one.
Readable(S) ==
    \A m1, m2 \in S :
        (m1.prev = m2.prev /\ m1.prev \in Hashes(S)) => m1 = m2

\* The hash of the last history row. Which of several segments comes last is
\* settled by timestamps and UUIDs, abstracted to a choice of the segment.
Heads(S) ==
    IF S = {} THEN {Zero} ELSE {h \in Hashes(S) : \A m \in S : m.prev # h}

----------------------------------------------------------------------------
Init ==
    /\ store = [n \in Node |-> {}]
    /\ acks = [n \in Node |-> {}]
    /\ pc = [n \in Node |-> "down"]
    /\ conv \in [Node -> Conv]
    /\ latest = [n \in Node |-> Zero]
    /\ expired = [n \in Node |-> FALSE]
    /\ sending = [n \in Node |-> NoMsg]
    /\ link = [n \in Node |-> "idle"]
    /\ inbox = [n \in Node |-> {}]
    /\ expected = [n \in Node |-> Zero]
    /\ handler = [n \in Node |-> {}]
    /\ queue = [n \in Node |-> <<>>]
    /\ composed = {}
    /\ accepted = [n \in Node |-> {}]
    /\ taken = [n \in Node |-> Zero]

\* chat reads the history, takes its last hash and starts the listener with it.
StartChat(n, c) ==
    /\ pc[n] = "down"
    /\ Readable(InConv(store[n], c))
    /\ \E h \in Heads(InConv(store[n], c)) :
          /\ latest' = [latest EXCEPT ![n] = h]
          /\ expected' = [expected EXCEPT ![n] = h]
          /\ taken' = [taken EXCEPT ![n] = h]
    /\ pc' = [pc EXCEPT ![n] = "loop"]
    /\ conv' = [conv EXCEPT ![n] = c]
    /\ UNCHANGED <<disk, expired, wire, inbox, handler, queue, composed, accepted>>

\* chat_history fails with BrokenChain, and chat exits before it listens.
StartRefused(n, c) ==
    /\ pc[n] = "down"
    /\ ~Readable(InConv(store[n], c))
    /\ UNCHANGED vars

\* Mutant of Exit: the service is leaked, and its channel outlives the session.
ExitKeepsQueue(n) ==
    /\ pc' = [pc EXCEPT ![n] = "down"]
    /\ expired' = [expired EXCEPT ![n] = FALSE]
    /\ sending' = [sending EXCEPT ![n] = NoMsg]
    /\ link' = [link EXCEPT ![n] = "idle",
                            ![Peer[n]] = IF @ = "open" THEN "closed" ELSE @]
    /\ inbox' = [inbox EXCEPT ![n] = {}]
    /\ handler' = [handler EXCEPT ![n] = {}]
    /\ UNCHANGED <<disk, conv, latest, expected, queue, history>>

\* The process ends: the listener task and its handlers are aborted, unread
\* requests and queued messages are dropped, and the kernel closes the sockets
\* (an ACK already written still reaches the peer).
Exit(n) ==
    /\ pc' = [pc EXCEPT ![n] = "down"]
    /\ expired' = [expired EXCEPT ![n] = FALSE]
    /\ sending' = [sending EXCEPT ![n] = NoMsg]
    /\ link' = [link EXCEPT ![n] = "idle",
                            ![Peer[n]] = IF @ = "open" THEN "closed" ELSE @]
    /\ inbox' = [inbox EXCEPT ![n] = {}]
    /\ handler' = [handler EXCEPT ![n] = {}]
    /\ queue' = [queue EXCEPT ![n] = <<>>]
    /\ latest' = [latest EXCEPT ![n] = Zero]
    /\ expected' = [expected EXCEPT ![n] = Zero]
    /\ taken' = [taken EXCEPT ![n] = Zero]
    /\ UNCHANGED <<disk, conv, composed, accepted>>

\* A crash, a kill or Ctrl-C, at any point.
Crash(n) ==
    /\ pc[n] # "down"
    /\ Exit(n)

DeadlineFires(n) ==
    /\ pc[n] # "down"
    /\ ~expired[n]
    /\ expired' = [expired EXCEPT ![n] = TRUE]
    /\ UNCHANGED <<disk, pc, conv, latest, wire, listener, history>>

\* The deadline branch of select! breaks the loop; run_chat then returns.
Stop(n) ==
    /\ pc[n] = "loop"
    /\ expired[n]
    /\ Exit(n)

----------------------------------------------------------------------------
(* Sending: send_chat_message_and_record_ack, then the insert of run_chat. *)

\* build_chat_message: a message with a hash of its own.
Buildable(n) ==
    [hash : Hash \ Hashes(composed), src : {n}, conv : {conv[n]}, prev : {latest[n]}]

\* Mutant of Send: the message is stored before it is acknowledged.
SendStoresFirst(n) ==
    /\ pc[n] = "loop"
    /\ pc[Peer[n]] # "down"
    /\ \E m \in Buildable(n) :
          /\ composed' = composed \cup {m}
          /\ sending' = [sending EXCEPT ![n] = m]
          /\ inbox' = [inbox EXCEPT ![Peer[n]] = @ \cup {m}]
          /\ store' = [store EXCEPT ![n] = @ \cup {m}]
    /\ link' = [link EXCEPT ![n] = "open"]
    /\ pc' = [pc EXCEPT ![n] = "sending"]
    /\ UNCHANGED <<acks, conv, latest, expired, expected, handler, queue,
                   accepted, taken>>

\* A non-empty stdin line: build the message, connect, write it.
Send(n) ==
    /\ pc[n] = "loop"
    /\ pc[Peer[n]] # "down"
    /\ \E m \in Buildable(n) :
          /\ composed' = composed \cup {m}
          /\ sending' = [sending EXCEPT ![n] = m]
          /\ inbox' = [inbox EXCEPT ![Peer[n]] = @ \cup {m}]
    /\ link' = [link EXCEPT ![n] = "open"]
    /\ pc' = [pc EXCEPT ![n] = "sending"]
    /\ UNCHANGED <<disk, conv, latest, expired, expected, handler, queue,
                   accepted, taken>>

\* Nobody listens at the peer's address: the error ends the session.
ConnectRefused(n) ==
    /\ pc[n] = "loop"
    /\ pc[Peer[n]] = "down"
    /\ Exit(n)

\* Mutant of SendFails: the session carries on as if the message had arrived.
SendFailureIgnored(n) ==
    /\ pc[n] = "sending"
    /\ link[n] = "closed"
    /\ latest' = [latest EXCEPT ![n] = sending[n].hash]
    /\ sending' = [sending EXCEPT ![n] = NoMsg]
    /\ link' = [link EXCEPT ![n] = "idle"]
    /\ pc' = [pc EXCEPT ![n] = "loop"]
    /\ UNCHANGED <<disk, conv, expired, listener, history>>

\* The connection ended without an ACK: the error ends the session.
SendFails(n) ==
    /\ pc[n] = "sending"
    /\ link[n] = "closed"
    /\ Exit(n)

\* Mutant of RecordAck: the end of the stream passes for an ACK.
RecordAckOnClose(n) ==
    /\ pc[n] = "sending"
    /\ link[n] \in {"acked", "closed"}
    /\ acks' = [acks EXCEPT ![n] = @ \cup {sending[n].hash}]
    /\ link' = [link EXCEPT ![n] = "idle"]
    /\ pc' = [pc EXCEPT ![n] = "insert"]
    /\ UNCHANGED <<store, conv, latest, expired, sending, listener, history>>

\* A valid ACK arrives and is recorded; the message itself is not stored yet.
RecordAck(n) ==
    /\ pc[n] = "sending"
    /\ link[n] = "acked"
    /\ acks' = [acks EXCEPT ![n] = @ \cup {sending[n].hash}]
    /\ link' = [link EXCEPT ![n] = "idle"]
    /\ pc' = [pc EXCEPT ![n] = "insert"]
    /\ UNCHANGED <<store, conv, latest, expired, sending, listener, history>>

\* Mutant of InsertSent: an insert that fails is ignored.
InsertSentLost(n) ==
    /\ pc[n] = "insert"
    /\ store' \in {[store EXCEPT ![n] = @ \cup {sending[n]}], store}
    /\ latest' = [latest EXCEPT ![n] = sending[n].hash]
    /\ sending' = [sending EXCEPT ![n] = NoMsg]
    /\ pc' = [pc EXCEPT ![n] = "loop"]
    /\ UNCHANGED <<acks, conv, expired, link, listener, history>>

\* The acknowledged message joins the history and becomes its last hash.
InsertSent(n) ==
    /\ pc[n] = "insert"
    /\ store' = [store EXCEPT ![n] = @ \cup {sending[n]}]
    /\ latest' = [latest EXCEPT ![n] = sending[n].hash]
    /\ sending' = [sending EXCEPT ![n] = NoMsg]
    /\ pc' = [pc EXCEPT ![n] = "loop"]
    /\ UNCHANGED <<acks, conv, expired, link, listener, history>>

\* The connection breaks under the sender, with or without an ACK on the way.
LoseConnection(n) ==
    /\ link[n] \in {"open", "acked"}
    /\ link' = [link EXCEPT ![n] = "closed"]
    /\ UNCHANGED <<disk, main, sending, listener, history>>

----------------------------------------------------------------------------
(* Receiving: handle_connection and the recv branch of run_chat. Handlers  *)
(* run while the main task awaits, never inside its SQLite calls.          *)

Polling(n) == pc[n] \in {"loop", "sending"}

\* The connection m came on is still open at its sender.
Connected(m) == sending[m.src] = m /\ link[m.src] = "open"

\* The link after the handler of m closed its end.
Closed(m) == IF Connected(m) THEN [link EXCEPT ![m.src] = "closed"] ELSE link

\* The request breaks before the handler can accept it.
LoseRequest(n, m) ==
    /\ m \in inbox[n]
    /\ inbox' = [inbox EXCEPT ![n] = @ \ {m}]
    /\ link' = Closed(m)
    /\ UNCHANGED <<disk, main, sending, expected, handler, queue, history>>

\* Mutant of Accept: the expected hash is not advanced.
AcceptWithoutAdvance(n, m) ==
    /\ Polling(n)
    /\ m \in inbox[n]
    /\ m.prev = expected[n]
    /\ inbox' = [inbox EXCEPT ![n] = @ \ {m}]
    /\ handler' = [handler EXCEPT ![n] = @ \cup {m}]
    /\ accepted' = [accepted EXCEPT ![n] = @ \cup {m}]
    /\ UNCHANGED <<disk, main, wire, expected, queue, composed, taken>>

\* Under the mutex: the previous hash matches, and the expected hash advances.
Accept(n, m) ==
    /\ Polling(n)
    /\ m \in inbox[n]
    /\ m.prev = expected[n]
    /\ expected' = [expected EXCEPT ![n] = m.hash]
    /\ inbox' = [inbox EXCEPT ![n] = @ \ {m}]
    /\ handler' = [handler EXCEPT ![n] = @ \cup {m}]
    /\ accepted' = [accepted EXCEPT ![n] = @ \cup {m}]
    /\ UNCHANGED <<disk, main, wire, queue, composed, taken>>

\* Mutant of Refuse: the refused connection is left open.
RefuseSilently(n, m) ==
    /\ Polling(n)
    /\ m \in inbox[n]
    /\ m.prev # expected[n]
    /\ inbox' = [inbox EXCEPT ![n] = @ \ {m}]
    /\ UNCHANGED <<disk, main, wire, expected, handler, queue, history>>

\* PreviousHashMismatch: the handler returns and the connection closes.
Refuse(n, m) ==
    /\ Polling(n)
    /\ m \in inbox[n]
    /\ m.prev # expected[n]
    /\ inbox' = [inbox EXCEPT ![n] = @ \ {m}]
    /\ link' = Closed(m)
    /\ UNCHANGED <<disk, main, sending, expected, handler, queue, history>>

\* Mutant of WriteAck: a later message overtakes those already queued.
WriteAckOvertakes(n, m) ==
    /\ Polling(n)
    /\ m \in handler[n]
    /\ link' = IF Connected(m) THEN [link EXCEPT ![m.src] = "acked"] ELSE link
    /\ handler' = [handler EXCEPT ![n] = @ \ {m}]
    /\ queue' = [queue EXCEPT ![n] = <<m>> \o @]
    /\ UNCHANGED <<disk, main, sending, inbox, expected, history>>

\* The ACK is written and the message goes to the channel. The write succeeds
\* whether or not the sender is still there to read it.
WriteAck(n, m) ==
    /\ Polling(n)
    /\ m \in handler[n]
    /\ link' = IF Connected(m) THEN [link EXCEPT ![m.src] = "acked"] ELSE link
    /\ handler' = [handler EXCEPT ![n] = @ \ {m}]
    /\ queue' = [queue EXCEPT ![n] = Append(@, m)]
    /\ UNCHANGED <<disk, main, sending, inbox, expected, history>>

\* Writing the ACK to a broken connection fails: the accepted message is
\* dropped, and the expected hash stays advanced.
AckWriteFails(n, m) ==
    /\ Polling(n)
    /\ m \in handler[n]
    /\ ~Connected(m)
    /\ handler' = [handler EXCEPT ![n] = @ \ {m}]
    /\ UNCHANGED <<disk, main, wire, inbox, expected, queue, history>>

\* The recv branch of select!: store the message and follow its hash.
Receive(n) ==
    /\ pc[n] = "loop"
    /\ queue[n] # <<>>
    /\ LET m == Head(queue[n])
       IN  /\ store' = [store EXCEPT ![n] = @ \cup {m}]
           /\ latest' = [latest EXCEPT ![n] = m.hash]
           /\ taken' = [taken EXCEPT ![n] = m.hash]
    /\ queue' = [queue EXCEPT ![n] = Tail(@)]
    /\ UNCHANGED <<acks, pc, conv, expired, wire, inbox, expected, handler,
                   composed, accepted>>

----------------------------------------------------------------------------
Handle(n, m) ==
    \/ Accept(n, m)
    \/ Refuse(n, m)
    \/ WriteAck(n, m)
    \/ AckWriteFails(n, m)

NodeStep(n) ==
    \/ \E c \in Conv : StartChat(n, c) \/ StartRefused(n, c)
    \/ DeadlineFires(n)
    \/ Stop(n)
    \/ Crash(n)
    \/ Send(n)
    \/ ConnectRefused(n)
    \/ SendFails(n)
    \/ RecordAck(n)
    \/ InsertSent(n)
    \/ LoseConnection(n)
    \/ Receive(n)

Next ==
    \E n \in Node :
        \/ NodeStep(n)
        \/ \E m \in inbox[n] \cup handler[n] : LoseRequest(n, m) \/ Handle(n, m)

Spec == Init /\ [][Next]_vars

\* The process of n is scheduled: its main task, once something it waits for
\* is ready, goes on.
MainFairness ==
    \A n \in Node :
        WF_vars(SendFails(n) \/ RecordAck(n) \/ InsertSent(n) \/ Stop(n))

\* The peers' handlers are scheduled as well: neither process is suspended.
HandlerFairness ==
    \A n \in Node :
        WF_vars(\E m \in inbox[n] \cup handler[n] : Handle(n, m))

FairSpec == Spec /\ MainFairness /\ HandlerFairness

\* The peer may be suspended, or its host gone, without closing a connection.
PeerMayStallSpec == Spec /\ MainFairness

----------------------------------------------------------------------------
(* Properties *)

\* The main task has a message in flight exactly while it is sending or
\* inserting, its connection exists only while it is sending, and a process that
\* is down holds nothing in memory.
SessionShape(n) ==
    /\ sending[n] # NoMsg <=> pc[n] \in {"sending", "insert"}
    /\ link[n] # "idle" <=> pc[n] = "sending"
    /\ pc[n] = "down" =>
          inbox[n] = {} /\ handler[n] = {} /\ queue[n] = <<>> /\ ~expired[n]

\* Types, and the shape of every session.
TypeOK ==
    /\ store \in [Node -> SUBSET Message]
    /\ acks \in [Node -> SUBSET Hash]
    /\ pc \in [Node -> {"down", "loop", "sending", "insert"}]
    /\ conv \in [Node -> Conv]
    /\ latest \in [Node -> Hash \cup {Zero}]
    /\ expired \in [Node -> BOOLEAN]
    /\ sending \in [Node -> Message \cup {NoMsg}]
    /\ link \in [Node -> {"idle", "open", "acked", "closed"}]
    /\ inbox \in [Node -> SUBSET Message]
    /\ expected \in [Node -> Hash \cup {Zero}]
    /\ handler \in [Node -> SUBSET Message]
    /\ queue \in [Node -> Seq(Message)]
    /\ composed \in SUBSET Message
    /\ accepted \in [Node -> SUBSET Message]
    /\ taken \in [Node -> Hash \cup {Zero}]
    /\ \A n \in Node : SessionShape(n)

\* An ACK on record is true: the peer's listener accepted that very message,
\* however connections broke and processes died meanwhile.
AckedWasAccepted ==
    \A n \in Node : \A h \in acks[n] :
        \E m \in accepted[Peer[n]] : m.hash = h /\ m.src = n

\* No message of one's own is in the history without its ACK: the history
\* never shows a sent message as undelivered (the converse fails in a crash
\* between the two statements).
StoredOwnIsAcked ==
    \A n \in Node : \A m \in store[n] : m.src = n => m.hash \in acks[n]

\* The messages waiting for the main task continue the chain from the last one
\* it took: nothing is skipped, repeated or swapped between the mutex and the
\* channel, even when ACK writes fail and sessions restart.
Chained(h, s) ==
    \A i \in 1..Len(s) : s[i].prev = IF i = 1 THEN h ELSE s[i - 1].hash

ReceivedInOrder == \A n \in Node : Chained(taken[n], queue[n])

\* What a node stored has no gaps: the predecessor of every stored message is
\* stored there too, whatever was lost on the way. With several conversations it
\* may belong to another one (ChainStaysInConversation).
NoGaps ==
    \A n \in Node : \A m \in store[n] : m.prev \in Hashes(store[n]) \cup {Zero}

\* Two stored messages of a conversation with the same predecessor come from the
\* two sides: a sender that lost its ACK, died and tried again cannot fork a
\* history. It speaks of what is stored: a listener may well accept a message,
\* die before it writes the ACK, and accept another one in its place. It is a
\* property of peers whose sessions are of one conversation at a time.
SameSenderNeverForks ==
    \A n \in Node : \A m1, m2 \in store[n] :
        (m1.src = m2.src /\ m1.conv = m2.conv /\ m1.prev = m2.prev) => m1 = m2

\* The sessions implement the abstract delivery.
Abstract == INSTANCE Delivery WITH
    accepted <- UNION {accepted[n] : n \in Node},
    confirmed <- {m \in composed : m.hash \in acks[m.src]}

ImplementsDelivery == Abstract!Spec

\* A session ends once its duration is over, while both processes are scheduled.
DeadlineEndsSession == \A n \in Node : expired[n] ~> pc[n] = "down"

----------------------------------------------------------------------------
(* What the documents say and the code does not do. *)

\* A reply to the message that the receiver sent last, and whose ACK it has on
\* record, is accepted.
ReplyToLatestIsAccepted ==
    [][\A n \in Node : \A m \in inbox[n] :
          Refuse(n, m) => ~(m.prev = latest[n] /\ latest[n] \in acks[n])]_vars

\* A session that runs to its deadline has stored every message it acknowledged.
AckedIsStoredAtDeadline ==
    [][\A n \in Node : Stop(n) => queue[n] = <<>>]_vars

\* The predecessor named by a message belongs to the message's conversation.
ChainStaysInConversation ==
    \A n \in Node : \A m1, m2 \in store[n] :
        m1.prev = m2.hash => m1.conv = m2.conv
=============================================================================
