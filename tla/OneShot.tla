------------------------------ MODULE OneShot ------------------------------
(***************************************************************************)
(* Any number of `send` and `receive` commands (cli/commands.rs, run_send  *)
(* and run_receive) of nodes that talk over the transport of ChatSession,  *)
(* and the three tables they write: every SQL statement of                 *)
(* insert_accepted_chat_message commits by itself, and the processes of a  *)
(* node share one SQLite file.                                             *)
(*                                                                         *)
(* A command is given the fingerprint of its peer and, by itself, an       *)
(* address; an address that is out of date belongs to another node, so a   *)
(* send may connect to any receive there is.                               *)
(*                                                                         *)
(* A receive stores the first message of its channel and exits, with       *)
(* whatever else its listener has accepted by then.  A send has no timeout *)
(* of its own.  Messages, ACKs and handlers are as in ChatSession.  Every  *)
(* message has a new UUID and hash; a node that has its own key may send   *)
(* to itself, and then two processes insert one message into one file.     *)
(***************************************************************************)
EXTENDS Naturals, Sequences, FiniteSets

CONSTANTS
    Node,       \* the nodes, by fingerprint
    Peer,       \* the nodes whose keys each of them has
    Process,    \* the processes, each of them one run of a command
    Owner,      \* the node a process runs at
    Conv,       \* conversation UUIDs
    Hash,       \* message hashes; as many messages are ever composed
    Zero,       \* the all-zero hash, which --previous-hash defaults to
    Time,       \* seconds that a clock may show
    NoMsg,      \* no message in hand
    NoProcess,  \* the target of a process that does not send
    Nobody,     \* the source of a process that does not listen
    NoRow       \* no row of a conversation

Message == [hash : Hash, src : Node, dst : Node, conv : Conv, prev : Hash \cup {Zero}]

ASSUME PeerAssumption == Peer \in [Node -> SUBSET Node]
ASSUME OwnerAssumption == Owner \in [Process -> Node]
ASSUME TimeAssumption == Time \subseteq Nat
ASSUME NoneAssumption ==
    /\ NoMsg \notin Message
    /\ NoProcess \notin Process
    /\ Nobody \notin Node
    /\ NoRow \notin Time
    /\ Zero \notin Hash

VARIABLES
    \* The SQLite file of each node.
    messages,       \* rows of accepted_chat_messages: a message and received_at
    acks,           \* hashes in message_acks
    conversations,  \* updated_at of a conversation, or NoRow
    \* The processes.
    pc,             \* where the main task stands
    current,        \* the message it sends, or that it took from its channel
    at,             \* the received_at of its insert
    to,             \* the receive that a send is connected to, or NoProcess
    source,         \* the --peer-fingerprint of a receive, or Nobody
    link,           \* that connection: "idle", "open", "acked", "closed"
    inbox,          \* requests in the sockets of a listener
    expected,       \* expected_previous_hash
    handler,        \* accepted messages whose ACK is not written yet
    channel,        \* the mpsc channel
    \* History variables.
    composed,       \* every message ever built
    accepted        \* what the listener of a process accepted

tables == <<messages, acks, conversations>>
main == <<pc, current, at, to, source>>
listener == <<inbox, expected, handler, channel, accepted>>
vars == <<tables, main, link, listener, composed>>

Hashes(S) == {m.hash : m \in S}

\* The insert is a lookup and three statements; the process is at one of them.
Inserting(p) == pc[p] \in {"lookup", "conversation", "touch", "row"}

\* The rows of message m in the file of n.
RowsOf(n, m) == {r \in messages[n] : r.msg = m}

\* The listener of p has its port. The kernel completes connections to it even
\* while the main task, and the handlers with it, are in an insert.
Bound(p) == pc[p] = "listening" \/ (Inserting(p) /\ to[p] = NoProcess)

----------------------------------------------------------------------------
Init ==
    /\ messages = [n \in Node |-> {}]
    /\ acks = [n \in Node |-> {}]
    /\ conversations = [n \in Node |-> [c \in Conv |-> NoRow]]
    /\ pc = [p \in Process |-> "ready"]
    /\ current = [p \in Process |-> NoMsg]
    /\ at = [p \in Process |-> 0]
    /\ to = [p \in Process |-> NoProcess]
    /\ source = [p \in Process |-> Nobody]
    /\ link = [p \in Process |-> "idle"]
    /\ inbox = [p \in Process |-> {}]
    /\ expected = [p \in Process |-> Zero]
    /\ handler = [p \in Process |-> {}]
    /\ channel = [p \in Process |-> <<>>]
    /\ composed = {}
    /\ accepted = [p \in Process |-> {}]

\* The links once the sockets of p are closed. An ACK that was written already
\* still reaches its reader.
ClosedBy(p) ==
    [q \in Process |->
        IF q = p THEN "idle"
        ELSE IF to[q] = p /\ link[q] = "open" THEN "closed" ELSE link[q]]

\* Mutant of Exit: the sockets of an aborted listener stay open.
ExitLeaksSockets(p, how) ==
    /\ pc' = [pc EXCEPT ![p] = how]
    /\ link' = [link EXCEPT ![p] = "idle"]
    /\ inbox' = [inbox EXCEPT ![p] = {}]
    /\ handler' = [handler EXCEPT ![p] = {}]
    /\ channel' = [channel EXCEPT ![p] = <<>>]

\* Mutant of Exit: the service is leaked, and its channel outlives the command.
ExitKeepsChannel(p, how) ==
    /\ pc' = [pc EXCEPT ![p] = how]
    /\ link' = ClosedBy(p)
    /\ inbox' = [inbox EXCEPT ![p] = {}]
    /\ handler' = [handler EXCEPT ![p] = {}]
    /\ UNCHANGED channel

\* The process of p ends: its listener is aborted, and the sockets close.
Exit(p, how) ==
    /\ pc' = [pc EXCEPT ![p] = how]
    /\ link' = ClosedBy(p)
    /\ inbox' = [inbox EXCEPT ![p] = {}]
    /\ handler' = [handler EXCEPT ![p] = {}]
    /\ channel' = [channel EXCEPT ![p] = <<>>]

\* A kill, or a call that fails, anywhere.
Quit(p) ==
    /\ pc[p] \notin {"ready", "done", "timed out", "failed"}
    /\ Exit(p, "failed")
    /\ UNCHANGED <<tables, current, at, to, source, expected, composed, accepted>>

----------------------------------------------------------------------------
(* send *)

\* What a user of n can give as the previous hash: the default, what a receive
\* has printed, and what n has stored (chat takes its hash from there).
Given(n) ==
    {Zero} \cup Hashes({r.msg : r \in messages[n]})
           \cup {current[p].hash : p \in {q \in Process : pc[q] = "done"}}

\* build_chat_message: a message with a hash of its own.
Buildable(n) ==
    [hash : Hash \ Hashes(composed), src : {n}, dst : Peer[n], conv : Conv, prev : Given(n)]

\* send builds a message, connects to the receive q, whoever's it is, and writes
\* the message.
Send(p, q) ==
    /\ pc[p] = "ready"
    /\ Bound(q)
    /\ \E m \in Buildable(Owner[p]) :
          /\ composed' = composed \cup {m}
          /\ current' = [current EXCEPT ![p] = m]
          /\ inbox' = [inbox EXCEPT ![q] = @ \cup {m}]
    /\ pc' = [pc EXCEPT ![p] = "sending"]
    /\ to' = [to EXCEPT ![p] = q]
    /\ link' = [link EXCEPT ![p] = "open"]
    /\ UNCHANGED <<tables, at, source, expected, handler, channel, accepted>>

\* Nobody listens at the address that send was given.
SendRefused(p) ==
    /\ pc[p] = "ready"
    /\ pc' = [pc EXCEPT ![p] = "failed"]
    /\ UNCHANGED <<tables, current, at, to, source, link, listener, composed>>

\* validate_message_ack: the ACK names its acknowledger, who must be the peer.
AckedByPeer(p) == link[p] = "acked" /\ Owner[to[p]] = current[p].dst

\* The connection ended without an ACK, or with one of somebody else.
SendFails(p) ==
    /\ pc[p] = "sending"
    /\ link[p] \in {"acked", "closed"} /\ ~AckedByPeer(p)
    /\ Exit(p, "failed")
    /\ UNCHANGED <<tables, current, at, to, source, expected, composed, accepted>>

\* Mutant of RecordAck: the end of the stream passes for an ACK.
RecordAckOnClose(p) ==
    /\ pc[p] = "sending"
    /\ link[p] \in {"acked", "closed"}
    /\ acks' = [acks EXCEPT ![Owner[p]] = @ \cup {current[p].hash}]
    /\ pc' = [pc EXCEPT ![p] = "lookup"]
    /\ link' = [link EXCEPT ![p] = "idle"]
    /\ UNCHANGED <<messages, conversations, current, at, to, source, listener, composed>>

\* The ACK of this very message is read, and upsert_message_ack records it.
RecordAck(p) ==
    /\ pc[p] = "sending"
    /\ AckedByPeer(p)
    /\ acks' = [acks EXCEPT ![Owner[p]] = @ \cup {current[p].hash}]
    /\ pc' = [pc EXCEPT ![p] = "lookup"]
    /\ link' = [link EXCEPT ![p] = "idle"]
    /\ UNCHANGED <<messages, conversations, current, at, to, source, listener, composed>>

\* The connection breaks under a send, with or without an ACK on the way.
LoseConnection(p) ==
    /\ link[p] \in {"open", "acked"}
    /\ link' = [link EXCEPT ![p] = "closed"]
    /\ UNCHANGED <<tables, main, listener, composed>>

----------------------------------------------------------------------------
(* receive *)

\* receive listens for a message of one peer that follows the hash it was given.
Listen(p) ==
    /\ pc[p] = "ready"
    /\ \E h \in Given(Owner[p]) : expected' = [expected EXCEPT ![p] = h]
    /\ \E n \in Peer[Owner[p]] : source' = [source EXCEPT ![p] = n]
    /\ pc' = [pc EXCEPT ![p] = "listening"]
    /\ UNCHANGED <<tables, current, at, to, link, inbox, handler, channel,
                   composed, accepted>>

\* recv() yields the first message; the main task does not await again.
Take(p) ==
    /\ pc[p] = "listening"
    /\ channel[p] # <<>>
    /\ current' = [current EXCEPT ![p] = Head(channel[p])]
    /\ channel' = [channel EXCEPT ![p] = Tail(@)]
    /\ pc' = [pc EXCEPT ![p] = "lookup"]
    /\ UNCHANGED <<tables, at, to, source, link, inbox, expected, handler, composed, accepted>>

\* Mutant of TimeOut: the timer is asked before the channel.
TimeOutFirst(p) ==
    /\ pc[p] = "listening"
    /\ Exit(p, "timed out")
    /\ UNCHANGED <<tables, current, at, to, source, expected, composed, accepted>>

\* The duration is over. timeout() polls recv() first, so a message in the
\* channel is never left for the timer.
TimeOut(p) ==
    /\ pc[p] = "listening"
    /\ channel[p] = <<>>
    /\ Exit(p, "timed out")
    /\ UNCHANGED <<tables, current, at, to, source, expected, composed, accepted>>

----------------------------------------------------------------------------
(* handle_connection, while the main task awaits in recv() *)

\* The connection that m came on is open at its sender.
Waiting(m) == {q \in Process : current[q] = m /\ link[q] = "open"}

LinkOf(m, state) ==
    [q \in Process |-> IF q \in Waiting(m) THEN state ELSE link[q]]

\* The request breaks, or its timestamp is stale: it is never accepted.
LoseRequest(p, m) ==
    /\ m \in inbox[p]
    /\ inbox' = [inbox EXCEPT ![p] = @ \ {m}]
    /\ link' = LinkOf(m, "closed")
    /\ UNCHANGED <<tables, main, expected, handler, channel, composed, accepted>>

\* validate_chat_message: the message follows the expected hash, and is from the
\* peer to this node.
Acceptable(p, m) ==
    /\ m.prev = expected[p]
    /\ m.src = source[p]
    /\ m.dst = Owner[p]

\* Mutant of Accept: only the hash of the message is looked at.
AcceptFromAnyone(p, m) ==
    /\ pc[p] = "listening"
    /\ m \in inbox[p]
    /\ m.prev = expected[p]
    /\ inbox' = [inbox EXCEPT ![p] = @ \ {m}]
    /\ expected' = [expected EXCEPT ![p] = m.hash]
    /\ handler' = [handler EXCEPT ![p] = @ \cup {m}]
    /\ accepted' = [accepted EXCEPT ![p] = @ \cup {m}]
    /\ UNCHANGED <<tables, main, link, channel, composed>>

\* The expected hash moves on to the accepted message.
Accept(p, m) ==
    /\ pc[p] = "listening"
    /\ m \in inbox[p]
    /\ Acceptable(p, m)
    /\ inbox' = [inbox EXCEPT ![p] = @ \ {m}]
    /\ expected' = [expected EXCEPT ![p] = m.hash]
    /\ handler' = [handler EXCEPT ![p] = @ \cup {m}]
    /\ accepted' = [accepted EXCEPT ![p] = @ \cup {m}]
    /\ UNCHANGED <<tables, main, link, channel, composed>>

\* PreviousHashMismatch, SourceMismatch or DestinationMismatch: the connection
\* closes, and the expected hash stays.
Refuse(p, m) ==
    /\ pc[p] = "listening"
    /\ m \in inbox[p]
    /\ ~Acceptable(p, m)
    /\ inbox' = [inbox EXCEPT ![p] = @ \ {m}]
    /\ link' = LinkOf(m, "closed")
    /\ UNCHANGED <<tables, main, expected, handler, channel, composed, accepted>>

\* Mutant of WriteAck: a later message overtakes those in the channel.
WriteAckOvertakes(p, m) ==
    /\ pc[p] = "listening"
    /\ m \in handler[p]
    /\ link' = LinkOf(m, "acked")
    /\ handler' = [handler EXCEPT ![p] = @ \ {m}]
    /\ channel' = [channel EXCEPT ![p] = <<m>> \o @]
    /\ UNCHANGED <<tables, main, inbox, expected, composed, accepted>>

\* The ACK is written, and the message goes to the channel.
WriteAck(p, m) ==
    /\ pc[p] = "listening"
    /\ m \in handler[p]
    /\ link' = LinkOf(m, "acked")
    /\ handler' = [handler EXCEPT ![p] = @ \ {m}]
    /\ channel' = [channel EXCEPT ![p] = Append(@, m)]
    /\ UNCHANGED <<tables, main, inbox, expected, composed, accepted>>

\* Writing the ACK to a broken connection fails: the message is dropped, and
\* the expected hash stays where it moved.
AckWriteFails(p, m) ==
    /\ pc[p] = "listening"
    /\ m \in handler[p]
    /\ Waiting(m) = {}
    /\ handler' = [handler EXCEPT ![p] = @ \ {m}]
    /\ UNCHANGED <<tables, main, link, inbox, expected, channel, composed, accepted>>

Handle(p, m) ==
    \/ Accept(p, m)
    \/ Refuse(p, m)
    \/ WriteAck(p, m)
    \/ AckWriteFails(p, m)

----------------------------------------------------------------------------
(* insert_accepted_chat_message *)

\* What list_conversations reads and message_history looks for first.
Listed(n) == {c \in Conv : conversations[n][c] # NoRow}

\* get_accepted_chat_message finds the message: the insert was done before.
AlreadyStored(p) ==
    /\ pc[p] = "lookup"
    /\ RowsOf(Owner[p], current[p]) # {}
    /\ Exit(p, "done")
    /\ UNCHANGED <<tables, current, at, to, source, expected, composed, accepted>>

\* It finds nothing, and nobody else has its hash.
NotStored(p) ==
    /\ pc[p] = "lookup"
    /\ RowsOf(Owner[p], current[p]) = {}
    /\ pc' = [pc EXCEPT ![p] = "conversation"]
    /\ UNCHANGED <<tables, current, at, to, source, link, listener, composed>>

\* INSERT OR IGNORE of a conversation.
InsertOrIgnore(n, c, t) ==
    [conversations EXCEPT ![n][c] = IF @ = NoRow THEN t ELSE @]

\* The clock is read, and INSERT OR IGNORE adds the conversation.
AddConversation(p) ==
    /\ pc[p] = "conversation"
    /\ \E t \in Time :
          /\ at' = [at EXCEPT ![p] = t]
          /\ conversations' = InsertOrIgnore(Owner[p], current[p].conv, t)
    /\ pc' = [pc EXCEPT ![p] = "touch"]
    /\ UNCHANGED <<messages, acks, current, to, source, link, listener, composed>>

\* Mutant of Touch: updated_at takes the time of the last insert.
TouchLatest(p) ==
    /\ pc[p] = "touch"
    /\ conversations' = [conversations EXCEPT ![Owner[p]][current[p].conv] = at[p]]
    /\ pc' = [pc EXCEPT ![p] = "row"]
    /\ UNCHANGED <<messages, acks, current, at, to, source, link, listener, composed>>

\* updated_at becomes the later of the two times.
Touch(p) ==
    /\ pc[p] = "touch"
    /\ conversations' = [conversations EXCEPT ![Owner[p]][current[p].conv] =
                            IF @ < at[p] THEN at[p] ELSE @]
    /\ pc' = [pc EXCEPT ![p] = "row"]
    /\ UNCHANGED <<messages, acks, current, at, to, source, link, listener, composed>>

\* Mutant of AddRow: the UUID is not the key of the table.
AddRowAgain(p) ==
    /\ pc[p] = "row"
    /\ messages' = [messages EXCEPT ![Owner[p]] =
                       @ \cup {[msg |-> current[p], at |-> at[p]]}]
    /\ Exit(p, "done")
    /\ UNCHANGED <<acks, conversations, current, at, to, source, expected, composed, accepted>>

\* The message is stored; the command prints what it did and exits. When another
\* process stored it since the lookup, the key refuses the row: that is Quit.
AddRow(p) ==
    /\ pc[p] = "row"
    /\ RowsOf(Owner[p], current[p]) = {}
    /\ messages' = [messages EXCEPT ![Owner[p]] =
                       @ \cup {[msg |-> current[p], at |-> at[p]]}]
    /\ Exit(p, "done")
    /\ UNCHANGED <<acks, conversations, current, at, to, source, expected, composed, accepted>>

\* ensure_conversation: a chat that opens at n lists its conversation.
EnsureConversation(n, c) ==
    /\ \E t \in Time : conversations' = InsertOrIgnore(n, c, t)
    /\ UNCHANGED <<messages, acks, main, link, listener, composed>>

----------------------------------------------------------------------------
Main(p) ==
    \/ RecordAck(p)
    \/ SendFails(p)
    \/ Take(p)
    \/ TimeOut(p)
    \/ AlreadyStored(p)
    \/ NotStored(p)
    \/ AddConversation(p)
    \/ Touch(p)
    \/ AddRow(p)

Command(p) ==
    \/ \E q \in Process : Send(p, q)
    \/ SendRefused(p)
    \/ Listen(p)
    \/ Main(p)
    \/ LoseConnection(p)
    \/ Quit(p)
    \/ \E m \in inbox[p] \cup handler[p] : LoseRequest(p, m) \/ Handle(p, m)

Next ==
    \/ \E p \in Process : Command(p)
    \/ \E n \in Node, c \in Conv : EnsureConversation(n, c)

Spec == Init /\ [][Next]_vars

----------------------------------------------------------------------------
(* Properties *)

\* A connection lasts as long as its send waits, a message is in hand from then
\* on, and a command that does not listen holds nothing of others.
CommandShape(p) ==
    /\ link[p] # "idle" <=> pc[p] = "sending"
    /\ pc[p] = "sending" => to[p] \in Process
    /\ pc[p] = "listening" => source[p] \in Node
    /\ pc[p] \in {"sending", "done"} \/ Inserting(p) => current[p] \in Message
    /\ pc[p] \in {"touch", "row"} => at[p] \in Time
    /\ pc[p] # "listening" /\ ~Inserting(p) =>
          inbox[p] = {} /\ handler[p] = {} /\ channel[p] = <<>>

\* Types, and the shape of every command.
TypeOK ==
    /\ messages \in [Node -> SUBSET [msg : Message, at : Time]]
    /\ acks \in [Node -> SUBSET Hash]
    /\ conversations \in [Node -> [Conv -> Time \cup {NoRow}]]
    /\ pc \in [Process -> {"ready", "listening", "sending", "lookup",
                           "conversation", "touch", "row", "done", "timed out", "failed"}]
    /\ current \in [Process -> Message \cup {NoMsg}]
    /\ at \in [Process -> Time \cup {0}]
    /\ to \in [Process -> Process \cup {NoProcess}]
    /\ source \in [Process -> Node \cup {Nobody}]
    /\ link \in [Process -> {"idle", "open", "acked", "closed"}]
    /\ inbox \in [Process -> SUBSET Message]
    /\ expected \in [Process -> Hash \cup {Zero}]
    /\ handler \in [Process -> SUBSET Message]
    /\ channel \in [Process -> Seq(Message)]
    /\ composed \in SUBSET Message
    /\ accepted \in [Process -> SUBSET Message]
    /\ \A p \in Process : CommandShape(p)

\* What send reports as delivered was accepted by a receive of the peer it was
\* meant for, which waited for this sender, whatever address the send was given;
\* and it is in the sender's history as acknowledged, once.
DeliveredIsTrue ==
    \A p \in Process : pc[p] = "done" /\ to[p] # NoProcess =>
        /\ current[p] \in accepted[to[p]]
        /\ Owner[to[p]] = current[p].dst /\ source[to[p]] = Owner[p]
        /\ current[p].hash \in acks[Owner[p]]
        /\ Cardinality(RowsOf(Owner[p], current[p])) = 1

\* A receive that timed out has acknowledged nothing: no send takes a message
\* that was lost with it for delivered.
TimeOutAcknowledgesNothing ==
    \A p, q \in Process : pc[p] = "timed out" /\ current[q] \in accepted[p] =>
        link[q] # "acked" /\ current[q].hash \notin acks[Owner[q]]

\* The message that a receive stores follows no other message that it accepted:
\* what it drops comes later in the chain, never before.
ReceivesTheFirst ==
    \A p \in Process : to[p] = NoProcess /\ (Inserting(p) \/ pc[p] = "done") =>
        \A m \in accepted[p] : m.hash # current[p].prev

\* A stored message has its conversation, which is at least as new, although
\* the statements of several processes mix, clocks go back and processes die
\* between two statements: the list leaves nothing out, and history finds it.
ConversationCovers ==
    \A n \in Node : \A r \in messages[n] :
        /\ r.msg.conv \in Listed(n)
        /\ conversations[n][r.msg.conv] >= r.at

\* A send that waits is in the hands of a receive that still runs: its request
\* is unread, or accepted with the ACK to be written. A send has no timeout; it
\* ends because the receive at the other end of its connection has one.
WaitingSendIsHeld ==
    \A p \in Process : link[p] = "open" =>
        /\ Bound(to[p])
        /\ current[p] \in inbox[to[p]] \cup handler[to[p]]
=============================================================================
