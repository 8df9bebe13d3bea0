-------------------------- MODULE OneShotInvariant --------------------------
(* The inductive invariants behind the properties of OneShot. *)
EXTENDS OneShot

(* The conversation of a stored message. *)

\* The row of a conversation is there and not older than t.
Covers(n, c, t) == conversations[n][c] # NoRow /\ conversations[n][c] >= t

\* What an insert in progress has done for the message it is about to store.
InsertCovers ==
    \A p \in Process :
        /\ pc[p] = "touch" => conversations[Owner[p]][current[p].conv] # NoRow
        /\ pc[p] = "row" => Covers(Owner[p], current[p].conv, at[p])

CoverInv == ConversationCovers /\ InsertCovers

----------------------------------------------------------------------------
(* Who holds which message. *)

\* p runs send, and has connected.
Sender(p) == to[p] # NoProcess

\* The ACK of the message of q lies on its connection, or was recorded.
Acked(q) == link[q] = "acked" \/ current[q].hash \in acks[Owner[q]]

Queued(p, m) == \E i \in 1 .. Len(channel[p]) : channel[p][i] = m

Stored(m) == \E n \in Node : RowsOf(n, m) # {}

ComposedUnique ==
    \A m1, m2 \in composed : m1.hash = m2.hash => m1 = m2

\* A send keeps to its own message and to one receive, and a receive has in hand
\* only what its own listener accepted.
Roles ==
    \A p \in Process :
        /\ pc[p] \in {"ready", "listening", "timed out"} =>
              ~Sender(p) /\ current[p] = NoMsg
        /\ Sender(p) =>
              /\ current[p] \in composed
              /\ current[p].src = Owner[p]
              /\ ~Sender(to[p]) /\ pc[to[p]] # "ready"
        /\ ~Sender(p) /\ current[p] # NoMsg => current[p] \in accepted[p]

SoleSender ==
    \A p, q \in Process : Sender(p) /\ Sender(q) /\ current[p] = current[q] => p = q

\* A listener holds only what was sent to it, and accepts a message once.
Placed ==
    \A p \in Process :
        /\ \A m \in inbox[p] \cup accepted[p] :
              \E s \in Process : to[s] = p /\ current[s] = m
        /\ inbox[p] \cap accepted[p] = {}
        /\ handler[p] \subseteq accepted[p]
        /\ \A i \in 1 .. Len(channel[p]) : channel[p][i] \in accepted[p]
        /\ \A m \in accepted[p] : m.src = source[p] /\ m.dst = Owner[p]

\* An ACK is of a message that its receive accepted and did not leave behind:
\* a receive that still listens has it in the channel.
AckOrigin ==
    /\ \A n \in Node : acks[n] \subseteq Hashes(composed)
    /\ \A q \in Process : Sender(q) =>
          /\ Acked(q) =>
                /\ current[q] \in accepted[to[q]]
                /\ pc[to[q]] # "timed out"
                /\ pc[to[q]] = "listening" => Queued(to[q], current[q])
          /\ Inserting(q) \/ pc[q] = "done" => current[q].hash \in acks[Owner[q]]

\* Every row has a message of its own, which a listener accepted, and a command
\* is done when it has its row.
RowOrigin ==
    /\ \A n \in Node : \A r1, r2 \in messages[n] : r1.msg = r2.msg => r1 = r2
    /\ \A n \in Node : \A r \in messages[n] :
          \E p \in Process : r.msg \in accepted[p]
    /\ \A p \in Process : pc[p] = "done" => RowsOf(Owner[p], current[p]) # {}

(* The order in the channel of a receive. *)

\* A message follows one that some node has stored by now.
FollowsStored ==
    \A m \in composed : m.prev = Zero \/ \E k \in composed : k.hash = m.prev /\ Stored(k)

\* What is stored while its receive still listens is in the channel.
StoredIsQueued ==
    \A p \in Process : pc[p] = "listening" =>
        \A m \in accepted[p] : Stored(m) => Queued(p, m)

\* The predecessor of a message comes before it.
QueuedInOrder ==
    \A p \in Process : pc[p] = "listening" =>
        \A i \in 1 .. Len(channel[p]) : \A m \in accepted[p] :
            m.hash = channel[p][i].prev =>
                \E j \in 1 .. Len(channel[p]) : j < i /\ channel[p][j] = m

HoldInv ==
    /\ ComposedUnique
    /\ Roles
    /\ SoleSender
    /\ Placed
    /\ AckOrigin
    /\ RowOrigin
    /\ FollowsStored
    /\ StoredIsQueued
    /\ QueuedInOrder
    /\ ReceivesTheFirst
    /\ WaitingSendIsHeld
=============================================================================
