------------------------ MODULE ChatSessionInvariant ------------------------
(* The inductive invariants behind the properties of ChatSession. *)
EXTENDS ChatSession

\* No node holds m outside its sender's memory: it is in neither history, not
\* queued at its receiver n, and its sender has read no ACK for it.
Unseen(n, m) ==
    /\ m \notin store[n] \cup store[Peer[n]]
    /\ \A i \in 1..Len(queue[n]) : queue[n][i] # m
    /\ ~(sending[Peer[n]] = m /\ (link[Peer[n]] = "acked" \/ pc[Peer[n]] = "insert"))

(* Where a message in each place comes from. *)

ComposedUnique ==
    \A m1, m2 \in composed : m1.hash = m2.hash => m1 = m2

SendingOrigin ==
    \A n \in Node : sending[n] # NoMsg =>
        /\ sending[n] \in composed
        /\ sending[n].src = n
        /\ sending[n].prev = latest[n]
        /\ sending[n] \notin store[n]
        /\ link[n] = "acked" => sending[n] \in accepted[Peer[n]]
        /\ pc[n] = "insert" =>
              sending[n] \in accepted[Peer[n]] /\ sending[n].hash \in acks[n]

InboxOrigin ==
    \A n \in Node : \A m \in inbox[n] :
        m \in composed /\ m.src = Peer[n] /\ m \notin accepted[n]

AcceptedOrigin ==
    \A n \in Node :
        /\ \A m \in accepted[n] : m \in composed /\ m.src = Peer[n]
        /\ handler[n] \subseteq accepted[n]
        /\ \A i \in 1..Len(queue[n]) : queue[n][i] \in accepted[n]

StoreOrigin ==
    \A n \in Node : \A m \in store[n] :
        \/ m.src = n /\ m \in accepted[Peer[n]] /\ m.hash \in acks[n]
        \/ m.src = Peer[n] /\ m \in accepted[n]

Origin ==
    /\ ComposedUnique
    /\ SendingOrigin
    /\ InboxOrigin
    /\ AcceptedOrigin
    /\ StoreOrigin
    /\ AckedWasAccepted

(* What a message or a session may follow. *)

\* A node only ever follows messages of its own history.
FollowsStored ==
    /\ \A m \in composed : m.prev \in Hashes(store[m.src]) \cup {Zero}
    /\ \A n \in Node :
          /\ latest[n] \in Hashes(store[n]) \cup {Zero}
          /\ taken[n] \in Hashes(store[n]) \cup {Zero}

QueueFresh ==
    \A n \in Node :
        /\ \A i \in 1..Len(queue[n]) : queue[n][i] \notin store[n]
        /\ \A i, j \in 1..Len(queue[n]) : queue[n][i] = queue[n][j] => i = j

\* The hash the next message taken from the queue's end must follow.
EndOf(n) == IF Len(queue[n]) = 0 THEN taken[n] ELSE queue[n][Len(queue[n])].hash

\* The listener expects the end of the queue, or one accepted message after it
\* whose ACK is still to be written or could not be.
ListenerAtEnd ==
    \A n \in Node : pc[n] # "down" =>
        \/ expected[n] = EndOf(n) /\ handler[n] = {}
        \/ \E m \in accepted[n] :
              /\ m.hash = expected[n]
              /\ m.prev = EndOf(n)
              /\ handler[n] \subseteq {m}
              /\ Unseen(n, m)

ChainInv ==
    /\ FollowsStored
    /\ QueueFresh
    /\ ReceivedInOrder
    /\ ListenerAtEnd
    /\ NoGaps

(* No two messages of a side share a predecessor. *)

\* The message that m follows is of the conversation of m.
FollowsOwn(m) == m.prev \in Hashes(InConv(composed, m.conv))

\* A history does not fork where a conversation is followed: of the messages that
\* follow one of their own conversation, two never come from the same side; and
\* of a node's own messages in a conversation no two follow the same one, be it
\* of that conversation or not. What is left are the messages of the peer that
\* begin a conversation, or follow a message of another one: they were accepted
\* by a session of another conversation.
ConversationNeverForks ==
    \A n \in Node : \A m1, m2 \in store[n] :
        /\ m1.src = m2.src /\ m1.conv = m2.conv /\ m1.prev = m2.prev
        /\ m1.src = n \/ m1.prev \in Hashes(InConv(store[n], m1.conv))
        => m1 = m2

\* Two sessions that run at the same time are of the same conversation. The code
\* does not compare them: it is for the users to agree.
SessionsAgree ==
    \A n \in Node :
        (pc[n] # "down" /\ pc[Peer[n]] # "down") => conv[n] = conv[Peer[n]]

\* The messages of the peer that n keeps, in its history or on the way there.
Received(n, m) ==
    \/ m \in store[n] /\ m.src = Peer[n]
    \/ \E i \in 1..Len(queue[n]) : queue[n][i] = m
    \/ m \in handler[n]

SelfNeverForks ==
    \A n \in Node :
        /\ \A m1, m2 \in store[n] :
              (m1.src = n /\ m2.src = n /\ m1.conv = m2.conv /\ m1.prev = m2.prev)
                  => m1 = m2
        /\ sending[n] # NoMsg => sending[n].conv = conv[n]
        /\ pc[n] # "down" =>
              \A m \in store[n] : (m.src = n /\ m.conv = conv[n]) => m.prev # latest[n]

\* Whatever session of n is open, the peer's messages that follow their own
\* conversation do not fork, and none follows what the listener expects.
PeerNeverForks ==
    \A n \in Node :
        /\ \A m1, m2 \in composed :
              /\ Received(n, m1) /\ Received(n, m2)
              /\ m1.conv = m2.conv /\ m1.prev = m2.prev /\ FollowsOwn(m1)
              => m1 = m2
        /\ pc[n] # "down" =>
              \A m \in composed : (Received(n, m) /\ FollowsOwn(m)) => m.prev # expected[n]

\* While sessions agree, a listener only meets messages of its conversation, and
\* none of those that n keeps follows what it expects.
AgreedNeverForks ==
    \A n \in Node :
        /\ \A m \in inbox[n] : m.conv = conv[n]
        /\ \A m1, m2 \in composed :
              /\ Received(n, m1) /\ Received(n, m2)
              /\ m1.conv = m2.conv /\ m1.prev = m2.prev
              => m1 = m2
        /\ pc[n] # "down" =>
              \A m \in composed : (Received(n, m) /\ m.conv = conv[n]) => m.prev # expected[n]

ForkInv == SelfNeverForks /\ PeerNeverForks
=============================================================================
