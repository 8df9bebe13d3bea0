------------------------------ MODULE History ------------------------------
(***************************************************************************)
(* The stored messages of one conversation, and the two ways of putting    *)
(* them in the order of their previous hashes: order_history of            *)
(* conversation_engine.rs, which `history` and `chat` show, and the strict *)
(* order_message_chain of storage.rs.                                      *)
(*                                                                         *)
(* `rows` is what storage returns, in the fallback order of sent_at,       *)
(* received_at and UUID.  These are not modelled: a sender is free to sign *)
(* any timestamp of its window and UUIDs are random, so a new message can  *)
(* land anywhere among the stored ones.                                    *)
(***************************************************************************)
EXTENDS Naturals, SequencesExt

CONSTANTS
    Hash,     \* message hashes
    Missing,  \* a hash that no stored message ever has
    Zero,     \* the all-zero previous hash
    Broken    \* the answer BrokenChain, or UnresolvedConversationChain

Row == [hash : Hash, prev : Hash \cup {Missing, Zero}]

ASSUME NoHashAssumption == Missing \notin Hash /\ Zero \notin Hash
ASSUME BrokenAssumption == Broken \notin Seq(Row) /\ Broken \notin Seq(Nat)

VARIABLE rows

Stored(s) == {s[i].hash : i \in DOMAIN s}

\* Mutant of IsStart: a message waits for its missing predecessor.
IsFirst(s, i) == s[i].prev = Zero

\* The heads of chain segments: a zero or a locally missing previous hash.
IsStart(s, i) == s[i].prev = Zero \/ s[i].prev \notin Stored(s)
Starts(s) == {i \in DOMAIN s : IsStart(s, i)}

\* by_hash has fewer entries than there are messages.
DuplicateHash(s) == \E i, j \in DOMAIN s : i # j /\ s[i].hash = s[j].hash

\* The messages that follow message i, and the one that a walk goes to.
Children(s, i) == {j \in DOMAIN s \ Starts(s) : s[j].prev = s[i].hash}
Child(s, i) == CHOOSE j \in Children(s, i) : TRUE

\* Walks from a message to the one that follows it, and so on. A visit is the
\* path of the messages visited so far, and the message that is visited next.
Walk(s) ==
    LET walk[visit \in Seq(DOMAIN s) \X DOMAIN s] ==
            LET path == visit[1]
                i == visit[2]
            IN  IF Contains(path, i) THEN Broken
                ELSE IF Children(s, i) = {} THEN Append(path, i)
                ELSE walk[<<Append(path, i), Child(s, i)>>]
    IN  walk

\* The walk goes on with message i if that starts a segment.
From(s, path, i) ==
    IF path = Broken \/ ~IsStart(s, i) THEN path ELSE Walk(s)[<<path, i>>]

\* The path along the segments that start among the first n messages.
Segments(s) ==
    LET path[n \in 0 .. Len(s)] == IF n = 0 THEN <<>> ELSE From(s, path[n - 1], n)
    IN  path

\* Mutant of Collect: messages that no walk reaches are left out.
CollectReached(s, path) ==
    IF path = Broken THEN Broken ELSE [k \in DOMAIN path |-> s[path[k]]]

\* The messages at the indices of `path`, if it visits all of them.
Collect(s, path) ==
    IF path = Broken \/ Len(path) # Len(s) THEN Broken
    ELSE [k \in DOMAIN path |-> s[path[k]]]

----------------------------------------------------------------------------
(* conversation_engine.rs *)

\* Two messages with the same stored previous hash.
Forked(s) ==
    \E i, j \in DOMAIN s \ Starts(s) : i # j /\ s[i].prev = s[j].prev

\* Mutant of order_history: the segments come last start first.
OrderLastStartFirst(s) ==
    IF Len(s) <= 1 THEN s
    ELSE IF DuplicateHash(s) \/ Forked(s) \/ Starts(s) = {} THEN Broken
    ELSE Collect(s, FoldRight(LAMBDA i, path : From(s, path, i), [i \in DOMAIN s |-> i], <<>>))

\* Mutant of order_history: the segments come in the order of their first
\* message in `rows`, whether it is the head or not.
OrderByEarliest(s) ==
    IF Len(s) <= 1 THEN s
    ELSE IF DuplicateHash(s) \/ Forked(s) \/ Starts(s) = {} THEN Broken
    ELSE LET Earliest(i) == CHOOSE j \in DOMAIN s :
                               /\ Contains(Walk(s)[<< <<>>, i >>], j)
                               /\ \A k \in DOMAIN s :
                                     Contains(Walk(s)[<< <<>>, i >>], k) => j <= k
             starts == SetToSortSeq(Starts(s), LAMBDA i, j : Earliest(i) < Earliest(j))
         IN  Collect(s, FoldLeft(LAMBDA path, i : From(s, path, i), <<>>, starts))

\* Mutant of order_history: an unambiguous history is left in fallback order.
OrderAsStored(s) ==
    IF Len(s) > 1 /\ (DuplicateHash(s) \/ Forked(s) \/ Starts(s) = {}) THEN Broken ELSE s

\* Every segment from its start, in the fallback order of the starts.
order_history(s) ==
    IF Len(s) <= 1 THEN s
    ELSE IF DuplicateHash(s) \/ Forked(s) \/ Starts(s) = {} THEN Broken
    ELSE Collect(s, Segments(s)[Len(s)])

----------------------------------------------------------------------------
(* storage.rs *)

\* Mutant of order_message_chain: it starts with the first of several starts.
OrderFromFirstStart(s) ==
    IF Len(s) <= 1 THEN s
    ELSE IF DuplicateHash(s) \/ Starts(s) = {} THEN Broken
    ELSE LET first == CHOOSE i \in Starts(s) : \A j \in Starts(s) : i <= j
         IN  [k \in DOMAIN Walk(s)[<< <<>>, first >>] |-> s[Walk(s)[<< <<>>, first >>][k]]]

\* A single chain: no two messages follow the same hash, and there is one start.
order_message_chain(s) ==
    IF Len(s) <= 1 THEN s
    ELSE IF \/ DuplicateHash(s)
            \/ \E i, j \in DOMAIN s : i # j /\ s[i].prev = s[j].prev
            \/ Cardinality(Starts(s)) # 1
         THEN Broken
    ELSE Collect(s, Walk(s)[<< <<>>, CHOOSE i \in Starts(s) : TRUE >>])

----------------------------------------------------------------------------
\* insert_accepted_chat_message stores a new message; one with a known hash is
\* answered from storage or refused. Storage knows nothing of forks or cycles.
Insert(m) ==
    /\ m.hash \notin Stored(rows)
    /\ \E i \in 1 .. Len(rows) + 1 : rows' = InsertAt(rows, i, m)

----------------------------------------------------------------------------
(* Properties *)

history == order_history(rows)

Follows(m1, m2) == m1.prev = m2.hash
Place(s, m) == SelectInSeq(s, LAMBDA r : r = m)

\* A history that is shown is complete and follows the chain: every stored
\* message is in it once, right after its predecessor when that one is stored.
HistoryFollowsChain ==
    history # Broken =>
        /\ ToSet(history) = ToSet(rows)
        /\ Len(history) = Len(rows)
        /\ \A i, j \in DOMAIN history :
              (i # j /\ Follows(history[j], history[i])) => j = i + 1

\* The heads of the segments are shown in the fallback order, however late the
\* segments' other messages were sent.
SegmentsInFallbackOrder ==
    history # Broken =>
        \A m1, m2 \in {rows[i] : i \in Starts(rows)} :
            Place(rows, m1) < Place(rows, m2) <=> Place(history, m1) < Place(history, m2)

\* A history is refused only when it is ambiguous: two messages follow the same
\* stored one, or some messages follow each other in a circle.
HasCycle ==
    \E S \in (SUBSET ToSet(rows)) \ {{}} : \A m \in S : \E p \in S : Follows(m, p)

HasFork ==
    \E m1, m2, p \in ToSet(rows) : m1 # m2 /\ Follows(m1, p) /\ Follows(m2, p)

RefusedIffAmbiguous == (history = Broken) <=> (Len(rows) > 1 /\ (HasFork \/ HasCycle))

\* The strict order is the history of a conversation with a single segment.
StrictIsOneSegment ==
    order_message_chain(rows) =
        IF Cardinality(Starts(rows)) <= 1 THEN history ELSE Broken

\* A history that is refused stays refused: no message that arrives later
\* resolves it, so a fork ends the conversation for `chat`.
RefusedForever == [][history = Broken => history' = Broken]_rows

\* A late message moves only itself and what follows it in the chain: the other
\* messages of a history that was already shown keep their order, although the
\* late one may join two segments or come with the oldest timestamp. The
\* other messages are any that come with all their stored predecessors.
KeepsOrder(before, after) ==
    \A others \in SUBSET ToSet(before) :
        (\A m \in others, p \in ToSet(after) : Follows(m, p) => p \in others) =>
            \A m1, m2 \in others :
                Place(before, m1) < Place(before, m2) <=> Place(after, m1) < Place(after, m2)

LateMessageMovesWhatFollows ==
    [][\A before \in {history} \ {Broken}, after \in {history'} \ {Broken} :
           KeepsOrder(before, after)]_rows

=============================================================================
