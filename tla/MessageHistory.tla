--------------------------- MODULE MessageHistory ---------------------------
(***************************************************************************)
(* message_history of conversation_engine.rs, as `history` runs it while   *)
(* other processes store messages: the rows of the conversation are read   *)
(* by one statement, and then the message that each reply refers to is     *)
(* looked up by a statement of its own.                                    *)
(*                                                                         *)
(* A message is known by its hash and has one UUID, so that a hash names   *)
(* the UUID too; the headers of a reply give a UUID and a hash, which need *)
(* not belong together.                                                    *)
(***************************************************************************)
EXTENDS History

CONSTANTS
    MaxMessages, \* bound: messages of the conversation, three less for each reply
    MaxReplies,  \* bound: messages with reply headers
    NoReply,     \* a message without them
    NoListing    \* no history command is running

ASSUME BoundsAssumption == MaxMessages \in Nat /\ MaxReplies \in Nat

Reference == [uuid : Hash, hash : Hash]

VARIABLES
    reply,     \* what the headers of a message refer to
    elsewhere, \* the messages stored in other conversations
    listing    \* what a history command read, and the replies it looked up

vars == <<rows, reply, elsewhere, listing>>

Replies == {h \in Hash : reply[h] # NoReply}

\* A message cannot name its own hash.
Init ==
    /\ rows = <<>>
    /\ \E R \in SUBSET Hash :
          /\ Cardinality(R) <= MaxReplies
          /\ \E ref \in [R -> Reference] :
                /\ \A h \in R : ref[h].hash # h
                /\ reply = [h \in Hash |-> IF h \in R THEN ref[h] ELSE NoReply]
    /\ elsewhere = {}
    /\ listing = NoListing

Unstored(h) == h \notin Stored(rows) \cup elsewhere

\* chat and receive store messages of this conversation and of others.
Store(m) ==
    /\ Unstored(m.hash)
    /\ Len(rows) + 3 * Cardinality(Replies) < MaxMessages
    /\ Insert(m)
    /\ UNCHANGED <<reply, elsewhere, listing>>

\* Only what replies refer to is looked up, so nothing else is stored there.
StoreElsewhere(h) ==
    /\ Unstored(h)
    /\ \E r \in Replies : h = reply[r].uuid
    /\ elsewhere' = elsewhere \cup {h}
    /\ UNCHANGED <<rows, reply, listing>>

----------------------------------------------------------------------------
(* history *)

Unresolved(shown, verdict) ==
    SelectSeq(shown, LAMBDA r : r.hash \in Replies \ DOMAIN verdict)

\* accepted_messages_by_conversation_fallback_order and order_history. With a
\* broken chain, or without a reply, the command has nothing to look up.
Read ==
    /\ listing = NoListing
    /\ history # Broken
    /\ Unresolved(history, <<>>) # <<>>
    /\ listing' = [shown |-> history, verdict |-> <<>>]
    /\ UNCHANGED <<rows, reply, elsewhere>>

\* Mutant of Verdict: a message of any conversation will do.
VerdictAnywhere(ref) ==
    IF ref.uuid \notin Stored(rows) \cup elsewhere THEN "unresolved"
    ELSE IF ref.uuid # ref.hash THEN "invalid"
    ELSE "valid"

\* validate_reply_reference: the message with the UUID is looked up, and must
\* be one of this conversation with the hash.
Verdict(ref) ==
    IF ref.uuid \notin Stored(rows) \cup elsewhere THEN "unresolved"
    ELSE IF ref.uuid \in elsewhere \/ ref.uuid # ref.hash THEN "invalid"
    ELSE "valid"

\* message_from_record, for the next reply in the order of the history.
Resolve ==
    /\ listing # NoListing
    /\ Unresolved(listing.shown, listing.verdict) # <<>>
    /\ LET h == Head(Unresolved(listing.shown, listing.verdict)).hash
       IN  listing' = [listing EXCEPT !.verdict =
                          [g \in DOMAIN @ \cup {h} |-> IF g = h THEN Verdict(reply[h]) ELSE @[g]]]
    /\ UNCHANGED <<rows, reply, elsewhere>>

\* The history is printed, or the process was killed before.
Close ==
    /\ listing # NoListing
    /\ listing' = NoListing
    /\ UNCHANGED <<rows, reply, elsewhere>>

----------------------------------------------------------------------------
Next ==
    \/ \E m \in Row : Store(m)
    \/ \E h \in Hash : StoreElsewhere(h)
    \/ Read
    \/ Resolve
    \/ Close

Spec == Init /\ [][Next]_vars

----------------------------------------------------------------------------
\* A verdict on a reply is about what is stored, and stays true while messages
\* arrive between the lookups and after them: a valid reply refers to a message
\* of this conversation, an invalid one never does, and a target shown in the
\* same history is always resolved.
IsTarget(ref) == ref.uuid = ref.hash /\ ref.hash \in Stored(rows)

VerdictsHold ==
    listing # NoListing =>
        \A h \in DOMAIN listing.verdict :
            CASE listing.verdict[h] = "valid" -> IsTarget(reply[h])
              [] listing.verdict[h] = "invalid" -> ~IsTarget(reply[h])
              [] listing.verdict[h] = "unresolved" ->
                    reply[h].uuid \notin Stored(listing.shown)

=============================================================================
