----------------------------- MODULE Discovery -----------------------------
(***************************************************************************)
(* The peer registry of one `discover` session, Self, and the nodes whose  *)
(* announcements reach it by UDP multicast (discovery.rs).                 *)
(*                                                                         *)
(* A registry is memory of one process, and processes share nothing but    *)
(* datagrams, so one observer stands for all of them. It hears itself:     *)
(* multicast loopback is on. A datagram may be lost, delayed, overtaken or *)
(* delivered twice. A node that is restarted may advertise another address.*)
(*                                                                         *)
(* A node is known by its fingerprint; nickname and last_seen are shown    *)
(* but decide nothing, except that a nickname longer than 255 bytes cannot *)
(* be encoded.                                                             *)
(*                                                                         *)
(* An announcement carries no key. record_public_key and subscribe_rekey   *)
(* are the library's interface, which the discover command itself does not *)
(* use; a subscriber listens from the moment a session opens.              *)
(***************************************************************************)
EXTENDS Naturals, Sequences

CONSTANTS
    Node,           \* nodes, by fingerprint
    Self,           \* the node whose registry this is
    LongNick,       \* nodes with a nickname longer than 255 bytes
    Addr,           \* addresses that nodes advertise
    Key,            \* public keys
    NoKey,          \* no public key recorded
    Off,            \* not running
    NoEntry,        \* not in the registry
    Capacity,       \* the broadcast channel keeps this many events
    MaxDuplicates   \* bound on the datagrams delivered twice

ASSUME SelfAssumption == Self \in Node /\ LongNick \subseteq Node
ASSUME CapacityAssumption == Capacity \in Nat \ {0}
ASSUME DuplicatesAssumption == MaxDuplicates \in Nat

VARIABLES
    running,     \* the address a node advertises, or Off
    net,         \* announcements on their way to the host of Self
    registry,    \* the entry of a fingerprint, or NoEntry
    rekeys,      \* PeerRekeyed events that a subscriber has not read yet
    duplicates   \* datagrams delivered twice so far

vars == <<running, net, registry, rekeys, duplicates>>

Announcement == [fp : Node, addr : Addr]
PeerEntry == [addr : Addr, key : Key \cup {NoKey}]
PeerRekeyed == [fp : Node, old : Key, new : Key]

ASSUME NoKeyAssumption == NoKey \notin Key
ASSUME NoEntryAssumption == NoEntry \notin PeerEntry

Listening == running[Self] # Off

----------------------------------------------------------------------------
Init ==
    /\ running = [n \in Node |-> Off]
    /\ net = {}
    /\ registry = [n \in Node |-> NoEntry]
    /\ rekeys = <<>>
    /\ duplicates = 0

Start(n, a) ==
    /\ running[n] = Off
    /\ running' = [running EXCEPT ![n] = a]
    /\ UNCHANGED <<net, registry, rekeys, duplicates>>

\* Mutant of Stop: the tasks and the registry outlive the session.
StopKeepsRegistry(n) ==
    /\ running[n] # Off
    /\ running' = [running EXCEPT ![n] = Off]
    /\ UNCHANGED <<net, registry, rekeys, duplicates>>

\* The duration is over, or the process dies. The registry of Self goes with it;
\* another node just falls silent, and nobody is told. What is on its way stays
\* there: it may reach the next session of Self.
Stop(n) ==
    /\ running[n] # Off
    /\ running' = [running EXCEPT ![n] = Off]
    /\ IF n = Self
       THEN /\ registry' = [m \in Node |-> NoEntry]
            /\ rekeys' = <<>>
       ELSE UNCHANGED <<registry, rekeys>>
    /\ UNCHANGED <<net, duplicates>>

\* Mutant of Announce: a long nickname is cut to what fits.
AnnounceTruncated(n) ==
    /\ running[n] # Off
    /\ net' = net \cup {[fp |-> n, addr |-> running[n]]}
    /\ UNCHANGED <<running, registry, rekeys, duplicates>>

\* One tick of sender_loop, whoever listens. An announcement that cannot be
\* encoded is skipped.
Announce(n) ==
    /\ running[n] # Off
    /\ n \notin LongNick
    /\ net' = net \cup {[fp |-> n, addr |-> running[n]]}
    /\ UNCHANGED <<running, registry, rekeys, duplicates>>

Lose(d) ==
    /\ d \in net
    /\ net' = net \ {d}
    /\ UNCHANGED <<running, registry, rekeys, duplicates>>

\* Mutant of Upserted: the recorded key is replaced like the rest.
UpsertedWithoutKey(d) == [addr |-> d.addr, key |-> NoKey]

\* Mutant of Upserted: the first address stays.
UpsertedOnce(d) ==
    IF registry[d.fp] = NoEntry THEN [addr |-> d.addr, key |-> NoKey]
    ELSE registry[d.fp]

\* upsert_peer: the latest announcement to arrive, with the key kept.
Upserted(d) ==
    [addr |-> d.addr,
     key |-> IF registry[d.fp] = NoEntry THEN NoKey ELSE registry[d.fp].key]

\* receiver_loop takes one datagram, which the network may deliver again.
Receive(d) ==
    /\ Listening
    /\ d \in net
    /\ registry' = [registry EXCEPT ![d.fp] = Upserted(d)]
    /\ \/ net' = net \ {d} /\ UNCHANGED duplicates
       \/ /\ duplicates < MaxDuplicates
          /\ duplicates' = duplicates + 1
          /\ UNCHANGED net
    /\ UNCHANGED <<running, rekeys>>

\* The broadcast channel drops the oldest event that a slow subscriber has left.
Broadcast(s, e) ==
    LET all == Append(s, e) IN IF Len(all) > Capacity THEN Tail(all) ELSE all

\* Mutant of RecordKey: the first key of a fingerprint stays.
RecordKeyOnce(n, k) ==
    /\ Listening
    /\ registry[n] # NoEntry
    /\ registry' = [registry EXCEPT ![n].key = IF @ = NoKey THEN k ELSE @]
    /\ rekeys' = IF registry[n].key \in {k, NoKey} THEN rekeys
                 ELSE Broadcast(rekeys, [fp |-> n, old |-> registry[n].key, new |-> k])
    /\ UNCHANGED <<running, net, duplicates>>

\* record_public_key: replaces the key of a known peer, and tells when another
\* one was recorded before. An unknown fingerprint changes nothing.
RecordKey(n, k) ==
    /\ Listening
    /\ registry[n] # NoEntry
    /\ registry' = [registry EXCEPT ![n].key = k]
    /\ rekeys' = IF registry[n].key \in {k, NoKey} THEN rekeys
                 ELSE Broadcast(rekeys, [fp |-> n, old |-> registry[n].key, new |-> k])
    /\ UNCHANGED <<running, net, duplicates>>

\* A subscriber reads an event.
ReadRekey ==
    /\ rekeys # <<>>
    /\ rekeys' = Tail(rekeys)
    /\ UNCHANGED <<running, net, registry, duplicates>>

Next ==
    \/ \E n \in Node : Stop(n) \/ Announce(n) \/ \E a \in Addr : Start(n, a)
    \/ \E d \in net : Lose(d) \/ Receive(d)
    \/ \E n \in Node, k \in Key : RecordKey(n, k)
    \/ ReadRekey

Spec == Init /\ [][Next]_vars

\* The sender's timer keeps ticking. A node whose nickname is too long has
\* nothing to send at any tick.
SenderFairness == \A n \in Node \ LongNick : WF_vars(Announce(n))

\* The network does not lose the same announcement for ever.
NetworkFairness ==
    \A n \in Node \ LongNick, a \in Addr : SF_vars(Receive([fp |-> n, addr |-> a]))

FairSpec == Spec /\ SenderFairness /\ NetworkFairness

----------------------------------------------------------------------------
(* Properties *)

\* Types; a session that is not running holds nothing.
TypeOK ==
    /\ running \in [Node -> Addr \cup {Off}]
    /\ net \subseteq Announcement
    /\ registry \in [Node -> PeerEntry \cup {NoEntry}]
    /\ rekeys \in Seq(PeerRekeyed) /\ Len(rekeys) <= Capacity
    /\ duplicates \in 0 .. MaxDuplicates
    /\ ~Listening => rekeys = <<>> /\ \A n \in Node : registry[n] = NoEntry

\* Two events of one fingerprint with none of it in between follow each other.
OneStory(s) ==
    \A i, j \in DOMAIN s :
        /\ i < j /\ s[i].fp = s[j].fp
        /\ \A k \in i + 1 .. j - 1 : s[k].fp # s[i].fp
        => s[j].old = s[i].new

\* The last event of a fingerprint names the key on record.
EndsAt(s, reg) ==
    \A i \in DOMAIN s :
        (\A j \in i + 1 .. Len(s) : s[j].fp # s[i].fp) =>
            reg[s[i].fp] # NoEntry /\ reg[s[i].fp].key = s[i].new

\* What a subscriber has not read about a fingerprint is one story that ends
\* with the key on record, even when it was too slow to read all of it and while
\* announcements of the peer keep replacing its entry.
RekeysLeadToCurrent == OneStory(rekeys) /\ EndsAt(rekeys, registry)

\* The key of a peer is never forgotten or replaced silently while the session
\* lasts, in whatever order announcements and keys arrive.
KeyIsKept ==
    [][\A n \in Node :
          (Listening /\ Listening' /\ registry[n] # NoEntry /\ registry[n].key # NoKey) =>
              /\ registry'[n] # NoEntry
              /\ registry'[n].key # registry[n].key =>
                    /\ rekeys' # <<>>
                    /\ rekeys'[Len(rekeys')] =
                          [fp |-> n, old |-> registry[n].key, new |-> registry'[n].key]]_vars

\* A node whose nickname is too long runs without an error and is never seen,
\* not even by itself.
LongNickIsNeverSeen == \A n \in LongNick : registry[n] = NoEntry

\* What makes these properties inductive: a fingerprint with an unread event has
\* a key, and nothing that cannot be encoded is under way.
RekeyedIsKnown ==
    \A i \in DOMAIN rekeys :
        registry[rekeys[i].fp] # NoEntry /\ registry[rekeys[i].fp].key # NoKey

NothingLongOnTheWay == \A d \in net : d.fp \notin LongNick

DiscoveryInv ==
    /\ RekeysLeadToCurrent
    /\ RekeyedIsKnown
    /\ LongNickIsNeverSeen
    /\ NothingLongOnTheWay

\* Two nodes that stay up: the address in the registry settles on the one that
\* is advertised, whatever older announcements are still on their way.
AddressSettles ==
    \A n \in Node \ LongNick, a \in Addr :
        <>[](running[n] = a /\ Listening)
            => <>[](registry[n] # NoEntry /\ registry[n].addr = a)
=============================================================================
