-------------------------- MODULE DiscoveryProofs --------------------------
(***************************************************************************)
(* The safety of the peer registry, for any number of nodes, addresses and *)
(* keys, any capacity of the channel and any number of duplicates.         *)
(***************************************************************************)
EXTENDS Discovery, SequenceTheorems, TLAPS

----------------------------------------------------------------------------
(* The broadcast channel. *)

\* An unread event drops out of the channel without disturbing the others.
LEMMA StoryTail ==
    ASSUME NEW s \in Seq(PeerRekeyed), s # <<>>, NEW reg,
           OneStory(s), EndsAt(s, reg)
    PROVE  OneStory(Tail(s)) /\ EndsAt(Tail(s), reg)
<1> DEFINE t == Tail(s)
<1>1. /\ t \in Seq(PeerRekeyed)
      /\ Len(t) = Len(s) - 1
      /\ Len(s) \in Nat \ {0}
      /\ \A i \in 1 .. Len(t) : t[i] = s[i + 1]
  OBVIOUS
<1> HIDE DEF t
<1>d. DOMAIN t = 1 .. Len(t) /\ DOMAIN s = 1 .. Len(s)
  BY <1>1
<1>2. OneStory(t)
  <2> SUFFICES ASSUME NEW i \in 1 .. Len(t), NEW j \in 1 .. Len(t),
                      i < j, t[i].fp = t[j].fp,
                      \A k \in i + 1 .. j - 1 : t[k].fp # t[i].fp
               PROVE  t[j].old = t[i].new
    BY <1>d DEF OneStory
  <2>1. i + 1 \in 1 .. Len(s) /\ j + 1 \in 1 .. Len(s) /\ i + 1 < j + 1
    BY <1>1
  <2>2. ASSUME NEW k \in (i + 1) + 1 .. (j + 1) - 1
        PROVE  s[k].fp # s[i + 1].fp
    <3>1. k - 1 \in i + 1 .. j - 1 /\ k - 1 \in 1 .. Len(t) /\ (k - 1) + 1 = k
      BY <2>2, <1>1
    <3>2. t[k - 1] = s[k] /\ t[i] = s[i + 1]
      BY <3>1, <1>1
    <3> QED  BY <3>1, <3>2
  <2>3. t[i] = s[i + 1] /\ t[j] = s[j + 1]
    BY <1>1
  <2>4. s[i + 1].fp = s[j + 1].fp /\ i + 1 \in DOMAIN s /\ j + 1 \in DOMAIN s
    BY <2>1, <2>3, <1>d
  <2>5. s[j + 1].old = s[i + 1].new
    BY <2>1, <2>2, <2>4 DEF OneStory
  <2> QED  BY <2>3, <2>5
<1>3. EndsAt(t, reg)
  <2> SUFFICES ASSUME NEW i \in 1 .. Len(t),
                      \A j \in i + 1 .. Len(t) : t[j].fp # t[i].fp
               PROVE  reg[t[i].fp] # NoEntry /\ reg[t[i].fp].key = t[i].new
    BY <1>d DEF EndsAt
  <2>1. i + 1 \in 1 .. Len(s) /\ t[i] = s[i + 1]
    BY <1>1
  <2>2. ASSUME NEW j \in (i + 1) + 1 .. Len(s)
        PROVE  s[j].fp # s[i + 1].fp
    <3>1. j - 1 \in i + 1 .. Len(t) /\ j - 1 \in 1 .. Len(t) /\ (j - 1) + 1 = j
      BY <2>2, <1>1
    <3>2. t[j - 1] = s[j]
      BY <3>1, <1>1
    <3> QED  BY <3>1, <3>2, <2>1
  <2> QED  BY <2>1, <2>2, <1>d DEF EndsAt
<1> QED  BY <1>2, <1>3 DEF t

\* An event joins the channel when the key of its fingerprint changes.
LEMMA StoryAppend ==
    ASSUME NEW s \in Seq(PeerRekeyed), NEW e \in PeerRekeyed, NEW reg, NEW new,
           OneStory(s), EndsAt(s, reg),
           reg[e.fp].key = e.old,
           new[e.fp] # NoEntry, new[e.fp].key = e.new,
           \A n \in Node \ {e.fp} : new[n] = reg[n]
    PROVE  OneStory(Append(s, e)) /\ EndsAt(Append(s, e), new)
<1> DEFINE t == Append(s, e)
<1>1. /\ t \in Seq(PeerRekeyed)
      /\ Len(t) = Len(s) + 1
      /\ Len(s) \in Nat
      /\ \A i \in 1 .. Len(s) : t[i] = s[i]
      /\ t[Len(s) + 1] = e
  OBVIOUS
<1> HIDE DEF t
<1>d. DOMAIN t = 1 .. Len(t) /\ DOMAIN s = 1 .. Len(s)
  BY <1>1
<1>f. ASSUME NEW i \in 1 .. Len(s) PROVE s[i].fp \in Node
  <2>1. s[i] \in PeerRekeyed
    BY <1>f
  <2> QED  BY <2>1 DEF PeerRekeyed
<1>2. OneStory(t)
  <2> SUFFICES ASSUME NEW i \in 1 .. Len(t), NEW j \in 1 .. Len(t),
                      i < j, t[i].fp = t[j].fp,
                      \A k \in i + 1 .. j - 1 : t[k].fp # t[i].fp
               PROVE  t[j].old = t[i].new
    BY <1>d DEF OneStory
  <2>1. i \in 1 .. Len(s) /\ t[i] = s[i]
    BY <1>1
  <2>2. \A k \in i + 1 .. j - 1 : k \in 1 .. Len(s) /\ s[k].fp # s[i].fp
    BY <1>1, <2>1
  <2>3. CASE j \in 1 .. Len(s)
    <3>1. t[j] = s[j]
      BY <2>3, <1>1
    <3>2. s[i].fp = s[j].fp /\ \A k \in i + 1 .. j - 1 : s[k].fp # s[i].fp
      BY <2>1, <2>2, <3>1
    <3>3. i \in DOMAIN s /\ j \in DOMAIN s
      BY <2>1, <2>3, <1>d
    <3>4. s[j].old = s[i].new
      BY <3>2, <3>3 DEF OneStory
    <3> QED  BY <2>1, <3>1, <3>4
  <2>4. CASE j = Len(s) + 1
    <3>1. t[j] = e /\ s[i].fp = e.fp
      BY <2>4, <2>1, <1>1
    <3>2. reg[s[i].fp].key = s[i].new
      BY <2>1, <2>2, <2>4, <1>1, <1>d DEF EndsAt
    <3> QED  BY <3>1, <3>2, <2>1
  <2>5. j \in 1 .. Len(s) \/ j = Len(s) + 1
    <3>1. j \in 1 .. Len(s) + 1
      BY <1>1
    <3>2. Len(s) \in Nat
      BY <1>1
    <3> QED  BY <3>1, <3>2
  <2> QED  BY <2>3, <2>4, <2>5
<1>3. EndsAt(t, new)
  <2> SUFFICES ASSUME NEW i \in 1 .. Len(t),
                      \A j \in i + 1 .. Len(t) : t[j].fp # t[i].fp
               PROVE  new[t[i].fp] # NoEntry /\ new[t[i].fp].key = t[i].new
    BY <1>d DEF EndsAt
  <2>1. CASE i = Len(s) + 1
    BY <2>1, <1>1
  <2>2. CASE i \in 1 .. Len(s)
    <3>1. t[i] = s[i] /\ Len(t) \in i + 1 .. Len(t)
      BY <2>2, <1>1
    <3>2. s[i].fp # e.fp
      BY <3>1, <1>1
    <3>3. \A j \in i + 1 .. Len(s) : s[j].fp # s[i].fp
      BY <3>1, <2>2, <1>1
    <3>4. reg[s[i].fp] # NoEntry /\ reg[s[i].fp].key = s[i].new
      BY <3>3, <2>2, <1>d DEF EndsAt
    <3> QED  BY <3>1, <3>2, <3>4, <2>2, <1>f
  <2> QED  BY <2>1, <2>2, <1>1
<1> QED  BY <1>2, <1>3 DEF t

\* The channel stays within its capacity, and keeps one story.
LEMMA BroadcastSound ==
    ASSUME NEW s \in Seq(PeerRekeyed), Len(s) <= Capacity,
           NEW e \in PeerRekeyed, NEW reg, NEW new,
           OneStory(s), EndsAt(s, reg),
           reg[e.fp].key = e.old,
           new[e.fp] # NoEntry, new[e.fp].key = e.new,
           \A n \in Node \ {e.fp} : new[n] = reg[n]
    PROVE  OneStory(Broadcast(s, e)) /\ EndsAt(Broadcast(s, e), new)
<1>0. /\ Append(s, e) \in Seq(PeerRekeyed)
      /\ Len(s) \in Nat /\ Len(Append(s, e)) = Len(s) + 1
  OBVIOUS
<1>1. Append(s, e) \in Seq(PeerRekeyed) /\ Append(s, e) # <<>>
  BY <1>0
<1>2. OneStory(Append(s, e)) /\ EndsAt(Append(s, e), new)
  BY StoryAppend
<1>3. OneStory(Tail(Append(s, e))) /\ EndsAt(Tail(Append(s, e)), new)
  BY <1>1, <1>2, StoryTail
<1> QED  BY <1>2, <1>3 DEF Broadcast

\* What the channel holds after a broadcast it held before, or is the event.
LEMMA BroadcastType ==
    ASSUME NEW s \in Seq(PeerRekeyed), Len(s) <= Capacity,
           NEW e \in PeerRekeyed
    PROVE  /\ Broadcast(s, e) \in Seq(PeerRekeyed)
           /\ Broadcast(s, e) # <<>>
           /\ Len(Broadcast(s, e)) <= Capacity
           /\ Broadcast(s, e)[Len(Broadcast(s, e))] = e
           /\ \A i \in DOMAIN Broadcast(s, e) :
                 Broadcast(s, e)[i] = e \/ \E j \in DOMAIN s : Broadcast(s, e)[i] = s[j]
<1> DEFINE all == Append(s, e)
<1>1. /\ all \in Seq(PeerRekeyed)
      /\ Len(all) = Len(s) + 1
      /\ Len(s) \in Nat
      /\ \A i \in 1 .. Len(s) : all[i] = s[i]
      /\ all[Len(s) + 1] = e
  OBVIOUS
<1>2. /\ Tail(all) \in Seq(PeerRekeyed)
      /\ Len(Tail(all)) = Len(s)
      /\ \A i \in 1 .. Len(s) : Tail(all)[i] = all[i + 1]
  BY <1>1
<1> HIDE DEF all
<1>b. Broadcast(s, e) = IF Len(all) > Capacity THEN Tail(all) ELSE all
  BY DEF Broadcast, all
<1>3. CASE Len(all) > Capacity
  <2>1. Len(s) = Capacity /\ Len(s) > 0
    BY <1>1, <1>3, CapacityAssumption
  <2>2. Tail(all)[Len(s)] = e
    BY <1>1, <1>2, <2>1
  <2>3. ASSUME NEW i \in 1 .. Len(s)
        PROVE  Tail(all)[i] = e \/ \E j \in DOMAIN s : Tail(all)[i] = s[j]
    <3>1. CASE i = Len(s)
      BY <3>1, <2>2
    <3>2. CASE i # Len(s)
      <4>1. i + 1 \in 1 .. Len(s) /\ i + 1 \in DOMAIN s
        BY <3>2, <1>1
      <4> QED  BY <4>1, <1>1, <1>2
    <3> QED  BY <3>1, <3>2
  <2>4. DOMAIN Tail(all) = 1 .. Len(s) /\ Tail(all) # <<>>
    BY <1>2, <2>1
  <2> QED  BY <1>3, <1>b, <1>2, <2>1, <2>2, <2>3, <2>4
<1>4. CASE ~(Len(all) > Capacity)
  <2>1. DOMAIN all = 1 .. Len(s) + 1 /\ all # <<>> /\ Len(all) <= Capacity
    BY <1>1, <1>4, CapacityAssumption
  <2>2. ASSUME NEW i \in 1 .. Len(s) + 1
        PROVE  all[i] = e \/ \E j \in DOMAIN s : all[i] = s[j]
    <3>1. CASE i = Len(s) + 1
      BY <3>1, <1>1
    <3>2. CASE i # Len(s) + 1
      <4>1. i \in 1 .. Len(s) /\ i \in DOMAIN s
        BY <3>2, <1>1
      <4> QED  BY <4>1, <1>1
    <3> QED  BY <3>1, <3>2
  <2> QED  BY <1>4, <1>b, <1>1, <2>1, <2>2
<1> QED  BY <1>3, <1>4

----------------------------------------------------------------------------
(* Types. *)

\* An entry of the registry, taken out of it.
LEMMA EntryType ==
    ASSUME TypeOK, NEW n \in Node, registry[n] # NoEntry
    PROVE  /\ registry[n] \in PeerEntry
           /\ registry[n].addr \in Addr
           /\ registry[n].key \in Key \cup {NoKey}
BY DEF TypeOK, PeerEntry

\* What an announcement makes of an entry: it keeps the key.
LEMMA UpsertedType ==
    ASSUME TypeOK, NEW d \in Announcement
    PROVE  /\ d.fp \in Node
           /\ Upserted(d) \in PeerEntry
           /\ Upserted(d) # NoEntry
           /\ registry[d.fp] # NoEntry => Upserted(d).key = registry[d.fp].key
<1>1. d.fp \in Node /\ d.addr \in Addr
  BY DEF Announcement
<1>2. registry[d.fp] # NoEntry => registry[d.fp].key \in Key \cup {NoKey}
  BY <1>1, EntryType
<1>3. Upserted(d) \in PeerEntry
  BY <1>1, <1>2 DEF Upserted, PeerEntry
<1> QED  BY <1>1, <1>3, NoEntryAssumption DEF Upserted

\* A change of a recorded key is an event.
LEMMA EventType ==
    ASSUME TypeOK, NEW n \in Node, NEW k \in Key,
           registry[n] # NoEntry, registry[n].key \notin {k, NoKey}
    PROVE  [fp |-> n, old |-> registry[n].key, new |-> k] \in PeerRekeyed
BY EntryType DEF PeerRekeyed

\* What RecordKey does to the registry.
LEMMA RecordKeyEffect ==
    ASSUME TypeOK, NEW n \in Node, NEW k \in Key, RecordKey(n, k)
    PROVE  /\ registry[n] # NoEntry
           /\ registry'[n] \in PeerEntry
           /\ registry'[n] # NoEntry
           /\ registry'[n].key = k
           /\ \A m \in Node \ {n} : registry'[m] = registry[m]
           /\ registry' \in [Node -> PeerEntry \cup {NoEntry}]
<1>1. registry[n] # NoEntry /\ registry' = [registry EXCEPT ![n].key = k]
  BY DEF RecordKey
<1>2. registry \in [Node -> PeerEntry \cup {NoEntry}] /\ registry[n] \in PeerEntry
  BY <1>1, EntryType DEF TypeOK
<1>3. registry'[n] = [registry[n] EXCEPT !.key = k]
  BY <1>1, <1>2
<1>4. registry'[n] \in PeerEntry /\ registry'[n].key = k
  BY <1>2, <1>3 DEF PeerEntry
<1>5. \A m \in Node \ {n} : registry'[m] = registry[m]
  BY <1>1, <1>2
<1>6. registry' \in [Node -> PeerEntry \cup {NoEntry}]
  BY <1>1, <1>2, <1>3, <1>4, <1>5
<1> QED  BY <1>1, <1>4, <1>5, <1>6, NoEntryAssumption

\* The types are inductive.
LEMMA TypeInductive == TypeOK /\ [Next]_vars => TypeOK'
<1> SUFFICES ASSUME TypeOK, [Next]_vars PROVE TypeOK'
  OBVIOUS
<1> USE SelfAssumption
<1>1. ASSUME NEW n \in Node, Stop(n) PROVE TypeOK'
  <2>1. running' \in [Node -> Addr \cup {Off}] /\ duplicates' = duplicates
    BY <1>1 DEF Stop, TypeOK
  <2>2. CASE n = Self
    <3>1. net' = net /\ registry' = [m \in Node |-> NoEntry] /\ rekeys' = <<>>
      BY <1>1, <2>2 DEF Stop
    <3> QED  BY <2>1, <3>1, CapacityAssumption DEF TypeOK
  <2>3. CASE n # Self
    <3>1. /\ net' = net /\ registry' = registry /\ rekeys' = rekeys
          /\ running'[Self] = running[Self]
      BY <1>1, <2>3 DEF Stop, TypeOK
    <3> QED  BY <2>1, <3>1 DEF TypeOK, Listening
  <2> QED  BY <2>2, <2>3
<1>2. ASSUME NEW n \in Node, Announce(n) PROVE TypeOK'
  BY <1>2 DEF Announce, TypeOK, Announcement, Listening
<1>3. ASSUME NEW n \in Node, NEW a \in Addr, Start(n, a) PROVE TypeOK'
  BY <1>3 DEF Start, TypeOK, Listening
<1>4. ASSUME NEW d \in net, Lose(d) PROVE TypeOK'
  BY <1>4 DEF Lose, TypeOK, Listening
<1>5. ASSUME NEW d \in net, Receive(d) PROVE TypeOK'
  <2>1. d \in Announcement
    BY DEF TypeOK
  <2>2. registry' \in [Node -> PeerEntry \cup {NoEntry}]
    BY <1>5, <2>1, UpsertedType DEF Receive, TypeOK
  <2>3. /\ net' \subseteq Announcement /\ duplicates' \in 0 .. MaxDuplicates
        /\ running' = running /\ rekeys' = rekeys
    BY <1>5, DuplicatesAssumption DEF Receive, TypeOK
  <2> QED  BY <1>5, <2>2, <2>3 DEF Receive, TypeOK, Listening
<1>6. ASSUME NEW n \in Node, NEW k \in Key, RecordKey(n, k) PROVE TypeOK'
  <2>1. registry' \in [Node -> PeerEntry \cup {NoEntry}]
    BY <1>6, RecordKeyEffect
  <2>2. rekeys' \in Seq(PeerRekeyed) /\ Len(rekeys') <= Capacity
    <3>1. CASE registry[n].key \in {k, NoKey}
      BY <1>6, <3>1 DEF RecordKey, TypeOK
    <3>2. CASE registry[n].key \notin {k, NoKey}
      BY <1>6, <3>2, EventType, BroadcastType DEF RecordKey, TypeOK
    <3> QED  BY <3>1, <3>2
  <2>3. Listening /\ running' = running /\ net' = net /\ duplicates' = duplicates
    BY <1>6 DEF RecordKey
  <2> QED  BY <2>1, <2>2, <2>3 DEF TypeOK, Listening
<1>7. ASSUME ReadRekey PROVE TypeOK'
  <2>1. rekeys' \in Seq(PeerRekeyed) /\ Len(rekeys') <= Capacity
    BY <1>7, CapacityAssumption DEF ReadRekey, TypeOK
  <2> QED  BY <1>7, <2>1 DEF ReadRekey, TypeOK, Listening
<1>8. CASE UNCHANGED vars
  BY <1>8 DEF vars, TypeOK, Listening
<1> QED  BY <1>1, <1>2, <1>3, <1>4, <1>5, <1>6, <1>7, <1>8 DEF Next

\* The registry is well-formed, holds nothing while the session is down, and
\* the channel keeps within its capacity.
THEOREM TypeCorrect == Spec => []TypeOK
<1>1. Init => TypeOK
  BY CapacityAssumption, DuplicatesAssumption DEF Init, TypeOK
<1> QED  BY <1>1, TypeInductive, PTL DEF Spec

----------------------------------------------------------------------------
(* The invariants. *)

\* One step keeps the unread events one story that ends at the key on record.
LEMMA RekeysInductive ==
    ASSUME TypeOK, RekeysLeadToCurrent, RekeyedIsKnown, [Next]_vars
    PROVE  RekeysLeadToCurrent' /\ RekeyedIsKnown'
<1>s. rekeys \in Seq(PeerRekeyed) /\ Len(rekeys) <= Capacity
  BY DEF TypeOK
<1>f. ASSUME NEW i \in DOMAIN rekeys PROVE rekeys[i].fp \in Node
  <2>1. rekeys[i] \in PeerRekeyed
    BY <1>s
  <2> QED  BY <2>1 DEF PeerRekeyed
<1>0. ASSUME rekeys' = rekeys,
             \A n \in Node : registry[n] # NoEntry =>
                registry'[n] # NoEntry /\ registry'[n].key = registry[n].key
      PROVE  RekeysLeadToCurrent' /\ RekeyedIsKnown'
  <2>1. RekeyedIsKnown'
    BY <1>0, <1>f DEF RekeyedIsKnown
  <2>2. OneStory(rekeys')
    BY <1>0 DEF RekeysLeadToCurrent
  <2>3. EndsAt(rekeys', registry')
    BY <1>0, <1>f DEF RekeysLeadToCurrent, EndsAt, RekeyedIsKnown
  <2> QED  BY <2>1, <2>2, <2>3 DEF RekeysLeadToCurrent
<1>1. ASSUME NEW n \in Node, Stop(n) PROVE RekeysLeadToCurrent' /\ RekeyedIsKnown'
  <2>1. CASE n = Self
    <3>1. rekeys' = <<>>
      BY <1>1, <2>1 DEF Stop
    <3> QED  BY <3>1 DEF RekeysLeadToCurrent, OneStory, EndsAt, RekeyedIsKnown
  <2>2. CASE n # Self
    BY <1>0, <1>1, <2>2 DEF Stop
  <2> QED  BY <2>1, <2>2
<1>2. ASSUME NEW n \in Node, Announce(n) PROVE RekeysLeadToCurrent' /\ RekeyedIsKnown'
  BY <1>0, <1>2 DEF Announce
<1>3. ASSUME NEW n \in Node, NEW a \in Addr, Start(n, a)
      PROVE  RekeysLeadToCurrent' /\ RekeyedIsKnown'
  BY <1>0, <1>3 DEF Start
<1>4. ASSUME NEW d \in net, Lose(d) PROVE RekeysLeadToCurrent' /\ RekeyedIsKnown'
  BY <1>0, <1>4 DEF Lose
<1>5. ASSUME NEW d \in net, Receive(d) PROVE RekeysLeadToCurrent' /\ RekeyedIsKnown'
  <2>1. d \in Announcement /\ registry \in [Node -> PeerEntry \cup {NoEntry}]
    BY DEF TypeOK
  <2>2. rekeys' = rekeys /\ registry' = [registry EXCEPT ![d.fp] = Upserted(d)]
    BY <1>5 DEF Receive
  <2>3. ASSUME NEW n \in Node, registry[n] # NoEntry
        PROVE  registry'[n] # NoEntry /\ registry'[n].key = registry[n].key
    BY <2>1, <2>2, <2>3, UpsertedType
  <2> QED  BY <1>0, <2>2, <2>3
<1>6. ASSUME NEW n \in Node, NEW k \in Key, RecordKey(n, k)
      PROVE  RekeysLeadToCurrent' /\ RekeyedIsKnown'
  <2>1. /\ registry'[n] # NoEntry /\ registry'[n].key = k /\ k # NoKey
        /\ \A m \in Node \ {n} : registry'[m] = registry[m]
    BY <1>6, RecordKeyEffect, NoKeyAssumption
  <2>2. CASE registry[n].key = k
    <3>1. rekeys' = rekeys
      BY <1>6, <2>2 DEF RecordKey
    <3> QED  BY <1>0, <2>1, <2>2, <3>1
  <2>3. CASE registry[n].key = NoKey
    <3>1. rekeys' = rekeys
      BY <1>6, <2>3 DEF RecordKey
    <3>2. \A i \in DOMAIN rekeys : rekeys[i].fp # n
      BY <2>3 DEF RekeyedIsKnown
    <3>3. \A i \in DOMAIN rekeys : registry'[rekeys[i].fp] = registry[rekeys[i].fp]
      BY <2>1, <3>2, <1>f
    <3> QED  BY <3>1, <3>3 DEF RekeysLeadToCurrent, EndsAt, RekeyedIsKnown
  <2>4. CASE registry[n].key \notin {k, NoKey}
    <3> DEFINE e == [fp |-> n, old |-> registry[n].key, new |-> k]
    <3>1. e \in PeerRekeyed /\ rekeys' = Broadcast(rekeys, e)
      BY <1>6, <2>4, EventType, RecordKeyEffect DEF RecordKey
    <3>2. e.fp = n /\ e.old = registry[n].key /\ e.new = k
      OBVIOUS
    <3> HIDE DEF e
    <3>3. RekeysLeadToCurrent'
      BY <3>1, <3>2, <2>1, <1>s, BroadcastSound DEF RekeysLeadToCurrent
    <3>4. ASSUME NEW i \in DOMAIN rekeys'
          PROVE  registry'[rekeys'[i].fp] # NoEntry /\ registry'[rekeys'[i].fp].key # NoKey
      <4>1. rekeys'[i] = e \/ \E j \in DOMAIN rekeys : rekeys'[i] = rekeys[j]
        BY <3>1, <3>4, <1>s, BroadcastType
      <4>2. CASE rekeys'[i] = e
        BY <4>2, <3>2, <2>1
      <4>3. ASSUME NEW j \in DOMAIN rekeys, rekeys'[i] = rekeys[j]
            PROVE  registry'[rekeys'[i].fp] # NoEntry /\ registry'[rekeys'[i].fp].key # NoKey
        <5>1. registry[rekeys[j].fp] # NoEntry /\ registry[rekeys[j].fp].key # NoKey
          BY DEF RekeyedIsKnown
        <5>2. rekeys[j].fp \in Node
          BY <1>f
        <5>3. CASE rekeys[j].fp = n
          BY <4>3, <5>3, <2>1
        <5>4. CASE rekeys[j].fp # n
          BY <4>3, <5>1, <5>2, <5>4, <2>1
        <5> QED  BY <5>3, <5>4
      <4> QED  BY <4>1, <4>2, <4>3
    <3>5. RekeyedIsKnown'
      BY <3>4 DEF RekeyedIsKnown
    <3> QED  BY <3>3, <3>5
  <2> QED  BY <2>2, <2>3, <2>4
<1>7. ASSUME ReadRekey PROVE RekeysLeadToCurrent' /\ RekeyedIsKnown'
  <2>1. rekeys # <<>> /\ rekeys' = Tail(rekeys) /\ registry' = registry
    BY <1>7 DEF ReadRekey
  <2>2. RekeysLeadToCurrent'
    BY <2>1, <1>s, StoryTail DEF RekeysLeadToCurrent
  <2>3. ASSUME NEW i \in DOMAIN Tail(rekeys)
        PROVE  i + 1 \in DOMAIN rekeys /\ Tail(rekeys)[i] = rekeys[i + 1]
    BY <2>1, <1>s
  <2>4. RekeyedIsKnown'
    BY <2>1, <2>3 DEF RekeyedIsKnown
  <2> QED  BY <2>2, <2>4
<1>8. CASE UNCHANGED vars
  BY <1>0, <1>8 DEF vars
<1> QED  BY <1>1, <1>2, <1>3, <1>4, <1>5, <1>6, <1>7, <1>8 DEF Next

\* One step brings no node with a long nickname into the registry.
LEMMA LongNickInductive ==
    ASSUME TypeOK, LongNickIsNeverSeen, NothingLongOnTheWay, [Next]_vars
    PROVE  LongNickIsNeverSeen' /\ NothingLongOnTheWay'
<1> USE SelfAssumption DEF LongNickIsNeverSeen, NothingLongOnTheWay
<1>1. ASSUME NEW n \in Node, Stop(n) \/ Announce(n) \/ \E a \in Addr : Start(n, a)
      PROVE  LongNickIsNeverSeen' /\ NothingLongOnTheWay'
  BY <1>1 DEF Stop, Announce, Start
<1>2. ASSUME NEW d \in net, Lose(d) PROVE LongNickIsNeverSeen' /\ NothingLongOnTheWay'
  BY <1>2 DEF Lose
<1>3. ASSUME NEW d \in net, Receive(d) PROVE LongNickIsNeverSeen' /\ NothingLongOnTheWay'
  BY <1>3 DEF Receive, TypeOK
<1>4. ASSUME NEW n \in Node, NEW k \in Key, RecordKey(n, k)
      PROVE  LongNickIsNeverSeen' /\ NothingLongOnTheWay'
  <2>1. n \notin LongNick /\ \A m \in Node \ {n} : registry'[m] = registry[m]
    BY <1>4, RecordKeyEffect
  <2> QED  BY <1>4, <2>1 DEF RecordKey
<1>5. CASE ReadRekey \/ UNCHANGED vars
  BY <1>5 DEF ReadRekey, vars
<1> QED  BY <1>1, <1>2, <1>3, <1>4, <1>5 DEF Next

\* The inductive invariant holds.
THEOREM DiscoveryCorrect == Spec => []DiscoveryInv
<1>1. Init => DiscoveryInv
  BY SelfAssumption
  DEF Init, DiscoveryInv, RekeysLeadToCurrent, OneStory, EndsAt, RekeyedIsKnown,
      LongNickIsNeverSeen, NothingLongOnTheWay
<1>2. TypeOK /\ DiscoveryInv /\ [Next]_vars => DiscoveryInv'
  BY RekeysInductive, LongNickInductive DEF DiscoveryInv
<1> QED  BY <1>1, <1>2, TypeCorrect, PTL DEF Spec

\* A subscriber that reads what is left learns the key on record.
THEOREM RekeysLeadToCurrentAlways == Spec => []RekeysLeadToCurrent
<1>1. DiscoveryInv => RekeysLeadToCurrent
  BY DEF DiscoveryInv
<1> QED  BY <1>1, DiscoveryCorrect, PTL

\* A node that cannot be encoded is never seen.
THEOREM LongNickIsNeverSeenAlways == Spec => []LongNickIsNeverSeen
<1>1. DiscoveryInv => LongNickIsNeverSeen
  BY DEF DiscoveryInv
<1> QED  BY <1>1, DiscoveryCorrect, PTL

\* One step forgets no key, and replaces one only with an event.
LEMMA KeyKept ==
    ASSUME TypeOK, [Next]_vars, NEW n \in Node, Listening, Listening',
           registry[n] # NoEntry, registry[n].key # NoKey
    PROVE  /\ registry'[n] # NoEntry
           /\ registry'[n].key # registry[n].key =>
                 /\ rekeys' # <<>>
                 /\ rekeys'[Len(rekeys')] =
                       [fp |-> n, old |-> registry[n].key, new |-> registry'[n].key]
<1>1. ASSUME NEW m \in Node, Stop(m) PROVE registry' = registry
  <2>1. CASE m = Self
    BY <1>1, <2>1, SelfAssumption DEF Stop, Listening, TypeOK
  <2>2. CASE m # Self
    BY <1>1, <2>2 DEF Stop
  <2> QED  BY <2>1, <2>2
<1>2. ASSUME NEW d \in net, Receive(d)
      PROVE  registry'[n] # NoEntry /\ registry'[n].key = registry[n].key
  <2>1. d \in Announcement /\ registry \in [Node -> PeerEntry \cup {NoEntry}]
    BY DEF TypeOK
  <2> QED  BY <1>2, <2>1, UpsertedType DEF Receive
<1>3. ASSUME NEW m \in Node, NEW k \in Key, RecordKey(m, k)
      PROVE  /\ registry'[n] # NoEntry
             /\ registry'[n].key # registry[n].key =>
                   /\ rekeys' # <<>>
                   /\ rekeys'[Len(rekeys')] =
                         [fp |-> n, old |-> registry[n].key, new |-> registry'[n].key]
  <2>1. CASE m # n
    BY <1>3, <2>1, RecordKeyEffect
  <2>2. CASE m = n /\ registry[n].key = k
    BY <1>3, <2>2, RecordKeyEffect
  <2>3. CASE m = n /\ registry[n].key # k
    <3>1. /\ [fp |-> n, old |-> registry[n].key, new |-> k] \in PeerRekeyed
          /\ rekeys' = Broadcast(rekeys, [fp |-> n, old |-> registry[n].key, new |-> k])
      BY <1>3, <2>3, EventType DEF RecordKey
    <3>2. registry'[n] # NoEntry /\ registry'[n].key = k
      BY <1>3, <2>3, RecordKeyEffect
    <3>3. rekeys \in Seq(PeerRekeyed) /\ Len(rekeys) <= Capacity
      BY DEF TypeOK
    <3>4. /\ rekeys' # <<>>
          /\ rekeys'[Len(rekeys')] = [fp |-> n, old |-> registry[n].key, new |-> k]
      BY <3>1, <3>3, BroadcastType
    <3> QED  BY <3>2, <3>4
  <2> QED  BY <2>1, <2>2, <2>3
<1>4. ASSUME NEW m \in Node, Announce(m) \/ \E a \in Addr : Start(m, a)
      PROVE  registry' = registry
  BY <1>4 DEF Announce, Start
<1>5. ASSUME NEW d \in net, Lose(d) PROVE registry' = registry
  BY <1>5 DEF Lose
<1>6. ReadRekey \/ UNCHANGED vars => registry' = registry
  BY DEF ReadRekey, vars
<1> QED  BY <1>1, <1>2, <1>3, <1>4, <1>5, <1>6 DEF Next

\* No step forgets a key, or replaces it without an event.
THEOREM KeyIsKeptAlways == Spec => KeyIsKept
<1> DEFINE Kept ==
      \A n \in Node :
          (Listening /\ Listening' /\ registry[n] # NoEntry /\ registry[n].key # NoKey) =>
              /\ registry'[n] # NoEntry
              /\ registry'[n].key # registry[n].key =>
                    /\ rekeys' # <<>>
                    /\ rekeys'[Len(rekeys')] =
                          [fp |-> n, old |-> registry[n].key, new |-> registry'[n].key]
<1>1. TypeOK /\ [Next]_vars => [Kept]_vars
  BY KeyKept
<1> QED  BY <1>1, TypeCorrect, PTL DEF Spec, KeyIsKept
=============================================================================
