--------------------------- MODULE ContactsProofs ---------------------------
(* The contact book stays sound under any number of processes. *)
EXTENDS Contacts, TLAPS

\* The initial state is well-formed.
LEMMA InitTypeOK == Init => TypeOK
BY DEF Init, TypeOK, Command

\* The shape of the contact that an upsert writes.
LEMMA UpsertedType ==
    ASSUME TypeOK, NEW p \in Process, pc[p] = "write"
    PROVE  Upserted(p) \in Contact /\ peer[p] \in Fingerprint
<1>1. peer[p] \in Fingerprint /\ cmd[p].op \in {"onboard", "add"}
  BY DEF TypeOK
<1>2. cmd[p].alias \in Alias
  BY <1>1 DEF TypeOK, Command
<1>3. (peer[p] \in Known /\ contacts[peer[p]].trusted) \in BOOLEAN
  BY <1>1 DEF TypeOK, Known, Contact
<1>4. QED
  BY <1>1, <1>2, <1>3 DEF Upserted, Contact, TypeOK

\* Setting the flags of a contact. The flag is a Boolean expression of its own
\* where these are used, so a step names it before it cites them.
LEMMA FlaggedFrom ==
    ASSUME NEW r \in Contact, NEW b \in BOOLEAN
    PROVE  /\ Flagged(r, b) \in Contact
           /\ Flagged(r, b).alias = r.alias
           /\ Flagged(r, b).trusted = r.trusted
           /\ Flagged(r, b).present = b
BY DEF Contact, Flagged

\* What Pinned keeps of a row, and where its flag comes from.
LEMMA PinnedFrom ==
    ASSUME NEW r \in Contact, NEW b \in BOOLEAN
    PROVE  /\ Pinned(r, b) \in Contact
           /\ Pinned(r, b).alias = r.alias
           /\ Pinned(r, b).trusted
           /\ Pinned(r, b).present = b
BY DEF Contact, Pinned

\* A process that ends leaves nothing ill-formed behind.
LEMMA EndTypeOK ==
    ASSUME TypeOK, NEW p \in Process, End(p),
           keys' \in SUBSET Fingerprint,
           contacts' \in [Fingerprint -> Contact \cup {NoContact}]
    PROVE  TypeOK'
BY DEF TypeOK, End, Goto, Command

\* Every statement of every command keeps the types.
LEMMA StepTypeOK ==
    ASSUME TypeOK, NEW p \in Process, Step(p)
    PROVE  TypeOK'
<1>1. ASSUME NEW c \in Command, Open(p, c) PROVE TypeOK'
  <2>1. contacts' \in [Fingerprint -> Contact \cup {NoContact}]
    <3>1. ASSUME NEW f \in Fingerprint, contacts[f] # NoContact
          PROVE  Flagged(contacts[f], f \in keys) \in Contact
      <4>1. contacts[f] \in Contact
        BY <3>1 DEF TypeOK
      <4> DEFINE b == f \in keys
      <4>2. b \in BOOLEAN
        OBVIOUS
      <4> HIDE DEF b
      <4>3. Flagged(contacts[f], b) \in Contact
        BY <4>1, <4>2, FlaggedFrom
      <4>4. QED
        BY <4>3, Zenon DEF b
    <3>2. QED
      BY <1>1, <3>1 DEF Open
  <2>2. c.op = "add" => c.fp \in Fingerprint
    BY DEF Command
  <2>3. c.op \in {"onboard", "add", "request", "trust", "chat"}
    BY DEF Command
  <2>4. QED
    BY <1>1, <2>1, <2>2, <2>3 DEF Open, Goto, TypeOK
<1>2. CASE Quit(p)
  BY <1>2, EndTypeOK DEF Quit, TypeOK, db
<1>3. CASE CheckAlias(p)
  <2>1. CASE End(p)
    BY <1>3, <2>1, EndTypeOK DEF CheckAlias, TypeOK, db
  <2>2. CASE ~End(p)
    BY <1>3, <2>2 DEF CheckAlias, TypeOK, db, Goto
  <2>3. QED
    BY <2>1, <2>2
<1>4. ASSUME NEW f \in Fingerprint, Fetch(p, f) PROVE TypeOK'
  BY <1>4 DEF Fetch, TypeOK, db, Goto
<1>5. CASE UpsertKey(p)
  BY <1>5 DEF UpsertKey, TypeOK, Goto
<1>6. CASE FlagKey(p)
  <2>1. contacts' \in [Fingerprint -> Contact \cup {NoContact}]
    <3>1. ASSUME peer[p] \in Known
          PROVE  Flagged(contacts[peer[p]], TRUE) \in Contact
      <4>1. contacts[peer[p]] \in Contact /\ TRUE \in BOOLEAN
        BY <3>1 DEF TypeOK, Known
      <4>2. QED
        BY <4>1, FlaggedFrom
    <3>2. QED
      BY <1>6, <3>1 DEF FlagKey, TypeOK
  <2>2. CASE End(p)
    BY <1>6, <2>1, <2>2, EndTypeOK DEF FlagKey, TypeOK
  <2>3. CASE ~End(p)
    BY <1>6, <2>1, <2>3 DEF FlagKey, TypeOK, Goto
  <2>4. QED
    BY <2>2, <2>3
<1>7. CASE CheckOwner(p)
  <2>1. CASE End(p)
    BY <1>7, <2>1, EndTypeOK DEF CheckOwner, TypeOK, db
  <2>2. CASE ~End(p)
    BY <1>7, <2>2 DEF CheckOwner, TypeOK, db, Goto
  <2>3. QED
    BY <2>1, <2>2
<1>8. CASE ReadKey(p)
  BY <1>8 DEF ReadKey, TypeOK, db, Goto
<1>9. CASE WriteContact(p)
  <2>1. contacts' \in [Fingerprint -> Contact \cup {NoContact}] /\ keys' = keys
    BY <1>9, UpsertedType DEF WriteContact, TypeOK
  <2>2. CASE End(p)
    BY <2>1, <2>2, EndTypeOK DEF TypeOK
  <2>3. CASE ~End(p)
    BY <1>9, <2>1, <2>3 DEF WriteContact, TypeOK, Goto
  <2>4. QED
    BY <2>2, <2>3
<1>10. CASE Find(p)
  <2>1. CASE End(p)
    BY <1>10, <2>1, EndTypeOK DEF Find, TypeOK, db
  <2>2. CASE ~End(p)
    <3>1. Matches(cmd[p].query) \subseteq Fingerprint
      BY DEF Matches, Owners, Known
    <3>2. QED
      BY <1>10, <2>2, <3>1 DEF Find, TypeOK, db, Goto
  <2>3. QED
    BY <2>1, <2>2
<1>11. CASE Trust(p)
  <2>1. contacts' \in [Fingerprint -> Contact \cup {NoContact}]
    <3>1. ASSUME peer[p] \in Known
          PROVE  Pinned(contacts[peer[p]], peer[p] \in keys) \in Contact
      <4>1. contacts[peer[p]] \in Contact
        BY <3>1 DEF TypeOK, Known
      <4> DEFINE b == peer[p] \in keys
      <4>2. b \in BOOLEAN
        OBVIOUS
      <4> HIDE DEF b
      <4>3. Pinned(contacts[peer[p]], b) \in Contact
        BY <4>1, <4>2, PinnedFrom
      <4>4. QED
        BY <4>3, Zenon DEF b
    <3>2. QED
      BY <1>11, <3>1 DEF Trust, TypeOK
  <2>2. QED
    BY <1>11, <2>1, EndTypeOK DEF Trust, TypeOK
<1>12. CASE LoadKey(p)
  BY <1>12, EndTypeOK DEF LoadKey, TypeOK, db
<1>13. QED
  BY <1>1, <1>2, <1>3, <1>4, <1>5, <1>6, <1>7, <1>8, <1>9, <1>10, <1>11, <1>12
   DEF Step

\* Rows are well-formed and every statement works on a fingerprint.
THEOREM TypeCorrect == Spec => []TypeOK
<1>1. TypeOK /\ [Next]_vars => TypeOK'
  <2>1. TypeOK /\ Next => TypeOK'
    BY StepTypeOK DEF Next
  <2>2. TypeOK /\ UNCHANGED vars => TypeOK'
    BY DEF TypeOK, vars, db, process
  <2>3. QED
    BY <2>1, <2>2
<1>2. QED
  BY InitTypeOK, <1>1, PTL DEF Spec

----------------------------------------------------------------------------
(* The inductive invariant. *)

\* A row keeps its alias and its trust, and shows a key only if it did or if the
\* key is there.
Kept(p, f) ==
    /\ f \in Known <=> f \in Known'
    /\ f \in Known =>
          /\ contacts'[f].alias = contacts[f].alias
          /\ contacts[f].trusted => contacts'[f].trusted
          /\ contacts'[f].present =>
                contacts[f].present \/ f \in keys \/ (pc[p] = "flag" /\ f = peer[p])

\* Writing one known row that keeps its alias and its trust.
LEMMA KeptRow ==
    ASSUME TypeOK, NEW p \in Process, NEW g \in Known, NEW r \in Contact,
           contacts' = [contacts EXCEPT ![g] = r],
           r.alias = contacts[g].alias,
           contacts[g].trusted => r.trusted,
           r.present => contacts[g].present \/ g \in keys \/ (pc[p] = "flag" /\ g = peer[p])
    PROVE  \A f \in Fingerprint : Kept(p, f)
<1> TAKE f \in Fingerprint
<1>1. g \in Fingerprint
  BY DEF Known
<1>2. CASE f = g
  <2>1. contacts'[f] = r /\ r # NoContact
    BY <1>1, <1>2, NoContactAssumption DEF TypeOK
  <2>2. f \in Known'
    BY <2>1 DEF Known
  <2>3. QED
    BY <1>2, <2>1, <2>2 DEF Kept
<1>3. CASE f # g
  <2>1. contacts'[f] = contacts[f]
    BY <1>3 DEF TypeOK
  <2>2. f \in Known <=> f \in Known'
    BY <2>1 DEF Known
  <2>3. QED
    BY <2>1, <2>2 DEF Kept
<1>4. QED
  BY <1>2, <1>3

\* A step keeps every row, or writes the row of one fingerprint under an alias
\* that no other fingerprint has.
LEMMA RowsStep ==
    ASSUME TypeOK, NEW p \in Process, Step(p)
    PROVE  /\ keys \subseteq keys'
           /\ \/ \A f \in Fingerprint : Kept(p, f)
              \/ /\ pc[p] = "write" /\ WriteContact(p)
                 /\ contacts' = [contacts EXCEPT ![peer[p]] = Upserted(p)]
                 /\ Owners(cmd[p].alias) \ {peer[p]} = {}
<1>0. ASSUME contacts' = contacts PROVE \A f \in Fingerprint : Kept(p, f)
  BY <1>0 DEF Kept, Known
<1>1. ASSUME NEW c \in Command, Open(p, c)
      PROVE  keys' = keys /\ \A f \in Fingerprint : Kept(p, f)
  <2>1. ASSUME NEW f \in Fingerprint, contacts[f] # NoContact
        PROVE  /\ contacts'[f] # NoContact
               /\ contacts'[f].alias = contacts[f].alias
               /\ contacts'[f].trusted = contacts[f].trusted
               /\ contacts'[f].present => f \in keys
    <3>1. contacts[f] \in Contact
      BY <2>1 DEF TypeOK
    <3>2. contacts'[f] = Flagged(contacts[f], f \in keys)
      BY <1>1, <2>1 DEF Open
    <3> DEFINE b == f \in keys
    <3>3. b \in BOOLEAN
      OBVIOUS
    <3>4. b => f \in keys
      OBVIOUS
    <3>5. contacts'[f] = Flagged(contacts[f], b)
      BY <3>2, Zenon
    <3> HIDE DEF b
    <3>6. QED
      BY <3>1, <3>3, <3>4, <3>5, FlaggedFrom, NoContactAssumption
  <2>2. \A f \in Fingerprint : contacts[f] = NoContact => contacts'[f] = NoContact
    BY <1>1 DEF Open
  <2>3. QED
    BY <1>1, <2>1, <2>2 DEF Open, Kept, Known
<1>2. CASE FlagKey(p)
  <2>1. CASE peer[p] \notin Known
    BY <1>0, <1>2, <2>1 DEF FlagKey
  <2>2. CASE peer[p] \in Known
    <3>1. contacts[peer[p]] \in Contact /\ peer[p] \in Fingerprint
      BY <2>2 DEF Known, TypeOK
    <3>2. /\ keys' = keys /\ pc[p] = "flag"
          /\ contacts' = [contacts EXCEPT ![peer[p]] = Flagged(contacts[peer[p]], TRUE)]
      BY <1>2, <2>2 DEF FlagKey
    <3>3. \A f \in Fingerprint : Kept(p, f)
      BY <2>2, <3>1, <3>2, FlaggedFrom, KeptRow
    <3>4. QED
      BY <3>2, <3>3
  <2>3. QED
    BY <2>1, <2>2
<1>3. CASE Trust(p)
  <2>1. CASE peer[p] \notin Known
    BY <1>0, <1>3, <2>1 DEF Trust
  <2>2. CASE peer[p] \in Known
    <3>1. contacts[peer[p]] \in Contact /\ peer[p] \in Fingerprint
      BY <2>2 DEF Known, TypeOK
    <3> DEFINE b == peer[p] \in keys
               r == Pinned(contacts[peer[p]], b)
    <3>2. b \in BOOLEAN
      OBVIOUS
    <3>3. b => peer[p] \in keys
      OBVIOUS
    <3>4. keys' = keys /\ contacts' = [contacts EXCEPT ![peer[p]] = r]
      BY <1>3, <2>2 DEF Trust
    <3> HIDE DEF b
    <3>5. /\ r \in Contact /\ r.alias = contacts[peer[p]].alias /\ r.trusted
          /\ r.present => peer[p] \in keys
      BY <3>1, <3>2, <3>3, PinnedFrom
    <3> HIDE DEF r
    <3>6. \A f \in Fingerprint : Kept(p, f)
      BY <2>2, <3>4, <3>5, KeptRow
    <3>7. QED
      BY <3>4, <3>6
  <2>3. QED
    BY <2>1, <2>2
<1>4. CASE WriteContact(p)
  BY <1>0, <1>4 DEF WriteContact
<1>5. CASE UpsertKey(p)
  BY <1>0, <1>5 DEF UpsertKey
<1>6. ASSUME \/ Quit(p) \/ CheckAlias(p) \/ (\E f \in Fingerprint : Fetch(p, f))
             \/ CheckOwner(p) \/ ReadKey(p) \/ Find(p) \/ LoadKey(p)
      PROVE  keys' = keys /\ contacts' = contacts
  BY <1>6 DEF Quit, CheckAlias, Fetch, CheckOwner, ReadKey, Find, LoadKey, db
<1>7. QED
  BY <1>0, <1>1, <1>2, <1>3, <1>4, <1>5, <1>6 DEF Step

\* The row that WriteContact writes.
LEMMA WrittenRow ==
    ASSUME TypeOK, NEW p \in Process, pc[p] = "write",
           contacts' = [contacts EXCEPT ![peer[p]] = Upserted(p)]
    PROVE  /\ peer[p] \in Fingerprint
           /\ Known' = Known \cup {peer[p]}
           /\ contacts'[peer[p]].alias = cmd[p].alias
           /\ contacts'[peer[p]].present = present[p]
           /\ (peer[p] \in Known /\ contacts[peer[p]].trusted) => contacts'[peer[p]].trusted
           /\ \A f \in Fingerprint \ {peer[p]} : contacts'[f] = contacts[f]
<1>1. Upserted(p) \in Contact /\ peer[p] \in Fingerprint
  BY UpsertedType
<1>2. contacts'[peer[p]] = Upserted(p)
  BY <1>1 DEF TypeOK
<1>3. \A f \in Fingerprint \ {peer[p]} : contacts'[f] = contacts[f]
  BY DEF TypeOK
<1>4. Known' = Known \cup {peer[p]}
  BY <1>1, <1>2, <1>3, NoContactAssumption DEF Known
<1>5. /\ Upserted(p).alias = cmd[p].alias
      /\ Upserted(p).present = present[p]
      /\ (peer[p] \in Known /\ contacts[peer[p]].trusted) => Upserted(p).trusted
  BY DEF Upserted
<1>6. QED
  BY <1>1, <1>2, <1>3, <1>4, <1>5

\* The other processes stay where they are.
LEMMA OthersStay ==
    ASSUME TypeOK, NEW p \in Process, Step(p), NEW q \in Process, q # p
    PROVE  pc'[q] = pc[q] /\ cmd'[q] = cmd[q] /\ peer'[q] = peer[q] /\ present'[q] = present[q]
BY DEF TypeOK, Step, Open, Quit, CheckAlias, Fetch, UpsertKey, FlagKey, CheckOwner, ReadKey,
   WriteContact, Find, Trust, LoadKey, End, Goto

\* The UNIQUE alias is decided at the write, not at the earlier check.
LEMMA AliasStep ==
    ASSUME TypeOK, AliasNamesOne, NEW p \in Process, Step(p)
    PROVE  AliasNamesOne'
<1>1. CASE \A f \in Fingerprint : Kept(p, f)
  BY <1>1 DEF AliasNamesOne, Kept, Known
<1>2. CASE /\ pc[p] = "write" /\ contacts' = [contacts EXCEPT ![peer[p]] = Upserted(p)]
           /\ Owners(cmd[p].alias) \ {peer[p]} = {}
  <2>1. /\ Known' = Known \cup {peer[p]}
        /\ contacts'[peer[p]].alias = cmd[p].alias
        /\ \A f \in Fingerprint \ {peer[p]} : contacts'[f] = contacts[f]
    BY <1>2, WrittenRow
  <2>2. \A f \in Known \ {peer[p]} : contacts[f].alias # cmd[p].alias
    BY <1>2 DEF Owners
  <2>3. Known \subseteq Fingerprint
    BY DEF Known
  <2>4. QED
    BY <2>1, <2>2, <2>3 DEF AliasNamesOne
<1>3. QED
  BY <1>1, <1>2, RowsStep

\* A flag is written only by a process that saw the key, and keys are not deleted.
LEMMA PresentStep ==
    ASSUME TypeOK, PresentIsTrue, ProcessKnows, NEW p \in Process, Step(p)
    PROVE  PresentIsTrue'
<1>1. CASE \A f \in Fingerprint : Kept(p, f)
  <2>1. ASSUME NEW f \in Known', contacts'[f].present PROVE f \in keys'
    <3>1. f \in Fingerprint /\ f \in Known
      BY <1>1 DEF Kept, Known
    <3>2. contacts[f].present \/ f \in keys \/ (pc[p] = "flag" /\ f = peer[p])
      BY <1>1, <2>1, <3>1 DEF Kept
    <3>3. f \in keys
      BY <3>1, <3>2 DEF PresentIsTrue, ProcessKnows
    <3>4. QED
      BY <3>3, RowsStep
  <2>2. QED
    BY <2>1 DEF PresentIsTrue
<1>2. CASE pc[p] = "write" /\ contacts' = [contacts EXCEPT ![peer[p]] = Upserted(p)]
  <2>1. /\ Known' = Known \cup {peer[p]}
        /\ contacts'[peer[p]].present = present[p]
        /\ \A f \in Fingerprint \ {peer[p]} : contacts'[f] = contacts[f]
    BY <1>2, WrittenRow
  <2>2. present[p] => peer[p] \in keys
    BY <1>2 DEF ProcessKnows
  <2>3. Known \subseteq Fingerprint /\ keys \subseteq keys'
    BY RowsStep DEF Known
  <2>4. QED
    BY <2>1, <2>2, <2>3 DEF PresentIsTrue
<1>3. QED
  BY <1>1, <1>2, RowsStep

\* No step deletes a contact or takes back its trust.
LEMMA TrustedStays ==
    ASSUME TypeOK, NEW p \in Process, Step(p), NEW f \in Known
    PROVE  f \in Known' /\ (contacts[f].trusted => contacts'[f].trusted)
<1>1. CASE \A g \in Fingerprint : Kept(p, g)
  BY <1>1 DEF Kept, Known
<1>2. CASE pc[p] = "write" /\ contacts' = [contacts EXCEPT ![peer[p]] = Upserted(p)]
  <2>1. f \in Fingerprint
    BY DEF Known
  <2>2. QED
    BY <1>2, <2>1, WrittenRow
<1>3. QED
  BY <1>1, <1>2, RowsStep

\* What chat required of its contact cannot be undone before it loads the key.
LEMMA ApprovedStep ==
    ASSUME TypeOK, PresentIsTrue, ChatPeerStaysApproved, NEW p \in Process, Step(p)
    PROVE  ChatPeerStaysApproved'
<1> SUFFICES ASSUME NEW q \in Process, pc'[q] = "load"
             PROVE  /\ peer'[q] \in Known' /\ contacts'[peer'[q]].trusted
                    /\ peer'[q] \in keys'
                    /\ cmd'[q].query \in Fingerprint => peer'[q] = cmd'[q].query
  BY DEF ChatPeerStaysApproved
<1>1. /\ peer'[q] \in Known /\ contacts[peer'[q]].trusted /\ peer'[q] \in keys
      /\ cmd'[q].query \in Fingerprint => peer'[q] = cmd'[q].query
  <2>1. CASE q # p
    BY <2>1, OthersStay DEF ChatPeerStaysApproved
  <2>2. CASE q = p
    <3>1. Find(p)
      BY <2>2 DEF Step, Open, Quit, CheckAlias, Fetch, UpsertKey, FlagKey, CheckOwner,
         ReadKey, WriteContact, Trust, LoadKey, End, Goto, TypeOK, Command
    <3>2. Matches(cmd[p].query) \subseteq Known
      BY DEF Matches, Owners
    <3>3. cmd[p].query \in Fingerprint => Matches(cmd[p].query) \subseteq {cmd[p].query}
      BY DEF Matches
    <3>4. peer'[p] \in Matches(cmd[p].query) /\ UNCHANGED cmd
      BY <2>2, <3>1 DEF Find, End, Goto, TypeOK
    <3>5. peer'[p] \in Known /\ contacts[peer'[p]].trusted /\ peer'[p] \in keys
      BY <2>2, <3>1, <3>2 DEF Find, End, Goto, TypeOK, PresentIsTrue
    <3>6. QED
      BY <2>2, <3>3, <3>4, <3>5
  <2>3. QED
    BY <2>1, <2>2
<1>2. QED
  BY <1>1, TrustedStays, RowsStep

\* What a process knows of its fingerprint stays true until it acts on it.
LEMMA KnowsStep ==
    ASSUME TypeOK, ProcessKnows, OnboardTrustsVerified, NEW p \in Process, Step(p)
    PROVE  ProcessKnows' /\ OnboardTrustsVerified'
<1> SUFFICES ASSUME NEW q \in Process
             PROVE  /\ (pc'[q] = "flag" \/ (pc'[q] = "write" /\ present'[q]))
                          => peer'[q] \in keys'
                    /\ (cmd'[q].op = "onboard"
                          /\ pc'[q] \in {"owner", "exists", "write", "trust"})
                          => peer'[q] \in keys'
                    /\ (cmd'[q].op = "onboard" /\ pc'[q] = "trust") => peer'[q] = cmd'[q].fp
                    /\ pc'[q] = "trust" => peer'[q] \in Known'
  BY DEF ProcessKnows, OnboardTrustsVerified
<1>1. CASE q # p
  <2>1. pc[q] = "trust" => peer[q] \in Known'
    BY TrustedStays DEF OnboardTrustsVerified
  <2>2. QED
    BY <1>1, <2>1, OthersStay, RowsStep DEF ProcessKnows
<1>2. CASE q = p
  <2>1. CASE WriteContact(p)
    <3>1. CASE End(p)
      BY <1>2, <3>1 DEF End, Goto, TypeOK
    <3>2. CASE ~End(p)
      <4>1. /\ pc[p] = "write" /\ cmd[p].op = "onboard" /\ keys' = keys
            /\ contacts' = [contacts EXCEPT ![peer[p]] = Upserted(p)]
            /\ pc'[p] = "trust" /\ cmd' = cmd /\ peer' = peer
        BY <2>1, <3>2 DEF WriteContact, Goto, TypeOK
      <4>2. peer'[p] \in Known' /\ peer'[p] \in keys'
        BY <4>1, WrittenRow DEF ProcessKnows
      <4>3. peer'[p] = cmd'[p].fp
        BY <4>1 DEF TypeOK
      <4>4. QED
        BY <1>2, <4>1, <4>2, <4>3
    <3>3. QED
      BY <3>1, <3>2
  <2>2. CASE Find(p)
    <3>1. Matches(cmd[p].query) \subseteq Known /\ contacts' = contacts
      BY <2>2 DEF Matches, Owners, Find, db
    <3>2. Known' = Known
      BY <3>1 DEF Known
    <3>3. CASE End(p)
      BY <1>2, <3>3 DEF End, Goto, TypeOK
    <3>4. CASE ~End(p)
      <4>1. PICK f \in Matches(cmd[p].query) :
              /\ peer' = [peer EXCEPT ![p] = f]
              /\ pc' = [pc EXCEPT ![p] = IF cmd[p].op = "trust" THEN "trust" ELSE "load"]
              /\ cmd' = cmd
        BY <2>2, <3>4 DEF Find, Goto
      <4>2. pc'[p] = "trust" => cmd'[p].op = "trust"
        BY <4>1 DEF TypeOK
      <4>3. pc'[p] \in {"trust", "load"} /\ peer'[p] \in Known'
        BY <3>1, <3>2, <4>1 DEF TypeOK
      <4>4. QED
        BY <1>2, <4>2, <4>3
    <3>5. QED
      BY <3>3, <3>4
  <2>3. ASSUME NEW c \in Command, Open(p, c)
        PROVE  pc'[p] \in {"alias", "request", "find"} \/ (pc'[p] = "owner" /\ cmd'[p].op = "add")
    BY <2>3 DEF Open, Goto, TypeOK, Command
  <2>4. CASE CheckAlias(p) \/ \E f \in Fingerprint : Fetch(p, f)
    BY <1>2, <2>4 DEF CheckAlias, Fetch, End, Goto, TypeOK
  <2>5. CASE UpsertKey(p)
    BY <1>2, <2>5 DEF UpsertKey, Goto, TypeOK
  <2>6. CASE FlagKey(p)
    BY <1>2, <2>6 DEF FlagKey, End, Goto, TypeOK, ProcessKnows
  <2>7. CASE CheckOwner(p)
    BY <1>2, <2>7 DEF CheckOwner, End, Goto, TypeOK, ProcessKnows, db
  <2>8. CASE ReadKey(p)
    BY <1>2, <2>8 DEF ReadKey, Goto, TypeOK, ProcessKnows, db
  <2>9. CASE Quit(p) \/ Trust(p) \/ LoadKey(p)
    BY <1>2, <2>9 DEF Quit, Trust, LoadKey, End, Goto, TypeOK
  <2>10. QED
    BY <1>2, <2>1, <2>2, <2>3, <2>4, <2>5, <2>6, <2>7, <2>8, <2>9 DEF Step
<1>3. QED
  BY <1>1, <1>2

\* The inductive invariant holds in every reachable state.
LEMMA ContactsInvCorrect == Spec => []ContactsInv
<1>1. Init => ContactsInv
  BY DEF Init, ContactsInv, AliasNamesOne, PresentIsTrue, ChatPeerStaysApproved,
     OnboardTrustsVerified, ProcessKnows, Known
<1>2. TypeOK /\ ContactsInv /\ [Next]_vars => ContactsInv'
  <2>1. TypeOK /\ ContactsInv /\ Next => ContactsInv'
    BY AliasStep, PresentStep, ApprovedStep, KnowsStep DEF Next, ContactsInv
  <2>2. ContactsInv /\ UNCHANGED vars => ContactsInv'
    BY DEF ContactsInv, AliasNamesOne, PresentIsTrue, ChatPeerStaysApproved,
       OnboardTrustsVerified, ProcessKnows, Known, vars, db, process
  <2>3. QED
    BY <2>1, <2>2
<1>3. QED
  BY TypeCorrect, <1>1, <1>2, PTL DEF Spec

\* An alias never names two fingerprints.
THEOREM AliasNamesOneAlways == Spec => []AliasNamesOne
<1>1. ContactsInv => AliasNamesOne
  BY DEF ContactsInv
<1>2. QED
  BY ContactsInvCorrect, <1>1, PTL

\* A contact shows a public key only when one is stored.
THEOREM PresentIsTrueAlways == Spec => []PresentIsTrue
<1>1. ContactsInv => PresentIsTrue
  BY DEF ContactsInv
<1>2. QED
  BY ContactsInvCorrect, <1>1, PTL

\* What chat required of its contact holds until it has loaded the key.
THEOREM ChatPeerStaysApprovedAlways == Spec => []ChatPeerStaysApproved
<1>1. ContactsInv => ChatPeerStaysApproved
  BY DEF ContactsInv
<1>2. QED
  BY ContactsInvCorrect, <1>1, PTL

\* onboard trusts only the stored and verified contact.
THEOREM OnboardTrustsVerifiedAlways == Spec => []OnboardTrustsVerified
<1>1. ContactsInv => OnboardTrustsVerified
  BY DEF ContactsInv
<1>2. QED
  BY ContactsInvCorrect, <1>1, PTL

\* Trust is never taken back.
THEOREM TrustIsKeptAlways == Spec => TrustIsKept
<1>1. TypeOK /\ [Next]_vars =>
        [\A f \in Known : contacts[f].trusted => (f \in Known' /\ contacts'[f].trusted)]_vars
  BY TrustedStays DEF Next
<1>2. QED
  BY TypeCorrect, <1>1, PTL DEF Spec, TrustIsKept
=============================================================================
