------------------------------ MODULE Contacts ------------------------------
(***************************************************************************)
(* The contact book and the peer keys of one node: the commands `onboard`, *)
(* `key-request`, `contact add`, `contact trust` and the start of `chat`   *)
(* (cli/commands.rs), over the tables peer_keys and contacts (storage.rs). *)
(*                                                                         *)
(* Every command is a process of its own that opens the same SQLite file.  *)
(* One SQL statement is one action, as no command but the migration of     *)
(* Storage::open uses a transaction: other processes run, and a process    *)
(* dies, between any two.                                                  *)
(*                                                                         *)
(* A public key is known by its fingerprint, an alias by its case-folded   *)
(* form.  An alias of 64 hexadecimal characters spells a fingerprint, and  *)
(* is one here: Alias and Fingerprint need not be disjoint.  Nicknames and *)
(* timestamps are left out: no decision reads them.                        *)
(***************************************************************************)
EXTENDS FiniteSets

CONSTANTS
    Process,      \* processes that may run at the same time
    Fingerprint,  \* public keys, by fingerprint
    Alias,        \* contact aliases
    NoContact,    \* no row in contacts
    Nobody        \* no fingerprint

Contact == [alias : Alias, present : BOOLEAN, trusted : BOOLEAN]

ASSUME NoContactAssumption == NoContact \notin Contact
ASSUME NobodyAssumption == Nobody \notin Fingerprint

\* The command lines. contact trust and chat name their contact by alias or by
\* fingerprint.
Command ==
    [op : {"onboard"}, alias : Alias, fp : Fingerprint, trust : BOOLEAN]
        \cup [op : {"add"}, alias : Alias, fp : Fingerprint]
        \cup [op : {"trust", "chat"}, query : Alias \cup Fingerprint]
        \cup [op : {"request"}]

VARIABLES
    keys,      \* fingerprints of the rows of peer_keys
    contacts,  \* the row of contacts of a fingerprint, or NoContact
    pc,        \* the statement a process executes next, or "idle"
    cmd,       \* its command line
    peer,      \* the fingerprint it works on
    present    \* what it read of peer_keys

db == <<keys, contacts>>
process == <<pc, cmd, peer, present>>
vars == <<db, process>>

Known == {f \in Fingerprint : contacts[f] # NoContact}
Owners(a) == {f \in Known : contacts[f].alias = a}

\* The row r with its public_key_present set to b, and also trusted.
Flagged(r, b) == [r EXCEPT !.present = b]
Pinned(r, b) == [r EXCEPT !.present = b, !.trusted = TRUE]

----------------------------------------------------------------------------
Init ==
    /\ keys = {}
    /\ contacts = [f \in Fingerprint |-> NoContact]
    /\ pc = [p \in Process |-> "idle"]
    /\ cmd \in [Process -> [op : {"request"}]]
    /\ peer = [p \in Process |-> Nobody]
    /\ present = [p \in Process |-> FALSE]

Goto(p, step) == pc' = [pc EXCEPT ![p] = step]

\* The process ends, with or without an error.
End(p) ==
    /\ Goto(p, "idle")
    /\ cmd' = [cmd EXCEPT ![p] = [op |-> "request"]]
    /\ peer' = [peer EXCEPT ![p] = Nobody]
    /\ present' = [present EXCEPT ![p] = FALSE]

\* Mutant of Open: contact add does not take over the fingerprint it is given.
OpenWithoutPeer(p, c) ==
    /\ pc[p] = "idle"
    /\ contacts' = [f \in Fingerprint |->
                       IF contacts[f] = NoContact THEN NoContact
                       ELSE Flagged(contacts[f], f \in keys)]
    /\ cmd' = [cmd EXCEPT ![p] = c]
    /\ Goto(p, CASE c.op = "onboard" -> "alias"
                 [] c.op = "add" -> "owner"
                 [] c.op = "request" -> "request"
                 [] c.op \in {"trust", "chat"} -> "find")
    /\ UNCHANGED <<keys, peer, present>>

\* Storage::open: the migrations run in one transaction, and set every
\* contact's public_key_present from peer_keys.
Open(p, c) ==
    /\ pc[p] = "idle"
    /\ contacts' = [f \in Fingerprint |->
                       IF contacts[f] = NoContact THEN NoContact
                       ELSE Flagged(contacts[f], f \in keys)]
    /\ cmd' = [cmd EXCEPT ![p] = c]
    /\ Goto(p, CASE c.op = "onboard" -> "alias"
                 [] c.op = "add" -> "owner"
                 [] c.op = "request" -> "request"
                 [] c.op \in {"trust", "chat"} -> "find")
    /\ peer' = [peer EXCEPT ![p] = IF c.op = "add" THEN c.fp ELSE Nobody]
    /\ UNCHANGED <<keys, present>>

\* A crash, a kill, a failed connection, a bad key or an SQLite error; also the
\* end of a command that opens the file and only reads.
Quit(p) ==
    /\ pc[p] # "idle"
    /\ End(p)
    /\ UNCHANGED db

----------------------------------------------------------------------------
(* onboard and key-request: fetch the peer's key. *)

\* run_onboard: an alias of another fingerprint ends it before it connects.
CheckAlias(p) ==
    /\ pc[p] = "alias"
    /\ IF Owners(cmd[p].alias) \ {cmd[p].fp} # {}
       THEN End(p)
       ELSE Goto(p, "request") /\ UNCHANGED <<cmd, peer, present>>
    /\ UNCHANGED db

\* request_peer_key: whoever answers at the address sends a valid key.
Fetch(p, f) ==
    /\ pc[p] = "request"
    /\ peer' = [peer EXCEPT ![p] = f]
    /\ Goto(p, "key")
    /\ UNCHANGED <<db, cmd, present>>

\* upsert_peer_key, first statement.
UpsertKey(p) ==
    /\ pc[p] = "key"
    /\ keys' = keys \cup {peer[p]}
    /\ Goto(p, "flag")
    /\ UNCHANGED <<contacts, cmd, peer, present>>

\* Mutant of FlagKey: the fetched fingerprint is not compared.
FlagKeyUnverified(p) ==
    /\ pc[p] = "flag"
    /\ contacts' = IF peer[p] \notin Known THEN contacts
                   ELSE [contacts EXCEPT ![peer[p]] = Flagged(@, TRUE)]
    /\ IF cmd[p].op = "onboard"
       THEN /\ Goto(p, "owner")
            /\ peer' = [peer EXCEPT ![p] = cmd[p].fp]
            /\ UNCHANGED <<cmd, present>>
       ELSE End(p)
    /\ UNCHANGED keys

\* upsert_peer_key, second statement. key-request is done; onboard goes on when
\* the key is the expected one.
FlagKey(p) ==
    /\ pc[p] = "flag"
    /\ contacts' = IF peer[p] \notin Known THEN contacts
                   ELSE [contacts EXCEPT ![peer[p]] = Flagged(@, TRUE)]
    /\ IF cmd[p].op = "onboard" /\ peer[p] = cmd[p].fp
       THEN Goto(p, "owner") /\ UNCHANGED <<cmd, peer, present>>
       ELSE End(p)
    /\ UNCHANGED keys

----------------------------------------------------------------------------
(* onboard and contact add: upsert_contact. *)

CheckOwner(p) ==
    /\ pc[p] = "owner"
    /\ IF Owners(cmd[p].alias) \ {peer[p]} # {}
       THEN End(p)
       ELSE Goto(p, "exists") /\ UNCHANGED <<cmd, peer, present>>
    /\ UNCHANGED db

\* Mutant of ReadKey: the contact is taken to have a key.
AssumeKey(p) ==
    /\ pc[p] = "exists"
    /\ present' = [present EXCEPT ![p] = TRUE]
    /\ Goto(p, "write")
    /\ UNCHANGED <<db, cmd, peer>>

\* peer_key_exists
ReadKey(p) ==
    /\ pc[p] = "exists"
    /\ present' = [present EXCEPT ![p] = peer[p] \in keys]
    /\ Goto(p, "write")
    /\ UNCHANGED <<db, cmd, peer>>

\* What the INSERT ... ON CONFLICT makes of the row: the trust is kept.
Upserted(p) ==
    [alias |-> cmd[p].alias,
     present |-> present[p],
     trusted |-> peer[p] \in Known /\ contacts[peer[p]].trusted]

\* Mutant of WriteContact: an update starts as untrusted, like an insert.
WriteContactUntrusted(p) ==
    /\ pc[p] = "write"
    /\ IF Owners(cmd[p].alias) \ {peer[p]} # {}
       THEN End(p) /\ UNCHANGED contacts
       ELSE /\ contacts' = [contacts EXCEPT ![peer[p]] =
                               [Upserted(p) EXCEPT !.trusted = FALSE]]
            /\ IF cmd[p].op = "onboard" /\ cmd[p].trust
               THEN Goto(p, "trust") /\ UNCHANGED <<cmd, peer, present>>
               ELSE End(p)
    /\ UNCHANGED keys

\* Mutant of WriteContact: the alias column is not UNIQUE.
WriteContactAnyAlias(p) ==
    /\ pc[p] = "write"
    /\ contacts' = [contacts EXCEPT ![peer[p]] = Upserted(p)]
    /\ IF cmd[p].op = "onboard" /\ cmd[p].trust
       THEN Goto(p, "trust") /\ UNCHANGED <<cmd, peer, present>>
       ELSE End(p)
    /\ UNCHANGED keys

\* The INSERT: the UNIQUE alias refuses one that another process took meanwhile.
WriteContact(p) ==
    /\ pc[p] = "write"
    /\ IF Owners(cmd[p].alias) \ {peer[p]} # {}
       THEN End(p) /\ UNCHANGED contacts
       ELSE /\ contacts' = [contacts EXCEPT ![peer[p]] = Upserted(p)]
            /\ IF cmd[p].op = "onboard" /\ cmd[p].trust
               THEN Goto(p, "trust") /\ UNCHANGED <<cmd, peer, present>>
               ELSE End(p)
    /\ UNCHANGED keys

----------------------------------------------------------------------------
(* contact trust and chat: find_contact, and then the contact found. *)

\* Mutant of Matches: an alias comes first, whatever it spells.
MatchesAliasFirst(q) == IF Owners(q) # {} THEN Owners(q) ELSE Known \cap {q}

\* find_contact: what can be a fingerprint is one, also when it is an alias.
Matches(q) == IF q \in Fingerprint THEN Known \cap {q} ELSE Owners(q)

\* Mutant of Find: chat does not ask for the trust of its contact.
FindUntrusted(p) ==
    /\ pc[p] = "find"
    /\ IF Matches(cmd[p].query) = {}
       THEN End(p)
       ELSE \E f \in Matches(cmd[p].query) :
               IF cmd[p].op = "trust" \/ contacts[f].present
               THEN /\ peer' = [peer EXCEPT ![p] = f]
                    /\ Goto(p, IF cmd[p].op = "trust" THEN "trust" ELSE "load")
                    /\ UNCHANGED <<cmd, present>>
               ELSE End(p)
    /\ UNCHANGED db

\* find_contact, with chat's require_trusted_contact on the row it read.
Find(p) ==
    /\ pc[p] = "find"
    /\ IF Matches(cmd[p].query) = {}
       THEN End(p)
       ELSE \E f \in Matches(cmd[p].query) :
               IF cmd[p].op = "trust" \/ (contacts[f].trusted /\ contacts[f].present)
               THEN /\ peer' = [peer EXCEPT ![p] = f]
                    /\ Goto(p, IF cmd[p].op = "trust" THEN "trust" ELSE "load")
                    /\ UNCHANGED <<cmd, present>>
               ELSE End(p)
    /\ UNCHANGED db

\* trust_contact: one UPDATE, which also sets the flag from peer_keys.
Trust(p) ==
    /\ pc[p] = "trust"
    /\ contacts' = IF peer[p] \notin Known THEN contacts
                   ELSE [contacts EXCEPT ![peer[p]] = Pinned(@, peer[p] \in keys)]
    /\ End(p)
    /\ UNCHANGED keys

\* load_peer_identity: chat reads the key, and its session starts.
LoadKey(p) ==
    /\ pc[p] = "load"
    /\ End(p)
    /\ UNCHANGED db

Step(p) ==
    \/ \E c \in Command : Open(p, c)
    \/ Quit(p)
    \/ CheckAlias(p)
    \/ \E f \in Fingerprint : Fetch(p, f)
    \/ UpsertKey(p)
    \/ FlagKey(p)
    \/ CheckOwner(p)
    \/ ReadKey(p)
    \/ WriteContact(p)
    \/ Find(p)
    \/ Trust(p)
    \/ LoadKey(p)

Next == \E p \in Process : Step(p)

Spec == Init /\ [][Next]_vars

----------------------------------------------------------------------------
(* Properties *)

\* Types, and the fingerprint that each statement works on.
TypeOK ==
    /\ keys \in SUBSET Fingerprint
    /\ contacts \in [Fingerprint -> Contact \cup {NoContact}]
    /\ pc \in [Process -> {"idle", "alias", "request", "key", "flag", "owner", "exists",
                           "write", "find", "trust", "load"}]
    /\ cmd \in [Process -> Command]
    /\ peer \in [Process -> Fingerprint \cup {Nobody}]
    /\ present \in [Process -> BOOLEAN]
    /\ \A p \in Process :
          /\ pc[p] \in {"key", "flag", "owner", "exists", "write", "trust", "load"}
                => peer[p] \in Fingerprint
          /\ pc[p] \in {"owner", "exists", "write"}
                => cmd[p].op \in {"onboard", "add"} /\ peer[p] = cmd[p].fp

\* An alias names one fingerprint, even when two processes check it at the same
\* time and both find it free.
AliasNamesOne == \A f, g \in Known : contacts[f].alias = contacts[g].alias => f = g

\* A contact that shows a public key has one, although the key is looked up in
\* one statement and the flag written in another. Not the other way round: when
\* the key is stored between the two, the contact shows no key until a command
\* opens the database again, which sets every flag anew.
PresentIsTrue == \A f \in Known : contacts[f].present => f \in keys

\* What chat required of its contact still holds when it loads the key, whatever
\* other commands did to the contact in between; and a chat that was given a
\* fingerprint is with that one, also when the alias of another contact spells it.
ChatPeerStaysApproved ==
    \A p \in Process : pc[p] = "load" =>
        /\ peer[p] \in Known /\ contacts[peer[p]].trusted /\ peer[p] \in keys
        /\ cmd[p].query \in Fingerprint => peer[p] = cmd[p].query

\* onboard only trusts a contact that it stored and whose key it verified; the
\* MissingContact error after trust_contact is never returned.
OnboardTrustsVerified ==
    \A p \in Process : pc[p] = "trust" =>
        /\ peer[p] \in Known
        /\ cmd[p].op = "onboard" => peer[p] = cmd[p].fp /\ peer[p] \in keys

\* No command takes back the trust in a contact.
TrustIsKept ==
    [][\A f \in Known : contacts[f].trusted => (f \in Known' /\ contacts'[f].trusted)]_vars

\* The inductive invariant: what a process may rely on between its statements.
ProcessKnows ==
    \A p \in Process :
        /\ (pc[p] = "flag" \/ (pc[p] = "write" /\ present[p])) => peer[p] \in keys
        /\ (cmd[p].op = "onboard" /\ pc[p] \in {"owner", "exists", "write", "trust"})
              => peer[p] \in keys
        /\ (cmd[p].op = "onboard" /\ pc[p] = "trust") => peer[p] = cmd[p].fp

ContactsInv ==
    /\ AliasNamesOne
    /\ PresentIsTrue
    /\ ChatPeerStaysApproved
    /\ OnboardTrustsVerified
    /\ ProcessKnows

=============================================================================
