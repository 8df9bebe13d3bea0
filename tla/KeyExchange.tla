---------------------------- MODULE KeyExchange ----------------------------
(***************************************************************************)
(* How a public key gets from one node to another: `keygen` writes a key   *)
(* pair to two files, `key-serve` answers requests with the public file    *)
(* for a while, `key-request` (and onboard) asks for it and stores it      *)
(* (cli/commands.rs, cli/parse.rs, key_exchange.rs).                       *)
(*                                                                         *)
(* Every command is a process that may be killed anywhere, and several     *)
(* keygens may be given the same paths.  A file that was created and not   *)
(* yet written is empty; its bytes are written by one write.  Frames and   *)
(* their lengths are in Wire, the statements of upsert_peer_key in         *)
(* Contacts.                                                               *)
(***************************************************************************)
CONSTANTS
    Key,        \* key pairs, one for every run of keygen
    Path,       \* paths of key files
    Address,    \* addresses key-serve listens on
    Requester,  \* processes that request a key
    Absent,     \* there is no file
    Empty,      \* the file has no bytes
    Nothing     \* no key, path or address

Secret(k) == <<"secret", k>>
Public(k) == <<"public", k>>

Content == {Absent, Empty} \cup {Secret(k) : k \in Key} \cup {Public(k) : k \in Key}

ASSUME ContentAssumption ==
    /\ Absent # Empty
    /\ \A k \in Key : {Absent, Empty} \cap {Secret(k), Public(k)} = {}
ASSUME NothingAssumption == Nothing \notin Key \cup Path \cup Address

VARIABLES
    file,       \* what a path holds
    at,         \* where the keygen of a key pair is
    secretPath, \* its --secret-key
    publicPath, \* its --public-key
    serving,    \* the key served at an address, or Nothing
    request,    \* where a requester is
    to,         \* the address it is connected to
    received,   \* the key in the response it can read
    keys        \* fingerprints of the rows of peer_keys

keygen == <<file, at, secretPath, publicPath>>
client == <<request, to, received, keys>>
vars == <<keygen, serving, client>>

Init ==
    /\ file = [p \in Path |-> Absent]
    /\ at = [k \in Key |-> "new"]
    /\ secretPath = [k \in Key |-> Nothing]
    /\ publicPath = [k \in Key |-> Nothing]
    /\ serving = [a \in Address |-> Nothing]
    /\ request = [r \in Requester |-> "ready"]
    /\ to = [r \in Requester |-> Nothing]
    /\ received = [r \in Requester |-> Nothing]
    /\ keys = {}

----------------------------------------------------------------------------
(* keygen *)

Goto(k, step) == at' = [at EXCEPT ![k] = step]

\* run_keygen: the pair is generated, the paths are those of the command line.
Generate(k, s, p) ==
    /\ at[k] = "new"
    /\ Goto(k, "create secret")
    /\ secretPath' = [secretPath EXCEPT ![k] = s]
    /\ publicPath' = [publicPath EXCEPT ![k] = p]
    /\ UNCHANGED <<file, serving, client>>

\* Mutant of Create: the file is opened with create and truncate.
CreateAnyway(k, path, next) ==
    file' = [file EXCEPT ![path] = Empty] /\ Goto(k, next)

\* Mutant of Create: a file that exists is taken for one written before.
CreateOrSkip(k, path, next) ==
    IF file[path] = Absent
    THEN file' = [file EXCEPT ![path] = Empty] /\ Goto(k, next)
    ELSE /\ Goto(k, IF at[k] = "create secret" THEN "create public" ELSE "done")
         /\ UNCHANGED file

\* write_file opens with create_new: only a new path is taken, and a path that
\* exists ends the command.
Create(k, path, next) ==
    IF file[path] = Absent
    THEN file' = [file EXCEPT ![path] = Empty] /\ Goto(k, next)
    ELSE Goto(k, "ended") /\ UNCHANGED file

CreateSecret(k) ==
    /\ at[k] = "create secret"
    /\ Create(k, secretPath[k], "write secret")
    /\ UNCHANGED <<secretPath, publicPath, serving, client>>

WriteSecret(k) ==
    /\ at[k] = "write secret"
    /\ file' = [file EXCEPT ![secretPath[k]] = Secret(k)]
    /\ Goto(k, "create public")
    /\ UNCHANGED <<secretPath, publicPath, serving, client>>

CreatePublic(k) ==
    /\ at[k] = "create public"
    /\ Create(k, publicPath[k], "write public")
    /\ UNCHANGED <<secretPath, publicPath, serving, client>>

\* The fingerprint is printed after both files are written.
WritePublic(k) ==
    /\ at[k] = "write public"
    /\ file' = [file EXCEPT ![publicPath[k]] = Public(k)]
    /\ Goto(k, "done")
    /\ UNCHANGED <<secretPath, publicPath, serving, client>>

\* A kill or a write error. What was created stays.
KeygenFails(k) ==
    /\ at[k] \notin {"new", "done", "ended"}
    /\ Goto(k, "ended")
    /\ UNCHANGED <<file, secretPath, publicPath, serving, client>>

----------------------------------------------------------------------------
(* key-serve *)

\* run_key_serve reads the file and LocalKeyMaterial::from_public_key parses
\* it: nothing but a public key is served. The listener is bound afterwards,
\* which fails at an address in use.
Serve(a, path, k) ==
    /\ serving[a] = Nothing
    /\ file[path] = Public(k)
    /\ serving' = [serving EXCEPT ![a] = k]
    /\ UNCHANGED <<keygen, client>>

\* Mutant of Stop: the connections outlive the service.
StopLeavesConnections(a) ==
    /\ serving[a] # Nothing
    /\ serving' = [serving EXCEPT ![a] = Nothing]
    /\ UNCHANGED <<keygen, client>>

\* The duration is over, or the process is killed: the listener task is aborted
\* and its handlers with it, and every connection without an answer closes.
Stop(a) ==
    /\ serving[a] # Nothing
    /\ serving' = [serving EXCEPT ![a] = Nothing]
    /\ request' = [r \in Requester |->
                      IF to[r] = a /\ request[r] = "waiting"
                      THEN "closed" ELSE request[r]]
    /\ UNCHANGED <<keygen, to, received, keys>>

\* handle_connection: request read, response written.
Answer(r) ==
    /\ request[r] = "waiting"
    /\ serving[to[r]] # Nothing
    /\ request' = [request EXCEPT ![r] = "answered"]
    /\ received' = [received EXCEPT ![r] = serving[to[r]]]
    /\ UNCHANGED <<keygen, serving, to, keys>>

----------------------------------------------------------------------------
(* key-request *)

\* request_peer_key connects and writes its request. Without a listener the
\* connection is refused and the command ends at once.
Connect(r, a) ==
    /\ request[r] = "ready"
    /\ serving[a] # Nothing
    /\ request' = [request EXCEPT ![r] = "waiting"]
    /\ to' = [to EXCEPT ![r] = a]
    /\ UNCHANGED <<keygen, serving, received, keys>>

\* The network breaks the connection; an answer that was not read is lost.
Lose(r) ==
    /\ request[r] \in {"waiting", "answered"}
    /\ request' = [request EXCEPT ![r] = "closed"]
    /\ received' = [received EXCEPT ![r] = Nothing]
    /\ UNCHANGED <<keygen, serving, to, keys>>

\* Mutant of End: the key of the last response is kept.
EndKeepsKey(r) ==
    /\ request' = [request EXCEPT ![r] = "ready"]
    /\ to' = [to EXCEPT ![r] = Nothing]
    /\ UNCHANGED received

End(r) ==
    /\ request' = [request EXCEPT ![r] = "ready"]
    /\ to' = [to EXCEPT ![r] = Nothing]
    /\ received' = [received EXCEPT ![r] = Nothing]

\* The response is parsed, and persist_peer_key stores the key under its own
\* fingerprint.
Receive(r) ==
    /\ request[r] = "answered"
    /\ keys' = keys \cup {received[r]}
    /\ End(r)
    /\ UNCHANGED <<keygen, serving>>

\* read_message fails at the end of the stream.
ReadFails(r) ==
    /\ request[r] = "closed"
    /\ End(r)
    /\ UNCHANGED <<keygen, serving, keys>>

\* A kill or a storage error.
RequestFails(r) ==
    /\ request[r] \in {"waiting", "answered"}
    /\ End(r)
    /\ UNCHANGED <<keygen, serving, keys>>

----------------------------------------------------------------------------
Next ==
    \/ \E k \in Key :
          \/ \E s, p \in Path : Generate(k, s, p)
          \/ CreateSecret(k)
          \/ WriteSecret(k)
          \/ CreatePublic(k)
          \/ WritePublic(k)
          \/ KeygenFails(k)
    \/ \E a \in Address :
          \/ \E path \in Path, k \in Key : Serve(a, path, k)
          \/ Stop(a)
    \/ \E r \in Requester :
          \/ \E a \in Address : Connect(r, a)
          \/ Answer(r)
          \/ Lose(r)
          \/ Receive(r)
          \/ ReadFails(r)
          \/ RequestFails(r)

Spec == Init /\ [][Next]_vars

\* key-serve sleeps for its --duration-ms and then returns, and a requester is
\* scheduled. Nothing is assumed of the handlers or of keygen.
Fairness ==
    /\ \A a \in Address : WF_vars(Stop(a))
    /\ \A r \in Requester : WF_vars(Receive(r)) /\ WF_vars(ReadFails(r))

FairSpec == Spec /\ Fairness

----------------------------------------------------------------------------
KeygenStep == {"create secret", "write secret", "create public", "write public"}

\* Types, and what a process holds: a keygen has its paths, a connection has an
\* address, and exactly an answered request has a key to read.
TypeOK ==
    /\ file \in [Path -> Content]
    /\ at \in [Key -> KeygenStep \cup {"new", "done", "ended"}]
    /\ secretPath \in [Key -> Path \cup {Nothing}]
    /\ publicPath \in [Key -> Path \cup {Nothing}]
    /\ \A k \in Key : at[k] # "new" => secretPath[k] \in Path /\ publicPath[k] \in Path
    /\ serving \in [Address -> Key \cup {Nothing}]
    /\ request \in [Requester -> {"ready", "waiting", "answered", "closed"}]
    /\ to \in [Requester -> Address \cup {Nothing}]
    /\ received \in [Requester -> Key \cup {Nothing}]
    /\ \A r \in Requester :
          /\ to[r] = Nothing <=> request[r] = "ready"
          /\ received[r] # Nothing <=> request[r] = "answered"
    /\ keys \subseteq Key

\* A key that is served, on its way or stored by a peer has its secret whole on
\* the disk of its owner, wherever a keygen was killed: a peer never trusts a
\* fingerprint that nobody can sign for (the order of the two write_file calls
\* of run_keygen, and create_new).
StoredHasSecret ==
    \A k \in keys \cup {serving[a] : a \in Address} \cup {received[r] : r \in Requester} :
        k # Nothing => \E p \in Path : file[p] = Secret(k)

\* A keygen that printed its fingerprint has both files on the disk, for good,
\* whatever other keygens do to the same paths (write_file).
PrintedKeyIsOnDisk ==
    \A k \in Key : at[k] = "done" =>
        /\ file[secretPath[k]] = Secret(k)
        /\ file[publicPath[k]] = Public(k)

\* A request ends, although request_peer_key has no timeout: a key-serve that
\* does not answer closes the connection when its duration is over.
RequestEnds ==
    \A r \in Requester : request[r] # "ready" ~> request[r] = "ready"

=============================================================================
