# decentra-chat: a TLA+ model, its checks and its proofs

decentra-chat is a serverless chat: every node is one command-line program over
one SQLite file. Nodes find each other by UDP multicast, fetch each other's
public keys over TCP, and exchange signed messages, each naming the hash of the
message it follows and each answered by a signed ACK. This directory models the
program (paths below are relative to `src/src/`), model-checks it with TLC on
small instances and proves the main safety properties with TLAPS.

## 1. The system

| Component | State | Operations | Talks to |
|---|---|---|---|
| chat session, `cli/commands.rs` `run_chat` | conversation, `latest_hash`, deadline, message in flight | open from the history; `select!` over deadline, stdin line, received message; ACK, insert; exit | transport (channel), storage, history |
| message transport, `message_transport.rs` | `expected_previous_hash` behind a mutex, handler tasks, mpsc channel of 16 | accept a connection, read, validate, advance the hash, write the ACK, queue; send and wait for the ACK | the peer's transport over TCP |
| conversation engine, `conversation_engine.rs` | none | order a conversation by its previous hashes, resolve replies | storage |
| storage, `storage.rs` | tables `peer_keys`, `contacts`, `conversations`, `messages`, `message_acks` | migrations, upserts, lookups, inserts, strict chain order | every command, and other processes on the file |
| contact commands, `cli/commands.rs` | none between statements but local variables | `contact add/list/show/trust`, `onboard`, `key-request` | storage, key exchange |
| keys, `keygen` and `key_exchange.rs` | two key files; the key that is served | write a key pair, serve its public key for a while, request and store a peer's | TCP, storage, files |
| discovery, `discovery.rs` | the peer registry, a broadcast channel of 16 | announce on a timer, receive, record a key, subscribe to re-key events | UDP multicast |
| one-shot `send` and `receive` | as the transport | one message, with hashes given by the user | transport |
| wire codec, `codec.rs` and the frame readers and writers | none | encode, decode, frame | all network code |
| crypto, hex, uuid, time, config, arguments, output, status | none | conversions, validation, formatting | |

What is hard about it:

* **Two actors on one chain.** The hash a session sends with (`latest_hash`) and
  the hash its listener requires (`expected_previous_hash`) are two variables of
  two tasks, and the peer has two more. Both sides may send at once.
* **An ACK is written before the message is stored**, and recorded by its sender
  in a statement of its own. Connections break and processes die in between.
* **Nothing bounds the wait for an ACK**, while the deadline is only looked at
  between two turns of the loop.
* **Several processes share the SQLite file**, and commands are sequences of
  statements without a transaction.
* **Addresses are given by the user**, apart from the fingerprint of the peer, so a
  connection may end at another node, or at a command that waits for somebody else.
* **Key files are created and then written**, one after the other, and key requests
  have no timeout.
* **Datagrams** are lost, repeated and overtaken, and an announcement replaces an
  entry that another task gave a key.
* **History is rebuilt from hashes** of whatever arrived: segments without a
  beginning, branches, circles. Its replies are looked up one by one afterwards.

What makes each component correct: an ACK is true, what is stored has its predecessor stored,
and one sender forks no stored conversation (session, transport); a command says "delivered"
only of what was, and a stored message is in the list of conversations (one-shot, storage); what
is shown is complete and in chain order, and what it says of replies is true (engine); no public
key is given away whose secret is lost (keys); an alias names one key, shown keys exist, trust
is given only to what was verified and never lost (contacts); keys survive announcements and
addresses settle (discovery); what is read is what was written (codec). `PROJECT.json` lists
each hazard at its line with the properties that cover it.

## 2. The modules

    Delivery             abstract: what the acknowledged transport promises
      ^ implements
    ChatSession          two or more peers: run_chat + transport + message rows
    ChatSessionInvariant its inductive invariants
    ChatSessionProofs    types; Origin, ChainInv and ForkInv and what follows from
                         them; ChatSession implements Delivery
    OneShot              send and receive, and the rows of conversations
    OneShotInvariant     its inductive invariants
    OneShotProofs        its properties
    History              order_history and order_message_chain
    MessageHistory       history on top of it: replies, while messages arrive
    HistoryProofs        properties of both
    KeyExchange          keygen, key-serve and key-request
    KeyExchangeProofs    its invariants
    Contacts             peer_keys and contacts under concurrent commands
    ContactsProofs       its invariants
    Discovery            the registry of one node
    DiscoveryProofs      its invariants
    Wire                 codec, frames and datagrams
    WireProofs           its properties, from numbers in base Base up
    Recursion            recursive functions and induction over a measure, for the
                         proofs of History and Wire
    MC*.tla, *.cfg       instances for TLC

**ChatSession** composes the session, the transport and the rows of messages and
ACKs of every node. `store` and `acks` are the tables and survive `Exit`; all
other variables are memory of a process. `pc` is where the main task stands: in
`select!` (`loop`), awaiting the ACK (`sending`) or between its two statements
(`insert`). `StartChat` and `StartRefused` are the code up to the loop, `Send`,
`RecordAck` and `InsertSent` the stdin branch, `Receive` the recv branch,
`DeadlineFires` and `Stop` the deadline branch; `ConnectRefused`, `SendFails`
and `Crash` the ways out by an error. `Accept` is a handler up to the release of
the mutex, `WriteAck` the rest of it, `Refuse` its validation error,
`AckWriteFails` and `LoseRequest` its I/O errors. A connection is `link` of the
sender; a request that waits in a socket is in `inbox`. Signatures, versions and
timestamps are not modelled: the peer is honest, so those checks pass. `composed`,
`accepted` and `taken` are history variables.

**Delivery** has three sets: what was composed, accepted and confirmed. A message
is accepted at most once, confirmed after that, and follows something its sender
saw both ends agree on. `ChatSession` maps `accepted` and `acks` to them.

**OneShot** has any number of processes, each of them one run of `send` or `receive`,
over the same transport, and the three tables they write. `Send`, `SendRefused`,
`RecordAck` and `SendFails` are `run_send`, `Listen`, `Take` and `TimeOut` are
`run_receive`, and both end in `insert_accepted_chat_message`: a lookup of the UUID
(`AlreadyStored`, `NotStored`) and three statements (`AddConversation`, `Touch`,
`AddRow`), each of which commits by itself while other processes of the node run in
between. A message may be found stored when a node sends to itself. A send may connect to
any receive there is, because the user gives the address apart from the fingerprint;
`Acceptable` and `AckedByPeer` are the checks that both ends make. `Accept`, `Refuse`,
`WriteAck` and `AckWriteFails` are the handler as in `ChatSession`. They run while the
main task awaits in `recv()` only, because an insert does not await. `EnsureConversation`
is what a chat that opens adds. `Quit` is a kill or an error anywhere. A clock may show
any of `Time` at each read. The previous hash is the user's: the default zero, one that
was printed, or one that is stored.

**History** takes `rows` in the fallback order of storage and gives `order_history`
(segments that start at a zero or missing predecessor, each walked to its end) and
`order_message_chain` (one start, one walk). `Insert` puts a message anywhere.

**MessageHistory** runs `history` over those rows: `Read` is the one statement that
reads them, `Resolve` the lookup of the next reply by its UUID, and `Store` and
`StoreElsewhere` are inserts of other processes in between, here and in other
conversations. The headers of a reply give a UUID and a hash that need not belong
together. Replies are displayed as valid, invalid or unresolved (`Verdict`).

**KeyExchange** has the key files of one node and the key requests of its peers. `keygen`
is `Create` and a write for each of its two files; `create_new` makes a path that exists
an error. `Serve` is `key-serve` up to its listener, `Stop` its end, which aborts the
handlers. `Connect`, `Receive` and `ReadFails` are `request_peer_key`. The bytes of a file
are written by one write: they are small, and `write_file` does not sync, so a crash of
the machine (as opposed to the process) is outside of the model.

**Contacts** has the two tables and any number of processes. An action is one SQL
statement or one exchange with the peer, so other processes run between any two.
An alias may spell a fingerprint, which `find_contact` then takes for one.
`Open` includes the migrations, which run in one transaction. `Quit` is a kill or
an error anywhere. Who answers at an address is not known: `Fetch` takes any key.

**Discovery** has the registry of one node, `Self`; processes share nothing but datagrams, so
one observer stands for all. `net` holds announcements under way to its host: they are sent
whether it listens or not, and what one session did not receive, because it ended (`Stop`), the
next one may. The commands never record a key: `record_public_key` and `subscribe_rekey` are the
interface of the library, used here by a caller that subscribed when the session opened.

**Wire** has the layout of the five message types as data, `Encode` and `Decode` over
it, and a stream between one writer and one reader that may close anywhere, or
carry one byte changed, added or missing, or everything twice. A datagram is cut where the buffer of its
reader ends (`Buffered`). A byte has `Base` values instead of 256.
The decoder keeps a cursor, the bytes that are left, after each field (`Cursors`), as
the `Cursor` of the code does; a field that does not fit into them stops it. `Decode` gives
the set of what was decoded: one message, or none when the code returns an error.

## 3. What is checked

| Run | Instance | What it shows |
|---|---|---|
| `chat` | 2 nodes, 1 conversation, 4 messages | ACKs are true (`AckedWasAccepted`), a stored sent message has its ACK (`StoredOwnIsAcked`), the channel continues the chain (`ReceivedInOrder`), the predecessor of a stored message is stored at the same node (`NoGaps`) and no sender forks the stored messages of a conversation (`SameSenderNeverForks`), under kills, restarts and broken connections anywhere |
| `chat_live` | 2 nodes, 2 messages | a session ends after its deadline while both processes run (`DeadlineEndsSession`), and the sessions implement Delivery (`ImplementsDelivery`) |
| `chat_stall`, `chat_reply`, `chat_acked_lost`, `chat_crossed` | 2 nodes, 2 messages; `chat_crossed` 2 conversations | counterexamples to what the documents say, section 6 |
| `one_shot` | 2 nodes, 2 commands each, 2 messages, 2 times, one node that also sends to itself | what `send` reports was accepted by a receive of the right node that waited for the sender, and is recorded and stored once (`DeliveredIsTrue`); a receive that times out acknowledged nothing; what a receive drops comes after what it stores; a stored message has its conversation, at least as new (`ConversationCovers`); no send waits on nobody (`WaitingSendIsHeld`), under kills, broken connections and clocks that go back |
| `history` | up to 5 messages in every order; with a reply, up to 2 and one elsewhere | an answer has every message once, each directly after its stored predecessor (`HistoryFollowsChain`); segments follow the fallback order of their heads; a late message moves only itself and what follows it (`LateMessageMovesWhatFollows`); it is refused exactly when ambiguous, and then for ever; the strict order agrees when it answers; verdicts on replies agree with what is shown and stay true (`VerdictsHold`) |
| `key_exchange` | 2 keygens, 4 paths, 1 address, 2 requesters | a key that is served, under way or stored has its secret on disk (`StoredHasSecret`); a pair that was announced stays (`PrintedKeyIsOnDisk`); a request ends (`RequestEnds`) |
| `contacts` | 2 processes, 2 fingerprints, 2 aliases, one of which spells a fingerprint | an alias names one fingerprint; a contact that shows a key has one (`PresentIsTrue`, in this direction only: a "no key" that a race left stays until a command opens the file again and sets every flag anew); `chat` and `onboard --trust` act on what they checked; trust is kept |
| `discovery` | observer, 2 nodes (one with a long nickname), 2 addresses, 2 keys | unread re-key events of a peer form one story that ends at its key on record; keys are kept, and announcements of an earlier session may arrive at any time; the address of a node that stays up settles (`AddressSettles`) |
| `wire` | 47 messages of the five types, `Base` 6 | what is read was sent, whole and in its only encoding; writer and reader agree on every limit; a signature is of one message |

Bounds. Four messages let each side send, lose the ACK, restart and send again with an answer
between; five messages give two segments with a branch or a circle beside them. The reply bound
of `history` (a reply takes the place of three messages) keeps its run short: a reply and its
target need two rows, and one row elsewhere. Four paths let two keygens share any of their files
or none. Every message needs a fresh hash, so `Hash` bounds the run of the sessions; nothing
else does, and sessions restart without limit. Two processes are enough for every race of two
statements, and the proofs lift the bound. In `OneShot` two commands at each node give two sends
to one receive, two inserts into one conversation, a command that is given the hash of an
earlier one, and a send that reaches the wrong receive, of the other node or of its own.
`Discovery` bounds the duplicates (`MaxDuplicates`) and shrinks the channel from 16 to
`Capacity` = 2 so that it overflows. The channel of 16 accepted messages is not bounded in
`ChatSession`: handlers that wait for room wait in its order, so they stand at the end of
`queue`. `Wire` uses vectors up to and beyond the greatest length (35 and 36 bytes for a key, 5
and 6 for a nickname), and vectors that look like a length and a shorter vector. `MaxDatagram`
is 13: the longest announcement has 12 bytes and fits, as 296 fit in 512; a nickname a byte too
long would fit as well, so only the limit of its length stops it; and an announcement that was
sent twice in one datagram is cut. Symmetry is used in runs without liveness: over hashes, over
the commands of a node, and over processes of `Contacts`. Deadlock is not checked in `history`
(rows only grow), `wire` (one message), `key_exchange` (keygens end, and there may be no key to
serve) and `one_shot` (commands end; that a send always has somebody to end it is
`WaitingSendIsHeld`).

Fairness. The program runs on tokio's `current_thread` runtime (`cli/mod.rs:87`): a
task that is ready is polled while the process is scheduled. `MainFairness` says that
of the main task's steps that need no input, `HandlerFairness` of the handlers. No
fairness is put on stdin, on timers before they fire, on kills or on the network of the
sessions. `PeerMayStallSpec` drops the handlers' fairness: a peer that is suspended, or
whose host disappeared without closing the connection. In `Discovery`, the sender ticks
(weak fairness) and the network does not lose or delay one announcement for ever
(strong fairness of `Receive`); `AddressSettles` only speaks of two nodes that stay up. Both are
assumed of the nodes outside `LongNick`: the others have nothing to send.
In `KeyExchange`, `key-serve` sleeps for its `--duration-ms` and returns (weak fairness of
`Stop`), and a requester that can read does (`Receive`, `ReadFails`). Nothing is assumed of the
handlers: `RequestEnds` holds because the end of the service closes their connections. It
assumes that the end of a connection reaches the requester, as `chat_live` and `WaitingSendIsHeld`
of `one_shot` do of their peers.

Every property of a passing run has one or more mutants, operators beside the definition they
mutate, that make the run fail: a missing guard, a lost write, a swapped order.

## 4. What is proved

For any number of nodes, conversations, messages, processes, fingerprints, aliases,
addresses and keys, from the named assumptions on the constants (peers come in pairs,
and the "none" values are not values):

* **ChatSession.** `TypeOK` is inductive. `Origin` says where a message in each place comes
  from: what is in flight was composed by its sender and follows its `latest`; what is queued or
  handled was accepted; what is stored was accepted where it should have been, with its ACK if
  it is one's own. `AckedWasAccepted` alone is not inductive, because `RecordAck` needs to know
  that a readable ACK is of an accepted message; that is `SendingOrigin`. `ChainInv` says what a
  session may follow: `latest`, `taken` and every composed message follow stored messages, and
  the listener expects either the end of its channel or one accepted message after it that
  nobody else holds (`ListenerAtEnd`, `Unseen`): that is what a failed ACK write or a handler in
  progress leaves. From it follow `ReceivedInOrder` and `NoGaps`. `SessionsImplementDelivery` is
  the refinement: `Origin` gives the guards of `Accept` and `Confirm` (what is in an inbox was
  not accepted, what is acknowledged was), `FollowsStored` with `StoreOrigin` that of `Compose`.
  What is proved of forks is about what a node *stored*. A listener may accept a message, die
  before it writes the ACK, and, when both sides are up again, accept another one with the same
  predecessor: only the second is stored. `ConversationNeverForks` holds of any conversations
  and sessions: of the messages that follow a message of their own conversation, no two have the
  same sender and predecessor; and a node's own messages in a conversation never share one. Its
  invariant `ForkInv` says of whoever is up that nobody has stored a message after what it sends
  from (`latest`, `SelfNeverForks`) or expects (`expected`, `PeerNeverForks`). What it leaves
  out are the peer's messages that begin a conversation or follow another one: a listener whose
  session is of a different conversation accepts them (`chat_crossed`) without having seen what
  its own node stored of theirs. For them too, `SameSenderNeverForks` is proved under
  `[]SessionsAgree`: sessions that run at the same time are of one conversation, as users who
  exchanged its UUID open them. The code does not compare conversations, so this is an
  assumption. The run has one conversation, where it is true.
* **OneShot.** `TypeOK`, with the shape of every command, and `ConversationCovers`. The
  latter is not inductive: `AddRow` needs that the conversation of an insert in progress is
  there and as new as the insert (`InsertCovers`), which holds because no step of any
  process removes a conversation or makes it older (lemma `RowsRise`). The properties of
  deliveries follow from `HoldInv`, which says who holds a message: a send keeps to one receive
  (`Roles`) and nobody else sends its message (`SoleSender`); a listener holds what was sent
  to it, and accepts it once (`Placed`); an ACK is of a message that its receive accepted and,
  while it listens, still has in its channel (`AckOrigin`); a row has a message that
  a receive accepted (`RowOrigin`). `ReceivesTheFirst` further needs that a message follows
  something that was stored when it was composed (`FollowsStored`), and that what a listener
  accepted and somebody stored is already in its channel (`StoredIsQueued`): its
  successor comes after it.
* **History.** For any number of messages in any order, every property of the run. The
  walk and the sequence of segments are recursive functions; that functions with these
  equations exist, and what holds by induction over them, is proved from a measure that falls at
  each call (`RecursionExists`, `MeasureInduction` in `Recursion`), for `Walk` the number of messages not
  yet visited. `Follow` is what every path satisfies (no message twice, each a start or right after its
  predecessor, the starts in order), and a path to its end leaves nothing out unless there is a circle:
  what it leaves out has its predecessors left out as well (`LeftOutIsCycle`), and a circle is
  never entered (`CycleIsLeftOut`). `RefusedForever` holds as forks and circles stay when a
  message comes in; `LateMessageKeepsOrder`, behind `LateMessageMovesWhatFollows`, follows two
  messages back along their chains, by induction over the sum of their places, to the heads of their segments.
  `VerdictsHold` needs, while a listing is resolved, that each verdict given has its reason among the
  rows read or the hashes stored (`HistoryInv`), and that those stay.
* **Contacts.** `ContactsInv` adds to the properties what a process may rely on between two
  statements (`ProcessKnows`): keys are never deleted, so what was read as present stays
  so. Trust is never taken back as an action property.
* **KeyExchange.** `StoredHasSecret` and `PrintedKeyIsOnDisk`, for any number of keygens on any
  paths. The invariant `KeygenInv` says why: two keygens that are inside a file are inside
  different ones, as only a path without a file is created (`WritersApart`); so a secret that was
  written stays (`SecretFirst`), and likewise a public key (`PublicLast`); and a public key is on
  disk only with its secret (`PublicHasSecret`). Lemma `KeptFiles`: no step changes a file
  that is written.
* **Wire.** All four properties, for any base above the five types, any size of hashes,
  any messages with vectors of any length, and any limits as long as a frame length fits in
  its four bytes (`FrameAssumption`; `MAX_KEY_EXCHANGE_FRAME_LEN` is shown to). A number
  below `Base^n` is what its `n` bytes are read as, and `n` bytes are what their value is written
  as (`WrittenIsRead`, `ReadIsWritten`); so a field that was written is read and the bytes behind it
  are left (`WrittenFieldIsRead`), and the other way round (`ReadFieldIsWritten`); so, by induction over
  the fields, what was encoded decodes to the message (`EncodedIsDecoded`), and what decodes is
  the encoding of it (`DecodedIsEncoded`). Two chat messages with the same signed bytes are read back from
  them by the same cursors, so they agree in every signed field. `WireInv` relates the stream to
  the frame: what arrived is a beginning of it, and all of it unless the connection closed,
  until somebody alters it; the reader waits for as many bytes as were written.
* **Discovery.** Keys are kept, unread events lead to the key on record, and a node that
  cannot be encoded is never seen; `TypeOK` says that the channel never holds more than
  its capacity and that a stopped observer holds nothing.

Only model-checked: liveness (`DeadlineEndsSession`, `RequestEnds`, `AddressSettles`), which rests
on fairness. Every invariant and every other action property of a run that passes has its theorem.
Only proved: `ConversationNeverForks`, which `SameSenderNeverForks` implies where the run checks that.

## 5. What is not modelled

Cryptography, UUIDs and hex are wrappers of libraries and pure conversions; configuration,
argument parsing, output, errors and `status` keep no state. `contact list` and `show` and
`list_conversations` only read. Errors of SQLite appear as a process that ends at that
statement. A message has one UUID and one hash, so the errors for two different messages
with the same UUID or hash never occur: both are as unlikely as a broken hash. The checks of versions,
UUID formats and signatures pass for every message this program sends, and a check that
fails only closes a connection, as `Refuse` does. In `ChatSession` and `History` payloads,
UUIDs and timestamps are abstract: the order they settle is a choice. A crash of the machine,
which may lose what SQLite or `write_file` had not yet synced, is not modelled.

## 6. Where documents and code differ

* `chat_reply`: a session refuses the reply to the message it sent last. Its listener's
  expected hash does not follow its own sends, so the two sides of a conversation cannot alternate within one session.
* `chat_acked_lost`: at the deadline messages that were acknowledged and wait in the
  channel are dropped; the sender shows them as delivered.
* `chat_crossed`: a session accepts a message of another conversation, and its next
  message links the two chains.
* `chat_stall`: a session that waits for an ACK outlives its duration.
`PROJECT.json` quotes the lines.

`onboard` stores the key it fetched, under that key's own fingerprint, before it compares
fingerprints; a mismatch leaves the key in the database. That is harmless to trust:
`OnboardTrustsVerified` holds.

## 7. Plan

Done, in this order: `ChatSession` with `Delivery`, its invariants and proofs
(safety and refinement); `History`; `Contacts` and its proofs; `Discovery` and its
proofs; `Wire`; `OneShot` and its first proofs; `KeyExchange` and its proofs;
`MessageHistory`; addresses out of date and messages to oneself in `OneShot`; the proofs of
`SameSenderNeverForks`, of the deliveries of `OneShot`, of `History` with `MessageHistory`,
of `Wire`, and of `ConversationNeverForks` without an assumption on sessions.

Next: the abstract `Delivery` shown of `OneShot` as well, whose `send` and `receive` use the same
transport with hashes given by the user; and the signed bytes of an ACK beside those of a
message.
