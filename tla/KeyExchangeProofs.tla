------------------------- MODULE KeyExchangeProofs -------------------------
(***************************************************************************)
(* KeyExchange for any number of keygens, paths, addresses and requesters: *)
(* types, the files of a keygen that printed its fingerprint, and the      *)
(* secret of every key a peer may store.                                   *)
(*                                                                         *)
(* create_new makes a keygen the only one that writes the path it created  *)
(* (KeygenInv), so no file with bytes ever changes; then what was true of  *)
(* a file when it was read stays true.                                     *)
(***************************************************************************)
EXTENDS KeyExchange, TLAPS

\* What a file holds tells its kind and its key pair.
LEMMA ContentsDiffer ==
    /\ Absent \in Content /\ Empty \in Content /\ Absent # Empty
    /\ \A k \in Key :
          /\ Secret(k) \in Content /\ Public(k) \in Content
          /\ Secret(k) \notin {Absent, Empty} /\ Public(k) \notin {Absent, Empty}
    /\ \A j, k \in Key :
          /\ Secret(j) # Public(k)
          /\ Secret(j) = Secret(k) => j = k
          /\ Public(j) = Public(k) => j = k
BY ContentAssumption DEF Content, Secret, Public

----------------------------------------------------------------------------
(* Types *)

LEMMA TypeInit == Init => TypeOK
BY ContentsDiffer, NothingAssumption DEF Init, TypeOK, KeygenStep

\* The keygens change only the files and their own state.
LEMMA TypeKeygen ==
    ASSUME TypeOK, NEW k \in Key,
           \/ \E s, p \in Path : Generate(k, s, p)
           \/ CreateSecret(k) \/ WriteSecret(k)
           \/ CreatePublic(k) \/ WritePublic(k) \/ KeygenFails(k)
    PROVE  TypeOK'
<1>1. ASSUME NEW s \in Path, NEW p \in Path, Generate(k, s, p)
      PROVE  TypeOK'
  BY <1>1 DEF TypeOK, Generate, Goto, KeygenStep, client
<1>2. CASE CreateSecret(k)
  <2>1. file' \in [Path -> Content]
    BY <1>2, ContentsDiffer DEF TypeOK, CreateSecret, Create
  <2>2. /\ at' \in [Key -> KeygenStep \cup {"new", "done", "ended"}]
        /\ \A j \in Key : at'[j] # "new" => at[j] # "new"
    BY <1>2 DEF TypeOK, CreateSecret, Create, Goto, KeygenStep
  <2>. QED  BY <1>2, <2>1, <2>2 DEF TypeOK, CreateSecret, client
<1>3. CASE WriteSecret(k)
  BY <1>3, ContentsDiffer DEF TypeOK, WriteSecret, Goto, KeygenStep, client
<1>4. CASE CreatePublic(k)
  <2>1. file' \in [Path -> Content]
    BY <1>4, ContentsDiffer DEF TypeOK, CreatePublic, Create
  <2>2. /\ at' \in [Key -> KeygenStep \cup {"new", "done", "ended"}]
        /\ \A j \in Key : at'[j] # "new" => at[j] # "new"
    BY <1>4 DEF TypeOK, CreatePublic, Create, Goto, KeygenStep
  <2>. QED  BY <1>4, <2>1, <2>2 DEF TypeOK, CreatePublic, client
<1>5. CASE WritePublic(k)
  BY <1>5, ContentsDiffer DEF TypeOK, WritePublic, Goto, KeygenStep, client
<1>6. CASE KeygenFails(k)
  BY <1>6 DEF TypeOK, KeygenFails, Goto, KeygenStep, client
<1>. QED  BY <1>1, <1>2, <1>3, <1>4, <1>5, <1>6

\* The service and its clients leave the keygens alone.
LEMMA TypeExchange ==
    ASSUME TypeOK,
           \/ \E a \in Address :
                 \/ \E path \in Path, k \in Key : Serve(a, path, k)
                 \/ Stop(a)
           \/ \E r \in Requester :
                 \/ \E a \in Address : Connect(r, a)
                 \/ Answer(r) \/ Lose(r)
                 \/ Receive(r) \/ ReadFails(r) \/ RequestFails(r)
    PROVE  TypeOK'
<1>. USE NothingAssumption
<1>1. ASSUME NEW a \in Address, NEW path \in Path, NEW k \in Key, Serve(a, path, k)
      PROVE  TypeOK'
  BY <1>1 DEF TypeOK, Serve, keygen, client
<1>2. ASSUME NEW a \in Address, Stop(a)
      PROVE  TypeOK'
  BY <1>2 DEF TypeOK, Stop, keygen
<1>3. ASSUME NEW r \in Requester, NEW a \in Address, Connect(r, a)
      PROVE  TypeOK'
  BY <1>3 DEF TypeOK, Connect, keygen
<1>4. ASSUME NEW r \in Requester, Answer(r)
      PROVE  TypeOK'
  <2>1. serving[to[r]] \in Key
    BY <1>4 DEF TypeOK, Answer
  <2>. QED  BY <1>4, <2>1 DEF TypeOK, Answer, keygen
<1>5. ASSUME NEW r \in Requester, Lose(r)
      PROVE  TypeOK'
  BY <1>5 DEF TypeOK, Lose, keygen
<1>6. ASSUME NEW r \in Requester, Receive(r)
      PROVE  TypeOK'
  BY <1>6 DEF TypeOK, Receive, End, keygen
<1>7. ASSUME NEW r \in Requester, ReadFails(r)
      PROVE  TypeOK'
  BY <1>7 DEF TypeOK, ReadFails, End, keygen
<1>8. ASSUME NEW r \in Requester, RequestFails(r)
      PROVE  TypeOK'
  BY <1>8 DEF TypeOK, RequestFails, End, keygen
<1>. QED  BY <1>1, <1>2, <1>3, <1>4, <1>5, <1>6, <1>7, <1>8

LEMMA TypeNext == TypeOK /\ [Next]_vars => TypeOK'
<1>. SUFFICES ASSUME TypeOK, [Next]_vars  PROVE TypeOK'
  OBVIOUS
<1>1. CASE UNCHANGED vars
  BY <1>1 DEF TypeOK, vars, keygen, client
<1>2. CASE Next
  BY <1>2, TypeKeygen, TypeExchange DEF Next
<1>. QED  BY <1>1, <1>2

\* Every process is well-formed and holds what its state says, for any number
\* of processes (key_exchange.rs, run_keygen).
THEOREM TypeCorrect == Spec => []TypeOK
BY TypeInit, TypeNext, PTL DEF Spec

----------------------------------------------------------------------------
(* keygen and its files *)

IsWriting(k) == at[k] \in {"write secret", "write public"}
Target(k) == IF at[k] = "write secret" THEN secretPath[k] ELSE publicPath[k]

\* A path that is being written is still empty, and has one writer.
WritersApart ==
    /\ \A k \in Key : IsWriting(k) => file[Target(k)] = Empty
    /\ \A j, k \in Key : IsWriting(j) /\ IsWriting(k) /\ Target(j) = Target(k) => j = k

\* The secret is on the disk before the public file is created.
SecretFirst ==
    \A k \in Key : at[k] \in {"create public", "write public", "done"} =>
        file[secretPath[k]] = Secret(k)

PublicLast == \A k \in Key : at[k] = "done" => file[publicPath[k]] = Public(k)

\* Also of a keygen that was killed after it wrote both.
PublicHasSecret ==
    \A k \in Key : \A p \in Path : file[p] = Public(k) =>
        \E q \in Path : file[q] = Secret(k)

KeygenInv == WritersApart /\ SecretFirst /\ PublicLast /\ PublicHasSecret

\* A file with bytes is never written, created or removed again.
FilesAreKept ==
    \A p \in Path : file[p] \notin {Absent, Empty} => file'[p] = file[p]

LEMMA KeygenInit == Init => KeygenInv
<1>. SUFFICES ASSUME Init  PROVE KeygenInv
  OBVIOUS
<1>1. \A k \in Key : \A p \in Path : file[p] # Public(k)
  BY ContentsDiffer DEF Init
<1>. QED  BY <1>1 DEF Init, KeygenInv, WritersApart, SecretFirst, PublicLast, PublicHasSecret, IsWriting

LEMMA KeptFiles ==
    ASSUME TypeOK, KeygenInv, [Next]_vars
    PROVE  FilesAreKept
<1>1. CASE UNCHANGED file
  BY <1>1 DEF FilesAreKept
<1>2. ASSUME NEW k \in Key, CreateSecret(k) \/ CreatePublic(k)
      PROVE  FilesAreKept
  BY <1>2 DEF FilesAreKept, CreateSecret, CreatePublic, Create, TypeOK
<1>3. ASSUME NEW k \in Key, WriteSecret(k) \/ WritePublic(k)
      PROVE  FilesAreKept
  BY <1>3 DEF FilesAreKept, WriteSecret, WritePublic, TypeOK, KeygenInv, WritersApart, IsWriting, Target
<1>. QED
  BY <1>1, <1>2, <1>3 DEF Next, vars, keygen, Generate, KeygenFails, Serve, Stop,
     Connect, Answer, Lose, Receive, ReadFails, RequestFails

\* A file that was created has one writer: the others that write are at paths
\* that exist.
LEMMA CreateKeepsInv ==
    ASSUME TypeOK, KeygenInv, FilesAreKept, NEW k \in Key,
           CreateSecret(k) \/ CreatePublic(k)
    PROVE  KeygenInv'
<1>. DEFINE path == IF at[k] = "create secret" THEN secretPath[k] ELSE publicPath[k]
<1>0. /\ path \in Path
      /\ UNCHANGED <<secretPath, publicPath>>
      /\ at[k] \in {"create secret", "create public"}
      /\ \A j \in Key \ {k} : at'[j] = at[j]
      /\ \A j \in Key \ {k} : Target(j)' = Target(j) /\ IsWriting(j)' = IsWriting(j)
  BY DEF CreateSecret, CreatePublic, Create, Goto, TypeOK, Target, IsWriting
<1>1. CASE file[path] = Absent
  <2>1. /\ file' = [file EXCEPT ![path] = Empty]
        /\ IsWriting(k)' /\ Target(k)' = path
        /\ at'[k] = "write public" => at[k] = "create public"
        /\ at'[k] \in {"write secret", "write public"}
    BY <1>0, <1>1 DEF CreateSecret, CreatePublic, Create, Goto, TypeOK, Target, IsWriting
  <2>2. \A j \in Key : IsWriting(j) => Target(j) # path /\ Target(j) \in Path
    <3>1. \A j \in Key : IsWriting(j) => file[Target(j)] = Empty
      BY DEF KeygenInv, WritersApart
    <3>2. \A j \in Key : IsWriting(j) => Target(j) \in Path
      BY DEF IsWriting, Target, TypeOK
    <3>. QED  BY <1>1, <3>1, <3>2, ContentsDiffer
  <2>3. WritersApart'
    <3>1. file' \in [Path -> Content] /\ file'[path] = Empty
      BY <1>0, <2>1, ContentsDiffer DEF TypeOK
    <3>2. \A j \in Key : IsWriting(j)' => file'[Target(j)'] = Empty
      <4>1. ASSUME NEW j \in Key \ {k}, IsWriting(j)'
            PROVE  file'[Target(j)'] = Empty
        <5>1. IsWriting(j) /\ Target(j)' = Target(j)
          BY <1>0, <4>1
        <5>2. file[Target(j)] = Empty
          BY <5>1 DEF KeygenInv, WritersApart
        <5>. HIDE DEF path
        <5>. QED  BY <2>1, <2>2, <5>1, <5>2 DEF TypeOK
      <4>. QED  BY <2>1, <3>1, <4>1
    <3>3. \A i, j \in Key : IsWriting(i)' /\ IsWriting(j)' /\ Target(i)' = Target(j)' => i = j
      <4>1. \A i, j \in Key \ {k} :
               IsWriting(i)' /\ IsWriting(j)' /\ Target(i)' = Target(j)' => i = j
        BY <1>0 DEF KeygenInv, WritersApart
      <4>2. \A j \in Key \ {k} : IsWriting(j)' => Target(j)' # path
        BY <1>0, <2>2
      <4>. HIDE DEF path
      <4>. QED  BY <2>1, <4>1, <4>2
    <3>. QED  BY <3>2, <3>3 DEF WritersApart
  <2>4. ASSUME NEW j \in Key, at'[j] \in {"create public", "write public", "done"}
        PROVE  file'[secretPath[j]] = Secret(j)
    <3>1. at[j] \in {"create public", "write public", "done"}
      BY <1>0, <2>1, <2>4
    <3>2. file[secretPath[j]] = Secret(j) /\ secretPath[j] \in Path
      BY <3>1 DEF KeygenInv, SecretFirst, TypeOK
    <3>. QED  BY <3>2, ContentsDiffer DEF FilesAreKept
  <2>5. ASSUME NEW j \in Key, at'[j] = "done"
        PROVE  file'[publicPath[j]] = Public(j)
    <3>1. at[j] = "done"
      BY <1>0, <2>1, <2>5
    <3>2. file[publicPath[j]] = Public(j) /\ publicPath[j] \in Path
      BY <3>1 DEF KeygenInv, PublicLast, TypeOK
    <3>. QED  BY <3>2, ContentsDiffer DEF FilesAreKept
  <2>6. ASSUME NEW j \in Key, NEW p \in Path, file'[p] = Public(j)
        PROVE  \E q \in Path : file'[q] = Secret(j)
    <3>1. file[p] = Public(j)
      BY <2>1, <2>6, ContentsDiffer DEF TypeOK
    <3>2. PICK q \in Path : file[q] = Secret(j)
      BY <3>1 DEF KeygenInv, PublicHasSecret
    <3>. QED  BY <3>2, ContentsDiffer DEF FilesAreKept
  <2>. QED
    BY <1>0, <2>3, <2>4, <2>5, <2>6 DEF KeygenInv, SecretFirst, PublicLast, PublicHasSecret
<1>2. CASE file[path] # Absent
  <2>1. UNCHANGED file /\ at'[k] = "ended" /\ ~IsWriting(k)'
    BY <1>0, <1>2 DEF CreateSecret, CreatePublic, Create, Goto, TypeOK, IsWriting
  <2>. HIDE DEF path
  <2>2. WritersApart'
    <3>1. \A j \in Key : IsWriting(j)' => j # k /\ IsWriting(j) /\ Target(j)' = Target(j)
      BY <1>0, <2>1
    <3>. QED  BY <2>1, <3>1 DEF KeygenInv, WritersApart
  <2>3. \A j \in Key : at'[j] # "ended" => at'[j] = at[j]
    BY <1>0, <2>1
  <2>4. SecretFirst'
    BY <1>0, <2>1, <2>3 DEF KeygenInv, SecretFirst
  <2>5. PublicLast'
    BY <1>0, <2>1, <2>3 DEF KeygenInv, PublicLast
  <2>6. PublicHasSecret'
    BY <2>1 DEF KeygenInv, PublicHasSecret
  <2>. QED  BY <2>2, <2>4, <2>5, <2>6 DEF KeygenInv
<1>. QED  BY <1>1, <1>2

\* The writer of a path is the only one; the secret it writes stays.
LEMMA WriteKeepsInv ==
    ASSUME TypeOK, KeygenInv, FilesAreKept, NEW k \in Key,
           WriteSecret(k) \/ WritePublic(k)
    PROVE  KeygenInv'
<1>0. /\ Target(k) \in Path /\ IsWriting(k) /\ ~IsWriting(k)'
      /\ UNCHANGED <<secretPath, publicPath>>
      /\ file' = [file EXCEPT ![Target(k)] =
                     IF at[k] = "write secret" THEN Secret(k) ELSE Public(k)]
      /\ at' = [at EXCEPT ![k] = IF at[k] = "write secret" THEN "create public" ELSE "done"]
      /\ at \in [Key -> KeygenStep \cup {"new", "done", "ended"}]
      /\ file \in [Path -> Content]
      /\ \A j \in Key \ {k} : Target(j)' = Target(j) /\ IsWriting(j)' = IsWriting(j)
  BY DEF WriteSecret, WritePublic, Goto, TypeOK, Target, IsWriting
<1>1. WritersApart'
  <2>1. \A j \in Key \ {k} : IsWriting(j) => Target(j) # Target(k) /\ Target(j) \in Path
    BY <1>0 DEF KeygenInv, WritersApart, TypeOK, IsWriting, Target
  <2>. QED  BY <1>0, <2>1 DEF KeygenInv, WritersApart
<1>2. SecretFirst'
  <2>1. ASSUME NEW j \in Key, at'[j] \in {"create public", "write public", "done"}
        PROVE  file'[secretPath[j]] = Secret(j)
    <3>1. CASE j = k /\ at[k] = "write secret"
      BY <1>0, <3>1 DEF Target
    <3>2. CASE ~(j = k /\ at[k] = "write secret")
      <4>1. at[j] \in {"create public", "write public", "done"}
        BY <1>0, <2>1, <3>2 DEF IsWriting
      <4>2. file[secretPath[j]] = Secret(j) /\ secretPath[j] \in Path
        BY <4>1 DEF KeygenInv, SecretFirst, TypeOK
      <4>. QED  BY <4>2, ContentsDiffer DEF FilesAreKept
    <3>. QED  BY <3>1, <3>2
  <2>. QED  BY <1>0, <2>1 DEF SecretFirst
<1>3. PublicLast'
  <2>1. ASSUME NEW j \in Key, at'[j] = "done"
        PROVE  file'[publicPath[j]] = Public(j)
    <3>1. CASE j = k
      BY <1>0, <2>1, <3>1 DEF Target
    <3>2. CASE j # k
      <4>1. at[j] = "done"
        BY <1>0, <2>1, <3>2
      <4>2. file[publicPath[j]] = Public(j) /\ publicPath[j] \in Path
        BY <4>1 DEF KeygenInv, PublicLast, TypeOK
      <4>. QED  BY <4>2, ContentsDiffer DEF FilesAreKept
    <3>. QED  BY <3>1, <3>2
  <2>. QED  BY <1>0, <2>1 DEF PublicLast
<1>4. PublicHasSecret'
  <2>1. ASSUME NEW j \in Key, NEW p \in Path, file'[p] = Public(j)
        PROVE  \E q \in Path : file'[q] = Secret(j)
    <3>1. CASE file[p] = Public(j)
      BY <3>1, ContentsDiffer DEF KeygenInv, PublicHasSecret, FilesAreKept
    <3>2. CASE file[p] # Public(j)
      <4>0. p = Target(k)
        BY <1>0, <2>1, <3>2
      <4>1. p = Target(k) /\ at[k] = "write public" /\ j = k
        BY <1>0, <2>1, <4>0, ContentsDiffer DEF IsWriting
      <4>2. file[secretPath[k]] = Secret(k) /\ secretPath[k] \in Path
        BY <4>1 DEF KeygenInv, SecretFirst, TypeOK
      <4>. QED  BY <4>1, <4>2, ContentsDiffer DEF FilesAreKept
    <3>. QED  BY <3>1, <3>2
  <2>. QED  BY <2>1 DEF PublicHasSecret
<1>. QED  BY <1>1, <1>2, <1>3, <1>4 DEF KeygenInv

LEMMA KeygenNext == TypeOK /\ KeygenInv /\ [Next]_vars => KeygenInv'
<1>. SUFFICES ASSUME TypeOK, KeygenInv, [Next]_vars  PROVE KeygenInv'
  OBVIOUS
<1>1. CASE UNCHANGED keygen
  BY <1>1 DEF keygen, KeygenInv, WritersApart, SecretFirst, PublicLast, PublicHasSecret,
     IsWriting, Target
<1>2. ASSUME NEW k \in Key, CreateSecret(k) \/ CreatePublic(k)
      PROVE  KeygenInv'
  BY <1>2, KeptFiles, CreateKeepsInv
<1>3. ASSUME NEW k \in Key, WriteSecret(k) \/ WritePublic(k)
      PROVE  KeygenInv'
  BY <1>3, KeptFiles, WriteKeepsInv
<1>4. ASSUME NEW k \in Key, NEW s \in Path, NEW p \in Path, Generate(k, s, p)
      PROVE  KeygenInv'
  BY <1>4 DEF Generate, Goto, TypeOK, KeygenInv, WritersApart, SecretFirst, PublicLast,
     PublicHasSecret, IsWriting, Target
<1>5. ASSUME NEW k \in Key, KeygenFails(k)
      PROVE  KeygenInv'
  <2>1. /\ UNCHANGED <<file, secretPath, publicPath>>
        /\ at' = [at EXCEPT ![k] = "ended"]
        /\ at \in [Key -> KeygenStep \cup {"new", "done", "ended"}]
    BY <1>5 DEF KeygenFails, Goto, TypeOK
  <2>2. \A j \in Key : IsWriting(j)' => IsWriting(j) /\ Target(j)' = Target(j)
    BY <2>1 DEF IsWriting, Target
  <2>3. WritersApart'
    BY <2>1, <2>2 DEF KeygenInv, WritersApart
  <2>4. SecretFirst' /\ PublicLast' /\ PublicHasSecret'
    BY <2>1 DEF KeygenInv, SecretFirst, PublicLast, PublicHasSecret
  <2>. QED  BY <2>3, <2>4 DEF KeygenInv
<1>. QED
  BY <1>1, <1>2, <1>3, <1>4, <1>5 DEF Next, vars, Serve, Stop, Connect, Answer, Lose,
     Receive, ReadFails, RequestFails

LEMMA KeygenInvariant == Spec => [](TypeOK /\ KeygenInv)
BY TypeInit, TypeNext, KeygenInit, KeygenNext, PTL DEF Spec

\* A fingerprint that was printed belongs to a pair whose two files are on the
\* disk, however many keygens are given the same paths (write_file).
THEOREM PrintedKeyIsOnDiskAlways == Spec => []PrintedKeyIsOnDisk
<1>1. TypeOK /\ KeygenInv => PrintedKeyIsOnDisk
  BY DEF KeygenInv, SecretFirst, PublicLast, PrintedKeyIsOnDisk
<1>. QED  BY <1>1, KeygenInvariant, PTL

----------------------------------------------------------------------------
(* From the disk to the peer *)

HasSecret(k) == \E p \in Path : file[p] = Secret(k)

LEMMA HasSecretStays ==
    ASSUME FilesAreKept, NEW k \in Key, HasSecret(k)
    PROVE  HasSecret(k)'
BY ContentsDiffer DEF FilesAreKept, HasSecret

\* The keys StoredHasSecret speaks of, without Nothing.
Passed == (keys \cup {serving[a] : a \in Address} \cup {received[r] : r \in Requester}) \ {Nothing}

LEMMA PassedGrows ==
    ASSUME TypeOK, KeygenInv, [Next]_vars, NEW k \in Passed'
    PROVE  k \in Passed \/ HasSecret(k)
<1>1. CASE UNCHANGED <<serving, client>>
  BY <1>1 DEF Passed, client
<1>2. ASSUME NEW a \in Address, NEW path \in Path, NEW j \in Key, Serve(a, path, j)
      PROVE  k \in Passed \/ HasSecret(k)
  <2>1. HasSecret(j)
    BY <1>2 DEF Serve, KeygenInv, PublicHasSecret, HasSecret
  <2>2. k \in Passed \/ k = j
    BY <1>2 DEF Serve, Passed, client, TypeOK
  <2>. QED  BY <2>1, <2>2
<1>3. ASSUME NEW a \in Address, Stop(a)
      PROVE  k \in Passed
  BY <1>3 DEF Stop, Passed, TypeOK
<1>4. ASSUME NEW r \in Requester, Answer(r)
      PROVE  k \in Passed
  <2>1. to[r] \in Address
    BY <1>4 DEF Answer, TypeOK
  <2>. QED  BY <1>4, <2>1 DEF Answer, Passed, TypeOK
<1>5. ASSUME NEW r \in Requester, NEW a \in Address, Connect(r, a)
      PROVE  k \in Passed
  BY <1>5 DEF Connect, Passed
<1>6. ASSUME NEW r \in Requester, Lose(r) \/ Receive(r) \/ ReadFails(r) \/ RequestFails(r)
      PROVE  k \in Passed
  BY <1>6 DEF Lose, Receive, ReadFails, RequestFails, End, Passed, TypeOK
<1>. QED
  BY <1>1, <1>2, <1>3, <1>4, <1>5, <1>6 DEF Next, vars, Generate, CreateSecret, WriteSecret,
     CreatePublic, WritePublic, KeygenFails

LEMMA StoredNext ==
    TypeOK /\ KeygenInv /\ StoredHasSecret /\ [Next]_vars => StoredHasSecret'
<1>. SUFFICES ASSUME TypeOK, KeygenInv, StoredHasSecret, [Next]_vars, NEW k \in Passed'
              PROVE  HasSecret(k)'
  BY DEF StoredHasSecret, Passed, HasSecret
<1>1. k \in Key
  BY TypeNext DEF TypeOK, Passed
<1>2. HasSecret(k)
  BY PassedGrows DEF StoredHasSecret, Passed, HasSecret
<1>. QED  BY <1>1, <1>2, KeptFiles, HasSecretStays

\* Nobody ever serves, sends or stores the key of a pair whose secret is not on
\* its owner's disk, wherever keygens are killed (run_keygen, write_file).
THEOREM StoredHasSecretAlways == Spec => []StoredHasSecret
<1>1. Init => StoredHasSecret
  BY DEF Init, StoredHasSecret
<1>. QED  BY <1>1, KeygenInvariant, StoredNext, PTL DEF Spec

=============================================================================
