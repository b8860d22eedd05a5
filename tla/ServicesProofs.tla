--------------------------- MODULE ServicesProofs ---------------------------
(***************************************************************************)
(* Proofs about the machines of Services: the media of the service, the    *)
(* bootstrap of the dataset, the observation runs and the offline stages.  *)
(* Each has an inductive invariant, which its actions preserve one by one. *)
(*                                                                         *)
(* The records of a view are a recursive function of the window.  That it  *)
(* is what its recursion says follows from least elements of sets of       *)
(* naturals: SetInduction and Recursion.                                   *)
(***************************************************************************)
EXTENDS Services, Integers, FiniteSetTheorems, SequenceTheorems, WellFoundedInduction, TLAPS

-----------------------------------------------------------------------------
(***************************************************************************)
(* MediaAccess.                                                            *)
(***************************************************************************)

Identities == (0..overwrites) \X (0..(Overwrites + overwrites))
Bytes == 0..(Overwrites + overwrites)

\* An inode has bytes that no other inode has, and the next edit's are new.
FilesAreSound ==
    /\ overwrites \in 0..Overwrites
    /\ named \in 0..overwrites
    /\ bytes \in [0..Overwrites -> Bytes]
    /\ \A i, j \in 0..Overwrites : bytes[i] = bytes[j] => i = j

Responding == {"answered"}
Decoding == {"decode", "decoded"}
Pinning == {"hash", "indexed", "cached"} \cup Responding \cup Decoding
Materializing == {"encode", "encoded"}
Trusting == {"resolved", "cached"} \cup Responding \cup Decoding \cup Materializing

\* A file that has an identity still, and the path, if it does.
Same(id) == bytes[id[1]] = id[2]
SamePath(id) == named = id[1] /\ Same(id)

\* What a client has resolved is an identity that the path had; the hash it
\* trusts is of its bytes, and so is what it has read if they are the same.
ItemIsSound(c) ==
    /\ doing[c] # "idle" => item[c] \in [id : Identities, sha : Bytes \cup {None}]
    /\ doing[c] \in Pinning => pinned[c] = item[c].id[1]
    /\ doing[c] \in Trusting => item[c].sha = item[c].id[2]
    /\ doing[c] = "indexed" /\ Same(item[c].id) => item[c].sha = item[c].id[2]
    /\ doing[c] = "decoded" /\ Same(item[c].id) => read[c] = item[c].id[2]
    /\ doing[c] \in Materializing =>
        \A i \in 0..Overwrites : bytes[i] = item[c].id[2] => i = item[c].id[1]
    /\ doing[c] = "encoded" /\ SamePath(item[c].id) => read[c] = item[c].id[2]

ClientsAreTyped ==
    /\ doing \in [Client -> {"idle", "index", "resolved"} \cup Pinning \cup Materializing]
    /\ item = [c \in Client |-> item[c]]
    /\ pinned = [c \in Client |-> pinned[c]]
    /\ read = [c \in Client |-> read[c]]

HashesAreSound == \A x \in hashes : x \in [id : Identities, sha : Bytes] /\ x.sha = x.id[2]

PermitsAreTyped == streams \in Nat /\ decoders \in Nat /\ dropped \in Nat

\* PermitsAreAccountedFor, with the places named.
Counted ==
    /\ streams = dropped + Cardinality({c \in Client : doing[c] \in Responding})
    /\ decoders = Cardinality({c \in Client : doing[c] \in Decoding})

MediaIInv ==
    /\ FilesAreSound
    /\ ClientsAreTyped
    /\ \A c \in Client : ItemIsSound(c)
    /\ HashesAreSound
    /\ KeptIsOfItsSource
    /\ PermitsAreTyped
    /\ PermitsAreAccountedFor

Files == <<named, bytes, overwrites>>
Caches == <<hashes, memory, disk, variants>>

\* The state of c alone.
Own(c) == <<doing[c], item[c], pinned[c], read[c]>>

\* Nobody but c does anything, and c stays typed.
OnlyOf(c) ==
    /\ ClientsAreTyped'
    /\ \A d \in Client \ {c} : Own(d)' = Own(d)

LEMMA OthersStaySound ==
    ASSUME MediaIInv, NEW c \in Client, OnlyOf(c), UNCHANGED Files, ItemIsSound(c)'
    PROVE  FilesAreSound' /\ ClientsAreTyped' /\ \A d \in Client : ItemIsSound(d)'
<1>1. FilesAreSound' /\ ClientsAreTyped'
  BY DEF MediaIInv, FilesAreSound, Files, OnlyOf, Bytes
<1>2. ASSUME NEW d \in Client \ {c} PROVE ItemIsSound(d)'
  <2>1. ItemIsSound(d)
    BY DEF MediaIInv
  <2>2. Own(d)' = Own(d) /\ named' = named /\ bytes' = bytes /\ overwrites' = overwrites
    BY DEF OnlyOf, Files
  <2> QED
    BY <2>1, <2>2 DEF ItemIsSound, Own, Same, SamePath, Identities, Bytes
<1> QED
  BY <1>1, <1>2

\* MediaAccess and FiniteSetTheorems count alike.
LEMMA SameCount == ASSUME NEW S PROVE M!Cardinality(S) = Cardinality(S)
  BY DEF M!Cardinality, Cardinality

LEMMA CountedPermits == PermitsAreAccountedFor <=> Counted
  BY SameCount DEF PermitsAreAccountedFor, M!PermitsAreAccountedFor, Counted, Responding, Decoding

\* A client more or less in a place.
LEMMA OneMore ==
    ASSUME NEW P, NEW c \in Client, ClientsAreTyped, OnlyOf(c), doing[c] \notin P, doing'[c] \in P
    PROVE  Cardinality({d \in Client : doing[d] \in P})' = Cardinality({d \in Client : doing[d] \in P}) + 1
<1>1. {d \in Client : doing'[d] \in P} = {d \in Client : doing[d] \in P} \cup {c}
  BY DEF OnlyOf, Own
<1>2. IsFiniteSet({d \in Client : doing[d] \in P})
  BY MediaAssumption, FS_Subset
<1> QED
  BY <1>1, <1>2, FS_AddElement

LEMMA OneLess ==
    ASSUME NEW P, NEW c \in Client, ClientsAreTyped, OnlyOf(c), doing[c] \in P, doing'[c] \notin P
    PROVE  Cardinality({d \in Client : doing[d] \in P})' = Cardinality({d \in Client : doing[d] \in P}) - 1
<1>1. {d \in Client : doing'[d] \in P} = {d \in Client : doing[d] \in P} \ {c}
  BY DEF OnlyOf, Own
<1>2. IsFiniteSet({d \in Client : doing[d] \in P})
  BY MediaAssumption, FS_Subset
<1> QED
  BY <1>1, <1>2, FS_RemoveElement

LEMMA NoneMore ==
    ASSUME NEW P, NEW c \in Client, ClientsAreTyped, OnlyOf(c), doing[c] \in P <=> doing'[c] \in P
    PROVE  Cardinality({d \in Client : doing[d] \in P})' = Cardinality({d \in Client : doing[d] \in P})
<1>1. {d \in Client : doing'[d] \in P} = {d \in Client : doing[d] \in P}
  BY DEF OnlyOf, Own
<1> QED
  BY <1>1

\* A step of c that touches neither the files nor a permit.
LEMMA QuietStep ==
    ASSUME MediaIInv, NEW c \in Client, OnlyOf(c), UNCHANGED Files, ItemIsSound(c)',
           HashesAreSound', KeptIsOfItsSource',
           UNCHANGED <<streams, decoders, dropped>>,
           doing[c] \in Responding <=> doing'[c] \in Responding,
           doing[c] \in Decoding <=> doing'[c] \in Decoding
    PROVE  MediaIInv'
<1>1. FilesAreSound' /\ ClientsAreTyped' /\ \A d \in Client : ItemIsSound(d)'
  BY OthersStaySound
<1>2. PermitsAreTyped'
  BY DEF MediaIInv, PermitsAreTyped
<1>3. Cardinality({d \in Client : doing[d] \in Responding})' = Cardinality({d \in Client : doing[d] \in Responding})
  BY NoneMore DEF MediaIInv
<1>4. Cardinality({d \in Client : doing[d] \in Decoding})' = Cardinality({d \in Client : doing[d] \in Decoding})
  BY NoneMore DEF MediaIInv
<1>5. Counted'
  BY <1>3, <1>4, CountedPermits DEF MediaIInv, Counted
<1>6. PermitsAreAccountedFor'
  BY <1>5, CountedPermits, PTL
<1> QED
  BY <1>1, <1>2, <1>6 DEF MediaIInv

\* What the answer of c leaves behind.
LEMMA DoneIsSound ==
    ASSUME MediaIInv, NEW c \in Client, M!Done(c)
    PROVE  OnlyOf(c) /\ doing'[c] = "idle" /\ ItemIsSound(c)'
<1>1. ClientsAreTyped
  BY DEF MediaIInv
<1>2. OnlyOf(c) /\ doing'[c] = "idle"
  BY <1>1 DEF M!Done, M!Goto, OnlyOf, Own, ClientsAreTyped
<1> QED
  BY <1>2 DEF ItemIsSound, Pinning, Responding, Decoding, Materializing, Trusting

LEMMA PinIsSound ==
    ASSUME MediaIInv, NEW c \in Client, doing[c] # "idle", UNCHANGED Files,
           NEW next \in {"hash", "cached", "answered"}, M!Pin(c, next),
           next # "hash" => doing[c] \in Trusting
    PROVE  /\ OnlyOf(c) /\ ItemIsSound(c)'
           /\ doing'[c] = IF M!PathIdentity = item[c].id THEN next ELSE "idle"
<1>1. ClientsAreTyped /\ ItemIsSound(c) /\ FilesAreSound
  BY DEF MediaIInv
<1>2. CASE M!PathIdentity # item[c].id
  BY <1>2, DoneIsSound DEF M!Pin
<1>3. CASE M!PathIdentity = item[c].id
  <2>1. /\ doing' = [doing EXCEPT ![c] = next]
        /\ pinned' = [pinned EXCEPT ![c] = named]
        /\ item' = item /\ read' = read
    BY <1>3 DEF M!Pin, M!Goto
  <2>2. named = item[c].id[1]
    BY <1>3 DEF M!PathIdentity, M!Identity
  <2>3. OnlyOf(c) /\ doing'[c] = next /\ pinned'[c] = item[c].id[1] /\ item'[c] = item[c]
    BY <1>1, <2>1, <2>2 DEF OnlyOf, Own, ClientsAreTyped, Pinning, Responding
  <2>4. ItemIsSound(c)'
    BY <1>1, <2>3
    DEF ItemIsSound, Pinning, Responding, Decoding, Materializing, Trusting, Files, Identities, Bytes, Same
  <2> QED
    BY <1>3, <2>3, <2>4
<1> QED
  BY <1>2, <1>3

Permits == <<streams, decoders, dropped>>
Clients == <<doing, item, pinned, read>>

\* An edit gives an inode or the path an identity that nothing had.
LEMMA EditKeeps ==
    ASSUME MediaIInv, M!Overwrite \/ M!Replace
    PROVE  MediaIInv'
<1>1. FilesAreSound /\ ClientsAreTyped /\ HashesAreSound /\ Overwrites \in Nat
  BY MediaAssumption DEF MediaIInv
<1>2. /\ UNCHANGED <<Caches, Permits, Clients>>
      /\ overwrites \in 0..(Overwrites - 1) /\ overwrites' = overwrites + 1
  BY <1>1 DEF M!Overwrite, M!Replace, M!caches, M!permits, Caches, Permits, Clients, FilesAreSound
<1>3. \/ named' = named /\ bytes' = [bytes EXCEPT ![named] = Overwrites + overwrites + 1]
      \/ named' = overwrites + 1 /\ bytes' = bytes
  BY DEF M!Overwrite, M!Replace
<1>4. Bytes \subseteq Bytes' /\ Identities \subseteq Identities' /\ Bytes \in SUBSET Nat
  BY <1>1, <1>2 DEF Bytes, Identities
<1>5. FilesAreSound'
  BY <1>1, <1>2, <1>3, SMTT(30) DEF FilesAreSound, Bytes
<1>6. ASSUME NEW id \in Identities
      PROVE  /\ Same(id)' => Same(id)
             /\ SamePath(id)' => SamePath(id)
             /\ \A i \in 0..Overwrites : bytes'[i] = id[2] => bytes[i] = id[2]
  <2>1. id[1] \in 0..overwrites /\ id[2] \in 0..(Overwrites + overwrites)
    BY DEF Identities
  <2>2. \A i \in 0..Overwrites : bytes'[i] = id[2] => bytes[i] = id[2] /\ (i = named => named' # named)
    BY <1>1, <1>2, <1>3, <2>1 DEF FilesAreSound, Bytes
  <2>3. Same(id)' => Same(id)
    BY <1>1, <1>2, <2>1, <2>2 DEF FilesAreSound, Same
  <2>4. SamePath(id)' => SamePath(id)
    BY <1>1, <1>2, <1>3, <2>1, <2>2, <2>3 DEF FilesAreSound, SamePath, Same
  <2> QED
    BY <2>2, <2>3, <2>4
<1>7. ASSUME NEW c \in Client PROVE ItemIsSound(c)'
  <2>1. ItemIsSound(c)
    BY DEF MediaIInv
  <2>2. doing'[c] = doing[c] /\ item'[c] = item[c] /\ pinned'[c] = pinned[c] /\ read'[c] = read[c]
    BY <1>2 DEF Clients
  <2>3. CASE doing[c] = "idle"
    BY <2>2, <2>3 DEF ItemIsSound, Pinning, Responding, Decoding, Materializing, Trusting
  <2>4. CASE doing[c] # "idle"
    <3>1. item[c].id \in Identities /\ item[c] \in [id : Identities', sha : Bytes' \cup {None}]
      BY <1>4, <2>1, <2>4 DEF ItemIsSound
    <3>2. PICK id \in Identities : id = item[c].id
      BY <3>1
    <3>3. UNCHANGED item[c] /\ UNCHANGED doing[c]
      BY <2>2
    <3>4. \A i \in 0..Overwrites : bytes'[i] = item'[c].id[2] => bytes[i] = item[c].id[2]
      BY <1>6, <3>2, <3>3
    <3>5. Same(item[c].id)' => Same(item[c].id)
      BY <1>6, <3>2, <3>3 DEF Same
    <3>6. SamePath(item[c].id)' => SamePath(item[c].id)
      BY <1>6, <3>2, <3>3 DEF SamePath, Same
    <3> QED
      BY <2>1, <2>2, <3>1, <3>3, <3>4, <3>5, <3>6
      DEF ItemIsSound, Same, SamePath, Pinning, Responding, Decoding, Materializing, Trusting
  <2> QED
    BY <2>3, <2>4
<1>8. ClientsAreTyped' /\ HashesAreSound' /\ PermitsAreTyped' /\ KeptIsOfItsSource'
  BY <1>1, <1>2, <1>4
  DEF MediaIInv, ClientsAreTyped, HashesAreSound, PermitsAreTyped, KeptIsOfItsSource,
      M!KeptIsOfItsSource, Caches, Permits, Clients
<1>9. PermitsAreAccountedFor'
  BY <1>2 DEF MediaIInv, PermitsAreAccountedFor, M!PermitsAreAccountedFor, Permits, Clients
<1> QED
  BY <1>5, <1>7, <1>8, <1>9 DEF MediaIInv

LEMMA ResolveKeeps ==
    ASSUME MediaIInv, NEW c \in Client, M!Resolve(c)
    PROVE  MediaIInv'
<1>1. FilesAreSound /\ ClientsAreTyped /\ HashesAreSound
  BY DEF MediaIInv
<1>2. /\ doing[c] = "idle" /\ UNCHANGED <<Files, Caches, Permits, pinned, read>>
      /\ \/ /\ doing' = [doing EXCEPT ![c] = "resolved"]
            /\ \E x \in hashes : item' = [item EXCEPT ![c] = x]
         \/ /\ doing' = [doing EXCEPT ![c] = "index"]
            /\ item' = [item EXCEPT ![c] = [id |-> <<named, bytes[named]>>, sha |-> None]]
  BY DEF M!Resolve, M!Goto, M!files, M!caches, M!permits, M!PathIdentity, M!Identity,
         Files, Caches, Permits
<1>3. OnlyOf(c) /\ doing'[c] \in {"resolved", "index"}
  BY <1>1, <1>2 DEF OnlyOf, ClientsAreTyped, Own
<1>4. <<named, bytes[named]>> \in Identities /\ UNCHANGED <<Identities, Bytes>>
  BY <1>1, <1>2, MediaAssumption DEF FilesAreSound, Identities, Bytes, Files
<1>5. ItemIsSound(c)'
  <2>1. CASE doing'[c] = "resolved"
    <3>1. item'[c] \in [id : Identities, sha : Bytes] /\ item'[c].sha = item'[c].id[2]
      BY <1>1, <1>2, <2>1 DEF HashesAreSound, ClientsAreTyped
    <3> QED
      BY <1>4, <2>1, <3>1 DEF ItemIsSound, Pinning, Responding, Decoding, Materializing, Trusting
  <2>2. CASE doing'[c] = "index"
    <3>1. item'[c] \in [id : Identities, sha : Bytes \cup {None}]
      BY <1>1, <1>2, <1>4, <2>2 DEF ClientsAreTyped
    <3> QED
      BY <1>4, <2>2, <3>1 DEF ItemIsSound, Pinning, Responding, Decoding, Materializing, Trusting
  <2> QED
    BY <1>3, <2>1, <2>2
<1>6. HashesAreSound' /\ KeptIsOfItsSource'
  BY <1>2, <1>4 DEF MediaIInv, HashesAreSound, KeptIsOfItsSource, M!KeptIsOfItsSource, Caches
<1> QED
  BY <1>2, <1>3, <1>5, <1>6, QuietStep DEF Permits, Responding, Decoding

LEMMA OpenKeeps ==
    ASSUME MediaIInv, NEW c \in Client, M!Index(c) \/ M!Preview(c)
    PROVE  MediaIInv'
<1>1. UNCHANGED <<Files, Caches, Permits>> /\ doing[c] \in {"index", "resolved"}
  BY DEF M!Index, M!Preview, M!files, M!caches, M!permits, Files, Caches, Permits
<1>2. OnlyOf(c) /\ ItemIsSound(c)' /\ doing'[c] \in {"hash", "cached", "idle"}
  <2>1. CASE M!Index(c)
    BY <1>1, <2>1, PinIsSound DEF M!Index, Files
  <2>2. CASE M!Preview(c)
    BY <1>1, <2>2, PinIsSound DEF M!Preview, Files, Trusting
  <2> QED
    BY <2>1, <2>2
<1>3. HashesAreSound' /\ KeptIsOfItsSource'
  BY <1>1 DEF MediaIInv, HashesAreSound, KeptIsOfItsSource, M!KeptIsOfItsSource, Caches,
              Identities, Bytes, Files
<1> QED
  BY <1>1, <1>2, <1>3, QuietStep DEF Permits, Responding, Decoding

LEMMA HashKeeps ==
    ASSUME MediaIInv, NEW c \in Client, M!Hash(c)
    PROVE  MediaIInv'
<1>1. FilesAreSound /\ ClientsAreTyped /\ ItemIsSound(c)
  BY DEF MediaIInv
<1>2. /\ UNCHANGED <<Files, Caches, Permits, pinned, read>> /\ doing[c] = "hash"
      /\ doing' = [doing EXCEPT ![c] = "indexed"]
      /\ item' = [item EXCEPT ![c].sha = bytes[pinned[c]]]
  BY DEF M!Hash, M!Goto, M!files, M!caches, M!permits, Files, Caches, Permits
<1>3. /\ item[c] \in [id : Identities, sha : Bytes \cup {None}]
      /\ pinned[c] = item[c].id[1] /\ pinned[c] \in 0..Overwrites
  BY <1>1, <1>2, MediaAssumption
  DEF ItemIsSound, Pinning, Identities, FilesAreSound
<1>4. /\ item'[c] \in [id : Identities, sha : Bytes \cup {None}]
      /\ item'[c].id = item[c].id /\ item'[c].sha = bytes[item[c].id[1]]
  BY <1>1, <1>2, <1>3 DEF ClientsAreTyped, FilesAreSound
<1>5. OnlyOf(c) /\ doing'[c] = "indexed"
  BY <1>1, <1>2 DEF OnlyOf, ClientsAreTyped, Own, Pinning
<1>6. ItemIsSound(c)'
  BY <1>2, <1>3, <1>4, <1>5
  DEF ItemIsSound, Pinning, Responding, Decoding, Materializing, Trusting, Same, Files, Identities, Bytes
<1>7. HashesAreSound' /\ KeptIsOfItsSource'
  BY <1>2 DEF MediaIInv, HashesAreSound, KeptIsOfItsSource, M!KeptIsOfItsSource, Caches,
              Identities, Bytes, Files
<1> QED
  BY <1>2, <1>5, <1>6, <1>7, QuietStep DEF Permits, Responding, Decoding

LEMMA IndexedKeeps ==
    ASSUME MediaIInv, NEW c \in Client, M!Indexed(c)
    PROVE  MediaIInv'
<1>1. FilesAreSound /\ ClientsAreTyped /\ ItemIsSound(c)
  BY DEF MediaIInv
<1>2. UNCHANGED <<Files, memory, disk, variants, Permits>> /\ doing[c] = "indexed"
  BY DEF M!Indexed, M!files, M!permits, Files, Permits
<1>3. CASE M!Unchanged(c) /\ M!PathIdentity = item[c].id
  <2>1. /\ hashes' = hashes \cup {item[c]} /\ pinned' = [pinned EXCEPT ![c] = None]
        /\ doing' = [doing EXCEPT ![c] = "resolved"] /\ UNCHANGED <<item, read>>
    BY <1>3 DEF M!Indexed, M!Goto
  <2>2. Same(item[c].id) /\ item[c] \in [id : Identities, sha : Bytes \cup {None}]
    BY <1>1, <1>2, <1>3 DEF M!Unchanged, M!Identity, Same, ItemIsSound, Pinning, Identities
  <2>3. item[c].sha = item[c].id[2] /\ item[c].sha \in Bytes
    BY <1>1, <1>2, <2>2 DEF ItemIsSound, Identities, Bytes
  <2>4. OnlyOf(c) /\ doing'[c] = "resolved"
    BY <1>1, <2>1 DEF OnlyOf, ClientsAreTyped, Own
  <2>5. ItemIsSound(c)'
    BY <1>2, <2>1, <2>2, <2>3, <2>4
    DEF ItemIsSound, Pinning, Responding, Decoding, Materializing, Trusting, Files, Identities, Bytes
  <2>6. item[c] \in [id : Identities, sha : Bytes]
    BY <2>2, <2>3
  <2>7. HashesAreSound' /\ KeptIsOfItsSource'
    BY <1>2, <2>1, <2>3, <2>6
    DEF MediaIInv, HashesAreSound, KeptIsOfItsSource, M!KeptIsOfItsSource, Identities, Bytes, Files
  <2> QED
    BY <1>2, <2>4, <2>5, <2>7, QuietStep DEF Permits, Responding, Decoding
<1>4. CASE ~(M!Unchanged(c) /\ M!PathIdentity = item[c].id)
  <2>1. M!Done(c) /\ UNCHANGED hashes
    BY <1>4 DEF M!Indexed
  <2>2. HashesAreSound' /\ KeptIsOfItsSource'
    BY <1>2, <2>1
    DEF MediaIInv, HashesAreSound, KeptIsOfItsSource, M!KeptIsOfItsSource, Identities, Bytes, Files
  <2> QED
    BY <1>2, <2>1, <2>2, DoneIsSound, QuietStep DEF Permits, Responding, Decoding
<1> QED
  BY <1>3, <1>4

LEMMA NothingElseIsRemembered ==
    ASSUME NEW cache, NEW x, NEW new \in M!Remember(cache, x)
    PROVE  new \subseteq cache \cup {x}
  BY DEF M!Remember

\* A step of c that takes or gives back permits.
LEMMA PermitStep ==
    ASSUME MediaIInv, NEW c \in Client, OnlyOf(c), UNCHANGED Files, ItemIsSound(c)',
           HashesAreSound', KeptIsOfItsSource',
           \/ /\ doing[c] \notin Responding /\ doing'[c] \in Responding
              /\ streams' = streams + 1 /\ dropped' = dropped
           \/ /\ doing[c] \in Responding /\ doing'[c] \notin Responding
              /\ \/ streams' = streams - 1 /\ dropped' = dropped
                 \/ streams' = streams /\ dropped' = dropped + 1
           \/ /\ doing[c] \in Responding <=> doing'[c] \in Responding
              /\ streams' = streams /\ dropped' = dropped,
           \/ /\ doing[c] \notin Decoding /\ doing'[c] \in Decoding
              /\ decoders' = decoders + 1
           \/ /\ doing[c] \in Decoding /\ doing'[c] \notin Decoding
              /\ decoders' = decoders - 1
           \/ /\ doing[c] \in Decoding <=> doing'[c] \in Decoding
              /\ decoders' = decoders
    PROVE  MediaIInv'
<1> DEFINE Number(P) == Cardinality({d \in Client : doing[d] \in P})
<1>1. FilesAreSound' /\ ClientsAreTyped' /\ \A d \in Client : ItemIsSound(d)'
  BY OthersStaySound
<1>2. ASSUME NEW P PROVE Number(P) \in Nat /\ Number(P)' \in Nat
  <2>1. IsFiniteSet({d \in Client : doing[d] \in P}) /\ IsFiniteSet({d \in Client : doing'[d] \in P})
    BY MediaAssumption, FS_Subset
  <2> QED
    BY <2>1, FS_CardinalityType
<1>3. /\ streams = dropped + Number(Responding) /\ decoders = Number(Decoding)
      /\ streams \in Nat /\ dropped \in Nat
  BY CountedPermits DEF MediaIInv, Counted, PermitsAreTyped
<1>4. Number(Responding)' = IF doing[c] \in Responding
                            THEN IF doing'[c] \in Responding THEN Number(Responding) ELSE Number(Responding) - 1
                            ELSE IF doing'[c] \in Responding THEN Number(Responding) + 1 ELSE Number(Responding)
  BY OneMore, OneLess, NoneMore DEF MediaIInv
<1>5. Number(Decoding)' = IF doing[c] \in Decoding
                          THEN IF doing'[c] \in Decoding THEN Number(Decoding) ELSE Number(Decoding) - 1
                          ELSE IF doing'[c] \in Decoding THEN Number(Decoding) + 1 ELSE Number(Decoding)
  BY OneMore, OneLess, NoneMore DEF MediaIInv
<1>6. Number(Responding)' \in Nat /\ Number(Decoding)' \in Nat /\ Number(Responding) \in Nat
  BY <1>2
<1> HIDE DEF Number
<1>7. streams' = dropped' + Number(Responding)' /\ streams' \in Nat /\ dropped' \in Nat
  BY <1>3, <1>4, <1>6
<1>8. decoders' = Number(Decoding)' /\ decoders' \in Nat
  BY <1>3, <1>5, <1>6
<1>9. Counted' /\ PermitsAreTyped'
  BY <1>7, <1>8 DEF Counted, PermitsAreTyped, Number
<1>10. PermitsAreAccountedFor'
  BY <1>9, CountedPermits, PTL
<1> QED
  BY <1>1, <1>9, <1>10 DEF MediaIInv

LEMMA StreamKeeps ==
    ASSUME MediaIInv, NEW c \in Client, M!Stream(c) \/ M!Streamed(c) \/ M!Drop(c)
    PROVE  MediaIInv'
<1>1. UNCHANGED <<Files, Caches, decoders>> /\ doing[c] \in {"resolved", "answered"}
  BY DEF M!Stream, M!Streamed, M!Drop, M!files, M!caches, Files, Caches
<1>2. HashesAreSound' /\ KeptIsOfItsSource'
  BY <1>1 DEF MediaIInv, HashesAreSound, KeptIsOfItsSource, M!KeptIsOfItsSource, Caches,
              Identities, Bytes, Files
<1>3. CASE M!Stream(c)
  <2>1. CASE streams = Streams
    <3>1. M!Done(c) /\ doing[c] = "resolved" /\ streams' = streams /\ dropped' = dropped
      BY <1>3, <2>1 DEF M!Stream
    <3> QED
      BY <1>1, <1>2, <3>1, DoneIsSound, PermitStep DEF Responding, Decoding
  <2>2. CASE streams # Streams
    <3>1. /\ M!Pin(c, "answered") /\ doing[c] = "resolved" /\ dropped' = dropped
          /\ streams' = IF M!PathIdentity = item[c].id THEN streams + 1 ELSE streams
      BY <1>3, <2>2 DEF M!Stream, M!AfterRefusal
    <3>2. /\ OnlyOf(c) /\ ItemIsSound(c)'
          /\ doing'[c] = IF M!PathIdentity = item[c].id THEN "answered" ELSE "idle"
      BY <1>1, <3>1, PinIsSound DEF Trusting, Files
    <3> QED
      BY <1>1, <1>2, <3>1, <3>2, PermitStep DEF Responding, Decoding
  <2> QED
    BY <2>1, <2>2
<1>4. CASE M!Streamed(c) \/ M!Drop(c)
  <2>1. /\ M!Done(c) /\ doing[c] = "answered"
        /\ \/ streams' = streams - 1 /\ dropped' = dropped
           \/ streams' = streams /\ dropped' = dropped + 1
    BY <1>4 DEF M!Streamed, M!Drop
  <2> QED
    BY <1>1, <1>2, <2>1, DoneIsSound, PermitStep DEF Responding, Decoding
<1> QED
  BY <1>3, <1>4

LEMMA CachedKeeps ==
    ASSUME MediaIInv, NEW c \in Client, M!Cached(c)
    PROVE  MediaIInv'
<1>1. ClientsAreTyped /\ ItemIsSound(c)
  BY DEF MediaIInv
<1>2. /\ UNCHANGED <<Files, hashes, disk, variants, streams, dropped>> /\ doing[c] = "cached"
      /\ \/ M!Done(c) /\ decoders' = decoders
         \/ /\ decoders' = decoders + 1 /\ UNCHANGED <<item, pinned, read>>
            /\ doing' = [doing EXCEPT ![c] = "decode"]
      /\ memory' \subseteq memory \cup disk
  BY NothingElseIsRemembered DEF M!Cached, M!Goto, M!Held, M!files, M!permits, Files
<1>3. HashesAreSound' /\ KeptIsOfItsSource'
  BY <1>2 DEF MediaIInv, HashesAreSound, KeptIsOfItsSource, M!KeptIsOfItsSource,
              Identities, Bytes, Files
<1>4. CASE M!Done(c) /\ decoders' = decoders
  BY <1>2, <1>3, <1>4, DoneIsSound, PermitStep DEF Responding, Decoding
<1>5. CASE /\ decoders' = decoders + 1 /\ UNCHANGED <<item, pinned, read>>
           /\ doing' = [doing EXCEPT ![c] = "decode"]
  <2>1. OnlyOf(c) /\ doing'[c] = "decode"
    BY <1>1, <1>5 DEF OnlyOf, ClientsAreTyped, Own, Decoding, Pinning
  <2>2. ItemIsSound(c)'
    BY <1>1, <1>2, <1>5, <2>1
    DEF ItemIsSound, Pinning, Responding, Decoding, Materializing, Trusting, Files, Identities, Bytes
  <2> QED
    BY <1>2, <1>3, <1>5, <2>1, <2>2, PermitStep DEF Responding, Decoding
<1> QED
  BY <1>2, <1>4, <1>5

LEMMA DecodeKeeps ==
    ASSUME MediaIInv, NEW c \in Client, M!Decode(c)
    PROVE  MediaIInv'
<1>1. ClientsAreTyped /\ ItemIsSound(c)
  BY DEF MediaIInv
<1>2. /\ UNCHANGED <<Files, Caches, Permits, item, pinned>> /\ doing[c] = "decode"
      /\ doing' = [doing EXCEPT ![c] = "decoded"]
      /\ read' = [read EXCEPT ![c] = bytes[pinned[c]]]
  BY DEF M!Decode, M!Goto, M!files, M!caches, M!permits, Files, Caches, Permits
<1>3. OnlyOf(c) /\ doing'[c] = "decoded" /\ read'[c] = bytes[pinned[c]]
  BY <1>1, <1>2 DEF OnlyOf, ClientsAreTyped, Own, Decoding, Pinning
<1>4. ItemIsSound(c)'
  BY <1>1, <1>2, <1>3
  DEF ItemIsSound, Pinning, Responding, Decoding, Materializing, Trusting, Same, Files, Identities, Bytes
<1>5. HashesAreSound' /\ KeptIsOfItsSource'
  BY <1>2 DEF MediaIInv, HashesAreSound, KeptIsOfItsSource, M!KeptIsOfItsSource, Caches,
              Identities, Bytes, Files
<1> QED
  BY <1>2, <1>3, <1>4, <1>5, QuietStep DEF Permits, Responding, Decoding

\* A frame is kept if the descriptor has the identity that was resolved.
LEMMA DecodedKeeps ==
    ASSUME MediaIInv, NEW c \in Client, M!Decoded(c)
    PROVE  MediaIInv'
<1> DEFINE x == [key |-> item[c].sha, of |-> read[c]]
<1>1. ClientsAreTyped /\ ItemIsSound(c)
  BY DEF MediaIInv
<1>2. /\ UNCHANGED <<Files, hashes, variants, streams, dropped>> /\ doing[c] = "decoded"
      /\ decoders' = decoders - 1 /\ M!Done(c)
  BY DEF M!Decoded, M!files, Files
<1>3. memory' \cup disk' \subseteq memory \cup disk \cup (IF M!Unchanged(c) THEN {x} ELSE {})
  BY NothingElseIsRemembered DEF M!Decoded
<1>4. M!Unchanged(c) => x.of = x.key
  BY <1>1, <1>2
  DEF M!Unchanged, M!Identity, ItemIsSound, Same, Pinning, Trusting, Decoding, Identities
<1>5. HashesAreSound' /\ KeptIsOfItsSource'
  BY <1>2, <1>3, <1>4 DEF MediaIInv, HashesAreSound, KeptIsOfItsSource, M!KeptIsOfItsSource,
              Identities, Bytes, Files
<1> QED
  BY <1>2, <1>5, DoneIsSound, PermitStep DEF Responding, Decoding

LEMMA MaterializeKeeps ==
    ASSUME MediaIInv, NEW c \in Client, M!Materialize(c) \/ M!Encode(c) \/ M!Encoded(c)
    PROVE  MediaIInv'
<1>1. FilesAreSound /\ ClientsAreTyped /\ ItemIsSound(c) /\ KeptIsOfItsSource
  BY DEF MediaIInv
<1>2. UNCHANGED <<Files, hashes, memory, disk, Permits>>
  BY DEF M!Materialize, M!Encode, M!Encoded, M!files, M!caches, M!permits, Files, Permits
<1>3. HashesAreSound'
  BY <1>2 DEF MediaIInv, HashesAreSound, Identities, Bytes, Files
<1>4. CASE M!Materialize(c)
  <2>1. /\ doing[c] = "idle" /\ doing' = [doing EXCEPT ![c] = "encode"]
        /\ item' = [item EXCEPT ![c] = [id |-> <<named, bytes[named]>>, sha |-> bytes[named]]]
        /\ UNCHANGED <<variants, pinned, read>>
    BY <1>4 DEF M!Materialize, M!Goto, M!PathIdentity, M!Identity, M!caches
  <2>2. OnlyOf(c) /\ doing'[c] = "encode"
    BY <1>1, <2>1 DEF OnlyOf, ClientsAreTyped, Own, Materializing
  <2>3. item'[c] = [id |-> <<named, bytes[named]>>, sha |-> bytes[named]]
    BY <1>1, <2>1 DEF ClientsAreTyped
  <2>4. /\ <<named, bytes[named]>> \in Identities /\ bytes[named] \in Bytes
        /\ \A i \in 0..Overwrites : bytes[i] = bytes[named] => i = named
    BY <1>1, MediaAssumption DEF FilesAreSound, Identities, Bytes
  <2>5. UNCHANGED <<bytes, Identities, Bytes>>
    BY <1>2 DEF Files, Identities, Bytes
  <2>6. ItemIsSound(c)'
    BY <2>2, <2>3, <2>4, <2>5
    DEF ItemIsSound, Pinning, Responding, Decoding, Materializing, Trusting
  <2>7. KeptIsOfItsSource'
    BY <1>1, <1>2, <2>1 DEF KeptIsOfItsSource, M!KeptIsOfItsSource
  <2> QED
    BY <1>2, <1>3, <2>1, <2>2, <2>6, <2>7, QuietStep DEF Permits, Responding, Decoding
<1>5. CASE M!Encode(c)
  <2>1. doing[c] = "encode" /\ variants' = variants
    BY <1>5 DEF M!Encode, M!caches
  <2>2. KeptIsOfItsSource'
    BY <1>1, <1>2, <2>1 DEF KeptIsOfItsSource, M!KeptIsOfItsSource
  <2>3. CASE M!Done(c)
    BY <1>2, <1>3, <2>1, <2>2, <2>3, DoneIsSound, QuietStep DEF Permits, Responding, Decoding
  <2>4. CASE ~M!Done(c)
    <3>1. /\ doing' = [doing EXCEPT ![c] = "encoded"] /\ UNCHANGED <<item, pinned>>
          /\ read' = [read EXCEPT ![c] = bytes[named]]
      BY <1>5, <2>4 DEF M!Encode, M!Goto
    <3>2. OnlyOf(c) /\ doing'[c] = "encoded" /\ read'[c] = bytes[named]
      BY <1>1, <3>1 DEF OnlyOf, ClientsAreTyped, Own, Materializing
    <3>3. ItemIsSound(c)'
      BY <1>1, <1>2, <2>1, <3>1, <3>2
      DEF ItemIsSound, Pinning, Responding, Decoding, Materializing, Trusting, SamePath, Same,
          Files, Identities, Bytes
    <3> QED
      BY <1>2, <1>3, <2>1, <2>2, <3>2, <3>3, QuietStep DEF Permits, Responding, Decoding
  <2> QED
    BY <2>3, <2>4
<1>6. CASE M!Encoded(c)
  <2>1. doing[c] = "encoded" /\ M!Done(c)
    BY <1>6 DEF M!Encoded
  <2>2. bytes[named] = item[c].sha => read[c] = item[c].sha
    <3>1. item[c].sha = item[c].id[2] /\ named \in 0..Overwrites
      BY <1>1, <2>1, MediaAssumption DEF ItemIsSound, Trusting, Materializing, FilesAreSound
    <3> QED
      BY <1>1, <2>1, <3>1 DEF ItemIsSound, Materializing, SamePath, Same
  <2>3. KeptIsOfItsSource'
    BY <1>1, <1>2, <1>6, <2>2 DEF M!Encoded, KeptIsOfItsSource, M!KeptIsOfItsSource
  <2> QED
    BY <1>2, <1>3, <2>1, <2>3, DoneIsSound, QuietStep DEF Permits, Responding, Decoding
<1> QED
  BY <1>4, <1>5, <1>6

\* After a restart no client holds a permit.
LEMMA RestartKeeps ==
    ASSUME MediaIInv, M!Restart
    PROVE  MediaIInv'
<1>1. FilesAreSound /\ ClientsAreTyped
  BY DEF MediaIInv
<1> DEFINE Going(c) == doing[c] \in Materializing
<1>2. /\ UNCHANGED <<Files, disk, variants>> /\ memory' = {} /\ hashes' = {}
      /\ streams' = 0 /\ decoders' = 0 /\ dropped' = 0
      /\ doing' = [c \in Client |-> IF Going(c) THEN doing[c] ELSE "idle"]
      /\ item' = [c \in Client |-> IF Going(c) THEN item[c] ELSE None]
      /\ read' = [c \in Client |-> IF Going(c) THEN read[c] ELSE None]
      /\ pinned' = [c \in Client |-> None]
  BY DEF M!Restart, M!files, Files, Materializing
<1>3. FilesAreSound' /\ UNCHANGED <<Identities, Bytes>>
  BY <1>1, <1>2 DEF FilesAreSound, Files, Bytes, Identities
<1>4. ClientsAreTyped'
  BY <1>1, <1>2 DEF ClientsAreTyped
<1>5. ASSUME NEW c \in Client PROVE ItemIsSound(c)'
  <2>1. ItemIsSound(c)
    BY DEF MediaIInv
  <2>2. CASE Going(c)
    <3>1. doing'[c] = doing[c] /\ item'[c] = item[c] /\ read'[c] = read[c]
      BY <1>2, <2>2
    <3> QED
      BY <1>2, <1>3, <2>1, <2>2, <3>1
      DEF ItemIsSound, Pinning, Responding, Decoding, Materializing, Trusting, SamePath, Same, Files
  <2>3. CASE ~Going(c)
    <3>1. doing'[c] = "idle"
      BY <1>2, <2>3
    <3> QED
      BY <3>1 DEF ItemIsSound, Pinning, Responding, Decoding, Materializing, Trusting
  <2> QED
    BY <2>2, <2>3
<1>6. HashesAreSound' /\ KeptIsOfItsSource'
  BY <1>2 DEF MediaIInv, HashesAreSound, KeptIsOfItsSource, M!KeptIsOfItsSource
<1>7. Cardinality({c \in Client : doing'[c] \in Responding}) = 0
      /\ Cardinality({c \in Client : doing'[c] \in Decoding}) = 0
  <2>1. {c \in Client : doing'[c] \in Responding} = {} /\ {c \in Client : doing'[c] \in Decoding} = {}
    BY <1>2 DEF Materializing, Responding, Decoding
  <2> QED
    BY <2>1, FS_EmptySet
<1>8. Counted' /\ PermitsAreTyped'
  BY <1>2, <1>7 DEF Counted, PermitsAreTyped
<1>9. PermitsAreAccountedFor'
  BY <1>8, CountedPermits, PTL
<1> QED
  BY <1>3, <1>4, <1>5, <1>6, <1>8, <1>9 DEF MediaIInv

LEMMA MediaBegins == M!Init => MediaIInv
<1> SUFFICES ASSUME M!Init PROVE MediaIInv
  OBVIOUS
<1>1. /\ overwrites = 0 /\ named = 0 /\ bytes = [i \in 0..Overwrites |-> i]
      /\ hashes = {} /\ memory = {} /\ disk = {} /\ variants = {}
      /\ streams = 0 /\ decoders = 0 /\ dropped = 0
      /\ doing = [c \in Client |-> "idle"] /\ item = [c \in Client |-> None]
      /\ pinned = [c \in Client |-> None] /\ read = [c \in Client |-> None]
  BY DEF M!Init
<1>2. FilesAreSound
  BY <1>1, MediaAssumption DEF FilesAreSound, Bytes
<1>3. ClientsAreTyped /\ \A c \in Client : ItemIsSound(c)
  BY <1>1 DEF ClientsAreTyped, ItemIsSound, Pinning, Responding, Decoding, Materializing, Trusting
<1>4. HashesAreSound /\ KeptIsOfItsSource /\ PermitsAreTyped
  BY <1>1 DEF HashesAreSound, KeptIsOfItsSource, M!KeptIsOfItsSource, PermitsAreTyped
<1>5. {c \in Client : doing[c] \in Responding} = {} /\ {c \in Client : doing[c] \in Decoding} = {}
  BY <1>1 DEF Responding, Decoding
<1>6. Counted
  <2>1. Cardinality({c \in Client : doing[c] \in Responding}) = 0
        /\ Cardinality({c \in Client : doing[c] \in Decoding}) = 0
    BY <1>5, FS_EmptySet
  <2> QED
    BY <1>1, <2>1 DEF Counted
<1> QED
  BY <1>2, <1>3, <1>4, <1>6, CountedPermits DEF MediaIInv

LEMMA MediaKeeps == MediaIInv /\ [M!Next]_media => MediaIInv'
<1> SUFFICES ASSUME MediaIInv, [M!Next]_media PROVE MediaIInv'
  OBVIOUS
<1>1. CASE UNCHANGED media
  <2>1. UNCHANGED <<Files, Caches, Permits, Clients>>
    BY <1>1 DEF media, Files, Caches, Permits, Clients
  <2>2. FilesAreSound' /\ ClientsAreTyped'
    BY <2>1 DEF MediaIInv, FilesAreSound, ClientsAreTyped, Bytes, Files, Clients
  <2>3. ASSUME NEW c \in Client PROVE ItemIsSound(c)'
    <3>1. ItemIsSound(c)
      BY DEF MediaIInv
    <3> QED
      BY <2>1, <3>1 DEF ItemIsSound, Same, SamePath, Identities, Bytes, Files, Clients
  <2>4. HashesAreSound' /\ KeptIsOfItsSource' /\ PermitsAreTyped'
    BY <2>1 DEF MediaIInv, HashesAreSound, KeptIsOfItsSource, M!KeptIsOfItsSource, PermitsAreTyped,
                Identities, Bytes, Files, Caches, Permits
  <2>5. PermitsAreAccountedFor'
    BY <2>1 DEF MediaIInv, PermitsAreAccountedFor, M!PermitsAreAccountedFor, Permits, Clients
  <2> QED
    BY <2>2, <2>3, <2>4, <2>5 DEF MediaIInv
<1>2. CASE M!Overwrite \/ M!Replace \/ M!Restart
  BY <1>2, EditKeeps, RestartKeeps
<1>3. ASSUME NEW c \in Client,
             \/ M!Resolve(c) \/ M!Index(c) \/ M!Hash(c) \/ M!Indexed(c)
             \/ M!Preview(c) \/ M!Cached(c) \/ M!Decode(c) \/ M!Decoded(c)
             \/ M!Stream(c) \/ M!Streamed(c) \/ M!Drop(c)
             \/ M!Materialize(c) \/ M!Encode(c) \/ M!Encoded(c)
      PROVE  MediaIInv'
  BY <1>3, ResolveKeeps, OpenKeeps, HashKeeps, IndexedKeeps, CachedKeeps, DecodeKeeps,
     DecodedKeeps, StreamKeeps, MaterializeKeeps
<1> QED
  BY <1>1, <1>2, <1>3 DEF M!Next

\* media is the tuple that MediaAccess calls vars.
LEMMA MediaVariables == UNCHANGED media <=> UNCHANGED M!vars
  BY DEF media, M!vars, M!files, M!caches, M!permits

\* Files, clients, hashes, caches and permits of the media routes always agree,
\* for any clients, limits and edits (media_access.py, media_variants.py, api.py).
THEOREM MediaIsSound == M!Spec => []MediaIInv
<1>1. MediaIInv /\ [M!Next]_M!vars => MediaIInv'
  BY MediaKeeps, MediaVariables
<1> QED
  BY <1>1, MediaBegins, PTL DEF M!Spec

\* No hash, preview or variant is ever remembered for bytes it was not made of,
\* however the source is overwritten or replaced while it is hashed, decoded or
\* encoded (media_access.py: _hash, preview, variant).
THEOREM KeptIsAlwaysOfItsSource == M!Spec => []KeptIsOfItsSource
  BY MediaIsSound, PTL DEF MediaIInv

\* No permit of the streams or of the decoders is lost or returned twice: what is
\* out is with a response, with a decoder, or went with a response that was
\* dropped before its first byte (api.py, media_access.py).
THEOREM PermitsAreAlwaysAccountedFor == M!Spec => []PermitsAreAccountedFor
  BY MediaIsSound, PTL DEF MediaIInv

-----------------------------------------------------------------------------
(***************************************************************************)
(* Bootstrap.                                                              *)
(***************************************************************************)

Tagged == {"sidecar", "get"}
Resting == {"idle", "head", "check", "failed", "clean"}

\* A part is of one version that was served, and its sidecar has that version's
\* ETag or an older one's: the archive can change between HEAD and GET.
PartIsOfOne ==
    part # None =>
        /\ part \in Seq(Nat)
        /\ \A i, j \in DOMAIN part : part[i] = part[j]
        /\ \A i \in DOMAIN part :
            /\ part[i] <= served
            /\ strong => sidecar \in Nat /\ sidecar <= part[i]

\* HEAD came after the blocks of the part.
TagIsRecent ==
    stage = "prepare" =>
        IF strong
        THEN /\ tag \in Nat /\ tag <= served
             /\ part # None => \A i \in DOMAIN part : part[i] <= tag
        ELSE tag = None

\* What was not dropped is of the version of the tag.
PartIsOfItsTag ==
    stage \in Tagged =>
        IF strong
        THEN /\ tag \in Nat /\ tag <= served
             /\ part # None => \A i \in DOMAIN part : part[i] = tag
             /\ stage = "get" => sidecar = tag
        ELSE part = None

\* What is appended is of the version of the part.
ResponseIsOfThePart ==
    stage = "read" =>
        /\ part \in Seq(Nat) /\ from \in 0..served
        /\ \A i \in DOMAIN part : part[i] = from
        /\ strong => sidecar \in Nat /\ sidecar <= from

ExtractIsPinned ==
    /\ stage = "extract" => part = B!Whole(Pinned)
    /\ stage = "receipt" => extracted = [of |-> B!Whole(Pinned), receipt |-> FALSE]
    /\ stage = "publish" => extracted = [of |-> B!Whole(Pinned), receipt |-> TRUE]
    /\ published \in {None, B!Whole(Pinned), B!Whole(None)}

BootIInv ==
    /\ served \in Nat /\ strong \in BOOLEAN
    /\ PartIsOfOne
    /\ TagIsRecent
    /\ PartIsOfItsTag
    /\ ResponseIsOfThePart
    /\ ExtractIsPinned

LEMMA BootBegins == B!Init => BootIInv
  BY DEF B!Init, BootIInv, PartIsOfOne, TagIsRecent, PartIsOfItsTag, ResponseIsOfThePart,
         ExtractIsPinned, Tagged

\* A step that leaves the stage quiet: nothing but the part is known there.
LEMMA QuietKeeps ==
    ASSUME BootIInv, served' \in Nat, served <= served', strong' = strong,
           \/ part' = part /\ sidecar' = sidecar
           \/ part' = None,
           stage' \in Resting, published' \in {None, B!Whole(Pinned), B!Whole(None)}
    PROVE  BootIInv'
<1>1. PartIsOfOne'
  <2>1. CASE part' = part /\ sidecar' = sidecar
    BY <2>1 DEF BootIInv, PartIsOfOne
  <2>2. CASE part' = None
    BY <2>2 DEF PartIsOfOne
  <2> QED
    BY <2>1, <2>2
<1>2. TagIsRecent' /\ PartIsOfItsTag' /\ ResponseIsOfThePart' /\ ExtractIsPinned'
  BY DEF TagIsRecent, PartIsOfItsTag, ResponseIsOfThePart, ExtractIsPinned, Tagged, Resting, B!Whole
<1> QED
  BY <1>1, <1>2 DEF BootIInv

LEMMA ChangeKeeps ==
    ASSUME BootIInv, B!Change
    PROVE  BootIInv'
<1>1. /\ served \in Nat /\ served' = served + 1
      /\ UNCHANGED <<strong, part, sidecar, extracted, published, stage, tag, from>>
  BY DEF B!Change, B!disk, BootIInv
<1>2. PartIsOfOne' /\ TagIsRecent'
  BY <1>1 DEF BootIInv, PartIsOfOne, TagIsRecent
<1>3. PartIsOfItsTag' /\ ResponseIsOfThePart'
  BY <1>1 DEF BootIInv, PartIsOfOne, PartIsOfItsTag, ResponseIsOfThePart, Tagged
<1>4. ExtractIsPinned'
  BY <1>1 DEF BootIInv, ExtractIsPinned, B!Whole
<1> QED
  BY <1>1, <1>2, <1>3, <1>4 DEF BootIInv

\* The actions that come to rest, or rest.
LEMMA RestingKeeps ==
    ASSUME BootIInv,
           \/ B!Damage \/ B!Break \/ B!Clean \/ B!Failed \/ B!Kill \/ B!Publish
           \/ \E repair \in BOOLEAN : B!Call(repair)
           \/ B!Check /\ part # B!Whole(Pinned)
           \/ B!Read /\ ~(Len(part) < Size)
    PROVE  BootIInv'
<1> USE DEF Resting
<1>1. served \in Nat /\ published \in {None, B!Whole(Pinned), B!Whole(None)}
  BY DEF BootIInv, ExtractIsPinned
<1>2. CASE B!Damage
  BY <1>1, <1>2, QuietKeeps DEF B!Damage, B!publisher
<1>3. CASE B!Break \/ B!Failed \/ B!Kill
  BY <1>1, <1>3, QuietKeeps DEF B!Break, B!Failed, B!Kill, B!publisher, B!disk
<1>4. CASE B!Clean
  BY <1>1, <1>4, QuietKeeps DEF B!Clean, B!publisher
<1>5. CASE B!Publish
  <2>1. extracted.of = B!Whole(Pinned)
    BY <1>5 DEF B!Publish, BootIInv, ExtractIsPinned
  <2> QED
    BY <1>1, <1>5, <2>1, QuietKeeps DEF B!Publish, B!publisher
<1>6. CASE \E repair \in BOOLEAN : B!Call(repair)
  BY <1>1, <1>6, QuietKeeps DEF B!Call, B!publisher
<1>7. CASE B!Check /\ part # B!Whole(Pinned)
  BY <1>1, <1>7, QuietKeeps DEF B!Check, B!publisher
<1>8. CASE B!Read /\ ~(Len(part) < Size)
  BY <1>1, <1>8, QuietKeeps DEF B!Read, B!publisher
<1> QED
  BY <1>2, <1>3, <1>4, <1>5, <1>6, <1>7, <1>8

LEMMA AskHeadKeeps ==
    ASSUME BootIInv, B!AskHead
    PROVE  BootIInv'
<1>1. /\ served \in Nat /\ stage' = "prepare" /\ tag' = IF strong THEN served ELSE None
      /\ UNCHANGED <<served, strong, part, sidecar, extracted, published, from>>
  BY DEF B!AskHead, B!ETag, B!disk, B!publisher, BootIInv
<1>2. PartIsOfOne' /\ TagIsRecent'
  BY <1>1 DEF BootIInv, PartIsOfOne, TagIsRecent
<1>3. PartIsOfItsTag' /\ ResponseIsOfThePart' /\ ExtractIsPinned'
  BY <1>1 DEF BootIInv, PartIsOfItsTag, ResponseIsOfThePart, ExtractIsPinned, Tagged, B!Whole
<1> QED
  BY <1>1, <1>2, <1>3 DEF BootIInv

\* The sidecar is not newer than the part, and the tag is not older.
LEMMA PrepareKeeps ==
    ASSUME BootIInv, B!Prepare
    PROVE  BootIInv'
<1>1. /\ served \in Nat /\ strong \in BOOLEAN /\ stage = "prepare" /\ stage' = "sidecar"
      /\ \/ part' = part /\ part # None /\ sidecar = tag /\ tag # None
         \/ part' = None
      /\ UNCHANGED <<served, strong, sidecar, extracted, published, tag, from>>
  BY DEF B!Prepare, B!Resumable, B!publisher, BootIInv
<1>2. PartIsOfOne' /\ TagIsRecent'
  BY <1>1 DEF BootIInv, PartIsOfOne, TagIsRecent
<1>3. PartIsOfItsTag'
  BY <1>1 DEF BootIInv, PartIsOfOne, TagIsRecent, PartIsOfItsTag, Tagged
<1>4. ResponseIsOfThePart' /\ ExtractIsPinned'
  BY <1>1 DEF BootIInv, ResponseIsOfThePart, ExtractIsPinned, B!Whole
<1> QED
  BY <1>1, <1>2, <1>3, <1>4 DEF BootIInv

LEMMA SidecarKeeps ==
    ASSUME BootIInv, B!Sidecar
    PROVE  BootIInv'
<1>1. /\ served \in Nat /\ strong \in BOOLEAN /\ stage = "sidecar"
      /\ sidecar' = tag /\ stage' \in {"check", "get"}
      /\ UNCHANGED <<served, strong, part, extracted, published, tag, from>>
  BY DEF B!Sidecar, B!publisher, BootIInv
<1>2. PartIsOfOne' /\ TagIsRecent'
  BY <1>1 DEF BootIInv, PartIsOfOne, TagIsRecent, PartIsOfItsTag, Tagged
<1>3. PartIsOfItsTag'
  BY <1>1 DEF BootIInv, PartIsOfItsTag, Tagged
<1>4. ResponseIsOfThePart' /\ ExtractIsPinned'
  BY <1>1 DEF BootIInv, ResponseIsOfThePart, ExtractIsPinned, B!Whole
<1> QED
  BY <1>1, <1>2, <1>3, <1>4 DEF BootIInv

\* The publisher answers a range with the version of its tag only.
LEMMA GetKeeps ==
    ASSUME BootIInv, B!Get
    PROVE  BootIInv'
<1>1. /\ served \in Nat /\ strong \in BOOLEAN /\ stage = "get"
      /\ UNCHANGED <<served, strong, sidecar, extracted, published, tag>>
  BY DEF B!Get, B!publisher, BootIInv
<1>2. CASE stage' = "failed" /\ UNCHANGED part
  BY <1>1, <1>2, QuietKeeps DEF Resting, BootIInv, ExtractIsPinned
<1>3. CASE ~(stage' = "failed" /\ UNCHANGED part)
  <2>1. /\ stage' = "read" /\ from' = served /\ part' = IF part = None THEN <<>> ELSE part
        /\ part = None \/ part = <<>> \/ B!ETag = tag
    BY <1>3 DEF B!Get
  <2>2. part' \in Seq(Nat) /\ \A i \in DOMAIN part' : part'[i] = served
    <3>1. CASE part = None \/ part = <<>>
      <4>1. part' = <<>>
        BY <2>1, <3>1
      <4> QED
        BY <4>1
    <3>2. CASE part # None /\ part # <<>>
      BY <1>1, <2>1, <3>2 DEF BootIInv, PartIsOfOne, PartIsOfItsTag, Tagged, B!ETag
    <3> QED
      BY <3>1, <3>2
  <2>3. strong => sidecar \in Nat /\ sidecar <= served
    BY <1>1 DEF BootIInv, PartIsOfItsTag, Tagged
  <2>4. PartIsOfOne' /\ TagIsRecent' /\ PartIsOfItsTag' /\ ResponseIsOfThePart'
    BY <1>1, <2>1, <2>2, <2>3 DEF PartIsOfOne, TagIsRecent, PartIsOfItsTag, ResponseIsOfThePart, Tagged
  <2>5. ExtractIsPinned'
    BY <1>1, <2>1 DEF BootIInv, ExtractIsPinned, B!Whole
  <2> QED
    BY <1>1, <2>4, <2>5 DEF BootIInv
<1> QED
  BY <1>2, <1>3

LEMMA ReadKeeps ==
    ASSUME BootIInv, B!Read, Len(part) < Size
    PROVE  BootIInv'
<1>1. /\ served \in Nat /\ strong \in BOOLEAN /\ stage = "read" /\ stage' = "read"
      /\ part' = Append(part, from)
      /\ UNCHANGED <<served, strong, sidecar, extracted, published, tag, from>>
  BY DEF B!Read, B!publisher, BootIInv
<1>2. /\ part \in Seq(Nat) /\ from \in 0..served /\ \A i \in DOMAIN part : part[i] = from
      /\ strong => sidecar \in Nat /\ sidecar <= from
  BY <1>1 DEF BootIInv, ResponseIsOfThePart
<1>3. part' \in Seq(Nat) /\ \A i \in DOMAIN part' : part'[i] = from
  BY <1>1, <1>2
<1>4. PartIsOfOne' /\ TagIsRecent' /\ PartIsOfItsTag' /\ ResponseIsOfThePart'
  BY <1>1, <1>2, <1>3 DEF PartIsOfOne, TagIsRecent, PartIsOfItsTag, ResponseIsOfThePart, Tagged
<1>5. ExtractIsPinned'
  BY <1>1 DEF BootIInv, ExtractIsPinned, B!Whole
<1> QED
  BY <1>1, <1>4, <1>5 DEF BootIInv

LEMMA PublicationKeeps ==
    ASSUME BootIInv,
           B!Extract \/ B!Receipt \/ (B!Check /\ part = B!Whole(Pinned))
    PROVE  BootIInv'
<1>1. /\ served \in Nat /\ strong \in BOOLEAN /\ stage' \in {"extract", "receipt", "publish"}
      /\ UNCHANGED <<served, strong, part, sidecar, published, tag, from>>
  BY DEF B!Extract, B!Receipt, B!Check, B!publisher, BootIInv
<1>2. PartIsOfOne'
  BY <1>1 DEF BootIInv, PartIsOfOne
<1>3. TagIsRecent' /\ PartIsOfItsTag' /\ ResponseIsOfThePart'
  BY <1>1 DEF TagIsRecent, PartIsOfItsTag, ResponseIsOfThePart, Tagged
<1>4. ExtractIsPinned'
  <2>1. published' \in {None, B!Whole(Pinned), B!Whole(None)}'
    BY <1>1 DEF BootIInv, ExtractIsPinned, B!Whole
  <2>2. CASE B!Check /\ part = B!Whole(Pinned)
    BY <1>1, <2>1, <2>2 DEF B!Check, ExtractIsPinned, B!Whole
  <2>3. CASE B!Extract
    BY <1>1, <2>1, <2>3 DEF B!Extract, BootIInv, ExtractIsPinned, B!Whole
  <2>4. CASE B!Receipt
    <3>1. extracted' = [of |-> B!Whole(Pinned), receipt |-> TRUE] /\ stage' = "publish"
      <4>1. extracted = [of |-> B!Whole(Pinned), receipt |-> FALSE]
        BY <2>4 DEF B!Receipt, BootIInv, ExtractIsPinned
      <4>2. extracted' = [extracted EXCEPT !.receipt = TRUE] /\ stage' = "publish"
        BY <2>4 DEF B!Receipt
      <4> QED
        BY <4>1, <4>2
    <3> QED
      BY <2>1, <3>1 DEF ExtractIsPinned, B!Whole
  <2> QED
    BY <2>2, <2>3, <2>4
<1> QED
  BY <1>1, <1>2, <1>3, <1>4 DEF BootIInv

LEMMA BootKeeps == BootIInv /\ [B!Next]_bootstrap => BootIInv'
<1> SUFFICES ASSUME BootIInv, [B!Next]_bootstrap PROVE BootIInv'
  OBVIOUS
<1>1. CASE UNCHANGED bootstrap
  BY <1>1 DEF bootstrap, BootIInv, PartIsOfOne, TagIsRecent, PartIsOfItsTag, ResponseIsOfThePart,
              ExtractIsPinned, B!Whole
<1>2. CASE B!Next
  BY <1>2, RestingKeeps, ChangeKeeps, AskHeadKeeps, PrepareKeeps, SidecarKeeps, GetKeeps, ReadKeeps,
     PublicationKeeps
  DEF B!Next
<1> QED
  BY <1>1, <1>2

\* Part, sidecar, ETag and extraction of the bootstrap always agree, for any
\* writer, archive size and number of breaks (dataset_bootstrap.py: _download).
THEOREM BootIsSound == B!Spec => []BootIInv
<1>1. BootIInv /\ [B!Next]_B!vars => BootIInv'
  BY BootKeeps DEF bootstrap, B!vars
<1> QED
  BY <1>1, BootBegins, PTL DEF B!Spec

\* No resumed download mixes two versions of the archive, and what is published
\* is the pinned one, whole (dataset_bootstrap.py: _download, bootstrap).
THEOREM ArchiveIsAlwaysOneVersion == B!Spec => []ArchiveIsOneVersion
<1>1. BootIInv => ArchiveIsOneVersion
  BY DEF BootIInv, PartIsOfOne, ExtractIsPinned, ArchiveIsOneVersion, B!ArchiveIsOneVersion
<1> QED
  BY <1>1, BootIsSound, PTL

-----------------------------------------------------------------------------
(***************************************************************************)
(* Naturals and recursive functions of them.                               *)
(***************************************************************************)

LEMMA Least ==
    ASSUME NEW T \in SUBSET Nat, T # {}
    PROVE  \E x \in T : \A y \in T : x <= y
<1> DEFINE R == {ss \in Nat \X Nat : ss[1] < ss[2]}
<1>1. IsWellFoundedOn(R, Nat)
  BY NatLessThanWellFounded, Zenon DEF OpToRel
<1> HIDE DEF R
<1>2. PICK x \in T : \A y \in T : <<y, x>> \notin R
  BY <1>1, WFMin
<1>3. \A y \in T : ~(y < x)
  BY <1>2 DEF R
<1> QED
  BY <1>2, <1>3

LEMMA SetInduction ==
    ASSUME NEW T \in SUBSET Nat, 0 \in T, \A n \in T : n + 1 \in T
    PROVE  T = Nat
<1>1. SUFFICES ASSUME Nat \ T # {} PROVE FALSE
  OBVIOUS
<1>2. PICK x \in Nat \ T : \A y \in Nat \ T : x <= y
  BY <1>1, Least
<1>3. x # 0 /\ x - 1 \in Nat /\ x - 1 \in T
  BY <1>2
<1> QED
  BY <1>2, <1>3

\* The functions on 0..n that begin as a recursion does.
Begun(V_, init, step_, n) ==
    {h \in [0..n -> V_] : h[0] = init /\ \A i \in 1..n : h[i] = step_[<<i, h[i - 1]>>]}

IsComputed(V_, init, step_) ==
    \E g \in [Nat -> V_] :
        g[0] = init /\ \A n \in Nat : g[n + 1] = step_[<<n + 1, g[n]>>]

\* A recursion over the naturals has a value at each of them.
LEMMA Recursion ==
    ASSUME NEW V_, NEW init \in V_, NEW step_ \in [Nat \X V_ -> V_]
    PROVE  IsComputed(V_, init, step_)
<1> DEFINE H(n) == Begun(V_, init, step_, n)
<1> DEFINE T == {n \in Nat : H(n) # {}}
<1>1. T = Nat
  <2>1. [i \in 0..0 |-> init] \in H(0)
    BY DEF Begun
  <2>2. 0 \in T
    BY <2>1
  <2>3. ASSUME NEW n \in T PROVE n + 1 \in T
    <3>1. PICK h \in H(n) : TRUE
      OBVIOUS
    <3> DEFINE k == [i \in 0..(n + 1) |-> IF i <= n THEN h[i] ELSE step_[<<n + 1, h[n]>>]]
    <3>2. h \in [0..n -> V_] /\ h[0] = init /\ \A i \in 1..n : h[i] = step_[<<i, h[i - 1]>>]
      BY <3>1 DEF Begun
    <3>3. <<n + 1, h[n]>> \in Nat \X V_
      BY <3>2
    <3>4. k \in [0..(n + 1) -> V_] /\ k[0] = init
      BY <3>2, <3>3
    <3>5. ASSUME NEW i \in 1..(n + 1) PROVE k[i] = step_[<<i, k[i - 1]>>]
      <4>1. i - 1 \in 0..n /\ k[i - 1] = h[i - 1]
        OBVIOUS
      <4>2. CASE i \in 1..n
        BY <3>2, <4>1, <4>2
      <4>3. CASE i = n + 1
        <5>1. n + 1 \in 0..(n + 1) /\ ~(n + 1 <= n)
          OBVIOUS
        <5>2. k[n + 1] = step_[<<n + 1, h[n]>>]
          BY <5>1
        <5>3. i - 1 = n
          BY <4>3
        <5> HIDE DEF k
        <5> QED
          BY <4>1, <4>3, <5>2, <5>3
      <4> QED
        BY <4>2, <4>3
    <3>6. k \in H(n + 1)
      BY <3>4, <3>5 DEF Begun
    <3> QED
      BY <3>6
  <2> QED
    BY <2>2, <2>3, SetInduction
<1>2. ASSUME NEW m \in Nat, NEW n \in Nat, m <= n, NEW h \in H(m), NEW k \in H(n)
      PROVE  h[m] = k[m]
  <2> DEFINE S == {i \in Nat : i <= m => h[i] = k[i]}
  <2>1. 0 \in S
    BY <1>2 DEF Begun
  <2>2. ASSUME NEW i \in S PROVE i + 1 \in S
    <3>1. SUFFICES ASSUME i + 1 <= m PROVE h[i + 1] = k[i + 1]
      OBVIOUS
    <3>2. h[i] = k[i]
      BY <3>1
    <3>3. i + 1 \in 1..m /\ i + 1 \in 1..n /\ (i + 1) - 1 = i
      BY <3>1, <1>2
    <3>4. h[i + 1] = step_[<<i + 1, h[(i + 1) - 1]>>] /\ k[i + 1] = step_[<<i + 1, k[(i + 1) - 1]>>]
      BY <3>3 DEF Begun
    <3> QED
      BY <3>2, <3>3, <3>4
  <2>3. S = Nat
    BY <2>1, <2>2, SetInduction
  <2> QED
    BY <2>3
<1> DEFINE g == [n \in Nat |-> (CHOOSE h : h \in H(n))[n]]
<1>3. ASSUME NEW n \in Nat PROVE (CHOOSE h : h \in H(n)) \in H(n)
  BY <1>1
<1>4. ASSUME NEW n \in Nat PROVE \E h \in H(n) : g[n] = h[n]
  BY <1>3
<1>5. g \in [Nat -> V_]
  BY <1>4 DEF Begun
<1>6. g[0] = init
  BY <1>4 DEF Begun
<1>7. ASSUME NEW n \in Nat PROVE g[n + 1] = step_[<<n + 1, g[n]>>]
  <2>1. PICK h \in H(n) : g[n] = h[n]
    BY <1>4
  <2>2. PICK k \in H(n + 1) : g[n + 1] = k[n + 1]
    BY <1>4
  <2>3. h[n] = k[n]
    BY <1>2
  <2>4. k[n + 1] = step_[<<n + 1, k[(n + 1) - 1]>>] /\ (n + 1) - 1 = n
    BY DEF Begun
  <2> QED
    BY <2>1, <2>2, <2>3, <2>4
<1> QED
  BY <1>5, <1>6, <1>7 DEF IsComputed

-----------------------------------------------------------------------------
(***************************************************************************)
(* ObservationRun.                                                         *)
(***************************************************************************)

LEMMA Joined ==
    ASSUME NEW E, NEW a \in Seq(E), NEW b \in Seq(E), NEW s, s = a \o b
    PROVE  /\ s \in Seq(E) /\ Len(a) \in Nat /\ Len(b) \in Nat /\ Len(s) = Len(a) + Len(b)
           /\ DOMAIN s = 1..(Len(a) + Len(b))
           /\ \A k \in 1..Len(a) : s[k] = a[k]
           /\ \A k \in 1..Len(b) : s[Len(a) + k] = b[k]
  OBVIOUS

LEMMA Appended ==
    ASSUME NEW E, NEW a \in Seq(E), NEW e \in E, NEW s, s = Append(a, e)
    PROVE  /\ s \in Seq(E) /\ Len(a) \in Nat /\ Len(s) = Len(a) + 1
           /\ DOMAIN s = 1..(Len(a) + 1)
           /\ \A k \in 1..Len(a) : s[k] = a[k]
           /\ s[Len(a) + 1] = e
  OBVIOUS

LEMMA SameSequence ==
    ASSUME NEW E, NEW s \in Seq(E), NEW t \in Seq(E), Len(s) = Len(t),
           \A k \in 1..Len(s) : s[k] = t[k]
    PROVE  s = t
  BY SeqEqual

LEMMA Grown ==
    ASSUME NEW E, NEW a \in Seq(E), NEW b \in Seq(E), NEW e \in E
    PROVE  Append(a \o b, e) = a \o Append(b, e)
<1>1. PICK c : c = Append(b, e)
  OBVIOUS
<1>2. PICK s : s = a \o b
  OBVIOUS
<1>3. PICK u : u = Append(s, e)
  OBVIOUS
<1>4. PICK t : t = a \o c
  OBVIOUS
<1>5. /\ c \in Seq(E) /\ Len(c) = Len(b) + 1
      /\ \A k \in 1..Len(b) : c[k] = b[k]
      /\ c[Len(b) + 1] = e
  BY <1>1, Appended
<1>6. /\ s \in Seq(E) /\ Len(a) \in Nat /\ Len(b) \in Nat /\ Len(s) = Len(a) + Len(b)
      /\ \A k \in 1..Len(a) : s[k] = a[k]
      /\ \A k \in 1..Len(b) : s[Len(a) + k] = b[k]
  BY <1>2, Joined
<1>7. /\ u \in Seq(E) /\ Len(u) = Len(s) + 1
      /\ \A k \in 1..Len(s) : u[k] = s[k]
      /\ u[Len(s) + 1] = e
  <2>1. s \in Seq(E)
    BY <1>6
  <2> QED
    BY <1>3, <2>1, Appended
<1>8. /\ t \in Seq(E) /\ Len(t) = Len(a) + Len(c)
      /\ \A k \in 1..Len(a) : t[k] = a[k]
      /\ \A k \in 1..Len(c) : t[Len(a) + k] = c[k]
  <2>1. c \in Seq(E)
    BY <1>5
  <2> QED
    BY <1>4, <2>1, Joined
<1>9. ASSUME NEW k \in 1..Len(u) PROVE u[k] = t[k]
  <2>1. CASE k \in 1..Len(a)
    BY <1>6, <1>7, <1>8, <2>1
  <2>2. CASE k \notin 1..Len(a)
    <3>1. PICK j \in 1..(Len(b) + 1) : k = Len(a) + j
      <4>1. k - Len(a) \in 1..(Len(b) + 1) /\ k = Len(a) + (k - Len(a))
        BY <1>6, <1>7, <2>2
      <4> QED
        BY <4>1
    <3>2. t[k] = c[j]
      BY <1>5, <1>8, <3>1
    <3>3. CASE j = Len(b) + 1
      <4>1. k = Len(s) + 1
        BY <1>6, <3>1, <3>3
      <4> QED
        BY <1>5, <1>7, <3>2, <3>3, <4>1
    <3>4. CASE j # Len(b) + 1
      <4>1. j \in 1..Len(b) /\ k \in 1..Len(s)
        BY <1>6, <3>1, <3>4
      <4>2. u[k] = s[k] /\ s[k] = b[j] /\ c[j] = b[j]
        BY <1>5, <1>6, <1>7, <3>1, <4>1
      <4> QED
        BY <3>2, <4>2
    <3> QED
      BY <3>3, <3>4
  <2> QED
    BY <2>1, <2>2
<1>10. Len(u) = Len(t)
  BY <1>5, <1>6, <1>7, <1>8
<1>11. u = t
  BY <1>7, <1>8, <1>9, <1>10, SameSequence
<1> QED
  BY <1>1, <1>2, <1>3, <1>4, <1>11

Track == Seq(Nat \X Nat)

\* The first n frames of window i.
Block(i, n) == [k \in 1..n |-> <<i, k>>]

LEMMA BlockIsTrack ==
    ASSUME NEW i \in Nat, NEW n \in Nat
    PROVE  /\ Block(i, n) \in Track /\ Len(Block(i, n)) = n
           /\ \A k \in 1..n : Block(i, n)[k] = <<i, k>>
  BY DEF Block, Track

LEMMA JoinIsTrack ==
    ASSUME NEW s \in Track, NEW t \in Track
    PROVE  s \o t \in Track
  BY DEF Track

LEMMA WholeUnfolds ==
    /\ V!Whole[0] = <<>>
    /\ \A i \in Nat : V!Whole[i] \in Track
    /\ \A i \in Nat : V!Whole[i + 1] = V!Whole[i] \o Block(i + 1, Frames)
<1> DEFINE F(f) == [i \in Nat |-> IF i = 0 THEN <<>> ELSE V!Records(i, f[i - 1])]
<1> DEFINE more == [x \in Nat \X Track |-> x[2] \o Block(x[1], Frames)]
<1>1. Frames \in Nat
  BY ObservationAssumption DEF WindowsAssumption
<1>2. more \in [Nat \X Track -> Track]
  <2>1. ASSUME NEW x \in Nat \X Track PROVE x[2] \o Block(x[1], Frames) \in Track
    BY <1>1, BlockIsTrack DEF Track
  <2> QED
    BY <2>1
<1>3. <<>> \in Track
  BY DEF Track
<1> DEFINE none == <<>>
<1>4. \A i \in Nat, s \in Track : more[<<i, s>>] = s \o Block(i, Frames)
  OBVIOUS
<1> HIDE DEF more
<1>5. PICK g \in [Nat -> Track] : g[0] = none /\ \A n \in Nat : g[n + 1] = more[<<n + 1, g[n]>>]
  <2>1. none \in Track
    BY <1>3
  <2> HIDE DEF none
  <2>2. IsComputed(Track, none, more)
    BY <1>2, <2>1, Recursion
  <2> QED
    BY <2>2 DEF IsComputed
<1>6. ASSUME NEW n \in Nat PROVE g[n + 1] = g[n] \o Block(n + 1, Frames)
  <2>1. g[n + 1] = more[<<n + 1, g[n]>>] /\ g[n] \in Track /\ n + 1 \in Nat
    BY <1>5
  <2> QED
    BY <1>4, <2>1
<1>7. ASSUME NEW i \in Nat
      PROVE  g[i] = IF i = 0 THEN <<>> ELSE V!Records(i, g[i - 1])
  <2>1. CASE i = 0
    BY <1>5, <2>1
  <2>2. CASE i # 0
    <3>1. i - 1 \in Nat /\ (i - 1) + 1 = i
      BY <2>2
    <3>2. g[i] = g[i - 1] \o Block(i, Frames)
      BY <1>6, <3>1
    <3> QED
      BY <2>2, <3>2 DEF V!Records, V!Frame, Block
  <2> QED
    BY <2>1, <2>2
<1>8. g = F(g)
  BY <1>5, <1>7
<1>9. V!Whole = CHOOSE f : f = F(f)
  BY DEF V!Whole
<1>10. V!Whole = F(V!Whole)
  BY <1>8, <1>9
<1>11. ASSUME NEW i \in Nat
       PROVE  V!Whole[i] = IF i = 0 THEN <<>> ELSE V!Whole[i - 1] \o Block(i, Frames)
  BY <1>10 DEF V!Records, V!Frame, Block
<1>12. V!Whole[0] = <<>>
  BY <1>11
<1>13. ASSUME NEW i \in Nat PROVE V!Whole[i + 1] = V!Whole[i] \o Block(i + 1, Frames)
  <2> DEFINE n == i + 1
  <2>1. n \in Nat /\ n # 0 /\ n - 1 = i
    OBVIOUS
  <2> HIDE DEF n
  <2>2. V!Whole[n] = V!Whole[n - 1] \o Block(n, Frames)
    BY <1>11, <2>1
  <2> QED
    BY <2>1, <2>2 DEF n
<1> DEFINE T == {i \in Nat : V!Whole[i] \in Track}
<1>14. T = Nat
  <2>1. 0 \in T
    BY <1>3, <1>12
  <2>2. ASSUME NEW i \in T PROVE i + 1 \in T
    <3>1. V!Whole[i] \in Track /\ Block(i + 1, Frames) \in Track
      BY <1>1, BlockIsTrack
    <3>2. V!Whole[i] \o Block(i + 1, Frames) \in Track
      BY <3>1, JoinIsTrack
    <3>3. V!Whole[i + 1] = V!Whole[i] \o Block(i + 1, Frames)
      BY <1>13
    <3>4. i + 1 \in Nat /\ V!Whole[i + 1] \in Track
      BY <3>2, <3>3
    <3> QED
      BY <3>4
  <2> QED
    BY <2>1, <2>2, SetInduction
<1> QED
  BY <1>12, <1>13, <1>14

\* The frames of window i are those of a run's first windows.
LEMMA FramesArePast ==
    ASSUME NEW i \in Nat
    PROVE  \A k \in 1..Len(V!Whole[i]) : V!Whole[i][k][1] \in 0..i
<1> DEFINE T == {n \in Nat : \A k \in 1..Len(V!Whole[n]) : V!Whole[n][k][1] \in 0..n}
<1>1. 0 \in T
  BY WholeUnfolds
<1>2. ASSUME NEW n \in T PROVE n + 1 \in T
  <2>1. PICK a \in Track : a = V!Whole[n] /\ \A k \in 1..Len(a) : a[k][1] \in 0..n
    BY WholeUnfolds
  <2>2. PICK b \in Track : b = Block(n + 1, Frames) /\ \A k \in 1..Len(b) : b[k][1] = n + 1
    <3>1. Frames \in Nat
      BY ObservationAssumption DEF WindowsAssumption
    <3> QED
      BY <3>1, BlockIsTrack
  <2>3. PICK s : s = V!Whole[n + 1]
    OBVIOUS
  <2>4. s = a \o b
    BY <2>1, <2>2, <2>3, WholeUnfolds
  <2>5. /\ Len(a) \in Nat /\ Len(b) \in Nat /\ Len(s) = Len(a) + Len(b)
        /\ \A k \in 1..Len(a) : s[k] = a[k]
        /\ \A k \in 1..Len(b) : s[Len(a) + k] = b[k]
    BY <2>4, Joined DEF Track
  <2>6. ASSUME NEW k \in 1..Len(s) PROVE s[k][1] \in 0..(n + 1)
    <3>1. CASE k \in 1..Len(a)
      <4>1. s[k] = a[k] /\ a[k][1] \in 0..n
        BY <2>1, <2>5, <3>1
      <4> QED
        BY <4>1
    <3>2. CASE k \notin 1..Len(a)
      <4>1. k - Len(a) \in 1..Len(b) /\ k = Len(a) + (k - Len(a))
        BY <2>5, <3>2
      <4>2. s[k] = b[k - Len(a)] /\ b[k - Len(a)][1] = n + 1
        BY <2>2, <2>5, <4>1
      <4> QED
        BY <4>2
    <3> QED
      BY <3>1, <3>2
  <2> QED
    BY <2>3, <2>6
<1>3. T = Nat
  BY <1>1, <1>2, SetInduction
<1> QED
  BY <1>3

LEMMA BlockGrows ==
    ASSUME NEW i \in Nat, NEW n \in Nat
    PROVE  Append(Block(i, n), <<i, n + 1>>) = Block(i, n + 1)
<1>1. PICK e \in Nat \X Nat : e = <<i, n + 1>>
  <2>1. PICK m \in Nat : m = n + 1
    OBVIOUS
  <2>2. <<i, m>> \in Nat \X Nat
    OBVIOUS
  <2> QED
    BY <2>1, <2>2
<1>2. PICK b \in Track : b = Block(i, n) /\ Len(b) = n /\ \A k \in 1..n : b[k] = <<i, k>>
  BY BlockIsTrack
<1>3. PICK t \in Track : t = Block(i, n + 1) /\ Len(t) = n + 1 /\ \A k \in 1..(n + 1) : t[k] = <<i, k>>
  BY BlockIsTrack, n + 1 \in Nat
<1>4. PICK s : s = Append(b, e)
  OBVIOUS
<1>5. s \in Track /\ Len(s) = n + 1 /\ (\A k \in 1..n : s[k] = b[k]) /\ s[n + 1] = e
  BY <1>2, <1>4, Appended DEF Track
<1>6. ASSUME NEW k \in 1..(n + 1) PROVE s[k] = t[k]
  <2>1. CASE k = n + 1
    BY <1>1, <1>3, <1>5, <2>1
  <2>2. CASE k # n + 1
    <3>1. k \in 1..n
      BY <2>2
    <3> QED
      BY <1>2, <1>3, <1>5, <3>1
  <2> QED
    BY <2>1, <2>2
<1>7. s = t
  BY <1>3, <1>5, <1>6, SameSequence DEF Track
<1> QED
  BY <1>1, <1>2, <1>3, <1>4, <1>7

\* What Infer reads off a tracker in the middle of window i.
LEMMA SeenAreCounted ==
    ASSUME NEW i \in Nat, i # 0, NEW n \in Nat, NEW s, s = V!Whole[i - 1] \o Block(i, n)
    PROVE  /\ \A K : (\A k : k \in K <=> k \in DOMAIN s /\ s[k][1] = i) => V!Cardinality(K) = n
           /\ Append(s, <<i, n + 1>>) = V!Whole[i - 1] \o Block(i, n + 1)
<1>1. PICK a \in Track : a = V!Whole[i - 1] /\ \A k \in 1..Len(a) : a[k][1] \in 0..(i - 1)
  <2>1. i - 1 \in Nat
    OBVIOUS
  <2> QED
    BY <2>1, WholeUnfolds, FramesArePast
<1>2. PICK b \in Track : b = Block(i, n) /\ Len(b) = n /\ \A k \in 1..n : b[k] = <<i, k>>
  BY BlockIsTrack
<1>3. PICK e \in Nat \X Nat : e = <<i, n + 1>>
  <2>1. PICK m \in Nat : m = n + 1
    OBVIOUS
  <2>2. <<i, m>> \in Nat \X Nat
    OBVIOUS
  <2> QED
    BY <2>1, <2>2
<1>4. s = a \o b
  BY <1>1, <1>2
<1>5. Append(s, e) = a \o Append(b, e)
  BY <1>4, Grown, SMTT(30) DEF Track
<1>6. Append(s, <<i, n + 1>>) = V!Whole[i - 1] \o Block(i, n + 1)
  BY <1>1, <1>2, <1>3, <1>5, BlockGrows
<1>7. /\ Len(a) \in Nat /\ Len(b) = n /\ DOMAIN s = 1..(Len(a) + n)
      /\ \A k \in 1..Len(a) : s[k] = a[k]
      /\ \A k \in 1..n : s[Len(a) + k] = b[k]
  <2>1. /\ Len(a) \in Nat /\ DOMAIN s = 1..(Len(a) + Len(b))
        /\ \A k \in 1..Len(a) : s[k] = a[k]
        /\ \A k \in 1..Len(b) : s[Len(a) + k] = b[k]
    BY <1>4, Joined DEF Track
  <2> QED
    BY <1>2, <2>1
<1>8. ASSUME NEW k \in 1..(Len(a) + n) PROVE s[k][1] = i <=> k \in (Len(a) + 1)..(Len(a) + n)
  <2>1. CASE k \in 1..Len(a)
    BY <1>1, <1>7, <2>1, SMTT(30)
  <2>2. CASE k \notin 1..Len(a)
    <3>1. PICK j \in 1..n : k = Len(a) + j
      <4>1. k - Len(a) \in 1..n /\ k = Len(a) + (k - Len(a))
        BY <1>7, <2>2
      <4> QED
        BY <4>1
    <3>2. s[k] = b[j] /\ b[j] = <<i, j>>
      BY <1>2, <1>7, <3>1
    <3> QED
      BY <1>7, <3>1, <3>2
  <2> QED
    BY <2>1, <2>2
<1>9. ASSUME NEW K, \A k : k \in K <=> k \in DOMAIN s /\ s[k][1] = i
      PROVE  V!Cardinality(K) = n
  <2>1. K = (Len(a) + 1)..(Len(a) + n)
    <3>1. K = {k \in 1..(Len(a) + n) : k \in (Len(a) + 1)..(Len(a) + n)}
      BY <1>7, <1>8, <1>9
    <3>2. (Len(a) + 1)..(Len(a) + n) \subseteq 1..(Len(a) + n)
      BY <1>7
    <3> QED
      BY <3>1, <3>2
  <2>2. Cardinality(K) = n
    <3>1. PICK x \in Int, y \in Int : x = Len(a) + 1 /\ y = Len(a) + n
      BY <1>7
    <3>2. Cardinality(x..y) = IF x > y THEN 0 ELSE y - x + 1
      BY FS_Interval
    <3> QED
      BY <1>7, <2>1, <3>1, <3>2
  <2> QED
    BY <2>2 DEF V!Cardinality, Cardinality
<1> QED
  BY <1>6, <1>9

Tracking == {"window", "lease", "write"}
Counting == Tracking \cup {"infer", "load"}

\* What a run has when it comes to window w: the windows before it.
Before(w) == {x \in V!Window : x[1] < w[1] \/ (x[1] = w[1] /\ x[2] < w[2])}

RunsAreTyped ==
    /\ records \in [V!Window -> Track \cup {None}]
    /\ step \in [Process -> Counting \cup {"idle", "publish", "verify"}]
    /\ place \in [Process -> V!Window]
    /\ tracker \in [Process -> Track]
    /\ session \in [Process -> BOOLEAN]
    /\ entries \in [Process -> SUBSET V!Window]

\* The tracker of p is where an uninterrupted run would have it.
TrackerIsInPlace(p) ==
    LET i == place[p][2] IN
    /\ step[p] \in Tracking => tracker[p] = V!Whole[i - 1]
    /\ step[p] = "infer" =>
        \E n \in 0..Frames : tracker[p] = V!Whole[i - 1] \o Block(i, n)
    /\ step[p] = "load" => records[place[p]] # None

\* It has counted the windows before its place, and they are there.
EntriesAreBefore(p) ==
    /\ step[p] \in Counting => entries[p] = Before(place[p])
    /\ step[p] = "publish" => entries[p] = V!Window
    /\ \A w \in entries[p] : records[w] # None

ObsIInv ==
    /\ RunsAreTyped
    /\ ReceiptIsTrue
    /\ \A p \in Process : TrackerIsInPlace(p) /\ EntriesAreBefore(p)

-----------------------------------------------------------------------------
(* The windows, in the order of a run.                                     *)

LEMMA WindowIs ==
    /\ \A v \in DOMAIN Windows : \A i \in 1..Windows[v] : <<v, i>> \in V!Window
    /\ \A w \in V!Window : /\ w[1] \in DOMAIN Windows /\ w[2] \in 1..Windows[w[1]]
                           /\ w = <<w[1], w[2]>>
    /\ DOMAIN Windows = 1..Len(Windows) /\ Len(Windows) \in Nat \ {0}
    /\ \A v \in DOMAIN Windows : Windows[v] \in Nat \ {0}
<1>1. Windows \in Seq(Nat \ {0}) /\ Windows # <<>>
  BY ObservationAssumption DEF WindowsAssumption
<1>2. DOMAIN Windows = 1..Len(Windows) /\ Len(Windows) \in Nat \ {0}
  BY <1>1, EmptySeq
<1>3. \A v \in DOMAIN Windows : Windows[v] \in Nat \ {0}
  BY <1>1
<1> QED
  BY <1>2, <1>3 DEF V!Window

LEMMA FirstWindow == <<1, 1>> \in V!Window /\ Before(<<1, 1>>) = {}
<1>1. <<1, 1>> \in V!Window
  BY WindowIs
<1>2. ASSUME NEW x \in V!Window PROVE ~(x[1] < 1 \/ (x[1] = 1 /\ x[2] < 1))
  BY WindowIs
<1> QED
  BY <1>1, <1>2 DEF Before

LEMMA NextWindow ==
    ASSUME NEW w \in V!Window, NEW v, NEW i, w = <<v, i>>
    PROVE  /\ i < Windows[v] => <<v, i + 1>> \in V!Window /\ Before(<<v, i + 1>>) = Before(w) \cup {w}
           /\ i = Windows[v] /\ v # Len(Windows) =>
                <<v + 1, 1>> \in V!Window /\ Before(<<v + 1, 1>>) = Before(w) \cup {w}
           /\ i = Windows[v] /\ v = Len(Windows) => V!Window = Before(w) \cup {w}
<1>1. v \in 1..Len(Windows) /\ i \in 1..Windows[v] /\ Windows[v] \in Nat /\ Len(Windows) \in Nat
  BY WindowIs
<1>2. ASSUME NEW x \in V!Window
      PROVE  /\ x[1] \in 1..Len(Windows) /\ x[2] \in 1..Windows[x[1]] /\ Windows[x[1]] \in Nat
             /\ x = w <=> x[1] = v /\ x[2] = i
  BY WindowIs
<1>3. ASSUME i < Windows[v]
      PROVE  <<v, i + 1>> \in V!Window /\ Before(<<v, i + 1>>) = Before(w) \cup {w}
  <2>1. i + 1 \in 1..Windows[v]
    BY <1>1, <1>3
  <2>2. ASSUME NEW x \in V!Window
        PROVE  x[1] < v \/ (x[1] = v /\ x[2] < i + 1) <=> (x[1] < v \/ (x[1] = v /\ x[2] < i)) \/ x = w
    BY <1>1, <1>2
  <2> QED
    BY <1>1, <2>1, <2>2, WindowIs DEF Before
<1>4. ASSUME i = Windows[v], v # Len(Windows)
      PROVE  <<v + 1, 1>> \in V!Window /\ Before(<<v + 1, 1>>) = Before(w) \cup {w}
  <2>1. v + 1 \in 1..Len(Windows) /\ Windows[v + 1] \in Nat \ {0}
    <3>1. PICK u \in 1..Len(Windows) : u = v + 1
      <4>1. v + 1 \in 1..Len(Windows)
        BY <1>1, <1>4
      <4> QED
        BY <4>1
    <3>2. Windows[u] \in Nat \ {0}
      BY WindowIs
    <3> QED
      BY <3>1, <3>2
  <2>2. ASSUME NEW x \in V!Window
        PROVE  x[1] < v + 1 \/ (x[1] = v + 1 /\ x[2] < 1) <=> (x[1] < v \/ (x[1] = v /\ x[2] < i)) \/ x = w
    BY <1>1, <1>2, <1>4
  <2> QED
    BY <1>1, <2>1, <2>2, WindowIs DEF Before
<1>5. ASSUME i = Windows[v], v = Len(Windows) PROVE V!Window = Before(w) \cup {w}
  <2>1. ASSUME NEW x \in V!Window
        PROVE  (x[1] < v \/ (x[1] = v /\ x[2] < i)) \/ x = w
    BY <1>1, <1>2, <1>5
  <2> QED
    BY <2>1 DEF Before
<1> QED
  BY <1>3, <1>4, <1>5

-----------------------------------------------------------------------------
(* Every step of a run.                                                    *)

\* The state of p's run.
RunOf(p) == <<step[p], place[p], tracker[p], session[p], entries[p]>>

OnlyRunOf(p) == RunsAreTyped' /\ \A q \in Process \ {p} : RunOf(q)' = RunOf(q)

\* Nothing that was published changes.
RecordsStay == \A w \in V!Window : records[w] # None => records'[w] = records[w]

LeasedIsLoaded == \A p \in Process : session[p] => lease = p

ReceiptIsOfAll ==
    receipt # None => receipt = V!Window /\ \A w \in V!Window : records[w] # None

LEMMA ReceiptIs ==
    ReceiptIsTrue <=> V!WindowsAreOneTrack /\ ReceiptIsOfAll /\ LeasedIsLoaded
  BY DEF ReceiptIsTrue, V!ReceiptIsTrue, V!ReceiptIsLast, ReceiptIsOfAll, LeasedIsLoaded

LEMMA StepOfOne ==
    ASSUME ObsIInv, NEW p \in Process, OnlyRunOf(p), RecordsStay,
           V!WindowsAreOneTrack', ReceiptIsOfAll', LeasedIsLoaded',
           TrackerIsInPlace(p)', EntriesAreBefore(p)'
    PROVE  ObsIInv'
<1>1. ReceiptIsTrue'
  BY ReceiptIs, PTL
<1>2. ASSUME NEW q \in Process, q # p PROVE TrackerIsInPlace(q)' /\ EntriesAreBefore(q)'
  <2>1. /\ step'[q] = step[q] /\ place'[q] = place[q] /\ tracker'[q] = tracker[q]
        /\ entries'[q] = entries[q] /\ place[q] \in V!Window /\ entries[q] \in SUBSET V!Window
    BY <1>2 DEF OnlyRunOf, RunOf, ObsIInv, RunsAreTyped
  <2>2. TrackerIsInPlace(q) /\ EntriesAreBefore(q)
    BY DEF ObsIInv
  <2>3. TrackerIsInPlace(q)'
    BY <2>1, <2>2 DEF TrackerIsInPlace, RecordsStay
  <2>4. EntriesAreBefore(q)'
    <3>1. \A w \in entries[q] : records'[w] # None
      BY <2>1, <2>2 DEF EntriesAreBefore, RecordsStay
    <3> QED
      BY <2>1, <2>2, <3>1 DEF EntriesAreBefore, Before
  <2> QED
    BY <2>3, <2>4
<1> QED
  BY <1>1, <1>2 DEF ObsIInv, OnlyRunOf

\* A step that publishes nothing, and leaves the lease or gives it back.
LEMMA QuietRun ==
    ASSUME ObsIInv, NEW p \in Process, OnlyRunOf(p), records' = records, receipt' = receipt,
           session'[p] => lease' = p,
           \A q \in Process \ {p} : session[q] => lease' = lease,
           TrackerIsInPlace(p)', EntriesAreBefore(p)'
    PROVE  ObsIInv'
<1>1. V!WindowsAreOneTrack /\ ReceiptIsOfAll /\ LeasedIsLoaded
  BY ReceiptIs DEF ObsIInv
<1>2. V!WindowsAreOneTrack' /\ ReceiptIsOfAll' /\ RecordsStay
  BY <1>1 DEF V!WindowsAreOneTrack, V!Window, V!Whole, V!Records, V!Frame, ReceiptIsOfAll, RecordsStay
<1>3. LeasedIsLoaded'
  BY <1>1 DEF LeasedIsLoaded, OnlyRunOf, RunOf
<1> QED
  BY <1>2, <1>3, StepOfOne

LEMMA EndKeeps ==
    ASSUME ObsIInv, NEW p \in Process, V!Verify(p) \/ V!Fail(p)
    PROVE  ObsIInv'
<1>1. RunsAreTyped /\ LeasedIsLoaded /\ EntriesAreBefore(p)
  BY ReceiptIs DEF ObsIInv
<1>2. /\ UNCHANGED <<records, receipt, place, tracker, entries>>
      /\ step' = [step EXCEPT ![p] = "idle"] /\ session' = [session EXCEPT ![p] = FALSE]
      /\ lease' = IF lease = p THEN None ELSE lease
  BY DEF V!Verify, V!Fail, V!Ends
<1>3. OnlyRunOf(p) /\ step'[p] = "idle" /\ session'[p] = FALSE
  BY <1>1, <1>2 DEF OnlyRunOf, RunOf, RunsAreTyped
<1>4. \A q \in Process \ {p} : session[q] => lease' = lease
  BY <1>1, <1>2 DEF LeasedIsLoaded
<1>5. TrackerIsInPlace(p)' /\ EntriesAreBefore(p)'
  BY <1>1, <1>2, <1>3 DEF TrackerIsInPlace, EntriesAreBefore, Tracking, Counting
<1> QED
  BY <1>2, <1>3, <1>4, <1>5, QuietRun

LEMMA BeginKeeps ==
    ASSUME ObsIInv, NEW p \in Process, V!Begin(p)
    PROVE  ObsIInv'
<1>1. RunsAreTyped /\ LeasedIsLoaded
  BY ReceiptIs DEF ObsIInv
<1>2. /\ UNCHANGED <<records, lease, receipt, session>>
      /\ step' = [step EXCEPT ![p] = IF receipt = None THEN "window" ELSE "verify"]
      /\ place' = [place EXCEPT ![p] = <<1, 1>>] /\ tracker' = [tracker EXCEPT ![p] = <<>>]
      /\ entries' = [entries EXCEPT ![p] = {}]
  BY DEF V!Begin
<1>3. <<>> \in Track
  BY DEF Track
<1>4. /\ OnlyRunOf(p) /\ step'[p] \in {"window", "verify"} /\ place'[p] = <<1, 1>>
      /\ tracker'[p] = <<>> /\ entries'[p] = {} /\ session'[p] = session[p]
  <2>1. RunsAreTyped'
    BY <1>1, <1>2, <1>3, FirstWindow DEF RunsAreTyped, Counting, Tracking
  <2> QED
    BY <1>1, <1>2, <2>1 DEF OnlyRunOf, RunOf, RunsAreTyped
<1>5. TrackerIsInPlace(p)'
  <2>1. place'[p][2] - 1 = 0
    BY <1>4
  <2> QED
    BY <1>2, <1>4, <2>1, WholeUnfolds DEF TrackerIsInPlace, Tracking, V!Whole, V!Records, V!Frame
<1>6. EntriesAreBefore(p)'
  BY <1>4, FirstWindow DEF EntriesAreBefore, Before, Counting, Tracking
<1> QED
  BY <1>1, <1>2, <1>4, <1>5, <1>6, QuietRun DEF LeasedIsLoaded

\* A window that is there is loaded; for another the tracker is in place.
LEMMA ComeKeeps ==
    ASSUME ObsIInv, NEW p \in Process, V!Look(p) \/ V!Lease(p)
    PROVE  ObsIInv'
<1>1. RunsAreTyped /\ LeasedIsLoaded /\ TrackerIsInPlace(p) /\ EntriesAreBefore(p)
  BY ReceiptIs DEF ObsIInv
<1>2. /\ UNCHANGED <<records, receipt, place, tracker, entries>> /\ step[p] \in Tracking
      /\ \E s \in Tracking \cup {"load"} :
            step' = [step EXCEPT ![p] = s] /\ (s = "load" => records[place[p]] # None)
      /\ \/ lease' = lease /\ session' = session
         \/ lease = None /\ lease' = p /\ session' = [session EXCEPT ![p] = TRUE]
  BY DEF V!Look, V!Lease, Tracking
<1>3. OnlyRunOf(p) /\ step'[p] \in Tracking \cup {"load"} /\ (step'[p] = "load" => records[place[p]] # None)
  <2>1. RunsAreTyped'
    <3>1. step' \in [Process -> Counting \cup {"idle", "publish", "verify"}]
      <4>1. step \in [Process -> Counting \cup {"idle", "publish", "verify"}]
        BY <1>1 DEF RunsAreTyped
      <4>2. PICK s \in Counting : step' = [step EXCEPT ![p] = s]
        BY <1>2 DEF Counting
      <4> QED
        BY <4>1, <4>2
    <3>2. session' \in [Process -> BOOLEAN]
      BY <1>1, <1>2 DEF RunsAreTyped
    <3> QED
      BY <1>1, <1>2, <3>1, <3>2 DEF RunsAreTyped
  <2> QED
    BY <1>1, <1>2, <2>1 DEF OnlyRunOf, RunOf, RunsAreTyped
<1>4. TrackerIsInPlace(p)' /\ EntriesAreBefore(p)'
  <2>1. step'[p] # "infer" /\ step'[p] # "publish"
    BY <1>3 DEF Tracking
  <2> QED
    BY <1>1, <1>2, <1>3, <2>1 DEF TrackerIsInPlace, EntriesAreBefore, Counting, Before
<1>5. session'[p] => lease' = p
  BY <1>1, <1>2 DEF LeasedIsLoaded
<1>6. \A q \in Process \ {p} : session[q] => lease' = lease
  BY <1>1, <1>2, ObservationAssumption DEF LeasedIsLoaded, NoneAssumption
<1> QED
  BY <1>2, <1>3, <1>4, <1>5, <1>6, QuietRun

LEMMA WriteKeeps ==
    ASSUME ObsIInv, NEW p \in Process, V!Write(p)
    PROVE  ObsIInv'
<1>1. RunsAreTyped /\ LeasedIsLoaded /\ TrackerIsInPlace(p) /\ EntriesAreBefore(p)
  BY ReceiptIs DEF ObsIInv
<1>2. /\ UNCHANGED <<records, lease, receipt, place, tracker, session, entries>> /\ step[p] = "write"
      /\ \E s \in {"infer", "load"} :
            step' = [step EXCEPT ![p] = s] /\ (s = "load" => records[place[p]] # None)
  BY DEF V!Write
<1>3. OnlyRunOf(p) /\ step'[p] \in {"infer", "load"} /\ (step'[p] = "load" => records[place[p]] # None)
  <2>1. RunsAreTyped'
    BY <1>1, <1>2 DEF RunsAreTyped, Counting
  <2> QED
    BY <1>1, <1>2, <2>1 DEF OnlyRunOf, RunOf, RunsAreTyped
<1>4. EntriesAreBefore(p)'
  BY <1>1, <1>2, <1>3 DEF EntriesAreBefore, Counting, Tracking, Before
<1>5. TrackerIsInPlace(p)'
  <2>1. PICK i \in Nat \ {0} : i = place[p][2]
    BY <1>1, WindowIs DEF RunsAreTyped
  <2>2. i - 1 \in Nat /\ tracker[p] = V!Whole[i - 1] /\ V!Whole[i - 1] \in Track
    BY <1>1, <1>2, <2>1, WholeUnfolds DEF TrackerIsInPlace, Tracking
  <2>3. V!Whole[i - 1] \o Block(i, 0) = V!Whole[i - 1]
    <3>1. Block(i, 0) = <<>>
      BY DEF Block
    <3> QED
      BY <2>2, <3>1 DEF Track
  <2>4. 0 \in 0..Frames
    BY ObservationAssumption DEF WindowsAssumption
  <2> QED
    BY <1>2, <1>3, <2>1, <2>2, <2>3, <2>4 DEF TrackerIsInPlace, Tracking, V!Whole, V!Records, V!Frame
<1> QED
  BY <1>1, <1>2, <1>3, <1>4, <1>5, QuietRun DEF LeasedIsLoaded

\* After its last frame the tracker has the records of a whole run.
LEMMA InferKeeps ==
    ASSUME ObsIInv, NEW p \in Process, V!Infer(p)
    PROVE  ObsIInv'
<1>1. /\ RunsAreTyped /\ LeasedIsLoaded /\ ReceiptIsOfAll /\ V!WindowsAreOneTrack
      /\ TrackerIsInPlace(p) /\ EntriesAreBefore(p) /\ Frames \in Nat \ {0}
  BY ReceiptIs, ObservationAssumption DEF ObsIInv, WindowsAssumption
<1>2. step[p] = "infer" /\ UNCHANGED <<lease, receipt, place, session, entries>>
  BY DEF V!Infer
<1>3. PICK w \in V!Window, i \in Nat \ {0} : w = place[p] /\ i = w[2]
  BY <1>1, WindowIs DEF RunsAreTyped
<1>4. PICK n \in 0..Frames : tracker[p] = V!Whole[i - 1] \o Block(i, n)
  BY <1>1, <1>2, <1>3 DEF TrackerIsInPlace
<1>5. /\ V!Cardinality({k \in DOMAIN tracker[p] : tracker[p][k][1] = i}) = n
      /\ Append(tracker[p], <<i, n + 1>>) = V!Whole[i - 1] \o Block(i, n + 1)
      /\ n \in Nat /\ tracker[p] \in Track
  <2>1. n \in Nat
    BY <1>1
  <2>2. PICK s : s = tracker[p]
    OBVIOUS
  <2>3. PICK K : K = {k \in DOMAIN s : s[k][1] = i}
    OBVIOUS
  <2>7. \A k : k \in K <=> k \in DOMAIN s /\ s[k][1] = i
    BY <2>3
  <2>4. s = V!Whole[i - 1] \o Block(i, n)
    BY <1>4, <2>2
  <2>5. V!Cardinality(K) = n /\ Append(s, <<i, n + 1>>) = V!Whole[i - 1] \o Block(i, n + 1)
    BY <2>1, <2>4, <2>7, SeenAreCounted, ZenonT(30)
  <2>6. tracker[p] \in Track
    BY <1>1 DEF RunsAreTyped
  <2> QED
    BY <2>1, <2>2, <2>3, <2>5, <2>6
<1>6. CASE n < Frames
  <2>1. /\ tracker' = [tracker EXCEPT ![p] = Append(tracker[p], <<i, n + 1>>)]
        /\ UNCHANGED <<records, step>>
    BY <1>3, <1>5, <1>6 DEF V!Infer, V!Frame
  <2>2. PICK t \in Track : t = Append(tracker[p], <<i, n + 1>>)
    <3>1. PICK e \in Nat \X Nat : e = <<i, n + 1>>
      <4>1. PICK m \in Nat : m = n + 1
        BY <1>5
      <4>2. <<i, m>> \in Nat \X Nat
        OBVIOUS
      <4> QED
        BY <4>1, <4>2
    <3>2. Append(tracker[p], e) \in Track
      BY <1>5, Appended DEF Track
    <3> QED
      BY <3>1, <3>2
  <2>3. tracker' = [tracker EXCEPT ![p] = t] /\ t = V!Whole[i - 1] \o Block(i, n + 1)
    BY <1>5, <2>1, <2>2
  <2>4. OnlyRunOf(p) /\ step'[p] = "infer" /\ tracker'[p] = t
    <3>1. RunsAreTyped'
      BY <1>1, <1>2, <2>1, <2>3, ZenonT(30) DEF RunsAreTyped
    <3> QED
      BY <1>1, <1>2, <2>1, <2>3, <3>1 DEF OnlyRunOf, RunOf, RunsAreTyped
  <2>5. TrackerIsInPlace(p)'
    <3>1. n + 1 \in 0..Frames
      BY <1>1, <1>5, <1>6
    <3>2. \E m \in 0..Frames : t = V!Whole[i - 1] \o Block(i, m)
      BY <2>3, <3>1
    <3> QED
      BY <1>2, <1>3, <2>1, <2>4, <3>2 DEF TrackerIsInPlace, Tracking, V!Whole, V!Records, V!Frame
  <2>6. EntriesAreBefore(p)'
    BY <1>1, <1>2, <2>1 DEF EntriesAreBefore, Before
  <2> QED
    BY <1>1, <1>2, <2>1, <2>4, <2>5, <2>6, QuietRun DEF LeasedIsLoaded
<1>7. CASE ~(n < Frames)
  <2>1. /\ records' = [records EXCEPT ![w] = tracker[p]]
        /\ step' = [step EXCEPT ![p] = "load"] /\ tracker' = tracker
    BY <1>3, <1>5, <1>7 DEF V!Infer
  <2>2. tracker[p] = V!Whole[i]
    <3>1. n = Frames
      BY <1>1, <1>5, <1>7
    <3>2. PICK j \in Nat : j = i - 1 /\ j + 1 = i
      <4>1. i - 1 \in Nat /\ (i - 1) + 1 = i
        OBVIOUS
      <4> QED
        BY <4>1
    <3>3. V!Whole[j + 1] = V!Whole[j] \o Block(j + 1, Frames)
      BY WholeUnfolds
    <3> QED
      BY <1>4, <3>1, <3>2, <3>3
  <2>3. tracker[p] # None
    BY <1>5, ObservationAssumption DEF Track, NoneAssumption
  <2>4. OnlyRunOf(p) /\ step'[p] = "load" /\ records'[w] = tracker[p]
    <3>1. RunsAreTyped'
      BY <1>1, <1>2, <1>5, <2>1 DEF RunsAreTyped, Counting
    <3>2. DOMAIN records = V!Window /\ DOMAIN step = Process
      BY <1>1 DEF RunsAreTyped
    <3> QED
      BY <1>2, <2>1, <3>1, <3>2 DEF OnlyRunOf, RunOf
  <2>5. ASSUME NEW x \in V!Window
        PROVE  records'[x] = records[x] \/ (x = w /\ records'[x] = V!Whole[x[2]])
    BY <1>1, <1>3, <2>1, <2>2 DEF RunsAreTyped
  <2>6. \A x \in V!Window : records'[x] # None => records'[x] = V!Whole[x[2]]
    BY <1>1, <2>5 DEF V!WindowsAreOneTrack
  <2>7. V!WindowsAreOneTrack'
    BY <2>6 DEF V!WindowsAreOneTrack, V!Window, V!Whole, V!Records, V!Frame
  <2>8. RecordsStay
    BY <1>1, <2>5 DEF RecordsStay, V!WindowsAreOneTrack
  <2>9. ReceiptIsOfAll'
    BY <1>1, <1>2, <2>8 DEF ReceiptIsOfAll, RecordsStay, V!Window
  <2>10. TrackerIsInPlace(p)'
    BY <1>2, <1>3, <2>3, <2>4 DEF TrackerIsInPlace, Tracking
  <2>11. EntriesAreBefore(p)'
    <3>1. entries[p] \in SUBSET V!Window /\ entries[p] = Before(place[p])
      BY <1>1, <1>2 DEF RunsAreTyped, EntriesAreBefore, Counting
    <3> QED
      BY <1>1, <1>2, <2>4, <2>8, <3>1 DEF EntriesAreBefore, Before, RecordsStay
  <2>12. LeasedIsLoaded'
    BY <1>1, <1>2 DEF LeasedIsLoaded
  <2> QED
    BY <2>4, <2>7, <2>8, <2>9, <2>10, <2>11, <2>12, StepOfOne
<1> QED
  BY <1>6, <1>7

\* The next window's tracker is what the records of this one leave.
LEMMA LoadKeeps ==
    ASSUME ObsIInv, NEW p \in Process, V!Load(p)
    PROVE  ObsIInv'
<1>1. /\ RunsAreTyped /\ LeasedIsLoaded /\ V!WindowsAreOneTrack
      /\ TrackerIsInPlace(p) /\ EntriesAreBefore(p)
  BY ReceiptIs DEF ObsIInv
<1> PICK w \in V!Window : w = place[p]
  BY <1>1 DEF RunsAreTyped
<1>2. PICK v, i : w = place[p] /\ w = <<v, i>>
  BY WindowIs
<1>3. v \in 1..Len(Windows) /\ i \in 1..Windows[v] /\ Windows[v] \in Nat /\ Len(Windows) \in Nat
  BY <1>2, WindowIs
<1>4. records[w] # None /\ records[w] = V!Whole[i] /\ V!Whole[i] \in Track
  BY <1>1, <1>2, <1>3, WholeUnfolds DEF V!Load, TrackerIsInPlace, V!WindowsAreOneTrack
<1> DEFINE done == i = Windows[v]
<1> DEFINE last == v = Len(Windows)
<1>5. /\ UNCHANGED <<records, receipt>> /\ step[p] = "load"
      /\ entries' = [entries EXCEPT ![p] = entries[p] \cup {w}]
      /\ tracker' = [tracker EXCEPT ![p] = IF done THEN <<>> ELSE records[w]]
      /\ session' = [session EXCEPT ![p] = session[p] /\ ~done]
      /\ lease' = IF done /\ lease = p THEN None ELSE lease
      /\ place' = [place EXCEPT ![p] = IF ~done THEN <<v, i + 1>> ELSE IF last THEN w ELSE <<v + 1, 1>>]
      /\ step' = [step EXCEPT ![p] = IF done /\ last THEN "publish" ELSE "window"]
  BY <1>2 DEF V!Load, V!Restored, V!FinalView
<1>6. /\ i < Windows[v] => <<v, i + 1>> \in V!Window /\ Before(<<v, i + 1>>) = Before(w) \cup {w}
      /\ done /\ ~last => <<v + 1, 1>> \in V!Window /\ Before(<<v + 1, 1>>) = Before(w) \cup {w}
      /\ done /\ last => V!Window = Before(w) \cup {w}
  BY <1>2, NextWindow
<1>7. ~done <=> i < Windows[v]
  BY <1>3
<1>8. entries[p] = Before(w) /\ entries[p] \in SUBSET V!Window
  BY <1>1, <1>2, <1>5 DEF EntriesAreBefore, Counting, RunsAreTyped
<1> HIDE DEF done, last
<1>9. PICK x \in V!Window : x = IF ~done THEN <<v, i + 1>> ELSE IF last THEN w ELSE <<v + 1, 1>>
  BY <1>6, <1>7
<1>10. ~(done /\ last) => Before(x) = Before(w) \cup {w}
  BY <1>6, <1>7, <1>9
<1>11. PICK t \in Track : t = IF done THEN <<>> ELSE records[w]
  <2>1. <<>> \in Track
    BY DEF Track
  <2> QED
    BY <1>4, <2>1
<1>12. /\ OnlyRunOf(p) /\ place'[p] = x /\ tracker'[p] = t /\ entries'[p] = entries[p] \cup {w}
       /\ session'[p] = (session[p] /\ ~done)
       /\ step'[p] = IF done /\ last THEN "publish" ELSE "window"
  <2>1. place' = [place EXCEPT ![p] = x] /\ tracker' = [tracker EXCEPT ![p] = t]
    BY <1>5, <1>9, <1>11
  <2>2. RunsAreTyped'
    <3>1. session' \in [Process -> BOOLEAN]
      BY <1>1, <1>5 DEF RunsAreTyped
    <3>2. step' \in [Process -> Counting \cup {"idle", "publish", "verify"}]
      BY <1>1, <1>5 DEF RunsAreTyped, Counting, Tracking
    <3>3. entries' \in [Process -> SUBSET V!Window]
      BY <1>1, <1>5 DEF RunsAreTyped
    <3> QED
      BY <1>1, <1>5, <2>1, <3>1, <3>2, <3>3 DEF RunsAreTyped, V!Window
  <2> QED
    BY <1>1, <1>5, <2>1, <2>2 DEF OnlyRunOf, RunOf, RunsAreTyped
<1>13. TrackerIsInPlace(p)'
  <2>1. t = V!Whole[x[2] - 1] \/ (done /\ last)
    <3>1. CASE ~done
      <4>1. x[2] - 1 = i
        BY <1>3, <1>9, <3>1
      <4> QED
        BY <1>4, <1>11, <3>1, <4>1
    <3>2. CASE done /\ ~last
      <4>1. x[2] - 1 = 0
        BY <1>9, <3>2
      <4> QED
        BY <1>11, <3>2, <4>1, WholeUnfolds
    <3> QED
      BY <3>1, <3>2
  <2> QED
    BY <1>12, <2>1 DEF TrackerIsInPlace, Tracking, V!Whole, V!Records, V!Frame
<1>14. EntriesAreBefore(p)'
  <2>1. \A y \in entries[p] \cup {w} : records'[y] # None
    BY <1>1, <1>4, <1>5 DEF EntriesAreBefore
  <2>2. step'[p] \in Counting => entries'[p] = Before(x)
    BY <1>8, <1>10, <1>12 DEF Counting, Tracking
  <2>3. step'[p] = "publish" => entries'[p] = V!Window
    BY <1>6, <1>8, <1>12
  <2>4. Before(x) = Before(place[p])'
    BY <1>12 DEF Before, V!Window
  <2> QED
    BY <1>12, <2>1, <2>2, <2>3, <2>4 DEF EntriesAreBefore, V!Window
<1>15. session'[p] => lease' = p
  BY <1>1, <1>5, <1>12 DEF LeasedIsLoaded
<1>16. \A q \in Process \ {p} : session[q] => lease' = lease
  BY <1>1, <1>5 DEF LeasedIsLoaded
<1> QED
  BY <1>5, <1>12, <1>13, <1>14, <1>15, <1>16, QuietRun

LEMMA ReceiptKeeps ==
    ASSUME ObsIInv, NEW p \in Process, V!Publish(p)
    PROVE  ObsIInv'
<1>1. /\ RunsAreTyped /\ LeasedIsLoaded /\ V!WindowsAreOneTrack /\ EntriesAreBefore(p)
  BY ReceiptIs DEF ObsIInv
<1>2. /\ UNCHANGED <<records, lease, place, tracker, session, entries>> /\ step[p] = "publish"
      /\ receipt' = entries[p] /\ step' = [step EXCEPT ![p] = "verify"]
  BY DEF V!Publish
<1>3. OnlyRunOf(p) /\ step'[p] = "verify"
  <2>1. RunsAreTyped'
    BY <1>1, <1>2 DEF RunsAreTyped
  <2> QED
    BY <1>1, <1>2, <2>1 DEF OnlyRunOf, RunOf, RunsAreTyped
<1>4. ReceiptIsOfAll'
  <2>1. entries[p] = V!Window /\ \A w \in entries[p] : records[w] # None
    BY <1>1, <1>2 DEF EntriesAreBefore
  <2> QED
    BY <1>2, <2>1 DEF ReceiptIsOfAll, V!Window
<1>5. V!WindowsAreOneTrack' /\ LeasedIsLoaded' /\ RecordsStay
  BY <1>1, <1>2 DEF V!WindowsAreOneTrack, V!Window, V!Whole, V!Records, V!Frame, LeasedIsLoaded, RecordsStay
<1>6. TrackerIsInPlace(p)' /\ EntriesAreBefore(p)'
  BY <1>1, <1>2, <1>3 DEF TrackerIsInPlace, EntriesAreBefore, Tracking, Counting
<1> QED
  BY <1>3, <1>4, <1>5, <1>6, StepOfOne

LEMMA ObsBegins == V!Init => ObsIInv
<1> SUFFICES ASSUME V!Init PROVE ObsIInv
  OBVIOUS
<1>1. /\ records = [w \in V!Window |-> None] /\ receipt = None
      /\ step = [p \in Process |-> "idle"] /\ place = [p \in Process |-> <<1, 1>>]
      /\ tracker = [p \in Process |-> <<>>] /\ session = [p \in Process |-> FALSE]
      /\ entries = [p \in Process |-> {}]
  BY DEF V!Init
<1>2. <<>> \in Track
  BY DEF Track
<1>3. RunsAreTyped
  BY <1>1, <1>2, FirstWindow DEF RunsAreTyped, Counting
<1>4. V!WindowsAreOneTrack /\ ReceiptIsOfAll /\ LeasedIsLoaded
  BY <1>1 DEF V!WindowsAreOneTrack, ReceiptIsOfAll, LeasedIsLoaded
<1>5. \A p \in Process : TrackerIsInPlace(p) /\ EntriesAreBefore(p)
  BY <1>1 DEF TrackerIsInPlace, EntriesAreBefore, Counting, Tracking
<1> QED
  BY <1>3, <1>4, <1>5, ReceiptIs DEF ObsIInv

LEMMA ObsKeeps == ObsIInv /\ [V!Next]_observing => ObsIInv'
<1> SUFFICES ASSUME ObsIInv, [V!Next]_observing PROVE ObsIInv'
  OBVIOUS
<1>1. CASE UNCHANGED observing
  <2>1. UNCHANGED <<records, lease, receipt, step, place, tracker, session, entries>>
    BY <1>1 DEF observing
  <2>2. RunsAreTyped'
    BY <2>1 DEF ObsIInv, RunsAreTyped, V!Window
  <2>3. V!WindowsAreOneTrack' /\ ReceiptIsOfAll' /\ LeasedIsLoaded'
    BY <2>1, ReceiptIs
    DEF ObsIInv, V!WindowsAreOneTrack, V!Window, V!Whole, V!Records, V!Frame, ReceiptIsOfAll, LeasedIsLoaded
  <2>4. ReceiptIsTrue'
    BY <2>3, ReceiptIs, PTL
  <2>5. ASSUME NEW p \in Process PROVE TrackerIsInPlace(p)' /\ EntriesAreBefore(p)'
    <3>1. TrackerIsInPlace(p) /\ EntriesAreBefore(p)
      BY DEF ObsIInv
    <3>2. TrackerIsInPlace(p)'
      BY <2>1, <3>1 DEF TrackerIsInPlace
    <3>3. EntriesAreBefore(p)'
      BY <2>1, <3>1 DEF EntriesAreBefore, Before
    <3> QED
      BY <3>2, <3>3
  <2> QED
    BY <2>2, <2>4, <2>5 DEF ObsIInv
<1>2. ASSUME NEW p \in Process,
             \/ V!Begin(p) \/ V!Look(p) \/ V!Lease(p) \/ V!Write(p) \/ V!Infer(p)
             \/ V!Load(p) \/ V!Publish(p) \/ V!Verify(p) \/ V!Fail(p)
      PROVE  ObsIInv'
  BY <1>2, BeginKeeps, ComeKeeps, WriteKeeps, InferKeeps, LoadKeeps, ReceiptKeeps, EndKeeps
<1> QED
  BY <1>1, <1>2 DEF V!Next

\* Records, trackers, receipt, lease and sessions of the observation runs always
\* agree, for any processes, windows and frames (pose/observation_run.py).
THEOREM ObsIsSound == V!Spec => []ObsIInv
<1>1. ObsIInv /\ [V!Next]_V!vars => ObsIInv'
  BY ObsKeeps DEF observing, V!vars
<1> QED
  BY <1>1, ObsBegins, PTL DEF V!Spec

\* What a run leaves is what one uninterrupted run would leave, whichever windows
\* it found and whichever runs failed before: every window's records come from
\* one track, the receipt is for all windows, and a session is only kept under
\* the lease (pose/observation_run.py: run_observations; vision/device.py).
THEOREM ReceiptIsAlwaysTrue == V!Spec => []ReceiptIsTrue
  BY ObsIsSound, PTL DEF ObsIInv

-----------------------------------------------------------------------------
(***************************************************************************)
(* OfflineRun.  The argument has two halves.  Whatever is edited, lost or  *)
(* cut short, a stage finds the motion, the body and the calibration of    *)
(* the motion at hand (HandsAreSound).  Until a file is edited under an    *)
(* analysis, every product is a function of its key (MadeOfTheirKeys), and *)
(* two inputs with one key have one product (KeysDetermine): what is       *)
(* complete under the present keys is what the present inputs make.        *)
(***************************************************************************)

\* What each stage makes when no file is edited under the analysis.
SyncOf(i) == [key |-> O!Key("sync", i), clockOf |-> i.source]
CalibrationOf(i) == [key |-> O!Key("calibration", i), file |-> i.file]
WindowsOf(i) == [windowsOf |-> i.source]
AttachmentOf(i) == [windows |-> WindowsOf(i), sync |-> SyncOf(i)]
RawOf(i) == [calibration |-> CalibrationOf(i), attachment |-> AttachmentOf(i)]
MotionOf(i) == [raw |-> RawOf(i), fit |-> i.reconstruction]
BodyOf(motion) == [bodyOf |-> motion.raw, fit |-> motion.fit]
GroundOf(i) ==
    [motion |-> MotionOf(i), calibration |-> CalibrationOf(i), body |-> BodyOf(MotionOf(i))]
SemanticsOf(i) == [motion |-> MotionOf(i), ground |-> GroundOf(i), rules |-> i.parsing]

Product(i) ==
    [ingest |-> [key |-> O!Key("ingest", i)], sync |-> SyncOf(i), calibration |-> CalibrationOf(i),
     observations |-> WindowsOf(i), attachment |-> AttachmentOf(i),
     reconstruction |-> MotionOf(i), ground |-> GroundOf(i), parsing |-> SemanticsOf(i)]

Has(a, field) == field \in DOMAIN a

RunIsTyped ==
    /\ run = [at |-> run.at, asked |-> run.asked, handle |-> run.handle, opened |-> run.opened]
    /\ run.at \in 0..9
    /\ run.at = 0 => run.handle = O!NoHandle /\ run.opened = {}
    /\ run.handle = [s \in O!Stage |-> run.handle[s]]
    /\ record = [s \in O!Publishing |-> record[s]]
    /\ torn \in BOOLEAN

\* What can be told of an artifact by its fields.
Told(a) ==
    /\ Has(a, "key") => ~Has(a, "bodyOf")
    /\ Has(a, "file") => Has(a, "key")
    /\ DOMAIN a = {"windowsOf"} => a = [windowsOf |-> a.windowsOf]

NoBody(artifacts) == \A a \in artifacts : ~Has(a, "bodyOf")

\* Nothing that is opened before the reconstruction is a body.
NoBodyIsEarly ==
    /\ run.at <= 6 => NoBody(run.opened)
    /\ \A s \in {"observations", "attachment"} :
        record[s] # None => record[s].artifact \in record[s].lineage /\ NoBody(record[s].lineage)

BoundHolds(motion) ==
    LET bound == Provision[motion.raw.calibration.file].sync
    IN  bound # None => bound = motion.raw.attachment.sync.key

GroundIsOfItsMotion(ground) ==
    /\ ground.body = BodyOf(ground.motion)
    /\ Provision[ground.calibration.file].id = Provision[ground.motion.raw.calibration.file].id
    /\ BoundHolds(ground.motion)

\* The bodies of its lineage, of which there is one, are of the motion.
MotionIsSound(recorded) ==
    /\ BoundHolds(recorded.artifact)
    /\ \A b \in recorded.lineage : Has(b, "bodyOf") => b = BodyOf(recorded.artifact)

\* Motion and ground, at hand and on record.
HandsAreSound ==
    /\ record["reconstruction"] # None \/ run.handle["reconstruction"] # None =>
        MotionIsSound(record["reconstruction"])
    /\ record["ground"] # None => GroundIsOfItsMotion(record["ground"].artifact)
    /\ run.handle["reconstruction"] # None =>
        record["reconstruction"].artifact = run.handle["reconstruction"]
    /\ run.handle["ground"] # None => GroundIsOfItsMotion(run.handle["ground"])

HandIsOfNow ==
    \A s \in O!Stage : run.handle[s] # None => run.handle[s] = Product(now)[s]

RecordIsOfItsKeys ==
    \A s \in O!Publishing : record[s] # None =>
        \E i : record[s].request = O!Key(s, i) /\ record[s].artifact = Product(i)[s]

StoreIsOfItsKeys ==
    \A a \in store : Has(a, "key") => \E s \in O!Inline : \E i : a = Product(i)[s]

\* Until a file is edited under an analysis, everything is made of its key.
MadeOfTheirKeys ==
    /\ run.at # 0 => run.asked = now
    /\ HandIsOfNow
    /\ RecordIsOfItsKeys
    /\ StoreIsOfItsKeys

OfflineIInv ==
    /\ RunIsTyped
    /\ \A a \in store : Told(a)
    /\ NoBodyIsEarly
    /\ HandsAreSound
    /\ O!OnePastOnRecord
    /\ ~torn => MadeOfTheirKeys

-----------------------------------------------------------------------------
(* Stages and keys.                                                        *)

LEMMA Stages ==
    /\ DOMAIN O!Order = 1..8 /\ Len(O!Order) = 8
    /\ O!Order[1] = "ingest" /\ O!Order[2] = "sync" /\ O!Order[3] = "calibration"
    /\ O!Order[4] = "observations" /\ O!Order[5] = "attachment" /\ O!Order[6] = "reconstruction"
    /\ O!Order[7] = "ground" /\ O!Order[8] = "parsing"
    /\ O!Stage = {"ingest", "sync", "calibration", "observations", "attachment",
                "reconstruction", "ground", "parsing"}
    /\ O!Publishing = {"observations", "attachment", "reconstruction", "ground", "parsing"}
<1>1. /\ DOMAIN O!Order = 1..8 /\ Len(O!Order) = 8
      /\ O!Order[1] = "ingest" /\ O!Order[2] = "sync" /\ O!Order[3] = "calibration"
      /\ O!Order[4] = "observations" /\ O!Order[5] = "attachment" /\ O!Order[6] = "reconstruction"
      /\ O!Order[7] = "ground" /\ O!Order[8] = "parsing"
  BY DEF O!Order
<1>2. 1..8 = {1, 2, 3, 4, 5, 6, 7, 8}
  OBVIOUS
<1>3. O!Stage = {"ingest", "sync", "calibration", "observations", "attachment",
               "reconstruction", "ground", "parsing"}
  BY <1>1, <1>2 DEF O!Stage
<1>4. O!Publishing = {"observations", "attachment", "reconstruction", "ground", "parsing"}
  BY <1>3 DEF O!Publishing, O!Inline
<1> QED
  BY <1>1, <1>3, <1>4

LEMMA Unions ==
    ASSUME NEW f
    PROVE  /\ UNION {f[r] : r \in {}} = {}
           /\ \A a : UNION {f[r] : r \in {a}} = f[a]
           /\ \A a, b : UNION {f[r] : r \in {a, b}} = f[a] \cup f[b]
  OBVIOUS

\* What a solution of the recursion over the stages is, stage by stage.
Solves(f) ==
    /\ f["ingest"] = {"source"}
    /\ f["sync"] = {"sync"} \cup f["ingest"]
    /\ f["calibration"] = {"file"} \cup (f["ingest"] \cup f["sync"])
    /\ f["observations"] = f["ingest"]
    /\ f["attachment"] = f["sync"] \cup f["observations"]
    /\ f["reconstruction"] = {"reconstruction"} \cup (f["calibration"] \cup f["attachment"])
    /\ f["ground"] = f["reconstruction"]
    /\ f["parsing"] = {"parsing"} \cup f["ground"]

LEMMA SolvesIsToSolve ==
    ASSUME NEW f
    PROVE  Solves(f) <=>
            \A s \in O!Stage : f[s] = O!Hashed(s) \cup UNION {f[r] : r \in O!Needs[s]}
<1>1. /\ O!Hashed("ingest") = {"source"} /\ O!Hashed("sync") = {"sync"}
      /\ O!Hashed("calibration") = {"file"} /\ O!Hashed("observations") = {}
      /\ O!Hashed("attachment") = {} /\ O!Hashed("reconstruction") = {"reconstruction"}
      /\ O!Hashed("ground") = {} /\ O!Hashed("parsing") = {"parsing"}
  BY DEF O!Hashed, O!Set
<1>2. /\ O!Needs["ingest"] = {} /\ O!Needs["sync"] = {"ingest"} /\ O!Needs["observations"] = {"ingest"}
      /\ O!Needs["calibration"] = {"ingest", "sync"} /\ O!Needs["attachment"] = {"sync", "observations"}
      /\ O!Needs["reconstruction"] = {"calibration", "attachment"}
      /\ O!Needs["ground"] = {"reconstruction"} /\ O!Needs["parsing"] = {"ground"}
  BY DEF O!Needs
<1> DEFINE U(s) == UNION {f[r] : r \in O!Needs[s]}
<1>3. /\ U("ingest") = {} /\ U("sync") = f["ingest"] /\ U("observations") = f["ingest"]
      /\ U("ground") = f["reconstruction"] /\ U("parsing") = f["ground"]
  BY <1>2, Unions
<1>4. /\ U("calibration") = f["ingest"] \cup f["sync"]
      /\ U("attachment") = f["sync"] \cup f["observations"]
      /\ U("reconstruction") = f["calibration"] \cup f["attachment"]
  BY <1>2, Unions
<1> HIDE DEF U
<1>5. (\A s \in O!Stage : f[s] = O!Hashed(s) \cup U(s)) <=>
        /\ f["ingest"] = O!Hashed("ingest") \cup U("ingest")
        /\ f["sync"] = O!Hashed("sync") \cup U("sync")
        /\ f["calibration"] = O!Hashed("calibration") \cup U("calibration")
        /\ f["observations"] = O!Hashed("observations") \cup U("observations")
        /\ f["attachment"] = O!Hashed("attachment") \cup U("attachment")
        /\ f["reconstruction"] = O!Hashed("reconstruction") \cup U("reconstruction")
        /\ f["ground"] = O!Hashed("ground") \cup U("ground")
        /\ f["parsing"] = O!Hashed("parsing") \cup U("parsing")
  BY Stages
<1>6. ASSUME NEW E PROVE {} \cup E = E /\ E \cup {} = E
  OBVIOUS
<1>7. Solves(f) <=> \A s \in O!Stage : f[s] = O!Hashed(s) \cup U(s)
  BY <1>1, <1>3, <1>4, <1>5, <1>6, SMTT(30) DEF Solves
<1> QED
  BY <1>7 DEF U

\* There is a solution, as no stage needs itself in the end.
LEMMA ConeSolves == Solves(O!Cone)
<1> DEFINE F(f) == [s \in O!Stage |-> O!Hashed(s) \cup UNION {f[r] : r \in O!Needs[s]}]
<1> DEFINE Value(s) ==
            IF s \in {"ingest", "observations"} THEN {"source"}
            ELSE IF s \in {"sync", "attachment"} THEN {"source", "sync"}
            ELSE IF s = "calibration" THEN {"source", "sync", "file"}
            ELSE IF s = "parsing" THEN {"source", "sync", "file", "reconstruction", "parsing"}
            ELSE {"source", "sync", "file", "reconstruction"}
<1>1. PICK c : c = [s \in O!Stage |-> Value(s)]
  OBVIOUS
<1>2. /\ c["ingest"] = {"source"} /\ c["sync"] = {"source", "sync"}
      /\ c["calibration"] = {"source", "sync", "file"} /\ c["observations"] = {"source"}
      /\ c["attachment"] = {"source", "sync"}
      /\ c["reconstruction"] = {"source", "sync", "file", "reconstruction"}
      /\ c["ground"] = {"source", "sync", "file", "reconstruction"}
      /\ c["parsing"] = {"source", "sync", "file", "reconstruction", "parsing"}
  BY <1>1, Stages
<1>3. c = [s \in O!Stage |-> c[s]]
  BY <1>1
<1> HIDE DEF Value
<1>4. Solves(c)
  BY <1>2 DEF Solves
<1>5. \A s \in O!Stage : c[s] = O!Hashed(s) \cup UNION {c[r] : r \in O!Needs[s]}
  BY <1>4, SolvesIsToSolve
<1>6. c = F(c)
  BY <1>3, <1>5
<1>7. O!Cone = CHOOSE f : f = F(f)
  BY DEF O!Cone
<1> HIDE DEF F
<1>8. O!Cone = F(O!Cone)
  BY <1>6, <1>7
<1>9. \A s \in O!Stage : O!Cone[s] = O!Hashed(s) \cup UNION {O!Cone[r] : r \in O!Needs[s]}
  BY <1>8 DEF F
<1> QED
  BY <1>9, SolvesIsToSolve

LEMMA Cones ==
    /\ O!Cone["ingest"] = {"source"} /\ O!Cone["observations"] = {"source"}
    /\ O!Cone["sync"] = {"source", "sync"} /\ O!Cone["attachment"] = {"source", "sync"}
    /\ O!Cone["calibration"] = {"source", "sync", "file"}
    /\ O!Cone["reconstruction"] = {"source", "sync", "file", "reconstruction"}
    /\ O!Cone["ground"] = {"source", "sync", "file", "reconstruction"}
    /\ O!Cone["parsing"] = {"source", "sync", "file", "reconstruction", "parsing"}
<1>1. O!Cone["ingest"] = {"source"} /\ O!Cone["observations"] = {"source"}
  BY ConeSolves DEF Solves
<1>2. O!Cone["sync"] = {"source", "sync"}
  BY <1>1, ConeSolves DEF Solves
<1>3. O!Cone["attachment"] = {"source", "sync"} /\ O!Cone["calibration"] = {"source", "sync", "file"}
  BY <1>1, <1>2, ConeSolves DEF Solves
<1>4. O!Cone["reconstruction"] = {"source", "sync", "file", "reconstruction"}
  BY <1>3, ConeSolves DEF Solves
<1>5. O!Cone["ground"] = {"source", "sync", "file", "reconstruction"}
  BY <1>4, ConeSolves DEF Solves
<1>6. O!Cone["parsing"] = {"source", "sync", "file", "reconstruction", "parsing"}
  BY <1>5, ConeSolves DEF Solves
<1> QED
  BY <1>1, <1>2, <1>3, <1>4, <1>5, <1>6

\* Keys tell apart stages, and inputs in their cones.
LEMMA KeysTell ==
    ASSUME NEW s \in O!Stage, NEW r \in O!Stage, NEW i, NEW j, O!Key(s, i) = O!Key(r, j)
    PROVE  s = r /\ \A x \in O!Cone[s] : i[x] = j[x]
<1>1. s = r /\ [x \in O!Cone[s] |-> i[x]] = [x \in O!Cone[r] |-> j[x]]
  BY DEF O!Key
<1> QED
  BY <1>1

\* What is made of a key is made of nothing else.
LEMMA KeysDetermine ==
    ASSUME NEW s \in O!Stage, NEW i, NEW j, O!Key(s, i) = O!Key(s, j)
    PROVE  Product(i)[s] = Product(j)[s]
<1>1. \A x \in O!Cone[s] : i[x] = j[x]
  BY KeysTell
<1>2. ASSUME NEW r \in O!Stage, \A x \in O!Cone[r] : i[x] = j[x]
      PROVE  O!Key(r, i) = O!Key(r, j)
  BY <1>2 DEF O!Key
<1>3. CASE s = "ingest"
  BY <1>3 DEF Product
<1>4. CASE s = "observations"
  <2>1. i.source = j.source
    BY <1>1, <1>4, Cones
  <2> QED
    BY <1>4, <2>1 DEF Product, WindowsOf
<1>5. CASE s \in {"sync", "attachment"}
  <2>1. i.source = j.source /\ O!Key("sync", i) = O!Key("sync", j)
    BY <1>1, <1>2, <1>5, Cones, Stages
  <2> QED
    BY <1>5, <2>1 DEF Product, SyncOf, AttachmentOf, WindowsOf
<1>6. CASE s = "calibration"
  <2>1. i.file = j.file
    BY <1>1, <1>6, Cones
  <2> QED
    BY <1>6, <2>1 DEF Product, CalibrationOf
<1>7. CASE s \in {"reconstruction", "ground", "parsing"}
  <2>1. /\ i.source = j.source /\ i.file = j.file /\ i.reconstruction = j.reconstruction
        /\ s = "parsing" => i.parsing = j.parsing
    BY <1>1, <1>7, Cones
  <2>2. O!Key("sync", i) = O!Key("sync", j)
    BY <1>1, <1>2, <1>7, Cones, Stages
  <2>3. O!Key("calibration", i) = O!Key("calibration", j)
    BY <1>1, <1>2, <1>7, Cones, Stages
  <2>4. MotionOf(i) = MotionOf(j) /\ CalibrationOf(i) = CalibrationOf(j)
    BY <2>1, <2>2, <2>3 DEF MotionOf, RawOf, CalibrationOf, AttachmentOf, WindowsOf, SyncOf
  <2>5. GroundOf(i) = GroundOf(j)
    BY <2>4 DEF GroundOf
  <2> QED
    BY <1>7, <2>1, <2>4, <2>5 DEF Product, SemanticsOf
<1> QED
  BY <1>3, <1>4, <1>5, <1>6, <1>7, Stages

-----------------------------------------------------------------------------
(* What the stages publish.                                                *)

\* What counts of what a stage hands on, a, and of all that it publishes, gain.
IsSound(which, a, gain) ==
    /\ a \in gain
    /\ \A x \in gain : Told(x)
    /\ which \in {"ingest", "sync", "calibration", "observations", "attachment"} => NoBody(gain)
    /\ which = "reconstruction" =>
        /\ BoundHolds(a)
        /\ \A b \in gain : Has(b, "bodyOf") => b = BodyOf(a)
    /\ which = "ground" => GroundIsOfItsMotion(a)
    /\ which = "parsing" => O!OnePast(a)

\* Of its key, if no file was edited since the key was made.
IsOfItsKey(which, a, gain) ==
    /\ a = Product(now)[which]
    /\ \A x \in gain : Has(x, "key") => which \in O!Inline /\ x = a

\* A stage that runs, the key that it has, and what it makes.
Makes(which, chain, gain) ==
    /\ run.at \in DOMAIN O!Order /\ which = O!Order[run.at]
    /\ O!Ready(which)
    /\ chain \in O!Published(which, O!Key(which, run.asked), now, run.handle)
    /\ gain = {chain[n] : n \in DOMAIN chain}

LEMMA Alone ==
    ASSUME NEW a, NEW chain, NEW gain, chain = <<a>>, gain = {chain[n] : n \in DOMAIN chain}
    PROVE  chain[1] = a /\ gain = {a}
  OBVIOUS

LEMMA IngestedIs ==
    ASSUME OfflineIInv, NEW chain, NEW gain, Makes("ingest", chain, gain)
    PROVE  IsSound("ingest", chain[1], gain) /\ (~torn => IsOfItsKey("ingest", chain[1], gain))
<1>1. PICK a : a = [key |-> O!Key("ingest", run.asked)] /\ chain = <<a>>
  BY DEF Makes, O!Published, O!Inline, O!Ingested, O!Checked
<1>2. chain[1] = a /\ gain = {a}
  BY <1>1, Alone DEF Makes
<1>3. DOMAIN a = {"key"}
  BY <1>1
<1>4. IsSound("ingest", a, {a})
  BY <1>3 DEF IsSound, Told, NoBody, Has
<1>5. ~torn => IsOfItsKey("ingest", a, {a})
  <2>1. ~torn => run.asked = now
    BY Stages DEF OfflineIInv, MadeOfTheirKeys, Makes
  <2> QED
    BY <1>1, <2>1 DEF IsOfItsKey, Product, O!Inline
<1> QED
  BY <1>2, <1>4, <1>5

LEMMA SynchronizedIs ==
    ASSUME OfflineIInv, NEW chain, NEW gain, Makes("sync", chain, gain)
    PROVE  IsSound("sync", chain[1], gain) /\ (~torn => IsOfItsKey("sync", chain[1], gain))
<1>1. PICK a : a = [key |-> O!Key("sync", run.asked), clockOf |-> now.source] /\ chain = <<a>>
  BY DEF Makes, O!Published, O!Inline, O!Synchronized
<1>2. chain[1] = a /\ gain = {a}
  BY <1>1, Alone DEF Makes
<1>3. DOMAIN a = {"key", "clockOf"}
  BY <1>1
<1>4. IsSound("sync", a, {a})
  BY <1>3 DEF IsSound, Told, NoBody, Has
<1>5. ~torn => IsOfItsKey("sync", a, {a})
  <2>1. ~torn => run.asked = now
    BY Stages DEF OfflineIInv, MadeOfTheirKeys, Makes
  <2> QED
    BY <1>1, <2>1 DEF IsOfItsKey, Product, SyncOf, O!Inline
<1> QED
  BY <1>2, <1>4, <1>5

LEMMA CalibratedIs ==
    ASSUME OfflineIInv, NEW chain, NEW gain, Makes("calibration", chain, gain)
    PROVE  IsSound("calibration", chain[1], gain) /\ (~torn => IsOfItsKey("calibration", chain[1], gain))
<1>1. PICK a : a = [key |-> O!Key("calibration", run.asked), file |-> now.file] /\ chain = <<a>>
  BY DEF Makes, O!Published, O!Inline, O!Calibrated, O!Checked
<1>2. chain[1] = a /\ gain = {a}
  BY <1>1, Alone DEF Makes
<1>3. DOMAIN a = {"key", "file"}
  BY <1>1
<1>4. IsSound("calibration", a, {a})
  BY <1>3 DEF IsSound, Told, NoBody, Has
<1>5. ~torn => IsOfItsKey("calibration", a, {a})
  <2>1. ~torn => run.asked = now
    BY Stages DEF OfflineIInv, MadeOfTheirKeys, Makes
  <2> QED
    BY <1>1, <2>1 DEF IsOfItsKey, Product, CalibrationOf, O!Inline
<1> QED
  BY <1>2, <1>4, <1>5

LEMMA ObservedIs ==
    ASSUME OfflineIInv, NEW chain, NEW gain, Makes("observations", chain, gain)
    PROVE  IsSound("observations", chain[1], gain) /\ (~torn => IsOfItsKey("observations", chain[1], gain))
<1>1. PICK a : a = [windowsOf |-> now.source] /\ chain = <<a>>
  BY DEF Makes, O!Published, O!Observed
<1>2. chain[1] = a /\ gain = {a}
  BY <1>1, Alone DEF Makes
<1>3. DOMAIN a = {"windowsOf"} /\ a = [windowsOf |-> a.windowsOf]
  BY <1>1
<1>4. IsSound("observations", a, {a})
  BY <1>3 DEF IsSound, Told, NoBody, Has
<1>5. IsOfItsKey("observations", a, {a})
  BY <1>1, <1>3 DEF IsOfItsKey, Product, WindowsOf, Has
<1> QED
  BY <1>2, <1>4, <1>5

\* The windows that are found have a clock of the same files.
LEMMA AttachedIs ==
    ASSUME OfflineIInv, NEW chain, NEW gain, Makes("attachment", chain, gain)
    PROVE  IsSound("attachment", chain[1], gain) /\ (~torn => IsOfItsKey("attachment", chain[1], gain))
<1>1. PICK w \in store : /\ DOMAIN w = {"windowsOf"}
                         /\ w.windowsOf = run.handle["sync"].clockOf
                         /\ chain = <<[windows |-> w, sync |-> run.handle["sync"]]>>
  BY DEF Makes, O!Published, O!Attached
<1>2. PICK a : a = [windows |-> w, sync |-> run.handle["sync"]] /\ chain = <<a>>
  BY <1>1
<1>3. chain[1] = a /\ gain = {a}
  BY <1>2, Alone DEF Makes
<1>4. DOMAIN a = {"windows", "sync"}
  BY <1>2
<1>5. IsSound("attachment", a, {a})
  BY <1>4 DEF IsSound, Told, NoBody, Has
<1>6. ASSUME ~torn PROVE IsOfItsKey("attachment", a, {a})
  <2>1. run.handle["sync"] = SyncOf(now)
    <3>1. run.handle["sync"] # None /\ "sync" \in O!Stage
      BY Stages DEF Makes, O!Ready, O!Needs
    <3> QED
      BY <1>6, <3>1 DEF OfflineIInv, MadeOfTheirKeys, HandIsOfNow, Product
  <2>2. w = WindowsOf(now)
    <3>1. w = [windowsOf |-> w.windowsOf]
      BY <1>1 DEF OfflineIInv, Told
    <3>2. w.windowsOf = now.source
      BY <1>1, <2>1 DEF SyncOf
    <3> QED
      BY <3>1, <3>2 DEF WindowsOf
  <2> QED
    BY <1>2, <1>4, <2>1, <2>2 DEF IsOfItsKey, Product, AttachmentOf, Has
<1> QED
  BY <1>3, <1>5, <1>6

LEMMA ReconstructedIs ==
    ASSUME OfflineIInv, NEW chain, NEW gain, Makes("reconstruction", chain, gain)
    PROVE  /\ IsSound("reconstruction", chain[1], gain)
           /\ ~torn => IsOfItsKey("reconstruction", chain[1], gain)
<1>1. PICK raw : raw = [calibration |-> run.handle["calibration"],
                        attachment |-> run.handle["attachment"]]
  OBVIOUS
<1>2. PICK a : a = [raw |-> raw, fit |-> now.reconstruction]
  OBVIOUS
<1>3. PICK b : b = [bodyOf |-> raw, fit |-> now.reconstruction]
  OBVIOUS
<1>4. /\ chain = <<a, b, raw>>
      /\ LET bound == Provision[run.handle["calibration"].file].sync
         IN  bound # None => bound = run.handle["attachment"].sync.key
  BY <1>1, <1>2, <1>3 DEF Makes, O!Published, O!Reconstructed, O!Checked
<1>5. chain[1] = a /\ gain = {a, b, raw}
  <2>1. DOMAIN chain = {1, 2, 3}
    BY <1>4
  <2> QED
    BY <1>4, <2>1 DEF Makes
<1>6. DOMAIN a = {"raw", "fit"} /\ DOMAIN b = {"bodyOf", "fit"} /\ DOMAIN raw = {"calibration", "attachment"}
  BY <1>1, <1>2, <1>3
<1>7. b = BodyOf(a)
  BY <1>2, <1>3 DEF BodyOf
<1>8. BoundHolds(a)
  BY <1>1, <1>2, <1>4 DEF BoundHolds
<1>9. IsSound("reconstruction", a, {a, b, raw})
  BY <1>6, <1>7, <1>8 DEF IsSound, Told, Has
<1>10. ASSUME ~torn PROVE IsOfItsKey("reconstruction", a, {a, b, raw})
  <2>1. /\ run.handle["calibration"] # None /\ run.handle["attachment"] # None
        /\ "calibration" \in O!Stage /\ "attachment" \in O!Stage
    BY Stages DEF Makes, O!Ready, O!Needs
  <2>2. run.handle["calibration"] = CalibrationOf(now) /\ run.handle["attachment"] = AttachmentOf(now)
    BY <1>10, <2>1 DEF OfflineIInv, MadeOfTheirKeys, HandIsOfNow, Product
  <2>3. a = MotionOf(now)
    BY <1>1, <1>2, <2>2 DEF MotionOf, RawOf
  <2> QED
    BY <1>6, <2>3 DEF IsOfItsKey, Product, Has
<1> QED
  BY <1>5, <1>9, <1>10

\* The body that is found is that of the motion at hand; a calibration of the
\* key at hand is the one that was handed to the reconstruction.
LEMMA GroundedIs ==
    ASSUME OfflineIInv, NEW chain, NEW gain, Makes("ground", chain, gain)
    PROVE  IsSound("ground", chain[1], gain) /\ (~torn => IsOfItsKey("ground", chain[1], gain))
<1>1. PICK motion : motion = run.handle["reconstruction"]
  OBVIOUS
<1>2. PICK x \in O!Calibrations(now) \X O!Bodies :
        /\ Provision[x[1].file].id = Provision[motion.raw.calibration.file].id
        /\ chain = <<[motion |-> motion, calibration |-> x[1], body |-> x[2]]>>
  BY <1>1 DEF Makes, O!Published, O!Grounded
<1>3. PICK a : a = [motion |-> motion, calibration |-> x[1], body |-> x[2]] /\ chain = <<a>>
  BY <1>2
<1>4. chain[1] = a /\ gain = {a}
  BY <1>3, Alone DEF Makes
<1>5. DOMAIN a = {"motion", "calibration", "body"}
  BY <1>3
<1>6. /\ motion # None /\ record["reconstruction"].artifact = motion
      /\ MotionIsSound(record["reconstruction"])
  BY <1>1 DEF Makes, O!Ready, O!Needs, OfflineIInv, HandsAreSound
<1>7. x[2] = BodyOf(motion)
  BY <1>2, <1>6 DEF O!Bodies, MotionIsSound, Has
<1>8. BoundHolds(motion)
  BY <1>6 DEF MotionIsSound
<1>9. GroundIsOfItsMotion(a)
  BY <1>2, <1>3, <1>7, <1>8 DEF GroundIsOfItsMotion
<1>10. IsSound("ground", a, {a})
  BY <1>5, <1>9 DEF IsSound, Told, Has
<1>11. ASSUME ~torn PROVE IsOfItsKey("ground", a, {a})
  <2>1. motion = MotionOf(now)
    BY <1>1, <1>6, <1>11, Stages DEF OfflineIInv, MadeOfTheirKeys, HandIsOfNow, Product
  <2>2. x[1] = CalibrationOf(now)
    <3>1. x[1] \in store /\ Has(x[1], "key") /\ x[1].key = O!Key("calibration", now)
      BY <1>2 DEF O!Calibrations, OfflineIInv, Told, Has
    <3>2. PICK s \in O!Inline : \E i : x[1] = Product(i)[s]
      BY <1>11, <3>1 DEF OfflineIInv, MadeOfTheirKeys, StoreIsOfItsKeys
    <3> PICK i : x[1] = Product(i)[s]
      BY <3>2
    <3>3. x[1].key = O!Key(s, i)
      BY DEF O!Inline, Product, SyncOf, CalibrationOf
    <3>4. s = "calibration"
      BY <3>1, <3>3 DEF O!Key
    <3>5. Product(i)["calibration"] = Product(now)["calibration"]
      BY <3>1, <3>3, <3>4, KeysDetermine, Stages
    <3> QED
      BY <3>4, <3>5 DEF Product
  <2> QED
    BY <1>3, <1>5, <1>7, <2>1, <2>2 DEF IsOfItsKey, Product, GroundOf, Has
<1> QED
  BY <1>4, <1>10, <1>11

LEMMA ParsedIs ==
    ASSUME OfflineIInv, NEW chain, NEW gain, Makes("parsing", chain, gain)
    PROVE  IsSound("parsing", chain[1], gain) /\ (~torn => IsOfItsKey("parsing", chain[1], gain))
<1>1. PICK motion, ground : motion = record["reconstruction"].artifact /\ ground = run.handle["ground"]
  OBVIOUS
<1>2. PICK a : a = [motion |-> motion, ground |-> ground, rules |-> now.parsing] /\ chain = <<a>>
  BY <1>1 DEF Makes, O!Published, O!Parsed, O!Checked
<1>3. ground.motion = motion
  BY <1>1 DEF Makes, O!Published, O!Parsed, O!Checked
<1>4. chain[1] = a /\ gain = {a}
  BY <1>2, Alone DEF Makes
<1>5. DOMAIN a = {"motion", "ground", "rules"}
  BY <1>2
<1>6. ground # None /\ GroundIsOfItsMotion(ground)
  BY <1>1 DEF Makes, O!Ready, O!Needs, OfflineIInv, HandsAreSound
<1>7. O!OnePast(a)
  BY <1>2, <1>3, <1>6 DEF O!OnePast, GroundIsOfItsMotion, BoundHolds, BodyOf
<1>8. IsSound("parsing", a, {a})
  BY <1>5, <1>7 DEF IsSound, Told, Has
<1>9. ASSUME ~torn PROVE IsOfItsKey("parsing", a, {a})
  <2>1. ground = GroundOf(now)
    BY <1>1, <1>6, <1>9, Stages DEF OfflineIInv, MadeOfTheirKeys, HandIsOfNow, Product
  <2>2. motion = MotionOf(now)
    BY <1>3, <2>1 DEF GroundOf
  <2> QED
    BY <1>2, <1>5, <2>1, <2>2 DEF IsOfItsKey, Product, SemanticsOf, Has
<1> QED
  BY <1>4, <1>8, <1>9

LEMMA PublishedIs ==
    ASSUME OfflineIInv, NEW which, NEW chain, NEW gain, Makes(which, chain, gain)
    PROVE  IsSound(which, chain[1], gain) /\ (~torn => IsOfItsKey(which, chain[1], gain))
<1>1. which \in O!Stage
  BY DEF Makes, O!Stage
<1> QED
  BY <1>1, Stages, IngestedIs, SynchronizedIs, CalibratedIs, ObservedIs, AttachedIs, ReconstructedIs,
     GroundedIs, ParsedIs

-----------------------------------------------------------------------------
(* The steps of an analysis.                                               *)

LEMMA Handled ==
    ASSUME RunIsTyped, run.at \in DOMAIN O!Order, NEW which, which = O!Order[run.at],
           NEW a, NEW opened, O!Handle(which, a, opened)
    PROVE  /\ run' = [at |-> run'.at, asked |-> run'.asked, handle |-> run'.handle, opened |-> run'.opened]
           /\ run'.at = run.at + 1 /\ run'.at \in 1..9 /\ run.at \in 1..8 /\ run'.asked = run.asked
           /\ run'.opened = run.opened \cup {a} \cup opened
           /\ run'.handle = [s \in O!Stage |-> run'.handle[s]]
           /\ which \in O!Stage /\ run'.handle[which] = a
           /\ \A s \in O!Stage : s # which => run'.handle[s] = run.handle[s]
<1>1. PICK h : h = [run.handle EXCEPT ![which] = a]
  OBVIOUS
<1>2. run' = [at |-> run.at + 1, asked |-> run.asked, handle |-> h,
              opened |-> run.opened \cup {a} \cup opened]
  BY <1>1 DEF O!Handle
<1>3. which \in O!Stage /\ run.at \in 1..8
  BY Stages DEF O!Stage
<1>4. h = [s \in O!Stage |-> h[s]] /\ h[which] = a /\ \A s \in O!Stage : s # which => h[s] = run.handle[s]
  BY <1>1, <1>3 DEF RunIsTyped
<1> QED
  BY <1>2, <1>3, <1>4

LEMMA StageIs ==
    ASSUME run.at \in DOMAIN O!Order, NEW which, which = O!Order[run.at]
    PROVE  /\ which \in O!Stage /\ run.at \in 1..8
           /\ run.at <= 5 <=> which \in {"ingest", "sync", "calibration", "observations", "attachment"}
           /\ run.at = 6 <=> which = "reconstruction"
           /\ which \in O!Publishing <=> which \notin O!Inline
  BY Stages DEF O!Publishing

LEMMA ReuseKeeps ==
    ASSUME OfflineIInv, run.at \in DOMAIN O!Order, NEW which, which = O!Order[run.at],
           O!Reuse(which, O!Key(which, run.asked)), UNCHANGED <<now, torn>>
    PROVE  OfflineIInv'
<1>1. PICK a \in O!Reusable(which, O!Key(which, run.asked)) :
        O!Handle(which, a, O!Lineage(which)) /\ UNCHANGED <<store, record>>
  BY DEF O!Reuse
<1>2. RunIsTyped /\ NoBodyIsEarly /\ HandsAreSound /\ \A x \in store : Told(x)
  BY DEF OfflineIInv
<1>3. /\ run' = [at |-> run'.at, asked |-> run'.asked, handle |-> run'.handle, opened |-> run'.opened]
      /\ run'.at = run.at + 1 /\ run'.at \in 1..9 /\ run'.asked = run.asked
      /\ run'.opened = run.opened \cup {a} \cup O!Lineage(which)
      /\ run'.handle = [s \in O!Stage |-> run'.handle[s]]
      /\ which \in O!Stage /\ run'.handle[which] = a
      /\ \A s \in O!Stage : s # which => run'.handle[s] = run.handle[s]
  BY <1>1, <1>2, Handled
<1>4. RunIsTyped'
  BY <1>1, <1>2, <1>3 DEF RunIsTyped
<1>5. a \in store
  BY DEF O!Reusable
<1>6. which \notin O!Inline => record[which] # None /\ record[which].artifact = a
                             /\ record[which].request = O!Key(which, run.asked)
  BY DEF O!Reusable
<1>7. which \in O!Inline => Has(a, "key") /\ a.key = O!Key(which, run.asked)
  BY DEF O!Reusable, Has
<1>8. NoBodyIsEarly'
  <2>1. ASSUME run'.at <= 6 PROVE NoBody(run'.opened)
    <3>1. run.at <= 5
      BY <1>3, <2>1, StageIs
    <3>2. NoBody(run.opened)
      BY <1>2, <3>1, StageIs DEF NoBodyIsEarly
    <3>3. CASE which \in O!Inline
      <4>1. ~Has(a, "bodyOf") /\ O!Lineage(which) = {}
        BY <1>2, <1>5, <1>7, <3>3 DEF Told, O!Lineage
      <4> QED
        BY <1>3, <3>2, <4>1 DEF NoBody
    <3>4. CASE which \in {"observations", "attachment"}
      <4>1. a \in record[which].lineage /\ NoBody(record[which].lineage) /\ O!Lineage(which) = record[which].lineage
        BY <1>2, <1>6, <3>4 DEF NoBodyIsEarly, O!Lineage, O!Inline
      <4> QED
        BY <1>3, <3>2, <4>1 DEF NoBody
    <3> QED
      BY <3>1, <3>3, <3>4, StageIs DEF O!Inline
  <2> QED
    BY <1>1, <1>2, <2>1 DEF NoBodyIsEarly, NoBody
<1>9. HandsAreSound'
  <2>1. run'.handle["reconstruction"] # None =>
            /\ record["reconstruction"].artifact = run'.handle["reconstruction"]
            /\ MotionIsSound(record["reconstruction"])
    BY <1>2, <1>3, <1>6, Stages DEF HandsAreSound, O!Inline
  <2>2. run'.handle["ground"] # None => GroundIsOfItsMotion(run'.handle["ground"])
    BY <1>2, <1>3, <1>6, Stages DEF HandsAreSound, O!Inline
  <2> QED
    BY <1>1, <1>2, <2>1, <2>2 DEF HandsAreSound, MotionIsSound, GroundIsOfItsMotion, BoundHolds, BodyOf, Has
<1>10. O!OnePastOnRecord'
  BY <1>1 DEF OfflineIInv, O!OnePastOnRecord, O!OnePast
<1>11. ASSUME ~torn PROVE MadeOfTheirKeys'
  <2>1. MadeOfTheirKeys /\ run.asked = now
    BY <1>11, StageIs DEF OfflineIInv, MadeOfTheirKeys
  <2>2. \E i : O!Key(which, i) = O!Key(which, now) /\ a = Product(i)[which]
    <3>1. CASE which \in O!Inline
      <4>1. PICK s \in O!Inline : \E i : a = Product(i)[s]
        BY <1>5, <1>7, <2>1, <3>1 DEF MadeOfTheirKeys, StoreIsOfItsKeys
      <4>2. PICK i : a = Product(i)[s]
        BY <4>1
      <4>3. a.key = O!Key(s, i)
        BY <4>2 DEF O!Inline, Product, SyncOf, CalibrationOf
      <4> QED
        BY <1>7, <2>1, <3>1, <4>2, <4>3 DEF O!Key
    <3>2. CASE which \notin O!Inline
      <4>1. which \in O!Publishing
        BY <1>3, <3>2 DEF O!Publishing
      <4> QED
        BY <1>6, <2>1, <3>2, <4>1 DEF MadeOfTheirKeys, RecordIsOfItsKeys
    <3> QED
      BY <3>1, <3>2
  <2>3. a = Product(now)[which]
    BY <1>3, <2>2, KeysDetermine
  <2>4. \A s \in O!Stage : run'.handle[s] # None => run'.handle[s] = Product(now)[s]
    BY <1>3, <2>1, <2>3 DEF MadeOfTheirKeys, HandIsOfNow
  <2>5. HandIsOfNow'
    BY <2>4 DEF HandIsOfNow
  <2>6. RecordIsOfItsKeys' /\ StoreIsOfItsKeys'
    BY <1>1, <2>1 DEF MadeOfTheirKeys, RecordIsOfItsKeys, StoreIsOfItsKeys, Has
  <2> QED
    BY <1>3, <2>1, <2>5, <2>6 DEF MadeOfTheirKeys
<1> QED
  BY <1>1, <1>2, <1>4, <1>8, <1>9, <1>10, <1>11 DEF OfflineIInv, Told, Has

LEMMA ProduceKeeps ==
    ASSUME OfflineIInv, run.at \in DOMAIN O!Order, NEW which, which = O!Order[run.at], O!Ready(which),
           O!Produce(which, O!Key(which, run.asked)), UNCHANGED <<now, torn>>
    PROVE  OfflineIInv'
<1>1. PICK chain \in O!Published(which, O!Key(which, run.asked), now, run.handle) :
        LET gain == {chain[n] : n \in DOMAIN chain} IN
        /\ store' = store \cup gain
        /\ O!Handle(which, chain[1], gain)
        /\ record' = IF which \in O!Inline THEN record
                     ELSE [record EXCEPT ![which] =
                            [request |-> O!Key(which, run.asked), artifact |-> chain[1],
                             lineage |-> IF which = "observations" THEN gain ELSE run.opened \cup gain]]
  BY DEF O!Produce
<1>2. PICK a, gain, new :
        /\ a = chain[1] /\ gain = {chain[n] : n \in DOMAIN chain}
        /\ new = [request |-> O!Key(which, run.asked), artifact |-> a,
                  lineage |-> IF which = "observations" THEN gain ELSE run.opened \cup gain]
  OBVIOUS
<1>3. /\ store' = store \cup gain /\ O!Handle(which, a, gain)
      /\ record' = IF which \in O!Inline THEN record ELSE [record EXCEPT ![which] = new]
  BY <1>1, <1>2
<1>4. Makes(which, chain, gain)
  BY <1>1, <1>2 DEF Makes
<1>5. IsSound(which, a, gain) /\ (~torn => IsOfItsKey(which, a, gain))
  BY <1>2, <1>4, PublishedIs
<1>6. RunIsTyped /\ NoBodyIsEarly /\ HandsAreSound /\ \A x \in store : Told(x)
  BY DEF OfflineIInv
<1>7. /\ run' = [at |-> run'.at, asked |-> run'.asked, handle |-> run'.handle, opened |-> run'.opened]
      /\ run'.at = run.at + 1 /\ run'.at \in 1..9 /\ run'.asked = run.asked
      /\ run'.opened = run.opened \cup {a} \cup gain
      /\ run'.handle = [s \in O!Stage |-> run'.handle[s]]
      /\ which \in O!Stage /\ run'.handle[which] = a
      /\ \A s \in O!Stage : s # which => run'.handle[s] = run.handle[s]
  BY <1>3, <1>6, Handled
<1>8. /\ record' = [s \in O!Publishing |-> record'[s]]
      /\ \A s \in O!Publishing : record'[s] = IF s = which THEN new ELSE record[s]
  BY <1>3, <1>6, <1>7 DEF RunIsTyped, O!Publishing
<1>9. RunIsTyped'
  BY <1>6, <1>7, <1>8 DEF RunIsTyped
<1>10. \A x \in store' : Told(x)
  BY <1>3, <1>5, <1>6 DEF IsSound
<1>11. /\ new.artifact = a /\ new.request = O!Key(which, run.asked)
       /\ new.lineage = IF which = "observations" THEN gain ELSE run.opened \cup gain
  BY <1>2
<1>12. run.at <= 5 => NoBody(gain) /\ NoBody(run.opened)
  BY <1>5, <1>6, StageIs DEF IsSound, NoBodyIsEarly
<1>13. NoBodyIsEarly'
  <2>1. run'.at <= 6 => NoBody(run'.opened)
    <3>1. run'.at <= 6 => run.at <= 5
      BY <1>7, StageIs
    <3> QED
      BY <1>5, <1>7, <1>12, <3>1 DEF NoBody, IsSound
  <2>2. ASSUME NEW s \in {"observations", "attachment"}, record'[s] # None
        PROVE  record'[s].artifact \in record'[s].lineage /\ NoBody(record'[s].lineage)
    <3>1. s \in O!Publishing
      BY Stages
    <3>2. CASE s # which
      BY <1>6, <1>8, <2>2, <3>1, <3>2 DEF NoBodyIsEarly
    <3>3. CASE s = which
      <4>1. record'[s] = new /\ run.at <= 5
        BY <1>8, <2>2, <3>1, <3>3, StageIs
      <4> QED
        BY <1>5, <1>11, <1>12, <4>1 DEF NoBody, IsSound
    <3> QED
      BY <3>2, <3>3
  <2> QED
    BY <2>1, <2>2 DEF NoBodyIsEarly, NoBody, Has
<1>14. HandsAreSound'
  <2>1. "reconstruction" \in O!Publishing /\ "ground" \in O!Publishing
        /\ "reconstruction" \in O!Stage /\ "ground" \in O!Stage
    BY Stages
  <2>2. record'["reconstruction"] # None \/ run'.handle["reconstruction"] # None =>
            MotionIsSound(record'["reconstruction"])
    <3>1. CASE which # "reconstruction"
      BY <1>6, <1>7, <1>8, <2>1, <3>1 DEF HandsAreSound
    <3>2. CASE which = "reconstruction"
      <4>1. record'["reconstruction"] = new /\ NoBody(run.opened)
        BY <1>6, <1>8, <2>1, <3>2, StageIs DEF NoBodyIsEarly
      <4>2. new.artifact = a /\ new.lineage = run.opened \cup gain
        BY <1>11, <3>2
      <4> QED
        BY <1>5, <3>2, <4>1, <4>2 DEF IsSound, MotionIsSound, NoBody
    <3> QED
      BY <3>1, <3>2
  <2>3. record'["ground"] # None => GroundIsOfItsMotion(record'["ground"].artifact)
    BY <1>5, <1>6, <1>8, <1>11, <2>1 DEF IsSound, HandsAreSound
  <2>4. run'.handle["ground"] # None => GroundIsOfItsMotion(run'.handle["ground"])
    BY <1>5, <1>6, <1>7, <2>1 DEF IsSound, HandsAreSound
  <2>5. run'.handle["reconstruction"] # None =>
            record'["reconstruction"].artifact = run'.handle["reconstruction"]
    BY <1>6, <1>7, <1>8, <1>11, <2>1 DEF HandsAreSound
  <2> QED
    BY <2>2, <2>3, <2>4, <2>5 DEF HandsAreSound, MotionIsSound, GroundIsOfItsMotion, BoundHolds, BodyOf, Has
<1>15. O!OnePastOnRecord'
  <2>1. record'["parsing"] # None => O!OnePast(record'["parsing"].artifact)
    BY <1>5, <1>8, <1>11, Stages DEF OfflineIInv, O!OnePastOnRecord, IsSound
  <2> QED
    BY <2>1 DEF O!OnePastOnRecord, O!OnePast
<1>16. ASSUME ~torn PROVE MadeOfTheirKeys'
  <2>1. MadeOfTheirKeys /\ run.asked = now /\ IsOfItsKey(which, a, gain)
    BY <1>5, <1>16, StageIs DEF OfflineIInv, MadeOfTheirKeys
  <2>2. \A s \in O!Stage : run'.handle[s] # None => run'.handle[s] = Product(now)[s]
    BY <1>7, <2>1 DEF MadeOfTheirKeys, HandIsOfNow, IsOfItsKey
  <2>3. ASSUME NEW s \in O!Publishing, record'[s] # None
        PROVE  \E i : record'[s].request = O!Key(s, i) /\ record'[s].artifact = Product(i)[s]
    <3>1. CASE s # which
      BY <1>8, <2>1, <2>3, <3>1 DEF MadeOfTheirKeys, RecordIsOfItsKeys
    <3>2. CASE s = which
      <4>1. record'[s].request = O!Key(s, now) /\ record'[s].artifact = Product(now)[s]
        BY <1>8, <1>11, <2>1, <2>3, <3>2 DEF IsOfItsKey
      <4> QED
        BY <4>1
    <3> QED
      BY <3>1, <3>2
  <2>4. ASSUME NEW x \in store', Has(x, "key")
        PROVE  \E s \in O!Inline : \E i : x = Product(i)[s]
    BY <1>3, <2>1, <2>4 DEF MadeOfTheirKeys, StoreIsOfItsKeys, IsOfItsKey
  <2>5. HandIsOfNow'
    BY <2>2 DEF HandIsOfNow
  <2>6. RecordIsOfItsKeys'
    BY <2>3 DEF RecordIsOfItsKeys
  <2>7. StoreIsOfItsKeys'
    BY <2>4 DEF StoreIsOfItsKeys, Has
  <2> QED
    BY <1>7, <2>1, <2>5, <2>6, <2>7 DEF MadeOfTheirKeys
<1> QED
  BY <1>6, <1>9, <1>10, <1>13, <1>14, <1>15, <1>16 DEF OfflineIInv, Told, Has

LEMMA GoWithoutKeeps ==
    ASSUME OfflineIInv, run.at \in DOMAIN O!Order, NEW which, which = O!Order[run.at],
           O!GoWithout(which, O!Key(which, run.asked)), UNCHANGED <<now, torn>>
    PROVE  OfflineIInv'
<1>1. RunIsTyped /\ run.at \in 1..8
  BY StageIs DEF OfflineIInv
<1>2. /\ run' = [at |-> run.at + 1, asked |-> run.asked, handle |-> run.handle, opened |-> run.opened]
      /\ UNCHANGED <<store, record>>
  <2>1. run' = [run EXCEPT !.at = run.at + 1] /\ UNCHANGED <<store, record>>
    BY DEF O!GoWithout
  <2>2. run = [at |-> run.at, asked |-> run.asked, handle |-> run.handle, opened |-> run.opened]
    BY <1>1 DEF RunIsTyped
  <2>3. [run EXCEPT !.at = run.at + 1] =
            [at |-> run.at + 1, asked |-> run.asked, handle |-> run.handle, opened |-> run.opened]
    BY <2>2
  <2> QED
    BY <2>1, <2>3
<1>3. run'.at = run.at + 1 /\ run'.asked = run.asked /\ run'.handle = run.handle /\ run'.opened = run.opened
  BY <1>2
<1>4. RunIsTyped'
  BY <1>1, <1>2 DEF RunIsTyped
<1>5. NoBodyIsEarly' /\ HandsAreSound'
  <2>1. run'.at <= 6 => run.at <= 6
    BY <1>1, <1>3
  <2> QED
    BY <1>2, <1>3, <2>1 DEF OfflineIInv, NoBodyIsEarly, NoBody, HandsAreSound, MotionIsSound,
        GroundIsOfItsMotion, BoundHolds, BodyOf, Has
<1>6. ~torn => MadeOfTheirKeys'
  <2>1. run.at # 0
    BY <1>1
  <2> QED
    BY <1>2, <1>3, <2>1
    DEF OfflineIInv, MadeOfTheirKeys, HandIsOfNow, RecordIsOfItsKeys, StoreIsOfItsKeys, Has
<1> QED
  BY <1>2, <1>4, <1>5, <1>6 DEF OfflineIInv, O!OnePastOnRecord, O!OnePast, Told, Has

LEMMA RunStageKeeps ==
    ASSUME OfflineIInv, O!RunStage
    PROVE  OfflineIInv'
<1>1. PICK which : which = O!Order[run.at]
  OBVIOUS
<1>2. /\ run.at \in DOMAIN O!Order /\ UNCHANGED <<now, torn>>
      /\ \/ O!Ready(which) /\ O!Reuse(which, O!Key(which, run.asked))
         \/ O!Ready(which) /\ O!Produce(which, O!Key(which, run.asked))
         \/ O!GoWithout(which, O!Key(which, run.asked))
  BY <1>1 DEF O!RunStage
<1> QED
  BY <1>1, <1>2, ReuseKeeps, ProduceKeeps, GoWithoutKeeps

LEMMA NothingAtHand ==
    /\ O!NoHandle = [s \in O!Stage |-> O!NoHandle[s]]
    /\ \A s \in O!Stage : O!NoHandle[s] = None
    /\ "reconstruction" \in O!Stage /\ "ground" \in O!Stage
  BY Stages DEF O!NoHandle

\* An analysis begins and ends with nothing at hand.
LEMMA EndsKeep ==
    ASSUME OfflineIInv, UNCHANGED <<now, store, record, torn>>, NEW at \in {0, 1}, NEW asked,
           run' = [at |-> at, asked |-> asked, handle |-> O!NoHandle, opened |-> {}],
           at = 1 => asked = now
    PROVE  OfflineIInv'
<1>1. run'.at = at /\ run'.asked = asked /\ run'.handle = O!NoHandle /\ run'.opened = {}
  OBVIOUS
<1>2. RunIsTyped'
  BY <1>1, NothingAtHand DEF OfflineIInv, RunIsTyped
<1>3. NoBodyIsEarly' /\ HandsAreSound'
  BY <1>1, NothingAtHand
  DEF OfflineIInv, NoBodyIsEarly, NoBody, HandsAreSound, MotionIsSound, GroundIsOfItsMotion, BoundHolds,
      BodyOf, Has
<1>4. ~torn => MadeOfTheirKeys'
  BY <1>1, NothingAtHand
  DEF OfflineIInv, MadeOfTheirKeys, HandIsOfNow, RecordIsOfItsKeys, StoreIsOfItsKeys, Has
<1> QED
  BY <1>2, <1>3, <1>4 DEF OfflineIInv, O!OnePastOnRecord, O!OnePast, Told, Has

\* A file is edited between analyses, or tears the one that runs.
LEMMA OfflineChangeKeeps ==
    ASSUME OfflineIInv, UNCHANGED <<store, record, run>>,
           \/ run.at = 0 /\ torn' = torn
           \/ torn' = (torn \/ run.at # 0)
    PROVE  OfflineIInv'
<1>1. RunIsTyped /\ torn' \in BOOLEAN /\ (~torn' => ~torn /\ run.at = 0)
  BY DEF OfflineIInv, RunIsTyped
<1>2. RunIsTyped'
  BY <1>1 DEF RunIsTyped
<1>3. NoBodyIsEarly' /\ HandsAreSound'
  BY DEF OfflineIInv, NoBodyIsEarly, NoBody, HandsAreSound, MotionIsSound, GroundIsOfItsMotion, BoundHolds,
      BodyOf, Has
<1>4. ASSUME ~torn' PROVE MadeOfTheirKeys'
  <2>1. run.at = 0 /\ run.handle = O!NoHandle /\ MadeOfTheirKeys
    BY <1>1, <1>4 DEF OfflineIInv, RunIsTyped
  <2> QED
    BY <2>1, NothingAtHand
    DEF MadeOfTheirKeys, HandIsOfNow, RecordIsOfItsKeys, StoreIsOfItsKeys, Has
<1> QED
  BY <1>2, <1>3, <1>4 DEF OfflineIInv, O!OnePastOnRecord, O!OnePast, Told, Has

LEMMA LoseKeeps ==
    ASSUME OfflineIInv, NEW a \in store, O!Lose(a)
    PROVE  OfflineIInv'
<1>1. store' = store \ {a} /\ UNCHANGED <<now, record, run, torn>>
  BY DEF O!Lose
<1>2. RunIsTyped'
  BY <1>1 DEF OfflineIInv, RunIsTyped
<1>3. NoBodyIsEarly' /\ HandsAreSound'
  BY <1>1 DEF OfflineIInv, NoBodyIsEarly, NoBody, HandsAreSound, MotionIsSound, GroundIsOfItsMotion,
      BoundHolds, BodyOf, Has
<1>4. ~torn => MadeOfTheirKeys'
  BY <1>1 DEF OfflineIInv, MadeOfTheirKeys, HandIsOfNow, RecordIsOfItsKeys, StoreIsOfItsKeys, Has
<1> QED
  BY <1>1, <1>2, <1>3, <1>4 DEF OfflineIInv, O!OnePastOnRecord, O!OnePast, Told, Has

-----------------------------------------------------------------------------
(* The invariant, and what follows from it.                                *)

LEMMA OfflineBegins == O!Init => OfflineIInv
<1> SUFFICES ASSUME O!Init PROVE OfflineIInv
  OBVIOUS
<1>1. /\ store = {} /\ record = [s \in O!Publishing |-> None] /\ run = O!Resting /\ torn = FALSE
      /\ \A s \in O!Publishing : record[s] = None
  BY DEF O!Init
<1>2. run = [at |-> 0, asked |-> None, handle |-> O!NoHandle, opened |-> {}]
  BY <1>1 DEF O!Resting
<1>3. RunIsTyped
  <2>1. run.at = 0 /\ run.asked = None /\ run.handle = O!NoHandle /\ run.opened = {}
    BY <1>2
  <2>2. record = [s \in O!Publishing |-> record[s]]
    BY <1>1
  <2>3. run = [at |-> run.at, asked |-> run.asked, handle |-> run.handle, opened |-> run.opened]
    BY <1>2
  <2>4. run.handle = [s \in O!Stage |-> run.handle[s]]
    BY <2>1, NothingAtHand
  <2>5. run.at \in 0..9
    BY <2>1
  <2>6. torn \in BOOLEAN
    BY <1>1, Zenon
  <2> QED
    BY <2>1, <2>2, <2>3, <2>4, <2>5, <2>6 DEF RunIsTyped
<1>4. NoBodyIsEarly /\ HandsAreSound /\ O!OnePastOnRecord
  BY <1>1, <1>2, NothingAtHand, Stages DEF NoBodyIsEarly, NoBody, HandsAreSound, O!OnePastOnRecord
<1>5. MadeOfTheirKeys
  BY <1>1, <1>2, NothingAtHand DEF MadeOfTheirKeys, HandIsOfNow, RecordIsOfItsKeys, StoreIsOfItsKeys
<1> QED
  BY <1>1, <1>3, <1>4, <1>5 DEF OfflineIInv

LEMMA OfflineKeeps == OfflineIInv /\ [O!Next]_(O!vars) => OfflineIInv'
<1> SUFFICES ASSUME OfflineIInv, [O!Next]_(O!vars) PROVE OfflineIInv'
  OBVIOUS
<1>1. CASE UNCHANGED O!vars
  <2>1. UNCHANGED <<now, store, record, run, torn>>
    BY <1>1 DEF O!vars
  <2>2. RunIsTyped' /\ NoBodyIsEarly' /\ HandsAreSound'
    BY <2>1 DEF OfflineIInv, RunIsTyped, NoBodyIsEarly, NoBody, HandsAreSound, MotionIsSound,
        GroundIsOfItsMotion, BoundHolds, BodyOf, Has
  <2>3. ~torn => MadeOfTheirKeys'
    BY <2>1 DEF OfflineIInv, MadeOfTheirKeys, HandIsOfNow, RecordIsOfItsKeys, StoreIsOfItsKeys, Has
  <2> QED
    BY <2>1, <2>2, <2>3 DEF OfflineIInv, O!OnePastOnRecord, O!OnePast, Told, Has
<1>2. CASE O!Begin
  <2>1. /\ UNCHANGED <<now, store, record, torn>>
        /\ run' = [at |-> 1, asked |-> now, handle |-> O!NoHandle, opened |-> {}]
    BY <1>2 DEF O!Begin, O!Resting
  <2> QED
    BY <2>1, EndsKeep
<1>3. CASE O!End \/ O!CutShort
  <2>1. /\ UNCHANGED <<now, store, record, torn>>
        /\ run' = [at |-> 0, asked |-> None, handle |-> O!NoHandle, opened |-> {}]
    BY <1>3 DEF O!End, O!CutShort, O!Resting
  <2> QED
    BY <2>1, EndsKeep
<1>4. CASE O!RunStage
  BY <1>4, RunStageKeeps
<1>5. CASE O!EditFile \/ O!Configure
  BY <1>5, OfflineChangeKeeps DEF O!EditFile, O!Configure, O!Change
<1>6. CASE \E a \in store : O!Lose(a)
  BY <1>6, LoseKeeps
<1> QED
  BY <1>1, <1>2, <1>3, <1>4, <1>5, <1>6 DEF O!Next

\* Files, store, records and the artifacts that an analysis has at hand always
\* agree, for any sources, calibration files, edits and faults
\* (pipeline/offline.py).
THEOREM OfflineIsSound == O!Spec => []OfflineIInv
  BY OfflineBegins, OfflineKeeps, PTL DEF O!Spec

\* Two stages that are complete have products of the present inputs.
LEMMA CompleteIsOfNow ==
    ASSUME MadeOfTheirKeys, NEW which \in O!Publishing, O!Complete(which)
    PROVE  record[which].artifact = Product(now)[which]
<1>1. PICK i : record[which].request = O!Key(which, i) /\ record[which].artifact = Product(i)[which]
  BY DEF MadeOfTheirKeys, RecordIsOfItsKeys, O!Complete
<1>2. O!Key(which, i) = O!Key(which, now)
  BY <1>1 DEF O!Complete, O!KeyNow
<1> QED
  BY <1>1, <1>2, KeysDetermine DEF O!Publishing

\* Whatever is edited, lost or cut short: every product on record has one
\* motion, one body, one calibration id and one clock; and what the journal
\* shows as complete is what the present files and settings make, unless a
\* file was edited under an analysis (pipeline/offline.py: OfflinePublishers).
THEOREM RecordIsAlwaysTrue == O!Spec => []RecordIsTrue
<1>1. OfflineIInv => RecordIsTrue
  <2> SUFFICES ASSUME OfflineIInv, ~torn, O!Complete("parsing"), O!Complete("ground"), O!Complete("reconstruction")
               PROVE  LET semantics == record["parsing"].artifact
                          motion == record["reconstruction"].artifact
                          raw == motion.raw
                      IN
                      /\ semantics.rules = now.parsing
                      /\ semantics.motion = motion
                      /\ record["ground"].artifact = semantics.ground
                      /\ motion.fit = now.reconstruction
                      /\ raw.calibration.file = now.file
                      /\ raw.attachment = [windows |-> [windowsOf |-> now.source],
                                           sync |-> [key |-> O!KeyNow("sync"), clockOf |-> now.source]]
    BY DEF RecordIsTrue, O!RecordIsTrue, O!CompleteIsFresh, OfflineIInv
  <2>1. MadeOfTheirKeys
    BY DEF OfflineIInv
  <2>2. /\ record["parsing"].artifact = SemanticsOf(now)
        /\ record["ground"].artifact = GroundOf(now)
        /\ record["reconstruction"].artifact = MotionOf(now)
    BY <2>1, CompleteIsOfNow, Stages DEF Product
  <2> QED
    BY <2>2 DEF SemanticsOf, MotionOf, RawOf, CalibrationOf, AttachmentOf, WindowsOf, SyncOf, O!KeyNow
<1> QED
  BY <1>1, OfflineIsSound, PTL

=============================================================================
