---------------------------- MODULE ClientProofs ----------------------------
(***************************************************************************)
(* For all descriptors, identifiers and records of servers: the maps of    *)
(* TestFcgiClientInterface agree, its place among the ready connections is *)
(* right, and a record that was accepted stays acceptable.                 *)
(***************************************************************************)
EXTENDS TestFcgiClientInterface, FiniteSetTheorems, WellFoundedInduction,
        TLAPS

-----------------------------------------------------------------------------
(* The inductive invariant.                                                *)

Management == {"GET_VALUES", "binary"}

ConnectionType ==
  [connected : BOOLEAN, ids : SUBSET Ids, record : RecordType \cup {NoRecord},
   invalidated : BOOLEAN, management_queue : Seq(Management)]
StreamType ==
  [out_completed : BOOLEAN, err_data : BOOLEAN, err_completed : BOOLEAN]

MapTypes ==
  /\ Entries \subseteq Fds
  /\ connection_map \in [Entries -> ConnectionType]
  /\ DOMAIN pending \subseteq Fds \X Ids
  /\ pending \in [DOMAIN pending -> StreamType]
  /\ completed \subseteq Fds \X Ids

OtherTypes ==
  /\ ready_event_count \in Nat
  /\ remaining_ready \in Nat
  /\ next_connection \in Fds \cup {Dangling, End}
  /\ select_set \subseteq Fds
  /\ place \in {"idle", "retrieve", "reading"}
  /\ undefined \in BOOLEAN
  /\ peer \in [Fds -> {"none", "open", "closed"}]
  /\ wire \in [Fds -> Seq([part : {"header", "body"}, record : RecordType])]
  /\ rest \in [Fds -> RecordType \cup {NoRecord}]

\* The record of a connection is the one whose header was read and whose body
\* is the next part, sent or not; a closed connection begins no record.
FramingOn(fd) ==
  LET record == connection_map[fd].record
  IN  \/ wire[fd] = <<>> /\ rest[fd] = record
      \/ /\ record # NoRecord /\ rest[fd] = NoRecord
         /\ wire[fd] = <<Part("body", record)>>
      \/ /\ record = NoRecord
         /\ \E rec \in RecordType :
              /\ wire[fd] = <<Part("header", rec)>>
              /\ rest[fd] = IF rec.body THEN rec ELSE NoRecord

FramingInv ==
  /\ \A fd \in Connected : FramingOn(fd)
  /\ \A fd \in Fds \ Connected : wire[fd] = <<>> /\ rest[fd] = NoRecord
  /\ \A fd \in Entries \ Connected : connection_map[fd].record = NoRecord

\* What is read is a connection that select returned.
ReadingInv ==
  place = "reading" => remaining_ready > 0 /\ next_connection \in Ready

ClientInv ==
  /\ MapTypes /\ OtherTypes
  /\ MapsAgree
  /\ FramingInv /\ RecordInStep
  /\ ReadyTracked /\ ReadingInv

-----------------------------------------------------------------------------
(* The operators of the model.                                             *)

\* A non-empty set of naturals has the minimum that the map's order uses.
LEMMA Smallest ==
  ASSUME NEW S \in SUBSET Nat, S # {}
  PROVE  Min(S) \in S /\ \A x \in S : Min(S) <= x
<1>1. PICK n \in S : \A x \in S : ~ (<<x, n>> \in OpToRel(<, Nat))
  BY WFMin, NatLessThanWellFounded, Zenon
<1>2. \A x \in S : x \in Nat /\ n \in Nat /\ ~ (x < n)
  BY <1>1 DEF OpToRel
<1>3. \E m \in S : \A x \in S : m <= x
  BY <1>2
<1>. QED
  BY <1>3 DEF Min

\* A finite set of naturals has a maximum: a smallest set without one would have
\* one element less than a set with one.
LEMMA Greatest ==
  ASSUME NEW S \in SUBSET Nat, S # {}, IsFiniteSet(S)
  PROVE  Max(S) \in S /\ \A x \in S : x <= Max(S)
<1>. DEFINE HasMax(T) == \E m \in T : \A x \in T : x <= m
            Bad == {T \in FiniteSubsetsOf(S) : T # {} /\ ~HasMax(T)}
<1>1. Bad = {}
  <2>1. SUFFICES ASSUME Bad # {} PROVE FALSE
    OBVIOUS
  <2>2. PICK T \in Bad :
          \A U \in Bad : ~ (<<U, T>> \in StrictSubsetOrdering(S))
    <3>1. Bad \subseteq FiniteSubsetsOf(S)
      OBVIOUS
    <3>2. IsWellFoundedOn(StrictSubsetOrdering(S), FiniteSubsetsOf(S))
      BY FS_StrictSubsetOrderingWellFounded
    <3>. HIDE DEF Bad
    <3>. QED
      BY <2>1, <3>1, <3>2, WFMin, Zenon
  <2>3. T \in SUBSET S /\ IsFiniteSet(T) /\ T # {} /\ ~HasMax(T)
    BY DEF FiniteSubsetsOf
  <2>4. PICK x \in T : TRUE
    BY <2>3
  <2>5. IsFiniteSet(T \ {x}) /\ T \ {x} \in SUBSET S
    BY <2>3, FS_RemoveElement
  <2>6. T \ {x} \notin Bad
    <3>1. <<T \ {x}, T>> \in StrictSubsetOrdering(S)
      BY <2>3, <2>4, <2>5 DEF StrictSubsetOrdering
    <3>. QED
      BY <2>2, <3>1
  <2>7. T \ {x} = {} \/ HasMax(T \ {x})
    BY <2>5, <2>6 DEF FiniteSubsetsOf
  <2>8. CASE T \ {x} = {}
    BY <2>3, <2>4, <2>8
  <2>9. CASE HasMax(T \ {x})
    <3>1. PICK m \in T \ {x} : \A y \in T \ {x} : y <= m
      BY <2>9
    <3>2. m \in Nat /\ x \in Nat /\ T \subseteq Nat
      BY <2>3, <2>4
    <3>3. CASE x <= m
      <4>1. \A y \in T : y <= m
        BY <3>1, <3>3
      <4>. QED
        BY <2>3, <3>1, <4>1
    <3>4. CASE m < x
      <4>1. \A y \in T : y <= x
        BY <3>1, <3>2, <3>4
      <4>. QED
        BY <2>3, <2>4, <4>1
    <3>. QED
      BY <3>2, <3>3, <3>4
  <2>. QED
    BY <2>7, <2>8, <2>9
<1>2. S \in FiniteSubsetsOf(S)
  BY DEF FiniteSubsetsOf
<1>3. PICK m \in S : \A x \in S : m >= x
  BY <1>1, <1>2
<1>. QED
  BY <1>3 DEF Max

\* Neither a dangling iterator nor end() is a descriptor, and end() is last.
LEMMA EndFacts ==
  /\ Fds \in SUBSET Nat
  /\ End \in Nat /\ Dangling = 0
  /\ End \notin Fds /\ Dangling \notin Fds /\ End # Dangling
  /\ \A fd \in Fds : 0 < fd /\ fd < End
<1>1. Fds \in SUBSET Nat /\ Fds # {} /\ IsFiniteSet(Fds) /\ 0 \notin Fds
  BY ClientAssumption
<1>2. Max(Fds) \in Fds /\ \A fd \in Fds : fd <= Max(Fds)
  BY <1>1, Greatest
<1>3. PICK m \in Fds : End = m + 1 /\ \A fd \in Fds : fd <= m
  BY <1>2 DEF End
<1>4. m \in Nat /\ \A fd \in Fds : fd \in Nat /\ fd # 0
  BY <1>1
<1>. QED
  BY <1>3, <1>4 DEF Dangling

LEMMA FollowingFacts ==
  ASSUME Entries \subseteq Fds, NEW fd \in Fds
  PROVE  /\ Following(fd) \in Entries \cup {End}
         /\ fd < Following(fd) /\ Following(fd) \in Nat
         /\ \A k \in Entries : k > fd => Following(fd) <= k
<1>. DEFINE S == {k \in Entries : k > fd} \cup {End}
<1>1. S \in SUBSET Nat /\ S # {} /\ \A k \in S : fd < k
  BY EndFacts
<1>2. Min(S) \in S /\ \A x \in S : Min(S) <= x
  BY <1>1, Smallest
<1>. QED
  BY <1>1, <1>2 DEF Following

\* What the client waits for, by the type of a record.
LEMMA ExpectedCases ==
  ASSUME NEW fd, NEW rec \in RecordType
  PROVE  IsExpected(fd, rec) <=>
           \/ /\ rec.type = "END_REQUEST" /\ rec.content # "none"
              /\ <<fd, rec.id>> \in DOMAIN pending
              /\ pending[<<fd, rec.id>>].out_completed
              /\ \/ pending[<<fd, rec.id>>].err_completed
                 \/ ~pending[<<fd, rec.id>>].err_data
           \/ /\ rec.type = "STDOUT"
              /\ <<fd, rec.id>> \in DOMAIN pending
              /\ ~pending[<<fd, rec.id>>].out_completed
           \/ /\ rec.type = "STDERR"
              /\ <<fd, rec.id>> \in DOMAIN pending
              /\ ~pending[<<fd, rec.id>>].err_completed
           \/ /\ rec.type = "GET_VALUES_RESULT"
              /\ rec.id = 0 /\ HeadType(fd) = "GET_VALUES"
           \/ /\ rec.type = "UNKNOWN_TYPE" /\ rec.content # "none"
              /\ rec.id = 0 /\ HeadType(fd) = "binary"
BY DEF IsExpected

-----------------------------------------------------------------------------
(* Effects that actions have in common.                                    *)

\* One entry of connection_map_ is replaced.
LEMMA UpdateFacts ==
  ASSUME MapTypes, NEW fd \in Entries, NEW new \in ConnectionType,
         connection_map' = [connection_map EXCEPT ![fd] = new]
  PROVE  /\ Entries' = Entries
         /\ connection_map' \in [Entries' -> ConnectionType]
         /\ connection_map'[fd] = new
         /\ \A g \in Entries \ {fd} : connection_map'[g] = connection_map[g]
BY DEF MapTypes, Entries

\* No entry comes or goes, no connection opens or closes, identifiers are only
\* taken, and requests begin or complete.
LEMMA MapsKept ==
  ASSUME MapTypes, MapsAgree,
         Entries' = Entries, Connected' = Connected,
         UNCHANGED number_connected,
         \A fd \in Fds : peer'[fd] = "none" <=> peer[fd] = "none",
         \A fd \in Entries :
           connection_map[fd].ids \subseteq connection_map'[fd].ids,
         \A r \in DOMAIN pending' :
           \/ r \in DOMAIN pending
           \/ /\ r[1] \in Connected /\ r \notin completed
              /\ r[2] \in connection_map'[r[1]].ids,
         completed \subseteq completed',
         completed' \subseteq completed \cup DOMAIN pending,
         (completed' \ completed) \cap DOMAIN pending' = {}
  PROVE  MapsAgree'
<1>1. \A r \in DOMAIN pending' : r[1] \in Connected'
  BY DEF MapsAgree
<1>2. \A r \in completed' : r[1] \in Entries'
  BY DEF MapsAgree, Connected
<1>3. \A fd \in (Entries \ Connected)' : CompletedOn(fd)' # {}
  <2>. SUFFICES ASSUME NEW fd \in Entries \ Connected
                PROVE  CompletedOn(fd)' # {}
    OBVIOUS
  <2>1. CompletedOn(fd) # {}
    BY DEF MapsAgree
  <2>. QED
    BY <2>1 DEF CompletedOn
<1>4. (completed \cap DOMAIN pending)' = {}
  BY DEF MapsAgree
<1>5. \A r \in (completed \cup DOMAIN pending)' :
        r[2] \in connection_map'[r[1]].ids
  BY DEF MapsAgree, Connected
<1>6. Connected' = {fd \in Fds : peer'[fd] # "none"}
  BY DEF MapsAgree
<1>7. number_connected' = Cardinality(Connected)'
  BY DEF MapsAgree
<1>. QED
  BY <1>1, <1>2, <1>3, <1>4, <1>5, <1>6, <1>7 DEF MapsAgree

\* A step that leaves the maps and the sockets alone.
LEMMA MapsUnchanged ==
  ASSUME MapTypes, MapsAgree,
         UNCHANGED <<connection_map, requestVars, number_connected>>,
         \A fd \in Fds : peer'[fd] = "none" <=> peer[fd] = "none"
  PROVE  MapTypes' /\ MapsAgree' /\ Entries' = Entries /\ Connected' = Connected
<1>1. MapTypes' /\ Entries' = Entries /\ Connected' = Connected
  BY DEF MapTypes, Entries, Connected, requestVars
<1>. QED
  BY <1>1, MapsKept DEF requestVars

\* What is said of one entry.
InStep(fd) ==
  connection_map[fd].record # NoRecord /\ ~connection_map[fd].invalidated =>
    fd \in Connected /\ IsExpected(fd, connection_map[fd].record)

LEMMA RecordInStepOn ==
  RecordInStep <=> \A fd \in Entries : InStep(fd)
BY DEF RecordInStep, InStep

\* What a record was accepted for is not touched by other calls.
LEMMA InStepKept ==
  ASSUME NEW fd \in Entries, fd \in Entries', MapTypes, InStep(fd),
         connection_map'[fd].connected = connection_map[fd].connected,
         connection_map'[fd].record = connection_map[fd].record,
         connection_map'[fd].invalidated = connection_map[fd].invalidated,
         HeadType(fd) # "none" => HeadType(fd)' = HeadType(fd),
         \A r \in DOMAIN pending :
           r[1] = fd => r \in DOMAIN pending' /\ pending'[r] = pending[r]
  PROVE  InStep(fd)'
<1>. SUFFICES ASSUME connection_map[fd].record # NoRecord,
                     ~connection_map[fd].invalidated
              PROVE  InStep(fd)'
  BY DEF InStep
<1>1. fd \in Connected /\ fd \in Connected'
  BY DEF InStep, Connected
<1>2. PICK rec \in RecordType :
        rec = connection_map[fd].record /\ rec = connection_map'[fd].record
  BY DEF MapTypes, ConnectionType
<1>3. IsExpected(fd, rec)
  BY <1>2 DEF InStep
<1>4. IsExpected(fd, rec)'
  BY <1>3 DEF IsExpected
<1>. QED
  BY <1>1, <1>2, <1>4 DEF InStep

-----------------------------------------------------------------------------
(* CloseConnection.                                                        *)

LEMMA KeptStateFacts ==
  ASSUME MapTypes, NEW fd \in Connected, NEW acquired \in SUBSET Ids
  PROVE  /\ KeptState(fd, acquired) \in ConnectionType
         /\ ~KeptState(fd, acquired).connected
         /\ KeptState(fd, acquired).record = NoRecord
         /\ KeptState(fd, acquired).ids
              = (connection_map[fd].ids \ IdsOf(PendingOn(fd))) \cup acquired
<1>1. connection_map[fd].ids \in SUBSET Ids
  BY DEF MapTypes, Connected, ConnectionType
<1>2. <<>> \in Seq(Management)
  OBVIOUS
<1>. QED
  BY <1>1, <1>2 DEF KeptState, NewConnection, ConnectionType

LEMMA CloseFacts ==
  ASSUME MapTypes, NEW fd \in Connected, NEW remaining, NEW next,
         NEW acquired \in SUBSET Ids,
         CloseConnection(fd, remaining, next, acquired)
  PROVE  /\ Entries' = IF CompletedOn(fd) # {} THEN Entries
                       ELSE Entries \ {fd}
         /\ Connected' = Connected \ {fd}
         /\ \A g \in Entries \ {fd} : connection_map'[g] = connection_map[g]
         /\ fd \in Entries' => connection_map'[fd] = KeptState(fd, acquired)
         /\ DOMAIN pending' = DOMAIN pending \ PendingOn(fd)
         /\ \A r \in DOMAIN pending' : pending'[r] = pending[r]
         /\ MapTypes'
<1>1. fd \in Entries /\ fd \in Fds /\ connection_map = [g \in Entries |-> connection_map[g]]
  BY DEF Connected, MapTypes
<1>2. /\ Entries' = IF CompletedOn(fd) # {} THEN Entries ELSE Entries \ {fd}
      /\ \A g \in Entries \ {fd} : connection_map'[g] = connection_map[g]
      /\ fd \in Entries' => connection_map'[fd] = KeptState(fd, acquired)
      /\ connection_map' = [g \in Entries' |-> connection_map'[g]]
  <2>1. CASE CompletedOn(fd) # {}
    <3>1. connection_map' = [connection_map EXCEPT ![fd] = KeptState(fd, acquired)]
      BY <2>1 DEF CloseConnection
    <3>2. KeptState(fd, acquired) \in ConnectionType
      BY KeptStateFacts
    <3>3. Entries' = Entries
      BY <3>1 DEF Entries
    <3>4. connection_map' = [g \in Entries |-> connection_map'[g]]
      BY <1>1, <3>1
    <3>. QED
      BY <1>1, <2>1, <3>1, <3>3, <3>4
  <2>2. CASE CompletedOn(fd) = {}
    <3>1. connection_map' = Without(connection_map, {fd})
      BY <2>2 DEF CloseConnection
    <3>2. connection_map' = [g \in Entries \ {fd} |-> connection_map[g]]
      BY <3>1 DEF Without, Entries
    <3>3. Entries' = Entries \ {fd}
      BY <3>2 DEF Entries
    <3>. QED
      BY <2>2, <3>2, <3>3
  <2>. QED
    BY <2>1, <2>2
<1>3. Connected' = Connected \ {fd}
  BY <1>1, <1>2, KeptStateFacts DEF Connected
<1>4. /\ DOMAIN pending' = DOMAIN pending \ PendingOn(fd)
      /\ \A r \in DOMAIN pending' : pending'[r] = pending[r]
      /\ pending' = [r \in DOMAIN pending' |-> pending'[r]]
  <2>1. pending' = Without(pending, PendingOn(fd))
    BY DEF CloseConnection
  <2>. QED
    BY <2>1 DEF Without
<1>5. MapTypes'
  <2>1. \A g \in Entries' : connection_map'[g] \in ConnectionType
    BY <1>1, <1>2, KeptStateFacts DEF MapTypes
  <2>2. \A r \in DOMAIN pending' : pending'[r] \in StreamType
    BY <1>4 DEF MapTypes
  <2>3. completed' = completed
    BY DEF CloseConnection
  <2>. QED
    BY <1>2, <1>4, <2>1, <2>2, <2>3 DEF MapTypes
<1>. QED
  BY <1>2, <1>3, <1>4, <1>5

LEMMA ConnectedFinite ==
  ASSUME MapTypes
  PROVE  IsFiniteSet(Connected) /\ Cardinality(Connected) \in Nat
<1>1. Connected \in SUBSET Fds
  BY DEF MapTypes, Connected
<1>. QED
  BY <1>1, ClientAssumption, FS_Subset, FS_CardinalityType

\* The pending requests of the connection go, with their identifiers.
LEMMA CloseMaps ==
  ASSUME MapTypes, MapsAgree, NEW fd \in Connected, NEW remaining, NEW next,
         NEW acquired \in SUBSET Ids,
         CloseConnection(fd, remaining, next, acquired)
  PROVE  MapsAgree'
<1>a. /\ Entries' = IF CompletedOn(fd) # {} THEN Entries ELSE Entries \ {fd}
      /\ Connected' = Connected \ {fd}
      /\ \A g \in Entries \ {fd} : connection_map'[g] = connection_map[g]
      /\ fd \in Entries' => connection_map'[fd] = KeptState(fd, acquired)
      /\ DOMAIN pending' = DOMAIN pending \ PendingOn(fd)
      /\ \A r \in DOMAIN pending' : pending'[r] = pending[r]
  BY CloseFacts
<1>0. fd \in Entries /\ Connected \subseteq Entries
  BY DEF Connected
<1>1. \A r \in DOMAIN pending' : r[1] \in Connected'
  BY <1>a DEF MapsAgree, PendingOn
<1>2. \A r \in completed' : r[1] \in Entries'
  <2>1. completed' = completed
    BY DEF CloseConnection
  <2>. QED
    BY <1>a, <2>1 DEF MapsAgree, CompletedOn
<1>3. \A g \in (Entries \ Connected)' : CompletedOn(g)' # {}
  <2>1. \A g : CompletedOn(g)' = CompletedOn(g)
    BY DEF CloseConnection, CompletedOn
  <2>. QED
    BY <1>a, <2>1 DEF MapsAgree
<1>4. (completed \cap DOMAIN pending)' = {}
  BY <1>a DEF MapsAgree, CloseConnection
<1>5. \A r \in (completed \cup DOMAIN pending)' :
        r[2] \in connection_map'[r[1]].ids
  <2>. SUFFICES ASSUME NEW r \in (completed \cup DOMAIN pending)'
                PROVE  r[2] \in connection_map'[r[1]].ids
    OBVIOUS
  <2>1. r \in completed \/ (r \in DOMAIN pending /\ r[1] # fd)
    BY <1>a DEF CloseConnection, PendingOn
  <2>2. r \in Fds \X Ids /\ r[1] \in Entries /\ r[1] \in Entries'
    BY <1>1, <1>2, <2>1 DEF MapTypes, MapsAgree, Connected
  <2>3. r[2] \in connection_map[r[1]].ids
    BY <2>1 DEF MapsAgree
  <2>4. CASE r[1] # fd
    BY <1>a, <2>2, <2>3, <2>4
  <2>5. CASE r[1] = fd
    <3>1. r \in completed
      BY <2>1, <2>5
    <3>2. r[2] \notin IdsOf(PendingOn(fd))
      <4>. SUFFICES ASSUME NEW p \in PendingOn(fd), p[2] = r[2]
                    PROVE  FALSE
        BY DEF IdsOf
      <4>1. p \in Fds \X Ids /\ p[1] = fd /\ p \in DOMAIN pending
        BY DEF PendingOn, MapTypes
      <4>2. p = r
        BY <2>2, <2>5, <4>1
      <4>. QED
        BY <3>1, <4>1, <4>2 DEF MapsAgree
    <3>3. connection_map'[fd] = KeptState(fd, acquired)
      BY <1>a, <2>2, <2>5
    <3>. QED
      BY <2>3, <2>5, <3>2, <3>3, KeptStateFacts
  <2>. QED
    BY <2>4, <2>5
<1>6. Connected' = {g \in Fds : peer'[g] # "none"}
  <2>1. \A g \in Fds : peer'[g] = IF g = fd THEN "none" ELSE peer[g]
    BY DEF CloseConnection, CloseSockets
  <2>. QED
    BY <1>a, <2>1 DEF MapsAgree
<1>7. number_connected' = Cardinality(Connected)'
  <2>1. number_connected' = number_connected - 1
    BY DEF CloseConnection
  <2>2. Cardinality(Connected \ {fd}) = Cardinality(Connected) - 1
    BY ConnectedFinite, FS_RemoveElement
  <2>. QED
    BY <1>a, <2>1, <2>2 DEF MapsAgree
<1>. QED
  BY <1>1, <1>2, <1>3, <1>4, <1>5, <1>6, <1>7 DEF MapsAgree

\* The record that was begun is forgotten with what the socket still held.
LEMMA CloseFraming ==
  ASSUME MapTypes, FramingInv, RecordInStep, NEW fd \in Connected,
         NEW remaining, NEW next, NEW acquired \in SUBSET Ids,
         CloseConnection(fd, remaining, next, acquired)
  PROVE  FramingInv' /\ RecordInStep'
<1>a. /\ Entries' = IF CompletedOn(fd) # {} THEN Entries ELSE Entries \ {fd}
      /\ Connected' = Connected \ {fd}
      /\ \A g \in Entries \ {fd} : connection_map'[g] = connection_map[g]
      /\ fd \in Entries' => connection_map'[fd] = KeptState(fd, acquired)
      /\ DOMAIN pending' = DOMAIN pending \ PendingOn(fd)
      /\ \A r \in DOMAIN pending' : pending'[r] = pending[r]
  BY CloseFacts
<1>0. fd \in Fds /\ fd \in Entries /\ Connected \subseteq Entries
  BY DEF MapTypes, Connected
<1>1. /\ \A g \in Fds \ {fd} : wire'[g] = wire[g] /\ rest'[g] = rest[g]
      /\ wire'[fd] = <<>> /\ rest'[fd] = NoRecord
  BY <1>0 DEF CloseConnection, CloseSockets
<1>2. fd \in Entries' => connection_map'[fd].record = NoRecord
  BY <1>a, KeptStateFacts
<1>3. FramingInv'
  <2>1. \A g \in Connected' : FramingOn(g)'
    <3>. SUFFICES ASSUME NEW g \in Connected \ {fd} PROVE FramingOn(g)'
      BY <1>a
    <3>1. connection_map'[g] = connection_map[g] /\ FramingOn(g) /\ g \in Fds
      BY <1>a, <1>0 DEF FramingInv, MapTypes
    <3>. QED
      BY <1>1, <3>1 DEF FramingOn
  <2>2. \A g \in Fds \ Connected' : wire'[g] = <<>> /\ rest'[g] = NoRecord
    BY <1>a, <1>1 DEF FramingInv
  <2>3. \A g \in Entries' \ Connected' : connection_map'[g].record = NoRecord
    BY <1>a, <1>2 DEF FramingInv
  <2>. QED
    BY <2>1, <2>2, <2>3 DEF FramingInv
<1>4. \A g \in Entries' : InStep(g)'
  <2>. SUFFICES ASSUME NEW g \in Entries' PROVE InStep(g)'
    OBVIOUS
  <2>1. CASE g = fd
    BY <1>2, <2>1 DEF InStep
  <2>2. CASE g # fd
    <3>1. g \in Entries /\ connection_map'[g] = connection_map[g]
      BY <1>a, <2>2
    <3>2. \A r \in DOMAIN pending :
            r[1] = g => r \in DOMAIN pending' /\ pending'[r] = pending[r]
      BY <1>a, <2>2 DEF PendingOn
    <3>3. HeadType(g)' = HeadType(g)
      BY <3>1 DEF HeadType
    <3>. QED
      BY <3>1, <3>2, <3>3, InStepKept, RecordInStepOn
  <2>. QED
    BY <2>1, <2>2
<1>5. RecordInStep'
  BY <1>4 DEF RecordInStep, InStep
<1>. QED
  BY <1>3, <1>5

-----------------------------------------------------------------------------
(* The calls of the application.                                           *)

MapInv == MapTypes /\ MapsAgree /\ FramingInv /\ RecordInStep

LEMMA DestroyMaps ==
  ASSUME MapInv, Destroy
  PROVE  MapInv'
<1>1. Entries' = {} /\ Connected' = {} /\ DOMAIN pending' = {} /\ completed' = {}
  BY DEF Destroy, Entries, Connected
<1>2. MapTypes'
  BY <1>1 DEF Destroy, MapTypes
<1>3. /\ \A fd \in Fds : peer'[fd] = IF fd \in Connected THEN "none" ELSE peer[fd]
      /\ \A fd \in Fds : wire'[fd] = IF fd \in Connected THEN <<>> ELSE wire[fd]
      /\ \A fd \in Fds :
           rest'[fd] = IF fd \in Connected THEN NoRecord ELSE rest[fd]
  BY DEF Destroy, CloseSockets
<1>4. MapsAgree'
  <2>1. Connected' = {fd \in Fds : peer'[fd] # "none"}
    BY <1>1, <1>3 DEF MapInv, MapsAgree
  <2>2. number_connected' = Cardinality(Connected)'
    <3>1. Cardinality({}) = 0
      BY FS_EmptySet
    <3>. QED
      BY <1>1, <3>1 DEF Destroy
  <2>. QED
    BY <1>1, <2>1, <2>2 DEF MapsAgree
<1>5. FramingInv'
  BY <1>1, <1>3 DEF MapInv, FramingInv
<1>6. RecordInStep'
  BY <1>1 DEF RecordInStep
<1>. QED
  BY <1>2, <1>4, <1>5, <1>6 DEF MapInv

LEMMA ConnectFacts ==
  ASSUME MapInv, OtherTypes, NEW fd \in Fds, Connect(fd)
  PROVE  /\ fd \notin Connected
         /\ Entries' = Entries \cup {fd} /\ Connected' = Connected \cup {fd}
         /\ \A g \in Entries \ {fd} : connection_map'[g] = connection_map[g]
         /\ fd \in Entries => connection_map'[fd].ids = connection_map[fd].ids
         /\ connection_map'[fd].record = NoRecord
         /\ connection_map' \in [Entries' -> ConnectionType]
         /\ \A g \in Fds :
              peer'[g] = "none" <=> peer[g] = "none" /\ g # fd
<1>1. fd \notin Connected
  BY DEF Connect, FreeFds, MapInv, MapsAgree
<1>2. /\ Entries' = Entries \cup {fd}
      /\ \A g \in Entries \ {fd} : connection_map'[g] = connection_map[g]
      /\ connection_map' \in [Entries' -> ConnectionType]
      /\ connection_map'[fd].connected
      /\ connection_map'[fd].record = NoRecord
      /\ fd \in Entries => connection_map'[fd].ids = connection_map[fd].ids
  <2>1. CASE fd \in Entries
    <3>1. connection_map[fd].record = NoRecord
      BY <1>1, <2>1 DEF MapInv, FramingInv
    <3>2. /\ connection_map[fd] \in ConnectionType
          /\ connection_map \in [Entries -> ConnectionType]
      BY <2>1 DEF MapInv, MapTypes
    <3>3. connection_map'
            = [connection_map EXCEPT ![fd].connected = TRUE]
      BY <2>1 DEF Connect
    <3>4. Entries' = Entries
      BY <3>3 DEF Entries
    <3>. QED
      BY <2>1, <3>1, <3>2, <3>3, <3>4 DEF ConnectionType
  <2>2. CASE fd \notin Entries
    <3>1. connection_map' = With(connection_map, fd, NewConnection)
      BY <2>2 DEF Connect
    <3>2. Entries' = Entries \cup {fd}
      BY <3>1 DEF With, Entries
    <3>3. connection_map' = [g \in Entries \cup {fd} |->
             IF g = fd THEN NewConnection ELSE connection_map[g]]
      BY <3>1 DEF With, Entries
    <3>4. <<>> \in Seq(Management)
      OBVIOUS
    <3>5. NewConnection \in ConnectionType
      BY <3>4 DEF NewConnection, ConnectionType
    <3>6. connection_map \in [Entries -> ConnectionType]
      BY DEF MapInv, MapTypes
    <3>. QED
      BY <2>2, <3>2, <3>3, <3>5, <3>6 DEF NewConnection
  <2>. QED
    BY <2>1, <2>2
<1>3. Connected' = Connected \cup {fd}
  BY <1>2 DEF Connected
<1>4. \A g \in Fds : peer'[g] = IF g = fd THEN "open" ELSE peer[g]
  BY DEF Connect, OtherTypes
<1>. QED
  BY <1>1, <1>2, <1>3, <1>4


\* The maps after Connect: an entry that was kept goes on with its identifiers.
LEMMA ConnectMaps ==
  ASSUME MapInv, OtherTypes, NEW fd \in Fds, Connect(fd)
  PROVE  MapInv'
<1>1. /\ fd \notin Connected
      /\ Entries' = Entries \cup {fd} /\ Connected' = Connected \cup {fd}
      /\ \A g \in Entries \ {fd} : connection_map'[g] = connection_map[g]
      /\ fd \in Entries => connection_map'[fd].ids = connection_map[fd].ids
      /\ connection_map'[fd].record = NoRecord
      /\ connection_map' \in [Entries' -> ConnectionType]
      /\ \A g \in Fds : peer'[g] = "none" <=> peer[g] = "none" /\ g # fd
  BY ConnectFacts
<1>2. /\ pending' = pending /\ completed' = completed
      /\ wire' = wire /\ rest' = rest
      /\ number_connected' = number_connected + 1
  BY DEF Connect, requestVars
<1>3. MapTypes'
  BY <1>1, <1>2 DEF MapInv, MapTypes
<1>4. MapsAgree'
  <2>. USE <1>1, <1>2
  <2>1. \A r \in DOMAIN pending' : r[1] \in Connected'
    BY DEF MapInv, MapsAgree
  <2>2. \A r \in completed' : r[1] \in Entries'
    BY DEF MapInv, MapsAgree
  <2>3. \A g \in (Entries \ Connected)' : CompletedOn(g)' # {}
    BY DEF MapInv, MapsAgree, CompletedOn
  <2>4. (completed \cap DOMAIN pending)' = {}
    BY DEF MapInv, MapsAgree
  <2>5. \A r \in (completed \cup DOMAIN pending)' :
          r[2] \in connection_map'[r[1]].ids
    BY DEF MapInv, MapsAgree, Connected
  <2>6. Connected' = {g \in Fds : peer'[g] # "none"}
    BY DEF MapInv, MapsAgree
  <2>7. number_connected' = Cardinality(Connected)'
    <3>1. Cardinality(Connected \cup {fd}) = Cardinality(Connected) + 1
      BY ConnectedFinite, FS_AddElement DEF MapInv
    <3>. QED
      BY <3>1 DEF MapInv, MapsAgree
  <2>. QED
    BY <2>1, <2>2, <2>3, <2>4, <2>5, <2>6, <2>7 DEF MapsAgree
<1>5. FramingInv'
  <2>1. FramingOn(fd)'
    BY <1>1, <1>2 DEF MapInv, FramingInv, FramingOn
  <2>2. \A g \in Connected : g # fd => FramingOn(g)'
    <3>. SUFFICES ASSUME NEW g \in Connected, g # fd PROVE FramingOn(g)'
      OBVIOUS
    <3>1. connection_map'[g] = connection_map[g] /\ FramingOn(g)
      BY <1>1 DEF MapInv, FramingInv, Connected
    <3>. QED
      BY <1>2, <3>1 DEF FramingOn
  <2>3. \A g \in Fds \ Connected' : wire'[g] = <<>> /\ rest'[g] = NoRecord
    BY <1>1, <1>2 DEF MapInv, FramingInv
  <2>4. \A g \in Entries' \ Connected' : connection_map'[g].record = NoRecord
    BY <1>1 DEF MapInv, FramingInv
  <2>. QED
    BY <1>1, <2>1, <2>2, <2>3, <2>4 DEF FramingInv
<1>6. \A g \in Entries' : InStep(g)'
  <2>1. InStep(fd)'
    BY <1>1 DEF InStep
  <2>2. ASSUME NEW g \in Entries, g # fd PROVE InStep(g)'
    <3>1. connection_map'[g] = connection_map[g] /\ HeadType(g)' = HeadType(g)
      BY <1>1, <2>2 DEF HeadType
    <3>2. g \in Entries' /\ InStep(g)
      BY <1>1, RecordInStepOn DEF MapInv
    <3>. QED
      BY <1>2, <3>1, <3>2, InStepKept DEF MapInv
  <2>. QED
    BY <1>1, <2>1, <2>2
<1>7. RecordInStep'
  BY <1>6 DEF RecordInStep, InStep
<1>. QED
  BY <1>3, <1>4, <1>5, <1>7 DEF MapInv

\* CloseConnection, in UserCloses, SendFails and ReadEnds.
LEMMA CloseMapInv ==
  ASSUME MapInv, NEW fd \in Connected, NEW remaining, NEW next,
         NEW acquired \in SUBSET Ids,
         CloseConnection(fd, remaining, next, acquired)
  PROVE  MapInv'
<1>1. MapTypes'
  BY CloseFacts DEF MapInv
<1>2. MapsAgree'
  BY CloseMaps DEF MapInv
<1>3. FramingInv' /\ RecordInStep'
  BY CloseFraming DEF MapInv
<1>. QED
  BY <1>1, <1>2, <1>3 DEF MapInv

\* Releases: the identifiers of the released requests are those of no other.
LEMMA ReleaseFacts ==
  ASSUME MapInv, NEW fd \in Fds, NEW requests \in SUBSET CompletedOn(fd),
         ReleaseId(fd, requests)
  PROVE  /\ fd \in Entries
         /\ \A g \in Entries \ {fd} :
              g \in Entries' /\ connection_map'[g] = connection_map[g]
         /\ Entries' \subseteq Entries
         /\ fd \notin Entries' =>
              fd \notin Connected /\ CompletedOn(fd) = requests
         /\ fd \in Entries' =>
              /\ fd \in Connected \/ CompletedOn(fd) # requests
              /\ connection_map'[fd]
                   = [connection_map[fd] EXCEPT !.ids = @ \ IdsOf(requests)]
         /\ Connected' = Connected
         /\ connection_map' \in [Entries' -> ConnectionType]
<1>1. fd \in Entries
  BY DEF ReleaseId, CompletedOn, MapInv, MapsAgree
<1>2. /\ connection_map \in [Entries -> ConnectionType]
      /\ connection_map[fd] \in ConnectionType
  BY <1>1 DEF MapInv, MapTypes
<1>3. CASE fd \in Connected \/ CompletedOn(fd) # requests
  <2>1. connection_map' = [connection_map EXCEPT ![fd].ids = @ \ IdsOf(requests)]
    BY <1>3 DEF ReleaseId, Release
  <2>2. Entries' = Entries
    BY <2>1 DEF Entries
  <2>3. /\ \A g \in Entries \ {fd} : connection_map'[g] = connection_map[g]
        /\ connection_map'[fd]
             = [connection_map[fd] EXCEPT !.ids = @ \ IdsOf(requests)]
        /\ connection_map' \in [Entries -> ConnectionType]
    BY <1>1, <1>2, <2>1 DEF ConnectionType
  <2>4. connection_map'[fd].connected = connection_map[fd].connected
    BY <1>2, <2>3 DEF ConnectionType
  <2>5. Connected' = Connected
    BY <2>2, <2>3, <2>4 DEF Connected
  <2>. QED
    BY <1>1, <1>3, <2>2, <2>3, <2>5
<1>4. CASE ~(fd \in Connected \/ CompletedOn(fd) # requests)
  <2>1. connection_map' = [g \in Entries \ {fd} |-> connection_map[g]]
    BY <1>4 DEF ReleaseId, Release, Without, Entries
  <2>2. Entries' = Entries \ {fd}
    BY <2>1 DEF Entries
  <2>3. Connected' = Connected
    BY <1>4, <2>1, <2>2 DEF Connected
  <2>. QED
    BY <1>1, <1>2, <1>4, <2>1, <2>2, <2>3
<1>. QED
  BY <1>3, <1>4


LEMMA ReleaseMaps ==
  ASSUME MapInv, NEW fd \in Fds, NEW requests \in SUBSET CompletedOn(fd),
         ReleaseId(fd, requests)
  PROVE  MapInv'
<1>1. /\ fd \in Entries
      /\ \A g \in Entries \ {fd} :
           g \in Entries' /\ connection_map'[g] = connection_map[g]
      /\ Entries' \subseteq Entries
      /\ fd \notin Entries' => fd \notin Connected /\ CompletedOn(fd) = requests
      /\ fd \in Entries' =>
           /\ fd \in Connected \/ CompletedOn(fd) # requests
           /\ connection_map'[fd]
                = [connection_map[fd] EXCEPT !.ids = @ \ IdsOf(requests)]
      /\ Connected' = Connected
      /\ connection_map' \in [Entries' -> ConnectionType]
  BY ReleaseFacts
<1>2. /\ pending' = pending /\ completed' = completed \ requests
      /\ wire' = wire /\ rest' = rest /\ peer' = peer
      /\ number_connected' = number_connected
  BY DEF ReleaseId, serverVars
<1>3. \A r \in requests : r \in completed /\ r \in Fds \X Ids /\ r[1] = fd
  BY DEF CompletedOn, MapInv, MapTypes
<1>4. connection_map[fd] \in ConnectionType
  BY <1>1 DEF MapInv, MapTypes
<1>5. fd \in Entries' =>
        /\ connection_map'[fd].record = connection_map[fd].record
        /\ connection_map'[fd].connected = connection_map[fd].connected
        /\ connection_map'[fd].invalidated = connection_map[fd].invalidated
        /\ connection_map'[fd].management_queue
             = connection_map[fd].management_queue
        /\ connection_map'[fd].ids = connection_map[fd].ids \ IdsOf(requests)
  BY <1>1, <1>4 DEF ConnectionType
<1>6. MapTypes'
  BY <1>1, <1>2 DEF MapInv, MapTypes
<1>7. MapsAgree'
  <2>1. \A r \in DOMAIN pending' : r[1] \in Connected'
    BY <1>1, <1>2 DEF MapInv, MapsAgree
  <2>2. \A r \in completed' : r[1] \in Entries'
    <3>. SUFFICES ASSUME NEW r \in completed, r \notin requests
                  PROVE  r[1] \in Entries'
      BY <1>2
    <3>1. r[1] \in Entries
      BY DEF MapInv, MapsAgree
    <3>2. r[1] = fd => r \in CompletedOn(fd)
      BY DEF CompletedOn
    <3>. QED
      BY <1>1, <3>1, <3>2
  <2>3. \A g \in (Entries \ Connected)' : CompletedOn(g)' # {}
    <3>. SUFFICES ASSUME NEW g \in Entries', g \notin Connected
                  PROVE  \E r \in completed : r \notin requests /\ r[1] = g
      BY <1>1, <1>2 DEF CompletedOn
    <3>1. CompletedOn(g) # {}
      BY <1>1 DEF MapInv, MapsAgree
    <3>2. CASE g = fd
      <4>1. CompletedOn(fd) # requests
        BY <1>1, <3>2
      <4>. QED
        BY <3>2, <4>1 DEF CompletedOn
    <3>3. CASE g # fd
      BY <1>3, <3>1, <3>3 DEF CompletedOn
    <3>. QED
      BY <3>2, <3>3
  <2>4. (completed \cap DOMAIN pending)' = {}
    BY <1>2 DEF MapInv, MapsAgree
  <2>5. \A r \in (completed \cup DOMAIN pending)' :
          r[2] \in connection_map'[r[1]].ids
    <3>. SUFFICES ASSUME NEW r \in (completed \cup DOMAIN pending)'
                  PROVE  r[2] \in connection_map'[r[1]].ids
      OBVIOUS
    <3>1. /\ r \in completed \cup DOMAIN pending /\ r \notin requests
          /\ r \in Fds \X Ids
      BY <1>2, <1>3 DEF MapInv, MapsAgree, MapTypes
    <3>2. r[2] \in connection_map[r[1]].ids /\ r[1] \in Entries'
      BY <1>1, <2>1, <2>2, <3>1 DEF MapInv, MapsAgree, Connected
    <3>3. CASE r[1] # fd
      BY <1>1, <3>2, <3>3
    <3>4. CASE r[1] = fd
      <4>1. \A q \in requests : q[2] # r[2]
        BY <1>3, <3>1, <3>4
      <4>2. r[2] \notin IdsOf(requests)
        BY <4>1 DEF IdsOf
      <4>. QED
        BY <1>5, <3>2, <3>4, <4>2
    <3>. QED
      BY <3>3, <3>4
  <2>6. Connected' = {g \in Fds : peer'[g] # "none"}
    BY <1>1, <1>2 DEF MapInv, MapsAgree
  <2>7. number_connected' = Cardinality(Connected)'
    BY <1>1, <1>2 DEF MapInv, MapsAgree
  <2>. QED
    BY <2>1, <2>2, <2>3, <2>4, <2>5, <2>6, <2>7 DEF MapsAgree
<1>8. \A g \in Entries' :
        /\ connection_map'[g].record = connection_map[g].record
        /\ connection_map'[g].connected = connection_map[g].connected
        /\ connection_map'[g].invalidated = connection_map[g].invalidated
        /\ HeadType(g)' = HeadType(g)
  BY <1>1, <1>5 DEF HeadType
<1>9. FramingInv'
  <2>1. ASSUME NEW g \in Connected PROVE FramingOn(g)'
    <3>1. g \in Entries' /\ FramingOn(g)
      BY <1>1 DEF MapInv, FramingInv, Connected
    <3>. QED
      BY <1>2, <1>8, <3>1 DEF FramingOn
  <2>. QED
    BY <1>1, <1>2, <1>8, <2>1 DEF MapInv, FramingInv
<1>10. \A g \in Entries' : InStep(g)'
  <2>. SUFFICES ASSUME NEW g \in Entries' PROVE InStep(g)'
    OBVIOUS
  <2>1. g \in Entries /\ InStep(g)
    BY <1>1, RecordInStepOn DEF MapInv
  <2>. QED
    BY <1>2, <1>8, <2>1, InStepKept DEF MapInv
<1>11. RecordInStep'
  BY <1>10 DEF RecordInStep, InStep
<1>. QED
  BY <1>6, <1>7, <1>9, <1>11 DEF MapInv

\* An identifier that is not in use belongs to no request.
LEMMA SendRequestMaps ==
  ASSUME MapInv, NEW fd \in Fds, SendRequest(fd)
  PROVE  MapInv'
<1>. DEFINE id == NewId(fd)
            new == [connection_map[fd] EXCEPT !.ids = @ \cup {id}]
<1>1. fd \in Connected /\ fd \in Entries
  BY DEF SendRequest, CanSend, Connected
<1>2. connection_map[fd] \in ConnectionType
  BY <1>1 DEF MapInv, MapTypes
<1>3. id \in Ids /\ id \notin connection_map[fd].ids
  <2>1. FreeIds(fd) \in SUBSET Nat /\ FreeIds(fd) # {}
    BY ClientAssumption DEF SendRequest, FreeIds
  <2>2. id \in FreeIds(fd)
    BY <2>1, Smallest DEF NewId
  <2>. QED
    BY <2>2 DEF FreeIds
<1>4. /\ new \in ConnectionType
      /\ new.ids = connection_map[fd].ids \cup {id}
      /\ new.record = connection_map[fd].record
      /\ new.connected = connection_map[fd].connected
      /\ new.invalidated = connection_map[fd].invalidated
      /\ new.management_queue = connection_map[fd].management_queue
  BY <1>2, <1>3 DEF ConnectionType
<1>5. /\ Entries' = Entries /\ connection_map'[fd] = new
      /\ connection_map' \in [Entries' -> ConnectionType]
      /\ \A g \in Entries \ {fd} : connection_map'[g] = connection_map[g]
  <2>1. connection_map' = [connection_map EXCEPT ![fd] = new]
    BY DEF SendRequest
  <2>. HIDE DEF new
  <2>. QED
    BY <1>1, <1>4, <2>1, UpdateFacts DEF MapInv
<1>6. Connected' = Connected
  BY <1>1, <1>4, <1>5 DEF Connected
<1>7. /\ DOMAIN pending' = DOMAIN pending \cup {<<fd, id>>}
      /\ pending' = [r \in DOMAIN pending \cup {<<fd, id>>} |->
                       IF r = <<fd, id>> THEN NewRequest ELSE pending[r]]
  BY DEF SendRequest, With
<1>8. /\ completed' = completed
      /\ wire' = wire /\ rest' = rest /\ peer' = peer
      /\ number_connected' = number_connected
  BY DEF SendRequest, serverVars
<1>9. <<fd, id>> \notin completed \cup DOMAIN pending
  BY <1>3 DEF MapInv, MapsAgree
<1>10. MapTypes'
  <2>1. NewRequest \in StreamType
    BY DEF NewRequest, StreamType
  <2>2. <<fd, id>> \in Fds \X Ids
    BY <1>3
  <2>3. DOMAIN pending' \subseteq Fds \X Ids
    BY <1>7, <2>2 DEF MapInv, MapTypes
  <2>4. pending' \in [DOMAIN pending' -> StreamType]
    BY <1>7, <2>1 DEF MapInv, MapTypes
  <2>. QED
    BY <1>5, <1>8, <2>3, <2>4 DEF MapInv, MapTypes
<1>11. MapsAgree'
  <2>1. \A g \in Entries :
          connection_map[g].ids \subseteq connection_map'[g].ids
    BY <1>4, <1>5
  <2>2. \A r \in DOMAIN pending' :
          \/ r \in DOMAIN pending
          \/ /\ r[1] \in Connected /\ r \notin completed
             /\ r[2] \in connection_map'[r[1]].ids
    <3>. HIDE DEF new, id
    <3>1. id \in connection_map'[fd].ids
      BY <1>4, <1>5
    <3>. QED
      BY <1>1, <1>7, <1>9, <3>1
  <2>. QED
    BY <1>5, <1>6, <1>8, <2>1, <2>2, MapsKept DEF MapInv
<1>12. \A g \in Entries :
        /\ connection_map'[g].record = connection_map[g].record
        /\ connection_map'[g].connected = connection_map[g].connected
        /\ connection_map'[g].invalidated = connection_map[g].invalidated
        /\ HeadType(g)' = HeadType(g)
  BY <1>1, <1>4, <1>5 DEF HeadType
<1>13. FramingInv'
  <2>1. ASSUME NEW g \in Connected PROVE FramingOn(g)'
    <3>1. g \in Entries /\ FramingOn(g)
      BY DEF MapInv, FramingInv, Connected
    <3>. QED
      BY <1>8, <1>12, <3>1 DEF FramingOn
  <2>. QED
    BY <1>5, <1>6, <1>8, <1>12, <2>1 DEF MapInv, FramingInv
<1>14. \A g \in Entries' : InStep(g)'
  <2>. SUFFICES ASSUME NEW g \in Entries' PROVE InStep(g)'
    OBVIOUS
  <2>1. g \in Entries /\ InStep(g)
    BY <1>5, RecordInStepOn DEF MapInv
  <2>2. \A r \in DOMAIN pending :
          r[1] = g => r \in DOMAIN pending' /\ pending'[r] = pending[r]
    BY <1>7, <1>9
  <2>. QED
    BY <1>12, <2>1, <2>2, InStepKept DEF MapInv
<1>15. RecordInStep'
  BY <1>14 DEF RecordInStep, InStep
<1>. QED
  BY <1>10, <1>11, <1>13, <1>15 DEF MapInv

\* A management request goes behind those that wait for an answer.
LEMMA SendManagementMaps ==
  ASSUME MapInv, NEW fd \in Fds, NEW type \in Management,
         SendManagementRequest(fd, type)
  PROVE  MapInv'
<1>. DEFINE queue == connection_map[fd].management_queue
            new == [connection_map[fd] EXCEPT !.management_queue =
                      Append(@, type)]
<1>1. fd \in Connected /\ fd \in Entries
  BY DEF SendManagementRequest, CanSend, Connected
<1>2. connection_map[fd] \in ConnectionType /\ queue \in Seq(Management)
  BY <1>1 DEF MapInv, MapTypes, ConnectionType
<1>3. /\ Append(queue, type) \in Seq(Management)
      /\ Append(queue, type) # <<>>
      /\ queue # <<>> => Append(queue, type)[1] = queue[1]
  BY <1>2
<1>4. /\ new \in ConnectionType
      /\ new.ids = connection_map[fd].ids
      /\ new.record = connection_map[fd].record
      /\ new.connected = connection_map[fd].connected
      /\ new.invalidated = connection_map[fd].invalidated
      /\ new.management_queue = Append(queue, type)
  BY <1>2, <1>3 DEF ConnectionType
<1>5. /\ Entries' = Entries /\ connection_map'[fd] = new
      /\ connection_map' \in [Entries' -> ConnectionType]
      /\ \A g \in Entries \ {fd} : connection_map'[g] = connection_map[g]
  <2>1. connection_map' = [connection_map EXCEPT ![fd] = new]
    BY DEF SendManagementRequest
  <2>. HIDE DEF new
  <2>. QED
    BY <1>1, <1>4, <2>1, UpdateFacts DEF MapInv
<1>6. Connected' = Connected
  BY <1>1, <1>4, <1>5 DEF Connected
<1>7. /\ pending' = pending /\ completed' = completed
      /\ wire' = wire /\ rest' = rest /\ peer' = peer
      /\ number_connected' = number_connected
  BY DEF SendManagementRequest, serverVars, requestVars
<1>8. MapTypes'
  BY <1>5, <1>7 DEF MapInv, MapTypes
<1>9. MapsAgree'
  <2>1. \A g \in Entries :
          connection_map[g].ids \subseteq connection_map'[g].ids
    BY <1>4, <1>5
  <2>. QED
    BY <1>5, <1>6, <1>7, <2>1, MapsKept DEF MapInv
<1>10. \A g \in Entries :
        /\ connection_map'[g].record = connection_map[g].record
        /\ connection_map'[g].connected = connection_map[g].connected
        /\ connection_map'[g].invalidated = connection_map[g].invalidated
  BY <1>1, <1>4, <1>5
<1>11. \A g \in Entries : HeadType(g) # "none" => HeadType(g)' = HeadType(g)
  <2>1. HeadType(fd) # "none" => HeadType(fd)' = HeadType(fd)
    <3>. HIDE DEF new
    <3>. QED
      BY <1>3, <1>4, <1>5 DEF HeadType
  <2>2. \A g \in Entries \ {fd} : HeadType(g)' = HeadType(g)
    BY <1>5 DEF HeadType
  <2>. QED
    BY <2>1, <2>2
<1>12. FramingInv'
  <2>1. ASSUME NEW g \in Connected PROVE FramingOn(g)'
    <3>1. g \in Entries /\ FramingOn(g)
      BY DEF MapInv, FramingInv, Connected
    <3>. QED
      BY <1>7, <1>10, <3>1 DEF FramingOn
  <2>. QED
    BY <1>5, <1>6, <1>7, <1>10, <2>1 DEF MapInv, FramingInv
<1>13. \A g \in Entries' : InStep(g)'
  <2>. SUFFICES ASSUME NEW g \in Entries' PROVE InStep(g)'
    OBVIOUS
  <2>1. g \in Entries /\ InStep(g)
    BY <1>5, RecordInStepOn DEF MapInv
  <2>. QED
    BY <1>7, <1>10, <1>11, <2>1, InStepKept DEF MapInv
<1>14. RecordInStep'
  BY <1>13 DEF RecordInStep, InStep
<1>. QED
  BY <1>8, <1>9, <1>12, <1>14 DEF MapInv

\* A step that leaves the maps and what the sockets hold alone.
LEMMA MapInvUnchanged ==
  ASSUME MapInv,
         UNCHANGED <<connection_map, requestVars, number_connected, wire, rest>>,
         \A fd \in Fds : peer'[fd] = "none" <=> peer[fd] = "none"
  PROVE  MapInv'
<1>1. MapTypes' /\ MapsAgree' /\ Entries' = Entries /\ Connected' = Connected
  BY MapsUnchanged DEF MapInv
<1>2. FramingInv'
  BY <1>1 DEF MapInv, FramingInv, FramingOn
<1>3. \A g \in Entries' : InStep(g)'
  <2>. SUFFICES ASSUME NEW g \in Entries' PROVE InStep(g)'
    OBVIOUS
  <2>1. g \in Entries /\ InStep(g)
    BY <1>1, RecordInStepOn DEF MapInv
  <2>. QED
    BY <1>1, <2>1, InStepKept DEF MapInv, requestVars, HeadType
<1>4. RecordInStep'
  BY <1>3 DEF RecordInStep, InStep
<1>. QED
  BY <1>1, <1>2, <1>4 DEF MapInv

-----------------------------------------------------------------------------
(* The servers.                                                            *)

\* A part of a record arrives on a connection that had sent what came before.
LEMMA PartArrives ==
  ASSUME MapInv, NEW fd \in Connected,
         UNCHANGED <<connection_map, requestVars, number_connected, peer>>,
         FramingOn(fd)',
         \A g \in Fds \ {fd} : wire'[g] = wire[g] /\ rest'[g] = rest[g]
  PROVE  MapInv'
<1>1. MapTypes' /\ MapsAgree' /\ Entries' = Entries /\ Connected' = Connected
  BY MapsUnchanged DEF MapInv
<1>2. FramingInv'
  <2>1. ASSUME NEW g \in Connected PROVE FramingOn(g)'
    <3>1. FramingOn(g) /\ g \in Fds
      BY DEF MapInv, FramingInv, MapTypes, Connected
    <3>. QED
      BY <3>1 DEF FramingOn
  <2>. QED
    BY <1>1, <2>1 DEF MapInv, FramingInv
<1>3. \A g \in Entries' : InStep(g)'
  <2>. SUFFICES ASSUME NEW g \in Entries' PROVE InStep(g)'
    OBVIOUS
  <2>1. g \in Entries /\ InStep(g)
    BY <1>1, RecordInStepOn DEF MapInv
  <2>. QED
    BY <1>1, <2>1, InStepKept DEF MapInv, requestVars, HeadType
<1>4. RecordInStep'
  BY <1>3 DEF RecordInStep, InStep
<1>. QED
  BY <1>1, <1>2, <1>4 DEF MapInv

LEMMA ServerMaps ==
  ASSUME MapInv, OtherTypes, NEW fd \in Fds, Server(fd)
  PROVE  MapInv' /\ OtherTypes'
<1>1. ASSUME NEW rec \in Records[fd], ServerSends(fd, rec)
      PROVE  MapInv' /\ OtherTypes'
  <2>1. rec \in RecordType
    BY ClientAssumption
  <2>2. fd \in Connected /\ FramingOn(fd)
    BY <1>1 DEF ServerSends, MapInv, MapsAgree, FramingInv
  <2>3. /\ wire'[fd] = <<Part("header", rec)>>
        /\ rest'[fd] = IF rec.body THEN rec ELSE NoRecord
        /\ \A g \in Fds \ {fd} : wire'[g] = wire[g] /\ rest'[g] = rest[g]
        /\ connection_map'[fd].record = connection_map[fd].record
        /\ connection_map[fd].record = NoRecord
    BY <1>1, <2>2 DEF ServerSends, OtherTypes, FramingOn
  <2>4. FramingOn(fd)'
    BY <2>1, <2>3 DEF FramingOn
  <2>5. MapInv'
    BY <1>1, <2>2, <2>3, <2>4, PartArrives DEF ServerSends
  <2>6. Part("header", rec) \in [part : {"header", "body"}, record : RecordType]
    BY <2>1 DEF Part
  <2>7. wire' \in [Fds -> Seq([part : {"header", "body"}, record : RecordType])]
    <3>1. wire'[fd] \in Seq([part : {"header", "body"}, record : RecordType])
      BY <2>3, <2>6
    <3>2. wire' = [g \in Fds |-> wire'[g]]
      BY <1>1 DEF ServerSends, OtherTypes
    <3>. QED
      BY <2>3, <3>1, <3>2 DEF OtherTypes
  <2>8. rest' \in [Fds -> RecordType \cup {NoRecord}]
    BY <1>1, <2>1, <2>3 DEF ServerSends, OtherTypes
  <2>9. OtherTypes'
    BY <1>1, <2>7, <2>8 DEF ServerSends, OtherTypes, trackingVars
  <2>. QED
    BY <2>5, <2>9
<1>2. CASE ServerSendsBody(fd)
  <2>2. fd \in Connected /\ FramingOn(fd)
    BY <1>2 DEF ServerSendsBody, MapInv, MapsAgree, FramingInv
  <2>3. /\ wire'[fd] = <<Part("body", rest[fd])>>
        /\ rest'[fd] = NoRecord
        /\ \A g \in Fds \ {fd} : wire'[g] = wire[g] /\ rest'[g] = rest[g]
        /\ connection_map'[fd].record = connection_map[fd].record
        /\ connection_map[fd].record = rest[fd] /\ rest[fd] # NoRecord
        /\ rest[fd] \in RecordType
    BY <1>2, <2>2 DEF ServerSendsBody, OtherTypes, FramingOn
  <2>4. FramingOn(fd)'
    BY <2>3 DEF FramingOn, Part
  <2>5. MapInv'
    BY <1>2, <2>2, <2>3, <2>4, PartArrives DEF ServerSendsBody
  <2>6. Part("body", rest[fd])
          \in [part : {"header", "body"}, record : RecordType]
    BY <2>3 DEF Part
  <2>7. wire' \in [Fds -> Seq([part : {"header", "body"}, record : RecordType])]
    <3>1. wire'[fd] \in Seq([part : {"header", "body"}, record : RecordType])
      BY <2>3, <2>6
    <3>2. wire' = [g \in Fds |-> wire'[g]]
      BY <1>2 DEF ServerSendsBody, OtherTypes
    <3>. QED
      BY <2>3, <3>1, <3>2 DEF OtherTypes
  <2>8. rest' \in [Fds -> RecordType \cup {NoRecord}]
    BY <1>2, <2>3 DEF ServerSendsBody, OtherTypes
  <2>9. OtherTypes'
    BY <1>2, <2>7, <2>8 DEF ServerSendsBody, OtherTypes, trackingVars
  <2>. QED
    BY <2>5, <2>9
<1>3. CASE ServerCloses(fd)
  <2>1. \A g \in Fds : peer'[g] = "none" <=> peer[g] = "none"
    BY <1>3 DEF ServerCloses, OtherTypes
  <2>2. MapInv'
    BY <1>3, <2>1, MapInvUnchanged DEF ServerCloses
  <2>3. OtherTypes'
    BY <1>3 DEF ServerCloses, OtherTypes, trackingVars
  <2>. QED
    BY <2>2, <2>3
<1>. QED
  BY <1>1, <1>2, <1>3 DEF Server

-----------------------------------------------------------------------------
(* The parts of a record.                                                  *)

\* A part that arrived is taken, and the socket holds nothing more.
LEMMA TakePartFacts ==
  ASSUME MapInv, OtherTypes, NEW fd \in Fds, TakePart(fd)
  PROVE  /\ fd \in Connected /\ fd \in Entries /\ FramingOn(fd)
         /\ wire'[fd] = <<>> /\ wire' \in [Fds -> Seq([part : {"header", "body"},
                                                    record : RecordType])]
         /\ \A g \in Fds \ {fd} : wire'[g] = wire[g]
         /\ rest' = rest
<1>1. fd \in Connected
  BY DEF TakePart, MapInv, FramingInv
<1>2. fd \in Entries /\ FramingOn(fd)
  BY <1>1 DEF Connected, MapInv, FramingInv
<1>3. wire' = [wire EXCEPT ![fd] = Tail(wire[fd])] /\ rest' = rest
  BY DEF TakePart
<1>4. Tail(wire[fd]) = <<>>
  <2>1. \E x : wire[fd] = <<x>>
    BY <1>2 DEF FramingOn, TakePart
  <2>2. \A x : Tail(<<x>>) = <<>>
    OBVIOUS
  <2>. QED
    BY <2>1, <2>2
<1>5. <<>> \in Seq([part : {"header", "body"}, record : RecordType])
  OBVIOUS
<1>6. wire \in [Fds -> Seq([part : {"header", "body"}, record : RecordType])]
  BY DEF OtherTypes
<1>. QED
  BY <1>1, <1>2, <1>3, <1>4, <1>5, <1>6

\* ProcessCompleteRecord on the requests that reading the record left.
LEMMA ProcessFacts ==
  ASSUME MapTypes, MapsAgree, ready_event_count \in Nat,
         NEW fd \in Connected, NEW rec \in RecordType, NEW valid \in BOOLEAN,
         NEW requests \in [DOMAIN pending -> StreamType],
         valid => IsExpected(fd, rec),
         ProcessCompleteRecord(fd, rec, valid, requests)
  PROVE  /\ Entries' = Entries /\ Connected' = Connected
         /\ connection_map' \in [Entries' -> ConnectionType]
         /\ \A g \in Entries \ {fd} : connection_map'[g] = connection_map[g]
         /\ connection_map'[fd].ids = connection_map[fd].ids
         /\ connection_map'[fd].record = NoRecord
         /\ pending' \in [DOMAIN pending' -> StreamType]
         /\ DOMAIN pending' \subseteq DOMAIN pending
         /\ completed \subseteq completed'
         /\ completed' \subseteq completed \cup DOMAIN pending
         /\ (completed' \ completed) \cap DOMAIN pending' = {}
         /\ \A r \in DOMAIN pending :
              r[1] # fd => r \in DOMAIN pending' /\ pending'[r] = requests[r]
         /\ ready_event_count' \in Nat
<1>. DEFINE r == <<fd, rec.id>>
            isStream == valid /\ rec.type \in {"STDOUT", "STDERR"}
            isAnswer ==
              valid /\ rec.type \in {"GET_VALUES_RESULT", "UNKNOWN_TYPE"}
            isEnd ==
              valid /\ rec.type = "END_REQUEST" /\ rec.content # "refused"
            queue == connection_map[fd].management_queue
            new == [connection_map[fd] EXCEPT
                      !.record = NoRecord, !.invalidated = FALSE,
                      !.management_queue = IF isAnswer THEN Tail(@) ELSE @]
<1>1. fd \in Entries /\ connection_map[fd] \in ConnectionType
  BY DEF Connected, MapTypes
<1>2. queue \in Seq(Management)
  BY <1>1 DEF ConnectionType
<1>3. isAnswer => queue # <<>>
  BY ExpectedCases DEF HeadType
<1>4. (IF isAnswer THEN Tail(queue) ELSE queue) \in Seq(Management)
  BY <1>2, <1>3
<1>5. /\ new \in ConnectionType
      /\ new.ids = connection_map[fd].ids
      /\ new.record = NoRecord
      /\ new.connected = connection_map[fd].connected
  BY <1>1, <1>4 DEF ConnectionType
<1>6. /\ Entries' = Entries /\ connection_map'[fd] = new
      /\ connection_map' \in [Entries' -> ConnectionType]
      /\ \A g \in Entries \ {fd} : connection_map'[g] = connection_map[g]
  <2>1. connection_map' = [connection_map EXCEPT ![fd] = new]
    BY DEF ProcessCompleteRecord
  <2>. HIDE DEF new
  <2>. QED
    BY <1>1, <1>5, <2>1, UpdateFacts
<1>7. Connected' = Connected
  BY <1>1, <1>5, <1>6 DEF Connected
<1>8. isEnd \/ isStream => r \in DOMAIN pending
  BY ExpectedCases
<1>9. CASE isEnd
  <2>1. pending' = [k \in DOMAIN pending \ {r} |-> requests[k]]
    BY <1>9 DEF ProcessCompleteRecord, Without
  <2>2. completed' = completed \cup {r}
    BY <1>9 DEF ProcessCompleteRecord
  <2>3. /\ DOMAIN pending' = DOMAIN pending \ {r}
        /\ pending' \in [DOMAIN pending' -> StreamType]
    BY <2>1
  <2>4. \A k \in DOMAIN pending :
          k[1] # fd => k \in DOMAIN pending' /\ pending'[k] = requests[k]
    BY <2>1
  <2>5. ready_event_count' \in Nat
    BY DEF ProcessCompleteRecord
  <2>. HIDE DEF new, isEnd, isStream
  <2>. QED
    BY <1>5, <1>6, <1>7, <1>8, <1>9, <2>2, <2>3, <2>4, <2>5
<1>10. CASE ~isEnd
  <2>1. /\ DOMAIN pending' = DOMAIN pending
        /\ pending' \in [DOMAIN pending' -> StreamType]
        /\ \A k \in DOMAIN pending \ {r} : pending'[k] = requests[k]
    <3>1. CASE isStream
      <4>. DEFINE Completes(type) == rec.type = type /\ rec.content = "none"
      <4>1. pending' = [requests EXCEPT
               ![r].out_completed = @ \/ Completes("STDOUT"),
               ![r].err_completed = @ \/ Completes("STDERR")]
        BY <1>10, <3>1 DEF ProcessCompleteRecord
      <4>. HIDE DEF Completes
      <4>2. r \in DOMAIN pending /\ requests[r] \in StreamType
        BY <1>8, <3>1
      <4>. QED
        BY <4>1, <4>2 DEF StreamType
    <3>2. CASE ~isStream
      <4>1. pending' = requests
        BY <1>10, <3>2 DEF ProcessCompleteRecord
      <4>. QED
        BY <4>1
    <3>. QED
      BY <3>1, <3>2
  <2>2. completed' = completed
    BY <1>10 DEF ProcessCompleteRecord
  <2>3. ready_event_count' \in Nat
    BY DEF ProcessCompleteRecord
  <2>. HIDE DEF new, isEnd, isStream
  <2>. QED
    BY <1>5, <1>6, <1>7, <2>1, <2>2, <2>3
<1>. QED
  BY <1>9, <1>10

\* The record ends: its requests and answers are where they belong.
LEMMA ProcessMaps ==
  ASSUME MapInv, OtherTypes,
         NEW fd \in Fds, TakePart(fd),
         NEW rec \in RecordType, NEW valid \in BOOLEAN,
         NEW requests \in [DOMAIN pending -> StreamType],
         \A r \in DOMAIN pending : r[1] # fd => requests[r] = pending[r],
         rest[fd] = NoRecord,
         valid => IsExpected(fd, rec),
         ProcessCompleteRecord(fd, rec, valid, requests)
  PROVE  MapInv' /\ OtherTypes' /\ Connected' = Connected /\ Entries' = Entries
<1>1. /\ fd \in Connected /\ fd \in Entries /\ FramingOn(fd)
      /\ wire'[fd] = <<>> /\ wire' \in [Fds -> Seq([part : {"header", "body"},
                                                 record : RecordType])]
      /\ \A g \in Fds \ {fd} : wire'[g] = wire[g]
      /\ rest' = rest
  BY TakePartFacts
<1>2. /\ Entries' = Entries /\ Connected' = Connected
      /\ connection_map' \in [Entries' -> ConnectionType]
      /\ \A g \in Entries \ {fd} : connection_map'[g] = connection_map[g]
      /\ connection_map'[fd].ids = connection_map[fd].ids
      /\ connection_map'[fd].record = NoRecord
      /\ pending' \in [DOMAIN pending' -> StreamType]
      /\ DOMAIN pending' \subseteq DOMAIN pending
      /\ completed \subseteq completed'
      /\ completed' \subseteq completed \cup DOMAIN pending
      /\ (completed' \ completed) \cap DOMAIN pending' = {}
      /\ \A r \in DOMAIN pending :
           r[1] # fd => r \in DOMAIN pending' /\ pending'[r] = requests[r]
      /\ ready_event_count' \in Nat
  BY <1>1, ProcessFacts DEF MapInv, OtherTypes
<1>3. number_connected' = number_connected /\ peer' = peer
  BY DEF TakePart
<1>4. MapTypes'
  BY <1>2 DEF MapInv, MapTypes
<1>5. MapsAgree'
  <2>1. \A g \in Entries :
          connection_map[g].ids \subseteq connection_map'[g].ids
    BY <1>2
  <2>. QED
    BY <1>2, <1>3, <2>1, MapsKept DEF MapInv
<1>6. FramingInv'
  <2>1. FramingOn(fd)'
    BY <1>1, <1>2 DEF FramingOn
  <2>2. ASSUME NEW g \in Connected \ {fd} PROVE FramingOn(g)'
    <3>1. g \in Entries /\ g \in Fds /\ FramingOn(g)
      BY DEF MapInv, FramingInv, Connected, MapTypes
    <3>. QED
      BY <1>1, <1>2, <3>1 DEF FramingOn
  <2>. QED
    BY <1>1, <1>2, <2>1, <2>2 DEF MapInv, FramingInv
<1>7. \A g \in Entries' : InStep(g)'
  <2>. SUFFICES ASSUME NEW g \in Entries' PROVE InStep(g)'
    OBVIOUS
  <2>1. CASE g = fd
    BY <1>2, <2>1 DEF InStep
  <2>2. CASE g # fd
    <3>1. g \in Entries /\ InStep(g) /\ connection_map'[g] = connection_map[g]
      BY <1>2, <2>2, RecordInStepOn DEF MapInv
    <3>2. HeadType(g)' = HeadType(g)
      BY <3>1 DEF HeadType
    <3>. QED
      BY <1>2, <2>2, <3>1, <3>2, InStepKept DEF MapInv
  <2>. QED
    BY <2>1, <2>2
<1>8. RecordInStep'
  BY <1>7 DEF RecordInStep, InStep
<1>9. OtherTypes'
  BY <1>1, <1>2 DEF OtherTypes, TakePart, trackingVars
<1>. QED
  BY <1>2, <1>4, <1>5, <1>6, <1>8, <1>9 DEF MapInv

\* The header of a record that has a body.
LEMMA HeaderMaps ==
  ASSUME MapInv, OtherTypes, NEW fd \in Fds, TakePart(fd),
         NEW rec \in RecordType, NEW valid \in BOOLEAN,
         rest[fd] = rec,
         valid <=> IsExpected(fd, rec),
         connection_map' = [connection_map EXCEPT
                              ![fd].record = rec, ![fd].invalidated = ~valid],
         pending' = AfterHeader(fd, rec, valid),
         UNCHANGED <<completed, ready_event_count>>
  PROVE  MapInv' /\ OtherTypes' /\ Connected' = Connected /\ Entries' = Entries
<1>. DEFINE new == [connection_map[fd] EXCEPT
                      !.record = rec, !.invalidated = ~valid]
<1>1. /\ fd \in Connected /\ fd \in Entries /\ FramingOn(fd)
      /\ wire'[fd] = <<>> /\ wire' \in [Fds -> Seq([part : {"header", "body"},
                                                 record : RecordType])]
      /\ \A g \in Fds \ {fd} : wire'[g] = wire[g]
      /\ rest' = rest
  BY TakePartFacts
<1>2. connection_map[fd] \in ConnectionType
  BY <1>1 DEF MapInv, MapTypes
<1>3. /\ new \in ConnectionType
      /\ new.ids = connection_map[fd].ids
      /\ new.record = rec /\ new.invalidated = ~valid
      /\ new.connected = connection_map[fd].connected
      /\ new.management_queue = connection_map[fd].management_queue
  BY <1>2 DEF ConnectionType
<1>4. /\ Entries' = Entries /\ connection_map'[fd] = new
      /\ connection_map' \in [Entries' -> ConnectionType]
      /\ \A g \in Entries \ {fd} : connection_map'[g] = connection_map[g]
  <2>1. connection_map' = [connection_map EXCEPT ![fd] = new]
    OBVIOUS
  <2>. HIDE DEF new
  <2>. QED
    BY <1>1, <1>3, <2>1, UpdateFacts DEF MapInv
<1>5. Connected' = Connected
  BY <1>1, <1>3, <1>4 DEF Connected
<1>6. \A g \in Entries : HeadType(g)' = HeadType(g)
  BY <1>3, <1>4 DEF HeadType
<1>7. pending \in [DOMAIN pending -> StreamType]
  BY DEF MapInv, MapTypes
<1>8. /\ DOMAIN pending' = DOMAIN pending
      /\ pending' \in [DOMAIN pending' -> StreamType]
      /\ \A r \in DOMAIN pending : r[1] # fd => pending'[r] = pending[r]
      /\ \A r \in DOMAIN pending :
           /\ pending'[r].out_completed = pending[r].out_completed
           /\ rec.type # "END_REQUEST" => pending'[r] = pending[r]
           /\ pending[r].err_completed => pending'[r].err_completed
      /\ valid /\ rec.type = "END_REQUEST" =>
           pending'[<<fd, rec.id>>].err_completed
  <2>1. CASE valid /\ rec.type = "END_REQUEST"
    <3>1. <<fd, rec.id>> \in DOMAIN pending
      BY <2>1, ExpectedCases
    <3>2. pending' = [pending EXCEPT ![<<fd, rec.id>>].err_completed = TRUE]
      BY <2>1 DEF AfterHeader
    <3>3. PICK r : r = <<fd, rec.id>>
      OBVIOUS
    <3>4. PICK stream : stream = [pending[r] EXCEPT !.err_completed = TRUE]
      OBVIOUS
    <3>5. pending' = [pending EXCEPT ![r] = stream]
      BY <3>2, <3>3, <3>4
    <3>6. r \in DOMAIN pending /\ pending[r] \in StreamType
      BY <1>7, <2>1, <3>1, <3>3
    <3>7. /\ stream \in StreamType
          /\ stream.out_completed = pending[r].out_completed
          /\ stream.err_completed = TRUE
      BY <3>4, <3>6 DEF StreamType
    <3>8. r[1] = fd
      BY <3>3
    <3>. QED
      BY <1>7, <2>1, <3>3, <3>5, <3>6, <3>7, <3>8
  <2>2. CASE ~(valid /\ rec.type = "END_REQUEST")
    <3>1. pending' = pending
      BY <2>2 DEF AfterHeader
    <3>. QED
      BY <1>7, <2>2, <3>1
  <2>. QED
    BY <2>1, <2>2
<1>9. number_connected' = number_connected /\ peer' = peer
  BY DEF TakePart
<1>10. MapTypes'
  BY <1>4, <1>8 DEF MapInv, MapTypes
<1>11. MapsAgree'
  <2>1. \A g \in Entries :
          connection_map[g].ids \subseteq connection_map'[g].ids
    BY <1>3, <1>4
  <2>. QED
    BY <1>4, <1>5, <1>8, <1>9, <2>1, MapsKept DEF MapInv
<1>12. FramingInv'
  <2>1. FramingOn(fd)'
    BY <1>1, <1>3, <1>4 DEF FramingOn
  <2>2. ASSUME NEW g \in Connected \ {fd} PROVE FramingOn(g)'
    <3>1. g \in Entries /\ g \in Fds /\ FramingOn(g)
      BY DEF MapInv, FramingInv, Connected, MapTypes
    <3>. QED
      BY <1>1, <1>4, <3>1 DEF FramingOn
  <2>. QED
    BY <1>1, <1>4, <1>5, <2>1, <2>2 DEF MapInv, FramingInv
<1>13. \A g \in Entries' : InStep(g)'
  <2>. SUFFICES ASSUME NEW g \in Entries' PROVE InStep(g)'
    OBVIOUS
  <2>1. CASE g = fd
    <3>. SUFFICES ASSUME valid PROVE InStep(fd)'
      BY <1>3, <1>4, <2>1 DEF InStep
    <3>1. IsExpected(fd, rec)
      OBVIOUS
    <3>2. HeadType(fd)' = HeadType(fd)
      BY <1>1, <1>6
    <3>3. IsExpected(fd, rec)'
      BY <1>8, <3>1, <3>2 DEF IsExpected
    <3>4. connection_map'[fd].record = rec /\ fd \in Connected'
      BY <1>1, <1>3, <1>4, <1>5
    <3>. QED
      BY <3>3, <3>4 DEF InStep
  <2>2. CASE g # fd
    <3>1. g \in Entries /\ InStep(g) /\ connection_map'[g] = connection_map[g]
      BY <1>4, <2>2, RecordInStepOn DEF MapInv
    <3>2. HeadType(g)' = HeadType(g)
      BY <1>6, <3>1
    <3>. QED
      BY <1>8, <2>2, <3>1, <3>2, InStepKept, <1>4 DEF MapInv
  <2>. QED
    BY <2>1, <2>2
<1>14. RecordInStep'
  BY <1>13 DEF RecordInStep, InStep
<1>15. OtherTypes'
  BY <1>1 DEF OtherTypes, TakePart, trackingVars
<1>. QED
  BY <1>4, <1>5, <1>10, <1>11, <1>12, <1>14, <1>15 DEF MapInv

\* ReadHeader: a record without a body is complete with its header.
LEMMA ReadHeaderMaps ==
  ASSUME MapInv, OtherTypes, NEW fd \in Fds, ReadHeader(fd)
  PROVE  MapInv' /\ OtherTypes' /\ Connected' = Connected /\ Entries' = Entries
<1>1. TakePart(fd) /\ wire[fd][1].part = "header"
  BY DEF ReadHeader
<1>2. FramingOn(fd)
  BY <1>1, TakePartFacts
<1>3. PICK rec \in RecordType :
        /\ wire[fd] = <<Part("header", rec)>>
        /\ rest[fd] = IF rec.body THEN rec ELSE NoRecord
  <2>1. \A x : Part("body", x).part # "header" /\ <<Part("body", x)>>[1] = Part("body", x)
    BY DEF Part
  <2>2. wire[fd] # <<>>
    BY <1>1 DEF TakePart
  <2>. QED
    BY <1>1, <1>2, <2>1, <2>2 DEF FramingOn
<1>4. wire[fd][1].record = rec
  BY <1>3 DEF Part
<1>5. rec.body \in BOOLEAN
  BY DEF RecordType
<1>6. PICK valid \in BOOLEAN : valid <=> IsExpected(fd, rec)
  OBVIOUS
<1>7. CASE rec.body
  <2>1. /\ connection_map' = [connection_map EXCEPT
                                ![fd].record = rec,
                                ![fd].invalidated = ~IsExpected(fd, rec)]
        /\ pending' = AfterHeader(fd, rec, IsExpected(fd, rec))
        /\ UNCHANGED <<completed, ready_event_count>>
    BY <1>4, <1>7 DEF ReadHeader
  <2>2. connection_map' = [connection_map EXCEPT
                             ![fd].record = rec, ![fd].invalidated = ~valid]
    BY <1>6, <2>1
  <2>3. pending' = AfterHeader(fd, rec, valid)
    BY <1>6, <2>1 DEF AfterHeader
  <2>. QED
    BY <1>1, <1>3, <1>6, <1>7, <2>1, <2>2, <2>3, HeaderMaps
<1>8. CASE ~rec.body
  <2>1. ProcessCompleteRecord(fd, rec, IsExpected(fd, rec), pending)
    BY <1>4, <1>8 DEF ReadHeader
  <2>2. ProcessCompleteRecord(fd, rec, valid, pending)
    BY <1>6, <2>1 DEF ProcessCompleteRecord
  <2>3. pending \in [DOMAIN pending -> StreamType]
    BY DEF MapInv, MapTypes
  <2>. QED
    BY <1>1, <1>3, <1>6, <1>8, <2>2, <2>3, ProcessMaps
<1>. QED
  BY <1>7, <1>8

\* ReadBody: the record is still what its header was accepted for.
LEMMA ReadBodyMaps ==
  ASSUME MapInv, OtherTypes, NEW fd \in Fds, ReadBody(fd)
  PROVE  MapInv' /\ OtherTypes' /\ Connected' = Connected /\ Entries' = Entries
<1>1. TakePart(fd) /\ wire[fd][1].part = "body"
  BY DEF ReadBody
<1>2. fd \in Connected /\ fd \in Entries /\ FramingOn(fd)
  BY <1>1, TakePartFacts
<1>3. /\ connection_map[fd].record # NoRecord
      /\ connection_map[fd] \in ConnectionType
      /\ rest[fd] = NoRecord
  <2>1. \A x : /\ Part("header", x).part # "body"
               /\ <<Part("header", x)>>[1] = Part("header", x)
    BY DEF Part
  <2>2. wire[fd] # <<>>
    BY <1>1 DEF TakePart
  <2>3. connection_map[fd] \in ConnectionType
    BY <1>2 DEF MapInv, MapTypes
  <2>. QED
    BY <1>1, <1>2, <2>1, <2>2, <2>3 DEF FramingOn
<1>4. PICK rec \in RecordType : rec = connection_map[fd].record
  BY <1>3 DEF ConnectionType
<1>5. PICK valid \in BOOLEAN : valid = ~connection_map[fd].invalidated
  OBVIOUS
<1>6. valid => IsExpected(fd, rec)
  BY <1>2, <1>3, <1>4, <1>5, RecordInStepOn DEF MapInv, InStep
<1>7. PICK requests : requests = AfterContent(fd, rec, valid)
  OBVIOUS
<1>8. /\ requests \in [DOMAIN pending -> StreamType]
      /\ \A r \in DOMAIN pending : r[1] # fd => requests[r] = pending[r]
  <2>1. pending \in [DOMAIN pending -> StreamType]
    BY DEF MapInv, MapTypes
  <2>2. CASE valid /\ rec.type = "STDERR" /\ rec.content # "none"
    <3>1. <<fd, rec.id>> \in DOMAIN pending
      BY <1>6, <2>2, ExpectedCases
    <3>2. requests = [pending EXCEPT ![<<fd, rec.id>>].err_data = TRUE]
      BY <1>7, <2>2 DEF AfterContent
    <3>3. PICK r : r = <<fd, rec.id>>
      OBVIOUS
    <3>4. PICK stream : stream = [pending[r] EXCEPT !.err_data = TRUE]
      OBVIOUS
    <3>5. requests = [pending EXCEPT ![r] = stream]
      BY <3>2, <3>3, <3>4
    <3>6. r \in DOMAIN pending /\ pending[r] \in StreamType
      BY <2>1, <3>1, <3>3
    <3>7. /\ stream \in StreamType
          /\ stream.out_completed = pending[r].out_completed
          /\ stream.err_completed = pending[r].err_completed
      BY <3>4, <3>6 DEF StreamType
    <3>8. r[1] = fd
      BY <3>3
    <3>. QED
      BY <2>1, <3>3, <3>5, <3>6, <3>7, <3>8
  <2>3. CASE ~(valid /\ rec.type = "STDERR" /\ rec.content # "none")
    BY <1>7, <2>1, <2>3 DEF AfterContent
  <2>. QED
    BY <2>2, <2>3
<1>9. ProcessCompleteRecord(fd, rec, valid, requests)
  BY <1>4, <1>5, <1>7 DEF ReadBody
<1>. QED
  BY <1>1, <1>3, <1>6, <1>8, <1>9, ProcessMaps

-----------------------------------------------------------------------------
(* The connections that are ready.                                         *)

ReadyFrom(next) == {fd \in Connected \cap select_set : fd >= next}

\* What ReadyTracked says of a count and an iterator.
Tracked(remaining, next) ==
  remaining > 0 =>
    next \in Entries /\ remaining <= Cardinality(ReadyFrom(next))

LEMMA ReadyFinite ==
  ASSUME MapTypes, NEW next
  PROVE  /\ IsFiniteSet(ReadyFrom(next)) /\ Cardinality(ReadyFrom(next)) \in Nat
         /\ Cardinality(ReadyFrom(next)) > 0 => ReadyFrom(next) # {}
<1>1. ReadyFrom(next) \in SUBSET Fds
  BY DEF ReadyFrom, Connected, MapTypes
<1>2. IsFiniteSet(ReadyFrom(next))
  BY <1>1, ClientAssumption, FS_Subset
<1>. QED
  BY <1>2, FS_CardinalityType, FS_EmptySet

\* A connection that leaves the ready ones is one less.
LEMMA OneLessReady ==
  ASSUME MapTypes, NEW fd \in Connected \cap select_set,
         NEW next \in Nat, next <= fd
  PROVE  Cardinality(ReadyFrom(next) \ {fd}) = Cardinality(ReadyFrom(next)) - 1
<1>1. fd \in ReadyFrom(next)
  <2>1. fd \in Nat
    BY EndFacts DEF MapTypes, Connected
  <2>. QED
    BY <2>1 DEF ReadyFrom
<1>. QED
  BY <1>1, ReadyFinite, FS_RemoveElement

LEMMA ReadyAfter ==
  ASSUME MapTypes, NEW fd \in Connected
  PROVE  ReadyFrom(Following(fd)) = ReadyFrom(fd) \ {fd}
<1>1. Connected \subseteq Entries /\ Entries \subseteq Fds /\ Fds \in SUBSET Nat
  BY EndFacts DEF Connected, MapTypes
<1>2. /\ fd < Following(fd) /\ Following(fd) \in Nat
      /\ \A k \in Entries : k > fd => Following(fd) <= k
  BY <1>1, FollowingFacts
<1>3. ASSUME NEW g \in Connected
      PROVE  g >= Following(fd) <=> g >= fd /\ g # fd
  <2>1. g \in Nat /\ fd \in Nat /\ g \in Entries
    BY <1>1
  <2>2. g > fd => Following(fd) <= g
    BY <1>2, <2>1
  <2>. QED
    BY <1>2, <2>1, <2>2
<1>. QED
  BY <1>3 DEF ReadyFrom

\* To the entry behind the one that was read or closed.
LEMMA TrackedAfter ==
  ASSUME MapTypes, NEW fd \in Connected \cap select_set, NEW remaining \in Nat,
         remaining > 0, remaining <= Cardinality(ReadyFrom(fd))
  PROVE  /\ remaining - 1 <= Cardinality(ReadyFrom(fd) \ {fd})
         /\ ReadyFrom(Following(fd)) = ReadyFrom(fd) \ {fd}
         /\ remaining > 1 => Following(fd) \in Entries \ {fd}
         /\ Tracked(remaining - 1, Following(fd))
<1>1. Connected \subseteq Entries /\ Entries \subseteq Fds /\ Fds \in SUBSET Nat
  BY EndFacts DEF Connected, MapTypes
<1>2. fd \in Nat /\ fd \in Fds
  BY <1>1
<1>3. remaining - 1 <= Cardinality(ReadyFrom(fd) \ {fd})
  <2>1. Cardinality(ReadyFrom(fd) \ {fd}) = Cardinality(ReadyFrom(fd)) - 1
    BY <1>2, OneLessReady
  <2>. QED
    BY <2>1, ReadyFinite
<1>4. ReadyFrom(Following(fd)) = ReadyFrom(fd) \ {fd}
  BY ReadyAfter
<1>5. ASSUME remaining > 1 PROVE Following(fd) \in Entries \ {fd}
  <2>1. Cardinality(ReadyFrom(Following(fd))) > 0
    BY <1>3, <1>4, <1>5, ReadyFinite
  <2>2. PICK g \in ReadyFrom(Following(fd)) : TRUE
    BY <2>1, ReadyFinite
  <2>3. g \in Fds /\ g >= Following(fd)
    BY <1>1 DEF ReadyFrom
  <2>4. /\ Following(fd) \in Entries \cup {End}
        /\ fd < Following(fd) /\ Following(fd) \in Nat
    BY <1>1, <1>2, FollowingFacts
  <2>5. Following(fd) # End
    BY <2>3, EndFacts
  <2>. QED
    BY <1>2, <2>4, <2>5
<1>. QED
  BY <1>3, <1>4, <1>5 DEF Tracked

\* Connections may be added, and the place stays where it is.
LEMMA TrackingKept ==
  ASSUME MapTypes, MapTypes', OtherTypes, ReadyTracked, ReadingInv,
         Connected \subseteq Connected',
         UNCHANGED trackingVars,
         next_connection \in Entries => next_connection \in Entries',
         place' = "reading" => place = "reading"
  PROVE  ReadyTracked' /\ ReadingInv'
<1>1. Ready \subseteq Ready'
  BY DEF Ready, trackingVars
<1>2. IsFiniteSet(Ready') /\ IsFiniteSet(Ready)
  <2>1. Ready' \in SUBSET Fds /\ Ready \in SUBSET Fds
    BY DEF Ready, Connected, MapTypes
  <2>. QED
    BY <2>1, ClientAssumption, FS_Subset
<1>3. /\ Cardinality(Ready) <= Cardinality(Ready') /\ Cardinality(Ready) \in Nat
      /\ Cardinality(Ready') \in Nat
  BY <1>1, <1>2, FS_Subset, FS_CardinalityType
<1>4. Cardinality(Ready)' = Cardinality(Ready')
  OBVIOUS
<1>5. ReadyTracked'
  <2>. SUFFICES ASSUME remaining_ready > 0, next_connection # Dangling
                PROVE  /\ next_connection \in Entries'
                       /\ remaining_ready <= Cardinality(Ready')
    BY <1>4 DEF ReadyTracked, trackingVars
  <2>1. /\ next_connection \in Entries /\ remaining_ready >= 0
        /\ remaining_ready <= Cardinality(Ready)
    BY DEF ReadyTracked
  <2>2. remaining_ready \in Nat
    BY DEF OtherTypes
  <2>. QED
    BY <1>3, <2>1, <2>2
<1>6. ReadingInv'
  BY <1>1 DEF ReadingInv, trackingVars
<1>. QED
  BY <1>5, <1>6


\* CloseConnection takes the connection from the ready ones that are left, and
\* never leaves next_connection_ behind at an erased entry without saying so.
LEMMA CloseTracking ==
  ASSUME MapTypes, OtherTypes, NEW fd \in Connected,
         NEW remaining \in Nat, NEW next \in Fds \cup {Dangling, End},
         NEW acquired \in SUBSET Ids,
         Tracked(remaining, next),
         CloseConnection(fd, remaining, next, acquired)
  PROVE  /\ ReadyTracked'
         /\ remaining_ready' \in Nat
         /\ next_connection' \in Fds \cup {Dangling, End}
<1>1. /\ Connected \subseteq Entries /\ Entries \subseteq Fds
      /\ Fds \in SUBSET Nat /\ fd \in Fds /\ fd \in Nat /\ next \in Nat
  BY EndFacts DEF Connected, MapTypes
<1>2. /\ Entries' = IF CompletedOn(fd) # {} THEN Entries ELSE Entries \ {fd}
      /\ Connected' = Connected \ {fd}
      /\ select_set' = select_set
      /\ remaining_ready' = RemainingAfterClose(fd, remaining, next)
  <2>1. select_set' = select_set
    BY DEF CloseConnection
  <2>2. remaining_ready' = RemainingAfterClose(fd, remaining, next)
    BY DEF CloseConnection
  <2>. QED
    BY <2>1, <2>2, CloseFacts
<1>. DEFINE passed == IF IsReady(fd, remaining, next) /\ next = fd
                      THEN Following(fd) ELSE next
<1>3. next_connection' = IF CompletedOn(fd) # {} THEN passed
                         ELSE AfterErase(passed, fd)
  BY DEF CloseConnection
<1>4. Following(fd) \in Entries \cup {End} /\ fd < Following(fd)
  BY <1>1, FollowingFacts
<1>5. passed \in Fds \cup {Dangling, End}
  BY <1>1, <1>4
<1>6. remaining_ready' \in Nat /\ next_connection' \in Fds \cup {Dangling, End}
  BY <1>2, <1>3, <1>5 DEF AfterErase, RemainingAfterClose, IsReady
<1>7. Ready' = {g \in (Connected \ {fd}) \cap select_set : g >= next_connection'}
  BY <1>2 DEF Ready
<1>8. ASSUME remaining_ready' > 0, next_connection' # Dangling
      PROVE  /\ next_connection' \in Entries'
             /\ remaining_ready' <= Cardinality(Ready')
  <2>1. next_connection' = passed /\ remaining > 0
    BY <1>2, <1>3, <1>8 DEF AfterErase, RemainingAfterClose
  <2>2. next \in Entries /\ remaining <= Cardinality(ReadyFrom(next))
    BY <2>1 DEF Tracked
  <2>3. CASE IsReady(fd, remaining, next) /\ next = fd
    <3>1. fd \in Connected \cap select_set
      BY <2>3 DEF IsReady
    <3>2. remaining_ready' = remaining - 1 /\ next_connection' = Following(fd)
      BY <1>2, <2>1, <2>3 DEF RemainingAfterClose
    <3>3. /\ remaining - 1 <= Cardinality(ReadyFrom(fd) \ {fd})
          /\ ReadyFrom(Following(fd)) = ReadyFrom(fd) \ {fd}
          /\ Following(fd) \in Entries \ {fd}
      BY <1>8, <2>1, <2>2, <2>3, <3>1, <3>2, TrackedAfter
    <3>4. Ready' = ReadyFrom(Following(fd))
      BY <1>7, <3>2, <3>3 DEF ReadyFrom
    <3>. QED
      BY <1>2, <3>2, <3>3, <3>4
  <2>4. CASE IsReady(fd, remaining, next) /\ next # fd
    <3>1. fd \in Connected \cap select_set /\ next <= fd
      BY <2>4 DEF IsReady
    <3>2. remaining_ready' = remaining - 1 /\ next_connection' = next
      BY <1>2, <2>1, <2>4 DEF RemainingAfterClose
    <3>3. Ready' = ReadyFrom(next) \ {fd}
      BY <1>7, <3>2 DEF ReadyFrom
    <3>4. Cardinality(ReadyFrom(next) \ {fd}) = Cardinality(ReadyFrom(next)) - 1
      BY <1>1, <3>1, OneLessReady
    <3>5. remaining - 1 <= Cardinality(ReadyFrom(next) \ {fd})
      BY <2>2, <3>4, ReadyFinite
    <3>. QED
      BY <1>2, <2>2, <2>4, <3>2, <3>3, <3>5
  <2>5. CASE ~IsReady(fd, remaining, next)
    <3>1. remaining_ready' = remaining /\ next_connection' = next
      BY <1>2, <2>1, <2>5 DEF RemainingAfterClose
    <3>2. fd \notin ReadyFrom(next)
      BY <1>1, <2>1, <2>5 DEF ReadyFrom, IsReady
    <3>3. Ready' = ReadyFrom(next)
      BY <1>7, <3>1, <3>2 DEF ReadyFrom
    <3>4. next \in Entries'
      <4>1. CASE CompletedOn(fd) # {}
        BY <1>2, <2>2, <4>1
      <4>2. CASE CompletedOn(fd) = {}
        <5>1. next # fd
          BY <1>3, <1>8, <2>1, <2>5, <4>2 DEF AfterErase
        <5>. QED
          BY <1>2, <2>2, <5>1
      <4>. QED
        BY <4>1, <4>2
    <3>. QED
      BY <2>2, <3>1, <3>3, <3>4
  <2>. QED
    BY <2>3, <2>4, <2>5
<1>9. Cardinality(Ready)' = Cardinality(Ready')
  OBVIOUS
<1>. QED
  BY <1>6, <1>8, <1>9 DEF ReadyTracked

LEMMA NowTracked ==
  ASSUME ReadyTracked, OtherTypes, ~UsesDangling
  PROVE  Tracked(remaining_ready, next_connection)
<1>1. Ready = ReadyFrom(next_connection)
  BY DEF Ready, ReadyFrom
<1>. QED
  BY <1>1 DEF ReadyTracked, UsesDangling, Tracked

\* The count and the place after a connection was read.
LEMMA AfterRead ==
  ASSUME MapTypes, OtherTypes, ReadyTracked, ReadingInv,
         place = "reading", NEW fd \in Fds, next_connection = fd
  PROVE  /\ fd \in Connected
         /\ RemainingAfterRead \in Nat
         /\ NextAfterRead(fd) \in Fds \cup {Dangling, End}
         /\ Tracked(RemainingAfterRead, NextAfterRead(fd))
<1>1. remaining_ready > 0 /\ fd \in Connected \cap select_set
  BY DEF ReadingInv, Ready
<1>2. remaining_ready \in Nat /\ RemainingAfterRead = remaining_ready - 1
  BY DEF OtherTypes, RemainingAfterRead
<1>3. remaining_ready <= Cardinality(ReadyFrom(fd))
  <2>1. Ready = ReadyFrom(fd) /\ next_connection # Dangling
    BY EndFacts DEF Ready, ReadyFrom
  <2>. QED
    BY <1>1, <2>1 DEF ReadyTracked
<1>4. /\ Tracked(remaining_ready - 1, Following(fd))
      /\ remaining_ready > 1 => Following(fd) \in Entries
  BY <1>1, <1>2, <1>3, TrackedAfter
<1>5. CASE remaining_ready = 1
  <2>1. NextAfterRead(fd) = End /\ RemainingAfterRead = 0
    BY <1>2, <1>5 DEF NextAfterRead
  <2>. QED
    BY <1>1, <2>1 DEF Tracked
<1>6. CASE remaining_ready # 1
  <2>1. NextAfterRead(fd) = Following(fd)
    BY <1>6 DEF NextAfterRead
  <2>2. Following(fd) \in Fds
    BY <1>1, <1>2, <1>4, <1>6 DEF MapTypes
  <2>. QED
    BY <1>1, <1>2, <1>4, <2>1, <2>2
<1>. QED
  BY <1>5, <1>6

TrackInv == ReadyTracked /\ ReadingInv

\* A step in which nothing is closed and the place stays.
LEMMA StepTracking ==
  ASSUME ClientInv, MapInv', OtherTypes',
         Connected \subseteq Connected', Entries \subseteq Entries',
         UNCHANGED trackingVars,
         place' = "reading" => place = "reading"
  PROVE  ClientInv'
<1>1. TrackInv'
  BY TrackingKept DEF ClientInv, MapInv, TrackInv
<1>. QED
  BY <1>1 DEF ClientInv, MapInv, TrackInv

\* A step in which a connection is closed, with the count and place that
\* CloseConnection found.
LEMMA CloseStep ==
  ASSUME ClientInv, NEW fd \in Connected,
         NEW remaining \in Nat, NEW next \in Fds \cup {Dangling, End},
         NEW acquired \in SUBSET Ids,
         Tracked(remaining, next),
         CloseConnection(fd, remaining, next, acquired),
         ready_event_count' \in Nat, undefined' = undefined,
         place' \in {"idle", "retrieve"}
  PROVE  ClientInv'
<1>. USE DEF ClientInv
<1>1. MapInv'
  BY CloseMapInv DEF MapInv
<1>2. /\ ReadyTracked' /\ remaining_ready' \in Nat
      /\ next_connection' \in Fds \cup {Dangling, End}
  BY CloseTracking
<1>3. ReadingInv'
  BY DEF ReadingInv
<1>4. peer' \in [Fds -> {"none", "open", "closed"}]
  BY DEF CloseConnection, CloseSockets, OtherTypes
<1>5. wire' \in [Fds -> Seq([part : {"header", "body"}, record : RecordType])]
  <2>1. <<>> \in Seq([part : {"header", "body"}, record : RecordType])
    OBVIOUS
  <2>2. wire \in [Fds -> Seq([part : {"header", "body"}, record : RecordType])]
    BY DEF OtherTypes
  <2>3. wire' = [g \in Fds |-> IF g \in {fd} THEN <<>> ELSE wire[g]]
    BY DEF CloseConnection, CloseSockets
  <2>. QED
    BY <2>1, <2>2, <2>3
<1>6. rest' \in [Fds -> RecordType \cup {NoRecord}]
  BY DEF CloseConnection, CloseSockets, OtherTypes
<1>7. select_set' = select_set
  BY DEF CloseConnection
<1>8. OtherTypes'
  BY <1>2, <1>4, <1>5, <1>6, <1>7 DEF OtherTypes
<1>. QED
  BY <1>1, <1>2, <1>3, <1>8 DEF MapInv

-----------------------------------------------------------------------------
(* RetrieveServerEvent.                                                    *)

LEMMA SelectKeeps ==
  ASSUME ClientInv, Select
  PROVE  ClientInv'
<1>. USE DEF ClientInv
<1>1. MapInv'
  BY MapInvUnchanged DEF Select, serverVars, MapInv
<1>2. Entries' = Entries /\ Connected' = Connected
  BY DEF Select, Entries, Connected
<1>3. Connected \subseteq Entries /\ Entries \subseteq Fds /\ Fds \in SUBSET Nat
  BY EndFacts DEF Connected, MapTypes
<1>4. CASE place' = "idle"
  <2>1. remaining_ready' = 0 /\ next_connection' = next_connection /\ select_set' = {}
    BY <1>4 DEF Select
  <2>2. TrackInv'
    BY <1>4, <2>1 DEF TrackInv, ReadyTracked, ReadingInv
  <2>3. OtherTypes'
    BY <1>4, <2>1 DEF OtherTypes, Select, serverVars
  <2>. QED
    BY <1>1, <2>2, <2>3 DEF MapInv, TrackInv
<1>5. CASE place' # "idle"
  <2>1. /\ Readable # {} /\ select_set' = Readable
        /\ remaining_ready' = Cardinality(Readable)
        /\ next_connection' = Min(Readable) /\ place' = "reading"
    BY <1>5 DEF Select
  <2>2. Readable \subseteq Connected
    BY DEF Readable
  <2>3. Readable \in SUBSET Nat
    BY <1>3, <2>2
  <2>4. Min(Readable) \in Readable /\ \A x \in Readable : Min(Readable) <= x
    BY <2>1, <2>3, Smallest
  <2>5. Cardinality(Readable) \in Nat /\ Cardinality(Readable) > 0
    <3>1. IsFiniteSet(Readable)
      <4>1. Readable \in SUBSET Fds
        BY <1>3, <2>2
      <4>. QED
        BY <4>1, ClientAssumption, FS_Subset
    <3>. QED
      BY <2>1, <3>1, FS_CardinalityType, FS_EmptySet
  <2>6. Ready' = Readable
    <3>1. Ready' = {g \in Connected \cap Readable : g >= Min(Readable)}
      BY <1>2, <2>1 DEF Ready
    <3>. QED
      BY <2>2, <2>3, <2>4, <3>1
  <2>7. Cardinality(Ready)' = Cardinality(Readable)
    BY <2>6
  <2>8. ReadyTracked'
    <3>1. next_connection' \in Entries'
      BY <1>2, <1>3, <2>1, <2>2, <2>4
    <3>. QED
      BY <2>1, <2>5, <2>7, <3>1 DEF ReadyTracked
  <2>9. ReadingInv'
    BY <2>1, <2>4, <2>5, <2>6 DEF ReadingInv
  <2>10. OtherTypes'
    <3>1. select_set' \subseteq Fds /\ next_connection' \in Fds
      BY <1>3, <2>1, <2>2, <2>4
    <3>. QED
      BY <2>1, <2>5, <3>1 DEF OtherTypes, Select, serverVars
  <2>. QED
    BY <1>1, <2>8, <2>9, <2>10 DEF MapInv
<1>. QED
  BY <1>4, <1>5

LEMMA ExamineKeeps ==
  ASSUME ClientInv, ExamineSelectReturn
  PROVE  ClientInv'
<1>. USE DEF ClientInv
<1>1. MapInv'
  BY MapInvUnchanged DEF ExamineSelectReturn, serverVars, MapInv
<1>2. Entries' = Entries /\ Connected' = Connected
  BY DEF ExamineSelectReturn, Entries, Connected
<1>3. /\ Ready # {} /\ next_connection' = Min(Ready) /\ place' = "reading"
      /\ remaining_ready > 0 /\ next_connection # Dangling
      /\ UNCHANGED <<remaining_ready, select_set>>
  BY DEF ExamineSelectReturn, UsesDangling
<1>4. /\ Connected \subseteq Entries /\ Entries \subseteq Fds
      /\ Fds \in SUBSET Nat /\ next_connection \in Nat
  BY EndFacts DEF Connected, MapTypes, OtherTypes
<1>5. Ready \in SUBSET Nat /\ Ready \subseteq Connected
  BY <1>4 DEF Ready
<1>6. Min(Ready) \in Ready /\ \A x \in Ready : Min(Ready) <= x
  BY <1>3, <1>5, Smallest
<1>7. Ready' = Ready
  <2>1. Ready' = {g \in Connected \cap select_set : g >= Min(Ready)}
    BY <1>2, <1>3 DEF Ready
  <2>2. \A g \in Connected \cap select_set :
          g >= Min(Ready) <=> g >= next_connection
    <3>1. Min(Ready) >= next_connection /\ Min(Ready) \in Nat
      BY <1>5, <1>6 DEF Ready
    <3>2. \A g \in Connected \cap select_set :
            g >= next_connection => g >= Min(Ready)
      <4>. SUFFICES ASSUME NEW g \in Connected \cap select_set,
                           g >= next_connection
                    PROVE  Min(Ready) <= g
        BY <1>4, <3>1
      <4>1. g \in Ready
        BY DEF Ready
      <4>. QED
        BY <1>6, <4>1
    <3>. QED
      BY <1>4, <3>1, <3>2
  <2>. QED
    BY <2>1, <2>2 DEF Ready
<1>8. ReadyTracked' /\ ReadingInv'
  <2>1. Cardinality(Ready)' = Cardinality(Ready)
    BY <1>7
  <2>2. next_connection' \in Entries' /\ next_connection' \in Ready'
    BY <1>2, <1>3, <1>4, <1>5, <1>6, <1>7
  <2>. QED
    BY <1>3, <2>1, <2>2 DEF ReadyTracked, ReadingInv
<1>9. OtherTypes'
  BY <1>3, <1>4, <1>5, <1>6 DEF OtherTypes, ExamineSelectReturn, serverVars
<1>. QED
  BY <1>1, <1>8, <1>9 DEF MapInv

LEMMA ReadKeeps ==
  ASSUME ClientInv, NEW fd \in Fds,
         ReadHeader(fd) \/ ReadBody(fd) \/ ReadBlocks(fd) \/ ReadEnds(fd)
  PROVE  ClientInv'
<1>. USE DEF ClientInv
<1>0. MapInv
  BY DEF MapInv
<1>1. CASE ReadHeader(fd) \/ ReadBody(fd)
  <2>1. MapInv' /\ OtherTypes' /\ Connected' = Connected /\ Entries' = Entries
    BY <1>0, <1>1, ReadHeaderMaps, ReadBodyMaps
  <2>2. UNCHANGED trackingVars /\ place' = place
    BY <1>1 DEF ReadHeader, ReadBody, TakePart, trackingVars
  <2>. QED
    BY <2>1, <2>2, StepTracking
<1>2. CASE ReadBlocks(fd)
  <2>1. /\ remaining_ready' = RemainingAfterRead
        /\ next_connection' = NextAfterRead(fd)
        /\ select_set' = select_set /\ place' = "retrieve"
    BY <1>2 DEF ReadBlocks
  <2>2. /\ RemainingAfterRead \in Nat
        /\ NextAfterRead(fd) \in Fds \cup {Dangling, End}
        /\ Tracked(RemainingAfterRead, NextAfterRead(fd))
    BY <1>2, AfterRead DEF ReadBlocks
  <2>3. Entries' = Entries /\ Connected' = Connected
    BY <1>2 DEF ReadBlocks, Entries, Connected
  <2>4. Ready' = ReadyFrom(NextAfterRead(fd))
    BY <2>1, <2>3 DEF Ready, ReadyFrom
  <2>5. Cardinality(Ready)' = Cardinality(ReadyFrom(NextAfterRead(fd)))
    BY <2>4
  <2>6. TrackInv'
    BY <2>1, <2>2, <2>3, <2>5
       DEF Tracked, TrackInv, ReadyTracked, ReadingInv
  <2>7. MapInv'
    BY <1>0, <1>2, MapInvUnchanged DEF ReadBlocks, serverVars
  <2>8. OtherTypes'
    BY <1>2, <2>1, <2>2 DEF OtherTypes, ReadBlocks, serverVars
  <2>. QED
    BY <2>6, <2>7, <2>8 DEF MapInv, TrackInv
<1>3. CASE ReadEnds(fd)
  <2>1. /\ fd \in Connected
        /\ RemainingAfterRead \in Nat
        /\ NextAfterRead(fd) \in Fds \cup {Dangling, End}
        /\ Tracked(RemainingAfterRead, NextAfterRead(fd))
    BY <1>3, AfterRead DEF ReadEnds
  <2>2. ready_event_count' \in Nat /\ place' = "retrieve" /\ undefined' = undefined
    BY <1>3 DEF ReadEnds, AddEvent, OtherTypes
  <2>3. CloseConnection(fd, RemainingAfterRead, NextAfterRead(fd), {})
    BY <1>3 DEF ReadEnds
  <2>. HIDE DEF ClientInv
  <2>. QED
    BY <2>1, <2>2, <2>3, CloseStep
<1>. QED
  BY <1>1, <1>2, <1>3

\* Steps that only change the place, the events or the flag.
LEMMA PlaceKeeps ==
  ASSUME ClientInv, CallRetrieve \/ ReturnEvent \/ UseDangling \/ ReadThrows
  PROVE  ClientInv'
<1>. USE DEF ClientInv
<1>1. /\ UNCHANGED <<connection_map, requestVars, number_connected, serverVars,
                     trackingVars>>
      /\ place' = "reading" => place = "reading"
  BY DEF CallRetrieve, ReturnEvent, UseDangling, ReadThrows
<1>2. MapInv'
  BY <1>1, MapInvUnchanged DEF serverVars, MapInv
<1>3. /\ ready_event_count' \in Nat /\ undefined' \in BOOLEAN
      /\ place' \in {"idle", "retrieve", "reading"}
  <2>1. /\ ready_event_count \in Nat /\ undefined \in BOOLEAN
        /\ place \in {"idle", "retrieve", "reading"}
    BY DEF OtherTypes
  <2>2. CASE CallRetrieve \/ ReadThrows
    BY <2>1, <2>2 DEF CallRetrieve, ReadThrows
  <2>3. CASE ReturnEvent
    BY <2>1, <2>3 DEF ReturnEvent
  <2>4. CASE UseDangling
    BY <2>1, <2>4 DEF UseDangling
  <2>. QED
    BY <2>2, <2>3, <2>4
<1>4. OtherTypes'
  BY <1>1, <1>3 DEF OtherTypes, serverVars, trackingVars
<1>5. Entries' = Entries /\ Connected' = Connected
  BY <1>1 DEF Entries, Connected
<1>. QED
  BY <1>1, <1>2, <1>4, <1>5, StepTracking

LEMMA RetrieveKeeps ==
  ASSUME ClientInv, Retrieve \/ ReadThrows \/ CloseDangling
  PROVE  ClientInv'
BY PlaceKeeps, SelectKeeps, ExamineKeeps, ReadKeeps
   DEF Retrieve, Read, CloseDangling, ExamineDangling

-----------------------------------------------------------------------------
(* The application.                                                        *)

LEMMA DestroyKeeps ==
  ASSUME ClientInv, Destroy
  PROVE  ClientInv'
<1>. USE DEF ClientInv
<1>1. MapInv'
  BY DestroyMaps DEF MapInv
<1>2. /\ remaining_ready' = 0 /\ next_connection' = End /\ select_set' = {}
      /\ place = "idle" /\ place' = "idle" /\ undefined' = undefined
      /\ ready_event_count' = 0
  BY DEF Destroy
<1>3. TrackInv'
  BY <1>2 DEF TrackInv, ReadyTracked, ReadingInv
<1>4. peer' \in [Fds -> {"none", "open", "closed"}]
  BY DEF Destroy, CloseSockets, OtherTypes
<1>5. wire' \in [Fds -> Seq([part : {"header", "body"}, record : RecordType])]
  <2>1. <<>> \in Seq([part : {"header", "body"}, record : RecordType])
    OBVIOUS
  <2>2. wire \in [Fds -> Seq([part : {"header", "body"}, record : RecordType])]
    BY DEF OtherTypes
  <2>3. wire' = [g \in Fds |-> IF g \in Connected THEN <<>> ELSE wire[g]]
    BY DEF Destroy, CloseSockets
  <2>. QED
    BY <2>1, <2>2, <2>3
<1>6. rest' \in [Fds -> RecordType \cup {NoRecord}]
  BY DEF Destroy, CloseSockets, OtherTypes
<1>7. OtherTypes'
  BY <1>2, <1>4, <1>5, <1>6 DEF OtherTypes
<1>. QED
  BY <1>1, <1>3, <1>7 DEF MapInv, TrackInv

LEMMA ReleaseKeeps ==
  ASSUME ClientInv, NEW fd \in Fds, NEW requests \in SUBSET CompletedOn(fd),
         ReleaseId(fd, requests)
  PROVE  ClientInv'
<1>. USE DEF ClientInv
<1>1. MapInv'
  BY ReleaseMaps DEF MapInv
<1>2. /\ \A g \in Entries \ {fd} : g \in Entries'
      /\ Connected' = Connected
  BY ReleaseFacts DEF MapInv
<1>3. /\ UNCHANGED <<remaining_ready, select_set, place, undefined,
                     ready_event_count, serverVars>>
      /\ place = "idle"
  BY DEF ReleaseId
<1>4. \/ next_connection' = next_connection
      \/ next_connection' = Dangling
  BY DEF ReleaseId, Release, AfterErase
<1>5. next_connection = fd /\ fd \notin Entries' => next_connection' = Dangling
  <2>. SUFFICES ASSUME next_connection = fd, fd \notin Entries'
                PROVE  next_connection' = Dangling
    OBVIOUS
  <2>1. fd \in Entries
    BY ReleaseFacts DEF MapInv
  <2>2. CASE fd \in Connected \/ CompletedOn(fd) # requests
    <3>1. connection_map'
            = [connection_map EXCEPT ![fd].ids = @ \ IdsOf(requests)]
      BY <2>2 DEF ReleaseId, Release
    <3>. QED
      BY <2>1, <3>1 DEF Entries
  <2>3. CASE ~(fd \in Connected \/ CompletedOn(fd) # requests)
    BY <2>3 DEF ReleaseId, Release, AfterErase
  <2>. QED
    BY <2>2, <2>3
<1>6. OtherTypes'
  BY <1>3, <1>4 DEF OtherTypes, serverVars
<1>7. CASE next_connection' = Dangling
  <2>1. TrackInv'
    BY <1>3, <1>7 DEF TrackInv, ReadyTracked, ReadingInv, OtherTypes
  <2>. QED
    BY <1>1, <1>6, <2>1 DEF MapInv, TrackInv
<1>8. CASE next_connection' # Dangling
  <2>1. UNCHANGED trackingVars
    BY <1>3, <1>4, <1>8 DEF trackingVars
  <2>2. next_connection \in Entries => next_connection \in Entries'
    BY <1>2, <1>5, <1>8
  <2>3. TrackInv'
    BY <1>1, <1>2, <1>3, <2>1, <2>2, TrackingKept DEF TrackInv, MapInv
  <2>. QED
    BY <1>1, <1>6, <2>3 DEF MapInv, TrackInv
<1>. QED
  BY <1>7, <1>8

LEMMA UserKeeps ==
  ASSUME ClientInv, NEW fd \in Fds, User(fd)
  PROVE  ClientInv'
<1>. USE DEF ClientInv
<1>0. MapInv
  BY DEF MapInv
<1>1. CASE Connect(fd)
  <2>1. MapInv'
    BY <1>0, <1>1, ConnectMaps
  <2>2. Entries' = Entries \cup {fd} /\ Connected' = Connected \cup {fd}
    BY <1>0, <1>1, ConnectFacts
  <2>3. OtherTypes'
    BY <1>1 DEF OtherTypes, Connect, trackingVars
  <2>. QED
    BY <1>1, <2>1, <2>2, <2>3, StepTracking DEF Connect
<1>2. CASE UserCloses(fd)
  <2>1. Tracked(remaining_ready, next_connection)
    BY <1>2, NowTracked DEF UserCloses
  <2>2. /\ fd \in Connected
        /\ CloseConnection(fd, remaining_ready, next_connection, {})
        /\ ready_event_count' \in Nat /\ undefined' = undefined
        /\ place' \in {"idle", "retrieve"}
        /\ remaining_ready \in Nat
        /\ next_connection \in Fds \cup {Dangling, End}
    BY <1>2 DEF UserCloses, OtherTypes
  <2>. HIDE DEF ClientInv
  <2>. QED
    BY <2>1, <2>2, CloseStep
<1>3. CASE Releases(fd)
  <2>1. PICK requests \in {CompletedOn(fd)} \cup {{r} : r \in CompletedOn(fd)} :
          ReleaseId(fd, requests)
    BY <1>3 DEF Releases
  <2>2. requests \in SUBSET CompletedOn(fd)
    BY <2>1
  <2>. HIDE DEF ClientInv
  <2>. QED
    BY <2>1, <2>2, ReleaseKeeps
<1>4. CASE SendRequest(fd)
  <2>1. MapInv'
    BY <1>0, <1>4, SendRequestMaps
  <2>2. Entries' = Entries /\ Connected \subseteq Connected'
    <3>1. connection_map' = [connection_map EXCEPT ![fd].ids = @ \cup {NewId(fd)}]
      BY <1>4 DEF SendRequest
    <3>2. Entries' = Entries
      BY <3>1 DEF Entries
    <3>3. \A g \in Connected : connection_map[g] \in ConnectionType
      BY DEF MapTypes, Connected
    <3>4. \A g \in Connected : connection_map'[g].connected
      BY <3>1, <3>3 DEF Connected, ConnectionType
    <3>. QED
      BY <3>2, <3>4 DEF Connected
  <2>3. OtherTypes'
    BY <1>4 DEF OtherTypes, SendRequest, trackingVars, serverVars
  <2>. QED
    BY <1>4, <2>1, <2>2, <2>3, StepTracking DEF SendRequest
<1>5. CASE SendFails(fd)
  <2>1. Tracked(remaining_ready, next_connection)
    BY <1>5, NowTracked DEF SendFails
  <2>2. PICK acquired \in Acquired(fd) :
          CloseConnection(fd, remaining_ready, next_connection, acquired)
    BY <1>5 DEF SendFails
  <2>3. acquired \in SUBSET Ids
    <3>1. FreeIds(fd) # {} => NewId(fd) \in Ids
      <4>1. FreeIds(fd) \in SUBSET Nat /\ FreeIds(fd) \subseteq Ids
        BY ClientAssumption DEF FreeIds
      <4>. QED
        BY <4>1, Smallest DEF NewId
    <3>. QED
      BY <3>1 DEF Acquired
  <2>4. /\ fd \in Connected
        /\ ready_event_count' \in Nat /\ undefined' = undefined
        /\ place' \in {"idle", "retrieve"}
        /\ remaining_ready \in Nat
        /\ next_connection \in Fds \cup {Dangling, End}
    BY <1>5 DEF SendFails, CanSend, AddEvent, OtherTypes
  <2>. HIDE DEF ClientInv
  <2>. QED
    BY <2>1, <2>2, <2>3, <2>4, CloseStep
<1>6. ASSUME NEW type \in Management, SendManagementRequest(fd, type)
      PROVE  ClientInv'
  <2>1. MapInv'
    BY <1>0, <1>6, SendManagementMaps
  <2>2. Entries' = Entries /\ Connected \subseteq Connected'
    <3>1. connection_map'
            = [connection_map EXCEPT ![fd].management_queue = Append(@, type)]
      BY <1>6 DEF SendManagementRequest
    <3>2. Entries' = Entries
      BY <3>1 DEF Entries
    <3>3. \A g \in Connected : connection_map[g] \in ConnectionType
      BY DEF MapTypes, Connected
    <3>4. \A g \in Connected : connection_map'[g].connected
      BY <3>1, <3>3 DEF Connected, ConnectionType
    <3>. QED
      BY <3>2, <3>4 DEF Connected
  <2>3. OtherTypes'
    BY <1>6 DEF OtherTypes, SendManagementRequest, trackingVars, serverVars
  <2>. QED
    BY <1>6, <2>1, <2>2, <2>3, StepTracking DEF SendManagementRequest
<1>. QED
  BY <1>1, <1>2, <1>3, <1>4, <1>5, <1>6 DEF User, Management

LEMMA ServerKeeps ==
  ASSUME ClientInv, NEW fd \in Fds, Server(fd)
  PROVE  ClientInv'
<1>1. MapInv' /\ OtherTypes'
  BY ServerMaps DEF ClientInv, MapInv
<1>2. UNCHANGED <<connection_map, trackingVars, place>>
  BY DEF Server, ServerSends, ServerSendsBody, ServerCloses
<1>3. Entries' = Entries /\ Connected' = Connected
  BY <1>2 DEF Entries, Connected
<1>. QED
  BY <1>1, <1>2, <1>3, StepTracking

-----------------------------------------------------------------------------
(* The theorems.                                                           *)

LEMMA ClientInitial ==
  ASSUME Init
  PROVE  ClientInv
<1>1. Entries = {} /\ Connected = {} /\ DOMAIN pending = {} /\ completed = {}
  BY DEF Init, Entries, Connected
<1>2. MapTypes
  BY <1>1 DEF Init, MapTypes
<1>3. MapsAgree
  <2>1. number_connected = Cardinality(Connected)
    BY <1>1, FS_EmptySet DEF Init
  <2>. QED
    BY <1>1, <2>1 DEF Init, MapsAgree
<1>4. FramingInv /\ RecordInStep
  BY <1>1 DEF Init, FramingInv, RecordInStep
<1>5. ReadyTracked /\ ReadingInv
  BY DEF Init, ReadyTracked, ReadingInv
<1>6. OtherTypes
  <2>1. <<>> \in Seq([part : {"header", "body"}, record : RecordType])
    OBVIOUS
  <2>2. wire \in [Fds -> Seq([part : {"header", "body"}, record : RecordType])]
    BY <2>1 DEF Init
  <2>3. peer \in [Fds -> {"none", "open", "closed"}]
    BY DEF Init
  <2>4. rest \in [Fds -> RecordType \cup {NoRecord}]
    BY DEF Init
  <2>. QED
    BY <2>2, <2>3, <2>4 DEF Init, OtherTypes
<1>. QED
  BY <1>2, <1>3, <1>4, <1>5, <1>6 DEF ClientInv

LEMMA ClientInductive ==
  ASSUME ClientInv, [Next]_vars
  PROVE  ClientInv'
<1>1. CASE UNCHANGED vars
  <2>1. UNCHANGED <<connection_map, requestVars, number_connected, serverVars,
                    trackingVars, place, undefined, ready_event_count>>
    BY <1>1 DEF vars
  <2>2. MapInv'
    BY <2>1, MapInvUnchanged DEF serverVars, MapInv, ClientInv
  <2>3. OtherTypes'
    BY <2>1 DEF OtherTypes, serverVars, trackingVars, ClientInv
  <2>4. Entries' = Entries /\ Connected' = Connected
    BY <2>1 DEF Entries, Connected
  <2>. QED
    BY <2>1, <2>2, <2>3, <2>4, StepTracking
<1>2. CASE Retrieve \/ ReadThrows \/ CloseDangling
  BY <1>2, RetrieveKeeps
<1>3. CASE Destroy
  BY <1>3, DestroyKeeps
<1>4. ASSUME NEW fd \in Fds, User(fd) \/ Server(fd) PROVE ClientInv'
  BY <1>4, UserKeeps, ServerKeeps
<1>. QED
  BY <1>1, <1>2, <1>3, <1>4 DEF Next

LEMMA ClientInvariant == Spec => []ClientInv
<1>1. Init => ClientInv
  BY ClientInitial
<1>2. ClientInv /\ [Next]_vars => ClientInv'
  BY ClientInductive
<1>. QED
  BY <1>1, <1>2, PTL DEF Spec

\* The maps of the client, the sockets that it holds and its count of them
\* agree, for any number of connections, identifiers and connections that are
\* closed and connected again (the invariants of
\* test_fcgi_client_interface.cc:60-80).
THEOREM MapsAlwaysAgree == Spec => []MapsAgree
<1>1. ClientInv => MapsAgree
  BY DEF ClientInv
<1>. QED
  BY <1>1, ClientInvariant, PTL

\* ExamineSelectReturn always finds the connection that it looks for, unless the
\* iterator was left at an erased entry.
THEOREM ReadyAlwaysTracked == Spec => []ReadyTracked
<1>1. ClientInv => ReadyTracked
  BY DEF ClientInv
<1>. QED
  BY <1>1, ClientInvariant, PTL

\* ProcessCompleteRecord finds the request or the management request for which
\* UpdateOnHeaderCompletion accepted the header, whatever came in between.
THEOREM RecordsStayInStep == Spec => []RecordInStep
<1>1. ClientInv => RecordInStep
  BY DEF ClientInv
<1>. QED
  BY <1>1, ClientInvariant, PTL
=============================================================================
