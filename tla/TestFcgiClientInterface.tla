---------------------- MODULE TestFcgiClientInterface ----------------------
(***************************************************************************)
(* TestFcgiClientInterface: the client with which the repository tests     *)
(* servers.  One thread calls it, so a call is one step, except for        *)
(* RetrieveServerEvent, which waits for servers and reads what they send   *)
(* part by part: the header of a record, then its content and padding.     *)
(* What requests, responses and events carry is left out.                  *)
(*                                                                         *)
(* An iterator of connection_map_ is its key, End, or Dangling when its    *)
(* element was erased.  Nothing is said of what follows the use of a       *)
(* dangling iterator.                                                      *)
(***************************************************************************)
EXTENDS Integers, Sequences, FiniteSets, FiniteSetsExt

CONSTANTS
  Fds,            \* descriptors that the kernel may return
  Ids,            \* FastCGI request identifiers, without 0
  Records,        \* the records that the server on a descriptor sends
  MaxSends,       \* bound of sends for each descriptor
  MaxConnects, MaxRecords   \* bounds

VARIABLES
  connection_map,     \* descriptor |-> ConnectionState
  pending,            \* pending_request_map_: <<fd, id>> |-> stream state
  completed,          \* completed_request_set_
  ready_event_count,  \* micro_event_queue_.size()
  number_connected, remaining_ready, next_connection, select_set,
  place,              \* where in RetrieveServerEvent the client is, or "idle"
  undefined,          \* a dangling iterator was used
  peer,               \* kernel and server: what happened on a descriptor
  wire,               \* parts sent by the server and not yet read
  rest,               \* the record whose header was sent without its body
  connects, sends, records   \* counters for the bounds

requestVars == <<pending, completed>>
trackingVars == <<remaining_ready, next_connection, select_set>>
serverVars == <<peer, wire, rest>>
countVars == <<connects, sends, records>>
vars == <<connection_map, requestVars, ready_event_count, number_connected,
          trackingVars, place, undefined, serverVars, countVars>>

Dangling == 0
End == Max(Fds) + 1

\* A record with neither content nor padding has no body.
Types == {"END_REQUEST", "STDOUT", "STDERR", "GET_VALUES_RESULT",
          "UNKNOWN_TYPE", "other"}
RecordType == [type : Types, id : Ids \cup {0}, body : BOOLEAN,
               content : {"none", "some", "refused"}]
NoRecord == [type |-> "none"]

ASSUME ClientAssumption ==
  /\ Fds \subseteq Nat \ {0} /\ IsFiniteSet(Fds) /\ Fds # {}
  /\ Ids \subseteq Nat \ {0} /\ IsFiniteSet(Ids)
  /\ Records \in [Fds -> SUBSET RecordType]

-----------------------------------------------------------------------------
(* The maps.                                                               *)

Entries == DOMAIN connection_map
Connected == {fd \in Entries : connection_map[fd].connected}
PendingOn(fd) == {r \in DOMAIN pending : r[1] = fd}
CompletedOn(fd) == {r \in completed : r[1] = fd}
IdsOf(requests) == {r[2] : r \in requests}

NewConnection ==
  [connected |-> TRUE, ids |-> {}, record |-> NoRecord, invalidated |-> FALSE,
   management_queue |-> <<>>]
NewRequest == [out_completed |-> FALSE, err_data |-> FALSE,
               err_completed |-> FALSE]

Without(map, keys) == [k \in DOMAIN map \ keys |-> map[k]]
With(map, key, value) ==
  [k \in DOMAIN map \cup {key} |-> IF k = key THEN value ELSE map[k]]

Following(fd) == Min({k \in Entries : k > fd} \cup {End})

\* micro_event_queue_.push_back: a response, an answer to a management request,
\* an invalid record or the closure of a connection.
AddEvent == ready_event_count' = ready_event_count + 1

\* What erasing the entry of fd makes of an iterator.
AfterErase(iterator, fd) == IF iterator = fd THEN Dangling ELSE iterator

-----------------------------------------------------------------------------
Init ==
  /\ connection_map = [fd \in {} |-> NewConnection]
  /\ pending = [r \in {} |-> NewRequest]
  /\ completed = {}
  /\ ready_event_count = 0
  /\ number_connected = 0
  /\ remaining_ready = 0 /\ next_connection = End /\ select_set = {}
  /\ place = "idle"
  /\ undefined = FALSE
  /\ peer = [fd \in Fds |-> "none"]
  /\ wire = [fd \in Fds |-> <<>>]
  /\ rest = [fd \in Fds |-> NoRecord]
  /\ connects = 0 /\ sends = 0 /\ records = 0

\* close(2): the descriptor is free and what was not read is lost.
CloseSockets(fds) ==
  /\ peer' = [fd \in Fds |-> IF fd \in fds THEN "none" ELSE peer[fd]]
  /\ wire' = [fd \in Fds |-> IF fd \in fds THEN <<>> ELSE wire[fd]]
  /\ rest' = [fd \in Fds |-> IF fd \in fds THEN NoRecord ELSE rest[fd]]

\* The destructor, and the constructor of the next instance.
Destroy ==
  /\ place = "idle"
  /\ connection_map' = [fd \in {} |-> NewConnection]
  /\ pending' = [r \in {} |-> NewRequest]
  /\ completed' = {}
  /\ ready_event_count' = 0
  /\ number_connected' = 0
  /\ remaining_ready' = 0 /\ next_connection' = End /\ select_set' = {}
  /\ CloseSockets(Connected)
  /\ UNCHANGED <<place, undefined, countVars>>

\* socket(2) returns the least free descriptor.
FreeFds == {fd \in Fds : peer[fd] = "none"}

\* A descriptor whose entry was kept goes on with its identifiers.
Connect(fd) ==
  /\ place = "idle"
  /\ connects < MaxConnects
  /\ fd \in FreeFds /\ fd = Min(FreeFds)
  /\ connection_map' =
       IF fd \in Entries
       THEN [connection_map EXCEPT ![fd].connected = TRUE]
       ELSE With(connection_map, fd, NewConnection)
  /\ number_connected' = number_connected + 1
  /\ peer' = [peer EXCEPT ![fd] = "open"]
  /\ connects' = connects + 1
  /\ UNCHANGED <<requestVars, ready_event_count, trackingVars, place, undefined,
                 wire, rest, sends, records>>

-----------------------------------------------------------------------------
(* CloseConnection, with remaining_ready_ and next_connection_ as they are *)
(* when it is called.                                                      *)

IsReady(fd, remaining, next) ==
  remaining > 0 /\ next <= fd /\ fd \in select_set

\* Mutant of RemainingAfterClose: a closed connection is still awaited.
RemainingKept(fd, remaining, next) == remaining

RemainingAfterClose(fd, remaining, next) ==
  IF IsReady(fd, remaining, next) THEN remaining - 1 ELSE remaining

\* Mutant of KeptState: a record that was begun is not forgotten.
KeptStateWithRecord(fd, acquired) ==
  [connection_map[fd] EXCEPT
     !.connected = FALSE, !.management_queue = <<>>,
     !.ids = (@ \ IdsOf(PendingOn(fd))) \cup acquired]

KeptState(fd, acquired) ==
  [NewConnection EXCEPT
     !.connected = FALSE,
     !.ids = (connection_map[fd].ids \ IdsOf(PendingOn(fd))) \cup acquired]

\* An entry with completed requests is kept for their identifiers.  acquired are
\* identifiers that a failing SendRequest took and does not give back.
CloseConnection(fd, remaining, next, acquired) ==
  LET kept == CompletedOn(fd) # {}
      passed == IF IsReady(fd, remaining, next) /\ next = fd
                THEN Following(fd) ELSE next
  IN  /\ connection_map' =
           IF kept
           THEN [connection_map EXCEPT ![fd] = KeptState(fd, acquired)]
           ELSE Without(connection_map, {fd})
      /\ pending' = Without(pending, PendingOn(fd))
      /\ next_connection' = IF kept THEN passed ELSE AfterErase(passed, fd)
      /\ remaining_ready' = RemainingAfterClose(fd, remaining, next)
      /\ number_connected' = number_connected - 1
      /\ CloseSockets({fd})
      /\ UNCHANGED <<completed, select_set>>

\* CloseConnection and ExamineSelectReturn look through next_connection_.
UsesDangling == remaining_ready > 0 /\ next_connection = Dangling

UserCloses(fd) ==
  /\ place = "idle"
  /\ ~UsesDangling
  /\ fd \in Connected
  /\ CloseConnection(fd, remaining_ready, next_connection, {})
  /\ UNCHANGED <<ready_event_count, place, undefined, countVars>>

UseDangling ==
  /\ UsesDangling
  /\ undefined' = TRUE
  /\ UNCHANGED <<connection_map, requestVars, ready_event_count,
                 number_connected, trackingVars, place, serverVars, countVars>>

CloseDangling == place = "idle" /\ Connected # {} /\ UseDangling
ExamineDangling ==
  place = "retrieve" /\ ready_event_count = 0 /\ UseDangling

-----------------------------------------------------------------------------
(* ReleaseId.  Identifiers that are in use but neither pending nor         *)
(* completed make it throw, and nothing changes.                           *)

\* Mutant of Release: the entry of a closed connection is never erased.
ReleaseOnly(fd, requests) ==
  /\ connection_map' = [connection_map EXCEPT ![fd].ids = @ \ IdsOf(requests)]
  /\ UNCHANGED next_connection

\* The entry of a closed connection goes with its last completed request.
Release(fd, requests) ==
  IF fd \in Connected \/ CompletedOn(fd) # requests
  THEN /\ connection_map' =
            [connection_map EXCEPT ![fd].ids = @ \ IdsOf(requests)]
       /\ UNCHANGED next_connection
  ELSE /\ connection_map' = Without(connection_map, {fd})
       /\ next_connection' = AfterErase(next_connection, fd)

ReleaseId(fd, requests) ==
  /\ place = "idle"
  /\ requests # {}
  /\ Release(fd, requests)
  /\ completed' = completed \ requests
  /\ UNCHANGED <<pending, ready_event_count, number_connected, remaining_ready,
                 select_set, place, undefined, serverVars, countVars>>

\* ReleaseId(FcgiRequestIdentifier) and ReleaseId(int).
Releases(fd) ==
  \E requests \in {CompletedOn(fd)} \cup {{r} : r \in CompletedOn(fd)} :
    ReleaseId(fd, requests)

-----------------------------------------------------------------------------
(* Requests.  A write may fail, because the server closed or for another   *)
(* reason.  Where FailedWrite leaves the connection open, the identifier   *)
(* or the element of the queue is given back and nothing changes.          *)

CanSend(fd) == place = "idle" /\ fd \in Connected /\ sends < MaxSends[fd]

FreeIds(fd) == Ids \ connection_map[fd].ids
NewId(fd) == Min(FreeIds(fd))

SendRequest(fd) ==
  /\ CanSend(fd)
  /\ FreeIds(fd) # {}
  /\ sends' = sends + 1
  /\ connection_map' = [connection_map EXCEPT ![fd].ids = @ \cup {NewId(fd)}]
  /\ pending' = With(pending, <<fd, NewId(fd)>>, NewRequest)
  /\ UNCHANGED <<completed, ready_event_count, number_connected, trackingVars,
                 place, undefined, serverVars, connects, records>>

\* SendGetValuesRequest and SendBinaryManagementRequest.
SendManagementRequest(fd, type) ==
  /\ CanSend(fd)
  /\ sends' = sends + 1
  /\ connection_map' =
       [connection_map EXCEPT ![fd].management_queue = Append(@, type)]
  /\ UNCHANGED <<requestVars, ready_event_count, number_connected, trackingVars,
                 place, undefined, serverVars, connects, records>>

\* What a failing send may have taken: SendRequest an identifier, a management
\* request or SendAbortRequest nothing.
Acquired(fd) ==
  {{}} \cup (IF FreeIds(fd) = {} THEN {} ELSE {{NewId(fd)}})

\* FailedWrite closes the connection: EPIPE, a part of a request was written, or
\* nothing of FCGI_BEGIN_REQUEST, for which SendRequest inverts the condition.
SendFails(fd) ==
  /\ CanSend(fd)
  /\ ~UsesDangling
  /\ sends' = sends + 1
  /\ \E acquired \in Acquired(fd) :
       CloseConnection(fd, remaining_ready, next_connection, acquired)
  /\ AddEvent
  /\ UNCHANGED <<place, undefined, connects, records>>

-----------------------------------------------------------------------------
(* RetrieveServerEvent.                                                    *)

CallRetrieve ==
  /\ place = "idle"
  /\ place' = "retrieve"
  /\ UNCHANGED <<connection_map, requestVars, ready_event_count,
                 number_connected, trackingVars, undefined, serverVars,
                 countVars>>

ReturnEvent ==
  /\ place = "retrieve"
  /\ ready_event_count > 0
  /\ ready_event_count' = ready_event_count - 1
  /\ place' = "idle"
  /\ UNCHANGED <<connection_map, requestVars, number_connected, trackingVars,
                 undefined, serverVars, countVars>>

\* select(2) blocks until there is data or the end of file.
Readable == {fd \in Connected : wire[fd] # <<>> \/ peer[fd] = "closed"}

\* Without a connection std::logic_error is thrown; otherwise
\* ExamineSelectReturn goes to the first connection that is ready.
Select ==
  /\ place = "retrieve"
  /\ ready_event_count = 0
  /\ remaining_ready = 0
  /\ \/ /\ Connected = {}
        /\ select_set' = {}
        /\ place' = "idle"
        /\ UNCHANGED <<remaining_ready, next_connection>>
     \/ /\ Readable # {}
        /\ select_set' = Readable
        /\ remaining_ready' = Cardinality(Readable)
        /\ next_connection' = Min(Readable)
        /\ place' = "reading"
  /\ UNCHANGED <<connection_map, requestVars, ready_event_count,
                 number_connected, undefined, serverVars, countVars>>

\* ExamineSelectReturn with connections left from the last select.
Ready == {fd \in Connected \cap select_set : fd >= next_connection}

ExamineSelectReturn ==
  /\ place = "retrieve"
  /\ ready_event_count = 0
  /\ remaining_ready > 0
  /\ ~UsesDangling
  /\ Ready # {}
  /\ next_connection' = Min(Ready)
  /\ place' = "reading"
  /\ UNCHANGED <<connection_map, requestVars, ready_event_count,
                 number_connected, remaining_ready, select_set, undefined,
                 serverVars, countVars>>

-----------------------------------------------------------------------------
(* The record that is being read.                                          *)

HeadType(fd) ==
  LET queue == connection_map[fd].management_queue
  IN  IF queue = <<>> THEN "none" ELSE queue[1]

\* UpdateOnHeaderCompletion: is the record one that the client waits for?  The
\* version is part of the type, and no content stands for a wrong length.
IsExpected(fd, rec) ==
  LET r == <<fd, rec.id>>
      isPending == r \in DOMAIN pending
  IN  CASE rec.type = "END_REQUEST" ->
             /\ isPending
             /\ pending[r].err_completed \/ ~pending[r].err_data
             /\ pending[r].out_completed
             /\ rec.content # "none"
        [] rec.type = "STDOUT" -> isPending /\ ~pending[r].out_completed
        [] rec.type = "STDERR" -> isPending /\ ~pending[r].err_completed
        [] rec.type = "GET_VALUES_RESULT" ->
             rec.id = 0 /\ HeadType(fd) = "GET_VALUES"
        [] rec.type = "UNKNOWN_TYPE" ->
             rec.id = 0 /\ rec.content # "none" /\ HeadType(fd) = "binary"
        [] OTHER -> FALSE

\* An accepted FCGI_END_REQUEST header completes FCGI_STDERR if it was not used.
AfterHeader(fd, rec, valid) ==
  IF valid /\ rec.type = "END_REQUEST"
  THEN [pending EXCEPT ![<<fd, rec.id>>].err_completed = TRUE]
  ELSE pending

\* Content is added to the stream of the request as it is read.
AfterContent(fd, rec, valid) ==
  IF valid /\ rec.type = "STDERR" /\ rec.content # "none"
  THEN [pending EXCEPT ![<<fd, rec.id>>].err_data = TRUE]
  ELSE pending

\* ProcessCompleteRecord, with the requests as reading the record left them.
ProcessCompleteRecord(fd, rec, valid, requests) ==
  LET r == <<fd, rec.id>>
      isStream == valid /\ rec.type \in {"STDOUT", "STDERR"}
      isAnswer == valid /\ rec.type \in {"GET_VALUES_RESULT", "UNKNOWN_TYPE"}
      isEnd == valid /\ rec.type = "END_REQUEST" /\ rec.content # "refused"
      Completes(type) == rec.type = type /\ rec.content = "none"
  IN  /\ connection_map' =
           [connection_map EXCEPT
              ![fd].record = NoRecord, ![fd].invalidated = FALSE,
              ![fd].management_queue = IF isAnswer THEN Tail(@) ELSE @]
      /\ pending' =
           IF isEnd THEN Without(requests, {r})
           ELSE IF isStream
           THEN [requests EXCEPT ![r].out_completed = @ \/ Completes("STDOUT"),
                                 ![r].err_completed = @ \/ Completes("STDERR")]
           ELSE requests
      /\ completed' = IF isEnd THEN completed \cup {r} ELSE completed
      /\ ready_event_count' =
           IF isStream THEN ready_event_count ELSE ready_event_count + 1

TakePart(fd) ==
  /\ place = "reading"
  /\ next_connection = fd
  /\ wire[fd] # <<>>
  /\ wire' = [wire EXCEPT ![fd] = Tail(@)]
  /\ UNCHANGED <<number_connected, trackingVars, place, undefined, peer, rest,
                 countVars>>

ReadHeader(fd) ==
  /\ TakePart(fd)
  /\ wire[fd][1].part = "header"
  /\ LET rec == wire[fd][1].record
         valid == IsExpected(fd, rec)
     IN  IF rec.body
         THEN /\ connection_map' = [connection_map EXCEPT
                                      ![fd].record = rec,
                                      ![fd].invalidated = ~valid]
              /\ pending' = AfterHeader(fd, rec, valid)
              /\ UNCHANGED <<completed, ready_event_count>>
         ELSE ProcessCompleteRecord(fd, rec, valid, pending)

ReadBody(fd) ==
  /\ TakePart(fd)
  /\ wire[fd][1].part = "body"
  /\ LET rec == connection_map[fd].record
         valid == ~connection_map[fd].invalidated
     IN  ProcessCompleteRecord(fd, rec, valid, AfterContent(fd, rec, valid))

\* The connection has been read: to the next one, if any is ready.
RemainingAfterRead == remaining_ready - 1
NextAfterRead(fd) == IF remaining_ready = 1 THEN End ELSE Following(fd)

\* read(2) would block.
ReadBlocks(fd) ==
  /\ place = "reading"
  /\ next_connection = fd
  /\ wire[fd] = <<>> /\ peer[fd] = "open"
  /\ remaining_ready' = RemainingAfterRead
  /\ next_connection' = NextAfterRead(fd)
  /\ place' = "retrieve"
  /\ UNCHANGED <<connection_map, requestVars, ready_event_count,
                 number_connected, select_set, undefined, serverVars,
                 countVars>>

\* Mutant of ReadEnds: the end of file is taken for a lack of data.
ReadEndsOpen(fd) ==
  /\ place = "reading"
  /\ next_connection = fd
  /\ wire[fd] = <<>> /\ peer[fd] = "closed"
  /\ remaining_ready' = RemainingAfterRead
  /\ next_connection' = NextAfterRead(fd)
  /\ place' = "retrieve"
  /\ UNCHANGED <<connection_map, requestVars, ready_event_count,
                 number_connected, select_set, undefined, serverVars,
                 countVars>>

\* The end of file, or ECONNRESET, which may come before all data was read.
ReadEnds(fd) ==
  /\ place = "reading"
  /\ next_connection = fd
  /\ peer[fd] = "closed"
  /\ CloseConnection(fd, RemainingAfterRead, NextAfterRead(fd), {})
  /\ AddEvent
  /\ place' = "retrieve"
  /\ UNCHANGED <<undefined, countVars>>

\* Another error: std::system_error, and the next call reads on.
ReadThrows ==
  /\ place = "reading"
  /\ place' = "idle"
  /\ UNCHANGED <<connection_map, requestVars, ready_event_count,
                 number_connected, trackingVars, undefined, serverVars,
                 countVars>>

-----------------------------------------------------------------------------
(* The servers: records cut between header and body, spurious ones too.    *)
(* A server acts when the client waits in select or reads its connection,  *)
(* and has read the last part: nothing that the client does at other times *)
(* depends on what has arrived.                                            *)

Watched(fd) ==
  \/ place = "retrieve" /\ ready_event_count = 0 /\ remaining_ready = 0
  \/ place = "reading" /\ next_connection = fd

Part(part, rec) == [part |-> part, record |-> rec]

ServerSends(fd, rec) ==
  /\ peer[fd] = "open"
  /\ Watched(fd)
  /\ wire[fd] = <<>> /\ rest[fd] = NoRecord
  /\ records < MaxRecords
  /\ records' = records + 1
  /\ wire' = [wire EXCEPT ![fd] = Append(@, Part("header", rec))]
  /\ rest' = [rest EXCEPT ![fd] = IF rec.body THEN rec ELSE NoRecord]
  /\ UNCHANGED <<connection_map, requestVars, ready_event_count,
                 number_connected, trackingVars, place, undefined, peer,
                 connects, sends>>

ServerSendsBody(fd) ==
  /\ peer[fd] = "open"
  /\ Watched(fd)
  /\ wire[fd] = <<>> /\ rest[fd] # NoRecord
  /\ wire' = [wire EXCEPT ![fd] = Append(@, Part("body", rest[fd]))]
  /\ rest' = [rest EXCEPT ![fd] = NoRecord]
  /\ UNCHANGED <<connection_map, requestVars, ready_event_count,
                 number_connected, trackingVars, place, undefined, peer,
                 countVars>>

ServerCloses(fd) ==
  /\ Watched(fd)
  /\ peer[fd] = "open"
  /\ peer' = [peer EXCEPT ![fd] = "closed"]
  /\ UNCHANGED <<connection_map, requestVars, ready_event_count,
                 number_connected, trackingVars, place, undefined, wire, rest,
                 countVars>>

-----------------------------------------------------------------------------
Read ==
  \E fd \in Fds :
    ReadHeader(fd) \/ ReadBody(fd) \/ ReadBlocks(fd) \/ ReadEnds(fd)

Retrieve ==
  \/ CallRetrieve \/ ReturnEvent \/ Select \/ ExamineSelectReturn
  \/ ExamineDangling \/ Read

User(fd) ==
  \/ Connect(fd) \/ UserCloses(fd) \/ Releases(fd)
  \/ SendRequest(fd) \/ SendFails(fd)
  \/ \E type \in {"GET_VALUES", "binary"} : SendManagementRequest(fd, type)

Server(fd) ==
  \/ \E rec \in Records[fd] : ServerSends(fd, rec)
  \/ ServerSendsBody(fd) \/ ServerCloses(fd)

Next ==
  \/ /\ ~undefined
     /\ \/ Retrieve \/ ReadThrows \/ Destroy \/ CloseDangling
        \/ \E fd \in Fds : User(fd) \/ Server(fd)
  \/ undefined /\ UNCHANGED vars

\* The application goes on to call RetrieveServerEvent, its calls go on, and an
\* error of read(2) does not recur for ever.
Spec ==
  /\ Init /\ [][Next]_vars
  /\ WF_vars(~undefined /\ Retrieve)
  /\ SF_vars(~undefined /\ Read)

-----------------------------------------------------------------------------
(* Properties.                                                             *)

\* Invariants 1 to 4 of test_fcgi_client_interface.cc:60-80 and the half of 5
\* that the code keeps: requests belong to entries, a closed connection has
\* completed requests and no pending ones, no request is both, and an identifier
\* of either kind is in use, so that SendRequest never returns it again, across
\* the connections that had its descriptor too.  The open sockets are those of
\* the connected entries, and number_connected_ counts them.
MapsAgree ==
  /\ \A r \in DOMAIN pending : r[1] \in Connected
  /\ \A r \in completed : r[1] \in Entries
  /\ \A fd \in Entries \ Connected : CompletedOn(fd) # {}
  /\ completed \cap DOMAIN pending = {}
  /\ \A r \in completed \cup DOMAIN pending : r[2] \in connection_map[r[1]].ids
  /\ Connected = {fd \in Fds : peer[fd] # "none"}
  /\ number_connected = Cardinality(Connected)

\* While connections are still to be read, next_connection_ is at one of them or
\* before it and there are at least remaining_ready_: ExamineSelectReturn neither
\* throws std::logic_error nor terminates the program, whatever was closed and
\* connected again between calls.
ReadyTracked ==
  /\ remaining_ready >= 0
  /\ (remaining_ready > 0 /\ next_connection # Dangling) =>
       /\ next_connection \in Entries
       /\ remaining_ready <= Cardinality(Ready)

\* What the header of a record was accepted for still holds when its body comes,
\* in a later call and after any other calls: ProcessCompleteRecord finds the
\* pending request or the management request that it takes for granted.
RecordInStep ==
  \A fd \in Entries :
    LET state == connection_map[fd]
    IN  state.record # NoRecord /\ ~state.invalidated =>
          fd \in Connected /\ IsExpected(fd, state.record)

\* A moment comes again and again at which the client has closed every connection
\* that its server closed, and dropped its pending requests, if events are
\* retrieved: no other connection starves it (ExamineSelectReturn).
ClosureNoticed ==
  []<>(undefined \/ \A fd \in Fds : peer[fd] # "closed")

=============================================================================
