# A TLA+ model of `as_components`

This directory specifies, model-checks and proves properties of the libraries in
this repository: the FastCGI application server (`FcgiServerInterface`, the
`FcgiRequest` objects that it produces, and what they share), the utilities and
socket loops below it, `IdManager`, and the client that tests servers.  Modules are
checked with TLC, theorems with TLAPS.  `PROJECT.json` links every definition
to the lines that it models and every hazard to the properties that cover it.

## 1. Inventory

| Component | State | Operations | Interacts with |
|---|---|---|---|
| `FcgiServerInterface` (`src/fcgi/src/fcgi_server_interface.cc`, `.h`) | static: `interface_state_mutex_`, interface identifiers, self-pipe, corruption flag; per object: `record_status_map_`, `write_mutex_map_`, `request_count_map_`, `request_map_`, `dummy_descriptor_set_`, `application_closure_request_set_`, `request_buffer_on_throw_`, overload flag | constructor, destructor, `AcceptRequests` (cleanup, `select`, read, accept), `AddRequest`, `RemoveRequest`, `RemoveConnection`, `RequestCleanupDuringConnectionClosure`, `SendRecord`, `set_overload` | clients through sockets; requests through shared state, two kinds of mutexes and the self-pipe |
| `RecordStatus` (`src/fcgi/src/record_status.cc`) | the record being received on a connection | `ReadRecords`, `UpdateAfterHeaderCompletion`, `ProcessCompleteRecord` | called by `AcceptRequests`; changes `request_map_`, sends records |
| `RequestData` (`src/fcgi/src/request_data.cc`) | streams, completion flags, status of a request | append, complete, `CheckRequestCompletionWithConditionalUpdate`, `ProcessFCGI_PARAMS` | owned by `request_map_` |
| `FcgiRequest` (`src/fcgi/src/fcgi_request.cc`, `.h`) | identity of its request and interface, `completed_`, `was_aborted_` | `Write`, `WriteError`, `Complete`, `RejectRole`, `AbortStatus`, destructor, moves | any application thread; shared interface state |
| `FcgiRequestIdentifier` | a pair of descriptor and request identifier | comparison | key of `request_map_` |
| `fcgi_utilities` | none | encoding of headers, lengths and name-value pairs, partition of byte sequences | used by the above |
| `socket_functions` | none | `SocketRead`, `SocketWrite`, `ScatterGatherSocketWrite`, `WriteOnSelect` | used by the above |
| `IdManager` | interval map of used identifiers, their number | `GetId`, `ReleaseId`, `IsUsed`, `NumberOfUsedIds`, moves | used by the test client |
| `TestFcgiClientInterface` | `connection_map_`, `pending_request_map_`, `completed_request_set_`, `micro_event_queue_`, and what the last `select` left to be read | `Connect`, `CloseConnection`, `SendRequest`, `SendAbortRequest`, management requests, `ReleaseId`, `RetrieveServerEvent` | servers through sockets; `IdManager`, `fcgi_utilities`, `socket_functions` |
| testing utilities | — | leak checkers | tests only |

What is hard in this code:

* **Two levels of mutexes.**  A thread may lock a write mutex while it holds the
  interface mutex, never the other way round.  A thread whose write failed must
  release the write mutex first; in between, everything may change.
* **Descriptors are shared and reused.**  A connection is closed while requests
  on it are in use; a dummy descriptor keeps its number occupied until the last
  of them is gone.
* **State that is remembered between periods of mutex ownership**: iterators,
  header verdicts, the request limit, the closure set, the self-pipe.
* **Failures in the middle**: partial writes, `EPIPE`, time-outs, exceptions
  from `ReadRecords` and from `accept`, a full self-pipe.
* **Requests that outlive their interface**, and identifiers that wrap around.
* **Arithmetic at limits**: `IOV_MAX`, `SSIZE_MAX`, lengths of 127 and 128 bytes,
  the largest identifier, vectors whose capacity is estimated before pointers
  into them are taken.
* **Cuts anywhere**: short counts of `read` and `writev`, interruptions, records
  and lists of name-value pairs that end in the middle.
* **Tracking state between calls** of the client: what `select` reported is read
  in later calls, and connections are closed and made again before.

What makes the components correct: no double closure and no reuse of a
descriptor under a live request; a writer always has an open socket of its own
interface; request counts are exact and limited; assigned requests are removed by
their owner only; a complete request does not change; nothing follows a torn
record; wake-ups are not lost, calls return, scheduled connections are closed.
The loops move every byte once and return what their headers say; what is encoded
is decoded again; the interval map is a set; the client's maps and its tracking
state agree.
The hazards behind these are listed in `PROJECT.json`, each at its line.

## 2. Modules and their correspondence to the code

```
RequestData <- FcgiInterfaceState <- FcgiRequest  <-\
                                  <- RecordStatus <--- FcgiServerInterface <- MCFcgiServerInterface
                       RequestService <- - - - - - - - - - - /
   InterfaceInvariant (the invariants) <- InterfaceProofs <- InterfaceServiceProofs

SocketFunctions <- RecordWrite <- MCRecordWrite       RecordWrite - - > RecordChannel
                <- MCSocketFunctions                  SocketProofs

FcgiUtilities <- NameValuePairs, EncodeNameValuePairs, PartitionByteSequence, RecordFraming
                                                      <- MCFcgiUtilities
              <- FcgiUtilitiesProofs <- ReceiveProofs (NameValuePairs, RecordFraming)
                                     <- SendProofs (EncodeNameValuePairs, PartitionByteSequence)
IdManager - - > IdSet      IdManager <- MCIdManager, IdManagerProofs

TestFcgiClientInterface <- MCTestFcgiClientInterface, ClientProofs
```

(`<-` is read "is used by", `- - >` "implements".)

### The server

* `RequestData` — the class of this name as operators on records.  Byte vectors
  are "has data" flags; of the bytes of `FCGI_PARAMS` only their
  well-formedness is kept.  The code treats every role other than responder and
  authorizer like a filter, so `"FILTER"` stands for all of them.
* `FcgiInterfaceState` — the variables: the kernel's descriptor table (`kfd`), the
  client's ends of the connections, the shared interface state, the mutexes, the
  local variables of `AcceptRequests` and `ReadRecords`, and the objects.  With
  the helpers that several components call: `RemoveRequest`, close, the effects
  of writing.
* `FcgiRequest` — application threads.  An object stands for the thread that uses
  it, since an object is not meant to be shared.  A call is cut into actions
  where it waits for or releases a mutex and around the write (`locked`,
  `writing`, `failed`, `closing`, `dtor`).
* `RecordStatus` — the interface thread inside `ReadRecords`.  A part is a header
  or the content behind it, so records are cut between parts, by the end of the
  buffer or because the rest is in flight.  The cached iterator is modelled with
  its lifetime: `cache.live` turns false when its element is erased.  What is
  read through a dangling iterator is a choice: its old key may still be there,
  or the lookup falls back to `find`.
* `FcgiServerInterface` — composes the two with construction, destruction, the
  rest of `AcceptRequests`, clients and the kernel, and states the properties.
* `RequestService` — the abstract specification of what an application may rely
  on: the life of a request and of the descriptor of its connection, with no
  threads, mutexes, records or failures.  Under the refinement mapping `Service` a
  connection is open, kept (a dummy) or gone, and a request is absent, received,
  complete or assigned.

Every period of ownership of the interface mutex in which the thread does not
wait for a write mutex or write is one atomic action.  This is sound
because everything that it reads or changes is either protected by the mutex or
local to the thread; descriptors and sockets that it touches cannot
be observed half-way by others.  Periods in which it waits are cut there.
`Cleanup` is one such period: idle dummies, self-pipe and closure set; the order
in which the closure set is traversed and the stop at the first connection that
cannot be removed are kept (`Removed`, `Unremovable`).

### Below the server

* `SocketFunctions` — the four functions of `socket_functions.cc`, a system call or
  an iteration of `ScatterGatherHelper` a step.  The kernel moves any part of what
  was offered, blocks, is interrupted or fails.  Data is numbered bytes, a buffer
  the number of its first byte and its length.
* `RecordWrite` — `ScatterGatherWriteHelper` and `SendRecord` between the lock and
  the release of the write mutex, on top of `SocketFunctions`: another call with
  what the last one returned, time-outs, the flag of the connection.
* `RecordChannel` — what they implement: a record arrives whole, in part or not at
  all, and nothing follows a part.  `FcgiRequest` and `RecordStatus` choose
  from exactly these results (`WriteSucceeds`, `WriteFails`, `WriteFindsClosure`,
  `SendSucceeds`, `SendFails`, `SendFindsClosure`), which is what justifies
  modelling a write as a single step there.
* `FcgiUtilities` — the conversions of lengths and headers as operators.
  `Byte`, the number of values of a byte, is a constant: the proofs are about every
  even one (from 10 on where decimal digits are written).  The run takes 64 instead of
  256, so that lengths from 32 on take four bytes instead of lengths from 128 on, and the
  length of a content needs its second byte from 64 on.  `Offsets` and `Joined` say where
  the parts of a concatenation are.  Every sequence of bytes is a prefix of
  the encoding of some list, so the cut encodings of `NameValuePairs` are the
  possible inputs.
* `NameValuePairs` — `ExtractBinaryNameValuePairs` step by step with its two
  callers on the server, `ProcessFCGI_PARAMS` and `SendGetValuesResult`.  They
  justify the flags "malformed" and "has data" of `RequestData`.
* `EncodeNameValuePairs`, `PartitionByteSequence` — the two functions that lay out
  records for one `writev`, with their callers' loops.
* `RecordFraming` — the loop of `ReadRecords` at the level of bytes; it justifies
  the parts of `RecordStatus`: wherever bytes are cut, headers and bodies come out
  in order.
* `IdManager`, `IdSet` — the interval map with the iterators that the code uses,
  and the set that it stands for.  A call is one step: the class has no mutex.

### The client

* `TestFcgiClientInterface` — the client with one thread.  A call is one step, as
  nothing else touches its state, except for `RetrieveServerEvent`, which waits
  for servers and reads part by part (`retrieve`, `reading`).  `next_connection_`
  is a key, the past-the-end iterator or `Dangling`.  Using it when it dangles is
  undefined behaviour; the model then stops (`undefined`) and claims nothing of what
  follows.  Servers send any of the given records, expected or spurious, and
  close at any time that the client could notice (`Watched`): it looks at sockets
  only in `select` and while it reads.  A send that fails and leaves the
  connection open changes nothing and is left out; one that closes it
  is `SendFails`.  Events are counted, since all that the code asks is
  whether there are any.

## 3. Runs

All bounds are constants of the modules or named in the `MC` modules.  For the
server, `MaxConnects`, `MaxRecords` and `MaxInterfaces` limit
what the environment does; `FDs`, `Ids` and `Objs` are small sets;
`BufferUnits` is 2 parts for `kBufferSize` bytes, so that a read may return
nothing, less than a record, a record, or fill the buffer.

| Run | Instance | Shows |
|---|---|---|
| `two_connections` | 2 descriptors, 2 objects, 4 records | `DummiesNotScheduled`, `LiveRequestsKeepDescriptor`, `ForeignDescriptorsKept`: two descriptors are closed, become dummies and are reused by either connection or by another part of the program while requests of both live |
| `multiplexed` | 1 descriptor and 2 connections on it one after the other, 2 request identifiers, 2 objects, 4 records, aborts, malformed parameters, failing writes | `WriterOnOpenSocket`, `NothingAfterTornRecord`, `NoLostWakeup`, `AssignedRequestsHaveOwner`, `AssignedRemovedByOwner`: requests of one connection write, fail and complete against cleanup, destruction and each other; `ImplementsRequestService`: the interface refines the service |
| `aborts` | 1 connection, responder and authorizer, limit of one request, all faults, overload, a self-pipe of one byte, 4 records of any type | `TypeOK`, `CollectedRequestsValid`, `RequestCountsExact`, `CompleteRequestsFrozen`: records in every order, cut anywhere, before, between and after completion; a refused second request; a full pipe; `CorruptOnlyUnderWriter`: of all logic errors the code tests for, only a cleanup that meets a writer happens |
| `restart` | 3 interfaces, identifiers that wrap around at 2 | `StaleRequestsHarmless`: requests that outlive their interface |
| `liveness` | 1 connection, 2 objects, 3 records, a management record among them, failing writes | `ScheduledIsClosed`, `CallsReturn`, `CorruptIsClosed`, `IdleDummiesClosed` |
| `id_manager` | identifiers 1 to 7 | `TypeOK`, `IntervalsMinimal`, `SizeExact`, `ImplementsIdSet`: every sequence of calls and moves |
| `socket_functions` | arrays of up to three buffers, empty ones among them | `CursorExact`, `ReturnContract` |
| `record_write` | 2 records in up to three buffers | `FlagExact`, `ImplementsRecordChannel`, `WritesEnd` |
| `fcgi_utilities` | four units that share no state, see `MCFcgiUtilities` | `EncodeTypeOK`, `ExtractExact`, `EnvironmentExact`, `AnswerExact`, `EncodeExact`, `PartitionExact`, `FramingExact`, `LoopsEnd` |
| `client_interface` | 3 descriptors, 3 connections, 2 request identifiers, 2 sends on the middle descriptor, 4 records | `MapsAgree`, `ReadyTracked`, `RecordInStep`, `ClosureNoticed` |
| `write_mutex_held`, `dangling_iterator` | 1 connection | what comments of the code say and the code does not do (section 6) |

The bounds suffice for the cases that matter.

* *Server.*  A request needs two records (an
  authorizer's is complete with the end of `FCGI_PARAMS`), so four records
  give two requests, a repeated identifier or a late record; two objects
  give two threads that compete for both mutexes with the interface as a
  third; two descriptors give a descriptor that is reused while another is a
  dummy; two interfaces after the first make an identifier come back.  The objects
  are interchangeable, hence the symmetry sets; the liveness run uses none.
* *IdManager.*  Seven identifiers give three gaps and intervals at both
  ends, so every merge and split occurs next to a third interval.
* *Loops.*  Three buffers with lengths 0 to 2 give a short count in, at the end
  of and before an empty buffer, twice in a row.  Two writes give one after a
  torn record.
* *Utilities.*  The limits of `writev` start at the least that the code accepts
  and reach past what a list needs; lengths are on both sides of each boundary
  (31/32, 63/64, the content of one record, 2^23, the overflow of `size_t`); buffers
  are shorter than a header.  Each of the four units has its own variables,
  those of the others keep one value, and `unit` says which of them a
  behaviour is about, so the run is a union of runs.
* *Client.*  Requests are made on the middle one of three descriptors, so that
  the connections before and after it in the map close, are read and are
  connected again around it.  Two requests give a completed one next to a pending
  one; three connections give one descriptor used a second time; four records
  are two stream ends and two `FCGI_END_REQUEST`, or spurious ones.

`CHECK_DEADLOCK FALSE`: clients and constructions are bounded and the
program may terminate, so a run of the server may end quietly with the interface
in `select`; deadlock of the program itself is what `CallsReturn` excludes.  The
algorithms of `fcgi_utilities` and the bounded writes of `record_write` end;
`LoopsEnd` and `WritesEnd` say that they do not end early.

Each property is also checked against a mutant, an operator with a plausible
mistake of the code defined next to the original (`Mutant of ...`), which
violates it.

**Fairness.**

* `FcgiServerInterface`: strong fairness for the steps of the interface
  thread, for `AcceptRequests` being called again (the application loops on it) and
  for the steps of every object's thread once a call was made.  Strong fairness
  is needed because threads wait for mutexes that others acquire again and again,
  and stands for mutexes that do not starve a waiter.  Writes end because
  the code gives up after a time-out.  Nothing is assumed of clients, of the
  application's decision to make a call, of `set_overload` or of destruction.
  `IdleDummiesClosed` is therefore conditional: nobody wakes the interface for an
  idle dummy, and it may block in `select` for ever.
* `RecordWrite`: the thread proceeds; signals do not interrupt every one of
  infinitely many system calls; a `select` that is called for ever with a time-out
  times out in the end.
* `MCFcgiUtilities`: the loop goes on.
* `TestFcgiClientInterface`: the application goes on to call `RetrieveServerEvent`
  and a call goes on (weak fairness of `Retrieve`), and `read` does not fail for ever
  (strong fairness of `Read`, as `ReadThrows` leaves the call in between).  Nothing
  is assumed of servers or of other calls.

## 4. Proofs

The assumptions are those of the modules: `ConstantsAssumption` (descriptors and
request identifiers are positive, the sets finite, the limits positive, the names
of threads different), `IdAssumption` (`MaxId` is positive), `ArraysAssumption`
(the buffers of a write follow each other), `WritesAssumption` and
`ClientAssumption` (descriptors and identifiers are positive and finitely many,
servers send records), `ByteAssumption` (a byte has an even number of values),
`PartitionAssumption` (the content of a record is a multiple of eight and
more than eight, `IOV_MAX` is at least 3, `SSIZE_MAX` holds a record),
`EncodeAssumption` (`IOV_MAX` is at least 3, `SSIZE_MAX` at least 16 and at most the
maximum of `size_t`), `FramingAssumption` (what is sent are records, the buffer has a
byte) and `PairsAssumption` (what is sent can be expressed, the three known names have at
most 15 bytes, the two limits of the server are an `int`).  TLC evaluates all of them in
the runs.

| Theorem | Module | Statement |
|---|---|---|
| `TypeCorrect` | `InterfaceProofs` | `Spec => []TypeOK` |
| `Invariant` | `InterfaceProofs` | `Spec => []IndInv` |
| `DummiesNeverScheduled` | `InterfaceProofs` | `Spec => []DummiesNotScheduled` |
| `WritersUseOpenSockets` | `InterfaceProofs` | `Spec => []WriterOnOpenSocket` |
| `LiveRequestsKept` | `InterfaceProofs` | `Spec => []LiveRequestsKeepDescriptor` |
| `ForeignNeverClosed` | `InterfaceProofs` | `Spec => ForeignDescriptorsKept` |
| `NothingFollowsTornRecord` | `InterfaceServiceProofs` | `Spec => []NothingAfterTornRecord` |
| `WakeupNeverLost` | `InterfaceServiceProofs` | `Spec => []NoLostWakeup` |
| `AssignedRequestsOwned` | `InterfaceServiceProofs` | `Spec => []AssignedRequestsHaveOwner` |
| `AssignedOnlyRemovedByOwner` | `InterfaceServiceProofs` | `Spec => AssignedRemovedByOwner` |
| `CollectedRequestsComplete` | `InterfaceServiceProofs` | `Spec => []CollectedRequestsValid` |
| `RequestsCounted` | `InterfaceServiceProofs` | `Spec => []RequestCountsExact` |
| `CompleteRequestsKept` | `InterfaceServiceProofs` | `Spec => CompleteRequestsFrozen` |
| `StaleRequestsChangeNothing` | `InterfaceServiceProofs` | `Spec => StaleRequestsHarmless` |
| `OnlyWritersCorrupt` | `InterfaceServiceProofs` | `Spec => CorruptOnlyUnderWriter` |
| `InterfaceImplementsService` | `InterfaceServiceProofs` | `Spec => ImplementsRequestService` |
| `IdManagerTypeCorrect` | `IdManagerProofs` | `Spec => []TypeOK` |
| `IntervalsAlwaysMinimal` | `IdManagerProofs` | `Spec => []IntervalsMinimal` |
| `SizeAlwaysExact` | `IdManagerProofs` | `Spec => []SizeExact` |
| `IdManagerImplementsIdSet` | `IdManagerProofs` | `Spec => ImplementsIdSet` |
| `CursorAlwaysExact` | `SocketProofs` | `SocketSpec => [](SocketTypeOK /\ CursorExact)` |
| `ReturnsKeepContract` | `SocketProofs` | `SocketSpec => []ReturnContract` |
| `RecordWriteTypeCorrect` | `SocketProofs` | `Spec => []TypeOK` of `RecordWrite` |
| `FlagAlwaysExact` | `SocketProofs` | `Spec => []FlagExact` of `RecordWrite` |
| `RecordWriteImplementsChannel` | `SocketProofs` | `Spec => ImplementsRecordChannel` |
| `MapsAlwaysAgree` | `ClientProofs` | `Spec => []MapsAgree` |
| `ReadyAlwaysTracked` | `ClientProofs` | `Spec => []ReadyTracked` |
| `RecordsStayInStep` | `ClientProofs` | `Spec => []RecordInStep` |
| `PartitionTypeCorrect` | `SendProofs` | `PartitionSpec => []PartitionTypeOK` |
| `PartitionAlwaysExact` | `SendProofs` | `PartitionSpec => []PartitionExact` |
| `EncodeTypeCorrect` | `SendProofs` | `EncodeSpec => []EncodeTypeOK` |
| `EncodeAlwaysExact` | `SendProofs` | `EncodeSpec => []EncodeExact` |
| `EncodeCallsProgress` | `SendProofs` | `EncodeSpec => [][CallAgain => Position(begin) < Position(begin')]_encodeVars` |
| `RecordsFramed` | `ReceiveProofs` | `FramingSpec => []FramingExact` |
| `FramingTypeCorrect` | `ReceiveProofs` | `FramingSpec => []FramingTypeOK` |
| `PairsExtracted` | `ReceiveProofs` | `PairsSpec => []ExtractExact` |
| `EnvironmentBuilt` | `ReceiveProofs` | `PairsSpec => []EnvironmentExact` |
| `VariablesAnswered` | `ReceiveProofs` | `PairsSpec => []AnswerExact` |
| `PairsTypeCorrect` | `ReceiveProofs` | `PairsSpec => []PairsTypeOK` |
| `HeaderReadBack` | `FcgiUtilitiesProofs` | `ReadHeader` inverts `PopulateHeader` |
| `FourByteLengthReadBack` | `FcgiUtilitiesProofs` | `ExtractFourByteLength` inverts `EncodeFourByteLength` |

**The server: mutexes, objects, descriptors.**  None of the safety properties is
inductive.  `IndInv` (module `InterfaceInvariant`) adds what the code relies on:

* `KeyInv`, `ReadingInv` — objects have keys; the connection being read and those
  still to be read exist, and at most what was sent is taken from the socket.
  Enough for the types.
* `MutexInv` — which places of the threads imply ownership of which mutex, and
  that the destructor has seen every closed connection's write mutex free.
* `IdentifierInv`, `ThreadInv` — between the mutex operations of a call an object
  has the current interface and an open connection.  Cleanup, which may remove
  connections in the meantime, is kept away by the interface mutex or, from a
  writer that released it, by `try_lock` on the write mutex.
* `DescriptorInv` — connections are sockets, dummies are listening descriptors,
  and no descriptor is both.
* `IteratorInv` — the iterators of `ReadRecords` do not outlive its call.
* `RequestInv`, unless the interface was found to be corrupt — only connections
  are scheduled for closure; live objects have assigned requests of their own, on a
  connection or, once it was closed, on a dummy; assigned requests are complete;
  collected requests are pending and complete; a valid stream record in progress
  has a pending request whose stream is open.  The last two are needed because
  a request is erased by whoever aborts or rejects it, and this must not be a
  request that was assigned in the meantime.

The theorem `DummiesNeverScheduled` is invariant 3.a of
`src/fcgi/src/fcgi_server_interface.cc:69-71`, whose proof the code
leaves open.  The argument: only `ReadRecords` for its own connection
and a request that holds the interface mutex and found its connection open
schedule a closure; cleanup empties the closure set in the same
period of mutex ownership in which it makes dummies.

The proofs have one lemma per action for the types, and one lemma per group of
steps (`ReadStep`, application threads, `OtherStep`) for every other part.  Steps
of `ReadRecords` are classified as `KeepEffect` (they leave `request_map_` alone)
or `OneRequestEffect(id)` (they change one request of the connection being read).

**The server: requests.**  `ServiceInv` is inductive together with `IndInv`.

* `BadInv` — the interface is found corrupt by `Cleanup` only, so no thread is in the
  middle of a period of mutex ownership then.  It makes the other parts hold
  in a corrupt interface as well, whose `ReadRecords` does nothing any more.
* `BeginInv`, `RoomInv` — what `CompleteBegin` tested, that the request does not exist
  and that the connection may have one more, still holds in the later period in which
  `AddRequest` acts on it.  Only `ReadRecords` adds requests, and others can only
  make room.
* `CompletionInv` — a request with the streams that its role asks for has all its flags
  set, so `Assign` hands it over exactly once.
* `RequestCountsExact`, `AssignedRequestsHaveOwner` — the counts by the
  cardinality of the one request that a step adds or erases (`CountsAdded`,
  `CountsErased`) or, for `Cleanup`, of those kept for dummies; the
  owners from `LiveInv`, by which two objects never share a request.

`CompleteRequestsKept`, `AssignedOnlyRemovedByOwner` and `OnlyWritersCorrupt` then look at
single steps: what a part of a record can do is one of the outcomes in
`ReadEffect`; and a `RemoveRequest`, an `AddRequest` or a closure that the
code would report as a logic error is excluded by the invariants, except for the
connection under a writer.

**The server: two mechanisms.**  `OwnersInv` is about the write mutexes: who
has one is writing (`OwnerInv`), and a torn record is the last thing on a connection that
is marked or has lost its peer (`TornInv`); a write starts only after the flag was read
under the mutex.  `HeldInv`, that objects which the application has not got yet are of
this interface, gives `StaleRequestsChangeNothing`: every step of an older
object finds that its identifier differs.  `NoLostWakeup` is inductive given `IndInv`.

**The server implements the service.**  Under the mapping `Service` the initial states
agree (`phase` is `absent` everywhere) and `StepImplements` has a case for each kind of
step.  A step of `ReadRecords` changes the phase of at most one request or schedules its
connection (`ReadPhase`): `Begin`, `Complete`, `Drop`, `Doom` or a stutter.  A
step of a request is `Finish`, `Doom` or a stutter; a new connection is `Open`,
the hand-over is `Assign`, a cleanup `Clean` and destruction `Shutdown`.  `IndInv` and
`ServiceInv` provide the guards: the connection is open, the phase is the one that is
left, and the count of requests is below the limit.

TLC checked `IndInv` on the instances of `aborts` and `multiplexed`, and each of the other
inductive invariants on an instance of its module, before they were proved.

**IdManager.**  The invariant `IInv` is the types, `IntervalsMinimal` and
`SizeExact`, which is inductive.  What has to be shown is that `FindInterval`
returns the interval of an identifier whenever there is one, from the two
neighbours that `lower_bound` gives, and that each case of `GetId` and `ReleaseId`
changes the represented set by one identifier.  The count follows from the
cardinality of that change.  The refinement maps each call to the one of `IdSet`
with the same result.

**The loops.**  `CallInv` adds to `CursorExact` what holds inside of
`ScatterGatherHelper`: how much of the count was used up by the structs
already passed.  `ShortCount` and `WaitArgument` relate `errno` to the place in the
loop.  `RecordInv` relates the bytes that were moved over several calls to the
record, the flag and the mutex; from it each return is a `Deliver`, a `Tear`, a
closure or a stutter of `RecordChannel`.

**The client.**  `ClientInv` has the types and the three properties, and adds

* `FramingInv` — the next part on a socket is the body of the record of its connection,
  or, if there is none, a header; a closed connection has neither;
* `ReadingInv` — what is being read is a connection that `select` returned.

`RecordInStep` needs the first: a body is taken for the record that was accepted, so what
was tested with the header must survive all calls in between, among them those
that close a connection or release identifiers.  `ReadyTracked` needs the minimum and
the maximum of finite sets of descriptors, for which `Smallest` and `Greatest` are
proved by well-founded induction on subsets.  It speaks of the states before a dangling
`next_connection_` was used (section 6).

**Partition.**  `PartitionInv` says that what was built for the bytes done is what
the estimates' own formulas give for them (`SizesInv`), and that all records are
full while bytes remain.  The formulas are monotone (`CountMonotone`), so nothing is
exceeded; for the whole call they give at most both limits (`BytesLimit`,
`StructsLimit`, `WriteLimits`), also when the product for `IOV_MAX` would overflow `SizeMax`.
`TakenBytes` shows that a call takes a byte at least.

**Encode.**  Two invariants, one on top of the other.  `EncodeInv` is about the limits:
`BudgetInv` is the sum of what was used and what remains, without the struct and
the seven bytes set aside for padding; `PlaceInv` says that whoever is about to place
bytes has a struct, a byte and room in the record, and is inside the buffer that
`index` names; `HeadersInv` that all records but the last are full.
`LayoutInv` is about the contents: `Follows`, that every struct starts in the encoding of
the list where the bytes before it end; that the cursor (`Cursor`: the pair and
the bytes of it that were placed) is where they end; `HeadersMatch`, that wherever
a record stops the headers have announced what is there, while the
last header may still grow with its record; and `FlagsInv`, what `incomplete_nv_write`
and `padding_limit_reached` mean at each place, from which follows that the
call returns the cursor.  `StartedInv` adds that a call without a header has all of
its limits left; as these allow a header, a byte and the padding, a call places something
(`EncodeCallsProgress`), which is the safety half of `LoopsEnd`.

**Framing.**  `FramingInv` says that the bytes read so far are whole records and a start of
the one that is read (`Partial`), and that header, `expected` and content are what that
start has (`RecordInv`).  Once the header is complete, `HeaderReadBack` makes `expected`
what was sent.  A record without content and padding ends with its header, others
with their last byte, wherever the buffer ends.

**Pairs.**  `PairsInv`: `ExtractInv` places `bytes_processed` at the end of whole pairs plus
the lengths of the next one that were read, and `FourByteLengthReadBack` makes them its
lengths; the content ends at a boundary of the list or inside exactly one pair
(`BoundariesDiffer`).  `ScanInv` is about the environment: names before `current` are in
it, names from `current` on are not, since the list is sorted and the order of names is
a total one (`LessTotal`, `LessTransitive`), and the pairs between the two iterators are
the same.  For the answer, `lower_bound` on a sorted list finds a name exactly when it is
there (`RequestedMeans`), an `int` has at most ten digits (`DecimalDigits`), so that three
pairs fit a record for every `Byte` from 10 on, and the header is read back.

Sums over sequences and their concatenation are the recursive functions `Offsets` and
`Joined`.  That these exist, and what they are at each place, is proved from the least
counterexample, a set of numbers, since the induction theorems of the
library cannot be used; everything after that uses the one-step equation only.

**Only model-checked**: the liveness properties `ScheduledIsClosed`, `CallsReturn`,
`CorruptIsClosed`, `IdleDummiesClosed`, `WritesEnd`, `LoopsEnd`, `ClosureNoticed`:
fairness and ENABLED are out of the prover's reach.  All invariants, action
properties and refinements of the passing runs are proved.

## 5. Not modelled

* Allocation failures, and errors of `close`, `dup2`, `fcntl`, `pipe`, `connect` and
  of the constructors' system calls.
* Exceptions for arguments that break a documented precondition, such as a stream of
  the wrong type for `PartitionByteSequence`.
* Time.  A write of the server ends in success, failure or `EPIPE`; in `RecordWrite` a
  time-out is a choice.
* In the server's modules: bytes, which are in `RecordFraming` and `NameValuePairs`.
  `ClearRecord` is performed with the dispatch of the record rather than after
  the answer was sent; nobody looks at the record in between.
* Objects whose `completed_` flag is set: every later call and the destructor
  return at once, so the place `free` stands for them.  Moves rename an object.
* The failure of `RemoveRequest` is reduced to the corruption flag.
* `Construct` assumes that no request survives `ULONG_MAX` later
  interfaces.
* The content of the client's events, requests and responses, and what it does after a
  dangling `next_connection_` was used.  Its header is read as a unit: the byte loop
  has the structure of `ReadRecords`, which `RecordFraming` has.
* The testing utilities (descriptor leak checkers and helpers for the tests) are no part
  of the system; `FcgiRequestIdentifier` is a pair and has no operation that
  changes state.

## 6. Findings

* `write_mutex_held`: `ReadRecords` schedules a connection without its write
  mutex (`src/fcgi/src/record_status.cc:532`), against note 1.e.3 of
  `src/fcgi/src/fcgi_request.cc:107-108`; if a request still writes when
  the next call of `AcceptRequests` cleans up, the interface becomes corrupt.
  The safety theorems hold regardless: the connection is not removed.
* `dangling_iterator`: the iterator that `ReadRecords` caches can dangle
  (`src/fcgi/src/record_status.cc:895`), against
  `src/fcgi/include/fcgi_server_interface.h:607-608`.

Observations that no run is devoted to; the models follow the code in each case:

* `SendRecord` may return false for a connection that is in no closure set yet: the
  thread that corrupted it has still to schedule it
  (`src/fcgi/src/fcgi_server_interface.cc:1407`, header lines 1028-1030).
* After a part of a record and `EPIPE` the flag is not set
  (`src/fcgi/src/fcgi_request.cc:1014`, against note 3.c of
  `src/fcgi/src/fcgi_server_interface.cc:81-83`).  This is harmless, as `FlagExact` and
  `NothingAfterTornRecord` show: no more data leaves that socket.
* A moved-from `IdManager` keeps its old count (`size_`) until the next `GetId`
  (`src/id_manager/include/id_manager_template.h:196`).
* `ScatterGatherSocketWrite` takes a time-out of its own `select` for readiness and
  goes on (`src/socket_functions/src/socket_functions.cc:95`); the server always
  waits itself.  The count of structs that it returns is stale after a complete write
  (line 124), while the header calls it the number of structs with data left.
* `SendRequest` of the client inverts `nothing_written`
  (`src/fcgi/test/src/test_fcgi_client_interface.cc:1643`): a torn
  `FCGI_BEGIN_REQUEST` leaves the connection open, an unsent one closes it.
* When `SendRequest` fails on a connection whose entry is kept, its identifier stays in
  use without a request, against invariant 5 of the client's comment (lines 78-82);
  `ReleaseId` of it would throw `std::logic_error`.  `MapsAgree` states the half of the
  invariant that holds.
* `next_connection_` may be at an entry that `CloseConnection` or `ReleaseId` erases:
  at a connection that is not ready, or at a kept one.  The next use is undefined
  (`UseDangling`).  `FailedWrite` reads a descriptor through an erased element
  (line 870), and an `FCGI_END_REQUEST` for an unknown request reads through the
  past-the-end iterator before it is tested (line 1853), which has no effect on
  the result.
* Invariants 2 and 4 of the client's comment on tracking state (lines 92-100) hold with
  "implies" and "at least" only: a descriptor that is closed and connected again before
  it was read may still be set in `select_set_`.  `ReadyTracked` states what the code
  needs.

## 7. Plan

Done, in this order: `RequestData`, `FcgiInterfaceState`, `FcgiRequest`,
`RecordStatus`, `FcgiServerInterface` with the inductive invariant; `IdManager` with
`IdSet` and its proofs; `SocketFunctions`, `RecordWrite` and `RecordChannel` with
their proofs; `RequestService`; `fcgi_utilities` with its proofs; the client.  All safety
properties of the runs are proved for every value of the constants.

Left: the liveness properties, which the provers do not reach; and a step-by-step
refinement between `RecordFraming` with `NameValuePairs` and the parts of `RecordStatus`,
which the models relate by what they say of the same code.
