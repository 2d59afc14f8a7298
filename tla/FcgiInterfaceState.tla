------------------------- MODULE FcgiInterfaceState -------------------------
(***************************************************************************)
(* The state shared by an FcgiServerInterface object, its RecordStatus     *)
(* objects and the FcgiRequest objects it produced, with the helpers that  *)
(* change it.  The thread that runs AcceptRequests is Interface; every     *)
(* FcgiRequest object is used by one application thread and stands for it. *)
(* The descriptor table and the sockets are the kernel's and the client's. *)
(***************************************************************************)
EXTENDS Integers, Sequences, FiniteSets, RequestData

CONSTANTS
  FDs,            \* descriptors that accept() may return
  Ids,            \* FastCGI request identifiers, without the null identifier 0
  Objs,           \* FcgiRequest objects that may exist at one time
  Interface,      \* the interface thread
  Nobody,         \* the owner of a free mutex
  Records,        \* the records that clients send
  MaxConnections, \* maximum_connection_count_
  MaxRequests,    \* maximum_request_count_per_connection_
  MaxId,          \* the largest value of an interface identifier (ULONG_MAX)
  PipeCapacity,   \* bytes that the self-pipe holds
  BufferUnits,    \* record parts that one SocketRead may return (kBufferSize)
  MaxConnects,    \* bound: connections that clients make
  MaxRecords,     \* bound: records that clients send
  MaxInterfaces,  \* bound: FcgiServerInterface objects constructed
  Overloads,      \* arguments of set_overload
  Faults          \* which of "read", "write", "accept" may fail

RecordTypes == StreamTypes \cup {"NONE", "BEGIN", "ABORT", "GET_VALUES", "OTHER"}

RecordType == [type    : RecordTypes,
               id      : Ids \cup {0},
               role    : Roles,
               keep    : BOOLEAN,
               content : {"empty", "data", "malformed"}]

\* The code ensures that limits are positive and that interface identifier 0 and
\* request identifier 0 are never used.
ASSUME ConstantsAssumption ==
  /\ FDs \subseteq Nat \ {0} /\ Ids \subseteq Nat \ {0}
  /\ IsFiniteSet(FDs) /\ IsFiniteSet(Ids) /\ IsFiniteSet(Objs)
  /\ Interface \notin Objs /\ Nobody \notin Objs /\ Interface # Nobody
  /\ Records \subseteq RecordType /\ \A r \in Records : r.type # "NONE"
  /\ MaxConnections \in Nat \ {0} /\ MaxRequests \in Nat \ {0}
  /\ MaxId \in Nat \ {0} /\ PipeCapacity \in Nat \ {0}
  /\ BufferUnits \in Nat \ {0}
  /\ MaxConnects \in Nat /\ MaxRecords \in Nat /\ MaxInterfaces \in Nat
  /\ Overloads \subseteq BOOLEAN
  /\ Faults \subseteq {"read", "write", "accept"}

VARIABLES
  \* the kernel and the clients
  kfd,            \* descriptor table: free, socket, listen (dummy), foreign
  peer,           \* client's end of a connection: open, closed, reset
  inbox,          \* parts of records that the client sent and nobody read
  torn,           \* an incomplete record was left on the wire
  backlog,        \* connections waiting to be accepted
  connects, sends, builds,    \* what was spent of the bounds
  \* shared interface state, protected by interface_state_mutex_
  interface_identifier,
  previous_interface_identifier,
  bad,            \* bad_interface_state_detected_
  connections,    \* keys of record_status_map_ and of write_mutex_map_
  request_count_map,          \* -1 stands for a missing key
  request_map,
  dummy_descriptor_set,
  application_closure_request_set,
  pipe,           \* bytes in the self-pipe
  \* mutexes
  imutex,         \* owner of interface_state_mutex_
  wmutex,         \* owner of each write mutex
  wbad,           \* the flag paired with each write mutex: connection corrupt
  \* the interface thread
  ipc,            \* where it is
  ready,          \* descriptors that select reported and that are not yet read
  accepting,      \* select reported the listening socket or the self-pipe
  cur,            \* current_connection
  avail,          \* parts of the last SocketRead that are not yet processed
  full,           \* the last SocketRead filled the buffer
  record_status,  \* the record being received on each connection
  cache,          \* local_request_iter of ReadRecords
  found,          \* request_iterators of ReadRecords
  dangling_read,  \* an iterator to an erased element was dereferenced
  overload,       \* application_overload_
  \* the application
  obj,            \* the FcgiRequest objects
  terminated      \* std::terminate was called

clientVars == <<backlog, connects, sends>>
socketVars == <<kfd, peer, inbox, torn>>
idVars     == <<interface_identifier, previous_interface_identifier, builds>>
mapVars    == <<connections, request_count_map, request_map>>
setVars    == <<dummy_descriptor_set, application_closure_request_set, pipe>>
mutexVars  == <<imutex, wmutex, wbad>>
readVars   == <<ready, accepting, cur, avail, full, record_status, found>>
vars == <<clientVars, socketVars, idVars, bad, mapVars, setVars, mutexVars, ipc,
          readVars, cache, dangling_read, overload, obj, terminated>>

\* Where a thread of the program is.  No thread runs once the program terminated.
At(place)      == ipc = place /\ ~terminated
PcIs(o, place) == obj[o].pc = place /\ ~terminated

Keys == FDs \X Ids

RequestsOn(c) == {k \in Keys : k[1] = c /\ request_map[k].status # "absent"}

\* local_request_iter equal to request_map_.end().
NoIterator == [id |-> 0, live |-> FALSE]

NullRecord == [type |-> "NONE", id |-> 0, role |-> "RESPONDER", keep |-> FALSE,
               content |-> "empty"]

ClearRecord == [rec |-> NullRecord, invalidated |-> FALSE]

Parts == [part : {"header", "body"}, rec : RecordType]

NoObject == [pc |-> "free", key |-> <<0, 0>>, iid |-> 0, close |-> FALSE,
             op |-> "Write", force |-> FALSE, aborted |-> FALSE]

(***************************************************************************)
(* RemoveRequest: erase the request and decrement the count of its         *)
(* connection.  A missing request or a count of zero is a logic error that *)
(* corrupts the interface.  The iterator that ReadRecords caches to the    *)
(* erased element dangles from then on.                                    *)
(***************************************************************************)
EraseRequest(k) ==
  IF request_map[k].status = "absent" \/ request_count_map[k[1]] < 1
  THEN bad' = TRUE /\ UNCHANGED <<request_map, request_count_map>>
  ELSE /\ request_map' = [request_map EXCEPT ![k] = NoRequest]
       /\ request_count_map' = [request_count_map EXCEPT ![k[1]] = @ - 1]
       /\ UNCHANGED bad

RemoveRequest(k) ==
  /\ EraseRequest(k)
  /\ cache' = IF cur = k[1] /\ cache.id = k[2]
              THEN [cache EXCEPT !.live = FALSE] ELSE cache

KeepRequests == UNCHANGED <<request_map, request_count_map, cache, bad>>

(***************************************************************************)
(* close(): the descriptor is free whatever it was, and the socket's state *)
(* is gone.                                                                *)
(***************************************************************************)
CloseAll(S) ==
  /\ kfd'   = [c \in FDs |-> IF c \in S THEN "free" ELSE kfd[c]]
  /\ peer'  = [c \in FDs |-> IF c \in S THEN "open" ELSE peer[c]]
  /\ inbox' = [c \in FDs |-> IF c \in S THEN <<>> ELSE inbox[c]]
  /\ torn'  = [c \in FDs |-> IF c \in S THEN FALSE ELSE torn[c]]

(***************************************************************************)
(* Writing to a socket: which results the state of the peer allows, and    *)
(* what a write that stopped in the middle of a record leaves behind.  A   *)
(* socket that reported EPIPE never carries another byte.                  *)
(***************************************************************************)
CanWrite(c) == peer[c] # "reset"
CanFail(c)  == peer[c] # "reset" /\ "write" \in Faults
CanPipe(c)  == peer[c] # "open"

\* Mutant of MarkCorrupt: the flag is forgotten.
ForgetCorruption(c, partial) == UNCHANGED wbad

\* The flag paired with the write mutex is set after a partial write.
MarkCorrupt(c, partial) == wbad' = [wbad EXCEPT ![c] = @ \/ partial]

TearRecord(c, partial) ==
  torn' = [torn EXCEPT ![c] = @ \/ partial] /\ UNCHANGED <<kfd, inbox>>
=============================================================================
