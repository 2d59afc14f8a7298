------------------------ MODULE FcgiServerInterface ------------------------
(***************************************************************************)
(* FcgiServerInterface with everything it interacts with: AcceptRequests   *)
(* on the interface thread, construction and destruction, the application  *)
(* threads that use FcgiRequest objects, the clients and the kernel.       *)
(***************************************************************************)
EXTENDS FcgiRequest, RecordStatus

IPlaces == {"none", "outside", "select", "woken", "loop", "read", "process",
            "complete", "add", "reject", "send", "sending", "send_failed",
            "send_threw", "construct", "accept", "throw_read", "throw",
            "dtor", "dtor_locked"}

Init ==
  /\ kfd = [c \in FDs |-> "free"] /\ peer = [c \in FDs |-> "open"]
  /\ inbox = [c \in FDs |-> <<>>] /\ torn = [c \in FDs |-> FALSE]
  /\ backlog = 0 /\ connects = 0 /\ sends = 0 /\ builds = 0
  /\ interface_identifier = 0 /\ previous_interface_identifier = 0
  /\ bad = FALSE
  /\ connections = {} /\ request_count_map = [c \in FDs |-> -1]
  /\ request_map = [k \in Keys |-> NoRequest]
  /\ dummy_descriptor_set = {} /\ application_closure_request_set = {}
  /\ pipe = 0
  /\ imutex = Nobody /\ wmutex = [c \in FDs |-> Nobody]
  /\ wbad = [c \in FDs |-> FALSE]
  /\ ipc = "none" /\ ready = {} /\ accepting = FALSE /\ cur = 0
  /\ avail = 0 /\ full = FALSE
  /\ record_status = [c \in FDs |-> ClearRecord]
  /\ cache = NoIterator /\ found = {} /\ dangling_read = FALSE
  /\ overload = FALSE
  /\ obj = [o \in Objs |-> NoObject]
  /\ terminated = FALSE

-----------------------------------------------------------------------------
(* Construction and destruction.                                           *)

\* Maps and sets are traversed in the order of the descriptors.
First(c, S) == c \in S /\ \A d \in S : c <= d

NextIdentifier == IF previous_interface_identifier < MaxId
                  THEN previous_interface_identifier + 1 ELSE 1

\* The constructor.  It is assumed that no request survives MaxId later
\* interfaces, after which its interface's identifier is used again.
Construct ==
  /\ At("none") /\ imutex = Nobody /\ builds < MaxInterfaces
  /\ \A o \in Objs : obj[o].pc # "free" => obj[o].iid # NextIdentifier
  /\ builds' = builds + 1
  /\ interface_identifier' = NextIdentifier
  /\ previous_interface_identifier' = NextIdentifier
  /\ ipc' = "outside"
  /\ UNCHANGED <<clientVars, socketVars, bad, mapVars, setVars, mutexVars, readVars,
                 cache, dangling_read, overload, obj, terminated>>

\* The destructor closes the dummy descriptors before it locks the mutex.
DestructorClosesDummies ==
  /\ At("outside")
  /\ CloseAll(dummy_descriptor_set)
  /\ ipc' = "dtor"
  /\ UNCHANGED <<clientVars, idVars, bad, mapVars, setVars, mutexVars, readVars,
                 cache, dangling_read, overload, obj, terminated>>

\* Mutant of SocketsToClose: the dummies are closed a second time.
SocketsAndDummies == connections \cup dummy_descriptor_set

\* The keys of write_mutex_map_.
SocketsToClose == connections

DestructorLocks ==
  /\ At("dtor") /\ imutex = Nobody
  /\ imutex' = Interface
  /\ ready' = SocketsToClose
  /\ ipc' = "dtor_locked"
  /\ UNCHANGED <<clientVars, socketVars, idVars, bad, mapVars, setVars, wmutex,
                 wbad, accepting, cur, avail, full, record_status, found, cache,
                 dangling_read, overload, obj, terminated>>

\* In the order of the descriptors: lock and unlock the write mutex, close.
DestructorCloses(c) ==
  /\ At("dtor_locked") /\ First(c, ready)
  /\ wmutex[c] = Nobody
  /\ CloseAll({c})
  /\ ready' = ready \ {c}
  /\ UNCHANGED <<clientVars, idVars, bad, mapVars, setVars, mutexVars, ipc,
                 accepting, cur, avail, full, record_status, found, cache,
                 dangling_read, overload, obj, terminated>>

\* The identifier is reset and the mutex released.  The members are destroyed,
\* also the requests in request_buffer_on_throw_, whose destructors find that
\* their interface is gone.
DestructorReturns ==
  /\ At("dtor_locked") /\ ready = {}
  /\ interface_identifier' = 0
  /\ imutex' = Nobody
  /\ ipc' = "none"
  /\ obj' = [o \in Objs |-> IF obj[o].pc = "held" THEN NoObject ELSE obj[o]]
  /\ bad' = FALSE
  /\ connections' = {} /\ request_count_map' = [c \in FDs |-> -1]
  /\ request_map' = [k \in Keys |-> NoRequest]
  /\ dummy_descriptor_set' = {} /\ application_closure_request_set' = {}
  /\ pipe' = 0 /\ overload' = FALSE
  /\ wbad' = [c \in FDs |-> FALSE]
  /\ record_status' = [c \in FDs |-> ClearRecord]
  /\ UNCHANGED <<clientVars, socketVars, previous_interface_identifier, builds,
                 wmutex, ready, accepting, cur, avail, full, found, cache,
                 dangling_read, terminated>>

-----------------------------------------------------------------------------
(* AcceptRequests.                                                         *)

Buffered == {o \in Objs : obj[o].pc = "held"}

\* The requests that are returned belong to the application now.
HandOver == obj' = [o \in Objs |-> IF obj[o].pc = "held"
                                   THEN [obj[o] EXCEPT !.pc = "ready"]
                                   ELSE obj[o]]

\* Requests that an earlier call could not return are returned at once.
ReturnBuffered ==
  /\ At("outside") /\ Buffered # {}
  /\ HandOver
  /\ UNCHANGED <<clientVars, socketVars, idVars, bad, mapVars, setVars,
                 mutexVars, ipc, readVars, cache, dangling_read, overload,
                 terminated>>

\* Mutants of IdleDummies: requests are not looked for; the count is taken to be
\* erased with the last request.
AllDummies == dummy_descriptor_set
DummiesWithoutCount == {c \in dummy_descriptor_set : request_count_map[c] = -1}

\* Dummy descriptors without requests can be closed.
IdleDummies == {c \in dummy_descriptor_set : RequestsOn(c) = {}}

\* Mutant of Unremovable: try_lock is left out.
Unknown == application_closure_request_set \ connections

\* RemoveConnection fails for these: the write mutex is held (or is missing).
Unremovable == {c \in application_closure_request_set :
                  c \notin connections \/ wmutex[c] # Nobody}

\* The loop over the closure set, in order, stops at the first failure.
Removed == {c \in application_closure_request_set :
              \A u \in Unremovable : c < u}

AssignedOn(c) == {k \in RequestsOn(c) : request_map[k].status = "assigned"}

\* Mutant of CleanRequests: assigned requests are erased with the others.
EraseAll == request_map' = [k \in Keys |-> IF k[1] \in Removed THEN NoRequest
                                           ELSE request_map[k]]

\* RequestCleanupDuringConnectionClosure for each removed connection: assigned
\* requests stay and learn of the closure, the others are erased.
CleanRequests ==
  request_map' =
    [k \in Keys |-> IF k[1] \notin Removed THEN request_map[k]
                    ELSE IF request_map[k].status = "assigned"
                         THEN [request_map[k] EXCEPT !.closed = TRUE]
                         ELSE NoRequest]

\* Mutant of ToDummy: every connection is closed.
NoDummies == {}

\* RemoveConnection: a connection with assigned requests is replaced by a dummy
\* (dup2 of the listening descriptor), another one is closed.
ToDummy == {c \in Removed : AssignedOn(c) # {}}
ToClose == Removed \ ToDummy

CleanDescriptors ==
  /\ kfd'  = [c \in FDs |-> IF c \in ToDummy THEN "listen"
                            ELSE IF c \in ToClose \cup IdleDummies
                                 THEN "free" ELSE kfd[c]]
  /\ peer' = [c \in FDs |-> IF c \in Removed THEN "open" ELSE peer[c]]
  /\ inbox' = [c \in FDs |-> IF c \in Removed THEN <<>> ELSE inbox[c]]
  /\ torn' = [c \in FDs |-> IF c \in Removed THEN FALSE ELSE torn[c]]
  /\ dummy_descriptor_set' = (dummy_descriptor_set \ IdleDummies) \cup ToDummy
  /\ connections' = connections \ Removed
  /\ request_count_map' =
       [c \in FDs |->
          IF c \in ToClose \cup IdleDummies THEN -1
          ELSE IF c \in ToDummy
               THEN request_count_map[c] - Cardinality(RequestsOn(c) \ AssignedOn(c))
               ELSE request_count_map[c]]
  /\ wbad' = [c \in FDs |-> IF c \in Removed THEN FALSE ELSE wbad[c]]
  /\ record_status' = [c \in FDs |-> IF c \in Removed THEN ClearRecord
                                     ELSE record_status[c]]

\* The cleanup at the start of a call: idle dummies, self-pipe, closure set.  It
\* is one period of mutex ownership without a wait.
Cleanup ==
  /\ At("outside") /\ Buffered = {} /\ imutex = Nobody /\ ~bad
  /\ CleanRequests
  /\ CleanDescriptors
  /\ pipe' = 0
  /\ IF Unremovable = {}
     THEN application_closure_request_set' = {} /\ ipc' = "select" /\ UNCHANGED bad
     ELSE bad' = TRUE /\ ipc' = "outside" /\ UNCHANGED application_closure_request_set
  /\ UNCHANGED <<clientVars, idVars, imutex, wmutex, ready, accepting, cur, avail,
                 full, found, cache, dangling_read, overload, obj, terminated>>

\* select.  Nothing to do is no reason to return.
Readable == {c \in connections : inbox[c] # <<>> \/ peer[c] # "open"}

Select ==
  /\ At("select")
  /\ Readable # {} \/ pipe > 0 \/ backlog > 0
  /\ ready' = Readable
  /\ accepting' = (pipe > 0 \/ backlog > 0)
  /\ ipc' = "woken"
  /\ UNCHANGED <<clientVars, socketVars, idVars, bad, mapVars, setVars, mutexVars,
                 cur, avail, full, record_status, found, cache, dangling_read,
                 overload, obj, terminated>>

\* A signal interrupts select (EINTR).
SelectInterrupted ==
  /\ At("select")
  /\ ipc' = "outside"
  /\ UNCHANGED <<clientVars, socketVars, idVars, bad, mapVars, setVars, mutexVars,
                 readVars, cache, dangling_read, overload, obj, terminated>>

\* The interface is checked after select.
CheckAfterSelect ==
  /\ At("woken") /\ imutex = Nobody
  /\ ipc' = IF bad THEN "throw" ELSE "loop"
  /\ UNCHANGED <<clientVars, socketVars, idVars, bad, mapVars, setVars, mutexVars,
                 readVars, cache, dangling_read, overload, obj, terminated>>

\* The next connection that is ready, in the order of the descriptors.
ReadNextConnection(c) ==
  /\ At("loop") /\ First(c, ready)
  /\ cur' = c /\ ready' = ready \ {c}
  /\ cache' = NoIterator /\ found' = {} /\ avail' = 0 /\ full' = FALSE
  /\ ipc' = "read"
  /\ UNCHANGED <<clientVars, socketVars, idVars, bad, mapVars, setVars, mutexVars,
                 accepting, record_status, dangling_read, overload, obj,
                 terminated>>

\* ReadRecords completed requests: lock the interface mutex until the last object
\* is constructed, and check the interface.  Objs bounds the number of objects.
FreeObjects == {o \in Objs : obj[o].pc = "free"}

LockToConstruct ==
  /\ At("construct") /\ imutex = Nobody
  /\ Cardinality(found) <= Cardinality(FreeObjects)
  /\ IF bad THEN ipc' = "throw" /\ UNCHANGED imutex
            ELSE imutex' = Interface /\ UNCHANGED ipc
  /\ UNCHANGED <<clientVars, socketVars, idVars, bad, mapVars, setVars, wmutex, wbad,
                 readVars, cache, dangling_read, overload, obj, terminated>>

\* An FcgiRequest object is constructed for a completed request, which becomes
\* assigned.
ConstructRequest(o, id) ==
  /\ At("construct") /\ imutex = Interface
  /\ o \in FreeObjects /\ id \in found
  /\ obj' = [obj EXCEPT ![o] =
               [NoObject EXCEPT !.pc = "held", !.key = <<cur, id>>,
                                !.iid = interface_identifier,
                                !.close = request_map[<<cur, id>>].close]]
  /\ request_map' = [request_map EXCEPT ![<<cur, id>>].status = "assigned"]
  /\ found' = found \ {id}
  /\ IF found = {id} THEN imutex' = Nobody /\ ipc' = "loop"
                     ELSE UNCHANGED <<imutex, ipc>>
  /\ UNCHANGED <<clientVars, socketVars, idVars, bad, connections,
                 request_count_map, setVars, wmutex, wbad, ready, accepting, cur,
                 avail, full, record_status, cache, dangling_read, overload,
                 terminated>>

\* All connections were read: accept if select reported more than those.
LeaveLoop ==
  /\ At("loop") /\ ready = {} /\ accepting
  /\ ipc' = "accept"
  /\ UNCHANGED <<clientVars, socketVars, idVars, bad, mapVars, setVars, mutexVars,
                 readVars, cache, dangling_read, overload, obj, terminated>>

\* AcceptConnection adds a connection under the interface mutex ...
AcceptConnection(c) ==
  /\ At("accept") /\ backlog > 0 /\ kfd[c] = "free" /\ imutex = Nobody
  /\ ~overload /\ Cardinality(connections) < MaxConnections
  /\ backlog' = backlog - 1
  /\ kfd' = [kfd EXCEPT ![c] = "socket"]
  /\ connections' = connections \cup {c}
  /\ request_count_map' = [request_count_map EXCEPT ![c] = 0]
  /\ UNCHANGED <<connects, sends, peer, inbox, torn, idVars, bad, request_map,
                 setVars, mutexVars, ipc, readVars, cache, dangling_read,
                 overload, obj, terminated>>

\* ... or closes it at once,
RejectConnection ==
  /\ At("accept") /\ backlog > 0 /\ \E c \in FDs : kfd[c] = "free"
  /\ overload \/ Cardinality(connections) >= MaxConnections
  /\ backlog' = backlog - 1
  /\ UNCHANGED <<connects, sends, socketVars, idVars, bad, mapVars, setVars,
                 mutexVars, ipc, readVars, cache, dangling_read, overload, obj,
                 terminated>>

\* ... or throws: accept failed, for example because no descriptor is free.
AcceptThrows ==
  /\ At("accept") /\ backlog > 0
  /\ "accept" \in Faults \/ \A c \in FDs : kfd[c] # "free"
  /\ ipc' = "throw"
  /\ UNCHANGED <<clientVars, socketVars, idVars, bad, mapVars, setVars, mutexVars,
                 readVars, cache, dangling_read, overload, obj, terminated>>

\* The local variables of the call go out of scope.
LeaveAcceptRequests ==
  /\ ipc' = "outside"
  /\ ready' = {} /\ accepting' = FALSE /\ cur' = 0 /\ avail' = 0 /\ full' = FALSE
  /\ found' = {} /\ cache' = NoIterator

Return ==
  /\ \/ At("loop") /\ ready = {} /\ ~accepting
     \/ At("accept") /\ backlog = 0
  /\ HandOver
  /\ LeaveAcceptRequests
  /\ UNCHANGED <<clientVars, socketVars, idVars, bad, mapVars, setVars, mutexVars,
                 record_status, dangling_read, overload, terminated>>

\* The handlers of ReadRecords schedule the connection for closure.
ReadThrows ==
  /\ At("throw_read") /\ imutex = Nobody
  /\ application_closure_request_set' =
       IF bad THEN application_closure_request_set
              ELSE application_closure_request_set \cup {cur}
  /\ ipc' = "throw"
  /\ UNCHANGED <<clientVars, socketVars, idVars, bad, mapVars,
                 dummy_descriptor_set, pipe, mutexVars, readVars, cache,
                 dangling_read, overload, obj, terminated>>

\* The handler of AcceptRequests keeps the requests, if there are any, for the next
\* call.  Those of a corrupt interface are destroyed without an effect.
KeepForNextCall ==
  obj' = [o \in Objs |-> IF obj[o].pc = "held" /\ bad THEN NoObject ELSE obj[o]]

Throw ==
  /\ At("throw") /\ (Buffered = {} \/ imutex = Nobody)
  /\ KeepForNextCall
  /\ LeaveAcceptRequests
  /\ UNCHANGED <<clientVars, socketVars, idVars, bad, mapVars, setVars, mutexVars,
                 record_status, dangling_read, overload, terminated>>

\* set_overload.
SetOverload(value) ==
  /\ ~terminated /\ ipc # "none" /\ overload # value
  /\ overload' = value
  /\ UNCHANGED <<clientVars, socketVars, idVars, bad, mapVars, setVars, mutexVars,
                 ipc, readVars, cache, dangling_read, obj, terminated>>

-----------------------------------------------------------------------------
(* Clients, and other users of the descriptor table.                       *)

environmentFrame == <<idVars, bad, mapVars, setVars, mutexVars, ipc, readVars,
                      cache, dangling_read, overload, obj, terminated>>

ClientConnects ==
  /\ ~terminated /\ connects < MaxConnects
  /\ connects' = connects + 1 /\ backlog' = backlog + 1
  /\ UNCHANGED <<sends, socketVars, environmentFrame>>

PartsOf(rec) ==
  IF rec.content = "empty" THEN <<[part |-> "header", rec |-> rec]>>
  ELSE <<[part |-> "header", rec |-> rec], [part |-> "body", rec |-> rec]>>

ClientSends(c, rec) ==
  /\ ~terminated /\ sends < MaxRecords /\ kfd[c] = "socket" /\ peer[c] = "open"
  /\ sends' = sends + 1
  /\ inbox' = [inbox EXCEPT ![c] = @ \o PartsOf(rec)]
  /\ UNCHANGED <<backlog, connects, kfd, peer, torn, environmentFrame>>

ClientCloses(c) ==
  /\ ~terminated /\ kfd[c] = "socket" /\ peer[c] = "open"
  /\ peer' = [peer EXCEPT ![c] = "closed"]
  /\ UNCHANGED <<clientVars, kfd, inbox, torn, environmentFrame>>

\* Another part of the program opens a file and gets a free descriptor.
ForeignOpen(c) ==
  /\ ~terminated /\ kfd[c] = "free"
  /\ kfd' = [kfd EXCEPT ![c] = "foreign"]
  /\ UNCHANGED <<clientVars, peer, inbox, torn, environmentFrame>>

-----------------------------------------------------------------------------
\* The interface thread once AcceptRequests or the destructor was called.
InterfaceStep ==
  \/ ReadStep
  \/ Select
  \/ CheckAfterSelect
  \/ \E c \in FDs : ReadNextConnection(c)
  \/ LockToConstruct
  \/ \E o \in Objs, id \in Ids : ConstructRequest(o, id)
  \/ LeaveLoop
  \/ \E c \in FDs : AcceptConnection(c)
  \/ RejectConnection
  \/ AcceptThrows
  \/ Return
  \/ ReadThrows
  \/ Throw
  \/ DestructorLocks
  \/ \E c \in FDs : DestructorCloses(c)
  \/ DestructorReturns

\* The application's decisions about the interface object.
InterfaceCall ==
  \/ Construct
  \/ DestructorClosesDummies
  \/ ReturnBuffered
  \/ Cleanup
  \/ \E value \in Overloads : SetOverload(value)

Environment ==
  \/ ClientConnects
  \/ \E c \in FDs : \/ \E rec \in Records : ClientSends(c, rec)
                    \/ ClientCloses(c)
                    \/ ForeignOpen(c)
  \/ SelectInterrupted

Next ==
  \/ InterfaceStep
  \/ InterfaceCall
  \/ \E o \in Objs : RequestStep(o) \/ RequestCall(o)
  \/ Environment

Spec == Init /\ [][Next]_vars

-----------------------------------------------------------------------------
(* Properties.                                                             *)

\* Every variable has its type.
TypeOK ==
  /\ kfd \in [FDs -> {"free", "socket", "listen", "foreign"}]
  /\ peer \in [FDs -> {"open", "closed", "reset"}]
  /\ inbox \in [FDs -> Seq(Parts)] /\ torn \in [FDs -> BOOLEAN]
  /\ backlog \in Nat /\ connects \in Nat /\ sends \in Nat /\ builds \in Nat
  /\ interface_identifier \in Nat /\ previous_interface_identifier \in Nat
  /\ bad \in BOOLEAN /\ connections \subseteq FDs
  /\ request_count_map \in [FDs -> Int] /\ request_map \in [Keys -> RequestDataType]
  /\ dummy_descriptor_set \subseteq FDs
  /\ application_closure_request_set \subseteq FDs
  /\ pipe \in 0..PipeCapacity
  /\ imutex \in Objs \cup {Nobody, Interface}
  /\ wmutex \in [FDs -> Objs \cup {Nobody, Interface}] /\ wbad \in [FDs -> BOOLEAN]
  /\ ipc \in IPlaces /\ ready \subseteq FDs /\ accepting \in BOOLEAN
  /\ cur \in FDs \cup {0} /\ avail \in Nat /\ full \in BOOLEAN
  /\ record_status \in [FDs -> [rec : RecordType, invalidated : BOOLEAN]]
  /\ cache \in [id : Ids \cup {0}, live : BOOLEAN]
  /\ found \subseteq Ids /\ dangling_read \in BOOLEAN /\ overload \in BOOLEAN
  /\ obj \in [Objs -> ObjectType] /\ terminated \in BOOLEAN

\* Objects whose request the interface still has to know about.
Live == {o \in Objs : obj[o].pc \notin {"free", "closing"}
                        /\ obj[o].iid = interface_identifier}

InDestructor == ipc \in {"dtor", "dtor_locked"}

\* Invariant 3.a of fcgi_server_interface.cc, whose proof is a TODO of the code:
\* unless the interface was found to be corrupt, no descriptor is both a dummy
\* and scheduled for closure, which could close it twice.
DummiesNotScheduled ==
  ~bad => dummy_descriptor_set \cap application_closure_request_set = {}

\* A thread that writes, uses an open socket of the current interface: neither
\* cleanup nor the destructor closes or replaces a descriptor under a writer.
WriterOnOpenSocket ==
  /\ \A o \in Objs : obj[o].pc = "writing" =>
       /\ obj[o].iid = interface_identifier
       /\ Fd(o) \in connections /\ kfd[Fd(o)] = "socket"
  /\ ipc = "sending" => cur \in connections /\ kfd[cur] = "socket"

\* A live object has an assigned request of its own in request_map_, and its
\* descriptor is not free for reuse: it is the socket or, once the interface has
\* closed the connection, the dummy.
LiveRequestsKeepDescriptor ==
  ~bad /\ ~InDestructor =>
    \A o \in Live :
      /\ request_map[obj[o].key].status = "assigned"
      /\ kfd[Fd(o)] = IF request_map[obj[o].key].closed THEN "listen" ELSE "socket"
      /\ \A p \in Live : obj[p].key = obj[o].key => p = o

\* Assigned requests are never orphaned: as long as request_map_ has one, there
\* is an object that will remove it (or a descriptor would stay a dummy forever).
AssignedRequestsHaveOwner ==
  ~bad => \A k \in Keys : request_map[k].status = "assigned" =>
            \E o \in Live : obj[o].key = k

\* request_count_map_ has the number of requests of every connection, dummies
\* included, and this number stays within the limit, although the limit is
\* checked and the request added in two periods of mutex ownership.
RequestCountsExact ==
  ~bad => \A c \in FDs :
    IF c \in connections \cup dummy_descriptor_set
    THEN /\ request_count_map[c] = Cardinality(RequestsOn(c))
         /\ request_count_map[c] <= MaxRequests
    ELSE request_count_map[c] = -1 /\ RequestsOn(c) = {}

\* No lost wake-up: while the interface blocks in select, a connection that
\* waits for closure has a byte in the self-pipe.
NoLostWakeup ==
  ipc = "select" /\ application_closure_request_set # {} => pipe > 0

\* Nothing follows an incomplete record on a connection: whoever holds the write
\* mutex of a torn connection finds that the socket carries no more data.
NothingAfterTornRecord ==
  \A c \in FDs : torn[c] /\ wmutex[c] # Nobody => peer[c] = "reset"

\* The iterators that ReadRecords collected refer to complete requests that were
\* not assigned, also when an abort removes a request that was just completed.
CollectedRequestsValid ==
  \A id \in found : LET rd == request_map[<<cur, id>>]
                    IN  rd.status = "pending" /\ CheckRequestCompletion(rd)

\* What a request received does not change once it is complete: records that
\* arrive late, in the same or a later call of ReadRecords, are ignored.
CompleteRequestsFrozen ==
  [][\A k \in Keys :
       /\ request_map[k].status # "absent" /\ CheckRequestCompletion(request_map[k])
       /\ request_map'[k].status # "absent"
       => /\ request_map'[k].data = request_map[k].data
          /\ request_map'[k].malformed = request_map[k].malformed
          /\ CheckRequestCompletion(request_map'[k])]_vars

\* Descriptors of other parts of the program are never closed.
ForeignDescriptorsKept ==
  [][\A c \in FDs : kfd[c] = "foreign" => kfd'[c] = "foreign"]_vars

\* "The interface will not remove an item from request_map_ if the associated
\* request has been assigned": only a step of its object removes it, or the end
\* of the interface.
AssignedRemovedByOwner ==
  [][\A k \in Keys :
       /\ request_map[k].status = "assigned" /\ request_map'[k].status # "assigned"
       /\ interface_identifier' # 0
       => \E o \in Live : obj[o].key = k /\ obj'[o] # obj[o]]_vars

\* The interface finds that it is corrupt only in a cleanup that meets a connection
\* whose closure was scheduled while a request writes to it.  None of the logic
\* errors that AddRequest, RemoveRequest and ReadRecords look for ever happens.
CorruptOnlyUnderWriter ==
  [][~bad /\ bad' => \E o \in Objs : /\ obj[o].pc = "writing"
                                     /\ Fd(o) \in application_closure_request_set]_vars

\* A request that outlives its interface changes nothing of a later one.
StaleRequestsHarmless ==
  [][\A o \in Objs : obj[o].iid # interface_identifier /\ obj'[o] # obj[o]
                       /\ obj[o].pc # "free"
       => UNCHANGED <<socketVars, mapVars, setVars, bad, imutex, wbad>>]_vars

\* The interface is a service in which requests are received, completed,
\* assigned and ended and connections are closed as RequestService says,
\* whatever the threads, the clients and the sockets do.
PhaseOf(rd) == CASE rd.status = "absent"   -> "absent"
                 [] rd.status = "assigned" -> "assigned"
                 [] rd.status = "pending"  ->
                      IF CheckRequestCompletion(rd) THEN "complete" ELSE "receiving"

Service == INSTANCE RequestService WITH
  conn   <- [c \in FDs |-> IF c \in connections THEN "open"
                           ELSE IF c \in dummy_descriptor_set THEN "kept"
                           ELSE "none"],
  doomed <- application_closure_request_set \cap connections,
  phase  <- [k \in Keys |-> PhaseOf(request_map[k])]
ImplementsRequestService == Service!Spec

-----------------------------------------------------------------------------
(* Liveness.  Threads run and a waiter for a mutex gets it in the end; the *)
(* application calls AcceptRequests again and again.  Writes end: they     *)
(* time out.                                                               *)
Fairness ==
  /\ SF_vars(InterfaceStep)
  /\ SF_vars(Cleanup \/ ReturnBuffered)
  /\ \A o \in Objs : SF_vars(RequestStep(o))

FairSpec == Spec /\ Fairness

\* A connection that was scheduled for closure is closed, even if the interface
\* is blocked in select.
ScheduledIsClosed ==
  \A c \in FDs : c \in application_closure_request_set
                   ~> (c \notin application_closure_request_set \/ bad \/ terminated)

\* Every call on a request returns: the mutexes do not deadlock.
CallsReturn ==
  \A o \in Objs : obj[o].pc \in {"locked", "writing", "failed", "closing", "dtor"}
                    ~> (obj[o].pc \in {"free", "ready"} \/ terminated)

\* A connection that was marked as corrupt does not stay open.
CorruptIsClosed ==
  \A c \in FDs : wbad[c] ~> (~wbad[c] \/ bad \/ terminated)

\* A dummy descriptor whose requests have ended does not stay open while the
\* interface goes on serving: the interface blocks in select, or cannot construct
\* requests because the application does not let go of any.
IdleDummiesClosed ==
  \A c \in FDs :
    \/ []<>(c \notin dummy_descriptor_set \/ RequestsOn(c) # {})
    \/ <>[](ipc = "select" \/ FreeObjects = {} \/ bad \/ terminated)

-----------------------------------------------------------------------------
(* What comments of the code say and the code does not do.                 *)

\* fcgi_request.cc, note 1.e.3: no request holds a write mutex once the
\* connection was added to application_closure_request_set_.
ScheduledWriteMutexFree ==
  \A o \in Objs : obj[o].pc = "writing" =>
                    Fd(o) \notin application_closure_request_set

\* fcgi_server_interface.h on ProcessCompleteRecord: the cached iterator is
\* request_map_.end() or valid, so no erased element is read through it.
CachedIteratorValid == ~dangling_read
=============================================================================
