------------------------- MODULE InterfaceInvariant -------------------------
(***************************************************************************)
(* The inductive invariant of FcgiServerInterface from which its safety    *)
(* properties follow.  It has one part per mechanism of the code: who      *)
(* holds which mutex, what an application thread may rely on in the middle *)
(* of a call, what AcceptRequests may rely on, what the kernel's           *)
(* descriptor table looks like and, unless the interface was found to be   *)
(* corrupt, how request_map_ and the objects fit together.                 *)
(***************************************************************************)
EXTENDS FcgiServerInterface

\* The places of ReadRecords.
Reading == {"read", "process", "complete", "add", "reject", "send", "sending",
            "send_failed", "send_threw"}

\* The places at which AcceptRequests works on current_connection.
InCall == Reading \cup {"construct", "throw_read"}

\* Complete writes with the interface mutex held, Write without it.
HoldsInterfaceMutex(o) ==
  \/ obj[o].pc \in {"locked", "closing", "dtor"}
  \/ obj[o].pc = "writing" /\ obj[o].op = "Complete"

MutexInv ==
  /\ \A o \in Objs : HoldsInterfaceMutex(o) => imutex = o
  /\ \A o \in Objs : obj[o].pc = "writing" => wmutex[Fd(o)] = o
  /\ ipc = "sending" => wmutex[cur] = Interface
  /\ ipc = "dtor_locked" => /\ imutex = Interface
                            /\ \A c \in connections \ ready : wmutex[c] = Nobody

\* The interface identifier is 0 if, and only if, there is no interface.
IdentifierInv ==
  /\ ipc = "none" <=> interface_identifier = 0
  /\ \A o \in Objs : obj[o].pc # "free" => obj[o].iid # 0

\* Between the mutex operations of a call, an object has its interface and an
\* open connection.
ThreadInv ==
  \A o \in Objs : obj[o].pc \in {"locked", "writing", "closing", "dtor"} =>
                    obj[o].iid = interface_identifier /\ Fd(o) \in connections

\* An object that is not free has a key.
KeyInv == \A o \in Objs : obj[o].pc # "free" => obj[o].key \in Keys

\* While AcceptRequests works on a connection, the connection and those that are
\* still to be read exist, and what SocketRead returned was sent by the client.
ReadingInv ==
  /\ ipc \in InCall => cur \in connections
  /\ ipc \in InCall \cup {"woken", "loop", "dtor_locked"} => ready \subseteq connections
  /\ ipc \in Reading => avail <= Len(inbox[cur])

\* The iterators of ReadRecords do not outlive its call.
IteratorInv ==
  /\ ipc \notin InCall \cup {"throw"} => found = {}
  /\ ipc \notin Reading \cup {"throw_read", "throw"} => ~cache.live
  /\ found # {} \/ cache.live => cur \in FDs

DescriptorInv ==
  /\ dummy_descriptor_set \cap connections = {}
  /\ ~InDestructor => \A c \in dummy_descriptor_set : kfd[c] = "listen"
  /\ \A c \in connections : kfd[c] = "socket" \/ (ipc = "dtor_locked" /\ c \notin ready)

\* What is scheduled for closure is a connection, never a dummy.
ClosureInv == application_closure_request_set \subseteq connections

\* A live object has an assigned request of its own, on a connection or a dummy.
LiveInv ==
  /\ \A o \in Live : /\ request_map[obj[o].key].status = "assigned"
                     /\ Fd(o) \in IF request_map[obj[o].key].closed
                                  THEN dummy_descriptor_set ELSE connections
  /\ \A o, p \in Live : obj[o].key = obj[p].key => o = p

AllComplete(k) == \A s \in StreamTypes : request_map[k].complete[s]

\* Only an assigned request survives its connection; it is complete.
AssignedInv ==
  \A k \in Keys : IF request_map[k].status = "assigned" THEN AllComplete(k)
                                                        ELSE ~request_map[k].closed

\* The requests that ReadRecords collected are complete and not assigned.
FoundInv == \A id \in found : /\ request_map[<<cur, id>>].status = "pending"
                              /\ AllComplete(<<cur, id>>)

\* A live cached iterator refers to an element of request_map_.
CacheInv == cache.live => /\ cache.id \in Ids
                          /\ request_map[<<cur, cache.id>>].status # "absent"

\* What RecordStatus remembers of the header of a valid stream record is still
\* true when the content has arrived.
ValidStream(c) == ~record_status[c].invalidated /\ IsStream(record_status[c].rec)

RecordsInv ==
  \A c \in FDs : ValidStream(c) =>
    LET rec == record_status[c].rec
    IN  /\ request_map[<<c, rec.id>>].status = "pending"
        /\ ~request_map[<<c, rec.id>>].complete[rec.type] \/ (ipc = "reject" /\ c = cur)

\* Between two periods of mutex ownership of ProcessCompleteRecord.
RecordInv ==
  /\ ipc = "add" => Rec.id # 0
  /\ ipc = "reject" => /\ ValidStream(cur) /\ Rec.id \notin found
                       /\ ~(cache.live /\ cache.id = Rec.id)

RequestInv == /\ ClosureInv /\ LiveInv /\ AssignedInv /\ FoundInv /\ CacheInv
              /\ RecordsInv /\ RecordInv

\* The inductive invariant.
IndInv == /\ TypeOK /\ KeyInv /\ ReadingInv /\ IteratorInv /\ MutexInv
          /\ IdentifierInv /\ ThreadInv /\ DescriptorInv /\ (~bad => RequestInv)

-----------------------------------------------------------------------------
(* What is inductive together with IndInv: the interface is corrupt only   *)
(* between calls, every request is counted and every assigned one has its  *)
(* object, and a complete request is closed to further records.            *)

\* Nobody works on a corrupt interface: it was found to be corrupt by Cleanup.
BadInv == bad => /\ ipc \in {"outside", "dtor", "dtor_locked"}
                 /\ \A o \in Objs : ~HoldsInterfaceMutex(o)

\* A valid FCGI_BEGIN_REQUEST record is that of a request that does not exist yet.
ValidBegin(c) == /\ ~record_status[c].invalidated
                 /\ record_status[c].rec.type = "BEGIN" /\ record_status[c].rec.id # 0

BeginInv ==
  /\ \A c \in FDs : ValidBegin(c) =>
       request_map[<<c, record_status[c].rec.id>>].status = "absent"
  /\ ipc = "add" => ValidBegin(cur)

\* The room that CompleteBegin found is still there for AddRequest.
RoomInv == ipc = "add" => request_count_map[cur] < MaxRequests

\* A request whose streams are complete as far as its role asks for them was
\* completed by ConditionalUpdate.
CompletionInv ==
  \A k \in Keys : request_map[k].status # "absent" /\ CheckRequestCompletion(request_map[k])
                   => AllComplete(k)

ServiceInv == /\ BadInv /\ (~bad => BeginInv /\ RoomInv) /\ CompletionInv
              /\ RequestCountsExact /\ AssignedRequestsHaveOwner

-----------------------------------------------------------------------------
(* Two mechanisms of their own.                                            *)

\* Who has a write mutex is writing to the connection.
OwnerInv ==
  \A c \in FDs : /\ wmutex[c] \in Objs => /\ obj[wmutex[c]].pc = "writing"
                                           /\ Fd(wmutex[c]) = c
                 /\ wmutex[c] = Interface => ipc = "sending" /\ cur = c

\* Objects in the list of AcceptRequests and in request_buffer_on_throw_ are of the
\* current interface.
HeldInv == \A o \in Objs : obj[o].pc = "held" => obj[o].iid = interface_identifier

\* A torn record is the last thing on its connection.  Either the connection is
\* marked as corrupt before the write mutex is free again, or the peer is gone.
TornInv ==
  \A c \in FDs : torn[c] =>
    /\ c \in connections /\ ~(ipc = "dtor_locked" /\ c \notin ready)
    /\ peer[c] = "reset" \/ (wmutex[c] = Nobody /\ wbad[c])
=============================================================================
