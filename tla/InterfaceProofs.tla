-------------------------- MODULE InterfaceProofs --------------------------
(***************************************************************************)
(* The inductive invariant of FcgiServerInterface and the safety           *)
(* properties that follow from it, for any number of descriptors,          *)
(* identifiers, objects and interfaces.  TypeOK comes first: it is         *)
(* inductive together with ReadingInv, as a step of ReadRecords takes a    *)
(* part of a record from the socket of current_connection, so that this    *)
(* connection has to exist and the part has to be there.                   *)
(***************************************************************************)
EXTENDS InterfaceInvariant, TLAPS, FiniteSetTheorems

\* The groups of variables only abbreviate what a step leaves alone.
USE DEF clientVars, socketVars, idVars, mapVars, setVars, mutexVars, readVars

-----------------------------------------------------------------------------
(* The operators on RequestData, on objects and on request_map_.           *)

\* A new element of request_map_ and the default one have the type of elements.
LEMMA NewRequestDataType ==
  /\ NoRequest \in RequestDataType
  /\ \A role \in Roles, close \in BOOLEAN :
       NewRequestData(role, close) \in RequestDataType
BY DEF NoRequest, NewRequestData, RequestDataType, Roles

\* The updates of RequestData keep its type.
LEMMA UpdateType ==
  ASSUME NEW rd \in RequestDataType, NEW stream \in StreamTypes, NEW content
  PROVE  /\ AppendTo(rd, stream, content) \in RequestDataType
         /\ CompleteStream(rd, stream) \in RequestDataType
         /\ ConditionalUpdate(rd) \in RequestDataType
         /\ [rd EXCEPT !.abort = TRUE] \in RequestDataType
         /\ [rd EXCEPT !.closed = TRUE] \in RequestDataType
         /\ [rd EXCEPT !.status = "assigned"] \in RequestDataType
BY DEF AppendTo, CompleteStream, ConditionalUpdate, RequestDataType

\* An object with another place still is an object.
LEMMA PlaceType ==
  ASSUME NEW x \in ObjectType, NEW place \in Places
  PROVE  [x EXCEPT !.pc = place] \in ObjectType
BY DEF ObjectType

LEMMA NoIteratorType == NoIterator \in [id : Ids \cup {0}, live : BOOLEAN]
BY DEF NoIterator

LEMMA NoObjectType == NoObject \in ObjectType
BY DEF NoObject, ObjectType, Places

\* What a step of an application thread does to the objects.
LEMMA ObjectsType ==
  ASSUME TypeOK, NEW o \in Objs
  PROVE  /\ Completed(o) => obj' \in [Objs -> ObjectType]
         /\ \A place \in Places : Goto(o, place) => obj' \in [Objs -> ObjectType]
<1>1. Completed(o) => obj' \in [Objs -> ObjectType]
  BY NoObjectType DEF TypeOK, Completed
<1>2. ASSUME NEW place \in Places, Goto(o, place)
      PROVE  obj' \in [Objs -> ObjectType]
  BY <1>2, PlaceType DEF TypeOK, Goto
<1>3. QED
  BY <1>1, <1>2

\* The conjuncts of TypeOK about the variables that removing a request changes.
RequestsTypeOK == /\ request_map \in [Keys -> RequestDataType]
                  /\ request_count_map \in [FDs -> Int]
                  /\ bad \in BOOLEAN

\* RemoveRequest keeps them, whatever it is called with.
LEMMA EraseRequestType ==
  ASSUME TypeOK, NEW k, EraseRequest(k)
  PROVE  RequestsTypeOK'
<1>1. CASE request_map[k].status = "absent" \/ request_count_map[k[1]] < 1
  BY <1>1 DEF TypeOK, EraseRequest, RequestsTypeOK
<1>2. CASE ~(request_map[k].status = "absent" \/ request_count_map[k[1]] < 1)
  <2>1. request_map' \in [Keys -> RequestDataType]
    BY <1>2, NewRequestDataType DEF TypeOK, EraseRequest
  <2>2. request_count_map' \in [FDs -> Int]
    <3>1. \A c \in FDs : request_count_map[c] - 1 \in Int
      BY DEF TypeOK
    <3>2. request_count_map' = [request_count_map EXCEPT ![k[1]] = @ - 1]
      BY <1>2 DEF EraseRequest
    <3>3. QED
      BY <3>1, <3>2 DEF TypeOK
  <2>3. QED
    BY <1>2, <2>1, <2>2 DEF TypeOK, EraseRequest, RequestsTypeOK
<1>3. QED
  BY <1>1, <1>2

LEMMA RemoveRequestType ==
  ASSUME TypeOK, NEW k, RemoveRequest(k)
  PROVE  RequestsTypeOK' /\ cache' \in [id : Ids \cup {0}, live : BOOLEAN]
<1>1. RequestsTypeOK'
  BY EraseRequestType DEF RemoveRequest
<1>2. cache' \in [id : Ids \cup {0}, live : BOOLEAN]
  BY DEF TypeOK, RemoveRequest
<1>3. QED
  BY <1>1, <1>2

LEMMA KeepRequestsType ==
  ASSUME TypeOK, KeepRequests
  PROVE  RequestsTypeOK' /\ cache' \in [id : Ids \cup {0}, live : BOOLEAN]
BY DEF TypeOK, KeepRequests, RequestsTypeOK

-----------------------------------------------------------------------------
(* The steps of application threads.  Whatever path a call takes, it keeps *)
(* the object, request_map_ and the iterator of ReadRecords well typed.    *)

RequestEffect == /\ obj' \in [Objs -> ObjectType]
                 /\ RequestsTypeOK'
                 /\ cache' \in [id : Ids \cup {0}, live : BOOLEAN]

LEMMA StateCheckFailsType ==
  ASSUME TypeOK, NEW o \in Objs, StateCheckFails(o)
  PROVE  RequestEffect
BY ObjectsType, RemoveRequestType, KeepRequestsType
   DEF StateCheckFails, RequestEffect

LEMMA RemoveAndScheduleType ==
  ASSUME TypeOK, NEW o \in Objs, NEW schedule, RemoveAndSchedule(o, schedule)
  PROVE  RequestEffect /\ imutex' \in Objs \cup {Nobody, Interface}
<1>1. RequestsTypeOK' /\ cache' \in [id : Ids \cup {0}, live : BOOLEAN]
  BY RemoveRequestType DEF RemoveAndSchedule
<1>2. obj' \in [Objs -> ObjectType] /\ imutex' \in Objs \cup {Nobody, Interface}
  BY ObjectsType DEF RemoveAndSchedule, Places
<1>3. QED
  BY <1>1, <1>2 DEF RequestEffect

LEMMA AfterFailureType ==
  ASSUME TypeOK, NEW o \in Objs, NEW force \in BOOLEAN, AfterFailure(o, force)
  PROVE  /\ RequestEffect /\ imutex' \in Objs \cup {Nobody, Interface}
         /\ wmutex' \in [FDs -> Objs \cup {Nobody, Interface}]
<1>1. wmutex' \in [FDs -> Objs \cup {Nobody, Interface}]
  BY DEF AfterFailure, TypeOK
<1>2. CASE obj[o].op = "Complete"
  BY <1>1, <1>2, RemoveAndScheduleType DEF AfterFailure
<1>3. CASE obj[o].op = "Write"
  <2>1. \A x \in ObjectType : [x EXCEPT !.pc = "failed", !.force = force] \in ObjectType
    BY DEF ObjectType, Places
  <2>2. obj' \in [Objs -> ObjectType]
    <3>1. obj' = [obj EXCEPT ![o] = [@ EXCEPT !.pc = "failed", !.force = force]]
      BY <1>3 DEF AfterFailure
    <3>2. QED
      BY <2>1, <3>1 DEF TypeOK
  <2>3. KeepRequests /\ imutex' = imutex
    BY <1>3 DEF AfterFailure
  <2>4. QED
    BY <1>1, <2>2, <2>3, KeepRequestsType DEF RequestEffect, TypeOK
<1>4. QED
  BY <1>2, <1>3 DEF AfterFailure

LEMMA AddToClosureSetType ==
  ASSUME TypeOK, NEW o \in Objs, Fd(o) \in FDs, AddToClosureSet(o)
  PROVE  /\ obj' \in [Objs -> ObjectType]
         /\ application_closure_request_set' \subseteq FDs
         /\ pipe' \in 0..PipeCapacity /\ terminated' \in BOOLEAN
         /\ imutex' \in Objs \cup {Nobody, Interface}
<1>1. pipe' \in 0..PipeCapacity /\ terminated' \in BOOLEAN
  <2>1. PipeCapacity \in Nat
    BY ConstantsAssumption
  <2>2. pipe \in 0..PipeCapacity /\ terminated \in BOOLEAN /\ InterfacePipeWrite
    BY DEF AddToClosureSet, TypeOK
  <2>3. pipe' \in 0..PipeCapacity
    BY <2>1, <2>2 DEF InterfacePipeWrite
  <2>4. terminated' \in BOOLEAN
    BY <2>2 DEF InterfacePipeWrite
  <2>5. QED
    BY <2>3, <2>4
<1>2. obj' \in [Objs -> ObjectType]
  BY ObjectsType DEF AddToClosureSet
<1>3. QED
  BY <1>1, <1>2 DEF AddToClosureSet, TypeOK

LEMMA CallWriteType ==
  ASSUME TypeOK, NEW o \in Objs, NEW op \in {"Write", "Complete"}, CallWrite(o, op)
  PROVE  TypeOK'
<1>1. RequestEffect /\ imutex' \in Objs \cup {Nobody, Interface}
  <2>1. CASE StateCheckPasses(o)
    <3>1. \A x \in ObjectType : [x EXCEPT !.pc = "locked", !.op = op] \in ObjectType
      BY DEF ObjectType, Places
    <3>2. /\ obj' = [obj EXCEPT ![o] = [@ EXCEPT !.pc = "locked", !.op = op]]
          /\ imutex' = o /\ KeepRequests
      BY <2>1 DEF CallWrite, StateCheckFails
    <3>3. obj' \in [Objs -> ObjectType]
      BY <3>1, <3>2 DEF TypeOK
    <3>4. QED
      BY <3>2, <3>3, KeepRequestsType DEF RequestEffect
  <2>2. CASE ~StateCheckPasses(o)
    BY <2>2, StateCheckFailsType DEF CallWrite, TypeOK
  <2>3. QED
    BY <2>1, <2>2
<1>2. QED
  BY <1>1 DEF TypeOK, CallWrite, requestFrame, RequestEffect, RequestsTypeOK

LEMMA AcquireWriteMutexType ==
  ASSUME TypeOK, NEW o \in Objs, AcquireWriteMutex(o)
  PROVE  TypeOK'
<1>1. RequestEffect /\ imutex' \in Objs \cup {Nobody, Interface}
  BY ObjectsType, RemoveRequestType, KeepRequestsType
     DEF AcquireWriteMutex, RequestEffect, Places, TypeOK
<1>2. wmutex' \in [FDs -> Objs \cup {Nobody, Interface}]
  <2>1. wmutex' = wmutex \/ wmutex' = [wmutex EXCEPT ![Fd(o)] = o]
    BY DEF AcquireWriteMutex
  <2>2. QED
    BY <2>1 DEF TypeOK
<1>3. QED
  BY <1>1, <1>2
     DEF TypeOK, AcquireWriteMutex, requestFrame, RequestEffect, RequestsTypeOK

LEMMA WriteSucceedsType ==
  ASSUME TypeOK, NEW o \in Objs, WriteSucceeds(o)
  PROVE  TypeOK'
<1>1. RequestEffect /\ imutex' \in Objs \cup {Nobody, Interface}
  <2>1. CASE obj[o].op = "Write"
    <3>1. Goto(o, "ready") /\ KeepRequests /\ imutex' = imutex
      BY <2>1 DEF WriteSucceeds
    <3>2. QED
      BY <3>1, ObjectsType, KeepRequestsType DEF RequestEffect, Places, TypeOK
  <2>2. CASE obj[o].op = "Complete"
    BY <2>2, RemoveAndScheduleType DEF WriteSucceeds
  <2>3. QED
    BY <2>1, <2>2 DEF WriteSucceeds
<1>2. wmutex' \in [FDs -> Objs \cup {Nobody, Interface}]
  BY DEF WriteSucceeds, TypeOK
<1>3. QED
  BY <1>1, <1>2
     DEF TypeOK, WriteSucceeds, requestFrame, RequestEffect, RequestsTypeOK

LEMMA WriteFailsType ==
  ASSUME TypeOK, NEW o \in Objs, NEW partial \in BOOLEAN, WriteFails(o, partial)
  PROVE  TypeOK'
<1>1. /\ RequestEffect /\ imutex' \in Objs \cup {Nobody, Interface}
      /\ wmutex' \in [FDs -> Objs \cup {Nobody, Interface}]
  BY AfterFailureType DEF WriteFails
<1>2. torn' \in [FDs -> BOOLEAN] /\ wbad' \in [FDs -> BOOLEAN]
  BY DEF WriteFails, TearRecord, MarkCorrupt, TypeOK
<1>3. QED
  BY <1>1, <1>2
     DEF TypeOK, WriteFails, TearRecord, requestFrame, RequestEffect, RequestsTypeOK

LEMMA WriteFindsClosureType ==
  ASSUME TypeOK, NEW o \in Objs, NEW partial \in BOOLEAN,
         WriteFindsClosure(o, partial)
  PROVE  TypeOK'
<1>1. /\ RequestEffect /\ imutex' \in Objs \cup {Nobody, Interface}
      /\ wmutex' \in [FDs -> Objs \cup {Nobody, Interface}]
  BY AfterFailureType DEF WriteFindsClosure
<1>2. torn' \in [FDs -> BOOLEAN] /\ peer' \in [FDs -> {"open", "closed", "reset"}]
  BY DEF WriteFindsClosure, TearRecord, TypeOK
<1>3. QED
  BY <1>1, <1>2 DEF TypeOK, WriteFindsClosure, TearRecord, requestFrame,
                    RequestEffect, RequestsTypeOK

LEMMA ReportFailureType ==
  ASSUME TypeOK, NEW o \in Objs, ReportFailure(o)
  PROVE  TypeOK'
<1>1. RequestEffect /\ imutex' \in Objs \cup {Nobody, Interface}
  BY RemoveAndScheduleType, StateCheckFailsType DEF ReportFailure, TypeOK
<1>2. QED
  BY <1>1 DEF TypeOK, ReportFailure, requestFrame, RequestEffect, RequestsTypeOK

LEMMA ScheduleClosureType ==
  ASSUME TypeOK, KeyInv, NEW o \in Objs, ScheduleClosure(o)
  PROVE  TypeOK'
<1>1. Fd(o) \in FDs
  BY DEF ScheduleClosure, PcIs, KeyInv, Fd, Keys
<1>2. QED
  BY <1>1, AddToClosureSetType DEF TypeOK, ScheduleClosure, requestFrame, KeepRequests

LEMMA DestroySchedulesType ==
  ASSUME TypeOK, KeyInv, NEW o \in Objs, DestroySchedules(o)
  PROVE  TypeOK'
<1>1. Fd(o) \in FDs
  BY DEF DestroySchedules, PcIs, KeyInv, Fd, Keys
<1>2. RequestsTypeOK' /\ cache' \in [id : Ids \cup {0}, live : BOOLEAN]
  BY RemoveRequestType DEF DestroySchedules
<1>3. QED
  BY <1>1, <1>2, AddToClosureSetType
     DEF TypeOK, DestroySchedules, requestFrame, RequestsTypeOK

LEMMA DestroyType ==
  ASSUME TypeOK, NEW o \in Objs, Destroy(o)
  PROVE  TypeOK'
<1>1. RequestEffect /\ imutex' \in Objs \cup {Nobody, Interface}
  BY ObjectsType, RemoveRequestType, KeepRequestsType
     DEF Destroy, RequestEffect, Places, TypeOK
<1>2. QED
  BY <1>1 DEF TypeOK, Destroy, requestFrame, RequestEffect, RequestsTypeOK

LEMMA AbortStatusType ==
  ASSUME TypeOK, KeyInv, NEW o \in Objs, AbortStatus(o)
  PROVE  TypeOK'
<1>1. RequestEffect
  <2>1. CASE Alive(o) /\ ~request_map[obj[o].key].closed
    <3>1. request_map[obj[o].key].abort \in BOOLEAN
      BY DEF AbortStatus, PcIs, KeyInv, TypeOK, RequestDataType
    <3>2. \A x \in ObjectType, a \in BOOLEAN : [x EXCEPT !.aborted = a] \in ObjectType
      BY DEF ObjectType
    <3>3. /\ obj' = [obj EXCEPT ![o].aborted = request_map[obj[o].key].abort]
          /\ KeepRequests
      BY <2>1 DEF AbortStatus
    <3>4. obj' \in [Objs -> ObjectType]
      BY <3>1, <3>2, <3>3 DEF TypeOK
    <3>5. QED
      BY <3>3, <3>4, KeepRequestsType DEF RequestEffect
  <2>2. CASE ~(Alive(o) /\ ~request_map[obj[o].key].closed)
    BY <2>2, ObjectsType, RemoveRequestType, KeepRequestsType
       DEF AbortStatus, RequestEffect
  <2>3. QED
    BY <2>1, <2>2
<1>2. QED
  BY <1>1 DEF TypeOK, AbortStatus, requestFrame, RequestEffect, RequestsTypeOK
\* No step of an application thread touches what ReadingInv is about.
LEMMA RequestKeepsReading ==
  ASSUME NEW o \in Objs, RequestStep(o) \/ RequestCall(o)
  PROVE  UNCHANGED <<requestFrame, inbox>>
BY DEF RequestStep, RequestCall, CallWrite, AcquireWriteMutex, WriteSucceeds,
       WriteFails, WriteFindsClosure, TearRecord, ReportFailure, ScheduleClosure,
       Destroy, DestroySchedules, AbortStatus

\* The ways in which a step of an application thread changes its object.
ObjectChange(o) ==
  \/ Completed(o)
  \/ \E place \in Places : obj[o].pc # "free" /\ Goto(o, place)
  \/ \E op \in {"Write", "Complete"} :
       /\ obj[o].pc = "ready" /\ StateCheckPasses(o)
       /\ obj' = [obj EXCEPT ![o] = [@ EXCEPT !.pc = "locked", !.op = op]]
  \/ \E force \in BOOLEAN :
       /\ obj[o].pc = "writing"
       /\ obj' = [obj EXCEPT ![o] = [@ EXCEPT !.pc = "failed", !.force = force]]
  \/ \E aborted \in BOOLEAN :
       obj[o].pc = "ready" /\ obj' = [obj EXCEPT ![o].aborted = aborted]

LEMMA RequestChangesObject ==
  ASSUME TypeOK, KeyInv, NEW o \in Objs, RequestStep(o) \/ RequestCall(o)
  PROVE  ObjectChange(o)
<1>1. ASSUME NEW op \in {"Write", "Complete"}, CallWrite(o, op)
      PROVE  ObjectChange(o)
  BY <1>1 DEF CallWrite, PcIs, StateCheckFails, ObjectChange
<1>2. ASSUME AcquireWriteMutex(o) PROVE ObjectChange(o)
  BY <1>2 DEF AcquireWriteMutex, PcIs, ObjectChange, Places
<1>3. ASSUME WriteSucceeds(o) PROVE ObjectChange(o)
  BY <1>3 DEF WriteSucceeds, PcIs, RemoveAndSchedule, ObjectChange, Places
<1>4. ASSUME NEW partial, WriteFails(o, partial) \/ WriteFindsClosure(o, partial)
      PROVE  ObjectChange(o)
  <2>1. PICK force \in BOOLEAN : obj[o].pc = "writing" /\ AfterFailure(o, force)
    BY <1>4 DEF WriteFails, WriteFindsClosure, PcIs
  <2>2. QED
    BY <2>1 DEF AfterFailure, RemoveAndSchedule, ObjectChange, Places
<1>5. ASSUME ReportFailure(o) PROVE ObjectChange(o)
  BY <1>5 DEF ReportFailure, PcIs, RemoveAndSchedule, StateCheckFails,
              ObjectChange, Places
<1>6. ASSUME ScheduleClosure(o) \/ DestroySchedules(o) PROVE ObjectChange(o)
  BY <1>6 DEF ScheduleClosure, DestroySchedules, AddToClosureSet, ObjectChange
<1>7. ASSUME Destroy(o) PROVE ObjectChange(o)
  BY <1>7 DEF Destroy, PcIs, ObjectChange, Places
<1>8. ASSUME AbortStatus(o) PROVE ObjectChange(o)
  <2>1. obj[o].pc = "ready" /\ request_map[obj[o].key].abort \in BOOLEAN
    BY <1>8 DEF AbortStatus, PcIs, KeyInv, TypeOK, RequestDataType
  <2>2. QED
    BY <1>8, <2>1 DEF AbortStatus, ObjectChange
<1>9. QED
  BY <1>1, <1>2, <1>3, <1>4, <1>5, <1>6, <1>7, <1>8 DEF RequestStep, RequestCall

\* Only the object itself changes; it is complete then or keeps its identity.
LEMMA ObjectIdentity ==
  ASSUME TypeOK, NEW o \in Objs, ObjectChange(o)
  PROVE  /\ \A p \in Objs : p # o => obj'[p] = obj[p]
         /\ \/ obj'[o].pc = "free"
            \/ /\ obj[o].pc # "free"
               /\ obj'[o].key = obj[o].key /\ obj'[o].iid = obj[o].iid
<1>1. \A p \in Objs : p # o => obj'[p] = obj[p]
  BY DEF ObjectChange, Completed, Goto, TypeOK
<1>2. CASE Completed(o)
  <2>1. obj'[o].pc = "free"
    BY <1>2 DEF Completed, NoObject, TypeOK
  <2>2. QED
    BY <1>1, <2>1
<1>3. CASE ~Completed(o)
  <2>1. obj[o].pc # "free"
    BY <1>3 DEF ObjectChange
  <2>2. obj[o] \in ObjectType
    BY DEF TypeOK
  <2>3. obj'[o].key = obj[o].key /\ obj'[o].iid = obj[o].iid
    <3>1. ASSUME NEW place, Goto(o, place)
          PROVE  obj'[o].key = obj[o].key /\ obj'[o].iid = obj[o].iid
      BY <2>2, <3>1 DEF Goto, ObjectType, TypeOK
    <3>2. ASSUME NEW op,
                 obj' = [obj EXCEPT ![o] = [@ EXCEPT !.pc = "locked", !.op = op]]
          PROVE  obj'[o].key = obj[o].key /\ obj'[o].iid = obj[o].iid
      BY <2>2, <3>2 DEF ObjectType, TypeOK
    <3>3. ASSUME NEW force,
                 obj' = [obj EXCEPT ![o] = [@ EXCEPT !.pc = "failed", !.force = force]]
          PROVE  obj'[o].key = obj[o].key /\ obj'[o].iid = obj[o].iid
      BY <2>2, <3>3 DEF ObjectType, TypeOK
    <3>4. ASSUME NEW aborted, obj' = [obj EXCEPT ![o].aborted = aborted]
          PROVE  obj'[o].key = obj[o].key /\ obj'[o].iid = obj[o].iid
      BY <2>2, <3>4 DEF ObjectType, TypeOK
    <3>5. QED
      BY <1>3, <3>1, <3>2, <3>3, <3>4 DEF ObjectChange
  <2>4. QED
    BY <1>1, <2>1, <2>3
<1>4. QED
  BY <1>2, <1>3

LEMMA RequestKeepsKeys ==
  ASSUME TypeOK, KeyInv, NEW o \in Objs, ObjectChange(o)
  PROVE  KeyInv'
BY ObjectIdentity DEF KeyInv

\* A step of an application thread keeps the types.
LEMMA RequestType ==
  ASSUME TypeOK, KeyInv, ReadingInv, NEW o \in Objs, RequestStep(o) \/ RequestCall(o)
  PROVE  TypeOK' /\ KeyInv' /\ ReadingInv'
<1>1. TypeOK'
  BY CallWriteType, AcquireWriteMutexType, WriteSucceedsType, WriteFailsType,
     WriteFindsClosureType, ReportFailureType, ScheduleClosureType, DestroyType,
     DestroySchedulesType, AbortStatusType DEF RequestStep, RequestCall
<1>2. KeyInv'
  BY RequestChangesObject, RequestKeepsKeys
<1>3. ReadingInv'
  BY RequestKeepsReading DEF ReadingInv, requestFrame
<1>4. QED
  BY <1>1, <1>2, <1>3

-----------------------------------------------------------------------------
(* The steps of ReadRecords.                                               *)

\* What a step of ReadRecords may rely on.
LEMMA ReadingFacts ==
  ASSUME TypeOK, ReadingInv, ipc \in Reading
  PROVE  /\ cur \in FDs /\ cur \in connections /\ ready \subseteq connections
         /\ avail <= Len(inbox[cur]) /\ inbox[cur] \in Seq(Parts)
         /\ Rec \in RecordType
BY DEF TypeOK, ReadingInv, InCall, Rec

\* A part that SocketRead returned can be taken from the socket.
LEMMA TakePartType ==
  ASSUME TypeOK, ReadingInv, ipc \in Reading, avail > 0
  PROVE  /\ Part \in Parts
         /\ TakePart => /\ inbox' \in [FDs -> Seq(Parts)] /\ avail' \in Nat
                        /\ avail' <= Len(inbox'[cur])
<1>1. /\ cur \in FDs /\ inbox[cur] \in Seq(Parts) /\ avail \in Nat
      /\ avail <= Len(inbox[cur]) /\ inbox \in [FDs -> Seq(Parts)]
  BY ReadingFacts DEF TypeOK
<1>2. /\ Head(inbox[cur]) \in Parts /\ Tail(inbox[cur]) \in Seq(Parts)
      /\ Len(Tail(inbox[cur])) = Len(inbox[cur]) - 1
  BY <1>1
<1>3. ASSUME TakePart
      PROVE  /\ inbox' \in [FDs -> Seq(Parts)] /\ avail' \in Nat
             /\ avail' <= Len(inbox'[cur])
  <2>1. inbox' = [inbox EXCEPT ![cur] = Tail(inbox[cur])] /\ avail' = avail - 1
    BY <1>3 DEF TakePart
  <2>2. inbox' \in [FDs -> Seq(Parts)] /\ inbox'[cur] = Tail(inbox[cur])
    BY <1>1, <1>2, <2>1
  <2>3. QED
    BY <1>1, <1>2, <2>1, <2>2
<1>4. QED
  BY <1>2, <1>3 DEF Part

\* The steps leave readFrame alone.
LEMMA ReadStepFrame ==
  ASSUME ReadStep
  PROVE  UNCHANGED readFrame
BY DEF ReadStep, SocketRead, SocketReadEnd, SocketReadError, ReadRecordsReturns,
       HeaderLocal, HeaderChecked, BodyKept, BodyAppended, CompleteIgnored,
       CompleteManagement, CompleteBegin, AddRequest, CompleteAbort,
       CompleteStreamEnd, RejectMalformed, SendAcquires, SendSucceeds, SendFails,
       SendFindsClosure, SendLocksInterface, SendSchedules, InterfaceCheck,
       ThrowsFromRead, completeFrame, sendFrame

\* The steps start in ReadRecords.
LEMMA ReadStepPlace ==
  ASSUME ReadStep
  PROVE  ipc \in Reading /\ ~terminated
BY DEF ReadStep, SocketRead, SocketReadEnd, SocketReadError, ReadRecordsReturns,
       HeaderLocal, HeaderChecked, BodyKept, BodyAppended, CompleteIgnored,
       CompleteManagement, CompleteBegin, AddRequest, CompleteAbort, Completes,
       CompleteStreamEnd, RejectMalformed, SendAcquires, SendSucceeds, SendFails,
       SendFindsClosure, SendLocksInterface, SendSchedules, At, Reading

\* An exception changes nothing but the place.
LEMMA ThrowsFromReadType ==
  ASSUME TypeOK, ReadingInv, ipc \in Reading, ThrowsFromRead
  PROVE  TypeOK' /\ ReadingInv'
<1>1. TypeOK'
  BY DEF TypeOK, ThrowsFromRead, readFrame, IPlaces
<1>2. ReadingInv'
  BY DEF ReadingInv, ThrowsFromRead, readFrame, Reading, InCall
<1>3. QED
  BY <1>1, <1>2

\* Reading from the socket.
LEMMA SocketReadType ==
  ASSUME TypeOK, ReadingInv,
         \/ \E n \in 0..BufferUnits : SocketRead(n)
         \/ SocketReadEnd \/ SocketReadError \/ ReadRecordsReturns
  PROVE  TypeOK' /\ ReadingInv'
<1>1. ASSUME NEW n \in 0..BufferUnits, SocketRead(n)
      PROVE  TypeOK' /\ ReadingInv'
  <2>1. n \in Nat
    BY ConstantsAssumption
  <2>2. TypeOK'
    BY <1>1, <2>1 DEF TypeOK, SocketRead, readFrame, IPlaces
  <2>3. ReadingInv'
    BY <1>1 DEF ReadingInv, SocketRead, At, readFrame, Reading, InCall
  <2>4. QED
    BY <2>2, <2>3
<1>2. ASSUME SocketReadEnd
      PROVE  TypeOK' /\ ReadingInv'
  <2>1. ipc \in Reading /\ cur \in FDs
    BY <1>2, ReadingFacts DEF SocketReadEnd, At, Reading
  <2>2. CASE bad
    BY <1>2, <2>1, <2>2, ThrowsFromReadType DEF SocketReadEnd, InterfaceCheck
  <2>3. CASE ~bad
    <3>1. TypeOK'
      <4>1. inbox' \in [FDs -> Seq(Parts)]
        <5>1. <<>> \in Seq(Parts)
          OBVIOUS
        <5>2. QED
          BY <1>2, <2>3, <5>1 DEF TypeOK, SocketReadEnd, InterfaceCheck
      <4>2. cache' \in [id : Ids \cup {0}, live : BOOLEAN]
        <5>1. cache' = NoIterator
          BY <1>2, <2>3 DEF SocketReadEnd, InterfaceCheck
        <5>2. QED
          BY <5>1, NoIteratorType
      <4>3. QED
        BY <1>2, <2>1, <2>3, <4>1, <4>2
           DEF TypeOK, SocketReadEnd, InterfaceCheck, Schedule, readFrame, IPlaces
    <3>2. ReadingInv'
      BY <1>2, <2>1, <2>3 DEF ReadingInv, SocketReadEnd, InterfaceCheck, readFrame,
                              Reading, InCall
    <3>3. QED
      BY <3>1, <3>2
  <2>4. QED
    BY <2>2, <2>3
<1>3. ASSUME SocketReadError
      PROVE  TypeOK' /\ ReadingInv'
  BY <1>3, ThrowsFromReadType DEF SocketReadError, At, Reading
<1>4. ASSUME ReadRecordsReturns
      PROVE  TypeOK' /\ ReadingInv'
  <2>1. TypeOK'
    BY <1>4 DEF TypeOK, ReadRecordsReturns, readFrame, IPlaces, NoIterator
  <2>2. ReadingInv'
    BY <1>4 DEF ReadingInv, ReadRecordsReturns, At, readFrame, Reading, InCall
  <2>3. QED
    BY <2>1, <2>2
<1>5. QED
  BY <1>1, <1>2, <1>3, <1>4
\* Headers and content.
LEMMA SetRecordType ==
  ASSUME TypeOK, NEW rec \in RecordType, NEW invalidated \in BOOLEAN,
         SetRecord(rec, invalidated)
  PROVE  record_status' \in [FDs -> [rec : RecordType, invalidated : BOOLEAN]]
BY DEF TypeOK, SetRecord

LEMMA FindType ==
  ASSUME TypeOK, NEW id \in Ids
  PROVE  Find(id) \in [id : Ids \cup {0}, live : BOOLEAN]
BY NoIteratorType DEF Find

LEMMA LookupType ==
  ASSUME TypeOK, NEW id \in Ids, NEW iter \in Lookup(id)
  PROVE  iter \in [id : Ids \cup {0}, live : BOOLEAN]
BY FindType DEF Lookup, TypeOK

LEMMA VerdictsType ==
  ASSUME TypeOK, NEW rec \in RecordType, ~RejectedByLength(rec), cur \in FDs,
         rec.id \in Ids, NEW iter, NEW verdict \in Verdicts(rec, iter)
  PROVE  verdict \in BOOLEAN
<1>1. rec.type \in {"BEGIN", "ABORT"} \cup StreamTypes
  BY DEF RejectedByLength
<1>2. <<cur, rec.id>> \in Keys
  BY DEF Keys
<1>3. /\ request_map[<<cur, rec.id>>].abort \in BOOLEAN
      /\ rec.type \in StreamTypes =>
           request_map[<<cur, rec.id>>].complete[rec.type] \in BOOLEAN
  BY <1>2 DEF TypeOK, RequestDataType
<1>4. QED
  BY <1>1, <1>3 DEF Verdicts

LEMMA HeaderLocalType ==
  ASSUME TypeOK, ReadingInv, HeaderLocal
  PROVE  TypeOK' /\ ReadingInv'
<1>1. ipc \in Reading /\ avail > 0
  BY DEF HeaderLocal, At, Reading
<1>2. Part.rec \in RecordType
  BY <1>1, TakePartType DEF Parts
<1>3. record_status' \in [FDs -> [rec : RecordType, invalidated : BOOLEAN]]
  BY <1>2, SetRecordType DEF HeaderLocal
<1>4. TypeOK'
  BY <1>1, <1>3, TakePartType DEF TypeOK, HeaderLocal, readFrame, AfterHeader, IPlaces
<1>5. ReadingInv'
  BY <1>1, TakePartType
     DEF ReadingInv, HeaderLocal, AfterHeader, readFrame, Reading, InCall
<1>6. QED
  BY <1>4, <1>5

LEMMA HeaderCheckedType ==
  ASSUME TypeOK, ReadingInv, HeaderChecked
  PROVE  TypeOK' /\ ReadingInv'
<1>1. ipc \in Reading /\ avail > 0
  BY DEF HeaderChecked, At, Reading
<1>2. CASE bad
  BY <1>1, <1>2, ThrowsFromReadType DEF HeaderChecked, InterfaceCheck
<1>3. CASE ~bad
  <2>1. /\ Part.rec \in RecordType /\ Part.rec.id \in Ids /\ cur \in FDs
        /\ ~RejectedByLength(Part.rec)
    BY <1>1, TakePartType, ReadingFacts DEF Parts, RecordType, HeaderChecked
  <2>2. PICK iter \in Lookup(Part.rec.id) :
          /\ cache' = IF iter.id = 0 THEN cache ELSE iter
          /\ \E invalidated \in Verdicts(Part.rec, iter) :
               SetRecord(Part.rec, invalidated)
    BY <1>3 DEF HeaderChecked, InterfaceCheck
  <2>3. cache' \in [id : Ids \cup {0}, live : BOOLEAN]
    BY <2>1, <2>2, LookupType DEF TypeOK
  <2>4. record_status' \in [FDs -> [rec : RecordType, invalidated : BOOLEAN]]
    BY <2>1, <2>2, VerdictsType, SetRecordType
  <2>5. dangling_read' \in BOOLEAN
    BY <1>3 DEF HeaderChecked, InterfaceCheck, ReadsThroughCache
  <2>6. TypeOK'
    BY <1>1, <1>3, <2>3, <2>4, <2>5, TakePartType
       DEF TypeOK, HeaderChecked, InterfaceCheck, readFrame, AfterHeader, IPlaces
  <2>7. ReadingInv'
    BY <1>1, <1>3, TakePartType DEF ReadingInv, HeaderChecked, InterfaceCheck,
                                    AfterHeader, readFrame, Reading, InCall
  <2>8. QED
    BY <2>6, <2>7
<1>4. QED
  BY <1>2, <1>3

LEMMA BodyKeptType ==
  ASSUME TypeOK, ReadingInv, BodyKept
  PROVE  TypeOK' /\ ReadingInv'
<1>1. ipc \in Reading /\ avail > 0
  BY DEF BodyKept, At, Reading
<1>2. TypeOK'
  BY <1>1, TakePartType DEF TypeOK, BodyKept, readFrame, IPlaces
<1>3. ReadingInv'
  BY <1>1, TakePartType DEF ReadingInv, BodyKept, readFrame, Reading, InCall
<1>4. QED
  BY <1>2, <1>3

LEMMA BodyAppendedType ==
  ASSUME TypeOK, ReadingInv, BodyAppended
  PROVE  TypeOK' /\ ReadingInv'
<1>1. ipc \in Reading /\ avail > 0
  BY DEF BodyAppended, At, Reading
<1>2. CASE bad
  BY <1>1, <1>2, ThrowsFromReadType DEF BodyAppended, InterfaceCheck
<1>3. CASE ~bad
  <2>1. Rec.id \in Ids /\ Rec.type \in StreamTypes
    BY <1>1, ReadingFacts DEF RecordType, BodyAppended, IsStream
  <2>2. cache' \in [id : Ids \cup {0}, live : BOOLEAN]
    BY <1>3, <2>1, FindType DEF BodyAppended, InterfaceCheck
  <2>3. request_map' \in [Keys -> RequestDataType]
    <3>1. \/ request_map' = request_map
          \/ request_map' = [request_map EXCEPT ![<<cur, Rec.id>>] =
                               AppendTo(@, Rec.type, Rec.content)]
      BY <1>3 DEF BodyAppended, InterfaceCheck
    <3>2. AppendTo(request_map[<<cur, Rec.id>>], Rec.type, Rec.content)
            \in RequestDataType
      BY <1>1, <2>1, ReadingFacts, UpdateType DEF TypeOK, Keys
    <3>3. QED
      BY <3>1, <3>2 DEF TypeOK
  <2>4. dangling_read' \in BOOLEAN
    BY <1>3 DEF BodyAppended, InterfaceCheck, ReadsThroughCache
  <2>5. ipc' \in {"complete", "throw_read"} /\ bad' \in BOOLEAN
    BY <1>3 DEF BodyAppended, InterfaceCheck, TypeOK
  <2>6. TypeOK'
    BY <1>1, <1>3, <2>2, <2>3, <2>4, <2>5, TakePartType
       DEF TypeOK, BodyAppended, InterfaceCheck, readFrame, IPlaces
  <2>7. ReadingInv'
    BY <1>1, <1>3, <2>5, TakePartType
       DEF ReadingInv, BodyAppended, InterfaceCheck, readFrame, Reading, InCall
  <2>8. QED
    BY <2>6, <2>7
<1>4. QED
  BY <1>2, <1>3
\* ProcessCompleteRecord.  Its steps share a frame and what they keep well typed.
CompleteEffect ==
  /\ ipc \in Reading /\ ipc' \in Reading \cup {"throw_read"}
  /\ UNCHANGED completeFrame
  /\ RequestsTypeOK'
  /\ cache' \in [id : Ids \cup {0}, live : BOOLEAN]
  /\ found' \subseteq Ids /\ application_closure_request_set' \subseteq FDs
  /\ dangling_read' \in BOOLEAN
  /\ record_status' \in [FDs -> [rec : RecordType, invalidated : BOOLEAN]]

LEMMA CompleteEffectType ==
  ASSUME TypeOK, ReadingInv, CompleteEffect
  PROVE  TypeOK' /\ ReadingInv'
<1>1. TypeOK'
  BY DEF TypeOK, CompleteEffect, completeFrame, readFrame, Reading, IPlaces,
         RequestsTypeOK
<1>2. ReadingInv'
  BY DEF ReadingInv, CompleteEffect, completeFrame, readFrame, Reading, InCall
<1>3. QED
  BY <1>1, <1>2

LEMMA ProcessNextType ==
  ASSUME TypeOK, NEW place, ProcessNext(place)
  PROVE  record_status' \in [FDs -> [rec : RecordType, invalidated : BOOLEAN]]
<1>1. ClearRecord \in [rec : RecordType, invalidated : BOOLEAN]
  BY DEF ClearRecord, NullRecord, RecordType, RecordTypes, Roles
<1>2. QED
  BY <1>1 DEF TypeOK, ProcessNext

LEMMA CompleteRecordType ==
  ASSUME TypeOK, ReadingInv, CompleteIgnored \/ CompleteManagement
  PROVE  TypeOK' /\ ReadingInv'
<1>1. CompleteEffect
  BY ProcessNextType DEF CompleteIgnored, CompleteManagement, At, ProcessNext, Reading,
                         CompleteEffect, RequestsTypeOK, TypeOK
<1>2. QED
  BY <1>1, CompleteEffectType

LEMMA CompleteBeginType ==
  ASSUME TypeOK, ReadingInv, CompleteBegin
  PROVE  TypeOK' /\ ReadingInv'
<1>1. ipc \in Reading
  BY DEF CompleteBegin, Completes, At, Reading
<1>2. CASE bad
  BY <1>1, <1>2, ThrowsFromReadType DEF CompleteBegin, InterfaceCheck
<1>3. CASE ~bad
  <2>1. CompleteEffect
    BY <1>1, <1>3, ProcessNextType
       DEF CompleteBegin, InterfaceCheck, ProcessNext, Reading, CompleteEffect,
           RequestsTypeOK, TypeOK
  <2>2. QED
    BY <2>1, CompleteEffectType
<1>4. QED
  BY <1>2, <1>3

LEMMA AddRequestType ==
  ASSUME TypeOK, ReadingInv, AddRequest
  PROVE  TypeOK' /\ ReadingInv'
<1>1. ipc \in Reading /\ Rec \in RecordType /\ cur \in FDs
  BY ReadingFacts DEF AddRequest, At, Reading
<1>2. CASE bad
  BY <1>1, <1>2, ThrowsFromReadType DEF AddRequest, InterfaceCheck
<1>3. CASE ~bad
  <2>1. CASE Find(Rec.id).live \/ request_count_map[cur] = -1
    <3>1. CompleteEffect
      BY <1>1, <1>3, <2>1 DEF AddRequest, InterfaceCheck, Reading, CompleteEffect,
                              RequestsTypeOK, TypeOK
    <3>2. QED
      BY <3>1, CompleteEffectType
  <2>2. CASE ~(Find(Rec.id).live \/ request_count_map[cur] = -1)
    <3>1. /\ request_count_map' = [request_count_map EXCEPT ![cur] = @ + 1]
          /\ request_map' = [request_map EXCEPT ![<<cur, Rec.id>>] =
                               NewRequestData(Rec.role, ~Rec.keep)]
          /\ cache' = [id |-> Rec.id, live |-> TRUE]
          /\ ProcessNext("process") /\ bad' = bad
          /\ UNCHANGED <<completeFrame, application_closure_request_set, found,
                         dangling_read>>
      BY <1>3, <2>2 DEF AddRequest, InterfaceCheck
    <3>2. request_count_map' \in [FDs -> Int]
      BY <1>1, <3>1 DEF TypeOK
    <3>3. request_map' \in [Keys -> RequestDataType]
      <4>1. Rec.role \in Roles /\ (~Rec.keep) \in BOOLEAN
        BY <1>1 DEF RecordType
      <4>2. NewRequestData(Rec.role, ~Rec.keep) \in RequestDataType
        BY <4>1, NewRequestDataType
      <4>3. QED
        BY <3>1, <4>2 DEF TypeOK
    <3>4. cache' \in [id : Ids \cup {0}, live : BOOLEAN]
      BY <1>1, <3>1 DEF RecordType
    <3>5. CompleteEffect
      BY <1>1, <3>1, <3>2, <3>3, <3>4, ProcessNextType
         DEF ProcessNext, Reading, CompleteEffect, RequestsTypeOK, TypeOK
    <3>6. QED
      BY <3>5, CompleteEffectType
  <2>3. QED
    BY <2>1, <2>2
<1>4. QED
  BY <1>2, <1>3

LEMMA CompleteAbortType ==
  ASSUME TypeOK, ReadingInv, CompleteAbort
  PROVE  TypeOK' /\ ReadingInv'
<1>1. ipc \in Reading /\ Rec \in RecordType /\ cur \in FDs /\ Rec.id \in Ids
  BY ReadingFacts DEF CompleteAbort, Completes, At, Reading, RecordType
<1>2. CASE bad
  BY <1>1, <1>2, ThrowsFromReadType DEF CompleteAbort, InterfaceCheck
<1>3. CASE ~bad
  <2>1. PICK iter \in Lookup(Rec.id) : AbortThrough(iter)
    BY <1>3 DEF CompleteAbort, InterfaceCheck
  <2>2. dangling_read' \in BOOLEAN /\ UNCHANGED completeFrame
    BY <1>3 DEF CompleteAbort, InterfaceCheck, ReadsThroughCache
  <2>3. cache' \in [id : Ids \cup {0}, live : BOOLEAN]
    <3>1. cache' = NoIterator \/ cache' = cache
      BY <2>1 DEF AbortThrough
    <3>2. QED
      BY <3>1, NoIteratorType DEF TypeOK
  <2>4. /\ application_closure_request_set' \subseteq FDs /\ found' \subseteq Ids
        /\ record_status' \in [FDs -> [rec : RecordType, invalidated : BOOLEAN]]
        /\ ipc' \in {"process", "throw_read", "send"}
    <3>1. /\ \/ Schedule(cur)
             \/ UNCHANGED application_closure_request_set
          /\ found' \in {found, found \ {Rec.id}}
          /\ \/ ProcessNext("process") \/ ProcessNext("send")
             \/ ipc' = "throw_read" /\ UNCHANGED record_status
      BY <2>1 DEF AbortThrough, Uncollect
    <3>2. record_status' \in [FDs -> [rec : RecordType, invalidated : BOOLEAN]]
      BY <3>1, ProcessNextType DEF TypeOK
    <3>3. QED
      BY <1>1, <3>1, <3>2 DEF Schedule, ProcessNext, TypeOK
  <2>5. RequestsTypeOK'
    <3>1. \/ UNCHANGED <<bad, request_map, request_count_map>>
          \/ /\ request_map' = [request_map EXCEPT ![<<cur, Rec.id>>].abort = TRUE]
             /\ UNCHANGED <<bad, request_count_map>>
          \/ EraseRequest(<<cur, Rec.id>>)
      BY <2>1 DEF AbortThrough
    <3>2. [request_map[<<cur, Rec.id>>] EXCEPT !.abort = TRUE] \in RequestDataType
      <4>1. request_map[<<cur, Rec.id>>] \in RequestDataType
        BY <1>1 DEF TypeOK, Keys
      <4>2. QED
        BY <4>1, UpdateType DEF StreamTypes
    <3>3. CASE EraseRequest(<<cur, Rec.id>>)
      BY <3>3, EraseRequestType
    <3>4. CASE ~EraseRequest(<<cur, Rec.id>>)
      <4>1. request_map' \in [Keys -> RequestDataType]
        BY <3>1, <3>2, <3>4 DEF TypeOK
      <4>2. QED
        BY <3>1, <3>4, <4>1 DEF RequestsTypeOK, TypeOK
    <3>5. QED
      BY <3>3, <3>4
  <2>6. CompleteEffect
    BY <1>1, <2>2, <2>3, <2>4, <2>5 DEF CompleteEffect, Reading
  <2>7. QED
    BY <2>6, CompleteEffectType
<1>4. QED
  BY <1>2, <1>3

LEMMA CompleteStreamEndType ==
  ASSUME TypeOK, ReadingInv, CompleteStreamEnd
  PROVE  TypeOK' /\ ReadingInv'
<1> DEFINE k  == <<cur, Rec.id>>
           rd == CompleteStream(request_map[k], Rec.type)
<1>1. /\ ipc \in Reading /\ cur \in FDs
      /\ Rec.id \in Ids /\ Rec.type \in StreamTypes
  BY ReadingFacts DEF CompleteStreamEnd, At, Reading, RecordType, IsStream
<1>2. CASE bad
  BY <1>1, <1>2, ThrowsFromReadType DEF CompleteStreamEnd, InterfaceCheck
<1>3. CASE ~bad
  <2>1. request_map' \in [Keys -> RequestDataType]
    <3>1. request_map' \in {request_map,
                            [request_map EXCEPT ![k] = ConditionalUpdate(rd)]}
      BY <1>3 DEF CompleteStreamEnd, InterfaceCheck
    <3>2. request_map[k] \in RequestDataType
      BY <1>1 DEF TypeOK, Keys
    <3>3. ConditionalUpdate(rd) \in RequestDataType
      BY <1>1, <3>2, UpdateType
    <3>4. QED
      BY <3>1, <3>3 DEF TypeOK
  <2>2. cache' \in [id : Ids \cup {0}, live : BOOLEAN]
    <3>1. cache' = NoIterator \/ cache' = cache
      BY <1>3 DEF CompleteStreamEnd, InterfaceCheck
    <3>2. QED
      BY <3>1, NoIteratorType DEF TypeOK
  <2>3. /\ record_status' = record_status \/ ProcessNext("process")
        /\ ipc' \in {"process", "throw_read", "reject"}
        /\ found' \in {found, found \cup {Rec.id}}
        /\ UNCHANGED <<completeFrame, bad, request_count_map,
                       application_closure_request_set>>
    BY <1>3 DEF CompleteStreamEnd, InterfaceCheck, ProcessNext
  <2>4. dangling_read' \in BOOLEAN
    BY <1>3 DEF CompleteStreamEnd, InterfaceCheck, ReadsThroughCache
  <2>5. CompleteEffect
    BY <1>1, <2>1, <2>2, <2>3, <2>4, ProcessNextType
       DEF CompleteEffect, Reading, RequestsTypeOK, TypeOK
  <2>6. QED
    BY <2>5, CompleteEffectType
<1>4. QED
  BY <1>2, <1>3

LEMMA RejectMalformedType ==
  ASSUME TypeOK, ReadingInv, RejectMalformed
  PROVE  TypeOK' /\ ReadingInv'
<1>1. ipc \in Reading /\ cur \in FDs
  BY ReadingFacts DEF RejectMalformed, At, Reading
<1>2. CASE bad
  BY <1>1, <1>2, ThrowsFromReadType DEF RejectMalformed, InterfaceCheck
<1>3. CASE ~bad
  <2>1. RequestsTypeOK'
    BY <1>3, EraseRequestType DEF RejectMalformed, InterfaceCheck
  <2>2. CompleteEffect
    BY <1>1, <1>3, <2>1, ProcessNextType
       DEF RejectMalformed, InterfaceCheck, Schedule, ProcessNext, CompleteEffect,
           Reading, TypeOK
  <2>3. QED
    BY <2>2, CompleteEffectType
<1>4. QED
  BY <1>2, <1>3
\* SendRecord.
LEMMA SendType ==
  ASSUME TypeOK, ReadingInv,
         \/ SendAcquires \/ SendSucceeds \/ SendLocksInterface \/ SendSchedules
         \/ \E partial \in BOOLEAN, place \in {"send_failed", "send_threw"} :
              SendFails(partial, place)
         \/ \E partial \in BOOLEAN : SendFindsClosure(partial)
  PROVE  TypeOK' /\ ReadingInv'
<1>1. cur \in FDs /\ ipc \in Reading
  BY ReadingFacts DEF SendAcquires, SendSucceeds, SendLocksInterface, SendSchedules,
                      SendFails, SendFindsClosure, At, Reading
<1>2. UNCHANGED <<sendFrame, kfd, inbox>>
  BY DEF SendAcquires, SendSucceeds, SendLocksInterface, SendSchedules, SendFails,
         SendFindsClosure, TearRecord
<1>3. ipc' \in Reading \cup {"throw_read"}
  BY <1>1 DEF SendAcquires, SendSucceeds, SendLocksInterface, SendSchedules,
              SendFails, SendFindsClosure, Reading
<1>4. wmutex' \in [FDs -> Objs \cup {Nobody, Interface}]
  <2>1. \/ wmutex' = wmutex \/ wmutex' = [wmutex EXCEPT ![cur] = Interface]
        \/ wmutex' = [wmutex EXCEPT ![cur] = Nobody]
    BY DEF SendAcquires, SendSucceeds, SendLocksInterface, SendSchedules,
           SendFails, SendFindsClosure
  <2>2. QED
    BY <2>1 DEF TypeOK
<1>5. imutex' \in Objs \cup {Nobody, Interface}
  BY DEF SendAcquires, SendSucceeds, SendLocksInterface, SendSchedules, SendFails,
         SendFindsClosure, TypeOK
<1>6. application_closure_request_set' \subseteq FDs
  BY <1>1 DEF SendAcquires, SendSucceeds, SendLocksInterface, SendSchedules,
              SendFails, SendFindsClosure, Schedule, TypeOK
<1>7. peer' \in [FDs -> {"open", "closed", "reset"}]
  <2>1. peer' = peer \/ peer' = [peer EXCEPT ![cur] = "reset"]
    BY DEF SendAcquires, SendSucceeds, SendLocksInterface, SendSchedules,
           SendFails, SendFindsClosure
  <2>2. QED
    BY <2>1 DEF TypeOK
<1>8. torn' \in [FDs -> BOOLEAN] /\ wbad' \in [FDs -> BOOLEAN]
  <2>1. /\ torn' = torn \/ \E partial \in BOOLEAN : TearRecord(cur, partial)
        /\ wbad' = wbad \/ \E partial \in BOOLEAN : MarkCorrupt(cur, partial)
    BY DEF SendAcquires, SendSucceeds, SendLocksInterface, SendSchedules,
           SendFails, SendFindsClosure
  <2>2. torn' \in [FDs -> BOOLEAN]
    BY <2>1 DEF TearRecord, TypeOK
  <2>3. wbad' \in [FDs -> BOOLEAN]
    BY <2>1 DEF MarkCorrupt, TypeOK
  <2>4. QED
    BY <2>2, <2>3
<1>9. TypeOK'
  BY <1>2, <1>3, <1>4, <1>5, <1>6, <1>7, <1>8
     DEF TypeOK, sendFrame, readFrame, IPlaces, Reading
<1>10. ReadingInv'
  BY <1>1, <1>2, <1>3 DEF ReadingInv, sendFrame, readFrame, Reading, InCall
<1>11. QED
  BY <1>9, <1>10

LEMMA ReadType ==
  ASSUME TypeOK, KeyInv, ReadingInv, ReadStep
  PROVE  TypeOK' /\ KeyInv' /\ ReadingInv'
<1>1. TypeOK' /\ ReadingInv'
  BY SocketReadType, HeaderLocalType, HeaderCheckedType, BodyKeptType,
     BodyAppendedType, CompleteRecordType, CompleteBeginType, AddRequestType,
     CompleteAbortType, CompleteStreamEndType, RejectMalformedType, SendType
     DEF ReadStep
<1>2. KeyInv'
  BY ReadStepFrame DEF readFrame, KeyInv
<1>3. QED
  BY <1>1, <1>2

-----------------------------------------------------------------------------
(* Construction, destruction and AcceptRequests.                           *)

\* close() leaves the descriptor table well typed.
LEMMA CloseAllType ==
  ASSUME TypeOK, NEW S, CloseAll(S)
  PROVE  /\ kfd' \in [FDs -> {"free", "socket", "listen", "foreign"}]
         /\ peer' \in [FDs -> {"open", "closed", "reset"}]
         /\ inbox' \in [FDs -> Seq(Parts)] /\ torn' \in [FDs -> BOOLEAN]
<1>1. <<>> \in Seq(Parts)
  OBVIOUS
<1>2. inbox' \in [FDs -> Seq(Parts)]
  BY <1>1 DEF TypeOK, CloseAll
<1>3. QED
  BY <1>2 DEF TypeOK, CloseAll

LEMMA ConstructType ==
  ASSUME TypeOK, KeyInv, ReadingInv, Construct
  PROVE  TypeOK' /\ KeyInv' /\ ReadingInv'
<1>1. NextIdentifier \in Nat
  BY DEF TypeOK, NextIdentifier
<1>2. TypeOK'
  BY <1>1 DEF TypeOK, Construct, IPlaces
<1>3. KeyInv' /\ ReadingInv'
  BY DEF Construct, KeyInv, ReadingInv, Reading, InCall
<1>4. QED
  BY <1>2, <1>3

LEMMA DestructorType ==
  ASSUME TypeOK, KeyInv, ReadingInv,
         \/ DestructorClosesDummies \/ DestructorLocks
         \/ \E c \in FDs : DestructorCloses(c)
  PROVE  TypeOK' /\ KeyInv' /\ ReadingInv'
<1>1. ASSUME DestructorClosesDummies
      PROVE  TypeOK' /\ KeyInv' /\ ReadingInv'
  <2>1. TypeOK'
    BY <1>1, CloseAllType DEF TypeOK, DestructorClosesDummies, IPlaces
  <2>2. KeyInv' /\ ReadingInv'
    BY <1>1 DEF DestructorClosesDummies, KeyInv, ReadingInv, Reading, InCall
  <2>3. QED
    BY <2>1, <2>2
<1>2. ASSUME DestructorLocks
      PROVE  TypeOK' /\ KeyInv' /\ ReadingInv'
  <2>1. TypeOK'
    BY <1>2 DEF TypeOK, DestructorLocks, SocketsToClose, IPlaces
  <2>2. KeyInv' /\ ReadingInv'
    BY <1>2 DEF DestructorLocks, SocketsToClose, KeyInv, ReadingInv, Reading, InCall
  <2>3. QED
    BY <2>1, <2>2
<1>3. ASSUME NEW c \in FDs, DestructorCloses(c)
      PROVE  TypeOK' /\ KeyInv' /\ ReadingInv'
  <2>1. TypeOK'
    BY <1>3, CloseAllType DEF TypeOK, DestructorCloses
  <2>2. KeyInv' /\ ReadingInv'
    BY <1>3 DEF DestructorCloses, At, KeyInv, ReadingInv, Reading, InCall
  <2>3. QED
    BY <2>1, <2>2
<1>4. QED
  BY <1>1, <1>2, <1>3

LEMMA DestructorReturnsType ==
  ASSUME TypeOK, KeyInv, ReadingInv, DestructorReturns
  PROVE  TypeOK' /\ KeyInv' /\ ReadingInv'
<1>1. ClearRecord \in [rec : RecordType, invalidated : BOOLEAN]
  BY DEF ClearRecord, NullRecord, RecordType, RecordTypes, Roles
<1>2. obj' \in [Objs -> ObjectType]
  BY NoObjectType DEF DestructorReturns, TypeOK
<1>3. /\ record_status' \in [FDs -> [rec : RecordType, invalidated : BOOLEAN]]
      /\ request_map' \in [Keys -> RequestDataType]
  BY <1>1, NewRequestDataType DEF DestructorReturns
<1>4. /\ pipe' \in 0..PipeCapacity
      /\ request_count_map' \in [FDs -> Int] /\ wbad' \in [FDs -> BOOLEAN]
  BY ConstantsAssumption DEF DestructorReturns
<1>5. TypeOK'
  BY <1>2, <1>3, <1>4 DEF TypeOK, DestructorReturns, IPlaces
<1>6. KeyInv'
  BY DEF DestructorReturns, KeyInv, NoObject
<1>7. ReadingInv'
  BY DEF DestructorReturns, ReadingInv, Reading, InCall
<1>8. QED
  BY <1>5, <1>6, <1>7

LEMMA CleanupType ==
  ASSUME TypeOK, KeyInv, ReadingInv, Cleanup
  PROVE  TypeOK' /\ KeyInv' /\ ReadingInv'
<1>1. Removed \subseteq FDs /\ ToDummy \subseteq FDs
  BY DEF Removed, ToDummy, TypeOK
<1>2. request_map' \in [Keys -> RequestDataType]
  <2>1. \A k \in Keys : [request_map[k] EXCEPT !.closed = TRUE] \in RequestDataType
    BY UpdateType DEF TypeOK, StreamTypes
  <2>2. QED
    BY <2>1, NewRequestDataType DEF Cleanup, CleanRequests, TypeOK
<1>3. request_count_map' \in [FDs -> Int]
  <2>1. ASSUME NEW c \in FDs
        PROVE  request_count_map[c] - Cardinality(RequestsOn(c) \ AssignedOn(c)) \in Int
    <3>1. IsFiniteSet(Keys)
      BY ConstantsAssumption, FS_Product DEF Keys
    <3>2. IsFiniteSet(RequestsOn(c) \ AssignedOn(c))
      BY <3>1, FS_Subset DEF RequestsOn
    <3>3. Cardinality(RequestsOn(c) \ AssignedOn(c)) \in Nat
      BY <3>2, FS_CardinalityType
    <3>4. request_count_map[c] \in Int
      BY DEF TypeOK
    <3>5. QED
      BY <3>3, <3>4
  <2>2. QED
    BY <2>1 DEF Cleanup, CleanDescriptors, TypeOK
<1>4. /\ kfd' \in [FDs -> {"free", "socket", "listen", "foreign"}]
      /\ peer' \in [FDs -> {"open", "closed", "reset"}]
  BY DEF Cleanup, CleanDescriptors, TypeOK
<1>5. inbox' \in [FDs -> Seq(Parts)]
  <2>1. <<>> \in Seq(Parts)
    OBVIOUS
  <2>2. QED
    BY <2>1 DEF Cleanup, CleanDescriptors, TypeOK
<1>6. torn' \in [FDs -> BOOLEAN] /\ wbad' \in [FDs -> BOOLEAN]
  BY DEF Cleanup, CleanDescriptors, TypeOK
<1>7. record_status' \in [FDs -> [rec : RecordType, invalidated : BOOLEAN]]
  <2>1. ClearRecord \in [rec : RecordType, invalidated : BOOLEAN]
    BY DEF ClearRecord, NullRecord, RecordType, RecordTypes, Roles
  <2>2. QED
    BY <2>1 DEF Cleanup, CleanDescriptors, TypeOK
<1>8. connections' \subseteq FDs /\ dummy_descriptor_set' \subseteq FDs
  BY <1>1 DEF Cleanup, CleanDescriptors, TypeOK
<1>9. /\ pipe' \in 0..PipeCapacity /\ ipc' \in {"select", "outside"}
      /\ bad' \in BOOLEAN /\ application_closure_request_set' \subseteq FDs
  <2>1. PipeCapacity \in Nat
    BY ConstantsAssumption
  <2>2. pipe' \in 0..PipeCapacity
    BY <2>1 DEF Cleanup
  <2>3. QED
    BY <2>2 DEF Cleanup, TypeOK
<1>10. UNCHANGED <<clientVars, idVars, imutex, wmutex, ready, accepting, cur, avail,
                   full, found, cache, dangling_read, overload, obj, terminated>>
  BY DEF Cleanup
<1>11. TypeOK'
  BY <1>2, <1>3, <1>4, <1>5, <1>6, <1>7, <1>8, <1>9, <1>10 DEF TypeOK, IPlaces
<1>12. KeyInv' /\ ReadingInv'
  BY <1>9, <1>10 DEF KeyInv, ReadingInv, Reading, InCall
<1>13. QED
  BY <1>11, <1>12

\* A step that hands over, keeps or drops the requests that were collected.
LEMMA HeldObjectsType ==
  ASSUME TypeOK, KeyInv, HandOver \/ KeepForNextCall
  PROVE  obj' \in [Objs -> ObjectType] /\ KeyInv'
<1>1. CASE HandOver
  <2>1. \A o \in Objs : [obj[o] EXCEPT !.pc = "ready"] \in ObjectType
    BY PlaceType DEF TypeOK, Places
  <2>2. obj' \in [Objs -> ObjectType]
    BY <1>1, <2>1 DEF HandOver, TypeOK
  <2>3. \A o \in Objs : /\ obj'[o].key = obj[o].key
                        /\ obj'[o].pc # "free" => obj[o].pc # "free"
    BY <1>1 DEF HandOver, TypeOK, ObjectType
  <2>4. KeyInv'
    BY <2>3 DEF KeyInv
  <2>5. QED
    BY <2>2, <2>4
<1>2. CASE KeepForNextCall
  <2>1. obj' \in [Objs -> ObjectType]
    BY <1>2, NoObjectType DEF KeepForNextCall, TypeOK
  <2>2. \A o \in Objs : obj'[o] = NoObject \/ obj'[o] = obj[o]
    BY <1>2 DEF KeepForNextCall
  <2>3. NoObject.pc = "free"
    BY DEF NoObject
  <2>4. QED
    BY <2>1, <2>2, <2>3 DEF KeyInv
<1>3. QED
  BY <1>1, <1>2

LEMMA LeaveType ==
  ASSUME TypeOK, KeyInv, ReadingInv, ReturnBuffered \/ Return \/ Throw
  PROVE  TypeOK' /\ KeyInv' /\ ReadingInv'
<1>1. obj' \in [Objs -> ObjectType] /\ KeyInv'
  BY HeldObjectsType DEF ReturnBuffered, Return, Throw
<1>2. ASSUME ReturnBuffered PROVE TypeOK' /\ ReadingInv'
  BY <1>1, <1>2 DEF ReturnBuffered, TypeOK, ReadingInv
<1>3. ASSUME Return \/ Throw PROVE TypeOK' /\ ReadingInv'
  <2>1. /\ LeaveAcceptRequests
        /\ UNCHANGED <<clientVars, socketVars, idVars, bad, mapVars, setVars,
                       mutexVars, record_status, dangling_read, overload,
                       terminated>>
    BY <1>3 DEF Return, Throw
  <2>2. cache' \in [id : Ids \cup {0}, live : BOOLEAN]
    BY <2>1, NoIteratorType DEF LeaveAcceptRequests
  <2>3. TypeOK'
    BY <1>1, <2>1, <2>2 DEF LeaveAcceptRequests, TypeOK, IPlaces
  <2>4. ReadingInv'
    BY <2>1 DEF LeaveAcceptRequests, ReadingInv, Reading, InCall
  <2>5. QED
    BY <2>3, <2>4
<1>4. QED
  BY <1>1, <1>2, <1>3

LEMMA ConstructRequestType ==
  ASSUME TypeOK, KeyInv, ReadingInv, NEW o \in Objs, NEW id \in Ids,
         ConstructRequest(o, id)
  PROVE  TypeOK' /\ KeyInv' /\ ReadingInv'
<1> DEFINE k == <<cur, id>>
           x == [NoObject EXCEPT !.pc = "held", !.key = k,
                                 !.iid = interface_identifier,
                                 !.close = request_map[k].close]
<1>1. cur \in FDs /\ k \in Keys /\ request_map[k] \in RequestDataType
  BY DEF ConstructRequest, At, ReadingInv, InCall, TypeOK, Keys
<1>2. x \in ObjectType /\ x.key = k
  <2>1. request_map[k].close \in BOOLEAN /\ interface_identifier \in Nat
    BY <1>1 DEF RequestDataType, TypeOK
  <2>2. QED
    BY <1>1, <2>1 DEF NoObject, ObjectType, Places
<1> HIDE DEF x
<1>3. obj' = [obj EXCEPT ![o] = x]
  BY DEF ConstructRequest, x
<1>4. obj' \in [Objs -> ObjectType]
  BY <1>2, <1>3 DEF TypeOK
<1>5. KeyInv'
  BY <1>1, <1>2, <1>3 DEF KeyInv, TypeOK
<1>6. request_map' \in [Keys -> RequestDataType]
  <2>1. request_map' = [request_map EXCEPT ![k].status = "assigned"]
    BY DEF ConstructRequest
  <2>2. [request_map[k] EXCEPT !.status = "assigned"] \in RequestDataType
    BY <1>1, UpdateType DEF StreamTypes
  <2>3. QED
    BY <2>1, <2>2 DEF TypeOK
<1>7. TypeOK'
  BY <1>4, <1>6 DEF ConstructRequest, TypeOK, IPlaces
<1>8. ReadingInv'
  BY DEF ConstructRequest, At, ReadingInv, Reading, InCall
<1>9. QED
  BY <1>5, <1>7, <1>8

LEMMA AcceptRequestsType ==
  ASSUME TypeOK, KeyInv, ReadingInv,
         \/ Select \/ SelectInterrupted \/ CheckAfterSelect
         \/ \E c \in FDs : ReadNextConnection(c) \/ AcceptConnection(c)
         \/ LockToConstruct \/ LeaveLoop \/ RejectConnection \/ AcceptThrows
         \/ ReadThrows \/ \E value \in Overloads : SetOverload(value)
  PROVE  TypeOK' /\ KeyInv' /\ ReadingInv'
<1>1. KeyInv'
  BY DEF KeyInv, Select, SelectInterrupted, CheckAfterSelect, ReadNextConnection,
         AcceptConnection, LockToConstruct, LeaveLoop, RejectConnection, AcceptThrows,
         ReadThrows, SetOverload
<1>2. ASSUME Select PROVE TypeOK' /\ ReadingInv'
  BY <1>2 DEF Select, Readable, TypeOK, IPlaces, ReadingInv, Reading, InCall
<1>3. ASSUME SelectInterrupted \/ CheckAfterSelect PROVE TypeOK' /\ ReadingInv'
  BY <1>3, SMTT(30)
     DEF SelectInterrupted, CheckAfterSelect, At, TypeOK, IPlaces, ReadingInv, Reading,
         InCall
<1>4. ASSUME NEW c \in FDs, ReadNextConnection(c) PROVE TypeOK' /\ ReadingInv'
  <2>1. TypeOK'
    BY <1>4, NoIteratorType, ZenonT(30) DEF ReadNextConnection, TypeOK, IPlaces
  <2>2. inbox'[cur'] \in Seq(Parts) /\ avail' = 0
    BY <1>4 DEF ReadNextConnection, TypeOK
  <2>3. avail' <= Len(inbox'[cur'])
    BY <2>2
  <2>4. ReadingInv'
    BY <1>4, <2>3 DEF ReadNextConnection, First, At, ReadingInv, Reading, InCall
  <2>5. QED
    BY <2>1, <2>4
<1>5. ASSUME NEW c \in FDs, AcceptConnection(c) PROVE TypeOK' /\ ReadingInv'
  <2>1. TypeOK'
    BY <1>5 DEF AcceptConnection, TypeOK
  <2>2. ReadingInv'
    BY <1>5 DEF AcceptConnection, At, ReadingInv, Reading, InCall
  <2>3. QED
    BY <2>1, <2>2
<1>6. ASSUME LockToConstruct PROVE TypeOK' /\ ReadingInv'
  BY <1>6 DEF LockToConstruct, At, TypeOK, IPlaces, ReadingInv, Reading, InCall
<1>7. ASSUME LeaveLoop \/ RejectConnection \/ AcceptThrows
      PROVE  TypeOK' /\ ReadingInv'
  <2>1. CASE LeaveLoop \/ AcceptThrows
    BY <2>1, SMTT(30)
       DEF LeaveLoop, AcceptThrows, At, TypeOK, IPlaces, ReadingInv, Reading, InCall
  <2>2. CASE RejectConnection
    BY <2>2 DEF RejectConnection, TypeOK, ReadingInv
  <2>3. QED
    BY <1>7, <2>1, <2>2
<1>8. ASSUME ReadThrows PROVE TypeOK' /\ ReadingInv'
  BY <1>8 DEF ReadThrows, At, TypeOK, IPlaces, ReadingInv, Reading, InCall
<1>9. ASSUME NEW value \in Overloads, SetOverload(value)
      PROVE  TypeOK' /\ ReadingInv'
  <2>1. value \in BOOLEAN
    BY ConstantsAssumption
  <2>2. QED
    BY <1>9, <2>1 DEF SetOverload, TypeOK, ReadingInv
<1>10. QED
  BY <1>1, <1>2, <1>3, <1>4, <1>5, <1>6, <1>7, <1>8, <1>9

-----------------------------------------------------------------------------
(* Clients, and other users of the descriptor table.                       *)

LEMMA EnvironmentType ==
  ASSUME TypeOK, KeyInv, ReadingInv, Environment
  PROVE  TypeOK' /\ KeyInv' /\ ReadingInv'
<1>1. ASSUME ClientConnects
      PROVE  TypeOK' /\ KeyInv' /\ ReadingInv'
  BY <1>1 DEF ClientConnects, environmentFrame, TypeOK, KeyInv, ReadingInv
<1>2. ASSUME NEW c \in FDs, NEW rec \in Records, ClientSends(c, rec)
      PROVE  TypeOK' /\ KeyInv' /\ ReadingInv'
  <2>1. PartsOf(rec) \in Seq(Parts)
    <3>1. rec \in RecordType
      BY ConstantsAssumption
    <3>2. \A part \in {"header", "body"} : [part |-> part, rec |-> rec] \in Parts
      BY <3>1 DEF Parts
    <3>3. QED
      BY <3>2 DEF PartsOf
  <2>2. inbox[c] \in Seq(Parts) /\ inbox' = [inbox EXCEPT ![c] = @ \o PartsOf(rec)]
    BY <1>2 DEF ClientSends, TypeOK
  <2>3. inbox[c] \o PartsOf(rec) \in Seq(Parts)
    BY <2>1, <2>2
  <2>4. Len(inbox[c]) <= Len(inbox[c] \o PartsOf(rec))
    BY <2>1, <2>2
  <2>5. TypeOK'
    BY <1>2, <2>2, <2>3 DEF ClientSends, environmentFrame, TypeOK
  <2>6. ReadingInv'
    <3>1. ASSUME ipc \in Reading PROVE avail <= Len(inbox'[cur])
      <4>1. cur \in FDs /\ inbox[cur] \in Seq(Parts) /\ avail <= Len(inbox[cur])
        BY <3>1, ReadingFacts
      <4>2. inbox'[cur] = IF cur = c THEN inbox[c] \o PartsOf(rec) ELSE inbox[cur]
        BY <2>2, <4>1 DEF TypeOK
      <4>3. Len(inbox[cur]) \in Nat /\ Len(inbox'[cur]) \in Nat
        BY <2>3, <4>1, <4>2
      <4>4. QED
        BY <2>4, <4>1, <4>2, <4>3 DEF TypeOK
    <3>2. QED
      BY <1>2, <3>1 DEF ClientSends, environmentFrame, ReadingInv
  <2>7. KeyInv'
    BY <1>2 DEF ClientSends, environmentFrame, KeyInv
  <2>8. QED
    BY <2>5, <2>6, <2>7
<1>3. ASSUME NEW c \in FDs, ClientCloses(c) \/ ForeignOpen(c)
      PROVE  TypeOK' /\ KeyInv' /\ ReadingInv'
  <2>1. TypeOK'
    BY <1>3 DEF ClientCloses, ForeignOpen, environmentFrame, TypeOK
  <2>2. KeyInv' /\ ReadingInv'
    BY <1>3 DEF ClientCloses, ForeignOpen, environmentFrame, KeyInv, ReadingInv
  <2>3. QED
    BY <2>1, <2>2
<1>4. QED
  BY <1>1, <1>2, <1>3, AcceptRequestsType DEF Environment

-----------------------------------------------------------------------------
TypeInv == TypeOK /\ KeyInv /\ ReadingInv

LEMMA TypeInit == Init => TypeInv
<1> SUFFICES ASSUME Init PROVE TypeInv
  OBVIOUS
<1>1. /\ request_map \in [Keys -> RequestDataType]
      /\ obj \in [Objs -> ObjectType]
      /\ cache \in [id : Ids \cup {0}, live : BOOLEAN]
  BY NewRequestDataType, NoObjectType, NoIteratorType DEF Init
<1>2. record_status \in [FDs -> [rec : RecordType, invalidated : BOOLEAN]]
  BY DEF Init, ClearRecord, NullRecord, RecordType, RecordTypes, Roles
<1>3. inbox \in [FDs -> Seq(Parts)]
  <2>1. <<>> \in Seq(Parts)
    OBVIOUS
  <2>2. QED
    BY <2>1 DEF Init
<1>4. pipe \in 0..PipeCapacity
  BY ConstantsAssumption DEF Init
<1>5. /\ wmutex \in [FDs -> Objs \cup {Nobody, Interface}]
      /\ wbad \in [FDs -> BOOLEAN] /\ torn \in [FDs -> BOOLEAN]
      /\ request_count_map \in [FDs -> Int]
  BY DEF Init
<1>6. TypeOK
  BY <1>1, <1>2, <1>3, <1>4, <1>5 DEF Init, TypeOK, IPlaces
<1>7. KeyInv /\ ReadingInv
  BY DEF Init, NoObject, KeyInv, ReadingInv, Reading, InCall
<1>8. QED
  BY <1>6, <1>7 DEF TypeInv

LEMMA TypeStep == TypeInv /\ [Next]_vars => TypeInv'
<1> SUFFICES ASSUME TypeOK, KeyInv, ReadingInv, [Next]_vars
             PROVE  TypeOK' /\ KeyInv' /\ ReadingInv'
  BY DEF TypeInv
<1>1. CASE InterfaceStep
  BY <1>1, ReadType, AcceptRequestsType, ConstructRequestType, LeaveType,
     DestructorType, DestructorReturnsType DEF InterfaceStep
<1>2. CASE InterfaceCall
  BY <1>2, ConstructType, DestructorType, LeaveType, CleanupType, AcceptRequestsType
     DEF InterfaceCall
<1>3. ASSUME NEW o \in Objs, RequestStep(o) \/ RequestCall(o)
      PROVE  TypeOK' /\ KeyInv' /\ ReadingInv'
  BY <1>3, RequestType
<1>4. CASE Environment
  BY <1>4, EnvironmentType
<1>5. CASE UNCHANGED vars
  BY <1>5 DEF vars, TypeOK, KeyInv, ReadingInv
<1>6. QED
  BY <1>1, <1>2, <1>3, <1>4, <1>5 DEF Next

\* Every variable keeps its type, and no step applies an operator outside of its
\* domain: SocketRead never counts more parts than the client sent, and the
\* self-pipe never holds more than its capacity.
THEOREM TypeCorrect == Spec => []TypeOK
<1>1. TypeInv => TypeOK
  BY DEF TypeInv
<1>2. QED
  BY <1>1, TypeInit, TypeStep, PTL DEF Spec

-----------------------------------------------------------------------------
(* The threads: the mutexes, and what a thread may rely on while it holds  *)
(* one.                                                                    *)

\* The names of threads are different.
LEMMA Threads == /\ Interface # Nobody
                 /\ \A o \in Objs : o # Nobody /\ o # Interface
BY ConstantsAssumption

-----------------------------------------------------------------------------
(* What a step of an application thread does to its object.                *)

LEMMA CompletedEffect ==
  ASSUME TypeOK, NEW o \in Objs, Completed(o)
  PROVE  obj'[o] = NoObject /\ obj'[o].pc = "free"
BY DEF TypeOK, Completed, NoObject

LEMMA GotoEffect ==
  ASSUME TypeOK, NEW o \in Objs, NEW place, Goto(o, place)
  PROVE  obj'[o].pc = place /\ obj'[o].op = obj[o].op
BY DEF TypeOK, ObjectType, Goto

LEMMA LockedEffect ==
  ASSUME TypeOK, NEW o \in Objs, NEW op,
         obj' = [obj EXCEPT ![o] = [@ EXCEPT !.pc = "locked", !.op = op]]
  PROVE  obj'[o].pc = "locked"
BY DEF TypeOK, ObjectType

LEMMA FailedEffect ==
  ASSUME TypeOK, NEW o \in Objs, NEW force,
         obj' = [obj EXCEPT ![o] = [@ EXCEPT !.pc = "failed", !.force = force]]
  PROVE  obj'[o].pc = "failed"
BY DEF TypeOK, ObjectType

LEMMA AbortedEffect ==
  ASSUME TypeOK, NEW o \in Objs, NEW aborted,
         obj' = [obj EXCEPT ![o].aborted = aborted]
  PROVE  obj'[o].pc = obj[o].pc /\ obj'[o].op = obj[o].op
BY DEF TypeOK, ObjectType

\* What a step of the thread of o does to the mutexes, in terms of its places: it
\* waits for a free mutex, for which its interface has to exist, and releases one
\* that it has.
MutexEffect(o) ==
  /\ \/ imutex' = imutex /\ (HoldsInterfaceMutex(o)' <=> HoldsInterfaceMutex(o))
     \/ imutex = Nobody /\ imutex' = o /\ Alive(o)
     \/ /\ HoldsInterfaceMutex(o) /\ imutex' = Nobody
        /\ ~HoldsInterfaceMutex(o)'
  /\ \/ /\ wmutex' = wmutex /\ obj[o].pc # "writing" /\ obj'[o].pc # "writing"
     \/ /\ obj[o].pc = "locked" /\ obj'[o].pc = "writing" /\ wmutex[Fd(o)] = Nobody
        /\ wmutex' = [wmutex EXCEPT ![Fd(o)] = o]
     \/ /\ obj[o].pc = "writing" /\ obj'[o].pc # "writing"
        /\ wmutex' = [wmutex EXCEPT ![Fd(o)] = Nobody]

LEMMA RequestMutexEffect ==
  ASSUME TypeOK, MutexInv, NEW o \in Objs, RequestStep(o) \/ RequestCall(o)
  PROVE  MutexEffect(o)
<1>0. HoldsInterfaceMutex(o) => imutex = o
  BY DEF MutexInv
<1>1. ASSUME NEW op \in {"Write", "Complete"}, CallWrite(o, op)
      PROVE  MutexEffect(o)
  BY <1>1, LockedEffect, CompletedEffect
     DEF CallWrite, PcIs, StateCheckPasses, StateCheckFails, MutexEffect,
         HoldsInterfaceMutex
<1>2. ASSUME AcquireWriteMutex(o) PROVE MutexEffect(o)
  <2>1. obj[o].pc = "locked" /\ wmutex[Fd(o)] = Nobody
    BY <1>2 DEF AcquireWriteMutex, PcIs
  <2>2. CASE wbad[Fd(o)]
    BY <1>2, <2>1, <2>2, CompletedEffect
       DEF AcquireWriteMutex, MutexEffect, HoldsInterfaceMutex
  <2>3. CASE ~wbad[Fd(o)]
    <3>1. /\ Goto(o, "writing") /\ wmutex' = [wmutex EXCEPT ![Fd(o)] = o]
          /\ imutex' = IF obj[o].op = "Write" THEN Nobody ELSE imutex
      BY <1>2, <2>3 DEF AcquireWriteMutex
    <3>2. obj[o].op \in {"Write", "Complete"}
      BY DEF TypeOK, ObjectType
    <3>3. QED
      BY <2>1, <3>1, <3>2, GotoEffect DEF MutexEffect, HoldsInterfaceMutex
  <2>4. QED
    BY <2>2, <2>3
<1>3. ASSUME WriteSucceeds(o) PROVE MutexEffect(o)
  <2>1. CASE obj[o].op = "Write"
    BY <1>3, <2>1, GotoEffect DEF WriteSucceeds, PcIs, MutexEffect, HoldsInterfaceMutex
  <2>2. CASE obj[o].op = "Complete"
    <3>1. obj[o].pc = "writing" /\ imutex = o
      BY <1>0, <1>3, <2>2 DEF WriteSucceeds, PcIs, HoldsInterfaceMutex
    <3>2. /\ wmutex' = [wmutex EXCEPT ![Fd(o)] = Nobody]
          /\ \/ Goto(o, "closing") /\ imutex' = o
             \/ Completed(o) /\ imutex' = Nobody
      BY <1>3, <2>2 DEF WriteSucceeds, RemoveAndSchedule
    <3>3. QED
      BY <2>2, <3>1, <3>2, CompletedEffect, GotoEffect
         DEF MutexEffect, HoldsInterfaceMutex
  <2>3. QED
    BY <1>3, <2>1, <2>2 DEF WriteSucceeds
<1>4. ASSUME NEW partial, WriteFails(o, partial) \/ WriteFindsClosure(o, partial)
      PROVE  MutexEffect(o)
  <2>1. PICK force \in BOOLEAN : obj[o].pc = "writing" /\ AfterFailure(o, force)
    BY <1>4 DEF WriteFails, WriteFindsClosure, PcIs
  <2>2. CASE obj[o].op = "Write"
    BY <2>1, <2>2, FailedEffect DEF AfterFailure, MutexEffect, HoldsInterfaceMutex
  <2>3. CASE obj[o].op = "Complete"
    <3>1. obj[o].pc = "writing" /\ imutex = o
      BY <1>0, <2>1, <2>3 DEF HoldsInterfaceMutex
    <3>2. /\ wmutex' = [wmutex EXCEPT ![Fd(o)] = Nobody]
          /\ \/ Goto(o, "closing") /\ imutex' = o
             \/ Completed(o) /\ imutex' = Nobody
      BY <2>1, <2>3 DEF AfterFailure, RemoveAndSchedule
    <3>3. QED
      BY <2>3, <3>1, <3>2, CompletedEffect, GotoEffect
         DEF MutexEffect, HoldsInterfaceMutex
  <2>4. QED
    BY <2>1, <2>2, <2>3 DEF AfterFailure
<1>5. ASSUME ReportFailure(o) PROVE MutexEffect(o)
  BY <1>5, CompletedEffect, GotoEffect
     DEF ReportFailure, PcIs, RemoveAndSchedule, StateCheckPasses, StateCheckFails,
         MutexEffect, HoldsInterfaceMutex
<1>6. ASSUME ScheduleClosure(o) \/ DestroySchedules(o) PROVE MutexEffect(o)
  BY <1>6, CompletedEffect
     DEF ScheduleClosure, DestroySchedules, PcIs, AddToClosureSet, MutexEffect,
         HoldsInterfaceMutex
<1>7. ASSUME Destroy(o) PROVE MutexEffect(o)
  BY <1>7, CompletedEffect, GotoEffect
     DEF Destroy, PcIs, MutexEffect, HoldsInterfaceMutex
<1>8. ASSUME AbortStatus(o) PROVE MutexEffect(o)
  BY <1>8, CompletedEffect, AbortedEffect
     DEF AbortStatus, PcIs, MutexEffect, HoldsInterfaceMutex
<1>9. QED
  BY <1>1, <1>2, <1>3, <1>4, <1>5, <1>6, <1>7, <1>8 DEF RequestStep, RequestCall

LEMMA RequestMutex ==
  ASSUME TypeOK, KeyInv, ReadingInv, MutexInv, NEW o \in Objs,
         RequestStep(o) \/ RequestCall(o)
  PROVE  MutexInv'
<1>1. /\ MutexEffect(o)
      /\ \A p \in Objs : p # o => obj'[p] = obj[p]
      /\ obj'[o].pc # "free" => obj'[o].key = obj[o].key
  BY RequestMutexEffect, RequestChangesObject, ObjectIdentity
<1>2. UNCHANGED <<ipc, cur, connections, ready>>
  BY RequestKeepsReading DEF requestFrame
<1>3. ASSUME NEW p \in Objs, HoldsInterfaceMutex(p)' PROVE imutex' = p
  <2>1. CASE p = o
    BY <1>1, <1>3, <2>1 DEF MutexEffect, MutexInv
  <2>2. CASE p # o
    <3>1. HoldsInterfaceMutex(p)
      BY <1>1, <1>3, <2>2 DEF HoldsInterfaceMutex
    <3>2. imutex = p
      BY <3>1 DEF MutexInv
    <3>3. QED
      BY <1>1, <2>2, <3>2, Threads DEF MutexEffect, MutexInv
  <2>3. QED
    BY <2>1, <2>2
<1>4. ASSUME NEW c \in FDs, wmutex[c] # Nobody, wmutex[c] # o
      PROVE  wmutex'[c] = wmutex[c]
  BY <1>1, <1>4 DEF MutexEffect, MutexInv, TypeOK
<1>5. ASSUME NEW p \in Objs, obj'[p].pc = "writing" PROVE wmutex'[Fd(p)'] = p
  <2>1. CASE p = o
    <3>1. Fd(o)' = Fd(o) /\ wmutex' = [wmutex EXCEPT ![Fd(o)] = o]
      BY <1>1, <1>5, <2>1 DEF MutexEffect, Fd
    <3>2. obj[o].pc = "locked" /\ Fd(o) \in FDs
      BY <1>1, <1>5, <2>1 DEF MutexEffect, KeyInv, Keys, Fd
    <3>3. QED
      BY <2>1, <3>1, <3>2 DEF TypeOK
  <2>2. CASE p # o
    <3>1. obj[p].pc = "writing" /\ Fd(p)' = Fd(p)
      BY <1>1, <1>5, <2>2 DEF Fd
    <3>2. Fd(p) \in FDs /\ wmutex[Fd(p)] = p
      BY <3>1 DEF KeyInv, MutexInv, Keys, Fd
    <3>3. QED
      BY <1>4, <2>2, <3>1, <3>2, Threads
  <2>3. QED
    BY <2>1, <2>2
<1>6. ASSUME ipc = "sending" PROVE wmutex'[cur] = Interface
  <2>1. cur \in FDs
    BY <1>6, ReadingFacts DEF Reading
  <2>2. QED
    BY <1>4, <1>6, <2>1, Threads DEF MutexInv
<1>7. ASSUME ipc = "dtor_locked"
      PROVE  imutex' = Interface /\ \A c \in connections \ ready : wmutex'[c] = Nobody
  <2>1. imutex = Interface /\ \A c \in connections \ ready : wmutex[c] = Nobody
    BY <1>7 DEF MutexInv
  <2>2. ~HoldsInterfaceMutex(o)
    BY <2>1, Threads DEF MutexInv
  <2>3. imutex' = Interface
    BY <1>1, <2>1, <2>2, Threads DEF MutexEffect
  <2>4. wmutex' = wmutex \/ wmutex' = [wmutex EXCEPT ![Fd(o)] = Nobody]
    BY <1>1, <2>2 DEF MutexEffect, HoldsInterfaceMutex
  <2>5. QED
    BY <2>1, <2>3, <2>4 DEF TypeOK
<1>8. QED
  BY <1>2, <1>3, <1>5, <1>6, <1>7 DEF MutexInv

\* What a step of ReadRecords does to the place of the interface thread and to
\* the mutexes.
ReadMutexEffect ==
  /\ ipc' \in Reading \cup {"loop", "construct", "throw_read"}
  /\ imutex' = imutex \/ imutex \in {Nobody, Interface}
  /\ \/ ipc' # "sending" /\ wmutex' = wmutex
     \/ ipc' = "sending" /\ wmutex[cur] = Nobody
                         /\ wmutex' = [wmutex EXCEPT ![cur] = Interface]
     \/ ipc' # "sending" /\ ipc = "sending"
                         /\ wmutex' = [wmutex EXCEPT ![cur] = Nobody]

LEMMA ReadStepMutexEffect ==
  ASSUME ReadStep
  PROVE  ReadMutexEffect
<1>1. ASSUME \/ \E n \in 0..BufferUnits : SocketRead(n)
             \/ SocketReadEnd \/ SocketReadError \/ ReadRecordsReturns
      PROVE  ReadMutexEffect
  BY <1>1 DEF SocketRead, SocketReadEnd, SocketReadError, ReadRecordsReturns,
              InterfaceCheck, ThrowsFromRead, ReadMutexEffect, Reading
<1>2. ASSUME HeaderLocal \/ HeaderChecked \/ BodyKept \/ BodyAppended
      PROVE  ReadMutexEffect
  BY <1>2 DEF HeaderLocal, HeaderChecked, BodyKept, BodyAppended, AfterHeader,
              InterfaceCheck, ThrowsFromRead, ReadMutexEffect, Reading
<1>3. ASSUME \/ CompleteIgnored \/ CompleteManagement \/ CompleteBegin \/ AddRequest
             \/ RejectMalformed
      PROVE  ReadMutexEffect
  BY <1>3 DEF CompleteIgnored, CompleteManagement, CompleteBegin, AddRequest,
              RejectMalformed, ProcessNext, completeFrame, InterfaceCheck,
              ThrowsFromRead, ReadMutexEffect, Reading
<1>4. ASSUME CompleteAbort PROVE ReadMutexEffect
  BY <1>4 DEF CompleteAbort, AbortThrough, ProcessNext, completeFrame, InterfaceCheck,
              ThrowsFromRead, ReadMutexEffect, Reading
<1>5. ASSUME CompleteStreamEnd PROVE ReadMutexEffect
  BY <1>5 DEF CompleteStreamEnd, ProcessNext, completeFrame, InterfaceCheck,
              ThrowsFromRead, ReadMutexEffect, Reading
<1>6. ASSUME \/ SendAcquires \/ SendSucceeds
             \/ \E partial \in BOOLEAN, place \in {"send_failed", "send_threw"} :
                  SendFails(partial, place)
             \/ \E partial \in BOOLEAN : SendFindsClosure(partial)
      PROVE  ReadMutexEffect
  BY <1>6 DEF SendAcquires, SendSucceeds, SendFails, SendFindsClosure, At,
              ReadMutexEffect, Reading
<1>7. ASSUME SendLocksInterface \/ SendSchedules PROVE ReadMutexEffect
  BY <1>7 DEF SendLocksInterface, SendSchedules, At, ReadMutexEffect, Reading
<1>8. QED
  BY <1>1, <1>2, <1>3, <1>4, <1>5, <1>6, <1>7 DEF ReadStep

\* The interface thread in ReadRecords.
LEMMA ReadMutex ==
  ASSUME TypeOK, KeyInv, ReadingInv, MutexInv, ReadStep
  PROVE  MutexInv'
<1>1. /\ ipc \in Reading /\ cur \in FDs
      /\ UNCHANGED <<obj, cur, connections, ready>>
  BY ReadStepFrame, ReadStepPlace, ReadingFacts DEF readFrame
<1>2. ReadMutexEffect
  BY ReadStepMutexEffect
<1>3. ASSUME NEW o \in Objs, HoldsInterfaceMutex(o)' PROVE imutex' = o
  <2>1. HoldsInterfaceMutex(o)
    BY <1>1, <1>3 DEF HoldsInterfaceMutex
  <2>2. imutex = o
    BY <2>1 DEF MutexInv
  <2>3. QED
    BY <1>2, <2>2, Threads DEF ReadMutexEffect
<1>4. ASSUME NEW o \in Objs, obj'[o].pc = "writing" PROVE wmutex'[Fd(o)'] = o
  <2>1. Fd(o)' = Fd(o) /\ Fd(o) \in FDs /\ wmutex[Fd(o)] = o
    BY <1>1, <1>4 DEF KeyInv, MutexInv, Keys, Fd
  <2>2. cur # Fd(o) \/ (wmutex[cur] # Nobody /\ ipc # "sending")
    BY <2>1, Threads DEF MutexInv
  <2>3. QED
    BY <1>1, <1>2, <2>1, <2>2 DEF ReadMutexEffect, TypeOK
<1>5. ipc' = "sending" => wmutex'[cur'] = Interface
  BY <1>1, <1>2 DEF ReadMutexEffect, TypeOK
<1>6. ipc' # "dtor_locked"
  BY <1>2 DEF ReadMutexEffect, Reading
<1>7. QED
  BY <1>3, <1>4, <1>5, <1>6 DEF MutexInv

\* The interface thread elsewhere, the clients and the kernel.
OtherStep ==
  \/ Select \/ CheckAfterSelect \/ \E c \in FDs : ReadNextConnection(c)
  \/ LockToConstruct \/ \E o \in Objs, id \in Ids : ConstructRequest(o, id)
  \/ LeaveLoop \/ \E c \in FDs : AcceptConnection(c)
  \/ RejectConnection \/ AcceptThrows \/ Return \/ ReadThrows \/ Throw
  \/ DestructorLocks \/ \E c \in FDs : DestructorCloses(c)
  \/ DestructorReturns \/ InterfaceCall \/ Environment

LEMMA NextCases ==
  ASSUME Next
  PROVE  ReadStep \/ OtherStep \/ \E o \in Objs : RequestStep(o) \/ RequestCall(o)
BY DEF Next, InterfaceStep, OtherStep
\* The other steps create, hand over and destroy objects.
LEMMA OtherObjectsCases ==
  ASSUME OtherStep
  PROVE  \/ obj' = obj \/ HandOver \/ KeepForNextCall \/ DestructorReturns
         \/ \E o \in Objs, id \in Ids : ConstructRequest(o, id)
BY DEF OtherStep, Select, CheckAfterSelect, ReadNextConnection, LockToConstruct,
       LeaveLoop, AcceptConnection, RejectConnection, AcceptThrows, Return,
       ReadThrows, Throw, DestructorLocks, DestructorCloses, InterfaceCall,
       Construct, DestructorClosesDummies, ReturnBuffered, Cleanup, SetOverload,
       Environment, ClientConnects, ClientSends, ClientCloses, ForeignOpen,
       SelectInterrupted, environmentFrame

\* The only object that has another identity afterwards is the one constructed.
LEMMA OtherObjectIdentity ==
  ASSUME TypeOK, OtherStep, NEW o \in Objs, obj'[o].pc # "free",
         \A id \in Ids : ~ConstructRequest(o, id)
  PROVE  \/ obj'[o] = obj[o]
         \/ /\ obj[o].pc = "held" /\ obj'[o].pc = "ready"
            /\ obj'[o].key = obj[o].key /\ obj'[o].iid = obj[o].iid
<1>1. CASE obj' = obj
  BY <1>1
<1>2. CASE HandOver
  <2>1. obj[o].pc = "held" => /\ obj'[o].pc = "ready"
                              /\ obj'[o].key = obj[o].key /\ obj'[o].iid = obj[o].iid
    BY <1>2 DEF HandOver, TypeOK, ObjectType
  <2>2. QED
    BY <1>2, <2>1 DEF HandOver
<1>3. CASE KeepForNextCall \/ DestructorReturns
  <2>1. obj'[o] = NoObject \/ obj'[o] = obj[o]
    BY <1>3 DEF KeepForNextCall, DestructorReturns
  <2>2. QED
    BY <2>1 DEF NoObject
<1>4. ASSUME NEW p \in Objs, NEW id \in Ids, ConstructRequest(p, id)
      PROVE  obj'[o] = obj[o]
  BY <1>4 DEF ConstructRequest, TypeOK
<1>5. QED
  BY <1>1, <1>2, <1>3, <1>4, OtherObjectsCases

\* The object that is constructed.
LEMMA ConstructedObject ==
  ASSUME TypeOK, NEW o \in Objs, NEW id \in Ids, ConstructRequest(o, id)
  PROVE  /\ obj[o].pc = "free" /\ obj'[o].pc = "held"
         /\ obj'[o].key = <<cur, id>> /\ obj'[o].iid = interface_identifier
BY DEF ConstructRequest, FreeObjects, NoObject, TypeOK

\* The places of an object during a call.
Calling == {"locked", "writing", "failed", "closing", "dtor"}

LEMMA OtherObjects ==
  ASSUME TypeOK, OtherStep, NEW o \in Objs, obj'[o].pc \in Calling
  PROVE  obj'[o] = obj[o]
BY OtherObjectIdentity, ConstructedObject DEF Calling

OtherMutexEffect ==
  /\ wmutex' = wmutex
  /\ imutex' = imutex \/ imutex \in {Nobody, Interface}
  /\ ipc' = "sending" => ipc = "sending" /\ cur' = cur
  /\ ipc' = "dtor_locked" =>
       /\ imutex' = Interface
       /\ \A c \in connections' \ ready' :
            /\ c \in connections
            /\ (c \notin ready /\ ipc = "dtor_locked") \/ wmutex[c] = Nobody

LEMMA OtherStepMutexEffect ==
  ASSUME MutexInv, OtherStep
  PROVE  OtherMutexEffect
<1>1. ASSUME \/ Select \/ CheckAfterSelect \/ \E c \in FDs : ReadNextConnection(c)
             \/ LeaveLoop \/ AcceptThrows \/ Return \/ ReadThrows \/ Throw
             \/ Construct \/ DestructorClosesDummies \/ SelectInterrupted
             \/ ReturnBuffered
      PROVE  OtherMutexEffect
  BY <1>1 DEF Select, CheckAfterSelect, ReadNextConnection, LeaveLoop, AcceptThrows,
              Return, ReadThrows, Throw, Construct, DestructorClosesDummies,
              SelectInterrupted, ReturnBuffered, LeaveAcceptRequests, At,
              OtherMutexEffect
<1>2. ASSUME \/ LockToConstruct \/ \E o \in Objs, id \in Ids : ConstructRequest(o, id)
             \/ Cleanup \/ \E c \in FDs : AcceptConnection(c)
             \/ RejectConnection
      PROVE  OtherMutexEffect
  BY <1>2 DEF LockToConstruct, ConstructRequest, Cleanup, CleanDescriptors,
              AcceptConnection, RejectConnection, At, OtherMutexEffect
<1>3. ASSUME DestructorLocks PROVE OtherMutexEffect
  BY <1>3 DEF DestructorLocks, SocketsToClose, OtherMutexEffect
<1>4. ASSUME NEW c \in FDs, DestructorCloses(c) PROVE OtherMutexEffect
  BY <1>4 DEF DestructorCloses, At, MutexInv, OtherMutexEffect
<1>5. ASSUME DestructorReturns PROVE OtherMutexEffect
  BY <1>5 DEF DestructorReturns, At, MutexInv, OtherMutexEffect
<1>6. ASSUME ClientConnects \/ \E value \in Overloads : SetOverload(value)
      PROVE  OtherMutexEffect
  BY <1>6 DEF ClientConnects, SetOverload, environmentFrame, MutexInv, OtherMutexEffect
<1>7. ASSUME NEW c \in FDs,
             (\E rec \in Records : ClientSends(c, rec)) \/ ClientCloses(c) \/ ForeignOpen(c)
      PROVE  OtherMutexEffect
  BY <1>7 DEF ClientSends, ClientCloses, ForeignOpen, environmentFrame, MutexInv,
              OtherMutexEffect
<1>8. CASE InterfaceCall
  BY <1>1, <1>2, <1>6, <1>8 DEF InterfaceCall
<1>9. CASE Environment
  BY <1>1, <1>6, <1>7, <1>9 DEF Environment
<1>10. QED
  BY <1>1, <1>2, <1>3, <1>4, <1>5, <1>8, <1>9 DEF OtherStep

LEMMA OtherMutex ==
  ASSUME TypeOK, MutexInv, OtherStep
  PROVE  MutexInv'
<1>1. OtherMutexEffect
  BY OtherStepMutexEffect
<1>2. ASSUME NEW o \in Objs, HoldsInterfaceMutex(o)' PROVE imutex' = o
  <2>1. obj'[o] = obj[o]
    BY <1>2, OtherObjects DEF HoldsInterfaceMutex, Calling
  <2>2. imutex = o
    BY <1>2, <2>1 DEF HoldsInterfaceMutex, MutexInv
  <2>3. QED
    BY <1>1, <2>2, Threads DEF OtherMutexEffect
<1>3. ASSUME NEW o \in Objs, obj'[o].pc = "writing" PROVE wmutex'[Fd(o)'] = o
  BY <1>1, <1>3, OtherObjects DEF Calling, Fd, MutexInv, OtherMutexEffect
<1>4. ipc' = "sending" => wmutex'[cur'] = Interface
  BY <1>1 DEF MutexInv, OtherMutexEffect
<1>5. ipc' = "dtor_locked" =>
        imutex' = Interface /\ \A c \in connections' \ ready' : wmutex'[c] = Nobody
  BY <1>1 DEF MutexInv, OtherMutexEffect
<1>6. QED
  BY <1>2, <1>3, <1>4, <1>5 DEF MutexInv

-----------------------------------------------------------------------------
(* The interface identifier.                                               *)

LEMMA IdentifierStep ==
  ASSUME TypeInv, IdentifierInv, Next
  PROVE  IdentifierInv'
<1> USE DEF TypeInv
<1>1. CASE ReadStep
  <2>1. UNCHANGED <<interface_identifier, obj>> /\ ipc # "none" /\ ipc' # "none"
    BY <1>1, ReadStepFrame, ReadStepPlace, ReadStepMutexEffect
       DEF readFrame, Reading, ReadMutexEffect
  <2>2. QED
    BY <2>1 DEF IdentifierInv
<1>2. ASSUME NEW o \in Objs, RequestStep(o) \/ RequestCall(o)
      PROVE  IdentifierInv'
  <2>1. UNCHANGED <<interface_identifier, ipc>>
    BY <1>2, RequestKeepsReading DEF requestFrame
  <2>2. \A p \in Objs : obj'[p].pc # "free" =>
                         obj[p].pc # "free" /\ obj'[p].iid = obj[p].iid
    BY <1>2, RequestChangesObject, ObjectIdentity
  <2>3. QED
    BY <2>1, <2>2 DEF IdentifierInv
<1>3. CASE OtherStep
  <2>1. \/ Construct \/ DestructorReturns
        \/ /\ interface_identifier' = interface_identifier
           /\ ipc' = "none" <=> ipc = "none"
    BY <1>3 DEF OtherStep, Select, CheckAfterSelect, ReadNextConnection,
         LockToConstruct, ConstructRequest, LeaveLoop, AcceptConnection,
         RejectConnection, AcceptThrows, Return, ReadThrows, Throw,
         LeaveAcceptRequests, DestructorLocks, DestructorCloses, InterfaceCall,
         DestructorClosesDummies, ReturnBuffered, Cleanup, SetOverload, Environment,
         ClientConnects, ClientSends, ClientCloses, ForeignOpen, SelectInterrupted,
         environmentFrame, At
  <2>2. ipc' = "none" <=> interface_identifier' = 0
    <3>1. CASE Construct
      <4>1. NextIdentifier # 0
        BY DEF NextIdentifier, TypeOK
      <4>2. QED
        BY <3>1, <4>1 DEF Construct
    <3>2. CASE DestructorReturns
      BY <3>2 DEF DestructorReturns
    <3>3. QED
      BY <2>1, <3>1, <3>2 DEF IdentifierInv
  <2>3. ASSUME NEW o \in Objs, obj'[o].pc # "free" PROVE obj'[o].iid # 0
    <3>1. CASE \E id \in Ids : ConstructRequest(o, id)
      <4>1. interface_identifier # 0
        BY <3>1 DEF ConstructRequest, At, IdentifierInv
      <4>2. QED
        BY <3>1, <4>1, ConstructedObject
    <3>2. CASE \A id \in Ids : ~ConstructRequest(o, id)
      BY <1>3, <2>3, <3>2, OtherObjectIdentity DEF IdentifierInv
    <3>3. QED
      BY <3>1, <3>2
  <2>4. QED
    BY <2>2, <2>3 DEF IdentifierInv
<1>4. QED
  BY <1>1, <1>2, <1>3, NextCases

-----------------------------------------------------------------------------
(* The base of the invariant.                                              *)

\* The parts of the invariant that need no knowledge of request_map_.
BaseInv == TypeInv /\ MutexInv /\ IdentifierInv

LEMMA BaseFacts ==
  ASSUME IndInv
  PROVE  /\ TypeOK /\ KeyInv /\ ReadingInv /\ TypeInv /\ BaseInv
         /\ IteratorInv /\ MutexInv /\ IdentifierInv /\ ThreadInv /\ DescriptorInv
BY DEF IndInv, BaseInv, TypeInv

LEMMA BaseStep ==
  ASSUME BaseInv, Next
  PROVE  BaseInv'
<1>1. TypeOK /\ KeyInv /\ ReadingInv /\ TypeInv'
  BY TypeStep DEF BaseInv, TypeInv
<1>2. MutexInv'
  BY <1>1, NextCases, ReadMutex, OtherMutex, RequestMutex DEF BaseInv
<1>3. IdentifierInv'
  BY IdentifierStep DEF BaseInv
<1>4. QED
  BY <1>1, <1>2, <1>3 DEF BaseInv

-----------------------------------------------------------------------------
(* Application threads.  A thread enters a call, or removes a request,     *)
(* only after it found that its interface and its connection exist.        *)

InCallPlaces == {"locked", "writing", "closing", "dtor"}

LEMMA CallEntry ==
  ASSUME TypeOK, NEW o \in Objs, RequestStep(o) \/ RequestCall(o),
         obj'[o].pc \in InCallPlaces, obj[o].pc \notin InCallPlaces
  PROVE  /\ obj[o].pc \in {"ready", "failed"} /\ Alive(o)
         /\ ~request_map[obj[o].key].closed
<1>1. ASSUME NEW op \in {"Write", "Complete"}, CallWrite(o, op), StateCheckFails(o)
      PROVE  FALSE
  BY <1>1, CompletedEffect DEF StateCheckFails, InCallPlaces
<1>2. ASSUME NEW op \in {"Write", "Complete"}, CallWrite(o, op)
      PROVE  obj[o].pc = "ready" /\ StateCheckPasses(o)
  BY <1>1, <1>2 DEF CallWrite, PcIs
<1>3. ASSUME ReportFailure(o)
      PROVE  obj[o].pc = "failed" /\ StateCheckPasses(o)
  BY <1>3, CompletedEffect DEF ReportFailure, PcIs, StateCheckFails, InCallPlaces
<1>4. ASSUME Destroy(o)
      PROVE  obj[o].pc = "ready" /\ Alive(o) /\ ~request_map[obj[o].key].closed
  BY <1>4, CompletedEffect DEF Destroy, PcIs, InCallPlaces
<1>5. ASSUME AbortStatus(o) PROVE FALSE
  BY <1>5, CompletedEffect, AbortedEffect DEF AbortStatus, PcIs, InCallPlaces
<1>6. ~AcquireWriteMutex(o) /\ ~WriteSucceeds(o) /\ ~ScheduleClosure(o)
  BY DEF AcquireWriteMutex, WriteSucceeds, ScheduleClosure, PcIs, InCallPlaces
<1>7. /\ ~DestroySchedules(o)
      /\ \A partial \in BOOLEAN : ~WriteFails(o, partial) /\ ~WriteFindsClosure(o, partial)
  BY DEF WriteFails, WriteFindsClosure, DestroySchedules, PcIs, InCallPlaces
<1>8. QED
  BY <1>2, <1>3, <1>4, <1>5, <1>6, <1>7
     DEF RequestStep, RequestCall, StateCheckPasses, Usable

\* A request is removed when, and only when, its object goes on without it, and only
\* from an interface that was found to be sound.
KeptOrRemoved(o) ==
  \/ KeepRequests /\ (o \in Live => bad \/ obj'[o].pc \notin {"free", "closing"})
  \/ /\ RemoveRequest(obj[o].key) /\ o \in Live /\ (bad => HoldsInterfaceMutex(o))
     /\ obj'[o].pc \in {"free", "closing"}

\* What a step of the thread of o does to request_map_ and to the closure set.
RequestMapEffect(o) ==
  /\ KeptOrRemoved(o)
  /\ application_closure_request_set' \in {application_closure_request_set,
                                           application_closure_request_set \cup {Fd(o)}}
  /\ application_closure_request_set' # application_closure_request_set =>
       obj[o].pc \in {"closing", "dtor"}

LEMMA RequestStepMapEffect ==
  ASSUME TypeOK, KeyInv, ThreadInv, NEW o \in Objs, RequestStep(o) \/ RequestCall(o)
  PROVE  RequestMapEffect(o)
<1>1. \A i \in {"ready", "failed", "locked", "writing", "dtor"} :
        obj[o].pc = i /\ obj[o].iid = interface_identifier => o \in Live
  BY DEF Live
<1>2. obj[o].pc \in {"locked", "writing", "dtor"} => o \in Live
  BY DEF Live, ThreadInv
<1>3. ASSUME obj[o].pc \in {"ready", "failed"}, StateCheckFails(o)
      PROVE  KeptOrRemoved(o)
  BY <1>1, <1>3, CompletedEffect DEF StateCheckFails, Alive, Live, KeptOrRemoved
<1>4. ASSUME NEW op \in {"Write", "Complete"}, CallWrite(o, op)
      PROVE  RequestMapEffect(o)
  <2>1. CASE StateCheckFails(o)
    BY <1>3, <1>4, <2>1 DEF CallWrite, PcIs, RequestMapEffect
  <2>2. CASE ~StateCheckFails(o)
    BY <1>4, <2>2, LockedEffect DEF CallWrite, KeptOrRemoved, RequestMapEffect
  <2>3. QED
    BY <2>1, <2>2
<1>5. ASSUME AcquireWriteMutex(o) PROVE RequestMapEffect(o)
  BY <1>2, <1>5, CompletedEffect, GotoEffect
     DEF AcquireWriteMutex, PcIs, HoldsInterfaceMutex, KeptOrRemoved, RequestMapEffect
<1>6. ASSUME NEW schedule, RemoveAndSchedule(o, schedule)
      PROVE  RemoveRequest(obj[o].key) /\ obj'[o].pc \in {"free", "closing"}
  BY <1>6, CompletedEffect, GotoEffect DEF RemoveAndSchedule
<1>7. ASSUME WriteSucceeds(o) PROVE RequestMapEffect(o)
  BY <1>2, <1>6, <1>7, GotoEffect
     DEF WriteSucceeds, PcIs, HoldsInterfaceMutex, KeptOrRemoved, RequestMapEffect
<1>8. ASSUME NEW partial, WriteFails(o, partial) \/ WriteFindsClosure(o, partial)
      PROVE  RequestMapEffect(o)
  <2>1. PICK force : AfterFailure(o, force) /\ obj[o].pc = "writing"
    BY <1>8 DEF WriteFails, WriteFindsClosure, PcIs
  <2>2. KeptOrRemoved(o)
    BY <1>2, <1>6, <2>1, FailedEffect
       DEF AfterFailure, HoldsInterfaceMutex, KeptOrRemoved
  <2>3. QED
    BY <1>8, <2>2 DEF WriteFails, WriteFindsClosure, RequestMapEffect
<1>9. ASSUME ReportFailure(o) PROVE RequestMapEffect(o)
  <2>1. CASE StateCheckFails(o)
    BY <1>3, <1>9, <2>1 DEF ReportFailure, PcIs, RequestMapEffect
  <2>2. CASE ~StateCheckFails(o)
    BY <1>1, <1>6, <1>9, <2>2
       DEF ReportFailure, PcIs, StateCheckPasses, Alive, KeptOrRemoved, RequestMapEffect
  <2>3. QED
    BY <2>1, <2>2
<1>10. ASSUME ScheduleClosure(o) PROVE RequestMapEffect(o)
  BY <1>10 DEF ScheduleClosure, PcIs, AddToClosureSet, Live, KeptOrRemoved,
               RequestMapEffect
<1>11. ASSUME DestroySchedules(o) PROVE RequestMapEffect(o)
  BY <1>2, <1>11, CompletedEffect
     DEF DestroySchedules, PcIs, AddToClosureSet, HoldsInterfaceMutex, KeptOrRemoved,
         RequestMapEffect
<1>12. ASSUME Destroy(o) PROVE RequestMapEffect(o)
  BY <1>1, <1>12, CompletedEffect, GotoEffect
     DEF Destroy, PcIs, Alive, Live, KeptOrRemoved, RequestMapEffect
<1>13. ASSUME AbortStatus(o) PROVE RequestMapEffect(o)
  BY <1>1, <1>13, CompletedEffect, AbortedEffect
     DEF AbortStatus, PcIs, Alive, Live, KeptOrRemoved, RequestMapEffect
<1>14. QED
  BY <1>4, <1>5, <1>7, <1>8, <1>9, <1>10, <1>11, <1>12, <1>13
     DEF RequestStep, RequestCall

LEMMA RequestThread ==
  ASSUME IndInv, NEW o \in Objs, RequestStep(o) \/ RequestCall(o)
  PROVE  ThreadInv'
<1>1. TypeOK /\ KeyInv /\ ThreadInv
  BY BaseFacts
<1>2. UNCHANGED <<interface_identifier, connections>>
  BY RequestKeepsReading DEF requestFrame
<1>3. /\ \A p \in Objs : p # o => obj'[p] = obj[p]
      /\ obj'[o].pc # "free" => obj'[o].key = obj[o].key /\ obj'[o].iid = obj[o].iid
  BY <1>1, RequestChangesObject, ObjectIdentity
<1>4. ASSUME obj'[o].pc \in InCallPlaces
      PROVE  obj[o].iid = interface_identifier /\ Fd(o) \in connections
  <2>1. CASE obj[o].pc \in InCallPlaces
    BY <1>1, <2>1 DEF ThreadInv, InCallPlaces
  <2>2. CASE obj[o].pc \notin InCallPlaces
    <3>1. /\ obj[o].pc \in {"ready", "failed"} /\ Alive(o)
          /\ ~request_map[obj[o].key].closed
      BY <1>1, <1>4, <2>2, CallEntry
    <3>2. o \in Live /\ LiveInv
      BY <3>1 DEF Live, Alive, IndInv, RequestInv
    <3>3. QED
      BY <3>1, <3>2 DEF LiveInv, Live
  <2>3. QED
    BY <2>1, <2>2
<1>5. ASSUME NEW p \in Objs, obj'[p].pc \in InCallPlaces
      PROVE  obj'[p].iid = interface_identifier' /\ Fd(p)' \in connections'
  <2>1. CASE p = o
    BY <1>2, <1>3, <1>4, <1>5, <2>1 DEF Fd, InCallPlaces
  <2>2. CASE p # o
    BY <1>1, <1>2, <1>3, <1>5, <2>2 DEF Fd, ThreadInv, InCallPlaces
  <2>3. QED
    BY <2>1, <2>2
<1>6. QED
  BY <1>5 DEF ThreadInv, InCallPlaces

\* What RemoveRequest does, unless it finds that the interface is corrupt.
LEMMA RemoveEffect ==
  ASSUME TypeOK, NEW k \in Keys, RemoveRequest(k), ~bad'
  PROVE  /\ \A j \in Keys : request_map'[j] = IF j = k THEN NoRequest ELSE request_map[j]
         /\ cache'.live => cache.live /\ ~(cur = k[1] /\ cache.id = k[2])
         /\ cache'.id = cache.id
<1>1. request_map' = [request_map EXCEPT ![k] = NoRequest]
  BY DEF RemoveRequest, EraseRequest
<1>2. \A j \in Keys : request_map'[j] = IF j = k THEN NoRequest ELSE request_map[j]
  BY <1>1 DEF TypeOK
<1>3. /\ cache'.live => cache.live /\ ~(cur = k[1] /\ cache.id = k[2])
      /\ cache'.id = cache.id
  BY DEF RemoveRequest, TypeOK
<1>4. QED
  BY <1>2, <1>3

LEMMA NoRequestFacts ==
  NoRequest.status = "absent" /\ ~NoRequest.closed
BY DEF NoRequest, NewRequestData

LEMMA RequestRequests ==
  ASSUME IndInv, NEW o \in Objs, RequestStep(o) \/ RequestCall(o), ~bad'
  PROVE  RequestInv'
<1>1. /\ TypeOK /\ KeyInv /\ ReadingInv /\ IteratorInv /\ ThreadInv
      /\ RequestMapEffect(o)
  BY BaseFacts, RequestStepMapEffect
<1>2. ~bad /\ RequestInv
  BY <1>1 DEF RequestMapEffect, KeptOrRemoved, KeepRequests, RemoveRequest, EraseRequest, IndInv
<1>3. UNCHANGED <<interface_identifier, connections, dummy_descriptor_set, ipc, cur,
                  found, record_status>>
  BY RequestKeepsReading DEF requestFrame
<1>4. /\ \A p \in Objs : p # o => obj'[p] = obj[p]
      /\ \/ obj'[o].pc = "free"
         \/ obj'[o].key = obj[o].key /\ obj'[o].iid = obj[o].iid /\ obj[o].pc # "free"
  BY <1>1, RequestChangesObject, ObjectIdentity
<1>5. obj[o].pc = "closing" => obj'[o].pc = "free"
  BY <1>1, CompletedEffect
     DEF RequestStep, RequestCall, CallWrite, AcquireWriteMutex, WriteSucceeds,
         WriteFails, WriteFindsClosure, ReportFailure, ScheduleClosure, Destroy,
         DestroySchedules, AbortStatus, PcIs, AddToClosureSet
<1>6. /\ Live' \subseteq Live
      /\ \A p \in Live' : obj'[p].key = obj[p].key
  BY <1>3, <1>4, <1>5 DEF Live
<1>7. \A p \in Live : p \in Objs /\ obj[p].key \in Keys
  BY <1>1 DEF Live, KeyInv
<1>8. ClosureInv'
  BY <1>1, <1>2, <1>3 DEF RequestMapEffect, RequestInv, ClosureInv, ThreadInv
<1>9. CASE KeepRequests
  <2>1. UNCHANGED <<request_map, cache>>
    BY <1>9 DEF KeepRequests
  <2>2. LiveInv'
    BY <1>2, <1>3, <1>6, <2>1 DEF RequestInv, LiveInv, Fd
  <2>3. /\ AssignedInv' /\ FoundInv' /\ CacheInv' /\ RecordsInv' /\ RecordInv'
    BY <1>2, <1>3, <2>1
       DEF RequestInv, AssignedInv, AllComplete, FoundInv, CacheInv, RecordsInv,
           RecordInv, ValidStream, Rec
  <2>4. QED
    BY <1>8, <2>2, <2>3 DEF RequestInv
<1>10. CASE RemoveRequest(obj[o].key) /\ o \in Live /\ obj'[o].pc \in {"free", "closing"}
  <2> DEFINE k == obj[o].key
  <2>1. /\ k \in Keys /\ request_map[k].status = "assigned"
        /\ \A p \in Live : p # o => obj[p].key # k
    BY <1>2, <1>7, <1>10 DEF RequestInv, LiveInv
  <2>2. /\ \A j \in Keys : request_map'[j] = IF j = k THEN NoRequest ELSE request_map[j]
        /\ cache'.live => cache.live /\ ~(cur = k[1] /\ cache.id = k[2])
        /\ cache'.id = cache.id
    BY <1>1, <1>10, <2>1, RemoveEffect
  <2> HIDE DEF k
  <2>3. o \notin Live'
    BY <1>10 DEF Live
  <2>4. LiveInv'
    <3>1. ASSUME NEW p \in Live'
          PROVE  /\ p \in Live /\ obj'[p].key = obj[p].key
                 /\ request_map'[obj[p].key] = request_map[obj[p].key]
      BY <1>6, <1>7, <2>1, <2>2, <2>3
    <3>2. QED
      BY <1>2, <1>3, <3>1 DEF RequestInv, LiveInv, Fd
  <2>5. AssignedInv'
    BY <1>2, <2>2, NoRequestFacts DEF RequestInv, AssignedInv, AllComplete
  <2>6. \A j \in Keys : request_map[j].status = "pending" => request_map'[j] = request_map[j]
    BY <2>1, <2>2
  <2>7. FoundInv'
    <3>1. \A id \in found : <<cur, id>> \in Keys
      BY <1>1 DEF IteratorInv, Keys, TypeOK
    <3>2. QED
      BY <1>2, <1>3, <2>6, <3>1 DEF RequestInv, FoundInv, AllComplete
  <2>8. CacheInv'
    <3>1. SUFFICES ASSUME cache'.live
                   PROVE  cache'.id \in Ids /\ request_map'[<<cur, cache'.id>>].status # "absent"
      BY <1>3 DEF CacheInv
    <3>2. <<cur, cache.id>> \in Keys /\ <<cur, cache.id>> # k
      BY <1>1, <1>2, <2>2, <3>1 DEF RequestInv, CacheInv, IteratorInv, Keys
    <3>3. QED
      BY <1>2, <2>2, <3>1, <3>2 DEF RequestInv, CacheInv
  <2>9. RecordsInv'
    <3>1. ASSUME NEW c \in FDs, ValidStream(c)
          PROVE  /\ <<c, record_status[c].rec.id>> \in Keys
                 /\ request_map[<<c, record_status[c].rec.id>>].status = "pending"
      BY <1>1, <1>2, <3>1
         DEF RequestInv, RecordsInv, ValidStream, IsStream, Keys, TypeOK, RecordType
    <3>2. QED
      BY <1>2, <1>3, <2>6, <3>1 DEF RequestInv, RecordsInv, ValidStream
  <2>10. RecordInv'
    BY <1>2, <1>3, <2>2 DEF RequestInv, RecordInv, ValidStream, Rec
  <2>11. QED
    BY <1>8, <2>4, <2>5, <2>7, <2>8, <2>9, <2>10 DEF RequestInv
<1>11. QED
  BY <1>1, <1>9, <1>10 DEF RequestMapEffect, KeptOrRemoved

LEMMA RequestDescriptors ==
  ASSUME IndInv, NEW o \in Objs, RequestStep(o) \/ RequestCall(o)
  PROVE  DescriptorInv' /\ IteratorInv'
<1>1. UNCHANGED <<connections, dummy_descriptor_set, ipc, ready, cur, found, kfd>>
  <2>1. UNCHANGED kfd
    BY DEF RequestStep, RequestCall, CallWrite, AcquireWriteMutex, WriteSucceeds,
           WriteFails, WriteFindsClosure, TearRecord, ReportFailure, ScheduleClosure,
           Destroy, DestroySchedules, AbortStatus
  <2>2. QED
    BY <2>1, RequestKeepsReading DEF requestFrame
<1>2. cache'.live => cache.live
  BY BaseFacts, RequestStepMapEffect, ZenonT(30)
     DEF RequestMapEffect, KeptOrRemoved, KeepRequests, RemoveRequest, TypeOK
<1>3. DescriptorInv'
  BY <1>1, BaseFacts DEF DescriptorInv, InDestructor
<1>4. IteratorInv'
  BY <1>1, <1>2, BaseFacts DEF IteratorInv
<1>5. QED
  BY <1>3, <1>4

-----------------------------------------------------------------------------
(* The steps of ReadRecords.  The hard part is RequestInv: what a step     *)
(* finds out about a request in one period of ownership of the interface   *)
(* mutex has to be true in a later one.                                    *)

\* What a step of ReadRecords starts from and leaves alone.
LEMMA ReadBasics ==
  ASSUME IndInv, ReadStep
  PROVE  /\ TypeOK /\ ReadingInv /\ IteratorInv
         /\ ipc \in Reading /\ cur \in FDs /\ cur \in connections
         /\ UNCHANGED <<obj, interface_identifier, connections, dummy_descriptor_set,
                        cur, ready>>
BY BaseFacts, ReadStepFrame, ReadStepPlace, ReadingFacts DEF readFrame

LEMMA ReadKfd ==
  ASSUME ReadStep
  PROVE  UNCHANGED kfd
BY DEF ReadStep, SocketRead, SocketReadEnd, SocketReadError, ReadRecordsReturns,
       HeaderLocal, HeaderChecked, BodyKept, BodyAppended, CompleteIgnored,
       CompleteManagement, CompleteBegin, AddRequest, CompleteAbort,
       CompleteStreamEnd, RejectMalformed, SendAcquires, SendSucceeds, SendFails,
       SendFindsClosure, SendLocksInterface, SendSchedules, InterfaceCheck,
       ThrowsFromRead, completeFrame, sendFrame, TearRecord

\* ReadRecords returns without iterators to nowhere.
LEMMA ReadLeaves ==
  ASSUME ReadStep
  PROVE  /\ ipc' = "loop" => found' = {} /\ ~cache'.live
         /\ ipc' = "construct" => ~cache'.live
<1>1. ASSUME \/ \E n \in 0..BufferUnits : SocketRead(n)
             \/ SocketReadEnd \/ SocketReadError \/ ReadRecordsReturns
      PROVE  /\ ipc' = "loop" => found' = {} /\ ~cache'.live
             /\ ipc' = "construct" => ~cache'.live
  BY <1>1 DEF SocketRead, SocketReadEnd, SocketReadError, ReadRecordsReturns,
              InterfaceCheck, ThrowsFromRead, NoIterator
<1>2. ASSUME \/ HeaderLocal \/ HeaderChecked \/ BodyKept \/ BodyAppended
             \/ CompleteIgnored \/ CompleteManagement \/ CompleteBegin \/ AddRequest
             \/ RejectMalformed
      PROVE  ipc' \notin {"loop", "construct"}
  BY <1>2 DEF HeaderLocal, HeaderChecked, BodyKept, BodyAppended, AfterHeader,
              CompleteIgnored, CompleteManagement, CompleteBegin, AddRequest,
              RejectMalformed, ProcessNext, InterfaceCheck, ThrowsFromRead
<1>3. ASSUME CompleteAbort \/ CompleteStreamEnd
      PROVE  ipc' \notin {"loop", "construct"}
  BY <1>3 DEF CompleteAbort, AbortThrough, CompleteStreamEnd, ProcessNext,
              InterfaceCheck, ThrowsFromRead
<1>4. ASSUME \/ SendAcquires \/ SendSucceeds
             \/ \E partial \in BOOLEAN, place \in {"send_failed", "send_threw"} :
                  SendFails(partial, place)
             \/ \E partial \in BOOLEAN : SendFindsClosure(partial)
             \/ SendLocksInterface \/ SendSchedules
      PROVE  ipc' \notin {"loop", "construct"}
  BY <1>4 DEF SendAcquires, SendSucceeds, SendFails, SendFindsClosure, At,
              SendLocksInterface, SendSchedules
<1>5. QED
  BY <1>1, <1>2, <1>3, <1>4 DEF ReadStep

LEMMA ReadDescriptors ==
  ASSUME IndInv, ReadStep
  PROVE  ThreadInv' /\ DescriptorInv' /\ IteratorInv'
<1>1. /\ TypeOK /\ ReadingInv /\ IteratorInv /\ ipc \in Reading /\ cur \in FDs
      /\ UNCHANGED <<obj, interface_identifier, connections, dummy_descriptor_set,
                     cur, ready, kfd>>
  BY ReadBasics, ReadKfd
<1>2. ipc' \in Reading \cup {"loop", "construct", "throw_read"}
  BY ReadStepMutexEffect DEF ReadMutexEffect
<1>3. ThreadInv'
  BY <1>1, BaseFacts DEF ThreadInv, Fd
<1>4. DescriptorInv'
  BY <1>1, <1>2, BaseFacts DEF DescriptorInv, InDestructor, Reading
<1>5. IteratorInv'
  BY <1>1, <1>2, ReadLeaves DEF IteratorInv, InCall, Reading
<1>6. QED
  BY <1>3, <1>4, <1>5

-----------------------------------------------------------------------------
(* RequestInv.                                                             *)

\* A closure that is scheduled by ReadRecords is that of current_connection.
ScheduleEffect ==
  application_closure_request_set' \in {application_closure_request_set,
                                        application_closure_request_set \cup {cur}}

\* Steps that leave request_map_ alone, and forget rather than learn.
KeepEffect ==
  /\ request_map' = request_map /\ ScheduleEffect
  /\ ipc # "reject" /\ ipc' # "reject"
  /\ ipc' = "add" => Rec'.id # 0
  /\ found' \subseteq found /\ cache' \in {cache, NoIterator}
  /\ \A c \in FDs : record_status'[c] = record_status[c] \/ ~ValidStream(c)'

LEMMA ReadKeeps ==
  ASSUME IndInv, RequestInv, ReadStep, KeepEffect
  PROVE  RequestInv'
<1>1. /\ TypeOK /\ cur \in connections
      /\ UNCHANGED <<obj, interface_identifier, connections, dummy_descriptor_set, cur>>
  BY ReadBasics
<1>2. ClosureInv' /\ AssignedInv'
  BY <1>1 DEF KeepEffect, ScheduleEffect, RequestInv, ClosureInv, AssignedInv, AllComplete
<1>3. LiveInv'
  BY <1>1 DEF KeepEffect, RequestInv, LiveInv, Live, Fd
<1>4. FoundInv' /\ CacheInv'
  BY <1>1 DEF KeepEffect, RequestInv, FoundInv, AllComplete, CacheInv, NoIterator
<1>5. RecordsInv'
  BY <1>1 DEF KeepEffect, RequestInv, RecordsInv, ValidStream
<1>6. RecordInv'
  BY <1>1 DEF KeepEffect, RecordInv
<1>7. QED
  BY <1>2, <1>3, <1>4, <1>5, <1>6 DEF RequestInv

\* Steps that change at most one request of current_connection.
OneRequestEffect(id) ==
  LET k == <<cur, id>>
  IN  /\ ScheduleEffect
      /\ \A j \in Keys : j # k => request_map'[j] = request_map[j]
      /\ IF request_map[k].status = "assigned"
         THEN /\ request_map'[k].status = "assigned"
              /\ request_map'[k].complete = request_map[k].complete
              /\ request_map'[k].closed = request_map[k].closed
         ELSE request_map'[k].status # "assigned" /\ ~request_map'[k].closed
      /\ found' \subseteq found \cup {id}
      /\ id \in found' => /\ request_map'[k].status = "pending"
                          /\ \A s \in StreamTypes : request_map'[k].complete[s]
      /\ cache'.live => /\ cache'.id \in Ids
                        /\ cache'.id = id => request_map'[k].status # "absent"
                        /\ cache'.id # id =>
                             request_map[<<cur, cache'.id>>].status # "absent"
      /\ \A c \in FDs : c # cur => record_status'[c] = record_status[c]
      /\ ValidStream(cur)' =>
           /\ record_status'[cur].rec.id = id
           /\ request_map'[k].status = "pending"
           /\ \/ ~request_map'[k].complete[record_status'[cur].rec.type]
              \/ ipc' = "reject"
      /\ RecordInv'

LEMMA ReadChangesRequest ==
  ASSUME IndInv, RequestInv, ReadStep, NEW id \in Ids, OneRequestEffect(id)
  PROVE  RequestInv'
<1> DEFINE k == <<cur, id>>
<1>1. /\ TypeOK /\ KeyInv /\ IteratorInv /\ cur \in FDs /\ cur \in connections /\ k \in Keys
      /\ UNCHANGED <<obj, interface_identifier, connections, dummy_descriptor_set, cur>>
  BY ReadBasics, BaseFacts DEF Keys
<1>2. \A i \in Ids : <<cur, i>> \in Keys /\ (i # id => <<cur, i>> # k)
  BY <1>1 DEF Keys
<1>3. ClosureInv'
  BY <1>1 DEF OneRequestEffect, ScheduleEffect, RequestInv, ClosureInv
<1>4. \A j \in Keys : IF request_map[j].status = "assigned"
         THEN /\ request_map'[j].status = "assigned"
              /\ request_map'[j].complete = request_map[j].complete
              /\ request_map'[j].closed = request_map[j].closed
         ELSE request_map'[j].status # "assigned" /\ ~request_map'[j].closed
  BY DEF OneRequestEffect, RequestInv, AssignedInv
<1>5. LiveInv'
  <2>1. Live' = Live /\ \A o \in Live : obj[o].key \in Keys
    BY <1>1 DEF Live, KeyInv
  <2>2. QED
    BY <1>1, <1>4, <2>1 DEF RequestInv, LiveInv, Fd
<1>6. AssignedInv'
  BY <1>4 DEF RequestInv, AssignedInv, AllComplete
<1>7. FoundInv'
  <2>1. ASSUME NEW i \in found'
        PROVE  /\ request_map'[<<cur, i>>].status = "pending"
               /\ \A s \in StreamTypes : request_map'[<<cur, i>>].complete[s]
    <3>1. CASE i = id
      BY <2>1, <3>1 DEF OneRequestEffect
    <3>2. CASE i # id
      <4>1. i \in found /\ i \in Ids
        BY <1>1, <2>1, <3>2 DEF OneRequestEffect, TypeOK
      <4>2. request_map'[<<cur, i>>] = request_map[<<cur, i>>]
        BY <1>2, <3>2, <4>1 DEF OneRequestEffect
      <4>3. QED
        BY <4>1, <4>2 DEF RequestInv, FoundInv, AllComplete
    <3>3. QED
      BY <3>1, <3>2
  <2>2. QED
    BY <1>1, <2>1 DEF FoundInv, AllComplete
<1>8. CacheInv'
  BY <1>1, <1>2 DEF CacheInv, OneRequestEffect
<1>9. RecordsInv'
  <2>1. ASSUME NEW c \in FDs, ValidStream(c)', c # cur
        PROVE  LET rec == record_status'[c].rec
               IN  /\ request_map'[<<c, rec.id>>].status = "pending"
                   /\ ~request_map'[<<c, rec.id>>].complete[rec.type]
    <3>1. record_status'[c] = record_status[c] /\ ValidStream(c)
      BY <2>1 DEF OneRequestEffect, ValidStream
    <3>2. <<c, record_status[c].rec.id>> \in Keys
      BY <1>1, <3>1 DEF ValidStream, IsStream, Keys, TypeOK, RecordType
    <3>3. <<c, record_status[c].rec.id>> # k
      BY <2>1
    <3>4. QED
      BY <2>1, <3>1, <3>2, <3>3 DEF OneRequestEffect, RequestInv, RecordsInv
  <2>2. QED
    BY <1>1, <2>1 DEF RecordsInv, OneRequestEffect
<1>10. QED
  BY <1>3, <1>5, <1>6, <1>7, <1>8, <1>9 DEF RequestInv, OneRequestEffect
\* A cleared record, and one with the null request identifier, is no stream record.
LEMMA ClearedRecord ==
  ASSUME TypeOK, cur \in FDs, NEW place, ProcessNext(place), cur' = cur
  PROVE  /\ ~ValidStream(cur)'
         /\ \A c \in FDs : c # cur => record_status'[c] = record_status[c]
BY DEF ProcessNext, TypeOK, ValidStream, IsStream, ClearRecord, NullRecord

LEMMA SetRecordEffect ==
  ASSUME TypeOK, cur \in FDs, NEW rec, NEW invalidated, SetRecord(rec, invalidated)
  PROVE  /\ record_status'[cur] = [rec |-> rec, invalidated |-> invalidated]
         /\ \A c \in FDs : c # cur => record_status'[c] = record_status[c]
BY DEF SetRecord, TypeOK

\* Steps that only read, send or dispatch.
PlainReadStep ==
  \/ \E n \in 0..BufferUnits : SocketRead(n)
  \/ SocketReadEnd \/ SocketReadError \/ ReadRecordsReturns \/ BodyKept
  \/ SendAcquires \/ SendSucceeds
  \/ \E partial \in BOOLEAN, place \in {"send_failed", "send_threw"} :
       SendFails(partial, place)
  \/ \E partial \in BOOLEAN : SendFindsClosure(partial)
  \/ SendLocksInterface \/ SendSchedules

LEMMA PlainReadKeeps ==
  ASSUME ~bad, PlainReadStep
  PROVE  KeepEffect
<1>1. ASSUME \/ \E n \in 0..BufferUnits : SocketRead(n)
             \/ SocketReadEnd \/ SocketReadError \/ ReadRecordsReturns \/ BodyKept
      PROVE  KeepEffect
  BY <1>1 DEF SocketRead, SocketReadEnd, SocketReadError, ReadRecordsReturns, BodyKept,
              InterfaceCheck, ThrowsFromRead, Schedule, At, KeepEffect, ScheduleEffect
<1>2. ASSUME \/ SendAcquires \/ SendSucceeds
             \/ \E partial \in BOOLEAN, place \in {"send_failed", "send_threw"} :
                  SendFails(partial, place)
             \/ \E partial \in BOOLEAN : SendFindsClosure(partial)
      PROVE  KeepEffect
  BY <1>2 DEF SendAcquires, SendSucceeds, SendFails, SendFindsClosure, sendFrame, At,
              KeepEffect, ScheduleEffect
<1>3. ASSUME SendLocksInterface \/ SendSchedules PROVE KeepEffect
  BY <1>3 DEF SendLocksInterface, SendSchedules, Schedule, sendFrame, At,
              KeepEffect, ScheduleEffect
<1>4. QED
  BY <1>1, <1>2, <1>3 DEF PlainReadStep

LEMMA DispatchKeeps ==
  ASSUME IndInv, ReadStep, ~bad,
         HeaderLocal \/ CompleteIgnored \/ CompleteManagement \/ CompleteBegin
  PROVE  KeepEffect
<1>1. TypeOK /\ cur \in FDs /\ cur' = cur
  BY ReadBasics
<1>2. ASSUME HeaderLocal PROVE KeepEffect
  <2>1. \A c \in FDs : record_status'[c] = record_status[c] \/ ~ValidStream(c)'
    <3>1. /\ record_status'[cur] = [rec |-> Part.rec, invalidated |-> Part.rec.id # 0]
          /\ \A c \in FDs : c # cur => record_status'[c] = record_status[c]
      BY <1>1, <1>2, SetRecordEffect DEF HeaderLocal
    <3>2. /\ record_status'[cur].rec = Part.rec
          /\ record_status'[cur].invalidated = (Part.rec.id # 0)
      BY <3>1
    <3>3. ASSUME NEW c \in FDs, c = cur PROVE ~ValidStream(c)'
      BY <3>2, <3>3 DEF ValidStream, IsStream
    <3>4. QED
      BY <3>1, <3>3
  <2>2. QED
    BY <1>2, <2>1 DEF HeaderLocal, AfterHeader, At, KeepEffect, ScheduleEffect
<1>3. ASSUME CompleteIgnored \/ CompleteManagement PROVE KeepEffect
  <2>1. \A c \in FDs : record_status'[c] = record_status[c] \/ ~ValidStream(c)'
    BY <1>1, <1>3, ClearedRecord DEF CompleteIgnored, CompleteManagement
  <2>2. QED
    BY <1>3, <2>1 DEF CompleteIgnored, CompleteManagement, ProcessNext, At, KeepEffect,
                      ScheduleEffect
<1>4. ASSUME CompleteBegin PROVE KeepEffect
  <2>1. CASE ProcessNext("send")
    <3>1. \A c \in FDs : record_status'[c] = record_status[c] \/ ~ValidStream(c)'
      BY <1>1, <2>1, ClearedRecord
    <3>2. QED
      BY <1>4, <2>1, <3>1 DEF CompleteBegin, Completes, InterfaceCheck, ProcessNext, At,
                              KeepEffect, ScheduleEffect
  <2>2. CASE ipc' = "add" /\ UNCHANGED record_status
    BY <1>1, <1>4, <2>2 DEF CompleteBegin, Completes, InterfaceCheck, At, Rec,
                            KeepEffect, ScheduleEffect
  <2>3. QED
    BY <1>4, <2>1, <2>2 DEF CompleteBegin, InterfaceCheck
<1>5. QED
  BY <1>2, <1>3, <1>4

\* A lookup finds the request if it is in request_map_, unless it goes through a
\* dangling iterator; then what it finds is not live.
LEMMA LookupEffect ==
  ASSUME TypeOK, CacheInv, NEW id \in Ids, NEW iter \in Lookup(id)
  PROVE  /\ iter.live => iter.id = id /\ request_map[<<cur, id>>].status # "absent"
         /\ cache.live /\ cache.id = id => iter = cache
BY DEF Lookup, Find, NoIterator, CacheInv

\* A stream record is valid only if its request is pending and its stream open.
LEMMA HeaderRequests ==
  ASSUME IndInv, RequestInv, ReadStep, ~bad, HeaderChecked
  PROVE  OneRequestEffect(Part.rec.id)
<1>1. /\ TypeOK /\ ReadingInv /\ ipc \in Reading /\ cur \in FDs /\ cur' = cur /\ avail > 0
  BY ReadBasics DEF HeaderChecked
<1>2. Part.rec \in RecordType /\ Part.rec.id \in Ids
  BY <1>1, TakePartType DEF Parts, RecordType, HeaderChecked
<1>3. PICK iter \in Lookup(Part.rec.id) :
        /\ cache' = IF iter.id = 0 THEN cache ELSE iter
        /\ \E invalidated \in Verdicts(Part.rec, iter) : SetRecord(Part.rec, invalidated)
  BY DEF HeaderChecked, InterfaceCheck
<1>4. PICK invalidated \in Verdicts(Part.rec, iter) : SetRecord(Part.rec, invalidated)
  BY <1>3
<1> DEFINE id == Part.rec.id
           k  == <<cur, id>>
<1>5. /\ k \in Keys /\ UNCHANGED <<request_map, found, application_closure_request_set>>
      /\ ipc' \notin {"add", "reject"}
  BY <1>1, <1>2 DEF HeaderChecked, InterfaceCheck, AfterHeader, Keys
<1>6. /\ iter.live => iter.id = id /\ request_map[k].status # "absent"
      /\ cache.live /\ cache.id = id => iter = cache
  BY <1>1, <1>2, <1>3, LookupEffect DEF RequestInv
<1>7. cache'.live => /\ cache'.id \in Ids
                     /\ request_map[<<cur, cache'.id>>].status # "absent"
  BY <1>2, <1>3, <1>6 DEF RequestInv, CacheInv
<1>8. /\ record_status'[cur] = [rec |-> Part.rec, invalidated |-> invalidated]
      /\ \A c \in FDs : c # cur => record_status'[c] = record_status[c]
  BY <1>1, <1>4, SetRecordEffect
<1>9. ASSUME ValidStream(cur)'
      PROVE  request_map[k].status = "pending" /\ ~request_map[k].complete[Part.rec.type]
  <2>1. ~invalidated /\ Part.rec.type \in StreamTypes
    BY <1>1, <1>8, <1>9 DEF ValidStream, IsStream
  <2>2. Part.rec.type \notin {"BEGIN", "ABORT"}
    BY <2>1 DEF StreamTypes
  <2>3. iter.live /\ invalidated = request_map[k].complete[Part.rec.type]
    BY <2>1, <2>2, <1>4 DEF Verdicts
  <2>4. request_map[k].status # "assigned"
    BY <1>5, <2>1, <2>3 DEF RequestInv, AssignedInv, AllComplete
  <2>5. request_map[k].status \in {"absent", "pending", "assigned"}
    BY <1>1, <1>5 DEF TypeOK, RequestDataType
  <2>6. QED
    BY <1>6, <2>1, <2>3, <2>4, <2>5
<1>10. \A s \in StreamTypes : id \in found =>
         request_map[k].status = "pending" /\ request_map[k].complete[s]
  BY DEF RequestInv, FoundInv, AllComplete
<1>11. RecordInv'
  BY <1>5 DEF RecordInv
<1>12. id \in found => request_map[k].status = "pending"
  BY DEF RequestInv, FoundInv
<1>13. request_map[k].status # "assigned" => ~request_map[k].closed
  BY <1>5 DEF RequestInv, AssignedInv
<1>14. QED
  BY <1>1, <1>5, <1>7, <1>8, <1>9, <1>10, <1>11, <1>12, <1>13
     DEF OneRequestEffect, ScheduleEffect
\* The record being processed belongs to a request key.
LEMMA RecordKey ==
  ASSUME IndInv, ReadStep, Rec.id # 0
  PROVE  Rec.id \in Ids /\ <<cur, Rec.id>> \in Keys
BY ReadBasics, ReadingFacts DEF RecordType, Keys

\* What a key of request_map_ is worth before the step.
LEMMA RequestFacts ==
  ASSUME TypeOK, RequestInv, NEW id \in Ids, cur \in FDs
  PROVE  LET rd == request_map[<<cur, id>>]
         IN  /\ rd \in RequestDataType
             /\ rd.status # "assigned" => ~rd.closed
             /\ id \in found => /\ rd.status = "pending"
                                /\ \A s \in StreamTypes : rd.complete[s]
<1>1. <<cur, id>> \in Keys
  BY DEF Keys
<1>2. QED
  BY <1>1 DEF TypeOK, RequestInv, AssignedInv, FoundInv, AllComplete

\* A cached iterator to another request stays valid.
LEMMA CacheKept ==
  ASSUME RequestInv, cache.live
  PROVE  cache.id \in Ids /\ request_map[<<cur, cache.id>>].status # "absent"
BY DEF RequestInv, CacheInv

LEMMA BodyRequests ==
  ASSUME IndInv, RequestInv, ReadStep, ~bad, ~bad', BodyAppended
  PROVE  Rec.id \in Ids /\ OneRequestEffect(Rec.id)
<1> DEFINE id == Rec.id
           k  == <<cur, id>>
<1>1. TypeOK /\ cur \in FDs /\ cur' = cur /\ id \in Ids /\ k \in Keys
  BY ReadBasics, RecordKey DEF BodyAppended, IsStream
<1>2. /\ request_map' = [request_map EXCEPT ![k] =
                           AppendTo(request_map[k], Rec.type, Rec.content)]
      /\ Find(id).live /\ ipc' = "complete" /\ cache' = Find(id)
      /\ UNCHANGED <<found, application_closure_request_set, record_status>>
  BY DEF BodyAppended, InterfaceCheck
<1>3. /\ request_map'[k] = AppendTo(request_map[k], Rec.type, Rec.content)
      /\ \A j \in Keys : j # k => request_map'[j] = request_map[j]
  BY <1>1, <1>2 DEF TypeOK
<1>4. /\ request_map[k] \in RequestDataType
      /\ request_map[k].status # "assigned" => ~request_map[k].closed
      /\ id \in found => /\ request_map[k].status = "pending"
                         /\ \A s \in StreamTypes : request_map[k].complete[s]
  BY <1>1, RequestFacts
<1>5. /\ request_map'[k].status = request_map[k].status
      /\ request_map'[k].complete = request_map[k].complete
      /\ request_map'[k].closed = request_map[k].closed
  BY <1>3, <1>4 DEF AppendTo, RequestDataType
<1>6. ipc = "process"
  BY DEF BodyAppended, At
<1>7. /\ request_map[k].status = "pending"
      /\ ~request_map[k].complete[Rec.type]
  BY <1>1, <1>6 DEF BodyAppended, RequestInv, RecordsInv, ValidStream, Rec
<1>8. cache'.id = id
  BY <1>2, <1>7 DEF Find
<1>9. RecordInv'
  BY <1>2 DEF RecordInv
<1>10. ValidStream(cur)' => record_status'[cur].rec = Rec
  BY <1>2 DEF Rec
<1>11. QED
  BY <1>1, <1>2, <1>3, <1>4, <1>5, <1>7, <1>8, <1>9, <1>10
     DEF OneRequestEffect, ScheduleEffect

LEMMA AddRequests ==
  ASSUME IndInv, RequestInv, ReadStep, ~bad, ~bad', AddRequest
  PROVE  Rec.id \in Ids /\ OneRequestEffect(Rec.id)
<1> DEFINE id == Rec.id
           k  == <<cur, id>>
<1>1. TypeOK /\ cur \in FDs /\ cur' = cur /\ id \in Ids /\ k \in Keys
  BY ReadBasics, RecordKey DEF AddRequest, At, RequestInv, RecordInv
<1>2. /\ request_map' = [request_map EXCEPT ![k] = NewRequestData(Rec.role, ~Rec.keep)]
      /\ ~Find(id).live /\ cache' = [id |-> id, live |-> TRUE]
      /\ ProcessNext("process")
      /\ UNCHANGED <<found, application_closure_request_set>>
  BY DEF AddRequest, InterfaceCheck
<1>3. /\ request_map'[k] = NewRequestData(Rec.role, ~Rec.keep)
      /\ \A j \in Keys : j # k => request_map'[j] = request_map[j]
  BY <1>1, <1>2 DEF TypeOK
<1>4. request_map'[k].status = "pending" /\ ~request_map'[k].closed
  BY <1>3 DEF NewRequestData
<1>5. request_map[k].status = "absent"
  BY <1>2 DEF Find
<1>6. id \notin found
  BY <1>1, <1>5, RequestFacts
<1>7. /\ ~ValidStream(cur)'
      /\ \A c \in FDs : c # cur => record_status'[c] = record_status[c]
  BY <1>1, <1>2, ClearedRecord
<1>8. RecordInv'
  BY <1>2 DEF RecordInv, ProcessNext
<1>9. QED
  BY <1>1, <1>2, <1>3, <1>4, <1>5, <1>6, <1>7, <1>8 DEF OneRequestEffect, ScheduleEffect

\* The request of RejectMalformed is pending: nobody else can have removed it.
LEMMA RejectRequests ==
  ASSUME IndInv, RequestInv, ReadStep, ~bad, ~bad', RejectMalformed
  PROVE  Rec.id \in Ids /\ OneRequestEffect(Rec.id)
<1> DEFINE id == Rec.id
           k  == <<cur, id>>
<1>1. ValidStream(cur) /\ id \notin found /\ ~(cache.live /\ cache.id = id)
  BY DEF RejectMalformed, At, RequestInv, RecordInv
<1>2. TypeOK /\ cur \in FDs /\ cur' = cur /\ id \in Ids /\ k \in Keys
  BY <1>1, ReadBasics, RecordKey DEF ValidStream, IsStream, Rec
<1>3. request_map[k].status = "pending"
  BY <1>1, <1>2 DEF RequestInv, RecordsInv, Rec
<1>4. /\ EraseRequest(k) /\ ProcessNext("send") /\ UNCHANGED <<cache, found>>
      /\ ScheduleEffect
  BY DEF RejectMalformed, InterfaceCheck, Schedule, ScheduleEffect
<1>5. request_map' = [request_map EXCEPT ![k] = NoRequest]
  BY <1>4 DEF EraseRequest
<1>6. /\ request_map'[k] = NoRequest
      /\ \A j \in Keys : j # k => request_map'[j] = request_map[j]
  BY <1>2, <1>5 DEF TypeOK
<1>7. /\ ~ValidStream(cur)'
      /\ \A c \in FDs : c # cur => record_status'[c] = record_status[c]
  BY <1>2, <1>4, ClearedRecord
<1>8. RecordInv'
  BY <1>4 DEF RecordInv, ProcessNext
<1>9. cache.live => cache.id \in Ids /\ request_map[<<cur, cache.id>>].status # "absent"
  BY CacheKept
<1>10. QED
  BY <1>1, <1>2, <1>3, <1>4, <1>6, <1>7, <1>8, <1>9, NoRequestFacts DEF OneRequestEffect
\* An abort erases only a request that is not assigned, together with the iterators
\* to it.
LEMMA AbortRequests ==
  ASSUME IndInv, RequestInv, ReadStep, ~bad, ~bad', CompleteAbort
  PROVE  Rec.id \in Ids /\ OneRequestEffect(Rec.id)
<1> DEFINE id == Rec.id
           k  == <<cur, id>>
           rd == request_map[k]
<1>1. /\ TypeOK /\ cur \in FDs /\ cur' = cur /\ id \in Ids /\ k \in Keys
      /\ ~ValidStream(cur)
  BY ReadBasics, RecordKey
     DEF CompleteAbort, Completes, ValidStream, IsStream, StreamTypes, Rec
<1>2. PICK iter \in Lookup(id) : AbortThrough(iter)
  BY DEF CompleteAbort, InterfaceCheck
<1>3. /\ iter.live => iter.id = id /\ rd.status # "absent"
      /\ cache.live /\ cache.id = id => iter = cache
  BY <1>1, <1>2, LookupEffect DEF RequestInv
<1>4. /\ rd \in RequestDataType
      /\ rd.status # "assigned" => ~rd.closed
      /\ id \in found => rd.status = "pending" /\ \A s \in StreamTypes : rd.complete[s]
  BY <1>1, RequestFacts
<1>5. ScheduleEffect
  BY <1>2 DEF AbortThrough, Schedule, ScheduleEffect
<1>6. cache'.live => /\ cache'.id \in Ids /\ cache'.id # id
                     /\ request_map[<<cur, cache'.id>>].status # "absent"
  <2>1. cache' = NoIterator \/ (cache' = cache /\ iter # cache)
    BY <1>2 DEF AbortThrough
  <2>2. QED
    BY <1>3, <2>1, CacheKept DEF NoIterator
<1>7. ipc' \in {"process", "send", "throw_read"}
  BY <1>2 DEF AbortThrough, ProcessNext
<1>8. RecordInv'
  BY <1>7 DEF RecordInv
<1>9. ASSUME NEW c \in FDs
      PROVE  (c # cur => record_status'[c] = record_status[c]) /\ (c = cur => ~ValidStream(c)')
  <2>1. CASE \E place : ProcessNext(place)
    BY <1>1, <1>9, <2>1 DEF ProcessNext, TypeOK, ValidStream, IsStream, ClearRecord,
                            NullRecord
  <2>2. CASE record_status' = record_status
    BY <1>1, <2>2 DEF ValidStream
  <2>3. QED
    BY <1>2, <2>1, <2>2 DEF AbortThrough
<1>10. ~ValidStream(cur)'
  BY <1>1, <1>9 DEF ValidStream
<1> DEFINE Erased == request_map' = [request_map EXCEPT ![k] = NoRequest]
           Told   == request_map' = [request_map EXCEPT ![k].abort = TRUE]
<1>11. \/ UNCHANGED <<request_map, found>>
       \/ Told /\ UNCHANGED found
       \/ rd.status # "assigned" /\ Erased /\ found' = found \ {id}
  <2>1. EraseRequest(k) => Erased
    BY DEF EraseRequest
  <2>2. QED
    BY <1>2, <2>1 DEF AbortThrough, Uncollect
<1>12. CASE UNCHANGED <<request_map, found>>
  BY <1>1, <1>4, <1>5, <1>6, <1>8, <1>9, <1>10, <1>12 DEF OneRequestEffect
<1>13. CASE Told /\ UNCHANGED found
  <2>1. /\ request_map'[k] = [rd EXCEPT !.abort = TRUE]
        /\ \A j \in Keys : j # k => request_map'[j] = request_map[j]
    BY <1>1, <1>13 DEF TypeOK
  <2>2. /\ request_map'[k].status = rd.status /\ request_map'[k].complete = rd.complete
        /\ request_map'[k].closed = rd.closed
    BY <1>4, <2>1 DEF RequestDataType
  <2>3. QED
    BY <1>1, <1>4, <1>5, <1>6, <1>8, <1>9, <1>10, <1>13, <2>1, <2>2 DEF OneRequestEffect
<1>14. CASE rd.status # "assigned" /\ Erased /\ found' = found \ {id}
  <2>1. /\ request_map'[k] = NoRequest
        /\ \A j \in Keys : j # k => request_map'[j] = request_map[j]
    BY <1>1, <1>14 DEF TypeOK
  <2>2. QED
    BY <1>1, <1>5, <1>6, <1>8, <1>9, <1>10, <1>14, <2>1, NoRequestFacts DEF OneRequestEffect
<1>15. QED
  BY <1>1, <1>11, <1>12, <1>13, <1>14

\* The end of a stream closes a stream that was open, and all streams of a request
\* that is complete with it.
LEMMA StreamEndRequests ==
  ASSUME IndInv, RequestInv, ReadStep, ~bad, ~bad', CompleteStreamEnd
  PROVE  Rec.id \in Ids /\ OneRequestEffect(Rec.id)
<1> DEFINE id  == Rec.id
           k   == <<cur, id>>
           rd  == CompleteStream(request_map[k], Rec.type)
           upd == ConditionalUpdate(rd)
           Collected == /\ CheckRequestCompletion(rd) /\ found' = found \cup {id}
                        /\ cache' = (IF Find(id) = cache THEN NoIterator ELSE cache)
                        /\ ProcessNext("process")
           Malformed == /\ CheckRequestCompletion(rd) /\ ipc' = "reject"
                        /\ cache' = (IF Find(id) = cache THEN NoIterator ELSE cache)
                        /\ UNCHANGED <<record_status, found>>
           Open      == ProcessNext("process") /\ UNCHANGED <<cache, found>>
<1>1. /\ TypeOK /\ cur \in FDs /\ cur' = cur /\ id \in Ids /\ k \in Keys
      /\ ValidStream(cur) /\ Rec.type \in StreamTypes /\ ipc = "complete"
  BY ReadBasics, RecordKey DEF CompleteStreamEnd, At, ValidStream, IsStream, Rec
<1>2. request_map[k].status = "pending" /\ ~request_map[k].complete[Rec.type]
  BY <1>1 DEF RequestInv, RecordsInv, Rec
<1>3. Find(id) = [id |-> id, live |-> TRUE]
  BY <1>2 DEF Find
<1>4. /\ request_map' = [request_map EXCEPT ![k] = upd]
      /\ Collected \/ Malformed \/ Open
      /\ UNCHANGED application_closure_request_set
  BY <1>3 DEF CompleteStreamEnd, InterfaceCheck
<1>5. /\ request_map'[k] = upd
      /\ \A j \in Keys : j # k => request_map'[j] = request_map[j]
  BY <1>1, <1>4 DEF TypeOK
<1>6. request_map[k] \in RequestDataType /\ id \notin found /\ ~request_map[k].closed
  BY <1>1, <1>2, RequestFacts
<1>7. rd \in RequestDataType /\ rd.status = "pending" /\ ~rd.closed
  BY <1>1, <1>2, <1>6, UpdateType DEF CompleteStream, RequestDataType
<1>8. /\ upd.status = "pending" /\ ~upd.closed
      /\ CheckRequestCompletion(rd) => \A s \in StreamTypes : upd.complete[s]
  BY <1>7 DEF ConditionalUpdate, RequestDataType
<1>9. cache.live => cache.id \in Ids /\ request_map[<<cur, cache.id>>].status # "absent"
  BY CacheKept
<1>10. cache'.live => /\ cache'.id \in Ids
                      /\ request_map[<<cur, cache'.id>>].status # "absent"
  BY <1>4, <1>9 DEF NoIterator
<1> HIDE DEF rd, upd
<1>11. CASE Collected \/ Open
  <2>1. ProcessNext("process")
    BY <1>11
  <2>2. /\ ~ValidStream(cur)'
        /\ \A c \in FDs : c # cur => record_status'[c] = record_status[c]
    BY <1>1, <2>1, ClearedRecord
  <2>3. RecordInv'
    BY <2>1 DEF RecordInv, ProcessNext
  <2>4. found' \subseteq found \cup {id} /\ (id \in found' => CheckRequestCompletion(rd))
    BY <1>6, <1>11
  <2>5. QED
    BY <1>1, <1>2, <1>4, <1>5, <1>8, <1>10, <2>2, <2>3, <2>4
       DEF OneRequestEffect, ScheduleEffect
<1>12. CASE Malformed
  <2>1. cache'.live => cache'.id # id
    <3>1. cache.live /\ cache.id = id => cache = Find(id)
      BY <1>1, <1>3 DEF TypeOK
    <3>2. QED
      BY <1>12, <3>1 DEF NoIterator
  <2>2. RecordInv'
    BY <1>1, <1>6, <1>12, <2>1 DEF RecordInv, ValidStream, Rec
  <2>3. QED
    BY <1>1, <1>2, <1>4, <1>5, <1>6, <1>8, <1>10, <1>12, <2>2
       DEF OneRequestEffect, ScheduleEffect, Rec
<1>13. QED
  BY <1>1, <1>4, <1>11, <1>12

LEMMA ReadRequests ==
  ASSUME IndInv, ReadStep, ~bad'
  PROVE  RequestInv'
<1>1. ~bad
  BY DEF ReadStep, SocketRead, SocketReadEnd, SocketReadError, ReadRecordsReturns,
         HeaderLocal, HeaderChecked, BodyKept, BodyAppended, CompleteIgnored,
         CompleteManagement, CompleteBegin, AddRequest, CompleteAbort,
         CompleteStreamEnd, RejectMalformed, SendAcquires, SendSucceeds, SendFails,
         SendFindsClosure, SendLocksInterface, SendSchedules, InterfaceCheck,
         ThrowsFromRead, completeFrame, sendFrame
<1>2. RequestInv
  BY <1>1 DEF IndInv
<1>3. CASE \/ PlainReadStep
           \/ HeaderLocal \/ CompleteIgnored \/ CompleteManagement \/ CompleteBegin
  BY <1>1, <1>2, <1>3, PlainReadKeeps, DispatchKeeps, ReadKeeps
<1>4. CASE HeaderChecked
  <2>1. Part.rec.id \in Ids
    BY <1>4, ReadBasics, TakePartType DEF HeaderChecked, Parts, RecordType
  <2>2. QED
    BY <1>1, <1>2, <1>4, <2>1, HeaderRequests, ReadChangesRequest
<1>5. CASE BodyAppended \/ AddRequest \/ CompleteAbort \/ CompleteStreamEnd \/ RejectMalformed
  <2>1. Rec.id \in Ids /\ OneRequestEffect(Rec.id)
    BY <1>1, <1>2, <1>5, BodyRequests, AddRequests, AbortRequests, StreamEndRequests,
       RejectRequests
  <2>2. QED
    BY <1>2, <2>1, ReadChangesRequest
<1>6. QED
  BY <1>3, <1>4, <1>5 DEF ReadStep, PlainReadStep

-----------------------------------------------------------------------------
(* The interface thread outside ReadRecords, the clients and the kernel.   *)

\* Apart from four of them, the other steps leave the requests alone.
OtherKeepEffect ==
  /\ UNCHANGED <<request_map, record_status, interface_identifier,
                 dummy_descriptor_set, bad>>
  /\ connections \subseteq connections'
  /\ \/ application_closure_request_set' = application_closure_request_set
     \/ /\ ipc = "throw_read"
        /\ application_closure_request_set' = application_closure_request_set \cup {cur}
  /\ UNCHANGED <<found, cache, cur>> \/ (found' = {} /\ cache' = NoIterator)
  /\ \/ UNCHANGED <<ipc, found, cache, cur>>
     \/ ipc \notin {"add", "reject"} /\ ipc' \notin {"add", "reject"}
  /\ obj' = obj \/ HandOver \/ KeepForNextCall

LEMMA OtherKeeps ==
  ASSUME OtherStep
  PROVE  \/ OtherKeepEffect \/ Construct \/ DestructorReturns \/ Cleanup
         \/ \E o \in Objs, id \in Ids : ConstructRequest(o, id)
<1>1. ASSUME \/ Select \/ CheckAfterSelect \/ LockToConstruct \/ LeaveLoop
             \/ RejectConnection \/ AcceptThrows
             \/ DestructorLocks \/ DestructorClosesDummies \/ SelectInterrupted
      PROVE  OtherKeepEffect
  BY <1>1 DEF Select, CheckAfterSelect, LockToConstruct, LeaveLoop, RejectConnection,
              AcceptThrows, DestructorLocks, DestructorClosesDummies,
              SelectInterrupted, At, OtherKeepEffect
<1>2. ASSUME Return \/ ReadThrows \/ Throw \/ ReturnBuffered PROVE OtherKeepEffect
  BY <1>2 DEF Return, ReadThrows, Throw, ReturnBuffered, LeaveAcceptRequests, At,
              OtherKeepEffect
<1>3. ASSUME NEW c \in FDs, \/ ReadNextConnection(c) \/ AcceptConnection(c)
                            \/ DestructorCloses(c)
      PROVE  OtherKeepEffect
  BY <1>3 DEF ReadNextConnection, AcceptConnection, DestructorCloses, At,
              OtherKeepEffect
<1>4. ASSUME ClientConnects \/ \E value \in Overloads : SetOverload(value)
      PROVE  OtherKeepEffect
  BY <1>4 DEF ClientConnects, SetOverload, environmentFrame, OtherKeepEffect
<1>5. ASSUME NEW c \in FDs,
             (\E rec \in Records : ClientSends(c, rec)) \/ ClientCloses(c) \/ ForeignOpen(c)
      PROVE  OtherKeepEffect
  BY <1>5 DEF ClientSends, ClientCloses, ForeignOpen, environmentFrame, OtherKeepEffect
<1>6. QED
  BY <1>1, <1>2, <1>3, <1>4, <1>5 DEF OtherStep, InterfaceCall, Environment

\* Cleanup removes only connections of which nobody has the write mutex.
LEMMA RemovedFree ==
  ASSUME TypeOK, NEW c \in Removed
  PROVE  /\ c \in application_closure_request_set /\ c \in connections
         /\ wmutex[c] = Nobody
<1>1. c \in application_closure_request_set /\ \A u \in Unremovable : c < u
  BY DEF Removed
<1>2. c \in Nat
  BY <1>1, ConstantsAssumption DEF TypeOK
<1>3. c \notin Unremovable
  BY <1>1, <1>2
<1>4. QED
  BY <1>1, <1>3 DEF Unremovable

LEMMA OtherThread ==
  ASSUME IndInv, OtherStep
  PROVE  ThreadInv'
<1>1. TypeOK /\ KeyInv /\ MutexInv /\ IdentifierInv /\ ThreadInv
  BY BaseFacts
<1>2. SUFFICES ASSUME NEW o \in Objs, obj'[o].pc \in InCallPlaces
               PROVE  obj'[o].iid = interface_identifier' /\ Fd(o)' \in connections'
  BY DEF ThreadInv, InCallPlaces
<1>3. obj'[o] = obj[o] /\ Fd(o)' = Fd(o)
  BY <1>1, <1>2, OtherObjects DEF Calling, InCallPlaces, Fd
<1>4. /\ obj[o].pc \in InCallPlaces /\ obj[o].iid = interface_identifier
      /\ Fd(o) \in connections
  BY <1>1, <1>2, <1>3 DEF ThreadInv, InCallPlaces
<1>5. imutex # o => obj[o].pc = "writing" /\ wmutex[Fd(o)] = o
  BY <1>1, <1>4 DEF InCallPlaces, MutexInv, HoldsInterfaceMutex
<1>6. CASE OtherKeepEffect
  BY <1>3, <1>4, <1>6 DEF OtherKeepEffect
<1>7. CASE Construct
  BY <1>1, <1>4, <1>7 DEF Construct, At, IdentifierInv, InCallPlaces
<1>8. CASE DestructorReturns
  <2>1. imutex = Interface /\ \A c \in connections : wmutex[c] = Nobody
    BY <1>1, <1>8 DEF DestructorReturns, At, MutexInv
  <2>2. QED
    BY <1>4, <1>5, <2>1, Threads
<1>9. CASE Cleanup
  <2>1. imutex = Nobody /\ connections' = connections \ Removed
        /\ interface_identifier' = interface_identifier
    BY <1>9 DEF Cleanup, CleanDescriptors
  <2>2. wmutex[Fd(o)] = o
    BY <1>5, <2>1, Threads
  <2>3. Fd(o) \notin Removed
    BY <1>1, <2>2, RemovedFree, Threads
  <2>4. QED
    BY <1>3, <1>4, <2>1, <2>3
<1>10. ASSUME NEW p \in Objs, NEW id \in Ids, ConstructRequest(p, id)
       PROVE  UNCHANGED <<interface_identifier, connections>>
  BY <1>10 DEF ConstructRequest
<1>11. QED
  BY <1>3, <1>4, <1>6, <1>7, <1>8, <1>9, <1>10, OtherKeeps

\* Steps that change the descriptor table or the sets of descriptors.
LEMMA OtherDescriptors ==
  ASSUME IndInv, OtherStep
  PROVE  DescriptorInv'
<1>1. TypeOK /\ DescriptorInv /\ ReadingInv
  BY BaseFacts
<1>2. CASE Cleanup
  <2>1. /\ ~bad /\ application_closure_request_set \subseteq connections
        /\ ipc = "outside" /\ ipc' \in {"select", "outside"}
    BY <1>2 DEF Cleanup, At, IndInv, RequestInv, ClosureInv
  <2>2. /\ Removed \subseteq connections /\ ToDummy \subseteq Removed
        /\ IdleDummies \subseteq dummy_descriptor_set
        /\ connections \subseteq FDs /\ dummy_descriptor_set \subseteq FDs
    BY <1>1, <2>1 DEF Removed, ToDummy, IdleDummies, TypeOK
  <2>3. /\ kfd' = [c \in FDs |-> IF c \in ToDummy THEN "listen"
                                 ELSE IF c \in ToClose \cup IdleDummies
                                      THEN "free" ELSE kfd[c]]
        /\ dummy_descriptor_set' = (dummy_descriptor_set \ IdleDummies) \cup ToDummy
        /\ connections' = connections \ Removed
    BY <1>2 DEF Cleanup, CleanDescriptors
  <2>4. /\ \A c \in dummy_descriptor_set : kfd[c] = "listen"
        /\ \A c \in connections : kfd[c] = "socket"
        /\ dummy_descriptor_set \cap connections = {}
    BY <1>1, <2>1 DEF DescriptorInv, InDestructor
  <2>5. dummy_descriptor_set' \cap connections' = {}
    BY <2>2, <2>3, <2>4
  <2>6. \A c \in dummy_descriptor_set' : kfd'[c] = "listen"
    BY <2>2, <2>3, <2>4 DEF ToClose
  <2>7. \A c \in connections' : kfd'[c] = "socket"
    BY <2>2, <2>3, <2>4 DEF ToClose
  <2>8. QED
    BY <2>5, <2>6, <2>7 DEF DescriptorInv
<1>3. ASSUME NEW c \in FDs, AcceptConnection(c) PROVE DescriptorInv'
  <2>1. /\ kfd[c] = "free" /\ kfd' = [kfd EXCEPT ![c] = "socket"]
        /\ connections' = connections \cup {c} /\ ipc = "accept" /\ ipc' = ipc
        /\ dummy_descriptor_set' = dummy_descriptor_set
    BY <1>3 DEF AcceptConnection, At
  <2>2. c \notin dummy_descriptor_set
    BY <1>1, <2>1 DEF DescriptorInv, InDestructor
  <2>3. QED
    BY <1>1, <2>1, <2>2 DEF DescriptorInv, InDestructor, TypeOK
<1>4. ASSUME NEW c \in FDs, ForeignOpen(c) PROVE DescriptorInv'
  <2>1. /\ kfd[c] = "free" /\ kfd' = [kfd EXCEPT ![c] = "foreign"]
        /\ UNCHANGED <<connections, dummy_descriptor_set, ipc, ready>>
    BY <1>4 DEF ForeignOpen, environmentFrame
  <2>2. \A d \in FDs : d # c => kfd'[d] = kfd[d]
    BY <1>1, <2>1 DEF TypeOK
  <2>3. \A d \in connections \cup dummy_descriptor_set : d \in FDs
    BY <1>1 DEF TypeOK
  <2>4. QED
    BY <1>1, <2>1, <2>2, <2>3 DEF DescriptorInv, InDestructor
<1>5. CASE DestructorReturns
  BY <1>5 DEF DestructorReturns, DescriptorInv
<1>6. CASE DestructorClosesDummies
  BY <1>1, <1>6 DEF DestructorClosesDummies, CloseAll, At, DescriptorInv, InDestructor,
                    TypeOK
<1>7. CASE DestructorLocks
  BY <1>1, <1>7 DEF DestructorLocks, At, DescriptorInv, InDestructor, SocketsToClose
<1>8. ASSUME NEW c \in FDs, DestructorCloses(c) PROVE DescriptorInv'
  BY <1>1, <1>8 DEF DestructorCloses, CloseAll, At, DescriptorInv, InDestructor, TypeOK
<1>9. ASSUME \/ Select \/ CheckAfterSelect \/ \E c \in FDs : ReadNextConnection(c)
             \/ LockToConstruct \/ \E o \in Objs, id \in Ids : ConstructRequest(o, id)
             \/ LeaveLoop \/ RejectConnection \/ AcceptThrows \/ Return \/ ReadThrows
             \/ Throw \/ Construct \/ ReturnBuffered \/ SelectInterrupted
      PROVE  /\ UNCHANGED <<kfd, connections, dummy_descriptor_set>>
             /\ ~InDestructor /\ ~InDestructor'
  BY <1>9 DEF Select, CheckAfterSelect, ReadNextConnection, LockToConstruct,
              ConstructRequest, LeaveLoop, RejectConnection, AcceptThrows, Return,
              ReadThrows, Throw, Construct, ReturnBuffered, SelectInterrupted,
              LeaveAcceptRequests, At, InDestructor
<1>10. ASSUME \/ \E value \in Overloads : SetOverload(value)
              \/ ClientConnects
              \/ \E c \in FDs : (\E rec \in Records : ClientSends(c, rec)) \/ ClientCloses(c)
       PROVE  UNCHANGED <<kfd, connections, dummy_descriptor_set, ipc, ready>>
  BY <1>10 DEF SetOverload, ClientConnects, ClientSends, ClientCloses, environmentFrame
<1>11. CASE /\ UNCHANGED <<kfd, connections, dummy_descriptor_set>>
            /\ ~InDestructor /\ ~InDestructor'
  BY <1>1, <1>11 DEF DescriptorInv, InDestructor
<1>12. CASE UNCHANGED <<kfd, connections, dummy_descriptor_set, ipc, ready>>
  BY <1>1, <1>12 DEF DescriptorInv, InDestructor
<1>13. CASE Environment
  BY <1>4, <1>9, <1>10, <1>11, <1>12, <1>13 DEF Environment
<1>14. CASE InterfaceCall
  BY <1>2, <1>6, <1>9, <1>10, <1>11, <1>12, <1>14 DEF InterfaceCall
<1>15. QED
  BY <1>3, <1>5, <1>7, <1>8, <1>9, <1>11, <1>13, <1>14 DEF OtherStep

LEMMA OtherIterators ==
  ASSUME IndInv, OtherStep
  PROVE  IteratorInv'
<1>1. TypeOK /\ IteratorInv
  BY BaseFacts
<1>2. ASSUME \/ Select \/ CheckAfterSelect \/ LockToConstruct \/ LeaveLoop
             \/ RejectConnection \/ AcceptThrows \/ ReadThrows \/ ReturnBuffered
             \/ Construct \/ Cleanup \/ DestructorLocks \/ DestructorClosesDummies
             \/ DestructorReturns \/ SelectInterrupted
      PROVE  IteratorInv'
  BY <1>1, <1>2 DEF Select, CheckAfterSelect, LockToConstruct, LeaveLoop,
       RejectConnection, AcceptThrows, ReadThrows, ReturnBuffered, Construct, Cleanup,
       DestructorLocks, DestructorClosesDummies, DestructorReturns, SelectInterrupted,
       At, IteratorInv, InCall, Reading
<1>3. ASSUME \/ Return \/ Throw \/ \E c \in FDs : ReadNextConnection(c) PROVE IteratorInv'
  BY <1>3 DEF Return, Throw, LeaveAcceptRequests, ReadNextConnection, NoIterator,
              IteratorInv
<1>4. ASSUME NEW o \in Objs, NEW id \in Ids, ConstructRequest(o, id) PROVE IteratorInv'
  BY <1>1, <1>4 DEF ConstructRequest, At, IteratorInv, InCall, Reading
<1>5. ASSUME NEW c \in FDs, \/ AcceptConnection(c) \/ DestructorCloses(c)
                            \/ (\E rec \in Records : ClientSends(c, rec))
                            \/ ClientCloses(c) \/ ForeignOpen(c)
      PROVE  UNCHANGED <<ipc, found, cache, cur>>
  BY <1>5 DEF AcceptConnection, DestructorCloses, ClientSends, ClientCloses,
              ForeignOpen, environmentFrame
<1>6. ASSUME ClientConnects \/ \E value \in Overloads : SetOverload(value)
      PROVE  UNCHANGED <<ipc, found, cache, cur>>
  BY <1>6 DEF ClientConnects, SetOverload, environmentFrame
<1>7. CASE UNCHANGED <<ipc, found, cache, cur>>
  BY <1>1, <1>7 DEF IteratorInv
<1>8. CASE Environment
  BY <1>2, <1>5, <1>6, <1>7, <1>8 DEF Environment
<1>9. CASE InterfaceCall
  BY <1>2, <1>6, <1>7, <1>9 DEF InterfaceCall
<1>10. QED
  BY <1>2, <1>3, <1>4, <1>5, <1>7, <1>8, <1>9 DEF OtherStep

\* RequestInv.  Steps that leave the requests alone, first.
LEMMA OtherKeepRequests ==
  ASSUME IndInv, OtherKeepEffect, ~bad'
  PROVE  RequestInv'
<1>1. TypeOK /\ ReadingInv /\ RequestInv /\ ~bad
  BY BaseFacts DEF OtherKeepEffect, IndInv
<1>2. ClosureInv'
  BY <1>1 DEF OtherKeepEffect, RequestInv, ClosureInv, ReadingInv, InCall
<1>3. ASSUME NEW o \in Objs
      PROVE  /\ obj'[o].key = obj[o].key /\ obj'[o].iid = obj[o].iid
             /\ obj'[o].pc \in {"free", "closing"} <=> obj[o].pc \in {"free", "closing"}
  <2>1. CASE HandOver
    BY <1>1, <2>1 DEF HandOver, TypeOK, ObjectType
  <2>2. CASE KeepForNextCall \/ obj' = obj
    BY <1>1, <2>2 DEF KeepForNextCall
  <2>3. QED
    BY <2>1, <2>2 DEF OtherKeepEffect
<1>4. Live' = Live
  BY <1>3 DEF Live, OtherKeepEffect
<1>5. LiveInv'
  <2>1. \A o \in Live : o \in Objs
    BY DEF Live
  <2>2. QED
    BY <1>1, <1>3, <1>4, <2>1 DEF OtherKeepEffect, RequestInv, LiveInv, Fd
<1>6. AssignedInv'
  BY <1>1 DEF OtherKeepEffect, RequestInv, AssignedInv, AllComplete
<1>7. FoundInv' /\ CacheInv'
  BY <1>1 DEF OtherKeepEffect, RequestInv, FoundInv, AllComplete, CacheInv, NoIterator
<1>8. RecordsInv'
  BY <1>1 DEF OtherKeepEffect, RequestInv, RecordsInv, ValidStream
<1>9. RecordInv'
  BY <1>1 DEF OtherKeepEffect, RequestInv, RecordInv, ValidStream, Rec
<1>10. QED
  BY <1>2, <1>5, <1>6, <1>7, <1>8, <1>9 DEF RequestInv

\* A new interface knows nothing of the requests of earlier ones.
LEMMA ConstructRequests ==
  ASSUME IndInv, Construct, ~bad'
  PROVE  RequestInv'
<1>1. RequestInv
  BY DEF Construct, IndInv
<1>2. Live' = {}
  BY DEF Construct, Live
<1>3. LiveInv'
  BY <1>2 DEF LiveInv
<1>4. QED
  BY <1>1, <1>3
     DEF Construct, At, RequestInv, ClosureInv, AssignedInv, AllComplete, FoundInv,
         CacheInv, RecordsInv, RecordInv, ValidStream

LEMMA DestructorRequests ==
  ASSUME IndInv, DestructorReturns, IdentifierInv'
  PROVE  RequestInv'
<1>1. IteratorInv /\ ipc = "dtor_locked" /\ interface_identifier' = 0 /\ ipc' = "none"
  BY BaseFacts DEF DestructorReturns, At
<1>2. LiveInv'
  BY <1>1 DEF Live, IdentifierInv, LiveInv
<1>3. AssignedInv' /\ ClosureInv'
  BY NoRequestFacts DEF DestructorReturns, AssignedInv, ClosureInv
<1>4. FoundInv' /\ CacheInv' /\ RecordInv'
  BY <1>1 DEF DestructorReturns, IteratorInv, InCall, Reading, FoundInv, CacheInv,
              RecordInv
<1>5. RecordsInv'
  BY DEF DestructorReturns, RecordsInv, ValidStream, IsStream, ClearRecord, NullRecord
<1>6. QED
  BY <1>2, <1>3, <1>4, <1>5 DEF RequestInv

\* A constructed object takes a request that nobody has and that is complete.
LEMMA ConstructRequestRequests ==
  ASSUME IndInv, NEW o \in Objs, NEW id \in Ids, ConstructRequest(o, id), ~bad'
  PROVE  RequestInv'
<1> DEFINE k == <<cur, id>>
<1>1. /\ TypeOK /\ KeyInv /\ ReadingInv /\ IteratorInv /\ RequestInv /\ ~bad
      /\ ipc = "construct" /\ ipc' \in {"construct", "loop"}
  BY BaseFacts DEF ConstructRequest, At, IndInv
<1>2. cur \in connections /\ cur \in FDs /\ k \in Keys /\ ~cache.live
  BY <1>1 DEF ReadingInv, InCall, IteratorInv, Reading, TypeOK, Keys
<1>3. /\ id \in found /\ found' = found \ {id}
      /\ request_map' = [request_map EXCEPT ![k].status = "assigned"]
      /\ UNCHANGED <<cur, cache, record_status, connections, dummy_descriptor_set,
                     interface_identifier, application_closure_request_set>>
  BY DEF ConstructRequest
<1>4. /\ request_map'[k] = [request_map[k] EXCEPT !.status = "assigned"]
      /\ \A j \in Keys : j # k => request_map'[j] = request_map[j]
  BY <1>1, <1>2, <1>3 DEF TypeOK
<1>5. request_map[k].status = "pending" /\ AllComplete(k) /\ ~request_map[k].closed
  BY <1>1, <1>2, <1>3 DEF RequestInv, FoundInv, AssignedInv
<1>6. /\ request_map'[k].status = "assigned" /\ ~request_map'[k].closed
      /\ request_map'[k].complete = request_map[k].complete
  BY <1>1, <1>2, <1>4, <1>5 DEF TypeOK, RequestDataType
<1>7. /\ obj'[o].pc = "held" /\ obj'[o].key = k /\ obj[o].pc = "free"
      /\ \A p \in Objs : p # o => obj'[p] = obj[p]
  BY <1>1, ConstructedObject DEF ConstructRequest, TypeOK
<1>8. \A p \in Live' : p = o \/ (p \in Live /\ obj'[p] = obj[p])
  BY <1>3, <1>7 DEF Live
<1>9. \A p \in Live : obj[p].key \in Keys /\ obj[p].key # k
  BY <1>1, <1>5 DEF Live, KeyInv, RequestInv, LiveInv
<1>10. LiveInv'
  <2>1. ASSUME NEW p \in Live'
        PROVE  /\ request_map'[obj'[p].key].status = "assigned"
               /\ obj'[p].key[1] \in IF request_map'[obj'[p].key].closed
                                     THEN dummy_descriptor_set' ELSE connections'
    <3>1. CASE p = o
      BY <1>2, <1>3, <1>6, <1>7, <3>1
    <3>2. CASE p # o
      <4>1. p \in Live /\ obj'[p] = obj[p]
        BY <1>8, <2>1, <3>2
      <4>2. request_map'[obj[p].key] = request_map[obj[p].key]
        BY <1>4, <1>9, <4>1
      <4>3. QED
        BY <1>1, <1>3, <4>1, <4>2 DEF RequestInv, LiveInv, Fd
    <3>3. QED
      BY <3>1, <3>2
  <2>2. ASSUME NEW p \in Live', NEW q \in Live', obj'[p].key = obj'[q].key
        PROVE  p = q
    BY <1>1, <1>7, <1>8, <1>9, <2>2 DEF RequestInv, LiveInv
  <2>3. QED
    BY <2>1, <2>2 DEF LiveInv, Fd
<1>11. ClosureInv'
  BY <1>1, <1>3 DEF RequestInv, ClosureInv
<1>12. AssignedInv'
  BY <1>1, <1>4, <1>5, <1>6 DEF RequestInv, AssignedInv, AllComplete
<1>13. FoundInv'
  <2>1. \A i \in found' : /\ i \in found /\ <<cur, i>> \in Keys
                          /\ <<cur, i>> # k
    BY <1>1, <1>2, <1>3 DEF TypeOK, Keys
  <2>2. QED
    BY <1>1, <1>3, <1>4, <2>1 DEF RequestInv, FoundInv, AllComplete
<1>14. CacheInv'
  BY <1>2, <1>3 DEF CacheInv
<1>15. RecordsInv'
  <2>1. ASSUME NEW c \in FDs, ValidStream(c)
        PROVE  /\ <<c, record_status[c].rec.id>> \in Keys
               /\ <<c, record_status[c].rec.id>> # k
               /\ ~request_map[<<c, record_status[c].rec.id>>].complete[record_status[c].rec.type]
    <3>1. record_status[c].rec.type \in StreamTypes
      BY <2>1 DEF ValidStream, IsStream
    <3>2. ~request_map[<<c, record_status[c].rec.id>>].complete[record_status[c].rec.type]
      BY <1>1, <2>1 DEF RequestInv, RecordsInv
    <3>3. <<c, record_status[c].rec.id>> \in Keys
      BY <1>1, <2>1 DEF ValidStream, IsStream, Keys, TypeOK, RecordType
    <3>4. QED
      BY <1>5, <3>1, <3>2, <3>3 DEF AllComplete
  <2>2. ASSUME NEW c \in FDs, ValidStream(c)'
        PROVE  /\ ValidStream(c) /\ record_status'[c] = record_status[c]
               /\ request_map'[<<c, record_status[c].rec.id>>] =
                    request_map[<<c, record_status[c].rec.id>>]
    <3>1. ValidStream(c) /\ record_status'[c] = record_status[c]
      BY <1>3, <2>2 DEF ValidStream
    <3>2. QED
      BY <1>4, <2>1, <3>1
  <2>3. QED
    BY <1>1, <2>1, <2>2 DEF RequestInv, RecordsInv
<1>16. RecordInv'
  BY <1>1 DEF RecordInv
<1>17. QED
  BY <1>10, <1>11, <1>12, <1>13, <1>14, <1>15, <1>16 DEF RequestInv

\* Cleanup keeps the assigned requests of the connections that it removes: their
\* descriptors become dummies.
LEMMA CleanupRequests ==
  ASSUME IndInv, Cleanup, ~bad'
  PROVE  RequestInv'
<1>1. /\ TypeOK /\ KeyInv /\ IteratorInv /\ DescriptorInv /\ RequestInv /\ ~bad
      /\ ipc = "outside" /\ ipc' = "select" /\ application_closure_request_set' = {}
  BY BaseFacts DEF Cleanup, At, IndInv
<1>2. /\ CleanRequests
      /\ dummy_descriptor_set' = (dummy_descriptor_set \ IdleDummies) \cup ToDummy
      /\ connections' = connections \ Removed
      /\ record_status' = [c \in FDs |-> IF c \in Removed THEN ClearRecord
                                         ELSE record_status[c]]
      /\ UNCHANGED <<obj, interface_identifier, found, cache, cur>>
  BY DEF Cleanup, CleanDescriptors
<1>3. Removed \subseteq connections /\ dummy_descriptor_set \cap connections = {}
  BY <1>1 DEF Removed, RequestInv, ClosureInv, DescriptorInv
<1>4. \A j \in Keys : request_map'[j] =
                        IF j[1] \notin Removed THEN request_map[j]
                        ELSE IF request_map[j].status = "assigned"
                             THEN [request_map[j] EXCEPT !.closed = TRUE]
                             ELSE NoRequest
  BY <1>2 DEF CleanRequests
<1>5. ASSUME NEW j \in Keys
      PROVE  /\ request_map'[j].status = "assigned" <=> request_map[j].status = "assigned"
             /\ request_map[j].status = "assigned" =>
                  /\ request_map'[j].complete = request_map[j].complete
                  /\ request_map'[j].closed = (request_map[j].closed \/ j[1] \in Removed)
             /\ request_map[j].status # "assigned" => ~request_map'[j].closed
  <2>1. request_map[j] \in RequestDataType
    BY <1>1 DEF TypeOK
  <2>2. CASE j[1] \notin Removed
    <3>1. request_map'[j] = request_map[j] /\ request_map[j].closed \in BOOLEAN
      BY <1>4, <2>1, <2>2 DEF RequestDataType
    <3>2. QED
      BY <1>1, <2>2, <3>1 DEF RequestInv, AssignedInv
  <2>3. CASE j[1] \in Removed /\ request_map[j].status = "assigned"
    BY <1>4, <2>1, <2>3 DEF RequestDataType
  <2>4. CASE j[1] \in Removed /\ request_map[j].status # "assigned"
    BY <1>4, <2>4, NoRequestFacts
  <2>5. QED
    BY <2>2, <2>3, <2>4
<1>6. Live' = Live
  BY <1>2 DEF Live
<1>7. LiveInv'
  <2>1. ASSUME NEW o \in Live
        PROVE  /\ request_map'[obj[o].key].status = "assigned"
               /\ Fd(o) \in IF request_map'[obj[o].key].closed
                            THEN dummy_descriptor_set' ELSE connections'
    <3>1. /\ obj[o].key \in Keys /\ Fd(o) = obj[o].key[1]
          /\ request_map[obj[o].key].status = "assigned"
          /\ Fd(o) \in IF request_map[obj[o].key].closed
                       THEN dummy_descriptor_set ELSE connections
      BY <1>1 DEF Live, KeyInv, Fd, RequestInv, LiveInv
    <3>2. obj[o].key \in AssignedOn(Fd(o)) /\ obj[o].key \in RequestsOn(Fd(o))
      BY <3>1 DEF AssignedOn, RequestsOn
    <3>3. Fd(o) \notin IdleDummies /\ (Fd(o) \in Removed => Fd(o) \in ToDummy)
      BY <3>2 DEF IdleDummies, ToDummy
    <3>4. QED
      BY <1>2, <1>3, <1>5, <3>1, <3>3
  <2>2. QED
    BY <1>1, <1>2, <1>6, <2>1 DEF RequestInv, LiveInv, Fd
<1>8. AssignedInv' /\ ClosureInv'
  BY <1>1, <1>5 DEF RequestInv, AssignedInv, AllComplete, ClosureInv
<1>9. FoundInv' /\ CacheInv' /\ RecordInv'
  BY <1>1, <1>2 DEF IteratorInv, InCall, Reading, FoundInv, CacheInv, RecordInv
<1>10. RecordsInv'
  <2>1. ASSUME NEW c \in FDs, ValidStream(c)'
        PROVE  c \notin Removed /\ record_status'[c] = record_status[c] /\ ValidStream(c)
    BY <1>2, <2>1 DEF ValidStream, IsStream, ClearRecord, NullRecord
  <2>2. ASSUME NEW c \in FDs, ValidStream(c), c \notin Removed
        PROVE  request_map'[<<c, record_status[c].rec.id>>] =
                 request_map[<<c, record_status[c].rec.id>>]
    <3>1. <<c, record_status[c].rec.id>> \in Keys
      BY <1>1, <2>2 DEF ValidStream, IsStream, Keys, TypeOK, RecordType
    <3>2. QED
      BY <1>4, <2>2, <3>1
  <2>3. QED
    BY <1>1, <2>1, <2>2, ZenonT(30) DEF RequestInv, RecordsInv
<1>11. QED
  BY <1>7, <1>8, <1>9, <1>10 DEF RequestInv

LEMMA OtherRequests ==
  ASSUME IndInv, OtherStep, IdentifierInv', ~bad'
  PROVE  RequestInv'
BY OtherKeeps, OtherKeepRequests, ConstructRequests, DestructorRequests,
   ConstructRequestRequests, CleanupRequests

-----------------------------------------------------------------------------
(* The invariant is inductive.                                             *)

LEMMA IndInit == Init => IndInv
<1> SUFFICES ASSUME Init PROVE IndInv
  OBVIOUS
<1>1. TypeOK /\ KeyInv /\ ReadingInv
  BY TypeInit DEF TypeInv
<1>2. \A o \in Objs : obj[o].pc = "free"
  BY DEF Init, NoObject
<1>3. IteratorInv /\ MutexInv
  BY <1>2 DEF Init, NoIterator, IteratorInv, MutexInv, HoldsInterfaceMutex, InCall,
              Reading
<1>4. IdentifierInv /\ ThreadInv /\ DescriptorInv
  BY <1>2 DEF Init, IdentifierInv, ThreadInv, DescriptorInv
<1>5. LiveInv
  BY <1>2 DEF Live, LiveInv
<1>6. ClosureInv /\ AssignedInv /\ FoundInv /\ CacheInv /\ RecordInv
  BY NoRequestFacts DEF Init, NoIterator, ClosureInv, AssignedInv, FoundInv, CacheInv,
                        RecordInv
<1>7. RecordsInv
  BY DEF Init, RecordsInv, ValidStream, IsStream, ClearRecord, NullRecord
<1>8. QED
  BY <1>1, <1>3, <1>4, <1>5, <1>6, <1>7 DEF IndInv, RequestInv

LEMMA IndStutter ==
  ASSUME IndInv, UNCHANGED vars
  PROVE  IndInv'
<1>1. TypeOK' /\ KeyInv' /\ ReadingInv'
  BY TypeStep DEF IndInv, TypeInv
<1> USE DEF vars
<1>2. IteratorInv' /\ MutexInv' /\ IdentifierInv'
  BY DEF IndInv, IteratorInv, MutexInv, HoldsInterfaceMutex, IdentifierInv, Fd
<1>3. ThreadInv' /\ DescriptorInv'
  BY DEF IndInv, ThreadInv, DescriptorInv, InDestructor, Fd
<1>4. ASSUME ~bad' PROVE RequestInv'
  <2>1. RequestInv
    BY <1>4 DEF IndInv
  <2>2. ClosureInv' /\ AssignedInv' /\ FoundInv' /\ CacheInv'
    BY <2>1 DEF RequestInv, ClosureInv, AssignedInv, AllComplete, FoundInv, CacheInv
  <2>3. LiveInv'
    BY <2>1 DEF RequestInv, LiveInv, Live, Fd
  <2>4. RecordsInv' /\ RecordInv'
    BY <2>1 DEF RequestInv, RecordsInv, RecordInv, ValidStream, Rec
  <2>5. QED
    BY <2>2, <2>3, <2>4 DEF RequestInv
<1>5. QED
  BY <1>1, <1>2, <1>3, <1>4 DEF IndInv

LEMMA IndStep == IndInv /\ [Next]_vars => IndInv'
<1> SUFFICES ASSUME IndInv, [Next]_vars PROVE IndInv'
  OBVIOUS
<1>1. CASE Next
  <2>1. /\ TypeOK' /\ KeyInv' /\ ReadingInv' /\ MutexInv' /\ IdentifierInv'
    BY <1>1, BaseFacts, BaseStep DEF BaseInv, TypeInv
  <2>2. ThreadInv' /\ DescriptorInv' /\ IteratorInv'
    BY <1>1, NextCases, ReadDescriptors, OtherThread, OtherDescriptors, OtherIterators,
       RequestThread, RequestDescriptors
  <2>3. ~bad' => RequestInv'
    BY <1>1, <2>1, NextCases, ReadRequests, OtherRequests, RequestRequests
  <2>4. QED
    BY <2>1, <2>2, <2>3 DEF IndInv
<1>2. CASE UNCHANGED vars
  BY <1>2, IndStutter
<1>3. QED
  BY <1>1, <1>2

\* The inductive invariant holds in every reachable state: mutex ownership,
\* descriptors, iterators and requests of FcgiServerInterface fit together.
THEOREM Invariant == Spec => []IndInv
BY IndInit, IndStep, PTL DEF Spec

-----------------------------------------------------------------------------
(* The safety properties.                                                  *)

\* Invariant 3.a of fcgi_server_interface.cc, whose proof the code leaves open:
\* no dummy descriptor is ever in application_closure_request_set_.
THEOREM DummiesNeverScheduled == Spec => []DummiesNotScheduled
<1>1. IndInv => DummiesNotScheduled
  BY DEF IndInv, RequestInv, ClosureInv, DescriptorInv, DummiesNotScheduled
<1>2. QED
  BY <1>1, Invariant, PTL

\* The socket on which Write, Complete or SendRecord writes is open and belongs
\* to the current interface, whatever AcceptRequests and the destructor do.
THEOREM WritersUseOpenSockets == Spec => []WriterOnOpenSocket
<1>1. ASSUME IndInv PROVE WriterOnOpenSocket
  <2>1. MutexInv /\ ThreadInv /\ DescriptorInv /\ ReadingInv
    BY <1>1 DEF IndInv
  <2>2. ASSUME NEW o \in Objs, obj[o].pc = "writing"
        PROVE  /\ obj[o].iid = interface_identifier
               /\ Fd(o) \in connections /\ kfd[Fd(o)] = "socket"
    <3>1. /\ obj[o].iid = interface_identifier /\ Fd(o) \in connections
          /\ wmutex[Fd(o)] = o /\ o # Nobody
      BY <2>1, <2>2, Threads DEF ThreadInv, MutexInv
    <3>2. QED
      BY <2>1, <3>1 DEF DescriptorInv, MutexInv
  <2>3. ipc = "sending" => cur \in connections /\ kfd[cur] = "socket"
    BY <2>1 DEF ReadingInv, InCall, Reading, DescriptorInv
  <2>4. QED
    BY <2>2, <2>3 DEF WriterOnOpenSocket
<1>2. QED
  BY <1>1, Invariant, PTL

\* RequestCleanupDuringConnectionClosure and RemoveConnection keep the request and
\* the descriptor of every FcgiRequest that is still in use.
THEOREM LiveRequestsKept == Spec => []LiveRequestsKeepDescriptor
<1>1. ASSUME IndInv PROVE LiveRequestsKeepDescriptor
  <2>1. SUFFICES ASSUME ~bad, ~InDestructor, NEW o \in Live
                 PROVE  /\ request_map[obj[o].key].status = "assigned"
                        /\ kfd[Fd(o)] = IF request_map[obj[o].key].closed
                                        THEN "listen" ELSE "socket"
                        /\ \A p \in Live : obj[p].key = obj[o].key => p = o
    BY DEF LiveRequestsKeepDescriptor
  <2>2. LiveInv /\ DescriptorInv
    BY <1>1, <2>1 DEF IndInv, RequestInv
  <2>3. QED
    BY <2>1, <2>2 DEF LiveInv, DescriptorInv, InDestructor
<1>2. QED
  BY <1>1, Invariant, PTL

\* close() is only called on descriptors that the interface owns: AcceptRequests
\* and the destructor never close one that another part of the program opened.
THEOREM ForeignNeverClosed == Spec => ForeignDescriptorsKept
<1> DEFINE Kept == \A c \in FDs : kfd[c] = "foreign" => kfd'[c] = "foreign"
<1>1. ASSUME IndInv, Next PROVE Kept
  <2>1. TypeOK /\ DescriptorInv /\ ReadingInv
    BY <1>1, BaseFacts
  <2>2. CASE ReadStep
    BY <2>2, ReadKfd
  <2>3. ASSUME NEW o \in Objs, RequestStep(o) \/ RequestCall(o) PROVE Kept
    BY <2>3 DEF RequestStep, RequestCall, CallWrite, AcquireWriteMutex, WriteSucceeds,
                WriteFails, WriteFindsClosure, TearRecord, ReportFailure,
                ScheduleClosure, Destroy, DestroySchedules, AbortStatus
  <2>4. CASE Cleanup
    <3>1. \A c \in Removed : kfd[c] = "socket"
      BY <2>1, <2>4, RemovedFree DEF Cleanup, At, DescriptorInv
    <3>2. \A c \in IdleDummies : kfd[c] = "listen"
      BY <2>1, <2>4 DEF Cleanup, At, DescriptorInv, InDestructor, IdleDummies
    <3>3. QED
      BY <2>4, <3>1, <3>2 DEF Cleanup, CleanDescriptors, ToDummy, ToClose
  <2>5. CASE DestructorClosesDummies
    BY <2>1, <2>5 DEF DestructorClosesDummies, CloseAll, At, DescriptorInv, InDestructor
  <2>6. ASSUME NEW c \in FDs, DestructorCloses(c) PROVE Kept
    BY <2>1, <2>6 DEF DestructorCloses, First, CloseAll, At, DescriptorInv, ReadingInv
  <2>7. ASSUME NEW c \in FDs, AcceptConnection(c) \/ ForeignOpen(c) PROVE Kept
    BY <2>1, <2>7 DEF AcceptConnection, ForeignOpen, TypeOK
  <2>8. ASSUME OtherStep, ~Cleanup, ~DestructorClosesDummies,
               \A c \in FDs : ~DestructorCloses(c) /\ ~AcceptConnection(c) /\ ~ForeignOpen(c)
        PROVE  kfd' = kfd
    BY <2>8 DEF OtherStep, Select, CheckAfterSelect, ReadNextConnection,
         LockToConstruct, ConstructRequest, LeaveLoop, RejectConnection, AcceptThrows,
         Return, ReadThrows, Throw, DestructorLocks, DestructorReturns, InterfaceCall,
         Construct, ReturnBuffered, SetOverload, Environment, ClientConnects,
         ClientSends, ClientCloses, SelectInterrupted
  <2>9. QED
    BY <1>1, <2>2, <2>3, <2>4, <2>5, <2>6, <2>7, <2>8, NextCases
<1>2. ASSUME UNCHANGED vars PROVE Kept
  BY <1>2 DEF vars
<1>3. IndInv /\ [Next]_vars => [Kept]_vars
  BY <1>1, <1>2
<1>4. QED
  BY <1>3, Invariant, PTL DEF Spec, ForeignDescriptorsKept
=============================================================================
