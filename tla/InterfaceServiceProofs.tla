----------------------- MODULE InterfaceServiceProofs -----------------------
(***************************************************************************)
(* What FcgiServerInterface promises about requests: they are counted, the *)
(* assigned ones have an owner, complete ones do not change, and whatever  *)
(* happens to threads, clients and sockets is a step of RequestService.    *)
(* ServiceInv, OwnerInv, HeldInv and TornInv are proved to be inductive    *)
(* relative to the invariant IndInv.                                       *)
(***************************************************************************)
EXTENDS InterfaceProofs

USE DEF clientVars, socketVars, idVars, mapVars, setVars, mutexVars, readVars

-----------------------------------------------------------------------------
(* The wake-up of the interface.                                           *)

\* A scheduled closure puts a byte into the self-pipe, or finds it full.
PipeEffect ==
  \/ UNCHANGED <<application_closure_request_set, pipe>>
  \/ pipe' = pipe + 1
  \/ pipe' = pipe /\ pipe >= PipeCapacity

LEMMA RequestPipe ==
  ASSUME TypeOK, NEW o \in Objs, RequestStep(o) \/ RequestCall(o)
  PROVE  PipeEffect
<1>1. ASSUME ScheduleClosure(o) \/ DestroySchedules(o) PROVE PipeEffect
  <2>1. pipe \in Int /\ PipeCapacity \in Int
    BY ConstantsAssumption DEF TypeOK
  <2>2. QED
    BY <1>1, <2>1 DEF ScheduleClosure, DestroySchedules, AddToClosureSet,
                      InterfacePipeWrite, PipeEffect
<1>2. QED
  BY <1>1 DEF RequestStep, RequestCall, CallWrite, AcquireWriteMutex, WriteSucceeds,
              WriteFails, WriteFindsClosure, ReportFailure, Destroy, AbortStatus,
              PipeEffect

\* select is reached with an empty closure set, and left by every other step.
SelectEffect ==
  ipc' = "select" => \/ application_closure_request_set' = {}
                     \/ UNCHANGED <<ipc, application_closure_request_set, pipe>>

LEMMA OtherSelect ==
  ASSUME OtherStep
  PROVE  SelectEffect
BY DEF OtherStep, Select, CheckAfterSelect, ReadNextConnection, LockToConstruct,
       ConstructRequest, LeaveLoop, AcceptConnection, RejectConnection, AcceptThrows,
       Return, ReadThrows, Throw, LeaveAcceptRequests, DestructorLocks,
       DestructorCloses, DestructorReturns, InterfaceCall, Construct,
       DestructorClosesDummies, ReturnBuffered, Cleanup, SetOverload, Environment,
       ClientConnects, ClientSends, ClientCloses, ForeignOpen, SelectInterrupted,
       environmentFrame, At, SelectEffect

LEMMA WakeupStep ==
  ASSUME TypeOK, NoLostWakeup, Next
  PROVE  NoLostWakeup'
<1>1. CASE ReadStep
  BY <1>1, ReadStepMutexEffect DEF ReadMutexEffect, Reading, NoLostWakeup
<1>2. CASE OtherStep
  BY <1>2, OtherSelect DEF SelectEffect, NoLostWakeup
<1>3. ASSUME NEW o \in Objs, RequestStep(o) \/ RequestCall(o)
      PROVE  NoLostWakeup'
  <2>1. ipc' = ipc
    BY <1>3, RequestKeepsReading DEF requestFrame
  <2>2. pipe \in Nat /\ PipeCapacity \in Nat \ {0}
    BY ConstantsAssumption DEF TypeOK
  <2>3. QED
    BY <1>3, <2>1, <2>2, RequestPipe DEF PipeEffect, NoLostWakeup
<1>4. QED
  BY <1>1, <1>2, <1>3, NextCases

\* InterfacePipeWrite and the cleanup that empties the pipe: no interface blocks in
\* select while the closure of a connection is requested, so none is forgotten.
THEOREM WakeupNeverLost == Spec => []NoLostWakeup
<1>1. Init => NoLostWakeup
  BY DEF Init, NoLostWakeup
<1>2. TypeOK /\ NoLostWakeup /\ [Next]_vars => NoLostWakeup'
  <2>1. ASSUME NoLostWakeup, UNCHANGED vars PROVE NoLostWakeup'
    BY <2>1 DEF vars, NoLostWakeup
  <2>2. QED
    BY <2>1, WakeupStep
<1>3. QED
  BY <1>1, <1>2, TypeCorrect, PTL DEF Spec

-----------------------------------------------------------------------------
(* Who has a write mutex.                                                  *)

\* Steps outside the calls of an object leave an object in a call alone.
LEMMA OtherCallsKept ==
  ASSUME OtherStep, TypeOK, NEW o \in Objs, obj[o].pc \notin {"free", "held"}
  PROVE  obj'[o] = obj[o]
BY OtherObjectsCases, ZenonT(30)
   DEF HandOver, KeepForNextCall, DestructorReturns, ConstructRequest, FreeObjects, TypeOK

\* The interface thread sends only in ReadRecords.
LEMMA OtherSending ==
  ASSUME OtherStep, ipc = "sending"
  PROVE  UNCHANGED <<ipc, cur>>
BY DEF OtherStep, Select, CheckAfterSelect, ReadNextConnection, LockToConstruct,
       ConstructRequest, LeaveLoop, AcceptConnection, RejectConnection, AcceptThrows,
       Return, ReadThrows, Throw, DestructorLocks,
       DestructorCloses, DestructorReturns, InterfaceCall, Construct,
       DestructorClosesDummies, ReturnBuffered, Cleanup, SetOverload, Environment,
       ClientConnects, ClientSends, ClientCloses, ForeignOpen, SelectInterrupted,
       environmentFrame, At

\* The end of a write of SendRecord.
SendEnds == \/ SendSucceeds
            \/ \E partial \in BOOLEAN, place \in {"send_failed", "send_threw"} :
                 SendFails(partial, place)
            \/ \E partial \in BOOLEAN : SendFindsClosure(partial)

LEMMA ReadSending ==
  ASSUME ReadStep, ipc = "sending"
  PROVE  SendEnds
BY DEF ReadStep, SocketRead, SocketReadEnd, SocketReadError, ReadRecordsReturns,
       HeaderLocal, HeaderChecked, BodyKept, BodyAppended, CompleteIgnored,
       CompleteManagement, CompleteBegin, AddRequest, CompleteAbort, Completes,
       CompleteStreamEnd, RejectMalformed, SendAcquires, SendLocksInterface,
       SendSchedules, At, SendEnds

LEMMA RequestOwner ==
  ASSUME IndInv, OwnerInv, NEW o \in Objs, RequestStep(o) \/ RequestCall(o)
  PROVE  OwnerInv'
<1>1. /\ TypeOK /\ KeyInv /\ MutexEffect(o)
      /\ \A p \in Objs : p # o => obj'[p] = obj[p]
      /\ obj'[o].pc # "free" => obj'[o].key = obj[o].key
  BY BaseFacts, RequestMutexEffect, RequestChangesObject, ObjectIdentity
<1>2. UNCHANGED <<ipc, cur>>
  BY RequestKeepsReading DEF requestFrame
<1>3. ASSUME NEW c \in FDs, NEW p \in Objs, wmutex'[c] = p
      PROVE  obj'[p].pc = "writing" /\ Fd(p)' = c
  <2>1. CASE p = o
    <3>1. obj[o].pc # "writing" \/ wmutex[c] # o => Fd(o) = c /\ obj'[o].pc = "writing"
      BY <1>1, <1>3, <2>1, Threads DEF MutexEffect, TypeOK, OwnerInv
    <3>2. obj[o].pc = "writing" /\ wmutex[c] = o => FALSE
      BY <1>1, <1>3, <2>1, Threads DEF MutexEffect, TypeOK, OwnerInv
    <3>3. QED
      BY <1>1, <2>1, <3>1, <3>2 DEF Fd
  <2>2. CASE p # o
    <3>1. wmutex[c] = p
      BY <1>1, <1>3, <2>2, Threads DEF MutexEffect, TypeOK
    <3>2. QED
      BY <1>1, <2>2, <3>1 DEF OwnerInv, Fd
  <2>3. QED
    BY <2>1, <2>2
<1>4. ASSUME NEW c \in FDs, wmutex'[c] = Interface
      PROVE  ipc' = "sending" /\ cur' = c
  <2>1. wmutex[c] = Interface
    BY <1>1, <1>4, Threads DEF MutexEffect, TypeOK
  <2>2. QED
    BY <1>2, <2>1 DEF OwnerInv
<1>5. QED
  BY <1>3, <1>4 DEF OwnerInv

LEMMA ReadOwner ==
  ASSUME IndInv, OwnerInv, ReadStep
  PROVE  OwnerInv'
<1>1. TypeOK /\ cur \in FDs /\ UNCHANGED <<obj, cur>> /\ ReadMutexEffect
  BY ReadBasics, ReadStepMutexEffect
<1>2. ASSUME NEW c \in FDs, NEW p \in Objs, wmutex'[c] = p
      PROVE  obj'[p].pc = "writing" /\ Fd(p)' = c
  <2>1. wmutex[c] = p
    BY <1>1, <1>2, Threads DEF ReadMutexEffect, TypeOK
  <2>2. QED
    BY <1>1, <2>1 DEF OwnerInv, Fd
<1>3. ipc = "sending" => ipc' # "sending" /\ wmutex' = [wmutex EXCEPT ![cur] = Nobody]
  BY ReadSending DEF SendEnds, SendSucceeds, SendFails, SendFindsClosure
<1>4. ASSUME NEW c \in FDs, wmutex'[c] = Interface
      PROVE  ipc' = "sending" /\ cur' = c
  BY <1>1, <1>3, <1>4, Threads DEF ReadMutexEffect, TypeOK, OwnerInv
<1>5. QED
  BY <1>2, <1>4 DEF OwnerInv

LEMMA OwnerStep ==
  ASSUME IndInv, OwnerInv, Next
  PROVE  OwnerInv'
<1>1. CASE OtherStep
  <2>1. TypeOK /\ wmutex' = wmutex
    BY <1>1, BaseFacts, OtherStepMutexEffect DEF OtherMutexEffect
  <2>2. QED
    BY <1>1, <2>1, OtherCallsKept, OtherSending DEF OwnerInv, Fd
<1>2. QED
  BY <1>1, NextCases, ReadOwner, RequestOwner

-----------------------------------------------------------------------------
(* Requests that AcceptRequests holds are of the current interface.        *)

\* A thread only uses objects that were handed over, and never hands one back.
LEMMA RequestPlaces ==
  ASSUME TypeOK, NEW o \in Objs, RequestStep(o) \/ RequestCall(o)
  PROVE  obj[o].pc \notin {"free", "held"} /\ obj'[o].pc # "held"
<1>1. ASSUME Completed(o) PROVE obj'[o].pc # "held"
  BY <1>1, CompletedEffect
<1>2. ASSUME NEW place, Goto(o, place), place # "held" PROVE obj'[o].pc # "held"
  BY <1>2, GotoEffect
<1>3. ASSUME NEW schedule, RemoveAndSchedule(o, schedule) PROVE obj'[o].pc # "held"
  BY <1>1, <1>2, <1>3 DEF RemoveAndSchedule
<1>4. ASSUME NEW force, AfterFailure(o, force) PROVE obj'[o].pc # "held"
  BY <1>3, <1>4, FailedEffect DEF AfterFailure
<1>5. ASSUME NEW op \in {"Write", "Complete"}, CallWrite(o, op)
      PROVE  obj[o].pc = "ready" /\ obj'[o].pc # "held"
  BY <1>1, <1>5, LockedEffect DEF CallWrite, StateCheckFails, PcIs
<1>6. ASSUME AcquireWriteMutex(o) PROVE obj[o].pc = "locked" /\ obj'[o].pc # "held"
  BY <1>1, <1>2, <1>6 DEF AcquireWriteMutex, PcIs
<1>7. ASSUME WriteSucceeds(o) PROVE obj[o].pc = "writing" /\ obj'[o].pc # "held"
  BY <1>2, <1>3, <1>7 DEF WriteSucceeds, PcIs
<1>8. ASSUME NEW partial, WriteFails(o, partial) \/ WriteFindsClosure(o, partial)
      PROVE  obj[o].pc = "writing" /\ obj'[o].pc # "held"
  BY <1>4, <1>8 DEF WriteFails, WriteFindsClosure, PcIs
<1>9. ASSUME ReportFailure(o) PROVE obj[o].pc = "failed" /\ obj'[o].pc # "held"
  BY <1>1, <1>3, <1>9 DEF ReportFailure, StateCheckFails, PcIs
<1>10. ASSUME ScheduleClosure(o) \/ DestroySchedules(o)
       PROVE  obj[o].pc \in {"closing", "dtor"} /\ obj'[o].pc # "held"
  BY <1>1, <1>10 DEF ScheduleClosure, DestroySchedules, AddToClosureSet, PcIs
<1>11. ASSUME Destroy(o) PROVE obj[o].pc = "ready" /\ obj'[o].pc # "held"
  BY <1>1, <1>2, <1>11 DEF Destroy, PcIs
<1>12. ASSUME AbortStatus(o) PROVE obj[o].pc = "ready" /\ obj'[o].pc # "held"
  BY <1>1, <1>12, AbortedEffect DEF AbortStatus, PcIs
<1>13. QED
  BY <1>5, <1>6, <1>7, <1>8, <1>9, <1>10, <1>11, <1>12 DEF RequestStep, RequestCall

LEMMA HeldStep ==
  ASSUME IndInv, HeldInv, Next
  PROVE  HeldInv'
<1>1. TypeOK /\ KeyInv /\ IdentifierInv
  BY BaseFacts
<1>2. SUFFICES ASSUME NEW o \in Objs, obj'[o].pc = "held"
               PROVE  obj'[o].iid = interface_identifier'
  BY DEF HeldInv
<1>3. CASE ReadStep
  BY <1>2, <1>3, ReadBasics DEF HeldInv
<1>4. ASSUME NEW p \in Objs, RequestStep(p) \/ RequestCall(p)
      PROVE  obj'[o].iid = interface_identifier'
  <2>1. o # p /\ obj'[o] = obj[o] /\ interface_identifier' = interface_identifier
    BY <1>1, <1>2, <1>4, RequestPlaces, RequestChangesObject, ObjectIdentity,
       RequestKeepsReading DEF requestFrame
  <2>2. QED
    BY <1>2, <2>1 DEF HeldInv
<1>5. ASSUME NEW id \in Ids, ConstructRequest(o, id)
      PROVE  obj'[o].iid = interface_identifier'
  BY <1>1, <1>5, ConstructedObject DEF ConstructRequest
<1>6. CASE OtherStep /\ \A id \in Ids : ~ConstructRequest(o, id)
  <2>1. obj'[o] = obj[o]
    BY <1>1, <1>2, <1>6, OtherObjectIdentity
  <2>2. ~DestructorReturns
    BY <1>2, <2>1 DEF DestructorReturns, NoObject
  <2>3. ~Construct
    BY <1>1, <1>2, <2>1 DEF Construct, At, IdentifierInv, HeldInv
  <2>4. interface_identifier' = interface_identifier
    BY <1>6, <2>2, <2>3, OtherKeeps DEF OtherKeepEffect, Cleanup, ConstructRequest
  <2>5. QED
    BY <1>2, <2>1, <2>4 DEF HeldInv
<1>7. QED
  BY <1>3, <1>4, <1>5, <1>6, NextCases

-----------------------------------------------------------------------------
(* Incomplete records.                                                     *)

\* What the thread t may do to the wire of c: nothing, acquire the write mutex,
\* and release it after a write that succeeded, failed, or found the peer gone.
WireEffect(c, t) ==
  \/ UNCHANGED <<torn, peer, wbad, wmutex>>
  \/ /\ UNCHANGED <<torn, peer, wbad>> /\ ~wbad[c]
     /\ wmutex' = [wmutex EXCEPT ![c] = t]
  \/ /\ wmutex[c] = t /\ wmutex' = [wmutex EXCEPT ![c] = Nobody]
     /\ \/ UNCHANGED <<torn, peer, wbad>> /\ CanWrite(c)
        \/ \E partial \in BOOLEAN : /\ CanFail(c) /\ TearRecord(c, partial)
                                    /\ MarkCorrupt(c, partial) /\ UNCHANGED peer
        \/ \E partial \in BOOLEAN : /\ TearRecord(c, partial)
                                    /\ peer' = [peer EXCEPT ![c] = "reset"]
                                    /\ UNCHANGED wbad \/ MarkCorrupt(c, partial)

\* No incomplete record is followed by another one, and none is left unmarked.
LEMMA WireKeepsTorn ==
  ASSUME TypeOK, TypeOK', TornInv, NEW c \in FDs, NEW t, t # Nobody, WireEffect(c, t),
         wmutex[c] = t => c \in connections /\ ~(ipc = "dtor_locked" /\ c \notin ready),
         connections' = connections,
         ipc' = "dtor_locked" => ipc = "dtor_locked" /\ ready' = ready
  PROVE  TornInv'
<1>1. \A d \in FDs : d # c => /\ torn'[d] = torn[d] /\ peer'[d] = peer[d]
                              /\ wbad'[d] = wbad[d] /\ wmutex'[d] = wmutex[d]
  <2>1. \A d \in FDs : d # c => torn'[d] = torn[d]
    BY DEF WireEffect, TearRecord, TypeOK
  <2>2. \A d \in FDs : d # c => peer'[d] = peer[d]
    BY DEF WireEffect, TypeOK
  <2>3. \A d \in FDs : d # c => wbad'[d] = wbad[d]
    BY DEF WireEffect, MarkCorrupt, TypeOK
  <2>4. \A d \in FDs : d # c => wmutex'[d] = wmutex[d]
    BY DEF WireEffect, TypeOK
  <2>5. QED
    BY <2>1, <2>2, <2>3, <2>4
<1>2. ASSUME torn'[c]
      PROVE  /\ c \in connections
             /\ ~(ipc = "dtor_locked" /\ c \notin ready)
             /\ peer'[c] = "reset" \/ (wmutex'[c] = Nobody /\ wbad'[c])
  <2>1. CASE UNCHANGED <<torn, peer, wbad, wmutex>>
    BY <1>2, <2>1 DEF TornInv
  <2>2. CASE UNCHANGED <<torn, peer, wbad>> /\ ~wbad[c]
    BY <1>2, <2>2 DEF TornInv
  <2>3. CASE wmutex[c] = t /\ UNCHANGED <<torn, peer, wbad>> /\ CanWrite(c)
    BY <1>2, <2>3 DEF TornInv, CanWrite
  <2>4. ASSUME NEW partial \in BOOLEAN, wmutex[c] = t, CanFail(c),
               TearRecord(c, partial), MarkCorrupt(c, partial),
               wmutex' = [wmutex EXCEPT ![c] = Nobody]
        PROVE  /\ c \in connections
               /\ ~(ipc = "dtor_locked" /\ c \notin ready)
               /\ peer'[c] = "reset" \/ (wmutex'[c] = Nobody /\ wbad'[c])
    <3>1. ~torn[c]
      BY <2>4 DEF TornInv, CanFail
    <3>2. partial
      BY <1>2, <2>4, <3>1 DEF TearRecord, TypeOK
    <3>3. wbad'[c] /\ wmutex'[c] = Nobody
      BY <2>4, <3>2 DEF MarkCorrupt, TypeOK
    <3>4. QED
      BY <2>4, <3>3
  <2>5. ASSUME wmutex[c] = t, peer' = [peer EXCEPT ![c] = "reset"]
        PROVE  c \in connections /\ ~(ipc = "dtor_locked" /\ c \notin ready)
               /\ peer'[c] = "reset"
    BY <2>5 DEF TypeOK
  <2>6. QED
    BY <2>1, <2>2, <2>3, <2>4, <2>5 DEF WireEffect
<1>3. QED
  BY <1>1, <1>2 DEF TornInv

LEMMA RequestWire ==
  ASSUME IndInv, NEW o \in Objs, RequestStep(o) \/ RequestCall(o)
  PROVE  Fd(o) \in FDs /\ WireEffect(Fd(o), o)
<1>1. TypeOK /\ KeyInv /\ MutexInv
  BY BaseFacts
<1>2. obj[o].pc = "writing" => wmutex[Fd(o)] = o
  BY <1>1 DEF MutexInv
<1>3. Fd(o) \in FDs
  BY <1>1, RequestPlaces DEF KeyInv, Keys, Fd
<1>4. ASSUME AcquireWriteMutex(o) PROVE WireEffect(Fd(o), o)
  BY <1>4 DEF AcquireWriteMutex, WireEffect
<1>5. ASSUME WriteSucceeds(o) PROVE WireEffect(Fd(o), o)
  BY <1>2, <1>5 DEF WriteSucceeds, PcIs, WireEffect
<1>6. ASSUME NEW partial \in BOOLEAN, WriteFails(o, partial)
      PROVE  WireEffect(Fd(o), o)
  BY <1>2, <1>6 DEF WriteFails, AfterFailure, PcIs, WireEffect
<1>7. ASSUME NEW partial \in BOOLEAN, WriteFindsClosure(o, partial)
      PROVE  WireEffect(Fd(o), o)
  BY <1>2, <1>7 DEF WriteFindsClosure, AfterFailure, PcIs, WireEffect
<1>8. ASSUME \/ \E op \in {"Write", "Complete"} : CallWrite(o, op)
             \/ ReportFailure(o) \/ ScheduleClosure(o) \/ Destroy(o)
             \/ DestroySchedules(o) \/ AbortStatus(o)
      PROVE  WireEffect(Fd(o), o)
  BY <1>8 DEF CallWrite, ReportFailure, ScheduleClosure, Destroy, DestroySchedules,
              AbortStatus, WireEffect
<1>9. QED
  BY <1>3, <1>4, <1>5, <1>6, <1>7, <1>8 DEF RequestStep, RequestCall

LEMMA ReadWire ==
  ASSUME IndInv, ReadStep
  PROVE  WireEffect(cur, Interface)
<1>1. ipc = "sending" => wmutex[cur] = Interface
  BY BaseFacts DEF MutexInv
<1>2. ASSUME SendAcquires PROVE WireEffect(cur, Interface)
  BY <1>2 DEF SendAcquires, WireEffect
<1>3. ASSUME SendEnds PROVE WireEffect(cur, Interface)
  BY <1>1, <1>3 DEF SendEnds, SendSucceeds, SendFails, SendFindsClosure, At, WireEffect
<1>4. ASSUME ReadStep, ~SendAcquires, ~SendEnds
      PROVE  UNCHANGED <<torn, peer, wbad, wmutex>>
  BY <1>4 DEF ReadStep, SocketRead, SocketReadEnd, SocketReadError, ReadRecordsReturns,
       HeaderLocal, HeaderChecked, BodyKept, BodyAppended, CompleteIgnored,
       CompleteManagement, CompleteBegin, AddRequest, CompleteAbort,
       CompleteStreamEnd, RejectMalformed, SendEnds, SendLocksInterface,
       SendSchedules, InterfaceCheck, ThrowsFromRead, completeFrame, sendFrame
<1>5. QED
  BY <1>2, <1>3, <1>4 DEF WireEffect

\* Closing a descriptor ends its story.
LEMMA OtherTorn ==
  ASSUME IndInv, TornInv, OtherStep
  PROVE  TornInv'
<1>1. TypeOK /\ DescriptorInv /\ ReadingInv
  BY BaseFacts
<1>2. CASE Cleanup
  BY <1>2 DEF Cleanup, CleanDescriptors, At, TornInv
<1>3. CASE DestructorClosesDummies
  BY <1>1, <1>3 DEF DestructorClosesDummies, CloseAll, At, DescriptorInv, TornInv
<1>4. CASE DestructorLocks
  BY <1>4 DEF DestructorLocks, SocketsToClose, TornInv
<1>5. ASSUME NEW c \in FDs, DestructorCloses(c) PROVE TornInv'
  BY <1>5 DEF DestructorCloses, CloseAll, At, TornInv
<1>6. CASE DestructorReturns
  BY <1>6 DEF DestructorReturns, At, TornInv
<1>7. ASSUME NEW c \in FDs, AcceptConnection(c) PROVE TornInv'
  BY <1>7 DEF AcceptConnection, At, TornInv
<1>8. ASSUME NEW c \in FDs, ClientCloses(c) PROVE TornInv'
  BY <1>1, <1>8 DEF ClientCloses, environmentFrame, TornInv, TypeOK
<1>9. ASSUME \/ Select \/ CheckAfterSelect \/ \E c \in FDs : ReadNextConnection(c)
             \/ LockToConstruct \/ \E o \in Objs, id \in Ids : ConstructRequest(o, id)
             \/ LeaveLoop \/ RejectConnection \/ AcceptThrows \/ Return \/ ReadThrows
             \/ Throw \/ Construct \/ ReturnBuffered \/ SelectInterrupted
      PROVE  UNCHANGED <<torn, peer, wbad, wmutex, connections>> /\ ipc' # "dtor_locked"
  BY <1>9 DEF Select, CheckAfterSelect, ReadNextConnection, LockToConstruct,
              ConstructRequest, LeaveLoop, RejectConnection, AcceptThrows, Return,
              ReadThrows, Throw, Construct, ReturnBuffered, SelectInterrupted,
              LeaveAcceptRequests, At
<1>10. ASSUME \/ \E value \in Overloads : SetOverload(value)
              \/ ClientConnects
              \/ \E c \in FDs : (\E rec \in Records : ClientSends(c, rec)) \/ ForeignOpen(c)
       PROVE  UNCHANGED <<torn, peer, wbad, wmutex, connections, ipc, ready>>
  BY <1>10 DEF SetOverload, ClientConnects, ClientSends, ForeignOpen, environmentFrame
<1>11. CASE UNCHANGED <<torn, peer, wbad, wmutex, connections>> /\ ipc' # "dtor_locked"
  BY <1>11 DEF TornInv
<1>12. CASE UNCHANGED <<torn, peer, wbad, wmutex, connections, ipc, ready>>
  BY <1>12 DEF TornInv
<1>13. CASE Environment
  BY <1>8, <1>9, <1>10, <1>11, <1>12, <1>13 DEF Environment
<1>14. CASE InterfaceCall
  BY <1>2, <1>3, <1>9, <1>10, <1>11, <1>12, <1>14 DEF InterfaceCall
<1>15. QED
  BY <1>4, <1>5, <1>6, <1>7, <1>9, <1>11, <1>13, <1>14 DEF OtherStep

LEMMA TornStep ==
  ASSUME IndInv, OwnerInv, TypeOK', TornInv, Next
  PROVE  TornInv'
<1>1. TypeOK /\ MutexInv /\ ThreadInv
  BY BaseFacts
<1>2. CASE ReadStep
  <2>1. /\ cur \in connections /\ cur \in FDs /\ connections' = connections
        /\ ipc # "dtor_locked" /\ ipc' # "dtor_locked"
    BY <1>2, ReadBasics, ReadStepMutexEffect DEF ReadMutexEffect, Reading
  <2>2. QED
    BY <1>1, <1>2, <2>1, ReadWire, WireKeepsTorn, Threads
<1>3. ASSUME NEW o \in Objs, RequestStep(o) \/ RequestCall(o)
      PROVE  TornInv'
  <2>1. Fd(o) \in FDs /\ WireEffect(Fd(o), o)
    BY <1>3, RequestWire
  <2>2. UNCHANGED <<connections, ipc, ready>>
    BY <1>3, RequestKeepsReading DEF requestFrame
  <2>3. CASE wmutex[Fd(o)] = o /\ obj[o].pc = "writing"
    <3>1. Fd(o) \in connections /\ ~(ipc = "dtor_locked" /\ Fd(o) \notin ready)
      BY <1>1, <2>3, Threads DEF ThreadInv, MutexInv
    <3>2. QED
      BY <1>1, <2>1, <2>2, <3>1, WireKeepsTorn, Threads
  <2>4. CASE obj[o].pc # "writing"
    <3>1. wmutex[Fd(o)] # o
      BY <2>1, <2>4 DEF OwnerInv
    <3>2. QED
      BY <1>1, <2>1, <2>2, <3>1, WireKeepsTorn, Threads
  <2>5. QED
    BY <1>1, <2>3, <2>4 DEF MutexInv
<1>4. QED
  BY <1>2, <1>3, OtherTorn, NextCases

\* The mutexes of connections, incomplete records and requests that are not yet
\* with the application.
OwnersInv == OwnerInv /\ HeldInv /\ TornInv

LEMMA OwnersInvariant == Spec => []OwnersInv
<1>1. Init => OwnersInv
  BY Threads DEF Init, NoObject, OwnersInv, OwnerInv, HeldInv, TornInv
<1>2. ASSUME IndInv, IndInv', OwnersInv, Next PROVE OwnersInv'
  BY <1>2, OwnerStep, HeldStep, TornStep, BaseFacts DEF OwnersInv, IndInv
<1>3. ASSUME OwnersInv, UNCHANGED vars PROVE OwnersInv'
  BY <1>3 DEF vars, OwnersInv, OwnerInv, HeldInv, TornInv, Fd
<1>4. IndInv /\ IndInv' /\ OwnersInv /\ [Next]_vars => OwnersInv'
  BY <1>2, <1>3
<1>5. QED
  BY <1>1, <1>4, Invariant, PTL DEF Spec

\* SendRecord and the writers of FcgiRequest: whoever acquires a write mutex after a
\* write that stopped in the middle of a record does not write, or finds the peer gone.
THEOREM NothingFollowsTornRecord == Spec => []NothingAfterTornRecord
<1>1. OwnersInv => NothingAfterTornRecord
  BY DEF OwnersInv, TornInv, NothingAfterTornRecord
<1>2. QED
  BY <1>1, OwnersInvariant, PTL

StaleUnchanged == UNCHANGED <<socketVars, mapVars, setVars, bad, imutex, wbad>>

\* An object of an earlier interface is not in the middle of a call.
LEMMA StaleRequest ==
  ASSUME TypeOK, ThreadInv, NEW o \in Objs, RequestStep(o) \/ RequestCall(o),
         obj[o].iid # interface_identifier
  PROVE  StaleUnchanged
<1>1. ~Alive(o) /\ ~StateCheckPasses(o)
  BY DEF Alive, StateCheckPasses
<1>2. obj[o].pc \notin {"locked", "writing", "closing", "dtor"}
  BY DEF ThreadInv
<1>3. ASSUME NEW op \in {"Write", "Complete"}, CallWrite(o, op) PROVE StaleUnchanged
  BY <1>1, <1>3 DEF CallWrite, StateCheckFails, KeepRequests, requestFrame,
                    StaleUnchanged
<1>4. ASSUME ReportFailure(o) PROVE StaleUnchanged
  BY <1>1, <1>4 DEF ReportFailure, StateCheckFails, KeepRequests, requestFrame,
                    StaleUnchanged
<1>5. ASSUME Destroy(o) PROVE StaleUnchanged
  BY <1>1, <1>5 DEF Destroy, KeepRequests, requestFrame, StaleUnchanged
<1>6. ASSUME AbortStatus(o) PROVE StaleUnchanged
  BY <1>1, <1>6 DEF AbortStatus, KeepRequests, requestFrame, StaleUnchanged
<1>7. ~AcquireWriteMutex(o) /\ ~WriteSucceeds(o) /\ ~ScheduleClosure(o)
  BY <1>2 DEF AcquireWriteMutex, WriteSucceeds, ScheduleClosure, PcIs
<1>8. /\ ~DestroySchedules(o)
      /\ \A partial \in BOOLEAN : ~WriteFails(o, partial) /\ ~WriteFindsClosure(o, partial)
  BY <1>2 DEF WriteFails, WriteFindsClosure, DestroySchedules, PcIs
<1>9. QED
  BY <1>3, <1>4, <1>5, <1>6, <1>7, <1>8 DEF RequestStep, RequestCall

\* An FcgiRequest that outlives its interface finds by the identifier that it is gone
\* and touches nothing of a later one.
THEOREM StaleRequestsChangeNothing == Spec => StaleRequestsHarmless
<1> DEFINE Harmless ==
      \A o \in Objs : obj[o].iid # interface_identifier /\ obj'[o] # obj[o]
                        /\ obj[o].pc # "free"
        => UNCHANGED <<socketVars, mapVars, setVars, bad, imutex, wbad>>
<1>1. ASSUME IndInv, OwnersInv, Next PROVE Harmless
  <2>1. SUFFICES ASSUME NEW o \in Objs, obj[o].iid # interface_identifier,
                        obj'[o] # obj[o], obj[o].pc # "free"
                 PROVE  StaleUnchanged
    BY DEF StaleUnchanged
  <2>2. TypeOK /\ KeyInv /\ ThreadInv /\ HeldInv
    BY <1>1, BaseFacts DEF OwnersInv
  <2>3. CASE ReadStep
    BY <1>1, <2>1, <2>3, ReadBasics
  <2>4. CASE OtherStep
    <3>1. obj[o].pc # "held"
      BY <2>1, <2>2 DEF HeldInv
    <3>2. QED
      BY <2>1, <2>2, <2>4, <3>1, OtherCallsKept
  <2>5. ASSUME NEW p \in Objs, RequestStep(p) \/ RequestCall(p) PROVE StaleUnchanged
    <3>1. p = o
      BY <2>1, <2>2, <2>5, RequestChangesObject, ObjectIdentity
    <3>2. QED
      BY <2>1, <2>2, <2>5, <3>1, StaleRequest
  <2>6. QED
    BY <1>1, <2>3, <2>4, <2>5, NextCases
<1>2. ASSUME UNCHANGED vars PROVE Harmless
  BY <1>2 DEF vars
<1>3. IndInv /\ OwnersInv /\ [Next]_vars => [Harmless]_vars
  BY <1>1, <1>2
<1>4. QED
  BY <1>3, Invariant, OwnersInvariant, PTL DEF Spec, StaleRequestsHarmless

-----------------------------------------------------------------------------
(* What a step may do to one request, and to the count of its connection.  *)

\* A record is added to a request that is being received.
Updated(k) ==
  /\ request_map[k].status = "pending" /\ ~AllComplete(k)
  /\ \E rd \in RequestDataType :
       /\ rd.status = "pending"
       /\ CheckRequestCompletion(rd) => \A s \in StreamTypes : rd.complete[s]
       /\ request_map' = [request_map EXCEPT ![k] = rd]
  /\ UNCHANGED request_count_map

\* The owner of a request is told of an abort.
Told(k) ==
  /\ request_map[k].status = "assigned"
  /\ request_map' = [request_map EXCEPT ![k].abort = TRUE]
  /\ UNCHANGED request_count_map

Added(k) ==
  /\ request_map[k].status = "absent"
  /\ request_count_map[k[1]] \in 0..(MaxRequests - 1)
  /\ \E role \in Roles, close \in BOOLEAN :
       request_map' = [request_map EXCEPT ![k] = NewRequestData(role, close)]
  /\ request_count_map' = [request_count_map EXCEPT ![k[1]] = @ + 1]

Erased(k) ==
  /\ request_map[k].status # "absent"
  /\ request_map' = [request_map EXCEPT ![k] = NoRequest]
  /\ request_count_map' = [request_count_map EXCEPT ![k[1]] = @ - 1]

LEMMA RequestsFinite ==
  ASSUME NEW c
  PROVE  IsFiniteSet(RequestsOn(c)) /\ Cardinality(RequestsOn(c)) \in Nat
<1>1. IsFiniteSet(Keys)
  BY ConstantsAssumption, FS_Product DEF Keys
<1>2. RequestsOn(c) \in SUBSET Keys
  BY DEF RequestsOn
<1>3. QED
  BY <1>1, <1>2, FS_Subset, FS_CardinalityType

\* The counts depend only on which requests exist.
LEMMA CountsKept ==
  ASSUME RequestCountsExact, ~bad,
         UNCHANGED <<connections, dummy_descriptor_set, request_count_map>>,
         \A k \in Keys : request_map'[k].status = "absent" <=>
                           request_map[k].status = "absent"
  PROVE  RequestCountsExact'
<1>1. \A c : RequestsOn(c)' = RequestsOn(c)
  BY DEF RequestsOn
<1>2. QED
  BY <1>1 DEF RequestCountsExact

LEMMA CountsErased ==
  ASSUME TypeOK, RequestCountsExact, ~bad, NEW k \in Keys, Erased(k),
         UNCHANGED <<connections, dummy_descriptor_set>>
  PROVE  RequestCountsExact'
<1> DEFINE fd == k[1]
<1>1. fd \in FDs /\ k \in RequestsOn(fd)
  BY DEF Keys, RequestsOn, Erased
<1>2. RequestsOn(fd)' = RequestsOn(fd) \ {k}
  BY NoRequestFacts DEF RequestsOn, Erased, TypeOK
<1>3. \A c : c # fd => RequestsOn(c)' = RequestsOn(c)
  BY DEF RequestsOn, Erased, TypeOK
<1>4. Cardinality(RequestsOn(fd)') = Cardinality(RequestsOn(fd)) - 1
  BY <1>1, <1>2, RequestsFinite, FS_RemoveElement, SMTT(30)
<1>5. /\ fd \in connections \cup dummy_descriptor_set
      /\ request_count_map[fd] = Cardinality(RequestsOn(fd))
      /\ request_count_map[fd] <= MaxRequests
  BY <1>1 DEF RequestCountsExact
<1>6. /\ request_count_map'[fd] = request_count_map[fd] - 1
      /\ \A c \in FDs : c # fd => request_count_map'[c] = request_count_map[c]
  BY <1>1 DEF Erased, TypeOK
<1>7. request_count_map'[fd] = Cardinality(RequestsOn(fd)')
  BY <1>4, <1>5, <1>6
<1>8. request_count_map'[fd] <= MaxRequests
  BY <1>5, <1>6, RequestsFinite, ConstantsAssumption
<1>9. QED
  BY <1>3, <1>5, <1>6, <1>7, <1>8 DEF RequestCountsExact

LEMMA CountsAdded ==
  ASSUME TypeOK, RequestCountsExact, ~bad, NEW k \in Keys, Added(k),
         UNCHANGED <<connections, dummy_descriptor_set>>
  PROVE  RequestCountsExact'
<1> DEFINE fd == k[1]
<1>1. fd \in FDs /\ k \notin RequestsOn(fd)
  BY DEF Keys, RequestsOn, Added
<1>2. request_map'[k].status = "pending"
  BY DEF Added, NewRequestData, TypeOK
<1>3. RequestsOn(fd)' = RequestsOn(fd) \cup {k}
  BY <1>2 DEF RequestsOn, Added, TypeOK
<1>4. \A c : c # fd => RequestsOn(c)' = RequestsOn(c)
  BY DEF RequestsOn, Added, TypeOK
<1>5. Cardinality(RequestsOn(fd)') = Cardinality(RequestsOn(fd)) + 1
  BY <1>1, <1>3, RequestsFinite, FS_AddElement
<1>6. /\ fd \in connections \cup dummy_descriptor_set
      /\ request_count_map[fd] = Cardinality(RequestsOn(fd))
  BY <1>1 DEF RequestCountsExact, Added
<1>7. /\ request_count_map'[fd] = request_count_map[fd] + 1
      /\ \A c \in FDs : c # fd => request_count_map'[c] = request_count_map[c]
  BY <1>1 DEF Added, TypeOK
<1>8. request_count_map'[fd] = Cardinality(RequestsOn(fd)')
  BY <1>5, <1>6, <1>7
<1>9. request_count_map'[fd] <= MaxRequests
  BY <1>7, ConstantsAssumption DEF Added
<1>10. QED
  BY <1>4, <1>6, <1>7, <1>8, <1>9 DEF RequestCountsExact

\* A request that exists is counted, so that RemoveRequest finds nothing wrong.
LEMMA EraseErases ==
  ASSUME TypeOK, RequestCountsExact, ~bad, NEW k \in Keys,
         request_map[k].status # "absent", EraseRequest(k)
  PROVE  Erased(k) /\ bad' = bad
<1> DEFINE fd == k[1]
<1>1. fd \in FDs /\ k \in RequestsOn(fd)
  BY DEF Keys, RequestsOn
<1>2. Cardinality(RequestsOn(fd)) \in Nat /\ Cardinality(RequestsOn(fd)) # 0
  BY <1>1, RequestsFinite, FS_EmptySet
<1>3. request_count_map[fd] = Cardinality(RequestsOn(fd))
  BY <1>1 DEF RequestCountsExact
<1>4. ~(request_count_map[fd] < 1)
  BY <1>2, <1>3
<1>5. QED
  BY <1>4 DEF EraseRequest, Erased

OneRequest(k) == Updated(k) \/ Told(k) \/ Added(k) \/ Erased(k)

\* A new request is not complete: its FCGI_PARAMS stream is open.
LEMMA NewRequestOpen ==
  ASSUME NEW role \in Roles, NEW close \in BOOLEAN
  PROVE  ~CheckRequestCompletion(NewRequestData(role, close))
<1>1. "PARAMS" \in StreamTypes /\ "PARAMS" \notin Optional(role)
  BY DEF StreamTypes, Optional, Roles
<1>2. /\ ~NewRequestData(role, close).complete["PARAMS"]
      /\ NewRequestData(role, close).role = role
  BY <1>1 DEF NewRequestData
<1>3. QED
  BY <1>1, <1>2 DEF CheckRequestCompletion

LEMMA OtherRequestsKept ==
  ASSUME TypeOK, NEW k \in Keys, OneRequest(k)
  PROVE  \A j \in Keys : j # k => request_map'[j] = request_map[j]
BY DEF OneRequest, Updated, Told, Added, Erased, TypeOK

LEMMA ToldEffect ==
  ASSUME TypeOK, NEW k \in Keys, Told(k)
  PROVE  /\ request_map'[k].status = "assigned" /\ request_map'[k].data = request_map[k].data
         /\ request_map'[k].complete = request_map[k].complete
         /\ request_map'[k].role = request_map[k].role
         /\ request_map'[k].malformed = request_map[k].malformed
BY DEF Told, TypeOK, RequestDataType

LEMMA OneRequestStatus ==
  ASSUME TypeOK, NEW k \in Keys
  PROVE  /\ Updated(k) => request_map'[k].status = "pending"
         /\ Told(k)    => request_map'[k].status = "assigned"
         /\ Added(k)   => request_map'[k].status = "pending"
         /\ Erased(k)  => request_map'[k].status = "absent"
<1>1. Updated(k) => request_map'[k].status = "pending"
  BY DEF Updated, TypeOK
<1>2. Added(k) => request_map'[k].status = "pending"
  BY DEF Added, NewRequestData, TypeOK
<1>3. Erased(k) => request_map'[k].status = "absent"
  BY NoRequestFacts DEF Erased, TypeOK
<1>4. QED
  BY <1>1, <1>2, <1>3, ToldEffect

LEMMA CompletionKept ==
  ASSUME TypeOK, CompletionInv, NEW k \in Keys, OneRequest(k)
  PROVE  CompletionInv'
<1>1. ASSUME NEW j \in Keys, j # k, request_map'[j].status # "absent",
             CheckRequestCompletion(request_map'[j])
      PROVE  AllComplete(j)'
  BY <1>1, OtherRequestsKept DEF CompletionInv, AllComplete
<1>2. ASSUME request_map'[k].status # "absent", CheckRequestCompletion(request_map'[k])
      PROVE  AllComplete(k)'
  <2>1. CASE Updated(k)
    BY <1>2, <2>1 DEF Updated, AllComplete, TypeOK
  <2>2. CASE Told(k)
    <3>1. CheckRequestCompletion(request_map[k])
      BY <1>2, <2>2, ToldEffect DEF CheckRequestCompletion
    <3>2. request_map[k].status # "absent"
      BY <2>2 DEF Told
    <3>3. QED
      BY <2>2, <3>1, <3>2, ToldEffect DEF CompletionInv, AllComplete
  <2>3. CASE Added(k)
    BY <1>2, <2>3, NewRequestOpen DEF Added, TypeOK
  <2>4. CASE Erased(k)
    BY <1>2, <2>4, NoRequestFacts DEF Erased, TypeOK
  <2>5. QED
    BY <2>1, <2>2, <2>3, <2>4 DEF OneRequest
<1>3. QED
  BY <1>1, <1>2 DEF CompletionInv

LEMMA CountsStep ==
  ASSUME TypeOK, RequestCountsExact, ~bad, NEW k \in Keys, OneRequest(k),
         UNCHANGED <<connections, dummy_descriptor_set>>
  PROVE  RequestCountsExact'
<1>1. CASE Updated(k)
  <2>1. request_map'[k].status = "pending" /\ request_map[k].status = "pending"
    BY <1>1 DEF Updated, TypeOK
  <2>2. QED
    BY <1>1, <2>1, OtherRequestsKept, CountsKept DEF Updated
<1>2. CASE Told(k)
  <2>1. request_map'[k].status = "assigned" /\ request_map[k].status = "assigned"
    BY <1>2, ToldEffect DEF Told
  <2>2. QED
    BY <1>2, <2>1, OtherRequestsKept, CountsKept DEF Told
<1>3. QED
  BY <1>1, <1>2, CountsAdded, CountsErased DEF OneRequest

-----------------------------------------------------------------------------
(* The steps of ReadRecords.                                               *)

\* What is true of the header of a FCGI_BEGIN_REQUEST record stays true.
BeginKept ==
  /\ \A c \in FDs : c # cur => record_status'[c] = record_status[c]
  /\ ValidBegin(cur)' =>
       request_map'[<<cur, record_status'[cur].rec.id>>].status = "absent"
  /\ ipc' = "add" => ValidBegin(cur)' /\ request_count_map'[cur] < MaxRequests

\* A step of ReadRecords changes at most one request of current_connection.
ReadOutcome ==
  /\ UNCHANGED bad /\ BeginKept
  /\ \/ UNCHANGED <<request_map, request_count_map>>
     \/ \E id \in Ids : OneRequest(<<cur, id>>)

\* A cleared record is not valid.
LEMMA ClearedBegin ==
  ASSUME TypeOK, cur \in FDs, NEW place, ProcessNext(place), cur' = cur
  PROVE  /\ ~ValidBegin(cur)'
         /\ \A c \in FDs : c # cur => record_status'[c] = record_status[c]
BY DEF ProcessNext, TypeOK, ValidBegin, ClearRecord, NullRecord

\* No record that is being received turns into a valid FCGI_BEGIN_REQUEST record.
PlainEffect == UNCHANGED <<bad, request_map, request_count_map, record_status>> /\ ipc' # "add"

LEMMA PlainReadEffect ==
  ASSUME PlainReadStep
  PROVE  PlainEffect
<1>1. ASSUME \/ \E n \in 0..BufferUnits : SocketRead(n)
             \/ SocketReadEnd \/ SocketReadError \/ ReadRecordsReturns \/ BodyKept
      PROVE  PlainEffect
  BY <1>1 DEF SocketRead, SocketReadEnd, SocketReadError, ReadRecordsReturns, BodyKept,
              InterfaceCheck, ThrowsFromRead, PlainEffect
<1>2. ASSUME \/ SendAcquires \/ SendSucceeds
             \/ \E partial \in BOOLEAN, place \in {"send_failed", "send_threw"} :
                  SendFails(partial, place)
             \/ \E partial \in BOOLEAN : SendFindsClosure(partial)
      PROVE  PlainEffect
  BY <1>2 DEF SendAcquires, SendSucceeds, SendFails, SendFindsClosure, sendFrame,
              PlainEffect
<1>3. ASSUME SendLocksInterface \/ SendSchedules PROVE PlainEffect
  BY <1>3 DEF SendLocksInterface, SendSchedules, sendFrame, At, PlainEffect
<1>4. QED
  BY <1>1, <1>2, <1>3 DEF PlainReadStep

LEMMA PlainOutcome ==
  ASSUME IndInv, BeginInv, ReadStep, PlainReadStep
  PROVE  ReadOutcome
<1>1. cur \in FDs /\ cur' = cur
  BY ReadBasics
<1>2. PlainEffect
  BY PlainReadEffect
<1>3. QED
  BY <1>1, <1>2 DEF PlainEffect, ReadOutcome, BeginKept, BeginInv, ValidBegin

LEMMA DispatchOutcome ==
  ASSUME IndInv, BeginInv, ReadStep, ~bad, RequestCountsExact,
         HeaderLocal \/ CompleteIgnored \/ CompleteManagement \/ CompleteBegin
  PROVE  ReadOutcome
<1>1. TypeOK /\ cur \in FDs /\ cur' = cur
  BY ReadBasics
<1>2. ASSUME HeaderLocal PROVE ReadOutcome
  <2>1. /\ record_status'[cur] = [rec |-> Part.rec, invalidated |-> Part.rec.id # 0]
        /\ \A c \in FDs : c # cur => record_status'[c] = record_status[c]
    BY <1>1, <1>2, SetRecordEffect DEF HeaderLocal
  <2>2. /\ record_status'[cur].rec = Part.rec
        /\ record_status'[cur].invalidated = (Part.rec.id # 0)
    BY <2>1
  <2>3. ~ValidBegin(cur)'
    BY <1>1, <2>2 DEF ValidBegin
  <2>4. QED
    BY <1>1, <1>2, <2>1, <2>3 DEF HeaderLocal, AfterHeader, ReadOutcome, BeginKept
<1>3. ASSUME CompleteIgnored \/ CompleteManagement PROVE ReadOutcome
  <2>1. PICK place \in {"process", "send"} : ProcessNext(place)
    BY <1>3 DEF CompleteIgnored, CompleteManagement
  <2>2. ~ValidBegin(cur)' /\ \A c \in FDs : c # cur => record_status'[c] = record_status[c]
    BY <1>1, <2>1, ClearedBegin
  <2>3. QED
    BY <1>3, <2>2 DEF CompleteIgnored, CompleteManagement, ProcessNext, ReadOutcome,
                      BeginKept
<1>4. ASSUME CompleteBegin PROVE ReadOutcome
  <2>1. UNCHANGED <<bad, request_map, request_count_map>>
    BY <1>4 DEF CompleteBegin, InterfaceCheck, ThrowsFromRead
  <2>2. CASE ProcessNext("send")
    <3>1. ~ValidBegin(cur)' /\ \A c \in FDs : c # cur => record_status'[c] = record_status[c]
      BY <1>1, <2>2, ClearedBegin
    <3>2. QED
      BY <2>1, <2>2, <3>1 DEF ProcessNext, ReadOutcome, BeginKept
  <2>3. CASE ipc' = "add" /\ UNCHANGED record_status /\ ~LimitReached
    <3>1. ValidBegin(cur) /\ ValidBegin(cur)'
      BY <1>1, <1>4, <2>3 DEF CompleteBegin, Completes, ValidBegin, Rec
    <3>2. request_count_map[cur] \in Int /\ MaxRequests \in Nat
      BY <1>1, ConstantsAssumption DEF TypeOK
    <3>3. request_count_map[cur] < MaxRequests
      BY <2>3, <3>2 DEF LimitReached
    <3>4. QED
      BY <1>1, <2>1, <2>3, <3>1, <3>3 DEF ReadOutcome, BeginKept, BeginInv
  <2>4. QED
    BY <1>4, <2>2, <2>3 DEF CompleteBegin, InterfaceCheck
<1>5. QED
  BY <1>2, <1>3, <1>4

\* FCGI_BEGIN_REQUEST is found to be valid only if the lookup finds no request.
LEMMA HeaderOutcome ==
  ASSUME IndInv, RequestInv, ReadStep, ~bad, HeaderChecked
  PROVE  ReadOutcome
<1>1. /\ TypeOK /\ ReadingInv /\ ipc \in Reading /\ cur \in FDs /\ cur' = cur /\ avail > 0
  BY ReadBasics DEF HeaderChecked
<1>2. Part.rec \in RecordType /\ Part.rec.id \in Ids /\ Part.rec.id # 0
  BY <1>1, TakePartType DEF Parts, RecordType, HeaderChecked
<1>3. PICK iter \in Lookup(Part.rec.id) :
        \E invalidated \in Verdicts(Part.rec, iter) : SetRecord(Part.rec, invalidated)
  BY DEF HeaderChecked, InterfaceCheck
<1>4. PICK invalidated \in Verdicts(Part.rec, iter) : SetRecord(Part.rec, invalidated)
  BY <1>3
<1>5. /\ record_status'[cur] = [rec |-> Part.rec, invalidated |-> invalidated]
      /\ \A c \in FDs : c # cur => record_status'[c] = record_status[c]
  BY <1>1, <1>4, SetRecordEffect
<1>6. /\ UNCHANGED <<bad, request_map, request_count_map>> /\ ipc' # "add"
  BY DEF HeaderChecked, InterfaceCheck, AfterHeader
<1>7. ASSUME ValidBegin(cur)'
      PROVE  request_map[<<cur, Part.rec.id>>].status = "absent"
  <2>1. ~invalidated /\ Part.rec.type = "BEGIN"
    BY <1>1, <1>5, <1>7 DEF ValidBegin
  <2>2. iter.id = 0
    BY <1>4, <2>1 DEF Verdicts
  <2>3. iter = Find(Part.rec.id)
    BY <1>2, <1>3, <2>2 DEF Lookup
  <2>4. QED
    BY <1>2, <2>2, <2>3 DEF Find
<1>8. QED
  BY <1>1, <1>5, <1>6, <1>7 DEF ReadOutcome, BeginKept

LEMMA BodyOutcome ==
  ASSUME IndInv, RequestInv, BeginInv, ReadStep, ~bad, BodyAppended
  PROVE  ReadOutcome
<1> DEFINE id == Rec.id
           k  == <<cur, id>>
           rd == AppendTo(request_map[k], Rec.type, Rec.content)
<1>1. /\ TypeOK /\ cur \in FDs /\ cur' = cur /\ id \in Ids /\ k \in Keys
      /\ Rec.type \in StreamTypes /\ ipc = "process"
  BY ReadBasics, RecordKey DEF BodyAppended, IsStream, At
<1>2. request_map[k].status = "pending" /\ ~request_map[k].complete[Rec.type]
  BY <1>1 DEF BodyAppended, RequestInv, RecordsInv, ValidStream, Rec
<1>3. Find(id).live
  BY <1>2 DEF Find
<1>4. /\ request_map' = [request_map EXCEPT ![k] = rd]
      /\ ipc' = "complete" /\ UNCHANGED <<bad, request_count_map, record_status>>
  BY <1>3 DEF BodyAppended, InterfaceCheck
<1>5. request_map[k] \in RequestDataType
  BY <1>1 DEF TypeOK
<1>6. /\ rd \in RequestDataType /\ rd.status = "pending"
      /\ rd.complete = request_map[k].complete /\ rd.data[Rec.type]
  BY <1>1, <1>2, <1>5 DEF AppendTo, RequestDataType
<1>7. ~CheckRequestCompletion(rd)
  BY <1>1, <1>2, <1>6 DEF CheckRequestCompletion
<1>8. ~AllComplete(k)
  BY <1>1, <1>2 DEF AllComplete
<1> HIDE DEF rd
<1>9. Updated(k)
  BY <1>2, <1>4, <1>6, <1>7, <1>8 DEF Updated
<1>10. BeginKept
  BY <1>1, <1>4 DEF BeginKept, ValidBegin, BodyAppended, IsStream, StreamTypes, Rec
<1>11. QED
  BY <1>1, <1>4, <1>9, <1>10 DEF ReadOutcome, OneRequest

\* AddRequest finds the room that CompleteBegin found, and no request of that name.
LEMMA AddOutcome ==
  ASSUME IndInv, RequestInv, BeginInv, RoomInv, RequestCountsExact, ReadStep, ~bad,
         AddRequest
  PROVE  ReadOutcome
<1> DEFINE id == Rec.id
           k  == <<cur, id>>
<1>1. /\ TypeOK /\ cur \in FDs /\ cur \in connections /\ cur' = cur /\ id \in Ids
      /\ k \in Keys /\ ipc = "add"
  BY ReadBasics, RecordKey DEF AddRequest, At, RequestInv, RecordInv
<1>2. request_map[k].status = "absent"
  BY <1>1 DEF BeginInv, Rec
<1>3. /\ request_count_map[cur] = Cardinality(RequestsOn(cur))
      /\ request_count_map[cur] < MaxRequests
  BY <1>1 DEF RequestCountsExact, RoomInv
<1>4. request_count_map[cur] \in 0..(MaxRequests - 1)
  BY <1>3, RequestsFinite, ConstantsAssumption
<1>5. ~Find(id).live /\ request_count_map[cur] # -1
  BY <1>2, <1>4 DEF Find, NoIterator
<1>6. /\ request_count_map' = [request_count_map EXCEPT ![cur] = @ + 1]
      /\ request_map' = [request_map EXCEPT ![k] = NewRequestData(Rec.role, ~Rec.keep)]
      /\ ProcessNext("process") /\ UNCHANGED bad
  BY <1>5 DEF AddRequest, InterfaceCheck
<1>7. Rec.role \in Roles /\ (~Rec.keep) \in BOOLEAN
  BY <1>1 DEF TypeOK, RecordType, Rec
<1>8. Added(k)
  BY <1>2, <1>4, <1>6, <1>7 DEF Added
<1>9. BeginKept
  BY <1>1, <1>6, ClearedBegin DEF BeginKept, ProcessNext
<1>10. QED
  BY <1>1, <1>6, <1>8, <1>9 DEF ReadOutcome, OneRequest

LEMMA AbortOutcome ==
  ASSUME IndInv, RequestInv, BeginInv, RequestCountsExact, ReadStep, ~bad, CompleteAbort
  PROVE  ReadOutcome
<1> DEFINE id == Rec.id
           k  == <<cur, id>>
           rd == request_map[k]
<1>1. /\ TypeOK /\ cur \in FDs /\ cur' = cur /\ id \in Ids /\ k \in Keys
      /\ ~ValidBegin(cur)
  BY ReadBasics, RecordKey DEF CompleteAbort, Completes, ValidBegin, Rec
<1>2. PICK iter \in Lookup(id) : AbortThrough(iter)
  BY DEF CompleteAbort, InterfaceCheck
<1>3. iter.live => rd.status # "absent"
  BY <1>1, <1>2, LookupEffect DEF RequestInv
<1>4. ipc' # "add"
  BY <1>2 DEF AbortThrough, ProcessNext
<1>5. BeginKept
  <2>1. (\E place : ProcessNext(place)) \/ UNCHANGED record_status
    BY <1>2 DEF AbortThrough
  <2>2. ~ValidBegin(cur)' /\ \A c \in FDs : c # cur => record_status'[c] = record_status[c]
    BY <1>1, <2>1, ClearedBegin DEF ValidBegin
  <2>3. QED
    BY <1>4, <2>2 DEF BeginKept
<1>6. \/ UNCHANGED <<bad, request_map, request_count_map>>
      \/ iter.live /\ Told(k) /\ UNCHANGED bad
      \/ iter.live /\ EraseRequest(k)
  BY <1>2 DEF AbortThrough, Told
<1>7. QED
  BY <1>1, <1>3, <1>5, <1>6, EraseErases DEF ReadOutcome, OneRequest

LEMMA StreamEndOutcome ==
  ASSUME IndInv, RequestInv, BeginInv, ReadStep, ~bad, CompleteStreamEnd
  PROVE  ReadOutcome
<1> DEFINE id  == Rec.id
           k   == <<cur, id>>
           rd  == CompleteStream(request_map[k], Rec.type)
           upd == ConditionalUpdate(rd)
<1>1. /\ TypeOK /\ cur \in FDs /\ cur' = cur /\ id \in Ids /\ k \in Keys
      /\ ValidStream(cur) /\ ~ValidBegin(cur) /\ Rec.type \in StreamTypes
      /\ ipc = "complete"
  BY ReadBasics, RecordKey
     DEF CompleteStreamEnd, At, ValidStream, ValidBegin, IsStream, StreamTypes, Rec
<1>2. request_map[k].status = "pending" /\ ~request_map[k].complete[Rec.type]
  BY <1>1 DEF RequestInv, RecordsInv, Rec
<1>3. Find(id).live
  BY <1>2 DEF Find
<1>4. /\ request_map' = [request_map EXCEPT ![k] = upd]
      /\ UNCHANGED <<bad, request_count_map>> /\ ipc' # "add"
      /\ (\E place : ProcessNext(place)) \/ UNCHANGED record_status
  BY <1>3 DEF CompleteStreamEnd, InterfaceCheck, ProcessNext
<1>5. rd \in RequestDataType /\ rd.status = "pending"
  <2>1. request_map[k] \in RequestDataType
    BY <1>1 DEF TypeOK
  <2>2. QED
    BY <1>1, <1>2, <2>1, UpdateType DEF CompleteStream, RequestDataType
<1>6. upd \in RequestDataType /\ upd.status = "pending"
  BY <1>5, UpdateType DEF ConditionalUpdate, RequestDataType
<1>7. CheckRequestCompletion(upd) => \A s \in StreamTypes : upd.complete[s]
  BY <1>5 DEF ConditionalUpdate, RequestDataType
<1>8. ~AllComplete(k)
  BY <1>1, <1>2 DEF AllComplete
<1> HIDE DEF rd, upd
<1>9. Updated(k)
  BY <1>2, <1>4, <1>6, <1>7, <1>8 DEF Updated
<1>10. BeginKept
  <2>1. ~ValidBegin(cur)' /\ \A c \in FDs : c # cur => record_status'[c] = record_status[c]
    BY <1>1, <1>4, ClearedBegin DEF ValidBegin
  <2>2. QED
    BY <1>4, <2>1 DEF BeginKept
<1>11. QED
  BY <1>1, <1>4, <1>9, <1>10 DEF ReadOutcome, OneRequest

LEMMA RejectOutcome ==
  ASSUME IndInv, RequestInv, RequestCountsExact, ReadStep, ~bad, RejectMalformed
  PROVE  ReadOutcome
<1> DEFINE k == <<cur, Rec.id>>
<1>1. ValidStream(cur)
  BY DEF RejectMalformed, At, RequestInv, RecordInv
<1>2. TypeOK /\ cur \in FDs /\ cur' = cur /\ Rec.id \in Ids /\ k \in Keys
  BY <1>1, ReadBasics, RecordKey DEF ValidStream, IsStream, Rec
<1>3. request_map[k].status = "pending"
  BY <1>1, <1>2 DEF RequestInv, RecordsInv, Rec
<1>4. EraseRequest(k) /\ ProcessNext("send")
  BY DEF RejectMalformed, InterfaceCheck
<1>5. Erased(k) /\ UNCHANGED bad
  BY <1>2, <1>3, <1>4, EraseErases
<1>6. BeginKept
  BY <1>2, <1>4, ClearedBegin DEF BeginKept, ProcessNext
<1>7. QED
  BY <1>2, <1>5, <1>6 DEF ReadOutcome, OneRequest

\* ReadRecords starts from an interface that is sound, and leaves it so.
LEMMA ReadEffect ==
  ASSUME IndInv, ServiceInv, ReadStep
  PROVE  ~bad /\ ReadOutcome
<1>1. ~bad /\ RequestInv /\ BeginInv /\ RoomInv /\ RequestCountsExact
  <2>1. ~bad
    BY ReadBasics DEF ServiceInv, BadInv, Reading
  <2>2. QED
    BY <2>1 DEF ServiceInv, IndInv
<1>2. CASE PlainReadStep \/ HeaderLocal \/ CompleteIgnored \/ CompleteManagement
           \/ CompleteBegin
  BY <1>1, <1>2, PlainOutcome, DispatchOutcome
<1>3. CASE \/ HeaderChecked \/ BodyAppended \/ AddRequest \/ CompleteAbort
           \/ CompleteStreamEnd \/ RejectMalformed
  BY <1>1, <1>3, HeaderOutcome, BodyOutcome, AddOutcome, AbortOutcome,
     StreamEndOutcome, RejectOutcome
<1>4. QED
  BY <1>1, <1>2, <1>3 DEF ReadStep, PlainReadStep

LEMMA ReadService ==
  ASSUME IndInv, ServiceInv, ReadStep
  PROVE  ServiceInv'
<1>1. /\ TypeOK /\ KeyInv /\ ~bad /\ ~bad' /\ ReadOutcome /\ cur \in FDs
      /\ CompletionInv /\ RequestCountsExact /\ AssignedRequestsHaveOwner
      /\ BeginInv
      /\ UNCHANGED <<obj, interface_identifier, connections, dummy_descriptor_set, cur>>
  BY ReadBasics, ReadEffect, BaseFacts DEF ServiceInv, ReadOutcome
<1>2. BadInv'
  BY <1>1 DEF BadInv
<1>3. ASSUME NEW c \in FDs, NEW id \in Ids, c # cur
      PROVE  request_map'[<<c, id>>] = request_map[<<c, id>>]
  <2>1. <<c, id>> \in Keys
    BY DEF Keys
  <2>2. ASSUME NEW i \in Ids, OneRequest(<<cur, i>>)
        PROVE  request_map'[<<c, id>>] = request_map[<<c, id>>]
    <3>1. <<cur, i>> \in Keys /\ <<c, id>> # <<cur, i>>
      BY <1>1, <1>3 DEF Keys
    <3>2. QED
      BY <1>1, <2>1, <2>2, <3>1, OtherRequestsKept
  <2>3. QED
    BY <1>1, <2>2 DEF ReadOutcome
<1>4. BeginInv'
  <2>1. ASSUME NEW c \in FDs, ValidBegin(c)'
        PROVE  request_map'[<<c, record_status'[c].rec.id>>].status = "absent"
    <3>1. CASE c = cur
      BY <1>1, <2>1, <3>1 DEF ReadOutcome, BeginKept
    <3>2. CASE c # cur
      <4>1. record_status'[c] = record_status[c] /\ ValidBegin(c)
        BY <1>1, <2>1, <3>2 DEF ReadOutcome, BeginKept, ValidBegin
      <4>2. record_status[c].rec.id \in Ids
        BY <1>1, <4>1 DEF ValidBegin, TypeOK, RecordType
      <4>3. QED
        BY <1>1, <1>3, <3>2, <4>1, <4>2 DEF BeginInv
    <3>3. QED
      BY <3>1, <3>2
  <2>2. ipc' = "add" => ValidBegin(cur)'
    BY <1>1 DEF ReadOutcome, BeginKept
  <2>3. QED
    BY <1>1, <2>1, <2>2 DEF BeginInv, ValidBegin
<1>5. RoomInv'
  BY <1>1 DEF ReadOutcome, BeginKept, RoomInv
<1>6. CASE UNCHANGED <<request_map, request_count_map>>
  <2>1. RequestCountsExact' /\ CompletionInv'
    BY <1>1, <1>6, CountsKept DEF CompletionInv, AllComplete
  <2>2. AssignedRequestsHaveOwner'
    BY <1>1, <1>6 DEF AssignedRequestsHaveOwner, Live
  <2>3. QED
    BY <1>2, <1>4, <1>5, <2>1, <2>2 DEF ServiceInv
<1>7. ASSUME NEW id \in Ids, OneRequest(<<cur, id>>)
      PROVE  ServiceInv'
  <2> DEFINE k == <<cur, id>>
  <2>1. k \in Keys
    BY <1>1 DEF Keys
  <2>2. RequestCountsExact' /\ CompletionInv'
    BY <1>1, <1>7, <2>1, CountsStep, CompletionKept
  <2>3. ASSUME NEW j \in Keys, request_map'[j].status = "assigned"
        PROVE  request_map[j].status = "assigned"
    <3>1. CASE j = k
      BY <1>1, <1>7, <2>1, <2>3, <3>1, OneRequestStatus DEF OneRequest, Told
    <3>2. CASE j # k
      BY <1>1, <1>7, <2>1, <2>3, <3>2, OtherRequestsKept
    <3>3. QED
      BY <3>1, <3>2
  <2>4. AssignedRequestsHaveOwner'
    BY <1>1, <2>3 DEF AssignedRequestsHaveOwner, Live
  <2>5. QED
    BY <1>2, <1>4, <1>5, <2>2, <2>4 DEF ServiceInv
<1>8. QED
  BY <1>1, <1>6, <1>7 DEF ReadOutcome

-----------------------------------------------------------------------------
(* The steps of application threads.                                       *)

\* An object that goes on without its request removed it, from a sound interface.
RequestOutcome(o) ==
  /\ UNCHANGED bad
  /\ \/ /\ UNCHANGED <<request_map, request_count_map>>
        /\ ~bad /\ o \in Live => o \in Live'
     \/ /\ ~bad /\ o \in Live /\ o \notin Live' /\ obj[o].key \in Keys
        /\ request_map[obj[o].key].status = "assigned" /\ Erased(obj[o].key)

LEMMA RequestEffects ==
  ASSUME IndInv, ServiceInv, NEW o \in Objs, RequestStep(o) \/ RequestCall(o)
  PROVE  RequestOutcome(o)
<1>1. /\ TypeOK /\ KeyInv /\ ThreadInv /\ KeptOrRemoved(o) /\ BadInv
      /\ RequestCountsExact /\ interface_identifier' = interface_identifier
  BY BaseFacts, RequestStepMapEffect, RequestKeepsReading
     DEF RequestMapEffect, ServiceInv, requestFrame
<1>2. CASE KeepRequests /\ (o \in Live => bad \/ obj'[o].pc \notin {"free", "closing"})
  <2>1. UNCHANGED <<request_map, request_count_map, bad>>
    BY <1>2 DEF KeepRequests
  <2>2. ASSUME ~bad, o \in Live PROVE o \in Live'
    <3>1. obj'[o].pc \notin {"free", "closing"} /\ obj'[o].iid = obj[o].iid
      BY <1>1, <1>2, <2>2, RequestChangesObject, ObjectIdentity
    <3>2. QED
      BY <1>1, <2>2, <3>1 DEF Live
  <2>3. QED
    BY <2>1, <2>2 DEF RequestOutcome
<1>3. CASE /\ RemoveRequest(obj[o].key) /\ o \in Live /\ (bad => HoldsInterfaceMutex(o))
           /\ obj'[o].pc \in {"free", "closing"}
  <2>1. ~bad /\ o \notin Live'
    BY <1>1, <1>3 DEF BadInv, Live
  <2>2. LiveInv /\ obj[o].key \in Keys
    BY <1>1, <1>3, <2>1 DEF IndInv, RequestInv, KeyInv, Live
  <2>3. request_map[obj[o].key].status = "assigned"
    BY <1>3, <2>2 DEF LiveInv
  <2>4. Erased(obj[o].key) /\ UNCHANGED bad
    BY <1>1, <1>3, <2>1, <2>2, <2>3, EraseErases DEF RemoveRequest
  <2>5. QED
    BY <1>3, <2>1, <2>2, <2>3, <2>4 DEF RequestOutcome
<1>4. QED
  BY <1>1, <1>2, <1>3 DEF KeptOrRemoved

\* Nobody starts to work on a corrupt interface.
LEMMA RequestBad ==
  ASSUME IndInv, BadInv, NEW o \in Objs, RequestStep(o) \/ RequestCall(o), bad, bad'
  PROVE  BadInv'
<1>1. TypeOK /\ KeyInv /\ MutexInv /\ MutexEffect(o) /\ ~Alive(o)
  BY BaseFacts, RequestMutexEffect DEF Alive
<1>2. ipc' = ipc
  BY RequestKeepsReading DEF requestFrame
<1>3. ~HoldsInterfaceMutex(o)'
  BY <1>1 DEF MutexEffect, BadInv
<1>4. \A p \in Objs : p # o => obj'[p] = obj[p]
  BY <1>1, RequestChangesObject, ObjectIdentity
<1>5. QED
  BY <1>2, <1>3, <1>4 DEF BadInv, HoldsInterfaceMutex

LEMMA ThreadService ==
  ASSUME IndInv, ServiceInv, NEW o \in Objs, RequestStep(o) \/ RequestCall(o)
  PROVE  ServiceInv'
<1>1. /\ TypeOK /\ KeyInv /\ BadInv /\ CompletionInv /\ RequestOutcome(o)
      /\ RequestCountsExact /\ AssignedRequestsHaveOwner
      /\ \A p \in Objs : p # o => obj'[p] = obj[p]
      /\ o \in Live' => obj'[o].key = obj[o].key
      /\ UNCHANGED <<ipc, cur, record_status, connections, dummy_descriptor_set,
                     interface_identifier>>
  BY BaseFacts, RequestEffects, RequestKeepsReading, RequestChangesObject, ObjectIdentity
     DEF ServiceInv, requestFrame, Live
<1>2. BadInv'
  BY <1>1, RequestBad DEF RequestOutcome, BadInv
<1>3. \A p \in Objs : p # o /\ p \in Live => p \in Live'
  BY <1>1 DEF Live
<1>4. CASE bad
  BY <1>1, <1>2, <1>4
     DEF RequestOutcome, ServiceInv, CompletionInv, AllComplete, RequestCountsExact,
         AssignedRequestsHaveOwner
<1>5. CASE ~bad /\ UNCHANGED <<request_map, request_count_map>> /\ (o \in Live => o \in Live')
  <2>1. RequestCountsExact' /\ CompletionInv' /\ BeginInv' /\ RoomInv'
    BY <1>1, <1>5, CountsKept DEF ServiceInv, CompletionInv, AllComplete, BeginInv,
                                  ValidBegin, RoomInv
  <2>2. ASSUME NEW k \in Keys, request_map'[k].status = "assigned"
        PROVE  \E p \in Live' : obj'[p].key = k
    <3>1. PICK p \in Live : obj[p].key = k
      BY <1>1, <1>5, <2>2 DEF AssignedRequestsHaveOwner
    <3>2. p \in Live' /\ obj'[p].key = k
      BY <1>1, <1>3, <1>5, <3>1 DEF Live
    <3>3. QED
      BY <3>2
  <2>3. QED
    BY <1>2, <2>1, <2>2 DEF ServiceInv, AssignedRequestsHaveOwner
<1>6. CASE ~bad /\ obj[o].key \in Keys /\ Erased(obj[o].key)
  <2> DEFINE k == obj[o].key
  <2>1. RequestCountsExact' /\ CompletionInv'
    BY <1>1, <1>6, CountsStep, CompletionKept DEF OneRequest
  <2>2. /\ request_map'[k].status = "absent"
        /\ \A j \in Keys : j # k => request_map'[j] = request_map[j]
    BY <1>1, <1>6, OneRequestStatus, OtherRequestsKept DEF OneRequest
  <2>3. ASSUME NEW j \in Keys, request_map'[j].status = "assigned"
        PROVE  \E p \in Live' : obj'[p].key = j
    <3>1. j # k /\ request_map[j].status = "assigned"
      BY <2>2, <2>3
    <3>2. PICK p \in Live : obj[p].key = j
      BY <1>1, <1>6, <3>1 DEF AssignedRequestsHaveOwner
    <3>3. p # o /\ p \in Live' /\ obj'[p].key = j
      BY <1>1, <1>3, <3>1, <3>2 DEF Live
    <3>4. QED
      BY <3>3
  <2>4. BeginInv'
    <3>1. ASSUME NEW c \in FDs, ValidBegin(c)
          PROVE  request_map'[<<c, record_status[c].rec.id>>].status = "absent"
      <4>1. <<c, record_status[c].rec.id>> \in Keys
        BY <1>1, <3>1 DEF ValidBegin, Keys, TypeOK, RecordType
      <4>2. QED
        BY <1>6, <2>2, <3>1, <4>1 DEF ServiceInv, BeginInv
    <3>2. QED
      BY <1>1, <1>6, <3>1 DEF ServiceInv, BeginInv, ValidBegin
  <2>5. RoomInv'
    <3>1. \A c \in FDs : request_count_map'[c] <= request_count_map[c]
      BY <1>1, <1>6 DEF Erased, TypeOK
    <3>2. ipc = "add" => cur \in FDs
      BY <1>1, BaseFacts DEF ReadingInv, InCall, Reading, TypeOK
    <3>3. \A c \in FDs : request_count_map[c] \in Int /\ request_count_map'[c] \in Int
      BY <1>1, <1>6 DEF Erased, TypeOK
    <3>4. ipc = "add" => request_count_map[cur] < MaxRequests
      BY <1>6 DEF ServiceInv, RoomInv
    <3>5. MaxRequests \in Int
      BY ConstantsAssumption
    <3>6. ipc = "add" => request_count_map'[cur] < MaxRequests
      BY <3>1, <3>2, <3>3, <3>4, <3>5
    <3>7. QED
      BY <1>1, <3>6 DEF RoomInv
  <2>6. QED
    BY <1>2, <2>1, <2>3, <2>4, <2>5 DEF ServiceInv, AssignedRequestsHaveOwner
<1>7. QED
  BY <1>1, <1>4, <1>5, <1>6 DEF RequestOutcome

-----------------------------------------------------------------------------
(* The other steps.                                                        *)

LEMMA OtherMaps ==
  ASSUME OtherStep
  PROVE  \/ UNCHANGED <<connections, request_count_map>>
         \/ DestructorReturns \/ Cleanup \/ \E c \in FDs : AcceptConnection(c)
BY DEF OtherStep, Select, CheckAfterSelect, ReadNextConnection, LockToConstruct,
       ConstructRequest, LeaveLoop, RejectConnection, AcceptThrows, Return,
       ReadThrows, Throw, DestructorLocks, DestructorCloses, InterfaceCall, Construct,
       DestructorClosesDummies, ReturnBuffered, SetOverload, Environment,
       ClientConnects, ClientSends, ClientCloses, ForeignOpen, SelectInterrupted,
       environmentFrame

BadPlaces == {"outside", "dtor", "dtor_locked"}

\* A corrupt interface only throws, or is destroyed.
LEMMA OtherBadPlace ==
  ASSUME OtherStep, bad, bad', ipc \in BadPlaces
  PROVE  ipc' \in BadPlaces
BY DEF OtherStep, Select, CheckAfterSelect, ReadNextConnection, LockToConstruct,
       ConstructRequest, LeaveLoop, AcceptConnection, RejectConnection, AcceptThrows,
       Return, ReadThrows, Throw, LeaveAcceptRequests, DestructorLocks,
       DestructorCloses, DestructorReturns, InterfaceCall, Construct,
       DestructorClosesDummies, ReturnBuffered, Cleanup, SetOverload, Environment,
       ClientConnects, ClientSends, ClientCloses, ForeignOpen, SelectInterrupted,
       environmentFrame, At, BadPlaces

\* The interface is found to be corrupt by Cleanup, while nobody has its mutex.
LEMMA OtherBad ==
  ASSUME IndInv, BadInv, OtherStep
  PROVE  BadInv'
<1>1. TypeOK /\ MutexInv
  BY BaseFacts
<1>2. SUFFICES ASSUME bad' PROVE BadInv'
  BY DEF BadInv
<1>3. \A o \in Objs : HoldsInterfaceMutex(o)' => HoldsInterfaceMutex(o)
  BY <1>1, OtherObjects DEF HoldsInterfaceMutex, Calling
<1>4. CASE bad
  BY <1>2, <1>3, <1>4, OtherBadPlace DEF BadInv, BadPlaces
<1>5. CASE ~bad
  <2>1. Cleanup
    BY <1>2, <1>5, OtherKeeps
       DEF OtherKeepEffect, Construct, DestructorReturns, ConstructRequest
  <2>2. ipc' = "outside" /\ imutex = Nobody
    BY <1>2, <2>1 DEF Cleanup
  <2>3. \A o \in Objs : ~HoldsInterfaceMutex(o)
    BY <1>1, <2>2, Threads DEF MutexInv
  <2>4. QED
    BY <1>3, <2>2, <2>3 DEF BadInv
<1>6. QED
  BY <1>4, <1>5

\* Handing objects over keeps them alive.
LEMMA HandedOverLive ==
  ASSUME TypeOK, ~bad, interface_identifier' = interface_identifier,
         obj' = obj \/ HandOver \/ KeepForNextCall
  PROVE  Live' = Live /\ \A o \in Objs : obj'[o].key = obj[o].key
<1>1. ASSUME NEW o \in Objs
      PROVE  /\ obj'[o].key = obj[o].key /\ obj'[o].iid = obj[o].iid
             /\ obj'[o].pc \in {"free", "closing"} <=> obj[o].pc \in {"free", "closing"}
  <2>1. CASE HandOver
    BY <2>1 DEF HandOver, TypeOK, ObjectType
  <2>2. QED
    BY <2>1 DEF KeepForNextCall
<1>2. QED
  BY <1>1 DEF Live

LEMMA OtherKeepService ==
  ASSUME IndInv, ServiceInv, OtherStep, OtherKeepEffect,
         \/ UNCHANGED <<connections, request_count_map>>
         \/ \E c \in FDs : AcceptConnection(c)
  PROVE  ServiceInv'
<1>1. /\ TypeOK /\ DescriptorInv /\ BadInv' /\ CompletionInv /\ bad' = bad
      /\ UNCHANGED <<request_map, record_status, interface_identifier,
                     dummy_descriptor_set>>
  BY BaseFacts, OtherBad DEF ServiceInv, OtherKeepEffect
<1>2. CompletionInv'
  BY <1>1 DEF CompletionInv, AllComplete
<1>3. CASE bad
  BY <1>1, <1>2, <1>3 DEF ServiceInv, RequestCountsExact, AssignedRequestsHaveOwner
<1>4. CASE ~bad
  <2>1. AssignedRequestsHaveOwner'
    <3>1. Live' = Live /\ \A o \in Objs : obj'[o].key = obj[o].key
      BY <1>1, <1>4, HandedOverLive DEF OtherKeepEffect
    <3>2. QED
      BY <1>1, <1>4, <3>1 DEF ServiceInv, AssignedRequestsHaveOwner, Live
  <2>2. CASE UNCHANGED <<connections, request_count_map>>
    <3>1. RequestCountsExact'
      BY <1>1, <1>4, <2>2, CountsKept DEF ServiceInv
    <3>2. BeginInv' /\ RoomInv'
      BY <1>1, <1>4, <2>2
         DEF ServiceInv, OtherKeepEffect, BeginInv, ValidBegin, RoomInv
    <3>3. QED
      BY <1>1, <1>2, <2>1, <3>1, <3>2 DEF ServiceInv
  <2>3. ASSUME NEW c \in FDs, AcceptConnection(c) PROVE ServiceInv'
    <3>1. /\ ipc = "accept" /\ ipc' = "accept" /\ kfd[c] = "free"
          /\ connections' = connections \cup {c}
          /\ request_count_map' = [request_count_map EXCEPT ![c] = 0]
      BY <2>3 DEF AcceptConnection, At
    <3>2. c \notin connections \cup dummy_descriptor_set
      BY <1>1, <3>1 DEF DescriptorInv, InDestructor
    <3>3. RequestsOn(c) = {} /\ \A d : RequestsOn(d)' = RequestsOn(d)
      BY <1>1, <1>4, <3>2 DEF ServiceInv, RequestCountsExact, RequestsOn
    <3>4. /\ request_count_map'[c] = 0
          /\ \A d \in FDs : d # c => request_count_map'[d] = request_count_map[d]
      BY <1>1, <3>1 DEF TypeOK
    <3>5. Cardinality({}) = 0 /\ 0 <= MaxRequests
      BY FS_EmptySet, ConstantsAssumption
    <3>6. RequestCountsExact'
      BY <1>1, <1>4, <3>1, <3>3, <3>4, <3>5 DEF ServiceInv, RequestCountsExact
    <3>7. BeginInv' /\ RoomInv'
      BY <1>1, <1>4, <3>1 DEF ServiceInv, BeginInv, ValidBegin, RoomInv
    <3>8. QED
      BY <1>1, <1>2, <2>1, <3>6, <3>7 DEF ServiceInv
  <2>4. QED
    BY <2>2, <2>3
<1>5. QED
  BY <1>3, <1>4

\* Without an interface there are no live objects, so that no request is assigned.
LEMMA ConstructService ==
  ASSUME IndInv, ServiceInv, OtherStep, Construct
  PROVE  ServiceInv'
<1>1. /\ TypeOK /\ IdentifierInv /\ BadInv' /\ ipc = "none" /\ ipc' = "outside" /\ ~bad
      /\ UNCHANGED <<bad, obj, request_map, request_count_map, connections,
                     dummy_descriptor_set, record_status>>
  BY BaseFacts, OtherBad DEF Construct, At, ServiceInv, BadInv
<1>2. Live = {}
  BY <1>1 DEF Live, IdentifierInv
<1>3. \A k \in Keys : request_map[k].status # "assigned"
  BY <1>1, <1>2 DEF ServiceInv, AssignedRequestsHaveOwner
<1>4. AssignedRequestsHaveOwner' /\ RequestCountsExact'
  BY <1>1, <1>3, CountsKept DEF ServiceInv, AssignedRequestsHaveOwner
<1>5. BeginInv' /\ RoomInv' /\ CompletionInv'
  BY <1>1 DEF ServiceInv, BeginInv, ValidBegin, RoomInv, CompletionInv, AllComplete
<1>6. QED
  BY <1>1, <1>4, <1>5 DEF ServiceInv

LEMMA DestructorService ==
  ASSUME DestructorReturns
  PROVE  ServiceInv'
<1>1. \A k \in Keys : request_map'[k].status = "absent"
  BY NoRequestFacts DEF DestructorReturns
<1>2. BadInv' /\ RoomInv' /\ CompletionInv' /\ AssignedRequestsHaveOwner'
  BY <1>1 DEF DestructorReturns, BadInv, RoomInv, CompletionInv,
              AssignedRequestsHaveOwner
<1>3. BeginInv'
  BY DEF DestructorReturns, BeginInv, ValidBegin, ClearRecord, NullRecord
<1>4. \A c : RequestsOn(c)' = {}
  BY <1>1 DEF RequestsOn
<1>5. RequestCountsExact'
  BY <1>4 DEF DestructorReturns, RequestCountsExact
<1>6. QED
  BY <1>2, <1>3, <1>5 DEF ServiceInv

LEMMA AssignEffect ==
  ASSUME IndInv, ~bad, NEW o \in Objs, NEW id \in Ids, ConstructRequest(o, id)
  PROVE  LET k == <<cur, id>>
         IN  /\ cur \in connections /\ k \in Keys /\ request_map[k].status = "pending"
             /\ AllComplete(k)
             /\ request_map'[k].status = "assigned"
             /\ request_map'[k].complete = request_map[k].complete
             /\ request_map'[k].data = request_map[k].data
             /\ request_map'[k].role = request_map[k].role
             /\ request_map'[k].malformed = request_map[k].malformed
             /\ \A j \in Keys : j # k => request_map'[j] = request_map[j]
<1>1. /\ TypeOK /\ FoundInv /\ cur \in FDs /\ cur \in connections /\ id \in found
      /\ request_map' = [request_map EXCEPT ![<<cur, id>>].status = "assigned"]
  BY BaseFacts DEF ConstructRequest, At, IndInv, RequestInv, ReadingInv, InCall,
                   Reading, TypeOK
<1>2. <<cur, id>> \in Keys
  BY <1>1 DEF Keys
<1>3. request_map[<<cur, id>>].status = "pending" /\ AllComplete(<<cur, id>>)
  BY <1>1 DEF FoundInv
<1>4. request_map[<<cur, id>>] \in RequestDataType
  BY <1>1, <1>2 DEF TypeOK
<1>5. \A j \in Keys : j # <<cur, id>> => request_map'[j] = request_map[j]
  BY <1>1, <1>2 DEF TypeOK
<1>6. request_map'[<<cur, id>>] = [request_map[<<cur, id>>] EXCEPT !.status = "assigned"]
  BY <1>1, <1>2 DEF TypeOK
<1>7. QED
  BY <1>1, <1>2, <1>3, <1>4, <1>5, <1>6 DEF RequestDataType

LEMMA AssignService ==
  ASSUME IndInv, ServiceInv, OtherStep, NEW o \in Objs, NEW id \in Ids,
         ConstructRequest(o, id)
  PROVE  ServiceInv'
<1> DEFINE k == <<cur, id>>
<1>1. /\ TypeOK /\ ~bad /\ ~bad' /\ BadInv' /\ ipc' # "add"
      /\ UNCHANGED <<connections, request_count_map, dummy_descriptor_set, cur,
                     record_status, interface_identifier>>
      /\ RequestCountsExact /\ AssignedRequestsHaveOwner /\ CompletionInv /\ BeginInv
  BY BaseFacts, OtherBad DEF ConstructRequest, At, ServiceInv, BadInv
<1>2. /\ k \in Keys /\ request_map[k].status = "pending" /\ AllComplete(k)
      /\ request_map'[k].status = "assigned"
      /\ request_map'[k].complete = request_map[k].complete
      /\ \A j \in Keys : j # k => request_map'[j] = request_map[j]
  BY <1>1, AssignEffect
<1>3. /\ obj[o].pc = "free" /\ obj'[o].pc = "held" /\ obj'[o].key = k
      /\ obj'[o].iid = interface_identifier
      /\ \A p \in Objs : p # o => obj'[p] = obj[p]
  BY <1>1, ConstructedObject DEF ConstructRequest, TypeOK
<1> HIDE DEF k
<1>4. RequestCountsExact'
  BY <1>1, <1>2, CountsKept
<1>5. CompletionInv'
  BY <1>1, <1>2 DEF CompletionInv, AllComplete
<1>6. ASSUME NEW j \in Keys, request_map'[j].status = "assigned"
      PROVE  \E p \in Live' : obj'[p].key = j
  <2>1. CASE j = k
    BY <1>1, <1>3, <2>1 DEF Live
  <2>2. CASE j # k
    <3>1. PICK p \in Live : obj[p].key = j
      BY <1>1, <1>2, <1>6, <2>2 DEF AssignedRequestsHaveOwner
    <3>2. p # o /\ obj'[p] = obj[p] /\ p \in Live'
      BY <1>1, <1>3, <3>1 DEF Live
    <3>3. QED
      BY <3>1, <3>2
  <2>3. QED
    BY <2>1, <2>2
<1>7. BeginInv'
  <2>1. ASSUME NEW c \in FDs, ValidBegin(c)
        PROVE  request_map'[<<c, record_status[c].rec.id>>].status = "absent"
    <3>1. <<c, record_status[c].rec.id>> \in Keys
      BY <1>1, <2>1 DEF ValidBegin, Keys, TypeOK, RecordType
    <3>2. request_map[<<c, record_status[c].rec.id>>].status = "absent"
      BY <1>1, <2>1 DEF BeginInv
    <3>3. QED
      BY <1>2, <3>1, <3>2
  <2>2. QED
    BY <1>1, <2>1 DEF BeginInv, ValidBegin
<1>8. RoomInv'
  BY <1>1 DEF RoomInv
<1>9. QED
  BY <1>1, <1>4, <1>5, <1>6, <1>7, <1>8 DEF ServiceInv, AssignedRequestsHaveOwner

\* Cleanup, request by request.
LEMMA CleanedRequest ==
  ASSUME TypeOK, NEW k \in Keys, CleanRequests
  PROVE  /\ k[1] \notin Removed => request_map'[k] = request_map[k]
         /\ request_map[k].status = "assigned" =>
              /\ request_map'[k].status = "assigned"
              /\ request_map'[k].complete = request_map[k].complete
              /\ request_map'[k].data = request_map[k].data
              /\ request_map'[k].role = request_map[k].role
              /\ request_map'[k].malformed = request_map[k].malformed
         /\ k[1] \in Removed /\ request_map[k].status # "assigned" =>
              request_map'[k] = NoRequest
<1>1. request_map[k] \in RequestDataType
  BY DEF TypeOK
<1>2. request_map'[k] = IF k[1] \notin Removed THEN request_map[k]
                        ELSE IF request_map[k].status = "assigned"
                             THEN [request_map[k] EXCEPT !.closed = TRUE]
                             ELSE NoRequest
  BY DEF CleanRequests
<1>3. QED
  BY <1>1, <1>2 DEF RequestDataType

\* Cleanup, set by set.  The connections that it removes are those that it takes out
\* of the closure set, also if it stops at one that it cannot remove.
LEMMA CleanedSets ==
  ASSUME IndInv, Cleanup
  PROVE  /\ ~bad /\ CleanRequests /\ UNCHANGED <<obj, interface_identifier, cur>>
         /\ Removed \subseteq application_closure_request_set \cap connections
         /\ Removed \subseteq FDs /\ dummy_descriptor_set \subseteq FDs
         /\ dummy_descriptor_set \cap connections = {}
         /\ connections' = connections \ Removed
         /\ dummy_descriptor_set' = (dummy_descriptor_set \ IdleDummies) \cup ToDummy
         /\ application_closure_request_set' \cap connections' =
              (application_closure_request_set \cap connections) \ Removed
<1>1. /\ TypeOK /\ DescriptorInv /\ ~bad
      /\ application_closure_request_set \subseteq connections
  BY BaseFacts DEF Cleanup, IndInv, RequestInv, ClosureInv
<1>2. /\ CleanRequests /\ UNCHANGED <<obj, interface_identifier, cur>>
      /\ connections' = connections \ Removed
      /\ dummy_descriptor_set' = (dummy_descriptor_set \ IdleDummies) \cup ToDummy
  BY DEF Cleanup, CleanDescriptors
<1>3. Removed \subseteq application_closure_request_set
  BY DEF Removed
<1>4. application_closure_request_set' \cap connections' =
        (application_closure_request_set \cap connections) \ Removed
  <2>1. CASE Unremovable = {}
    <3>1. application_closure_request_set' = {}
      BY <2>1 DEF Cleanup
    <3>2. Removed = application_closure_request_set
      BY <2>1 DEF Removed
    <3>3. QED
      BY <3>1, <3>2
  <2>2. CASE Unremovable # {}
    <3>1. application_closure_request_set' = application_closure_request_set
      BY <2>2 DEF Cleanup
    <3>2. QED
      BY <1>2, <3>1
  <2>3. QED
    BY <2>1, <2>2
<1>5. QED
  BY <1>1, <1>2, <1>3, <1>4 DEF DescriptorInv, TypeOK

\* The count of a connection that Cleanup replaces by a dummy descriptor is that of
\* its assigned requests; other requests are erased.
LEMMA CleanupCounts ==
  ASSUME IndInv, RequestCountsExact, Cleanup
  PROVE  \A c \in FDs :
           IF c \in connections' \cup dummy_descriptor_set'
           THEN /\ request_count_map'[c] = Cardinality(RequestsOn(c)')
                /\ request_count_map'[c] <= MaxRequests
           ELSE request_count_map'[c] = -1 /\ RequestsOn(c)' = {}
<1>1. /\ TypeOK /\ ~bad /\ CleanRequests
      /\ Removed \subseteq connections /\ dummy_descriptor_set \cap connections = {}
      /\ connections' = connections \ Removed
      /\ dummy_descriptor_set' = (dummy_descriptor_set \ IdleDummies) \cup ToDummy
  BY BaseFacts, CleanedSets
<1>2. /\ ToDummy = {c \in Removed : AssignedOn(c) # {}} /\ ToClose = Removed \ ToDummy
      /\ IdleDummies = {c \in dummy_descriptor_set : RequestsOn(c) = {}}
  BY DEF ToDummy, ToClose, IdleDummies
<1>3. SUFFICES ASSUME NEW c \in FDs
               PROVE  IF c \in connections' \cup dummy_descriptor_set'
                      THEN /\ request_count_map'[c] = Cardinality(RequestsOn(c)')
                           /\ request_count_map'[c] <= MaxRequests
                      ELSE request_count_map'[c] = -1 /\ RequestsOn(c)' = {}
  OBVIOUS
<1>4. request_count_map'[c] =
        IF c \in ToClose \cup IdleDummies THEN -1
        ELSE IF c \in ToDummy
             THEN request_count_map[c] - Cardinality(RequestsOn(c) \ AssignedOn(c))
             ELSE request_count_map[c]
  BY DEF Cleanup, CleanDescriptors
<1>5. c \in Removed => RequestsOn(c)' = AssignedOn(c)
  BY <1>1, CleanedRequest, NoRequestFacts DEF RequestsOn, AssignedOn
<1>6. c \notin Removed => RequestsOn(c)' = RequestsOn(c)
  BY <1>1, CleanedRequest DEF RequestsOn
<1>7. IF c \in connections \cup dummy_descriptor_set
      THEN /\ request_count_map[c] = Cardinality(RequestsOn(c))
           /\ request_count_map[c] <= MaxRequests
      ELSE request_count_map[c] = -1 /\ RequestsOn(c) = {}
  BY <1>1 DEF RequestCountsExact
<1>8. CASE c \in ToDummy
  <2>1. AssignedOn(c) \subseteq RequestsOn(c) /\ IsFiniteSet(RequestsOn(c))
    BY RequestsFinite DEF AssignedOn
  <2>2. /\ IsFiniteSet(AssignedOn(c)) /\ Cardinality(AssignedOn(c)) \in Nat
        /\ Cardinality(AssignedOn(c)) <= Cardinality(RequestsOn(c))
        /\ Cardinality(RequestsOn(c)) \in Nat
    BY <2>1, FS_Subset, FS_CardinalityType
  <2>3. RequestsOn(c) \cap AssignedOn(c) = AssignedOn(c)
    BY <2>1
  <2>4. Cardinality(RequestsOn(c) \ AssignedOn(c))
          = Cardinality(RequestsOn(c)) - Cardinality(AssignedOn(c))
    BY <2>1, <2>3, FS_Difference
  <2>5. /\ c \in Removed /\ c \in connections /\ c \notin IdleDummies
        /\ c \notin ToClose
    BY <1>1, <1>2, <1>8
  <2>6. MaxRequests \in Nat
    BY ConstantsAssumption
  <2>7. /\ request_count_map'[c] = Cardinality(AssignedOn(c))
        /\ request_count_map'[c] <= MaxRequests
    BY <1>4, <1>7, <1>8, <2>2, <2>4, <2>5, <2>6
  <2>8. QED
    BY <1>1, <1>5, <1>8, <2>5, <2>7
<1>9. CASE c \in ToClose
  BY <1>1, <1>2, <1>4, <1>5, <1>9
<1>10. CASE c \in IdleDummies
  BY <1>1, <1>2, <1>4, <1>6, <1>10
<1>11. CASE c \notin Removed /\ c \notin IdleDummies
  BY <1>1, <1>2, <1>4, <1>6, <1>7, <1>11
<1>12. QED
  BY <1>2, <1>8, <1>9, <1>10, <1>11

LEMMA CleanupService ==
  ASSUME IndInv, ServiceInv, OtherStep, Cleanup
  PROVE  ServiceInv'
<1>1. /\ TypeOK /\ ~bad /\ BadInv' /\ CleanRequests /\ ipc' # "add"
      /\ RequestCountsExact /\ AssignedRequestsHaveOwner /\ CompletionInv /\ BeginInv
      /\ UNCHANGED <<obj, interface_identifier>>
      /\ record_status' = [c \in FDs |-> IF c \in Removed THEN ClearRecord
                                         ELSE record_status[c]]
  BY BaseFacts, OtherBad, CleanedSets DEF Cleanup, CleanDescriptors, ServiceInv
<1>2. ASSUME NEW k \in Keys, request_map'[k].status # "absent"
      PROVE  /\ request_map[k].status # "absent"
             /\ request_map'[k].complete = request_map[k].complete
             /\ request_map'[k].role = request_map[k].role
             /\ request_map'[k].data = request_map[k].data
             /\ request_map'[k].status = request_map[k].status
  BY <1>1, <1>2, CleanedRequest, NoRequestFacts
<1>3. CompletionInv'
  <2>1. ASSUME NEW k \in Keys, request_map'[k].status # "absent",
               CheckRequestCompletion(request_map'[k])
        PROVE  AllComplete(k)'
    <3>1. CheckRequestCompletion(request_map[k])
      BY <1>2, <2>1 DEF CheckRequestCompletion
    <3>2. QED
      BY <1>1, <1>2, <2>1, <3>1 DEF CompletionInv, AllComplete
  <2>2. QED
    BY <2>1 DEF CompletionInv
<1>4. RequestCountsExact'
  BY <1>1, CleanupCounts DEF RequestCountsExact
<1>5. AssignedRequestsHaveOwner'
  BY <1>1, <1>2 DEF AssignedRequestsHaveOwner, Live
<1>6. BeginInv'
  <2>1. ASSUME NEW c \in FDs, ValidBegin(c)'
        PROVE  request_map'[<<c, record_status'[c].rec.id>>].status = "absent"
    <3>1. c \notin Removed /\ record_status'[c] = record_status[c]
      BY <1>1, <2>1 DEF ValidBegin, ClearRecord, NullRecord
    <3>2. ValidBegin(c) /\ <<c, record_status[c].rec.id>> \in Keys
      BY <1>1, <2>1, <3>1 DEF ValidBegin, Keys, TypeOK, RecordType
    <3>3. QED
      BY <1>1, <3>1, <3>2, CleanedRequest DEF BeginInv
  <2>2. QED
    BY <1>1, <2>1 DEF BeginInv, ValidBegin
<1>7. RoomInv'
  BY <1>1 DEF RoomInv
<1>8. QED
  BY <1>1, <1>3, <1>4, <1>5, <1>6, <1>7 DEF ServiceInv

-----------------------------------------------------------------------------
(* ServiceInv is inductive relative to IndInv.                             *)

LEMMA ServiceInit == Init => ServiceInv
<1> SUFFICES ASSUME Init PROVE ServiceInv
  OBVIOUS
<1>1. \A k \in Keys : request_map[k].status = "absent"
  BY NoRequestFacts DEF Init
<1>2. BadInv /\ RoomInv /\ CompletionInv /\ AssignedRequestsHaveOwner
  BY <1>1 DEF Init, BadInv, RoomInv, CompletionInv, AssignedRequestsHaveOwner
<1>3. BeginInv
  BY DEF Init, BeginInv, ValidBegin, ClearRecord, NullRecord
<1>4. \A c : RequestsOn(c) = {}
  BY <1>1 DEF RequestsOn
<1>5. RequestCountsExact
  BY <1>4 DEF Init, RequestCountsExact
<1>6. QED
  BY <1>2, <1>3, <1>5 DEF ServiceInv

LEMMA ServiceStep ==
  ASSUME IndInv, ServiceInv, Next
  PROVE  ServiceInv'
<1>1. CASE OtherStep
  <2>1. CASE \/ Construct \/ DestructorReturns \/ Cleanup
             \/ \E o \in Objs, id \in Ids : ConstructRequest(o, id)
    BY <1>1, <2>1, ConstructService, DestructorService, CleanupService, AssignService
  <2>2. CASE /\ OtherKeepEffect /\ ~DestructorReturns /\ ~Cleanup
    BY <1>1, <2>2, OtherMaps, OtherKeepService
  <2>3. QED
    BY <1>1, <2>1, <2>2, OtherKeeps
<1>2. QED
  BY <1>1, NextCases, ReadService, ThreadService

LEMMA ServiceStutter ==
  ASSUME ServiceInv, UNCHANGED vars
  PROVE  ServiceInv'
<1> USE DEF vars
<1>1. BadInv' /\ CompletionInv'
  BY DEF ServiceInv, BadInv, HoldsInterfaceMutex, CompletionInv, AllComplete
<1>2. ~bad' => BeginInv' /\ RoomInv'
  BY DEF ServiceInv, BeginInv, ValidBegin, RoomInv
<1>3. RequestCountsExact'
  BY DEF ServiceInv, RequestCountsExact, RequestsOn
<1>4. AssignedRequestsHaveOwner'
  BY DEF ServiceInv, AssignedRequestsHaveOwner, Live
<1>5. QED
  BY <1>1, <1>2, <1>3, <1>4 DEF ServiceInv

\* Requests are counted and assigned ones have an owner in every reachable state.
LEMMA ServiceInvariant == Spec => []ServiceInv
<1>1. IndInv /\ ServiceInv /\ [Next]_vars => ServiceInv'
  BY ServiceStep, ServiceStutter
<1>2. QED
  BY <1>1, ServiceInit, Invariant, PTL DEF Spec

-----------------------------------------------------------------------------
(* The safety properties of requests.                                      *)

\* AddRequest, RemoveRequest and RequestCleanupDuringConnectionClosure keep the count
\* of every connection, and the limit that CompleteBegin checks is not exceeded.
THEOREM RequestsCounted == Spec => []RequestCountsExact
<1>1. ServiceInv => RequestCountsExact
  BY DEF ServiceInv
<1>2. QED
  BY <1>1, ServiceInvariant, PTL

\* No assigned request is orphaned: neither a throwing AcceptRequests nor a failed
\* write leaves a request in request_map_ that nobody will remove.
THEOREM AssignedRequestsOwned == Spec => []AssignedRequestsHaveOwner
<1>1. ServiceInv => AssignedRequestsHaveOwner
  BY DEF ServiceInv
<1>2. QED
  BY <1>1, ServiceInvariant, PTL

\* The list request_iterators of ReadRecords has complete requests that are not yet
\* assigned, also after an abort, and is empty once the interface is corrupt.
THEOREM CollectedRequestsComplete == Spec => []CollectedRequestsValid
<1>1. ASSUME IndInv, ServiceInv, NEW id \in found
      PROVE  /\ request_map[<<cur, id>>].status = "pending"
             /\ CheckRequestCompletion(request_map[<<cur, id>>])
  <2>1. ~bad
    BY <1>1 DEF ServiceInv, BadInv, IndInv, IteratorInv, InCall, Reading
  <2>2. request_map[<<cur, id>>].status = "pending" /\ AllComplete(<<cur, id>>)
    BY <1>1, <2>1 DEF IndInv, RequestInv, FoundInv
  <2>3. QED
    BY <2>2 DEF AllComplete, CheckRequestCompletion
<1>2. IndInv /\ ServiceInv => CollectedRequestsValid
  BY <1>1 DEF CollectedRequestsValid
<1>3. QED
  BY <1>2, Invariant, ServiceInvariant, PTL

\* Cleanup finds a connection that it cannot remove only while a request writes to it.
LEMMA UnremovableWritten ==
  ASSUME IndInv, OwnersInv, Cleanup, NEW c \in Unremovable
  PROVE  \E o \in Objs : /\ obj[o].pc = "writing"
                         /\ Fd(o) \in application_closure_request_set
<1>1. /\ TypeOK /\ ipc = "outside" /\ c \in application_closure_request_set
      /\ application_closure_request_set \subseteq connections
  BY BaseFacts DEF Cleanup, At, Unremovable, IndInv, RequestInv, ClosureInv
<1>2. wmutex[c] # Nobody /\ wmutex[c] \in Objs \cup {Nobody, Interface} /\ c \in FDs
  BY <1>1 DEF Unremovable, TypeOK
<1>3. wmutex[c] \in Objs
  BY <1>1, <1>2 DEF OwnersInv, OwnerInv
<1>4. obj[wmutex[c]].pc = "writing" /\ Fd(wmutex[c]) = c
  BY <1>2, <1>3 DEF OwnersInv, OwnerInv
<1>5. QED
  BY <1>1, <1>3, <1>4

\* The logic errors that AddRequest, RemoveRequest and RecordStatus report by corrupting
\* the interface do not exist; what remains is a closure scheduled under a writer.
THEOREM OnlyWritersCorrupt == Spec => CorruptOnlyUnderWriter
<1> DEFINE UnderWriter ==
      ~bad /\ bad' => \E o \in Objs : /\ obj[o].pc = "writing"
                                      /\ Fd(o) \in application_closure_request_set
<1>1. ASSUME IndInv, OwnersInv, ServiceInv, Next, ~bad, bad' PROVE UnderWriter
  <2>1. ~ReadStep
    BY <1>1, ReadEffect DEF ReadOutcome
  <2>2. ~\E o \in Objs : RequestStep(o) \/ RequestCall(o)
    BY <1>1, RequestEffects DEF RequestOutcome
  <2>3. Cleanup
    BY <1>1, <2>1, <2>2, NextCases, OtherKeeps
       DEF OtherKeepEffect, Construct, DestructorReturns, ConstructRequest
  <2>4. Unremovable # {}
    BY <1>1, <2>3 DEF Cleanup
  <2>5. QED
    BY <1>1, <2>3, <2>4, UnremovableWritten
<1>2. ASSUME UNCHANGED vars PROVE UnderWriter
  BY <1>2 DEF vars
<1>3. IndInv /\ OwnersInv /\ ServiceInv /\ [Next]_vars => [UnderWriter]_vars
  BY <1>1, <1>2
<1>4. QED
  BY <1>3, Invariant, OwnersInvariant, ServiceInvariant, PTL DEF Spec, CorruptOnlyUnderWriter

\* What a complete request received.
Same(k) == /\ request_map'[k].data = request_map[k].data
           /\ request_map'[k].malformed = request_map[k].malformed
           /\ request_map'[k].complete = request_map[k].complete
           /\ request_map'[k].role = request_map[k].role

\* Only the steps of ReadRecords change what a request received.
LEMMA OtherSame ==
  ASSUME IndInv, ServiceInv, OtherStep, NEW k \in Keys, request_map'[k].status # "absent"
  PROVE  Same(k)
<1>1. TypeOK
  BY BaseFacts
<1>2. CASE OtherKeepEffect \/ Construct
  BY <1>2 DEF OtherKeepEffect, Construct, Same
<1>3. CASE DestructorReturns
  BY <1>3, NoRequestFacts DEF DestructorReturns
<1>4. CASE Cleanup
  <2>1. CleanRequests
    BY <1>4 DEF Cleanup
  <2>2. QED
    BY <1>1, <2>1, CleanedRequest, NoRequestFacts DEF Same
<1>5. ASSUME NEW o \in Objs, NEW id \in Ids, ConstructRequest(o, id) PROVE Same(k)
  <2>1. ~bad
    BY <1>5 DEF ServiceInv, BadInv, ConstructRequest, At
  <2>2. QED
    BY <1>5, <2>1, AssignEffect DEF Same
<1>6. QED
  BY <1>2, <1>3, <1>4, <1>5, OtherKeeps

\* Late records of a request are ignored: once CheckRequestCompletion holds of it, its
\* data do not change until it is removed.
THEOREM CompleteRequestsKept == Spec => CompleteRequestsFrozen
<1> DEFINE Frozen ==
      \A k \in Keys :
       /\ request_map[k].status # "absent" /\ CheckRequestCompletion(request_map[k])
       /\ request_map'[k].status # "absent"
       => /\ request_map'[k].data = request_map[k].data
          /\ request_map'[k].malformed = request_map[k].malformed
          /\ CheckRequestCompletion(request_map'[k])
<1>1. ASSUME IndInv, ServiceInv, Next PROVE Frozen
  <2>1. SUFFICES ASSUME NEW k \in Keys, request_map[k].status # "absent",
                        CheckRequestCompletion(request_map[k]),
                        request_map'[k].status # "absent"
                 PROVE  Same(k)
    BY DEF Same, CheckRequestCompletion
  <2>2. TypeOK /\ CompletionInv /\ AllComplete(k)
    BY <1>1, <2>1, BaseFacts DEF ServiceInv, CompletionInv
  <2>3. ASSUME NEW j \in Keys, OneRequest(j) PROVE Same(k)
    <3>1. CASE j # k
      BY <2>2, <2>3, <3>1, OtherRequestsKept DEF Same
    <3>2. CASE j = k
      <4>1. Told(k)
        BY <2>1, <2>2, <2>3, <3>2, OneRequestStatus DEF OneRequest, Updated, Added
      <4>2. QED
        BY <2>2, <4>1, ToldEffect DEF Same
    <3>3. QED
      BY <3>1, <3>2
  <2>4. CASE ReadStep
    <3>1. \A id \in Ids : <<cur, id>> \in Keys
      BY <1>1, <2>4, ReadBasics DEF Keys
    <3>2. QED
      BY <1>1, <2>3, <2>4, <3>1, ReadEffect DEF ReadOutcome, Same
  <2>5. ASSUME NEW o \in Objs, RequestStep(o) \/ RequestCall(o) PROVE Same(k)
    BY <1>1, <2>3, <2>5, RequestEffects DEF RequestOutcome, OneRequest, Same
  <2>6. CASE OtherStep
    BY <1>1, <2>1, <2>6, OtherSame
  <2>7. QED
    BY <1>1, <2>4, <2>5, <2>6, NextCases
<1>2. ASSUME UNCHANGED vars PROVE Frozen
  BY <1>2 DEF vars
<1>3. IndInv /\ ServiceInv /\ [Next]_vars => [Frozen]_vars
  BY <1>1, <1>2
<1>4. QED
  BY <1>3, Invariant, ServiceInvariant, PTL DEF Spec, CompleteRequestsFrozen

\* ReadRecords does not remove the request of an object.
LEMMA ReadKeepsAssigned ==
  ASSUME IndInv, IndInv', ServiceInv, ReadStep, NEW k \in Keys,
         request_map[k].status = "assigned"
  PROVE  request_map'[k].status = "assigned"
<1>1. ~bad /\ ~bad' /\ UNCHANGED <<obj, interface_identifier>>
  BY ReadEffect, ReadBasics DEF ReadOutcome
<1>2. PICK o \in Live : obj[o].key = k
  BY <1>1 DEF ServiceInv, AssignedRequestsHaveOwner
<1>3. o \in Live' /\ obj'[o].key = k
  BY <1>1, <1>2 DEF Live
<1>4. LiveInv'
  BY <1>1 DEF IndInv, RequestInv
<1>5. QED
  BY <1>3, <1>4 DEF LiveInv

\* "The interface will not remove an item from request_map_ if the associated request
\* has been assigned": it is removed by a call on its FcgiRequest, or with the interface.
THEOREM AssignedOnlyRemovedByOwner == Spec => AssignedRemovedByOwner
<1> DEFINE ByOwner ==
      \A k \in Keys :
       /\ request_map[k].status = "assigned" /\ request_map'[k].status # "assigned"
       /\ interface_identifier' # 0
       => \E o \in Live : obj[o].key = k /\ obj'[o] # obj[o]
<1>1. ASSUME IndInv, IndInv', ServiceInv, Next PROVE ByOwner
  <2>1. SUFFICES ASSUME NEW k \in Keys, request_map[k].status = "assigned",
                        request_map'[k].status # "assigned", interface_identifier' # 0
                 PROVE  \E o \in Live : obj[o].key = k /\ obj'[o] # obj[o]
    OBVIOUS
  <2>2. TypeOK /\ ~ReadStep
    BY <1>1, <2>1, BaseFacts, ReadKeepsAssigned
  <2>3. ~OtherStep
    <3>1. SUFFICES ASSUME OtherStep PROVE FALSE
      OBVIOUS
    <3>2. ASSUME NEW o \in Objs, NEW id \in Ids, ConstructRequest(o, id) PROVE FALSE
      <4>1. ~bad
        BY <1>1, <3>2 DEF ServiceInv, BadInv, ConstructRequest, At
      <4>2. QED
        BY <1>1, <2>1, <3>2, <4>1, AssignEffect
    <3>3. ~Cleanup
      BY <2>1, <2>2, CleanedRequest DEF Cleanup
    <3>4. QED
      BY <2>1, <3>1, <3>2, <3>3, OtherKeeps
         DEF OtherKeepEffect, Construct, DestructorReturns
  <2>4. PICK o \in Objs : RequestStep(o) \/ RequestCall(o)
    BY <1>1, <2>2, <2>3, NextCases
  <2>5. /\ o \in Live /\ o \notin Live' /\ obj[o].key \in Keys /\ Erased(obj[o].key)
        /\ interface_identifier' = interface_identifier
    BY <1>1, <2>1, <2>4, RequestEffects, RequestKeepsReading DEF RequestOutcome, requestFrame
  <2>6. obj[o].key = k
    BY <2>1, <2>2, <2>5, OtherRequestsKept DEF OneRequest
  <2>7. obj'[o] # obj[o]
    BY <2>5 DEF Live
  <2>8. QED
    BY <2>5, <2>6, <2>7
<1>2. ASSUME UNCHANGED vars PROVE ByOwner
  BY <1>2 DEF vars
<1>3. IndInv /\ IndInv' /\ ServiceInv /\ [Next]_vars => [ByOwner]_vars
  BY <1>1, <1>2
<1>4. QED
  BY <1>3, Invariant, ServiceInvariant, PTL DEF Spec, AssignedRemovedByOwner

-----------------------------------------------------------------------------
(* FcgiServerInterface implements RequestService.                          *)

\* The refinement mapping.
Conn == [c \in FDs |-> IF c \in connections THEN "open"
                       ELSE IF c \in dummy_descriptor_set THEN "kept" ELSE "none"]
Doomed == application_closure_request_set \cap connections
Phase == [k \in Keys |-> PhaseOf(request_map[k])]

LEMMA PhaseFacts ==
  ASSUME NEW rd, rd.status \in {"absent", "pending", "assigned"}
  PROVE  /\ PhaseOf(rd) = "absent" <=> rd.status = "absent"
         /\ PhaseOf(rd) = "assigned" <=> rd.status = "assigned"
         /\ rd.status = "pending" => PhaseOf(rd) = IF CheckRequestCompletion(rd)
                                                   THEN "complete" ELSE "receiving"
BY DEF PhaseOf

LEMMA ServiceKeys == Service!Keys = Keys
BY DEF Service!Keys, Keys

LEMMA RequestStatus ==
  ASSUME TypeOK, NEW k \in Keys
  PROVE  /\ request_map[k].status \in {"absent", "pending", "assigned"}
         /\ k[1] \in FDs
BY DEF TypeOK, RequestDataType, Keys

LEMMA ServiceRequests ==
  ASSUME TypeOK, NEW c
  PROVE  Service!On(c) = RequestsOn(c) /\ Service!Assigned(c) = AssignedOn(c)
<1>1. ASSUME NEW k \in Keys
      PROVE  /\ Phase[k] # "absent" <=> request_map[k].status # "absent"
             /\ Phase[k] = "assigned" <=> request_map[k].status = "assigned"
  <2>1. Phase[k] = PhaseOf(request_map[k])
    BY DEF Phase
  <2>2. QED
    BY <2>1, RequestStatus, PhaseFacts
<1>2. Service!On(c) = {k \in Keys : k[1] = c /\ Phase[k] # "absent"}
  BY ServiceKeys DEF Service!On, Phase
<1>3. Service!On(c) = RequestsOn(c)
  BY <1>1, <1>2 DEF RequestsOn
<1>4. Service!Assigned(c) = {k \in Service!On(c) : Phase[k] = "assigned"}
  BY DEF Service!Assigned, Phase
<1>5. QED
  BY <1>1, <1>3, <1>4 DEF AssignedOn, RequestsOn

LEMMA ServiceCardinality ==
  ASSUME NEW S
  PROVE  Service!Cardinality(S) = Cardinality(S)
BY DEF Service!Cardinality, Cardinality

\* The steps of RequestService in terms of the mapping.
LEMMA MapOpen ==
  ASSUME NEW c \in FDs, Conn[c] = "none", Conn' = [Conn EXCEPT ![c] = "open"],
         UNCHANGED <<Doomed, Phase>>
  PROVE  Service!Next
<1>1. Service!Open(c)
  BY DEF Service!Open, Conn, Doomed, Phase
<1>2. QED
  BY <1>1 DEF Service!Next

LEMMA MapDoom ==
  ASSUME NEW c \in FDs, Conn[c] = "open", Doomed' = Doomed \cup {c},
         UNCHANGED <<Conn, Phase>>
  PROVE  Service!Next
<1>1. Service!Doom(c)
  BY DEF Service!Doom, Conn, Doomed, Phase
<1>2. QED
  BY <1>1 DEF Service!Next

LEMMA MapAdvance ==
  ASSUME TypeOK, NEW k \in Keys, Conn[k[1]] = "open", UNCHANGED <<Conn, Doomed>>,
         \/ /\ Phase[k] = "absent" /\ Phase' = [Phase EXCEPT ![k] = "receiving"]
            /\ Cardinality(RequestsOn(k[1])) < MaxRequests
         \/ Phase[k] = "receiving" /\ Phase' = [Phase EXCEPT ![k] = "complete"]
         \/ Phase[k] = "complete" /\ Phase' = [Phase EXCEPT ![k] = "assigned"]
  PROVE  Service!Next
<1>1. ASSUME NEW from, NEW to, Phase[k] = from, Phase' = [Phase EXCEPT ![k] = to]
      PROVE  Service!Advance(k, from, to)
  BY <1>1 DEF Service!Advance, Conn, Doomed, Phase
<1>2. CASE /\ Phase[k] = "absent" /\ Phase' = [Phase EXCEPT ![k] = "receiving"]
           /\ Cardinality(RequestsOn(k[1])) < MaxRequests
  <2>1. Service!On(k[1]) = RequestsOn(k[1])
    BY ServiceRequests
  <2>2. Service!Advance(k, "absent", "receiving")
    BY <1>1, <1>2
  <2>3. Service!Begin(k)
    BY <1>2, <2>1, <2>2, ServiceCardinality DEF Service!Begin
  <2>4. QED
    BY <2>3, ServiceKeys DEF Service!Next
<1>3. CASE Phase[k] = "receiving" /\ Phase' = [Phase EXCEPT ![k] = "complete"]
  <2>1. Service!Complete(k)
    BY <1>1, <1>3 DEF Service!Complete
  <2>2. QED
    BY <2>1, ServiceKeys DEF Service!Next
<1>4. CASE Phase[k] = "complete" /\ Phase' = [Phase EXCEPT ![k] = "assigned"]
  <2>1. Service!Assign(k)
    BY <1>1, <1>4 DEF Service!Assign
  <2>2. QED
    BY <2>1, ServiceKeys DEF Service!Next
<1>5. QED
  BY <1>2, <1>3, <1>4

LEMMA MapRemove ==
  ASSUME NEW k \in Keys, UNCHANGED Conn, Phase' = [Phase EXCEPT ![k] = "absent"],
         \/ Conn[k[1]] = "open" /\ Phase[k] \in {"receiving", "complete"}
         \/ Phase[k] = "assigned",
         Doomed' = Doomed \/ (Conn[k[1]] = "open" /\ Doomed' = Doomed \cup {k[1]})
  PROVE  Service!Next
<1>1. Service!Remove(k)
  BY DEF Service!Remove, Conn, Doomed, Phase
<1>2. Service!Drop(k) \/ Service!Finish(k)
  BY <1>1 DEF Service!Drop, Service!Finish, Conn, Phase
<1>3. QED
  BY <1>2, ServiceKeys DEF Service!Next

\* A step that changes one request.
LEMMA PhaseStep ==
  ASSUME TypeOK, NEW k \in Keys,
         \A j \in Keys : j # k => request_map'[j] = request_map[j]
  PROVE  /\ Phase' = [Phase EXCEPT ![k] = PhaseOf(request_map'[k])]
         /\ Phase[k] = PhaseOf(request_map[k])
BY DEF Phase

LEMMA PhaseSame ==
  ASSUME UNCHANGED request_map
  PROVE  UNCHANGED Phase
BY DEF Phase

-----------------------------------------------------------------------------
(* ReadRecords.                                                            *)

\* A step of ReadRecords that schedules the closure of its connection may erase a
\* request, and does nothing else to request_map_.
ReadScheduling ==
  /\ ScheduleEffect
  /\ application_closure_request_set' # application_closure_request_set =>
       \/ request_map' = request_map
       \/ \E id \in Ids : request_map' = [request_map EXCEPT ![<<cur, id>>] = NoRequest]

LEMMA ReadSchedulingStep ==
  ASSUME IndInv, RequestInv, ReadStep
  PROVE  ReadScheduling
<1> DEFINE KeepsClosure == UNCHANGED application_closure_request_set
<1>1. ASSUME \/ \E n \in 0..BufferUnits : SocketRead(n)
             \/ SocketReadError \/ ReadRecordsReturns \/ HeaderLocal \/ BodyKept
             \/ CompleteIgnored \/ CompleteManagement
      PROVE  KeepsClosure
  BY <1>1 DEF SocketRead, SocketReadError, ReadRecordsReturns, HeaderLocal, BodyKept,
              CompleteIgnored, CompleteManagement, ThrowsFromRead
<1>2. ASSUME HeaderChecked \/ BodyAppended \/ CompleteBegin \/ AddRequest
             \/ CompleteStreamEnd
      PROVE  KeepsClosure
  BY <1>2 DEF HeaderChecked, BodyAppended, CompleteBegin, AddRequest, CompleteStreamEnd,
              InterfaceCheck, ThrowsFromRead
<1>3. ASSUME \/ SendAcquires \/ SendSucceeds \/ SendLocksInterface
             \/ \E partial \in BOOLEAN, place \in {"send_failed", "send_threw"} :
                  SendFails(partial, place)
             \/ \E partial \in BOOLEAN : SendFindsClosure(partial)
      PROVE  KeepsClosure
  BY <1>3 DEF SendAcquires, SendSucceeds, SendLocksInterface, SendFails, SendFindsClosure
<1>4. KeepsClosure => ReadScheduling
  BY DEF ReadScheduling, ScheduleEffect
<1>5. ASSUME SocketReadEnd \/ SendSchedules PROVE ReadScheduling
  BY <1>5 DEF SocketReadEnd, SendSchedules, sendFrame, InterfaceCheck, ThrowsFromRead,
              Schedule, ReadScheduling, ScheduleEffect
<1>6. ASSUME CompleteAbort PROVE ReadScheduling
  <2>1. Rec.id \in Ids
    BY <1>6, ReadBasics, RecordKey DEF CompleteAbort, Completes
  <2>2. KeepsClosure \/ \E iter \in Lookup(Rec.id) : AbortThrough(iter)
    BY <1>6 DEF CompleteAbort, InterfaceCheck, ThrowsFromRead
  <2>3. ASSUME NEW iter, AbortThrough(iter) PROVE ReadScheduling
    BY <2>1, <2>3 DEF AbortThrough, Schedule, EraseRequest, ReadScheduling, ScheduleEffect
  <2>4. QED
    BY <1>4, <2>2, <2>3
<1>7. ASSUME RejectMalformed PROVE ReadScheduling
  <2>1. Rec.id \in Ids
    BY <1>7, ReadBasics, RecordKey
       DEF RejectMalformed, At, RequestInv, RecordInv, ValidStream, IsStream, Rec
  <2>2. QED
    BY <1>7, <2>1 DEF RejectMalformed, InterfaceCheck, ThrowsFromRead, Schedule,
                      EraseRequest, ReadScheduling, ScheduleEffect
<1>8. QED
  BY <1>1, <1>2, <1>3, <1>4, <1>5, <1>6, <1>7 DEF ReadStep

\* What a change of one request by ReadRecords is to the service.
LEMMA ReadPhase ==
  ASSUME IndInv, IndInv', ServiceInv, ReadStep, NEW id \in Ids, OneRequest(<<cur, id>>),
         UNCHANGED application_closure_request_set
  PROVE  Service!Next \/ UNCHANGED <<Conn, Doomed, Phase>>
<1> DEFINE k == <<cur, id>>
<1>1. /\ TypeOK /\ TypeOK' /\ k \in Keys /\ k[1] = cur /\ cur \in connections
      /\ cur \in FDs /\ UNCHANGED <<connections, dummy_descriptor_set>>
      /\ CompletionInv /\ RequestCountsExact /\ ~bad
  BY ReadBasics, BaseFacts, ReadEffect DEF Keys, IndInv, ServiceInv
<1> HIDE DEF k
<1>2. UNCHANGED <<Conn, Doomed>> /\ Conn[cur] = "open"
  BY <1>1 DEF Conn, Doomed
<1>3. /\ Phase' = [Phase EXCEPT ![k] = PhaseOf(request_map'[k])]
      /\ Phase[k] = PhaseOf(request_map[k])
  BY <1>1, OtherRequestsKept, PhaseStep DEF k
<1>4. /\ request_map[k].status \in {"absent", "pending", "assigned"}
      /\ request_map'[k].status \in {"absent", "pending", "assigned"}
  BY <1>1, RequestStatus DEF TypeOK, RequestDataType
<1>5. CASE PhaseOf(request_map'[k]) = PhaseOf(request_map[k])
  <2>1. Phase' = Phase
    BY <1>3, <1>5 DEF Phase
  <2>2. QED
    BY <1>2, <2>1
<1>6. CASE Updated(k)
  <2>1. /\ request_map[k].status = "pending" /\ request_map'[k].status = "pending"
        /\ ~CheckRequestCompletion(request_map[k])
    BY <1>1, <1>6, OneRequestStatus DEF Updated, CompletionInv
  <2>2. /\ Phase[k] = "receiving"
        /\ PhaseOf(request_map'[k]) \in {"receiving", "complete"}
        /\ PhaseOf(request_map[k]) = "receiving"
    BY <1>3, <2>1, PhaseFacts
  <2>3. QED
    BY <1>1, <1>2, <1>3, <1>5, <2>2, MapAdvance
<1>7. CASE Told(k)
  <2>1. request_map[k].status = "assigned" /\ request_map'[k].status = "assigned"
    BY <1>1, <1>7, ToldEffect DEF Told
  <2>2. PhaseOf(request_map[k]) = "assigned" /\ PhaseOf(request_map'[k]) = "assigned"
    BY <2>1, PhaseFacts
  <2>3. QED
    BY <1>5, <2>2
<1>8. CASE Added(k)
  <2>1. request_map[k].status = "absent" /\ request_map'[k].status = "pending"
    BY <1>1, <1>8, OneRequestStatus DEF Added
  <2>2. ~CheckRequestCompletion(request_map'[k])
    BY <1>1, <1>8, NewRequestOpen, SMTT(30) DEF Added, TypeOK
  <2>3. Phase[k] = "absent" /\ PhaseOf(request_map'[k]) = "receiving"
    BY <1>3, <2>1, <2>2, PhaseFacts
  <2>4. Cardinality(RequestsOn(cur)) < MaxRequests
    BY <1>1, <1>8, ConstantsAssumption DEF Added, RequestCountsExact
  <2>5. QED
    BY <1>1, <1>2, <1>3, <2>3, <2>4, MapAdvance
<1>9. CASE Erased(k)
  <2>1. request_map[k].status = "pending" /\ request_map'[k].status = "absent"
    BY <1>1, <1>4, <1>9, OneRequestStatus, ReadKeepsAssigned DEF Erased
  <2>2. Phase[k] \in {"receiving", "complete"} /\ PhaseOf(request_map'[k]) = "absent"
    BY <1>3, <1>4, <2>1, PhaseFacts
  <2>3. QED
    BY <1>1, <1>2, <1>3, <2>2, MapRemove
<1>10. QED
  BY <1>6, <1>7, <1>8, <1>9 DEF OneRequest, k

ServiceStutters == UNCHANGED <<Conn, Doomed, Phase>>

LEMMA ReadImplements ==
  ASSUME IndInv, IndInv', ServiceInv, ReadStep
  PROVE  Service!Next \/ ServiceStutters
<1>1. /\ TypeOK /\ TypeOK' /\ cur \in connections /\ cur \in FDs
      /\ UNCHANGED <<connections, dummy_descriptor_set>>
      /\ ~bad /\ ReadOutcome /\ ReadScheduling
  BY ReadBasics, BaseFacts, ReadEffect, ReadSchedulingStep DEF IndInv
<1>2. UNCHANGED Conn /\ Conn[cur] = "open"
  BY <1>1 DEF Conn
<1>3. CASE UNCHANGED application_closure_request_set
  <2>1. CASE UNCHANGED request_map
    BY <1>1, <1>2, <1>3, <2>1, PhaseSame DEF Doomed, ServiceStutters
  <2>2. CASE \E id \in Ids : OneRequest(<<cur, id>>)
    BY <1>3, <2>2, ReadPhase DEF ServiceStutters
  <2>3. QED
    BY <1>1, <2>1, <2>2 DEF ReadOutcome
<1>4. CASE application_closure_request_set' # application_closure_request_set
  <2>1. Doomed' = Doomed \cup {cur}
    BY <1>1, <1>4 DEF ReadScheduling, ScheduleEffect, Doomed
  <2>2. CASE UNCHANGED request_map
    BY <1>1, <1>2, <2>1, <2>2, PhaseSame, MapDoom
  <2>3. ASSUME NEW id \in Ids,
               request_map' = [request_map EXCEPT ![<<cur, id>>] = NoRequest]
        PROVE  Service!Next \/ ServiceStutters
    <3> DEFINE k == <<cur, id>>
    <3>1. k \in Keys /\ k[1] = cur
      BY <1>1 DEF Keys
    <3> HIDE DEF k
    <3>2. /\ request_map'[k] = NoRequest
          /\ \A j \in Keys : j # k => request_map'[j] = request_map[j]
      BY <1>1, <2>3, <3>1 DEF TypeOK, k
    <3>3. /\ request_map[k].status \in {"absent", "pending", "assigned"}
          /\ request_map'[k].status = "absent"
      BY <1>1, <3>1, <3>2, RequestStatus, NoRequestFacts
    <3>4. /\ Phase' = [Phase EXCEPT ![k] = "absent"]
          /\ Phase[k] = PhaseOf(request_map[k])
      BY <1>1, <3>1, <3>2, <3>3, PhaseStep, PhaseFacts
    <3>5. CASE request_map[k].status = "absent"
      <4>1. Phase' = Phase
        BY <3>3, <3>4, <3>5, PhaseFacts DEF Phase
      <4>2. QED
        BY <1>1, <1>2, <2>1, <4>1, MapDoom
    <3>6. CASE request_map[k].status # "absent"
      <4>1. request_map[k].status = "pending"
        BY <3>1, <3>3, <3>6, ReadKeepsAssigned
      <4>2. Phase[k] \in {"receiving", "complete"}
        BY <3>3, <3>4, <4>1, PhaseFacts
      <4>3. QED
        BY <1>2, <2>1, <3>1, <3>4, <4>2, MapRemove
    <3>7. QED
      BY <3>5, <3>6
  <2>4. QED
    BY <1>1, <1>4, <2>2, <2>3 DEF ReadScheduling
<1>5. QED
  BY <1>3, <1>4

-----------------------------------------------------------------------------
(* Application threads.                                                    *)

\* A step of the thread of an object finishes its request, dooms its connection, or both.
LEMMA RequestImplements ==
  ASSUME IndInv, ServiceInv, NEW o \in Objs, RequestStep(o) \/ RequestCall(o)
  PROVE  Service!Next \/ ServiceStutters
<1>1. /\ TypeOK /\ KeyInv /\ ThreadInv /\ RequestMapEffect(o) /\ RequestOutcome(o)
      /\ UNCHANGED <<connections, dummy_descriptor_set>>
  BY BaseFacts, RequestStepMapEffect, RequestEffects, RequestKeepsReading
     DEF requestFrame
<1>2. UNCHANGED Conn
  BY <1>1 DEF Conn
<1>3. \/ Doomed' = Doomed
      \/ Fd(o) \in connections /\ Doomed' = Doomed \cup {Fd(o)}
  <2>1. CASE UNCHANGED application_closure_request_set
    BY <1>1, <2>1 DEF Doomed
  <2>2. CASE application_closure_request_set' # application_closure_request_set
    <3>1. Fd(o) \in connections
      BY <1>1, <2>2 DEF RequestMapEffect, ThreadInv
    <3>2. QED
      BY <1>1, <2>2, <3>1 DEF RequestMapEffect, Doomed
  <2>3. QED
    BY <2>1, <2>2
<1>4. Fd(o) \in connections => Fd(o) \in FDs /\ Conn[Fd(o)] = "open"
  BY <1>1 DEF Conn, TypeOK
<1>5. CASE UNCHANGED request_map
  BY <1>2, <1>3, <1>4, <1>5, PhaseSame, MapDoom DEF ServiceStutters
<1>6. CASE /\ obj[o].key \in Keys /\ request_map[obj[o].key].status = "assigned"
           /\ Erased(obj[o].key)
  <2> DEFINE k == obj[o].key
  <2>1. k \in Keys /\ Fd(o) = k[1]
    BY <1>6 DEF Fd
  <2>2. /\ request_map'[k].status = "absent" /\ request_map[k].status = "assigned"
        /\ \A j \in Keys : j # k => request_map'[j] = request_map[j]
    BY <1>1, <1>6, OneRequestStatus, OtherRequestsKept DEF OneRequest
  <2> HIDE DEF k
  <2>3. /\ Phase' = [Phase EXCEPT ![k] = "absent"] /\ Phase[k] = "assigned"
    BY <1>1, <2>1, <2>2, PhaseStep, PhaseFacts
  <2>4. QED
    BY <1>2, <1>3, <1>4, <2>1, <2>3, MapRemove
<1>7. QED
  BY <1>1, <1>5, <1>6 DEF RequestOutcome

-----------------------------------------------------------------------------
(* The other steps.                                                        *)

LEMMA KeepImplements ==
  ASSUME IndInv, OtherStep, OtherKeepEffect, UNCHANGED connections
  PROVE  Service!Next \/ ServiceStutters
<1>1. /\ TypeOK /\ ReadingInv /\ UNCHANGED <<request_map, dummy_descriptor_set>>
  BY BaseFacts DEF OtherKeepEffect
<1>2. UNCHANGED <<Conn, Phase>>
  BY <1>1, PhaseSame DEF Conn
<1>3. CASE UNCHANGED application_closure_request_set
  BY <1>2, <1>3 DEF Doomed, ServiceStutters
<1>4. CASE /\ ipc = "throw_read"
           /\ application_closure_request_set' = application_closure_request_set \cup {cur}
  <2>1. cur \in connections /\ cur \in FDs
    BY <1>1, <1>4 DEF ReadingInv, InCall, TypeOK
  <2>2. Conn[cur] = "open" /\ Doomed' = Doomed \cup {cur}
    BY <1>4, <2>1 DEF Conn, Doomed
  <2>3. QED
    BY <1>2, <2>1, <2>2, MapDoom
<1>5. QED
  BY <1>3, <1>4 DEF OtherKeepEffect

LEMMA AcceptImplements ==
  ASSUME IndInv, ServiceInv, NEW c \in FDs, AcceptConnection(c)
  PROVE  Service!Next
<1>1. /\ TypeOK /\ DescriptorInv /\ ipc = "accept" /\ kfd[c] = "free"
      /\ connections' = connections \cup {c}
      /\ UNCHANGED <<request_map, dummy_descriptor_set, application_closure_request_set>>
  BY BaseFacts DEF AcceptConnection, At
<1>2. ~bad
  BY <1>1 DEF ServiceInv, BadInv
<1>3. application_closure_request_set \subseteq connections
  BY <1>2 DEF IndInv, RequestInv, ClosureInv
<1>4. c \notin connections /\ c \notin dummy_descriptor_set
  BY <1>1 DEF DescriptorInv, InDestructor
<1>5. Conn[c] = "none" /\ Conn' = [Conn EXCEPT ![c] = "open"]
  BY <1>1, <1>4 DEF Conn
<1>6. UNCHANGED <<Doomed, Phase>>
  BY <1>1, <1>3, <1>4, PhaseSame DEF Doomed
<1>7. QED
  BY <1>5, <1>6, MapOpen

LEMMA AssignImplements ==
  ASSUME IndInv, ServiceInv, NEW o \in Objs, NEW id \in Ids, ConstructRequest(o, id)
  PROVE  Service!Next
<1> DEFINE k == <<cur, id>>
<1>1. TypeOK /\ ~bad
  BY BaseFacts DEF ServiceInv, BadInv, ConstructRequest, At
<1>2. /\ cur \in connections /\ k \in Keys /\ k[1] = cur /\ cur \in FDs
      /\ request_map[k].status = "pending" /\ AllComplete(k)
      /\ request_map'[k].status = "assigned"
      /\ \A j \in Keys : j # k => request_map'[j] = request_map[j]
  BY <1>1, AssignEffect DEF TypeOK
<1>3. UNCHANGED <<Conn, Doomed>> /\ Conn[cur] = "open"
  BY <1>2 DEF ConstructRequest, Conn, Doomed
<1> HIDE DEF k
<1>4. CheckRequestCompletion(request_map[k])
  BY <1>2 DEF AllComplete, CheckRequestCompletion
<1>5. Phase[k] = "complete" /\ Phase' = [Phase EXCEPT ![k] = "assigned"]
  BY <1>1, <1>2, <1>4, PhaseStep, PhaseFacts
<1>6. QED
  BY <1>1, <1>2, <1>3, <1>5, MapAdvance

LEMMA CleanImplements ==
  ASSUME IndInv, Cleanup
  PROVE  Service!Next
<1>1. /\ TypeOK /\ CleanRequests
      /\ Removed \subseteq application_closure_request_set \cap connections
      /\ Removed \subseteq FDs /\ dummy_descriptor_set \subseteq FDs
      /\ dummy_descriptor_set \cap connections = {}
      /\ connections' = connections \ Removed
      /\ dummy_descriptor_set' = (dummy_descriptor_set \ IdleDummies) \cup ToDummy
      /\ application_closure_request_set' \cap connections' =
           (application_closure_request_set \cap connections) \ Removed
  BY BaseFacts, CleanedSets
<1>2. Doomed' = Doomed \ Removed /\ Removed \in SUBSET Doomed
  BY <1>1 DEF Doomed
<1>3. \A c \in IdleDummies : c \in FDs /\ Conn[c] = "kept" /\ Service!On(c) = {}
  BY <1>1, ServiceRequests DEF IdleDummies, Conn
<1>4. Conn' = [c \in FDs |-> IF c \in Removed
                             THEN IF Service!Assigned(c) = {} THEN "none" ELSE "kept"
                             ELSE IF c \in IdleDummies THEN "none" ELSE Conn[c]]
  <2>1. ASSUME NEW c \in FDs
        PROVE  Conn'[c] = IF c \in Removed
                          THEN IF Service!Assigned(c) = {} THEN "none" ELSE "kept"
                          ELSE IF c \in IdleDummies THEN "none" ELSE Conn[c]
    <3>1. Service!Assigned(c) = AssignedOn(c)
      BY <1>1, ServiceRequests
    <3>2. Conn'[c] = IF c \in connections' THEN "open"
                     ELSE IF c \in dummy_descriptor_set' THEN "kept" ELSE "none"
      BY DEF Conn
    <3>3. Conn[c] = IF c \in connections THEN "open"
                    ELSE IF c \in dummy_descriptor_set THEN "kept" ELSE "none"
      BY DEF Conn
    <3>4. /\ c \in ToDummy <=> c \in Removed /\ AssignedOn(c) # {}
          /\ c \in IdleDummies => c \in dummy_descriptor_set
      BY DEF ToDummy, IdleDummies
    <3>5. QED
      BY <1>1, <3>1, <3>2, <3>3, <3>4
  <2>2. QED
    BY <2>1 DEF Conn
<1>5. Phase' = [k \in Keys |-> IF k[1] \in Removed /\ Phase[k] # "assigned"
                               THEN "absent" ELSE Phase[k]]
  <2>1. ASSUME NEW k \in Keys
        PROVE  Phase'[k] = IF k[1] \in Removed /\ Phase[k] # "assigned"
                           THEN "absent" ELSE Phase[k]
    <3>1. /\ Phase[k] = PhaseOf(request_map[k]) /\ Phase'[k] = PhaseOf(request_map'[k])
          /\ request_map[k].status \in {"absent", "pending", "assigned"}
      BY <1>1, RequestStatus DEF Phase
    <3>2. CASE k[1] \notin Removed
      BY <1>1, <3>1, <3>2, CleanedRequest
    <3>3. CASE request_map[k].status = "assigned"
      BY <1>1, <3>1, <3>3, CleanedRequest, PhaseFacts
    <3>4. CASE k[1] \in Removed /\ request_map[k].status # "assigned"
      BY <1>1, <3>1, <3>4, CleanedRequest, PhaseFacts, NoRequestFacts
    <3>5. QED
      BY <3>2, <3>3, <3>4
  <2>2. QED
    BY <2>1 DEF Phase
<1>6. PICK closed \in SUBSET Doomed : closed = Removed
  BY <1>2
<1>7. PICK released \in SUBSET FDs : released = IdleDummies
  BY <1>3
<1>8. Service!Clean(closed, released)
  BY <1>2, <1>3, <1>4, <1>5, <1>6, <1>7, ServiceKeys
     DEF Service!Clean, Conn, Doomed, Phase
<1>9. QED
  BY <1>8 DEF Service!Next, Doomed

LEMMA ShutdownImplements ==
  ASSUME DestructorReturns
  PROVE  Service!Next
<1>1. /\ connections' = {} /\ dummy_descriptor_set' = {}
      /\ application_closure_request_set' = {}
      /\ request_map' = [k \in Keys |-> NoRequest]
  BY DEF DestructorReturns
<1>2. PhaseOf(NoRequest) = "absent"
  BY NoRequestFacts DEF PhaseOf
<1>3. Service!Shutdown
  BY <1>1, <1>2, ServiceKeys DEF Service!Shutdown
<1>4. QED
  BY <1>3 DEF Service!Next

LEMMA StepImplements ==
  ASSUME IndInv, IndInv', ServiceInv, Next
  PROVE  Service!Next \/ ServiceStutters
<1>1. CASE OtherStep
  <2>1. CASE Construct
    BY <2>1, PhaseSame DEF Construct, Conn, Doomed, ServiceStutters
  <2>2. CASE \/ DestructorReturns \/ Cleanup
             \/ \E o \in Objs, id \in Ids : ConstructRequest(o, id)
             \/ \E c \in FDs : AcceptConnection(c)
    BY <2>2, ShutdownImplements, CleanImplements, AssignImplements, AcceptImplements
  <2>3. CASE OtherKeepEffect /\ UNCHANGED connections
    BY <1>1, <2>3, KeepImplements
  <2>4. QED
    BY <1>1, <2>1, <2>2, <2>3, OtherKeeps, OtherMaps
<1>2. QED
  BY <1>1, NextCases, ReadImplements, RequestImplements

\* FcgiServerInterface, with its threads, clients and sockets, implements the service
\* that RequestService specifies: every step is one of its steps, or invisible.
THEOREM InterfaceImplementsService == Spec => ImplementsRequestService
<1>1. Init => Service!Init
  <2>1. PhaseOf(NoRequest) = "absent"
    BY NoRequestFacts DEF PhaseOf
  <2>2. QED
    BY <2>1, ServiceKeys DEF Init, Service!Init
<1>2. ASSUME UNCHANGED vars PROVE ServiceStutters
  BY <1>2, PhaseSame DEF vars, Conn, Doomed, ServiceStutters
<1>3. ServiceStutters => UNCHANGED Service!vars
  BY DEF ServiceStutters, Service!vars, Conn, Doomed, Phase
<1>4. IndInv /\ IndInv' /\ ServiceInv /\ [Next]_vars => [Service!Next]_(Service!vars)
  BY <1>2, <1>3, StepImplements
<1>5. QED
  BY <1>1, <1>4, Invariant, ServiceInvariant, PTL
     DEF Spec, ImplementsRequestService, Service!Spec
=============================================================================
