---------------------------- MODULE FcgiRequest ----------------------------
(***************************************************************************)
(* The calls that an application thread makes on an FcgiRequest object.    *)
(* A call is cut where it releases or waits for a mutex and around the     *)
(* write to the socket.  The places of an object:                          *)
(*   free     no object, or an object whose completed_ is set: every later *)
(*            call and the destructor return at once                       *)
(*   held     in the list that AcceptRequests is building, or in           *)
(*            request_buffer_on_throw_                                     *)
(*   ready    with the application, no call in progress                    *)
(*   locked   holds the interface mutex and waits for the write mutex      *)
(*   writing  holds the write mutex (and, in Complete, the interface mutex)*)
(*   failed   the write failed, no mutex held, waits for the interface     *)
(*            mutex to report it                                           *)
(*   closing  holds the interface mutex and waits for the write mutex to   *)
(*            schedule the connection for closure                          *)
(*   dtor     the same, in the destructor                                  *)
(***************************************************************************)
EXTENDS FcgiInterfaceState

Places == {"free", "held", "ready", "locked", "writing", "failed", "closing",
           "dtor"}

ObjectType == [pc : Places, key : Keys \cup {<<0, 0>>}, iid : Nat,
               close : BOOLEAN, op : {"Write", "Complete"}, force : BOOLEAN,
               aborted : BOOLEAN]

Fd(o) == obj[o].key[1]

\* Mutant of Alive: any interface will do.
AliveAnyInterface(o) == ~bad

\* The object's interface still exists and is not corrupt.
Alive(o) == obj[o].iid = interface_identifier /\ ~bad

\* Mutant of Usable: a closed connection is not noticed.
UsableIfNotScheduled(o) == Fd(o) \notin application_closure_request_set

\* The connection was neither closed nor scheduled for closure.
Usable(o) == /\ ~request_map[obj[o].key].closed
             /\ Fd(o) \notin application_closure_request_set

\* completed_ is set; the object has no further effect.
Completed(o) == obj' = [obj EXCEPT ![o] = NoObject]

Goto(o, place) == obj' = [obj EXCEPT ![o].pc = place]

\* What no step of an application thread touches.
requestFrame == <<clientVars, idVars, connections, dummy_descriptor_set, ipc,
                  readVars, dangling_read, overload>>

(***************************************************************************)
(* InterfaceStateCheckForWritingUponMutexAcquisition: passes, or completes *)
(* the request, which removes itself if its interface can be used.         *)
(***************************************************************************)
StateCheckPasses(o) == Alive(o) /\ Usable(o)

\* Mutant of StateCheckFails: the request does not remove itself.
FailWithoutRemoval(o) == ~StateCheckPasses(o) /\ Completed(o) /\ KeepRequests

StateCheckFails(o) ==
  /\ ~StateCheckPasses(o)
  /\ Completed(o)
  /\ IF Alive(o) THEN RemoveRequest(obj[o].key) ELSE KeepRequests

(***************************************************************************)
(* Write, WriteError (op "Write") and Complete, RejectRole (op "Complete") *)
(* start by locking the interface mutex for the state check.  The overlong *)
(* sequences that WriteHelper partitions are successive Writes.            *)
(***************************************************************************)
CallWrite(o, op) ==
  /\ PcIs(o, "ready") /\ imutex = Nobody
  /\ \/ /\ StateCheckPasses(o)
        /\ obj' = [obj EXCEPT ![o] = [@ EXCEPT !.pc = "locked", !.op = op]]
        /\ imutex' = o
        /\ KeepRequests
     \/ StateCheckFails(o) /\ UNCHANGED imutex
  /\ UNCHANGED <<requestFrame, socketVars, application_closure_request_set, pipe,
                 wmutex, wbad, terminated>>

\* The write mutex is acquired with the interface mutex held.  A corrupt
\* connection ends the request; Write lets the interface mutex go.
AcquireWriteMutex(o) ==
  /\ PcIs(o, "locked") /\ wmutex[Fd(o)] = Nobody
  /\ \/ /\ wbad[Fd(o)]
        /\ Completed(o)
        /\ RemoveRequest(obj[o].key)
        /\ imutex' = Nobody
        /\ UNCHANGED wmutex
     \/ /\ ~wbad[Fd(o)]
        /\ Goto(o, "writing")
        /\ wmutex' = [wmutex EXCEPT ![Fd(o)] = o]
        /\ imutex' = IF obj[o].op = "Write" THEN Nobody ELSE imutex
        /\ KeepRequests
  /\ UNCHANGED <<requestFrame, socketVars, application_closure_request_set, pipe,
                 wbad, terminated>>

\* With the interface mutex held: remove the request, and go on to schedule its
\* connection if schedule holds.
RemoveAndSchedule(o, schedule) ==
  /\ RemoveRequest(obj[o].key)
  /\ IF schedule
     THEN Goto(o, "closing") /\ imutex' = o
     ELSE Completed(o) /\ imutex' = Nobody

WriteSucceeds(o) ==
  /\ PcIs(o, "writing") /\ CanWrite(Fd(o))
  /\ wmutex' = [wmutex EXCEPT ![Fd(o)] = Nobody]
  /\ \/ /\ obj[o].op = "Write"
        /\ Goto(o, "ready") /\ KeepRequests /\ UNCHANGED imutex
     \/ /\ obj[o].op = "Complete"
        /\ RemoveAndSchedule(o, obj[o].close)
  /\ UNCHANGED <<requestFrame, socketVars, application_closure_request_set, pipe,
                 wbad, terminated>>

\* Mutants of AfterFailure: the write mutex is kept; closure is not forced.
KeepWriteMutex(o, force) ==
  /\ UNCHANGED wmutex
  /\ \/ /\ obj[o].op = "Write"
        /\ obj' = [obj EXCEPT ![o] = [@ EXCEPT !.pc = "failed", !.force = force]]
        /\ KeepRequests /\ UNCHANGED imutex
     \/ /\ obj[o].op = "Complete"
        /\ RemoveAndSchedule(o, force \/ obj[o].close)

DropForce(o, force) ==
  /\ wmutex' = [wmutex EXCEPT ![Fd(o)] = Nobody]
  /\ \/ obj[o].op = "Write" /\ Goto(o, "failed") /\ KeepRequests /\ UNCHANGED imutex
     \/ obj[o].op = "Complete" /\ RemoveAndSchedule(o, obj[o].close)

\* The write mutex is released first: the pattern "has write mutex, wants
\* interface mutex" is forbidden.  Complete already has the interface mutex.
AfterFailure(o, force) ==
  /\ wmutex' = [wmutex EXCEPT ![Fd(o)] = Nobody]
  /\ \/ /\ obj[o].op = "Write"
        /\ obj' = [obj EXCEPT ![o] = [@ EXCEPT !.pc = "failed", !.force = force]]
        /\ KeepRequests /\ UNCHANGED imutex
     \/ /\ obj[o].op = "Complete"
        /\ RemoveAndSchedule(o, force \/ obj[o].close)

\* A time-out or an error of select or write.  The connection is marked as
\* corrupt if a part of a record was written.
WriteFails(o, partial) ==
  /\ PcIs(o, "writing") /\ CanFail(Fd(o))
  /\ TearRecord(Fd(o), partial)
  /\ MarkCorrupt(Fd(o), partial)
  /\ AfterFailure(o, TRUE)
  /\ UNCHANGED <<requestFrame, peer, application_closure_request_set, pipe,
                 terminated>>

\* The client closed the connection (EPIPE).
WriteFindsClosure(o, partial) ==
  /\ PcIs(o, "writing") /\ CanPipe(Fd(o))
  /\ peer[Fd(o)] = "reset" => ~partial
  /\ TearRecord(Fd(o), partial)
  /\ peer' = [peer EXCEPT ![Fd(o)] = "reset"]
  /\ AfterFailure(o, FALSE)
  /\ UNCHANGED <<requestFrame, wbad, application_closure_request_set, pipe,
                 terminated>>

\* TryToAddToApplicationClosureRequestSet after a failed Write.
ReportFailure(o) ==
  /\ PcIs(o, "failed") /\ imutex = Nobody
  /\ \/ StateCheckPasses(o) /\ RemoveAndSchedule(o, obj[o].force \/ obj[o].close)
     \/ StateCheckFails(o) /\ UNCHANGED imutex
  /\ UNCHANGED <<requestFrame, socketVars, application_closure_request_set, pipe,
                 wmutex, wbad, terminated>>

\* Mutants of InterfacePipeWrite: no wake-up; no check for a full pipe.
NoPipeWrite == UNCHANGED <<pipe, terminated>>
UncheckedPipeWrite == pipe' = pipe + 1 /\ UNCHANGED terminated

\* InterfacePipeWrite.  If the pipe is full, so is it for the second attempt in
\* the handler, which then terminates the program.
InterfacePipeWrite ==
  IF pipe < PipeCapacity THEN pipe' = pipe + 1 /\ UNCHANGED terminated
                         ELSE terminated' = TRUE /\ UNCHANGED pipe

\* Acquire and release the write mutex while the interface mutex is held, so
\* that no request holds it once the connection is scheduled; then wake the
\* interface.
AddToClosureSet(o) ==
  /\ wmutex[Fd(o)] = Nobody
  /\ application_closure_request_set' =
       application_closure_request_set \cup {Fd(o)}
  /\ InterfacePipeWrite
  /\ Completed(o)
  /\ imutex' = Nobody

ScheduleClosure(o) ==
  /\ PcIs(o, "closing")
  /\ AddToClosureSet(o)
  /\ KeepRequests
  /\ UNCHANGED <<requestFrame, socketVars, wmutex, wbad>>

\* ~FcgiRequest of a request that is not complete.
Destroy(o) ==
  /\ PcIs(o, "ready") /\ imutex = Nobody
  /\ \/ /\ Alive(o) /\ obj[o].close /\ ~request_map[obj[o].key].closed
        /\ Goto(o, "dtor") /\ imutex' = o /\ KeepRequests
     \/ /\ Alive(o) /\ (~obj[o].close \/ request_map[obj[o].key].closed)
        /\ RemoveRequest(obj[o].key) /\ Completed(o) /\ UNCHANGED imutex
     \/ /\ ~Alive(o)
        /\ Completed(o) /\ KeepRequests /\ UNCHANGED imutex
  /\ UNCHANGED <<requestFrame, socketVars, application_closure_request_set, pipe,
                 wmutex, wbad, terminated>>

DestroySchedules(o) ==
  /\ PcIs(o, "dtor")
  /\ AddToClosureSet(o)
  /\ RemoveRequest(obj[o].key)
  /\ UNCHANGED <<requestFrame, socketVars, wmutex, wbad>>

AbortStatus(o) ==
  /\ PcIs(o, "ready") /\ ~obj[o].aborted /\ imutex = Nobody
  /\ \/ /\ Alive(o) /\ ~request_map[obj[o].key].closed
        /\ obj' = [obj EXCEPT ![o].aborted = request_map[obj[o].key].abort]
        /\ KeepRequests
     \/ /\ Alive(o) /\ request_map[obj[o].key].closed
        /\ Completed(o) /\ RemoveRequest(obj[o].key)
     \/ ~Alive(o) /\ Completed(o) /\ KeepRequests
  /\ UNCHANGED <<requestFrame, socketVars, application_closure_request_set, pipe,
                 mutexVars, terminated>>

\* The steps of a call that was made: they need no decision of the application.
RequestStep(o) ==
  \/ AcquireWriteMutex(o)
  \/ WriteSucceeds(o)
  \/ \E partial \in BOOLEAN : WriteFails(o, partial) \/ WriteFindsClosure(o, partial)
  \/ ReportFailure(o)
  \/ ScheduleClosure(o)
  \/ DestroySchedules(o)

RequestCall(o) ==
  \/ \E op \in {"Write", "Complete"} : CallWrite(o, op)
  \/ Destroy(o)
  \/ AbortStatus(o)
=============================================================================
