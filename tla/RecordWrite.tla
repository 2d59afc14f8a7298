---------------------------- MODULE RecordWrite ----------------------------
(***************************************************************************)
(* The two callers of socket_functions that write to a connection, under   *)
(* its write mutex: FcgiRequest::ScatterGatherWriteHelper, which waits for *)
(* room itself and makes another call with what the last one returned, and *)
(* FcgiServerInterface::SendRecord.  Everything from the acquisition of the*)
(* mutex to its release; what follows a failure is in FcgiRequest and      *)
(* RecordStatus.                                                           *)
(***************************************************************************)
EXTENDS SocketFunctions

CONSTANT MaxWrites     \* bound on the records that are written

ASSUME WritesAssumption == MaxWrites \in Nat

VARIABLES
  caller,              \* "none", "request", "waiting" (its select), "interface"
  outcome,             \* of the last call: returned true, false or threw
  bad,                 \* the flag paired with the write mutex
  torn,                \* a part of a record is all that was sent of it
  delivered            \* records that were sent in full

vars == <<socketVars, caller, outcome, bad, torn, delivered>>

Init ==
  /\ SocketInit
  /\ caller = "none"
  /\ outcome = "none"
  /\ bad = FALSE
  /\ torn = FALSE
  /\ delivered = 0

\* Mutant of Begin: the flag is not looked at.
BeginAnyway(c) ==
  /\ caller = "none"
  /\ delivered < MaxWrites
  /\ caller' = c
  /\ UNCHANGED <<outcome, bad, torn, delivered>>

\* The caller holds the write mutex and found the connection not corrupt.
Begin(c) ==
  /\ caller = "none"
  /\ ~bad
  /\ delivered < MaxWrites
  /\ caller' = c
  /\ UNCHANGED <<outcome, bad, torn, delivered>>

\* The write mutex is released.
Release(result) ==
  /\ caller' = "none"
  /\ pc' = "idle"
  /\ outcome' = result
  /\ torn' = (torn \/ (0 < moved /\ moved < call.count))
  /\ delivered' = IF moved = call.count THEN delivered + 1 ELSE delivered
  /\ UNCHANGED <<call, cursorVars, number_remaining, number_returned,
                 running_total, errno, moved, broken>>

Ended(c) == caller = c /\ pc = "returned"

-----------------------------------------------------------------------------
(* FcgiRequest::ScatterGatherWriteHelper.                                  *)

\* number_to_write is never 0: what a request writes has a header.
RequestWrites(array) ==
  /\ End(array) > 0
  /\ Begin("request")
  /\ Enter("ScatterGatherSocketWrite", array, FALSE, FALSE)

RequestDone ==
  /\ Ended("request")
  /\ number_remaining = 0
  /\ Release("true")
  /\ UNCHANGED bad

\* std::tie: the next call gets what the last one returned.
RequestBlocked ==
  /\ Ended("request")
  /\ number_remaining > 0
  /\ errno = "EAGAIN"
  /\ caller' = "waiting"
  /\ UNCHANGED <<socketVars, outcome, bad, torn, delivered>>

RequestResumes ==
  /\ caller = "waiting"
  /\ caller' = "request"
  /\ pc' = "transfer"
  /\ UNCHANGED <<call, cursorVars, number_remaining, number_returned,
                 running_total, errno, moved, broken, outcome, bad, torn,
                 delivered>>

\* Mutant of Partial: a write that sent nothing counts.
PartialOrNone == number_remaining <= call.count

\* Some but not all of the data was written.
Partial == number_remaining < call.count

\* Mutant of RequestTimesOut: the write is tried again.
RequestTriesAgain ==
  /\ caller = "waiting"
  /\ caller' = "request"
  /\ pc' = "transfer"
  /\ UNCHANGED <<call, cursorVars, number_remaining, number_returned,
                 running_total, errno, moved, broken, outcome, bad, torn,
                 delivered>>

RequestTimesOut ==
  /\ caller = "waiting"
  /\ bad' = (bad \/ Partial)
  /\ Release("false")

RequestSelectFails(e) ==
  /\ caller = "waiting"
  /\ \/ /\ e = "EINTR"
        /\ errno' = e
        /\ UNCHANGED <<call, pc, cursorVars, number_remaining,
                       number_returned, running_total, moved, broken, caller,
                       outcome, bad, torn, delivered>>
     \/ /\ e = "EOTHER"
        /\ bad' = (bad \/ Partial)
        /\ Release("throw")

RequestFindsClosure ==
  /\ Ended("request")
  /\ number_remaining > 0
  /\ errno = "EPIPE"
  /\ Release("false")
  /\ UNCHANGED bad

RequestFails ==
  /\ Ended("request")
  /\ number_remaining > 0
  /\ errno \notin {"EAGAIN", "EPIPE"}
  /\ bad' = (bad \/ Partial)
  /\ Release("throw")

-----------------------------------------------------------------------------
(* FcgiServerInterface::SendRecord.                                        *)

SendRecord(array) ==
  /\ Len(array) = 1
  /\ End(array) > 0
  /\ Begin("interface")
  /\ Enter("WriteOnSelect", array, FALSE, TRUE)

SendEnds ==
  /\ Ended("interface")
  /\ \/ /\ number_remaining = 0
        /\ Release("true")
        /\ UNCHANGED bad
     \/ /\ number_remaining > 0
        /\ bad' = (bad \/ Partial)
        /\ Release(IF errno \in {"EPIPE", "0"} THEN "false" ELSE "throw")

-----------------------------------------------------------------------------
CallStep ==
  /\ caller \in {"request", "interface"}
  /\ SocketStep
  /\ UNCHANGED <<caller, outcome, bad, torn, delivered>>

Next ==
  \/ \E array \in Arrays : RequestWrites(array) \/ SendRecord(array)
  \/ CallStep
  \/ RequestDone
  \/ RequestBlocked
  \/ RequestResumes
  \/ RequestTimesOut
  \/ \E e \in {"EINTR", "EOTHER"} : RequestSelectFails(e)
  \/ RequestFindsClosure
  \/ RequestFails
  \/ SendEnds

Spec == Init /\ [][Next]_vars

(* A thread that was not blocked proceeds.  Signals do not interrupt all   *)
(* of infinitely many reads and writes, and a select that is called        *)
(* infinitely often with a time-out times out: interruptions and readiness *)
(* without room for data do not recur for ever.                            *)
Proceed ==
  \/ CallStep
  \/ RequestDone
  \/ RequestBlocked
  \/ RequestFindsClosure
  \/ RequestFails
  \/ SendEnds

FairSpec ==
  /\ Spec
  /\ WF_vars(Proceed)
  /\ SF_vars(CallStep /\ Answered)
  /\ SF_vars(CallStep /\ SelectTimesOut)
  /\ SF_vars(RequestTimesOut)

-----------------------------------------------------------------------------
(* Properties.                                                             *)

\* The types.
TypeOK ==
  /\ SocketTypeOK
  /\ caller \in {"none", "request", "waiting", "interface"}
  /\ outcome \in {"none", "true", "false", "throw"}
  /\ bad \in BOOLEAN
  /\ torn \in BOOLEAN
  /\ delivered \in 0..MaxWrites

\* The flag means what the write mutex protocol needs it to mean: a connection
\* that is not corrupt and whose peer is there has only whole records on it, and
\* a flagged one does hold a part of a record (fcgi_request.cc:964-982).
FlagExact ==
  caller = "none" => /\ bad => torn
                     /\ torn => bad \/ broken

\* Records arrive in full and in order, and nothing follows a part of a record:
\* the results that FcgiRequest and RecordStatus choose from.
Channel == INSTANCE RecordChannel WITH flagged <- bad, closed <- broken
ImplementsRecordChannel == Channel!Spec

\* A write ends: kWriteBlockTimeout_ is there "to prevent infinite blocking in
\* the unusual case that a mutex is held" (fcgi_server_interface.h:1132-1133).
WritesEnd == (caller # "none") ~> (caller = "none")

=============================================================================
