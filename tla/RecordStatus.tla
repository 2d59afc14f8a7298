---------------------------- MODULE RecordStatus ----------------------------
(***************************************************************************)
(* RecordStatus::ReadRecords on current_connection: read parts of records  *)
(* from the socket, validate headers, process complete records and answer  *)
(* some of them with SendRecord.  A part is a header or the content and    *)
(* padding behind it, so a record may be cut there by the end of a buffer  *)
(* or because the rest did not arrive yet.  A period of ownership of the   *)
(* interface mutex in which the thread does not wait is one step.          *)
(***************************************************************************)
EXTENDS FcgiInterfaceState

\* What no step of ReadRecords touches.
readFrame == <<clientVars, idVars, connections, dummy_descriptor_set, pipe,
               ready, accepting, cur, overload, obj, terminated>>

\* An exception leaves ReadRecords: see ReadThrows of FcgiServerInterface.
ThrowsFromRead ==
  /\ ipc' = "throw_read"
  /\ UNCHANGED <<readFrame, socketVars, bad, request_count_map, request_map,
                 application_closure_request_set, mutexVars, avail, full,
                 record_status, cache, found, dangling_read>>

\* A step under the interface mutex that first checks the interface.
InterfaceCheck(Step) ==
  imutex = Nobody /\ IF bad THEN ThrowsFromRead ELSE Step

Schedule(c) == application_closure_request_set' =
                 application_closure_request_set \cup {c}

-----------------------------------------------------------------------------
(* Reading from the socket.                                                *)

AtEnd == Len(inbox[cur]) < BufferUnits /\ peer[cur] # "open"

\* Some of what was sent has arrived, the rest is in flight.  The first read finds
\* something, because select reported the connection.
SocketRead(n) ==
  /\ At("read")
  /\ n <= Len(inbox[cur]) /\ n <= BufferUnits
  /\ n = 0 => inbox[cur] = <<>> \/ full
  /\ n = Len(inbox[cur]) => ~AtEnd
  /\ avail' = n
  /\ full' = (n = BufferUnits)
  /\ ipc' = "process"
  /\ UNCHANGED <<readFrame, socketVars, bad, request_count_map, request_map,
                 application_closure_request_set, mutexVars, record_status,
                 cache, found, dangling_read>>

\* End of file or ECONNRESET: what was read by this call is discarded, also the
\* requests it completed, and the connection is scheduled for closure.
SocketReadEnd ==
  /\ At("read") /\ AtEnd
  /\ InterfaceCheck(
       /\ Schedule(cur)
       /\ inbox' = [inbox EXCEPT ![cur] = <<>>]
       /\ found' = {} /\ cache' = NoIterator
       /\ ipc' = "loop"
       /\ UNCHANGED <<readFrame, kfd, peer, torn, bad, request_count_map,
                      request_map, mutexVars, avail, full, record_status,
                      dangling_read>>)

SocketReadError ==
  /\ At("read") /\ "read" \in Faults
  /\ ThrowsFromRead

\* The received bytes are processed: read again if the buffer was full.
ReadRecordsReturns ==
  /\ At("process") /\ avail = 0
  /\ ipc' = IF full THEN "read" ELSE IF found # {} THEN "construct" ELSE "loop"
  /\ cache' = IF full THEN cache ELSE NoIterator
  /\ UNCHANGED <<readFrame, socketVars, bad, request_count_map, request_map,
                 application_closure_request_set, mutexVars, avail, full,
                 record_status, found, dangling_read>>

-----------------------------------------------------------------------------
(* The cached iterator.                                                    *)

Find(id) == IF request_map[<<cur, id>>].status # "absent"
            THEN [id |-> id, live |-> TRUE] ELSE NoIterator

\* The iterators a lookup may give.  A cached iterator whose key matches is used
\* as it is.  The key read through a dangling one may still be the old key.
Lookup(id) ==
  IF cache.id = id /\ cache.live THEN {cache}
  ELSE {Find(id)} \cup (IF cache.id = id THEN {cache} ELSE {})

ReadsThroughCache ==
  dangling_read' = (dangling_read \/ (cache.id # 0 /\ ~cache.live))

-----------------------------------------------------------------------------
(* UpdateAfterHeaderCompletion.                                            *)

Part == Head(inbox[cur])

TakePart == /\ inbox' = [inbox EXCEPT ![cur] = Tail(@)]
            /\ avail' = avail - 1

SetRecord(rec, invalidated) ==
  record_status' = [record_status EXCEPT ![cur] =
                      [rec |-> rec, invalidated |-> invalidated]]

AfterHeader(rec) == IF rec.content = "empty" THEN "complete" ELSE "process"

\* Management records are never invalid.  The header of another record has to
\* be of a known type and to announce the length that its type requires.
RejectedByLength(rec) ==
  CASE rec.type = "BEGIN"       -> rec.content = "empty"
    [] rec.type = "ABORT"       -> rec.content # "empty"
    [] rec.type \in StreamTypes -> FALSE
    [] OTHER                    -> TRUE

HeaderLocal ==
  /\ At("process") /\ avail > 0 /\ Part.part = "header"
  /\ Part.rec.id = 0 \/ RejectedByLength(Part.rec)
  /\ SetRecord(Part.rec, Part.rec.id # 0)
  /\ TakePart
  /\ ipc' = AfterHeader(Part.rec)
  /\ UNCHANGED <<readFrame, kfd, peer, torn, bad, request_count_map, request_map,
                 application_closure_request_set, mutexVars, full, cache, found,
                 dangling_read>>

\* Validity given what the iterator refers to.  The erased request behind a
\* dangling iterator was assigned, so its streams were complete.
Verdicts(rec, iter) ==
  IF iter.id = 0 THEN {rec.type # "BEGIN"}
  ELSE IF rec.type = "BEGIN" THEN {TRUE}
  ELSE IF iter.live
       THEN LET rd == request_map[<<cur, rec.id>>]
            IN  {IF rec.type = "ABORT" THEN rd.abort ELSE rd.complete[rec.type]}
       ELSE IF rec.type = "ABORT" THEN BOOLEAN ELSE {TRUE}

HeaderChecked ==
  /\ At("process") /\ avail > 0 /\ Part.part = "header"
  /\ Part.rec.id # 0 /\ ~RejectedByLength(Part.rec)
  /\ InterfaceCheck(
       /\ \E iter \in Lookup(Part.rec.id) :
            /\ cache' = IF iter.id = 0 THEN cache ELSE iter
            /\ \E invalidated \in Verdicts(Part.rec, iter) :
                 SetRecord(Part.rec, invalidated)
       /\ ReadsThroughCache
       /\ TakePart
       /\ ipc' = AfterHeader(Part.rec)
       /\ UNCHANGED <<readFrame, kfd, peer, torn, bad, request_count_map,
                      request_map, application_closure_request_set, mutexVars,
                      full, found>>)

-----------------------------------------------------------------------------
(* Content.  Stream content goes to the request, other content to the      *)
(* buffer of the RecordStatus object, and that of invalid records nowhere. *)

Rec == record_status[cur].rec

IsStream(rec) == rec.id # 0 /\ rec.type \in StreamTypes

BodyKept ==
  /\ At("process") /\ avail > 0 /\ Part.part = "body"
  /\ record_status[cur].invalidated \/ ~IsStream(Rec)
  /\ TakePart
  /\ ipc' = "complete"
  /\ UNCHANGED <<readFrame, kfd, peer, torn, bad, request_count_map, request_map,
                 application_closure_request_set, mutexVars, full,
                 record_status, cache, found, dangling_read>>

BodyAppended ==
  /\ At("process") /\ avail > 0 /\ Part.part = "body"
  /\ ~record_status[cur].invalidated /\ IsStream(Rec)
  /\ InterfaceCheck(
       /\ IF Find(Rec.id).live
          THEN /\ request_map' = [request_map EXCEPT ![<<cur, Rec.id>>] =
                                    AppendTo(@, Rec.type, Rec.content)]
               /\ ipc' = "complete" /\ UNCHANGED bad
          ELSE ipc' = "throw_read" /\ bad' = TRUE /\ UNCHANGED request_map
       /\ cache' = Find(Rec.id)
       /\ ReadsThroughCache
       /\ TakePart
       /\ UNCHANGED <<readFrame, kfd, peer, torn, request_count_map,
                      application_closure_request_set, mutexVars, full,
                      record_status, found>>)

-----------------------------------------------------------------------------
(* ProcessCompleteRecord and the ClearRecord after it.                     *)

ProcessNext(place) ==
  /\ ipc' = place
  /\ record_status' = [record_status EXCEPT ![cur] = ClearRecord]

\* What the steps of ProcessCompleteRecord leave alone.
completeFrame == <<readFrame, socketVars, mutexVars, avail, full>>

\* An invalid record, or a stream record whose content was appended.
CompleteIgnored ==
  /\ At("complete") /\ Rec.id # 0
  /\ record_status[cur].invalidated \/ (IsStream(Rec) /\ Rec.content # "empty")
  /\ ProcessNext("process")
  /\ UNCHANGED <<completeFrame, bad, request_count_map, request_map,
                 application_closure_request_set, cache, found, dangling_read>>

\* FCGI_GET_VALUES_RESULT or FCGI_UNKNOWN_TYPE is sent.
CompleteManagement ==
  /\ At("complete") /\ Rec.id = 0
  /\ ProcessNext("send")
  /\ UNCHANGED <<completeFrame, bad, request_count_map, request_map,
                 application_closure_request_set, cache, found, dangling_read>>

Completes(type) ==
  At("complete") /\ ~record_status[cur].invalidated /\ Rec.id # 0
    /\ Rec.type = type

\* Mutant of LimitReached: off by one.
LimitExceeded == request_count_map[cur] > MaxRequests

LimitReached == request_count_map[cur] >= MaxRequests

\* FCGI_BEGIN_REQUEST: the limit is checked in one period of mutex ownership, the
\* request is added in another.
CompleteBegin ==
  /\ Completes("BEGIN")
  /\ InterfaceCheck(
       /\ IF LimitReached \/ overload
          THEN ProcessNext("send")
          ELSE ipc' = "add" /\ UNCHANGED record_status
       /\ UNCHANGED <<completeFrame, bad, request_count_map, request_map,
                      application_closure_request_set, cache, found,
                      dangling_read>>)

\* A second request with the same key would corrupt the interface.
AddRequest ==
  /\ At("add")
  /\ InterfaceCheck(
       /\ IF Find(Rec.id).live \/ request_count_map[cur] = -1
          THEN /\ bad' = TRUE /\ ipc' = "throw_read"
               /\ UNCHANGED <<request_count_map, request_map, cache,
                              record_status>>
          ELSE /\ request_count_map' = [request_count_map EXCEPT ![cur] = @ + 1]
               /\ request_map' = [request_map EXCEPT ![<<cur, Rec.id>>] =
                                    NewRequestData(Rec.role, ~Rec.keep)]
               /\ cache' = [id |-> Rec.id, live |-> TRUE]
               /\ ProcessNext("process")
               /\ UNCHANGED bad
       /\ UNCHANGED <<completeFrame, application_closure_request_set, found,
                      dangling_read>>)

\* Mutant of Uncollect: the list keeps an iterator to the erased request.
StayCollected(id) == UNCHANGED found

\* An aborted request leaves the list of requests that were just completed.
Uncollect(id) == found' = found \ {id}

\* FCGI_ABORT_REQUEST: an assigned request is told, another one is erased, also
\* from the list of requests that were just completed.
AbortThrough(iter) ==
  LET k  == <<cur, Rec.id>>
      rd == request_map[k]
  IN  /\ cache' = IF iter = cache THEN NoIterator ELSE cache
      /\ \/ /\ ~iter.live      \* no such request, or the write to freed memory
            /\ ProcessNext("process")
            /\ UNCHANGED <<bad, request_map, request_count_map, found,
                           application_closure_request_set>>
         \/ /\ iter.live /\ rd.status = "assigned"
            /\ request_map' = [request_map EXCEPT ![k].abort = TRUE]
            /\ ProcessNext("process")
            /\ UNCHANGED <<bad, request_count_map, found,
                           application_closure_request_set>>
         \/ /\ iter.live /\ rd.status # "assigned"
            /\ IF rd.close THEN Schedule(cur)
                           ELSE UNCHANGED application_closure_request_set
            /\ IF Rec.id \notin found /\ \A s \in StreamTypes : rd.complete[s]
               THEN /\ ipc' = "throw_read"     \* "was not found in the list"
                    /\ UNCHANGED <<bad, request_map, request_count_map, found,
                                   record_status>>
               ELSE /\ Uncollect(Rec.id)
                    /\ EraseRequest(k)
                    /\ ProcessNext("send")

CompleteAbort ==
  /\ Completes("ABORT")
  /\ InterfaceCheck(
       /\ \E iter \in Lookup(Rec.id) : AbortThrough(iter)
       /\ ReadsThroughCache
       /\ UNCHANGED completeFrame)

\* An empty stream record completes the stream and perhaps the request.
CompleteStreamEnd ==
  /\ At("complete") /\ ~record_status[cur].invalidated
  /\ IsStream(Rec) /\ Rec.content = "empty"
  /\ InterfaceCheck(
       LET k    == <<cur, Rec.id>>
           rd   == CompleteStream(request_map[k], Rec.type)
           iter == Find(Rec.id)
       IN  /\ IF ~iter.live
              THEN /\ ipc' = "throw_read"
                   /\ UNCHANGED <<request_map, record_status, cache, found>>
              ELSE /\ request_map' = [request_map EXCEPT ![k] =
                                        ConditionalUpdate(rd)]
                   /\ IF CheckRequestCompletion(rd)
                      THEN /\ cache' = IF iter = cache THEN NoIterator ELSE cache
                           /\ IF ProcessFCGI_PARAMS(rd)
                              THEN /\ found' = found \cup {Rec.id}
                                   /\ ProcessNext("process")
                              ELSE /\ ipc' = "reject"
                                   /\ UNCHANGED <<record_status, found>>
                      ELSE ProcessNext("process") /\ UNCHANGED <<cache, found>>
           /\ ReadsThroughCache
           /\ UNCHANGED <<completeFrame, bad, request_count_map,
                          application_closure_request_set>>)

\* The FCGI_PARAMS stream of a complete request is malformed.
RejectMalformed ==
  /\ At("reject")
  /\ InterfaceCheck(
       /\ IF request_map[<<cur, Rec.id>>].close
          THEN Schedule(cur) ELSE UNCHANGED application_closure_request_set
       /\ EraseRequest(<<cur, Rec.id>>)
       /\ ProcessNext("send")
       /\ UNCHANGED <<completeFrame, cache, found, dangling_read>>)

-----------------------------------------------------------------------------
(* SendRecord, by the interface thread.  send: it wants the write mutex;   *)
(* sending: it has it; send_failed and send_threw: the write failed, it    *)
(* wants the interface mutex and, with that, the write mutex again.        *)

sendFrame == <<readFrame, bad, request_count_map, request_map, avail, full,
               record_status, cache, found, dangling_read>>

SendAcquires ==
  /\ At("send") /\ wmutex[cur] = Nobody
  /\ \/ wbad[cur] /\ ipc' = "process" /\ UNCHANGED wmutex
     \/ /\ ~wbad[cur]
        /\ ipc' = "sending" /\ wmutex' = [wmutex EXCEPT ![cur] = Interface]
  /\ UNCHANGED <<sendFrame, socketVars, application_closure_request_set, imutex,
                 wbad>>

SendSucceeds ==
  /\ At("sending") /\ CanWrite(cur)
  /\ wmutex' = [wmutex EXCEPT ![cur] = Nobody]
  /\ ipc' = "process"
  /\ UNCHANGED <<sendFrame, socketVars, application_closure_request_set, imutex,
                 wbad>>

\* A time-out (place send_failed) or an error of write or select (send_threw).
SendFails(partial, place) ==
  /\ At("sending") /\ CanFail(cur)
  /\ TearRecord(cur, partial) /\ UNCHANGED peer
  /\ MarkCorrupt(cur, partial)
  /\ wmutex' = [wmutex EXCEPT ![cur] = Nobody]
  /\ ipc' = place
  /\ UNCHANGED <<sendFrame, application_closure_request_set, imutex>>

\* EPIPE.
SendFindsClosure(partial) ==
  /\ At("sending") /\ CanPipe(cur)
  /\ peer[cur] = "reset" => ~partial
  /\ TearRecord(cur, partial)
  /\ peer' = [peer EXCEPT ![cur] = "reset"]
  /\ MarkCorrupt(cur, partial)
  /\ wmutex' = [wmutex EXCEPT ![cur] = Nobody]
  /\ ipc' = "send_failed"
  /\ UNCHANGED <<sendFrame, application_closure_request_set, imutex>>

SendLocksInterface ==
  /\ At("send_failed") \/ At("send_threw")
  /\ imutex = Nobody
  /\ imutex' = Interface
  /\ UNCHANGED <<sendFrame, socketVars, application_closure_request_set, ipc,
                 wmutex, wbad>>

SendSchedules ==
  /\ At("send_failed") \/ At("send_threw")
  /\ imutex = Interface
  /\ wmutex[cur] = Nobody
  /\ Schedule(cur)
  /\ imutex' = Nobody
  /\ ipc' = IF ipc = "send_failed" THEN "process" ELSE "throw_read"
  /\ UNCHANGED <<sendFrame, socketVars, wmutex, wbad>>

ReadStep ==
  \/ \E n \in 0..BufferUnits : SocketRead(n)
  \/ SocketReadEnd
  \/ SocketReadError
  \/ ReadRecordsReturns
  \/ HeaderLocal
  \/ HeaderChecked
  \/ BodyKept
  \/ BodyAppended
  \/ CompleteIgnored
  \/ CompleteManagement
  \/ CompleteBegin
  \/ AddRequest
  \/ CompleteAbort
  \/ CompleteStreamEnd
  \/ RejectMalformed
  \/ SendAcquires
  \/ SendSucceeds
  \/ \E partial \in BOOLEAN, place \in {"send_failed", "send_threw"} :
       SendFails(partial, place)
  \/ \E partial \in BOOLEAN : SendFindsClosure(partial)
  \/ SendLocksInterface
  \/ SendSchedules
=============================================================================
