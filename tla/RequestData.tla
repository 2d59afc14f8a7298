---------------------------- MODULE RequestData ----------------------------
(***************************************************************************)
(* FcgiServerInterface::RequestData: what the interface knows about one    *)
(* request while its records arrive, and when the request is complete.     *)
(* Byte vectors are abstracted to "has data" flags; of the FCGI_PARAMS     *)
(* bytes only their well-formedness matters.                               *)
(***************************************************************************)

Roles == {"RESPONDER", "AUTHORIZER", "FILTER"}

StreamTypes == {"PARAMS", "STDIN", "DATA"}

\* An element of request_map_; the status "absent" stands for a missing key.
RequestDataType ==
  [status    : {"absent", "pending", "assigned"},
   role      : Roles,
   close     : BOOLEAN,                 \* close_connection_
   complete  : [StreamTypes -> BOOLEAN],
   data      : [StreamTypes -> BOOLEAN],  \* the stream received bytes
   malformed : BOOLEAN,                 \* FCGI_PARAMS_ does not decode
   abort     : BOOLEAN,                 \* client_set_abort_
   closed    : BOOLEAN]                 \* connection_closed_by_interface_

NewRequestData(role, close) ==
  [status    |-> "pending",
   role      |-> role,
   close     |-> close,
   complete  |-> [s \in StreamTypes |-> FALSE],
   data      |-> [s \in StreamTypes |-> FALSE],
   malformed |-> FALSE,
   abort     |-> FALSE,
   closed    |-> FALSE]

NoRequest == [NewRequestData("RESPONDER", FALSE) EXCEPT !.status = "absent"]

\* AppendToPARAMS, AppendToSTDIN, AppendToDATA.
AppendTo(rd, stream, content) ==
  [rd EXCEPT !.data[stream] = TRUE,
             !.malformed = @ \/ (stream = "PARAMS" /\ content = "malformed")]

\* CompletePARAMS, CompleteSTDIN, CompleteDATA.
CompleteStream(rd, stream) == [rd EXCEPT !.complete[stream] = TRUE]

\* The streams that the role lets a client leave out altogether.  The code treats
\* every other role as FILTER.
Optional(role) == CASE role = "RESPONDER"  -> {"DATA"}
                    [] role = "AUTHORIZER" -> {"STDIN", "DATA"}
                    [] role = "FILTER"     -> {}

\* The value returned by CheckRequestCompletionWithConditionalUpdate ...
CheckRequestCompletion(rd) ==
  \A s \in StreamTypes :
    rd.complete[s] \/ (s \in Optional(rd.role) /\ ~rd.data[s])

\* Mutant of ConditionalUpdate: optional streams stay open.
LeaveStreamsOpen(rd) == rd

\* ... and its conditional update: a complete request has complete streams.
ConditionalUpdate(rd) ==
  IF CheckRequestCompletion(rd)
  THEN [rd EXCEPT !.complete = [s \in StreamTypes |-> TRUE]]
  ELSE rd

\* ProcessFCGI_PARAMS: an empty stream is well formed.
ProcessFCGI_PARAMS(rd) == ~rd.malformed
=============================================================================
