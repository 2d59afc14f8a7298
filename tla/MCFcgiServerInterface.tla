----------------------- MODULE MCFcgiServerInterface -----------------------
(***************************************************************************)
(* Small instances of FcgiServerInterface for TLC: what clients may send.  *)
(* An authorizer's request is complete with the end of FCGI_PARAMS, so two *)
(* records make a request.                                                 *)
(***************************************************************************)
EXTENDS FcgiServerInterface, TLC

ARecord(type, id, role, keep, content) ==
  [type |-> type, id |-> id, role |-> role, keep |-> keep, content |-> content]

Begin(id, keep)       == ARecord("BEGIN", id, "AUTHORIZER", keep, "data")
Abort(id)             == ARecord("ABORT", id, "AUTHORIZER", FALSE, "empty")
Stream(type, id, cnt) == ARecord(type, id, "AUTHORIZER", FALSE, cnt)
GetValues             == ARecord("GET_VALUES", 0, "AUTHORIZER", FALSE, "empty")

\* One request at a time, with and without FCGI_KEEP_CONN.
OneIdRecords == {Begin(1, FALSE), Begin(1, TRUE), Stream("PARAMS", 1, "empty")}

\* Two requests share a connection; one of them closes it.
TwoIdRecords == {Begin(1, FALSE), Begin(2, TRUE), Stream("PARAMS", 1, "empty"),
                 Stream("PARAMS", 2, "empty")}

\* Two requests of which one is aborted or malformed.
ServiceRecords == TwoIdRecords \cup {Abort(1), Stream("PARAMS", 1, "malformed")}

\* Everything a client may send for a request, in any order,
\* a second request beyond the limit, and a type that is unknown.
AnyRecords ==
  {ARecord("BEGIN", 1, "RESPONDER", TRUE, "data"), Begin(1, FALSE), Begin(2, TRUE),
   Abort(1), ARecord("OTHER", 1, "AUTHORIZER", FALSE, "empty")}
    \cup {Stream("PARAMS", 1, cnt) : cnt \in {"empty", "malformed"}}
    \cup {Stream("STDIN", 1, cnt) : cnt \in {"empty", "data"}}

\* With and without FCGI_KEEP_CONN, and management records.
ServedRecords == OneIdRecords \cup {GetValues}

Symmetry == Permutations(Objs)
=============================================================================
