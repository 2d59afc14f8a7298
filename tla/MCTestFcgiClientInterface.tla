--------------------- MODULE MCTestFcgiClientInterface ---------------------
(***************************************************************************)
(* A small instance of TestFcgiClientInterface for TLC.                    *)
(***************************************************************************)
EXTENDS TestFcgiClientInterface

Rec(type, id, content, body) ==
  [type |-> type, id |-> id, content |-> content, body |-> body]

\* The connection in the middle has requests, and its server ends and answers
\* them, rightly or not; the others are there to be ready when they close.
MCRecords ==
  [fd \in Fds |->
     IF fd = 2
     THEN {Rec("STDOUT", 1, "none", FALSE),
           Rec("STDOUT", 2, "none", FALSE),
           Rec("STDERR", 1, "some", TRUE),
           Rec("END_REQUEST", 1, "some", TRUE),
           Rec("END_REQUEST", 2, "some", TRUE),
           Rec("GET_VALUES_RESULT", 0, "some", TRUE),
           Rec("UNKNOWN_TYPE", 0, "some", TRUE)}
     ELSE {}]
MCMaxSends == [fd \in Fds |-> IF fd = 2 THEN 2 ELSE 0]
=============================================================================
