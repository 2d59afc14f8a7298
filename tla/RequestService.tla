--------------------------- MODULE RequestService ---------------------------
(***************************************************************************)
(* What FcgiServerInterface promises to an application about requests and  *)
(* the descriptors of their connections, without threads, mutexes, records *)
(* or failures.  A request is received, complete, assigned to an object of *)
(* the application, and ended by it.  A connection is closed only after    *)
(* its closure was decided; it takes the requests that are not assigned    *)
(* with it, and its descriptor is kept until the assigned ones have ended. *)
(***************************************************************************)
EXTENDS Naturals, FiniteSets

CONSTANTS
  FDs,            \* descriptors
  Ids,            \* request identifiers
  MaxRequests     \* requests that a connection may have at one time

VARIABLES
  conn,           \* of each descriptor: none, open, kept
  doomed,         \* open connections whose closure was decided
  phase           \* of each request: absent, receiving, complete, assigned

vars == <<conn, doomed, phase>>

Keys == FDs \X Ids
On(c) == {k \in Keys : k[1] = c /\ phase[k] # "absent"}
Assigned(c) == {k \in On(c) : phase[k] = "assigned"}

Init ==
  /\ conn = [c \in FDs |-> "none"]
  /\ doomed = {}
  /\ phase = [k \in Keys |-> "absent"]

Open(c) ==
  /\ conn[c] = "none"
  /\ conn' = [conn EXCEPT ![c] = "open"]
  /\ UNCHANGED <<doomed, phase>>

Doom(c) ==
  /\ conn[c] = "open"
  /\ doomed' = doomed \cup {c}
  /\ UNCHANGED <<conn, phase>>

\* A request goes from one phase to the next while its connection is open.
Advance(k, from, to) ==
  /\ conn[k[1]] = "open" /\ phase[k] = from
  /\ phase' = [phase EXCEPT ![k] = to]
  /\ UNCHANGED <<conn, doomed>>

Begin(k) == Advance(k, "absent", "receiving") /\ Cardinality(On(k[1])) < MaxRequests
Complete(k) == Advance(k, "receiving", "complete")
Assign(k) == Advance(k, "complete", "assigned")

\* A request goes away; the end of a request may be that of its connection.
Remove(k) ==
  /\ phase' = [phase EXCEPT ![k] = "absent"]
  /\ \/ UNCHANGED doomed
     \/ conn[k[1]] = "open" /\ doomed' = doomed \cup {k[1]}
  /\ UNCHANGED conn

\* The interface gives a request up, or the application ends it.
Drop(k) == conn[k[1]] = "open" /\ phase[k] \in {"receiving", "complete"} /\ Remove(k)
Finish(k) == phase[k] = "assigned" /\ Remove(k)

\* Connections are closed, and kept descriptors without requests released.
Clean(closed, released) ==
  /\ \A c \in released : conn[c] = "kept" /\ On(c) = {}
  /\ conn' = [c \in FDs |-> IF c \in closed
                            THEN IF Assigned(c) = {} THEN "none" ELSE "kept"
                            ELSE IF c \in released THEN "none" ELSE conn[c]]
  /\ phase' = [k \in Keys |-> IF k[1] \in closed /\ phase[k] # "assigned"
                              THEN "absent" ELSE phase[k]]
  /\ doomed' = doomed \ closed

\* The interface is destroyed.
Shutdown ==
  /\ conn' = [c \in FDs |-> "none"]
  /\ doomed' = {}
  /\ phase' = [k \in Keys |-> "absent"]

Next ==
  \/ \E c \in FDs : Open(c) \/ Doom(c)
  \/ \E k \in Keys : Begin(k) \/ Complete(k) \/ Assign(k) \/ Drop(k) \/ Finish(k)
  \/ \E closed \in SUBSET doomed, released \in SUBSET FDs : Clean(closed, released)
  \/ Shutdown

Spec == Init /\ [][Next]_vars
=============================================================================
