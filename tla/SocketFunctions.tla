-------------------------- MODULE SocketFunctions --------------------------
(***************************************************************************)
(* The loops of socket_functions.cc around write, writev, read and select, *)
(* one system call or loop iteration a step.  The data of a message, or of *)
(* a read, is numbered from 0 in the order in which it has to be moved; a  *)
(* buffer is the number of its first byte and its length.  What the kernel *)
(* answers to a system call is a choice.                                   *)
(***************************************************************************)
EXTENDS Integers, Sequences, FiniteSets

CONSTANT Arrays        \* the arrays of struct iovec that calls are made with

End(array) == array[Len(array)].base + array[Len(array)].len

ASSUME ArraysAssumption ==
  \A a \in Arrays :
    /\ a \in Seq([base : Nat, len : Nat])
    /\ Len(a) > 0
    /\ a[1].base = 0
    /\ \A i \in 1..Len(a) - 1 : a[i + 1].base = a[i].base + a[i].len

VARIABLES
  call,                \* [fn, count, wait, timed]: the arguments of the call
  pc,                  \* what the thread does next
  iov,                 \* the array that iovec_ptr points into, or the buffer
  iovec_ptr,           \* its index (1 is buffer_ptr of the other functions)
  iovec_count,
  number_remaining,
  number_returned,
  running_total,       \* of ScatterGatherHelper
  errno,
  moved,               \* bytes of the message that the kernel moved
  broken               \* the kernel refuses to send: EPIPE

cursorVars == <<iov, iovec_ptr, iovec_count>>
socketVars == <<call, pc, iov, iovec_ptr, iovec_count, number_remaining,
                number_returned, running_total, errno, moved, broken>>

Functions ==
  {"SocketWrite", "SocketRead", "WriteOnSelect", "ScatterGatherSocketWrite"}
Errors == {"EINTR", "EAGAIN", "EPIPE", "EOTHER"}
NoCall == [fn |-> "none", count |-> 0, wait |-> FALSE, timed |-> FALSE]

-----------------------------------------------------------------------------
(* Entry and return.                                                       *)

\* Where a loop iteration starts: WriteOnSelect waits before every write.
LoopStart(fn) == IF fn = "WriteOnSelect" THEN "select" ELSE "transfer"

Enter(fn, array, wait, timed) ==
  /\ call' = [fn |-> fn, count |-> End(array), wait |-> wait, timed |-> timed]
  /\ iov' = array
  /\ iovec_ptr' = 1
  /\ iovec_count' = Len(array)
  /\ number_remaining' = End(array)
  /\ number_returned' = 0
  /\ running_total' = 0
  /\ moved' = 0
  /\ pc' = IF End(array) = 0 THEN "returned" ELSE LoopStart(fn)
  /\ UNCHANGED <<errno, broken>>

\* The overload that is not given the number of bytes adds up iov_len first.
EnterCounting(array, wait, timed) ==
  /\ call' = [fn |-> "ScatterGatherSocketWrite", count |-> End(array),
              wait |-> wait, timed |-> timed]
  /\ iov' = array
  /\ iovec_ptr' = 1
  /\ iovec_count' = Len(array)
  /\ number_remaining' = 0
  /\ number_returned' = 0
  /\ running_total' = 0
  /\ moved' = 0
  /\ pc' = "counting"
  /\ UNCHANGED <<errno, broken>>

\* One iteration of that loop, whose counter i is kept in running_total.
CountNext ==
  /\ pc = "counting"
  /\ IF running_total < iovec_count
     THEN /\ number_remaining' =
               number_remaining + iov[running_total + 1].len
          /\ running_total' = running_total + 1
          /\ UNCHANGED pc
     ELSE /\ pc' = IF number_remaining = 0 THEN "returned" ELSE "transfer"
          /\ UNCHANGED <<number_remaining, running_total>>
  /\ UNCHANGED <<call, cursorVars, number_returned, errno, moved, broken>>

Break(e) ==
  /\ pc' = "returned"
  /\ errno' = e

-----------------------------------------------------------------------------
(* write, read and writev.                                                 *)

\* The bytes of the buffers that the system call is given.
Offered ==
  LET last == iovec_ptr + iovec_count - 1
  IN  iov[last].base + iov[last].len - iov[iovec_ptr].base

\* buffer_ptr += number_returned
Advance(n) ==
  iov' = [iov EXCEPT ![iovec_ptr] = [base |-> @.base + n, len |-> @.len - n]]

\* The kernel moved n bytes; after writev the array is updated if data is left.
Moves(n) ==
  /\ pc = "transfer"
  /\ broken => call.fn = "SocketRead"
  /\ moved' = moved + n
  /\ number_returned' = n
  /\ number_remaining' = number_remaining - n
  /\ IF call.fn = "ScatterGatherSocketWrite"
     THEN /\ pc' = IF number_remaining > n THEN "helper" ELSE "returned"
          /\ running_total' = iov[iovec_ptr].len
          /\ UNCHANGED iov
     ELSE /\ pc' = IF number_remaining > n THEN LoopStart(call.fn)
                   ELSE "returned"
          /\ Advance(n)
          /\ UNCHANGED running_total
  /\ UNCHANGED <<call, iovec_ptr, iovec_count, errno, broken>>

\* Mutant of Retried: readiness of select is taken for room for data.
RetriedIfInterrupted(e) == e = "EINTR"

\* The error is handled by another iteration of the loop.
Retried(e) == e = "EINTR" \/ (e = "EAGAIN" /\ call.fn = "WriteOnSelect")

\* The error is handled by a wait for room for data.
Awaited(e) ==
  e = "EAGAIN" /\ call.fn = "ScatterGatherSocketWrite" /\ call.wait

\* The read or write failed with e.
Fails(e) ==
  /\ pc = "transfer"
  /\ IF call.fn = "SocketRead" THEN e # "EPIPE" ELSE broken => e = "EPIPE"
  /\ broken' = (broken \/ e = "EPIPE")
  /\ errno' = e
  /\ pc' = IF Retried(e) THEN LoopStart(call.fn)
           ELSE IF Awaited(e) THEN "select" ELSE "returned"
  /\ UNCHANGED <<call, cursorVars, number_remaining, number_returned,
                 running_total, moved>>

\* read returned 0.
EndOfFile ==
  /\ pc = "transfer"
  /\ call.fn = "SocketRead"
  /\ Break("0")
  /\ UNCHANGED <<call, cursorVars, number_remaining, number_returned,
                 running_total, moved, broken>>

-----------------------------------------------------------------------------
(* ScatterGatherHelper: the array is advanced past what was written.       *)

\* An iteration of its loop: the struct iovec was written in full.
HelperSkips ==
  /\ pc = "helper"
  /\ running_total <= number_returned
  /\ iovec_ptr' = iovec_ptr + 1
  /\ iovec_count' = iovec_count - 1
  /\ running_total' = running_total + iov[iovec_ptr + 1].len
  /\ UNCHANGED <<call, pc, iov, number_remaining, number_returned, errno,
                 moved, broken>>

\* Mutant of Offset: what was written of the structs before it counts too.
OffsetOfAll == number_returned

\* The bytes of the current struct iovec that were written.
Offset == iov[iovec_ptr].len - (running_total - number_returned)

HelperReturns ==
  /\ pc = "helper"
  /\ running_total > number_returned
  /\ Advance(Offset)
  /\ pc' = "transfer"
  /\ UNCHANGED <<call, iovec_ptr, iovec_count, number_remaining,
                 number_returned, running_total, errno, moved, broken>>

-----------------------------------------------------------------------------
(* select, with *timeout_ptr copied before every call.                     *)

SelectReady ==
  /\ pc = "select"
  /\ pc' = "transfer"
  /\ UNCHANGED <<call, cursorVars, number_remaining, number_returned,
                 running_total, errno, moved, broken>>

\* Any error but EINTR ends the call.
SelectFails(e) ==
  /\ pc = "select"
  /\ e \in {"EINTR", "EOTHER"}
  /\ IF e = "EINTR" THEN errno' = e /\ UNCHANGED pc ELSE Break(e)
  /\ UNCHANGED <<call, cursorVars, number_remaining, number_returned,
                 running_total, moved, broken>>

\* WriteOnSelect gives up; ScatterGatherSocketWrite writes again.
SelectTimesOut ==
  /\ pc = "select"
  /\ call.timed
  /\ IF call.fn = "WriteOnSelect" THEN Break("0")
     ELSE pc' = "transfer" /\ UNCHANGED errno
  /\ UNCHANGED <<call, cursorVars, number_remaining, number_returned,
                 running_total, moved, broken>>

-----------------------------------------------------------------------------
SocketInit ==
  /\ call = NoCall
  /\ pc = "idle"
  /\ iov = <<>>
  /\ iovec_ptr = 1
  /\ iovec_count = 0
  /\ number_remaining = 0
  /\ number_returned = 0
  /\ running_total = 0
  /\ errno = "0"
  /\ moved = 0
  /\ broken = FALSE

SocketStep ==
  \/ CountNext
  \/ pc = "transfer" /\ \E n \in 1..Offered : Moves(n)
  \/ \E e \in Errors : Fails(e) \/ SelectFails(e)
  \/ EndOfFile
  \/ HelperSkips
  \/ HelperReturns
  \/ SelectReady
  \/ SelectTimesOut

\* A caller makes a call with buffers of its own.
Call ==
  /\ pc \in {"idle", "returned"}
  /\ \E array \in Arrays, wait, timed \in BOOLEAN :
       \/ \E fn \in Functions :
            /\ fn # "ScatterGatherSocketWrite" => Len(array) = 1 /\ ~wait
            /\ fn \in {"SocketWrite", "SocketRead"} => ~timed
            /\ Enter(fn, array, wait, timed)
       \/ EnterCounting(array, wait, timed)

\* A caller makes another call with the values that the last one returned.
CallAgain ==
  /\ pc = "returned"
  /\ number_remaining > 0
  /\ pc' = LoopStart(call.fn)
  /\ UNCHANGED <<call, cursorVars, number_remaining, number_returned,
                 running_total, errno, moved, broken>>

SocketNext == SocketStep \/ Call \/ CallAgain
SocketSpec == SocketInit /\ [][SocketNext]_socketVars

\* The system call was not interrupted: data was moved, or an error ends the call.
Answered ==
  \/ pc = "transfer" /\ \E n \in 1..Offered : Moves(n)
  \/ \E e \in Errors \ {"EINTR"} : Fails(e)
  \/ EndOfFile

-----------------------------------------------------------------------------
(* Properties.                                                             *)

\* The types; the functions are only ever given whole arrays.
SocketTypeOK ==
  /\ call \in [fn : Functions \union {"none"}, count : Nat,
               wait : BOOLEAN, timed : BOOLEAN]
  /\ pc \in {"idle", "counting", "transfer", "helper", "select", "returned"}
  /\ iov \in Seq([base : Nat, len : Nat])
  /\ iovec_ptr \in Nat
  /\ iovec_count \in Nat
  /\ number_remaining \in Nat
  /\ number_returned \in Nat
  /\ running_total \in Nat
  /\ errno \in Errors \union {"0"}
  /\ moved \in Nat
  /\ broken \in BOOLEAN

\* Between system calls the buffers that are left start with the first byte
\* that was not moved and hold every byte after it, whatever short counts,
\* interruptions and repeated calls came before: nothing is lost, duplicated
\* or reordered (ScatterGatherSocketWrite, ScatterGatherHelper, buffer_ptr).
CursorExact ==
  pc \in {"transfer", "select"} =>
    /\ moved + number_remaining = call.count
    /\ iovec_ptr \in 1..Len(iov)
    /\ iovec_ptr + iovec_count - 1 = Len(iov)
    /\ iov[iovec_ptr].base = moved
    /\ \A i \in iovec_ptr..Len(iov) - 1 :
         iov[i + 1].base = iov[i].base + iov[i].len
    /\ End(iov) = call.count

\* What the header says of a return (socket_functions.h:50-53, 90-95, 143-149
\* and 173-185): the count is what the kernel moved; a short one is never due
\* to EINTR, nor to a blocked descriptor if the function waits; errno 0 means
\* end of file or time-out.
ReturnContract ==
  pc = "returned" =>
    /\ moved = call.count - number_remaining
    /\ number_remaining > 0 =>
         /\ errno # "EINTR"
         /\ call.wait \/ call.fn = "WriteOnSelect" => errno # "EAGAIN"
         /\ errno = "0" => \/ call.fn = "SocketRead"
                           \/ call.fn = "WriteOnSelect" /\ call.timed

=============================================================================
