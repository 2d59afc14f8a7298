---------------------------- MODULE SocketProofs ----------------------------
(***************************************************************************)
(* The loops of socket_functions for every array of buffers and every      *)
(* answer of the kernel, and the writers of a connection on top of them.   *)
(***************************************************************************)
EXTENDS RecordWrite, SequenceTheorems, TLAPS

-----------------------------------------------------------------------------
(* The inductive invariant of a call.                                      *)

\* The array from the cursor on is a consecutive part of the message, up to
\* its end.
Consecutive ==
  /\ iovec_ptr \in 1..Len(iov)
  /\ iovec_ptr + iovec_count - 1 = Len(iov)
  /\ \A i \in iovec_ptr..Len(iov) - 1 :
       iov[i + 1].base = iov[i].base + iov[i].len
  /\ End(iov) = call.count

\* The cursor is at the first byte that was not moved.
AtUnmoved == number_remaining > 0 /\ iov[iovec_ptr].base = moved

\* running_total ends with the current struct and started where the last
\* writev did; the structs before it were written in full.
HelperExact ==
  /\ number_remaining > 0
  /\ iov[iovec_ptr].base + iov[iovec_ptr].len - running_total
       = moved - number_returned
  /\ iov[iovec_ptr].base <= moved
  /\ call.fn = "ScatterGatherSocketWrite"

\* The first running_total structs were added up.
CountingExact ==
  /\ call.fn = "ScatterGatherSocketWrite"
  /\ moved = 0
  /\ iovec_ptr = 1
  /\ iov[1].base = 0
  /\ running_total \in 0..Len(iov)
  /\ number_remaining = IF running_total = Len(iov) THEN End(iov)
                        ELSE iov[running_total + 1].base

CallInv ==
  /\ SocketTypeOK
  /\ errno = "EPIPE" => broken
  /\ pc # "idle" =>
       /\ Consecutive
       /\ call.fn # "none"
       /\ call.fn # "ScatterGatherSocketWrite" => Len(iov) = 1
  /\ pc = "counting" => CountingExact
  /\ pc \in {"transfer", "select", "helper", "returned"} =>
       moved + number_remaining = call.count
  /\ pc \in {"transfer", "select"} => AtUnmoved
  /\ pc = "returned" /\ number_remaining > 0 => AtUnmoved
  /\ pc = "helper" => HelperExact

\* What an array of Arrays is.
LEMMA ArrayFacts ==
  ASSUME NEW array \in Arrays
  PROVE  /\ array \in Seq([base : Nat, len : Nat])
         /\ Len(array) \in Nat
         /\ Len(array) > 0
         /\ array[1].base = 0
         /\ \A i \in 1..Len(array) :
              array[i].base \in Nat /\ array[i].len \in Nat
         /\ \A i \in 1..Len(array) - 1 :
              array[i + 1].base = array[i].base + array[i].len
         /\ End(array) \in Nat
<1>1. array \in Seq([base : Nat, len : Nat])
  BY ArraysAssumption
<1>2. Len(array) \in Nat /\ Len(array) > 0 /\ array[1].base = 0
  BY <1>1, ArraysAssumption
<1>3. \A i \in 1..Len(array) : array[i] \in [base : Nat, len : Nat]
  BY <1>1, ElementOfSeq
<1>4. \A i \in 1..Len(array) : array[i].base \in Nat /\ array[i].len \in Nat
  BY <1>3
<1>5. \A i \in 1..Len(array) - 1 : array[i + 1].base = array[i].base + array[i].len
  BY ArraysAssumption
<1>6. End(array) \in Nat
  BY <1>2, <1>4 DEF End
<1> QED
  BY <1>1, <1>2, <1>4, <1>5, <1>6

\* The same of iov, between calls and in them.
LEMMA IovFacts ==
  ASSUME CallInv
  PROVE  /\ Len(iov) \in Nat
         /\ \A i \in 1..Len(iov) : /\ iov[i] \in [base : Nat, len : Nat]
                                   /\ iov[i].base \in Nat
                                   /\ iov[i].len \in Nat
<1>1. iov \in Seq([base : Nat, len : Nat])
  BY DEF CallInv, SocketTypeOK
<1>2. \A i \in 1..Len(iov) : iov[i] \in [base : Nat, len : Nat]
  BY <1>1, ElementOfSeq
<1> QED
  BY <1>1, <1>2

\* The types that the steps below are about.
LEMMA CallTypes ==
  ASSUME CallInv
  PROVE  /\ call \in [fn : Functions \union {"none"}, count : Nat,
                      wait : BOOLEAN, timed : BOOLEAN]
         /\ call.count \in Nat
         /\ iov \in Seq([base : Nat, len : Nat])
         /\ iovec_ptr \in Nat /\ iovec_count \in Nat
         /\ number_remaining \in Nat /\ number_returned \in Nat
         /\ running_total \in Nat /\ moved \in Nat
         /\ errno \in Errors \union {"0"} /\ broken \in BOOLEAN
BY DEF CallInv, SocketTypeOK

\* A call starts with the cursor at the first byte.
LEMMA EnterKeeps ==
  ASSUME CallInv, NEW array \in Arrays, NEW fn \in Functions,
         NEW wait \in BOOLEAN, NEW timed \in BOOLEAN,
         fn # "ScatterGatherSocketWrite" => Len(array) = 1,
         Enter(fn, array, wait, timed)
  PROVE  CallInv'
<1>1. SocketTypeOK'
  BY CallTypes, ArrayFacts DEF Enter, SocketTypeOK, LoopStart
<1>2. Consecutive'
  <2>1. /\ iov' = array
        /\ iovec_ptr' = 1
        /\ iovec_count' = Len(array)
        /\ call'.count = End(array)
    BY DEF Enter
  <2>2. iovec_ptr' \in 1..Len(iov') /\ iovec_ptr' + iovec_count' - 1 = Len(iov')
    BY <2>1, ArrayFacts
  <2>3. \A i \in iovec_ptr'..Len(iov') - 1 :
          iov'[i + 1].base = iov'[i].base + iov'[i].len
    BY <2>1, ArrayFacts
  <2>4. End(iov)' = call'.count
    BY <2>1 DEF End
  <2> QED
    BY <2>2, <2>3, <2>4 DEF Consecutive
<1>3. moved' + number_remaining' = call'.count
  BY ArrayFacts DEF Enter
<1>4. pc' \in {"transfer", "select"} => AtUnmoved'
  BY ArrayFacts DEF Enter, AtUnmoved, LoopStart
<1>5. pc' = "returned" => number_remaining' = 0
  BY ArrayFacts DEF Enter, LoopStart
<1>6. pc' \in {"transfer", "select", "returned"}
  BY DEF Enter, LoopStart
<1>7. /\ (errno = "EPIPE" => broken)'
      /\ call'.fn # "none"
      /\ call'.fn # "ScatterGatherSocketWrite" => Len(iov') = 1
  BY DEF Enter, CallInv, Functions
<1>8. ~(pc' = "returned" /\ number_remaining' > 0)
  BY <1>5
<1> QED
  BY <1>1, <1>2, <1>3, <1>4, <1>6, <1>7, <1>8 DEF CallInv

LEMMA EnterCountingKeeps ==
  ASSUME CallInv, NEW array \in Arrays, NEW wait \in BOOLEAN,
         NEW timed \in BOOLEAN, EnterCounting(array, wait, timed)
  PROVE  CallInv'
<1>1. SocketTypeOK'
  BY CallTypes, ArrayFacts DEF EnterCounting, SocketTypeOK, Functions
<1>2. Consecutive'
  <2>1. /\ iov' = array
        /\ iovec_ptr' = 1
        /\ iovec_count' = Len(array)
        /\ call'.count = End(array)
    BY DEF EnterCounting
  <2>2. iovec_ptr' \in 1..Len(iov') /\ iovec_ptr' + iovec_count' - 1 = Len(iov')
    BY <2>1, ArrayFacts
  <2>3. \A i \in iovec_ptr'..Len(iov') - 1 :
          iov'[i + 1].base = iov'[i].base + iov'[i].len
    BY <2>1, ArrayFacts
  <2>4. End(iov)' = call'.count
    BY <2>1 DEF End
  <2> QED
    BY <2>2, <2>3, <2>4 DEF Consecutive
<1>3. CountingExact'
  BY ArrayFacts DEF EnterCounting, CountingExact, End
<1> QED
  BY <1>1, <1>2, <1>3 DEF CallInv, EnterCounting

-----------------------------------------------------------------------------
(* The steps of a call.                                                    *)

\* Advancing the current struct leaves its end where it was.
LEMMA AdvanceFacts ==
  ASSUME CallInv, pc # "idle",
         NEW n \in Nat, n <= iov[iovec_ptr].len,
         Advance(n), UNCHANGED <<call, iovec_ptr, iovec_count>>
  PROVE  /\ iov' \in Seq([base : Nat, len : Nat])
         /\ Len(iov') = Len(iov)
         /\ iov'[iovec_ptr].base = iov[iovec_ptr].base + n
         /\ Consecutive'
<1> DEFINE p == iovec_ptr
           new == [base |-> iov[p].base + n, len |-> iov[p].len - n]
<1>1. p \in 1..Len(iov) /\ Consecutive
  BY DEF CallInv, Consecutive
<1>2. iov[p].base \in Nat /\ iov[p].len \in Nat
  BY <1>1, IovFacts
<1>3. new \in [base : Nat, len : Nat]
  BY <1>2
<1>4. iov' = [iov EXCEPT ![p] = new]
  BY DEF Advance
<1>5. /\ iov' \in Seq([base : Nat, len : Nat])
      /\ Len(iov') = Len(iov)
      /\ \A i \in 1..Len(iov) : iov'[i] = IF i = p THEN new ELSE iov[i]
  <2>1. iov \in Seq([base : Nat, len : Nat])
    BY CallTypes
  <2> HIDE DEF new
  <2> QED
    BY <1>1, <1>3, <1>4, <2>1, ExceptSeq, SMTT(30)
<1>6. \A i \in p..Len(iov) - 1 : iov'[i + 1].base = iov'[i].base + iov'[i].len
  <2> SUFFICES ASSUME NEW i \in p..Len(iov) - 1
               PROVE  iov'[i + 1].base = iov'[i].base + iov'[i].len
    OBVIOUS
  <2>1. /\ i \in 1..Len(iov) /\ i + 1 \in 1..Len(iov) /\ i + 1 # p
        /\ iov[i + 1].base = iov[i].base + iov[i].len
    BY <1>1, IovFacts DEF Consecutive
  <2>2. iov'[i + 1] = iov[i + 1]
    BY <2>1, <1>5
  <2>3. iov'[i].base + iov'[i].len = iov[i].base + iov[i].len
    <3>1. CASE i = p
      <4>1. iov'[i] = new
        BY <3>1, <2>1, <1>5
      <4>2. iov'[i].base = iov[i].base + n /\ iov'[i].len = iov[i].len - n
        BY <4>1, <3>1
      <4> QED
        BY <4>2, <3>1, <1>2
    <3>2. CASE i # p
      BY <3>2, <2>1, <1>5
    <3> QED
      BY <3>1, <3>2
  <2> QED
    BY <2>1, <2>2, <2>3
<1>7. End(iov)' = End(iov)
  <2>1. Len(iov) \in 1..Len(iov)
    BY <1>1, IovFacts
  <2>2. CASE Len(iov) = p
    BY <2>1, <2>2, <1>5, <1>2 DEF End
  <2>3. CASE Len(iov) # p
    BY <2>1, <2>3, <1>5 DEF End
  <2> QED
    BY <2>2, <2>3
<1>8. Consecutive'
  BY <1>1, <1>5, <1>6, <1>7 DEF Consecutive
<1> QED
  BY <1>1, <1>5, <1>8

\* The buffers offer what number_remaining says.
LEMMA OfferedFacts ==
  ASSUME CallInv, pc = "transfer"
  PROVE  /\ Offered = number_remaining
         /\ call.fn # "ScatterGatherSocketWrite" =>
              iov[iovec_ptr].len = number_remaining
<1>1. Consecutive /\ AtUnmoved /\ moved + number_remaining = call.count
  BY DEF CallInv
<1>2. Offered = number_remaining
  <2>1. iovec_ptr + iovec_count - 1 = Len(iov) /\ End(iov) = call.count
    BY <1>1 DEF Consecutive
  <2>2. Offered = End(iov) - iov[iovec_ptr].base
    <3> DEFINE last == iovec_ptr + iovec_count - 1
    <3>1. Offered = iov[last].base + iov[last].len - iov[iovec_ptr].base
      BY DEF Offered
    <3>2. last = Len(iov)
      BY <2>1
    <3>3. /\ iov[last].base \in Nat /\ iov[last].len \in Nat
          /\ iov[iovec_ptr].base \in Nat
      BY <1>1, <3>2, IovFacts DEF Consecutive
    <3> HIDE DEF last
    <3>4. iov[last].base + iov[last].len = End(iov)
      BY <3>2 DEF End
    <3> QED
      BY <3>1, <3>3, <3>4
  <2>3. iov[iovec_ptr].base = moved
    BY <1>1 DEF AtUnmoved
  <2> QED
    BY <1>1, <2>1, <2>2, <2>3, CallTypes
<1>3. ASSUME call.fn # "ScatterGatherSocketWrite"
      PROVE  iov[iovec_ptr].len = number_remaining
  <2>1. Len(iov) = 1 /\ iovec_ptr = 1
    BY <1>1, <1>3 DEF CallInv, Consecutive
  <2> QED
    BY <1>1, <2>1, CallTypes, IovFacts DEF Consecutive, AtUnmoved, End
<1> QED
  BY <1>2, <1>3

LEMMA CountNextKeeps ==
  ASSUME CallInv, CountNext
  PROVE  CallInv'
<1>1. CountingExact /\ Consecutive /\ pc = "counting"
  BY DEF CountNext, CallInv
<1>2. UNCHANGED <<call, iov, iovec_ptr, iovec_count, moved, errno, broken,
                  number_returned>>
  BY DEF CountNext, cursorVars
<1>3. Consecutive'
  BY <1>1, <1>2 DEF Consecutive, End
<1>4. iovec_count = Len(iov) /\ Len(iov) \in Nat
  BY <1>1, IovFacts, CallTypes DEF CountingExact, Consecutive
<1>5. CASE running_total < iovec_count
  <2>1. /\ number_remaining' = number_remaining + iov[running_total + 1].len
        /\ running_total' = running_total + 1
        /\ pc' = pc
    BY <1>5 DEF CountNext
  <2>2. running_total + 1 \in 1..Len(iov)
    BY <1>4, <1>5, CallTypes, SMTT(30)
  <2>3. /\ iov[running_total + 1].len \in Nat
        /\ number_remaining = iov[running_total + 1].base
    BY <1>1, <1>4, <1>5, <2>2, CallTypes, IovFacts DEF CountingExact
  <2>4. SocketTypeOK'
    BY <1>2, <2>1, <2>3, CallTypes, SMTT(30) DEF SocketTypeOK, CallInv
  <2>5. number_remaining' = IF running_total' = Len(iov) THEN End(iov)
                            ELSE iov[running_total' + 1].base
    <3>1. CASE running_total + 1 = Len(iov)
      BY <3>1, <2>1, <2>3 DEF End
    <3>2. CASE running_total + 1 # Len(iov)
      <4>1. running_total + 1 \in iovec_ptr..Len(iov) - 1
        BY <3>2, <1>1, <1>4, <2>2, CallTypes DEF CountingExact
      <4> QED
        BY <4>1, <3>2, <1>1, <2>1, <2>3 DEF Consecutive
    <3> QED
      BY <3>1, <3>2
  <2>6. CountingExact'
    BY <1>1, <1>2, <1>4, <2>1, <2>2, <2>5 DEF CountingExact, End
  <2> QED
    BY <1>1, <1>2, <1>3, <2>1, <2>4, <2>6 DEF CallInv
<1>6. CASE ~(running_total < iovec_count)
  <2>1. /\ pc' = (IF number_remaining = 0 THEN "returned" ELSE "transfer")
        /\ UNCHANGED <<number_remaining, running_total>>
    BY <1>6 DEF CountNext
  <2>2. number_remaining = call.count /\ moved = 0 /\ iov[iovec_ptr].base = 0
    <3>1. running_total = Len(iov)
      BY <1>1, <1>4, <1>6, CallTypes DEF CountingExact
    <3> QED
      BY <1>1, <3>1 DEF CountingExact, Consecutive
  <2>3. SocketTypeOK'
    BY <1>2, <2>1, CallTypes DEF SocketTypeOK, CallInv
  <2>4. moved' + number_remaining' = call'.count
    BY <1>2, <2>1, <2>2, CallTypes
  <2>5. pc' = "transfer" => AtUnmoved'
    BY <1>2, <2>1, <2>2, CallTypes DEF AtUnmoved
  <2> QED
    BY <1>1, <1>2, <1>3, <2>1, <2>3, <2>4, <2>5, CallTypes DEF CallInv
<1> QED
  BY <1>5, <1>6

LEMMA MovesKeeps ==
  ASSUME CallInv, pc = "transfer", NEW n \in 1..Offered, Moves(n)
  PROVE  CallInv' /\ (moved' + number_remaining' = call.count)
<1>1. /\ Consecutive /\ AtUnmoved /\ moved + number_remaining = call.count
      /\ call.fn # "none"
      /\ call.fn # "ScatterGatherSocketWrite" => Len(iov) = 1
  BY DEF CallInv
<1>2. n \in Nat /\ n > 0 /\ n <= number_remaining
  BY OfferedFacts, CallTypes
<1>3. /\ moved' = moved + n
      /\ number_returned' = n
      /\ number_remaining' = number_remaining - n
      /\ UNCHANGED <<call, iovec_ptr, iovec_count, errno, broken>>
  BY DEF Moves
<1>4. moved' + number_remaining' = call'.count /\ number_remaining' \in Nat
  BY <1>1, <1>2, <1>3, CallTypes, SMTT(30)
<1>5. (errno = "EPIPE" => broken)'
  BY <1>3 DEF CallInv
<1>6. CASE call.fn = "ScatterGatherSocketWrite"
  <2>1. /\ pc' = (IF number_remaining > n THEN "helper" ELSE "returned")
        /\ running_total' = iov[iovec_ptr].len
        /\ iov' = iov
    BY <1>6 DEF Moves
  <2>2. iov[iovec_ptr].len \in Nat /\ iov[iovec_ptr].base \in Nat
    BY <1>1, IovFacts DEF Consecutive
  <2>3. SocketTypeOK'
    BY <1>2, <1>3, <1>4, <2>1, <2>2, CallTypes DEF SocketTypeOK, CallInv
  <2>4. Consecutive'
    BY <1>1, <1>3, <2>1 DEF Consecutive, End
  <2>5. ASSUME pc' = "helper" PROVE HelperExact'
    <3>1. number_remaining' > 0
      BY <1>2, <1>3, <2>1, <2>5, CallTypes
    <3>2. iov'[iovec_ptr'] = iov[iovec_ptr] /\ iov[iovec_ptr].base = moved
      BY <1>1, <1>3, <2>1 DEF AtUnmoved
    <3>3. iov'[iovec_ptr'].base + iov'[iovec_ptr'].len - running_total'
            = moved' - number_returned'
      <4> DEFINE b == iov'[iovec_ptr'].base
                 l == iov'[iovec_ptr'].len
      <4>1. /\ b = moved /\ l = iov[iovec_ptr].len
            /\ running_total' = l /\ moved' = moved + n /\ number_returned' = n
        BY <1>3, <2>1, <3>2
      <4>2. b \in Nat /\ l \in Nat /\ moved \in Nat
        BY <2>2, <4>1, CallTypes
      <4> HIDE DEF b, l
      <4>3. b + l - running_total' = moved' - number_returned'
        BY <1>2, <4>1, <4>2
      <4> QED
        BY <4>3 DEF b, l
    <3>4. iov'[iovec_ptr'].base <= moved'
      BY <1>2, <1>3, <3>2, CallTypes
    <3> QED
      BY <1>3, <1>6, <3>1, <3>3, <3>4 DEF HelperExact
  <2>6. pc' = "returned" => number_remaining' = 0
    BY <1>2, <1>3, <2>1, CallTypes
  <2>7. ~(pc' = "returned" /\ number_remaining' > 0)
    BY <2>6
  <2> QED
    BY <1>1, <1>3, <1>4, <1>5, <2>1, <2>3, <2>4, <2>5, <2>7 DEF CallInv
<1>7. CASE call.fn # "ScatterGatherSocketWrite"
  <2>1. /\ pc' = (IF number_remaining > n THEN LoopStart(call.fn)
                  ELSE "returned")
        /\ Advance(n)
        /\ running_total' = running_total
    BY <1>7 DEF Moves
  <2>2. n <= iov[iovec_ptr].len
    BY <1>2, <1>7, OfferedFacts
  <2>3. /\ iov' \in Seq([base : Nat, len : Nat])
        /\ Len(iov') = Len(iov)
        /\ iov'[iovec_ptr].base = iov[iovec_ptr].base + n
        /\ Consecutive'
    BY <1>2, <1>3, <2>1, <2>2, AdvanceFacts
  <2>4. SocketTypeOK'
    BY <1>2, <1>3, <1>4, <2>1, <2>3, CallTypes
       DEF SocketTypeOK, CallInv, LoopStart
  <2>5. pc' \in {"transfer", "select"} => AtUnmoved'
    BY <1>1, <1>2, <1>3, <2>1, <2>3, CallTypes DEF AtUnmoved, LoopStart
  <2>6. ~(pc' = "returned" /\ number_remaining' > 0)
    BY <1>2, <1>3, <2>1, CallTypes DEF LoopStart
  <2>7. pc' \in {"transfer", "select", "returned"}
    BY <2>1 DEF LoopStart
  <2> QED
    BY <1>1, <1>3, <1>4, <1>5, <2>3, <2>4, <2>5, <2>6, <2>7 DEF CallInv
<1> QED
  BY <1>3, <1>4, <1>6, <1>7

\* Steps that leave the cursor and the counters alone.
LEMMA WaitKeeps ==
  ASSUME CallInv, pc \in {"transfer", "select"},
         UNCHANGED <<call, iov, iovec_ptr, iovec_count, number_remaining,
                     number_returned, running_total, moved>>,
         pc' \in {"transfer", "select", "returned"},
         errno' \in Errors \union {"0"}, broken' \in BOOLEAN,
         (errno = "EPIPE" => broken)'
  PROVE  CallInv'
<1>1. Consecutive /\ AtUnmoved /\ moved + number_remaining = call.count
  BY DEF CallInv
<1>2. Consecutive' /\ AtUnmoved' /\ moved' + number_remaining' = call'.count
  BY <1>1 DEF Consecutive, AtUnmoved, End
<1>3. SocketTypeOK'
  BY DEF CallInv, SocketTypeOK
<1> QED
  BY <1>2, <1>3 DEF CallInv

LEMMA FailsKeeps ==
  ASSUME CallInv, NEW e \in Errors, Fails(e)
  PROVE  CallInv'
<1>1. pc' \in {"transfer", "select", "returned"}
  BY DEF Fails, LoopStart
<1>2. broken' \in BOOLEAN /\ (errno = "EPIPE" => broken)'
  BY DEF Fails
<1> QED
  BY <1>1, <1>2, WaitKeeps DEF Fails, cursorVars

LEMMA EndOfFileKeeps ==
  ASSUME CallInv, EndOfFile
  PROVE  CallInv'
BY WaitKeeps, CallTypes DEF EndOfFile, Break, cursorVars

LEMMA SelectKeeps ==
  ASSUME CallInv,
         \/ SelectReady
         \/ SelectTimesOut
         \/ \E e \in Errors : SelectFails(e)
  PROVE  CallInv'
<1>1. CASE SelectReady
  BY <1>1, WaitKeeps, CallTypes DEF SelectReady, cursorVars, CallInv
<1>2. CASE SelectTimesOut
  BY <1>2, WaitKeeps, CallTypes DEF SelectTimesOut, Break, cursorVars, CallInv
<1>3. ASSUME NEW e \in Errors, SelectFails(e) PROVE CallInv'
  BY <1>3, WaitKeeps, CallTypes DEF SelectFails, Break, cursorVars, Errors
<1> QED
  BY <1>1, <1>2, <1>3

\* The helper never reads past the array: the message is longer than what was
\* written of it.
LEMMA HelperSkipsKeeps ==
  ASSUME CallInv, HelperSkips
  PROVE  CallInv'
<1>1. /\ Consecutive /\ HelperExact /\ pc = "helper"
      /\ moved + number_remaining = call.count
  BY DEF CallInv, HelperSkips
<1>2. /\ iovec_ptr' = iovec_ptr + 1
      /\ iovec_count' = iovec_count - 1
      /\ running_total' = running_total + iov[iovec_ptr + 1].len
      /\ UNCHANGED <<call, pc, iov, number_remaining, number_returned, errno,
                     moved, broken>>
      /\ running_total <= number_returned
  BY DEF HelperSkips
<1>3. iov[iovec_ptr].base \in Nat /\ iov[iovec_ptr].len \in Nat
  BY <1>1, IovFacts DEF Consecutive
<1> DEFINE b == iov[iovec_ptr].base
           l == iov[iovec_ptr].len
<1>4. b + l <= moved
  <2>1. b + l - running_total = moved - number_returned
    BY <1>1 DEF HelperExact
  <2>2. /\ b \in Nat /\ l \in Nat /\ running_total \in Nat
        /\ number_returned \in Nat /\ moved \in Nat
    BY <1>3, CallTypes
  <2> HIDE DEF b, l
  <2> QED
    BY <1>2, <2>1, <2>2
<1>5. iovec_ptr # Len(iov)
  <2>1. b + l # call.count
    <3>1. number_remaining > 0
      BY <1>1 DEF HelperExact
    <3>2. b + l \in Int
      BY <1>3
    <3> HIDE DEF b, l
    <3> QED
      BY <1>1, <1>4, <3>1, <3>2, CallTypes
  <2> QED
    BY <1>1, <2>1 DEF Consecutive, End
<1>6. iovec_ptr \in iovec_ptr..Len(iov) - 1 /\ iovec_ptr + 1 \in 1..Len(iov)
  BY <1>1, <1>5, IovFacts DEF Consecutive
<1>7. /\ iov[iovec_ptr + 1].base = iov[iovec_ptr].base + iov[iovec_ptr].len
      /\ iov[iovec_ptr + 1].len \in Nat /\ iov[iovec_ptr + 1].base \in Nat
  BY <1>1, <1>6, IovFacts DEF Consecutive
<1>8. SocketTypeOK'
  <2>0. /\ iovec_ptr + iovec_count - 1 = Len(iov)
        /\ iovec_ptr \in Nat /\ iovec_count \in Nat /\ Len(iov) \in Nat
        /\ iovec_ptr + 1 <= Len(iov)
        /\ running_total \in Nat
    BY <1>1, <1>6, CallTypes, IovFacts DEF Consecutive
  <2>1. iovec_count - 1 \in Nat
    BY <2>0
  <2>2. iovec_ptr' \in Nat /\ iovec_count' \in Nat /\ running_total' \in Nat
    BY <1>2, <1>7, <2>0, <2>1
  <2> QED
    BY <1>2, <2>2 DEF SocketTypeOK, CallInv
<1>9. Consecutive'
  <2>0. /\ iovec_ptr + iovec_count - 1 = Len(iov)
        /\ iovec_ptr \in Nat /\ iovec_count \in Nat /\ Len(iov) \in Nat
    BY <1>1, CallTypes, IovFacts DEF Consecutive
  <2>1. iovec_ptr' \in 1..Len(iov) /\ iovec_ptr' + iovec_count' - 1 = Len(iov)
    BY <1>2, <1>6, <2>0
  <2>2. \A i \in iovec_ptr'..Len(iov) - 1 : i \in iovec_ptr..Len(iov) - 1
    BY <1>2, CallTypes, IovFacts
  <2> QED
    BY <1>1, <1>2, <2>1, <2>2 DEF Consecutive, End
<1>10. HelperExact'
  <2> DEFINE m == iov[iovec_ptr + 1].len
  <2>1. /\ iov'[iovec_ptr'].base = b + l /\ iov'[iovec_ptr'].len = m
        /\ running_total' = running_total + m
    BY <1>2, <1>7
  <2>2. b + l - running_total = moved - number_returned
    BY <1>1 DEF HelperExact
  <2>3. /\ b \in Nat /\ l \in Nat /\ m \in Nat /\ running_total \in Nat
        /\ number_returned \in Nat /\ moved \in Nat
    BY <1>3, <1>7, CallTypes
  <2>4. (b + l) + m - (running_total + m) = moved - number_returned
    <3> HIDE DEF b, l, m
    <3> QED
      BY <2>2, <2>3
  <2>5. iov'[iovec_ptr'].base + iov'[iovec_ptr'].len - running_total'
          = moved' - number_returned'
    BY <1>2, <2>1, <2>4
  <2> QED
    BY <1>1, <1>2, <1>4, <2>1, <2>5 DEF HelperExact
<1> QED
  BY <1>1, <1>2, <1>8, <1>9, <1>10 DEF CallInv

LEMMA HelperReturnsKeeps ==
  ASSUME CallInv, HelperReturns
  PROVE  CallInv'
<1>1. /\ Consecutive /\ HelperExact /\ pc = "helper"
      /\ moved + number_remaining = call.count
  BY DEF CallInv, HelperReturns
<1>2. /\ running_total > number_returned
      /\ Advance(Offset)
      /\ pc' = "transfer"
      /\ UNCHANGED <<call, iovec_ptr, iovec_count, number_remaining,
                     number_returned, running_total, errno, moved, broken>>
  BY DEF HelperReturns
<1>3. iov[iovec_ptr].base \in Nat /\ iov[iovec_ptr].len \in Nat
  BY <1>1, IovFacts DEF Consecutive
<1>4. /\ Offset \in Nat
      /\ Offset <= iov[iovec_ptr].len
      /\ iov[iovec_ptr].base + Offset = moved
  <2> DEFINE b == iov[iovec_ptr].base
             l == iov[iovec_ptr].len
  <2>1. b + l - running_total = moved - number_returned /\ b <= moved
    BY <1>1 DEF HelperExact
  <2>2. /\ b \in Nat /\ l \in Nat /\ running_total \in Nat
        /\ number_returned \in Nat /\ moved \in Nat
    BY <1>3, CallTypes
  <2>3. Offset = l - (running_total - number_returned)
    BY DEF Offset
  <2> HIDE DEF b, l
  <2>4. Offset \in Nat /\ Offset <= l /\ b + Offset = moved
    BY <1>2, <2>1, <2>2, <2>3
  <2> QED
    BY <2>4 DEF b, l
<1>5. /\ iov' \in Seq([base : Nat, len : Nat])
      /\ Len(iov') = Len(iov)
      /\ iov'[iovec_ptr].base = iov[iovec_ptr].base + Offset
      /\ Consecutive'
  <2> HIDE DEF Offset
  <2> QED
    BY <1>1, <1>2, <1>4, AdvanceFacts
<1>6. SocketTypeOK'
  BY <1>2, <1>5 DEF SocketTypeOK, CallInv
<1>7. AtUnmoved'
  BY <1>1, <1>2, <1>4, <1>5 DEF AtUnmoved, HelperExact
<1> QED
  BY <1>1, <1>2, <1>5, <1>6, <1>7 DEF CallInv

LEMMA SocketStepKeeps ==
  ASSUME CallInv, SocketStep
  PROVE  CallInv'
BY CountNextKeeps, MovesKeeps, FailsKeeps, EndOfFileKeeps, SelectKeeps,
   HelperSkipsKeeps, HelperReturnsKeeps DEF SocketStep

LEMMA CallInit ==
  ASSUME SocketInit
  PROVE  CallInv
<1>1. <<>> \in Seq([base : Nat, len : Nat])
  OBVIOUS
<1>2. SocketTypeOK
  BY <1>1 DEF SocketInit, SocketTypeOK, NoCall
<1> QED
  BY <1>2 DEF SocketInit, CallInv

\* A repeated call starts where the last one stopped.
LEMMA ResumeKeeps ==
  ASSUME CallInv, pc = "returned", number_remaining > 0,
         pc' \in {"transfer", "select"},
         UNCHANGED <<call, iov, iovec_ptr, iovec_count, number_remaining,
                     number_returned, running_total, errno, moved, broken>>
  PROVE  CallInv'
<1>1. Consecutive /\ AtUnmoved /\ moved + number_remaining = call.count
  BY DEF CallInv
<1>2. Consecutive' /\ AtUnmoved' /\ moved' + number_remaining' = call'.count
  BY <1>1 DEF Consecutive, AtUnmoved, End
<1>3. SocketTypeOK'
  BY DEF CallInv, SocketTypeOK
<1> QED
  BY <1>2, <1>3 DEF CallInv

\* Every call of the functions of socket_functions.cc, repeated ones included.
LEMMA CallInductive ==
  ASSUME CallInv, [SocketNext]_socketVars
  PROVE  CallInv'
<1>1. CASE SocketStep
  BY <1>1, SocketStepKeeps
<1>2. CASE Call
  <2>1. PICK array \in Arrays, wait \in BOOLEAN, timed \in BOOLEAN :
          \/ \E fn \in Functions :
               /\ fn # "ScatterGatherSocketWrite" => Len(array) = 1
               /\ Enter(fn, array, wait, timed)
          \/ EnterCounting(array, wait, timed)
    BY <1>2 DEF Call
  <2> QED
    BY <2>1, EnterKeeps, EnterCountingKeeps
<1>3. CASE CallAgain
  BY <1>3, ResumeKeeps DEF CallAgain, LoopStart, cursorVars
<1>4. CASE UNCHANGED socketVars
  <2>1. /\ pc' = pc /\ call' = call /\ errno' = errno /\ broken' = broken
        /\ moved' = moved /\ number_remaining' = number_remaining
    BY <1>4 DEF socketVars
  <2>2. SocketTypeOK' <=> SocketTypeOK
    BY <1>4 DEF socketVars, SocketTypeOK
  <2>3. (Consecutive' <=> Consecutive) /\ Len(iov') = Len(iov)
    BY <1>4 DEF socketVars, Consecutive, End
  <2>4. (AtUnmoved' <=> AtUnmoved) /\ (HelperExact' <=> HelperExact)
    BY <1>4 DEF socketVars, AtUnmoved, HelperExact
  <2>5. CountingExact' <=> CountingExact
    BY <1>4 DEF socketVars, CountingExact, End
  <2> QED
    BY <2>1, <2>2, <2>3, <2>4, <2>5 DEF CallInv
<1> QED
  BY <1>1, <1>2, <1>3, <1>4 DEF SocketNext

LEMMA CallInvariant == SocketSpec => []CallInv
<1>1. SocketInit => CallInv
  BY CallInit
<1>2. CallInv /\ [SocketNext]_socketVars => CallInv'
  BY CallInductive
<1> QED
  BY <1>1, <1>2, PTL DEF SocketSpec

\* What is moved is moved once and in order, for every array of buffers and
\* every sequence of short counts, interruptions, waits and repeated calls.
THEOREM CursorAlwaysExact == SocketSpec => [](SocketTypeOK /\ CursorExact)
<1>1. CallInv => SocketTypeOK /\ CursorExact
  BY DEF CallInv, CursorExact, Consecutive, AtUnmoved
<1> QED
  BY <1>1, CallInvariant, PTL

-----------------------------------------------------------------------------
(* What a return means.                                                    *)

\* Why a call returned early.
ShortCount ==
  pc = "returned" /\ number_remaining > 0 =>
    /\ errno # "EINTR"
    /\ call.wait => call.fn = "ScatterGatherSocketWrite"
    /\ call.wait \/ call.fn = "WriteOnSelect" => errno # "EAGAIN"
    /\ errno = "0" => \/ call.fn = "SocketRead"
                      \/ call.fn = "WriteOnSelect" /\ call.timed

\* Only ScatterGatherSocketWrite may be told to wait.
WaitArgument == call.wait => call.fn = "ScatterGatherSocketWrite"

LEMMA ShortCountInductive ==
  ASSUME CallInv, ShortCount, WaitArgument, [SocketNext]_socketVars
  PROVE  ShortCount' /\ WaitArgument'
<1>1. CASE \E e \in Errors : Fails(e)
  BY <1>1 DEF Fails, Retried, Awaited, LoopStart, ShortCount, WaitArgument,
     Errors
<1>2. CASE EndOfFile
  BY <1>2 DEF EndOfFile, Break, ShortCount, WaitArgument
<1>3. CASE \E e \in Errors : SelectFails(e)
  BY <1>3 DEF SelectFails, Break, ShortCount, WaitArgument
<1>4. CASE SelectTimesOut
  BY <1>4 DEF SelectTimesOut, Break, ShortCount, WaitArgument
<1>5. CASE CountNext
  <2>1. UNCHANGED call /\ ~(pc' = "returned" /\ number_remaining' > 0)
    BY <1>5 DEF CountNext
  <2> QED
    BY <2>1 DEF ShortCount, WaitArgument
<1>6. ASSUME pc = "transfer", NEW n \in 1..Offered, Moves(n)
      PROVE  ShortCount' /\ WaitArgument'
  <2>1. UNCHANGED call /\ number_remaining' = number_remaining - n
    BY <1>6 DEF Moves
  <2>2. n \in Nat /\ n <= number_remaining /\ number_remaining \in Nat
    BY <1>6, OfferedFacts, CallTypes
  <2>3. pc' = "returned" => ~(number_remaining > n)
    BY <1>6 DEF Moves, LoopStart
  <2>4. pc' = "returned" => ~(number_remaining' > 0)
    BY <2>1, <2>2, <2>3
  <2> QED
    BY <2>1, <2>4 DEF ShortCount, WaitArgument
<1>7. CASE HelperSkips \/ HelperReturns \/ SelectReady
  BY <1>7 DEF HelperSkips, HelperReturns, SelectReady, ShortCount, WaitArgument
<1>8. CASE Call
  <2>1. PICK array \in Arrays, wait \in BOOLEAN, timed \in BOOLEAN :
          \/ \E fn \in Functions :
               /\ fn # "ScatterGatherSocketWrite" => Len(array) = 1 /\ ~wait
               /\ Enter(fn, array, wait, timed)
          \/ EnterCounting(array, wait, timed)
    BY <1>8 DEF Call
  <2>2. WaitArgument'
    BY <2>1 DEF Enter, EnterCounting, WaitArgument
  <2>3. ~(pc' = "returned" /\ number_remaining' > 0)
    BY <2>1 DEF Enter, EnterCounting, LoopStart
  <2> QED
    BY <2>2, <2>3 DEF ShortCount
<1>9. CASE CallAgain
  BY <1>9 DEF CallAgain, LoopStart, ShortCount, WaitArgument
<1>10. CASE UNCHANGED socketVars
  BY <1>10 DEF socketVars, ShortCount, WaitArgument
<1> QED
  BY <1>1, <1>2, <1>3, <1>4, <1>5, <1>6, <1>7, <1>8, <1>9, <1>10
     DEF SocketNext, SocketStep

\* The returned count and errno mean what the header says, for every answer of
\* the kernel.
THEOREM ReturnsKeepContract == SocketSpec => []ReturnContract
<1> DEFINE I == CallInv /\ ShortCount /\ WaitArgument
<1>1. SocketInit => I
  <2> SUFFICES ASSUME SocketInit PROVE I
    OBVIOUS
  <2>1. pc # "returned" /\ call = NoCall
    BY DEF SocketInit
  <2>2. call.wait = FALSE
    BY <2>1 DEF NoCall
  <2> QED
    BY <2>1, <2>2, CallInit DEF ShortCount, WaitArgument
<1>2. I /\ [SocketNext]_socketVars => I'
  BY CallInductive, ShortCountInductive
<1>3. I => ReturnContract
  <2> SUFFICES ASSUME I, pc = "returned"
               PROVE  /\ moved = call.count - number_remaining
                      /\ ReturnContract
    BY DEF ReturnContract
  <2>1. moved + number_remaining = call.count
    BY DEF CallInv
  <2>2. moved = call.count - number_remaining
    BY <2>1, CallTypes
  <2> QED
    BY <2>2 DEF ReturnContract, ShortCount
<1> QED
  BY <1>1, <1>2, <1>3, PTL DEF SocketSpec

-----------------------------------------------------------------------------
(* The writers of a connection.                                            *)

\* A writer found the connection usable, so what it sends is the first part of
\* a record, if any; once the peer is gone it cannot complete the record.
WriterInv ==
  /\ caller = "none" => pc = "idle"
  /\ caller # "none" =>
       /\ pc # "idle"
       /\ pc # "counting"
       /\ call.fn \in {"ScatterGatherSocketWrite", "WriteOnSelect"}
       /\ call.count > 0
       /\ delivered < MaxWrites
       /\ ~bad
       /\ torn => broken /\ moved = 0
       /\ broken => number_remaining > 0
  /\ caller = "waiting" => pc = "returned" /\ number_remaining > 0

RecordInv == TypeOK /\ CallInv /\ WriterInv /\ FlagExact

LEMMA RecordTypes ==
  ASSUME RecordInv
  PROVE  /\ CallInv
         /\ bad \in BOOLEAN /\ torn \in BOOLEAN /\ broken \in BOOLEAN
         /\ delivered \in 0..MaxWrites
         /\ call.count \in Nat /\ moved \in Nat /\ number_remaining \in Nat
BY CallTypes DEF RecordInv, TypeOK

\* The abstract steps.
Abstract == Channel!Next \/ UNCHANGED Channel!vars

\* A step of socket_functions under a caller: the record is not visible before
\* the write mutex is released, only the end of the peer is.
LEMMA CallStepKeeps ==
  ASSUME RecordInv, CallStep
  PROVE  RecordInv' /\ Abstract
<1>1. CallInv'
  BY SocketStepKeeps, RecordTypes DEF CallStep
<1>2. TypeOK'
  BY <1>1 DEF CallStep, RecordInv, TypeOK, CallInv
<1>3. UNCHANGED <<caller, outcome, bad, torn, delivered>> /\ SocketStep
      /\ caller \in {"request", "interface"}
  BY DEF CallStep
<1>4. /\ pc # "idle" /\ pc # "counting"
      /\ call.fn \in {"ScatterGatherSocketWrite", "WriteOnSelect"}
      /\ call.count > 0 /\ delivered < MaxWrites /\ ~bad
      /\ torn => broken /\ moved = 0
      /\ broken => number_remaining > 0
  BY <1>3 DEF RecordInv, WriterInv
<1>5. ~CountNext /\ ~EndOfFile
  BY <1>4 DEF CountNext, EndOfFile
<1>6. /\ UNCHANGED call
      /\ pc' \in {"transfer", "select", "helper", "returned"}
      /\ broken' = broken \/ broken' = TRUE
      /\ \/ moved' = moved /\ number_remaining' = number_remaining
         \/ ~broken /\ UNCHANGED broken
      /\ broken' => broken \/ pc = "transfer"
  <2>1. CASE \E n \in 1..Offered : Moves(n)
    BY <1>4, <2>1 DEF Moves, LoopStart
  <2>2. CASE \E e \in Errors : Fails(e)
    BY <1>4, <2>2, RecordTypes DEF Fails, LoopStart
  <2>3. CASE \E e \in Errors : SelectFails(e)
    BY <2>3 DEF SelectFails, Break
  <2>4. CASE HelperSkips \/ HelperReturns \/ SelectReady
    BY <2>4 DEF HelperSkips, HelperReturns, SelectReady
  <2>5. CASE SelectTimesOut
    BY <2>5 DEF SelectTimesOut, Break
  <2> QED
    BY <1>3, <1>5, <2>1, <2>2, <2>3, <2>4, <2>5 DEF SocketStep
<1>7. pc = "transfer" => number_remaining > 0
  BY RecordTypes DEF CallInv, AtUnmoved
<1>8. WriterInv'
  <2>1. ASSUME torn' PROVE broken' /\ moved' = 0
    <3>1. torn
      BY <1>3, <2>1
    <3>2. broken /\ moved = 0
      BY <1>4, <3>1
    <3>3. moved' = moved
      BY <1>6, <3>2
    <3> QED
      BY <1>6, <3>2, <3>3
  <2>2. broken' => number_remaining' > 0
    BY <1>4, <1>6, <1>7
  <2> QED
    BY <1>3, <1>4, <1>6, <2>1, <2>2 DEF WriterInv
<1>9. FlagExact'
  BY <1>3 DEF FlagExact
<1>10. Abstract
  BY <1>3, <1>6, RecordTypes DEF Abstract, Channel!Next, Channel!vars,
     Channel!PeerCloses
<1> QED
  BY <1>1, <1>2, <1>8, <1>9, <1>10 DEF RecordInv

LEMMA BeginKeeps ==
  ASSUME RecordInv, NEW array \in Arrays,
         RequestWrites(array) \/ SendRecord(array)
  PROVE  RecordInv' /\ Abstract
<1>1. PICK c \in {"request", "interface"},
           fn \in {"ScatterGatherSocketWrite", "WriteOnSelect"},
           timed \in BOOLEAN :
        /\ Begin(c)
        /\ Enter(fn, array, FALSE, timed)
        /\ fn # "ScatterGatherSocketWrite" => Len(array) = 1
  BY DEF RequestWrites, SendRecord
<1>2. End(array) > 0
  BY DEF RequestWrites, SendRecord
<1>3. CallInv'
  BY <1>1, EnterKeeps, RecordTypes DEF Functions
<1>4. /\ caller = "none" /\ caller' = c /\ ~bad /\ delivered < MaxWrites
      /\ UNCHANGED <<outcome, bad, torn, delivered>>
  BY <1>1 DEF Begin
<1>5. /\ call'.fn = fn /\ call'.count = End(array) /\ moved' = 0
      /\ number_remaining' = End(array) /\ UNCHANGED broken
      /\ pc' \in {"transfer", "select", "returned"}
  BY <1>1 DEF Enter, LoopStart
<1>6. torn => broken
  BY <1>4 DEF RecordInv, FlagExact
<1>7. WriterInv'
  BY <1>2, <1>4, <1>5, <1>6 DEF WriterInv
<1>8. TypeOK'
  BY <1>3, <1>4 DEF RecordInv, TypeOK, CallInv
<1>9. FlagExact'
  BY <1>4 DEF FlagExact
<1>10. Abstract
  BY <1>4, <1>5 DEF Abstract, Channel!vars
<1> QED
  BY <1>3, <1>7, <1>8, <1>9, <1>10 DEF RecordInv

\* The release of the write mutex after a write that was not torn, was flagged
\* or met a closed connection.
LEMMA ReleaseKeeps ==
  ASSUME RecordInv, caller # "none", pc = "returned",
         NEW result \in {"true", "false", "throw"}, Release(result),
         \/ UNCHANGED bad /\ number_remaining = 0
         \/ UNCHANGED bad /\ number_remaining > 0 /\ broken
         \/ bad' = (bad \/ Partial) /\ number_remaining > 0
  PROVE  RecordInv' /\ Abstract
<1>1. /\ ~bad /\ call.count > 0 /\ delivered < MaxWrites
      /\ torn => broken /\ moved = 0
      /\ broken => number_remaining > 0
  BY DEF RecordInv, WriterInv
<1>2. moved + number_remaining = call.count
  BY DEF RecordInv, CallInv
<1>3. /\ caller' = "none" /\ pc' = "idle"
      /\ torn' = (torn \/ (0 < moved /\ moved < call.count))
      /\ delivered' = IF moved = call.count THEN delivered + 1 ELSE delivered
      /\ UNCHANGED <<call, iov, iovec_ptr, iovec_count, number_remaining,
                     number_returned, running_total, errno, moved, broken>>
  BY DEF Release, cursorVars
<1>4. CallInv'
  <2>1. SocketTypeOK'
    BY <1>3 DEF RecordInv, CallInv, SocketTypeOK
  <2> QED
    BY <1>3, <2>1, RecordTypes DEF CallInv
<1>5. WriterInv'
  BY <1>3 DEF WriterInv
<1>6. ASSUME number_remaining = 0 PROVE FlagExact' /\ Abstract
  <2>1. moved = call.count /\ bad' = bad
    BY <1>2, <1>6, RecordTypes
  <2>2. ~torn /\ ~broken /\ torn' = torn
    BY <1>1, <1>3, <1>6, <2>1, RecordTypes
  <2>3. Abstract
    BY <1>1, <1>3, <2>1, <2>2 DEF Abstract, Channel!Next, Channel!Deliver,
       Channel!Usable
  <2>4. FlagExact'
    BY <1>1, <1>3, <2>1, <2>2 DEF FlagExact
  <2> QED
    BY <2>3, <2>4
<1>7. ASSUME number_remaining > 0 PROVE FlagExact' /\ Abstract
  <2>1. moved # call.count /\ delivered' = delivered
    BY <1>2, <1>3, <1>7, RecordTypes
  <2>2. Partial <=> 0 < moved /\ moved < call.count
    BY <1>2, <1>7, RecordTypes DEF Partial
  <2>3. CASE Partial
    <3>1. ~torn
      BY <1>1, <2>2, <2>3, RecordTypes
    <3>2. torn' = TRUE
      BY <1>3, <2>2, <2>3
    <3>3. (bad' = TRUE \/ (bad' = bad /\ broken)) /\ bad' \in BOOLEAN
      <4>1. number_remaining # 0
        BY <1>7
      <4>2. bad \in BOOLEAN
        BY RecordTypes
      <4> QED
        BY <2>3, <4>1, <4>2, Zenon
    <3> QED
      BY <1>1, <1>3, <2>1, <3>1, <3>2, <3>3
         DEF Abstract, Channel!Next, Channel!Tear, FlagExact
  <2>4. CASE ~Partial
    <3>1. torn' = torn /\ bad' = bad
      BY <1>1, <1>3, <2>2, <2>4, RecordTypes
    <3> QED
      BY <1>1, <1>3, <2>1, <3>1, RecordTypes
         DEF Abstract, Channel!vars, FlagExact
  <2> QED
    BY <2>3, <2>4
<1>8. FlagExact' /\ Abstract
  BY <1>6, <1>7, RecordTypes
<1>9. TypeOK'
  <2>1. delivered' \in 0..MaxWrites
    BY <1>1, <1>3, RecordTypes, WritesAssumption
  <2>2. outcome' = result /\ torn' \in BOOLEAN /\ bad' \in BOOLEAN
    BY <1>3, RecordTypes DEF Release
  <2> QED
    BY <1>3, <1>4, <2>1, <2>2 DEF TypeOK, CallInv
<1> QED
  BY <1>4, <1>5, <1>8, <1>9 DEF RecordInv

LEMMA WaitingKeeps ==
  ASSUME RecordInv,
         \/ RequestBlocked
         \/ RequestResumes
         \/ RequestSelectFails("EINTR")
  PROVE  RecordInv' /\ Abstract
<1>1. CASE RequestBlocked
  <2>1. UNCHANGED socketVars /\ caller' = "waiting" /\ caller = "request"
        /\ pc = "returned" /\ number_remaining > 0
        /\ UNCHANGED <<outcome, bad, torn, delivered>>
    BY <1>1 DEF RequestBlocked, Ended
  <2>2. UNCHANGED <<call, pc, iov, iovec_ptr, iovec_count, number_remaining,
                    number_returned, running_total, errno, moved, broken>>
    BY <2>1 DEF socketVars
  <2>3. CallInv'
    BY <2>1, RecordTypes, CallInductive
  <2> QED
    BY <2>1, <2>2, <2>3
       DEF RecordInv, TypeOK, CallInv, WriterInv, FlagExact, Abstract,
           Channel!vars
<1>2. CASE RequestResumes
  <2>1. caller = "waiting" /\ pc = "returned" /\ number_remaining > 0
    BY <1>2 DEF RequestResumes, RecordInv, WriterInv
  <2>2. /\ pc' = "transfer" /\ caller' = "request"
        /\ UNCHANGED <<call, iov, iovec_ptr, iovec_count, number_remaining,
                       number_returned, running_total, errno, moved, broken,
                       outcome, bad, torn, delivered>>
    BY <1>2 DEF RequestResumes, cursorVars
  <2>3. CallInv'
    BY <2>1, <2>2, RecordTypes, ResumeKeeps
  <2> QED
    BY <2>1, <2>2, <2>3
       DEF RecordInv, TypeOK, CallInv, WriterInv, FlagExact, Abstract,
           Channel!vars
<1>3. CASE RequestSelectFails("EINTR")
  <2>1. caller = "waiting" /\ pc = "returned" /\ number_remaining > 0
    BY <1>3 DEF RequestSelectFails, RecordInv, WriterInv
  <2>2. /\ errno' = "EINTR"
        /\ UNCHANGED <<call, pc, iov, iovec_ptr, iovec_count, number_remaining,
                       number_returned, running_total, moved, broken, caller,
                       outcome, bad, torn, delivered>>
    BY <1>3 DEF RequestSelectFails, cursorVars
  <2>3. CallInv'
    <3>1. Consecutive' /\ AtUnmoved'
      BY <2>1, <2>2 DEF RecordInv, CallInv, Consecutive, AtUnmoved, End
    <3>2. SocketTypeOK'
      BY <2>2 DEF RecordInv, CallInv, SocketTypeOK, Errors
    <3> QED
      BY <2>1, <2>2, <3>1, <3>2 DEF RecordInv, CallInv
  <2> QED
    BY <2>1, <2>2, <2>3
       DEF RecordInv, TypeOK, CallInv, WriterInv, FlagExact, Abstract,
           Channel!vars
<1> QED
  BY <1>1, <1>2, <1>3

\* The ways in which a writer releases the write mutex.
LEMMA EndingKeeps ==
  ASSUME RecordInv,
         \/ RequestDone
         \/ RequestTimesOut
         \/ RequestSelectFails("EOTHER")
         \/ RequestFindsClosure
         \/ RequestFails
         \/ SendEnds
  PROVE  RecordInv' /\ Abstract
<1>1. CASE RequestDone
  BY <1>1, ReleaseKeeps DEF RequestDone, Ended
<1>2. CASE RequestTimesOut
  <2>1. pc = "returned" /\ number_remaining > 0
    BY <1>2 DEF RequestTimesOut, RecordInv, WriterInv
  <2> QED
    BY <1>2, <2>1, ReleaseKeeps DEF RequestTimesOut
<1>3. CASE RequestSelectFails("EOTHER")
  <2>1. pc = "returned" /\ number_remaining > 0
    BY <1>3 DEF RequestSelectFails, RecordInv, WriterInv
  <2> QED
    BY <1>3, <2>1, ReleaseKeeps DEF RequestSelectFails
<1>4. CASE RequestFindsClosure
  <2>1. broken
    BY <1>4 DEF RequestFindsClosure, RecordInv, CallInv
  <2> QED
    BY <1>4, <2>1, ReleaseKeeps DEF RequestFindsClosure, Ended
<1>5. CASE RequestFails
  BY <1>5, ReleaseKeeps DEF RequestFails, Ended
<1>6. CASE SendEnds
  BY <1>6, ReleaseKeeps DEF SendEnds, Ended
<1> QED
  BY <1>1, <1>2, <1>3, <1>4, <1>5, <1>6

LEMMA RecordInductive ==
  ASSUME RecordInv, [Next]_vars
  PROVE  RecordInv' /\ Abstract
<1>1. CASE UNCHANGED vars
  <2>1. /\ UNCHANGED <<caller, outcome, bad, torn, delivered>>
        /\ UNCHANGED socketVars
    BY <1>1 DEF vars
  <2>2. CallInv'
    BY <2>1, RecordTypes, CallInductive
  <2>3. UNCHANGED <<call, pc, number_remaining, moved, broken>>
    BY <2>1 DEF socketVars
  <2> QED
    BY <2>1, <2>2, <2>3
       DEF RecordInv, TypeOK, CallInv, WriterInv, FlagExact, Abstract,
           Channel!vars
<1> QED
  BY <1>1, CallStepKeeps, BeginKeeps, WaitingKeeps, EndingKeeps DEF Next

LEMMA RecordInitial ==
  ASSUME Init
  PROVE  RecordInv /\ Channel!Init
<1>1. CallInv
  BY CallInit DEF Init
<1>2. delivered \in 0..MaxWrites
  BY WritesAssumption DEF Init
<1> QED
  BY <1>1, <1>2
     DEF Init, SocketInit, RecordInv, TypeOK, CallInv, WriterInv, FlagExact,
         Channel!Init

LEMMA RecordInvariant == Spec => []RecordInv
<1>1. Init => RecordInv
  BY RecordInitial
<1>2. RecordInv /\ [Next]_vars => RecordInv'
  BY RecordInductive
<1> QED
  BY <1>1, <1>2, PTL DEF Spec

\* The state of the loops and of the two writers keeps its type: the unsigned
\* and signed counts of bytes and of structs that are left never go below zero.
THEOREM RecordWriteTypeCorrect == Spec => []TypeOK
<1>1. RecordInv => TypeOK
  BY DEF RecordInv
<1> QED
  BY <1>1, RecordInvariant, PTL

\* The flag of a connection is exact, for records of every length cut anywhere.
THEOREM FlagAlwaysExact == Spec => []FlagExact
<1>1. RecordInv => FlagExact
  BY DEF RecordInv
<1> QED
  BY <1>1, RecordInvariant, PTL

\* The two writers of a connection on top of the loops of socket_functions
\* implement a channel of whole records.
THEOREM RecordWriteImplementsChannel == Spec => ImplementsRecordChannel
<1>1. Init => Channel!Init
  BY RecordInitial
<1>2. RecordInv /\ [Next]_vars => [Channel!Next]_(Channel!vars)
  BY RecordInductive DEF Abstract
<1> QED
  BY <1>1, <1>2, RecordInvariant, PTL
     DEF Spec, ImplementsRecordChannel, Channel!Spec
=============================================================================
