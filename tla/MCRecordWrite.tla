--------------------------- MODULE MCRecordWrite ---------------------------
(* Records of the interface are one buffer; a request writes up to three.  *)
EXTENDS RecordWrite

Buffer(base, len) == [base |-> base, len |-> len]

MCArrays ==
  {<<Buffer(0, 2)>>, <<Buffer(0, 1), Buffer(1, 0), Buffer(1, 2)>>,
   <<Buffer(0, 2), Buffer(2, 1)>>}
=============================================================================
