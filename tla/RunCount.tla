------------------------------- MODULE RunCount -------------------------------
(***************************************************************************)
(* runCount (count.cpp, held in src/unnamed/part_002): the count command  *)
(* over a query cursor, with the command's skip and limit.  One call:     *)
(* Call is the code up to the loop, Turn one turn of while (cursor->ok()), *)
(* End the return after the cursor is exhausted.                          *)
(*                                                                         *)
(* The cursor is abstracted to the documents it reaches, in order: docs[i] *)
(* is TRUE when the i-th counts (a simple equality match, or a document    *)
(* the matcher accepts that is not a duplicate of an earlier one).  What   *)
(* comes from outside the function is chosen at each turn: whether the    *)
(* ElapsedTracker's interval has elapsed (then the ClientCursor is made,   *)
(* and later turns yield), whether a yield finds the cursor gone (a drop  *)
(* of the collection during the yield), and whether the turn throws.  The *)
(* count of all records for an empty query (applySkipLimit, declared in   *)
(* count.h, not in the repository) is not modelled.                       *)
(***************************************************************************)
EXTENDS Integers, Sequences, FiniteSets, CInt

CONSTANTS
  MaxDocs,    \* the longest cursor
  CountArgs   \* the skip and limit values tried: small ones and the edges of a long long

Docs == UNION {[1..n -> BOOLEAN] : n \in 0..MaxDocs}

VARIABLES
  countPc,       \* "call", "loop" or "done"
  docs,          \* the cursor's documents
  args,          \* the call: does the namespace exist, cmd's skip and limit
  skip, limit, count,  \* runCount's locals
  pos,           \* the cursor's position
  clientCursor,  \* ccPointer holds a ClientCursor
  result,        \* the value returned, once countPc = "done"
  disturbed      \* history: a failed yield or an exception ended the loop

countVars == <<countPc, docs, args, skip, limit, count, pos, clientCursor,
               result, disturbed>>

-----------------------------------------------------------------------------

CountInit ==
  /\ countPc = "call"
  /\ docs \in Docs
  /\ args \in [ns : BOOLEAN, skip : CountArgs, limit : CountArgs]
  /\ skip = 0 /\ limit = 0 /\ count = 0 /\ pos = 1
  /\ clientCursor = FALSE /\ result = 0 /\ disturbed = FALSE

\* The call returns r.
Return(r) == result' = r /\ countPc' = "done"

CallKeepsSign ==
  /\ countPc = "call"
  /\ IF ~args.ns
     THEN Return(-1) /\ UNCHANGED <<skip, limit>>
     ELSE /\ skip' = args.skip
          /\ limit' = args.limit
          /\ countPc' = "loop" /\ UNCHANGED result
  /\ UNCHANGED <<docs, args, count, pos, clientCursor, disturbed>>

\* "ns missing" returns -1; else skip and limit are read and a negative
\* limit is negated, in a long long: -LLONG_MIN wraps to itself.
Call ==
  /\ countPc = "call"
  /\ IF ~args.ns
     THEN Return(-1) /\ UNCHANGED <<skip, limit>>
     ELSE /\ skip' = args.skip
          /\ limit' = IF args.limit < 0 THEN Wrap(-args.limit) ELSE args.limit
          /\ countPc' = "loop" /\ UNCHANGED result
  /\ UNCHANGED <<docs, args, count, pos, clientCursor, disturbed>>

\* One turn of the loop.  An exception is caught and -2 returned.  Once a
\* ClientCursor exists, a yield that finds the cursor gone breaks out of
\* the loop and the count so far is returned.  Otherwise the ClientCursor
\* is made if the interval has elapsed, a counting document is skipped
\* while skip > 0 and else counted, and the loop breaks when a positive
\* limit is reached.
Turn ==
  /\ countPc = "loop" /\ pos <= Len(docs)
  /\ \/ /\ Return(-2) /\ disturbed' = TRUE
        /\ UNCHANGED <<skip, count, pos, clientCursor>>
     \/ /\ clientCursor /\ Return(count) /\ disturbed' = TRUE
        /\ UNCHANGED <<skip, count, pos, clientCursor>>
     \/ /\ \E elapsed \in BOOLEAN : clientCursor' = (clientCursor \/ elapsed)
        /\ LET counted == docs[pos] /\ ~(skip > 0)
           IN /\ skip' = IF docs[pos] /\ skip > 0 THEN skip - 1 ELSE skip
              /\ count' = IF counted THEN count + 1 ELSE count
              /\ IF counted /\ limit > 0 /\ count + 1 >= limit
                 THEN Return(count + 1) /\ UNCHANGED pos
                 ELSE pos' = pos + 1 /\ UNCHANGED <<countPc, result>>
        /\ UNCHANGED disturbed
  /\ UNCHANGED <<docs, args, limit>>

\* The cursor is exhausted: the ClientCursor is released and the count
\* returned.
End ==
  /\ countPc = "loop" /\ pos > Len(docs)
  /\ Return(count)
  /\ UNCHANGED <<docs, args, skip, limit, count, pos, clientCursor, disturbed>>

CountNext == Call \/ Turn \/ End

CountSpec == CountInit /\ [][CountNext]_countVars

-----------------------------------------------------------------------------
(* Properties                                                              *)

\* What a count with skip and limit is to answer: the matching documents
\* past the first skip of them, and no more than |limit| when limit is not
\* 0 (a negative limit means the same as its absolute value).
ReferenceCount(d, sk, lim) ==
  LET left == Cardinality({i \in 1..Len(d) : d[i]}) - (IF sk > 0 THEN sk ELSE 0)
      n == IF left > 0 THEN left ELSE 0
  IN IF lim /= 0 /\ AbsVal(lim) < n THEN AbsVal(lim) ELSE n

\* A count on an existing namespace that no failed yield or exception cut
\* short returns the reference count, for every cursor and every skip and
\* limit: negative ones, ones past the number of matches, and the extremes
\* of a long long (the skip decrement, the count >= limit break, and the
\* negation of a negative limit, which wraps at LLONG_MIN).
CountMatchesReference ==
  countPc = "done" /\ args.ns /\ ~disturbed =>
    result = ReferenceCount(docs, args.skip, args.limit)

=============================================================================
