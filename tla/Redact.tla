------------------------------- MODULE Redact -------------------------------
(***************************************************************************)
(* The $redact aggregation stage (document_source_redact.cpp): getNext    *)
(* pulls documents from its source, one turn of its loop per step, and    *)
(* returns the first one that redactObject does not prune; redactObject  *)
(* evaluates the stage's expression on the current (sub)document and     *)
(* keeps it, prunes it, or descends into its fields, redacting embedded  *)
(* documents and arrays with redactValue.                                 *)
(*                                                                         *)
(* A value is a record: a scalar [t |-> "s", v], a document [t |-> "o", f *)
(* |-> <<[k, v], ...>>] (fields in order), an array [t |-> "a", e |->      *)
(* <<...>>], or the missing value [t |-> "m"].  The expression is a        *)
(* function of the current document's "level" field (the usual            *)
(* {$cond: {if: {$eq: ["$level", ...]}, ...}}), chosen in Init: Policy[l] *)
(* for level l, Policy[NoLevel] when the field is absent; anything but    *)
(* keep, prune and descend is uassert 17053, which ends the aggregation.  *)
(***************************************************************************)
EXTENDS Naturals, Sequences

CONSTANTS
  Levels,     \* the scalar values a "level" field can hold
  NoLevel,    \* the expression's input when the field is missing
  InputDocs   \* the documents the source can produce

Missing == [t |-> "m"]
Failed == [t |-> "err"]
Results == {"keep", "prune", "descend", "other"}
Policies == [Levels \cup {NoLevel} -> Results]

VARIABLES
  policy,  \* the stage's expression
  source,  \* the documents the source produces, in order (fixed)
  input,   \* the documents the source has left
  out,     \* what getNext returned: [src |-> input document, doc |-> result]
  pc       \* "run", "eof" (getNext returned none) or "error" (uassert)

vars == <<policy, source, input, out, pc>>

-----------------------------------------------------------------------------

\* The expression's value on document d ($$CURRENT).
LevelOf(d) ==
  LET ks == {i \in 1..Len(d.f) : d.f[i].k = "level" /\ d.f[i].v.t = "s"}
  IN IF ks = {} THEN NoLevel ELSE d.f[CHOOSE i \in ks : TRUE].v.v

Evaluate(P, d) == P[LevelOf(d)]

\* Some result in xs failed (a uassert thrown from the recursion).
Failing(xs) == \E i \in 1..Len(xs) : xs[i] = Failed

\* The results in xs, without the missing ones.
Present(xs) == SelectSeq(xs, LAMBDA x : x /= Missing)

RECURSIVE RedactValue(_, _), RedactObject(_, _), RedactValueCopiesArrays(_, _)

RedactValueCopiesArrays(P, v) ==
  CASE v.t = "o" -> RedactObject(P, v)
    [] v.t = "a" ->
         [t |-> "a", e |-> SelectSeq(v.e, LAMBDA x : x.t \in {"o", "a"})]
    [] OTHER -> v

\* redactValue: a document is redacted as an object; in an array only the
\* elements that are documents or arrays are redacted and pushed, the
\* others are not; any other value is returned as it is.
RedactValue(P, v) ==
  CASE v.t = "o" -> RedactObject(P, v)
    [] v.t = "a" ->
         LET xs == [i \in 1..Len(v.e) |->
                      IF v.e[i].t \in {"o", "a"} THEN RedactValue(P, v.e[i])
                      ELSE Missing]
         IN IF Failing(xs) THEN Failed ELSE [t |-> "a", e |-> Present(xs)]
    [] OTHER -> v

\* redactObject: keep returns the document unchanged, prune returns none
\* (Missing), descend rebuilds it from its fields whose redacted value is
\* not missing; any other result is uassert 17053.
RedactObject(P, d) ==
  LET r == Evaluate(P, d)
  IN CASE r = "keep" -> d
       [] r = "prune" -> Missing
       [] r = "descend" ->
            LET fs == [i \in 1..Len(d.f) |->
                         LET rv == RedactValue(P, d.f[i].v)
                         IN IF rv \in {Missing, Failed} THEN rv
                            ELSE [k |-> d.f[i].k, v |-> rv]]
            IN IF Failing(fs) THEN Failed ELSE [t |-> "o", f |-> Present(fs)]
       [] OTHER -> Failed

Init ==
  /\ policy \in Policies
  /\ source \in {<<d>> : d \in InputDocs} \cup {<<d, e>> : d, e \in InputDocs}
  /\ input = source
  /\ out = <<>>
  /\ pc = "run"

GetNextStopsAtPruned ==
  /\ pc = "run"
  /\ IF input = <<>> THEN pc' = "eof" /\ UNCHANGED <<input, out>>
     ELSE LET r == RedactObject(policy, Head(input))
          IN /\ input' = Tail(input)
             /\ CASE r = Missing -> pc' = "eof" /\ UNCHANGED out
                  [] r = Failed -> pc' = "error" /\ UNCHANGED out
                  [] OTHER -> out' = Append(out, [src |-> Head(input), doc |-> r])
                              /\ UNCHANGED pc
  /\ UNCHANGED <<policy, source>>

\* One turn of getNext's while loop: the source's next document is
\* redacted; a pruned one is passed over and the loop goes on, another one
\* is returned (or redactObject throws).  When the source is exhausted,
\* getNext returns none.
GetNext ==
  /\ pc = "run"
  /\ IF input = <<>> THEN pc' = "eof" /\ UNCHANGED <<input, out>>
     ELSE LET r == RedactObject(policy, Head(input))
          IN /\ input' = Tail(input)
             /\ CASE r = Missing -> UNCHANGED <<pc, out>>
                  [] r = Failed -> pc' = "error" /\ UNCHANGED out
                  [] OTHER -> out' = Append(out, [src |-> Head(input), doc |-> r])
                              /\ UNCHANGED pc
  /\ UNCHANGED <<policy, source>>

Next == GetNext

Spec == Init /\ [][Next]_vars

-----------------------------------------------------------------------------
(* Properties                                                              *)

RECURSIVE Disclosed(_, _)

\* v holds nothing the expression prunes: every document in it, in arrays
\* too, is kept whole or descended into with all its content disclosed.
Disclosed(P, v) ==
  CASE v.t = "o" ->
         \/ Evaluate(P, v) = "keep"
         \/ Evaluate(P, v) = "descend" /\ \A i \in 1..Len(v.f) : Disclosed(P, v.f[i].v)
    [] v.t = "a" -> \A i \in 1..Len(v.e) : Disclosed(P, v.e[i])
    [] OTHER -> TRUE

\* $redact never returns content its expression prunes: every document
\* getNext returns, and every document embedded in it at any depth or in
\* any array, is one the expression keeps or descends into (redactObject
\* and redactValue's recursion through documents and arrays).
NoPrunedContentReturned ==
  \A i \in 1..Len(out) : Disclosed(policy, out[i].doc)

\* getNext returns none only when its source is exhausted: when the stream
\* ends without an error, the documents returned are exactly the source's
\* documents the expression does not prune, in the source's order (the loop
\* in getNext skips a pruned document instead of ending the stream).
StreamComplete ==
  pc = "eof" =>
    [i \in 1..Len(out) |-> out[i].src]
      = SelectSeq(source, LAMBDA d : RedactObject(policy, d) /= Missing)
=============================================================================
