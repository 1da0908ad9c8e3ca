------------------------------ MODULE MCRedact ------------------------------
(***************************************************************************)
(* $redact over sources of one or two documents, with "level" values 0   *)
(* and 1 and every expression that maps a level (or its absence) to keep, *)
(* prune, descend or something else.  A document has an optional level   *)
(* and a field "a" holding a scalar, an embedded document, or an array of *)
(* a scalar and an embedded document; an embedded document has a level   *)
(* and, in some, an array of its own, so redaction reaches three levels  *)
(* deep and descends through arrays inside embedded documents.           *)
(***************************************************************************)
EXTENDS Redact

MCLevels == {0, 1}

S(x) == [t |-> "s", v |-> x]
Fld(k, v) == [k |-> k, v |-> v]
Obj(fs) == [t |-> "o", f |-> fs]
Arr(es) == [t |-> "a", e |-> es]

Leaves == {S(l) : l \in MCLevels}
Deepest == {Obj(<<Fld("level", l)>>) : l \in Leaves}
Inner == Deepest \cup {Obj(<<Fld("level", S(0)), Fld("b", Arr(<<S(1), d>>))>>) : d \in Deepest}
FieldValues == Leaves \cup Inner \cup {Arr(<<S(0), d>>) : d \in Inner}

MCInputDocs ==
  {Obj(<<Fld("level", l), Fld("a", v)>>) : l \in Leaves, v \in FieldValues}
  \cup {Obj(<<Fld("a", v)>>) : v \in FieldValues}
=============================================================================
