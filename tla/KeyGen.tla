------------------------------- MODULE KeyGen -------------------------------
(***************************************************************************)
(* Index key generation (expression_key_generator.cpp): the keys of a    *)
(* 2dsphere index (getS2Keys with getGeoKeys and getLiteralKeys), the     *)
(* locations and keys of a 2d index (get2DKeys), and the keys of a hashed *)
(* index (getHashKeys) and of a geoHaystack index (getHaystackKeys).      *)
(*                                                                         *)
(* BSON values are records: a number, a string, an array or an object     *)
(* (both with their elements in order, e), and the key values null and    *)
(* undefined.  What the code takes from outside the repository is an      *)
(* input: the elements obj.getFieldsDotted finds, S2's cell covering of a  *)
(* geometry (CellsOf), the 2d geohash of a location (GeoHash), and the    *)
(* 64-bit hash of an element (ElementHash).  Coordinates and bucket sizes *)
(* of the haystack index are whole numbers, for which the double          *)
(* arithmetic of hashHaystackElement is exact.                            *)
(*                                                                         *)
(* getS2Keys, getHashKeys and getHaystackKeys hold no state and are       *)
(* operators; the variables s2fields and keyCall are one call of them.   *)
(* get2DKeys's loop over the locations is a step per turn, so that its    *)
(* pushes to locs can be observed as they happen.                         *)
(***************************************************************************)
EXTENDS Integers, Sequences, SequencesExt, FiniteSets, CInt

CONSTANTS
  CellsOf(_),     \* S2SearchUtil::getKeysForObject: [ok, cells] for a geometry
  GeoHash(_),     \* GeoHashConverter::hash of a location object
  S2FieldSets,    \* the key-pattern fields tried for getS2Keys
  GeoElements,    \* the location fields tried for get2DKeys
  OtherSets,      \* the elements found for the 2d index's other fields
  ElementHash(_), \* BSONElementHasher::hash64 with the index's seed
  KeyCalls        \* the getHashKeys and getHaystackKeys calls tried

Null == [t |-> "null"]
Eoo == [t |-> "missing"]  \* an EOO element: the field is not there
Undefined == [t |-> "undefined"]
Cell(c) == [t |-> "cell", c |-> c]
Err == [ok |-> FALSE, keys |-> {}]
Ok(ks) == [ok |-> TRUE, keys |-> ks]

\* isABSONObj: an object or an array.
IsABSONObj(x) == x.t \in {"obj", "arr"}

-----------------------------------------------------------------------------
(* getS2Keys                                                               *)

\* getGeoKeys: every element must be a geometry S2 can cover with at least
\* one cell (uasserts 16754, 16755, 16756); the keys are the cells, or
\* null when there is no element.
GeoKeys(elements) ==
  IF \E x \in elements : ~IsABSONObj(x) \/ ~CellsOf(x).ok \/ CellsOf(x).cells = {}
  THEN Err
  ELSE LET out == UNION {{Cell(c) : c \in CellsOf(x).cells} : x \in elements}
       IN Ok(IF out = {} THEN {Null} ELSE out)

\* getLiteralKeysArray and getOneLiteralKey: an array stands for its
\* elements, an empty one for undefined; anything else is its own key.
LiteralKeysArray(arr) == IF arr.e = <<>> THEN {Undefined} ELSE Range(arr.e)
OneLiteralKey(elt) == IF elt.t = "arr" THEN LiteralKeysArray(elt) ELSE {elt}

\* getLiteralKeys: a missing field is indexed as null.
LiteralKeys(elements) ==
  IF elements = {} THEN {Null} ELSE UNION {OneLiteralKey(x) : x \in elements}

\* The keys one key-pattern field adds.
FieldKeys(field) ==
  IF field.kind = "2dsphere" THEN GeoKeys(field.elements)
  ELSE Ok(LiteralKeys(field.elements))

RECURSIVE S2LoopNoContinue(_, _, _)
S2LoopNoContinue(fields, i, keysToAdd) ==
  IF i > Len(fields) THEN Ok(keysToAdd)
  ELSE LET kf == FieldKeys(fields[i])
       IN CASE ~kf.ok -> Err
            [] keysToAdd = {} -> S2LoopNoContinue(fields, i + 1,
                                   {<<k, n>> : k, n \in kf.keys})
            [] OTHER -> S2LoopNoContinue(fields, i + 1,
                          {k \o <<n>> : k \in keysToAdd, n \in kf.keys})

RECURSIVE S2Loop(_, _, _)

\* The loop of getS2Keys over the key pattern from its i-th field: the
\* first field's keys start keysToAdd, each later field's keys are
\* appended to every key so far.  A uassert ends the call.
S2Loop(fields, i, keysToAdd) ==
  IF i > Len(fields) THEN Ok(keysToAdd)
  ELSE LET kf == FieldKeys(fields[i])
       IN CASE ~kf.ok -> Err
            [] keysToAdd = {} -> S2Loop(fields, i + 1, {<<k>> : k \in kf.keys})
            [] OTHER -> S2Loop(fields, i + 1,
                          {k \o <<n>> : k \in keysToAdd, n \in kf.keys})

GetS2Keys(fields) == S2Loop(fields, 1, {})

VARIABLE s2fields   \* one call of getS2Keys: the key pattern's fields

S2Init == s2fields \in S2FieldSets

-----------------------------------------------------------------------------
(* get2DKeys                                                               *)

VARIABLES
  geos,      \* bSet: the location fields found, in the multiset's order
  others,    \* the elements found for each other field of the index
  wantKeys,  \* keys != NULL
  wantLocs,  \* locs != NULL
  gi,        \* setI: the position in bSet
  oi,        \* oi: the position in the location field's embedded object
  tdPc,      \* "geo" (at setI), "loc" (in the while loop), "done", "error"
  locs,      \* the location objects pushed
  keys       \* the keys inserted

twoDVars == <<geos, others, wantKeys, wantLocs, gi, oi, tdPc, locs, keys>>

\* The key of a location: its geohash, then each other field as null when
\* it is missing, itself when there is one element, else the array of them.
Key(l) ==
  <<GeoHash(l)>> \o
    [k \in 1..Len(others) |->
       CASE others[k] = {} -> Null
         [] Cardinality(others[k]) = 1 -> CHOOSE x \in others[k] : TRUE
         [] OTHER -> [t |-> "arr", e |-> SetToSeq(others[k])]]

TwoDInit ==
  /\ geos \in UNION {[1..n -> GeoElements] : n \in 0..2}
  /\ others \in OtherSets
  /\ wantKeys \in BOOLEAN /\ wantLocs \in BOOLEAN
  /\ gi = 1 /\ oi = 1 /\ tdPc = "geo"
  /\ locs = <<>> /\ keys = {}

\* A location is found: it is pushed to locs, and a key made for it.
Found(l) ==
  /\ locs' = IF wantLocs THEN Append(locs, l) ELSE locs
  /\ keys' = IF wantKeys THEN keys \cup {Key(l)} ELSE keys

\* The next location field: one that is not an object or array, or is
\* empty, is passed over; the end of bSet returns.
NextGeo ==
  /\ tdPc = "geo"
  /\ IF gi > Len(geos) THEN tdPc' = "done" /\ UNCHANGED <<gi, oi>>
     ELSE IF ~IsABSONObj(geos[gi]) \/ geos[gi].e = <<>>
          THEN gi' = gi + 1 /\ UNCHANGED <<tdPc, oi>>
          ELSE tdPc' = "loc" /\ oi' = 1 /\ UNCHANGED gi
  /\ UNCHANGED <<geos, others, wantKeys, wantLocs, locs, keys>>

LocStepNoBreak ==
  /\ tdPc = "loc"
  /\ LET embed == geos[gi].e
     IN IF oi > Len(embed)
        THEN tdPc' = "geo" /\ gi' = gi + 1 /\ UNCHANGED <<oi, locs, keys>>
        ELSE IF embed[1].t = "num"
        THEN /\ Found(embed)
             /\ IF wantKeys THEN UNCHANGED <<tdPc, gi, oi>>
                ELSE tdPc' = "geo" /\ gi' = gi + 1 /\ UNCHANGED oi
        ELSE /\ oi' = oi + 1 /\ UNCHANGED gi
             /\ CASE ~IsABSONObj(embed[oi]) -> tdPc' = "error" /\ UNCHANGED <<locs, keys>>
                  [] embed[oi].e = <<>> -> UNCHANGED <<tdPc, locs, keys>>
                  [] OTHER -> Found(embed[oi].e) /\ UNCHANGED tdPc
  /\ UNCHANGED <<geos, others, wantKeys, wantLocs>>

\* One turn of the while loop.  When the first element of the field's
\* object is a number, the object itself is the one location, and the
\* loop breaks after it (oi is never advanced then).  Otherwise each
\* element must be a location object (uassert 16804); empty ones are
\* passed over.
LocStep ==
  /\ tdPc = "loc"
  /\ LET embed == geos[gi].e
     IN IF oi > Len(embed)
        THEN tdPc' = "geo" /\ gi' = gi + 1 /\ UNCHANGED <<oi, locs, keys>>
        ELSE IF embed[1].t = "num"
        THEN Found(embed) /\ tdPc' = "geo" /\ gi' = gi + 1 /\ UNCHANGED oi
        ELSE /\ oi' = oi + 1 /\ UNCHANGED gi
             /\ CASE ~IsABSONObj(embed[oi]) -> tdPc' = "error" /\ UNCHANGED <<locs, keys>>
                  [] embed[oi].e = <<>> -> UNCHANGED <<tdPc, locs, keys>>
                  [] OTHER -> Found(embed[oi].e) /\ UNCHANGED tdPc
  /\ UNCHANGED <<geos, others, wantKeys, wantLocs>>

TwoDNext == NextGeo \/ LocStep

-----------------------------------------------------------------------------
(* getHashKeys and getHaystackKeys                                         *)

\* makeSingleHashKey: only hash version 0 exists (massert 16767).
SingleHashKey(e, version) ==
  IF version /= 0 THEN Err ELSE Ok({<<ElementHash(e)>>})

HashKeysSparseSwapped(v, sparse, version) ==
  CASE v.t = "arr" -> Err
    [] v /= Eoo -> SingleHashKey(v, version)
    [] sparse -> SingleHashKey(Null, version)
    [] OTHER -> Ok({})

\* getHashKeys: an array is refused (uassert 16766); a present field is
\* hashed; a missing one is hashed as null unless the index is sparse.
HashKeys(v, sparse, version) ==
  CASE v.t = "arr" -> Err
    [] v /= Eoo -> SingleHashKey(v, version)
    [] ~sparse -> SingleHashKey(Null, version)
    [] OTHER -> Ok({})

\* hashHaystackElement on a number: d += 180; d /= bucketSize; and the
\* static_cast<int> truncates toward zero.
HaystackBucket(d, bucketSize) == CDiv(d + 180, bucketSize)

\* addKey: the root, then the element, or null for an EOO element.
AddKey(root, e) == <<root, IF e = Eoo THEN Null ELSE e>>

\* BSONObjIterator::next past the end gives an EOO element.
Elem(es, k) == IF k <= Len(es) THEN es[k] ELSE Eoo

\* getHaystackKeys: no location, no key; the location must be an object
\* (uassert 16775) whose first two elements are numbers (16776).  The
\* root is the pair of buckets (makeHaystackString writes them as
\* "x_y", which tells pairs apart); a key is added for each value of the
\* other field, or one for an EOO element when there is none.
HaystackKeys(loc, all, bucketSize) ==
  CASE loc = Eoo -> Ok({})
    [] ~IsABSONObj(loc) -> Err
    [] Elem(loc.e, 1).t /= "num" \/ Elem(loc.e, 2).t /= "num" -> Err
    [] OTHER ->
         LET root == <<HaystackBucket(loc.e[1].v, bucketSize),
                       HaystackBucket(loc.e[2].v, bucketSize)>>
         IN Ok(IF all = {} THEN {AddKey(root, Eoo)} ELSE {AddKey(root, x) : x \in all})

VARIABLE keyCall   \* one call of getHashKeys or getHaystackKeys

KeyCallInit == keyCall \in KeyCalls

keyGenVars == <<s2fields, keyCall, twoDVars>>

KeyGenInit == S2Init /\ KeyCallInit /\ TwoDInit

KeyGenSpec == KeyGenInit /\ [][TwoDNext /\ UNCHANGED <<s2fields, keyCall>>]_keyGenVars

-----------------------------------------------------------------------------
(* Properties                                                              *)

\* The keys a 2dsphere index is to hold for a document: one key per
\* combination of a key of each field, in the key pattern's order; none,
\* and the insert refused, when a geometry field holds no coverable
\* geometry.
S2Reference(fields) ==
  LET kf == [i \in 1..Len(fields) |-> FieldKeys(fields[i])]
  IN IF \E i \in 1..Len(fields) : ~kf[i].ok THEN Err
     ELSE Ok({s \in [1..Len(fields) -> UNION {kf[i].keys : i \in 1..Len(fields)}] :
                \A i \in 1..Len(fields) : s[i] \in kf[i].keys})

\* getS2Keys's running Cartesian product gives every combination of the
\* fields' keys exactly once and nothing else, for one field and for
\* several, with missing fields, empty arrays and multi-cell geometries.
S2KeysAreProduct ==
  s2fields /= <<>> => GetS2Keys(s2fields) = S2Reference(s2fields)

\* The locations of one location field under the grammar of get2DKeys's
\* comment: locs ::= [loc, ...] | {<k>: loc, ...} | loc, empty locations
\* ignored.  For a list, the locations before the first element that is
\* not an object; Bad says there is one.
SingleLoc(g) == g.e[1].t = "num"
FirstBad(g) ==
  LET bad == {j \in 1..Len(g.e) : ~IsABSONObj(g.e[j])}
  IN IF bad = {} THEN Len(g.e) + 1 ELSE CHOOSE j \in bad : \A b \in bad : j <= b
Usable(g) == IsABSONObj(g) /\ g.e /= <<>>
Bad(g) == Usable(g) /\ ~SingleLoc(g) /\ FirstBad(g) <= Len(g.e)
GeoLocs(g) ==
  CASE ~Usable(g) -> <<>>
    [] SingleLoc(g) -> <<g.e>>
    [] OTHER -> LET before == SubSeq(g.e, 1, FirstBad(g) - 1)
                IN [j \in 1..Len(SelectSeq(before, LAMBDA x : x.e /= <<>>)) |->
                      SelectSeq(before, LAMBDA x : x.e /= <<>>)[j].e]

\* The location fields up to and including the first bad one.
Scanned(gs) ==
  LET bad == {i \in 1..Len(gs) : Bad(gs[i])}
  IN IF bad = {} THEN gs
     ELSE SubSeq(gs, 1, CHOOSE i \in bad : \A b \in bad : i <= b)

ExpectedLocs == FlattenSeq([i \in 1..Len(Scanned(geos)) |-> GeoLocs(Scanned(geos)[i])])

\* get2DKeys pushes the locations of the grammar, each once and in order
\* (a single location, whose loop never advances oi, must break after
\* one push); it returns having pushed all of them and made a key for
\* each, or throws 16804 at the first malformed list.
TwoDFollowsGrammar ==
  /\ wantLocs => IsPrefix(locs, ExpectedLocs)
  /\ tdPc \in {"done", "error"} =>
       /\ tdPc = "error" <=> \E i \in 1..Len(geos) : Bad(geos[i])
       /\ locs = IF wantLocs THEN ExpectedLocs ELSE <<>>
       /\ keys = IF wantKeys THEN {Key(l) : l \in Range(ExpectedLocs)} ELSE {}

\* A hashed index refuses an array and otherwise gives a document exactly
\* one key, except that a sparse index gives none to a document without
\* the field; a document without the field gets the key of a document
\* whose field is null, so that a query for null finds both (the
\* sparse/non-sparse branches of getHashKeys and makeSingleHashKey's
\* version check, which a sparse index never reaches for such a document).
HashedKeyPerDocument ==
  keyCall.fn = "hash" =>
    LET v == keyCall.v
        r == HashKeys(v, keyCall.sparse, keyCall.version)
        skipped == v = Eoo /\ keyCall.sparse
    IN /\ r.ok <=> v.t /= "arr" /\ (keyCall.version = 0 \/ skipped)
       /\ r.ok => Cardinality(r.keys) = IF skipped THEN 0 ELSE 1
       /\ r.ok /\ v = Eoo /\ ~skipped => r = HashKeys(Null, FALSE, keyCall.version)

=============================================================================
