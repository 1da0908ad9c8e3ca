------------------------------- MODULE MCQuery -------------------------------
(***************************************************************************)
(* The query layer: $redact as in MCRedact, a count command (RunCount),   *)
(* the date arithmetic and format scanner of date_time_support.cpp        *)
(* (DateTime), and index key generation (KeyGen).  They do not share      *)
(* state; a behaviour exercises one of them while the others stay idle,   *)
(* so that the state space is the sum of theirs rather than the product.  *)
(*                                                                         *)
(* A long long is 12 bits wide here (TLC's integers are 32 bits); 1000    *)
(* milliseconds to a second and -1999 still fit, and seconds() meets the *)
(* bottom of the range as it does at 64 bits.  Counts run over cursors of *)
(* up to four documents, with skip and limit from -3..3 and the extremes  *)
(* of the range, so negative limits, skips past every match and the       *)
(* negation of LLONG_MIN all occur.  Formats are strings of up to five    *)
(* characters over '%', a modifier ('Y') and a character that is not one  *)
(* ('q').                                                                  *)
(*                                                                         *)
(* Key generation: a 2dsphere key pattern of one or two fields, each a    *)
(* geometry or a literal field holding none, one or two of: two strings,  *)
(* an empty array, arrays of one and two strings, and four geometries    *)
(* (covered by two cells, one cell, none, or malformed).  A 2d index gets *)
(* one or two location fields: a string, or an object that is a point,   *)
(* empty, or a list of one or two of two points, an empty location and a *)
(* string; its other field is missing or holds one or two values.  The   *)
(* geohash of a point is its first coordinate, so two points share one.  *)
(*                                                                         *)
(* The page-residency tracker (PageTracker) is instantiated with its own  *)
(* variables; pagesOn tells the behaviours that exercise it from the      *)
(* others, in which it stays in its initial state.  One thread; regions 1 *)
(* to 3 with two pages each, region 1 hashing to bucket 0 and regions 2  *)
(* and 3 colliding on bucket 1, so that region 3 probes on to bucket 0    *)
(* and a slice holding all three is full; two slices of two buckets, a    *)
(* chain of two and a one-entry cache.  Watched is a page of region 3,   *)
(* whose chain wraps round the slice.                                     *)
(***************************************************************************)
EXTENDS MCRedact, RunCount, DateTime, KeyGen

CONSTANTS
  Threads, Regions, Offsets, RegionHash, NumSlices, SliceSize, MaxChain,
  CacheSize, NoPage, Watched, t1

VARIABLES slices, curSlice, cache, cachePos, age, ans, pagesOn

PT == INSTANCE PageTracker

pageVars == <<slices, curSlice, cache, cachePos, age, ans, pagesOn>>

MCThreads == {t1}
MCWatched == <<3, 0>>
MCRegionHash == (1 :> 0) @@ (2 :> 1) @@ (3 :> 1)

MCCountArgs == {MinLong, MinLong + 1, MaxLong} \cup -3..3
MCFormatChars == {"%", "Y", "q"}

Str(v) == [t |-> "str", v |-> v]
Num(v) == [t |-> "num", v |-> v]
Geom(k) == [t |-> "obj", e |-> <<Num(k)>>]
MCCellsOf(x) ==
  CASE x = Geom(1) -> [ok |-> TRUE, cells |-> {1, 2}]
    [] x = Geom(2) -> [ok |-> TRUE, cells |-> {2}]
    [] x = Geom(3) -> [ok |-> FALSE, cells |-> {}]
    [] OTHER -> [ok |-> TRUE, cells |-> {}]
S2Values ==
  {Str(1), Str(2), [t |-> "arr", e |-> <<>>], [t |-> "arr", e |-> <<Str(1)>>],
   [t |-> "arr", e |-> <<Str(1), Str(2)>>]} \cup {Geom(k) : k \in 1..4}
S2Fields ==
  [kind : {"2dsphere", "literal"},
   elements : {{}} \cup {{x} : x \in S2Values} \cup {{x, y} : x, y \in S2Values}]
MCS2FieldSets == {<<f>> : f \in S2Fields} \cup {<<f, g>> : f, g \in S2Fields}

MCGeoHash(l) == l[1].v
Point(a, b) == [t |-> "arr", e |-> <<Num(a), Num(b)>>]
LocItems == {Point(1, 2), Point(1, 3), [t |-> "obj", e |-> <<>>], Str(1)}
Embeds ==
  {<<Num(1), Num(2)>>, <<>>} \cup {<<x>> : x \in LocItems} \cup {<<x, y>> : x, y \in LocItems}
MCGeoElements == {Str(1)} \cup {[t |-> "obj", e |-> em] : em \in Embeds}
MCOtherSets == {<<>>, <<{}>>, <<{Str(1)}>>, <<{Str(1), Str(2)}>>}

\* The hash keeps the canonical type apart (null and a missing field hash
\* differently) and collides strings with numbers.
MCElementHash(e) ==
  CASE e.t = "num" -> e.v [] e.t = "str" -> e.v [] e.t = "null" -> 10 [] OTHER -> 11
HashValues ==
  {Eoo, Null, Str(1), Str(2), Num(0),
   [t |-> "arr", e |-> <<>>], [t |-> "arr", e |-> <<Str(1)>>]}
\* Locations: every longitude from just below -180 to just above 180,
\* against the latitudes at the edges and around 0, and the malformed ones.
HaystackLocs ==
  {Eoo, Str(1), [t |-> "obj", e |-> <<>>], [t |-> "arr", e |-> <<Num(1)>>],
   [t |-> "arr", e |-> <<Str(1), Num(1)>>]}
  \cup {Point(x, y) : x \in -181..181, y \in {-180, -1, 0, 180}}
MCKeyCalls ==
  [fn : {"hash"}, v : HashValues, sparse : BOOLEAN, version : {0, 1}]
  \cup [fn : {"haystack"}, loc : HaystackLocs, all : {{}, {Str(1)}, {Str(1), Str(2)}},
         bucketSize : {1, 2, 7}]

\* The components at rest: no $redact stage pulling, no count running, no
\* date function called.
RedactIdle ==
  /\ policy = CHOOSE P \in Policies : TRUE
  /\ source = <<>> /\ input = <<>> /\ out = <<>> /\ pc = "eof"
CountIdle ==
  /\ countPc = "idle" /\ docs = <<>> /\ args = [ns |-> FALSE, skip |-> 0, limit |-> 0]
  /\ skip = 0 /\ limit = 0 /\ count = 0 /\ pos = 1
  /\ clientCursor = FALSE /\ result = 0 /\ disturbed = FALSE
DateIdle == call = [fn |-> "none"]
S2Idle == s2fields = <<>>
KeyCallIdle == keyCall = [fn |-> "none"]
TwoDIdle ==
  /\ geos = <<>> /\ others = <<>> /\ wantKeys = FALSE /\ wantLocs = FALSE
  /\ gi = 1 /\ oi = 1 /\ tdPc = "done" /\ locs = <<>> /\ keys = {}

QueryInit ==
  \/ Init /\ CountIdle /\ DateIdle /\ S2Idle /\ KeyCallIdle /\ TwoDIdle
  \/ RedactIdle /\ CountInit /\ DateIdle /\ S2Idle /\ KeyCallIdle /\ TwoDIdle
  \/ RedactIdle /\ CountIdle /\ DateInit /\ S2Idle /\ KeyCallIdle /\ TwoDIdle
  \/ RedactIdle /\ CountIdle /\ DateIdle /\ S2Init /\ KeyCallIdle /\ TwoDIdle
  \/ RedactIdle /\ CountIdle /\ DateIdle /\ S2Idle /\ KeyCallInit /\ TwoDIdle
  \/ RedactIdle /\ CountIdle /\ DateIdle /\ S2Idle /\ KeyCallIdle /\ TwoDInit

\* Each behaviour exercises one component; the page tracker starts in its
\* initial state in all of them and runs only where pagesOn.
QueryPagesInit ==
  /\ PT!Init
  /\ \/ QueryInit /\ pagesOn = FALSE
     \/ RedactIdle /\ CountIdle /\ DateIdle /\ S2Idle /\ KeyCallIdle /\ TwoDIdle
        /\ pagesOn = TRUE

QueryNext ==
  \/ pagesOn /\ PT!Next /\ UNCHANGED <<vars, countVars, call, keyGenVars, pagesOn>>
  \/ Next /\ UNCHANGED <<pageVars, countVars, call, keyGenVars>>
  \/ CountNext /\ UNCHANGED <<pageVars, vars, call, keyGenVars>>
  \/ TwoDNext /\ UNCHANGED <<pageVars, vars, countVars, call, s2fields, keyCall>>

QuerySpec == QueryPagesInit /\ [][QueryNext]_<<vars, countVars, call, keyGenVars, pageVars>>

PageTypeOK == PT!TypeOK
KnownOnlyIfRecent == PT!KnownOnlyIfRecent
=============================================================================
