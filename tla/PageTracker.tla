----------------------------- MODULE PageTracker -----------------------------
(***************************************************************************)
(* The page-residency tracker of record.cpp (src/unnamed/part_003): a     *)
(* Rolling set of NumSlices hash maps ("slices") of region -> bitmap of   *)
(* pages, the current slice reset and replaced in turn on rotation, and a *)
(* per-thread SimpleCache ring of recently accessed pages.                *)
(*                                                                         *)
(* Record::likelyInPhysicalMemory asks the thread's cache, then           *)
(* Rolling::access over all slices; Record::accessed records a known good *)
(* access through access(doHalf = true) and adds the page to the cache.   *)
(* Rolling::access runs under the Rolling's mutex, so it is one action.   *)
(* The time check ("rarely" every 2048 calls, 90 s since the last        *)
(* rotation) is a free choice at the start of each access.                *)
(*                                                                         *)
(* The model has one Rolling (all its regions share ps::bigHash); region  *)
(* 0 marks an empty bucket, as in Slice::_get.  age and ans are history   *)
(* variables for one page, Watched; ans records the answers that     *)
(* likelyInPhysicalMemory returns (accessed() drops access's result).     *)
(***************************************************************************)
EXTENDS Naturals

CONSTANTS
  Threads,
  Regions,      \* regions (page >> 6), nonzero
  Offsets,      \* page offsets within a region (page & 0x3f)
  RegionHash,   \* RegionHash[r]: ps::hash(r), a bucket of a slice
  NumSlices, SliceSize, MaxChain, CacheSize,
  NoPage,       \* an empty SimpleCache entry
  Watched       \* the page the history variables follow

ASSUME /\ 0 \notin Regions /\ RegionHash \in [Regions -> 0..SliceSize - 1]
       /\ Watched \in Regions \X Offsets

Pages == Regions \X Offsets
SliceIds == 0..NumSlices - 1
Buckets == 0..SliceSize - 1

EmptyEntry == [region |-> 0, value |-> {}]
Entries == {EmptyEntry} \cup [region : Regions, value : SUBSET Offsets]

\* Slice::reset(): memset to zero.
EmptySlice == [b \in Buckets |-> EmptyEntry]

VARIABLES
  slices,    \* slices[i]: Slice i of the Rolling
  curSlice,  \* _curSlice
  cache,     \* cache[t]: t's SimpleCache entries
  cachePos,  \* cachePos[t]: t's _pos % SIZE
  age,       \* rotations since Watched was last passed to access (capped)
  ans        \* Watched's last lookup: its answer and its age at lookup

vars == <<slices, curSlice, cache, cachePos, age, ans>>

-----------------------------------------------------------------------------
(* Slice                                                                   *)

Bucket(r, i) == (RegionHash[r] + i) % SliceSize

\* Slice::_get's probe: the first of MaxChain buckets from r's hash that is
\* empty or holds r; MaxChain when there is none (the chain is full).
ChainIdx(sl, r) ==
  LET I == {i \in 0..MaxChain - 1 : sl[Bucket(r, i)].region \in {0, r}}
  IN IF I = {} THEN MaxChain ELSE CHOOSE i \in I : \A j \in I : i <= j

\* Slice::get: Unk when r has no entry, else whether the page's bit is set.
SliceGet(sl, r, o) ==
  LET i == ChainIdx(sl, r)
  IN IF i = MaxChain \/ sl[Bucket(r, i)].region = 0 THEN "Unk"
     ELSE IF o \in sl[Bucket(r, i)].value THEN "In" ELSE "Out"

\* Slice::in fails on a full chain.
SliceCanAdd(sl, r) == ChainIdx(sl, r) < MaxChain

SliceIn(sl, r, o) ==
  LET b == Bucket(r, ChainIdx(sl, r))
  IN [sl EXCEPT ![b] = [region |-> r, value |-> sl[b].value \cup {o}]]

-----------------------------------------------------------------------------
(* Rolling                                                                 *)

RotateNoReset(S, c) == [slices |-> S, cur |-> (c + 1) % NumSlices]

\* Rolling::_rotate: the next slice becomes current and is reset.
Rotate(S, c) ==
  LET n == (c + 1) % NumSlices
  IN [slices |-> [S EXCEPT ![n] = EmptySlice], cur |-> n]

\* Rolling::access after the optional time-based rotation, from slices S
\* and current slice c: search NumSlices (or half of them) slices from the
\* current one; In answers TRUE; Out sets the bit in that slice; Unk
\* everywhere adds the page to the current slice, rotating first if its
\* chain is full.  The result holds the new slices, the current slice,
\* the answer and the number of rotations the search made.
Search(S, c, r, o, doHalf) ==
  LET n == IF doHalf THEN NumSlices \div 2 ELSE NumSlices
      Pos(i) == (c + i) % NumSlices
      Found == {i \in 0..n - 1 : SliceGet(S[Pos(i)], r, o) /= "Unk"}
      first == CHOOSE i \in Found : \A j \in Found : i <= j
  IN IF Found /= {}
     THEN IF SliceGet(S[Pos(first)], r, o) = "In"
          THEN [slices |-> S, cur |-> c, known |-> TRUE, rots |-> 0]
          ELSE [slices |-> [S EXCEPT ![Pos(first)] = SliceIn(S[Pos(first)], r, o)],
                cur |-> c, known |-> FALSE, rots |-> 0]
     ELSE IF SliceCanAdd(S[c], r)
          THEN [slices |-> [S EXCEPT ![c] = SliceIn(S[c], r, o)],
                cur |-> c, known |-> FALSE, rots |-> 0]
          ELSE LET R == Rotate(S, c)
               IN [slices |-> [R.slices EXCEPT ![R.cur] = SliceIn(R.slices[R.cur], r, o)],
                   cur |-> R.cur, known |-> FALSE, rots |-> 1]

\* Rolling::access(region, offset, doHalf) as one step under _lock, with
\* or without the rotation "rarely" finds due.
Access(p, doHalf) ==
  \E timeRot \in BOOLEAN :
    LET R0 == IF timeRot THEN Rotate(slices, curSlice)
              ELSE [slices |-> slices, cur |-> curSlice]
        out == Search(R0.slices, R0.cur, p[1], p[2], doHalf)
        rots == IF timeRot THEN 1 + out.rots ELSE out.rots
        ageAtLookup == IF timeRot THEN (age + 1) ELSE age
        capped(a) == IF a > NumSlices THEN NumSlices ELSE a
    IN /\ slices' = out.slices
       /\ curSlice' = out.cur
       /\ age' = IF p = Watched THEN 0 ELSE capped(age + rots)
       /\ ans' = IF p = Watched /\ ~doHalf
                 THEN [asked |-> TRUE, known |-> out.known,
                       age |-> capped(ageAtLookup)]
                 ELSE ans

-----------------------------------------------------------------------------
(* Record                                                                  *)

Init ==
  /\ slices = [i \in SliceIds |-> EmptySlice]
  /\ curSlice = 0
  /\ cache = [t \in Threads |-> [k \in 0..CacheSize - 1 |-> NoPage]]
  /\ cachePos = [t \in Threads |-> 0]
  /\ age = NumSlices
  /\ ans = [asked |-> FALSE, known |-> FALSE, age |-> 0]

InCache(t, p) == \E k \in 0..CacheSize - 1 : cache[t][k] = p

\* Record::likelyInPhysicalMemory(data) in thread t, past its cache: the
\* Rolling is asked; its answer (or the OS's, when block checks are
\* supported) is only returned.
LikelyInPhysicalMemory(t, p) ==
  /\ ~InCache(t, p)
  /\ Access(p, FALSE)
  /\ UNCHANGED <<cache, cachePos>>

AccessedNoWrap(t, p) ==
  /\ ~InCache(t, p)
  /\ Access(p, TRUE)
  /\ cache' = [cache EXCEPT ![t][cachePos[t]] = p]
  /\ cachePos' = [cachePos EXCEPT ![t] = @ + 1]

\* Record::accessed() in thread t for a page not in its cache.
Accessed(t, p) ==
  /\ ~InCache(t, p)
  /\ Access(p, TRUE)
  /\ cache' = [cache EXCEPT ![t][cachePos[t]] = p]
  /\ cachePos' = [cachePos EXCEPT ![t] = (@ + 1) % CacheSize]

Next ==
  \E t \in Threads, p \in Pages :
    LikelyInPhysicalMemory(t, p) \/ Accessed(t, p)

Spec == Init /\ [][Next]_vars

-----------------------------------------------------------------------------
(* Properties                                                              *)

TypeOK ==
  /\ slices \in [SliceIds -> [Buckets -> Entries]]
  /\ curSlice \in SliceIds
  /\ cache \in [Threads -> [0..CacheSize - 1 -> Pages \cup {NoPage}]]
  /\ cachePos \in [Threads -> 0..CacheSize - 1]
  /\ age \in 0..NumSlices
  /\ ans \in [asked : BOOLEAN, known : BOOLEAN, age : 0..NumSlices]

\* Rolling::access says a page is known to be in RAM only when it was
\* passed to access within the last NumSlices rotations: every bit is
\* cleared when its slice comes round again, whichever slice the Out path
\* set it in and however many chain-full rotations intervened.
KnownOnlyIfRecent ==
  ans.asked /\ ans.known => ans.age < NumSlices

\* What the comment on Rolling::access says: "after this call, we assume
\* the page is in ram".  A lookup of a page that was passed to access
\* with no rotation since answers that the page is known to be in RAM,
\* whichever pages of the same region other calls recorded meanwhile.
AccessedIsKnown ==
  ans.asked /\ ans.age = 0 => ans.known
=============================================================================
