------------------------------- MODULE DemCache -------------------------------
(***************************************************************************)
(* The terrain heights of one Mapbox source: DemCache                      *)
(* (mapbox_dem_cache.cpp), an LRU of requests for DEM tiles and the        *)
(* memoised height at the anchor.  get and reference_z run on the main     *)
(* thread; answers come on workers at any time, and failing() is read      *)
(* there.                                                                  *)
(*                                                                         *)
(* A request is a shared future with its outcome; its address is used      *)
(* again once nobody holds it.  failed_at_s matters only while the request *)
(* is in the cache, so an entry carries what is left of the time for which *)
(* its failure is shared.  Time counts downwards.                          *)
(***************************************************************************)
EXTENDS Naturals, Sequences, SequencesExt

CONSTANTS
  Tile,      \* z14 tiles
  Anchor,    \* the map origin's tile
  Slot,      \* a tile's requests alive at one time
  None,
  Capacity,  \* kDemCacheTiles
  Lease      \* how long a failure is shared: kRetryWaitS / 2

ASSUME DemConstants ==
  /\ Anchor \in Tile
  /\ None \notin Tile \cup (Tile \X Slot)
  /\ Capacity \in Nat /\ Capacity >= 2
  /\ Lease \in Nat

Request == Tile \X Slot

VARIABLES
  answer,    \* the outcome of each request
  lease,     \* how long the failure of each tile's entry is still shared
  entries,   \* each tile's request, or None
  recent,    \* recent_: the tiles with an entry, most recently used first
  reference  \* reference_: the request whose DEM gives the anchor's height; None
             \* as well when it has none, since it is then asked for again

demVars == <<answer, lease, entries, recent, reference>>

\* flying; dem: a tile of heights; empty: 204, 404, a refusal, another status or
\* an image that does not decode; transient: 429, 5xx or a transport error.
Answer == {"free", "flying", "dem", "empty", "transient"}

DemTypeOK ==
  /\ answer \in [Request -> Answer]
  /\ lease \in [Tile -> 0..Lease]
  /\ entries \in [Tile -> Request \cup {None}]
  /\ recent \in Seq(Tile)
  /\ reference \in Request \cup {None}

DemInit ==
  /\ answer = [r \in Request |-> "free"]
  /\ lease = [t \in Tile |-> 0]
  /\ entries = [t \in Tile |-> None]
  /\ recent = <<>>
  /\ reference = None

\* What one call changes: the entries, their order, and the requests in flight.
Cache == [entries |-> entries, recent |-> recent, answer |-> answer]

\* failing: the tile's present request failed for now.
Failing(s, t) == s.entries[t] # None /\ s.answer[s.entries[t]] = "transient"

\* The entry is shared: it has not failed, or it failed just now.
Shared(s, t) ==
  /\ s.entries[t] # None
  /\ s.answer[s.entries[t]] = "transient" => lease[t] > 0

\* The list with t's place in it moved to, or made at, the front.
Without(q, t) ==
  IF t \in ToSet(q) THEN RemoveAt(q, CHOOSE i \in DOMAIN q : q[i] = t) ELSE q

ToFront(q, t) == <<t>> \o Without(q, t)

Full(q) == Len(q) > Capacity

\* Mutant: the failed entry is dropped from the map and not from the list.
GetKeepsPlace(s, t, r) ==
  IF Shared(s, t)
  THEN [entries |-> s.entries, recent |-> ToFront(s.recent, t), answer |-> s.answer]
  ELSE LET q == <<t>> \o s.recent IN
       [entries |-> [u \in Tile |-> IF u = t THEN r
                                    ELSE IF Full(q) /\ u = q[Len(q)] THEN None
                                    ELSE s.entries[u]],
        recent |-> IF Full(q) THEN Front(q) ELSE q,
        answer |-> [s.answer EXCEPT ![r] = "flying"]]

\* get: the shared entry, or request r in its place; the least recently used
\* entry goes when there are too many.
Get(s, t, r) ==
  LET q == ToFront(s.recent, t) IN
  IF Shared(s, t)
  THEN [entries |-> s.entries, recent |-> q, answer |-> s.answer]
  ELSE [entries |-> [u \in Tile |-> IF u = t THEN r
                                    ELSE IF Full(q) /\ u = q[Len(q)] THEN None
                                    ELSE s.entries[u]],
        recent |-> IF Full(q) THEN Front(q) ELSE q,
        answer |-> [s.answer EXCEPT ![r] = "flying"]]

\* Mutant: the memoised height is used only while its entry is in the cache.
ReferenceWhileCached(s, r) ==
  IF reference # None /\ s.entries[Anchor] = reference
  THEN [cache |-> s, request |-> reference]
  ELSE [cache |-> Get(s, Anchor, r), request |-> Get(s, Anchor, r).entries[Anchor]]

\* reference_z, after the tile's own get: the memoised request, not ready yet or
\* ready with a height; else the anchor's entry.
ReferenceZ(s, r) ==
  IF reference # None THEN [cache |-> s, request |-> reference]
  ELSE [cache |-> Get(s, Anchor, r), request |-> Get(s, Anchor, r).entries[Anchor]]

-----------------------------------------------------------------------------
\* read_dem on a worker: the answer arrives; a failure for now notes the time.
Answered(r, a) ==
  /\ answer[r] = "flying"
  /\ answer' = [answer EXCEPT ![r] = a]
  /\ lease' = [t \in Tile |-> IF a = "transient" /\ entries[t] = r THEN Lease ELSE lease[t]]
  /\ reference' = IF reference = r /\ a # "dem" THEN None ELSE reference
  /\ UNCHANGED <<entries, recent>>

\* What is memoised when request r is waited for.
Memoised(s, r) == IF s.answer[r] \in {"flying", "dem"} THEN r ELSE None

\* The list and the map agree, and neither outgrows the capacity.
CacheConsistent ==
  /\ ToSet(recent) = {t \in Tile : entries[t] # None}
  /\ IsInjective(recent)
  /\ Len(recent) <= Capacity
=============================================================================
