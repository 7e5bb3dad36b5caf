------------------------------ MODULE MapboxTiles ------------------------------
(***************************************************************************)
(* The z14 tiles of a Mapbox source with the terrain layer: the buildings  *)
(* loader (mapbox_loader.cpp) and the terrain loader                       *)
(* (mapbox_terrain_loader.cpp) over one DemCache.  cesium asks a loader    *)
(* for a tile on the main thread; the DEM, the anchor's height and the     *)
(* buildings' own requests are answered on workers, and the tile is built  *)
(* there.  An attempt that met a failure for now sends the tile back; the  *)
(* AttemptBook (mapbox_tiling.cpp) spaces and counts the attempts.         *)
(*                                                                         *)
(* External: cesium asks again for a tile sent back and may unload a tile  *)
(* that is not loading.  A terrain tile without heights is empty, a        *)
(* building without them stands at z = 0: both are "flat" here.            *)
(***************************************************************************)
EXTENDS DemCache

CONSTANTS
  Buildings,    \* tiles of the buildings loader's tileset
  Terrain,      \* tiles of the terrain loader's tileset
  RetryWait,    \* kRetryWaitS
  MaxAttempts   \* kMaxAttempts

Client == [loader : {"buildings"}, tile : Buildings] \cup [loader : {"terrain"}, tile : Terrain]

ASSUME TilesConstants ==
  /\ Buildings \subseteq Tile /\ Terrain \subseteq Tile
  /\ RetryWait \in Nat
  /\ MaxAttempts \in Nat \ {0}

VARIABLES
  stage,     \* cesium's state of the tile
  content,   \* what the tile shows
  count,     \* Attempt::count; 0 with no entry, and once it has settled
  wait,      \* time left until Attempt::not_before_s
  dem,       \* the request of the tile's DEM the attempt waits for
  ref,       \* the request of the anchor's, and then the zero of a lifted tile
  rebase     \* the attempt's Rebase

tileVars == <<stage, content, count, wait, dem, ref, rebase>>
vars == <<demVars, tileVars>>

TypeOK ==
  /\ DemTypeOK
  /\ stage \in [Client -> {"unloaded", "loading", "retryLater", "content"}]
  /\ content \in [Client -> {"nothing", "lifted", "flat"}]
  /\ count \in [Client -> 0..MaxAttempts]
  /\ wait \in [Client -> Nat]
  /\ dem \in [Client -> Request \cup {None}]
  /\ ref \in [Client -> Request \cup {None}]
  /\ rebase \in [Client -> {"pending", "lift", "retry", "none"}]

Init ==
  /\ DemInit
  /\ stage = [c \in Client |-> "unloaded"]
  /\ content = [c \in Client |-> "nothing"]
  /\ count = [c \in Client |-> 0]
  /\ wait = [c \in Client |-> 0]
  /\ dem = [c \in Client |-> None]
  /\ ref = [c \in Client |-> None]
  /\ rebase = [c \in Client |-> "pending"]

-----------------------------------------------------------------------------
\* The requests somebody holds a future of.
Held == ({entries[t] : t \in Tile} \cup {reference}
           \cup {dem[c] : c \in Client} \cup {ref[c] : c \in Client}) \ {None}

Unheld(t) == {r \in {t} \X Slot : r \notin Held}
NewRequest(t) == CHOOSE r \in Unheld(t) : TRUE

\* A request nobody holds is gone.
Swept(a) == [r \in Request |-> IF r \in Held' THEN a[r] ELSE "free"]

\* Both futures have resolved.
Ready(s, d, f) == {s.answer[d], s.answer[f]} \cap {"free", "flying"} = {}

\* Mutant: only the tile's own DEM is looked at.
RebaseOfTileOnly(s, c, d, f) ==
  IF s.answer[d] = "dem" /\ s.answer[f] = "dem" THEN "lift"
  ELSE IF s.answer[d] # "dem" /\ Failing(s, c.tile) THEN "retry" ELSE "none"

\* rebase_of's continuation, run where the later of the two futures resolves.
RebaseOf(s, c, d, f) ==
  IF s.answer[d] = "dem" /\ s.answer[f] = "dem" THEN "lift"
  ELSE IF \/ s.answer[d] # "dem" /\ Failing(s, c.tile)
          \/ s.answer[f] # "dem" /\ Failing(s, Anchor)
  THEN "retry" ELSE "none"

\* AttemptBook::waiting
Waiting(c) == count[c] > 0 /\ wait[c] > 0

\* AttemptBook::begin
Attempt(c) == count[c] + 1

\* The wait that attempt n starts.  The last attempt settles whatever happens, so
\* nobody reads its wait.
Backoff(n) == IF n < MaxAttempts THEN RetryWait * 2^(n - 1) ELSE 0

\* loadTileContent during the wait: RetryLater again, and nothing asked.
AskDuringWait(c) ==
  /\ stage[c] \in {"unloaded", "retryLater"}
  /\ Waiting(c)
  /\ stage' = [stage EXCEPT ![c] = "retryLater"]
  /\ UNCHANGED <<demVars, content, count, wait, dem, ref, rebase>>

\* loadTileContent: an attempt begins, the buildings ask for their own parts,
\* then the tile's DEM and the anchor's height are taken from the cache.  What
\* is ready already is combined at once.
Load(c) ==
  LET tileGot == Get(Cache, c.tile, NewRequest(c.tile))
      got == ReferenceZ(tileGot, NewRequest(Anchor))
      d == tileGot.entries[c.tile]
      f == got.request
  IN
  /\ stage[c] \in {"unloaded", "retryLater"}
  /\ ~Waiting(c)
  /\ Unheld(c.tile) # {} /\ Unheld(Anchor) # {}
  /\ stage' = [stage EXCEPT ![c] = "loading"]
  /\ count' = [count EXCEPT ![c] = Attempt(c)]
  /\ wait' = [wait EXCEPT ![c] = Backoff(Attempt(c))]
  /\ entries' = got.cache.entries
  /\ recent' = got.cache.recent
  /\ reference' = Memoised(got.cache, f)
  /\ dem' = [dem EXCEPT ![c] = d]
  /\ ref' = [ref EXCEPT ![c] = f]
  /\ answer' = Swept(got.cache.answer)
  /\ lease' = [t \in Tile |-> IF entries'[t] = entries[t] THEN lease[t] ELSE 0]
  /\ rebase' = [rebase EXCEPT ![c] =
                  IF Ready(got.cache, d, f) THEN RebaseOf(got.cache, c, d, f) ELSE "pending"]
  /\ UNCHANGED content

\* The later of the two futures has resolved: its thread reads failing().
Resolve(c) ==
  /\ stage[c] = "loading"
  /\ rebase[c] = "pending"
  /\ Ready(Cache, dem[c], ref[c])
  /\ rebase' = [rebase EXCEPT ![c] = RebaseOf(Cache, c, dem[c], ref[c])]
  /\ UNCHANGED <<demVars, stage, content, count, wait, dem, ref>>

\* build_tile, build_terrain_tile: something failed for now, one of the
\* buildings' own requests or the heights, and attempts are left.
WorthRetry(c, ownFailed) ==
  /\ ownFailed \/ rebase[c] = "retry"
  /\ count[c] < MaxAttempts

\* The answers to the buildings' own requests: the last one starts the build.
OwnFailures(c) == IF c.loader = "buildings" THEN BOOLEAN ELSE {FALSE}

SendBack(c, ownFailed) ==
  /\ stage[c] = "loading" /\ rebase[c] # "pending"
  /\ WorthRetry(c, ownFailed)
  /\ stage' = [stage EXCEPT ![c] = "retryLater"]
  /\ dem' = [dem EXCEPT ![c] = None]
  /\ ref' = [ref EXCEPT ![c] = None]
  /\ rebase' = [rebase EXCEPT ![c] = "pending"]
  /\ UNCHANGED <<lease, entries, recent, reference, content, count, wait>>
  /\ answer' = Swept(answer)

\* The tile is built, and its book starts afresh.
Settle(c, ownFailed) ==
  /\ stage[c] = "loading" /\ rebase[c] # "pending"
  /\ ~WorthRetry(c, ownFailed)
  /\ stage' = [stage EXCEPT ![c] = "content"]
  /\ content' = [content EXCEPT ![c] = IF rebase[c] = "lift" THEN "lifted" ELSE "flat"]
  /\ count' = [count EXCEPT ![c] = 0]
  /\ wait' = [wait EXCEPT ![c] = 0]
  /\ dem' = [dem EXCEPT ![c] = None]
  /\ ref' = [ref EXCEPT ![c] = IF rebase[c] = "lift" THEN @ ELSE None]
  /\ rebase' = [rebase EXCEPT ![c] = "pending"]
  /\ UNCHANGED <<lease, entries, recent, reference>>
  /\ answer' = Swept(answer)

\* cesium unloads a tile that left the radius; the book remembers it.
Unload(c) ==
  /\ stage[c] \in {"retryLater", "content"}
  /\ stage' = [stage EXCEPT ![c] = "unloaded"]
  /\ content' = [content EXCEPT ![c] = "nothing"]
  /\ ref' = [ref EXCEPT ![c] = None]
  /\ UNCHANGED <<lease, entries, recent, reference, count, wait, dem, rebase>>
  /\ answer' = Swept(answer)

AnswerDem(r, a) == Answered(r, a) /\ UNCHANGED tileVars

\* Half a kRetryWaitS passes while somebody waits for it.
Tick ==
  /\ \/ \E t \in Tile : lease[t] > 0
     \/ \E c \in Client : wait[c] > 0
  /\ lease' = [t \in Tile |-> IF lease[t] > 0 THEN lease[t] - 1 ELSE 0]
  /\ wait' = [c \in Client |-> IF wait[c] > 0 THEN wait[c] - 1 ELSE 0]
  /\ UNCHANGED <<answer, entries, recent, reference, stage, content, count, dem,
                 ref, rebase>>

Next ==
  \/ \E c \in Client :
       \/ AskDuringWait(c) \/ Load(c) \/ Resolve(c) \/ Unload(c)
       \/ \E ownFailed \in OwnFailures(c) : SendBack(c, ownFailed) \/ Settle(c, ownFailed)
  \/ \E r \in Request, a \in Answer \ {"free", "flying"} : AnswerDem(r, a)
  \/ Tick

Spec == Init /\ [][Next]_vars

-----------------------------------------------------------------------------
\* All lifted tiles, of both loaders, stand on one zero: the height of the
\* memoised request, whatever was evicted, failed or asked again meanwhile.
OneZero ==
  \A c \in Client : content[c] = "lifted" =>
    ref[c] = reference /\ reference # None /\ answer[reference] = "dem"

\* A tile is given up flat before its last attempt only if it was told that
\* there are no heights, or if the failed request has left the cache (the
\* exception rebase_of's comment admits).
NoEarlyGiveUp ==
  [][\A c \in Client :
       (content[c] = "nothing" /\ content'[c] = "flat" /\ count[c] < MaxAttempts) =>
         \/ "empty" \in {answer[dem[c]], answer[ref[c]]}
         \/ answer[dem[c]] = "transient" /\ entries[c.tile] # dem[c]
         \/ answer[ref[c]] = "transient" /\ entries[Anchor] # ref[c]]_vars

\* "asked again on the tile's next attempt" (read_dem's warning): an attempt at a
\* tile whose DEM failed in the attempt before makes a request of its own.
AskedAgain ==
  [][\A c \in Client :
       (stage[c] = "retryLater" /\ stage'[c] = "loading" /\ Failing(Cache, c.tile)) =>
         answer'[dem'[c]] # "transient"]_vars
=============================================================================
