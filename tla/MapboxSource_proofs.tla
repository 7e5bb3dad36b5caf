-------------------------- MODULE MapboxSource_proofs --------------------------
(***************************************************************************)
(* The two halves of a Mapbox source.                                      *)
(*                                                                         *)
(* The loaders, for every set of tiles, every capacity of the cache and    *)
(* every number of attempts.  What makes the two properties inductive is a *)
(* request's life: while somebody holds it nothing replaces it, it is      *)
(* answered once, and the memoised one is in flight or has a height.       *)
(*                                                                         *)
(* The imagery, for every set of tiles, rasters, addresses and colours,    *)
(* where the invariant is TerrainImagery's own ImageryInv.                 *)
(***************************************************************************)
EXTENDS MapboxSource, TLAPS

Types ==
  /\ answer \in [Request -> Answer]
  /\ entries \in [Tile -> Request \cup {None}]
  /\ reference \in Request \cup {None}
  /\ stage \in [Client -> {"unloaded", "loading", "retryLater", "content"}]
  /\ content \in [Client -> {"nothing", "lifted", "flat"}]
  /\ dem \in [Client -> Request \cup {None}]
  /\ ref \in [Client -> Request \cup {None}]
  /\ rebase \in [Client -> {"pending", "lift", "retry", "none"}]

ReferenceIsUseful == reference # None => answer[reference] \in {"flying", "dem"}

\* An attempt waits for two requests; the anchor's is the memoised one unless it
\* gave nothing.
Waits ==
  \A c \in Client : stage[c] = "loading" =>
    /\ dem[c] # None /\ ref[c] # None
    /\ answer[ref[c]] \in {"flying", "dem"} => ref[c] = reference
    /\ rebase[c] # "pending" => Ready(Cache, dem[c], ref[c])
    /\ rebase[c] = "lift" => answer[dem[c]] = "dem" /\ answer[ref[c]] = "dem"

ShownIsContent == \A c \in Client : content[c] # "nothing" => stage[c] = "content"

\* Client c may give up its heights: it was told, or its failed request is gone.
Excused(c) ==
  \/ "empty" \in {answer[dem[c]], answer[ref[c]]}
  \/ answer[dem[c]] = "transient" /\ entries[c.tile] # dem[c]
  \/ answer[ref[c]] = "transient" /\ entries[Anchor] # ref[c]

NoneIsExcused == \A c \in Client : stage[c] = "loading" /\ rebase[c] = "none" => Excused(c)

\* No request is free while it is held.
HeldIsAlive == \A r \in Held : answer[r] # "free"

Inv ==
  /\ Types
  /\ HeldIsAlive
  /\ ReferenceIsUseful
  /\ Waits
  /\ ShownIsContent
  /\ NoneIsExcused
  /\ OneZero

-----------------------------------------------------------------------------
LEMMA Tiles == \A c \in Client : c.tile \in Tile
BY TilesConstants DEF Client

LEMMA Distinct == None \notin Request /\ Anchor \in Tile
BY DemConstants DEF Request

\* A tile's new request is one of its own that nobody holds.
LEMMA Fresh ==
  ASSUME NEW t \in Tile, Unheld(t) # {}
  PROVE  NewRequest(t) \in Request /\ NewRequest(t) \notin Held
<1>1. NewRequest(t) \in Unheld(t)
  BY DEF NewRequest
<1>. QED  BY <1>1 DEF Unheld, Request

\* get changes at most the entry it is asked for and one it evicts, and the
\* answer of the new request only.
LEMMA GetEffect ==
  ASSUME NEW s, s.entries \in [Tile -> Request \cup {None}], s.answer \in [Request -> Answer],
         NEW t \in Tile, NEW r \in Request
  PROVE  /\ Get(s, t, r).entries \in [Tile -> Request \cup {None}]
         /\ Get(s, t, r).answer \in [Request -> Answer]
         /\ Get(s, t, r).entries[t] \in {s.entries[t], r} \ {None}
         /\ \A u \in Tile \ {t} : Get(s, t, r).entries[u] \in {s.entries[u], None}
         /\ \A x \in Request \ {r} : Get(s, t, r).answer[x] = s.answer[x]
         /\ Get(s, t, r).answer[r] \in {s.answer[r], "flying"}
         /\ Get(s, t, r).entries[t] # s.entries[t] => Get(s, t, r).answer[r] = "flying"
<1>. USE Distinct
<1>1. CASE Shared(s, t)
  BY <1>1 DEF Get, Shared
<1>2. CASE ~Shared(s, t)
  BY <1>2 DEF Get, Answer
<1>. QED  BY <1>1, <1>2

LEMMA InitInv == Init => Inv
BY Distinct DEF Init, DemInit, Inv, Types, Answer, HeldIsAlive, Held, ReferenceIsUseful, Waits,
   ShownIsContent, NoneIsExcused, OneZero

\* The cache after the tile's own get, and after the reference's.
TileGot(c) == Get(Cache, c.tile, NewRequest(c.tile))
Got(c) == ReferenceZ(TileGot(c), NewRequest(Anchor))

\* What loadTileContent does to the cache: held requests keep their answers,
\* entries change only to requests nobody held, and both requests the attempt
\* waits for are alive.
LEMMA LoadEffect ==
  ASSUME Inv, NEW c \in Client, Unheld(c.tile) # {}, Unheld(Anchor) # {}
  PROVE  LET s == Got(c).cache
             d == TileGot(c).entries[c.tile]
             f == Got(c).request
         IN  /\ s.entries \in [Tile -> Request \cup {None}]
             /\ s.answer \in [Request -> Answer]
             /\ \A x \in Held : s.answer[x] = answer[x]
             /\ \A u \in Tile : s.entries[u] # entries[u] =>
                  /\ s.entries[u] \notin Held
                  /\ s.entries[u] # None => s.answer[s.entries[u]] # "free"
             /\ d \in Request /\ s.answer[d] # "free"
             /\ f \in Request /\ s.answer[f] # "free"
             /\ reference # None => f = reference
<1>. DEFINE tileGot == TileGot(c)
            got == Got(c)
            d == tileGot.entries[c.tile]
            f == got.request
            r1 == NewRequest(c.tile)
            r2 == NewRequest(Anchor)
<1>. USE Distinct, Tiles DEF Inv, Types
<1>1. r1 \in Request /\ r1 \notin Held /\ r2 \in Request /\ r2 \notin Held
  BY Fresh
<1>2. Held \subseteq Request /\ None \notin Held
  BY DEF Held
<1>3. \A u \in Tile : entries[u] \in Held \cup {None}
  BY DEF Held
<1>. HIDE DEF r1, r2
<1>4. /\ tileGot.entries \in [Tile -> Request \cup {None}]
      /\ tileGot.answer \in [Request -> Answer]
      /\ tileGot.entries[c.tile] \in {entries[c.tile], r1} \ {None}
      /\ \A u \in Tile \ {c.tile} : tileGot.entries[u] \in {entries[u], None}
      /\ \A x \in Request \ {r1} : tileGot.answer[x] = answer[x]
      /\ tileGot.answer[r1] \in {answer[r1], "flying"}
      /\ tileGot.entries[c.tile] # entries[c.tile] => tileGot.answer[r1] = "flying"
  <2>1. Cache.entries = entries /\ Cache.answer = answer
    BY DEF Cache
  <2>2. tileGot = Get(Cache, c.tile, r1)
    BY DEF r1, TileGot
  <2>. QED  BY <1>1, <2>1, <2>2, GetEffect, SMTT(30)
<1>5. CASE reference # None
  <2>1. got = [cache |-> tileGot, request |-> reference]
    BY <1>5 DEF ReferenceZ, Got
  <2>2. got.cache = tileGot /\ f = reference /\ f \in Held
    BY <2>1, <1>5 DEF Held
  <2>. QED  BY <2>2, <1>1, <1>2, <1>3, <1>4 DEF HeldIsAlive
<1>6. CASE reference = None
  <2>. DEFINE g == Get(tileGot, Anchor, r2)
  <2>1. got = [cache |-> g, request |-> g.entries[Anchor]]
    BY <1>6 DEF ReferenceZ, Got, r2
  <2>2. got.cache = g /\ f = g.entries[Anchor]
    BY <2>1
  <2>3. /\ g.entries \in [Tile -> Request \cup {None}]
        /\ g.answer \in [Request -> Answer]
        /\ g.entries[Anchor] \in {tileGot.entries[Anchor], r2} \ {None}
        /\ \A u \in Tile \ {Anchor} : g.entries[u] \in {tileGot.entries[u], None}
        /\ \A x \in Request \ {r2} : g.answer[x] = tileGot.answer[x]
        /\ g.answer[r2] \in {tileGot.answer[r2], "flying"}
        /\ g.entries[Anchor] # tileGot.entries[Anchor] => g.answer[r2] = "flying"
    BY <1>1, <1>4, GetEffect, SMTT(30)
  <2>. HIDE DEF g
  <2>4. \A x \in Held : g.answer[x] = answer[x] /\ answer[x] # "free"
    BY <2>3, <1>1, <1>2, <1>4 DEF HeldIsAlive
  <2>5. tileGot.entries[c.tile] = r1 => tileGot.answer[r1] = "flying" /\ g.answer[r1] = "flying"
    BY <2>3, <1>1, <1>3, <1>4
  <2>6. d \in Request /\ g.answer[d] # "free"
    BY <2>4, <2>5, <1>3, <1>4, <1>1
  <2>7. \A u \in Tile : tileGot.entries[u] \in Held \cup {None, r1}
                      /\ (tileGot.entries[u] = r1 => u = c.tile)
    BY <1>1, <1>3, <1>4
  <2>8. f \in Request /\ g.answer[f] # "free"
    BY <2>2, <2>3, <2>4, <2>5, <2>7, <1>1, <1>2
  <2>9. \A u \in Tile : g.entries[u] # entries[u] =>
           /\ g.entries[u] \notin Held
           /\ g.entries[u] # None => g.answer[g.entries[u]] # "free"
    <3>. SUFFICES ASSUME NEW u \in Tile, g.entries[u] # entries[u]
                  PROVE  /\ g.entries[u] \notin Held
                         /\ g.entries[u] # None => g.answer[g.entries[u]] # "free"
      OBVIOUS
    <3>1. CASE g.entries[u] = None
      BY <3>1, <1>2
    <3>2. CASE g.entries[u] = tileGot.entries[u] /\ g.entries[u] # None
      <4>1. u = c.tile /\ g.entries[u] = r1
        BY <3>2, <1>4
      <4>. QED  BY <4>1, <3>2, <2>5, <1>1
    <3>3. CASE u = Anchor /\ g.entries[u] = r2 /\ g.entries[u] # tileGot.entries[u]
      BY <3>3, <2>3, <1>1
    <3>. QED  BY <3>1, <3>2, <3>3, <2>3
  <2>. QED  BY <1>6, <2>2, <2>3, <2>4, <2>6, <2>8, <2>9
<1>. QED  BY <1>5, <1>6
LEMMA LoadInv == ASSUME Inv, NEW c \in Client, Load(c) PROVE Inv'
<1>. DEFINE tileGot == TileGot(c)
            got == Got(c)
            d == tileGot.entries[c.tile]
            f == got.request
            E == got.cache.entries
            A == got.cache.answer
<1>1. /\ E \in [Tile -> Request \cup {None}]
      /\ A \in [Request -> Answer]
      /\ \A x \in Held : A[x] = answer[x]
      /\ \A u \in Tile : E[u] # entries[u] =>
           E[u] \notin Held /\ (E[u] # None => A[E[u]] # "free")
      /\ d \in Request /\ A[d] # "free"
      /\ f \in Request /\ A[f] # "free"
      /\ reference # None => f = reference
  <2>1. Unheld(c.tile) # {} /\ Unheld(Anchor) # {}
    BY DEF Load
  <2>. QED  BY <2>1, LoadEffect
<1>2. /\ stage[c] \in {"unloaded", "retryLater"}
      /\ stage' = [stage EXCEPT ![c] = "loading"]
      /\ entries' = E
      /\ reference' = Memoised(got.cache, f)
      /\ dem' = [dem EXCEPT ![c] = d]
      /\ ref' = [ref EXCEPT ![c] = f]
      /\ answer' = Swept(A)
      /\ rebase' = [rebase EXCEPT ![c] =
           IF Ready(got.cache, d, f) THEN RebaseOf(got.cache, c, d, f) ELSE "pending"]
      /\ content' = content
  BY DEF Load, TileGot, Got
<1>3. reference' = IF A[f] \in {"flying", "dem"} THEN f ELSE None
  BY <1>2 DEF Memoised
<1>4. IF Ready(got.cache, d, f) THEN RebaseOf(got.cache, c, d, f) \in {"lift", "retry", "none"}
                               ELSE rebase'[c] = "pending"
  BY <1>2 DEF RebaseOf, Inv, Types
<1>5. /\ Ready(got.cache, d, f) <=> {A[d], A[f]} \cap {"free", "flying"} = {}
      /\ RebaseOf(got.cache, c, d, f) = "lift" => A[d] = "dem" /\ A[f] = "dem"
      /\ RebaseOf(got.cache, c, d, f) = "none" =>
           /\ A[d] # "dem" \/ A[f] # "dem"
           /\ A[d] # "dem" => (E[c.tile] = None \/ A[E[c.tile]] # "transient")
           /\ A[f] # "dem" => (E[Anchor] = None \/ A[E[Anchor]] # "transient")
  BY DEF Ready, RebaseOf, Failing
<1>. HIDE DEF tileGot, got, d, f, E, A
<1>. USE Distinct, Tiles DEF Inv, Types
<1>6. Held \subseteq Request /\ Held' \subseteq Request
  BY <1>1, <1>2, <1>3 DEF Held
<1>7. answer' = [r \in Request |-> IF r \in Held' THEN A[r] ELSE "free"]
  BY <1>2 DEF Swept
<1>8. Types'
  <2>1. answer' \in [Request -> Answer]
    BY <1>1, <1>7 DEF Answer
  <2>2. rebase' \in [Client -> {"pending", "lift", "retry", "none"}]
    BY <1>2, <1>4
  <2>. QED  BY <1>1, <1>2, <1>3, <2>1, <2>2
<1>9. \A r \in Held' : r \in Held \/ A[r] # "free"
  <2>1. \A u \in Tile : entries'[u] # None =>
          entries'[u] \in Held \/ A[entries'[u]] # "free"
    BY <1>1, <1>2 DEF Held
  <2>2. \A k \in Client : dem'[k] # None => dem'[k] \in Held \/ A[dem'[k]] # "free"
    BY <1>1, <1>2 DEF Held
  <2>3. \A k \in Client : ref'[k] # None => ref'[k] \in Held \/ A[ref'[k]] # "free"
    BY <1>1, <1>2 DEF Held
  <2>. QED  BY <2>1, <2>2, <2>3, <1>1, <1>3, SMTT(30) DEF Held
<1>10. HeldIsAlive'
  BY <1>1, <1>6, <1>7, <1>9 DEF HeldIsAlive
<1>11. \A k \in Client : /\ dem'[k] # None => answer'[dem'[k]] = A[dem'[k]]
                         /\ ref'[k] # None => answer'[ref'[k]] = A[ref'[k]]
  BY <1>6, <1>7 DEF Held
<1>12. reference' # None => answer'[reference'] = A[f] /\ reference' = f
  BY <1>3, <1>6, <1>7 DEF Held
<1>13. reference # None => reference' = reference /\ answer'[reference'] = answer[reference]
  BY <1>1, <1>3, <1>12 DEF Held, ReferenceIsUseful
<1>14. ReferenceIsUseful'
  BY <1>3, <1>12 DEF ReferenceIsUseful
<1>15. dem'[c] = d /\ ref'[c] = f /\ answer'[d] = A[d] /\ answer'[f] = A[f]
  BY <1>1, <1>2, <1>11
<1>16. \A k \in Client \ {c} :
         /\ dem'[k] = dem[k] /\ ref'[k] = ref[k] /\ rebase'[k] = rebase[k]
         /\ stage'[k] = stage[k]
         /\ dem[k] # None => answer'[dem[k]] = answer[dem[k]]
         /\ ref[k] # None => answer'[ref[k]] = answer[ref[k]]
  BY <1>1, <1>2, <1>11 DEF Held
<1>17. Waits'
  <2>. SUFFICES ASSUME NEW k \in Client, stage'[k] = "loading"
                PROVE  /\ dem'[k] # None /\ ref'[k] # None
                       /\ answer'[ref'[k]] \in {"flying", "dem"} => ref'[k] = reference'
                       /\ rebase'[k] # "pending" =>
                            {answer'[dem'[k]], answer'[ref'[k]]} \cap {"free", "flying"} = {}
                       /\ rebase'[k] = "lift" =>
                            answer'[dem'[k]] = "dem" /\ answer'[ref'[k]] = "dem"
    BY DEF Waits, Ready, Cache
  <2>1. CASE k = c
    BY <2>1, <1>1, <1>2, <1>3, <1>5, <1>15
  <2>2. CASE k # c
    BY <2>2, <1>13, <1>16 DEF Waits, Ready, Cache
  <2>. QED  BY <2>1, <2>2
<1>18. ShownIsContent'
  BY <1>2 DEF ShownIsContent
<1>19. NoneIsExcused'
  <2>. SUFFICES ASSUME NEW k \in Client, stage'[k] = "loading", rebase'[k] = "none"
                PROVE  Excused(k)'
    BY DEF NoneIsExcused
  <2>1. CASE k = c
    <3>1. /\ Ready(got.cache, d, f) /\ RebaseOf(got.cache, c, d, f) = "none"
      BY <2>1, <1>2
    <3>2. A[d] \in {"dem", "empty", "transient"} /\ A[f] \in {"dem", "empty", "transient"}
      <4>1. A[d] \in Answer /\ A[f] \in Answer
        BY <1>1
      <4>2. A[d] \notin {"free", "flying"} /\ A[f] \notin {"free", "flying"}
        BY <3>1, <1>5
      <4>. QED  BY <4>1, <4>2 DEF Answer
    <3>. QED  BY <2>1, <3>1, <3>2, <1>1, <1>2, <1>5, <1>15 DEF Excused
  <2>2. CASE k # c
    <3>1. Excused(k) /\ dem[k] \in Held /\ ref[k] \in Held
      BY <2>2, <1>16 DEF NoneIsExcused, Waits, Held
    <3>2. \A u \in Tile : entries[u] # dem[k] => entries'[u] # dem[k]
      BY <3>1, <1>1, <1>2
    <3>3. \A u \in Tile : entries[u] # ref[k] => entries'[u] # ref[k]
      BY <3>1, <1>1, <1>2
    <3>. QED  BY <2>2, <3>1, <3>2, <3>3, <1>16 DEF Excused, NoneIsExcused, Waits
  <2>. QED  BY <2>1, <2>2
<1>20. OneZero'
  BY <1>2, <1>13, <1>16 DEF OneZero, ShownIsContent
<1>. QED  BY <1>8, <1>10, <1>14, <1>17, <1>18, <1>19, <1>20
LEMMA AskDuringWaitInv == ASSUME Inv, NEW c \in Client, AskDuringWait(c) PROVE Inv'
<1>. USE DEF Inv, AskDuringWait, demVars
<1>1. Types' /\ HeldIsAlive' /\ ReferenceIsUseful' /\ OneZero'
  BY DEF Types, HeldIsAlive, Held, ReferenceIsUseful, OneZero
<1>2. Waits'
  BY DEF Types, Waits, Ready, Cache
<1>3. ShownIsContent' /\ NoneIsExcused'
  BY DEF Types, ShownIsContent, NoneIsExcused, Excused
<1>. QED  BY <1>1, <1>2, <1>3

LEMMA ResolveInv == ASSUME Inv, NEW c \in Client, Resolve(c) PROVE Inv'
<1>. USE DEF Inv, Resolve, demVars
<1>1. RebaseOf(Cache, c, dem[c], ref[c]) \in {"lift", "retry", "none"}
  BY DEF RebaseOf
<1>2. Types' /\ HeldIsAlive' /\ ReferenceIsUseful' /\ OneZero' /\ ShownIsContent'
  BY <1>1 DEF Types, HeldIsAlive, Held, ReferenceIsUseful, OneZero, ShownIsContent
<1>3. /\ rebase'[c] = "lift" => answer[dem[c]] = "dem" /\ answer[ref[c]] = "dem"
      /\ \A k \in Client \ {c} : rebase'[k] = rebase[k]
  BY DEF Types, RebaseOf, Cache
<1>4. Waits'
  BY <1>3 DEF Waits, Ready, Cache
<1>5. rebase'[c] = "none" => Excused(c)
  <2>. SUFFICES ASSUME RebaseOf(Cache, c, dem[c], ref[c]) = "none" PROVE Excused(c)
    BY DEF Types
  <2>1. /\ answer[dem[c]] # "dem" \/ answer[ref[c]] # "dem"
        /\ answer[dem[c]] # "dem" =>
             (entries[c.tile] = None \/ answer[entries[c.tile]] # "transient")
        /\ answer[ref[c]] # "dem" =>
             (entries[Anchor] = None \/ answer[entries[Anchor]] # "transient")
    BY DEF RebaseOf, Failing, Cache
  <2>2. dem[c] \in Request /\ ref[c] \in Request
    BY DEF Waits, Types
  <2>3. answer[dem[c]] \in Answer /\ answer[ref[c]] \in Answer
    BY <2>2 DEF Types
  <2>4. answer[dem[c]] \notin {"free", "flying"} /\ answer[ref[c]] \notin {"free", "flying"}
    BY DEF Ready, Cache
  <2>. QED  BY <2>1, <2>2, <2>3, <2>4, Distinct DEF Excused, Answer
<1>6. NoneIsExcused'
  BY <1>3, <1>5 DEF NoneIsExcused, Excused
<1>. QED  BY <1>2, <1>4, <1>6

\* An attempt that ends, or a tile that is unloaded, lets go of requests; the
\* others keep theirs.
LEMMA LetGo ==
  ASSUME Inv, NEW c \in Client,
         UNCHANGED <<entries, reference>>, answer' = Swept(answer),
         dem' \in [Client -> Request \cup {None}], ref' \in [Client -> Request \cup {None}],
         stage' \in [Client -> {"unloaded", "loading", "retryLater", "content"}],
         content' \in [Client -> {"nothing", "lifted", "flat"}],
         rebase' \in [Client -> {"pending", "lift", "retry", "none"}],
         \A k \in Client \ {c} :
           /\ dem'[k] = dem[k] /\ ref'[k] = ref[k] /\ rebase'[k] = rebase[k]
           /\ stage'[k] = stage[k] /\ content'[k] = content[k],
         dem'[c] \in {dem[c], None}, ref'[c] \in {ref[c], None},
         stage'[c] # "loading",
         content'[c] # "nothing" => stage'[c] = "content",
         content'[c] = "lifted" =>
           ref'[c] = reference /\ reference # None /\ answer[reference] = "dem"
  PROVE  Inv'
<1>. USE Distinct DEF Inv
<1>1. Held' \subseteq Held /\ Held \subseteq Request
  BY DEF Held, Types
<1>2. answer' = [r \in Request |-> IF r \in Held' THEN answer[r] ELSE "free"]
  BY DEF Swept
<1>3. \A r \in Held' : answer'[r] = answer[r]
  BY <1>1, <1>2
<1>4. Types'
  BY <1>2 DEF Types, Answer
<1>5. HeldIsAlive'
  BY <1>1, <1>3 DEF HeldIsAlive
<1>6. reference # None => answer'[reference] = answer[reference]
  BY <1>3 DEF Held
<1>7. \A k \in Client \ {c} :
        /\ dem[k] # None => answer'[dem[k]] = answer[dem[k]]
        /\ ref[k] # None => answer'[ref[k]] = answer[ref[k]]
  BY <1>3 DEF Held
<1>8. ReferenceIsUseful'
  BY <1>6 DEF ReferenceIsUseful
<1>9. Waits'
  BY <1>7 DEF Waits, Ready, Cache
<1>10. ShownIsContent'
  BY DEF ShownIsContent
<1>11. NoneIsExcused'
  BY <1>7 DEF NoneIsExcused, Excused, Waits
<1>12. OneZero'
  BY <1>6 DEF OneZero
<1>. QED  BY <1>4, <1>5, <1>8, <1>9, <1>10, <1>11, <1>12

LEMMA SendBackInv ==
  ASSUME Inv, NEW c \in Client, NEW b \in BOOLEAN, SendBack(c, b) PROVE Inv'
<1>1. content[c] = "nothing"
  BY DEF SendBack, Inv, ShownIsContent, Types
<1>2. content' = content /\ stage'[c] = "retryLater"
  BY DEF SendBack, Inv, Types
<1>. QED  BY <1>1, <1>2, LetGo DEF SendBack, Inv, Types

LEMMA SettleInv ==
  ASSUME Inv, NEW c \in Client, NEW b \in BOOLEAN, Settle(c, b) PROVE Inv'
<1>. USE DEF Inv, Types, Settle
<1>1. rebase[c] = "lift" => /\ ref[c] = reference /\ reference # None
                           /\ answer[reference] = "dem"
  BY DEF Waits
<1>2. /\ content'[c] = IF rebase[c] = "lift" THEN "lifted" ELSE "flat"
      /\ ref'[c] = IF rebase[c] = "lift" THEN ref[c] ELSE None
      /\ stage'[c] = "content"
  OBVIOUS
<1>3. /\ content' \in [Client -> {"nothing", "lifted", "flat"}]
      /\ ref' \in [Client -> Request \cup {None}]
  OBVIOUS
<1>. QED  BY <1>1, <1>2, <1>3, LetGo

LEMMA UnloadInv == ASSUME Inv, NEW c \in Client, Unload(c) PROVE Inv'
<1>1. content'[c] = "nothing" /\ stage'[c] = "unloaded"
  BY DEF Unload, Inv, Types
<1>. QED  BY <1>1, LetGo DEF Unload, Inv, Types

LEMMA AnswerInv ==
  ASSUME Inv, NEW r \in Request, NEW a \in Answer \ {"free", "flying"}, AnswerDem(r, a)
  PROVE  Inv'
<1>. USE Distinct DEF Inv, AnswerDem, Answered, tileVars
<1>1. /\ answer'[r] = a /\ answer[r] = "flying"
      /\ \A x \in Request \ {r} : answer'[x] = answer[x]
  BY DEF Types
<1>2. Types'
  BY DEF Types
<1>3. Held' \subseteq Held /\ Held \subseteq Request
  BY DEF Held, Types
<1>4. HeldIsAlive'
  BY <1>1, <1>3 DEF HeldIsAlive
<1>5. ReferenceIsUseful'
  <2>1. CASE reference = r
    BY <2>1, <1>1 DEF ReferenceIsUseful
  <2>2. CASE reference # r
    BY <2>2, <1>1 DEF ReferenceIsUseful, Types
  <2>. QED  BY <2>1, <2>2
<1>6. Waits'
  <2>. SUFFICES ASSUME NEW k \in Client, stage[k] = "loading"
                PROVE  /\ dem[k] # None /\ ref[k] # None
                       /\ answer'[ref[k]] \in {"flying", "dem"} => ref[k] = reference'
                       /\ rebase[k] # "pending" =>
                            {answer'[dem[k]], answer'[ref[k]]} \cap {"free", "flying"} = {}
                       /\ rebase[k] = "lift" =>
                            answer'[dem[k]] = "dem" /\ answer'[ref[k]] = "dem"
    BY DEF Waits, Ready, Cache
  <2>1. /\ dem[k] \in Request /\ ref[k] \in Request
        /\ answer[ref[k]] \in {"flying", "dem"} => ref[k] = reference
        /\ rebase[k] # "pending" =>
             {answer[dem[k]], answer[ref[k]]} \cap {"free", "flying"} = {}
        /\ rebase[k] = "lift" => answer[dem[k]] = "dem" /\ answer[ref[k]] = "dem"
    BY DEF Waits, Ready, Cache, Types
  <2>2. rebase[k] # "pending" => dem[k] # r /\ ref[k] # r
    BY <2>1, <1>1
  <2>3. answer'[ref[k]] \in {"flying", "dem"} => ref[k] = reference'
    BY <2>1, <1>1
  <2>. QED  BY <2>1, <2>2, <2>3, <1>1
<1>7. ShownIsContent'
  BY DEF ShownIsContent
<1>8. NoneIsExcused'
  <2>. SUFFICES ASSUME NEW k \in Client, stage[k] = "loading", rebase[k] = "none"
                PROVE  Excused(k)'
    BY DEF NoneIsExcused
  <2>1. dem[k] \in Request \ {r} /\ ref[k] \in Request \ {r}
    BY <1>1, ZenonT(60) DEF Waits, Ready, Cache, Types
  <2>. QED  BY <2>1, <1>1 DEF NoneIsExcused, Excused
<1>9. OneZero'
  BY <1>1 DEF OneZero, Types
<1>. QED  BY <1>2, <1>4, <1>5, <1>6, <1>7, <1>8, <1>9

LEMMA UnchangedInv ==
  ASSUME Inv, UNCHANGED <<answer, entries, reference, stage, content, dem, ref, rebase>>
  PROVE  Inv'
<1>1. Types' /\ HeldIsAlive' /\ ReferenceIsUseful' /\ OneZero' /\ ShownIsContent'
  BY DEF Inv, Types, HeldIsAlive, Held, ReferenceIsUseful, OneZero, ShownIsContent
<1>2. Waits' /\ NoneIsExcused'
  BY DEF Inv, Waits, Ready, Cache, NoneIsExcused, Excused
<1>. QED  BY <1>1, <1>2 DEF Inv

LEMMA NextInv == ASSUME Inv, [Next]_vars PROVE Inv'
<1>1. CASE UNCHANGED vars
  BY <1>1, UnchangedInv DEF vars, demVars, tileVars
<1>2. CASE Tick
  BY <1>2, UnchangedInv DEF Tick
<1>3. ASSUME NEW c \in Client, Load(c) PROVE Inv'
  BY <1>3, LoadInv
<1>4. ASSUME NEW c \in Client,
             AskDuringWait(c) \/ Resolve(c) \/ Unload(c)
      PROVE  Inv'
  BY <1>4, AskDuringWaitInv, ResolveInv, UnloadInv
<1>5. ASSUME NEW c \in Client, NEW b \in OwnFailures(c), SendBack(c, b) \/ Settle(c, b)
      PROVE  Inv'
  <2>1. b \in BOOLEAN
    BY DEF OwnFailures
  <2>. QED  BY <1>5, <2>1, SendBackInv, SettleInv
<1>6. ASSUME NEW r \in Request, NEW a \in Answer \ {"free", "flying"}, AnswerDem(r, a)
      PROVE  Inv'
  BY <1>6, AnswerInv
<1>. QED  BY <1>1, <1>2, <1>3, <1>4, <1>5, <1>6 DEF Next

-----------------------------------------------------------------------------
\* The invariant holds in every state of the Mapbox loaders.
THEOREM Invariance == Spec => []Inv
<1>1. Init => Inv
  BY InitInv
<1>2. Inv /\ [Next]_vars => Inv'
  BY NextInv
<1>. QED  BY <1>1, <1>2, PTL DEF Spec

\* Every lifted tile, of either loader, stands on the memoised height
\* (DemCache::reference_z), whatever is evicted, fails or is asked again.
THEOREM LiftedOnOneZero == Spec => []OneZero
<1>1. Inv => OneZero
  BY DEF Inv
<1>. QED  BY <1>1, Invariance, PTL

\* Before its last attempt a tile is given up only when it was told that there
\* are no heights, or when its failed request has left the cache (rebase_of).
THEOREM GivesUpWithReason == Spec => NoEarlyGiveUp
<1>1. ASSUME Inv, [Next]_vars
      PROVE  [\A c \in Client :
        (content[c] = "nothing" /\ content'[c] = "flat" /\ count[c] < MaxAttempts) =>
          Excused(c)]_vars
  <2>. SUFFICES ASSUME NEW c \in Client, content[c] = "nothing", content'[c] = "flat",
                       count[c] < MaxAttempts, Next
                PROVE  Excused(c)
    BY <1>1
  <2>. USE <1>1 DEF Inv, Types
  <2>1. ASSUME NEW k \in Client, NEW b \in OwnFailures(k), Settle(k, b) PROVE Excused(c)
    <3>1. k = c /\ rebase[c] # "lift"
      BY <2>1 DEF Settle
    <3>2. rebase[c] = "none" /\ stage[c] = "loading"
      BY <2>1, <3>1 DEF Settle, WorthRetry
    <3>. QED  BY <3>2 DEF NoneIsExcused
  <2>2. ASSUME NEW k \in Client, NEW b \in OwnFailures(k), SendBack(k, b) PROVE FALSE
    BY <2>2 DEF SendBack
  <2>3. ASSUME NEW k \in Client,
               AskDuringWait(k) \/ Load(k) \/ Resolve(k) \/ Unload(k)
        PROVE  FALSE
    BY <2>3 DEF AskDuringWait, Load, Resolve, Unload
  <2>4. ASSUME NEW r \in Request, NEW a \in Answer, AnswerDem(r, a) PROVE FALSE
    BY <2>4 DEF AnswerDem, tileVars
  <2>5. CASE Tick
    BY <2>5 DEF Tick
  <2>. QED  BY <2>1, <2>2, <2>3, <2>4, <2>5 DEF Next
<1>. QED  BY <1>1, Invariance, PTL DEF Spec, NoEarlyGiveUp, Excused

-----------------------------------------------------------------------------
\* The LRU.  A cache's list names the tiles that have an entry, each once, and
\* there are no more than the capacity.
Lists(q, S) ==
  /\ q \in Seq(Tile)
  /\ ToSet(q) = S
  /\ IsInjective(q)

Agrees(s) ==
  /\ s.entries \in [Tile -> Request \cup {None}]
  /\ Lists(s.recent, {t \in Tile : s.entries[t] # None})
  /\ Len(s.recent) <= Capacity

LEMMA InSeq ==
  ASSUME NEW T, NEW q \in Seq(T)
  PROVE  /\ Len(q) \in Nat /\ DOMAIN q = 1..Len(q)
         /\ \A i \in 1..Len(q) : q[i] \in T
         /\ \A x : x \in ToSet(q) <=> \E i \in 1..Len(q) : q[i] = x
BY DEF ToSet

\* A tile's place is taken out, and the others keep their order.
LEMMA WithoutIs ==
  ASSUME NEW q \in Seq(Tile), IsInjective(q), NEW t \in Tile
  PROVE  /\ Lists(Without(q, t), ToSet(q) \ {t})
         /\ Len(Without(q, t)) = IF t \in ToSet(q) THEN Len(q) - 1 ELSE Len(q)
<1>1. CASE t \notin ToSet(q)
  BY <1>1 DEF Without, Lists
<1>2. CASE t \in ToSet(q)
  <2>. DEFINE i == CHOOSE j \in DOMAIN q : q[j] = t
              p == RemoveAt(q, i)
  <2>1. i \in 1..Len(q) /\ q[i] = t
    BY <1>2 DEF ToSet
  <2>2. Without(q, t) = p
    BY <1>2 DEF Without
  <2>. HIDE DEF i
  <2>3. /\ p \in Seq(Tile) /\ Len(p) = Len(q) - 1
        /\ \A j \in 1..Len(q) - 1 : p[j] = IF j < i THEN q[j] ELSE q[j + 1]
    <3>. DEFINE h == SubSeq(q, 1, i - 1)
                l == SubSeq(q, i + 1, Len(q))
    <3>1. /\ h \in Seq(Tile) /\ Len(h) = i - 1
          /\ \A j \in 1..i - 1 : h[j] = q[j]
      BY <2>1
    <3>2. /\ l \in Seq(Tile) /\ Len(l) = Len(q) - i
          /\ \A j \in 1..Len(q) - i : l[j] = q[i + j]
      BY <2>1
    <3>3. p = h \o l
      BY DEF RemoveAt
    <3>. HIDE DEF h, l, p
    <3>4. /\ p \in Seq(Tile) /\ Len(p) = Len(q) - 1
          /\ \A j \in 1..Len(p) : p[j] = IF j <= Len(h) THEN h[j] ELSE l[j - Len(h)]
      BY <2>1, <3>1, <3>2, <3>3, SMTT(30)
    <3>5. ASSUME NEW j \in 1..Len(q) - 1 PROVE p[j] = IF j < i THEN q[j] ELSE q[j + 1]
      <4>1. CASE j < i
        BY <4>1, <2>1, <3>1, <3>4
      <4>2. CASE ~(j < i)
        <5>1. j - (i - 1) \in 1..Len(q) - i /\ i + (j - (i - 1)) = j + 1 /\ ~(j <= i - 1)
          BY <4>2, <2>1
        <5>. QED  BY <4>2, <5>1, <3>1, <3>2, <3>4
      <4>. QED  BY <4>1, <4>2
    <3>. QED  BY <3>4, <3>5
  <2>. HIDE DEF p
  <2>4. \A a, b \in 1..Len(q) : q[a] = q[b] => a = b
    BY DEF IsInjective
  <2>5. IsInjective(p)
    BY <2>1, <2>3, <2>4, SMTT(30) DEF IsInjective
  <2>6. \A j \in 1..Len(p) : p[j] \in ToSet(q) \ {t}
    BY <2>1, <2>3, <2>4, InSeq, SMTT(30)
  <2>7. ASSUME NEW k \in 1..Len(q), q[k] # t PROVE \E j \in 1..Len(p) : p[j] = q[k]
    <3>1. CASE k < i
      BY <3>1, <2>1, <2>3
    <3>2. CASE k > i
      <4>1. k - 1 \in 1..Len(q) - 1 /\ ~(k - 1 < i) /\ (k - 1) + 1 = k
        BY <3>2, <2>1
      <4>. QED  BY <4>1, <2>3
    <3>. QED  BY <3>1, <3>2, <2>1, <2>7
  <2>8. ToSet(p) = ToSet(q) \ {t}
    <3>1. \A x : x \in ToSet(p) => x \in ToSet(q) \ {t}
      BY <2>3, <2>6, InSeq
    <3>2. \A x : x \in ToSet(q) \ {t} => x \in ToSet(p)
      BY <2>3, <2>7, InSeq
    <3>. QED  BY <3>1, <3>2
  <2>. QED  BY <1>2, <2>2, <2>3, <2>5, <2>8 DEF Lists
<1>. QED  BY <1>1, <1>2

LEMMA ToFrontIs ==
  ASSUME NEW q \in Seq(Tile), IsInjective(q), NEW t \in Tile
  PROVE  /\ Lists(ToFront(q, t), ToSet(q) \cup {t})
         /\ ToFront(q, t)[1] = t
         /\ Len(ToFront(q, t)) = IF t \in ToSet(q) THEN Len(q) ELSE Len(q) + 1
<1>. DEFINE w == Without(q, t)
            p == <<t>> \o w
<1>1. /\ w \in Seq(Tile) /\ ToSet(w) = ToSet(q) \ {t} /\ IsInjective(w)
      /\ Len(w) = IF t \in ToSet(q) THEN Len(q) - 1 ELSE Len(q)
  BY WithoutIs DEF Lists
<1>2. ToFront(q, t) = p
  BY DEF ToFront
<1>. HIDE DEF w
<1>3. /\ p \in Seq(Tile) /\ Len(p) = Len(w) + 1 /\ p[1] = t
      /\ \A j \in 1..Len(w) : p[j + 1] = w[j]
      /\ \A j \in 2..Len(p) : j - 1 \in 1..Len(w) /\ p[j] = w[j - 1]
  BY <1>1
<1>. HIDE DEF p
<1>4. \A j \in 1..Len(w) : w[j] # t
  BY <1>1, InSeq
<1>5. IsInjective(p)
  <2>. SUFFICES ASSUME NEW a \in 1..Len(p), NEW b \in 1..Len(p), p[a] = p[b] PROVE a = b
    BY <1>3 DEF IsInjective
  <2>1. CASE a = 1 \/ b = 1
    <3>1. ASSUME NEW j \in 1..Len(p), j # 1 PROVE p[j] # t
      <4>1. j \in 2..Len(p)
        BY <3>1, <1>3
      <4>2. j - 1 \in 1..Len(w) /\ p[j] = w[j - 1]
        BY <4>1, <1>3
      <4>. QED  BY <4>2, <1>4
    <3>. QED  BY <2>1, <3>1, <1>3
  <2>2. CASE a # 1 /\ b # 1
    <3>1. a - 1 \in 1..Len(w) /\ b - 1 \in 1..Len(w) /\ w[a - 1] = w[b - 1]
      BY <2>2, <1>1, <1>3
    <3>. QED  BY <3>1, <1>1 DEF IsInjective
  <2>. QED  BY <2>1, <2>2
<1>6. ToSet(p) = ToSet(w) \cup {t}
  <2>1. \A j \in 1..Len(p) : p[j] = t \/ p[j] \in ToSet(w)
    <3>. SUFFICES ASSUME NEW j \in 1..Len(p), j # 1 PROVE p[j] \in ToSet(w)
      BY <1>3
    <3>1. j - 1 \in 1..Len(w) /\ p[j] = w[j - 1]
      BY <1>1, <1>3
    <3>. QED  BY <3>1, <1>1, InSeq
  <2>2. \A j \in 1..Len(w) : j + 1 \in 1..Len(p)
    BY <1>1, <1>3
  <2>3. 1 \in 1..Len(p)
    BY <1>1, <1>3
  <2>4. \A x : x \in ToSet(p) => x \in ToSet(w) \cup {t}
    BY <1>3, <2>1, InSeq
  <2>5. \A x : x \in ToSet(w) \cup {t} => x \in ToSet(p)
    <3>1. ASSUME NEW x \in ToSet(w) PROVE x \in ToSet(p)
      <4>1. PICK j \in 1..Len(w) : w[j] = x
        BY <1>1, InSeq
      <4>2. j + 1 \in 1..Len(p) /\ p[j + 1] = x
        BY <4>1, <1>3, <2>2
      <4>. QED  BY <4>2, <1>3, InSeq
    <3>2. t \in ToSet(p)
      BY <1>3, <2>3, InSeq
    <3>. QED  BY <3>1, <3>2
  <2>. QED  BY <2>4, <2>5
<1>. QED  BY <1>1, <1>2, <1>3, <1>5, <1>6 DEF Lists

\* get keeps the two in step: whether it shares the entry, asks again in its
\* place, or asks for the first time and evicts the last.
LEMMA GetAgrees ==
  ASSUME NEW s, Agrees(s), NEW t \in Tile, NEW r \in Request
  PROVE  Agrees(Get(s, t, r))
<1>. DEFINE E == s.entries
            q == ToFront(s.recent, t)
            has == {u \in Tile : E[u] # None}
<1>1. /\ E \in [Tile -> Request \cup {None}] /\ s.recent \in Seq(Tile)
      /\ ToSet(s.recent) = has /\ IsInjective(s.recent) /\ Len(s.recent) <= Capacity
  BY DEF Agrees, Lists
<1>2. /\ q \in Seq(Tile) /\ ToSet(q) = has \cup {t} /\ IsInjective(q) /\ q[1] = t
      /\ Len(q) = IF t \in has THEN Len(s.recent) ELSE Len(s.recent) + 1
  BY <1>1, ToFrontIs DEF Lists
<1>3. CASE Shared(s, t)
  <2>1. Get(s, t, r).entries = E /\ Get(s, t, r).recent = q /\ t \in has
    BY <1>3 DEF Get, Shared
  <2>2. has \cup {t} = has
    BY <2>1
  <2>. QED  BY <1>1, <1>2, <2>1, <2>2 DEF Agrees, Lists
<1>4. CASE ~Shared(s, t)
  <2>. DEFINE N == [u \in Tile |-> IF u = t THEN r
                                    ELSE IF Full(q) /\ u = q[Len(q)] THEN None ELSE E[u]]
              p == IF Full(q) THEN Front(q) ELSE q
  <2>1. Get(s, t, r).entries = N /\ Get(s, t, r).recent = p
    BY <1>4 DEF Get
  <2>. HIDE DEF q
  <2>2. N \in [Tile -> Request \cup {None}]
    BY <1>1
  <2>3. Len(q) \in Nat /\ Len(q) >= 1 /\ Len(q) <= Capacity + 1 /\ Capacity \in Nat /\ Capacity >= 2
    BY <1>1, <1>2, DemConstants DEF ToSet
  <2>4. CASE ~Full(q)
    <3>1. Len(q) <= Capacity /\ p = q
      BY <2>3, <2>4 DEF Full
    <3>2. {u \in Tile : N[u] # None} = has \cup {t}
      BY <2>4, Distinct
    <3>. HIDE DEF N, p, has
    <3>. QED  BY <1>2, <2>1, <2>2, <3>1, <3>2 DEF Agrees, Lists
  <2>5. CASE Full(q)
    <3>. DEFINE l == Len(q)
                f == Front(q)
    <3>1. l = Capacity + 1 /\ l >= 3
      BY <2>3, <2>5 DEF Full
    <3>2. f \in Seq(Tile) /\ Len(f) = l - 1 /\ \A j \in 1..l - 1 : f[j] = q[j]
      BY <1>2, <3>1 DEF Front
    <3>. HIDE DEF f
    <3>3. \A a, b \in 1..l : q[a] = q[b] => a = b
      BY <1>2 DEF IsInjective
    <3>4. q[l] # t /\ l \in 1..l
      BY <1>2, <3>1, <3>3
    <3>5. IsInjective(f)
      BY <3>1, <3>2, <3>3 DEF IsInjective
    <3>6. ToSet(f) = ToSet(q) \ {q[l]}
      <4>1. \A j \in 1..l - 1 : f[j] \in ToSet(q) \ {q[l]}
        BY <1>2, <3>1, <3>2, <3>3, <3>4, InSeq
      <4>2. \A j \in 1..l : q[j] # q[l] => j \in 1..l - 1
        BY <3>1
      <4>3. \A x : x \in ToSet(f) => x \in ToSet(q) \ {q[l]}
        BY <3>2, <4>1, InSeq
      <4>4. \A x : x \in ToSet(q) \ {q[l]} => x \in ToSet(f)
        <5>. SUFFICES ASSUME NEW x \in ToSet(q), x # q[l] PROVE x \in ToSet(f)
          OBVIOUS
        <5>1. PICK j \in 1..l : q[j] = x
          BY <1>2, InSeq
        <5>2. j \in 1..Len(f) /\ f[j] = x
          BY <5>1, <3>2, <4>2
        <5>. QED  BY <5>2, <3>2, InSeq
      <4>. QED  BY <4>3, <4>4
    <3>7. {u \in Tile : N[u] # None} = (has \cup {t}) \ {q[l]}
      BY <2>5, <3>4, Distinct
    <3>8. p = f /\ Len(f) <= Capacity
      BY <2>3, <2>5, <3>1, <3>2 DEF f
    <3>. HIDE DEF N, p, has, l
    <3>. QED  BY <1>2, <2>1, <2>2, <3>2, <3>5, <3>6, <3>7, <3>8 DEF Agrees, Lists
  <2>. QED  BY <2>4, <2>5
<1>. QED  BY <1>3, <1>4

\* The cache's list and its map agree in every state, whatever is asked for,
\* shared, asked again and evicted, and however the answers come.
THEOREM CacheStaysConsistent == Spec => []CacheConsistent
<1>1. Init => Agrees(Cache)
  BY DemConstants DEF Init, DemInit, Agrees, Lists, Cache, ToSet, IsInjective
<1>2. ASSUME Inv, Agrees(Cache), NEW c \in Client, Load(c) PROVE Agrees(Cache)'
  <2>1. NewRequest(c.tile) \in Request /\ NewRequest(Anchor) \in Request
    BY <1>2, Fresh, Tiles, Distinct DEF Load
  <2>2. Agrees(TileGot(c))
    BY <1>2, <2>1, GetAgrees, Tiles DEF TileGot
  <2>3. Agrees(Got(c).cache)
    <3>1. CASE reference # None
      BY <3>1, <2>2 DEF Got, ReferenceZ
    <3>2. CASE reference = None
      <4>1. Got(c).cache = Get(TileGot(c), Anchor, NewRequest(Anchor))
        BY <3>2 DEF Got, ReferenceZ
      <4>. QED  BY <4>1, <2>1, <2>2, GetAgrees, Distinct
    <3>. QED  BY <3>1, <3>2
  <2>4. entries' = Got(c).cache.entries /\ recent' = Got(c).cache.recent
    BY <1>2 DEF Load, Got, TileGot
  <2>. QED  BY <2>3, <2>4 DEF Agrees, Cache
<1>3. ASSUME Agrees(Cache), UNCHANGED <<entries, recent>> PROVE Agrees(Cache)'
  BY <1>3 DEF Agrees, Cache
<1>4. Inv /\ Agrees(Cache) /\ [Next]_vars => Agrees(Cache)'
  <2>. SUFFICES ASSUME Inv, Agrees(Cache), [Next]_vars,
                       \A c \in Client : ~Load(c)
                PROVE  UNCHANGED <<entries, recent>>
    BY <1>2, <1>3
  <2>. QED  BY DEF Next, AskDuringWait, Resolve, Unload, SendBack, Settle, AnswerDem, Answered,
                  Tick, vars, demVars
<1>5. Agrees(Cache) => CacheConsistent
  BY DEF Agrees, Lists, Cache, CacheConsistent
<1>. QED  BY <1>1, <1>4, <1>5, Invariance, PTL DEF Spec

-----------------------------------------------------------------------------

LEMMA InitImagery == ImageryInit => ImageryInv
  BY DistinctValues DEF ImageryInit, ImageryInv, ImageryTypeOK, NothingDestroyedIsSampled,
      ImageryIsAttached,
     TerrainFollowsTheme, NothingLeaks, Linked, TilesOwnInstances, OneTilePerAsset,
     MappedIsLoaded, TexturesAreLive, OneRasterPerTexture, LooseIsUnbound, MapHoldsImagery,
         ColourPushed, NoneBeforePush,
     PushedIsTheme, Phase

(* What the callbacks leave is an instance, which is never nullptr. *)
LEMMA InstancesAreInstances ==
  /\ NewInstance # Null \/ theme \notin Colour
  /\ \A i \in Instance : i # Null /\ Unbound(i) # Null /\ \A x \in Texture : Bound(i, x) # Null
  /\ \A i : Unbound(i).colour = i.colour /\ \A x : Bound(i, x).colour = i.colour
<1>1. theme \in Colour => NewInstance \in Instance
  BY DEF NewInstance, Instance
<1>2. \A i \in Instance : Unbound(i) \in Instance /\ \A x \in Texture : Bound(i, x) \in Instance
  BY DEF Unbound, Bound, Instance
<1>3. \A i : Unbound(i).colour = i.colour /\ \A x : Bound(i, x).colour = i.colour
  BY DEF Unbound, Bound
<1>4. QED BY <1>1, <1>2, <1>3, DistinctValues DEF Instance

(* Every action keeps the types. *)
LEMMA StepTyped ==
  ASSUME ImageryTypeOK, Linked, ImageryNext
  PROVE  ImageryTypeOK'
<1> USE DistinctValues DEF ImageryTypeOK, Phase, Instance, Linked, TilesOwnInstances, MappedIsLoaded
<1>1. ASSUME NEW c \in Colour, SetTheme(c)
     PROVE  ImageryTypeOK'
  BY <1>1 DEF SetTheme
<1>2. CASE UpdateBegin
  BY <1>2 DEF UpdateBegin, Drain, Recoloured, Coloured
<1>3. CASE UpdateEnd
  BY <1>3 DEF UpdateEnd
<1>4. ASSUME NEW t \in TerrainTile, NEW a \in Asset, PrepareInMainThread(t, a)
     PROVE  ImageryTypeOK'
  BY <1>4 DEF PrepareInMainThread, NewInstance
<1>5. ASSUME NEW r \in Raster, NEW x \in Texture \cup {Null}, PrepareRaster(r, x)
     PROVE  ImageryTypeOK'
  BY <1>5 DEF PrepareRaster
<1>6. ASSUME NEW t \in TerrainTile, NEW r \in Raster, Attach(t, r)
     PROVE  ImageryTypeOK'
  BY <1>6 DEF Attach, Bound
<1>7. ASSUME NEW t \in TerrainTile, Detach(t)
     PROVE  ImageryTypeOK'
  BY <1>7 DEF Detach, DetachedFrom, Unbound
<1>8. ASSUME NEW t \in TerrainTile, UnloadTile(t)
     PROVE  ImageryTypeOK'
  BY <1>8 DEF UnloadTile, DetachedFrom, Unbound
<1>9. ASSUME NEW r \in Raster, FreeRaster(r)
     PROVE  ImageryTypeOK'
  BY <1>9 DEF FreeRaster
<1>10. CASE Teardown
  BY <1>10 DEF Teardown, TeardownStep, Drain
<1>11. CASE Closed
  BY <1>11 DEF Closed, imageryVars
<1>12. QED BY <1>1, <1>2, <1>3, <1>4, <1>5, <1>6, <1>7, <1>8, <1>9, <1>10, <1>11 DEF ImageryNext

(* Tiles, assets, rasters and textures stay linked, and nothing leaks. *)
LEMMA StepLinked ==
  ASSUME ImageryTypeOK, Linked, NothingLeaks, ImageryIsAttached, ImageryNext
  PROVE  (Linked /\ NothingLeaks)'
<1> USE DistinctValues DEF ImageryTypeOK, Linked, ImageryIsAttached
<1>1. ASSUME NEW c \in Colour, SetTheme(c)
     PROVE  (Linked /\ NothingLeaks)'
  BY <1>1 DEF SetTheme, TilesOwnInstances, OneTilePerAsset, MappedIsLoaded, TexturesAreLive,
     OneRasterPerTexture, LooseIsUnbound, NothingLeaks
<1>2. CASE UpdateBegin
  <2>1. TilesOwnInstances'
    BY <1>2 DEF UpdateBegin, Drain, Recoloured, Coloured, TilesOwnInstances, OneTilePerAsset,
        Instance
  <2>2. OneTilePerAsset'
    BY <1>2 DEF UpdateBegin, Drain, Recoloured, Coloured, OneTilePerAsset, TilesOwnInstances
  <2>3. MappedIsLoaded'
    BY <1>2 DEF UpdateBegin, Drain, Recoloured, Coloured, MappedIsLoaded
  <2>4. TexturesAreLive'
    BY <1>2 DEF UpdateBegin, Drain, Recoloured, Coloured, TexturesAreLive
  <2>5. OneRasterPerTexture'
    BY <1>2 DEF UpdateBegin, Drain, Recoloured, Coloured, OneRasterPerTexture
  <2>6. LooseIsUnbound'
    BY <1>2 DEF UpdateBegin, Drain, Recoloured, Coloured, LooseIsUnbound, TilesOwnInstances,
        OneTilePerAsset
  <2>7. NothingLeaks'
    BY <1>2 DEF UpdateBegin, Drain, Recoloured, Coloured, NothingLeaks, TilesOwnInstances
  <2>8. QED BY <2>1, <2>2, <2>3, <2>4, <2>5, <2>6, <2>7
<1>3. CASE UpdateEnd
  BY <1>3 DEF UpdateEnd, TilesOwnInstances, OneTilePerAsset, MappedIsLoaded, TexturesAreLive,
     OneRasterPerTexture, LooseIsUnbound, NothingLeaks
<1>4. ASSUME NEW t \in TerrainTile, NEW a \in Asset, PrepareInMainThread(t, a)
     PROVE  (Linked /\ NothingLeaks)'
  <2>1. TilesOwnInstances'
    BY <1>4, InstancesAreInstances DEF PrepareInMainThread, TilesOwnInstances, OneTilePerAsset
  <2>2. OneTilePerAsset'
    BY <1>4 DEF PrepareInMainThread, NewInstance, OneTilePerAsset, TilesOwnInstances
  <2>3. MappedIsLoaded'
    BY <1>4 DEF PrepareInMainThread, NewInstance, MappedIsLoaded
  <2>4. TexturesAreLive'
    BY <1>4 DEF PrepareInMainThread, NewInstance, TexturesAreLive
  <2>5. OneRasterPerTexture'
    BY <1>4 DEF PrepareInMainThread, NewInstance, OneRasterPerTexture
  <2>6. LooseIsUnbound'
    BY <1>4 DEF PrepareInMainThread, NewInstance, LooseIsUnbound, TilesOwnInstances, OneTilePerAsset
  <2>7. NothingLeaks'
    BY <1>4 DEF PrepareInMainThread, NewInstance, NothingLeaks, TilesOwnInstances
  <2>8. QED BY <2>1, <2>2, <2>3, <2>4, <2>5, <2>6, <2>7
<1>5. ASSUME NEW r \in Raster, NEW x \in Texture \cup {Null}, PrepareRaster(r, x)
     PROVE  (Linked /\ NothingLeaks)'
  BY <1>5 DEF PrepareRaster, TilesOwnInstances, OneTilePerAsset, MappedIsLoaded, TexturesAreLive,
     OneRasterPerTexture, LooseIsUnbound, NothingLeaks
<1>6. ASSUME NEW t \in TerrainTile, NEW r \in Raster, Attach(t, r)
     PROVE  (Linked /\ NothingLeaks)'
  <2>1. TilesOwnInstances'
    BY <1>6, InstancesAreInstances DEF Attach, TilesOwnInstances, OneTilePerAsset
  <2>2. OneTilePerAsset'
    BY <1>6 DEF Attach, Bound, OneTilePerAsset, TilesOwnInstances
  <2>3. MappedIsLoaded'
    BY <1>6 DEF Attach, Bound, MappedIsLoaded
  <2>4. TexturesAreLive'
    BY <1>6 DEF Attach, Bound, TexturesAreLive
  <2>5. OneRasterPerTexture'
    BY <1>6 DEF Attach, Bound, OneRasterPerTexture
  <2>6. LooseIsUnbound'
    BY <1>6 DEF Attach, Bound, LooseIsUnbound, TilesOwnInstances, OneTilePerAsset
  <2>7. NothingLeaks'
    BY <1>6 DEF Attach, Bound, NothingLeaks, TilesOwnInstances
  <2>8. QED BY <2>1, <2>2, <2>3, <2>4, <2>5, <2>6, <2>7
<1>7. ASSUME NEW t \in TerrainTile, Detach(t)
     PROVE  (Linked /\ NothingLeaks)'
  <2>1. TilesOwnInstances'
    BY <1>7, InstancesAreInstances DEF Detach, DetachedFrom, TilesOwnInstances, OneTilePerAsset
  <2>2. OneTilePerAsset'
    BY <1>7 DEF Detach, DetachedFrom, Unbound, OneTilePerAsset, TilesOwnInstances
  <2>3. MappedIsLoaded'
    BY <1>7 DEF Detach, DetachedFrom, Unbound, MappedIsLoaded
  <2>4. TexturesAreLive'
    BY <1>7 DEF Detach, DetachedFrom, Unbound, TexturesAreLive
  <2>5. OneRasterPerTexture'
    BY <1>7 DEF Detach, DetachedFrom, Unbound, OneRasterPerTexture
  <2>6. LooseIsUnbound'
    BY <1>7 DEF Detach, DetachedFrom, Unbound, LooseIsUnbound, TilesOwnInstances, OneTilePerAsset
  <2>7. NothingLeaks'
    BY <1>7 DEF Detach, DetachedFrom, Unbound, NothingLeaks, TilesOwnInstances
  <2>8. QED BY <2>1, <2>2, <2>3, <2>4, <2>5, <2>6, <2>7
<1>8. ASSUME NEW t \in TerrainTile, UnloadTile(t)
     PROVE  (Linked /\ NothingLeaks)'
  <2>1. TilesOwnInstances'
    BY <1>8, InstancesAreInstances DEF UnloadTile, DetachedFrom, TilesOwnInstances,
        OneTilePerAsset, MappedIsLoaded
  <2>2. OneTilePerAsset'
    BY <1>8, InstancesAreInstances DEF UnloadTile, DetachedFrom, OneTilePerAsset, TilesOwnInstances
  <2>3. MappedIsLoaded'
    BY <1>8, InstancesAreInstances DEF UnloadTile, DetachedFrom, MappedIsLoaded
  <2>4. TexturesAreLive'
    BY <1>8, InstancesAreInstances DEF UnloadTile, DetachedFrom, TexturesAreLive
  <2>5. OneRasterPerTexture'
    BY <1>8, InstancesAreInstances DEF UnloadTile, DetachedFrom, OneRasterPerTexture
  <2>6. LooseIsUnbound'
    BY <1>8, InstancesAreInstances DEF UnloadTile, DetachedFrom, LooseIsUnbound,
        TilesOwnInstances, OneTilePerAsset, Unbound
  <2>7. NothingLeaks'
    BY <1>8, InstancesAreInstances DEF UnloadTile, DetachedFrom, NothingLeaks, TilesOwnInstances,
        MappedIsLoaded
  <2>8. QED BY <2>1, <2>2, <2>3, <2>4, <2>5, <2>6, <2>7
<1>9. ASSUME NEW r \in Raster, FreeRaster(r)
     PROVE  (Linked /\ NothingLeaks)'
  BY <1>9 DEF FreeRaster, TilesOwnInstances, OneTilePerAsset, MappedIsLoaded, TexturesAreLive,
     OneRasterPerTexture, LooseIsUnbound, NothingLeaks
<1>10. CASE Teardown
  BY <1>10 DEF Teardown, TeardownStep, Drain, TilesOwnInstances, OneTilePerAsset, MappedIsLoaded,
      TexturesAreLive,
     OneRasterPerTexture, LooseIsUnbound, NothingLeaks
<1>11. CASE Closed
  BY <1>11 DEF Closed, imageryVars, TilesOwnInstances, OneTilePerAsset, MappedIsLoaded,
      TexturesAreLive,
     OneRasterPerTexture, LooseIsUnbound, NothingLeaks
<1>12. QED BY <1>1, <1>2, <1>3, <1>4, <1>5, <1>6, <1>7, <1>8, <1>9, <1>10, <1>11 DEF ImageryNext

(* What instances sample. *)
LEMMA StepSampled ==
  ASSUME ImageryTypeOK, Linked, Linked', NothingDestroyedIsSampled, ImageryIsAttached,
      MapHoldsImagery, ImageryNext
  PROVE  (NothingDestroyedIsSampled /\ ImageryIsAttached /\ MapHoldsImagery)'
<1> USE DistinctValues DEF ImageryTypeOK, Instance, Linked, TilesOwnInstances, OneTilePerAsset,
    MappedIsLoaded,
           TexturesAreLive, OneRasterPerTexture, LooseIsUnbound,
           NothingDestroyedIsSampled, ImageryIsAttached, MapHoldsImagery
<1>1. ASSUME NEW c \in Colour, SetTheme(c)
     PROVE  (NothingDestroyedIsSampled /\ ImageryIsAttached /\ MapHoldsImagery)'
  BY <1>1 DEF SetTheme
<1>2. CASE UpdateBegin
  BY <1>2 DEF UpdateBegin, Drain, Recoloured, Coloured
<1>3. CASE UpdateEnd
  BY <1>3 DEF UpdateEnd
<1>4. ASSUME NEW t \in TerrainTile, NEW a \in Asset, PrepareInMainThread(t, a)
     PROVE  (NothingDestroyedIsSampled /\ ImageryIsAttached /\ MapHoldsImagery)'
  BY <1>4 DEF PrepareInMainThread, NewInstance
<1>5. ASSUME NEW r \in Raster, NEW x \in Texture \cup {Null}, PrepareRaster(r, x)
     PROVE  (NothingDestroyedIsSampled /\ ImageryIsAttached /\ MapHoldsImagery)'
  BY <1>5 DEF PrepareRaster
<1>6. ASSUME NEW t \in TerrainTile, NEW r \in Raster, Attach(t, r)
     PROVE  (NothingDestroyedIsSampled /\ ImageryIsAttached /\ MapHoldsImagery)'
  <2>1. NothingDestroyedIsSampled'
    BY <1>6 DEF Attach, Bound, NothingDestroyedIsSampled
  <2>2. ImageryIsAttached'
    BY <1>6 DEF Attach, Bound, ImageryIsAttached
  <2>3. MapHoldsImagery'
    BY <1>6 DEF Attach, Bound, MapHoldsImagery
  <2>4. QED BY <2>1, <2>2, <2>3
<1>7. ASSUME NEW t \in TerrainTile, Detach(t)
     PROVE  (NothingDestroyedIsSampled /\ ImageryIsAttached /\ MapHoldsImagery)'
  <2>1. NothingDestroyedIsSampled'
    BY <1>7 DEF Detach, DetachedFrom, Unbound, NothingDestroyedIsSampled
  <2>2. ImageryIsAttached'
    BY <1>7 DEF Detach, DetachedFrom, Unbound, ImageryIsAttached
  <2>3. MapHoldsImagery'
    BY <1>7 DEF Detach, DetachedFrom, Unbound, MapHoldsImagery
  <2>4. QED BY <2>1, <2>2, <2>3
<1>8. ASSUME NEW t \in TerrainTile, UnloadTile(t)
     PROVE  (NothingDestroyedIsSampled /\ ImageryIsAttached /\ MapHoldsImagery)'
  <2>1. NothingDestroyedIsSampled'
    BY <1>8 DEF UnloadTile, DetachedFrom, Unbound, NothingDestroyedIsSampled
  <2>2. ImageryIsAttached'
    BY <1>8 DEF UnloadTile, DetachedFrom, Unbound, ImageryIsAttached
  <2>3. MapHoldsImagery'
    BY <1>8 DEF UnloadTile, DetachedFrom, Unbound, MapHoldsImagery
  <2>4. QED BY <2>1, <2>2, <2>3
<1>9. ASSUME NEW r \in Raster, FreeRaster(r)
     PROVE  (NothingDestroyedIsSampled /\ ImageryIsAttached /\ MapHoldsImagery)'
  BY <1>9 DEF FreeRaster
<1>10. CASE Teardown
  BY <1>10 DEF Teardown, TeardownStep, Drain
<1>11. CASE Closed
  BY <1>11 DEF Closed, imageryVars
<1>12. QED BY <1>1, <1>2, <1>3, <1>4, <1>5, <1>6, <1>7, <1>8, <1>9, <1>10, <1>11 DEF ImageryNext

ColourPart == TerrainFollowsTheme /\ ColourPushed /\ NoneBeforePush /\ PushedIsTheme

(* What colour instances have. *)
LEMMA StepColoured ==
  ASSUME ImageryTypeOK, Linked, ColourPart, ImageryNext
  PROVE  ColourPart'
<1> USE DistinctValues DEF ImageryTypeOK, Phase, ColourPart, Linked, TilesOwnInstances,
    MappedIsLoaded,
           TerrainFollowsTheme, ColourPushed, NoneBeforePush, PushedIsTheme
<1>1. ASSUME NEW c \in Colour, SetTheme(c)
     PROVE  ColourPart'
  BY <1>1 DEF SetTheme
<1>2. CASE UpdateBegin
  BY <1>2 DEF UpdateBegin, Drain, Recoloured, Coloured
<1>3. CASE UpdateEnd
  BY <1>3 DEF UpdateEnd
<1>4. ASSUME NEW t \in TerrainTile, NEW a \in Asset, PrepareInMainThread(t, a)
     PROVE  ColourPart'
  BY <1>4, InstancesAreInstances DEF PrepareInMainThread, NewInstance
<1>5. ASSUME NEW r \in Raster, NEW x \in Texture \cup {Null}, PrepareRaster(r, x)
     PROVE  ColourPart'
  BY <1>5 DEF PrepareRaster
<1>6. ASSUME NEW t \in TerrainTile, NEW r \in Raster, Attach(t, r)
     PROVE  ColourPart'
  <2>1. \A b \in Asset : /\ inst'[b] = Null <=> inst[b] = Null
                         /\ inst[b] # Null => inst'[b].colour = inst[b].colour
    BY <1>6, InstancesAreInstances DEF Attach
  <2>2. QED BY <1>6, <2>1 DEF Attach
<1>7. ASSUME NEW t \in TerrainTile, Detach(t)
     PROVE  ColourPart'
  <2>1. \A b \in Asset : /\ inst'[b] = Null <=> inst[b] = Null
                         /\ inst[b] # Null => inst'[b].colour = inst[b].colour
    BY <1>7, InstancesAreInstances DEF Detach, DetachedFrom
  <2>2. QED BY <1>7, <2>1 DEF Detach
<1>8. ASSUME NEW t \in TerrainTile, UnloadTile(t)
     PROVE  ColourPart'
  <2>1. \A b \in Asset : /\ inst'[b] = Null <=> inst[b] = Null
                         /\ inst[b] # Null => inst'[b].colour = inst[b].colour
    BY <1>8, InstancesAreInstances DEF UnloadTile, DetachedFrom
  <2>2. QED BY <1>8, <2>1 DEF UnloadTile
<1>9. ASSUME NEW r \in Raster, FreeRaster(r)
     PROVE  ColourPart'
  BY <1>9 DEF FreeRaster
<1>10. CASE Teardown
  BY <1>10 DEF Teardown, TeardownStep, Drain
<1>11. CASE Closed
  BY <1>11 DEF Closed, imageryVars
<1>12. QED BY <1>1, <1>2, <1>3, <1>4, <1>5, <1>6, <1>7, <1>8, <1>9, <1>10, <1>11 DEF ImageryNext

LEMMA StepImagery == ImageryInv /\ [ImageryNext]_imageryVars => ImageryInv'
<1>1. ASSUME ImageryInv, ImageryNext
      PROVE  ImageryInv'
  <2>1. ImageryTypeOK'
    BY <1>1, StepTyped DEF ImageryInv
  <2>2. Linked' /\ NothingLeaks'
    BY <1>1, StepLinked DEF ImageryInv
  <2>3. NothingDestroyedIsSampled' /\ ImageryIsAttached' /\ MapHoldsImagery'
    BY <1>1, <2>2, StepSampled DEF ImageryInv
  <2>4. TerrainFollowsTheme' /\ ColourPushed' /\ NoneBeforePush' /\ PushedIsTheme'
    BY <1>1, StepColoured DEF ImageryInv, ColourPart
  <2>5. QED BY <2>1, <2>2, <2>3, <2>4 DEF ImageryInv
<1>2. ASSUME ImageryInv, UNCHANGED imageryVars
      PROVE  ImageryInv'
  BY <1>2 DEF ImageryInv, imageryVars, ImageryTypeOK, NothingDestroyedIsSampled, ImageryIsAttached,
     TerrainFollowsTheme, NothingLeaks, Linked, TilesOwnInstances, OneTilePerAsset,
     MappedIsLoaded, TexturesAreLive, OneRasterPerTexture, LooseIsUnbound, MapHoldsImagery,
     ColourPushed, NoneBeforePush, PushedIsTheme
<1>3. QED BY <1>1, <1>2

\* The inductive invariant: every part of ImageryInv, over any number of tiles
\* and rasters and any order of cesium's callbacks.
THEOREM ImageryInvariant == ImagerySpec => []ImageryInv
  BY InitImagery, StepImagery, PTL DEF ImagerySpec

\* Filament never commits an instance that holds a destroyed texture, and no
\* instance and no texture is lost before teardown (attachRasterInMainThread,
\* detachRasterInMainThread, free, freeRaster, drain_pending_frees).
THEOREM ImageryTexturesLiveAsLongAsUsed == ImagerySpec => []TexturesLiveAsLongAsUsed
<1>1. ImageryInv => TexturesLiveAsLongAsUsed
  BY DEF ImageryInv, TexturesLiveAsLongAsUsed
<1>2. QED BY <1>1, ImageryInvariant, PTL

\* A tile shows imagery exactly while cesium has a raster attached to it, and all
\* terrain has the theme's colour after an update (sync_terrain_color).
THEOREM ImageryTilesShowImageryAndTheme == ImagerySpec => []TilesShowImageryAndTheme
<1>1. ImageryInv => TilesShowImageryAndTheme
  BY DEF ImageryInv, TilesShowImageryAndTheme
<1>2. QED BY <1>1, ImageryInvariant, PTL

-----------------------------------------------------------------------------
\* The tiles and their imagery together: what a run checks of the source.
THEOREM SourceIsSafe ==
  SourceSpec => /\ [](/\ CacheConsistent /\ OneZero
                      /\ TexturesLiveAsLongAsUsed /\ TilesShowImageryAndTheme)
                /\ NoEarlyGiveUp
<1>1. SourceInit => Init /\ ImageryInit
  BY DEF SourceInit
<1>2. [SourceNext]_sourceVars => [Next]_vars /\ [ImageryNext]_imageryVars
  BY DEF SourceNext, sourceVars
<1>3. SourceSpec => Spec /\ ImagerySpec
  BY <1>1, <1>2, PTL DEF SourceSpec, Spec, ImagerySpec
<1>. QED  BY <1>3, CacheStaysConsistent, LiftedOnOneZero, GivesUpWithReason,
              ImageryTexturesLiveAsLongAsUsed, ImageryTilesShowImageryAndTheme, PTL
=============================================================================
