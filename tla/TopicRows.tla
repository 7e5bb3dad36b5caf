------------------------------- MODULE TopicRows -------------------------------
(***************************************************************************)
(* A row of the profile: the adapter that stores what a topic says and the *)
(* node's timer that lets it fill the scene until the topic has been       *)
(* silent for the row's timeout.  The clock (sim_clock_sec_) advances with *)
(* the timer only, so a time is kept as its age: the timers since.         *)
(*                                                                         *)
(* An array is taken apart into its markers, between the header and the    *)
(* end; the timer and the subscriptions share one executor, so it does not *)
(* run in between.  A marker an adapter turns down (its kind, its numbers, *)
(* the rules of the row) changes nothing but the counters of diagnostics,  *)
(* which are left out, and so is the geometry of what is drawn.            *)
(***************************************************************************)
EXTENDS Integers, FiniteSets

CONSTANTS
  Adapter,     \* the adapters looked at
  Key,         \* namespace and id of a marker, or the id of a track
  Whole,       \* the key of a path, a grid, a cloud or a carpet
  Lane, Left, Right, \* lanes with the keys of their boundaries
  Timeout,     \* ProfileRow::timeout_sec
  MinGap,      \* 1 / ProfileRow::max_rate_hz; 0 without a limit
  Lifetime,    \* Marker::lifetime, where it is given
  FadeStart, FadeEnd, \* kStaleFadeStartSec, and kStaleFadeTimeoutSec = kMapFadeWindowSec
  Horizon,     \* ages are not told apart beyond it
  None

Age == 0..Horizon

\* What is stored under a key.  A track exists before it has its box (age) and
\* its text (named); only a marker has a lifetime, and only tracks can be
\* unnamed.
Stored == [age : Age \cup {None}, life : Lifetime \cup {None}, named : BOOLEAN]

ASSUME RowConstants ==
  /\ Adapter \subseteq {"generic_marker", "collision", "dynamic_objects", "hd_map", "carpet",
                        "path", "ogm", "height_grid", "point_cloud"}
  /\ Whole \in Key /\ Left \in [Lane -> Key] /\ Right \in [Lane -> Key]
  /\ Lane \cap Key = {} /\ None \notin Nat \cup Stored
  /\ FadeStart \in Nat /\ FadeEnd \in Nat /\ FadeStart < FadeEnd
  /\ Timeout \in Nat /\ FadeEnd <= Timeout       \* validate_row
  /\ MinGap \in Nat /\ Horizon \in Nat
  /\ Lifetime \subseteq 1..Horizon
  /\ 2 * Timeout < Horizon /\ MinGap <= Horizon

VARIABLES
  adapter,
  heard,      \* AdapterStats::msgs is not zero
  msgAge,     \* since AdapterStats::last_msg_sec
  recvAge,    \* since HdMapAdapter::last_recv_sec_
  rebuildAge, \* since HdMapAdapter::last_rebuild_sec_
  store,      \* storage_, tracks_, points_ or cells_
  cache,      \* HdMapAdapter::road_fill_cache_: since cached_recv_sec
  busy,       \* an array is being ingested
  touched,    \* of that array
  drawn,      \* how what the last timer has put into the scene is drawn
  railAge     \* history: since a timer saw both boundaries of the lane

rowVars == <<adapter, heard, msgAge, recvAge, rebuildAge, store, cache, busy, touched,
             drawn, railAge>>

RowTypeOK ==
  /\ adapter \in Adapter
  /\ heard \in BOOLEAN /\ busy \in BOOLEAN
  /\ msgAge \in Age
  /\ recvAge \in Age \cup {None} /\ rebuildAge \in Age \cup {None}
  /\ store \in [Key -> Stored \cup {None}]
  /\ cache \in [Lane -> Age \cup {None}] /\ railAge \in [Lane -> Age \cup {None}]
  /\ touched \subseteq Key
  /\ drawn \in [Key \cup Lane -> {"absent", "opaque", "fading", "gone"}]

RowInit ==
  /\ adapter \in Adapter
  /\ heard = FALSE /\ busy = FALSE
  /\ msgAge = 0
  /\ recvAge = None /\ rebuildAge = None
  /\ store = [k \in Key |-> None]
  /\ cache = [l \in Lane |-> None] /\ railAge = [l \in Lane |-> None]
  /\ touched = {}
  /\ drawn = [x \in Key \cup Lane |-> "absent"]

-----------------------------------------------------------------------------
Arrays == adapter \in {"generic_marker", "collision", "dynamic_objects", "hd_map", "carpet"}

\* An empty array, or a message dropped whole before anything is stored.
ReceiveNothing ==
  /\ ~busy /\ heard' = TRUE
  /\ UNCHANGED <<adapter, msgAge, recvAge, rebuildAge, store, cache, busy, touched,
                 drawn, railAge>>

Overdue(i) == i.life # None /\ i.age >= i.life

Expired ==
  [k \in Key |-> IF adapter = "generic_marker" /\ store[k] # None /\ Overdue(store[k])
                 THEN None ELSE store[k]]

\* An array whose frame has no transform; lifetimes are looked at before.
ReceiveUnplaced ==
  /\ Arrays /\ ~busy
  /\ heard' = TRUE /\ store' = Expired
  /\ UNCHANGED <<adapter, msgAge, recvAge, rebuildAge, cache, busy, touched, drawn, railAge>>

\* Mutant: the rate is measured from message to message.
ThrottledByReceipt == adapter = "hd_map" /\ rebuildAge # None /\ recvAge < MinGap

Throttled == adapter = "hd_map" /\ rebuildAge # None /\ rebuildAge < MinGap

\* Inside the rate limit an array is a sign of life and nothing else.
ReceiveThrottled ==
  /\ ~busy /\ Throttled
  /\ heard' = TRUE /\ recvAge' = 0
  /\ UNCHANGED <<adapter, msgAge, rebuildAge, store, cache, busy, touched, drawn, railAge>>

BeginArray ==
  /\ Arrays /\ ~busy /\ ~Throttled
  /\ heard' = TRUE /\ busy' = TRUE /\ touched' = {}
  /\ recvAge' = IF adapter = "hd_map" THEN 0 ELSE recvAge
  /\ store' = Expired
  /\ UNCHANGED <<adapter, msgAge, rebuildAge, cache, drawn, railAge>>

\* A step of the array that is being ingested.
Ingests(s, t) ==
  /\ busy /\ store' = s /\ touched' = t
  /\ UNCHANGED <<adapter, heard, msgAge, recvAge, rebuildAge, cache, busy, drawn, railAge>>

DeleteAll == Ingests([k \in Key |-> None], touched)

Delete(k) == adapter # "carpet" /\ Ingests([store EXCEPT ![k] = None], touched)

StoredAnew(life) == [age |-> 0, life |-> life, named |-> TRUE]

AddMarker(k, life) ==
  adapter = "generic_marker" /\ Ingests([store EXCEPT ![k] = StoredAnew(life)], touched)

AddPolygon(k) ==
  adapter = "collision" /\ Ingests([store EXCEPT ![k] = StoredAnew(None)], touched)

\* Its age is not looked at: an element of the map has no time of its own.
AddElement(k) ==
  adapter = "hd_map" /\ Ingests([store EXCEPT ![k] = StoredAnew(None)], touched)

AddStations ==
  adapter = "carpet" /\ Ingests([store EXCEPT ![Whole] = StoredAnew(None)], touched)

Track(k) == IF store[k] # None THEN store[k] ELSE [age |-> None, life |-> None, named |-> FALSE]

\* Mutant: only a text has its track looked at.
AddBoxUntouched(k, valid) ==
  /\ adapter = "dynamic_objects"
  /\ Ingests([store EXCEPT ![k] = IF valid THEN [Track(k) EXCEPT !.age = 0] ELSE Track(k)],
             touched)

\* The box, the text and the arrow or path of a track make it if it is not
\* there, whether or not they can be used.
AddBox(k, valid) ==
  /\ adapter = "dynamic_objects"
  /\ Ingests([store EXCEPT ![k] = IF valid THEN [Track(k) EXCEPT !.age = 0] ELSE Track(k)],
             touched \cup {k})

AddText(k, given) ==
  /\ adapter = "dynamic_objects"
  /\ Ingests([store EXCEPT ![k] = IF given THEN [Track(k) EXCEPT !.named = TRUE] ELSE Track(k)],
             touched \cup {k})

AddDetail(k) ==
  /\ adapter = "dynamic_objects"
  /\ Ingests([store EXCEPT ![k] = Track(k)], touched)

Nameless(k) == k \in touched /\ store[k] # None /\ store[k].age # None /\ ~store[k].named

EndArray ==
  /\ busy /\ busy' = FALSE
  /\ store' = [k \in Key |-> IF Nameless(k) THEN None ELSE store[k]]
  /\ touched' = {}
  /\ rebuildAge' = IF adapter = "hd_map" THEN 0 ELSE rebuildAge
  /\ msgAge' = 0
  /\ UNCHANGED <<adapter, heard, recvAge, cache, drawn, railAge>>

\* Messages that are one thing, which takes the place of the last one.
Replaces ==
  /\ ~busy
  /\ heard' = TRUE /\ msgAge' = 0
  /\ store' = [store EXCEPT ![Whole] = StoredAnew(None)]
  /\ UNCHANGED <<adapter, recvAge, rebuildAge, cache, busy, touched, drawn, railAge>>

ReceivePath == adapter = "path" /\ Replaces
ReceiveGrid == adapter = "ogm" /\ Replaces
ReceiveGridUpdate == adapter = "ogm" /\ store[Whole] # None /\ Replaces
ReceiveHeightGrid == adapter = "height_grid" /\ Replaces
ReceiveCloud == adapter = "point_cloud" /\ Replaces

-----------------------------------------------------------------------------
Older(a) == IF a = None THEN None ELSE IF a = Horizon THEN Horizon ELSE a + 1

\* Mutant: the stamp is put one window too late.
ShownUntilTheCut(age) == age - Timeout

\* The stamp of a path or of the map lies in the future, so that its fade ends
\* with the timeout.
Shifted(age) == age - (Timeout - FadeEnd)

StampAge(k) ==
  CASE adapter = "hd_map" -> Shifted(recvAge')
    [] adapter = "path" -> Shifted(store[k].age + 1)
    [] OTHER -> store[k].age + 1

Visibility(age) ==
  IF age <= FadeStart THEN "opaque" ELSE IF age >= FadeEnd THEN "gone" ELSE "fading"

\* Timer: the row is skipped once its last message is older than its timeout.
Filled == ~(msgAge' > Timeout) /\ (adapter = "hd_map" \/ heard)

Drawable(k) == store[k] # None /\ store[k].age # None /\ store[k].named

Railed(l) == adapter = "hd_map" /\ store[Left[l]] # None /\ store[Right[l]] # None

\* Mutant: an entry is renewed as long as the map is heard of.
CacheEntryRenewed(l) ==
  LET entry == IF Railed(l) \/ cache[l] # None THEN recvAge' ELSE None
  IN IF entry # None /\ entry - recvAge' \notin 0..Timeout THEN None ELSE entry

\* The cached surface of a lane, renewed or dropped.
CacheEntry(l) ==
  LET entry == IF Railed(l) THEN recvAge' ELSE Older(cache[l])
  IN IF entry # None /\ entry - recvAge' \notin 0..Timeout THEN None ELSE entry

Timer ==
  /\ ~busy
  /\ msgAge' = Older(msgAge) /\ recvAge' = Older(recvAge) /\ rebuildAge' = Older(rebuildAge)
  /\ store' = [k \in Key |-> IF store[k] = None \/ adapter = "hd_map" THEN store[k]
                             ELSE [store[k] EXCEPT !.age = Older(@)]]
  /\ cache' = [l \in Lane |-> IF Filled THEN CacheEntry(l) ELSE Older(cache[l])]
  /\ drawn' = [x \in Key \cup Lane |->
       IF ~Filled THEN "absent"
       ELSE IF x \in Key THEN IF Drawable(x) THEN Visibility(StampAge(x)) ELSE "absent"
       ELSE IF cache'[x] # None THEN Visibility(Shifted(recvAge')) ELSE "absent"]
  /\ railAge' = [l \in Lane |-> IF Railed(l) THEN 0 ELSE Older(railAge[l])]
  /\ UNCHANGED <<adapter, heard, busy, touched>>

ReceiveWhole ==
  ReceivePath \/ ReceiveGrid \/ ReceiveGridUpdate \/ ReceiveHeightGrid \/ ReceiveCloud

RowNext ==
  \/ ReceiveNothing \/ ReceiveUnplaced \/ ReceiveThrottled \/ ReceiveWhole
  \/ BeginArray
  \/ DeleteAll
  \/ \E k \in Key :
       \/ Delete(k)
       \/ \E life \in Lifetime \cup {None} : AddMarker(k, life)
       \/ AddPolygon(k) \/ AddElement(k)
       \/ \E valid \in BOOLEAN : AddBox(k, valid)
       \/ \E given \in BOOLEAN : AddText(k, given)
       \/ AddDetail(k)
  \/ AddStations
  \/ EndArray
  \/ Timer

RowSpec == RowInit /\ [][RowNext]_rowVars

-----------------------------------------------------------------------------
Cut == msgAge > Timeout

\* A row that is cut off by its timeout had faded out by then: nothing of its
\* last frame was still visible.  The map is an exception while its last
\* message fell inside the rate limit (the timer's test of last_msg_sec, the
\* stamps of path.cpp and hd_map.cpp).
FadesBeforeTheCut ==
  [][~Cut /\ Cut' => \/ \A x \in Key \cup Lane : drawn[x] \in {"absent", "gone"}
                     \/ adapter = "hd_map" /\ recvAge < rebuildAge]_rowVars

\* A map whose messages keep coming is not cut off for being throttled: a
\* message of less than the timeout minus the gap ago has been accepted, or
\* follows one that has been within the gap (hd_map.cpp ingest).
RowKeptByReceipts ==
  adapter = "hd_map" /\ ~busy /\ recvAge # None /\ recvAge + MinGap <= Timeout => ~Cut

\* What a row draws has an end, whatever else its topic says: a marker is off
\* the screen a timeout after its lifetime, though nothing but a message
\* removes it, and the surface of a lane two timeouts after its boundaries
\* (generic_marker.cpp ingest, hd_map.cpp fill, the timer).
DrawingEnds ==
  /\ \A k \in Key :
       adapter = "generic_marker" /\ drawn[k] # "absent" /\ store[k] # None /\ Overdue(store[k])
         => store[k].age - store[k].life < Timeout
  /\ \A l \in Lane : drawn[l] # "absent" => railAge[l] # None /\ railAge[l] <= 2 * Timeout

\* What a row draws lasts as long as its topic says: not shorter, as a map that is heard of
\* is not cut off, and not longer, as all that is drawn has an end.
RowsLast == RowKeptByReceipts /\ DrawingEnds

\* Between messages a track that has a box has its text, whatever the order and
\* the arrays its parts have come in (dynamic_objects.cpp ingest).
BoxesAreNamed ==
  ~busy /\ adapter = "dynamic_objects" =>
    \A k \in Key : store[k] # None /\ store[k].age # None => store[k].named

\* What docs/plans/2026-08-18-visual-mode-epic3.md says of a map that goes
\* silent: it has ramped out right before the timer stops filling it.
SilentMapFades ==
  [][~Cut /\ Cut' => \A x \in Key \cup Lane : drawn[x] \in {"absent", "gone"}]_rowVars
=============================================================================
