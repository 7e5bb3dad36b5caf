------------------------------- MODULE ObjectPools -------------------------------
(***************************************************************************)
(* The tracked objects of the scene (objects.cpp).  Every class with a     *)
(* loaded model owns a pool of instances of it, which grows to a cap; an   *)
(* object borrows one, or draws a procedural box when its class has no     *)
(* model or its pool is used up.  A stale or a see-through object is drawn *)
(* with a material instance of its own.                                    *)
(*                                                                         *)
(* update_objects is taken apart into its steps: each object of the frame, *)
(* then, in whatever order the map gives them, the objects that are gone.  *)
(* The frame's list is not kept: an object of it is chosen as it is met,   *)
(* with an id that may come twice.                                         *)
(*                                                                         *)
(* External: a model keeps its source data, so gltfio can always create    *)
(* another instance of it, and the engine another material instance.       *)
(***************************************************************************)
EXTENDS Integers, Sequences, FiniteSets

CONSTANTS
  Id,           \* TrackedObject::id
  Class,        \* ObjectClass
  Modelled,     \* the classes whose .glb set_object_model_dir has loaded
  Initial,      \* kInitialInstancesPerClass
  Cap,          \* kMaxInstancesPerClass
  Path,         \* predicted paths of at least two points
  Coincident,   \* those no strip comes of, their points being one
  Signature,    \* path_signature: of the count, the first and the last point
  Trim,         \* what else an object is reported with: whether it moves, its path
  Fade,         \* material instances the engine may hand out
  Box, None

\* The k-th instance of a class's pool.
Instance == Modelled \X (1..Cap)

Entity == [cls : Class, body : Instance \cup {Box}, boxMaterial : Class \cup Fade,
           arrow : BOOLEAN, ribbon : Path \cup {None}, signature : Path \cup {None},
           fade : Fade \cup {None}]

ASSUME PoolConstants ==
  /\ Modelled \subseteq Class
  /\ Initial \in Nat /\ Cap \in Nat /\ Initial <= Cap
  /\ Coincident \subseteq Path
  /\ Signature \in [Path -> Path]
  /\ Trim \subseteq [moving : BOOLEAN, path : Path \cup {None}]
  /\ None \notin Path \cup Fade \cup Entity
  /\ Box \notin Instance

\* A class's own material, an object's own instance, or what the .glb came with.
Material == Class \cup Fade \cup {"glb"}

\* faded: its age or the theme's opacity makes its alpha less than one.
Object == [id : Id, cls : Class, faded : BOOLEAN, trim : Trim]

VARIABLES
  free,       \* ObjectClassPool::freeList
  size,       \* ObjectClassPool::pool.size()
  bound,      \* the material the renderables of an instance are bound to
  live,       \* the material instances that exist
  entities,   \* VisualRenderer::objectEntities
  next,       \* the map update_objects is building
  releasing   \* the frame's objects are done, what is left of the old map goes

vars == <<free, size, bound, live, entities, next, releasing>>

\* The pools and the engine, passed through the helpers of one update.
Gpu == [free |-> free, size |-> size, bound |-> bound, live |-> live]

TypeOK ==
  /\ free \in [Modelled -> Seq(Instance)]
  /\ size \in [Modelled -> 0..Cap]
  /\ bound \in [Instance -> Material]
  /\ live \subseteq Fade
  /\ entities \in [Id -> Entity \cup {None}]
  /\ next \in [Id -> Entity \cup {None}]
  /\ releasing \in BOOLEAN

Init ==
  /\ free = [c \in Modelled |-> [k \in 1..Initial |-> <<c, k>>]]
  /\ size = [c \in Modelled |-> Initial]
  /\ bound = [x \in Instance |-> "glb"]
  /\ live = {}
  /\ entities = [i \in Id |-> None]
  /\ next = [i \in Id |-> None]
  /\ releasing = FALSE

-----------------------------------------------------------------------------
Bare(c, body) == [cls |-> c, body |-> body, boxMaterial |-> c, arrow |-> FALSE,
                  ribbon |-> None, signature |-> None, fade |-> None]

Boxed(g, c) == [gpu |-> g, entity |-> Bare(c, Box)]

\* Mutant: the instance keeps the material its last user left on it.
ReuseAsLeft(g, c) ==
  LET f == g.free[c] IN
  [gpu |-> [g EXCEPT !.free[c] = SubSeq(f, 1, Len(f) - 1)], entity |-> Bare(c, f[Len(f)])]

\* The instance given back last.
Reuse(g, c) ==
  LET f == g.free[c] IN
  [gpu |-> [g EXCEPT !.free[c] = SubSeq(f, 1, Len(f) - 1), !.bound[f[Len(f)]] = c],
   entity |-> Bare(c, f[Len(f)])]

Grow(g, c) ==
  LET x == <<c, g.size[c] + 1>> IN
  [gpu |-> [g EXCEPT !.size[c] = @ + 1, !.bound[x] = c], entity |-> Bare(c, x)]

Acquire(g, c) ==
  IF c \notin Modelled THEN Boxed(g, c)
  ELSE IF g.free[c] # <<>> THEN Reuse(g, c)
  ELSE IF g.size[c] < Cap THEN Grow(g, c)
  ELSE Boxed(g, c)

Returned(f, e) == IF e.body = Box THEN f ELSE [f EXCEPT ![e.cls] = Append(@, e.body)]

\* Mutant: an object that is drawn faded does not give its instance back.
ReleaseUnlessFaded(g, e) ==
  [g EXCEPT !.live = @ \ {e.fade},
            !.free = IF e.fade = None THEN Returned(@, e) ELSE @]

Release(g, e) == [g EXCEPT !.live = @ \ {e.fade}, !.free = Returned(@, e)]

\* The ribbon is extruded again only when the signature differs, which is
\* forgotten only with a ribbon.
UpdatePath(e, p) ==
  IF p = None
  THEN IF e.ribbon = None THEN e ELSE [e EXCEPT !.ribbon = None, !.signature = None]
  ELSE IF e.signature = Signature[p] THEN e
  ELSE [e EXCEPT !.ribbon = IF p \in Coincident THEN None ELSE p, !.signature = Signature[p]]

BindEverywhere(s, m) ==
  IF s.entity.body = Box
  THEN [s EXCEPT !.entity.boxMaterial = m]
  ELSE [s EXCEPT !.gpu.bound[s.entity.body] = m]

\* The material instance the engine hands out.
NewFade(g) == CHOOSE f \in Fade : f \notin g.live

UpdateStaleness(s, faded) ==
  LET e == s.entity
      f == NewFade(s.gpu)
  IN
  IF ~faded /\ e.fade # None
  THEN [BindEverywhere(s, e.cls) EXCEPT !.gpu.live = @ \ {e.fade}, !.entity.fade = None]
  ELSE IF faded /\ e.fade = None
  THEN [BindEverywhere(s, f) EXCEPT !.gpu.live = @ \cup {f}, !.entity.fade = f]
  ELSE s

\* The entity of object o: its own one, or another when its class has changed.
Entered(o) ==
  LET e == entities[o.id] IN
  IF e = None THEN Acquire(Gpu, o.cls)
  ELSE IF e.cls = o.cls THEN [gpu |-> Gpu, entity |-> e]
  ELSE Acquire(Release(Gpu, e), o.cls)

Updated(o) ==
  LET s == Entered(o)
      p == [s EXCEPT !.entity = UpdatePath([@ EXCEPT !.arrow = o.trim.moving], o.trim.path)]
  IN UpdateStaleness(p, o.faded)

Becomes(g) == free' = g.free /\ size' = g.size /\ bound' = g.bound /\ live' = g.live

\* Mutant: the second of two objects with one id replaces the first.
UpdateObjectReplaces(o) ==
  /\ ~releasing
  /\ LET s == Updated(o) IN
     Becomes(s.gpu) /\ next' = [next EXCEPT ![o.id] = s.entity]
  /\ entities' = [entities EXCEPT ![o.id] = None]
  /\ UNCHANGED releasing

\* One object of the frame; a second one with the same id is dropped again.
UpdateObject(o) ==
  /\ ~releasing
  /\ Fade \ live # {}
  /\ LET s == Updated(o) IN
     IF next[o.id] # None
     THEN Becomes(Release(s.gpu, s.entity)) /\ UNCHANGED next
     ELSE Becomes(s.gpu) /\ next' = [next EXCEPT ![o.id] = s.entity]
  /\ entities' = [entities EXCEPT ![o.id] = None]
  /\ UNCHANGED releasing

EndObjects ==
  /\ ~releasing
  /\ releasing' = TRUE
  /\ UNCHANGED <<free, size, bound, live, entities, next>>

\* An object that is not in the frame any more.
ReleaseVanished(i) ==
  /\ releasing /\ entities[i] # None
  /\ Becomes(Release(Gpu, entities[i]))
  /\ entities' = [entities EXCEPT ![i] = None]
  /\ UNCHANGED <<next, releasing>>

EndFrame ==
  /\ releasing /\ \A i \in Id : entities[i] = None
  /\ entities' = next
  /\ next' = [i \in Id |-> None]
  /\ releasing' = FALSE
  /\ UNCHANGED <<free, size, bound, live>>

Next ==
  \/ \E o \in Object : UpdateObject(o)
  \/ EndObjects
  \/ \E i \in Id : ReleaseVanished(i)
  \/ EndFrame

Spec == Init /\ [][Next]_vars

-----------------------------------------------------------------------------
\* The entities of both maps.
Held == {h \in {"old", "new"} \X Id : (IF h[1] = "old" THEN entities ELSE next)[h[2]] # None}
EntityOf(h) == (IF h[1] = "old" THEN entities ELSE next)[h[2]]
Users(x) == {h \in Held : EntityOf(h).body = x}

\* Every instance a pool has made lies in its free list, once, or is drawn by
\* one object, of its own class: none is lost and none is drawn twice, however
\* classes change and ids repeat (objects.cpp acquire_entity, release_object_entity).
PoolConserved ==
  /\ \A c \in Modelled : \A j, k \in 1..Len(free[c]) : free[c][j] = free[c][k] => j = k
  /\ \A x \in Instance :
       LET idle == \E k \in 1..Len(free[x[1]]) : free[x[1]][k] = x IN
       /\ x[2] > size[x[1]] => ~idle /\ Users(x) = {}
       /\ x[2] <= size[x[1]] => (idle <=> Users(x) = {})
       /\ \A h, k \in Users(x) : h = k
  /\ \A h \in Held : EntityOf(h).body # Box => EntityOf(h).body[1] = EntityOf(h).cls

\* What an object draws is bound to its own fade instance while it has one and
\* to its class's material otherwise, and a fade instance exists exactly as
\* long as one object holds it: nothing is drawn with one that was destroyed
\* for another user of the same instance (objects.cpp update_entity_staleness).
BodyMaterial ==
  /\ \A h \in Held :
       LET e == EntityOf(h) IN
       (IF e.body = Box THEN e.boxMaterial ELSE bound[e.body])
         = (IF e.fade = None THEN e.cls ELSE e.fade)
  /\ live = {EntityOf(h).fade : h \in Held} \ {None}
  /\ \A h, k \in Held : EntityOf(h).fade = EntityOf(k).fade /\ h # k => EntityOf(h).fade = None

\* The pools and the objects agree: every instance is free or one object's, and is
\* drawn as that object's class and age ask.
ObjectsAreBacked == PoolConserved /\ BodyMaterial

\* An object whose class has a model is drawn as a box only if, when it came,
\* every instance up to the cap was drawn by another object: leaks and double
\* returns would show as boxes (objects.cpp acquire_entity).
BoxOnlyWhenAllInUse ==
  [][\A i \in Id :
       LET e == next'[i] IN
       /\ next[i] = None /\ e # None
       /\ e.body = Box /\ e.cls \in Modelled
       /\ entities[i] = None \/ entities[i].cls # e.cls
       => Cardinality({h \in Held : EntityOf(h).cls = e.cls /\ EntityOf(h).body # Box}) = Cap]_vars
=============================================================================
