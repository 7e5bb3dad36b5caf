----------------------------- MODULE ObjectPools_proofs -----------------------------
(***************************************************************************)
(* Proofs about ObjectPools.  The helpers of an update take the pools from *)
(* one intermediate state to the next, so the invariant is stated of any   *)
(* pools g and any assignment E of entities to the places of the two maps; *)
(* the entity under update is kept at its old place until it is moved to   *)
(* the new map or released.                                                *)
(***************************************************************************)
EXTENDS ObjectPools, SequenceTheorems, FunctionTheorems, FiniteSetTheorems, TLAPS

Place == {"old", "new"} \X Id

Worlds == [free : [Modelled -> Seq(Instance)], size : [Modelled -> 0..Cap],
           bound : [Instance -> Material], live : SUBSET Fade]

Assignment == [Place -> Entity \cup {None}]

Idle(g, x) == \E k \in 1..Len(g.free[x[1]]) : g.free[x[1]][k] = x

\* A free instance is free once, of its pool, made, and drawn by nobody.
FreeListsRight(g, E) ==
  \A c \in Modelled : \A k \in 1..Len(g.free[c]) :
    /\ g.free[c][k][1] = c /\ g.free[c][k][2] <= g.size[c]
    /\ \A h \in Place : E[h] # None => E[h].body # g.free[c][k]
    /\ \A j \in 1..Len(g.free[c]) : g.free[c][j] = g.free[c][k] => j = k

\* An instance that is drawn is of the object's class, made, and drawn once.
BodiesRight(g, E) ==
  \A h \in Place : E[h] # None /\ E[h].body # Box =>
    /\ E[h].body[1] = E[h].cls /\ E[h].body[2] <= g.size[E[h].cls]
    /\ \A k \in Place : E[k] # None /\ E[k].body = E[h].body => k = h

NoneLost(g, E) ==
  \A x \in Instance : x[2] <= g.size[x[1]] =>
    Idle(g, x) \/ \E h \in Place : E[h] # None /\ E[h].body = x

Pools(g, E) == FreeListsRight(g, E) /\ BodiesRight(g, E) /\ NoneLost(g, E)

Bindings(g, E) ==
  \A h \in Place : E[h] # None =>
    (IF E[h].body = Box THEN E[h].boxMaterial ELSE g.bound[E[h].body])
      = (IF E[h].fade = None THEN E[h].cls ELSE E[h].fade)

Fades(g, E) ==
  /\ \A f \in Fade : f \in g.live <=> \E h \in Place : E[h] # None /\ E[h].fade = f
  /\ \A h, k \in Place : E[h] # None /\ E[k] # None /\ E[h].fade # None /\ E[h].fade = E[k].fade
       => h = k

World(g, E) ==
  g \in Worlds /\ E \in Assignment /\ Pools(g, E) /\ Bindings(g, E) /\ Fades(g, E)

-----------------------------------------------------------------------------
\* The free list of a class (renderer_internal.hpp ObjectClassPool::freeList).
LEMMA FreeList ==
  ASSUME NEW g \in Worlds, NEW c \in Modelled
  PROVE  /\ g.free[c] \in Seq(Instance) /\ Len(g.free[c]) \in Nat
         /\ \A k \in 1..Len(g.free[c]) : g.free[c][k] \in Instance /\ g.free[c][k] # Box
         /\ g.size[c] \in 0..Cap
<1>1. g.free[c] \in Seq(Instance) /\ g.size[c] \in 0..Cap
  BY DEF Worlds
<1>2. \A k \in 1..Len(g.free[c]) : g.free[c][k] \in Instance
  BY <1>1, ElementOfSeq
<1> QED
  BY <1>1, <1>2, LenProperties, PoolConstants

\* The front of a free list (objects.cpp acquire_entity, freeList.pop_back).
LEMMA PopBack ==
  ASSUME NEW S, NEW f \in Seq(S), f # <<>>
  PROVE  /\ SubSeq(f, 1, Len(f) - 1) \in Seq(S)
         /\ Len(SubSeq(f, 1, Len(f) - 1)) = Len(f) - 1
         /\ \A k \in 1..Len(f) - 1 : SubSeq(f, 1, Len(f) - 1)[k] = f[k]
         /\ Len(f) \in 1..Len(f) /\ f[Len(f)] \in S
<1>1. Len(f) \in Nat \ {0}
  BY EmptySeq, LenProperties
<1>2. \A k \in 1..Len(f) : f[k] \in S
  BY ElementOfSeq
<1>3. Len(f) - 1 \in 0..Len(f) /\ Len(f) - 1 - 1 + 1 = Len(f) - 1
  BY <1>1
<1>4. /\ SubSeq(f, 1, Len(f) - 1) \in Seq(S)
      /\ Len(SubSeq(f, 1, Len(f) - 1)) = Len(f) - 1
      /\ \A k \in 1..Len(f) - 1 : SubSeq(f, 1, Len(f) - 1)[k] = f[k]
  BY <1>1, <1>2, <1>3
<1> QED
  BY <1>1, <1>2, <1>4

\* An entity just made (objects.cpp acquire_entity).
LEMMA BareEntity ==
  ASSUME NEW c \in Class, NEW b \in Instance \cup {Box}
  PROVE  /\ Bare(c, b) \in Entity /\ Bare(c, b) # None
         /\ Bare(c, b).cls = c /\ Bare(c, b).body = b
         /\ Bare(c, b).boxMaterial = c /\ Bare(c, b).fade = None
<1>1. Bare(c, b) \in Entity
  BY DEF Bare, Entity
<1> QED
  BY <1>1, PoolConstants DEF Bare

\* The procedural box (objects.cpp acquire_entity).
LEMMA BoxedWorld ==
  ASSUME NEW g, NEW E, World(g, E), NEW c \in Class, NEW h \in Place, E[h] = None
  PROVE  LET s == Boxed(g, c) IN
         s.entity \in Entity /\ s.entity.cls = c
           /\ World(s.gpu, [E EXCEPT ![h] = s.entity])
<1> DEFINE e == Bare(c, Box)
           F == [E EXCEPT ![h] = e]
<1>1. e \in Entity /\ e # None /\ e.cls = c /\ e.body = Box /\ e.fade = None /\ e.boxMaterial = c
  BY BareEntity
<1>2. F \in Assignment /\ \A k \in Place : F[k] = IF k = h THEN e ELSE E[k]
  BY <1>1 DEF World, Assignment
<1> HIDE DEF e, F
<1>4. Pools(g, F)
  <2>1. FreeListsRight(g, F)
    <3> SUFFICES ASSUME NEW d \in Modelled, NEW k \in 1..Len(g.free[d])
                 PROVE  \A q \in Place : F[q] # None => F[q].body # g.free[d][k]
      BY DEF World, Pools, FreeListsRight
    <3>1. g.free[d][k] # Box
      BY FreeList DEF World
    <3> QED
      BY <1>1, <1>2, <3>1 DEF World, Pools, FreeListsRight
  <2>2. BodiesRight(g, F)
    BY <1>1, <1>2 DEF World, Pools, BodiesRight
  <2>3. NoneLost(g, F)
    <3> SUFFICES ASSUME NEW x \in Instance, x[2] <= g.size[x[1]]
                 PROVE  Idle(g, x) \/ \E q \in Place : F[q] # None /\ F[q].body = x
      BY DEF NoneLost
    <3>1. Idle(g, x) \/ \E q \in Place : E[q] # None /\ E[q].body = x
      BY DEF World, Pools, NoneLost
    <3> QED
      BY <1>2, <3>1
  <2> QED
    BY <2>1, <2>2, <2>3 DEF Pools
<1>5. Bindings(g, F)
  BY <1>1, <1>2 DEF World, Bindings
<1>6. Fades(g, F)
  <2>1. \A f \in Fade : f # None
    BY PoolConstants
  <2>2. ASSUME NEW f \in Fade
        PROVE  f \in g.live <=> \E q \in Place : F[q] # None /\ F[q].fade = f
    BY <1>1, <1>2, <2>1 DEF World, Fades
  <2>3. \A q, k \in Place : F[q] # None /\ F[k] # None /\ F[q].fade # None /\ F[q].fade = F[k].fade
          => q = k
    BY <1>1, <1>2 DEF World, Fades
  <2> QED
    BY <2>2, <2>3 DEF Fades
<1>7. World(g, F)
  BY <1>2, <1>4, <1>5, <1>6 DEF World
<1> QED
  BY <1>1, <1>7 DEF Boxed, e, F

\* An instance nobody draws and no free list holds any more goes to a new
\* entity, bound to its class's material (objects.cpp acquire_entity).
LEMMA TakenWorld ==
  ASSUME NEW g, NEW E, World(g, E), NEW c \in Modelled, NEW h \in Place, E[h] = None,
         NEW t \in Worlds, NEW x \in Instance,
         x[1] = c, x[2] <= t.size[c],
         \A k \in Place : E[k] # None => E[k].body # x,
         FreeListsRight(t, E),
         \A d \in Modelled : \A k \in 1..Len(t.free[d]) : t.free[d][k] # x,
         \A k \in Place : E[k] # None /\ E[k].body # Box => E[k].body[2] <= t.size[E[k].cls],
         \A y \in Instance : y # x /\ y[2] <= t.size[y[1]] =>
           Idle(t, y) \/ \E k \in Place : E[k] # None /\ E[k].body = y,
         t.bound = [g.bound EXCEPT ![x] = c], t.live = g.live
  PROVE  /\ Bare(c, x) \in Entity /\ Bare(c, x).cls = c
         /\ World(t, [E EXCEPT ![h] = Bare(c, x)])
<1> DEFINE e == Bare(c, x)
           F == [E EXCEPT ![h] = e]
<1>0. c \in Class /\ x # Box
  BY PoolConstants
<1>1. e \in Entity /\ e # None /\ e.cls = c /\ e.body = x /\ e.fade = None
  BY <1>0, BareEntity
<1>2. F \in Assignment /\ \A k \in Place : F[k] = IF k = h THEN e ELSE E[k]
  BY <1>1 DEF World, Assignment
<1> HIDE DEF e, F
<1>4. Pools(t, F)
  <2>1. FreeListsRight(t, F)
    <3> SUFFICES ASSUME NEW d \in Modelled, NEW k \in 1..Len(t.free[d])
                 PROVE  \A q \in Place : F[q] # None => F[q].body # t.free[d][k]
      BY DEF FreeListsRight
    <3> QED
      BY <1>1, <1>2 DEF FreeListsRight
  <2>2. BodiesRight(t, F)
    <3> SUFFICES ASSUME NEW q \in Place, F[q] # None, F[q].body # Box
                 PROVE  /\ F[q].body[1] = F[q].cls /\ F[q].body[2] <= t.size[F[q].cls]
                        /\ \A k \in Place : F[k] # None /\ F[k].body = F[q].body => k = q
      BY DEF BodiesRight
    <3>1. CASE q = h
      BY <3>1, <1>1, <1>2
    <3>2. CASE q # h
      BY <3>2, <1>1, <1>2 DEF World, Pools, BodiesRight
    <3> QED
      BY <3>1, <3>2
  <2>3. NoneLost(t, F)
    <3> SUFFICES ASSUME NEW y \in Instance, y[2] <= t.size[y[1]]
                 PROVE  Idle(t, y) \/ \E q \in Place : F[q] # None /\ F[q].body = y
      BY DEF NoneLost
    <3>1. CASE y = x
      BY <3>1, <1>1, <1>2
    <3>2. CASE y # x
      <4>1. Idle(t, y) \/ \E q \in Place : E[q] # None /\ E[q].body = y
        BY <3>2
      <4> QED
        BY <4>1, <1>2
    <3> QED
      BY <3>1, <3>2
  <2> QED
    BY <2>1, <2>2, <2>3 DEF Pools
<1>5. Bindings(t, F)
  <2>1. \A y \in Instance : t.bound[y] = IF y = x THEN c ELSE g.bound[y]
    BY DEF World, Worlds
  <2> SUFFICES ASSUME NEW q \in Place, F[q] # None
               PROVE  (IF F[q].body = Box THEN F[q].boxMaterial ELSE t.bound[F[q].body])
                        = (IF F[q].fade = None THEN F[q].cls ELSE F[q].fade)
    BY DEF Bindings
  <2>2. CASE q = h
    BY <2>1, <2>2, <1>0, <1>1, <1>2
  <2>3. CASE q # h
    <3>1. E[q] # None /\ F[q] = E[q] /\ E[q].body # x /\ E[q] \in Entity
      BY <2>3, <1>2 DEF World, Assignment
    <3>2. E[q].body \in Instance \cup {Box}
      BY <3>1 DEF Entity
    <3> QED
      BY <2>1, <3>1, <3>2 DEF World, Bindings
  <2> QED
    BY <2>2, <2>3
<1>6. Fades(t, F)
  <2>1. \A f \in Fade : f # None
    BY PoolConstants
  <2>2. ASSUME NEW f \in Fade
        PROVE  f \in t.live <=> \E q \in Place : F[q] # None /\ F[q].fade = f
    BY <1>1, <1>2, <2>1 DEF World, Fades
  <2>3. \A q, k \in Place : F[q] # None /\ F[k] # None /\ F[q].fade # None /\ F[q].fade = F[k].fade
          => q = k
    BY <1>1, <1>2 DEF World, Fades
  <2> QED
    BY <2>2, <2>3 DEF Fades
<1>7. World(t, F)
  BY <1>2, <1>4, <1>5, <1>6 DEF World
<1> QED
  BY <1>1, <1>7 DEF e, F

\* The instance given back last (objects.cpp acquire_entity).
LEMMA ReuseWorld ==
  ASSUME NEW g, NEW E, World(g, E), NEW c \in Modelled, NEW h \in Place, E[h] = None,
         g.free[c] # <<>>
  PROVE  LET s == Reuse(g, c) IN
         s.entity \in Entity /\ s.entity.cls = c
           /\ World(s.gpu, [E EXCEPT ![h] = s.entity])
<1> DEFINE f == g.free[c]
           n == Len(f)
           x == f[n]
           r == SubSeq(f, 1, n - 1)
           t == [g EXCEPT !.free[c] = r, !.bound[x] = c]
<1>0. g \in Worlds
  BY DEF World
<1>1. /\ f \in Seq(Instance) /\ r \in Seq(Instance) /\ n \in 1..n /\ n \in Nat
      /\ Len(r) = n - 1 /\ x \in Instance /\ \A k \in 1..n - 1 : r[k] = f[k]
  <2>1. f \in Seq(Instance) /\ n \in Nat
    BY <1>0, FreeList
  <2> QED
    BY <2>1, PopBack
<1>2. c \in Material
  BY PoolConstants DEF Material
<1>3. /\ t.free = [g.free EXCEPT ![c] = r] /\ t.size = g.size
      /\ t.bound = [g.bound EXCEPT ![x] = c] /\ t.live = g.live
  BY <1>0 DEF Worlds
<1>4. t \in Worlds
  <2>1. t.free \in [Modelled -> Seq(Instance)]
    BY <1>0, <1>1, <1>3 DEF Worlds
  <2>2. t.bound \in [Instance -> Material]
    BY <1>0, <1>1, <1>2, <1>3 DEF Worlds
  <2> QED
    BY <1>0, <2>1, <2>2 DEF Worlds
<1>5. \A d \in Modelled : t.free[d] = IF d = c THEN r ELSE g.free[d]
  BY <1>0, <1>3 DEF Worlds
<1>6. /\ x[1] = c /\ x[2] <= g.size[c]
      /\ \A k \in Place : E[k] # None => E[k].body # x
      /\ \A k \in 1..n : f[k] = x => k = n
  BY <1>1 DEF World, Pools, FreeListsRight
<1> HIDE DEF t, r, x, n, f
<1>7. FreeListsRight(t, E)
  <2> SUFFICES ASSUME NEW d \in Modelled, NEW k \in 1..Len(t.free[d])
               PROVE  /\ t.free[d][k][1] = d /\ t.free[d][k][2] <= t.size[d]
                      /\ \A q \in Place : E[q] # None => E[q].body # t.free[d][k]
                      /\ \A j \in 1..Len(t.free[d]) : t.free[d][j] = t.free[d][k] => j = k
    BY DEF FreeListsRight
  <2>1. CASE d # c
    BY <2>1, <1>3, <1>5 DEF World, Pools, FreeListsRight
  <2>2. CASE d = c
    <3>1. k \in 1..n - 1 /\ t.free[d] = r /\ k \in 1..n /\ \A j \in 1..n - 1 : j \in 1..n
      BY <2>2, <1>1, <1>5
    <3> QED
      BY <2>2, <3>1, <1>1, <1>3 DEF World, Pools, FreeListsRight, f, n
  <2> QED
    BY <2>1, <2>2
<1>8. ASSUME NEW d \in Modelled, NEW k \in 1..Len(t.free[d])
      PROVE  t.free[d][k] # x
  <2>1. CASE d # c
    BY <2>1, <1>5, <1>6 DEF World, Pools, FreeListsRight
  <2>2. CASE d = c
    <3>1. k \in 1..n - 1 /\ t.free[d] = r /\ k \in 1..n /\ k # n
      BY <2>2, <1>1, <1>5
    <3> QED
      BY <3>1, <1>1, <1>6
  <2> QED
    BY <2>1, <2>2
<1>9. ASSUME NEW y \in Instance, y # x, y[2] <= t.size[y[1]]
      PROVE  Idle(t, y) \/ \E k \in Place : E[k] # None /\ E[k].body = y
  <2>0. y[1] \in Modelled
    BY DEF Instance
  <2>1. ASSUME Idle(g, y)
        PROVE  Idle(t, y)
    <3>1. PICK k \in 1..Len(g.free[y[1]]) : g.free[y[1]][k] = y
      BY <2>1 DEF Idle
    <3>2. CASE y[1] = c
      <4>1. k \in 1..n - 1
        BY <3>1, <3>2, <1>1, <1>9 DEF x, f, n
      <4>2. t.free[y[1]][k] = y /\ k \in 1..Len(t.free[y[1]])
        BY <4>1, <3>1, <3>2, <1>1, <1>5 DEF f
      <4> QED
        BY <4>2 DEF Idle
    <3>3. CASE y[1] # c
      BY <3>1, <3>3, <2>0, <1>5 DEF Idle
    <3> QED
      BY <3>2, <3>3
  <2> QED
    BY <1>3, <1>9, <2>1 DEF World, Pools, NoneLost
<1>10. \A k \in Place : E[k] # None /\ E[k].body # Box => E[k].body[2] <= t.size[E[k].cls]
  BY <1>3 DEF World, Pools, BodiesRight
<1>11. x[2] <= t.size[c]
  BY <1>3, <1>6
<1>12. /\ Bare(c, x) \in Entity /\ Bare(c, x).cls = c
       /\ World(t, [E EXCEPT ![h] = Bare(c, x)])
  <2>1. \A d \in Modelled : \A k \in 1..Len(t.free[d]) : t.free[d][k] # x
    BY <1>8
  <2>2. \A y \in Instance : y # x /\ y[2] <= t.size[y[1]] =>
          Idle(t, y) \/ \E k \in Place : E[k] # None /\ E[k].body = y
    BY <1>9
  <2>3. t.bound = [g.bound EXCEPT ![x] = c] /\ t.live = g.live
    BY <1>3
  <2>4. x \in Instance /\ t \in Worlds /\ x[1] = c
    BY <1>1, <1>4, <1>6
  <2> QED
    BY <2>1, <2>2, <2>3, <2>4, <1>6, <1>7, <1>10, <1>11, TakenWorld
<1>13. Reuse(g, c) = [gpu |-> t, entity |-> Bare(c, x)]
  BY DEF Reuse, t, r, x, n, f
<1> QED
  BY <1>12, <1>13

\* An instance the pool grows by (objects.cpp acquire_entity).
LEMMA GrowWorld ==
  ASSUME NEW g, NEW E, World(g, E), NEW c \in Modelled, NEW h \in Place, E[h] = None,
         g.size[c] < Cap
  PROVE  LET s == Grow(g, c) IN
         s.entity \in Entity /\ s.entity.cls = c
           /\ World(s.gpu, [E EXCEPT ![h] = s.entity])
<1> DEFINE n == g.size[c] + 1
           x == <<c, n>>
           t == [g EXCEPT !.size[c] = @ + 1, !.bound[x] = c]
<1>0. g \in Worlds /\ g.size[c] \in 0..Cap /\ Cap \in Nat
  BY FreeList, PoolConstants DEF World
<1>1. n \in 1..Cap /\ n \in 0..Cap /\ x \in Instance /\ x[1] = c /\ x[2] = n
  BY <1>0 DEF Instance
<1>2. c \in Material
  BY PoolConstants DEF Material
<1>3. /\ t.free = g.free /\ t.size = [g.size EXCEPT ![c] = n]
      /\ t.bound = [g.bound EXCEPT ![x] = c] /\ t.live = g.live
  BY <1>0 DEF Worlds
<1>4. t \in Worlds
  <2>1. t.size \in [Modelled -> 0..Cap]
    BY <1>0, <1>1, <1>3 DEF Worlds
  <2>2. t.bound \in [Instance -> Material]
    BY <1>0, <1>1, <1>2, <1>3 DEF Worlds
  <2> QED
    BY <1>0, <2>1, <2>2 DEF Worlds
<1>5. \A d \in Modelled : t.size[d] = (IF d = c THEN n ELSE g.size[d]) /\ g.size[d] \in 0..Cap
  BY <1>0, <1>3 DEF Worlds
<1>6. n = g.size[c] + 1
  OBVIOUS
<1> HIDE DEF t, x, n
<1>7. \A d \in Modelled : g.size[d] <= t.size[d] /\ g.size[d] \in Nat /\ t.size[d] \in Nat
  BY <1>0, <1>5, <1>6
<1>8. \A d \in Modelled : \A k \in 1..Len(g.free[d]) :
         g.free[d][k] \in Instance /\ g.free[d][k][1] = d /\ g.free[d][k][2] <= g.size[d]
  BY <1>0, FreeList DEF World, Pools, FreeListsRight
<1>9. \A d \in Modelled : \A k \in 1..Len(t.free[d]) : t.free[d][k] # x
  BY <1>0, <1>1, <1>3, <1>6, <1>8, SMTT(30)
<1>10. FreeListsRight(t, E)
  <2> SUFFICES ASSUME NEW d \in Modelled, NEW k \in 1..Len(t.free[d])
               PROVE  /\ t.free[d][k][1] = d /\ t.free[d][k][2] <= t.size[d]
                      /\ \A q \in Place : E[q] # None => E[q].body # t.free[d][k]
                      /\ \A j \in 1..Len(t.free[d]) : t.free[d][j] = t.free[d][k] => j = k
    BY DEF FreeListsRight
  <2>1. k \in 1..Len(g.free[d]) /\ t.free[d][k] = g.free[d][k]
    BY <1>3
  <2>2. t.free[d][k][2] \in Nat
    BY <1>8, <2>1 DEF Instance
  <2>3. t.free[d][k][2] <= t.size[d]
    BY <1>7, <1>8, <2>1, <2>2
  <2> QED
    BY <1>3, <2>1, <2>3 DEF World, Pools, FreeListsRight
<1>11. \A k \in Place : E[k] # None /\ E[k].body # Box =>
         /\ E[k].cls \in Modelled /\ E[k].body[2] \in Nat
         /\ E[k].body[1] = E[k].cls /\ E[k].body[2] <= g.size[E[k].cls]
  <2> SUFFICES ASSUME NEW k \in Place, E[k] # None, E[k].body # Box
               PROVE  /\ E[k].cls \in Modelled /\ E[k].body[2] \in Nat
                      /\ E[k].body[1] = E[k].cls /\ E[k].body[2] <= g.size[E[k].cls]
    OBVIOUS
  <2>1. E[k].body \in Instance
    BY DEF World, Assignment, Entity
  <2>2. E[k].body[1] = E[k].cls /\ E[k].body[2] <= g.size[E[k].cls]
    BY DEF World, Pools, BodiesRight
  <2> QED
    BY <2>1, <2>2 DEF Instance
<1>12. \A k \in Place : E[k] # None => E[k].body # x
  <2> SUFFICES ASSUME NEW k \in Place, E[k] # None, E[k].body = x
               PROVE  FALSE
    OBVIOUS
  <2>1. E[k].body # Box
    BY <1>1, PoolConstants
  <2> QED
    BY <1>0, <1>1, <1>6, <1>11, <2>1
<1>13. \A k \in Place : E[k] # None /\ E[k].body # Box => E[k].body[2] <= t.size[E[k].cls]
  <2> SUFFICES ASSUME NEW k \in Place, E[k] # None, E[k].body # Box
               PROVE  E[k].body[2] <= t.size[E[k].cls]
    OBVIOUS
  <2>1. E[k].cls \in Modelled /\ E[k].body[2] \in Nat /\ E[k].body[2] <= g.size[E[k].cls]
    BY <1>11
  <2> DEFINE d == E[k].cls
             b == E[k].body[2]
  <2>2. d \in Modelled /\ b \in Nat /\ b <= g.size[d]
    BY <2>1
  <2> HIDE DEF d, b
  <2>3. b <= t.size[d]
    BY <1>7, <2>2
  <2> QED
    BY <2>3 DEF d, b
<1>14. \A y \in Instance : y # x /\ y[2] <= t.size[y[1]] =>
         Idle(t, y) \/ \E k \in Place : E[k] # None /\ E[k].body = y
  <2> SUFFICES ASSUME NEW y \in Instance, y # x, y[2] <= t.size[y[1]]
               PROVE  Idle(t, y) \/ \E k \in Place : E[k] # None /\ E[k].body = y
    OBVIOUS
  <2>1. y[1] \in Modelled /\ y[2] \in Nat /\ y = <<y[1], y[2]>>
    BY DEF Instance
  <2>2. y[2] <= g.size[y[1]]
    BY <1>0, <1>1, <1>5, <1>6, <2>1 DEF x
  <2>3. Idle(g, y) \/ \E k \in Place : E[k] # None /\ E[k].body = y
    BY <2>2 DEF World, Pools, NoneLost
  <2> QED
    BY <1>3, <2>3 DEF Idle
<1>15. x[2] <= t.size[c] /\ t.bound = [g.bound EXCEPT ![x] = c] /\ t.live = g.live
  BY <1>0, <1>1, <1>3, <1>5, <1>6
<1>16. /\ Bare(c, x) \in Entity /\ Bare(c, x).cls = c
       /\ World(t, [E EXCEPT ![h] = Bare(c, x)])
  BY <1>1, <1>4, <1>9, <1>10, <1>12, <1>13, <1>14, <1>15, TakenWorld
<1>17. Grow(g, c) = [gpu |-> t, entity |-> Bare(c, x)]
  BY DEF Grow, t, x, n
<1> QED
  BY <1>16, <1>17

\* An entity for a place that has none (objects.cpp acquire_entity).
LEMMA AcquireWorld ==
  ASSUME NEW g, NEW E, World(g, E), NEW c \in Class, NEW h \in Place, E[h] = None
  PROVE  LET s == Acquire(g, c) IN
         s.entity \in Entity /\ s.entity.cls = c
           /\ World(s.gpu, [E EXCEPT ![h] = s.entity])
<1>1. CASE c \notin Modelled
  BY <1>1, BoxedWorld DEF Acquire
<1>2. CASE c \in Modelled /\ g.free[c] # <<>>
  BY <1>2, ReuseWorld DEF Acquire
<1>3. CASE c \in Modelled /\ g.free[c] = <<>> /\ g.size[c] < Cap
  BY <1>3, GrowWorld DEF Acquire
<1>4. CASE c \in Modelled /\ g.free[c] = <<>> /\ ~(g.size[c] < Cap)
  BY <1>4, BoxedWorld DEF Acquire
<1> QED
  BY <1>1, <1>2, <1>3, <1>4

\* An entity that goes gives its instance and its fade instance back
\* (objects.cpp release_object_entity).
LEMMA ReleaseWorld ==
  ASSUME NEW g, NEW E, World(g, E), NEW h \in Place, E[h] # None
  PROVE  World(Release(g, E[h]), [E EXCEPT ![h] = None])
<1> DEFINE e == E[h]
           F == [E EXCEPT ![h] = None]
           r == Returned(g.free, e)
           t == [g EXCEPT !.live = g.live \ {e.fade}, !.free = r]
<1>0. g \in Worlds
  BY DEF World
<1>1. /\ e \in Entity /\ e # None /\ e.cls \in Class
      /\ e.body \in Instance \cup {Box} /\ e.fade \in Fade \cup {None}
  BY DEF World, Assignment, Entity
<1>2. F \in Assignment /\ \A k \in Place : F[k] = IF k = h THEN None ELSE E[k]
  BY DEF World, Assignment
<1>3. /\ t.size = g.size /\ t.bound = g.bound /\ t.live = g.live \ {e.fade}
      /\ t.free = IF e.body = Box THEN g.free
                  ELSE [g.free EXCEPT ![e.cls] = Append(g.free[e.cls], e.body)]
  BY <1>0 DEF Worlds, Returned
<1>4. e.body # Box =>
        /\ e.body \in Instance /\ e.cls \in Modelled
        /\ e.body[1] = e.cls /\ e.body[2] <= g.size[e.cls]
        /\ \A k \in Place : E[k] # None /\ E[k].body = e.body => k = h
  BY <1>1 DEF World, Pools, BodiesRight, Instance
<1>5. \A d \in Modelled :
        \/ t.free[d] = g.free[d] /\ (e.body = Box \/ d # e.cls)
        \/ t.free[d] = Append(g.free[d], e.body) /\ d = e.cls /\ e.body # Box
  <2>1. CASE e.body = Box
    BY <2>1, <1>3
  <2>2. CASE e.body # Box
    <3>1. t.free = [g.free EXCEPT ![e.cls] = Append(g.free[e.cls], e.body)]
      BY <2>2, <1>3
    <3>2. \A d \in Modelled :
            t.free[d] = IF d = e.cls THEN Append(g.free[e.cls], e.body) ELSE g.free[d]
      BY <3>1, <1>0 DEF Worlds
    <3> QED
      BY <2>2, <3>2
  <2> QED
    BY <2>1, <2>2
<1>6. ASSUME NEW d \in Modelled
      PROVE  /\ g.free[d] \in Seq(Instance) /\ Len(g.free[d]) \in Nat
             /\ t.free[d] = Append(g.free[d], e.body) /\ e.body # Box
                  => /\ t.free[d] \in Seq(Instance) /\ Len(t.free[d]) = Len(g.free[d]) + 1
                     /\ \A k \in 1..Len(g.free[d]) : t.free[d][k] = g.free[d][k]
                     /\ t.free[d][Len(g.free[d]) + 1] = e.body
  <2>1. g.free[d] \in Seq(Instance) /\ Len(g.free[d]) \in Nat
    BY <1>0, FreeList
  <2>2. ASSUME t.free[d] = Append(g.free[d], e.body), e.body # Box
        PROVE  /\ t.free[d] \in Seq(Instance) /\ Len(t.free[d]) = Len(g.free[d]) + 1
               /\ \A k \in 1..Len(g.free[d]) : t.free[d][k] = g.free[d][k]
               /\ t.free[d][Len(g.free[d]) + 1] = e.body
    <3>1. e.body \in Instance
      BY <1>1, <2>2
    <3> HIDE DEF t, e
    <3> QED
      BY <2>1, <2>2, <3>1, AppendProperties
  <2> QED
    BY <2>1, <2>2
<1>7. t \in Worlds
  <2>1. t.free \in [Modelled -> Seq(Instance)]
    <3>1. CASE e.body = Box
      BY <3>1, <1>0, <1>3 DEF Worlds
    <3>2. CASE e.body # Box
      <4>1. Append(g.free[e.cls], e.body) \in Seq(Instance)
        BY <3>2, <1>0, <1>4, FreeList, AppendProperties
      <4>2. t.free = [g.free EXCEPT ![e.cls] = Append(g.free[e.cls], e.body)]
        BY <3>2, <1>3
      <4> QED
        BY <4>1, <4>2, <1>0, <1>4 DEF Worlds
    <3> QED
      BY <3>1, <3>2
  <2>2. t.live \in SUBSET Fade
    BY <1>0, <1>3 DEF Worlds
  <2>3. r \in [Modelled -> Seq(Instance)] /\ g.live \ {e.fade} \in SUBSET Fade
    BY <1>0, <2>1, <2>2 DEF Worlds
  <2> HIDE DEF r, e
  <2> QED
    BY <1>0, <2>3 DEF Worlds
<1>14. Release(g, E[h]) = t
  BY DEF Release
<1> HIDE DEF t, r, F, e
<1>8. FreeListsRight(t, F)
  <2> SUFFICES ASSUME NEW d \in Modelled, NEW k \in 1..Len(t.free[d])
               PROVE  /\ t.free[d][k][1] = d /\ t.free[d][k][2] <= t.size[d]
                      /\ \A q \in Place : F[q] # None => F[q].body # t.free[d][k]
                      /\ \A j \in 1..Len(t.free[d]) : t.free[d][j] = t.free[d][k] => j = k
    BY DEF FreeListsRight
  <2>1. CASE t.free[d] = g.free[d]
    BY <2>1, <1>2, <1>3 DEF World, Pools, FreeListsRight
  <2>2. CASE t.free[d] = Append(g.free[d], e.body) /\ d = e.cls /\ e.body # Box
    <3>1. /\ Len(g.free[d]) \in Nat /\ Len(t.free[d]) = Len(g.free[d]) + 1
          /\ \A j \in 1..Len(g.free[d]) : t.free[d][j] = g.free[d][j]
          /\ t.free[d][Len(g.free[d]) + 1] = e.body
      BY <1>6, <2>2
    <3>2. /\ \A j \in 1..Len(g.free[d]) :
               /\ g.free[d][j][1] = d /\ g.free[d][j][2] <= g.size[d]
               /\ \A q \in Place : E[q] # None => E[q].body # g.free[d][j]
               /\ \A i \in 1..Len(g.free[d]) : g.free[d][i] = g.free[d][j] => i = j
      BY DEF World, Pools, FreeListsRight
    <3>3. \A j \in 1..Len(g.free[d]) : g.free[d][j] # e.body
      BY <1>1, <3>2 DEF e
    <3>4. \A j \in 1..Len(t.free[d]) : j \in 1..Len(g.free[d]) \/ j = Len(g.free[d]) + 1
      BY <3>1
    <3>5. CASE k \in 1..Len(g.free[d])
      <4>1. t.free[d][k] = g.free[d][k]
        BY <3>5, <3>1
      <4>2. \A j \in 1..Len(t.free[d]) : t.free[d][j] = t.free[d][k] => j = k
        BY <3>5, <4>1, <3>1, <3>2, <3>3, <3>4
      <4>3. \A q \in Place : F[q] # None => F[q].body # g.free[d][k]
        BY <3>5, <3>2, <1>2
      <4> QED
        BY <3>5, <4>1, <4>2, <4>3, <3>2, <1>3
    <3>6. CASE k = Len(g.free[d]) + 1
      <4>1. t.free[d][k] = e.body
        BY <3>6, <3>1
      <4>2. \A j \in 1..Len(t.free[d]) : t.free[d][j] = t.free[d][k] => j = k
        BY <3>6, <4>1, <3>1, <3>3, <3>4
      <4> QED
        BY <4>1, <4>2, <2>2, <1>2, <1>3, <1>4
    <3> QED
      BY <3>4, <3>5, <3>6
  <2> QED
    BY <1>5, <2>1, <2>2
<1>9. BodiesRight(t, F)
  BY <1>2, <1>3 DEF World, Pools, BodiesRight
<1>10. NoneLost(t, F)
  <2> SUFFICES ASSUME NEW y \in Instance, y[2] <= t.size[y[1]]
               PROVE  Idle(t, y) \/ \E q \in Place : F[q] # None /\ F[q].body = y
    BY DEF NoneLost
  <2>0. y[1] \in Modelled /\ y # Box
    BY PoolConstants DEF Instance
  <2>1. ASSUME NEW k \in 1..Len(g.free[y[1]]), g.free[y[1]][k] = y
        PROVE  Idle(t, y)
    <3>1. k \in 1..Len(t.free[y[1]]) /\ t.free[y[1]][k] = y
      BY <2>0, <2>1, <1>5, <1>6
    <3> QED
      BY <3>1 DEF Idle
  <2>2. ASSUME e.body = y
        PROVE  Idle(t, y)
    <3>1. y[1] = e.cls /\ t.free[y[1]] = Append(g.free[y[1]], e.body)
      BY <2>0, <2>2, <1>4, <1>5
    <3>2. Len(g.free[y[1]]) + 1 \in 1..Len(t.free[y[1]]) /\ t.free[y[1]][Len(g.free[y[1]]) + 1] = y
      BY <2>0, <2>2, <3>1, <1>6
    <3> QED
      BY <3>2 DEF Idle
  <2>3. Idle(g, y) \/ \E q \in Place : E[q] # None /\ E[q].body = y
    BY <1>3 DEF World, Pools, NoneLost
  <2>4. CASE Idle(g, y)
    BY <2>1, <2>4 DEF Idle
  <2>5. ASSUME NEW q \in Place, E[q] # None, E[q].body = y
        PROVE  Idle(t, y) \/ (F[q] # None /\ F[q].body = y)
    <3>1. CASE q = h
      <4>1. e.body = y
        BY <3>1, <2>5 DEF e
      <4> QED
        BY <4>1, <2>2
    <3>2. CASE q # h
      BY <3>2, <2>5, <1>2
    <3> QED
      BY <3>1, <3>2
  <2> QED
    BY <2>3, <2>4, <2>5
<1>11. Bindings(t, F)
  BY <1>2, <1>3 DEF World, Bindings
<1>12. Fades(t, F)
  <2>1. ASSUME NEW f \in Fade
        PROVE  f \in t.live <=> \E q \in Place : F[q] # None /\ F[q].fade = f
    <3>0. f # None
      BY PoolConstants
    <3>1. f \in g.live <=> \E q \in Place : E[q] # None /\ E[q].fade = f
      BY DEF World, Fades
    <3>2. \A q \in Place : E[q] # None /\ E[q].fade = f /\ e.fade = f => q = h
      BY <1>1, <3>0 DEF World, Fades, e
    <3> QED
      BY <1>1, <1>2, <1>3, <3>1, <3>2 DEF e
  <2>2. \A q, k \in Place : F[q] # None /\ F[k] # None /\ F[q].fade # None /\ F[q].fade = F[k].fade
          => q = k
    BY <1>2 DEF World, Fades
  <2> QED
    BY <2>1, <2>2 DEF Fades
<1>13. World(t, F)
  BY <1>2, <1>7, <1>8, <1>9, <1>10, <1>11, <1>12 DEF World, Pools
<1> QED
  BY <1>13, <1>14 DEF F

\* Everything of an entity but its instance and its materials may change in
\* place (objects.cpp update_entity_arrow, update_entity_path).
LEMMA TrimmedWorld ==
  ASSUME NEW g, NEW E, World(g, E), NEW h \in Place, E[h] # None,
         NEW e \in Entity, e.cls = E[h].cls, e.body = E[h].body,
         e.boxMaterial = E[h].boxMaterial, e.fade = E[h].fade
  PROVE  World(g, [E EXCEPT ![h] = e])
<1> DEFINE F == [E EXCEPT ![h] = e]
<1>1. F \in Assignment /\ \A k \in Place : F[k] = IF k = h THEN e ELSE E[k]
  BY DEF World, Assignment
<1>2. e # None
  BY PoolConstants
<1> DEFINE As(k) == F[k].cls = E[k].cls /\ F[k].body = E[k].body
                      /\ F[k].boxMaterial = E[k].boxMaterial /\ F[k].fade = E[k].fade
<1>3. \A k \in Place : (F[k] # None <=> E[k] # None) /\ (E[k] # None => As(k))
  BY <1>1, <1>2
<1> HIDE DEF F
<1>4. FreeListsRight(g, F) /\ BodiesRight(g, F) /\ Bindings(g, F)
  <2>1. FreeListsRight(g, F)
    BY <1>3 DEF World, Pools, FreeListsRight
  <2>2. BodiesRight(g, F)
    BY <1>3 DEF World, Pools, BodiesRight
  <2>3. Bindings(g, F)
    BY <1>3 DEF World, Bindings
  <2> QED
    BY <2>1, <2>2, <2>3
<1>5. NoneLost(g, F)
  <2> SUFFICES ASSUME NEW x \in Instance, x[2] <= g.size[x[1]]
               PROVE  Idle(g, x) \/ \E q \in Place : F[q] # None /\ F[q].body = x
    BY DEF NoneLost
  <2>1. Idle(g, x) \/ \E q \in Place : E[q] # None /\ E[q].body = x
    BY DEF World, Pools, NoneLost
  <2> QED
    BY <1>3, <2>1
<1>6. Fades(g, F)
  BY <1>3 DEF World, Fades
<1>7. World(g, F)
  BY <1>1, <1>4, <1>5, <1>6 DEF World, Pools
<1> QED
  BY <1>7 DEF F

\* The ribbon and the arrow of an entity (objects.cpp update_entity_path).
LEMMA PathOfEntity ==
  ASSUME NEW e \in Entity, NEW b \in BOOLEAN, NEW p \in Path \cup {None}
  PROVE  LET n == UpdatePath([e EXCEPT !.arrow = b], p) IN
         /\ n \in Entity /\ n.cls = e.cls /\ n.body = e.body
         /\ n.boxMaterial = e.boxMaterial /\ n.fade = e.fade
<1>1. p # None => p \in Path /\ Signature[p] \in Path
  BY PoolConstants
<1> QED
  BY <1>1 DEF UpdatePath, Entity

\* An entity bound to another material, with a fade instance made or destroyed
\* (objects.cpp update_entity_staleness).
LEMMA ReboundWorld ==
  ASSUME NEW g, NEW E, World(g, E), NEW h \in Place, E[h] # None,
         NEW t \in Worlds, t.free = g.free, t.size = g.size,
         NEW e \in Entity, e.cls = E[h].cls, e.body = E[h].body,
         (IF e.body = Box THEN e.boxMaterial ELSE t.bound[e.body])
           = (IF e.fade = None THEN e.cls ELSE e.fade),
         \A y \in Instance : y # e.body => t.bound[y] = g.bound[y],
         \A f \in Fade : f \in t.live <=> f = e.fade \/ (f \in g.live /\ f # E[h].fade),
         e.fade # None => e.fade \notin g.live
  PROVE  World(t, [E EXCEPT ![h] = e])
<1> DEFINE F == [E EXCEPT ![h] = e]
<1>1. F \in Assignment /\ \A k \in Place : F[k] = IF k = h THEN e ELSE E[k]
  BY DEF World, Assignment
<1>2. e # None
  BY PoolConstants
<1> DEFINE As(k) == F[k].cls = E[k].cls /\ F[k].body = E[k].body
<1>3. \A k \in Place : (F[k] # None <=> E[k] # None) /\ (E[k] # None => As(k))
  BY <1>1, <1>2
<1> HIDE DEF F
<1>4. FreeListsRight(t, F)
  BY <1>3 DEF World, Pools, FreeListsRight
<1>5. BodiesRight(t, F)
  BY <1>3 DEF World, Pools, BodiesRight
<1>6. NoneLost(t, F)
  <2> SUFFICES ASSUME NEW x \in Instance, x[2] <= t.size[x[1]]
               PROVE  Idle(t, x) \/ \E q \in Place : F[q] # None /\ F[q].body = x
    BY DEF NoneLost
  <2>1. Idle(g, x) \/ \E q \in Place : E[q] # None /\ E[q].body = x
    BY DEF World, Pools, NoneLost
  <2> QED
    BY <1>3, <2>1 DEF Idle
<1>7. Bindings(t, F)
  <2> SUFFICES ASSUME NEW q \in Place, F[q] # None
               PROVE  (IF F[q].body = Box THEN F[q].boxMaterial ELSE t.bound[F[q].body])
                        = (IF F[q].fade = None THEN F[q].cls ELSE F[q].fade)
    BY DEF Bindings
  <2>1. CASE q = h
    BY <2>1, <1>1
  <2>2. CASE q # h /\ E[q].body = Box
    BY <2>2, <1>1 DEF World, Bindings
  <2>3. CASE q # h /\ E[q].body # Box
    <3>1. F[q] = E[q] /\ E[q] # None /\ E[q] \in Entity
      BY <2>3, <1>1 DEF World, Assignment
    <3>2. E[q].body \in Instance
      BY <2>3, <3>1 DEF Entity
    <3>3. E[q].body # e.body
      BY <2>3, <3>1 DEF World, Pools, BodiesRight
    <3> QED
      BY <3>1, <3>2, <3>3, <2>3 DEF World, Bindings
  <2> QED
    BY <2>1, <2>2, <2>3
<1>8. Fades(t, F)
  <2>0. \A f \in Fade : f # None
    BY PoolConstants
  <2>1. \A q \in Place : E[q] # None => E[q].fade \in Fade \cup {None}
    BY DEF World, Assignment, Entity
  <2>2. e.fade # None => e.fade \in Fade /\ \A q \in Place : E[q] # None => E[q].fade # e.fade
    <3>1. e.fade # None => e.fade \in Fade
      BY DEF Entity
    <3> QED
      BY <3>1 DEF World, Fades
  <2>3. ASSUME NEW f \in Fade
        PROVE  f \in t.live <=> \E q \in Place : F[q] # None /\ F[q].fade = f
    <3>1. f \in g.live <=> \E q \in Place : E[q] # None /\ E[q].fade = f
      BY DEF World, Fades
    <3>2. \A q \in Place : E[q] # None /\ E[q].fade = f /\ E[h].fade = f => q = h
      BY <2>0 DEF World, Fades
    <3> QED
      BY <3>1, <3>2, <1>1, <1>2
  <2>4. ASSUME NEW q \in Place, NEW k \in Place, F[q] # None, F[k] # None,
               F[q].fade # None, F[q].fade = F[k].fade
        PROVE  q = k
    <3>1. CASE q # h /\ k # h
      BY <3>1, <2>4, <1>1 DEF World, Fades
    <3>2. CASE q = h /\ k # h
      BY <3>2, <2>2, <2>4, <1>1
    <3>3. CASE q # h /\ k = h
      BY <3>3, <2>2, <2>4, <1>1
    <3> QED
      BY <3>1, <3>2, <3>3
  <2> QED
    BY <2>3, <2>4 DEF Fades
<1>9. World(t, F)
  BY <1>1, <1>4, <1>5, <1>6, <1>7, <1>8 DEF World, Pools
<1> QED
  BY <1>9 DEF F

\* A fade instance is made, bound and destroyed (objects.cpp
\* update_entity_staleness).
LEMMA StalenessWorld ==
  ASSUME NEW g, NEW E, World(g, E), NEW h \in Place, E[h] # None, Fade \ g.live # {},
         NEW faded \in BOOLEAN
  PROVE  LET s == UpdateStaleness([gpu |-> g, entity |-> E[h]], faded) IN
         s.entity \in Entity /\ s.entity.cls = E[h].cls
           /\ World(s.gpu, [E EXCEPT ![h] = s.entity])
<1> DEFINE e == E[h]
           i == [gpu |-> g, entity |-> e]
           s == UpdateStaleness(i, faded)
           Refaded(m, l, f) == [BindEverywhere(i, m) EXCEPT !.gpu.live = l, !.entity.fade = f]
<1> SUFFICES s.entity \in Entity /\ s.entity.cls = E[h].cls
               /\ World(s.gpu, [E EXCEPT ![h] = s.entity])
  OBVIOUS
<1>0. g \in Worlds /\ e \in Entity /\ e.body \in Instance \cup {Box} /\ e.cls \in Class
      /\ e.boxMaterial \in Class \cup Fade
  BY DEF World, Assignment, Entity
<1>1. ASSUME NEW m \in Class \cup Fade
      PROVE  LET b == BindEverywhere(i, m) IN
             /\ b.gpu \in Worlds /\ b.gpu.free = g.free /\ b.gpu.size = g.size
             /\ b.gpu.live = g.live
             /\ b.entity \in Entity /\ b.entity.cls = e.cls /\ b.entity.body = e.body
             /\ b.entity.fade = e.fade
             /\ (IF e.body = Box THEN b.entity.boxMaterial ELSE b.gpu.bound[e.body]) = m
             /\ \A y \in Instance : y # e.body => b.gpu.bound[y] = g.bound[y]
             /\ b = [gpu |-> b.gpu, entity |-> b.entity]
  <2>1. CASE e.body = Box
    <3>1. BindEverywhere(i, m) = [gpu |-> g, entity |-> [e EXCEPT !.boxMaterial = m]]
      BY <2>1 DEF BindEverywhere
    <3>2. [e EXCEPT !.boxMaterial = m] \in Entity
      BY <1>0 DEF Entity
    <3> QED
      BY <2>1, <3>1, <3>2, <1>0 DEF Entity
  <2>2. CASE e.body # Box
    <3>1. BindEverywhere(i, m) = [gpu |-> [g EXCEPT !.bound = [@ EXCEPT ![e.body] = m]], entity |-> e]
      BY <2>2, <1>0 DEF BindEverywhere, Worlds
    <3>2. m \in Material /\ e.body \in Instance
      BY <2>2, <1>0 DEF Material
    <3>3. [g.bound EXCEPT ![e.body] = m] \in [Instance -> Material]
      BY <3>2, <1>0 DEF Worlds
    <3> DEFINE w == [g.bound EXCEPT ![e.body] = m]
               t == [g EXCEPT !.bound = w]
    <3>4. w[e.body] = m /\ \A y \in Instance : y # e.body => w[y] = g.bound[y]
      BY <3>2, <1>0 DEF Worlds
    <3>5. BindEverywhere(i, m) = [gpu |-> t, entity |-> e]
      BY <3>1, <1>0 DEF Worlds
    <3> HIDE DEF w
    <3>6. t \in Worlds /\ t.free = g.free /\ t.size = g.size /\ t.live = g.live /\ t.bound = w
      BY <3>3, <1>0 DEF Worlds, w
    <3> HIDE DEF t, e, i
    <3> QED
      BY <2>2, <3>4, <3>5, <3>6, <1>0
  <2> QED
    BY <2>1, <2>2
<1>2. ASSUME NEW m \in Class \cup Fade, NEW l \in SUBSET Fade, NEW f \in Fade \cup {None},
             f = None => m = e.cls, f # None => m = f,
             \A x \in Fade : x \in l <=> x = f \/ (x \in g.live /\ x # e.fade),
             f # None => f \notin g.live,
             s = Refaded(m, l, f)
      PROVE  s.entity \in Entity /\ s.entity.cls = E[h].cls
               /\ World(s.gpu, [E EXCEPT ![h] = s.entity])
  <2> DEFINE b == BindEverywhere(i, m)
             t == [b.gpu EXCEPT !.live = l]
             d == [b.entity EXCEPT !.fade = f]
  <2>1. /\ b.gpu \in Worlds /\ b.gpu.free = g.free /\ b.gpu.size = g.size
        /\ b.entity \in Entity /\ b.entity.cls = e.cls /\ b.entity.body = e.body
        /\ (IF e.body = Box THEN b.entity.boxMaterial ELSE b.gpu.bound[e.body]) = m
        /\ \A y \in Instance : y # e.body => b.gpu.bound[y] = g.bound[y]
        /\ b = [gpu |-> b.gpu, entity |-> b.entity]
    BY <1>1
  <2> HIDE DEF b, s, i, e
  <2>2. s = [gpu |-> t, entity |-> d]
    BY <1>2, <2>1 DEF b
  <2>3. /\ t \in Worlds /\ t.free = g.free /\ t.size = g.size
        /\ t.live = l /\ t.bound = b.gpu.bound
    BY <2>1 DEF Worlds
  <2>4. /\ d \in Entity /\ d.cls = e.cls /\ d.body = e.body /\ d.fade = f
        /\ d.boxMaterial = b.entity.boxMaterial
    BY <2>1 DEF Entity
  <2> HIDE DEF t, d
  <2>5. World(t, [E EXCEPT ![h] = d])
    <3>1. (IF d.body = Box THEN d.boxMaterial ELSE t.bound[d.body])
            = (IF d.fade = None THEN d.cls ELSE d.fade)
      BY <1>2, <2>1, <2>3, <2>4
    <3>2. \A y \in Instance : y # d.body => t.bound[y] = g.bound[y]
      BY <2>1, <2>3, <2>4
    <3>3. \A x \in Fade : x \in t.live <=> x = d.fade \/ (x \in g.live /\ x # E[h].fade)
      BY <1>2, <2>3, <2>4 DEF e
    <3>4. d.fade # None => d.fade \notin g.live
      BY <1>2, <2>4
    <3>5. d.cls = E[h].cls /\ d.body = E[h].body
      BY <2>4 DEF e
    <3> QED
      BY <2>3, <2>4, <3>1, <3>2, <3>3, <3>4, <3>5, ReboundWorld
  <2> QED
    BY <2>2, <2>4, <2>5 DEF e
<1>3. CASE ~faded /\ e.fade # None
  <2> DEFINE l == g.live \ {e.fade}
             b == BindEverywhere(i, e.cls)
  <2>1. s = [b EXCEPT !.gpu.live = @ \ {e.fade}, !.entity.fade = None]
    BY <1>3 DEF UpdateStaleness
  <2>2. b.gpu.live = g.live /\ b = [gpu |-> b.gpu, entity |-> b.entity]
    BY <1>0, <1>1
  <2>3. s = Refaded(e.cls, l, None)
    <3> HIDE DEF b, s
    <3>1. s = [b EXCEPT !.gpu.live = l, !.entity.fade = None]
      BY <2>1, <2>2
    <3> QED
      BY <3>1 DEF b
  <2>4. l \in SUBSET Fade
    BY <1>0 DEF Worlds
  <2>5. e.cls \in Class \cup Fade /\ None \notin Fade
    BY <1>0, PoolConstants
  <2>6. \A x \in Fade : x \in l <=> x = None \/ (x \in g.live /\ x # e.fade)
    BY <2>5
  <2> HIDE DEF Refaded, s, i, e, l
  <2> QED
    BY <1>2, <2>3, <2>4, <2>5, <2>6
<1>4. CASE faded /\ e.fade = None
  <2> DEFINE n == NewFade(g)
             l == g.live \cup {n}
             b == BindEverywhere(i, n)
  <2>1. s = [b EXCEPT !.gpu.live = @ \cup {n}, !.entity.fade = n]
    BY <1>4 DEF UpdateStaleness
  <2>2. n \in Fade /\ n \notin g.live /\ n # None
    BY PoolConstants DEF NewFade
  <2>3. b.gpu.live = g.live /\ b = [gpu |-> b.gpu, entity |-> b.entity]
    BY <1>0, <1>1, <2>2
  <2>4. s = Refaded(n, l, n)
    <3> HIDE DEF b, s, n
    <3>1. s = [b EXCEPT !.gpu.live = l, !.entity.fade = n]
      BY <2>1, <2>3
    <3> QED
      BY <3>1 DEF b
  <2>5. l \in SUBSET Fade
    BY <1>0, <2>2 DEF Worlds
  <2>6. \A x \in Fade : x \in l <=> x = n \/ (x \in g.live /\ x # e.fade)
    BY <1>4, PoolConstants
  <2>7. /\ n \in Class \cup Fade /\ n \in Fade \cup {None} /\ (n # None => n \notin g.live)
        /\ (n = None => n = e.cls)
    BY <2>2
  <2> HIDE DEF Refaded, s, i, e, l, n
  <2> QED
    BY <1>2, <2>4, <2>5, <2>6, <2>7
<1>5. CASE ~(~faded /\ e.fade # None) /\ ~(faded /\ e.fade = None)
  <2>1. s = i
    BY <1>5 DEF UpdateStaleness
  <2>2. [E EXCEPT ![h] = e] = E
    BY DEF World, Assignment
  <2> QED
    BY <1>0, <2>1, <2>2
<1> QED
  BY <1>3, <1>4, <1>5

\* The same entities at other places (objects.cpp update_objects, the swap of
\* the two maps).
LEMMA RenamedWorld ==
  ASSUME NEW g, NEW E, World(g, E), NEW F \in Assignment, NEW from \in [Place -> Place],
         \A k \in Place : F[k] = E[from[k]] /\ from[from[k]] = k
  PROVE  World(g, F)
<1>1. \A k \in Place : from[k] \in Place /\ F[k] = E[from[k]] /\ from[from[k]] = k
  OBVIOUS
<1>2. FreeListsRight(g, F)
  BY <1>1 DEF World, Pools, FreeListsRight
<1>3. BodiesRight(g, F)
  <2> SUFFICES ASSUME NEW j \in Place, F[j] # None, F[j].body # Box
               PROVE  /\ F[j].body[1] = F[j].cls /\ F[j].body[2] <= g.size[F[j].cls]
                      /\ \A k \in Place : F[k] # None /\ F[k].body = F[j].body => k = j
    BY DEF BodiesRight
  <2>1. /\ E[from[j]].body[1] = E[from[j]].cls
        /\ E[from[j]].body[2] <= g.size[E[from[j]].cls]
        /\ \A k \in Place : E[k] # None /\ E[k].body = E[from[j]].body => k = from[j]
    BY <1>1 DEF World, Pools, BodiesRight
  <2>2. ASSUME NEW k \in Place, F[k] # None, F[k].body = F[j].body
        PROVE  k = j
    <3>1. from[k] = from[j]
      BY <2>1, <2>2, <1>1
    <3> QED
      BY <3>1, <1>1
  <2> QED
    BY <2>1, <2>2, <1>1
<1>4. NoneLost(g, F)
  <2> SUFFICES ASSUME NEW x \in Instance, x[2] <= g.size[x[1]],
                      NEW j \in Place, E[j] # None, E[j].body = x
               PROVE  \E k \in Place : F[k] # None /\ F[k].body = x
    BY DEF World, Pools, NoneLost
  <2>1. F[from[j]] = E[j] /\ from[j] \in Place
    BY <1>1
  <2> QED
    BY <2>1
<1>5. Bindings(g, F)
  BY <1>1 DEF World, Bindings
<1>6. Fades(g, F)
  <2>1. ASSUME NEW f \in Fade
        PROVE  f \in g.live <=> \E k \in Place : F[k] # None /\ F[k].fade = f
    <3>1. f \in g.live <=> \E k \in Place : E[k] # None /\ E[k].fade = f
      BY DEF World, Fades
    <3>2. ASSUME NEW k \in Place, E[k] # None, E[k].fade = f
          PROVE  F[from[k]] # None /\ F[from[k]].fade = f /\ from[k] \in Place
      BY <3>2, <1>1
    <3>3. ASSUME NEW k \in Place, F[k] # None, F[k].fade = f
          PROVE  E[from[k]] # None /\ E[from[k]].fade = f /\ from[k] \in Place
      BY <3>3, <1>1
    <3> QED
      BY <3>1, <3>2, <3>3
  <2>2. ASSUME NEW j \in Place, NEW k \in Place, F[j] # None, F[k] # None,
               F[j].fade # None, F[j].fade = F[k].fade
        PROVE  j = k
    <3>1. from[j] = from[k]
      BY <2>2, <1>1 DEF World, Fades
    <3> QED
      BY <3>1, <1>1
  <2> QED
    BY <2>1, <2>2 DEF Fades
<1> QED
  BY <1>2, <1>3, <1>4, <1>5, <1>6 DEF World, Pools

\* An entity is moved from one map to the other (objects.cpp update_objects,
\* next.emplace).
LEMMA MovedWorld ==
  ASSUME NEW g, NEW E, World(g, E), NEW h \in Place, NEW q \in Place,
         E[h] # None, E[q] = None,
         NEW F \in Assignment,
         \A k \in Place : F[k] = IF k = q THEN E[h] ELSE IF k = h THEN None ELSE E[k]
  PROVE  World(g, F)
<1> DEFINE from == [k \in Place |-> IF k = q THEN h ELSE IF k = h THEN q ELSE k]
<1>1. from \in [Place -> Place] /\ \A k \in Place : F[k] = E[from[k]] /\ from[from[k]] = k
  OBVIOUS
<1> HIDE DEF from
<1> QED
  BY <1>1, RenamedWorld

-----------------------------------------------------------------------------
Maps == [h \in Place |-> EntityOf(h)]

\* The pools, the engine and both maps are right between any two steps.
IInv ==
  /\ entities \in [Id -> Entity \cup {None}] /\ next \in [Id -> Entity \cup {None}]
  /\ releasing \in BOOLEAN
  /\ World(Gpu, Maps)

\* The places of the maps (renderer_internal.hpp objectEntities).
LEMMA Places ==
  ASSUME NEW i \in Id
  PROVE  /\ <<"old", i>> \in Place /\ <<"new", i>> \in Place
         /\ Maps[<<"old", i>>] = entities[i] /\ Maps[<<"new", i>>] = next[i]
BY DEF Maps, EntityOf, Place

\* Every pool holds its first instances, and no object is drawn
\* (objects.cpp set_object_model_dir).
LEMMA InitInv == Init => IInv
<1> SUFFICES ASSUME Init
             PROVE  IInv
  OBVIOUS
<1>0. Initial \in Nat /\ Cap \in Nat /\ Initial <= Cap /\ 1..Initial \subseteq 1..Cap
  BY PoolConstants
<1>1. /\ entities \in [Id -> Entity \cup {None}] /\ next \in [Id -> Entity \cup {None}]
      /\ releasing \in BOOLEAN
  BY DEF Init
<1>2. Maps \in Assignment /\ \A h \in Place : Maps[h] = None
  BY DEF Init, Maps, EntityOf, Place, Assignment
<1>3. \A c \in Modelled : \A k \in 1..Initial : <<c, k>> \in Instance
  BY <1>0 DEF Instance
<1>4. ASSUME NEW c \in Modelled
      PROVE  free[c] \in Seq(Instance) /\ Len(free[c]) = Initial
               /\ \A k \in 1..Initial : free[c][k] = <<c, k>>
  <2>1. free[c] = [k \in 1..Initial |-> <<c, k>>]
    BY DEF Init
  <2> QED
    BY <2>1, <1>0, <1>3
<1>5. Gpu \in Worlds
  <2>1. free \in [Modelled -> Seq(Instance)]
    <3>1. free = [c \in Modelled |-> free[c]]
      BY DEF Init
    <3> QED
      BY <3>1, <1>4
  <2>2. size \in [Modelled -> 0..Cap] /\ bound \in [Instance -> Material] /\ live \in SUBSET Fade
    BY <1>0 DEF Init, Material
  <2> QED
    BY <2>1, <2>2 DEF Gpu, Worlds
<1>6. FreeListsRight(Gpu, Maps)
  BY <1>0, <1>2, <1>4 DEF FreeListsRight, Gpu, Init
<1>7. BodiesRight(Gpu, Maps) /\ Bindings(Gpu, Maps) /\ Fades(Gpu, Maps)
  BY <1>2 DEF BodiesRight, Bindings, Fades, Gpu, Init
<1>8. NoneLost(Gpu, Maps)
  <2> SUFFICES ASSUME NEW x \in Instance, x[2] <= Gpu.size[x[1]]
               PROVE  Idle(Gpu, x)
    BY DEF NoneLost
  <2>1. x[1] \in Modelled /\ x[2] \in 1..Cap /\ x = <<x[1], x[2]>>
    BY DEF Instance
  <2>2. x[2] \in 1..Initial
    BY <2>1, <1>0 DEF Gpu, Init
  <2> QED
    BY <2>1, <2>2, <1>4 DEF Idle, Gpu
<1> QED
  BY <1>1, <1>2, <1>5, <1>6, <1>7, <1>8 DEF IInv, World, Pools

\* The engine's fade instances while an entity is made or goes.
LEMMA LiveOf ==
  ASSUME NEW g \in Worlds, NEW c \in Class, NEW e \in Entity
  PROVE  Acquire(g, c).gpu.live = g.live /\ Release(g, e).live = g.live \ {e.fade}
BY DEF Acquire, Boxed, Reuse, Grow, Release, Worlds

\* The entity an object of the frame is drawn by (objects.cpp update_objects).
LEMMA EnteredWorld ==
  ASSUME IInv, NEW o \in Object, Fade \ live # {}
  PROVE  LET s == Entered(o) IN
         /\ s.entity \in Entity /\ Fade \ s.gpu.live # {}
         /\ World(s.gpu, [Maps EXCEPT ![<<"old", o.id>>] = s.entity])
<1> DEFINE i == o.id
           h == <<"old", i>>
           e == entities[i]
           s == Entered(o)
<1> SUFFICES /\ s.entity \in Entity /\ Fade \ s.gpu.live # {}
             /\ World(s.gpu, [Maps EXCEPT ![h] = s.entity])
  OBVIOUS
<1>1. i \in Id /\ o.cls \in Class
  BY DEF Object
<1>2. h \in Place /\ Maps[h] = e /\ World(Gpu, Maps) /\ Gpu \in Worlds /\ Maps \in Assignment
  BY <1>1, Places DEF IInv, World
<1>3. Gpu.live = live
  BY DEF Gpu
<1> HIDE DEF h, e, i
<1>4. CASE e = None
  <2>1. s = Acquire(Gpu, o.cls)
    BY <1>4 DEF Entered, e, i
  <2>2. s.gpu.live = live
    <3>1. Maps[h] = None
      BY <1>2, <1>4
    <3> QED
      BY <2>1, <1>1, <1>2, <1>3, <1>4 DEF Acquire, Boxed, Reuse, Grow, Worlds
  <2> HIDE DEF s
  <2> QED
    BY <2>1, <2>2, <1>1, <1>2, <1>4, AcquireWorld
<1>5. CASE e # None /\ e.cls = o.cls
  <2>1. s = [gpu |-> Gpu, entity |-> e]
    BY <1>5 DEF Entered, e, i
  <2>2. e \in Entity /\ [Maps EXCEPT ![h] = e] = Maps
    BY <1>2, <1>5 DEF Assignment
  <2> HIDE DEF s
  <2> QED
    BY <2>1, <2>2, <1>2, <1>3
<1>6. CASE e # None /\ e.cls # o.cls
  <2> DEFINE g == Release(Gpu, e)
             E == [Maps EXCEPT ![h] = None]
  <2>1. s = Acquire(g, o.cls)
    BY <1>6 DEF Entered, e, i
  <2>2. World(g, E)
    BY <1>2, <1>6, ReleaseWorld
  <2>3. e \in Entity
    BY <1>2, <1>6 DEF Assignment
  <2>4. g \in Worlds
    BY <2>2 DEF World
  <2>5. s.gpu.live = live \ {e.fade}
    <3>1. g.live = live \ {e.fade}
      BY <2>3, <1>1, <1>2, <1>3, LiveOf
    <3> HIDE DEF g, s
    <3> QED
      BY <2>1, <2>3, <2>4, <3>1, <1>1, LiveOf
  <2>6. E[h] = None /\ \A x : [E EXCEPT ![h] = x] = [Maps EXCEPT ![h] = x]
    BY <1>2 DEF Assignment
  <2> HIDE DEF g, E, s
  <2>7. s.entity \in Entity /\ World(s.gpu, [E EXCEPT ![h] = s.entity])
    BY <2>1, <2>2, <2>6, <1>1, <1>2, AcquireWorld
  <2> QED
    BY <2>5, <2>6, <2>7
<1> QED
  BY <1>4, <1>5, <1>6

\* The same entity after its arrow, its path and its age
\* (objects.cpp update_objects).
LEMMA UpdatedWorld ==
  ASSUME IInv, NEW o \in Object, Fade \ live # {}
  PROVE  LET s == Updated(o) IN
         s.entity \in Entity /\ World(s.gpu, [Maps EXCEPT ![<<"old", o.id>>] = s.entity])
<1> DEFINE h == <<"old", o.id>>
           s == Entered(o)
           n == UpdatePath([s.entity EXCEPT !.arrow = o.trim.moving], o.trim.path)
           E == [Maps EXCEPT ![h] = s.entity]
           F == [Maps EXCEPT ![h] = n]
           u == UpdateStaleness([gpu |-> s.gpu, entity |-> n], o.faded)
<1>1. /\ o.id \in Id /\ o.faded \in BOOLEAN
      /\ o.trim.moving \in BOOLEAN /\ o.trim.path \in Path \cup {None}
  BY PoolConstants DEF Object
<1>2. s.entity \in Entity /\ Fade \ s.gpu.live # {} /\ World(s.gpu, E)
  BY EnteredWorld
<1>3. h \in Place /\ Maps \in Assignment
  BY <1>1, Places DEF IInv, World
<1>4. /\ n \in Entity /\ n.cls = s.entity.cls /\ n.body = s.entity.body
      /\ n.boxMaterial = s.entity.boxMaterial /\ n.fade = s.entity.fade
  BY <1>1, <1>2, PathOfEntity
<1>5. n # None /\ s.entity # None
  BY <1>2, <1>4, PoolConstants
<1>6. E[h] = s.entity /\ F[h] = n /\ [E EXCEPT ![h] = n] = F
        /\ \A x : [F EXCEPT ![h] = x] = [Maps EXCEPT ![h] = x]
  BY <1>3 DEF Assignment
<1>7. \E x, y : s = [gpu |-> x, entity |-> y]
  BY DEF Entered, Acquire, Boxed, Reuse, Grow
<1>8. Updated(o) = u
  <2>1. \A x, y, z : [[gpu |-> x, entity |-> y] EXCEPT !.entity = z] = [gpu |-> x, entity |-> z]
    OBVIOUS
  <2>2. PICK x, y : s = [gpu |-> x, entity |-> y]
    BY <1>7
  <2>3. [s EXCEPT !.entity = UpdatePath([@ EXCEPT !.arrow = o.trim.moving], o.trim.path)]
          = [gpu |-> s.gpu, entity |-> n]
    <3> HIDE DEF s
    <3> QED
      BY <2>2
  <2> HIDE DEF s
  <2> QED
    BY <2>3 DEF Updated, s
<1> HIDE DEF s, n, E, F
<1>9. World(s.gpu, F)
  BY <1>2, <1>3, <1>4, <1>5, <1>6, TrimmedWorld
<1>10. u.entity \in Entity /\ World(u.gpu, [F EXCEPT ![h] = u.entity])
  BY <1>1, <1>2, <1>3, <1>5, <1>6, <1>9, StalenessWorld
<1> HIDE DEF u, h
<1> QED
  BY <1>6, <1>8, <1>10 DEF h

\* The state an update leaves is the one its helpers have come to.
LEMMA BecomesWorld ==
  ASSUME NEW g \in Worlds, Becomes(g)
  PROVE  Gpu' = g
BY DEF Worlds, Becomes, Gpu

\* One object of the frame (objects.cpp update_objects).
LEMMA UpdateObjectInv ==
  ASSUME IInv, NEW o \in Object, UpdateObject(o)
  PROVE  IInv'
<1> DEFINE i == o.id
           h == <<"old", i>>
           q == <<"new", i>>
           s == Updated(o)
           E == [Maps EXCEPT ![h] = s.entity]
<1>1. i \in Id /\ h \in Place /\ q \in Place /\ h # q /\ Maps[q] = next[i]
        /\ Maps \in Assignment
  BY Places DEF Object, IInv, World
<1>2. s.entity \in Entity /\ s.entity # None /\ World(s.gpu, E)
  BY UpdatedWorld, PoolConstants DEF UpdateObject
<1>3. \A k \in Place : E[k] = IF k = h THEN s.entity ELSE Maps[k]
  BY <1>1 DEF Assignment
<1>4. entities' = [entities EXCEPT ![i] = None] /\ releasing' = releasing
  BY DEF UpdateObject
<1>5. entities' \in [Id -> Entity \cup {None}] /\ releasing' \in BOOLEAN
  BY <1>4 DEF IInv
<1> HIDE DEF s, E
<1>6. CASE next[i] # None
  <2>1. Becomes(Release(s.gpu, s.entity)) /\ next' = next
    BY <1>6 DEF UpdateObject, s
  <2> DEFINE F == [E EXCEPT ![h] = None]
  <2>2. E[h] = s.entity
    BY <1>1, <1>3
  <2>3. World(Release(s.gpu, s.entity), F)
    BY <2>2, <1>1, <1>2, ReleaseWorld
  <2>4. Gpu' = Release(s.gpu, s.entity)
    BY <2>1, <2>3, BecomesWorld DEF World
  <2>5. Maps' = F
    <3>1. E \in Assignment
      BY <1>2 DEF World
    <3>2. ASSUME NEW k \in Place
          PROVE  EntityOf(k)' = F[k]
      <4>1. F[k] = IF k = h THEN None ELSE Maps[k]
        BY <1>1, <1>3, <3>1 DEF Assignment
      <4>2. Maps[k] = EntityOf(k)
        BY DEF Maps
      <4>3. k \in {"old", "new"} \X Id
        BY DEF Place
      <4> QED
        BY <4>1, <4>2, <4>3, <1>4, <2>1 DEF EntityOf, IInv
    <3>3. F = [k \in Place |-> F[k]]
      BY <3>1 DEF Assignment
    <3>4. Maps' = [k \in Place |-> EntityOf(k)']
      BY DEF Maps, Place
    <3> HIDE DEF F
    <3> QED
      BY <3>2, <3>3, <3>4
  <2>6. next' \in [Id -> Entity \cup {None}]
    BY <2>1 DEF IInv
  <2> HIDE DEF F
  <2> QED
    BY <2>3, <2>4, <2>5, <2>6, <1>5 DEF IInv
<1>7. CASE next[i] = None
  <2>1. Becomes(s.gpu) /\ next' = [next EXCEPT ![i] = s.entity]
    BY <1>7 DEF UpdateObject, s
  <2>2. s.gpu \in Worlds
    BY <1>2 DEF World
  <2>3. Gpu' = s.gpu
    BY <2>1, <2>2, BecomesWorld
  <2>4. next' \in [Id -> Entity \cup {None}]
    BY <2>1, <1>2 DEF IInv
  <2>5. ASSUME NEW k \in Place
        PROVE  EntityOf(k)' = IF k = q THEN E[h] ELSE IF k = h THEN None ELSE E[k]
    <3>1. Maps[k] = EntityOf(k) /\ k \in {"old", "new"} \X Id
      BY DEF Maps, Place
    <3>2. E[h] = s.entity /\ (k # h => E[k] = Maps[k])
      BY <1>1, <1>3
    <3> QED
      BY <3>1, <3>2, <1>1, <1>4, <2>1 DEF EntityOf, IInv
  <2>6. Maps' = [k \in Place |-> EntityOf(k)']
    BY DEF Maps, Place
  <2>7. Maps' \in Assignment
    <3>1. \A k \in Place : EntityOf(k)' \in Entity \cup {None}
      BY <1>5, <2>4 DEF EntityOf, Place
    <3> QED
      BY <2>6, <3>1 DEF Assignment
  <2>8. \A k \in Place : Maps'[k] = IF k = q THEN E[h] ELSE IF k = h THEN None ELSE E[k]
    BY <2>5, <2>6
  <2>9. E[h] # None /\ E[q] = None
    BY <1>1, <1>2, <1>3, <1>7
  <2> DEFINE F == Maps'
  <2>10. World(s.gpu, F)
    <3> HIDE DEF F, h, q
    <3> QED
      BY <2>7, <2>8, <2>9, <1>1, <1>2, MovedWorld DEF F
  <2> QED
    BY <2>3, <2>4, <2>10, <1>5 DEF IInv
<1> QED
  BY <1>6, <1>7

\* An object that is not in the frame any more (objects.cpp update_objects).
LEMMA ReleaseVanishedInv ==
  ASSUME IInv, NEW i \in Id, ReleaseVanished(i)
  PROVE  IInv'
<1> DEFINE h == <<"old", i>>
           F == [Maps EXCEPT ![h] = None]
<1>1. h \in Place /\ Maps[h] = entities[i] /\ entities[i] # None /\ Maps \in Assignment
  BY Places DEF ReleaseVanished, IInv, World
<1>2. World(Release(Gpu, entities[i]), F)
  <2>1. World(Release(Gpu, Maps[h]), F)
    BY <1>1, ReleaseWorld DEF IInv
  <2> QED
    BY <1>1, <2>1
<1>3. Gpu' = Release(Gpu, entities[i])
  BY <1>2, BecomesWorld DEF ReleaseVanished, World
<1>4. entities' = [entities EXCEPT ![i] = None] /\ next' = next /\ releasing' = releasing
  BY DEF ReleaseVanished
<1>5. Maps' = F
  <2>1. ASSUME NEW k \in Place
        PROVE  EntityOf(k)' = F[k]
    <3>1. F[k] = IF k = h THEN None ELSE Maps[k]
      BY <1>1 DEF Assignment
    <3>2. Maps[k] = EntityOf(k) /\ k \in {"old", "new"} \X Id
      BY DEF Maps, Place
    <3> QED
      BY <3>1, <3>2, <1>4 DEF EntityOf, IInv
  <2>2. F = [k \in Place |-> F[k]]
    BY <1>1 DEF Assignment
  <2>3. Maps' = [k \in Place |-> EntityOf(k)']
    BY DEF Maps, Place
  <2> HIDE DEF F
  <2> QED
    BY <2>1, <2>2, <2>3
<1> HIDE DEF F
<1> QED
  BY <1>2, <1>3, <1>4, <1>5 DEF IInv

\* The new map takes the place of the old one (objects.cpp update_objects).
LEMMA EndFrameInv ==
  ASSUME IInv, EndFrame
  PROVE  IInv'
<1>1. /\ entities' = next /\ next' = [i \in Id |-> None] /\ releasing' \in BOOLEAN
      /\ \A i \in Id : entities[i] = None
  BY DEF EndFrame
<1>2. Gpu' = Gpu
  BY DEF EndFrame, Gpu
<1>3. next' \in [Id -> Entity \cup {None}] /\ entities' \in [Id -> Entity \cup {None}]
  BY <1>1 DEF IInv
<1> DEFINE from == [k \in Place |-> <<IF k[1] = "old" THEN "new" ELSE "old", k[2]>>]
<1>4. from \in [Place -> Place] /\ \A k \in Place : from[from[k]] = k
  BY DEF Place
<1>5. \A k \in Place : Maps'[k] = Maps[from[k]]
  <2>1. Maps' = [k \in Place |-> EntityOf(k)']
    BY DEF Maps, Place
  <2>2. ASSUME NEW k \in Place
        PROVE  EntityOf(k)' = EntityOf(from[k])
    BY <1>1 DEF EntityOf, Place
  <2> QED
    BY <2>1, <2>2, <1>4 DEF Maps
<1> DEFINE E == Maps
           F == Maps'
<1>6. F \in Assignment
  <2>1. \A k \in Place : EntityOf(k)' \in Entity \cup {None}
    BY <1>3 DEF EntityOf, Place
  <2>2. Maps' = [k \in Place |-> EntityOf(k)']
    BY DEF Maps, Place
  <2> QED
    BY <2>1, <2>2 DEF Assignment
<1>7. World(Gpu, F)
  <2> HIDE DEF from, F
  <2> QED
    BY <1>4, <1>5, <1>6, RenamedWorld DEF IInv, F
<1> QED
  BY <1>1, <1>2, <1>3, <1>7 DEF IInv

LEMMA NextInv == IInv /\ [Next]_vars => IInv'
<1> SUFFICES ASSUME IInv, [Next]_vars
             PROVE  IInv'
  OBVIOUS
<1>1. ASSUME NEW o \in Object, UpdateObject(o)
      PROVE  IInv'
  BY <1>1, UpdateObjectInv
<1>2. CASE EndObjects
  BY <1>2 DEF EndObjects, IInv, Maps, EntityOf, Gpu, Place
<1>3. ASSUME NEW i \in Id, ReleaseVanished(i)
      PROVE  IInv'
  BY <1>3, ReleaseVanishedInv
<1>4. CASE EndFrame
  BY <1>4, EndFrameInv
<1>5. CASE UNCHANGED vars
  BY <1>5 DEF vars, IInv, Maps, EntityOf, Gpu, Place
<1> QED
  BY <1>1, <1>2, <1>3, <1>4, <1>5 DEF Next

\* The pools, the engine and the maps stay right, for every number of objects,
\* classes and instances.
THEOREM Invariant == Spec => []IInv
BY InitInv, NextInv, PTL DEF Spec

\* The places that hold an entity are those PoolConserved and BodyMaterial range over.
LEMMA HeldPlaces ==
  /\ Held \subseteq Place
  /\ \A h \in Place : Maps[h] = EntityOf(h) /\ (h \in Held <=> Maps[h] # None)
BY DEF Held, Maps, EntityOf, Place

LEMMA InvTypeOK == IInv => TypeOK
BY DEF IInv, World, Worlds, Gpu, TypeOK

\* Every variable keeps its type: a pool never grows past its cap
\* (objects.cpp acquire_entity).
THEOREM TypeCorrect == Spec => []TypeOK
BY Invariant, InvTypeOK, PTL

LEMMA InvPoolConserved == IInv => PoolConserved
<1> SUFFICES ASSUME IInv
             PROVE  PoolConserved
  OBVIOUS
<1>1. Pools(Gpu, Maps) /\ Gpu \in Worlds /\ Gpu.free = free /\ Gpu.size = size
  BY DEF IInv, World, Gpu
<1>2. \A c \in Modelled : \A k \in 1..Len(free[c]) :
        /\ free[c][k][1] = c /\ free[c][k][2] <= size[c]
        /\ \A h \in Place : Maps[h] # None => Maps[h].body # free[c][k]
        /\ \A j \in 1..Len(free[c]) : free[c][j] = free[c][k] => j = k
  BY <1>1 DEF Pools, FreeListsRight
<1>3. \A h \in Held : EntityOf(h).body # Box =>
        /\ EntityOf(h).body[1] = EntityOf(h).cls
        /\ EntityOf(h).body[2] <= size[EntityOf(h).cls]
        /\ \A k \in Held : EntityOf(k).body = EntityOf(h).body => k = h
  BY <1>1, HeldPlaces DEF Pools, BodiesRight
<1>4. ASSUME NEW x \in Instance
      PROVE  LET idle == \E k \in 1..Len(free[x[1]]) : free[x[1]][k] = x IN
             /\ x[2] > size[x[1]] => ~idle /\ Users(x) = {}
             /\ x[2] <= size[x[1]] => (idle <=> Users(x) = {})
             /\ \A h, k \in Users(x) : h = k
  <2> DEFINE idle == \E k \in 1..Len(free[x[1]]) : free[x[1]][k] = x
  <2>1. /\ x # Box /\ x[1] \in Modelled /\ x[2] \in Int /\ size[x[1]] \in Int
        /\ (x[2] > size[x[1]] <=> ~(x[2] <= size[x[1]]))
    BY PoolConstants, <1>1 DEF Instance, Worlds
  <2>2. idle => x[2] <= size[x[1]] /\ Users(x) = {}
    BY <1>2, <2>1, HeldPlaces DEF Users
  <2>3. Users(x) # {} => x[2] <= size[x[1]]
    BY <1>3, <2>1 DEF Users
  <2>4. x[2] <= size[x[1]] => idle \/ Users(x) # {}
    BY <1>1, HeldPlaces DEF Pools, NoneLost, Idle, Users
  <2>5. \A h, k \in Users(x) : h = k
    BY <1>3, <2>1 DEF Users
  <2> HIDE DEF idle
  <2>6. /\ x[2] > size[x[1]] => ~idle /\ Users(x) = {}
        /\ x[2] <= size[x[1]] => (idle <=> Users(x) = {})
        /\ \A h, k \in Users(x) : h = k
    BY <2>1, <2>2, <2>3, <2>4, <2>5
  <2> QED
    BY <2>6 DEF idle
<1> QED
  BY <1>2, <1>3, <1>4 DEF PoolConserved

LEMMA InvBodyMaterial == IInv => BodyMaterial
<1> SUFFICES ASSUME IInv
             PROVE  BodyMaterial
  OBVIOUS
<1>1. Bindings(Gpu, Maps) /\ Fades(Gpu, Maps) /\ live \subseteq Fade
        /\ Gpu.bound = bound /\ Gpu.live = live
  BY DEF IInv, World, Worlds, Gpu
<1>2. \A h \in Held :
        LET e == EntityOf(h) IN
        (IF e.body = Box THEN e.boxMaterial ELSE bound[e.body])
          = (IF e.fade = None THEN e.cls ELSE e.fade)
  BY <1>1, HeldPlaces DEF Bindings
<1>3. \A h \in Held : EntityOf(h).fade \in Fade \cup {None}
  BY HeldPlaces DEF IInv, World, Assignment, Entity
<1>4. live = {EntityOf(h).fade : h \in Held} \ {None}
  <2>1. \A f \in Fade : f # None /\ (f \in live <=> \E h \in Held : EntityOf(h).fade = f)
    BY <1>1, HeldPlaces, PoolConstants DEF Fades
  <2> QED
    BY <1>1, <1>3, <2>1
<1>5. \A h, k \in Held : EntityOf(h).fade = EntityOf(k).fade /\ h # k => EntityOf(h).fade = None
  BY <1>1, HeldPlaces DEF Fades
<1> QED
  BY <1>2, <1>4, <1>5 DEF BodyMaterial

\* The pools and the objects agree, for any sequence of frames (acquire_entity,
\* release_object_entity, update_entity_staleness).
THEOREM PoolObjectsAreBacked == Spec => []ObjectsAreBacked
<1>1. IInv => ObjectsAreBacked
  BY InvPoolConserved, InvBodyMaterial DEF ObjectsAreBacked
<1> QED
  BY <1>1, Invariant, PTL

\* The staleness of an entity changes neither its class nor its instance
\* (objects.cpp update_entity_staleness).
LEMMA StalenessKeepsBody ==
  ASSUME NEW g, NEW e \in Entity, NEW faded \in BOOLEAN
  PROVE  LET d == UpdateStaleness([gpu |-> g, entity |-> e], faded).entity IN
         d.body = e.body /\ d.cls = e.cls
BY DEF UpdateStaleness, BindEverywhere, Entity

LEMMA UpdatedBody ==
  ASSUME IInv, NEW o \in Object, Fade \ live # {}
  PROVE  Updated(o).entity.body = Entered(o).entity.body
           /\ Updated(o).entity.cls = Entered(o).entity.cls
<1> DEFINE s == Entered(o)
           n == UpdatePath([s.entity EXCEPT !.arrow = o.trim.moving], o.trim.path)
<1>1. /\ o.faded \in BOOLEAN /\ o.trim.moving \in BOOLEAN /\ o.trim.path \in Path \cup {None}
  BY PoolConstants DEF Object
<1>2. s.entity \in Entity
  BY EnteredWorld
<1>3. n \in Entity /\ n.cls = s.entity.cls /\ n.body = s.entity.body
  BY <1>1, <1>2, PathOfEntity
<1>4. \E x, y : s = [gpu |-> x, entity |-> y]
  BY DEF Entered, Acquire, Boxed, Reuse, Grow
<1>5. [s EXCEPT !.entity = UpdatePath([@ EXCEPT !.arrow = o.trim.moving], o.trim.path)]
        = [gpu |-> s.gpu, entity |-> n]
  <2> HIDE DEF s
  <2> QED
    BY <1>4
<1>6. Updated(o) = UpdateStaleness([gpu |-> s.gpu, entity |-> n], o.faded)
  <2> HIDE DEF s
  <2> QED
    BY <1>5 DEF Updated, s
<1> HIDE DEF s, n
<1>7. Updated(o).entity.body = n.body /\ Updated(o).entity.cls = n.cls
  BY <1>1, <1>3, <1>6, StalenessKeepsBody
<1> QED
  BY <1>3, <1>7 DEF s

\* A class with a model gives a box only when its free list is empty and its
\* pool has reached the cap (objects.cpp acquire_entity).
LEMMA BoxMeansNoneFree ==
  ASSUME NEW g \in Worlds, NEW c \in Modelled, Acquire(g, c).entity.body = Box
  PROVE  g.free[c] = <<>> /\ g.size[c] = Cap
<1>1. g.size[c] \in 0..Cap /\ Cap \in Nat /\ c \in Class /\ g.free[c] \in Seq(Instance)
  BY FreeList, PoolConstants
<1>2. ASSUME g.free[c] # <<>>
      PROVE  FALSE
  <2>1. g.free[c][Len(g.free[c])] \in Instance
    BY <1>1, <1>2, PopBack
  <2>2. Acquire(g, c).entity.body = g.free[c][Len(g.free[c])]
    BY <1>2 DEF Acquire, Reuse, Bare
  <2> QED
    BY <2>1, <2>2, PoolConstants
<1>3. ASSUME g.free[c] = <<>>, g.size[c] < Cap
      PROVE  FALSE
  <2>1. Acquire(g, c).entity.body = <<c, g.size[c] + 1>>
    BY <1>3 DEF Acquire, Grow, Bare
  <2>2. <<c, g.size[c] + 1>> \in Instance
    BY <1>1, <1>3 DEF Instance
  <2> QED
    BY <2>1, <2>2, PoolConstants
<1> QED
  BY <1>1, <1>2, <1>3

\* With no instance free and the pool at the cap, as many objects of the class
\* are drawn with its model as the cap allows.
LEMMA AllInUse ==
  ASSUME IInv, NEW c \in Modelled, free[c] = <<>>, size[c] = Cap
  PROVE  Cardinality({h \in Held : EntityOf(h).cls = c /\ EntityOf(h).body # Box}) = Cap
<1> DEFINE S == {h \in Held : EntityOf(h).cls = c /\ EntityOf(h).body # Box}
           I == 1..Cap
           f == [k \in I |-> CHOOSE h \in S : EntityOf(h).body = <<c, k>>]
<1>0. Cap \in Nat
  BY PoolConstants
<1>1. \A h \in Held : EntityOf(h).body # Box =>
        /\ EntityOf(h).body[1] = EntityOf(h).cls /\ EntityOf(h).body \in Instance
        /\ \A k \in Held : EntityOf(k).body = EntityOf(h).body => k = h
  <2>1. BodiesRight(Gpu, Maps) /\ Maps \in Assignment
    BY DEF IInv, World, Pools
  <2> QED
    BY <2>1, HeldPlaces DEF BodiesRight, Assignment, Entity
<1>2. ASSUME NEW k \in I
      PROVE  \E h \in S : EntityOf(h).body = <<c, k>>
  <2> DEFINE x == <<c, k>>
  <2>1. x \in Instance /\ x[1] = c /\ x[2] = k /\ k <= Cap /\ x # Box
    BY <1>0, PoolConstants DEF Instance
  <2>2. Len(free[c]) = 0
    BY EmptySeq
  <2> HIDE DEF x
  <2>3. ~Idle(Gpu, x)
    BY <2>1, <2>2 DEF Idle, Gpu
  <2>4. Idle(Gpu, x) \/ \E h \in Place : Maps[h] # None /\ Maps[h].body = x
    BY <2>1 DEF IInv, World, Pools, NoneLost, Gpu
  <2>5. PICK h \in Held : EntityOf(h).body = x
    BY <2>3, <2>4, HeldPlaces
  <2> QED
    BY <2>1, <2>5, <1>1 DEF x
<1>3. f \in [I -> S] /\ \A k \in I : EntityOf(f[k]).body = <<c, k>>
  BY <1>2
<1> HIDE DEF f
<1>4. \A j, k \in I : f[j] = f[k] => j = k
  <2>1. ASSUME NEW j \in I, NEW k \in I, f[j] = f[k]
        PROVE  <<c, j>> = <<c, k>>
    BY <1>3, <2>1
  <2> QED
    BY <2>1
<1>5. ASSUME NEW h \in S
      PROVE  \E k \in I : f[k] = h
  <2>1. PICK k \in I : EntityOf(h).body = <<c, k>>
    BY <1>1 DEF Instance
  <2>2. f[k] \in Held /\ EntityOf(f[k]).body = EntityOf(h).body
    BY <2>1, <1>3
  <2> QED
    BY <2>1, <2>2, <1>1
<1> HIDE DEF S
<1>6. ExistsBijection(I, S)
  BY <1>3, <1>4, <1>5, Fun_IsBij, ZenonT(30) DEF ExistsBijection
<1>7. IsFiniteSet(I) /\ Cardinality(I) = Cap
  <2>1. 1 \in Int /\ Cap \in Int
    BY <1>0
  <2>2. IsFiniteSet(1..Cap) /\ Cardinality(1..Cap) = IF 1 > Cap THEN 0 ELSE Cap - 1 + 1
    BY <2>1, FS_Interval, Zenon
  <2>3. (IF 1 > Cap THEN 0 ELSE Cap - 1 + 1) = Cap
    BY <1>0
  <2> QED
    BY <2>2, <2>3
<1>8. Cardinality(S) = Cap
  BY <1>6, <1>7, FS_Bijection
<1> QED
  BY <1>8 DEF S

\* The object that comes as a box (objects.cpp update_objects, acquire_entity).
LEMMA BoxStep ==
  ASSUME IInv, NEW o \in Object, UpdateObject(o), next[o.id] = None,
         next'[o.id].body = Box, next'[o.id].cls \in Modelled,
         entities[o.id] = None \/ entities[o.id].cls # next'[o.id].cls
  PROVE  free[next'[o.id].cls] = <<>> /\ size[next'[o.id].cls] = Cap
<1> DEFINE i == o.id
           e == entities[i]
           c == o.cls
<1>1. i \in Id /\ c \in Class /\ Gpu \in Worlds /\ Gpu.free = free /\ Gpu.size = size
        /\ e \in Entity \cup {None} /\ next \in [Id -> Entity \cup {None}]
  BY DEF Object, IInv, World, Gpu
<1>2. next'[i] = Updated(o).entity /\ Fade \ live # {}
  BY <1>1 DEF UpdateObject
<1>3. Entered(o).entity.body = Box /\ Entered(o).entity.cls = next'[i].cls
  BY <1>2, UpdatedBody
<1>4. \A g : Acquire(g, c).entity.cls = c
  BY DEF Acquire, Boxed, Reuse, Grow, Bare
<1>5. Entered(o).entity.cls = c
  BY <1>4 DEF Entered
<1>6. CASE e = None
  BY <1>1, <1>3, <1>5, <1>6, BoxMeansNoneFree DEF Entered
<1>7. CASE e # None
  <2> DEFINE g == Release(Gpu, e)
  <2>1. e \in Entity /\ e.cls # c
    BY <1>1, <1>3, <1>5, <1>7
  <2>2. Acquire(g, c).entity.body = Box
    BY <1>3, <1>7, <2>1 DEF Entered
  <2>3. g \in Worlds
    <3>1. <<"old", i>> \in Place /\ Maps[<<"old", i>>] = e
      BY <1>1, Places
    <3> QED
      BY <3>1, <1>7, ReleaseWorld DEF IInv, World
  <2>4. g.free[c] = <<>> /\ g.size[c] = Cap
    <3> HIDE DEF g, c
    <3> QED
      BY <2>2, <2>3, <1>3, <1>5, BoxMeansNoneFree
  <2>5. c \in Modelled /\ g.free[c] = free[c] /\ g.size[c] = size[c]
    BY <2>1, <1>1, <1>3, <1>5 DEF Release, Returned, Worlds
  <2> QED
    BY <2>4, <2>5, <1>3, <1>5
<1> QED
  BY <1>6, <1>7

LEMMA BoxesRight ==
  ASSUME IInv, [Next]_vars
  PROVE  [\A i \in Id :
            LET e == next'[i] IN
            /\ next[i] = None /\ e # None
            /\ e.body = Box /\ e.cls \in Modelled
            /\ entities[i] = None \/ entities[i].cls # e.cls
            => Cardinality({h \in Held : EntityOf(h).cls = e.cls /\ EntityOf(h).body # Box}) = Cap]_vars
<1> DEFINE New(i) == /\ next[i] = None /\ next'[i] # None
                     /\ next'[i].body = Box /\ next'[i].cls \in Modelled
                     /\ entities[i] = None \/ entities[i].cls # next'[i].cls
<1> SUFFICES ASSUME Next, NEW i \in Id, New(i)
             PROVE  Cardinality({h \in Held : EntityOf(h).cls = next'[i].cls
                                                /\ EntityOf(h).body # Box}) = Cap
  OBVIOUS
<1>1. next \in [Id -> Entity \cup {None}]
  BY DEF IInv
<1>2. PICK o \in Object : UpdateObject(o)
  BY DEF Next, EndObjects, ReleaseVanished, EndFrame
<1>3. o.id = i
  BY <1>1, <1>2 DEF UpdateObject, Object
<1>4. free[next'[i].cls] = <<>> /\ size[next'[i].cls] = Cap
  BY <1>2, <1>3, BoxStep
<1> QED
  BY <1>4, AllInUse

\* A box is drawn for a class with a model only when the cap's worth of other
\* objects is drawn with it (objects.cpp acquire_entity).
THEOREM BoxesAreLastResort == Spec => BoxOnlyWhenAllInUse
<1>1. IInv /\ [Next]_vars =>
        [\A i \in Id :
           LET e == next'[i] IN
           /\ next[i] = None /\ e # None
           /\ e.body = Box /\ e.cls \in Modelled
           /\ entities[i] = None \/ entities[i].cls # e.cls
           => Cardinality({h \in Held : EntityOf(h).cls = e.cls /\ EntityOf(h).body # Box}) = Cap]_vars
  BY BoxesRight
<1> QED
  BY <1>1, Invariant, PTL DEF Spec, BoxOnlyWhenAllInUse
=============================================================================
