---------------------- MODULE IsolationRecoveryProofs ----------------------
(***************************************************************************)
(* Proofs about IsolationRecovery, for every topology, traffic, size of    *)
(* the queue and all timeouts.                                             *)
(*                                                                         *)
(* A step of a handler is a value s = [rt, nb, timer] that the operations  *)
(* of the neighbour list pass on.  Good(s) is what they all preserve: the  *)
(* types, the next hops of entries, the watch over neighbours, and that    *)
(* no neighbour was taken off the list without the routes through it.      *)
(***************************************************************************)
EXTENDS IsolationRecovery, TLAPS

Tables == [Hosts -> Entry]

Links == [life : LongOver..Longest, hw : BOOLEAN]

Lists == UNION {[S -> Links] : S \in SUBSET (Neighbours \cup {NoHop})}

Timers == {None} \cup 0..HelloInterval

(* Every entry leads to a neighbour. *)
HopsKnown(T) ==
    \A h \in Hosts : /\ T[h].nextHop \in Neighbours \cup {NoHop}
                     /\ T[h].flag # "NONE" => T[h].nextHop \in Neighbours

Table(T) == T \in Tables /\ HopsKnown(T)

Watched(s) ==
    \A x \in DOMAIN s.nb : s.timer # None /\ s.nb[x].life >= s.timer - HelloInterval

(* Valid route, known next hop: was it a neighbour, it still is. *)
Keeps(s) ==
    \A h \in Hosts :
        s.rt[h].flag = "VALID" /\ Known(s.rt, s.rt[h].nextHop) /\ s.rt[h].nextHop \in DOMAIN m_nb
            => s.rt[h].nextHop \in DOMAIN s.nb

StepOK(s) ==
    /\ s = [rt |-> s.rt, nb |-> s.nb, timer |-> s.timer]
    /\ Table(s.rt) /\ s.nb \in Lists /\ s.timer \in Timers

Good(s) == StepOK(s) /\ Watched(s) /\ Keeps(s)

PlaneInv ==
    /\ Table(rt) /\ m_nb \in Lists /\ m_ntimer \in Timers /\ used \subseteq Hosts
    /\ adrift \subseteq used /\ NeighboursWatched /\ UsedRoutesWatched

QueueInv ==
    /\ m_blocked \subseteq Suspects /\ quiet \in BOOLEAN
    /\ queue \in Seq(Hosts) /\ Len(queue) <= MaxQueue

IInv == PlaneInv /\ QueueInv

USE DataPlaneAssumption, RecoveryAssumption

----------------------------------------------------------------------------
(* The table.                                                              *)

(* Lifetimes stay below the longest one. *)
LEMMA LifeRange ==
    /\ Longest \in Nat
    /\ \A t \in {ActiveRouteTimeout, NeighbourLife, ReverseLife, ReplyLife, DeletePeriod} :
            t \in 0..Longest
    /\ \A a, b \in -1..Longest : Later(a, b) \in -1..Longest /\ Later(a, b) >= a /\ Later(a, b) >= b
  BY SMT DEF Longest, Later

(* A new route. *)
LEMMA RouteType ==
    ASSUME NEW life \in -1..Longest, NEW x \in Neighbours, NEW v \in BOOLEAN
    PROVE  /\ Route(life, x, v) \in Entry
           /\ Route(life, x, v).nextHop = x /\ Route(life, x, v).flag = "VALID"
  BY DEF Route, Entry, Hosts

(* Replacing one entry. *)
LEMMA TableExcept ==
    ASSUME NEW T, Table(T), NEW h \in Hosts, NEW e \in Entry, e.nextHop \in Neighbours
    PROVE  Table([T EXCEPT ![h] = e])
  BY DEF Table, Tables, HopsKnown

(* An entry that lives longer. *)
LEMMA LongerLife ==
    ASSUME NEW T, Table(T), NEW h \in Hosts, T[h].flag # "NONE", NEW t \in 0..Longest
    PROVE  /\ [T[h] EXCEPT !.life = Later(t, @)] \in Entry
           /\ Table([T EXCEPT ![h].life = Later(t, @)])
  <1>1. T[h] \in Entry /\ T[h].nextHop \in Neighbours
    BY DEF Table, Tables, HopsKnown
  <1>2. Later(t, T[h].life) \in -1..Longest
    <2>1. T[h].life \in -1..Longest /\ t \in -1..Longest
      BY <1>1, LifeRange, SMT DEF Entry
    <2> QED
      BY <2>1, LifeRange
  <1> DEFINE e == [T[h] EXCEPT !.life = Later(t, @)]
  <1>3. e \in Entry /\ e.nextHop = T[h].nextHop
    BY <1>1, <1>2 DEF Entry
  <1>4. [T EXCEPT ![h].life = Later(t, @)] = [T EXCEPT ![h] = e]
    OBVIOUS
  <1>5. Table([T EXCEPT ![h] = e])
    <2> HIDE DEF e
    <2> QED
      BY <1>1, <1>3, TableExcept
  <1> QED
    BY <1>3, <1>4, <1>5

LEMMA PurgedTable ==
    ASSUME NEW T, Table(T)
    PROVE  /\ Table(Purged(T))
           /\ \A h \in Hosts : Purged(T)[h].flag = "VALID" => Purged(T)[h] = T[h]
  <1> SUFFICES ASSUME NEW h \in Hosts
               PROVE  /\ Purged(T)[h] \in Entry
                      /\ Purged(T)[h].nextHop \in Neighbours \cup {NoHop}
                      /\ Purged(T)[h].flag # "NONE" => Purged(T)[h].nextHop \in Neighbours
                      /\ Purged(T)[h].flag = "VALID" => Purged(T)[h] = T[h]
    BY DEF Table, Tables, HopsKnown, Purged
  <1>1. /\ T[h] \in Entry /\ T[h].nextHop \in Neighbours \cup {NoHop}
        /\ T[h].flag # "NONE" => T[h].nextHop \in Neighbours
    BY DEF Table, Tables, HopsKnown
  <1>2. NoRoute \in Entry /\ NoRoute.flag = "NONE" /\ NoRoute.nextHop = NoHop
    BY LifeRange, SMT DEF NoRoute, Entry
  <1>3. DeletePeriod \in -1..Longest
    BY LifeRange, SMT
  <1>4. [T[h] EXCEPT !.flag = "INVALID", !.life = DeletePeriod] \in Entry
    BY <1>1, <1>3 DEF Entry
  <1>5. /\ [T[h] EXCEPT !.flag = "INVALID", !.life = DeletePeriod].nextHop = T[h].nextHop
        /\ [T[h] EXCEPT !.flag = "INVALID", !.life = DeletePeriod].flag = "INVALID"
    BY <1>1 DEF Entry
  <1>6. CASE T[h].life >= 0
    BY <1>1, <1>6 DEF Purged
  <1>7. CASE ~(T[h].life >= 0) /\ T[h].flag = "VALID"
    <2>1. Purged(T)[h] = [T[h] EXCEPT !.flag = "INVALID", !.life = DeletePeriod]
      BY <1>7 DEF Purged
    <2> QED
      BY <1>1, <1>4, <1>5, <1>7, <2>1
  <1>8. CASE ~(T[h].life >= 0) /\ T[h].flag # "VALID"
    <2>1. Purged(T)[h] = NoRoute
      BY <1>8 DEF Purged
    <2> QED
      BY <1>2, <2>1
  <1> QED
    BY <1>6, <1>7, <1>8

(* Invalidating leaves the next hops, and who has an entry. *)
LEMMA InvalidateTable ==
    ASSUME NEW T, Table(T), NEW D
    PROVE  /\ Table(InvalidateRoutesWithDst(T, D))
           /\ \A h \in Hosts :
                /\ InvalidateRoutesWithDst(T, D)[h].nextHop = T[h].nextHop
                /\ InvalidateRoutesWithDst(T, D)[h].flag = "NONE" <=> T[h].flag = "NONE"
                /\ InvalidateRoutesWithDst(T, D)[h].flag = "VALID" <=> T[h].flag = "VALID" /\ h \notin D
  <1> DEFINE e(h) == InvalidateRoutesWithDst(T, D)[h]
  <1>1. ASSUME NEW h \in Hosts
        PROVE  /\ e(h) \in Entry /\ e(h).nextHop = T[h].nextHop
               /\ e(h).flag = "NONE" <=> T[h].flag = "NONE"
               /\ e(h).flag = "VALID" <=> T[h].flag = "VALID" /\ h \notin D
    <2>1. T[h] \in Entry /\ DeletePeriod \in -1..Longest
      BY LifeRange, SMT DEF Table, Tables
    <2>2. CASE h \in D /\ T[h].flag = "VALID"
      <3>1. e(h) = [T[h] EXCEPT !.flag = "INVALID", !.life = DeletePeriod]
        BY <2>2 DEF InvalidateRoutesWithDst
      <3> QED
        BY <2>1, <2>2, <3>1 DEF Entry
    <2>3. CASE ~(h \in D /\ T[h].flag = "VALID")
      <3>1. e(h) = T[h]
        BY <2>3 DEF InvalidateRoutesWithDst
      <3> QED
        BY <2>1, <2>3, <3>1
    <2> QED
      BY <2>2, <2>3
  <1> QED
    BY <1>1 DEF Table, Tables, HopsKnown, InvalidateRoutesWithDst

(* Prolonging changes lifetimes only. *)
LEMMA LifeTimeTable ==
    ASSUME NEW T, Table(T), NEW g
    PROVE  /\ Table(UpdateRouteLifeTime(T, g))
           /\ \A h \in Hosts : /\ UpdateRouteLifeTime(T, g)[h].nextHop = T[h].nextHop
                               /\ UpdateRouteLifeTime(T, g)[h].flag = T[h].flag
  <1>1. CASE g \in Hosts /\ T[g].flag = "VALID"
    <2>1. Table(UpdateRouteLifeTime(T, g))
      BY <1>1, LifeRange, LongerLife DEF UpdateRouteLifeTime
    <2> QED
      BY <1>1, <2>1 DEF UpdateRouteLifeTime, Table, Tables, Entry
  <1>2. CASE ~(g \in Hosts /\ T[g].flag = "VALID")
    BY <1>2 DEF UpdateRouteLifeTime
  <1> QED
    BY <1>1, <1>2

(* After UpdateRouteToNeighbor the neighbour has an entry of its own. *)
LEMMA NeighborTable ==
    ASSUME NEW T, Table(T), NEW x \in Neighbours
    PROVE  /\ Table(UpdateRouteToNeighbor(T, x))
           /\ UpdateRouteToNeighbor(T, x)[x].nextHop = x
           /\ UpdateRouteToNeighbor(T, x)[x].flag # "NONE"
  <1>1. x \in Hosts /\ T \in Tables /\ T[x] \in Entry
    BY DEF Table, Tables, Hosts
  <1>2. CASE Known(T, x) /\ T[x].vsn /\ T[x].nextHop = x
    BY <1>2 DEF UpdateRouteToNeighbor, Known
  <1>3. CASE ~(Known(T, x) /\ T[x].vsn /\ T[x].nextHop = x)
    <2> DEFINE e == Route(Later(ActiveRouteTimeout, T[x].life), x, FALSE)
    <2>1. T[x].life \in -1..Longest /\ ActiveRouteTimeout \in -1..Longest
      BY <1>1, LifeRange, SMT DEF Entry
    <2>2. Later(ActiveRouteTimeout, T[x].life) \in -1..Longest
      BY <2>1, LifeRange
    <2>3. e \in Entry /\ e.nextHop = x /\ e.flag = "VALID"
      BY <2>2, RouteType
    <2>4. UpdateRouteToNeighbor(T, x) = [T EXCEPT ![x] = e]
      BY <1>3 DEF UpdateRouteToNeighbor
    <2> HIDE DEF e
    <2>5. Table([T EXCEPT ![x] = e]) /\ [T EXCEPT ![x] = e][x] = e
      BY <1>1, <2>3, TableExcept DEF Tables
    <2> QED
      BY <2>3, <2>4, <2>5
  <1> QED
    BY <1>2, <1>3

----------------------------------------------------------------------------
(* The list.                                                               *)

LEMMA ListType ==
    \A N : N \in Lists <=>
        /\ N = [x \in DOMAIN N |-> N[x]] /\ DOMAIN N \subseteq Neighbours \cup {NoHop}
        /\ \A x \in DOMAIN N : N[x] \in Links
  BY DEF Lists

(* The neighbours that a purge reports, and erases. *)
Lost(s, C) == TimedOut(s.nb) \cup C

(* What a purge does to a route: its entry is invalidated if it leads to a *)
(* lost neighbour that has an entry, or is one.                            *)
LEMMA PurgeBreaks ==
    ASSUME NEW s, StepOK(s), NEW C
    PROVE  /\ Table(Purge(s, C).rt)
           /\ DOMAIN Purge(s, C).nb = DOMAIN s.nb \ Lost(s, C)
           /\ \A h \in Hosts :
                /\ Purge(s, C).rt[h].nextHop = s.rt[h].nextHop
                /\ Purge(s, C).rt[h].flag = "NONE" <=> s.rt[h].flag = "NONE"
                /\ Purge(s, C).rt[h].flag = "VALID" => s.rt[h].flag = "VALID"
                /\ s.rt[h].flag = "VALID" /\ h \notin Lost(s, C) /\ s.rt[h].nextHop \notin Lost(s, C)
                     => Purge(s, C).rt[h].flag = "VALID"
                /\ DOMAIN s.nb # {} /\ Purge(s, C).rt[h].flag = "VALID"
                     /\ Known(s.rt, s.rt[h].nextHop)
                     => s.rt[h].nextHop \notin Lost(s, C)
  <1>1. CASE DOMAIN s.nb = {}
    <2>1. Purge(s, C).rt = s.rt /\ Purge(s, C).nb = s.nb
      BY <1>1 DEF Purge, StepOK
    <2> QED
      BY <1>1, <2>1 DEF StepOK
  <1>2. CASE DOMAIN s.nb # {}
    <2> DEFINE K == {x \in Lost(s, C) : Known(s.rt, x)}
               D == UNION {{x} \cup Via(s.rt, x) : x \in K}
    <2>1. /\ Purge(s, C).rt = InvalidateRoutesWithDst(s.rt, D)
          /\ Purge(s, C).nb = Without(s.nb, Lost(s, C))
      BY <1>2 DEF Purge, Lost, SendRerrWhenBreaksLinkToNextHop
    <2>2. Table(s.rt)
      BY DEF StepOK
    <2>3. ASSUME NEW h \in Hosts, h \in D
          PROVE  h \in Lost(s, C) \/ s.rt[h].nextHop \in Lost(s, C)
      BY <2>3 DEF Via
    <2>4. ASSUME NEW h \in Hosts, Known(s.rt, s.rt[h].nextHop), s.rt[h].nextHop \in Lost(s, C),
                 s.rt[h].flag = "VALID"
          PROVE  h \in D
      <3>1. h \in Via(s.rt, s.rt[h].nextHop)
        BY <2>4 DEF Via, Known
      <3> QED
        BY <2>4, <3>1
    <2>5. DOMAIN Purge(s, C).nb = DOMAIN s.nb \ Lost(s, C)
      BY <2>1 DEF Without
    <2> HIDE DEF D
    <2> QED
      BY <2>1, <2>2, <2>3, <2>4, <2>5, InvalidateTable
  <1> QED
    BY <1>1, <1>2

(* Whatever was watched before, after a purge everybody is. *)
LEMMA PurgeIsGood ==
    ASSUME NEW s, StepOK(s), Keeps(s), NEW C
    PROVE  Good(Purge(s, C))
  <1> DEFINE p == Purge(s, C)
  <1>1. Table(p.rt)
    BY PurgeBreaks
  <1>2. Keeps(p)
    <2> SUFFICES ASSUME NEW h \in Hosts, p.rt[h].flag = "VALID", Known(p.rt, p.rt[h].nextHop),
                        p.rt[h].nextHop \in DOMAIN m_nb
                 PROVE  p.rt[h].nextHop \in DOMAIN p.nb
      BY DEF Keeps
    <2>1. s.rt[h].flag = "VALID" /\ p.rt[h].nextHop = s.rt[h].nextHop
      BY PurgeBreaks
    <2>2. Known(s.rt, s.rt[h].nextHop)
      BY <2>1, PurgeBreaks DEF Known
    <2>3. s.rt[h].nextHop \in DOMAIN s.nb
      BY <2>1, <2>2 DEF Keeps
    <2>4. s.rt[h].nextHop \notin Lost(s, C)
      BY <2>2, <2>3, PurgeBreaks
    <2> QED
      BY <2>1, <2>3, <2>4, PurgeBreaks
  <1>3. StepOK(p) /\ Watched(p)
    <2>1. CASE DOMAIN s.nb = {}
      <3>1. /\ p = [rt |-> s.rt, nb |-> s.nb, timer |-> IF s.timer = 0 THEN None ELSE s.timer]
        BY <2>1 DEF Purge, StepOK
      <3> QED
        BY <2>1, <3>1 DEF StepOK, Watched, Timers
    <2>2. CASE DOMAIN s.nb # {}
      <3>1. p.nb = Without(s.nb, Lost(s, C)) /\ p.timer = HelloInterval
            /\ p = [rt |-> p.rt, nb |-> p.nb, timer |-> p.timer]
        BY <2>2 DEF Purge, Lost
      <3>2. p.nb \in Lists
        <4>1. s.nb \in Lists
          BY DEF StepOK
        <4>2. /\ p.nb = [x \in DOMAIN p.nb |-> p.nb[x]] /\ DOMAIN p.nb \subseteq DOMAIN s.nb
              /\ \A x \in DOMAIN p.nb : p.nb[x] = s.nb[x]
          BY <3>1 DEF Without
        <4> HIDE DEF p
        <4> QED
          BY <4>1, <4>2, ListType
      <3>3. HelloInterval \in Timers /\ HelloInterval # None
        BY SMT DEF Timers
      <3>4. \A x \in DOMAIN p.nb : p.nb[x].life >= p.timer - HelloInterval
        <4> SUFFICES ASSUME NEW x \in DOMAIN p.nb PROVE p.nb[x].life >= p.timer - HelloInterval
          OBVIOUS
        <4>1. p.nb[x] = s.nb[x] /\ x \in DOMAIN s.nb /\ ~(s.nb[x].life < 0)
          BY <3>1 DEF Without, Lost, TimedOut
        <4>2. p.nb[x].life \in Int
          BY <3>2, ListType, LifeRange, SMT DEF Links, LongOver
        <4> HIDE DEF p
        <4> QED
          BY <3>1, <4>1, <4>2, SMT
      <3> HIDE DEF p
      <3> QED
        BY <1>1, <3>1, <3>2, <3>3, <3>4 DEF StepOK, Watched
    <2> QED
      BY <2>1, <2>2
  <1> QED
    BY <1>2, <1>3 DEF Good

(* Update adds the neighbour or prolongs its stay. *)
LEMMA UpdateIsGood ==
    ASSUME NEW s, Good(s), NEW x \in Neighbours \cup {NoHop}, NEW life \in 0..Longest,
           NEW hw \in BOOLEAN
    PROVE  Good(Update(s, x, life, hw))
  <1> DEFINE u == Update(s, x, life, hw)
             found == hw /\ x # NoHop
  <1>1. StepOK(s) /\ Watched(s) /\ Keeps(s) /\ s.nb \in Lists /\ Table(s.rt) /\ s.timer \in Timers
    BY DEF Good, StepOK
  <1>2. CASE x \in DOMAIN s.nb
    <2> DEFINE e == [life |-> Later(life, s.nb[x].life), hw |-> s.nb[x].hw \/ found]
               N == [s.nb EXCEPT ![x] = e]
    <2>1. u = [rt |-> s.rt, nb |-> N, timer |-> s.timer]
      BY <1>1, <1>2 DEF Update, StepOK
    <2>2. s.nb[x] \in Links
      BY <1>1, <1>2, ListType
    <2>3. Later(life, s.nb[x].life) \in LongOver..Longest /\ Later(life, s.nb[x].life) >= s.nb[x].life
      BY <2>2, LifeRange, SMT DEF Links, Later, LongOver
    <2>4. e \in Links /\ e.life >= s.nb[x].life
      BY <2>3 DEF Links
    <2>5. DOMAIN N = DOMAIN s.nb /\ N[x] = e /\ (\A y \in DOMAIN s.nb : y # x => N[y] = s.nb[y])
          /\ N = [y \in DOMAIN N |-> N[y]]
      BY <1>1, <1>2, ListType
    <2> HIDE DEF e, N
    <2>6. N \in Lists
      BY <1>1, <2>4, <2>5, ListType
    <2>7. \A y \in DOMAIN N : s.timer # None /\ N[y].life >= s.timer - HelloInterval
      <3> SUFFICES ASSUME NEW y \in DOMAIN N
                   PROVE  s.timer # None /\ N[y].life >= s.timer - HelloInterval
        OBVIOUS
      <3>1. s.timer # None /\ s.nb[y].life >= s.timer - HelloInterval
        BY <1>1, <2>5 DEF Watched
      <3>2. N[y] \in Links /\ s.nb[y] \in Links
        BY <1>1, <2>5, <2>6, ListType
      <3>3. N[y].life \in Int /\ s.nb[y].life \in Int
        BY <3>2, LifeRange, SMT DEF Links, LongOver
      <3>4. N[y].life >= s.nb[y].life
        <4>1. CASE y = x
          BY <2>4, <2>5, <4>1
        <4>2. CASE y # x
          BY <2>5, <3>3, <4>2, SMT
        <4> QED
          BY <4>1, <4>2
      <3>5. s.timer \in Int
        BY <1>1, <3>1, SMT DEF Timers
      <3> QED
        BY <3>1, <3>3, <3>4, <3>5, SMT
    <2>8. StepOK(u) /\ Watched(u) /\ Keeps(u)
      BY <1>1, <2>1, <2>5, <2>6, <2>7 DEF StepOK, Watched, Keeps
    <2> QED
      BY <2>8 DEF Good
  <1>3. CASE x \notin DOMAIN s.nb
    <2> DEFINE e == [life |-> life, hw |-> found]
               N == [y \in DOMAIN s.nb \cup {x} |-> IF y = x THEN e ELSE s.nb[y]]
               w == [rt |-> s.rt, nb |-> N, timer |-> s.timer]
    <2>1. u = Purge(w, {})
      BY <1>1, <1>3 DEF Update, StepOK
    <2>2. e \in Links
      BY LifeRange, SMT DEF Links, LongOver
    <2>3. DOMAIN N = DOMAIN s.nb \cup {x} /\ N[x] = e /\ (\A y \in DOMAIN s.nb : y # x => N[y] = s.nb[y])
          /\ N = [y \in DOMAIN N |-> N[y]]
      OBVIOUS
    <2> HIDE DEF e, N
    <2>4. N \in Lists
      BY <1>1, <2>2, <2>3, ListType
    <2>5. StepOK(w) /\ Keeps(w)
      BY <1>1, <2>3, <2>4 DEF StepOK, Keeps
    <2> QED
      BY <2>1, <2>5, PurgeIsGood
  <1> QED
    BY <1>2, <1>3

(* Updating who is on the list disturbs neither list nor table. *)
LEMMA UpdateKnown ==
    ASSUME NEW s, Good(s), NEW x \in DOMAIN s.nb, NEW life, NEW hw
    PROVE  /\ Update(s, x, life, hw).rt = s.rt
           /\ DOMAIN Update(s, x, life, hw).nb = DOMAIN s.nb
  <1>1. s = [rt |-> s.rt, nb |-> s.nb, timer |-> s.timer]
    BY DEF Good, StepOK
  <1>2. s.nb = [y \in DOMAIN s.nb |-> s.nb[y]]
    BY ListType DEF Good, StepOK
  <1> QED
    BY <1>1, <1>2 DEF Update

(* Along the route to d, whose next hop v is watched, packets go through. *)
Carries(s, d, v) ==
    /\ s.rt[d].flag = "VALID" /\ s.rt[d].nextHop = v /\ v \in DOMAIN s.nb
    /\ d \notin TimedOut(s.nb) /\ v \notin TimedOut(s.nb)

(* A route in use survives: the neighbour it leads to is on the list and   *)
(* has not timed out, or is the one that comes to it now; the same goes    *)
(* for its destination, where that is on the list.                         *)
LEMMA UpdateSpares ==
    ASSUME NEW s, Good(s), NEW x \in Neighbours \cup {NoHop}, NEW life \in 0..Longest,
           NEW hw \in BOOLEAN, NEW d \in Hosts, NEW v,
           s.rt[d].flag = "VALID", s.rt[d].nextHop = v, d = x \/ d \notin TimedOut(s.nb),
           v = x \/ (v \in DOMAIN s.nb /\ v \notin TimedOut(s.nb))
    PROVE  Carries(Update(s, x, life, hw), d, v)
  <1> DEFINE u == Update(s, x, life, hw)
             found == hw /\ x # NoHop
  <1>1. StepOK(s) /\ s.nb \in Lists
    BY DEF Good, StepOK
  <1>2. CASE x \in DOMAIN s.nb
    <2> DEFINE e == [life |-> Later(life, s.nb[x].life), hw |-> s.nb[x].hw \/ found]
    <2>1. u = [rt |-> s.rt, nb |-> [s.nb EXCEPT ![x] = e], timer |-> s.timer]
      BY <1>1, <1>2 DEF Update, StepOK
    <2>2. s.nb[x] \in Links
      BY <1>1, <1>2, ListType
    <2>3. ~(e.life < 0)
      BY <2>2, LifeRange, SMT DEF Links, Later, LongOver
    <2> HIDE DEF e
    <2>4. DOMAIN u.nb = DOMAIN s.nb /\ u.nb[x] = e /\ (\A y \in DOMAIN s.nb : y # x => u.nb[y] = s.nb[y])
      BY <1>1, <1>2, <2>1, ListType
    <2>5. TimedOut(u.nb) \subseteq TimedOut(s.nb) \ {x}
      BY <2>3, <2>4 DEF TimedOut
    <2>6. u.rt = s.rt
      BY <2>1
    <2> HIDE DEF u
    <2> QED
      BY <1>2, <2>4, <2>5, <2>6 DEF u, Carries
  <1>3. CASE x \notin DOMAIN s.nb
    <2> DEFINE e == [life |-> life, hw |-> found]
               N == [y \in DOMAIN s.nb \cup {x} |-> IF y = x THEN e ELSE s.nb[y]]
               w == [rt |-> s.rt, nb |-> N, timer |-> s.timer]
    <2>1. u = Purge(w, {})
      BY <1>1, <1>3 DEF Update, StepOK
    <2>2. e \in Links /\ ~(e.life < 0)
      <3>1. life \in LongOver..Longest /\ ~(life < 0) /\ found \in BOOLEAN
        BY LifeRange, SMT DEF LongOver
      <3> QED
        BY <3>1 DEF Links
    <2>3. DOMAIN N = DOMAIN s.nb \cup {x} /\ N[x] = e /\ (\A y \in DOMAIN s.nb : y # x => N[y] = s.nb[y])
          /\ N = [y \in DOMAIN N |-> N[y]]
      OBVIOUS
    <2> HIDE DEF e, N
    <2>4. N \in Lists
      BY <1>1, <2>2, <2>3, ListType
    <2>5. StepOK(w)
      BY <1>1, <2>4 DEF StepOK
    <2>6. Lost(w, {}) = TimedOut(N) /\ TimedOut(N) \subseteq TimedOut(s.nb) \ {x}
      BY <2>2, <2>3 DEF Lost, TimedOut
    <2>7. /\ Purge(w, {}).rt[d].nextHop = v
          /\ Purge(w, {}).rt[d].flag = "VALID"
          /\ DOMAIN Purge(w, {}).nb = DOMAIN N \ TimedOut(N)
      BY <2>5, <2>6, PurgeBreaks
    <2>8. v \in DOMAIN Purge(w, {}).nb
      BY <2>3, <2>6, <2>7
    <2>9. TimedOut(Purge(w, {}).nb) = {}
      <3>1. Purge(w, {}).nb = Without(N, TimedOut(N))
        BY <2>3, <2>6 DEF Purge, Lost
      <3> QED
        BY <3>1 DEF Without, TimedOut
    <2> QED
      BY <2>1, <2>7, <2>8, <2>9 DEF Carries
  <1> QED
    BY <1>2, <1>3

----------------------------------------------------------------------------
(* The steps of the node.                                                  *)

LEMMA ChangedIsGood ==
    ASSUME PlaneInv, NEW R, Table(R)
    PROVE  Good(Changed(Now, R))
  <1>1. Changed(Now, R) = [rt |-> R, nb |-> m_nb, timer |-> m_ntimer]
    BY DEF Changed, Now
  <1> QED
    BY <1>1 DEF Good, StepOK, Watched, Keeps, PlaneInv, NeighboursWatched

(* The table every handler starts from. *)
LEMMA NowIsGood ==
    ASSUME PlaneInv
    PROVE  /\ Good(Now) /\ Table(Now.rt)
           /\ \A d \in Hosts : Now.rt[d].flag = "VALID"
                  => Now.rt[d] = rt[d] /\ Now.rt[d].nextHop \in Neighbours
  <1>1. Table(rt) /\ Now.rt = Purged(rt) /\ Now = Changed(Now, Purged(rt))
    BY DEF PlaneInv, Now, Changed
  <1>2. Table(Now.rt) /\ Good(Now)
    BY <1>1, PurgedTable, ChangedIsGood
  <1> QED
    BY <1>1, <1>2, PurgedTable DEF Table, HopsKnown

LEMMA HeardIsTable ==
    ASSUME PlaneInv, NEW x \in Neighbours
    PROVE  /\ Table(Heard(x).rt)
           /\ Heard(x).rt[x].nextHop = x /\ Heard(x).rt[x].flag # "NONE"
  <1>1. Heard(x).rt = UpdateRouteToNeighbor(Now.rt, x)
    BY DEF Heard, Changed, Now
  <1> QED
    BY <1>1, NowIsGood, NeighborTable

(* A good step, and routes in use that are watched or set adrift. *)
LEMMA BecomesGood ==
    ASSUME PlaneInv, NEW s, Good(s), NEW U \in SUBSET Hosts, NEW C \in SUBSET U,
           BecomesUsing(s, U, C),
           \A h \in U \ C : s.rt[h].flag = "VALID" /\ s.rt[h].nextHop \in DOMAIN s.nb
    PROVE  PlaneInv'
  <1> DEFINE kept == {h \in used : s.rt[h].flag = "VALID" /\ s.rt[h].nextHop = rt[h].nextHop}
  <1>1. /\ rt' = s.rt /\ m_nb' = s.nb /\ m_ntimer' = s.timer /\ used' = U \cup kept
        /\ adrift' = C \cup ((adrift \cap kept) \ U)
                        \cup {h \in U \cup kept : ~Known(s.rt, s.rt[h].nextHop)}
    BY DEF BecomesUsing
  <1>2. Table(rt') /\ m_nb' \in Lists /\ m_ntimer' \in Timers /\ NeighboursWatched'
    BY <1>1 DEF Good, StepOK, Watched, NeighboursWatched
  <1>3. used' \subseteq Hosts /\ adrift' \subseteq used'
    BY <1>1 DEF PlaneInv
  <1>4. UsedRoutesWatched'
    <2> SUFFICES ASSUME NEW h \in used', h \notin adrift'
                 PROVE  s.rt[h].flag = "VALID" /\ s.rt[h].nextHop \in DOMAIN s.nb
      BY <1>1 DEF UsedRoutesWatched
    <2>1. CASE h \in U
      BY <1>1, <2>1
    <2>2. CASE h \notin U
      <3>1. h \in kept /\ h \notin adrift /\ Known(s.rt, s.rt[h].nextHop)
        BY <1>1, <2>2
      <3>2. h \in Hosts /\ rt[h].nextHop \in DOMAIN m_nb
        BY <3>1 DEF PlaneInv, UsedRoutesWatched
      <3> QED
        BY <3>1, <3>2 DEF Good, Keeps
    <2> QED
      BY <2>1, <2>2
  <1> HIDE DEF kept
  <1> QED
    BY <1>2, <1>3, <1>4 DEF PlaneInv, Table, HopsKnown

(* A step along which nothing is forwarded. *)
LEMMA BecomesPlain ==
    ASSUME PlaneInv, NEW s, Good(s), Becomes(s)
    PROVE  PlaneInv'
  BY BecomesGood DEF Becomes

LEMMA RouteOutputKeeps ==
    ASSUME PlaneInv, NEW d \in Hosts, RouteOutput(d)
    PROVE  PlaneInv'
  <1> DEFINE R == UpdateRouteLifeTime(UpdateRouteLifeTime(Now.rt, d), rt[d].nextHop)
  <1>1. Table(R)
    BY NowIsGood, LifeTimeTable
  <1>2. Becomes(Changed(Now, R))
    BY DEF RouteOutput
  <1> HIDE DEF R
  <1> QED
    BY <1>1, <1>2, ChangedIsGood, BecomesPlain

LEMMA DeliverKeeps ==
    ASSUME PlaneInv, NEW o \in Hosts, NEW hw \in BOOLEAN, DeliverLocally(o, hw)
    PROVE  PlaneInv'
  <1> DEFINE T == UpdateRouteLifeTime(Now.rt, o)
             x == T[o].nextHop
             s == Changed(Now, UpdateRouteLifeTime(T, x))
  <1>1. Table(T) /\ Table(UpdateRouteLifeTime(T, x))
    BY NowIsGood, LifeTimeTable
  <1>2. Good(Changed(Now, T)) /\ Good(s)
    BY <1>1, ChangedIsGood
  <1>3. ActiveRouteTimeout \in 0..Longest
    BY LifeRange
  <1>4. Becomes(IF T[o].flag # "VALID" THEN Changed(Now, T)
                ELSE Update(s, x, ActiveRouteTimeout, hw))
    BY DEF DeliverLocally
  <1>5. x \in Neighbours \cup {NoHop}
    BY <1>1 DEF Table, HopsKnown
  <1> HIDE DEF T, x, s
  <1>6. CASE T[o].flag # "VALID"
    BY <1>2, <1>4, <1>6, BecomesPlain
  <1>7. CASE T[o].flag = "VALID"
    <2>1. Good(Update(s, x, ActiveRouteTimeout, hw))
      BY <1>2, <1>3, <1>5, UpdateIsGood
    <2> QED
      BY <1>4, <1>7, <2>1, BecomesPlain
  <1> QED
    BY <1>6, <1>7

(* The next hop of d comes onto the list first; the second Update purges   *)
(* only neighbours that had timed out before, so the route stays valid but *)
(* where the destination is such a neighbour: CutOff.                      *)
LEMMA ForwardingKeeps ==
    ASSUME PlaneInv, NEW o \in Hosts, NEW d \in Hosts, NEW hw \in BOOLEAN \X BOOLEAN,
           Forwarding(o, d, hw)
    PROVE  PlaneInv'
  <1> DEFINE T == Now.rt
             x == T[d].nextHop
             y == T[o].nextHop
             R == UpdateRouteLifeTime(UpdateRouteLifeTime(UpdateRouteLifeTime(
                      UpdateRouteLifeTime(T, o), d), x), y)
             s0 == Changed(Now, R)
             s1 == Update(s0, x, ActiveRouteTimeout, hw[1])
             s2 == Update(s1, y, ActiveRouteTimeout, hw[2])
             C == CutOff(o, d)
  <1>1. Table(R) /\ R[d].flag = T[d].flag /\ R[d].nextHop = x
    BY NowIsGood, LifeTimeTable
  <1>2. s0.rt = R /\ s0.nb = m_nb
    BY DEF Changed, Now
  <1>3. /\ T[d].flag = "VALID" /\ x \in Neighbours /\ y \in Neighbours \cup {NoHop}
        /\ ActiveRouteTimeout \in 0..Longest /\ hw[1] \in BOOLEAN /\ hw[2] \in BOOLEAN
    BY NowIsGood, LifeRange DEF Forwarding, CanForward, Table, HopsKnown
  <1>4. BecomesUsing(s2, {d}, C)
    BY DEF Forwarding, Forwarded
  <1>5. C \in SUBSET {d}
    BY DEF CutOff
  <1>6. d \in C \/ x = d \/ d \notin TimedOut(m_nb) \/ (x \in DOMAIN m_nb /\ y \in DOMAIN m_nb)
    BY DEF CutOff
  <1> HIDE DEF T, x, y, R, C
  <1>7. Good(s0) /\ s0.rt[d].flag = "VALID" /\ s0.rt[d].nextHop = x
    BY <1>1, <1>2, <1>3, ChangedIsGood
  <1> HIDE DEF s0
  <1>8. Good(s1)
    BY <1>3, <1>7, UpdateIsGood
  <1> HIDE DEF s1
  <1>9. Good(s2)
    BY <1>3, <1>8, UpdateIsGood
  <1>10. ASSUME d \notin C
         PROVE  s2.rt[d].flag = "VALID" /\ s2.rt[d].nextHop \in DOMAIN s2.nb
    <2>1. CASE x \in DOMAIN m_nb /\ y \in DOMAIN m_nb
      <3>1. s1.rt = s0.rt /\ DOMAIN s1.nb = DOMAIN m_nb
        BY <1>2, <1>7, <2>1, UpdateKnown DEF s1
      <3>2. s2.rt = s1.rt /\ DOMAIN s2.nb = DOMAIN s1.nb
        BY <1>8, <2>1, <3>1, UpdateKnown
      <3> QED
        BY <1>7, <2>1, <3>1, <3>2
    <2>2. CASE x = d \/ d \notin TimedOut(m_nb)
      <3>1. Carries(s1, d, x)
        BY <1>2, <1>3, <1>7, <2>2, UpdateSpares DEF s1
      <3>2. /\ s1.rt[d].flag = "VALID" /\ s1.rt[d].nextHop = x /\ d \notin TimedOut(s1.nb)
            /\ x \in DOMAIN s1.nb /\ x \notin TimedOut(s1.nb)
        BY <3>1 DEF Carries
      <3>3. Carries(s2, d, x)
        BY <1>3, <1>8, <3>2, UpdateSpares, Zenon
      <3> QED
        BY <3>3 DEF Carries
    <2> QED
      BY <1>6, <1>10, <2>1, <2>2
  <1> HIDE DEF s2
  <1>11. {d} \in SUBSET Hosts /\ \A h \in {d} \ C : s2.rt[h].flag = "VALID"
                                                 /\ s2.rt[h].nextHop \in DOMAIN s2.nb
    BY <1>10
  <1> QED
    BY <1>4, <1>5, <1>9, <1>11, BecomesGood

LEMMA NoRouteKeeps ==
    ASSUME PlaneInv, NEW o, NEW d, NoRouteToForward(o, d)
    PROVE  PlaneInv'
  BY NowIsGood, BecomesPlain DEF NoRouteToForward

(* A table made from Heard(x) that the handler leaves without the list. *)
LEMMA TableStep ==
    ASSUME PlaneInv, NEW R, Table(R), Becomes(Changed(Now, R))
    PROVE  PlaneInv'
  BY ChangedIsGood, BecomesPlain

LEMMA RequestKeeps ==
    ASSUME PlaneInv, NEW x \in Neighbours, NEW h \in Hosts, NEW hw \in BOOLEAN,
           RecvRequest(x, h, hw)
    PROVE  PlaneInv'
  <1> DEFINE T == Heard(x).rt
             e == IF Known(T, h)
                  THEN [T[h] EXCEPT !.life = Later(ReverseLife, @), !.nextHop = x, !.vsn = TRUE]
                  ELSE Route(ReverseLife, x, TRUE)
             R == [T EXCEPT ![h] = e]
             s == Changed(Now, [R EXCEPT ![x] = Route(ActiveRouteTimeout, x, FALSE)])
  <1>1. Table(T) /\ T[h] \in Entry /\ x \in Hosts
    BY HeardIsTable DEF Table, Tables, Hosts
  <1>2. e \in Entry /\ e.nextHop = x
    <2>1. ReverseLife \in -1..Longest /\ T[h].life \in -1..Longest
      BY <1>1, LifeRange, SMT DEF Entry
    <2>2. Later(ReverseLife, T[h].life) \in -1..Longest
      BY <2>1, LifeRange
    <2>3. CASE Known(T, h)
      BY <1>1, <2>2, <2>3 DEF Entry
    <2>4. CASE ~Known(T, h)
      BY <2>1, <2>4, RouteType
    <2> QED
      BY <2>3, <2>4
  <1> HIDE DEF T, e
  <1>3. Table(R)
    BY <1>1, <1>2, TableExcept
  <1> HIDE DEF R
  <1>4. Table([R EXCEPT ![x] = Route(ActiveRouteTimeout, x, FALSE)])
    <2>1. ActiveRouteTimeout \in -1..Longest
      BY LifeRange, SMT
    <2> QED
      BY <1>1, <1>3, <2>1, RouteType, TableExcept
  <1>5. Good(s) /\ NeighbourLife \in 0..Longest
    BY <1>4, ChangedIsGood, LifeRange
  <1>6. Becomes(Update(s, x, NeighbourLife, hw))
    BY DEF RecvRequest, T, e, R
  <1> HIDE DEF s
  <1>7. Good(Update(s, x, NeighbourLife, hw))
    BY <1>5, UpdateIsGood
  <1> QED
    BY <1>6, <1>7, BecomesPlain

LEMMA HelloKeeps ==
    ASSUME PlaneInv, NEW x \in Neighbours, NEW hw \in BOOLEAN, ProcessHello(x, hw)
    PROVE  PlaneInv'
  <1> DEFINE T == Heard(x).rt
             e == Route(Later(NeighbourLife, T[x].life), x, TRUE)
             s == Changed(Now, [T EXCEPT ![x] = e])
  <1>1. Table(T) /\ T[x] \in Entry /\ x \in Hosts
    BY HeardIsTable DEF Table, Tables, Hosts
  <1>2. e \in Entry /\ e.nextHop = x
    <2> HIDE DEF T
    <2>1. T[x].life \in -1..Longest
      BY <1>1 DEF Entry
    <2>2. NeighbourLife \in -1..Longest
      BY LifeRange, SMT
    <2>3. Later(NeighbourLife, T[x].life) \in -1..Longest
      BY <2>1, <2>2, LifeRange
    <2> QED
      BY <2>3, RouteType
  <1>3. s = Changed(Now, [T EXCEPT ![x] = Route(Later(NeighbourLife, @.life), x, TRUE)])
    OBVIOUS
  <1>4. Becomes(IF EnableHello THEN Update(s, x, NeighbourLife, hw) ELSE s)
    BY <1>3 DEF ProcessHello
  <1> HIDE DEF T, e
  <1>5. Good(s) /\ NeighbourLife \in 0..Longest
    BY <1>1, <1>2, TableExcept, ChangedIsGood, LifeRange
  <1> HIDE DEF s
  <1>6. Good(Update(s, x, NeighbourLife, hw))
    BY <1>5, UpdateIsGood
  <1>7. CASE EnableHello
    BY <1>4, <1>6, <1>7, BecomesPlain
  <1>8. CASE ~EnableHello
    BY <1>4, <1>5, <1>8, BecomesPlain
  <1> QED
    BY <1>7, <1>8

LEMMA ReplyKeeps ==
    ASSUME PlaneInv, NEW x \in Neighbours, NEW h \in Hosts, NEW o, NEW news \in BOOLEAN,
           RecvReply(x, h, o, news)
    PROVE  PlaneInv'
  <1> DEFINE T == Heard(x).rt
             R == IF news THEN [T EXCEPT ![h] = Route(ReplyLife, x, TRUE)] ELSE T
             Q == IF Known(R, o) THEN [R EXCEPT ![o].life = Later(ActiveRouteTimeout, @)] ELSE R
  <1>1. Table(T)
    BY HeardIsTable
  <1>2. Becomes(Changed(Now, Q))
    BY DEF RecvReply
  <1> HIDE DEF T
  <1>3. Table(R)
    <2>1. ReplyLife \in -1..Longest
      BY LifeRange, SMT
    <2>2. Route(ReplyLife, x, TRUE) \in Entry /\ Route(ReplyLife, x, TRUE).nextHop \in Neighbours
      BY <2>1, RouteType
    <2> QED
      BY <1>1, <2>2, TableExcept
  <1> HIDE DEF R
  <1>4. Table(Q)
    BY <1>3, LongerLife, LifeRange DEF Known
  <1> HIDE DEF Q
  <1> QED
    BY <1>2, <1>4, TableStep

LEMMA AckKeeps ==
    ASSUME PlaneInv, NEW x \in Neighbours, RecvReplyAck(x)
    PROVE  PlaneInv'
  <1> DEFINE T == Heard(x).rt
             e == [T[x] EXCEPT !.flag = "VALID"]
  <1>1. Table(T) /\ T[x] \in Entry /\ x \in Hosts /\ T[x].nextHop = x
    BY HeardIsTable DEF Table, Tables, Hosts
  <1>2. e \in Entry /\ e.nextHop = x
    BY <1>1 DEF Entry
  <1>3. [T EXCEPT ![x].flag = "VALID"] = [T EXCEPT ![x] = e]
    OBVIOUS
  <1>4. Becomes(Changed(Now, [T EXCEPT ![x] = e]))
    BY <1>3 DEF RecvReplyAck
  <1> HIDE DEF T, e
  <1>5. Table([T EXCEPT ![x] = e])
    BY <1>1, <1>2, TableExcept
  <1> QED
    BY <1>4, <1>5, TableStep

LEMMA ErrorKeeps ==
    ASSUME PlaneInv, NEW x \in Neighbours, NEW D, RecvError(x, D)
    PROVE  PlaneInv'
  <1>1. Table(InvalidateRoutesWithDst(Heard(x).rt, D \cap Via(Heard(x).rt, x)))
    BY HeardIsTable, InvalidateTable
  <1> QED
    BY <1>1, TableStep DEF RecvError

LEMMA HearsKeeps ==
    ASSUME PlaneInv, NEW x \in Neighbours, NEW hw \in Arp, Hears(x, hw)
    PROVE  PlaneInv'
  <1>1. SpeaksOf[x] \subseteq Hosts /\ hw \in BOOLEAN
    OBVIOUS
  <1>2. ASSUME NEW h \in SpeaksOf[x], RecvRequest(x, h, hw) PROVE PlaneInv'
    BY <1>1, <1>2, RequestKeeps
  <1>3. ASSUME NEW h \in SpeaksOf[x], RecvError(x, {h}) PROVE PlaneInv'
    BY <1>3, ErrorKeeps
  <1>4. ASSUME NEW h \in SpeaksOf[x], NEW o \in Hosts \cup {NoHop}, NEW news \in BOOLEAN,
               RecvReply(x, h, o, news)
        PROVE  PlaneInv'
    BY <1>1, <1>4, ReplyKeeps
  <1>5. CASE ProcessHello(x, hw)
    BY <1>1, <1>5, HelloKeeps
  <1>6. CASE RecvReplyAck(x)
    BY <1>6, AckKeeps
  <1>7. CASE RecvOther(x)
    <2>1. Heard(x) = Changed(Now, Heard(x).rt)
      BY DEF Heard, Changed, Now
    <2> QED
      BY <1>7, <2>1, HeardIsTable, TableStep DEF RecvOther
  <1> QED
    BY <1>2, <1>3, <1>4, <1>5, <1>6, <1>7 DEF Hears

LEMMA PurgeKeeps ==
    ASSUME PlaneInv, NEW C, Becomes(Purge(Now, C))
    PROVE  PlaneInv'
  <1>1. StepOK(Now) /\ Keeps(Now)
    BY NowIsGood DEF Good
  <1> QED
    BY <1>1, PurgeIsGood, BecomesPlain

(* Lifetimes and the timer go down together. *)
LEMMA TickKeeps ==
    ASSUME PlaneInv, Tick
    PROVE  PlaneInv'
  <1>1. Table(rt')
    <2> SUFFICES ASSUME NEW h \in Hosts
                 PROVE  /\ rt'[h] \in Entry /\ rt'[h].nextHop = rt[h].nextHop
                        /\ rt'[h].flag = rt[h].flag
      BY DEF Tick, PlaneInv, Table, Tables, HopsKnown
    <2>1. rt[h] \in Entry
      BY DEF PlaneInv, Table, Tables
    <2>2. Later(rt[h].life - 1, -1) \in -1..Longest
      BY <2>1, LifeRange, SMT DEF Entry, Later
    <2>3. rt'[h] = [rt[h] EXCEPT !.life = Later(rt[h].life - 1, -1)]
      BY DEF Tick
    <2> QED
      BY <2>1, <2>2, <2>3 DEF Entry
  <1>2. /\ DOMAIN m_nb' = DOMAIN m_nb /\ m_nb' = [x \in DOMAIN m_nb' |-> m_nb'[x]]
        /\ \A x \in DOMAIN m_nb : m_nb'[x] = [m_nb[x] EXCEPT !.life = Later(@ - 1, LongOver)]
    BY DEF Tick
  <1>3. ASSUME NEW x \in DOMAIN m_nb
        PROVE  /\ m_nb'[x] \in Links
               /\ m_ntimer' # None /\ m_nb'[x].life >= m_ntimer' - HelloInterval
    <2>1. /\ m_nb[x] \in Links /\ m_ntimer # None
          /\ m_nb[x].life >= m_ntimer - HelloInterval
      BY ListType DEF PlaneInv, NeighboursWatched
    <2>2. m_ntimer \in 0..HelloInterval /\ m_ntimer # 0 /\ m_ntimer' = m_ntimer - 1
      BY <2>1 DEF PlaneInv, Timers, Tick
    <2>3. /\ Later(m_nb[x].life - 1, LongOver) \in LongOver..Longest
          /\ Later(m_nb[x].life - 1, LongOver) >= m_ntimer' - HelloInterval
      BY <2>1, <2>2, LifeRange, SMT DEF Links, Later, LongOver
    <2>4. m_ntimer' # None
      BY <2>2, SMT
    <2> QED
      BY <1>2, <2>1, <2>3, <2>4 DEF Links
  <1>4. m_ntimer' \in Timers
    <2>1. CASE m_ntimer = None
      BY <2>1 DEF Tick, Timers
    <2>2. CASE m_ntimer # None
      <3>1. m_ntimer \in 0..HelloInterval /\ m_ntimer # 0 /\ m_ntimer' = m_ntimer - 1
        BY <2>2 DEF Tick, PlaneInv, Timers
      <3>2. m_ntimer' \in 0..HelloInterval
        BY <3>1, SMT
      <3> QED
        BY <3>2 DEF Timers
    <2> QED
      BY <2>1, <2>2
  <1>5. m_nb' \in Lists /\ NeighboursWatched'
    BY <1>2, <1>3, ListType DEF PlaneInv, NeighboursWatched
  <1>6. used' \subseteq Hosts /\ adrift' \subseteq used'
    BY DEF Tick, PlaneInv
  <1>7. UsedRoutesWatched'
    <2> SUFFICES ASSUME NEW h \in used, h \notin adrift
                 PROVE  rt'[h].flag = "VALID" /\ rt'[h].nextHop \in DOMAIN m_nb'
      BY DEF UsedRoutesWatched, Tick
    <2>1. h \in Hosts /\ rt[h] \in Entry /\ rt[h].flag = "VALID" /\ rt[h].nextHop \in DOMAIN m_nb
      BY DEF PlaneInv, UsedRoutesWatched, Table, Tables
    <2>2. rt'[h] = [rt[h] EXCEPT !.life = Later(rt[h].life - 1, -1)]
      BY <2>1 DEF Tick
    <2> QED
      BY <1>2, <2>1, <2>2 DEF Entry
  <1> QED
    BY <1>1, <1>4, <1>5, <1>6, <1>7 DEF PlaneInv, Table, HopsKnown

----------------------------------------------------------------------------
(* The queue, and the specification.                                       *)

LEMMA InitIsGood == Init => IInv
  <1> SUFFICES ASSUME Init PROVE IInv
    OBVIOUS
  <1>1. Table(rt)
    <2>1. NoRoute \in Entry /\ NoRoute.flag = "NONE" /\ NoRoute.nextHop = NoHop
      BY LifeRange, SMT DEF NoRoute, Entry
    <2> QED
      BY <2>1 DEF Init, PlaneInit, Table, Tables, HopsKnown
  <1>2. DOMAIN m_nb = {} /\ m_nb = [x \in DOMAIN m_nb |-> m_nb[x]]
    BY SMT DEF Init, PlaneInit
  <1>3. m_nb \in Lists /\ NeighboursWatched /\ UsedRoutesWatched
    BY <1>2, ListType DEF Init, PlaneInit, NeighboursWatched, UsedRoutesWatched
  <1>4. m_ntimer \in Timers
    BY SMT DEF Init, PlaneInit, Timers
  <1>5. QueueInv
    <2>1. m_blocked = {} /\ queue = << >> /\ quiet = FALSE
      BY DEF Init
    <2>2. queue \in Seq(Hosts) /\ Len(queue) = 0
      BY <2>1
    <2>3. Len(queue) <= MaxQueue
      BY <2>2, SMT
    <2> QED
      BY <2>1, <2>2, <2>3 DEF QueueInv
  <1> QED
    BY <1>1, <1>3, <1>4, <1>5 DEF Init, PlaneInit, IInv, PlaneInv

LEMMA EnqueueKeeps ==
    ASSUME queue \in Seq(Hosts), Len(queue) <= MaxQueue, NEW x \in Hosts, DoEnqueue(x)
    PROVE  queue' \in Seq(Hosts) /\ Len(queue') <= MaxQueue
  <1>1. CASE x \in m_blocked \/ Len(queue) = MaxQueue
    BY <1>1 DEF DoEnqueue
  <1>2. CASE ~(x \in m_blocked \/ Len(queue) = MaxQueue)
    <2>1. queue' = Append(queue, x) /\ Len(queue) # MaxQueue
      BY <1>2 DEF DoEnqueue
    <2>2. queue' \in Seq(Hosts) /\ Len(queue') = Len(queue) + 1 /\ Len(queue) \in Nat
      BY <2>1
    <2> QED
      BY <2>1, <2>2, SMT
  <1> QED
    BY <1>1, <1>2

LEMMA StepIsGood == IInv /\ [Next]_vars => IInv'
  <1> SUFFICES ASSUME IInv, [Next]_vars PROVE IInv'
    OBVIOUS
  <1>1. PlaneInv /\ QueueInv
    BY DEF IInv
  <1>2. \A f \in Flows : f[1] \in Hosts /\ f[2] \in Hosts
    OBVIOUS
  <1>3. ASSUME NEW d \in Hosts, SendPacket(d) PROVE IInv'
    <2>1. PlaneInv'
      BY <1>1, <1>3, RouteOutputKeeps DEF SendPacket
    <2>2. rt[d].nextHop \in Hosts
      BY <1>1, <1>3, NowIsGood DEF SendPacket, RouteOutput, Hosts
    <2> QED
      BY <1>1, <1>3, <2>1, <2>2, EnqueueKeeps DEF SendPacket, QueueInv, IInv
  <1>4. ASSUME NEW d \in Hosts, ForwardPacket(d) PROVE IInv'
    <2> PICK o \in OriginsOf(d), hw \in Arp \X Arp : Forwarding(o, d, hw)
      BY <1>4 DEF ForwardPacket
    <2>1. PlaneInv'
      BY <1>1, ForwardingKeeps DEF OriginsOf
    <2>2. rt[d].nextHop \in Hosts
      BY <1>1, NowIsGood DEF Forwarding, CanForward, Hosts
    <2> QED
      BY <1>1, <1>4, <2>1, <2>2, EnqueueKeeps DEF ForwardPacket, QueueInv, IInv
  <1>5. ASSUME NEW d \in Hosts, NoRouteFor(d) PROVE IInv'
    BY <1>1, <1>5, NoRouteKeeps DEF NoRouteFor, QueueInv, IInv
  <1>6. CASE Deliver
    <2> PICK f \in Flows, hw \in Arp : DeliverLocally(f[1], hw)
      BY <1>6 DEF Deliver
    <2>1. PlaneInv'
      BY <1>1, <1>2, DeliverKeeps
    <2> QED
      BY <1>1, <1>6, <2>1 DEF Deliver, QueueInv, IInv
  <1>7. ASSUME NEW x \in Neighbours, Hear(x) PROVE IInv'
    BY <1>1, <1>7, HearsKeeps DEF Hear, QueueInv, IInv
  <1>8. ASSUME NEW x \in Suspects, Isolate(x) \/ Release(x) PROVE IInv'
    <2>1. UNCHANGED plane_vars /\ UNCHANGED <<queue, quiet>> /\ m_blocked' \subseteq Suspects
      BY <1>1, <1>8 DEF Isolate, Release, QueueInv
    <2> QED
      BY <1>1, <2>1 DEF IInv, PlaneInv, QueueInv, plane_vars, Table, HopsKnown,
                        NeighboursWatched, UsedRoutesWatched
  <1>9. CASE Transmit
    <2>1. queue' \in Seq(Hosts) /\ Len(queue') <= MaxQueue
      BY <1>1, <1>9, SMT DEF Transmit, QueueInv
    <2>2. CASE UNCHANGED plane_vars
      BY <1>1, <1>9, <2>1, <2>2 DEF Transmit, IInv, PlaneInv, QueueInv, plane_vars, Table,
                                    HopsKnown, NeighboursWatched, UsedRoutesWatched
    <2>3. CASE ProcessTxError(Head(queue))
      BY <1>1, <1>9, <2>1, <2>3, PurgeKeeps DEF Transmit, ProcessTxError, IInv, QueueInv
    <2> QED
      BY <1>9, <2>2, <2>3 DEF Transmit
  <1>10. CASE FallSilent \/ UNCHANGED vars
    BY <1>1, <1>10 DEF FallSilent, IInv, PlaneInv, QueueInv, vars, plane_vars, Table, HopsKnown,
                       NeighboursWatched, UsedRoutesWatched
  <1>11. CASE TimerExpires
    BY <1>1, <1>11, PurgeKeeps DEF TimerExpires, NeighbourTimerExpire, IInv, QueueInv
  <1>12. CASE TimePasses
    BY <1>1, <1>12, TickKeeps DEF TimePasses, IInv, QueueInv
  <1> QED
    BY <1>2, <1>3, <1>4, <1>5, <1>6, <1>7, <1>8, <1>9, <1>10, <1>11, <1>12 DEF Next

(* IInv is an inductive invariant. *)
THEOREM Inductive == Spec => []IInv
  BY InitIsGood, StepIsGood, PTL DEF Spec

(* Tables, list, timer, blacklist and queue have their types. *)
THEOREM TypeCorrect == Spec => []RecoveryTypeOK
  <1>1. IInv => RecoveryTypeOK
    <2> SUFFICES ASSUME IInv PROVE RecoveryTypeOK
      OBVIOUS
    <2>1. ASSUME NEW x \in DOMAIN m_nb
          PROVE  m_nb[x] \in [life : (0 - HelloInterval)..Longest, hw : BOOLEAN]
      <3>1. m_nb[x] \in Links /\ m_ntimer # None /\ m_nb[x].life >= m_ntimer - HelloInterval
        BY ListType DEF IInv, PlaneInv, NeighboursWatched
      <3>2. m_ntimer \in 0..HelloInterval
        BY <3>1 DEF IInv, PlaneInv, Timers
      <3>3. m_nb[x].life \in (0 - HelloInterval)..Longest
        BY <3>1, <3>2, LifeRange, SMT DEF Links, LongOver
      <3> QED
        BY <3>1, <3>3 DEF Links
    <2>2. DOMAIN m_nb \subseteq Neighbours \cup {NoHop}
      BY ListType DEF IInv, PlaneInv
    <2> QED
      BY <2>1, <2>2 DEF IInv, PlaneInv, QueueInv, Table, Tables, Timers, PlaneTypeOK, RecoveryTypeOK
  <1> QED
    BY <1>1, Inductive, PTL

(* NeighboursWatched: while a node has neighbours the timer of the list    *)
(* runs (Neighbors::Purge, Update), and nobody stays on it longer than one *)
(* HelloInterval after his time is over.                                   *)
THEOREM NeighboursStayWatched == Spec => []NeighboursWatched
  <1>1. IInv => NeighboursWatched
    BY DEF IInv, PlaneInv
  <1> QED
    BY <1>1, Inductive, PTL

(* UsedRoutesWatched: a route the node forwarded along (Forwarding) is     *)
(* valid when the packet is handed on, and its next hop is on the          *)
(* neighbour list as long as it is in use; only CutOff and the loss of the *)
(* next hop's own entry let go of it.                                      *)
THEOREM UsedRoutesStayWatched == Spec => []UsedRoutesWatched
  <1>1. IInv => UsedRoutesWatched
    BY DEF IInv, PlaneInv
  <1> QED
    BY <1>1, Inductive, PTL

----------------------------------------------------------------------------
(* What isolation and silence can no longer bring back.                    *)

(* While x stays isolated the frames that wait for it keep their places,   *)
(* except that each transmission brings every one of them one place        *)
(* nearer to the head, and the one at the head out.                        *)
IsolatedDrains ==
    [][\A x \in Suspects : x \in m_blocked =>
          /\ Transmit => Waiting(x)' = {k - 1 : k \in Waiting(x) \ {1}}
          /\ ~Transmit => Waiting(x)' = Waiting(x)]_vars

(* DoEnqueue adds no frame for an isolated next hop. *)
LEMMA EnqueueSpares ==
    ASSUME QueueInv, NEW y \in Hosts, DoEnqueue(y), NEW x \in m_blocked
    PROVE  Waiting(x)' = Waiting(x)
  <1>1. CASE y \in m_blocked \/ Len(queue) = MaxQueue
    BY <1>1 DEF DoEnqueue, Waiting
  <1>2. CASE ~(y \in m_blocked \/ Len(queue) = MaxQueue)
    <2>1. queue' = Append(queue, y) /\ y # x /\ queue \in Seq(Hosts)
      BY <1>2 DEF DoEnqueue, QueueInv
    <2>2. /\ Len(queue) \in Nat
          /\ DOMAIN queue = 1..Len(queue) /\ DOMAIN queue' = 1..(Len(queue) + 1)
          /\ queue'[Len(queue) + 1] = y
          /\ \A k \in 1..Len(queue) : queue'[k] = queue[k]
      BY <2>1
    <2>3. \A k : k \in 1..(Len(queue) + 1) <=> k \in 1..Len(queue) \/ k = Len(queue) + 1
      BY <2>2, SMT
    <2> QED
      BY <2>1, <2>2, <2>3 DEF Waiting
  <1> QED
    BY <1>1, <1>2

(* Transmit moves everybody up. *)
LEMMA TransmitMovesUp ==
    ASSUME QueueInv, Transmit, NEW x
    PROVE  Waiting(x)' = {k - 1 : k \in Waiting(x) \ {1}}
  <1>1. queue # << >> /\ queue' = Tail(queue) /\ queue \in Seq(Hosts)
    BY DEF Transmit, QueueInv
  <1>2. /\ Len(queue) \in Nat \ {0}
        /\ DOMAIN queue = 1..Len(queue) /\ DOMAIN queue' = 1..(Len(queue) - 1)
        /\ \A k \in 1..(Len(queue) - 1) : queue'[k] = queue[k + 1]
    BY <1>1
  <1>3. \A k \in Waiting(x)' : k + 1 \in Waiting(x) \ {1} /\ k = (k + 1) - 1
    BY <1>2, SMT DEF Waiting
  <1>4. \A k \in Waiting(x) \ {1} : k - 1 \in Waiting(x)'
    <2> SUFFICES ASSUME NEW k \in Waiting(x) \ {1} PROVE k - 1 \in Waiting(x)'
      OBVIOUS
    <2>1. k \in 1..Len(queue) /\ k # 1 /\ queue[k] = x
      BY <1>2 DEF Waiting
    <2>2. k - 1 \in 1..(Len(queue) - 1) /\ (k - 1) + 1 = k
      BY <1>2, <2>1, SMT
    <2> QED
      BY <1>2, <2>1, <2>2 DEF Waiting
  <1> QED
    BY <1>3, <1>4

(* The safety half of IsolatedIsCutOff: under a blacklist entry that stays *)
(* nothing joins the queue (DoEnqueue), so MaxQueue transmissions see the  *)
(* last of what waited before.                                             *)
THEOREM IsolatedOnlyDrains == Spec => IsolatedDrains
  <1> DEFINE Drains(x) == /\ Transmit => Waiting(x)' = {k - 1 : k \in Waiting(x) \ {1}}
                          /\ ~Transmit => Waiting(x)' = Waiting(x)
  <1>1. ASSUME IInv, Next, NEW x \in Suspects, x \in m_blocked PROVE Drains(x)
    <2>1. QueueInv /\ PlaneInv
      BY <1>1 DEF IInv
    <2>2. CASE Transmit
      BY <2>1, <2>2, TransmitMovesUp
    <2>3. CASE ~Transmit
      <3>1. ASSUME NEW d \in Hosts, SendPacket(d) \/ ForwardPacket(d)
            PROVE  Waiting(x)' = Waiting(x)
        <4>1. DoEnqueue(rt[d].nextHop) /\ Now.rt[d].flag = "VALID"
          BY <3>1 DEF SendPacket, ForwardPacket, RouteOutput, Forwarding, CanForward
        <4>2. rt[d].nextHop \in Hosts
          BY <2>1, <4>1, NowIsGood DEF Hosts
        <4> QED
          BY <1>1, <2>1, <4>1, <4>2, EnqueueSpares
      <3>2. ASSUME UNCHANGED queue PROVE Waiting(x)' = Waiting(x)
        BY <3>2 DEF Waiting
      <3>3. \A f \in Flows : f[2] \in Hosts
        OBVIOUS
      <3>4. Waiting(x)' = Waiting(x)
        BY <1>1, <2>3, <3>1, <3>2, <3>3
           DEF Next, NoRouteFor, Deliver, Hear, Isolate, Release, FallSilent, TimerExpires, TimePasses
      <3> QED
        BY <2>3, <3>4
    <2> QED
      BY <2>2, <2>3
  <1>2. ASSUME IInv, [Next]_vars
        PROVE  [\A x \in Suspects : x \in m_blocked => Drains(x)]_vars
    BY <1>1, <1>2
  <1> QED
    BY <1>2, Inductive, PTL DEF Spec, IsolatedDrains

(* In silence no neighbour comes back or stays longer, and a route that is *)
(* usable was usable before, along the same next hop and for no longer.    *)
Forgets ==
    /\ quiet'
    /\ DOMAIN m_nb' \subseteq DOMAIN m_nb
    /\ \A x \in DOMAIN m_nb' : m_nb'[x].life <= m_nb[x].life
    /\ \A d \in Hosts : Usable(d)' => /\ Usable(d)
                                      /\ rt'[d].nextHop = rt[d].nextHop
                                      /\ rt'[d].life <= rt[d].life

SilenceForgets == [][quiet => Forgets]_vars

(* What a purge leaves of the list and of the valid routes, it leaves as   *)
(* it was.                                                                 *)
LEMMA PurgeForgets ==
    ASSUME NEW C
    PROVE  /\ DOMAIN Purge(Now, C).nb \subseteq DOMAIN m_nb
           /\ \A x \in DOMAIN Purge(Now, C).nb : Purge(Now, C).nb[x] = m_nb[x]
           /\ \A h \in Hosts : Purge(Now, C).rt[h].flag = "VALID" =>
                 Purge(Now, C).rt[h] = rt[h] /\ rt[h].life >= 0
  <1> DEFINE p == Purge(Now, C)
  <1>1. p.nb = m_nb \/ \E D : p.nb = Without(m_nb, D)
    BY DEF Purge, Now
  <1>2. ASSUME NEW h \in Hosts, Purged(rt)[h].flag = "VALID"
        PROVE  Purged(rt)[h] = rt[h] /\ rt[h].life >= 0
    BY <1>2 DEF Purged, NoRoute
  <1>3. p.rt = Purged(rt) \/ \E D : p.rt = InvalidateRoutesWithDst(Purged(rt), D)
    BY DEF Purge, Now, SendRerrWhenBreaksLinkToNextHop
  <1>4. ASSUME NEW h \in Hosts, NEW D, InvalidateRoutesWithDst(Purged(rt), D)[h].flag = "VALID"
        PROVE  InvalidateRoutesWithDst(Purged(rt), D)[h] = Purged(rt)[h]
    BY <1>4 DEF InvalidateRoutesWithDst
  <1>5. \A h \in Hosts : p.rt[h].flag = "VALID" => p.rt[h] = rt[h] /\ rt[h].life >= 0
    BY <1>2, <1>3, <1>4
  <1>6. /\ DOMAIN p.nb \subseteq DOMAIN m_nb
        /\ \A x \in DOMAIN p.nb : p.nb[x] = m_nb[x]
    BY <1>1 DEF Without
  <1> QED
    BY <1>5, <1>6

(* The safety half of SilenceEndsRoutes: MAC failures, purges and the      *)
(* clock only take away.                                                   *)
THEOREM SilenceOnlyForgets == Spec => SilenceForgets
  <1>1. ASSUME IInv, Next, quiet PROVE Forgets
    <2>1. /\ Table(rt)
          /\ \A x \in DOMAIN m_nb : m_nb[x].life \in LongOver..Longest
          /\ \A d \in Hosts : rt[d].life \in -1..Longest
      BY <1>1, ListType DEF IInv, PlaneInv, Table, Tables, Entry, Links
    <2>2. ASSUME UNCHANGED plane_vars, quiet' PROVE Forgets
      BY <2>1, <2>2, LifeRange, SMT DEF Forgets, plane_vars, Usable, LongOver
    <2>3. ASSUME NEW C, Becomes(Purge(Now, C)), quiet' PROVE Forgets
      <3>1. /\ DOMAIN m_nb' \subseteq DOMAIN m_nb
            /\ \A x \in DOMAIN m_nb' : m_nb'[x] = m_nb[x]
            /\ \A d \in Hosts : rt'[d].flag = "VALID" => rt'[d] = rt[d]
        BY <2>3, PurgeForgets DEF Becomes, BecomesUsing
      <3>2. quiet'
        BY <2>3
      <3>3. \A x \in DOMAIN m_nb' : m_nb'[x].life <= m_nb[x].life
        BY <2>1, <3>1, LifeRange, SMT DEF LongOver
      <3>4. \A d \in Hosts : Usable(d)' => /\ Usable(d)
                                           /\ rt'[d].nextHop = rt[d].nextHop
                                           /\ rt'[d].life <= rt[d].life
        <4> SUFFICES ASSUME NEW d \in Hosts, Usable(d)'
                     PROVE  Usable(d) /\ rt'[d] = rt[d] /\ rt[d].life <= rt[d].life
          OBVIOUS
        <4>1. rt'[d].flag = "VALID" /\ rt'[d].life >= 0
          BY DEF Usable
        <4>2. rt'[d] = rt[d]
          BY <3>1, <4>1
        <4>3. rt[d].life \in -1..Longest
          BY <2>1
        <4>4. rt[d].life <= rt[d].life
          BY <4>3, LifeRange, SMT
        <4> QED
          BY <4>1, <4>2, <4>4 DEF Usable
      <3> QED
        BY <3>1, <3>2, <3>3, <3>4 DEF Forgets
    <2>4. ASSUME Tick, quiet' PROVE Forgets
      <3>1. /\ \A x \in DOMAIN m_nb : m_nb'[x] = [m_nb[x] EXCEPT !.life = Later(@ - 1, LongOver)]
            /\ DOMAIN m_nb' = DOMAIN m_nb
            /\ \A d \in Hosts : rt'[d] = [rt[d] EXCEPT !.life = Later(@ - 1, -1)]
        BY <2>4 DEF Tick
      <3>2. ASSUME NEW x \in DOMAIN m_nb PROVE m_nb'[x].life <= m_nb[x].life
        <4>1. m_nb'[x].life = Later(m_nb[x].life - 1, LongOver)
          BY <3>1, <1>1, ListType DEF IInv, PlaneInv, Links
        <4> QED
          BY <4>1, <2>1, LifeRange, SMT DEF Later, LongOver
      <3>3. ASSUME NEW d \in Hosts, Usable(d)'
            PROVE  Usable(d) /\ rt'[d].nextHop = rt[d].nextHop /\ rt'[d].life <= rt[d].life
        <4>1. /\ rt'[d].flag = rt[d].flag /\ rt'[d].nextHop = rt[d].nextHop
              /\ rt'[d].life = Later(rt[d].life - 1, -1)
          <5>1. rt[d] \in Entry
            BY <2>1 DEF Table, Tables
          <5>2. rt'[d] = [rt[d] EXCEPT !.life = Later(@ - 1, -1)]
            BY <3>1
          <5> QED
            BY <5>1, <5>2 DEF Entry
        <4>2. rt'[d].life >= 0 /\ rt'[d].flag = "VALID"
          BY <3>3 DEF Usable
        <4>3. rt'[d].life <= rt[d].life /\ rt[d].life >= 0
          BY <4>1, <4>2, <2>1, LifeRange, SMT DEF Later
        <4> QED
          BY <4>1, <4>2, <4>3 DEF Usable
      <3> QED
        BY <2>4, <3>1, <3>2, <3>3 DEF Forgets
    <2>5. CASE Transmit
      <3>1. quiet'
        BY <1>1, <2>5 DEF Transmit
      <3> QED
        BY <2>2, <2>3, <2>5, <3>1 DEF Transmit, ProcessTxError
    <2> QED
      BY <1>1, <2>2, <2>3, <2>4, <2>5
         DEF Next, SendPacket, ForwardPacket, NoRouteFor, Deliver, Hear, Isolate, Release,
             FallSilent, TimerExpires, NeighbourTimerExpire, TimePasses
  <1>2. ASSUME IInv, [Next]_vars PROVE [quiet => Forgets]_vars
    BY <1>1, <1>2
  <1> QED
    BY <1>2, Inductive, PTL DEF Spec, SilenceForgets

=============================================================================
