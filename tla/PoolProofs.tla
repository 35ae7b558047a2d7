------------------------------ MODULE PoolProofs ------------------------------
(***************************************************************************)
(* Proofs about Pool: for any keys and routes, any number of callers and   *)
(* of entry objects, the books of the pool agree and nothing is closed     *)
(* under whoever uses it.                                                  *)
(***************************************************************************)
EXTENDS Pool, FiniteSetTheorems, WellFoundedInduction, TLAPS

(***************************************************************************)
(* The inductive invariant.  ToClose and ToDrop say what work a goroutine  *)
(* still has outside the lock, Uses how many references there ought to be, *)
(* and Dials who dials an entry, as the end of a route or as a hop of one. *)
(***************************************************************************)
ToClose(p, e)   == CloseItem(e) \in Range(todo[p])
ToDrop(p, h, e) == DropItem(h, e) \in Range(todo[p])

Uses(e) == Cardinality(LeasesOn(e)) + Cardinality(Awaiting(e))
           + Cardinality(Routing(e))

Dials(c, e) == mine[c] = e \/ (pc[c] = "dial" /\ cur[c] = e)

(* The map has the entries that are not evicted, each under its key. *)
MapShape ==
  /\ \A k \in Keys : conns[k] # None => key[conns[k]] = k /\ ~evicted[conns[k]]
  /\ \A e \in Entries : ~evicted[e] => key[e] \in Keys /\ conns[key[e]] = e
  /\ closed => \A e \in Entries : evicted[e]

(* An entry has a client once its dial succeeded; while it is dialled only   *)
(* Close takes it out of the map.                                            *)
PhaseShape ==
  \A e \in Entries :
    /\ conn[e] = "none" <=> phase[e] # "ready"
    /\ phase[e] # "unborn" => key[e] \in Keys
    /\ phase[e] \in {"unborn", "failed"} => evicted[e]
    /\ phase[e] = "dialling" /\ ~closed => ~evicted[e]

(* What a caller's place in Acquire and dialThrough fixes. *)
CallerShape ==
  \A c \in Callers :
    /\ pc[c] \in {"idle", "held"} => mine[c] = None
    /\ pc[c] \in {"route", "dial", "unwind", "fail"} => mine[c] \in Entries
    /\ cur[c] \in Entries <=> pc[c] \in {"wait", "dial", "held"}
    /\ mine[c] = None \/ pc[c] = "fail" => borrowed[c] = <<>>
    /\ todo[c] # <<>> => pc[c] \in {"idle", "unwind", "fail"}

(* A route being dialled has leases on its first hops, in order, and waits   *)
(* for or dials the next one.                                                *)
RouteOf(c) ==
  /\ phase[mine[c]] = "dialling"
  /\ Len(borrowed[c]) <= Depth(mine[c])
  /\ \A i \in 1..Len(borrowed[c]) :
       /\ key[borrowed[c][i]] = Route[key[mine[c]]][i]
       /\ <<mine[c], borrowed[c][i]>> \in leases
  /\ pc[c] \in {"wait", "dial"} =>
       /\ Len(borrowed[c]) < Depth(mine[c])
       /\ key[cur[c]] = Route[key[mine[c]]][Len(borrowed[c]) + 1]

RouteShape == \A c \in Callers : mine[c] \in Entries => RouteOf(c)

(* An entry is dialled by exactly one caller until it is ready or failed,    *)
(* and held only when it is ready.                                           *)
DialShape ==
  /\ \A c \in Callers : pc[c] = "dial" => phase[cur[c]] = "dialling"
  /\ \A c \in Callers : pc[c] = "wait" => phase[cur[c]] # "unborn"
  /\ \A c \in Callers : pc[c] = "held" => phase[cur[c]] = "ready"
  /\ \A e \in Entries : phase[e] = "dialling" => \E c \in Callers : Dials(c, e)
  /\ \A e \in Entries, c, d \in Callers : Dials(c, e) /\ Dials(d, e) => c = d

(* References are accounted for, and only a ready entry is leased. *)
RefOf(e) ==
  /\ refs[e] >= Uses(e)
  /\ phase[e] \in {"dialling", "ready"} => refs[e] = Uses(e)
  /\ ~evicted[e] => refs[e] >= 1

RefShape ==
  /\ IsFiniteSet(leases)
  /\ \A l \in leases : phase[l[2]] = "ready"
  /\ \A e \in Entries : RefOf(e)

(* Whoever has a lease holds it, is about to give it back, or is an entry    *)
(* that is used itself or being dialled; and it is deeper than what it has.  *)
LeaseOf(h, e) ==
  /\ h \in Callers => (pc[h] = "held" /\ cur[h] = e) \/ ToDrop(h, h, e)
  /\ h \in Entries =>
       /\ phase[h] # "unborn" /\ Depth(e) < Depth(h)
       /\ \/ \E p \in Procs : ToDrop(p, h, e)
          \/ \E c \in Callers : mine[c] = h /\ e \in Range(borrowed[c])
          \/ phase[h] = "ready" /\ refs[h] >= 1 /\ e \in Range(hops[h])

LeaseShape ==
  \A h \in Callers \cup Entries, e \in Entries : <<h, e>> \in leases => LeaseOf(h, e)

(* Work outside the lock is about connections that were made; an entry's     *)
(* leases are given back only when it is used no more, its dial has failed,  *)
(* or the pool is closed.                                                    *)
DropOk(h, e) ==
  /\ phase[e] = "ready"
  /\ h \in Entries =>
       /\ phase[h] # "unborn"
       /\ phase[h] = "ready" => refs[h] = 0 \/ closed
       /\ phase[h] = "dialling" => \E c \in Callers : mine[c] = h /\ pc[c] = "fail"

ItemShape ==
  \A p \in Procs, e \in Entries :
    /\ ToClose(p, e) => phase[e] = "ready"
    /\ \A h \in Callers \cup Entries : ToDrop(p, h, e) => DropOk(h, e)

(* The connection first, then the transport it rode on. *)
CloseFirstIn(s, up) ==
  \A i \in 1..Len(s), h \in up, e \in Entries :
    s[i] = DropItem(h, e) => \E j \in 1..(i - 1) : s[j] = CloseItem(h)

Up == {e \in Entries : conn[e] = "up"}

CloseFirst == \A p \in Procs : CloseFirstIn(todo[p], Up)

(* Close has come to e: what it still has to close or give back is not       *)
(* deeper.                                                                   *)
ShutFrom(e) ==
  /\ closed
  /\ \A f \in doomed : Depth(f) <= Depth(e)
  /\ \A f \in Entries : ToClose(Closer, f) => Depth(f) <= Depth(e)
  /\ \A h \in Callers \cup Entries, f \in Entries :
       ToDrop(Closer, h, f) => Depth(f) <= Depth(e)

(* A connection is closed because nobody uses it, or by Close in its turn. *)
ClosedOf(e) ==
  conn[e] = "closed" \/ (\E p \in Procs : ToClose(p, e)) => refs[e] = 0 \/ ShutFrom(e)

ClosedShape ==
  /\ ~closed => doomed = {} /\ todo[Closer] = <<>>
  /\ \A e \in doomed : phase[e] = "ready"
  /\ \A e \in Entries : ClosedOf(e)

(* A connection that is up has its hops, and somebody who uses or closes it; *)
(* one that died keeps its hops as long as it is used.                       *)
HopOf(e) ==
  /\ conn[e] = "up" \/ (~closed /\ phase[e] = "ready" /\ refs[e] >= 1) =>
       \A h \in Range(hops[e]) : <<e, h>> \in leases
  /\ phase[e] = "ready" /\ (refs[e] >= 1 \/ e \in doomed) =>
       \A h \in Range(hops[e]) : Depth(h) < Depth(e) /\ phase[h] = "ready"
  /\ conn[e] = "up" => refs[e] >= 1 \/ \E p \in Procs : ToClose(p, e)

HopShape == \A e \in Entries : HopOf(e)

IInv == /\ TypeOK /\ MapShape /\ PhaseShape /\ CallerShape /\ RouteShape
        /\ DialShape /\ RefShape /\ LeaseShape /\ ItemShape /\ CloseFirst
        /\ ClosedShape /\ HopShape /\ OneDialPerKey
-----------------------------------------------------------------------------
(* Sequences, the items of work and the routes. *)

(* The elements of a sequence put together from two. *)
LEMMA RangeConcat ==
  ASSUME NEW S, NEW s \in Seq(S), NEW t \in Seq(S)
  PROVE  s \o t \in Seq(S) /\ Range(s \o t) = Range(s) \cup Range(t)
<1>1. s \o t \in Seq(S) /\ Len(s \o t) = Len(s) + Len(t)
  OBVIOUS
<1>2. ASSUME NEW i \in 1..Len(s) PROVE i \in 1..Len(s \o t) /\ (s \o t)[i] = s[i]
  OBVIOUS
<1>3. ASSUME NEW i \in 1..Len(t)
      PROVE  Len(s) + i \in 1..Len(s \o t) /\ (s \o t)[Len(s) + i] = t[i]
  OBVIOUS
<1>4. ASSUME NEW i \in 1..Len(s \o t)
      PROVE  (s \o t)[i] \in Range(s) \cup Range(t)
  <2>1. CASE i <= Len(s)
    BY <1>1, <1>2, <2>1 DEF Range
  <2>2. CASE i > Len(s)
    <3>1. i - Len(s) \in 1..Len(t) /\ (s \o t)[i] = t[i - Len(s)]
      BY <1>1, <2>2
    <3>2. QED
      BY <3>1 DEF Range
  <2>3. QED
    BY <1>1, <2>1, <2>2
<1>0. DOMAIN (s \o t) = 1..Len(s \o t) /\ DOMAIN s = 1..Len(s) /\ DOMAIN t = 1..Len(t)
  BY <1>1
<1>5. Range(s) \cup Range(t) \subseteq Range(s \o t)
  <2>1. ASSUME NEW i \in 1..Len(s) PROVE s[i] \in Range(s \o t)
    BY <1>0, <1>2 DEF Range
  <2>2. ASSUME NEW i \in 1..Len(t) PROVE t[i] \in Range(s \o t)
    BY <1>0, <1>3 DEF Range
  <2> HIDE DEF Range
  <2>3. QED
    BY <1>0, <2>1, <2>2, Zenon DEF Range
<1>6. Range(s \o t) \subseteq Range(s) \cup Range(t)
  BY <1>1, <1>4 DEF Range
<1>7. QED
  BY <1>1, <1>5, <1>6

(* The elements of a sequence are its first and those of the rest. *)
LEMMA RangeTail ==
  ASSUME NEW S, NEW s \in Seq(S), s # <<>>
  PROVE  /\ Head(s) \in S /\ Tail(s) \in Seq(S)
         /\ Range(s) = {Head(s)} \cup Range(Tail(s))
         /\ Len(Tail(s)) = Len(s) - 1 /\ Head(s) = s[1] /\ Len(s) >= 1
         /\ \A i \in 1..Len(Tail(s)) : Tail(s)[i] = s[i + 1]
<1>1. /\ Head(s) \in S /\ Tail(s) \in Seq(S) /\ Len(Tail(s)) = Len(s) - 1
      /\ Head(s) = s[1] /\ Len(s) \in Nat /\ Len(s) >= 1
      /\ \A i \in 1..Len(Tail(s)) : Tail(s)[i] = s[i + 1]
  OBVIOUS
<1>2. ASSUME NEW i \in 1..Len(s) PROVE s[i] \in {Head(s)} \cup Range(Tail(s))
  <2>1. CASE i = 1
    BY <1>1, <2>1
  <2>2. CASE i # 1
    <3>1. i - 1 \in 1..Len(Tail(s)) /\ Tail(s)[i - 1] = s[i]
      BY <1>1, <2>2
    <3>2. QED
      BY <1>1, <3>1, DOMAIN Tail(s) = 1..Len(Tail(s)), Zenon DEF Range
  <2>3. QED
    BY <2>1, <2>2
<1>3. Range(Tail(s)) \subseteq Range(s)
  BY <1>1 DEF Range
<1>4. Head(s) \in Range(s)
  BY <1>1 DEF Range
<1>5. Range(s) \subseteq {Head(s)} \cup Range(Tail(s))
  BY <1>2 DEF Range
<1>6. QED
  BY <1>1, <1>3, <1>4, <1>5

(* Nothing is in the empty sequence, and one thing more in a longer one. *)
LEMMA RangeEmpty == Range(<<>>) = {}
  BY DEF Range

(* Appending adds one element. *)
LEMMA RangeAppend ==
  ASSUME NEW S, NEW s \in Seq(S), NEW x \in S
  PROVE  Append(s, x) \in Seq(S) /\ Range(Append(s, x)) = Range(s) \cup {x}
<1>1. /\ Append(s, x) \in Seq(S) /\ Len(Append(s, x)) = Len(s) + 1
      /\ Append(s, x)[Len(s) + 1] = x
      /\ \A i \in 1..Len(s) : Append(s, x)[i] = s[i]
  OBVIOUS
<1>2. QED
  BY <1>1 DEF Range

(* A sequence over a set has its elements in it. *)
LEMMA RangeTyped ==
  ASSUME NEW S, NEW s \in Seq(S)
  PROVE  Range(s) \subseteq S
  BY DEF Range

(* A work item is one of two kinds and says what it is about. *)
LEMMA ItemKinds ==
  /\ \A e \in Entries : CloseItem(e) \in Items
  /\ \A h \in Callers \cup Entries, e \in Entries : DropItem(h, e) \in Items
  /\ \A e, f \in Entries : CloseItem(e) = CloseItem(f) => e = f
  /\ \A h, g \in Callers \cup Entries, e, f \in Entries :
       DropItem(h, e) = DropItem(g, f) => h = g /\ e = f
  /\ \A h \in Callers \cup Entries, e, f \in Entries : CloseItem(f) # DropItem(h, e)
<1>1. /\ \A e \in Entries : CloseItem(e) \in Items
      /\ \A h \in Callers \cup Entries, e \in Entries : DropItem(h, e) \in Items
  BY DEF Items
<1>2. QED
  BY <1>1 DEF CloseItem, DropItem

(* An item is a close or a drop, and nothing else. *)
LEMMA ItemIs ==
  ASSUME NEW x \in Items
  PROVE  \/ x.do = "close" /\ x.entry \in Entries /\ x = CloseItem(x.entry)
         \/ /\ x.do = "drop" /\ x.entry \in Entries
            /\ x.holder \in Callers \cup Entries /\ x = DropItem(x.holder, x.entry)
<1>1. CASE \E e \in Entries : x = CloseItem(e)
  BY <1>1 DEF CloseItem
<1>2. CASE \E h \in Callers \cup Entries, e \in Entries : x = DropItem(h, e)
  BY <1>2 DEF DropItem
<1>3. QED
  BY <1>1, <1>2 DEF Items

(* held.release gives back every lease of the sequence, and nothing else. *)
LEMMA DropsItems ==
  ASSUME NEW h \in Callers \cup Entries, NEW s \in Seq(Entries)
  PROVE  /\ Drops(h, s) \in Seq(Items)
         /\ Len(Drops(h, s)) = Len(s)
         /\ \A i \in 1..Len(s) : \E e \in Range(s) : Drops(h, s)[i] = DropItem(h, e)
         /\ \A g \in Callers \cup Entries, e \in Entries :
              DropItem(g, e) \in Range(Drops(h, s)) <=> g = h /\ e \in Range(s)
         /\ \A e \in Entries : CloseItem(e) \notin Range(Drops(h, s))
<1> DEFINE d == Drops(h, s)
<1>0. Len(s) \in Nat /\ \A i \in 1..Len(s) : s[i] \in Entries
  OBVIOUS
<1>1. /\ d = [i \in 1..Len(s) |-> DropItem(h, s[Len(s) + 1 - i])]
  BY DEF Drops
<1>2. \A i \in 1..Len(s) : Len(s) + 1 - i \in 1..Len(s) /\ s[Len(s) + 1 - i] \in Entries
  BY <1>0
<1>3. d \in Seq(Items) /\ Len(d) = Len(s)
  BY <1>0, <1>1, <1>2, ItemKinds
<1>4. \A i \in 1..Len(s) : \E e \in Range(s) : d[i] = DropItem(h, e)
  BY <1>1, <1>2 DEF Range
<1>5. ASSUME NEW e \in Range(s) PROVE DropItem(h, e) \in Range(d)
  <2>1. PICK i \in 1..Len(s) : e = s[i]
    BY DEF Range
  <2>2. Len(s) + 1 - i \in 1..Len(s) /\ Len(s) + 1 - (Len(s) + 1 - i) = i
    BY <1>0
  <2>3. d[Len(s) + 1 - i] = DropItem(h, e)
    BY <1>1, <2>1, <2>2
  <2>4. QED
    BY <1>1, <2>2, <2>3 DEF Range
<1>6. \A x \in Range(d) : \E e \in Range(s) : x = DropItem(h, e)
  BY <1>1, <1>4 DEF Range
<1>7. Range(s) \subseteq Entries
  BY RangeTyped
<1> HIDE DEF d
<1>8. \A g \in Callers \cup Entries, e \in Entries :
        DropItem(g, e) \in Range(d) <=> g = h /\ e \in Range(s)
  BY <1>5, <1>6, <1>7, ItemKinds
<1>9. \A e \in Entries : CloseItem(e) \notin Range(d)
  BY <1>6, <1>7, ItemKinds
<1>10. QED
  BY <1>3, <1>4, <1>8, <1>9 DEF d

(* What release does once the last reference is gone. *)
LEMMA TeardownItems ==
  ASSUME NEW e \in Entries, hops[e] \in Seq(Entries)
  PROVE  /\ Teardown(e) \in Seq(Items)
         /\ \A f \in Entries : CloseItem(f) \in Range(Teardown(e))
                               <=> f = e /\ conn[e] # "none"
         /\ \A h \in Callers \cup Entries, f \in Entries :
              DropItem(h, f) \in Range(Teardown(e))
              <=> h = e /\ f \in Range(hops[e]) /\ conn[e] # "none"
<1>1. CASE conn[e] = "none"
  BY <1>1, RangeEmpty DEF Teardown
<1>2. CASE conn[e] # "none"
  <2> DEFINE d == Drops(e, hops[e])
  <2>1. d \in Seq(Items) /\ <<CloseItem(e)>> \in Seq(Items)
    BY DropsItems, ItemKinds
  <2>2. Range(<<CloseItem(e)>>) = {CloseItem(e)}
    BY DEF Range
  <2>3. Teardown(e) = <<CloseItem(e)>> \o d
    BY <1>2 DEF Teardown
  <2>4. Teardown(e) \in Seq(Items) /\ Range(Teardown(e)) = {CloseItem(e)} \cup Range(d)
    <3>1. Range(<<CloseItem(e)>> \o d) = Range(<<CloseItem(e)>>) \cup Range(d)
      BY <2>1, RangeConcat, ZenonT(40)
    <3>2. <<CloseItem(e)>> \o d \in Seq(Items)
      BY <2>1, RangeConcat, Zenon
    <3>3. QED
      BY <2>2, <2>3, <3>1, <3>2, Zenon
  <2>5. \A g \in Callers \cup Entries, f \in Entries :
          DropItem(g, f) \in Range(d) <=> g = e /\ f \in Range(hops[e])
    BY DropsItems
  <2>6. \A f \in Entries : CloseItem(f) \notin Range(d)
    BY DropsItems
  <2> HIDE DEF d
  <2>7. QED
    BY <1>2, <2>4, <2>5, <2>6, ItemKinds
<1>3. QED
  BY <1>1, <1>2

(* Callers, Close's goroutine and entries are different things. *)
LEMMA Distinct ==
  /\ None \notin Keys /\ None \notin Entries /\ None \notin Callers
  /\ Closer \notin Callers /\ Callers \cap Entries = {}
  BY PoolAssumption

(* The hops of a route are shallower than its end, each deeper than the     *)
(* one before.                                                              *)
LEMMA HopDepth ==
  ASSUME NEW k \in Keys, NEW i \in 1..Len(Route[k])
  PROVE  Route[k][i] \in Keys /\ Len(Route[Route[k][i]]) = i - 1
  BY PoolAssumption

-----------------------------------------------------------------------------
(* What each action that leaves or does work outside the lock changes. *)

(* Pool.release: at the last reference the teardown comes before the rest. *)
LEMMA DropRefEffect ==
  ASSUME TypeOK, NEW p \in Procs, NEW e \in Entries, NEW rest \in Seq(Items),
         DropRef(p, e, rest)
  PROVE  /\ refs' = [refs EXCEPT ![e] = @ - 1]
         /\ todo' \in [Procs -> Seq(Items)]
         /\ \A q \in Procs : q # p => todo'[q] = todo[q]
         /\ \/ /\ refs[e] > 1 /\ todo'[p] = rest
               /\ conns' = conns /\ evicted' = evicted
            \/ refs[e] <= 1 /\ Evict(e) /\ todo'[p] = Teardown(e) \o rest
         /\ \A f \in Entries : ToClose(p, f)' <=>
              \/ CloseItem(f) \in Range(rest)
              \/ refs[e] <= 1 /\ conn[e] # "none" /\ f = e
         /\ \A g \in Callers \cup Entries, f \in Entries : ToDrop(p, g, f)' <=>
              \/ DropItem(g, f) \in Range(rest)
              \/ /\ refs[e] <= 1 /\ conn[e] # "none"
                 /\ g = e /\ f \in Range(hops[e])
PROOF
<1>0. refs[e] \in Nat /\ hops[e] \in Seq(Entries) /\ todo \in [Procs -> Seq(Items)]
  BY DEF TypeOK
<1>1. CASE refs[e] > 1
  <2>1. /\ refs' = [refs EXCEPT ![e] = @ - 1] /\ conns' = conns /\ evicted' = evicted
        /\ todo' = [todo EXCEPT ![p] = rest]
    BY <1>0, <1>1 DEF DropRef
  <2>2. QED
    BY <1>0, <1>1, <2>1 DEF ToClose, ToDrop
<1>2. CASE refs[e] <= 1
  <2>1. /\ refs' = [refs EXCEPT ![e] = @ - 1] /\ Evict(e)
        /\ todo' = [todo EXCEPT ![p] = Teardown(e) \o rest]
    BY <1>2 DEF DropRef
  <2>2. Teardown(e) \in Seq(Items)
    BY <1>0, TeardownItems
  <2>3. /\ Teardown(e) \o rest \in Seq(Items)
        /\ Range(Teardown(e) \o rest) = Range(Teardown(e)) \cup Range(rest)
    BY <2>2, RangeConcat, ZenonT(40)
  <2>4. /\ todo' \in [Procs -> Seq(Items)] /\ todo'[p] = Teardown(e) \o rest
        /\ \A q \in Procs : q # p => todo'[q] = todo[q]
    BY <1>0, <2>1, <2>3
  <2>5. Range(todo'[p]) = Range(Teardown(e)) \cup Range(rest)
    BY <2>3, <2>4, Zenon
  <2>6. \A f \in Entries : CloseItem(f)' = CloseItem(f)
    BY DEF CloseItem
  <2>7. \A g \in Callers \cup Entries, f \in Entries : DropItem(g, f)' = DropItem(g, f)
    BY DEF DropItem
  <2>8. \A f \in Entries : ToClose(p, f)' <=>
              \/ CloseItem(f) \in Range(rest)
              \/ refs[e] <= 1 /\ conn[e] # "none" /\ f = e
    BY <1>0, <1>2, <2>5, <2>6, TeardownItems DEF ToClose
  <2>9. \A g \in Callers \cup Entries, f \in Entries : ToDrop(p, g, f)' <=>
              \/ DropItem(g, f) \in Range(rest)
              \/ /\ refs[e] <= 1 /\ conn[e] # "none"
                 /\ g = e /\ f \in Range(hops[e])
    BY <1>0, <1>2, <2>5, <2>7, TeardownItems DEF ToDrop
  <2>10. QED
    BY <1>2, <2>1, <2>4, <2>8, <2>9
<1>3. QED
  BY <1>0, <1>1, <1>2

(* A waiter that gives up: what it may have to do, it did not have before. *)
LEMMA WaitCancelledEffect ==
  ASSUME TypeOK, CallerShape, NEW c \in Callers, WaitCancelled(c)
  PROVE  /\ pc[c] = "wait" /\ cur[c] \in Entries /\ c \in Procs
         /\ refs' = [refs EXCEPT ![cur[c]] = @ - 1]
         /\ todo' \in [Procs -> Seq(Items)] /\ todo[c] = <<>>
         /\ \A q \in Procs : q # c => todo'[q] = todo[q]
         /\ \/ /\ refs[cur[c]] > 1 /\ todo'[c] = <<>>
               /\ conns' = conns /\ evicted' = evicted
            \/ refs[cur[c]] <= 1 /\ Evict(cur[c]) /\ todo'[c] = Teardown(cur[c]) \o <<>>
         /\ \A q \in Procs, f \in Entries : ToClose(q, f)' <=>
              \/ ToClose(q, f)
              \/ refs[cur[c]] <= 1 /\ conn[cur[c]] # "none" /\ q = c /\ f = cur[c]
         /\ \A q \in Procs, g \in Callers \cup Entries, f \in Entries :
              ToDrop(q, g, f)' <=>
              \/ ToDrop(q, g, f)
              \/ /\ refs[cur[c]] <= 1 /\ conn[cur[c]] # "none"
                 /\ q = c /\ g = cur[c] /\ f \in Range(hops[cur[c]])
PROOF
<1>1. pc[c] = "wait" /\ cur[c] \in Entries /\ c \in Procs /\ todo[c] = <<>>
  BY DEF WaitCancelled, CallerShape, TypeOK, Procs
<1>2. DropRef(c, cur[c], <<>>) /\ <<>> \in Seq(Items)
  BY DEF WaitCancelled
<1>3. \A f \in Entries : ~ToClose(c, f)
  BY <1>1, RangeEmpty DEF ToClose
<1>4. \A g \in Callers \cup Entries, f \in Entries : ~ToDrop(c, g, f)
  BY <1>1, RangeEmpty DEF ToDrop
<1>5. \A q \in Procs : q # c => todo'[q] = todo[q]
  BY <1>1, <1>2, DropRefEffect
<1>6. \A q \in Procs, f \in Entries : q # c => (ToClose(q, f)' <=> ToClose(q, f))
  BY <1>5 DEF ToClose, CloseItem
<1>7. \A q \in Procs, g \in Callers \cup Entries, f \in Entries :
        q # c => (ToDrop(q, g, f)' <=> ToDrop(q, g, f))
  BY <1>5 DEF ToDrop, DropItem
<1> DEFINE e == cur[c]
           Gone(r) ==
                   /\ refs' = [refs EXCEPT ![e] = @ - 1]
                   /\ todo' \in [Procs -> Seq(Items)]
                   /\ \/ /\ refs[e] > 1 /\ todo'[c] = r
                         /\ conns' = conns /\ evicted' = evicted
                      \/ refs[e] <= 1 /\ Evict(e) /\ todo'[c] = Teardown(e) \o r
                   /\ \A f \in Entries : ToClose(c, f)' <=>
                        \/ CloseItem(f) \in Range(r)
                        \/ refs[e] <= 1 /\ conn[e] # "none" /\ f = e
                   /\ \A g \in Callers \cup Entries, f \in Entries :
                        ToDrop(c, g, f)' <=>
                        \/ DropItem(g, f) \in Range(r)
                        \/ /\ refs[e] <= 1 /\ conn[e] # "none"
                           /\ g = e /\ f \in Range(hops[e])
<1>8. Gone(<<>>)
  <2>1. e \in Entries /\ c \in Procs /\ DropRef(c, e, <<>>) /\ <<>> \in Seq(Items)
    BY <1>1, <1>2
  <2> HIDE DEF e
  <2>2. ASSUME NEW r \in Seq(Items), DropRef(c, e, r) PROVE Gone(r)
    BY <2>1, <2>2, DropRefEffect
  <2> HIDE DEF Gone
  <2>3. QED
    BY <2>1, <2>2, Zenon
<1>9. \A x : x \notin Range(<<>>)
  BY RangeEmpty
<1> HIDE DEF ToClose, ToDrop
<1>10. QED
  BY <1>1, <1>3, <1>4, <1>5, <1>6, <1>7, <1>8, <1>9

(* An action that touches nobody's work leaves what there is to do. *)
LEMMA SameWork ==
  ASSUME todo' = todo
  PROVE  /\ \A q \in Procs, f \in Entries : ToClose(q, f)' <=> ToClose(q, f)
         /\ \A q \in Procs, g \in Callers \cup Entries, f \in Entries :
              ToDrop(q, g, f)' <=> ToDrop(q, g, f)
  BY DEF ToClose, ToDrop, CloseItem, DropItem

(* One goroutine's work changes: everybody else's is the same. *)
LEMMA OtherWork ==
  ASSUME NEW p \in Procs, \A q \in Procs : q # p => todo'[q] = todo[q]
  PROVE  /\ \A q \in Procs, f \in Entries :
              q # p => (ToClose(q, f)' <=> ToClose(q, f))
         /\ \A q \in Procs, g \in Callers \cup Entries, f \in Entries :
              q # p => (ToDrop(q, g, f)' <=> ToDrop(q, g, f))
  BY DEF ToClose, ToDrop, CloseItem, DropItem

(* A goroutine with nothing to do is given a sequence of work. *)
LEMMA NewWork ==
  ASSUME TypeOK, NEW p \in Procs, todo[p] = <<>>, NEW s \in Seq(Items),
         todo' = [todo EXCEPT ![p] = s]
  PROVE  /\ todo' \in [Procs -> Seq(Items)] /\ todo'[p] = s
         /\ \A q \in Procs : q # p => todo'[q] = todo[q]
         /\ \A q \in Procs, f \in Entries : ToClose(q, f)' <=>
              ToClose(q, f) \/ (q = p /\ CloseItem(f) \in Range(s))
         /\ \A q \in Procs, g \in Callers \cup Entries, f \in Entries :
              ToDrop(q, g, f)' <=>
              ToDrop(q, g, f) \/ (q = p /\ DropItem(g, f) \in Range(s))
PROOF
<1>1. /\ todo' \in [Procs -> Seq(Items)] /\ todo'[p] = s
      /\ \A q \in Procs : q # p => todo'[q] = todo[q]
  BY DEF TypeOK
<1>2. \A f \in Entries : ~ToClose(p, f) /\ (ToClose(p, f)' <=> CloseItem(f) \in Range(s))
  BY <1>1, RangeEmpty DEF ToClose, CloseItem
<1>3. \A g \in Callers \cup Entries, f \in Entries :
        ~ToDrop(p, g, f) /\ (ToDrop(p, g, f)' <=> DropItem(g, f) \in Range(s))
  BY <1>1, RangeEmpty DEF ToDrop, DropItem
<1>4. QED
  BY <1>1, <1>2, <1>3, OtherWork

(* dialThrough unwinds: the leases it has are to be given back. *)
LEMMA UnwindEffect ==
  ASSUME TypeOK, CallerShape, NEW c \in Callers, Unwind(c)
  PROVE  /\ c \in Procs /\ mine[c] \in Entries /\ todo[c] = <<>>
         /\ todo' \in [Procs -> Seq(Items)] /\ todo'[c] = Drops(mine[c], borrowed[c])
         /\ \A q \in Procs : q # c => todo'[q] = todo[q]
         /\ \A q \in Procs, f \in Entries : ToClose(q, f)' <=> ToClose(q, f)
         /\ \A q \in Procs, g \in Callers \cup Entries, f \in Entries :
              ToDrop(q, g, f)' <=>
              \/ ToDrop(q, g, f)
              \/ q = c /\ g = mine[c] /\ f \in Range(borrowed[c])
PROOF
<1>1. /\ c \in Procs /\ mine[c] \in Entries /\ todo[c] = <<>>
      /\ borrowed[c] \in Seq(Entries)
      /\ todo' = [todo EXCEPT ![c] = Drops(mine[c], borrowed[c])]
  BY DEF Unwind, CallerShape, TypeOK, Procs
<1> DEFINE d == Drops(mine[c], borrowed[c])
<1>2. d \in Seq(Items)
  BY <1>1, DropsItems
<1>3. \A f \in Entries : CloseItem(f) \notin Range(d)
  BY <1>1, DropsItems
<1>4. \A g \in Callers \cup Entries, f \in Entries :
        DropItem(g, f) \in Range(d) <=> g = mine[c] /\ f \in Range(borrowed[c])
  BY <1>1, DropsItems
<1> HIDE DEF d
<1>5. todo' = [todo EXCEPT ![c] = d]
  BY <1>1 DEF d
<1>6. /\ todo' \in [Procs -> Seq(Items)] /\ todo'[c] = d
      /\ \A q \in Procs : q # c => todo'[q] = todo[q]
      /\ \A q \in Procs, f \in Entries : ToClose(q, f)' <=>
           ToClose(q, f) \/ (q = c /\ CloseItem(f) \in Range(d))
      /\ \A q \in Procs, g \in Callers \cup Entries, f \in Entries :
           ToDrop(q, g, f)' <=>
           ToDrop(q, g, f) \/ (q = c /\ DropItem(g, f) \in Range(d))
  BY <1>1, <1>2, <1>5, NewWork
<1>7. QED
  BY <1>1, <1>3, <1>4, <1>6 DEF d

(* Lease.Release by the holder. *)
LEMMA ReleaseEffect ==
  ASSUME TypeOK, CallerShape, NEW c \in Callers, Release(c)
  PROVE  /\ c \in Procs /\ cur[c] \in Entries /\ todo[c] = <<>>
         /\ todo' \in [Procs -> Seq(Items)] /\ todo'[c] = <<DropItem(c, cur[c])>>
         /\ \A q \in Procs : q # c => todo'[q] = todo[q]
         /\ \A q \in Procs, f \in Entries : ToClose(q, f)' <=> ToClose(q, f)
         /\ \A q \in Procs, g \in Callers \cup Entries, f \in Entries :
              ToDrop(q, g, f)' <=> ToDrop(q, g, f) \/ (q = c /\ g = c /\ f = cur[c])
PROOF
<1> DEFINE d == <<DropItem(c, cur[c])>>
<1>1. /\ c \in Procs /\ cur[c] \in Entries /\ todo[c] = <<>>
      /\ todo' = [todo EXCEPT ![c] = d]
  BY DEF Release, CallerShape, TypeOK, Procs
<1>2. d \in Seq(Items)
  BY <1>1, ItemKinds
<1>3. Range(d) = {DropItem(c, cur[c])}
  BY DEF Range
<1>4. \A f \in Entries : CloseItem(f) \notin Range(d)
  BY <1>1, <1>3, ItemKinds
<1>5. \A g \in Callers \cup Entries, f \in Entries :
        DropItem(g, f) \in Range(d) <=> g = c /\ f = cur[c]
  BY <1>1, <1>3, ItemKinds
<1> HIDE DEF d
<1>6. QED
  BY <1>1, <1>2, <1>4, <1>5, NewWork, ZenonT(40) DEF d

(* Close comes to the next connection. *)
LEMMA CloseNextEffect ==
  ASSUME TypeOK, NEW e \in Entries, CloseNext(e), conn[e] # "none"
  PROVE  /\ Closer \in Procs /\ todo[Closer] = <<>>
         /\ todo' \in [Procs -> Seq(Items)] /\ todo'[Closer] = Teardown(e)
         /\ \A q \in Procs : q # Closer => todo'[q] = todo[q]
         /\ \A q \in Procs, f \in Entries :
              ToClose(q, f)' <=> ToClose(q, f) \/ (q = Closer /\ f = e)
         /\ \A q \in Procs, g \in Callers \cup Entries, f \in Entries :
              ToDrop(q, g, f)' <=>
              ToDrop(q, g, f) \/ (q = Closer /\ g = e /\ f \in Range(hops[e]))
PROOF
<1> DEFINE d == Teardown(e)
<1>1. /\ Closer \in Procs /\ hops[e] \in Seq(Entries) /\ todo[Closer] = <<>>
      /\ todo' = [todo EXCEPT ![Closer] = d]
  BY DEF CloseNext, TypeOK, Procs
<1>2. /\ d \in Seq(Items)
      /\ \A f \in Entries : CloseItem(f) \in Range(d) <=> f = e
      /\ \A h \in Callers \cup Entries, f \in Entries :
           DropItem(h, f) \in Range(d) <=> h = e /\ f \in Range(hops[e])
  BY <1>1, TeardownItems
<1> HIDE DEF d
<1>3. QED
  BY <1>1, <1>2, NewWork, ZenonT(40) DEF d

(* client.Close, and on with the rest. *)
ClosesAway(p, e) ==
  /\ ToClose(p, e) /\ todo[p] # <<>> /\ Head(todo[p]) = CloseItem(e)
  /\ todo' \in [Procs -> Seq(Items)] /\ todo'[p] = Tail(todo[p])
  /\ \A q \in Procs : q # p => todo'[q] = todo[q]
  /\ conn' = [conn EXCEPT ![e] = IF @ = "up" THEN "closed" ELSE @]
  /\ \A q \in Procs, f \in Entries :
       /\ ToClose(q, f)' => ToClose(q, f)
       /\ ToClose(q, f) => ToClose(q, f)' \/ (q = p /\ f = e)
  /\ \A q \in Procs, g \in Callers \cup Entries, f \in Entries :
       ToDrop(q, g, f)' <=> ToDrop(q, g, f)

(* client.Close does the item at the head of the work. *)
LEMMA CloseClientEffect ==
  ASSUME TypeOK, NEW p \in Procs, CloseClient(p)
  PROVE  \E e \in Entries : ClosesAway(p, e)
PROOF
<1>1. todo[p] \in Seq(Items) /\ todo[p] # <<>> /\ Head(todo[p]).do = "close"
  BY DEF CloseClient, TypeOK
<1>2. /\ Head(todo[p]) \in Items /\ Tail(todo[p]) \in Seq(Items)
      /\ Range(todo[p]) = {Head(todo[p])} \cup Range(Tail(todo[p]))
  BY <1>1, RangeTail
<1>3. PICK e \in Entries : Head(todo[p]) = CloseItem(e) /\ e = Head(todo[p]).entry
  <2>1. "close" # "drop"
    OBVIOUS
  <2>2. QED
    BY <1>1, <1>2, <2>1, ItemIs
<1>4. /\ todo' = [todo EXCEPT ![p] = Tail(@)]
      /\ conn' = [conn EXCEPT ![e] = IF @ = "up" THEN "closed" ELSE @]
  BY <1>3 DEF CloseClient
<1>5. /\ todo' \in [Procs -> Seq(Items)] /\ todo'[p] = Tail(todo[p])
      /\ \A q \in Procs : q # p => todo'[q] = todo[q]
  BY <1>2, <1>4 DEF TypeOK
<1>6. /\ ToClose(p, e)
      /\ \A f \in Entries : /\ ToClose(p, f)' => ToClose(p, f)
                            /\ ToClose(p, f) => ToClose(p, f)' \/ f = e
  BY <1>2, <1>3, <1>5, ItemKinds DEF ToClose
<1>7. \A g \in Callers \cup Entries, f \in Entries :
        ToDrop(p, g, f)' <=> ToDrop(p, g, f)
  BY <1>2, <1>3, <1>5, ItemKinds DEF ToDrop
<1>8. /\ \A q \in Procs, f \in Entries :
           q # p => (ToClose(q, f)' <=> ToClose(q, f))
      /\ \A q \in Procs, g \in Callers \cup Entries, f \in Entries :
           q # p => (ToDrop(q, g, f)' <=> ToDrop(q, g, f))
  BY <1>5, OtherWork
<1>9. /\ \A q \in Procs, f \in Entries :
           /\ ToClose(q, f)' => ToClose(q, f)
           /\ ToClose(q, f) => ToClose(q, f)' \/ (q = p /\ f = e)
      /\ \A q \in Procs, g \in Callers \cup Entries, f \in Entries :
           ToDrop(q, g, f)' <=> ToDrop(q, g, f)
  BY <1>6, <1>7, <1>8
<1>10. ClosesAway(p, e)
  BY <1>1, <1>3, <1>4, <1>5, <1>6, <1>9 DEF ClosesAway
<1>11. QED
  BY <1>3, <1>10

(* once.Do(pool.release), and on with the rest. *)
DropsAway(p, h, e) ==
  /\ ToDrop(p, h, e) /\ todo[p] # <<>> /\ Head(todo[p]) = DropItem(h, e)
  /\ todo' \in [Procs -> Seq(Items)]
  /\ \A q \in Procs : q # p => todo'[q] = todo[q]
  /\ leases' = leases \ {<<h, e>>}
  /\ \/ /\ <<h, e>> \notin leases \/ refs[e] > 1
        /\ todo'[p] = Tail(todo[p])
        /\ conns' = conns /\ evicted' = evicted
     \/ /\ <<h, e>> \in leases /\ refs[e] <= 1
        /\ todo'[p] = Teardown(e) \o Tail(todo[p])
        /\ Evict(e)
  /\ refs' = IF <<h, e>> \in leases THEN [refs EXCEPT ![e] = @ - 1] ELSE refs
  /\ \A q \in Procs, f \in Entries : ToClose(q, f)' <=>
       \/ ToClose(q, f)
       \/ <<h, e>> \in leases /\ refs[e] <= 1 /\ conn[e] # "none" /\ q = p /\ f = e
  /\ \A q \in Procs, g \in Callers \cup Entries, f \in Entries :
       /\ ToDrop(q, g, f)' =>
            \/ ToDrop(q, g, f)
            \/ /\ <<h, e>> \in leases /\ refs[e] <= 1 /\ conn[e] # "none"
               /\ q = p /\ g = e /\ f \in Range(hops[e])
       /\ ToDrop(q, g, f) => ToDrop(q, g, f)' \/ (q = p /\ g = h /\ f = e)
  /\ <<h, e>> \in leases /\ refs[e] <= 1 /\ conn[e] # "none" =>
       \A f \in Entries : f \in Range(hops[e]) => ToDrop(p, e, f)'

(* Releasing a lease does the item at the head of the work. *)
LEMMA DropLeaseEffect ==
  ASSUME TypeOK, NEW p \in Procs, DropLease(p)
  PROVE  \E h \in Callers \cup Entries, e \in Entries : DropsAway(p, h, e)
PROOF
<1>1. todo[p] \in Seq(Items) /\ todo[p] # <<>> /\ Head(todo[p]).do = "drop"
  BY DEF DropLease, TypeOK
<1>2. /\ Head(todo[p]) \in Items /\ Tail(todo[p]) \in Seq(Items)
      /\ Range(todo[p]) = {Head(todo[p])} \cup Range(Tail(todo[p]))
  BY <1>1, RangeTail
<1> DEFINE rest == Tail(todo[p])
<1>3. PICK h \in Callers \cup Entries, e \in Entries :
        /\ Head(todo[p]) = DropItem(h, e)
        /\ h = Head(todo[p]).holder /\ e = Head(todo[p]).entry
  <2>1. "close" # "drop"
    OBVIOUS
  <2>2. QED
    BY <1>1, <1>2, <2>1, ItemIs
<1>4. /\ leases' = leases \ {<<h, e>>}
      /\ <<h, e>> \in leases => DropRef(p, e, rest)
      /\ <<h, e>> \notin leases =>
           todo' = [todo EXCEPT ![p] = Tail(@)] /\ UNCHANGED <<conns, refs, evicted>>
  BY <1>3 DEF DropLease
<1>5. rest \in Seq(Items) /\ Range(todo[p]) = {DropItem(h, e)} \cup Range(rest)
  BY <1>2, <1>3
<1>6. ToDrop(p, h, e)
  BY <1>5 DEF ToDrop
<1>7. \A f \in Entries : ToClose(p, f) <=> CloseItem(f) \in Range(rest)
  BY <1>3, <1>5, ItemKinds DEF ToClose
<1>8. \A g \in Callers \cup Entries, f \in Entries :
        /\ DropItem(g, f) \in Range(rest) => ToDrop(p, g, f)
        /\ ToDrop(p, g, f) => DropItem(g, f) \in Range(rest) \/ (g = h /\ f = e)
  BY <1>3, <1>5, ItemKinds DEF ToDrop
<1>9. CASE <<h, e>> \notin leases
  <2>1. /\ todo' \in [Procs -> Seq(Items)] /\ todo'[p] = rest
        /\ \A q \in Procs : q # p => todo'[q] = todo[q]
    BY <1>4, <1>5, <1>9 DEF TypeOK
  <2>2. \A f \in Entries : ToClose(p, f)' <=> CloseItem(f) \in Range(rest)
    BY <2>1 DEF ToClose, CloseItem
  <2>3. \A g \in Callers \cup Entries, f \in Entries :
          ToDrop(p, g, f)' <=> DropItem(g, f) \in Range(rest)
    BY <2>1 DEF ToDrop, DropItem
  <2> HIDE DEF rest
  <2>4. /\ \A q \in Procs, f \in Entries :
             q # p => (ToClose(q, f)' <=> ToClose(q, f))
        /\ \A q \in Procs, g \in Callers \cup Entries, f \in Entries :
             q # p => (ToDrop(q, g, f)' <=> ToDrop(q, g, f))
    BY <2>1, OtherWork
  <2>5. DropsAway(p, h, e)
    <3>1. /\ todo'[p] = Tail(todo[p]) /\ conns' = conns /\ evicted' = evicted
          /\ refs' = IF <<h, e>> \in leases THEN [refs EXCEPT ![e] = @ - 1] ELSE refs
      BY <1>4, <1>9, <2>1 DEF rest
    <3>2. \A q \in Procs, f \in Entries : ToClose(q, f)' <=> ToClose(q, f)
      BY <1>7, <2>2, <2>4
    <3>3. \A q \in Procs, g \in Callers \cup Entries, f \in Entries :
            /\ ToDrop(q, g, f)' => ToDrop(q, g, f)
            /\ ToDrop(q, g, f) => ToDrop(q, g, f)' \/ (q = p /\ g = h /\ f = e)
      BY <1>8, <2>3, <2>4
    <3>4. QED
      BY <1>1, <1>3, <1>4, <1>6, <1>9, <2>1, <3>1, <3>2, <3>3 DEF DropsAway
  <2>6. QED
    BY <1>3, <2>5
<1>10. CASE <<h, e>> \in leases
  <2>1. DropRef(p, e, rest)
    BY <1>4, <1>10
  <2> HIDE DEF rest
  <2>2. /\ refs' = [refs EXCEPT ![e] = @ - 1]
        /\ todo' \in [Procs -> Seq(Items)]
        /\ \A q \in Procs : q # p => todo'[q] = todo[q]
        /\ \/ /\ refs[e] > 1 /\ todo'[p] = rest
              /\ conns' = conns /\ evicted' = evicted
           \/ refs[e] <= 1 /\ Evict(e) /\ todo'[p] = Teardown(e) \o rest
        /\ \A f \in Entries : ToClose(p, f)' <=>
             \/ CloseItem(f) \in Range(rest)
             \/ refs[e] <= 1 /\ conn[e] # "none" /\ f = e
        /\ \A g \in Callers \cup Entries, f \in Entries : ToDrop(p, g, f)' <=>
             \/ DropItem(g, f) \in Range(rest)
             \/ /\ refs[e] <= 1 /\ conn[e] # "none"
                /\ g = e /\ f \in Range(hops[e])
    BY <1>3, <1>5, <2>1, DropRefEffect, SMTT(30)
  <2>3. e \in Callers \cup Entries
    BY <1>3
  <2>4. /\ \A q \in Procs, f \in Entries :
             q # p => (ToClose(q, f)' <=> ToClose(q, f))
        /\ \A q \in Procs, g \in Callers \cup Entries, f \in Entries :
             q # p => (ToDrop(q, g, f)' <=> ToDrop(q, g, f))
    BY <2>2, OtherWork
  <2>5. DropsAway(p, h, e)
    <3>1. /\ \/ refs[e] > 1 /\ todo'[p] = Tail(todo[p]) /\ conns' = conns
                /\ evicted' = evicted
             \/ refs[e] <= 1 /\ todo'[p] = Teardown(e) \o Tail(todo[p]) /\ Evict(e)
          /\ refs' = IF <<h, e>> \in leases THEN [refs EXCEPT ![e] = @ - 1] ELSE refs
      BY <1>10, <2>2 DEF rest
    <3>2. \A q \in Procs, f \in Entries : ToClose(q, f)' <=>
            ToClose(q, f) \/ (refs[e] <= 1 /\ conn[e] # "none" /\ q = p /\ f = e)
      BY <1>7, <2>2, <2>4
    <3>3. \A q \in Procs, g \in Callers \cup Entries, f \in Entries :
            /\ ToDrop(q, g, f)' =>
                 \/ ToDrop(q, g, f)
                 \/ /\ refs[e] <= 1 /\ conn[e] # "none"
                    /\ q = p /\ g = e /\ f \in Range(hops[e])
            /\ ToDrop(q, g, f) => ToDrop(q, g, f)' \/ (q = p /\ g = h /\ f = e)
      BY <1>8, <2>2, <2>4
    <3>4. refs[e] <= 1 /\ conn[e] # "none" =>
            \A f \in Entries : f \in Range(hops[e]) => ToDrop(p, e, f)'
      BY <2>2, <2>3
    <3>5. QED
      BY <1>1, <1>3, <1>4, <1>6, <1>10, <2>2, <3>1, <3>2, <3>3, <3>4,
         ZenonT(40)
      DEF DropsAway
  <2>6. QED
    BY <1>3, <2>5
<1>11. QED
  BY <1>3, <1>9, <1>10

(* The users of an entry can be counted. *)
LEMMA UsesCount ==
  ASSUME TypeOK, IsFiniteSet(leases), NEW e \in Entries
  PROVE  /\ IsFiniteSet(LeasesOn(e)) /\ IsFiniteSet(Awaiting(e)) /\ IsFiniteSet(Routing(e))
         /\ Cardinality(LeasesOn(e)) \in Nat /\ Cardinality(Awaiting(e)) \in Nat
         /\ Cardinality(Routing(e)) \in Nat /\ Uses(e) \in Nat
         /\ Cardinality(LeasesOn(e)) = 0 <=> LeasesOn(e) = {}
         /\ Cardinality(Awaiting(e)) = 0 <=> Awaiting(e) = {}
         /\ Cardinality(Routing(e)) = 0 <=> Routing(e) = {}
PROOF
<1>1. IsFiniteSet(LeasesOn(e))
  BY FS_Subset DEF LeasesOn
<1>2. IsFiniteSet(Awaiting(e)) /\ IsFiniteSet(Routing(e))
  BY FS_Subset, PoolAssumption DEF Awaiting, Routing
<1>3. QED
  BY <1>1, <1>2, FS_CardinalityType, FS_EmptySet DEF Uses

(* Whoever has a lease on an entry, waits for it or dials it is counted. *)
LEMMA Counted ==
  ASSUME TypeOK, RefShape, NEW e \in Entries
  PROVE  /\ \A h : <<h, e>> \in leases => refs[e] >= 1
         /\ \A c \in Callers : pc[c] \in {"wait", "dial"} /\ cur[c] = e => refs[e] >= 1
         /\ \A c \in Callers : mine[c] = e => refs[e] >= 1
         /\ \A c, d \in Callers :
              pc[c] = "wait" /\ cur[c] = e /\ Dials(d, e) /\ c # d => refs[e] >= 2
PROOF
<1>0. refs[e] \in Nat /\ refs[e] >= Uses(e) /\ IsFiniteSet(leases)
  BY DEF TypeOK, RefShape, RefOf
<1>1. ASSUME NEW h, <<h, e>> \in leases PROVE refs[e] >= 1
  <2>1. LeasesOn(e) # {}
    BY <1>1 DEF LeasesOn
  <2>2. QED
    BY <1>0, <2>1, UsesCount DEF Uses
<1>2. ASSUME NEW c \in Callers, pc[c] \in {"wait", "dial"}, cur[c] = e
      PROVE  refs[e] >= 1
  <2>1. Awaiting(e) # {}
    BY <1>2 DEF Awaiting
  <2>2. QED
    BY <1>0, <2>1, UsesCount DEF Uses
<1>3. ASSUME NEW c \in Callers, mine[c] = e PROVE refs[e] >= 1
  <2>1. Routing(e) # {}
    BY <1>3 DEF Routing
  <2>2. QED
    BY <1>0, <2>1, UsesCount DEF Uses
<1>4. ASSUME NEW c \in Callers, NEW d \in Callers, c # d,
             pc[c] = "wait", cur[c] = e, Dials(d, e)
      PROVE  refs[e] >= 2
  <2>1. CASE mine[d] = e
    <3>1. Awaiting(e) # {} /\ Routing(e) # {}
      BY <1>4, <2>1 DEF Awaiting, Routing
    <3>2. QED
      BY <1>0, <3>1, UsesCount DEF Uses
  <2>2. CASE pc[d] = "dial" /\ cur[d] = e
    <3>1. c \in Awaiting(e) /\ d \in Awaiting(e)
      BY <1>4, <2>2 DEF Awaiting
    <3>2. Awaiting(e) # {} /\ ~ \E x : Awaiting(e) = {x}
      BY <1>4, <3>1
    <3>3. Cardinality(Awaiting(e)) # 1 /\ Cardinality(Awaiting(e)) # 0
      BY <1>0, <3>2, UsesCount, FS_Singleton
    <3>4. QED
      BY <1>0, <3>3, UsesCount DEF Uses
  <2>3. QED
    BY <1>4, <2>1, <2>2 DEF Dials
<1>5. QED
  BY <1>1, <1>2, <1>3, <1>4

(* The transport of a dial is the last hop borrowed, if any. *)
LEMMA TransportIs ==
  ASSUME TypeOK, NEW c \in Callers
  PROVE  Transport(c) \in Entries \cup {None}
<1>1. borrowed[c] \in Seq(Entries)
  BY DEF TypeOK
<1>2. CASE borrowed[c] = <<>>
  BY <1>2 DEF Transport
<1>3. CASE borrowed[c] # <<>>
  <2>1. Len(borrowed[c]) \in 1..Len(borrowed[c])
    BY <1>1, <1>3
  <2>2. borrowed[c][Len(borrowed[c])] \in Entries
    BY <1>1, <2>1
  <2>3. QED
    BY <1>3, <2>2 DEF Transport, Last
<1>4. QED
  BY <1>2, <1>3

(* evict, Granted and Denied keep the types of what they change. *)
LEMMA EvictTypes ==
  ASSUME TypeOK, NEW e \in Entries, Evict(e)
  PROVE  conns' \in [Keys -> Entries \cup {None}] /\ evicted' \in [Entries -> BOOLEAN]
<1>1. conns \in [Keys -> Entries \cup {None}] /\ evicted \in [Entries -> BOOLEAN]
  BY DEF TypeOK
<1>2. \A k \in Keys : MapWithout(e)[k] \in Entries \cup {None}
  BY <1>1 DEF MapWithout
<1>3. MapWithout(e) = [k \in Keys |-> MapWithout(e)[k]]
  BY DEF MapWithout
<1>4. QED
  BY <1>1, <1>2, <1>3 DEF Evict

CallerTypes ==
  /\ leases \subseteq (Callers \cup Entries) \X Entries
  /\ pc \in [Callers -> {"idle", "route", "dial", "wait", "unwind", "fail", "held"}]
  /\ mine \in [Callers -> Entries \cup {None}]
  /\ cur \in [Callers -> Entries \cup {None}]
  /\ borrowed \in [Callers -> Seq(Entries)]

(* A granted Acquire keeps the callers' types. *)
LEMMA GrantedTypes ==
  ASSUME TypeOK, NEW c \in Callers, NEW e \in Entries, Granted(c, e)
  PROVE  CallerTypes'
<1>0. CallerTypes
  BY DEF TypeOK, CallerTypes
<1>1. CASE mine[c] \in {None, e}
  <2>1. <<>> \in Seq(Entries) /\ <<c, e>> \in (Callers \cup Entries) \X Entries
    OBVIOUS
  <2>2. /\ leases' = leases \cup {<<c, e>>}
        /\ pc' = [pc EXCEPT ![c] = "held"] /\ cur' = [cur EXCEPT ![c] = e]
        /\ mine' = [mine EXCEPT ![c] = None] /\ borrowed' = [borrowed EXCEPT ![c] = <<>>]
    BY <1>1 DEF Granted
  <2>3. QED
    BY <1>0, <2>1, <2>2 DEF CallerTypes
<1>2. CASE mine[c] \notin {None, e}
  <2>1. mine[c] \in Entries /\ Append(borrowed[c], e) \in Seq(Entries)
    BY <1>0, <1>2 DEF CallerTypes
  <2>2. /\ leases' = leases \cup {<<mine[c], e>>}
        /\ pc' = [pc EXCEPT ![c] = "route"]
        /\ cur' = [cur EXCEPT ![c] = None]
        /\ borrowed' = [borrowed EXCEPT ![c] = Append(@, e)] /\ mine' = mine
    BY <1>2 DEF Granted
  <2>3. QED
    BY <1>0, <2>1, <2>2 DEF CallerTypes
<1>3. QED
  BY <1>1, <1>2

(* So does one that failed. *)
LEMMA DeniedTypes ==
  ASSUME TypeOK, NEW c \in Callers, Denied(c)
  PROVE  CallerTypes'
  BY DEF TypeOK, CallerTypes, Denied

(* Every action keeps the types. *)
LEMMA TypesStep ==
  ASSUME IInv, [Next]_vars
  PROVE  (TypeOK)'
PROOF
<1> DEFINE Goal == TypeOK
<1> USE PoolAssumption DEF IInv, TypeOK, CallerShape, Phases, entryVars,
        callerVars
<1>1. ASSUME NEW c \in Callers, NEW k \in Keys, AcquireRefused(c, k)
      PROVE  Goal'
  BY <1>1 DEF AcquireRefused
<1>2. ASSUME NEW c \in Callers, NEW k \in Keys, AcquireJoin(c, k)
      PROVE  Goal'
  BY <1>2 DEF AcquireJoin
<1>3. ASSUME NEW c \in Callers, NEW k \in Keys, NEW e \in Entries, AcquireFresh(c, k, e)
      PROVE  Goal'
  <2>1. CallerTypes'
    <3>1. CASE pc[c] = "idle"
      <4>1. /\ mine' = [mine EXCEPT ![c] = e] /\ pc' = [pc EXCEPT ![c] = "route"]
            /\ cur' = cur /\ leases' = leases /\ borrowed' = borrowed
        BY <1>3, <3>1 DEF AcquireFresh
      <4>2. QED
        BY <4>1 DEF CallerTypes
    <3>2. CASE pc[c] # "idle"
      <4>1. /\ cur' = [cur EXCEPT ![c] = e] /\ pc' = [pc EXCEPT ![c] = "dial"]
            /\ mine' = mine /\ leases' = leases /\ borrowed' = borrowed
        BY <1>3, <3>2 DEF AcquireFresh
      <4>2. QED
        BY <4>1 DEF CallerTypes
    <3>3. QED
      BY <3>1, <3>2
  <2>2. QED
    BY <1>3, <2>1, 1 \in Nat DEF AcquireFresh, FirstRefs, CallerTypes
<1>4. ASSUME NEW c \in Callers, WaitReady(c) PROVE Goal'
  <2>1. CallerTypes'
    BY <1>4, GrantedTypes DEF WaitReady
  <2>2. QED
    BY <1>4, <2>1 DEF WaitReady, CallerTypes
<1>5. ASSUME NEW c \in Callers, WaitFailed(c) PROVE Goal'
  <2>1. CallerTypes'
    BY <1>5, DeniedTypes DEF WaitFailed
  <2>2. QED
    BY <1>5, <2>1 DEF WaitFailed, CallerTypes
<1>6. ASSUME NEW c \in Callers, WaitCancelled(c) PROVE Goal'
  <2>1. refs[cur[c]] >= 1 /\ cur[c] \in Entries
    BY <1>6, Counted DEF WaitCancelled
  <2>2. refs' = [refs EXCEPT ![cur[c]] = @ - 1] /\ todo' \in [Procs -> Seq(Items)]
    BY <1>6, WaitCancelledEffect
  <2>3. refs' \in [Entries -> Nat]
    <3>1. refs \in [Entries -> Nat]
      OBVIOUS
    <3> HIDE DEF TypeOK
    <3>2. QED
      BY <2>1, <2>2, <3>1
  <2>4. conns' \in [Keys -> Entries \cup {None}] /\ evicted' \in [Entries -> BOOLEAN]
    BY <1>6, <2>1, WaitCancelledEffect, EvictTypes, SMTT(30)
  <2>5. CallerTypes'
    BY <1>6, DeniedTypes DEF WaitCancelled
  <2>6. QED
    BY <1>6, <2>2, <2>3, <2>4, <2>5 DEF WaitCancelled, CallerTypes
<1>7. ASSUME NEW c \in Callers, HopDialled(c) PROVE Goal'
  <2>1. cur[c] \in Entries /\ Granted(c, cur[c]) /\ <<>> \in Seq(Entries)
    BY <1>7 DEF HopDialled, Dialled
  <2>2. CallerTypes'
    BY <2>1, GrantedTypes
  <2>3. QED
    BY <1>7, <2>1, <2>2, TransportIs DEF HopDialled, Dialled, CallerTypes
<1>8. ASSUME NEW c \in Callers, TargetDialled(c) PROVE Goal'
  <2>1. mine[c] \in Entries /\ Granted(c, mine[c])
    BY <1>8 DEF TargetDialled, Dialled, AtTarget
  <2>2. CallerTypes'
    BY <2>1, GrantedTypes
  <2>3. QED
    BY <1>8, <2>1, <2>2, TransportIs
    DEF TargetDialled, AtTarget, Dialled, CallerTypes
<1>9. ASSUME NEW c \in Callers, HopFailed(c) PROVE Goal'
  <2>1. cur[c] \in Entries /\ Evict(cur[c])
    BY <1>9 DEF HopFailed, FailEntry
  <2>2. CallerTypes'
    BY <1>9, DeniedTypes DEF HopFailed
  <2>3. QED
    BY <1>9, <2>1, <2>2, EvictTypes DEF HopFailed, FailEntry, CallerTypes
<1>10. ASSUME NEW c \in Callers, RouteFailed(c) PROVE Goal'
  BY <1>10 DEF RouteFailed
<1>11. ASSUME NEW c \in Callers, Unwind(c) PROVE Goal'
  <2>1. todo' \in [Procs -> Seq(Items)]
    BY <1>11, UnwindEffect
  <2>2. <<>> \in Seq(Entries)
    OBVIOUS
  <2>3. QED
    BY <1>11, <2>1, <2>2 DEF Unwind
<1>12. ASSUME NEW c \in Callers, TargetFailed(c) PROVE Goal'
  <2>1. mine[c] \in Entries /\ Evict(mine[c])
    BY <1>12 DEF TargetFailed, FailEntry
  <2>2. QED
    BY <1>12, <2>1, EvictTypes DEF TargetFailed, FailEntry
<1>13. ASSUME NEW c \in Callers, Release(c) PROVE Goal'
  BY <1>13, ReleaseEffect DEF Release
<1>14. ASSUME NEW p \in Procs, DropLease(p) PROVE Goal'
  <2>1. PICK h \in Callers \cup Entries, x \in Entries : DropsAway(p, h, x)
    BY <1>14, DropLeaseEffect
  <2>2. <<h, x>> \in leases => refs[x] >= 1
    BY Counted
  <2>3. refs' \in [Entries -> Nat]
    BY <2>1, <2>2 DEF DropsAway
  <2>4. conns' \in [Keys -> Entries \cup {None}] /\ evicted' \in [Entries -> BOOLEAN]
    BY <2>1, EvictTypes DEF DropsAway
  <2>5. todo' \in [Procs -> Seq(Items)] /\ leases' \subseteq leases
    BY <2>1 DEF DropsAway
  <2>6. QED
    BY <1>14, <2>3, <2>4, <2>5 DEF DropLease
<1>15. ASSUME NEW p \in Procs, CloseClient(p) PROVE Goal'
  <2>1. PICK x \in Entries : ClosesAway(p, x)
    BY <1>15, CloseClientEffect
  <2>2. conn' \in [Entries -> {"none", "up", "dead", "closed"}]
    BY <2>1 DEF ClosesAway
  <2>3. todo' \in [Procs -> Seq(Items)]
    BY <2>1 DEF ClosesAway
  <2>4. QED
    BY <1>15, <2>2, <2>3 DEF CloseClient
<1>16. ASSUME NEW e \in Entries, Die(e) PROVE Goal'
  BY <1>16 DEF Die
<1>17. ASSUME NEW e \in Entries, Watch(e) PROVE Goal'
  BY <1>17, EvictTypes DEF Watch
<1>18. ASSUME NEW e \in Entries, CloseNext(e) PROVE Goal'
  <2>1. Closer \in Procs /\ Teardown(e) \in Seq(Items)
    BY TeardownItems DEF Procs
  <2>2. QED
    BY <1>18, <2>1 DEF CloseNext
<1>19. ASSUME Close PROVE Goal'
  BY <1>19 DEF Close, InMap
<1>20. ASSUME UNCHANGED vars PROVE Goal'
  BY <1>20 DEF vars
<1> HIDE PoolAssumption DEF Goal, IInv, TypeOK, CallerShape, Phases,
        entryVars, callerVars
<1>21. Goal'
  BY <1>1, <1>2, <1>3, <1>4, <1>5, <1>6, <1>7, <1>8, <1>9, <1>10, <1>11,
     <1>12, <1>13, <1>14, <1>15, <1>16, <1>17, <1>18, <1>19, <1>20
  DEF Next, Acquire, DialEnds, WaitEnds, Work
<1>22. QED
  BY <1>21 DEF Goal

(***************************************************************************)
(* Acquire returns a lease: to a caller, or to the entry whose route the   *)
(* caller dials.                                                           *)
(***************************************************************************)
GrantSelf(c, e) ==
  /\ leases' = leases \cup {<<c, e>>}
  /\ pc' = [pc EXCEPT ![c] = "held"]
  /\ cur' = [cur EXCEPT ![c] = e]
  /\ mine' = [mine EXCEPT ![c] = None]
  /\ borrowed' = [borrowed EXCEPT ![c] = <<>>]

GrantHop(c, e) ==
  /\ leases' = leases \cup {<<mine[c], e>>}
  /\ pc' = [pc EXCEPT ![c] = "route"]
  /\ cur' = [cur EXCEPT ![c] = None]
  /\ mine' = mine
  /\ Len(borrowed'[c]) = Len(borrowed[c]) + 1
  /\ \A i \in 1..Len(borrowed[c]) : borrowed'[c][i] = borrowed[c][i]
  /\ borrowed'[c][Len(borrowed[c]) + 1] = e
  /\ Range(borrowed'[c]) = Range(borrowed[c]) \cup {e}
  /\ \A d \in Callers : d # c => borrowed'[d] = borrowed[d]

(* A lease goes to the caller itself or to the route it dials. *)
LEMMA GrantedIs ==
  ASSUME TypeOK, NEW c \in Callers, NEW e \in Entries, Granted(c, e)
  PROVE  /\ mine[c] \in {None, e} => GrantSelf(c, e)
         /\ mine[c] \notin {None, e} => GrantHop(c, e)
<1>1. ASSUME mine[c] \in {None, e} PROVE GrantSelf(c, e)
  BY <1>1 DEF Granted, GrantSelf
<1>2. ASSUME mine[c] \notin {None, e} PROVE GrantHop(c, e)
  <2>1. /\ leases' = leases \cup {<<mine[c], e>>}
        /\ pc' = [pc EXCEPT ![c] = "route"]
        /\ cur' = [cur EXCEPT ![c] = None]
        /\ borrowed' = [borrowed EXCEPT ![c] = Append(@, e)] /\ mine' = mine
    BY <1>2 DEF Granted
  <2>2. borrowed \in [Callers -> Seq(Entries)] /\ borrowed[c] \in Seq(Entries)
    BY DEF TypeOK
  <2>3. /\ borrowed'[c] = Append(borrowed[c], e)
        /\ \A d \in Callers : d # c => borrowed'[d] = borrowed[d]
    BY <2>1, <2>2
  <2>4. /\ Len(borrowed'[c]) = Len(borrowed[c]) + 1
        /\ \A i \in 1..Len(borrowed[c]) : borrowed'[c][i] = borrowed[c][i]
        /\ borrowed'[c][Len(borrowed[c]) + 1] = e
    BY <2>2, <2>3
  <2>5. Range(borrowed'[c]) = Range(borrowed[c]) \cup {e}
    BY <2>2, <2>3, RangeAppend
  <2>6. QED
    BY <2>1, <2>3, <2>4, <2>5 DEF GrantHop
<1>3. QED
  BY <1>1, <1>2

(* The hop a route waits for or dials is not the entry it is dialled for. *)
LEMMA HopIsShallower ==
  ASSUME TypeOK, PhaseShape, RouteShape, NEW c \in Callers, mine[c] \in Entries,
         pc[c] \in {"wait", "dial"}, cur[c] \in Entries
  PROVE  /\ key[mine[c]] \in Keys /\ key[cur[c]] \in Keys
         /\ Depth(cur[c]) = Len(borrowed[c]) /\ Depth(cur[c]) < Depth(mine[c])
         /\ mine[c] # cur[c]
PROOF
<1>1. /\ key[mine[c]] \in Keys /\ Len(borrowed[c]) \in Nat
      /\ Len(borrowed[c]) < Depth(mine[c])
      /\ key[cur[c]] = Route[key[mine[c]]][Len(borrowed[c]) + 1]
  BY DEF PhaseShape, RouteShape, RouteOf, TypeOK
<1>2. Len(borrowed[c]) + 1 \in 1..Len(Route[key[mine[c]]])
  BY <1>1, PoolAssumption DEF Depth
<1>3. key[cur[c]] \in Keys /\ Len(Route[key[cur[c]]]) = Len(borrowed[c])
  <2> DEFINE k == key[mine[c]]
             i == Len(borrowed[c]) + 1
  <2>1. k \in Keys /\ i \in 1..Len(Route[k]) /\ key[cur[c]] = Route[k][i]
    BY <1>1, <1>2
  <2>2. i - 1 = Len(borrowed[c])
    BY <1>1
  <2> HIDE DEF k, i
  <2>3. Route[k][i] \in Keys /\ Len(Route[Route[k][i]]) = i - 1
    BY <2>1, HopDepth
  <2>4. QED
    BY <2>1, <2>2, <2>3
<1>4. QED
  BY <1>1, <1>3 DEF Depth

(* Who has waited for a ready entry is granted it. *)
LEMMA WaitReadyIs ==
  ASSUME IInv, NEW c \in Callers, WaitReady(c)
  PROVE  /\ pc[c] = "wait" /\ cur[c] \in Entries /\ phase[cur[c]] = "ready"
         /\ mine[c] = None => GrantSelf(c, cur[c])
         /\ mine[c] # None => /\ mine[c] \in Entries /\ mine[c] # cur[c]
                              /\ GrantHop(c, cur[c])
<1>1. /\ pc[c] = "wait" /\ cur[c] \in Entries /\ phase[cur[c]] = "ready"
      /\ Granted(c, cur[c]) /\ mine[c] \in Entries \cup {None}
  BY DEF WaitReady, IInv, CallerShape, TypeOK
<1>2. mine[c] # None => mine[c] \in Entries /\ mine[c] # cur[c]
  BY <1>1, HopIsShallower DEF IInv
<1>3. QED
  BY <1>1, <1>2, GrantedIs DEF IInv

(* A hop is dialled by a caller that is dialling the route over it. *)
LEMMA HopDialledIs ==
  ASSUME IInv, NEW c \in Callers, HopDialled(c)
  PROVE  /\ pc[c] = "dial" /\ cur[c] \in Entries /\ phase[cur[c]] = "dialling"
         /\ mine[c] \in Entries /\ mine[c] # cur[c] /\ GrantHop(c, cur[c])
<1>1. /\ pc[c] = "dial" /\ cur[c] \in Entries /\ phase[cur[c]] = "dialling"
      /\ Granted(c, cur[c]) /\ mine[c] \in Entries
  BY DEF HopDialled, Dialled, IInv, CallerShape, DialShape
<1>2. mine[c] # cur[c]
  BY <1>1, HopIsShallower DEF IInv
<1>3. QED
  BY <1>1, <1>2, GrantedIs, PoolAssumption DEF IInv

(* The target is dialled once every hop is leased. *)
LEMMA TargetDialledIs ==
  ASSUME IInv, NEW c \in Callers, TargetDialled(c)
  PROVE  /\ pc[c] = "route" /\ mine[c] \in Entries /\ phase[mine[c]] = "dialling"
         /\ GrantSelf(c, mine[c]) /\ Len(borrowed[c]) = Depth(mine[c])
<1>1. /\ pc[c] = "route" /\ Granted(c, mine[c]) /\ mine[c] \in Entries
  BY DEF TargetDialled, AtTarget, Dialled, IInv, CallerShape
<1>2. /\ phase[mine[c]] = "dialling" /\ Len(borrowed[c]) <= Depth(mine[c])
      /\ key[mine[c]] \in Keys /\ Len(borrowed[c]) \in Nat
  BY <1>1 DEF IInv, RouteShape, RouteOf, PhaseShape, TypeOK
<1>3. Len(borrowed[c]) + 1 > Len(Route[key[mine[c]]])
  BY DEF TargetDialled, AtTarget, NextHop
<1>4. Len(borrowed[c]) = Depth(mine[c])
  BY <1>2, <1>3, PoolAssumption DEF Depth
<1>5. QED
  BY <1>1, <1>2, <1>4, GrantedIs DEF IInv

(* evict keeps the map: it loses the entry only where it is the current one. *)
LEMMA EvictMap ==
  ASSUME TypeOK, MapShape, NEW e \in Entries, Evict(e), key' = key, closed' = closed
  PROVE  MapShape'
<1>1. /\ conns \in [Keys -> Entries \cup {None}] /\ evicted \in [Entries -> BOOLEAN]
      /\ key \in [Entries -> Keys \cup {None}]
  BY DEF TypeOK
<1>2. \A k \in Keys : conns'[k] = IF k = key[e] /\ conns[k] = e THEN None ELSE conns[k]
  BY DEF Evict, MapWithout
<1>3. \A f \in Entries : evicted'[f] = (evicted[f] \/ f = e)
  BY <1>1 DEF Evict
<1>4. \A k \in Keys : conns[k] # None => key[conns[k]] = k /\ ~evicted[conns[k]]
  BY DEF MapShape
<1>5. \A k \in Keys : conns'[k] # None => conns'[k] = conns[k] /\ conns[k] # e
  BY <1>1, <1>2, <1>4
<1>6. \A f \in Entries : f # e /\ ~evicted[f] => key[f] \in Keys /\ conns'[key[f]] = f
  BY <1>1, <1>2 DEF MapShape
<1>7. \A k \in Keys : conns'[k] # None =>
        key[conns'[k]] = k /\ conns'[k] \in Entries /\ ~evicted'[conns'[k]]
  BY <1>1, <1>3, <1>4, <1>5
<1>8. QED
  BY <1>3, <1>6, <1>7 DEF MapShape

(* Every action keeps the map. *)
LEMMA MapStep ==
  ASSUME IInv, [Next]_vars
  PROVE  (MapShape)'
PROOF
<1> DEFINE Goal == MapShape
<1> USE PoolAssumption DEF IInv, TypeOK, MapShape, entryVars, callerVars
<1>1. ASSUME NEW c \in Callers, NEW k \in Keys, AcquireRefused(c, k)
      PROVE  Goal'
  BY <1>1 DEF AcquireRefused, Asks
<1>2. ASSUME NEW c \in Callers, NEW k \in Keys, AcquireJoin(c, k)
      PROVE  Goal'
  BY <1>2 DEF AcquireJoin, Asks
<1>3. ASSUME NEW c \in Callers, NEW k \in Keys, NEW e \in Entries, AcquireFresh(c, k, e)
      PROVE  Goal'
  <2>1. evicted[e] /\ conns[k] = None /\ ~closed
    BY <1>3 DEF AcquireFresh, Fresh, Mentioned
  <2>2. QED
    BY <1>3, <2>1 DEF AcquireFresh
<1>4. ASSUME NEW c \in Callers, WaitReady(c) PROVE Goal'
  BY <1>4 DEF WaitReady
<1>5. ASSUME NEW c \in Callers, WaitFailed(c) PROVE Goal'
  BY <1>5 DEF WaitFailed, Denied
<1>6. ASSUME NEW c \in Callers, WaitCancelled(c) PROVE Goal'
  <2>1. cur[c] \in Entries /\ key' = key /\ closed' = closed
    BY <1>6, WaitCancelledEffect DEF WaitCancelled
  <2>2. CASE conns' = conns /\ evicted' = evicted
    BY <2>1, <2>2
  <2>3. CASE Evict(cur[c])
    BY <2>1, <2>3, EvictMap
  <2>4. QED
    BY <1>6, <2>2, <2>3, WaitCancelledEffect
<1>7. ASSUME NEW c \in Callers, HopDialled(c) PROVE Goal'
  BY <1>7 DEF HopDialled, Dialled
<1>8. ASSUME NEW c \in Callers, TargetDialled(c) PROVE Goal'
  BY <1>8 DEF TargetDialled, AtTarget, Dialled
<1>9. ASSUME NEW c \in Callers, HopFailed(c) PROVE Goal'
  <2>1. cur[c] \in Entries /\ Evict(cur[c]) /\ key' = key /\ closed' = closed
    BY <1>9 DEF HopFailed, FailEntry, CallerShape
  <2>2. QED
    BY <2>1, EvictMap
<1>10. ASSUME NEW c \in Callers, RouteFailed(c) PROVE Goal'
  BY <1>10 DEF RouteFailed
<1>11. ASSUME NEW c \in Callers, Unwind(c) PROVE Goal'
  BY <1>11 DEF Unwind
<1>12. ASSUME NEW c \in Callers, TargetFailed(c) PROVE Goal'
  <2>1. mine[c] \in Entries /\ Evict(mine[c]) /\ key' = key /\ closed' = closed
    BY <1>12 DEF TargetFailed, FailEntry, CallerShape
  <2>2. QED
    BY <2>1, EvictMap
<1>13. ASSUME NEW c \in Callers, Release(c) PROVE Goal'
  BY <1>13 DEF Release
<1>14. ASSUME NEW p \in Procs, DropLease(p) PROVE Goal'
  <2>1. PICK h \in Callers \cup Entries, x \in Entries : DropsAway(p, h, x)
    BY <1>14, DropLeaseEffect
  <2>2. key' = key /\ closed' = closed
    BY <1>14 DEF DropLease
  <2>3. CASE conns' = conns /\ evicted' = evicted
    BY <2>2, <2>3
  <2>4. CASE Evict(x)
    BY <2>2, <2>4, EvictMap
  <2>5. QED
    BY <2>1, <2>3, <2>4 DEF DropsAway
<1>15. ASSUME NEW p \in Procs, CloseClient(p) PROVE Goal'
  BY <1>15 DEF CloseClient
<1>16. ASSUME NEW e \in Entries, Die(e) PROVE Goal'
  BY <1>16 DEF Die
<1>17. ASSUME NEW e \in Entries, Watch(e) PROVE Goal'
  BY <1>17, EvictMap DEF Watch
<1>18. ASSUME NEW e \in Entries, CloseNext(e) PROVE Goal'
  BY <1>18 DEF CloseNext
<1>19. ASSUME Close PROVE Goal'
  BY <1>19 DEF Close, InMap
<1>20. ASSUME UNCHANGED vars PROVE Goal'
  BY <1>20 DEF vars
<1> HIDE PoolAssumption DEF Goal, IInv, TypeOK, MapShape, entryVars, callerVars
<1>21. Goal'
  BY <1>1, <1>2, <1>3, <1>4, <1>5, <1>6, <1>7, <1>8, <1>9, <1>10, <1>11,
     <1>12, <1>13, <1>14, <1>15, <1>16, <1>17, <1>18, <1>19, <1>20
  DEF Next, Acquire, DialEnds, WaitEnds, Work
<1>22. QED
  BY <1>21 DEF Goal

(* The dial of an entry has no more references to lose than the one of the  *)
(* dialler, so an entry is not evicted by a release while it is dialled.    *)
LEMMA LastIsNotDialled ==
  ASSUME IInv, NEW c \in Callers, pc[c] = "wait", cur[c] \in Entries, refs[cur[c]] <= 1
  PROVE  phase[cur[c]] # "dialling"
<1>1. SUFFICES ASSUME phase[cur[c]] = "dialling" PROVE FALSE
  OBVIOUS
<1>2. PICK d \in Callers : Dials(d, cur[c])
  BY <1>1 DEF IInv, DialShape
<1>3. c # d
  <2>1. SUFFICES ASSUME c = d PROVE FALSE
    OBVIOUS
  <2>2. mine[c] = cur[c]
    BY <1>2, <2>1 DEF Dials
  <2>3. QED
    BY <2>2, HopIsShallower DEF IInv
<1>4. refs[cur[c]] >= 2 /\ refs[cur[c]] \in Nat
  BY <1>2, <1>3, Counted DEF IInv, TypeOK
<1>5. QED
  BY <1>4

(* Every action keeps what the phase of an entry says. *)
LEMMA PhaseStep ==
  ASSUME IInv, [Next]_vars
  PROVE  (PhaseShape)'
PROOF
<1> DEFINE Goal == PhaseShape
<1> USE PoolAssumption DEF IInv, TypeOK, PhaseShape, entryVars, callerVars
<1>1. ASSUME NEW c \in Callers, NEW k \in Keys, AcquireRefused(c, k)
      PROVE  Goal'
  BY <1>1 DEF AcquireRefused, Asks
<1>2. ASSUME NEW c \in Callers, NEW k \in Keys, AcquireJoin(c, k)
      PROVE  Goal'
  BY <1>2 DEF AcquireJoin, Asks
<1>3. ASSUME NEW c \in Callers, NEW k \in Keys, NEW e \in Entries, AcquireFresh(c, k, e)
      PROVE  Goal'
  BY <1>3 DEF AcquireFresh
<1>4. ASSUME NEW c \in Callers, WaitReady(c) PROVE Goal'
  BY <1>4 DEF WaitReady
<1>5. ASSUME NEW c \in Callers, WaitFailed(c) PROVE Goal'
  BY <1>5 DEF WaitFailed, Denied
<1>6. ASSUME NEW c \in Callers, WaitCancelled(c) PROVE Goal'
  <2>1. /\ cur[c] \in Entries /\ pc[c] = "wait" /\ key' = key /\ closed' = closed
        /\ phase' = phase /\ conn' = conn
    BY <1>6, WaitCancelledEffect DEF WaitCancelled
  <2>2. CASE conns' = conns /\ evicted' = evicted
    BY <2>1, <2>2
  <2>3. CASE refs[cur[c]] <= 1 /\ Evict(cur[c])
    <3>1. phase[cur[c]] # "dialling"
      BY <2>1, <2>3, LastIsNotDialled
    <3>2. evicted' = [evicted EXCEPT ![cur[c]] = TRUE]
      BY <2>3 DEF Evict
    <3>3. QED
      BY <2>1, <3>1, <3>2
  <2>4. QED
    BY <1>6, <2>2, <2>3, WaitCancelledEffect
<1>7. ASSUME NEW c \in Callers, HopDialled(c) PROVE Goal'
  <2>1. cur[c] \in Entries /\ phase[cur[c]] = "dialling"
    BY <1>7, HopDialledIs
  <2>2. QED
    BY <1>7, <2>1 DEF HopDialled, Dialled
<1>8. ASSUME NEW c \in Callers, TargetDialled(c) PROVE Goal'
  <2>1. mine[c] \in Entries /\ phase[mine[c]] = "dialling"
    BY <1>8, TargetDialledIs
  <2>2. QED
    BY <1>8, <2>1 DEF TargetDialled, Dialled
<1>9. ASSUME NEW c \in Callers, HopFailed(c) PROVE Goal'
  <2>1. cur[c] \in Entries /\ phase[cur[c]] = "dialling"
    BY <1>9 DEF HopFailed, CallerShape, DialShape
  <2>2. QED
    BY <1>9, <2>1 DEF HopFailed, FailEntry, Evict
<1>10. ASSUME NEW c \in Callers, RouteFailed(c) PROVE Goal'
  BY <1>10 DEF RouteFailed
<1>11. ASSUME NEW c \in Callers, Unwind(c) PROVE Goal'
  BY <1>11 DEF Unwind
<1>12. ASSUME NEW c \in Callers, TargetFailed(c) PROVE Goal'
  <2>1. mine[c] \in Entries /\ phase[mine[c]] = "dialling"
    BY <1>12 DEF TargetFailed, CallerShape, RouteShape, RouteOf
  <2>2. QED
    BY <1>12, <2>1 DEF TargetFailed, FailEntry, Evict
<1>13. ASSUME NEW c \in Callers, Release(c) PROVE Goal'
  BY <1>13 DEF Release
<1>14. ASSUME NEW p \in Procs, DropLease(p) PROVE Goal'
  <2>1. PICK h \in Callers \cup Entries, x \in Entries : DropsAway(p, h, x)
    BY <1>14, DropLeaseEffect
  <2>2. key' = key /\ closed' = closed /\ phase' = phase /\ conn' = conn
    BY <1>14 DEF DropLease
  <2>3. CASE conns' = conns /\ evicted' = evicted
    BY <2>2, <2>3
  <2>4. CASE <<h, x>> \in leases /\ Evict(x)
    <3>1. phase[x] = "ready"
      BY <2>4 DEF RefShape
    <3>2. evicted' = [evicted EXCEPT ![x] = TRUE]
      BY <2>4 DEF Evict
    <3>3. QED
      BY <2>2, <3>1, <3>2
  <2>5. QED
    BY <2>1, <2>3, <2>4 DEF DropsAway
<1>15. ASSUME NEW p \in Procs, CloseClient(p) PROVE Goal'
  BY <1>15 DEF CloseClient
<1>16. ASSUME NEW e \in Entries, Die(e) PROVE Goal'
  BY <1>16 DEF Die
<1>17. ASSUME NEW e \in Entries, Watch(e) PROVE Goal'
  BY <1>17 DEF Watch, Evict
<1>18. ASSUME NEW e \in Entries, CloseNext(e) PROVE Goal'
  BY <1>18 DEF CloseNext
<1>19. ASSUME Close PROVE Goal'
  BY <1>19 DEF Close, InMap
<1>20. ASSUME UNCHANGED vars PROVE Goal'
  BY <1>20 DEF vars
<1> HIDE PoolAssumption DEF Goal, IInv, TypeOK, PhaseShape, entryVars,
        callerVars
<1>21. Goal'
  BY <1>1, <1>2, <1>3, <1>4, <1>5, <1>6, <1>7, <1>8, <1>9, <1>10, <1>11,
     <1>12, <1>13, <1>14, <1>15, <1>16, <1>17, <1>18, <1>19, <1>20
  DEF Next, Acquire, DialEnds, WaitEnds, Work
<1>22. QED
  BY <1>21 DEF Goal

(* Every action keeps what a caller's place says. *)
LEMMA CallerStep ==
  ASSUME IInv, [Next]_vars
  PROVE  (CallerShape)'
PROOF
<1> DEFINE Goal == CallerShape
<1> USE PoolAssumption DEF IInv, TypeOK, CallerShape, entryVars, callerVars
<1>1. ASSUME NEW c \in Callers, NEW k \in Keys, AcquireRefused(c, k)
      PROVE  Goal'
  BY <1>1, ZenonT(40) DEF AcquireRefused, Asks
<1>2. ASSUME NEW c \in Callers, NEW k \in Keys, AcquireJoin(c, k)
      PROVE  Goal'
  <2>1. pc[c] \in {"idle", "route"} /\ todo[c] = <<>> /\ conns[k] \in Entries
    BY <1>2 DEF AcquireJoin, Asks
  <2>2. QED
    BY <1>2, <2>1, ZenonT(40) DEF AcquireJoin
<1>3. ASSUME NEW c \in Callers, NEW k \in Keys, NEW e \in Entries, AcquireFresh(c, k, e)
      PROVE  Goal'
  <2>1. todo' = todo /\ borrowed' = borrowed /\ pc[c] \in {"idle", "route"}
    BY <1>3 DEF AcquireFresh, Asks
  <2>2. CASE pc[c] = "idle"
    <3>1. /\ mine' = [mine EXCEPT ![c] = e] /\ pc' = [pc EXCEPT ![c] = "route"]
          /\ cur' = cur /\ todo[c] = <<>>
      BY <1>3, <2>2 DEF AcquireFresh, Asks
    <3>2. QED
      BY <2>1, <2>2, <3>1, SMTT(30)
  <2>3. CASE pc[c] # "idle"
    <3>1. /\ cur' = [cur EXCEPT ![c] = e] /\ pc' = [pc EXCEPT ![c] = "dial"]
          /\ mine' = mine /\ todo[c] = <<>>
      BY <1>3, <2>3 DEF AcquireFresh, Asks
    <3>2. QED
      BY <2>1, <2>3, <3>1
  <2>4. QED
    BY <2>2, <2>3
<1>4. ASSUME NEW c \in Callers, WaitReady(c) PROVE Goal'
  <2>1. /\ pc[c] = "wait" /\ cur[c] \in Entries /\ todo' = todo
    BY <1>4, WaitReadyIs DEF WaitReady
  <2>2. CASE mine[c] = None
    BY <1>4, <2>1, <2>2, WaitReadyIs, SMTT(30) DEF GrantSelf
  <2>3. CASE mine[c] # None
    <3>1. mine[c] \in Entries /\ GrantHop(c, cur[c])
      BY <1>4, <2>3, WaitReadyIs
    <3>2. QED
      BY <2>1, <2>3, <3>1 DEF GrantHop
  <2>4. QED
    BY <2>2, <2>3
<1>5. ASSUME NEW c \in Callers, WaitFailed(c) PROVE Goal'
  BY <1>5 DEF WaitFailed, Denied
<1>6. ASSUME NEW c \in Callers, WaitCancelled(c) PROVE Goal'
  <2>1. /\ pc[c] = "wait" /\ cur[c] \in Entries /\ Denied(c)
        /\ \A q \in Procs : q # c => todo'[q] = todo[q]
    BY <1>6, WaitCancelledEffect DEF WaitCancelled
  <2>2. QED
    BY <2>1, ZenonT(40) DEF Denied, Procs
<1>7. ASSUME NEW c \in Callers, HopDialled(c) PROVE Goal'
  <2>1. /\ pc[c] = "dial" /\ cur[c] \in Entries /\ todo' = todo
        /\ mine[c] \in Entries /\ GrantHop(c, cur[c])
    BY <1>7, HopDialledIs DEF HopDialled, Dialled
  <2>2. QED
    BY <2>1 DEF GrantHop
<1>8. ASSUME NEW c \in Callers, TargetDialled(c) PROVE Goal'
  <2>1. /\ pc[c] = "route" /\ mine[c] \in Entries /\ todo' = todo
        /\ GrantSelf(c, mine[c])
    BY <1>8, TargetDialledIs DEF TargetDialled, Dialled
  <2>2. QED
    BY <2>1 DEF GrantSelf
<1>9. ASSUME NEW c \in Callers, HopFailed(c) PROVE Goal'
  BY <1>9 DEF HopFailed, Denied
<1>10. ASSUME NEW c \in Callers, RouteFailed(c) PROVE Goal'
  BY <1>10, SMTT(30) DEF RouteFailed
<1>11. ASSUME NEW c \in Callers, Unwind(c) PROVE Goal'
  <2>1. /\ \A q \in Procs : q # c => todo'[q] = todo[q]
    BY <1>11, UnwindEffect
  <2>2. QED
    BY <1>11, <2>1, SMTT(30) DEF Unwind, Procs
<1>12. ASSUME NEW c \in Callers, TargetFailed(c) PROVE Goal'
  BY <1>12 DEF TargetFailed
<1>13. ASSUME NEW c \in Callers, Release(c) PROVE Goal'
  <2>1. /\ \A q \in Procs : q # c => todo'[q] = todo[q]
    BY <1>13, ReleaseEffect
  <2>2. QED
    BY <1>13, <2>1, ZenonT(40) DEF Release, Procs
<1>14. ASSUME NEW p \in Procs, DropLease(p) PROVE Goal'
  <2>1. todo[p] # <<>> /\ \A q \in Procs : q # p => todo'[q] = todo[q]
    BY <1>14, DropLeaseEffect DEF DropsAway
  <2>2. QED
    BY <1>14, <2>1 DEF DropLease, Procs
<1>15. ASSUME NEW p \in Procs, CloseClient(p) PROVE Goal'
  <2>1. todo[p] # <<>> /\ \A q \in Procs : q # p => todo'[q] = todo[q]
    BY <1>15, CloseClientEffect DEF ClosesAway
  <2>2. QED
    BY <1>15, <2>1 DEF CloseClient, Procs
<1>16. ASSUME NEW e \in Entries, Die(e) PROVE Goal'
  BY <1>16 DEF Die
<1>17. ASSUME NEW e \in Entries, Watch(e) PROVE Goal'
  BY <1>17 DEF Watch
<1>18. ASSUME NEW e \in Entries, CloseNext(e) PROVE Goal'
  BY <1>18 DEF CloseNext, Procs
<1>19. ASSUME Close PROVE Goal'
  BY <1>19 DEF Close
<1>20. ASSUME UNCHANGED vars PROVE Goal'
  BY <1>20 DEF vars
<1> HIDE PoolAssumption DEF Goal, IInv, TypeOK, CallerShape, entryVars,
        callerVars
<1>21. Goal'
  BY <1>1, <1>2, <1>3, <1>4, <1>5, <1>6, <1>7, <1>8, <1>9, <1>10, <1>11,
     <1>12, <1>13, <1>14, <1>15, <1>16, <1>17, <1>18, <1>19, <1>20
  DEF Next, Acquire, DialEnds, WaitEnds, Work
<1>22. QED
  BY <1>21 DEF Goal

(* A fresh entry object is nowhere: not in the map, not leased, held, waited *)
(* for or dialled, and nobody's work.                                        *)
LEMMA FreshIs ==
  ASSUME TypeOK, NEW e \in Entries, Fresh(e)
  PROVE  /\ evicted[e] /\ e \notin doomed /\ conn[e] # "up"
         /\ \A h : <<h, e>> \notin leases /\ <<e, h>> \notin leases
         /\ \A c \in Callers : mine[c] # e /\ cur[c] # e /\ e \notin Range(borrowed[c])
         /\ \A c \in Callers : \A i \in 1..Len(borrowed[c]) : borrowed[c][i] # e
         /\ \A p \in Procs, f \in Entries : ~ToClose(p, e) /\ ~ToDrop(p, e, f)
         /\ \A p \in Procs, h \in Callers \cup Entries : ~ToDrop(p, h, e)
PROOF
<1>1. /\ evicted[e] /\ e \notin doomed /\ conn[e] # "up"
      /\ \A c \in Callers : mine[c] # e /\ cur[c] # e /\ e \notin Range(borrowed[c])
  BY DEF Fresh, Mentioned
<1>2. \A l \in leases : e # l[1] /\ e # l[2]
  BY DEF Fresh, Mentioned
<1>3. \A h : <<h, e>> \notin leases /\ <<e, h>> \notin leases
  <2>1. \A h : <<h, e>>[2] = e /\ <<e, h>>[1] = e
    OBVIOUS
  <2>2. QED
    BY <1>2, <2>1
<1>4. \A c \in Callers : \A i \in 1..Len(borrowed[c]) : borrowed[c][i] # e
  <2>1. \A c \in Callers : borrowed[c] \in Seq(Entries)
    BY DEF TypeOK
  <2>2. QED
    BY <1>1, <2>1 DEF Range
<1>5. ASSUME NEW p \in Procs, NEW x \in Range(todo[p])
      PROVE  e # x.holder /\ e # x.entry
  <2>1. todo[p] \in Seq(Items)
    BY DEF TypeOK
  <2>2. PICK i \in 1..Len(todo[p]) : x = todo[p][i]
    BY <2>1 DEF Range
  <2>3. QED
    BY <2>2 DEF Fresh, Mentioned
<1>6. /\ CloseItem(e).entry = e
      /\ \A f \in Entries : DropItem(e, f).holder = e
      /\ \A h \in Callers \cup Entries : DropItem(h, e).entry = e
  BY DEF CloseItem, DropItem
<1>7. \A p \in Procs, f \in Entries : ~ToClose(p, e) /\ ~ToDrop(p, e, f)
  BY <1>5, <1>6 DEF ToClose, ToDrop
<1>8. \A p \in Procs, h \in Callers \cup Entries : ~ToDrop(p, h, e)
  BY <1>5, <1>6 DEF ToDrop
<1>9. QED
  BY <1>1, <1>3, <1>4, <1>7, <1>8

(* A new entry: the caller dials the route to it, or it as the next hop. *)
LEMMA AcquireFreshIs ==
  ASSUME IInv, NEW c \in Callers, NEW k \in Keys, NEW e \in Entries, AcquireFresh(c, k, e)
  PROVE  /\ Fresh(e) /\ ~closed /\ conns[k] = None
         /\ \/ /\ pc[c] = "idle" /\ mine[c] = None /\ borrowed[c] = <<>>
               /\ mine' = [mine EXCEPT ![c] = e] /\ cur' = cur
               /\ pc' = [pc EXCEPT ![c] = "route"]
            \/ /\ pc[c] = "route" /\ mine[c] \in Entries
               /\ mine' = mine /\ cur' = [cur EXCEPT ![c] = e]
               /\ pc' = [pc EXCEPT ![c] = "dial"]
               /\ Len(borrowed[c]) + 1 \in DOMAIN Route[key[mine[c]]]
               /\ k = Route[key[mine[c]]][Len(borrowed[c]) + 1]
PROOF
<1>1. Fresh(e) /\ ~closed /\ conns[k] = None
  BY DEF AcquireFresh
<1>2. CASE pc[c] = "idle"
  <2>1. /\ mine' = [mine EXCEPT ![c] = e] /\ pc' = [pc EXCEPT ![c] = "route"]
        /\ cur' = cur
    BY <1>2 DEF AcquireFresh
  <2>2. mine[c] = None /\ borrowed[c] = <<>>
    BY <1>2 DEF IInv, CallerShape
  <2>3. QED
    BY <1>1, <1>2, <2>1, <2>2
<1>3. CASE pc[c] # "idle"
  <2>1. /\ pc[c] = "route" /\ Len(borrowed[c]) + 1 \in DOMAIN Route[key[mine[c]]]
        /\ k = Route[key[mine[c]]][Len(borrowed[c]) + 1]
    BY <1>3 DEF AcquireFresh, Asks, NextHop
  <2>2. /\ cur' = [cur EXCEPT ![c] = e] /\ pc' = [pc EXCEPT ![c] = "dial"]
        /\ mine' = mine
    BY <1>3 DEF AcquireFresh
  <2>3. mine[c] \in Entries
    BY <2>1 DEF IInv, CallerShape
  <2>4. QED
    BY <1>1, <2>1, <2>2, <2>3
<1>4. QED
  BY <1>2, <1>3

(* Nobody gives back the hops of an entry while its route is dialled. *)
LEMMA DialledNotDropped ==
  ASSUME IInv, NEW p \in Procs, NEW h \in Entries, NEW e \in Entries, ToDrop(p, h, e),
         NEW c \in Callers, Dials(c, h)
  PROVE  mine[c] = h /\ pc[c] = "fail" /\ borrowed[c] = <<>>
<1>1. phase[h] = "dialling"
  BY DEF IInv, Dials, DialShape, RouteShape, RouteOf
<1>2. PICK d \in Callers : mine[d] = h /\ pc[d] = "fail"
  BY <1>1 DEF IInv, ItemShape, DropOk
<1>3. d = c
  BY <1>2 DEF IInv, DialShape, Dials
<1>4. QED
  BY <1>2, <1>3 DEF IInv, CallerShape

(* Every action keeps who dials what. *)
LEMMA DialStep ==
  ASSUME IInv, [Next]_vars
  PROVE  (DialShape)'
PROOF
<1> DEFINE Goal == DialShape
<1> USE Distinct DEF IInv, TypeOK, DialShape, entryVars, callerVars
<1>1. ASSUME NEW c \in Callers, NEW k \in Keys, AcquireRefused(c, k)
      PROVE  Goal'
  BY <1>1 DEF AcquireRefused, Asks, Dials
<1>2. ASSUME NEW c \in Callers, NEW k \in Keys, AcquireJoin(c, k)
      PROVE  Goal'
  <2>1. /\ pc[c] \in {"idle", "route"} /\ conns[k] \in Entries /\ phase[conns[k]] # "unborn"
    BY <1>2 DEF AcquireJoin, Asks, MapShape, PhaseShape
  <2>2. QED
    BY <1>2, <2>1 DEF AcquireJoin, Dials
<1>3. ASSUME NEW c \in Callers, NEW k \in Keys, NEW e \in Entries, AcquireFresh(c, k, e)
      PROVE  Goal'
  <2>1. /\ Fresh(e) /\ phase' = [phase EXCEPT ![e] = "dialling"]
    BY <1>3, AcquireFreshIs DEF AcquireFresh
  <2>2. /\ \A d \in Callers : mine[d] # e /\ cur[d] # e
        /\ \A d \in Callers : ~Dials(d, e)
    BY <2>1, FreshIs DEF Dials
  <2>3. \/ /\ pc[c] = "idle" /\ mine[c] = None
           /\ mine' = [mine EXCEPT ![c] = e] /\ cur' = cur
           /\ pc' = [pc EXCEPT ![c] = "route"]
        \/ /\ pc[c] = "route" /\ mine[c] \in Entries
           /\ mine' = mine /\ cur' = [cur EXCEPT ![c] = e]
           /\ pc' = [pc EXCEPT ![c] = "dial"]
    BY <1>3, AcquireFreshIs
  <2>4. \A d \in Callers, f \in Entries : Dials(d, f)' <=> Dials(d, f) \/ (d = c /\ f = e)
    BY <2>2, <2>3 DEF Dials
  <2>5. /\ \A f \in Entries : f # e => phase'[f] = phase[f]
        /\ phase'[e] = "dialling"
        /\ \A d \in Callers : pc[d] \in {"wait", "dial", "held"} =>
             cur[d] \in Entries /\ phase'[cur[d]] = phase[cur[d]]
    BY <2>1, <2>2 DEF CallerShape
  <2>6. pc'[c] = "route" \/ (pc'[c] = "dial" /\ cur'[c] = e)
    BY <2>3
  <2>7. \A d \in Callers : d # c => pc'[d] = pc[d] /\ cur'[d] = cur[d]
    BY <2>3
  <2>8. ASSUME NEW a \in Callers
        PROVE  /\ pc'[a] = "dial" => phase'[cur'[a]] = "dialling"
               /\ pc'[a] = "wait" => phase'[cur'[a]] # "unborn"
               /\ pc'[a] = "held" => phase'[cur'[a]] = "ready"
    <3>1. CASE a = c
      BY <2>5, <2>6, <3>1
    <3>2. CASE a # c
      BY <2>5, <2>7, <3>2
    <3>3. QED
      BY <3>1, <3>2
  <2>9. \A f \in Entries : phase'[f] = "dialling" => \E d \in Callers : Dials(d, f)'
    BY <2>4, <2>5
  <2>10. ASSUME NEW f \in Entries, NEW a \in Callers, NEW d \in Callers,
                Dials(a, f)', Dials(d, f)'
         PROVE  a = d
    <3>1. CASE f = e
      BY <2>2, <2>4, <2>10, <3>1
    <3>2. CASE f # e
      <4>1. Dials(a, f) /\ Dials(d, f)
        BY <2>4, <2>10, <3>2
      <4>2. QED
        BY <4>1
    <3>3. QED
      BY <3>1, <3>2
  <2> HIDE DEF IInv, TypeOK
  <2>11. QED
    BY <2>8, <2>9, <2>10
<1>4. ASSUME NEW c \in Callers, WaitReady(c) PROVE Goal'
  <2>1. /\ pc[c] = "wait" /\ cur[c] \in Entries /\ phase[cur[c]] = "ready" /\ phase' = phase
    BY <1>4, WaitReadyIs DEF WaitReady
  <2>2. CASE mine[c] = None
    <3>1. /\ pc' = [pc EXCEPT ![c] = "held"] /\ mine' = [mine EXCEPT ![c] = None]
          /\ cur' = [cur EXCEPT ![c] = cur[c]]
      BY <1>4, <2>2, WaitReadyIs DEF GrantSelf
    <3>2. \A d \in Callers, f \in Entries : Dials(d, f)' <=> Dials(d, f)
      BY <2>1, <2>2, <3>1 DEF Dials
    <3>3. QED
      BY <2>1, <3>1, <3>2
  <2>3. CASE mine[c] # None
    <3>1. mine[c] \in Entries /\ GrantHop(c, cur[c])
      BY <1>4, <2>3, WaitReadyIs
    <3>2. \A d \in Callers, f \in Entries : Dials(d, f)' <=> Dials(d, f)
      BY <2>1, <3>1 DEF Dials, GrantHop
    <3>3. QED
      BY <2>1, <3>1, <3>2 DEF GrantHop
  <2>4. QED
    BY <2>2, <2>3
<1>5. ASSUME NEW c \in Callers, WaitFailed(c) PROVE Goal'
  BY <1>5 DEF WaitFailed, Denied, Dials
<1>6. ASSUME NEW c \in Callers, WaitCancelled(c) PROVE Goal'
  BY <1>6 DEF WaitCancelled, Denied, Dials
<1>7. ASSUME NEW c \in Callers, HopDialled(c) PROVE Goal'
  <2>1. PICK x \in Entries : x = cur[c]
    BY <1>7, HopDialledIs
  <2>2. /\ pc[c] = "dial" /\ phase[x] = "dialling"
        /\ mine[c] \in Entries /\ mine[c] # x
        /\ phase' = [phase EXCEPT ![x] = "ready"]
        /\ pc' = [pc EXCEPT ![c] = "route"]
        /\ cur' = [cur EXCEPT ![c] = None] /\ mine' = mine
    BY <1>7, <2>1, HopDialledIs DEF HopDialled, Dialled, GrantHop
  <2>3. \A d \in Callers, f \in Entries : Dials(d, f)' <=> Dials(d, f) /\ ~(d = c /\ f = x)
    BY <2>1, <2>2 DEF Dials
  <2>4. Dials(c, x) /\ \A d \in Callers : pc[d] = "dial" /\ d # c => cur[d] # x
    BY <2>1, <2>2 DEF Dials
  <2>8. (\A a \in Callers : pc'[a] = "dial" => phase'[cur'[a]] = "dialling")
    BY <2>1, <2>2, <2>4 DEF CallerShape
  <2>9. (\A a \in Callers : pc'[a] = "wait" => phase'[cur'[a]] # "unborn")
    BY <2>1, <2>2, <2>4 DEF CallerShape
  <2>10. (\A a \in Callers : pc'[a] = "held" => phase'[cur'[a]] = "ready")
    BY <2>1, <2>2, <2>4 DEF CallerShape
  <2>11. QED
    BY <2>1, <2>2, <2>3, <2>4, <2>8, <2>9, <2>10
<1>8. ASSUME NEW c \in Callers, TargetDialled(c) PROVE Goal'
  <2>1. PICK x \in Entries : x = mine[c]
    BY <1>8, TargetDialledIs
  <2>2. /\ pc[c] = "route" /\ phase[x] = "dialling"
        /\ phase' = [phase EXCEPT ![x] = "ready"]
        /\ pc' = [pc EXCEPT ![c] = "held"]
        /\ cur' = [cur EXCEPT ![c] = x] /\ mine' = [mine EXCEPT ![c] = None]
    BY <1>8, <2>1, TargetDialledIs DEF TargetDialled, Dialled, GrantSelf
  <2>3. \A d \in Callers, f \in Entries : Dials(d, f)' <=> Dials(d, f) /\ ~(d = c /\ f = x)
    BY <2>1, <2>2 DEF Dials
  <2>4. Dials(c, x) /\ \A d \in Callers : pc[d] = "dial" => cur[d] # x
    BY <2>1, <2>2 DEF Dials
  <2>8. (\A a \in Callers : pc'[a] = "dial" => phase'[cur'[a]] = "dialling")
    BY <2>1, <2>2, <2>4 DEF CallerShape
  <2>9. (\A a \in Callers : pc'[a] = "wait" => phase'[cur'[a]] # "unborn")
    BY <2>1, <2>2, <2>4 DEF CallerShape
  <2>10. (\A a \in Callers : pc'[a] = "held" => phase'[cur'[a]] = "ready")
    BY <2>1, <2>2, <2>4 DEF CallerShape
  <2>11. QED
    BY <2>1, <2>2, <2>3, <2>4, <2>8, <2>9, <2>10
<1>9. ASSUME NEW c \in Callers, HopFailed(c) PROVE Goal'
  <2>1. PICK x \in Entries : x = cur[c] /\ pc[c] = "dial" /\ mine[c] \in Entries
    BY <1>9 DEF HopFailed, CallerShape
  <2>2. /\ mine[c] # x
    BY <2>1, HopIsShallower
  <2>3. /\ phase' = [phase EXCEPT ![x] = "failed"] /\ mine' = mine /\ phase[x] = "dialling"
        /\ pc' = [pc EXCEPT ![c] = "unwind"] /\ cur' = [cur EXCEPT ![c] = None]
    BY <1>9, <2>1 DEF HopFailed, FailEntry, Denied
  <2>4. \A d \in Callers, f \in Entries : Dials(d, f)' <=> Dials(d, f) /\ ~(d = c /\ f = x)
    BY <2>1, <2>2, <2>3 DEF Dials
  <2>5. Dials(c, x) /\ \A d \in Callers : pc[d] = "dial" /\ d # c => cur[d] # x
    BY <2>1, <2>2 DEF Dials
  <2>8. (\A a \in Callers : pc'[a] = "dial" => phase'[cur'[a]] = "dialling")
    BY <2>1, <2>3, <2>5 DEF CallerShape
  <2>9. (\A a \in Callers : pc'[a] = "wait" => phase'[cur'[a]] # "unborn")
    BY <2>1, <2>3, <2>5 DEF CallerShape
  <2>10. (\A a \in Callers : pc'[a] = "held" => phase'[cur'[a]] = "ready")
    BY <2>1, <2>3, <2>5 DEF CallerShape
  <2>11. QED
    BY <2>1, <2>3, <2>4, <2>5, <2>8, <2>9, <2>10
<1>10. ASSUME NEW c \in Callers, RouteFailed(c) PROVE Goal'
  BY <1>10 DEF RouteFailed, Dials
<1>11. ASSUME NEW c \in Callers, Unwind(c) PROVE Goal'
  BY <1>11 DEF Unwind, Dials
<1>12. ASSUME NEW c \in Callers, TargetFailed(c) PROVE Goal'
  <2>1. PICK x \in Entries : x = mine[c] /\ pc[c] = "fail"
    BY <1>12 DEF TargetFailed, CallerShape
  <2>2. /\ phase' = [phase EXCEPT ![x] = "failed"] /\ mine' = [mine EXCEPT ![c] = None]
        /\ pc' = [pc EXCEPT ![c] = "idle"] /\ cur' = cur /\ phase[x] = "dialling"
    BY <1>12, <2>1 DEF TargetFailed, FailEntry, RouteShape, RouteOf
  <2>3. \A d \in Callers, f \in Entries : Dials(d, f)' <=> Dials(d, f) /\ ~(d = c /\ f = x)
    BY <2>1, <2>2 DEF Dials
  <2>4. Dials(c, x) /\ \A d \in Callers : pc[d] = "dial" => cur[d] # x
    BY <2>1, <2>2 DEF Dials
  <2>8. (\A a \in Callers : pc'[a] = "dial" => phase'[cur'[a]] = "dialling")
    BY <2>1, <2>2, <2>4 DEF CallerShape
  <2>9. (\A a \in Callers : pc'[a] = "wait" => phase'[cur'[a]] # "unborn")
    BY <2>1, <2>2, <2>4 DEF CallerShape
  <2>10. (\A a \in Callers : pc'[a] = "held" => phase'[cur'[a]] = "ready")
    BY <2>1, <2>2, <2>4 DEF CallerShape
  <2>11. QED
    BY <2>1, <2>2, <2>3, <2>4, <2>8, <2>9, <2>10
<1>13. ASSUME NEW c \in Callers, Release(c) PROVE Goal'
  BY <1>13 DEF Release, Dials
<1>14. ASSUME NEW p \in Procs, DropLease(p) PROVE Goal'
  BY <1>14 DEF DropLease, Dials
<1>15. ASSUME NEW p \in Procs, CloseClient(p) PROVE Goal'
  BY <1>15 DEF CloseClient, Dials
<1>16. ASSUME NEW e \in Entries, Die(e) PROVE Goal'
  BY <1>16 DEF Die, Dials
<1>17. ASSUME NEW e \in Entries, Watch(e) PROVE Goal'
  BY <1>17 DEF Watch, Dials
<1>18. ASSUME NEW e \in Entries, CloseNext(e) PROVE Goal'
  BY <1>18 DEF CloseNext, Dials
<1>19. ASSUME Close PROVE Goal'
  BY <1>19 DEF Close, Dials
<1>20. ASSUME UNCHANGED vars PROVE Goal'
  BY <1>20 DEF vars, Dials
<1> HIDE Distinct DEF Goal, IInv, TypeOK, DialShape, entryVars, callerVars
<1>21. Goal'
  BY <1>1, <1>2, <1>3, <1>4, <1>5, <1>6, <1>7, <1>8, <1>9, <1>10, <1>11,
     <1>12, <1>13, <1>14, <1>15, <1>16, <1>17, <1>18, <1>19, <1>20
  DEF Next, Acquire, DialEnds, WaitEnds, Work
<1>22. QED
  BY <1>21 DEF Goal

(* A route keeps what it has while nobody changes its entry, its hops or     *)
(* its leases.                                                               *)
LEMMA RouteKept ==
  ASSUME IInv, NEW d \in Callers, mine[d] \in Entries,
         mine'[d] = mine[d], borrowed'[d] = borrowed[d],
         phase'[mine[d]] = phase[mine[d]], key'[mine[d]] = key[mine[d]],
         \A i \in 1..Len(borrowed[d]) :
           /\ key'[borrowed[d][i]] = key[borrowed[d][i]]
           /\ <<mine[d], borrowed[d][i]>> \in leases',
         pc'[d] \in {"wait", "dial"} =>
           pc[d] \in {"wait", "dial"} /\ cur'[d] = cur[d] /\ key'[cur[d]] = key[cur[d]]
  PROVE  RouteOf(d)'
<1>1. RouteOf(d)
  BY DEF IInv, RouteShape
<1>2. Depth(mine[d])' = Depth(mine[d])
  BY DEF Depth
<1>3. QED
  BY <1>1, <1>2 DEF RouteOf

(* A step that leaves the caller alone keeps its route. *)
LEMMA RouteSame ==
  ASSUME IInv, NEW d \in Callers, mine[d] \in Entries,
         mine'[d] = mine[d], borrowed'[d] = borrowed[d],
         phase'[mine[d]] = phase[mine[d]], key' = key, leases \subseteq leases',
         pc'[d] \in {"wait", "dial"} => pc[d] \in {"wait", "dial"} /\ cur'[d] = cur[d]
  PROVE  RouteOf(d)'
<1>1. RouteOf(d)
  BY DEF IInv, RouteShape
<1>2. \A i \in 1..Len(borrowed[d]) : <<mine[d], borrowed[d][i]>> \in leases'
  BY <1>1 DEF RouteOf
<1>3. QED
  BY <1>2, RouteKept

(* The next hop's place in the route. *)
LEMMA NextHopIs ==
  ASSUME IInv, NEW c \in Callers, mine[c] \in Entries,
         Len(borrowed[c]) + 1 \in DOMAIN Route[key[mine[c]]]
  PROVE  Len(borrowed[c]) \in Nat /\ Len(borrowed[c]) < Depth(mine[c])
<1>1. key[mine[c]] \in Keys /\ Len(borrowed[c]) \in Nat
  BY DEF PhaseShape, IInv, RouteShape, RouteOf, TypeOK
<1>2. Route[key[mine[c]]] \in Seq(Keys)
  BY <1>1, PoolAssumption
<1>3. QED
  BY <1>1, <1>2 DEF Depth

(* The hop leased becomes the last of those the route has. *)
LEMMA RouteGrows ==
  ASSUME IInv, NEW c \in Callers, mine[c] \in Entries, NEW x \in Entries, x = cur[c],
         pc[c] \in {"wait", "dial"}, GrantHop(c, x), key' = key,
         phase'[mine[c]] = phase[mine[c]]
  PROVE  RouteOf(c)'
<1>1. /\ RouteOf(c) /\ borrowed[c] \in Seq(Entries) /\ Len(borrowed[c]) \in Nat
  BY DEF IInv, RouteShape, TypeOK
<1>2. /\ leases' = leases \cup {<<mine[c], x>>} /\ mine' = mine
      /\ Len(borrowed'[c]) = Len(borrowed[c]) + 1
      /\ \A i \in 1..Len(borrowed[c]) : borrowed'[c][i] = borrowed[c][i]
      /\ borrowed'[c][Len(borrowed[c]) + 1] = x
      /\ pc'[c] = "route"
  BY DEF GrantHop, IInv, TypeOK
<1>3. /\ Depth(mine[c])' = Depth(mine[c]) /\ mine'[c] = mine[c]
      /\ Len(borrowed[c]) < Depth(mine[c]) /\ Depth(mine[c]) \in Nat
      /\ key[x] = Route[key[mine[c]]][Len(borrowed[c]) + 1]
  <2>1. key[mine[c]] \in Keys
    BY HopIsShallower DEF IInv
  <2>2. Len(Route[key[mine[c]]]) \in Nat
    BY <2>1, PoolAssumption
  <2>3. QED
    BY <1>1, <1>2, <2>2 DEF RouteOf, Depth
<1>4. Len(borrowed'[c]) <= Depth(mine[c])
  BY <1>1, <1>2, <1>3
<1>5. ASSUME NEW i \in 1..Len(borrowed'[c])
      PROVE  /\ key[borrowed'[c][i]] = Route[key[mine[c]]][i]
             /\ <<mine[c], borrowed'[c][i]>> \in leases'
  <2>1. CASE i = Len(borrowed[c]) + 1
    BY <1>2, <1>3, <2>1
  <2>2. CASE i \in 1..Len(borrowed[c])
    BY <1>1, <1>2, <2>2 DEF RouteOf
  <2>3. QED
    BY <1>1, <1>2, <2>1, <2>2
<1>6. QED
  BY <1>1, <1>2, <1>3, <1>4, <1>5 DEF RouteOf

(* Every action keeps what a route being dialled has. *)
LEMMA RouteStep ==
  ASSUME IInv, [Next]_vars
  PROVE  (RouteShape)'
PROOF
<1> DEFINE Goal == RouteShape
<1> USE Distinct DEF IInv, TypeOK, entryVars, callerVars
<1>1. ASSUME NEW c \in Callers, NEW k \in Keys, AcquireRefused(c, k)
      PROVE  Goal'
  <2>0. SUFFICES ASSUME NEW d \in Callers, (mine[d] \in Entries)' PROVE RouteOf(d)'
    BY DEF RouteShape
  <2>1. (mine[d] \in Entries) /\ mine'[d] = mine[d]
    BY <1>1, <2>0 DEF AcquireRefused, Asks
  <2>2. QED
    BY <1>1, <2>0, <2>1, RouteSame DEF AcquireRefused, Asks
<1>2. ASSUME NEW c \in Callers, NEW k \in Keys, AcquireJoin(c, k)
      PROVE  Goal'
  <2>0. SUFFICES ASSUME NEW d \in Callers, (mine[d] \in Entries)' PROVE RouteOf(d)'
    BY DEF RouteShape
  <2>1. PICK x \in Entries : x = conns[k] /\ key[x] = k
    BY <1>2 DEF AcquireJoin, MapShape
  <2>2. /\ pc' = [pc EXCEPT ![c] = "wait"] /\ cur' = [cur EXCEPT ![c] = x]
        /\ UNCHANGED <<mine, borrowed, leases, key, phase>> /\ mine[d] \in Entries
    BY <1>2, <2>0, <2>1 DEF AcquireJoin
  <2>3. CASE d # c
    BY <2>0, <2>2, <2>3, RouteSame
  <2>4. CASE d = c
    <3>1. pc[c] # "idle"
      BY <2>2, <2>4 DEF CallerShape
    <3>2. /\ Len(borrowed[c]) + 1 \in DOMAIN Route[key[mine[c]]]
          /\ k = Route[key[mine[c]]][Len(borrowed[c]) + 1]
      BY <1>2, <3>1 DEF AcquireJoin, Asks, NextHop
    <3>3. Len(borrowed[c]) < Depth(mine[c])
      BY <2>2, <2>4, <3>2, NextHopIs
    <3>4. RouteOf(c)
      BY <2>2, <2>4 DEF RouteShape
    <3>5. cur'[c] = x
      BY <2>2
    <3>6. Depth(mine[c])' = Depth(mine[c])
      BY <2>2, SMTT(30) DEF Depth
    <3>7. RouteOf(c)'
      BY <2>1, <2>2, <3>2, <3>3, <3>4, <3>5, <3>6 DEF RouteOf
    <3>8. QED
      BY <2>4, <3>7
  <2>5. QED
    BY <2>3, <2>4
<1>3. ASSUME NEW c \in Callers, NEW k \in Keys, NEW e \in Entries, AcquireFresh(c, k, e)
      PROVE  Goal'
  <2>0. SUFFICES ASSUME NEW d \in Callers, (mine[d] \in Entries)' PROVE RouteOf(d)'
    BY DEF RouteShape
  <2>1. /\ Fresh(e) /\ phase' = [phase EXCEPT ![e] = "dialling"]
        /\ key' = [key EXCEPT ![e] = k] /\ borrowed' = borrowed /\ leases' = leases
    BY <1>3, AcquireFreshIs DEF AcquireFresh
  <2>2. /\ \A a \in Callers : mine[a] # e /\ cur[a] # e
        /\ \A a \in Callers : \A i \in 1..Len(borrowed[a]) : borrowed[a][i] # e
    BY <2>1, FreshIs
  <2>3. /\ \A f \in Entries : f # e => phase'[f] = phase[f] /\ key'[f] = key[f]
        /\ phase'[e] = "dialling" /\ key'[e] = k
    BY <2>1
  <2>4. \A i \in 1..Len(borrowed[d]) :
          borrowed[d][i] \in Entries /\ key'[borrowed[d][i]] = key[borrowed[d][i]]
    BY <2>2, <2>3
  <2>5. pc[d] \in {"wait", "dial"} => cur[d] \in Entries /\ key'[cur[d]] = key[cur[d]]
    BY <2>2, <2>3 DEF CallerShape
  <2>6. ASSUME mine[d] \in Entries
        PROVE  /\ RouteOf(d) /\ phase'[mine[d]] = phase[mine[d]] /\ key'[mine[d]] = key[mine[d]]
               /\ \A i \in 1..Len(borrowed[d]) : <<mine[d], borrowed[d][i]>> \in leases'
    BY <2>1, <2>2, <2>3, <2>6 DEF RouteShape, RouteOf, Depth
  <2>7. CASE d # c
    <3>1. mine'[d] = mine[d] /\ pc'[d] = pc[d] /\ cur'[d] = cur[d]
      BY <1>3, <2>7, AcquireFreshIs
    <3>2. QED
      BY <2>0, <2>1, <2>4, <2>5, <2>6, <3>1, RouteKept
  <2>8. CASE /\ d = c /\ pc[c] = "idle" /\ mine[c] = None /\ borrowed[c] = <<>>
             /\ mine' = [mine EXCEPT ![c] = e] /\ pc' = [pc EXCEPT ![c] = "route"]
    <3>1. Len(borrowed[c]) = 0 /\ Len(Route[k]) \in Nat
      BY <2>8, PoolAssumption
    <3>2. mine'[c] = e /\ pc'[c] = "route" /\ Depth(e)' = Len(Route[k])
      BY <2>3, <2>8 DEF Depth
    <3>3. QED
      BY <2>1, <2>3, <2>8, <3>1, <3>2 DEF RouteOf, Depth
  <2>9. CASE /\ d = c /\ pc[c] = "route" /\ mine[c] \in Entries
             /\ mine' = mine /\ cur' = [cur EXCEPT ![c] = e]
             /\ pc' = [pc EXCEPT ![c] = "dial"]
             /\ Len(borrowed[c]) + 1 \in DOMAIN Route[key[mine[c]]]
             /\ k = Route[key[mine[c]]][Len(borrowed[c]) + 1]
    <3>1. Len(borrowed[c]) < Depth(mine[c])
      BY <2>9, NextHopIs
    <3>2. /\ cur'[c] = e /\ pc'[c] = "dial" /\ RouteOf(c) /\ mine'[c] = mine[c]
          /\ phase'[mine[c]] = phase[mine[c]] /\ key'[mine[c]] = key[mine[c]]
          /\ \A i \in 1..Len(borrowed[c]) : /\ key'[borrowed[c][i]] = key[borrowed[c][i]]
                                            /\ <<mine[c], borrowed[c][i]>> \in leases'
      BY <2>4, <2>6, <2>9
    <3>3. Depth(mine[c])' = Depth(mine[c])
      BY <2>6, <2>9 DEF Depth
    <3>4. key'[cur'[c]] = Route[key[mine[c]]][Len(borrowed[c]) + 1] /\ borrowed'[c] = borrowed[c]
      BY <2>1, <2>3, <2>9, <3>2
    <3> HIDE DEF IInv, TypeOK
    <3>5. RouteOf(c)'
      BY <3>1, <3>2, <3>3, <3>4 DEF RouteOf
    <3>6. QED
      BY <2>9, <3>5
  <2>10. QED
    BY <1>3, <2>7, <2>8, <2>9, AcquireFreshIs
<1>4. ASSUME NEW c \in Callers, WaitReady(c) PROVE Goal'
  <2>0. SUFFICES ASSUME NEW d \in Callers, (mine[d] \in Entries)' PROVE RouteOf(d)'
    BY DEF RouteShape
  <2>1. PICK x \in Entries : x = cur[c] /\ pc[c] = "wait"
    BY <1>4, WaitReadyIs
  <2>2. phase' = phase /\ key' = key
    BY <1>4 DEF WaitReady
  <2>3. CASE mine[c] = None
    <3>1. GrantSelf(c, x)
      BY <1>4, <2>1, <2>3, WaitReadyIs
    <3>2. d # c /\ mine'[d] = mine[d]
      BY <2>0, <2>3, <3>1 DEF GrantSelf
    <3>3. QED
      BY <2>0, <2>2, <3>1, <3>2, RouteSame DEF GrantSelf
  <2>4. CASE mine[c] # None
    <3>1. mine[c] \in Entries /\ GrantHop(c, x)
      BY <1>4, <2>1, <2>4, WaitReadyIs
    <3>2. CASE d = c
      BY <2>1, <2>2, <3>1, <3>2, RouteGrows
    <3>3. CASE d # c
      BY <2>0, <2>2, <3>1, <3>3, RouteSame DEF GrantHop
    <3>4. QED
      BY <3>2, <3>3
  <2>5. QED
    BY <2>3, <2>4
<1>5. ASSUME NEW c \in Callers, WaitFailed(c) PROVE Goal'
  <2>0. SUFFICES ASSUME NEW d \in Callers, (mine[d] \in Entries)' PROVE RouteOf(d)'
    BY DEF RouteShape
  <2>1. (mine[d] \in Entries) /\ mine'[d] = mine[d]
    BY <1>5, <2>0 DEF WaitFailed, Denied
  <2>2. QED
    BY <1>5, <2>0, <2>1, RouteSame DEF WaitFailed, Denied
<1>6. ASSUME NEW c \in Callers, WaitCancelled(c) PROVE Goal'
  <2>0. SUFFICES ASSUME NEW d \in Callers, (mine[d] \in Entries)' PROVE RouteOf(d)'
    BY DEF RouteShape
  <2>1. (mine[d] \in Entries) /\ mine'[d] = mine[d]
    BY <1>6, <2>0 DEF WaitCancelled, Denied
  <2>2. QED
    BY <1>6, <2>0, <2>1, RouteSame DEF WaitCancelled, Denied
<1>7. ASSUME NEW c \in Callers, HopDialled(c) PROVE Goal'
  <2>0. SUFFICES ASSUME NEW d \in Callers, (mine[d] \in Entries)' PROVE RouteOf(d)'
    BY DEF RouteShape
  <2>1. PICK x \in Entries : x = cur[c] /\ pc[c] = "dial"
    BY <1>7, HopDialledIs
  <2>2. /\ mine[c] \in Entries /\ mine[c] # x /\ GrantHop(c, x)
        /\ phase' = [phase EXCEPT ![x] = "ready"] /\ key' = key
    BY <1>7, <2>1, HopDialledIs DEF HopDialled, Dialled
  <2>3. \A a \in Callers : mine[a] # x
    BY <2>1, <2>2 DEF DialShape, Dials
  <2>4. mine' = mine /\ phase'[mine[d]] = phase[mine[d]] /\ mine[d] \in Entries
    BY <2>0, <2>2, <2>3 DEF GrantHop
  <2>5. CASE d = c
    BY <2>1, <2>2, <2>4, <2>5, RouteGrows
  <2>6. CASE d # c
    BY <2>0, <2>2, <2>4, <2>6, RouteSame DEF GrantHop
  <2>7. QED
    BY <2>5, <2>6
<1>8. ASSUME NEW c \in Callers, TargetDialled(c) PROVE Goal'
  <2>0. SUFFICES ASSUME NEW d \in Callers, (mine[d] \in Entries)' PROVE RouteOf(d)'
    BY DEF RouteShape
  <2>1. PICK x \in Entries : x = mine[c] /\ pc[c] = "route"
    BY <1>8, TargetDialledIs
  <2>2. /\ GrantSelf(c, x) /\ phase' = [phase EXCEPT ![x] = "ready"] /\ key' = key
    BY <1>8, <2>1, TargetDialledIs DEF TargetDialled, Dialled
  <2>3. d # c /\ mine'[d] = mine[d]
    BY <2>0, <2>2 DEF GrantSelf
  <2>4. mine[d] # x
    BY <2>1, <2>3 DEF DialShape, Dials
  <2>5. phase'[mine[d]] = phase[mine[d]]
    BY <2>2, <2>4
  <2>6. QED
    BY <2>0, <2>2, <2>3, <2>5, RouteSame DEF GrantSelf
<1>9. ASSUME NEW c \in Callers, HopFailed(c) PROVE Goal'
  <2>0. SUFFICES ASSUME NEW d \in Callers, (mine[d] \in Entries)' PROVE RouteOf(d)'
    BY DEF RouteShape
  <2>1. PICK x \in Entries : x = cur[c] /\ pc[c] = "dial" /\ mine[c] \in Entries
    BY <1>9 DEF HopFailed, CallerShape
  <2>2. /\ mine[c] # x
    BY <2>1, HopIsShallower
  <2>3. \A a \in Callers : mine[a] # x
    BY <2>1, <2>2 DEF DialShape, Dials
  <2>4. /\ phase' = [phase EXCEPT ![x] = "failed"] /\ mine' = mine
        /\ pc' = [pc EXCEPT ![c] = "unwind"] /\ cur' = [cur EXCEPT ![c] = None]
        /\ borrowed' = borrowed /\ key' = key /\ leases' = leases
    BY <1>9, <2>1 DEF HopFailed, FailEntry, Denied
  <2>5. mine[d] \in Entries /\ phase'[mine[d]] = phase[mine[d]]
    BY <2>0, <2>3, <2>4
  <2>6. QED
    BY <2>4, <2>5, RouteSame
<1>10. ASSUME NEW c \in Callers, RouteFailed(c) PROVE Goal'
  <2>0. SUFFICES ASSUME NEW d \in Callers, (mine[d] \in Entries)' PROVE RouteOf(d)'
    BY DEF RouteShape
  <2>1. (mine[d] \in Entries) /\ mine'[d] = mine[d]
    BY <1>10, <2>0 DEF RouteFailed
  <2>2. QED
    BY <1>10, <2>0, <2>1, RouteSame DEF RouteFailed
<1>11. ASSUME NEW c \in Callers, Unwind(c) PROVE Goal'
  <2>0. SUFFICES ASSUME NEW d \in Callers, (mine[d] \in Entries)' PROVE RouteOf(d)'
    BY DEF RouteShape
  <2>1. borrowed'[c] = <<>> /\ pc'[c] = "fail" /\ UNCHANGED <<mine, cur, key, phase, leases>>
    BY <1>11 DEF Unwind
  <2>2. \A a \in Callers : a # c => borrowed'[a] = borrowed[a] /\ pc'[a] = pc[a]
    BY <1>11 DEF Unwind
  <2>3. mine[d] \in Entries
    BY <2>0, <2>1
  <2>4. CASE d # c
    BY <2>1, <2>2, <2>3, <2>4, RouteSame
  <2>5. CASE d = c
    <3>1. key[mine[c]] \in Keys /\ phase[mine[c]] = "dialling"
      BY <2>3, <2>5 DEF PhaseShape, RouteShape, RouteOf
    <3>2. Depth(mine[c])' \in Nat
      BY <2>1, <3>1, PoolAssumption DEF Depth
    <3>3. Len(borrowed'[c]) = 0
      BY <2>1
    <3>4. RouteOf(c)'
      BY <2>1, <3>1, <3>2, <3>3 DEF RouteOf
    <3>5. QED
      BY <2>5, <3>4
  <2>6. QED
    BY <2>4, <2>5
<1>12. ASSUME NEW c \in Callers, TargetFailed(c) PROVE Goal'
  <2>0. SUFFICES ASSUME NEW d \in Callers, (mine[d] \in Entries)' PROVE RouteOf(d)'
    BY DEF RouteShape
  <2>1. PICK x \in Entries : x = mine[c] /\ pc[c] = "fail"
    BY <1>12 DEF TargetFailed, CallerShape
  <2>2. /\ phase' = [phase EXCEPT ![x] = "failed"] /\ mine' = [mine EXCEPT ![c] = None]
        /\ pc' = [pc EXCEPT ![c] = "idle"] /\ cur' = cur
        /\ borrowed' = borrowed /\ key' = key /\ leases' = leases
    BY <1>12, <2>1 DEF TargetFailed, FailEntry
  <2>3. d # c /\ mine'[d] = mine[d]
    BY <2>0, <2>2
  <2>4. mine[d] # x
    BY <2>1, <2>3 DEF DialShape, Dials
  <2>5. mine[d] \in Entries /\ phase'[mine[d]] = phase[mine[d]]
    BY <2>0, <2>2, <2>3, <2>4
  <2>6. QED
    BY <2>2, <2>3, <2>5, RouteSame
<1>13. ASSUME NEW c \in Callers, Release(c) PROVE Goal'
  <2>0. SUFFICES ASSUME NEW d \in Callers, (mine[d] \in Entries)' PROVE RouteOf(d)'
    BY DEF RouteShape
  <2>1. (mine[d] \in Entries) /\ mine'[d] = mine[d]
    BY <1>13, <2>0 DEF Release
  <2>2. QED
    BY <1>13, <2>0, <2>1, RouteSame DEF Release
<1>14. ASSUME NEW p \in Procs, DropLease(p) PROVE Goal'
  <2>0. SUFFICES ASSUME NEW d \in Callers, (mine[d] \in Entries)' PROVE RouteOf(d)'
    BY DEF RouteShape
  <2>1. PICK h \in Callers \cup Entries, x \in Entries : DropsAway(p, h, x)
    BY <1>14, DropLeaseEffect
  <2>2. UNCHANGED <<pc, mine, cur, borrowed, key, phase>> /\ mine[d] \in Entries
    BY <1>14, <2>0 DEF DropLease
  <2>3. ToDrop(p, h, x) /\ leases' = leases \ {<<h, x>>}
    BY <2>1 DEF DropsAway
  <2>4. ASSUME NEW i \in 1..Len(borrowed[d])
        PROVE  <<mine[d], borrowed[d][i]>> \in leases'
    <3>1. mine[d] # h
      <4>1. SUFFICES ASSUME mine[d] = h PROVE FALSE
        OBVIOUS
      <4>2. borrowed[d] = <<>>
        BY <2>2, <2>3, <4>1, DialledNotDropped DEF Dials
      <4>3. QED
        BY <2>4, <4>2
    <3>2. <<mine[d], borrowed[d][i]>> \in leases
      BY <2>2 DEF RouteShape, RouteOf
    <3>3. QED
      BY <2>3, <3>1, <3>2
  <2>5. QED
    BY <2>2, <2>4, RouteKept
<1>15. ASSUME NEW p \in Procs, CloseClient(p) PROVE Goal'
  <2>0. SUFFICES ASSUME NEW d \in Callers, (mine[d] \in Entries)' PROVE RouteOf(d)'
    BY DEF RouteShape
  <2>1. (mine[d] \in Entries) /\ mine'[d] = mine[d]
    BY <1>15, <2>0 DEF CloseClient
  <2>2. QED
    BY <1>15, <2>0, <2>1, RouteSame DEF CloseClient
<1>16. ASSUME NEW e \in Entries, Die(e) PROVE Goal'
  <2>0. SUFFICES ASSUME NEW d \in Callers, (mine[d] \in Entries)' PROVE RouteOf(d)'
    BY DEF RouteShape
  <2>1. (mine[d] \in Entries) /\ mine'[d] = mine[d]
    BY <1>16, <2>0 DEF Die
  <2>2. QED
    BY <1>16, <2>0, <2>1, RouteSame DEF Die
<1>17. ASSUME NEW e \in Entries, Watch(e) PROVE Goal'
  <2>0. SUFFICES ASSUME NEW d \in Callers, (mine[d] \in Entries)' PROVE RouteOf(d)'
    BY DEF RouteShape
  <2>1. (mine[d] \in Entries) /\ mine'[d] = mine[d]
    BY <1>17, <2>0 DEF Watch
  <2>2. QED
    BY <1>17, <2>0, <2>1, RouteSame DEF Watch
<1>18. ASSUME NEW e \in Entries, CloseNext(e) PROVE Goal'
  <2>0. SUFFICES ASSUME NEW d \in Callers, (mine[d] \in Entries)' PROVE RouteOf(d)'
    BY DEF RouteShape
  <2>1. (mine[d] \in Entries) /\ mine'[d] = mine[d]
    BY <1>18, <2>0 DEF CloseNext
  <2>2. QED
    BY <1>18, <2>0, <2>1, RouteSame DEF CloseNext
<1>19. ASSUME Close PROVE Goal'
  <2>0. SUFFICES ASSUME NEW d \in Callers, (mine[d] \in Entries)' PROVE RouteOf(d)'
    BY DEF RouteShape
  <2>1. (mine[d] \in Entries) /\ mine'[d] = mine[d]
    BY <1>19, <2>0 DEF Close
  <2>2. QED
    BY <1>19, <2>0, <2>1, RouteSame DEF Close
<1>20. ASSUME UNCHANGED vars PROVE Goal'
  BY <1>20 DEF vars, RouteShape, RouteOf, Depth
<1> HIDE Distinct DEF Goal, IInv, TypeOK, entryVars, callerVars
<1>21. Goal'
  BY <1>1, <1>2, <1>3, <1>4, <1>5, <1>6, <1>7, <1>8, <1>9, <1>10, <1>11,
     <1>12, <1>13, <1>14, <1>15, <1>16, <1>17, <1>18, <1>19, <1>20
  DEF Next, Acquire, DialEnds, WaitEnds, Work
<1>22. QED
  BY <1>21 DEF Goal

(* Every action keeps one dial per key. *)
LEMMA OneDialStep ==
  ASSUME IInv, [Next]_vars
  PROVE  (OneDialPerKey)'
PROOF
<1> DEFINE Goal == OneDialPerKey
<1> USE Distinct DEF IInv, TypeOK, OneDialPerKey, entryVars, callerVars
<1>1. ASSUME NEW c \in Callers, NEW k \in Keys, AcquireRefused(c, k)
      PROVE  Goal'
  BY <1>1 DEF AcquireRefused, Asks
<1>2. ASSUME NEW c \in Callers, NEW k \in Keys, AcquireJoin(c, k)
      PROVE  Goal'
  BY <1>2 DEF AcquireJoin, Asks
<1>3. ASSUME NEW c \in Callers, NEW k \in Keys, NEW e \in Entries, AcquireFresh(c, k, e)
      PROVE  Goal'
  <2>1. /\ phase' = [phase EXCEPT ![e] = "dialling"] /\ key' = [key EXCEPT ![e] = k]
        /\ ~closed /\ conns[k] = None
    BY <1>3, AcquireFreshIs DEF AcquireFresh
  <2>2. \A f \in Entries : phase[f] = "dialling" => conns[key[f]] = f
    BY <2>1 DEF PhaseShape, MapShape
  <2>3. QED
    BY <2>1, <2>2
<1>4. ASSUME NEW c \in Callers, WaitReady(c) PROVE Goal'
  BY <1>4 DEF WaitReady
<1>5. ASSUME NEW c \in Callers, WaitFailed(c) PROVE Goal'
  BY <1>5 DEF WaitFailed, Denied
<1>6. ASSUME NEW c \in Callers, WaitCancelled(c) PROVE Goal'
  BY <1>6 DEF WaitCancelled
<1>7. ASSUME NEW c \in Callers, HopDialled(c) PROVE Goal'
  BY <1>7 DEF HopDialled, Dialled
<1>8. ASSUME NEW c \in Callers, TargetDialled(c) PROVE Goal'
  BY <1>8 DEF TargetDialled, Dialled
<1>9. ASSUME NEW c \in Callers, HopFailed(c) PROVE Goal'
  BY <1>9 DEF HopFailed, FailEntry
<1>10. ASSUME NEW c \in Callers, RouteFailed(c) PROVE Goal'
  BY <1>10 DEF RouteFailed
<1>11. ASSUME NEW c \in Callers, Unwind(c) PROVE Goal'
  BY <1>11 DEF Unwind
<1>12. ASSUME NEW c \in Callers, TargetFailed(c) PROVE Goal'
  BY <1>12 DEF TargetFailed, FailEntry
<1>13. ASSUME NEW c \in Callers, Release(c) PROVE Goal'
  BY <1>13 DEF Release
<1>14. ASSUME NEW p \in Procs, DropLease(p) PROVE Goal'
  BY <1>14 DEF DropLease
<1>15. ASSUME NEW p \in Procs, CloseClient(p) PROVE Goal'
  BY <1>15 DEF CloseClient
<1>16. ASSUME NEW e \in Entries, Die(e) PROVE Goal'
  BY <1>16 DEF Die
<1>17. ASSUME NEW e \in Entries, Watch(e) PROVE Goal'
  BY <1>17 DEF Watch
<1>18. ASSUME NEW e \in Entries, CloseNext(e) PROVE Goal'
  BY <1>18 DEF CloseNext
<1>19. ASSUME Close PROVE Goal'
  BY <1>19 DEF Close
<1>20. ASSUME UNCHANGED vars PROVE Goal'
  BY <1>20 DEF vars
<1> HIDE Distinct DEF Goal, IInv, TypeOK, OneDialPerKey, entryVars, callerVars
<1>21. Goal'
  BY <1>1, <1>2, <1>3, <1>4, <1>5, <1>6, <1>7, <1>8, <1>9, <1>10, <1>11,
     <1>12, <1>13, <1>14, <1>15, <1>16, <1>17, <1>18, <1>19, <1>20
  DEF Next, Acquire, DialEnds, WaitEnds, Work
<1>22. QED
  BY <1>21 DEF Goal

(***************************************************************************)
(* Counting: how each kind of step changes the users of an entry.          *)
(***************************************************************************)
LEMMA LeaseAdded ==
  ASSUME IsFiniteSet(leases), NEW h, NEW x \in Entries,
         leases' = leases \cup {<<h, x>>}, <<h, x>> \notin leases
  PROVE  /\ IsFiniteSet(leases)'
         /\ Cardinality(LeasesOn(x)') = Cardinality(LeasesOn(x)) + 1
         /\ \A f \in Entries : f # x => LeasesOn(f)' = LeasesOn(f)
<1>1. <<h, x>>[2] = x
  OBVIOUS
<1>2. LeasesOn(x)' = LeasesOn(x) \cup {<<h, x>>} /\ <<h, x>> \notin LeasesOn(x)
  BY <1>1 DEF LeasesOn
<1>3. IsFiniteSet(LeasesOn(x))
  BY FS_Subset DEF LeasesOn
<1>4. Cardinality(LeasesOn(x) \cup {<<h, x>>}) = Cardinality(LeasesOn(x)) + 1
  BY <1>2, <1>3, FS_AddElement
<1>5. IsFiniteSet(leases')
  BY FS_AddElement
<1>6. \A f \in Entries : f # x => LeasesOn(f)' = LeasesOn(f)
  BY <1>1 DEF LeasesOn
<1>7. QED
  BY <1>2, <1>4, <1>5, <1>6

(* A lease released is one fewer on its entry and on no other. *)
LEMMA LeaseRemoved ==
  ASSUME IsFiniteSet(leases), NEW h, NEW x \in Entries,
         leases' = leases \ {<<h, x>>}, <<h, x>> \in leases
  PROVE  /\ IsFiniteSet(leases)'
         /\ Cardinality(LeasesOn(x)') = Cardinality(LeasesOn(x)) - 1
         /\ \A f \in Entries : f # x => LeasesOn(f)' = LeasesOn(f)
<1>1. <<h, x>>[2] = x
  OBVIOUS
<1>2. LeasesOn(x)' = LeasesOn(x) \ {<<h, x>>} /\ <<h, x>> \in LeasesOn(x)
  BY <1>1 DEF LeasesOn
<1>3. IsFiniteSet(LeasesOn(x))
  BY FS_Subset DEF LeasesOn
<1>4. Cardinality(LeasesOn(x) \ {<<h, x>>}) = Cardinality(LeasesOn(x)) - 1
  BY <1>2, <1>3, FS_RemoveElement
<1>5. IsFiniteSet(leases')
  BY FS_Subset
<1>6. \A f \in Entries : f # x => LeasesOn(f)' = LeasesOn(f)
  BY <1>1 DEF LeasesOn
<1>7. QED
  BY <1>2, <1>4, <1>5, <1>6

(* The waiters stay when no caller starts or stops waiting. *)
LEMMA AwaitSame ==
  ASSUME \A d \in Callers :
           /\ pc'[d] \in {"wait", "dial"} <=> pc[d] \in {"wait", "dial"}
           /\ pc[d] \in {"wait", "dial"} => cur'[d] = cur[d]
  PROVE  \A f \in Entries : Awaiting(f)' = Awaiting(f)
  BY DEF Awaiting

(* A caller that starts waiting is one waiter more. *)
LEMMA AwaitJoined ==
  ASSUME NEW c \in Callers, NEW x \in Entries, pc[c] \notin {"wait", "dial"},
         pc'[c] \in {"wait", "dial"}, cur'[c] = x,
         \A d \in Callers : d # c => pc'[d] = pc[d] /\ cur'[d] = cur[d]
  PROVE  /\ Cardinality(Awaiting(x)') = Cardinality(Awaiting(x)) + 1
         /\ \A f \in Entries : f # x => Awaiting(f)' = Awaiting(f)
<1>1. Awaiting(x)' = Awaiting(x) \cup {c} /\ c \notin Awaiting(x)
  BY DEF Awaiting
<1>2. IsFiniteSet(Awaiting(x))
  BY FS_Subset, PoolAssumption DEF Awaiting
<1>3. Cardinality(Awaiting(x) \cup {c}) = Cardinality(Awaiting(x)) + 1
  BY <1>1, <1>2, FS_AddElement
<1>4. \A f \in Entries : f # x => Awaiting(f)' = Awaiting(f)
  BY DEF Awaiting
<1>5. QED
  BY <1>1, <1>3, <1>4

(* A caller that stops waiting is one waiter fewer. *)
LEMMA AwaitLeft ==
  ASSUME NEW c \in Callers, NEW x \in Entries, pc[c] \in {"wait", "dial"}, cur[c] = x,
         pc'[c] \notin {"wait", "dial"},
         \A d \in Callers : d # c => pc'[d] = pc[d] /\ cur'[d] = cur[d]
  PROVE  /\ Cardinality(Awaiting(x)') = Cardinality(Awaiting(x)) - 1
         /\ \A f \in Entries : f # x => Awaiting(f)' = Awaiting(f)
<1>1. Awaiting(x)' = Awaiting(x) \ {c} /\ c \in Awaiting(x)
  BY DEF Awaiting
<1>2. IsFiniteSet(Awaiting(x))
  BY FS_Subset, PoolAssumption DEF Awaiting
<1>3. Cardinality(Awaiting(x) \ {c}) = Cardinality(Awaiting(x)) - 1
  BY <1>1, <1>2, FS_RemoveElement
<1>4. \A f \in Entries : f # x => Awaiting(f)' = Awaiting(f)
  BY DEF Awaiting
<1>5. QED
  BY <1>1, <1>3, <1>4

(* A caller that starts a route is one user of its end more. *)
LEMMA RoutingJoined ==
  ASSUME mine \in [Callers -> Entries \cup {None}], NEW c \in Callers, NEW x \in Entries,
         mine[c] = None, mine' = [mine EXCEPT ![c] = x]
  PROVE  /\ Cardinality(Routing(x)') = Cardinality(Routing(x)) + 1
         /\ \A f \in Entries : f # x => Routing(f)' = Routing(f)
<1>1. Routing(x)' = Routing(x) \cup {c} /\ c \notin Routing(x)
  BY Distinct DEF Routing
<1>2. IsFiniteSet(Routing(x))
  BY FS_Subset, PoolAssumption DEF Routing
<1>3. Cardinality(Routing(x) \cup {c}) = Cardinality(Routing(x)) + 1
  BY <1>1, <1>2, FS_AddElement
<1>4. \A f \in Entries : f # x => Routing(f)' = Routing(f)
  BY Distinct DEF Routing
<1>5. QED
  BY <1>1, <1>3, <1>4

(* A caller that ends a route is one user of its end fewer. *)
LEMMA RoutingLeft ==
  ASSUME mine \in [Callers -> Entries \cup {None}], NEW c \in Callers, NEW x \in Entries,
         mine[c] = x, mine' = [mine EXCEPT ![c] = None]
  PROVE  /\ Cardinality(Routing(x)') = Cardinality(Routing(x)) - 1
         /\ \A f \in Entries : f # x => Routing(f)' = Routing(f)
<1>1. Routing(x)' = Routing(x) \ {c} /\ c \in Routing(x)
  BY Distinct DEF Routing
<1>2. IsFiniteSet(Routing(x))
  BY FS_Subset, PoolAssumption DEF Routing
<1>3. Cardinality(Routing(x) \ {c}) = Cardinality(Routing(x)) - 1
  BY <1>1, <1>2, FS_RemoveElement
<1>4. \A f \in Entries : f # x => Routing(f)' = Routing(f)
  BY Distinct DEF Routing
<1>5. QED
  BY <1>1, <1>3, <1>4

(* An entry whose users and count stay the same is accounted for as before. *)
LEMMA RefKept ==
  ASSUME IInv, NEW f \in Entries,
         LeasesOn(f)' = LeasesOn(f), Awaiting(f)' = Awaiting(f), Routing(f)' = Routing(f),
         refs'[f] = refs[f], phase'[f] = phase[f], ~evicted'[f] => ~evicted[f]
  PROVE  RefOf(f)'
<1>1. Uses(f)' = Uses(f)
  BY DEF Uses
<1>2. RefOf(f)
  BY DEF IInv, RefShape
<1>3. QED
  BY <1>1, <1>2 DEF RefOf

(* A step that changes no count and no user keeps the accounts. *)
LEMMA RefFrame ==
  ASSUME IInv, leases' = leases, phase' = phase, refs' = refs, mine' = mine,
         \A f \in Entries : ~evicted'[f] => ~evicted[f],
         \A d \in Callers :
           /\ pc'[d] \in {"wait", "dial"} <=> pc[d] \in {"wait", "dial"}
           /\ pc[d] \in {"wait", "dial"} => cur'[d] = cur[d]
  PROVE  RefShape'
<1>1. \A f \in Entries : /\ LeasesOn(f)' = LeasesOn(f) /\ Awaiting(f)' = Awaiting(f)
                         /\ Routing(f)' = Routing(f)
  BY AwaitSame DEF LeasesOn, Routing
<1>2. \A f \in Entries : RefOf(f)'
  BY <1>1, RefKept
<1>3. QED
  BY <1>2 DEF IInv, RefShape

(* Nothing is leased twice by the same holder. *)
LEMMA NotYetLeased ==
  ASSUME IInv, NEW c \in Callers, NEW x \in Entries, pc[c] = "wait", cur[c] = x
  PROVE  /\ mine[c] = None => <<c, x>> \notin leases
         /\ mine[c] \in Entries => <<mine[c], x>> \notin leases
PROOF
<1>1. todo[c] = <<>> /\ c \in Procs
  BY DEF IInv, CallerShape, Procs
<1>2. \A h \in Callers \cup Entries : ~ToDrop(c, h, x)
  BY <1>1, RangeEmpty DEF ToDrop
<1>3. <<c, x>> \notin leases
  BY <1>2 DEF IInv, LeaseShape, LeaseOf
<1>4. ASSUME NEW h \in Entries, mine[c] = h, <<h, x>> \in leases PROVE FALSE
  <2>1. Dials(c, h) /\ phase[h] = "dialling"
    BY <1>4 DEF Dials, IInv, RouteShape, RouteOf
  <2>2. \A p \in Procs : ~ToDrop(p, h, x)
    <3>1. SUFFICES ASSUME NEW p \in Procs, ToDrop(p, h, x) PROVE FALSE
      OBVIOUS
    <3>2. pc[c] = "fail"
      BY <2>1, <3>1, DialledNotDropped
    <3>3. QED
      BY <3>2
  <2>3. \A d \in Callers : mine[d] = h => d = c
    BY <2>1 DEF Dials, IInv, DialShape
  <2>4. x \in Range(borrowed[c])
    BY <1>4, <2>1, <2>2, <2>3 DEF IInv, LeaseShape, LeaseOf
  <2>5. borrowed[c] \in Seq(Entries)
    BY DEF IInv, TypeOK
  <2>6. PICK i \in 1..Len(borrowed[c]) : x = borrowed[c][i]
    BY <2>4, <2>5 DEF Range
  <2>7. /\ key[x] = Route[key[h]][i] /\ key[h] \in Keys /\ Len(borrowed[c]) <= Len(Route[key[h]])
    BY <1>4, <2>6 DEF IInv, RouteShape, RouteOf, PhaseShape, Depth
  <2>8. Depth(x) = Len(borrowed[c])
    BY <1>4, HopIsShallower DEF IInv
  <2>9. i \in 1..Len(Route[key[h]])
    BY <2>5, <2>7, PoolAssumption
  <2> DEFINE r == key[h]
  <2>10. r \in Keys /\ i \in 1..Len(Route[r]) /\ key[x] = Route[r][i]
    BY <2>7, <2>9
  <2> HIDE DEF r
  <2>11. Len(Route[Route[r][i]]) = i - 1
    BY <2>10, HopDepth
  <2>12. Depth(x) = i - 1
    BY <2>10, <2>11 DEF Depth
  <2>13. QED
    BY <2>5, <2>8, <2>12
<1>5. QED
  BY <1>3, <1>4

(* Every action keeps the accounts. *)
LEMMA RefStep ==
  ASSUME IInv, [Next]_vars
  PROVE  (RefShape)'
PROOF
<1> DEFINE Goal == RefShape
<1> USE Distinct DEF IInv, TypeOK, entryVars, callerVars
<1>1. ASSUME NEW c \in Callers, NEW k \in Keys, AcquireRefused(c, k)
      PROVE  Goal'
  BY <1>1, RefFrame DEF AcquireRefused, Asks
<1>2. ASSUME NEW c \in Callers, NEW k \in Keys, AcquireJoin(c, k)
      PROVE  Goal'
  <2>1. PICK x \in Entries : x = conns[k]
    BY <1>2 DEF AcquireJoin
  <2>2. /\ pc[c] \in {"idle", "route"} /\ pc' = [pc EXCEPT ![c] = "wait"]
        /\ cur' = [cur EXCEPT ![c] = x] /\ refs' = [refs EXCEPT ![x] = @ + 1]
        /\ UNCHANGED <<mine, leases, phase, evicted>>
    BY <1>2, <2>1 DEF AcquireJoin, Asks
  <2>3. \A f \in Entries : LeasesOn(f)' = LeasesOn(f) /\ Routing(f)' = Routing(f)
    BY <2>2 DEF LeasesOn, Routing
  <2>4. /\ Cardinality(Awaiting(x)') = Cardinality(Awaiting(x)) + 1
        /\ \A f \in Entries : f # x => Awaiting(f)' = Awaiting(f)
    BY <2>2, AwaitJoined
  <2>5. \A f \in Entries : f # x => RefOf(f)'
    BY <2>2, <2>3, <2>4, RefKept
  <2>6. Uses(x)' = Uses(x) + 1 /\ Uses(x) \in Nat /\ refs'[x] = refs[x] + 1
    BY <2>2, <2>3, <2>4, UsesCount DEF Uses, RefShape
  <2>7. RefOf(x)'
    BY <2>2, <2>6 DEF RefShape, RefOf
  <2>8. QED
    BY <2>2, <2>5, <2>7 DEF RefShape
<1>3. ASSUME NEW c \in Callers, NEW k \in Keys, NEW e \in Entries, AcquireFresh(c, k, e)
      PROVE  Goal'
  <2>1. /\ Fresh(e) /\ refs' = [refs EXCEPT ![e] = 1] /\ leases' = leases
        /\ phase' = [phase EXCEPT ![e] = "dialling"] /\ evicted' = [evicted EXCEPT ![e] = FALSE]
    BY <1>3, AcquireFreshIs DEF AcquireFresh, FirstRefs
  <2>2. /\ \A h : <<h, e>> \notin leases
        /\ \A d \in Callers : mine[d] # e /\ cur[d] # e
    BY <2>1, FreshIs
  <2>3. \A l \in leases : l[2] # e
    <3>1. \A l \in leases : l = <<l[1], l[2]>>
      OBVIOUS
    <3>2. QED
      BY <2>2, <3>1
  <2>4. LeasesOn(e) = {} /\ Awaiting(e) = {} /\ Routing(e) = {}
    BY <2>2, <2>3 DEF LeasesOn, Awaiting, Routing
  <2>5. /\ Cardinality(LeasesOn(e)) = 0 /\ Cardinality(Awaiting(e)) = 0
        /\ Cardinality(Routing(e)) = 0
    BY <2>4, FS_EmptySet
  <2>6. \A f \in Entries : LeasesOn(f)' = LeasesOn(f)
    BY <2>1 DEF LeasesOn
  <2>7. /\ Cardinality(Awaiting(e)') + Cardinality(Routing(e)') = 1
        /\ \A f \in Entries : f # e => Awaiting(f)' = Awaiting(f) /\ Routing(f)' = Routing(f)
    <3>1. CASE /\ pc[c] = "idle" /\ mine[c] = None
               /\ mine' = [mine EXCEPT ![c] = e] /\ cur' = cur
               /\ pc' = [pc EXCEPT ![c] = "route"]
      <4>1. \A f \in Entries : Awaiting(f)' = Awaiting(f)
        BY <3>1, AwaitSame
      <4>2. /\ Cardinality(Routing(e)') = Cardinality(Routing(e)) + 1
            /\ \A f \in Entries : f # e => Routing(f)' = Routing(f)
        BY <3>1, RoutingJoined
      <4>3. QED
        BY <2>5, <4>1, <4>2
    <3>2. CASE /\ pc[c] = "route" /\ mine' = mine /\ cur' = [cur EXCEPT ![c] = e]
               /\ pc' = [pc EXCEPT ![c] = "dial"]
      <4>1. \A f \in Entries : Routing(f)' = Routing(f)
        BY <3>2 DEF Routing
      <4>2. /\ Cardinality(Awaiting(e)') = Cardinality(Awaiting(e)) + 1
            /\ \A f \in Entries : f # e => Awaiting(f)' = Awaiting(f)
        BY <3>2, AwaitJoined
      <4>3. QED
        BY <2>5, <4>1, <4>2
    <3>3. QED
      BY <1>3, <3>1, <3>2, AcquireFreshIs
  <2>8. Uses(e)' = 1
    <3>1. Uses(e)' = Cardinality(LeasesOn(e)') + Cardinality(Awaiting(e)') + Cardinality(Routing(e)')
      BY DEF Uses
    <3>2. Cardinality(LeasesOn(e)') = 0
      BY <2>5, <2>6
    <3>3. Cardinality(Awaiting(e)') \in Nat /\ Cardinality(Routing(e)') \in Nat
      <4>1. IsFiniteSet(Awaiting(e)') /\ IsFiniteSet(Routing(e)')
        BY FS_Subset, PoolAssumption DEF Awaiting, Routing
      <4>2. QED
        BY <4>1, FS_CardinalityType
    <3>4. QED
      BY <2>7, <3>1, <3>2, <3>3
  <2>9. RefOf(e)'
    BY <2>1, <2>8 DEF RefOf
  <2>10. \A f \in Entries : f # e => RefOf(f)'
    BY <2>1, <2>6, <2>7, RefKept
  <2>11. \A l \in leases : phase'[l[2]] = "ready"
    BY <2>1, <2>3 DEF RefShape
  <2>12. QED
    BY <2>1, <2>9, <2>10, <2>11 DEF RefShape
<1>4. ASSUME NEW c \in Callers, WaitReady(c) PROVE Goal'
  <2>1. PICK x \in Entries : x = cur[c] /\ pc[c] = "wait" /\ phase[x] = "ready"
    BY <1>4, WaitReadyIs
  <2>2. UNCHANGED <<refs, phase, evicted>>
    BY <1>4 DEF WaitReady
  <2>3. PICK h : /\ leases' = leases \cup {<<h, x>>} /\ <<h, x>> \notin leases
    <3>1. CASE mine[c] = None
      BY <1>4, <2>1, <3>1, WaitReadyIs, NotYetLeased DEF GrantSelf
    <3>2. CASE mine[c] # None
      BY <1>4, <2>1, <3>2, WaitReadyIs, NotYetLeased, ZenonT(40) DEF GrantHop
    <3>3. QED
      BY <3>1, <3>2
  <2>4. /\ mine' = mine /\ pc'[c] \notin {"wait", "dial"}
        /\ \A d \in Callers : d # c => pc'[d] = pc[d] /\ cur'[d] = cur[d]
    <3>1. CASE mine[c] = None
      BY <1>4, <2>1, <3>1, WaitReadyIs DEF GrantSelf
    <3>2. CASE mine[c] # None
      BY <1>4, <2>1, <3>2, WaitReadyIs DEF GrantHop
    <3>3. QED
      BY <3>1, <3>2
  <2>5. \A f \in Entries : Routing(f)' = Routing(f)
    BY <2>4 DEF Routing
  <2>6. /\ Cardinality(Awaiting(x)') = Cardinality(Awaiting(x)) - 1
        /\ \A f \in Entries : f # x => Awaiting(f)' = Awaiting(f)
    BY <2>1, <2>4, AwaitLeft
  <2>7. /\ IsFiniteSet(leases)' /\ Cardinality(LeasesOn(x)') = Cardinality(LeasesOn(x)) + 1
        /\ \A f \in Entries : f # x => LeasesOn(f)' = LeasesOn(f)
    BY <2>3, LeaseAdded DEF RefShape
  <2>8. Uses(x)' = Uses(x)
    BY <2>5, <2>6, <2>7, UsesCount DEF Uses, RefShape
  <2>9. RefOf(x)'
    BY <2>2, <2>8 DEF RefShape, RefOf
  <2>10. \A f \in Entries : f # x => RefOf(f)'
    BY <2>2, <2>5, <2>6, <2>7, RefKept
  <2>11. \A l \in leases' : phase'[l[2]] = "ready"
    BY <2>1, <2>2, <2>3 DEF RefShape
  <2>12. QED
    BY <2>7, <2>9, <2>10, <2>11 DEF RefShape
<1>5. ASSUME NEW c \in Callers, WaitFailed(c) PROVE Goal'
  <2>1. PICK x \in Entries : x = cur[c] /\ pc[c] = "wait" /\ phase[x] = "failed"
    BY <1>5 DEF WaitFailed, CallerShape
  <2>2. /\ UNCHANGED <<refs, phase, evicted, leases, mine>> /\ pc'[c] \notin {"wait", "dial"}
        /\ \A d \in Callers : d # c => pc'[d] = pc[d] /\ cur'[d] = cur[d]
    BY <1>5 DEF WaitFailed, Denied
  <2>3. \A f \in Entries : LeasesOn(f)' = LeasesOn(f) /\ Routing(f)' = Routing(f)
    BY <2>2 DEF LeasesOn, Routing
  <2>4. /\ Cardinality(Awaiting(x)') = Cardinality(Awaiting(x)) - 1
        /\ \A f \in Entries : f # x => Awaiting(f)' = Awaiting(f)
    BY <2>1, <2>2, AwaitLeft
  <2>5. Uses(x)' = Uses(x) - 1 /\ Uses(x) \in Nat
    BY <2>3, <2>4, UsesCount DEF Uses, RefShape
  <2>6. RefOf(x)'
    BY <2>1, <2>2, <2>5 DEF RefShape, RefOf
  <2>7. \A f \in Entries : f # x => RefOf(f)'
    BY <2>2, <2>3, <2>4, RefKept
  <2>8. QED
    BY <2>2, <2>6, <2>7 DEF RefShape
<1>6. ASSUME NEW c \in Callers, WaitCancelled(c) PROVE Goal'
  <2>1. PICK x \in Entries : x = cur[c] /\ pc[c] = "wait"
    BY <1>6, WaitCancelledEffect
  <2>2. /\ UNCHANGED <<phase, leases, mine>> /\ pc'[c] \notin {"wait", "dial"}
        /\ \A d \in Callers : d # c => pc'[d] = pc[d] /\ cur'[d] = cur[d]
    BY <1>6 DEF WaitCancelled, Denied
  <2>3. refs' = [refs EXCEPT ![x] = @ - 1]
    BY <1>6, <2>1, WaitCancelledEffect
  <2>4. /\ \A f \in Entries : f # x => evicted'[f] = evicted[f]
        /\ evicted'[x] \/ (refs[x] > 1 /\ evicted'[x] = evicted[x])
    <3>1. \/ refs[x] > 1 /\ evicted' = evicted
          \/ evicted' = [evicted EXCEPT ![x] = TRUE]
      BY <1>6, <2>1, WaitCancelledEffect DEF Evict
    <3>2. QED
      BY <3>1
  <2>5. \A f \in Entries : LeasesOn(f)' = LeasesOn(f) /\ Routing(f)' = Routing(f)
    BY <2>2 DEF LeasesOn, Routing
  <2>6. /\ Cardinality(Awaiting(x)') = Cardinality(Awaiting(x)) - 1
        /\ \A f \in Entries : f # x => Awaiting(f)' = Awaiting(f)
    BY <2>1, <2>2, AwaitLeft
  <2>7. Uses(x)' = Uses(x) - 1 /\ Uses(x) \in Nat /\ refs'[x] = refs[x] - 1 /\ refs[x] \in Nat
    BY <2>3, <2>5, <2>6, UsesCount DEF Uses, RefShape
  <2>8. RefOf(x)'
    BY <2>2, <2>4, <2>7 DEF RefShape, RefOf
  <2>9. \A f \in Entries : f # x => RefOf(f)'
    BY <2>2, <2>3, <2>4, <2>5, <2>6, RefKept
  <2>10. QED
    BY <2>2, <2>8, <2>9 DEF RefShape
<1>7. ASSUME NEW c \in Callers, HopDialled(c) PROVE Goal'
  <2>1. PICK x \in Entries : /\ x = cur[c] /\ pc[c] = "dial" /\ phase[x] = "dialling"
                            /\ mine[c] \in Entries /\ GrantHop(c, x)
    BY <1>7, HopDialledIs
  <2>2. UNCHANGED <<refs, evicted>> /\ phase' = [phase EXCEPT ![x] = "ready"]
    BY <1>7, <2>1 DEF HopDialled, Dialled
  <2>3. PICK h : leases' = leases \cup {<<h, x>>}
    BY <2>1 DEF GrantHop
  <2>4. <<h, x>> \notin leases
    BY <2>1 DEF RefShape
  <2>5. /\ mine' = mine /\ pc'[c] \notin {"wait", "dial"}
        /\ \A d \in Callers : d # c => pc'[d] = pc[d] /\ cur'[d] = cur[d]
    BY <2>1 DEF GrantHop
  <2>6. \A f \in Entries : Routing(f)' = Routing(f)
    BY <2>5 DEF Routing
  <2>7. /\ Cardinality(Awaiting(x)') = Cardinality(Awaiting(x)) - 1
        /\ \A f \in Entries : f # x => Awaiting(f)' = Awaiting(f)
    BY <2>1, <2>5, AwaitLeft
  <2>8. /\ IsFiniteSet(leases)' /\ Cardinality(LeasesOn(x)') = Cardinality(LeasesOn(x)) + 1
        /\ \A f \in Entries : f # x => LeasesOn(f)' = LeasesOn(f)
    BY <2>3, <2>4, LeaseAdded DEF RefShape
  <2>9. Uses(x)' = Uses(x)
    BY <2>6, <2>7, <2>8, UsesCount DEF Uses, RefShape
  <2>10. RefOf(x)'
    BY <2>1, <2>2, <2>9 DEF RefShape, RefOf
  <2>11. \A f \in Entries : f # x => phase'[f] = phase[f]
    BY <2>2
  <2>12. \A f \in Entries : f # x => RefOf(f)'
    BY <2>2, <2>6, <2>7, <2>8, <2>11, RefKept
  <2>13. \A l \in leases' : phase'[l[2]] = "ready"
    BY <2>2, <2>3 DEF RefShape
  <2>14. QED
    BY <2>8, <2>10, <2>12, <2>13 DEF RefShape
<1>8. ASSUME NEW c \in Callers, TargetDialled(c) PROVE Goal'
  <2>1. PICK x \in Entries : /\ x = mine[c] /\ pc[c] = "route" /\ phase[x] = "dialling"
                            /\ GrantSelf(c, x)
    BY <1>8, TargetDialledIs
  <2>2. UNCHANGED <<refs, evicted>> /\ phase' = [phase EXCEPT ![x] = "ready"]
    BY <1>8, <2>1 DEF TargetDialled, Dialled
  <2>3. leases' = leases \cup {<<c, x>>} /\ <<c, x>> \notin leases
    BY <2>1 DEF RefShape, GrantSelf
  <2>4. \A f \in Entries : Awaiting(f)' = Awaiting(f)
    <3>1. pc' = [pc EXCEPT ![c] = "held"] /\ cur' = [cur EXCEPT ![c] = x]
      BY <2>1 DEF GrantSelf
    <3>2. QED
      BY <2>1, <3>1, AwaitSame
  <2>5. /\ Cardinality(Routing(x)') = Cardinality(Routing(x)) - 1
        /\ \A f \in Entries : f # x => Routing(f)' = Routing(f)
    BY <2>1, RoutingLeft DEF GrantSelf
  <2>6. /\ IsFiniteSet(leases)' /\ Cardinality(LeasesOn(x)') = Cardinality(LeasesOn(x)) + 1
        /\ \A f \in Entries : f # x => LeasesOn(f)' = LeasesOn(f)
    BY <2>3, LeaseAdded DEF RefShape
  <2>7. Uses(x)' = Uses(x)
    <3>1. /\ Cardinality(LeasesOn(x)) \in Nat /\ Cardinality(Awaiting(x)) \in Nat
          /\ Cardinality(Routing(x)) \in Nat /\ Awaiting(x)' = Awaiting(x)
      BY <2>4, UsesCount DEF RefShape
    <3> HIDE DEF IInv, TypeOK
    <3>2. QED
      BY <2>5, <2>6, <3>1 DEF Uses
  <2>8. RefOf(x)'
    BY <2>1, <2>2, <2>7 DEF RefShape, RefOf
  <2>9. \A f \in Entries : f # x => phase'[f] = phase[f]
    BY <2>2
  <2>10. \A f \in Entries : f # x => RefOf(f)'
    BY <2>2, <2>4, <2>5, <2>6, <2>9, RefKept
  <2>11. \A l \in leases' : phase'[l[2]] = "ready"
    BY <2>2, <2>3 DEF RefShape
  <2>12. QED
    BY <2>6, <2>8, <2>10, <2>11 DEF RefShape
<1>9. ASSUME NEW c \in Callers, HopFailed(c) PROVE Goal'
  <2>1. PICK x \in Entries : x = cur[c] /\ pc[c] = "dial" /\ phase[x] = "dialling"
    BY <1>9 DEF HopFailed, CallerShape, DialShape
  <2>2. /\ UNCHANGED <<refs, leases, mine>> /\ pc'[c] \notin {"wait", "dial"}
        /\ \A d \in Callers : d # c => pc'[d] = pc[d] /\ cur'[d] = cur[d]
        /\ phase' = [phase EXCEPT ![x] = "failed"] /\ evicted' = [evicted EXCEPT ![x] = TRUE]
    BY <1>9, <2>1 DEF HopFailed, FailEntry, Evict, Denied
  <2>3. \A f \in Entries : LeasesOn(f)' = LeasesOn(f) /\ Routing(f)' = Routing(f)
    BY <2>2 DEF LeasesOn, Routing
  <2>4. /\ Cardinality(Awaiting(x)') = Cardinality(Awaiting(x)) - 1
        /\ \A f \in Entries : f # x => Awaiting(f)' = Awaiting(f)
    BY <2>1, <2>2, AwaitLeft
  <2>5. Uses(x)' = Uses(x) - 1 /\ Uses(x) \in Nat
    BY <2>3, <2>4, UsesCount DEF Uses, RefShape
  <2>6. RefOf(x)'
    BY <2>2, <2>5 DEF RefShape, RefOf
  <2>7. \A f \in Entries : f # x => phase'[f] = phase[f] /\ evicted'[f] = evicted[f]
    BY <2>2
  <2>8. \A f \in Entries : f # x => RefOf(f)'
    BY <2>2, <2>3, <2>4, <2>7, RefKept
  <2>9. \A l \in leases : phase'[l[2]] = "ready"
    BY <2>1, <2>2 DEF RefShape
  <2>10. QED
    BY <2>2, <2>6, <2>8, <2>9 DEF RefShape
<1>10. ASSUME NEW c \in Callers, RouteFailed(c) PROVE Goal'
  BY <1>10, RefFrame DEF RouteFailed
<1>11. ASSUME NEW c \in Callers, Unwind(c) PROVE Goal'
  BY <1>11, RefFrame DEF Unwind
<1>12. ASSUME NEW c \in Callers, TargetFailed(c) PROVE Goal'
  <2>1. PICK x \in Entries : x = mine[c] /\ pc[c] = "fail" /\ phase[x] = "dialling"
    BY <1>12 DEF TargetFailed, CallerShape, RouteShape, RouteOf
  <2>2. /\ UNCHANGED <<refs, leases, cur>> /\ pc' = [pc EXCEPT ![c] = "idle"]
        /\ mine' = [mine EXCEPT ![c] = None]
        /\ phase' = [phase EXCEPT ![x] = "failed"] /\ evicted' = [evicted EXCEPT ![x] = TRUE]
    BY <1>12, <2>1 DEF TargetFailed, FailEntry, Evict
  <2>3. \A f \in Entries : LeasesOn(f)' = LeasesOn(f) /\ Awaiting(f)' = Awaiting(f)
    BY <2>1, <2>2, AwaitSame DEF LeasesOn
  <2>4. /\ Cardinality(Routing(x)') = Cardinality(Routing(x)) - 1
        /\ \A f \in Entries : f # x => Routing(f)' = Routing(f)
    BY <2>1, <2>2, RoutingLeft
  <2>5. Uses(x)' = Uses(x) - 1 /\ Uses(x) \in Nat
    BY <2>3, <2>4, UsesCount DEF Uses, RefShape
  <2>6. RefOf(x)'
    BY <2>2, <2>5 DEF RefShape, RefOf
  <2>7. \A f \in Entries : f # x => phase'[f] = phase[f] /\ evicted'[f] = evicted[f]
    BY <2>2
  <2>8. \A f \in Entries : f # x => RefOf(f)'
    BY <2>2, <2>3, <2>4, <2>7, RefKept
  <2>9. \A l \in leases : phase'[l[2]] = "ready"
    BY <2>1, <2>2 DEF RefShape
  <2>10. QED
    BY <2>2, <2>6, <2>8, <2>9 DEF RefShape
<1>13. ASSUME NEW c \in Callers, Release(c) PROVE Goal'
  BY <1>13, RefFrame DEF Release
<1>14. ASSUME NEW p \in Procs, DropLease(p) PROVE Goal'
  <2>1. PICK h \in Callers \cup Entries, x \in Entries : DropsAway(p, h, x)
    BY <1>14, DropLeaseEffect
  <2>2. UNCHANGED <<phase, pc, cur, mine>>
    BY <1>14 DEF DropLease
  <2>3. CASE <<h, x>> \notin leases
    <3>1. leases' = leases \ {<<h, x>>} /\ refs' = refs /\ evicted' = evicted
      BY <2>1, <2>3, Zenon DEF DropsAway
    <3>2. leases' = leases
      <4> DEFINE l == <<h, x>>
      <4>1. l \notin leases /\ leases' = leases \ {l}
        BY <2>3, <3>1
      <4> HIDE DEF l, IInv, TypeOK
      <4>2. QED
        BY <4>1
    <3>3. QED
      BY <2>2, <3>1, <3>2, RefFrame
  <2>4. CASE <<h, x>> \in leases
    <3>1. leases' = leases \ {<<h, x>>} /\ refs' = [refs EXCEPT ![x] = @ - 1]
      BY <2>1, <2>4 DEF DropsAway
    <3>2. \/ refs[x] > 1 /\ evicted' = evicted
          \/ evicted' = [evicted EXCEPT ![x] = TRUE]
      BY <2>1, <2>4 DEF DropsAway, Evict
    <3>3. /\ \A f \in Entries : f # x => evicted'[f] = evicted[f] /\ refs'[f] = refs[f]
          /\ evicted'[x] \/ (refs[x] > 1 /\ evicted'[x] = evicted[x])
      BY <3>1, <3>2
    <3>4. \A f \in Entries : Awaiting(f)' = Awaiting(f) /\ Routing(f)' = Routing(f)
      BY <2>2 DEF Awaiting, Routing
    <3>5. /\ IsFiniteSet(leases)' /\ Cardinality(LeasesOn(x)') = Cardinality(LeasesOn(x)) - 1
          /\ \A f \in Entries : f # x => LeasesOn(f)' = LeasesOn(f)
      BY <2>4, <3>1, LeaseRemoved DEF RefShape
    <3>6. Uses(x)' = Uses(x) - 1 /\ Uses(x) \in Nat /\ refs'[x] = refs[x] - 1 /\ refs[x] \in Nat
      <4>1. /\ Cardinality(LeasesOn(x)) \in Nat /\ Cardinality(Awaiting(x)) \in Nat
            /\ Cardinality(Routing(x)) \in Nat /\ Uses(x) \in Nat
            /\ Awaiting(x)' = Awaiting(x) /\ Routing(x)' = Routing(x)
        BY <3>4, UsesCount DEF RefShape
      <4>2. refs'[x] = refs[x] - 1 /\ refs[x] \in Nat
        BY <3>1
      <4> HIDE DEF IInv, TypeOK
      <4>3. QED
        BY <3>5, <4>1, <4>2 DEF Uses
    <3>7. RefOf(x)'
      BY <2>2, <3>3, <3>6 DEF RefShape, RefOf
    <3>8. \A f \in Entries : f # x => RefOf(f)'
      BY <2>2, <3>3, <3>4, <3>5, RefKept
    <3>9. \A l \in leases' : phase'[l[2]] = "ready"
      BY <2>2, <3>1 DEF RefShape
    <3>10. QED
      BY <3>5, <3>7, <3>8, <3>9 DEF RefShape
  <2>5. QED
    BY <2>3, <2>4
<1>15. ASSUME NEW p \in Procs, CloseClient(p) PROVE Goal'
  BY <1>15, RefFrame DEF CloseClient
<1>16. ASSUME NEW e \in Entries, Die(e) PROVE Goal'
  BY <1>16, RefFrame DEF Die
<1>17. ASSUME NEW e \in Entries, Watch(e) PROVE Goal'
  BY <1>17, RefFrame DEF Watch, Evict
<1>18. ASSUME NEW e \in Entries, CloseNext(e) PROVE Goal'
  BY <1>18, RefFrame DEF CloseNext
<1>19. ASSUME Close PROVE Goal'
  BY <1>19, RefFrame DEF Close
<1>20. ASSUME UNCHANGED vars PROVE Goal'
  BY <1>20, RefFrame DEF vars
<1> HIDE Distinct DEF Goal, IInv, TypeOK, entryVars, callerVars
<1>21. Goal'
  BY <1>1, <1>2, <1>3, <1>4, <1>5, <1>6, <1>7, <1>8, <1>9, <1>10, <1>11,
     <1>12, <1>13, <1>14, <1>15, <1>16, <1>17, <1>18, <1>19, <1>20
  DEF Next, Acquire, DialEnds, WaitEnds, Work
<1>22. QED
  BY <1>21 DEF Goal

(* Acquire changes nothing for the other callers. *)
LEMMA AcquireFreshRest ==
  ASSUME IInv, NEW c \in Callers, NEW k \in Keys, NEW e \in Entries, AcquireFresh(c, k, e)
  PROVE  /\ pc[c] \in {"idle", "route"}
         /\ \A d \in Callers : d # c => /\ pc'[d] = pc[d] /\ mine'[d] = mine[d]
                                       /\ cur'[d] = cur[d]
<1>1. CASE /\ pc[c] = "idle" /\ mine' = [mine EXCEPT ![c] = e] /\ cur' = cur
           /\ pc' = [pc EXCEPT ![c] = "route"]
  BY <1>1 DEF IInv, TypeOK
<1>2. CASE /\ pc[c] = "route" /\ mine' = mine /\ cur' = [cur EXCEPT ![c] = e]
           /\ pc' = [pc EXCEPT ![c] = "dial"]
  BY <1>2 DEF IInv, TypeOK
<1>3. QED
  BY <1>1, <1>2, AcquireFreshIs

(* A wait that ends changes nothing for the other callers. *)
LEMMA WaitReadyRest ==
  ASSUME IInv, NEW c \in Callers, WaitReady(c)
  PROVE  /\ pc[c] = "wait" /\ mine' = mine /\ Range(borrowed[c]) \subseteq Range(borrowed'[c])
         /\ \A d \in Callers : d # c => /\ pc'[d] = pc[d] /\ cur'[d] = cur[d]
                                       /\ borrowed'[d] = borrowed[d]
<1>1. CASE mine[c] = None
  <2>1. GrantSelf(c, cur[c]) /\ pc[c] = "wait"
    BY <1>1, WaitReadyIs
  <2>2. borrowed[c] = <<>>
    BY <1>1 DEF IInv, CallerShape
  <2>3. Range(borrowed[c]) = {}
    BY <2>2, RangeEmpty
  <2>4. QED
    BY <1>1, <2>1, <2>3 DEF GrantSelf, IInv, TypeOK
<1>2. CASE mine[c] # None
  <2>1. GrantHop(c, cur[c]) /\ pc[c] = "wait"
    BY <1>2, WaitReadyIs
  <2>2. QED
    BY <2>1 DEF GrantHop, IInv, TypeOK
<1>3. QED
  BY <1>1, <1>2

(***************************************************************************)
(* Whose a lease is, and what the work outside the lock is about.          *)
(***************************************************************************)
LEMMA LeaseKept ==
  ASSUME IInv, NEW h \in Callers \cup Entries, NEW e \in Entries, LeaseOf(h, e),
         \A q \in Procs : ToDrop(q, h, e) => ToDrop(q, h, e)',
         h \in Callers => (pc[h] = "held" /\ cur[h] = e => pc'[h] = "held" /\ cur'[h] = e),
         h \in Entries =>
           /\ phase[h] # "unborn" => phase'[h] # "unborn"
           /\ key'[h] = key[h] /\ key'[e] = key[e]
           /\ \A c \in Callers : mine[c] = h /\ e \in Range(borrowed[c]) =>
                mine'[c] = h /\ e \in Range(borrowed'[c])
           /\ phase[h] = "ready" /\ refs[h] >= 1 /\ e \in Range(hops[h]) =>
                \/ phase'[h] = "ready" /\ refs'[h] >= 1 /\ hops'[h] = hops[h]
                \/ \E q \in Procs : ToDrop(q, h, e)'
  PROVE  LeaseOf(h, e)'
<1>1. ASSUME h \in Callers PROVE (pc'[h] = "held" /\ cur'[h] = e) \/ ToDrop(h, h, e)'
  BY <1>1 DEF LeaseOf, Procs
<1>2. ASSUME h \in Entries PROVE Depth(e)' < Depth(h)'
  BY <1>2 DEF LeaseOf, Depth
<1>3. ASSUME h \in Entries
      PROVE  \/ \E p \in Procs : ToDrop(p, h, e)'
             \/ \E c \in Callers : mine'[c] = h /\ e \in Range(borrowed'[c])
             \/ phase'[h] = "ready" /\ refs'[h] >= 1 /\ e \in Range(hops'[h])
  <2>1. CASE \E p \in Procs : ToDrop(p, h, e)
    BY <2>1
  <2>2. CASE \E c \in Callers : mine[c] = h /\ e \in Range(borrowed[c])
    BY <1>3, <2>2
  <2>3. CASE phase[h] = "ready" /\ refs[h] >= 1 /\ e \in Range(hops[h])
    BY <1>3, <2>3
  <2>4. QED
    BY <1>3, <2>1, <2>2, <2>3 DEF LeaseOf
<1>4. h \in Entries => phase'[h] # "unborn"
  BY DEF LeaseOf
<1>5. QED
  BY <1>1, <1>2, <1>3, <1>4 DEF LeaseOf

(* A step that gives no lease and takes none from whoever has it. *)
LEMMA LeaseFrame ==
  ASSUME IInv, leases' \subseteq leases, key' = key,
         \A q \in Procs, h \in Callers \cup Entries, e \in Entries :
           <<h, e>> \in leases' /\ ToDrop(q, h, e) => ToDrop(q, h, e)',
         \A c \in Callers : pc[c] = "held" => pc'[c] = "held" /\ cur'[c] = cur[c],
         \A c \in Callers : \/ mine'[c] = mine[c] /\ borrowed'[c] = borrowed[c]
                            \/ borrowed[c] = <<>>,
         \A f \in Entries :
           /\ phase[f] # "unborn" => phase'[f] # "unborn"
           /\ phase[f] = "ready" /\ refs[f] >= 1 =>
                \/ phase'[f] = "ready" /\ refs'[f] >= 1 /\ hops'[f] = hops[f]
                \/ \A e \in Entries : e \in Range(hops[f]) =>
                     \E q \in Procs : ToDrop(q, f, e)'
  PROVE  LeaseShape'
<1>1. SUFFICES ASSUME NEW h \in Callers \cup Entries, NEW e \in Entries, <<h, e>> \in leases'
               PROVE  LeaseOf(h, e)'
  BY DEF LeaseShape
<1>2. LeaseOf(h, e)
  BY <1>1 DEF IInv, LeaseShape
<1>3. \A c \in Callers : mine[c] = h /\ e \in Range(borrowed[c]) =>
        mine'[c] = h /\ e \in Range(borrowed'[c])
  BY RangeEmpty
<1>4. QED
  BY <1>1, <1>2, <1>3, LeaseKept

(* No work is about an entry. *)
NoWork(f) ==
  \A q \in Procs : /\ ~ToClose(q, f)
                   /\ \A g \in Callers \cup Entries : ~ToDrop(q, g, f)
                   /\ \A g \in Entries : ~ToDrop(q, f, g)

(* New work is in order, and what there was stays so. *)
LEMMA ItemKept ==
  ASSUME IInv, closed => closed',
         \A q \in Procs, f \in Entries : ToClose(q, f)' => ToClose(q, f) \/ phase'[f] = "ready",
         \A q \in Procs, g \in Callers \cup Entries, f \in Entries :
           ToDrop(q, g, f)' => ToDrop(q, g, f) \/ DropOk(g, f)',
         \A f \in Entries : \/ phase'[f] = phase[f] /\ (refs[f] = 0 => refs'[f] = 0)
                            \/ phase[f] = "dialling" /\ phase'[f] = "failed"
                            \/ NoWork(f),
         \A c \in Callers : pc[c] = "fail" => \/ mine'[c] = mine[c] /\ pc'[c] = "fail"
                                              \/ phase'[mine[c]] = "failed"
  PROVE  ItemShape'
<1>1. ASSUME NEW p \in Procs, NEW e \in Entries, ToClose(p, e)' PROVE phase'[e] = "ready"
  <2>1. SUFFICES ASSUME ToClose(p, e) PROVE phase'[e] = "ready"
    BY <1>1
  <2>2. phase[e] = "ready" /\ ~NoWork(e)
    BY <2>1 DEF IInv, ItemShape, NoWork
  <2>3. QED
    BY <2>2
<1>2. ASSUME NEW p \in Procs, NEW e \in Entries, NEW h \in Callers \cup Entries, ToDrop(p, h, e)'
      PROVE  DropOk(h, e)'
  <2>1. SUFFICES ASSUME ToDrop(p, h, e) PROVE DropOk(h, e)'
    BY <1>2
  <2>2. DropOk(h, e) /\ ~NoWork(e) /\ (h \in Entries => ~NoWork(h))
    BY <2>1 DEF IInv, ItemShape, NoWork
  <2>3. phase'[e] = "ready"
    BY <2>2 DEF DropOk
  <2>4. ASSUME h \in Entries
        PROVE  /\ phase'[h] # "unborn"
               /\ phase'[h] = "ready" => refs'[h] = 0 \/ closed'
               /\ phase'[h] = "dialling" => \E c \in Callers : mine'[c] = h /\ pc'[c] = "fail"
    <3>1. CASE phase'[h] = "failed"
      BY <3>1
    <3>2. CASE phase'[h] = phase[h] /\ (refs[h] = 0 => refs'[h] = 0) /\ phase[h] # "failed"
      BY <2>2, <2>4, <3>2 DEF DropOk
    <3>3. QED
      BY <2>2, <2>4, <3>1, <3>2
  <2>5. QED
    BY <2>3, <2>4 DEF DropOk
<1>3. QED
  BY <1>1, <1>2 DEF ItemShape

(* Nobody has work about an entry that is being dialled and may yet succeed. *)
LEMMA NoWorkYet ==
  ASSUME IInv, NEW c \in Callers, NEW x \in Entries, Dials(c, x), pc[c] # "fail",
         phase[x] = "dialling"
  PROVE  NoWork(x)
<1>1. SUFFICES ASSUME NEW q \in Procs
               PROVE  /\ ~ToClose(q, x)
                      /\ \A g \in Callers \cup Entries : ~ToDrop(q, g, x)
                      /\ \A g \in Entries : ~ToDrop(q, x, g)
  BY DEF NoWork
<1>2. ~ToClose(q, x) /\ \A g \in Callers \cup Entries : ~ToDrop(q, g, x)
  BY DEF IInv, ItemShape, DropOk
<1>3. \A g \in Entries : ~ToDrop(q, x, g)
  BY DialledNotDropped
<1>4. QED
  BY <1>2, <1>3

(* What the teardown of an entry gives back, it may: the entry is not used   *)
(* any more, or the pool is closed.                                          *)
LEMMA TeardownOk ==
  ASSUME IInv, NEW x \in Entries, conn[x] # "none", refs[x] >= 1 \/ x \in doomed,
         NEW f \in Entries, f \in Range(hops[x]), phase' = phase, refs'[x] = 0 \/ closed'
  PROVE  DropOk(x, f)'
<1>1. phase[x] = "ready"
  BY DEF IInv, PhaseShape
<1>2. phase[f] = "ready"
  BY <1>1 DEF IInv, HopShape, HopOf
<1>3. QED
  BY <1>1, <1>2 DEF DropOk

(* Every action keeps whose the leases are. *)
LEMMA LeaseStep ==
  ASSUME IInv, [Next]_vars
  PROVE  (LeaseShape)'
PROOF
<1> DEFINE Goal == LeaseShape
<1> USE Distinct DEF IInv, TypeOK, entryVars, callerVars
<1>1. ASSUME NEW c \in Callers, NEW k \in Keys, AcquireRefused(c, k)
      PROVE  Goal'
  <2>1. \A q \in Procs, h \in Callers \cup Entries, x \in Entries :
          ToDrop(q, h, x) => ToDrop(q, h, x)'
    BY <1>1, SameWork DEF AcquireRefused, Asks
  <2>2. QED
    BY <1>1, <2>1, LeaseFrame DEF AcquireRefused, Asks, CallerShape
<1>2. ASSUME NEW c \in Callers, NEW k \in Keys, AcquireJoin(c, k)
      PROVE  Goal'
  <2>1. \A q \in Procs, h \in Callers \cup Entries, x \in Entries :
          ToDrop(q, h, x) => ToDrop(q, h, x)'
    BY <1>2, SameWork DEF AcquireJoin
  <2>2. \A f \in Entries : refs[f] >= 1 => refs'[f] >= 1
    BY <1>2 DEF AcquireJoin
  <2>3. QED
    BY <1>2, <2>1, <2>2, LeaseFrame DEF AcquireJoin, Asks
<1>3. ASSUME NEW c \in Callers, NEW k \in Keys, NEW e \in Entries, AcquireFresh(c, k, e)
      PROVE  Goal'
  <2>1. SUFFICES ASSUME NEW h \in Callers \cup Entries, NEW f \in Entries, <<h, f>> \in leases'
                 PROVE  LeaseOf(h, f)'
    BY DEF LeaseShape
  <2>2. Fresh(e) /\ <<h, f>> \in leases /\ \A d \in Callers : mine[d] # e
    BY <1>3, <2>1, AcquireFreshIs, FreshIs DEF AcquireFresh
  <2>3. h # e /\ f # e /\ LeaseOf(h, f)
    BY <2>2, FreshIs DEF LeaseShape
  <2>4. \A q \in Procs : ToDrop(q, h, f) => ToDrop(q, h, f)'
    BY <1>3, SameWork DEF AcquireFresh
  <2>5. h \in Entries => /\ phase'[h] = phase[h] /\ refs'[h] = refs[h] /\ hops'[h] = hops[h]
                         /\ key'[h] = key[h] /\ key'[f] = key[f]
    BY <1>3, <2>3 DEF AcquireFresh
  <2>6. h \in Callers => (pc[h] = "held" /\ cur[h] = f => pc'[h] = "held" /\ cur'[h] = f)
    BY <1>3, AcquireFreshRest
  <2>7. \A d \in Callers : mine[d] \in Entries => mine'[d] = mine[d]
    BY <1>3, AcquireFreshIs, SMTT(30)
  <2>8. borrowed' = borrowed
    BY <1>3 DEF AcquireFresh
  <2>9. QED
    BY <2>3, <2>4, <2>5, <2>6, <2>7, <2>8, LeaseKept, ZenonT(40)
<1>4. ASSUME NEW c \in Callers, WaitReady(c) PROVE Goal'
  <2>1. PICK x \in Entries : x = cur[c] /\ pc[c] = "wait" /\ phase[x] = "ready"
    BY <1>4, WaitReadyIs
  <2>2. /\ UNCHANGED <<key, phase, refs, hops, todo>>
    BY <1>4 DEF WaitReady
  <2>3. \A q \in Procs, h \in Callers \cup Entries, f \in Entries :
          ToDrop(q, h, f)' <=> ToDrop(q, h, f)
    BY <2>2, SameWork
  <2>4. SUFFICES ASSUME NEW h \in Callers \cup Entries, NEW f \in Entries, <<h, f>> \in leases'
                 PROVE  LeaseOf(h, f)'
    BY DEF LeaseShape
  <2>5. CASE <<h, f>> \in leases
    <3>1. LeaseOf(h, f)
      BY <2>5 DEF LeaseShape
    <3>2. h \in Callers => (pc[h] = "held" /\ cur[h] = f => pc'[h] = "held" /\ cur'[h] = f)
      BY <1>4, WaitReadyRest
    <3>3. \A d \in Callers : mine[d] = h /\ f \in Range(borrowed[d]) =>
            mine'[d] = h /\ f \in Range(borrowed'[d])
      BY <1>4, WaitReadyRest
    <3>4. QED
      BY <2>2, <2>3, <3>1, <3>2, <3>3, LeaseKept
  <2>6. CASE <<h, f>> \notin leases
    <3>1. CASE mine[c] = None
      <4>1. GrantSelf(c, x)
        BY <1>4, <2>1, <3>1, WaitReadyIs
      <4>2. h = c /\ f = x /\ pc'[c] = "held" /\ cur'[c] = x
        BY <2>4, <2>6, <4>1 DEF GrantSelf
      <4>3. QED
        BY <4>2 DEF LeaseOf
    <3>2. CASE mine[c] # None
      <4>1. GrantHop(c, x) /\ mine[c] \in Entries
        BY <1>4, <2>1, <3>2, WaitReadyIs
      <4>2. h = mine[c] /\ f = x /\ mine'[c] = h /\ x \in Range(borrowed'[c])
        BY <2>4, <2>6, <4>1 DEF GrantHop
      <4>3. Depth(x) < Depth(h)
        BY <2>1, <4>1, <4>2, HopIsShallower
      <4>4. phase[h] = "dialling"
        BY <4>1, <4>2 DEF RouteShape, RouteOf
      <4>5. Depth(x)' = Depth(x) /\ Depth(h)' = Depth(h)
        BY <2>2 DEF Depth
      <4>6. QED
        BY <2>2, <4>1, <4>2, <4>3, <4>4, <4>5 DEF LeaseOf
    <3>3. QED
      BY <3>1, <3>2
  <2>7. QED
    BY <2>5, <2>6
<1>5. ASSUME NEW c \in Callers, WaitFailed(c) PROVE Goal'
  <2>1. \A q \in Procs, h \in Callers \cup Entries, x \in Entries :
          ToDrop(q, h, x) => ToDrop(q, h, x)'
    BY <1>5, SameWork DEF WaitFailed, Denied
  <2>2. QED
    BY <1>5, <2>1, LeaseFrame DEF WaitFailed, Denied, CallerShape
<1>6. ASSUME NEW c \in Callers, WaitCancelled(c) PROVE Goal'
  <2>1. PICK x \in Entries : x = cur[c] /\ pc[c] = "wait"
    BY <1>6, WaitCancelledEffect
  <2>2. /\ UNCHANGED <<key, phase, hops, leases, mine, borrowed>>
        /\ \A d \in Callers : pc[d] = "held" => pc'[d] = "held" /\ cur'[d] = cur[d]
    BY <1>6 DEF WaitCancelled, Denied
  <2>3. \A q \in Procs, h \in Callers \cup Entries, f \in Entries :
          ToDrop(q, h, f) => ToDrop(q, h, f)'
    BY <1>6, WaitCancelledEffect
  <2>4. refs' = [refs EXCEPT ![x] = @ - 1] /\ c \in Procs
    BY <1>6, <2>1, WaitCancelledEffect
  <2>5. phase[x] = "ready" /\ refs[x] <= 1 =>
          \A f \in Entries : f \in Range(hops[x]) => ToDrop(c, x, f)'
    <3>1. phase[x] = "ready" => conn[x] # "none"
      BY DEF PhaseShape
    <3>2. QED
      BY <1>6, <2>1, <2>4, <3>1, WaitCancelledEffect
  <2>6. ASSUME NEW f \in Entries, phase[f] = "ready", refs[f] >= 1
        PROVE  \/ phase'[f] = "ready" /\ refs'[f] >= 1 /\ hops'[f] = hops[f]
               \/ \A e \in Entries : e \in Range(hops[f]) => \E q \in Procs : ToDrop(q, f, e)'
    <3>1. CASE f = x /\ refs[x] <= 1
      BY <2>4, <2>5, <2>6, <3>1
    <3>2. CASE f # x \/ refs[x] > 1
      BY <2>2, <2>4, <2>6, <3>2
    <3>3. QED
      BY <3>1, <3>2
  <2>7. QED
    BY <2>2, <2>3, <2>6, LeaseFrame
<1>7. ASSUME NEW c \in Callers, HopDialled(c) PROVE Goal'
  <2>1. PICK x \in Entries : /\ x = cur[c] /\ pc[c] = "dial" /\ phase[x] = "dialling"
                            /\ mine[c] \in Entries /\ mine[c] # x /\ GrantHop(c, x)
    BY <1>7, HopDialledIs
  <2>2. /\ UNCHANGED <<key, refs, todo>> /\ phase' = [phase EXCEPT ![x] = "ready"]
        /\ hops' = [hops EXCEPT ![x] = <<>>]
    BY <1>7, <2>1 DEF HopDialled, Dialled
  <2>3. \A q \in Procs, h \in Callers \cup Entries, f \in Entries :
          ToDrop(q, h, f)' <=> ToDrop(q, h, f)
    BY <2>2, SameWork
  <2>4. SUFFICES ASSUME NEW h \in Callers \cup Entries, NEW f \in Entries, <<h, f>> \in leases'
                 PROVE  LeaseOf(h, f)'
    BY DEF LeaseShape
  <2>5. CASE <<h, f>> \in leases
    <3>1. LeaseOf(h, f)
      BY <2>5 DEF LeaseShape
    <3>2. h \in Callers => (pc[h] = "held" /\ cur[h] = f => pc'[h] = "held" /\ cur'[h] = f)
      BY <2>1 DEF GrantHop
    <3>3. \A d \in Callers : mine[d] = h /\ f \in Range(borrowed[d]) =>
            mine'[d] = h /\ f \in Range(borrowed'[d])
      BY <2>1 DEF GrantHop
    <3>4. h \in Entries => /\ phase[h] # "unborn" => phase'[h] # "unborn"
                           /\ phase[h] = "ready" => phase'[h] = "ready" /\ hops'[h] = hops[h]
      BY <2>1, <2>2
    <3>5. QED
      BY <2>2, <2>3, <3>1, <3>2, <3>3, <3>4, LeaseKept
  <2>6. CASE <<h, f>> \notin leases
    <3>1. h = mine[c] /\ f = x /\ mine'[c] = h /\ x \in Range(borrowed'[c])
      BY <2>1, <2>4, <2>6 DEF GrantHop
    <3>2. Depth(x) < Depth(h)
      BY <2>1, <3>1, HopIsShallower
    <3>3. phase'[h] = "dialling"
      BY <2>1, <2>2, <3>1 DEF RouteShape, RouteOf
    <3>4. Depth(x)' = Depth(x) /\ Depth(h)' = Depth(h)
      BY <2>2 DEF Depth
    <3>5. QED
      BY <2>1, <2>2, <3>1, <3>2, <3>3, <3>4 DEF LeaseOf
  <2>7. QED
    BY <2>5, <2>6
<1>8. ASSUME NEW c \in Callers, TargetDialled(c) PROVE Goal'
  <2>1. PICK x \in Entries : /\ x = mine[c] /\ pc[c] = "route" /\ phase[x] = "dialling"
                            /\ GrantSelf(c, x)
    BY <1>8, TargetDialledIs
  <2>2. /\ UNCHANGED <<key, refs, todo>> /\ phase' = [phase EXCEPT ![x] = "ready"]
        /\ hops' = [hops EXCEPT ![x] = borrowed[c]]
    BY <1>8, <2>1 DEF TargetDialled, Dialled
  <2>3. \A q \in Procs, h \in Callers \cup Entries, f \in Entries :
          ToDrop(q, h, f)' <=> ToDrop(q, h, f)
    BY <2>2, SameWork
  <2>4. SUFFICES ASSUME NEW h \in Callers \cup Entries, NEW f \in Entries, <<h, f>> \in leases'
                 PROVE  LeaseOf(h, f)'
    BY DEF LeaseShape
  <2>5. CASE <<h, f>> \notin leases
    <3>1. h = c /\ f = x /\ pc'[c] = "held" /\ cur'[c] = x
      BY <2>1, <2>4, <2>5 DEF GrantSelf
    <3>2. QED
      BY <3>1 DEF LeaseOf
  <2>6. CASE <<h, f>> \in leases /\ h # x
    <3>1. LeaseOf(h, f)
      BY <2>6 DEF LeaseShape
    <3>2. h \in Callers => (pc[h] = "held" /\ cur[h] = f => pc'[h] = "held" /\ cur'[h] = f)
      BY <2>1 DEF GrantSelf
    <3>3. \A d \in Callers : mine[d] = h /\ f \in Range(borrowed[d]) =>
            mine'[d] = h /\ f \in Range(borrowed'[d])
      BY <2>1, <2>6 DEF GrantSelf
    <3>4. h \in Entries => phase'[h] = phase[h] /\ hops'[h] = hops[h]
      BY <2>2, <2>6
    <3>5. QED
      BY <2>2, <2>3, <3>1, <3>2, <3>3, <3>4, LeaseKept
  <2>7. CASE <<h, f>> \in leases /\ h = x
    <3>1. LeaseOf(x, f)
      BY <2>7 DEF LeaseShape
    <3>2. \A q \in Procs : ~ToDrop(q, x, f)
      <4>1. SUFFICES ASSUME NEW q \in Procs, ToDrop(q, x, f) PROVE FALSE
        OBVIOUS
      <4>2. pc[c] = "fail"
        BY <2>1, <4>1, DialledNotDropped DEF Dials
      <4>3. QED
        BY <2>1, <4>2
    <3>3. \A d \in Callers : mine[d] = x => d = c
      BY <2>1 DEF DialShape, Dials
    <3>4. f \in Range(borrowed[c])
      BY <2>1, <3>1, <3>2, <3>3 DEF LeaseOf
    <3>5. phase'[x] = "ready" /\ hops'[x] = borrowed[c] /\ refs'[x] >= 1
      BY <2>1, <2>2, Counted
    <3>6. Depth(f)' < Depth(x)'
      BY <2>2, <3>1 DEF LeaseOf, Depth
    <3>7. QED
      BY <2>7, <3>4, <3>5, <3>6 DEF LeaseOf
  <2>8. QED
    BY <2>5, <2>6, <2>7
<1>9. ASSUME NEW c \in Callers, HopFailed(c) PROVE Goal'
  <2>1. \A q \in Procs, h \in Callers \cup Entries, x \in Entries :
          ToDrop(q, h, x) => ToDrop(q, h, x)'
    BY <1>9, SameWork DEF HopFailed, FailEntry, Denied, DialShape
  <2>2. QED
    BY <1>9, <2>1, LeaseFrame
    DEF HopFailed, FailEntry, Denied, DialShape, CallerShape
<1>10. ASSUME NEW c \in Callers, RouteFailed(c) PROVE Goal'
  <2>1. \A q \in Procs, h \in Callers \cup Entries, x \in Entries :
          ToDrop(q, h, x) => ToDrop(q, h, x)'
    BY <1>10, SameWork DEF RouteFailed
  <2>2. QED
    BY <1>10, <2>1, LeaseFrame DEF RouteFailed, CallerShape
<1>11. ASSUME NEW c \in Callers, Unwind(c) PROVE Goal'
  <2>1. PICK x \in Entries : x = mine[c]
    BY <1>11, UnwindEffect
  <2>2. /\ UNCHANGED <<key, phase, refs, hops, leases, mine, cur>> /\ pc[c] = "unwind"
        /\ \A d \in Callers : d # c => borrowed'[d] = borrowed[d] /\ pc'[d] = pc[d]
    BY <1>11 DEF Unwind
  <2>3. /\ \A q \in Procs, h \in Callers \cup Entries, f \in Entries :
             ToDrop(q, h, f) => ToDrop(q, h, f)'
        /\ \A f \in Entries : f \in Range(borrowed[c]) => ToDrop(c, x, f)'
    BY <1>11, <2>1, UnwindEffect
  <2>4. SUFFICES ASSUME NEW h \in Callers \cup Entries, NEW f \in Entries, <<h, f>> \in leases
                 PROVE  LeaseOf(h, f)'
    BY <2>2 DEF LeaseShape
  <2>5. LeaseOf(h, f)
    BY <2>4 DEF LeaseShape
  <2>6. CASE h = x /\ f \in Range(borrowed[c])
    <3>1. ToDrop(c, x, f)' /\ c \in Procs
      BY <2>3, <2>6 DEF Procs
    <3>2. phase'[x] # "unborn" /\ Depth(f)' < Depth(x)'
      BY <2>2, <2>5, <2>6 DEF LeaseOf, Depth
    <3>3. QED
      BY <2>6, <3>1, <3>2 DEF LeaseOf
  <2>7. CASE ~(h = x /\ f \in Range(borrowed[c]))
    <3>1. \A d \in Callers : mine[d] = h /\ f \in Range(borrowed[d]) =>
            mine'[d] = h /\ f \in Range(borrowed'[d])
      BY <2>1, <2>2, <2>7
    <3>2. h \in Callers => (pc[h] = "held" /\ cur[h] = f => pc'[h] = "held" /\ cur'[h] = f)
      BY <2>2
    <3>3. QED
      BY <2>2, <2>3, <2>5, <3>1, <3>2, LeaseKept
  <2>8. QED
    BY <2>6, <2>7
<1>12. ASSUME NEW c \in Callers, TargetFailed(c) PROVE Goal'
  <2>1. \A q \in Procs, h \in Callers \cup Entries, x \in Entries :
          ToDrop(q, h, x) => ToDrop(q, h, x)'
    BY <1>12, SameWork DEF TargetFailed
  <2>2. phase[mine[c]] = "dialling" /\ borrowed[c] = <<>> /\ mine[c] \in Entries
    BY <1>12 DEF TargetFailed, CallerShape, RouteShape, RouteOf
  <2>3. QED
    BY <1>12, <2>1, <2>2, LeaseFrame DEF TargetFailed, FailEntry
<1>13. ASSUME NEW c \in Callers, Release(c) PROVE Goal'
  <2>1. PICK x \in Entries : x = cur[c]
    BY <1>13, ReleaseEffect
  <2>2. /\ UNCHANGED <<key, phase, refs, hops, leases, mine, borrowed>> /\ pc[c] = "held"
        /\ \A d \in Callers : d # c => cur'[d] = cur[d] /\ pc'[d] = pc[d]
    BY <1>13 DEF Release
  <2>3. /\ \A q \in Procs, h \in Callers \cup Entries, f \in Entries :
             ToDrop(q, h, f) => ToDrop(q, h, f)'
        /\ ToDrop(c, c, x)'
    BY <1>13, <2>1, ReleaseEffect
  <2>4. SUFFICES ASSUME NEW h \in Callers \cup Entries, NEW f \in Entries, <<h, f>> \in leases
                 PROVE  LeaseOf(h, f)'
    BY <2>2 DEF LeaseShape
  <2>5. LeaseOf(h, f)
    BY <2>4 DEF LeaseShape
  <2>6. CASE h = c /\ f = x
    BY <2>3, <2>6 DEF LeaseOf
  <2>7. CASE ~(h = c /\ f = x)
    <3>1. h \in Callers => (pc[h] = "held" /\ cur[h] = f => pc'[h] = "held" /\ cur'[h] = f)
      BY <2>1, <2>2, <2>7
    <3>2. QED
      BY <2>2, <2>3, <2>5, <3>1, LeaseKept
  <2>8. QED
    BY <2>6, <2>7
<1>14. ASSUME NEW p \in Procs, DropLease(p) PROVE Goal'
  <2>1. PICK h \in Callers \cup Entries, x \in Entries : DropsAway(p, h, x)
    BY <1>14, DropLeaseEffect
  <2>2. UNCHANGED <<key, phase, hops, pc, cur, mine, borrowed>> /\ leases' = leases \ {<<h, x>>}
    BY <1>14, <2>1 DEF DropLease, DropsAway
  <2>3. \A q \in Procs, g \in Callers \cup Entries, f \in Entries :
          <<g, f>> \in leases' /\ ToDrop(q, g, f) => ToDrop(q, g, f)'
    BY <2>1, <2>2 DEF DropsAway
  <2>4. /\ <<h, x>> \notin leases => refs' = refs
        /\ <<h, x>> \in leases => refs' = [refs EXCEPT ![x] = @ - 1]
    BY <2>1 DEF DropsAway
  <2>5. phase[x] = "ready" /\ <<h, x>> \in leases /\ refs[x] <= 1 =>
          \A f \in Entries : f \in Range(hops[x]) => ToDrop(p, x, f)'
    <3>1. phase[x] = "ready" => conn[x] # "none"
      BY DEF PhaseShape
    <3>2. QED
      BY <2>1, <3>1 DEF DropsAway
  <2>6. ASSUME NEW f \in Entries, phase[f] = "ready", refs[f] >= 1
        PROVE  \/ phase'[f] = "ready" /\ refs'[f] >= 1 /\ hops'[f] = hops[f]
               \/ \A e \in Entries : e \in Range(hops[f]) => \E q \in Procs : ToDrop(q, f, e)'
    <3>1. CASE f = x /\ refs[x] <= 1 /\ <<h, x>> \in leases
      BY <2>5, <2>6, <3>1
    <3>2. CASE f # x \/ refs[x] > 1 \/ <<h, x>> \notin leases
      BY <2>2, <2>4, <2>6, <3>2
    <3>3. QED
      BY <3>1, <3>2
  <2>7. QED
    BY <2>2, <2>3, <2>6, LeaseFrame
<1>15. ASSUME NEW p \in Procs, CloseClient(p) PROVE Goal'
  <2>1. \A q \in Procs, h \in Callers \cup Entries, x \in Entries :
          ToDrop(q, h, x) => ToDrop(q, h, x)'
    BY <1>15, CloseClientEffect DEF ClosesAway
  <2>2. QED
    BY <1>15, <2>1, LeaseFrame DEF CloseClient
<1>16. ASSUME NEW e \in Entries, Die(e) PROVE Goal'
  <2>1. \A q \in Procs, h \in Callers \cup Entries, x \in Entries :
          ToDrop(q, h, x) => ToDrop(q, h, x)'
    BY <1>16, SameWork DEF Die
  <2>2. QED
    BY <1>16, <2>1, LeaseFrame DEF Die, CallerShape
<1>17. ASSUME NEW e \in Entries, Watch(e) PROVE Goal'
  <2>1. \A q \in Procs, h \in Callers \cup Entries, x \in Entries :
          ToDrop(q, h, x) => ToDrop(q, h, x)'
    BY <1>17, SameWork DEF Watch
  <2>2. QED
    BY <1>17, <2>1, LeaseFrame DEF Watch, CallerShape
<1>18. ASSUME NEW e \in Entries, CloseNext(e) PROVE Goal'
  <2>1. conn[e] # "none"
    BY <1>18 DEF CloseNext, ClosedShape, PhaseShape
  <2>2. \A q \in Procs, h \in Callers \cup Entries, x \in Entries :
          ToDrop(q, h, x) => ToDrop(q, h, x)'
    BY <1>18, <2>1, CloseNextEffect
  <2>3. QED
    BY <1>18, <2>2, LeaseFrame DEF CloseNext
<1>19. ASSUME Close PROVE Goal'
  <2>1. \A q \in Procs, h \in Callers \cup Entries, x \in Entries :
          ToDrop(q, h, x) => ToDrop(q, h, x)'
    BY <1>19, SameWork DEF Close
  <2>2. QED
    BY <1>19, <2>1, LeaseFrame DEF Close, CallerShape
<1>20. ASSUME UNCHANGED vars PROVE Goal'
  BY <1>20, SameWork, LeaseFrame DEF vars
<1> HIDE Distinct DEF Goal, IInv, TypeOK, entryVars, callerVars
<1>21. Goal'
  BY <1>1, <1>2, <1>3, <1>4, <1>5, <1>6, <1>7, <1>8, <1>9, <1>10, <1>11,
     <1>12, <1>13, <1>14, <1>15, <1>16, <1>17, <1>18, <1>19, <1>20
  DEF Next, Acquire, DialEnds, WaitEnds, Work
<1>22. QED
  BY <1>21 DEF Goal

(* Every action keeps what work is about. *)
LEMMA ItemStep ==
  ASSUME IInv, [Next]_vars
  PROVE  (ItemShape)'
PROOF
<1> DEFINE Goal == ItemShape
<1> USE Distinct DEF IInv, TypeOK, entryVars, callerVars
<1>1. ASSUME NEW c \in Callers, NEW k \in Keys, AcquireRefused(c, k)
      PROVE  Goal'
  <2>1. /\ \A q \in Procs, f \in Entries : ToClose(q, f)' => ToClose(q, f)
        /\ \A q \in Procs, g \in Callers \cup Entries, f \in Entries :
             ToDrop(q, g, f)' => ToDrop(q, g, f)
    BY <1>1, SameWork DEF AcquireRefused, Asks
  <2>2. QED
    BY <1>1, <2>1, ItemKept DEF AcquireRefused, Asks
<1>2. ASSUME NEW c \in Callers, NEW k \in Keys, AcquireJoin(c, k)
      PROVE  Goal'
  <2>1. /\ \A q \in Procs, f \in Entries : ToClose(q, f)' => ToClose(q, f)
        /\ \A q \in Procs, g \in Callers \cup Entries, f \in Entries :
             ToDrop(q, g, f)' => ToDrop(q, g, f)
    BY <1>2, SameWork DEF AcquireJoin
  <2>2. conns[k] \in Entries /\ refs[conns[k]] >= 1
    BY <1>2 DEF AcquireJoin, MapShape, RefShape, RefOf
  <2>3. \A f \in Entries : refs[f] = 0 => refs'[f] = 0
    BY <1>2, <2>2 DEF AcquireJoin
  <2>4. QED
    BY <1>2, <2>1, <2>3, ItemKept DEF AcquireJoin, Asks
<1>3. ASSUME NEW c \in Callers, NEW k \in Keys, NEW e \in Entries, AcquireFresh(c, k, e)
      PROVE  Goal'
  <2>1. /\ \A q \in Procs, f \in Entries : ToClose(q, f)' => ToClose(q, f)
        /\ \A q \in Procs, g \in Callers \cup Entries, f \in Entries :
             ToDrop(q, g, f)' => ToDrop(q, g, f)
    BY <1>3, SameWork DEF AcquireFresh
  <2>2. NoWork(e)
    BY <1>3, AcquireFreshIs, FreshIs DEF NoWork
  <2>3. \A f \in Entries : f # e => phase'[f] = phase[f] /\ refs'[f] = refs[f]
    BY <1>3 DEF AcquireFresh
  <2>4. \A d \in Callers : pc[d] = "fail" => mine'[d] = mine[d] /\ pc'[d] = "fail"
    BY <1>3, AcquireFreshRest
  <2>5. closed' = closed
    BY <1>3 DEF AcquireFresh
  <2>6. QED
    BY <2>1, <2>2, <2>3, <2>4, <2>5, ItemKept
<1>4. ASSUME NEW c \in Callers, WaitReady(c) PROVE Goal'
  <2>1. /\ \A q \in Procs, f \in Entries : ToClose(q, f)' => ToClose(q, f)
        /\ \A q \in Procs, g \in Callers \cup Entries, f \in Entries :
             ToDrop(q, g, f)' => ToDrop(q, g, f)
    BY <1>4, SameWork DEF WaitReady
  <2>2. \A d \in Callers : pc[d] = "fail" => mine'[d] = mine[d] /\ pc'[d] = "fail"
    BY <1>4, WaitReadyRest
  <2>3. QED
    BY <1>4, <2>1, <2>2, ItemKept DEF WaitReady
<1>5. ASSUME NEW c \in Callers, WaitFailed(c) PROVE Goal'
  <2>1. /\ \A q \in Procs, f \in Entries : ToClose(q, f)' => ToClose(q, f)
        /\ \A q \in Procs, g \in Callers \cup Entries, f \in Entries :
             ToDrop(q, g, f)' => ToDrop(q, g, f)
    BY <1>5, SameWork DEF WaitFailed, Denied
  <2>2. QED
    BY <1>5, <2>1, ItemKept DEF WaitFailed, Denied
<1>6. ASSUME NEW c \in Callers, WaitCancelled(c) PROVE Goal'
  <2>1. PICK x \in Entries : x = cur[c] /\ pc[c] = "wait"
    BY <1>6, WaitCancelledEffect
  <2>2. /\ phase' = phase /\ closed' = closed /\ mine' = mine
        /\ \A d \in Callers : d # c => pc'[d] = pc[d]
    BY <1>6 DEF WaitCancelled, Denied
  <2>3. refs' = [refs EXCEPT ![x] = @ - 1] /\ refs[x] >= 1
    BY <1>6, <2>1, WaitCancelledEffect, Counted
  <2>4. \A f \in Entries : refs[f] = 0 => refs'[f] = 0
    BY <2>3
  <2>5. \A q \in Procs, f \in Entries : ToClose(q, f)' => ToClose(q, f) \/ phase'[f] = "ready"
    BY <1>6, <2>2, WaitCancelledEffect DEF PhaseShape
  <2>6. ASSUME NEW q \in Procs, NEW g \in Callers \cup Entries, NEW f \in Entries,
               ToDrop(q, g, f)', ~ToDrop(q, g, f)
        PROVE  DropOk(g, f)'
    <3>1. refs[x] <= 1 /\ conn[x] # "none" /\ g = x /\ f \in Range(hops[x])
      BY <1>6, <2>1, <2>6, WaitCancelledEffect, SMTT(30)
    <3>2. refs'[x] = 0
      BY <2>3, <3>1
    <3>3. DropOk(x, f)'
      BY <2>2, <2>3, <3>1, <3>2, TeardownOk
    <3>4. QED
      BY <3>1, <3>3
  <2>7. QED
    BY <2>1, <2>2, <2>4, <2>5, <2>6, ItemKept
<1>7. ASSUME NEW c \in Callers, HopDialled(c) PROVE Goal'
  <2>1. PICK x \in Entries : /\ x = cur[c] /\ pc[c] = "dial" /\ phase[x] = "dialling"
    BY <1>7, HopDialledIs
  <2>2. /\ \A f \in Entries : f # x => phase'[f] = phase[f]
        /\ UNCHANGED <<refs, closed, todo>>
    BY <1>7, <2>1 DEF HopDialled, Dialled
  <2>3. NoWork(x)
    BY <2>1, NoWorkYet DEF Dials
  <2>4. /\ \A q \in Procs, f \in Entries : ToClose(q, f)' => ToClose(q, f)
        /\ \A q \in Procs, g \in Callers \cup Entries, f \in Entries :
             ToDrop(q, g, f)' => ToDrop(q, g, f)
    BY <2>2, SameWork
  <2>5. \A d \in Callers : pc[d] = "fail" => mine'[d] = mine[d] /\ pc'[d] = "fail"
    BY <1>7, <2>1, HopDialledIs DEF GrantSelf, GrantHop
  <2>6. QED
    BY <2>2, <2>3, <2>4, <2>5, ItemKept
<1>8. ASSUME NEW c \in Callers, TargetDialled(c) PROVE Goal'
  <2>1. PICK x \in Entries : /\ x = mine[c] /\ pc[c] = "route" /\ phase[x] = "dialling"
    BY <1>8, TargetDialledIs
  <2>2. /\ \A f \in Entries : f # x => phase'[f] = phase[f]
        /\ UNCHANGED <<refs, closed, todo>>
    BY <1>8, <2>1 DEF TargetDialled, Dialled
  <2>3. NoWork(x)
    BY <2>1, NoWorkYet DEF Dials
  <2>4. /\ \A q \in Procs, f \in Entries : ToClose(q, f)' => ToClose(q, f)
        /\ \A q \in Procs, g \in Callers \cup Entries, f \in Entries :
             ToDrop(q, g, f)' => ToDrop(q, g, f)
    BY <2>2, SameWork
  <2>5. \A d \in Callers : pc[d] = "fail" => mine'[d] = mine[d] /\ pc'[d] = "fail"
    BY <1>8, <2>1, TargetDialledIs DEF GrantSelf, GrantHop
  <2>6. QED
    BY <2>2, <2>3, <2>4, <2>5, ItemKept
<1>9. ASSUME NEW c \in Callers, HopFailed(c) PROVE Goal'
  <2>1. /\ \A q \in Procs, f \in Entries : ToClose(q, f)' => ToClose(q, f)
        /\ \A q \in Procs, g \in Callers \cup Entries, f \in Entries :
             ToDrop(q, g, f)' => ToDrop(q, g, f)
    BY <1>9, SameWork DEF HopFailed, FailEntry, Denied, DialShape
  <2>2. QED
    BY <1>9, <2>1, ItemKept DEF HopFailed, FailEntry, Denied, DialShape
<1>10. ASSUME NEW c \in Callers, RouteFailed(c) PROVE Goal'
  <2>1. /\ \A q \in Procs, f \in Entries : ToClose(q, f)' => ToClose(q, f)
        /\ \A q \in Procs, g \in Callers \cup Entries, f \in Entries :
             ToDrop(q, g, f)' => ToDrop(q, g, f)
    BY <1>10, SameWork DEF RouteFailed
  <2>2. QED
    BY <1>10, <2>1, ItemKept DEF RouteFailed
<1>11. ASSUME NEW c \in Callers, Unwind(c) PROVE Goal'
  <2>1. PICK x \in Entries : x = mine[c]
    BY <1>11, UnwindEffect
  <2>2. /\ UNCHANGED <<phase, refs, mine, closed>> /\ pc' = [pc EXCEPT ![c] = "fail"]
    BY <1>11 DEF Unwind
  <2>3. phase[x] = "dialling"
    BY <2>1 DEF RouteShape, RouteOf
  <2>4. \A q \in Procs, f \in Entries : ToClose(q, f)' => ToClose(q, f)
    BY <1>11, UnwindEffect
  <2>5. ASSUME NEW q \in Procs, NEW g \in Callers \cup Entries, NEW f \in Entries,
               ToDrop(q, g, f)', ~ToDrop(q, g, f)
        PROVE  DropOk(g, f)'
    <3>1. g = x /\ f \in Range(borrowed[c])
      BY <1>11, <2>1, <2>5, UnwindEffect
    <3>2. PICK i \in 1..Len(borrowed[c]) : f = borrowed[c][i]
      BY <3>1 DEF Range
    <3>3. <<x, f>> \in leases
      BY <2>1, <3>2 DEF RouteShape, RouteOf
    <3>4. phase[f] = "ready"
      BY <3>3 DEF RefShape
    <3>5. mine'[c] = x /\ pc'[c] = "fail"
      BY <2>1, <2>2
    <3>6. QED
      BY <2>2, <2>3, <3>1, <3>4, <3>5 DEF DropOk
  <2>6. QED
    BY <2>2, <2>4, <2>5, ItemKept
<1>12. ASSUME NEW c \in Callers, TargetFailed(c) PROVE Goal'
  <2>1. /\ \A q \in Procs, f \in Entries : ToClose(q, f)' => ToClose(q, f)
        /\ \A q \in Procs, g \in Callers \cup Entries, f \in Entries :
             ToDrop(q, g, f)' => ToDrop(q, g, f)
    BY <1>12, SameWork DEF TargetFailed
  <2>2. phase[mine[c]] = "dialling" /\ mine[c] \in Entries
    BY <1>12 DEF TargetFailed, CallerShape, RouteShape, RouteOf
  <2>3. QED
    BY <1>12, <2>1, <2>2, ItemKept DEF TargetFailed, FailEntry
<1>13. ASSUME NEW c \in Callers, Release(c) PROVE Goal'
  <2>1. PICK x \in Entries : x = cur[c]
    BY <1>13, ReleaseEffect
  <2>2. /\ UNCHANGED <<phase, refs, mine, closed>> /\ pc' = [pc EXCEPT ![c] = "idle"]
        /\ pc[c] = "held"
    BY <1>13 DEF Release
  <2>3. phase[x] = "ready"
    BY <2>1, <2>2 DEF DialShape
  <2>4. \A q \in Procs, f \in Entries : ToClose(q, f)' => ToClose(q, f)
    BY <1>13, ReleaseEffect
  <2>5. ASSUME NEW q \in Procs, NEW g \in Callers \cup Entries, NEW f \in Entries,
               ToDrop(q, g, f)', ~ToDrop(q, g, f)
        PROVE  DropOk(g, f)'
    <3>1. g = c /\ f = x
      <4>1. ToDrop(q, g, f)' <=> ToDrop(q, g, f) \/ (q = c /\ g = c /\ f = cur[c])
        BY <1>13, ReleaseEffect
      <4>2. QED
        BY <2>1, <2>5, <4>1, Zenon
    <3>2. QED
      BY <2>2, <2>3, <3>1 DEF DropOk
  <2>6. QED
    BY <2>2, <2>4, <2>5, ItemKept
<1>14. ASSUME NEW p \in Procs, DropLease(p) PROVE Goal'
  <2>1. PICK h \in Callers \cup Entries, x \in Entries : DropsAway(p, h, x)
    BY <1>14, DropLeaseEffect
  <2>2. UNCHANGED <<phase, closed, mine, pc>>
    BY <1>14 DEF DropLease
  <2>3. /\ <<h, x>> \notin leases => refs' = refs
        /\ <<h, x>> \in leases => refs' = [refs EXCEPT ![x] = @ - 1] /\ refs[x] >= 1
    BY <2>1, Counted DEF DropsAway
  <2>4. \A f \in Entries : refs[f] = 0 => refs'[f] = 0
    BY <2>3
  <2>5. \A q \in Procs, f \in Entries : ToClose(q, f)' => ToClose(q, f) \/ phase'[f] = "ready"
    BY <2>1, <2>2 DEF PhaseShape, DropsAway
  <2>6. ASSUME NEW q \in Procs, NEW g \in Callers \cup Entries, NEW f \in Entries,
               ToDrop(q, g, f)', ~ToDrop(q, g, f)
        PROVE  DropOk(g, f)'
    <3>1. /\ <<h, x>> \in leases /\ refs[x] <= 1 /\ conn[x] # "none"
          /\ g = x /\ f \in Range(hops[x])
      BY <2>1, <2>6, ZenonT(40) DEF DropsAway
    <3>2. refs'[x] = 0
      BY <2>3, <3>1
    <3>3. DropOk(x, f)'
      BY <2>2, <2>3, <3>1, <3>2, TeardownOk
    <3>4. QED
      BY <3>1, <3>3
  <2>7. QED
    BY <2>2, <2>4, <2>5, <2>6, ItemKept
<1>15. ASSUME NEW p \in Procs, CloseClient(p) PROVE Goal'
  <2>1. /\ \A q \in Procs, f \in Entries : ToClose(q, f)' => ToClose(q, f)
        /\ \A q \in Procs, g \in Callers \cup Entries, f \in Entries :
             ToDrop(q, g, f)' => ToDrop(q, g, f)
    BY <1>15, CloseClientEffect DEF ClosesAway
  <2>2. QED
    BY <1>15, <2>1, ItemKept DEF CloseClient
<1>16. ASSUME NEW e \in Entries, Die(e) PROVE Goal'
  <2>1. /\ \A q \in Procs, f \in Entries : ToClose(q, f)' => ToClose(q, f)
        /\ \A q \in Procs, g \in Callers \cup Entries, f \in Entries :
             ToDrop(q, g, f)' => ToDrop(q, g, f)
    BY <1>16, SameWork DEF Die
  <2>2. QED
    BY <1>16, <2>1, ItemKept DEF Die
<1>17. ASSUME NEW e \in Entries, Watch(e) PROVE Goal'
  <2>1. /\ \A q \in Procs, f \in Entries : ToClose(q, f)' => ToClose(q, f)
        /\ \A q \in Procs, g \in Callers \cup Entries, f \in Entries :
             ToDrop(q, g, f)' => ToDrop(q, g, f)
    BY <1>17, SameWork DEF Watch
  <2>2. QED
    BY <1>17, <2>1, ItemKept DEF Watch
<1>18. ASSUME NEW e \in Entries, CloseNext(e) PROVE Goal'
  <2>1. conn[e] # "none" /\ phase[e] = "ready" /\ e \in doomed /\ closed
    BY <1>18 DEF CloseNext, ClosedShape, PhaseShape
  <2>2. UNCHANGED <<phase, closed, refs, mine, pc>>
    BY <1>18 DEF CloseNext
  <2>3. \A q \in Procs, f \in Entries : ToClose(q, f)' => ToClose(q, f) \/ phase'[f] = "ready"
    BY <1>18, <2>1, <2>2, CloseNextEffect
  <2>4. ASSUME NEW q \in Procs, NEW g \in Callers \cup Entries, NEW f \in Entries,
               ToDrop(q, g, f)', ~ToDrop(q, g, f)
        PROVE  DropOk(g, f)'
    <3>1. g = e /\ f \in Range(hops[e])
      BY <1>18, <2>1, <2>4, CloseNextEffect
    <3>2. DropOk(e, f)'
      BY <2>1, <2>2, <3>1, TeardownOk
    <3>3. QED
      BY <3>1, <3>2
  <2>5. QED
    BY <2>2, <2>3, <2>4, ItemKept
<1>19. ASSUME Close PROVE Goal'
  <2>1. /\ \A q \in Procs, f \in Entries : ToClose(q, f)' => ToClose(q, f)
        /\ \A q \in Procs, g \in Callers \cup Entries, f \in Entries :
             ToDrop(q, g, f)' => ToDrop(q, g, f)
    BY <1>19, SameWork DEF Close
  <2>2. QED
    BY <1>19, <2>1, ItemKept DEF Close
<1>20. ASSUME UNCHANGED vars PROVE Goal'
  BY <1>20, SameWork, ItemKept DEF vars
<1> HIDE Distinct DEF Goal, IInv, TypeOK, entryVars, callerVars
<1>21. Goal'
  BY <1>1, <1>2, <1>3, <1>4, <1>5, <1>6, <1>7, <1>8, <1>9, <1>10, <1>11,
     <1>12, <1>13, <1>14, <1>15, <1>16, <1>17, <1>18, <1>19, <1>20
  DEF Next, Acquire, DialEnds, WaitEnds, Work
<1>22. QED
  BY <1>21 DEF Goal

(***************************************************************************)
(* A connection is closed before its hops are given back.                  *)
(***************************************************************************)
LEMMA CloseFirstSame ==
  ASSUME NEW s \in Seq(Items), NEW up \in SUBSET Entries, NEW now \in SUBSET Entries,
         CloseFirstIn(s, up),
         \A h \in now : h \in up \/ \A e \in Entries : DropItem(h, e) \notin Range(s)
  PROVE  CloseFirstIn(s, now)
<1>1. SUFFICES ASSUME NEW i \in 1..Len(s), NEW h \in now, NEW e \in Entries,
                      s[i] = DropItem(h, e)
               PROVE  \E j \in 1..(i - 1) : s[j] = CloseItem(h)
  BY DEF CloseFirstIn
<1>2. DropItem(h, e) \in Range(s)
  BY <1>1 DEF Range
<1>3. h \in up
  BY <1>2
<1>4. QED
  BY <1>1, <1>3 DEF CloseFirstIn

(* Doing an item that closes nothing still up keeps the order. *)
LEMMA CloseFirstTail ==
  ASSUME NEW s \in Seq(Items), s # <<>>, NEW up \in SUBSET Entries, CloseFirstIn(s, up),
         \A h \in up : Head(s) # CloseItem(h)
  PROVE  CloseFirstIn(Tail(s), up)
<1>1. /\ Len(Tail(s)) = Len(s) - 1 /\ Head(s) = s[1] /\ Len(s) \in Nat
      /\ \A i \in 1..Len(Tail(s)) : Tail(s)[i] = s[i + 1]
  OBVIOUS
<1>2. SUFFICES ASSUME NEW i \in 1..Len(Tail(s)), NEW h \in up, NEW e \in Entries,
                      Tail(s)[i] = DropItem(h, e)
               PROVE  \E j \in 1..(i - 1) : Tail(s)[j] = CloseItem(h)
  BY DEF CloseFirstIn
<1>3. i + 1 \in 1..Len(s) /\ s[i + 1] = DropItem(h, e)
  BY <1>1, <1>2
<1>4. PICK j \in 1..((i + 1) - 1) : s[j] = CloseItem(h)
  BY <1>3 DEF CloseFirstIn
<1>5. j # 1
  BY <1>1, <1>4
<1>6. j - 1 \in 1..(i - 1) /\ j - 1 \in 1..Len(Tail(s)) /\ (j - 1) + 1 = j
  BY <1>1, <1>4, <1>5
<1>7. Tail(s)[j - 1] = CloseItem(h)
  BY <1>1, <1>4, <1>6
<1>8. QED
  BY <1>6, <1>7

(* Two lists in order are in order one after the other. *)
LEMMA CloseFirstJoin ==
  ASSUME NEW s \in Seq(Items), NEW t \in Seq(Items), NEW up \in SUBSET Entries,
         CloseFirstIn(s, up), CloseFirstIn(t, up)
  PROVE  CloseFirstIn(s \o t, up)
<1>1. /\ Len(s \o t) = Len(s) + Len(t) /\ Len(s) \in Nat /\ Len(t) \in Nat
      /\ \A i \in 1..Len(s) : (s \o t)[i] = s[i]
      /\ \A i \in 1..Len(t) : (s \o t)[Len(s) + i] = t[i]
  OBVIOUS
<1>2. SUFFICES ASSUME NEW i \in 1..Len(s \o t), NEW h \in up, NEW e \in Entries,
                      (s \o t)[i] = DropItem(h, e)
               PROVE  \E j \in 1..(i - 1) : (s \o t)[j] = CloseItem(h)
  BY DEF CloseFirstIn
<1>3. CASE i \in 1..Len(s)
  <2>1. s[i] = DropItem(h, e)
    BY <1>1, <1>2, <1>3
  <2>2. PICK j \in 1..(i - 1) : s[j] = CloseItem(h)
    BY <1>3, <2>1 DEF CloseFirstIn
  <2>3. j \in 1..Len(s)
    BY <1>1, <1>3
  <2>4. QED
    BY <1>1, <2>2, <2>3
<1>4. CASE i \notin 1..Len(s)
  <2> DEFINE m == i - Len(s)
  <2>1. m \in 1..Len(t) /\ i = Len(s) + m
    BY <1>1, <1>4
  <2>2. t[m] = DropItem(h, e)
    BY <1>1, <1>2, <2>1
  <2>3. PICK j \in 1..(m - 1) : t[j] = CloseItem(h)
    BY <2>1, <2>2 DEF CloseFirstIn
  <2>4. j \in 1..Len(t) /\ Len(s) + j \in 1..(i - 1)
    BY <1>1, <2>1, <2>3
  <2>5. (s \o t)[Len(s) + j] = CloseItem(h)
    BY <1>1, <2>3, <2>4
  <2>6. QED
    BY <2>4, <2>5
<1>5. QED
  BY <1>3, <1>4

(* release closes the connection before it drops its hops. *)
LEMMA CloseFirstTeardown ==
  ASSUME NEW x \in Entries, hops[x] \in Seq(Entries), NEW up \in SUBSET Entries
  PROVE  CloseFirstIn(Teardown(x), up)
<1>1. CASE conn[x] = "none"
  <2>1. Teardown(x) = <<>>
    BY <1>1 DEF Teardown
  <2>2. Len(Teardown(x)) = 0
    BY <2>1
  <2>3. QED
    BY <2>2 DEF CloseFirstIn
<1>2. CASE conn[x] # "none"
  <2> DEFINE d == Drops(x, hops[x])
             c == CloseItem(x)
             s == Teardown(x)
  <2>1. d \in Seq(Items) /\ c \in Items /\ s = <<c>> \o d
    BY <1>2, DropsItems, ItemKinds DEF Teardown
  <2>2. \A g \in Callers \cup Entries, e \in Entries : DropItem(g, e) \in Range(d) => g = x
    BY DropsItems
  <2>3. \A g \in Entries, e \in Entries : c # DropItem(g, e)
    BY ItemKinds
  <2> HIDE DEF d, c, s
  <2>4. /\ Len(s) = Len(d) + 1 /\ s[1] = c /\ Len(d) \in Nat
        /\ \A i \in 1..Len(d) : s[i + 1] = d[i]
    BY <2>1
  <2>5. SUFFICES ASSUME NEW i \in 1..Len(s), NEW h \in up, NEW e \in Entries,
                        s[i] = DropItem(h, e)
                 PROVE  \E j \in 1..(i - 1) : s[j] = CloseItem(h)
    BY DEF CloseFirstIn, s
  <2>6. i # 1
    BY <2>3, <2>4, <2>5
  <2>7. i - 1 \in 1..Len(d) /\ (i - 1) + 1 = i /\ 1 \in 1..(i - 1)
    BY <2>4, <2>6
  <2>8. d[i - 1] = DropItem(h, e)
    BY <2>4, <2>5, <2>7
  <2>9. DropItem(h, e) \in Range(d)
    BY <2>1, <2>7, <2>8 DEF Range
  <2>10. h = x
    BY <2>2, <2>9
  <2>11. QED
    BY <2>4, <2>7, <2>10 DEF c
<1>3. QED
  BY <1>1, <1>2

(* Nobody's work changes, and no connection with work comes up. *)
LEMMA CloseFirstFrame ==
  ASSUME IInv, NEW p \in Procs, todo'[p] = todo[p],
         \A f \in Entries : conn'[f] = "up" => conn[f] = "up" \/ NoWork(f)
  PROVE  CloseFirstIn(todo[p], Up)'
<1>1. todo[p] \in Seq(Items) /\ CloseFirstIn(todo[p], Up)
  BY DEF IInv, TypeOK, CloseFirst
<1>2. Up \in SUBSET Entries /\ Up' \in SUBSET Entries
  BY DEF Up
<1>3. \A h \in Up' : h \in Up \/ \A e \in Entries : DropItem(h, e) \notin Range(todo[p])
  BY DEF Up, NoWork, ToDrop
<1> DEFINE s == todo[p]
           up == Up
           now == Up'
<1>4. /\ s \in Seq(Items) /\ up \in SUBSET Entries /\ now \in SUBSET Entries
      /\ CloseFirstIn(s, up)
      /\ \A h \in now : h \in up \/ \A e \in Entries : DropItem(h, e) \notin Range(s)
  BY <1>1, <1>2, <1>3
<1> HIDE DEF s, up, now
<1>5. CloseFirstIn(s, now)
  BY <1>4, CloseFirstSame
<1>6. QED
  BY <1>5 DEF s, now, CloseFirstIn, DropItem, CloseItem

(* One goroutine's new work is in order; the others' does not change. *)
LEMMA CloseFirstOne ==
  ASSUME IInv, NEW p \in Procs, \A q \in Procs : q # p => todo'[q] = todo[q],
         \A f \in Entries : conn'[f] = "up" => conn[f] = "up" \/ NoWork(f),
         CloseFirstIn(todo[p], Up)'
  PROVE  CloseFirst'
<1>1. \A q \in Procs : CloseFirstIn(todo[q], Up)'
  BY CloseFirstFrame
<1>2. QED
  BY <1>1 DEF CloseFirst

(* The order stays when no work changes. *)
LEMMA CloseFirstAll ==
  ASSUME IInv, todo' = todo,
         \A f \in Entries : conn'[f] = "up" => conn[f] = "up" \/ NoWork(f)
  PROVE  CloseFirst'
<1>1. \A q \in Procs : CloseFirstIn(todo[q], Up)'
  BY CloseFirstFrame
<1>2. QED
  BY <1>1 DEF CloseFirst

(* CloseFirstIn says the same before and after a step of the same arguments. *)
LEMMA CloseFirstNow ==
  ASSUME NEW p \in Procs, NEW s \in Seq(Items), NEW up \in SUBSET Entries,
         CloseFirstIn(s, up), todo'[p] = s, Up' = up
  PROVE  CloseFirstIn(todo[p], Up)'
  BY DEF CloseFirstIn, DropItem, CloseItem

(* Every action keeps the order of the work. *)
LEMMA CloseFirstStep ==
  ASSUME IInv, [Next]_vars
  PROVE  (CloseFirst)'
PROOF
<1> DEFINE Goal == CloseFirst
<1> USE Distinct DEF IInv, TypeOK, entryVars, callerVars
<1>1. ASSUME NEW c \in Callers, NEW k \in Keys, AcquireRefused(c, k)
      PROVE  Goal'
  BY <1>1, CloseFirstAll DEF AcquireRefused
<1>2. ASSUME NEW c \in Callers, NEW k \in Keys, AcquireJoin(c, k)
      PROVE  Goal'
  BY <1>2, CloseFirstAll DEF AcquireJoin
<1>3. ASSUME NEW c \in Callers, NEW k \in Keys, NEW e \in Entries, AcquireFresh(c, k, e)
      PROVE  Goal'
  BY <1>3, CloseFirstAll DEF AcquireFresh
<1>4. ASSUME NEW c \in Callers, WaitReady(c) PROVE Goal'
  BY <1>4, CloseFirstAll DEF WaitReady
<1>5. ASSUME NEW c \in Callers, WaitFailed(c) PROVE Goal'
  BY <1>5, CloseFirstAll DEF WaitFailed
<1>6. ASSUME NEW c \in Callers, WaitCancelled(c) PROVE Goal'
  <2>1. PICK x \in Entries : x = cur[c] /\ c \in Procs
    BY <1>6, WaitCancelledEffect
  <2>2. conn' = conn /\ \A q \in Procs : q # c => todo'[q] = todo[q]
    BY <1>6, WaitCancelledEffect DEF WaitCancelled
  <2>3. todo'[c] = <<>> \/ todo'[c] = Teardown(x) \o <<>>
    BY <1>6, <2>1, WaitCancelledEffect
  <2> DEFINE n == <<>>
             up == Up
             t == Teardown(x)
  <2>4. /\ CloseFirstIn(n, up) /\ n \in Seq(Items) /\ up \in SUBSET Entries /\ Up' = up
        /\ t \in Seq(Items) /\ CloseFirstIn(t, up)
    <3>1. Len(n) = 0
      OBVIOUS
    <3>2. CloseFirstIn(n, up)
      BY <3>1 DEF CloseFirstIn
    <3>3. up \in SUBSET Entries /\ Up' = up
      BY <2>2 DEF Up
    <3>4. hops[x] \in Seq(Entries)
      OBVIOUS
    <3>5. t \in Seq(Items) /\ CloseFirstIn(t, up)
      BY <3>3, <3>4, TeardownItems, CloseFirstTeardown
    <3>6. QED
      BY <3>2, <3>3, <3>5
  <2> HIDE DEF n, up, t
  <2>5. CloseFirstIn(t \o n, up) /\ t \o n \in Seq(Items)
    BY <2>4, CloseFirstJoin
  <2>6. todo'[c] = n \/ todo'[c] = t \o n
    BY <2>3 DEF n, t
  <2>7. CloseFirstIn(todo[c], Up)'
    <3>1. CASE todo'[c] = n
      BY <2>1, <2>4, <3>1, CloseFirstNow
    <3>2. CASE todo'[c] = t \o n
      <4> DEFINE w == t \o n
      <4>1. w \in Seq(Items) /\ CloseFirstIn(w, up) /\ todo'[c] = w
        BY <2>5, <3>2
      <4> HIDE DEF w
      <4>2. QED
        BY <2>1, <2>4, <4>1, CloseFirstNow
    <3>3. QED
      BY <2>6, <3>1, <3>2
  <2>8. QED
    BY <2>1, <2>2, <2>7, CloseFirstOne
<1>7. ASSUME NEW c \in Callers, HopDialled(c) PROVE Goal'
  <2>1. PICK x \in Entries : /\ x = cur[c] /\ pc[c] = "dial" /\ phase[x] = "dialling"
    BY <1>7, HopDialledIs
  <2>2. todo' = todo /\ \A f \in Entries : f # x => conn'[f] = conn[f]
    BY <1>7, <2>1 DEF HopDialled, Dialled
  <2>3. NoWork(x)
    BY <2>1, NoWorkYet DEF Dials
  <2>4. QED
    BY <2>2, <2>3, CloseFirstAll
<1>8. ASSUME NEW c \in Callers, TargetDialled(c) PROVE Goal'
  <2>1. PICK x \in Entries : /\ x = mine[c] /\ pc[c] = "route" /\ phase[x] = "dialling"
    BY <1>8, TargetDialledIs
  <2>2. todo' = todo /\ \A f \in Entries : f # x => conn'[f] = conn[f]
    BY <1>8, <2>1 DEF TargetDialled, Dialled
  <2>3. NoWork(x)
    BY <2>1, NoWorkYet DEF Dials
  <2>4. QED
    BY <2>2, <2>3, CloseFirstAll
<1>9. ASSUME NEW c \in Callers, HopFailed(c) PROVE Goal'
  BY <1>9, CloseFirstAll DEF HopFailed
<1>10. ASSUME NEW c \in Callers, RouteFailed(c) PROVE Goal'
  BY <1>10, CloseFirstAll DEF RouteFailed
<1>11. ASSUME NEW c \in Callers, Unwind(c) PROVE Goal'
  <2>1. PICK x \in Entries, b \in Seq(Entries) : x = mine[c] /\ b = borrowed[c]
    BY <1>11, UnwindEffect
  <2>2. c \in Procs /\ conn' = conn /\ \A q \in Procs : q # c => todo'[q] = todo[q]
    BY <1>11, UnwindEffect DEF Unwind
  <2>3. todo'[c] = Drops(x, b)
    BY <1>11, <2>1, UnwindEffect
  <2>4. conn[x] # "up"
    BY <2>1 DEF RouteShape, RouteOf, PhaseShape
  <2> DEFINE w == Drops(x, b)
             up == Up
  <2>5. /\ w \in Seq(Items) /\ up \in SUBSET Entries /\ Up' = up /\ todo'[c] = w /\ x \notin up
    BY <2>2, <2>3, <2>4, DropsItems DEF Up
  <2>6. \A g \in Entries, e \in Entries : DropItem(g, e) \in Range(w) => g = x
    BY DropsItems
  <2> HIDE DEF w, up
  <2>7. CloseFirstIn(w, up)
    <3>1. ASSUME NEW i \in 1..Len(w), NEW h \in up, NEW e \in Entries, w[i] = DropItem(h, e)
          PROVE  FALSE
      <4>1. DropItem(h, e) \in Range(w)
        BY <2>5, <3>1 DEF Range
      <4>2. QED
        BY <2>5, <2>6, <4>1
    <3>2. QED
      BY <3>1 DEF CloseFirstIn
  <2>8. CloseFirstIn(todo[c], Up)'
    BY <2>2, <2>5, <2>7, CloseFirstNow
  <2>9. QED
    BY <2>2, <2>8, CloseFirstOne
<1>12. ASSUME NEW c \in Callers, TargetFailed(c) PROVE Goal'
  BY <1>12, CloseFirstAll DEF TargetFailed
<1>13. ASSUME NEW c \in Callers, Release(c) PROVE Goal'
  <2>1. PICK x \in Entries : x = cur[c]
    BY <1>13, ReleaseEffect
  <2>2. c \in Procs /\ conn' = conn /\ \A q \in Procs : q # c => todo'[q] = todo[q]
    BY <1>13, ReleaseEffect DEF Release
  <2> DEFINE w == <<DropItem(c, x)>>
             up == Up
  <2>3. todo'[c] = w
    BY <1>13, <2>1, ReleaseEffect
  <2>4. w \in Seq(Items) /\ up \in SUBSET Entries /\ Up' = up
    BY <2>2, ItemKinds DEF Up
  <2>5. \A h \in up, e \in Entries : DropItem(h, e) # DropItem(c, x)
    BY ItemKinds DEF Up
  <2>6. Len(w) = 1 /\ w[1] = DropItem(c, x)
    OBVIOUS
  <2> HIDE DEF w, up
  <2>7. CloseFirstIn(w, up)
    BY <2>5, <2>6 DEF CloseFirstIn
  <2>8. CloseFirstIn(todo[c], Up)'
    BY <2>2, <2>3, <2>4, <2>7, CloseFirstNow
  <2>9. QED
    BY <2>2, <2>8, CloseFirstOne
<1>14. ASSUME NEW p \in Procs, DropLease(p) PROVE Goal'
  <2>1. PICK h \in Callers \cup Entries, x \in Entries : DropsAway(p, h, x)
    BY <1>14, DropLeaseEffect
  <2>2. conn' = conn /\ \A q \in Procs : q # p => todo'[q] = todo[q]
    BY <1>14, <2>1 DEF DropLease, DropsAway
  <2> DEFINE s == todo[p]
             up == Up
             t == Teardown(x)
             r == Tail(s)
  <2>3. s \in Seq(Items) /\ s # <<>> /\ Head(s) = DropItem(h, x) /\ CloseFirstIn(s, up)
    BY <2>1 DEF DropsAway, CloseFirst
  <2>4. up \in SUBSET Entries /\ Up' = up /\ \A f \in up : Head(s) # CloseItem(f)
    BY <2>2, <2>3, ItemKinds DEF Up
  <2>5. t \in Seq(Items) /\ CloseFirstIn(t, up)
    <3>1. hops[x] \in Seq(Entries)
      OBVIOUS
    <3>2. QED
      BY <2>4, <3>1, TeardownItems, CloseFirstTeardown
  <2>6. todo'[p] = r \/ todo'[p] = t \o r
    BY <2>1 DEF DropsAway
  <2> HIDE DEF s, up, t
  <2>7. r \in Seq(Items) /\ CloseFirstIn(r, up)
    BY <2>3, <2>4, CloseFirstTail
  <2> HIDE DEF r
  <2>8. CloseFirstIn(t \o r, up) /\ t \o r \in Seq(Items)
    BY <2>4, <2>5, <2>7, CloseFirstJoin
  <2>9. CloseFirstIn(todo[p], Up)'
    <3>1. CASE todo'[p] = r
      BY <2>4, <2>7, <3>1, CloseFirstNow
    <3>2. CASE todo'[p] = t \o r
      <4> DEFINE w == t \o r
      <4>1. w \in Seq(Items) /\ CloseFirstIn(w, up) /\ todo'[p] = w
        BY <2>8, <3>2
      <4> HIDE DEF w
      <4>2. QED
        BY <2>4, <4>1, CloseFirstNow
    <3>3. QED
      BY <2>6, <3>1, <3>2
  <2>10. QED
    BY <2>2, <2>9, CloseFirstOne
<1>15. ASSUME NEW p \in Procs, CloseClient(p) PROVE Goal'
  <2>1. PICK x \in Entries : ClosesAway(p, x)
    BY <1>15, CloseClientEffect
  <2>2. /\ \A q \in Procs : q # p => todo'[q] = todo[q]
        /\ conn' = [conn EXCEPT ![x] = IF @ = "up" THEN "closed" ELSE @]
    BY <2>1 DEF ClosesAway
  <2>3. conn'[x] # "up" /\ \A f \in Entries : conn'[f] = "up" => conn[f] = "up" /\ f # x
    BY <2>2
  <2> DEFINE s == todo[p]
             up == Up
             now == Up'
             r == Tail(s)
  <2>4. /\ s \in Seq(Items) /\ s # <<>> /\ Head(s) = CloseItem(x) /\ CloseFirstIn(s, up)
        /\ todo'[p] = r
    BY <2>1 DEF DropsAway, CloseFirst, ClosesAway
  <2>5. up \in SUBSET Entries /\ now \in SUBSET Entries /\ now \subseteq up /\ x \notin now
    BY <2>3 DEF Up
  <2>6. \A f \in now : Head(s) # CloseItem(f)
    BY <2>4, <2>5, ItemKinds
  <2> HIDE DEF s, up, now
  <2>7. CloseFirstIn(s, now)
    BY <2>4, <2>5, CloseFirstSame
  <2>8. r \in Seq(Items) /\ CloseFirstIn(r, now)
    <3>1. r \in Seq(Items)
      BY <2>4
    <3>2. CloseFirstIn(Tail(s), now)
      BY <2>4, <2>5, <2>6, <2>7, CloseFirstTail
    <3>3. QED
      BY <3>1, <3>2
  <2> HIDE DEF r
  <2>9. CloseFirstIn(todo[p], Up)'
    BY <2>4, <2>5, <2>8, CloseFirstNow DEF now
  <2>10. QED
    BY <2>2, <2>3, <2>9, CloseFirstOne
<1>16. ASSUME NEW e \in Entries, Die(e) PROVE Goal'
  BY <1>16, CloseFirstAll DEF Die
<1>17. ASSUME NEW e \in Entries, Watch(e) PROVE Goal'
  BY <1>17, CloseFirstAll DEF Watch
<1>18. ASSUME NEW e \in Entries, CloseNext(e) PROVE Goal'
  <2>1. conn[e] # "none"
    BY <1>18 DEF CloseNext, ClosedShape, PhaseShape
  <2>2. /\ Closer \in Procs /\ conn' = conn /\ \A q \in Procs : q # Closer => todo'[q] = todo[q]
    BY <1>18, <2>1, CloseNextEffect DEF CloseNext
  <2> DEFINE t == Teardown(e)
             up == Up
  <2>3. todo'[Closer] = t
    BY <1>18, <2>1, CloseNextEffect
  <2>4. up \in SUBSET Entries /\ Up' = up
    BY <2>2 DEF Up
  <2>5. t \in Seq(Items) /\ CloseFirstIn(t, up)
    <3>1. hops[e] \in Seq(Entries)
      OBVIOUS
    <3>2. QED
      BY <2>4, <3>1, TeardownItems, CloseFirstTeardown
  <2> HIDE DEF t, up
  <2>6. CloseFirstIn(todo[Closer], Up)'
    BY <2>2, <2>3, <2>4, <2>5, CloseFirstNow
  <2>7. QED
    BY <2>2, <2>6, CloseFirstOne
<1>19. ASSUME Close PROVE Goal'
  BY <1>19, CloseFirstAll DEF Close
<1>20. ASSUME UNCHANGED vars PROVE Goal'
  BY <1>20, CloseFirstAll DEF vars
<1> HIDE Distinct DEF Goal, IInv, TypeOK, entryVars, callerVars
<1>21. Goal'
  BY <1>1, <1>2, <1>3, <1>4, <1>5, <1>6, <1>7, <1>8, <1>9, <1>10, <1>11,
     <1>12, <1>13, <1>14, <1>15, <1>16, <1>17, <1>18, <1>19, <1>20
  DEF Next, Acquire, DialEnds, WaitEnds, Work
<1>22. QED
  BY <1>21 DEF Goal

(***************************************************************************)
(* What is closed is not used, or Close has come to it.                    *)
(***************************************************************************)
LEMMA DepthIs ==
  ASSUME IInv, NEW e \in Entries, phase[e] # "unborn"
  PROVE  Depth(e) \in Nat /\ key[e] \in Keys
  BY PoolAssumption DEF IInv, PhaseShape, Depth

(* The entries Close's work can reach from where it is. *)
Reaches(f) == f \in doomed \/ \E h \in Callers \cup Entries : ToDrop(Closer, h, f)

(* Once Close has come to a depth, it never meets anything deeper. *)
LEMMA ShutKept ==
  ASSUME IInv, NEW e \in Entries, phase[e] = "ready", ShutFrom(e), closed', key' = key,
         doomed' \subseteq doomed,
         \A f \in Entries : ToClose(Closer, f)' => ToClose(Closer, f) \/ Reaches(f),
         \A g \in Callers \cup Entries, f \in Entries : ToDrop(Closer, g, f)' =>
           \/ ToDrop(Closer, g, f)
           \/ \E x \in Entries : /\ Reaches(x) /\ f \in Range(hops[x])
                                 /\ refs[x] >= 1 \/ x \in doomed
  PROVE  ShutFrom(e)'
<1>0. Closer \in Procs /\ doomed \subseteq Entries
  BY DEF Procs, IInv, TypeOK
<1>1. \A f \in Entries : Depth(f)' = Depth(f)
  BY DEF Depth
<1>2. \A f \in Entries : Reaches(f) => phase[f] = "ready" /\ Depth(f) <= Depth(e)
  BY <1>0 DEF Reaches, ShutFrom, IInv, ItemShape, DropOk, ClosedShape
<1>3. \A f \in Entries : ToClose(Closer, f)' => Depth(f) <= Depth(e)
  BY <1>2 DEF ShutFrom
<1>4. ASSUME NEW g \in Callers \cup Entries, NEW f \in Entries, ToDrop(Closer, g, f)'
      PROVE  Depth(f) <= Depth(e)
  <2>1. CASE ToDrop(Closer, g, f)
    BY <2>1 DEF ShutFrom
  <2>2. CASE ~ToDrop(Closer, g, f)
    <3>1. PICK x \in Entries : /\ Reaches(x) /\ f \in Range(hops[x])
                               /\ refs[x] >= 1 \/ x \in doomed
      BY <1>4, <2>2
    <3>2. phase[x] = "ready" /\ Depth(x) <= Depth(e)
      BY <1>2, <3>1
    <3>3. Depth(f) < Depth(x) /\ phase[f] = "ready"
      BY <3>1, <3>2 DEF IInv, HopShape, HopOf
    <3>4. Depth(f) \in Nat /\ Depth(x) \in Nat /\ Depth(e) \in Nat
      BY <3>2, <3>3, DepthIs
    <3>5. QED
      BY <3>2, <3>3, <3>4
  <2>3. QED
    BY <2>1, <2>2
<1>5. \A f \in doomed' : Depth(f) <= Depth(e)
  BY DEF ShutFrom
<1>6. \A f \in doomed' : Depth(f)' <= Depth(e)'
  BY <1>0, <1>1, <1>5
<1>7. QED
  BY <1>1, <1>3, <1>4, <1>6 DEF ShutFrom

(* New closes are of entries nobody uses, or Close's own. *)
LEMMA ClosedKept ==
  ASSUME IInv, closed => closed' /\ key' = key,
         ~closed' => doomed' = {} /\ todo'[Closer] = <<>>,
         doomed' \subseteq doomed,
         \A f \in doomed' : phase'[f] = phase[f],
         \A f \in Entries : conn'[f] = "closed" =>
           conn[f] = "closed" \/ \E q \in Procs : ToClose(q, f),
         \A q \in Procs, f \in Entries :
           ToClose(q, f)' => ToClose(q, f) \/ refs'[f] = 0 \/ ShutFrom(f)',
         \A f \in Entries : \/ refs[f] = 0 => refs'[f] = 0
                            \/ conn'[f] # "closed" /\ NoWork(f),
         closed => \A f \in Entries : ToClose(Closer, f)' => ToClose(Closer, f) \/ Reaches(f),
         closed => \A g \in Callers \cup Entries, f \in Entries : ToDrop(Closer, g, f)' =>
           \/ ToDrop(Closer, g, f)
           \/ \E x \in Entries : /\ Reaches(x) /\ f \in Range(hops[x])
                                 /\ refs[x] >= 1 \/ x \in doomed
  PROVE  ClosedShape'
<1>1. \A f \in doomed' : phase'[f] = "ready"
  BY DEF IInv, ClosedShape
<1>2. ASSUME NEW e \in Entries, conn'[e] = "closed" \/ \E p \in Procs : ToClose(p, e)'
      PROVE  refs'[e] = 0 \/ ShutFrom(e)'
  <2>1. CASE conn[e] = "closed" \/ \E p \in Procs : ToClose(p, e)
    <3>1. phase[e] = "ready"
      BY <2>1 DEF IInv, PhaseShape, ItemShape
    <3>2. CASE refs[e] = 0
      <4>1. CASE refs'[e] = 0
        BY <4>1
      <4>2. CASE conn'[e] # "closed" /\ NoWork(e)
        <5>1. PICK p \in Procs : ToClose(p, e)'
          BY <1>2, <4>2
        <5>2. QED
          BY <4>2, <5>1 DEF NoWork
      <4>3. QED
        BY <3>2, <4>1, <4>2
    <3>3. CASE ShutFrom(e)
      <4>1. closed
        BY <3>3 DEF ShutFrom
      <4>2. ShutFrom(e)'
        BY <3>1, <3>3, <4>1, ShutKept
      <4>3. QED
        BY <4>2
    <3>4. QED
      BY <2>1, <3>2, <3>3 DEF IInv, ClosedShape, ClosedOf
  <2>2. CASE ~(conn[e] = "closed" \/ \E p \in Procs : ToClose(p, e))
    <3>1. conn'[e] # "closed"
      BY <2>2
    <3>2. PICK p \in Procs : ToClose(p, e)'
      BY <1>2, <3>1
    <3>3. ~ToClose(p, e)
      BY <2>2
    <3>4. QED
      BY <3>2, <3>3
  <2>3. QED
    BY <2>1, <2>2
<1>3. \A e \in Entries : ClosedOf(e)'
  BY <1>2 DEF ClosedOf
<1>4. QED
  BY <1>1, <1>3 DEF ClosedShape

(* A step that leaves the work as it is and closes nothing. *)
LEMMA ClosedFrame ==
  ASSUME IInv, closed' = closed, closed => key' = key, doomed' = doomed, todo' = todo,
         \A f \in doomed' : phase'[f] = phase[f],
         \A f \in Entries : conn'[f] = "closed" => conn[f] = "closed",
         \A f \in Entries : \/ refs[f] = 0 => refs'[f] = 0
                            \/ conn'[f] # "closed" /\ NoWork(f)
  PROVE  ClosedShape'
<1>1. /\ \A q \in Procs, f \in Entries : ToClose(q, f)' => ToClose(q, f)
      /\ \A q \in Procs, g \in Callers \cup Entries, f \in Entries :
           ToDrop(q, g, f)' => ToDrop(q, g, f)
  BY SameWork
<1>2. Closer \in Procs /\ (~closed => doomed = {} /\ todo[Closer] = <<>>)
  BY DEF Procs, IInv, ClosedShape
<1>3. QED
  BY <1>1, <1>2, ClosedKept

(* Every action keeps what is closed. *)
LEMMA ClosedStep ==
  ASSUME IInv, [Next]_vars
  PROVE  (ClosedShape)'
PROOF
<1> DEFINE Goal == ClosedShape
<1> USE Distinct DEF IInv, TypeOK, entryVars, callerVars
<1>1. ASSUME NEW c \in Callers, NEW k \in Keys, AcquireRefused(c, k)
      PROVE  Goal'
  BY <1>1, ClosedFrame DEF AcquireRefused
<1>2. ASSUME NEW c \in Callers, NEW k \in Keys, AcquireJoin(c, k)
      PROVE  Goal'
  <2>1. conns[k] \in Entries /\ refs[conns[k]] >= 1
    BY <1>2 DEF AcquireJoin, MapShape, RefShape, RefOf
  <2>2. \A f \in Entries : refs[f] = 0 => refs'[f] = 0
    BY <1>2, <2>1 DEF AcquireJoin
  <2>3. QED
    BY <1>2, <2>2, ClosedFrame DEF AcquireJoin
<1>3. ASSUME NEW c \in Callers, NEW k \in Keys, NEW e \in Entries, AcquireFresh(c, k, e)
      PROVE  Goal'
  <2>1. NoWork(e) /\ ~closed /\ doomed = {}
    BY <1>3, AcquireFreshIs, FreshIs DEF NoWork, ClosedShape
  <2>2. \A f \in Entries : f # e => conn'[f] = conn[f] /\ refs'[f] = refs[f]
    BY <1>3 DEF AcquireFresh
  <2>3. conn'[e] = "none"
    BY <1>3 DEF AcquireFresh
  <2>4. closed' = closed /\ doomed' = doomed /\ todo' = todo
    BY <1>3 DEF AcquireFresh
  <2>5. QED
    BY <2>1, <2>2, <2>3, <2>4, ClosedFrame
<1>4. ASSUME NEW c \in Callers, WaitReady(c) PROVE Goal'
  BY <1>4, ClosedFrame DEF WaitReady
<1>5. ASSUME NEW c \in Callers, WaitFailed(c) PROVE Goal'
  BY <1>5, ClosedFrame DEF WaitFailed
<1>6. ASSUME NEW c \in Callers, WaitCancelled(c) PROVE Goal'
  <2>1. PICK x \in Entries : x = cur[c] /\ pc[c] = "wait"
    BY <1>6, WaitCancelledEffect
  <2>2. UNCHANGED <<closed, key, doomed, phase, conn>>
    BY <1>6 DEF WaitCancelled
  <2>3. refs' = [refs EXCEPT ![x] = @ - 1] /\ refs[x] >= 1
    BY <1>6, <2>1, WaitCancelledEffect, Counted
  <2>4. /\ \A f \in Entries : refs[f] = 0 => refs'[f] = 0
        /\ refs[x] <= 1 => refs'[x] = 0
    BY <2>3
  <2>5. Closer \in Procs /\ Closer # c
    BY DEF Procs
  <2>6. todo'[Closer] = todo[Closer]
    BY <1>6, <2>5, WaitCancelledEffect
  <2>7. \A q \in Procs, f \in Entries : ToClose(q, f)' => ToClose(q, f) \/ refs'[f] = 0
    BY <1>6, <2>1, <2>4, WaitCancelledEffect
  <2>8. /\ \A f \in Entries : ToClose(Closer, f)' => ToClose(Closer, f)
        /\ \A g \in Callers \cup Entries, f \in Entries :
             ToDrop(Closer, g, f)' => ToDrop(Closer, g, f)
    BY <1>6, <2>5, WaitCancelledEffect
  <2>9. ~closed' => doomed' = {} /\ todo'[Closer] = <<>>
    BY <2>2, <2>6 DEF ClosedShape
  <2>10. QED
    BY <2>2, <2>4, <2>7, <2>8, <2>9, ClosedKept
<1>7. ASSUME NEW c \in Callers, HopDialled(c) PROVE Goal'
  <2>1. PICK x \in Entries : /\ x = cur[c] /\ phase[x] = "dialling"
    BY <1>7, HopDialledIs
  <2>2. /\ UNCHANGED <<closed, key, doomed, todo, refs>>
        /\ conn' = [conn EXCEPT ![x] = "up"] /\ phase' = [phase EXCEPT ![x] = "ready"]
    BY <1>7, <2>1 DEF HopDialled, Dialled
  <2>3. x \notin doomed
    BY <2>1 DEF ClosedShape
  <2>4. /\ \A f \in doomed' : phase'[f] = phase[f]
        /\ \A f \in Entries : conn'[f] = "closed" => conn[f] = "closed"
    BY <2>2, <2>3
  <2>5. QED
    BY <2>2, <2>4, ClosedFrame
<1>8. ASSUME NEW c \in Callers, TargetDialled(c) PROVE Goal'
  <2>1. PICK x \in Entries : /\ x = mine[c] /\ phase[x] = "dialling"
    BY <1>8, TargetDialledIs
  <2>2. /\ UNCHANGED <<closed, key, doomed, todo, refs>>
        /\ conn' = [conn EXCEPT ![x] = "up"] /\ phase' = [phase EXCEPT ![x] = "ready"]
    BY <1>8, <2>1 DEF TargetDialled, Dialled
  <2>3. x \notin doomed
    BY <2>1 DEF ClosedShape
  <2>4. /\ \A f \in doomed' : phase'[f] = phase[f]
        /\ \A f \in Entries : conn'[f] = "closed" => conn[f] = "closed"
    BY <2>2, <2>3
  <2>5. QED
    BY <2>2, <2>4, ClosedFrame
<1>9. ASSUME NEW c \in Callers, HopFailed(c) PROVE Goal'
  <2>1. PICK x \in Entries : /\ x = cur[c] /\ phase[x] = "dialling"
    BY <1>9 DEF HopFailed, CallerShape, DialShape
  <2>2. /\ UNCHANGED <<closed, key, doomed, todo, refs, conn>>
        /\ phase' = [phase EXCEPT ![x] = "failed"]
    BY <1>9, <2>1 DEF HopFailed, FailEntry
  <2>3. x \notin doomed
    BY <2>1 DEF ClosedShape
  <2>4. \A f \in doomed' : phase'[f] = phase[f]
    BY <2>2, <2>3
  <2>5. QED
    BY <2>2, <2>4, ClosedFrame
<1>10. ASSUME NEW c \in Callers, RouteFailed(c) PROVE Goal'
  BY <1>10, ClosedFrame DEF RouteFailed
<1>11. ASSUME NEW c \in Callers, Unwind(c) PROVE Goal'
  <2>1. UNCHANGED <<closed, key, doomed, phase, refs, conn>> /\ Closer \in Procs /\ Closer # c
    BY <1>11 DEF Unwind, Procs
  <2>2. todo'[Closer] = todo[Closer]
    BY <1>11, <2>1, UnwindEffect
  <2>3. \A q \in Procs, f \in Entries : ToClose(q, f)' => ToClose(q, f)
    BY <1>11, UnwindEffect
  <2>4. \A g \in Callers \cup Entries, f \in Entries :
          ToDrop(Closer, g, f)' => ToDrop(Closer, g, f)
    BY <1>11, <2>1, UnwindEffect
  <2>5. ~closed' => doomed' = {} /\ todo'[Closer] = <<>>
    BY <2>1, <2>2 DEF ClosedShape
  <2>6. QED
    BY <2>1, <2>3, <2>4, <2>5, ClosedKept
<1>12. ASSUME NEW c \in Callers, TargetFailed(c) PROVE Goal'
  <2>1. PICK x \in Entries : /\ x = mine[c] /\ phase[x] = "dialling"
    BY <1>12 DEF TargetFailed, CallerShape, RouteShape, RouteOf
  <2>2. /\ UNCHANGED <<closed, key, doomed, todo, refs, conn>>
        /\ phase' = [phase EXCEPT ![x] = "failed"]
    BY <1>12, <2>1 DEF TargetFailed, FailEntry
  <2>3. x \notin doomed
    BY <2>1 DEF ClosedShape
  <2>4. \A f \in doomed' : phase'[f] = phase[f]
    BY <2>2, <2>3
  <2>5. QED
    BY <2>2, <2>4, ClosedFrame
<1>13. ASSUME NEW c \in Callers, Release(c) PROVE Goal'
  <2>1. UNCHANGED <<closed, key, doomed, phase, refs, conn>> /\ Closer \in Procs /\ Closer # c
    BY <1>13 DEF Release, Procs
  <2>2. todo'[Closer] = todo[Closer]
    BY <1>13, <2>1, ReleaseEffect
  <2>3. \A q \in Procs, f \in Entries : ToClose(q, f)' => ToClose(q, f)
    BY <1>13, ReleaseEffect
  <2>4. \A g \in Callers \cup Entries, f \in Entries :
          ToDrop(Closer, g, f)' => ToDrop(Closer, g, f)
    BY <1>13, <2>1, ReleaseEffect
  <2>5. ~closed' => doomed' = {} /\ todo'[Closer] = <<>>
    BY <2>1, <2>2 DEF ClosedShape
  <2>6. QED
    BY <2>1, <2>3, <2>4, <2>5, ClosedKept
<1>14. ASSUME NEW p \in Procs, DropLease(p) PROVE Goal'
  <2>1. PICK h \in Callers \cup Entries, x \in Entries : DropsAway(p, h, x)
    BY <1>14, DropLeaseEffect
  <2>2. UNCHANGED <<closed, key, doomed, phase, conn>>
    BY <1>14 DEF DropLease
  <2>3. /\ <<h, x>> \notin leases => refs' = refs
        /\ <<h, x>> \in leases => refs' = [refs EXCEPT ![x] = @ - 1] /\ refs[x] >= 1
    BY <2>1, Counted DEF DropsAway
  <2>4. /\ \A f \in Entries : refs[f] = 0 => refs'[f] = 0
        /\ <<h, x>> \in leases /\ refs[x] <= 1 => refs'[x] = 0
    BY <2>3
  <2>5. Closer \in Procs /\ todo[p] # <<>>
    BY <2>1 DEF Procs, DropsAway
  <2>6. ~closed' => doomed' = {} /\ todo'[Closer] = <<>>
    <3>1. SUFFICES ASSUME ~closed PROVE doomed = {} /\ todo'[Closer] = <<>>
      BY <2>2
    <3>2. doomed = {} /\ todo[Closer] = <<>>
      BY <3>1 DEF ClosedShape
    <3>3. p # Closer
      BY <2>5, <3>2
    <3>4. QED
      BY <2>1, <2>5, <3>2, <3>3 DEF DropsAway
  <2>7. \A q \in Procs, f \in Entries : ToClose(q, f)' => ToClose(q, f) \/ refs'[f] = 0
    BY <2>1, <2>4 DEF DropsAway
  <2>8. p = Closer => Reaches(x)
    BY <2>1 DEF DropsAway, Reaches
  <2>9. \A f \in Entries : ToClose(Closer, f)' => ToClose(Closer, f) \/ Reaches(f)
    BY <2>1, <2>5, <2>8 DEF DropsAway
  <2>10. ASSUME NEW g \in Callers \cup Entries, NEW f \in Entries,
                ToDrop(Closer, g, f)', ~ToDrop(Closer, g, f)
         PROVE  Reaches(x) /\ f \in Range(hops[x]) /\ refs[x] >= 1
    BY <2>1, <2>3, <2>5, <2>8, <2>10 DEF DropsAway
  <2>11. QED
    BY <2>2, <2>4, <2>6, <2>7, <2>9, <2>10, ClosedKept
<1>15. ASSUME NEW p \in Procs, CloseClient(p) PROVE Goal'
  <2>1. PICK x \in Entries : ClosesAway(p, x)
    BY <1>15, CloseClientEffect
  <2>2. UNCHANGED <<closed, key, doomed, phase, refs>>
    BY <1>15 DEF CloseClient
  <2>3. Closer \in Procs /\ todo[p] # <<>>
    BY <2>1 DEF Procs, ClosesAway
  <2>4. ~closed' => doomed' = {} /\ todo'[Closer] = <<>>
    <3>1. SUFFICES ASSUME ~closed PROVE doomed = {} /\ todo'[Closer] = <<>>
      BY <2>2
    <3>2. doomed = {} /\ todo[Closer] = <<>>
      BY <3>1 DEF ClosedShape
    <3>3. p # Closer
      BY <2>3, <3>2
    <3>4. QED
      BY <2>1, <2>3, <3>2, <3>3 DEF ClosesAway
  <2>5. /\ \A q \in Procs, f \in Entries : ToClose(q, f)' => ToClose(q, f)
        /\ \A q \in Procs, g \in Callers \cup Entries, f \in Entries :
             ToDrop(q, g, f)' => ToDrop(q, g, f)
    BY <2>1 DEF ClosesAway
  <2>6. \A f \in Entries : conn'[f] = "closed" =>
          conn[f] = "closed" \/ \E q \in Procs : ToClose(q, f)
    BY <2>1 DEF ClosesAway
  <2>7. QED
    BY <2>2, <2>3, <2>4, <2>5, <2>6, ClosedKept
<1>16. ASSUME NEW e \in Entries, Die(e) PROVE Goal'
  BY <1>16, ClosedFrame DEF Die
<1>17. ASSUME NEW e \in Entries, Watch(e) PROVE Goal'
  BY <1>17, ClosedFrame DEF Watch
<1>18. ASSUME NEW e \in Entries, CloseNext(e) PROVE Goal'
  <2>1. /\ conn[e] # "none" /\ phase[e] = "ready" /\ e \in doomed /\ closed
        /\ \A f \in doomed : Depth(f) <= Depth(e)
    BY <1>18 DEF CloseNext, ClosedShape, PhaseShape
  <2>2. UNCHANGED <<closed, key, phase, refs, conn>> /\ doomed' \subseteq doomed
    BY <1>18 DEF CloseNext
  <2>3. /\ todo[Closer] = <<>> /\ Closer \in Procs
        /\ \A q \in Procs, f \in Entries :
             ToClose(q, f)' <=> ToClose(q, f) \/ (q = Closer /\ f = e)
        /\ \A q \in Procs, g \in Callers \cup Entries, f \in Entries :
             ToDrop(q, g, f)' <=>
             ToDrop(q, g, f) \/ (q = Closer /\ g = e /\ f \in Range(hops[e]))
    BY <1>18, <2>1, CloseNextEffect
  <2>4. /\ \A f \in Entries : ~ToClose(Closer, f)
        /\ \A g \in Callers \cup Entries, f \in Entries : ~ToDrop(Closer, g, f)
    BY <2>3, RangeEmpty DEF ToClose, ToDrop
  <2>5. \A f \in Entries : Depth(f)' = Depth(f)
    BY <2>2 DEF Depth
  <2>6. ShutFrom(e)'
    <3>1. \A f \in doomed' : Depth(f)' <= Depth(e)'
      BY <2>1, <2>2, <2>5
    <3>2. \A f \in Entries : ToClose(Closer, f)' => Depth(f)' <= Depth(e)'
      BY <2>1, <2>3, <2>4, <2>5
    <3>3. ASSUME NEW g \in Callers \cup Entries, NEW f \in Entries, ToDrop(Closer, g, f)'
          PROVE  Depth(f)' <= Depth(e)'
      <4>1. f \in Range(hops[e])
        BY <2>3, <2>4, <3>3
      <4>2. Depth(f) < Depth(e) /\ phase[f] = "ready"
        BY <2>1, <4>1 DEF HopShape, HopOf
      <4>3. Depth(f) \in Nat /\ Depth(e) \in Nat
        BY <2>1, <4>2, DepthIs
      <4>4. QED
        BY <2>5, <4>2, <4>3
    <3>4. QED
      BY <2>1, <2>2, <3>1, <3>2, <3>3 DEF ShutFrom
  <2>7. Reaches(e)
    BY <2>1 DEF Reaches
  <2>8. QED
    BY <2>1, <2>2, <2>3, <2>6, <2>7, ClosedKept
<1>19. ASSUME Close PROVE Goal'
  <2>1. /\ ~closed /\ closed' /\ UNCHANGED <<conn, refs, phase, todo>>
        /\ doomed' \subseteq {f \in Entries : conn[f] # "none"}
    BY <1>19 DEF Close, InMap
  <2>2. \A f \in doomed' : phase'[f] = "ready"
    BY <2>1 DEF PhaseShape
  <2>3. \A q \in Procs, f \in Entries : ToClose(q, f)' => ToClose(q, f)
    BY <2>1, SameWork
  <2>4. \A f \in Entries : ~ShutFrom(f)
    BY <2>1 DEF ShutFrom
  <2>5. \A f \in Entries : ClosedOf(f)'
    BY <2>1, <2>3, <2>4 DEF ClosedShape, ClosedOf
  <2>6. QED
    BY <2>1, <2>2, <2>5 DEF ClosedShape
<1>20. ASSUME UNCHANGED vars PROVE Goal'
  BY <1>20, ClosedFrame DEF vars
<1> HIDE Distinct DEF Goal, IInv, TypeOK, entryVars, callerVars
<1>21. Goal'
  BY <1>1, <1>2, <1>3, <1>4, <1>5, <1>6, <1>7, <1>8, <1>9, <1>10, <1>11,
     <1>12, <1>13, <1>14, <1>15, <1>16, <1>17, <1>18, <1>19, <1>20
  DEF Next, Acquire, DialEnds, WaitEnds, Work
<1>22. QED
  BY <1>21 DEF Goal

(***************************************************************************)
(* What a connection has under it.                                         *)
(***************************************************************************)
LEMMA HopKept ==
  ASSUME IInv, NEW e \in Entries,
         phase'[e] = phase[e], hops'[e] = hops[e], key'[e] = key[e],
         conn'[e] = "up" => conn[e] = "up", closed => closed',
         refs'[e] >= 1 => refs[e] >= 1,
         e \in doomed' => refs[e] >= 1 \/ e \in doomed,
         conn'[e] = "up" \/ (~closed' /\ phase[e] = "ready" /\ refs'[e] >= 1) =>
           \A h \in Entries : <<e, h>> \in leases => <<e, h>> \in leases',
         phase[e] = "ready" /\ (refs[e] >= 1 \/ e \in doomed) =>
           \A h \in Range(hops[e]) :
             key'[h] = key[h] /\ (phase[h] = "ready" => phase'[h] = "ready"),
         conn'[e] = "up" /\ refs[e] >= 1 =>
           refs'[e] >= 1 \/ \E p \in Procs : ToClose(p, e)',
         conn'[e] = "up" => \A p \in Procs : ToClose(p, e) => ToClose(p, e)'
  PROVE  HopOf(e)'
<1>0. HopOf(e) /\ Range(hops[e]) \subseteq Entries
  BY RangeTyped DEF IInv, HopShape, TypeOK
<1>1. ASSUME conn'[e] = "up" \/ (~closed' /\ phase'[e] = "ready" /\ refs'[e] >= 1),
             NEW h \in Range(hops[e])
      PROVE  <<e, h>> \in leases'
  <2>1. <<e, h>> \in leases
    BY <1>0, <1>1 DEF HopOf
  <2>2. QED
    BY <1>0, <1>1, <2>1
<1>2. ASSUME phase'[e] = "ready", refs'[e] >= 1 \/ e \in doomed', NEW h \in Range(hops[e])
      PROVE  Depth(h)' < Depth(e)' /\ phase'[h] = "ready"
  <2>1. phase[e] = "ready" /\ (refs[e] >= 1 \/ e \in doomed)
    BY <1>2
  <2>2. Depth(h) < Depth(e) /\ phase[h] = "ready"
    BY <1>0, <2>1 DEF HopOf
  <2>3. key'[h] = key[h] /\ phase'[h] = "ready"
    BY <2>1, <2>2
  <2>4. Depth(h)' = Depth(h) /\ Depth(e)' = Depth(e)
    BY <2>3 DEF Depth
  <2>5. QED
    BY <2>2, <2>3, <2>4
<1>3. ASSUME conn'[e] = "up" PROVE refs'[e] >= 1 \/ \E p \in Procs : ToClose(p, e)'
  BY <1>0, <1>3 DEF HopOf
<1>4. QED
  BY <1>1, <1>2, <1>3 DEF HopOf

(* A step that takes no lease and no reference that was the last. *)
LEMMA HopFrame ==
  ASSUME IInv, UNCHANGED <<hops, key, closed>>, leases \subseteq leases',
         doomed' \subseteq doomed,
         \A f \in Entries : \/ phase'[f] = phase[f]
                            \/ phase[f] = "dialling" /\ phase'[f] = "failed",
         \A f \in Entries : refs'[f] >= 1 <=> refs[f] >= 1,
         \A f \in Entries : conn'[f] = "up" => conn[f] = "up",
         \A p \in Procs, f \in Entries : ToClose(p, f) => ToClose(p, f)'
  PROVE  HopShape'
<1>1. SUFFICES ASSUME NEW e \in Entries PROVE HopOf(e)'
  BY DEF HopShape
<1>2. CASE phase'[e] = phase[e]
  <2>1. \A h \in Range(hops[e]) : phase[h] = "ready" => phase'[h] = "ready"
    BY RangeTyped DEF IInv, TypeOK
  <2>2. QED
    BY <1>2, <2>1, HopKept
<1>3. CASE phase[e] = "dialling" /\ phase'[e] = "failed"
  BY <1>3 DEF HopOf, IInv, PhaseShape
<1>4. QED
  BY <1>2, <1>3

(* The hops of a connection in use are kept by whoever takes a fresh entry. *)
LEMMA FreshIsNoHop ==
  ASSUME IInv, NEW x \in Entries, Fresh(x), ~closed,
         NEW e \in Entries, phase[e] = "ready", refs[e] >= 1 \/ e \in doomed
  PROVE  x \notin Range(hops[e])
<1>1. doomed = {}
  BY DEF IInv, ClosedShape
<1>2. \A h \in Range(hops[e]) : <<e, h>> \in leases
  BY <1>1 DEF IInv, HopShape, HopOf
<1>3. QED
  BY <1>2, FreshIs DEF IInv

(* Every action keeps what is under a connection. *)
LEMMA HopStep ==
  ASSUME IInv, [Next]_vars
  PROVE  (HopShape)'
PROOF
<1> DEFINE Goal == HopShape
<1> USE Distinct DEF IInv, TypeOK, entryVars, callerVars
<1>1. ASSUME NEW c \in Callers, NEW k \in Keys, AcquireRefused(c, k)
      PROVE  Goal'
  BY <1>1, SameWork, HopFrame DEF AcquireRefused
<1>2. ASSUME NEW c \in Callers, NEW k \in Keys, AcquireJoin(c, k)
      PROVE  Goal'
  <2>1. conns[k] \in Entries /\ refs[conns[k]] >= 1
    BY <1>2 DEF AcquireJoin, MapShape, RefShape, RefOf
  <2>2. \A f \in Entries : refs'[f] >= 1 <=> refs[f] >= 1
    BY <1>2, <2>1 DEF AcquireJoin
  <2>3. QED
    BY <1>2, <2>2, SameWork, HopFrame DEF AcquireJoin
<1>3. ASSUME NEW c \in Callers, NEW k \in Keys, NEW e \in Entries, AcquireFresh(c, k, e)
      PROVE  Goal'
  <2>1. Fresh(e) /\ ~closed
    BY <1>3, AcquireFreshIs
  <2>2. UNCHANGED <<closed, leases, todo, doomed>>
    BY <1>3 DEF AcquireFresh
  <2>3. conn'[e] = "none" /\ phase'[e] = "dialling"
    BY <1>3 DEF AcquireFresh
  <2>4. HopOf(e)'
    BY <2>3 DEF HopOf
  <2>5. ASSUME NEW f \in Entries, f # e PROVE HopOf(f)'
    <3>1. /\ \A g \in Entries : g # e => key'[g] = key[g] /\ phase'[g] = phase[g]
          /\ hops'[f] = hops[f] /\ conn'[f] = conn[f] /\ refs'[f] = refs[f]
      BY <1>3, <2>5 DEF AcquireFresh
    <3>2. phase[f] = "ready" /\ (refs[f] >= 1 \/ f \in doomed) =>
            \A h \in Range(hops[f]) :
              key'[h] = key[h] /\ (phase[h] = "ready" => phase'[h] = "ready")
      BY <2>1, <3>1, FreshIsNoHop, RangeTyped
    <3>3. \A p \in Procs : ToClose(p, f) => ToClose(p, f)'
      BY <2>2, SameWork
    <3>4. key'[f] = key[f] /\ phase'[f] = phase[f]
      BY <2>5, <3>1
    <3>5. QED
      BY <2>2, <3>1, <3>2, <3>3, <3>4, HopKept
  <2>6. QED
    BY <2>4, <2>5 DEF HopShape
<1>4. ASSUME NEW c \in Callers, WaitReady(c) PROVE Goal'
  <2>1. leases \subseteq leases'
    BY <1>4 DEF WaitReady, Granted
  <2>2. QED
    BY <1>4, <2>1, SameWork, HopFrame DEF WaitReady
<1>5. ASSUME NEW c \in Callers, WaitFailed(c) PROVE Goal'
  BY <1>5, SameWork, HopFrame DEF WaitFailed, Denied
<1>6. ASSUME NEW c \in Callers, WaitCancelled(c) PROVE Goal'
  <2>1. PICK x \in Entries : x = cur[c] /\ pc[c] = "wait"
    BY <1>6, WaitCancelledEffect
  <2>2. UNCHANGED <<closed, key, doomed, phase, conn, hops, leases>> /\ c \in Procs
    BY <1>6 DEF WaitCancelled, Denied, Procs
  <2>3. refs' = [refs EXCEPT ![x] = @ - 1] /\ refs[x] >= 1
    BY <1>6, <2>1, WaitCancelledEffect, Counted
  <2>4. /\ \A f \in Entries : refs'[f] >= 1 => refs[f] >= 1
        /\ \A f \in Entries : f # x => refs'[f] = refs[f]
        /\ refs'[x] >= 1 \/ refs[x] <= 1
    BY <2>3
  <2>5. \A q \in Procs, f \in Entries : ToClose(q, f) => ToClose(q, f)'
    BY <1>6, WaitCancelledEffect
  <2>6. refs[x] <= 1 /\ conn[x] = "up" => ToClose(c, x)'
    BY <1>6, <2>1, <2>2, WaitCancelledEffect
  <2>7. \A f \in Entries : HopOf(f)'
    <3>1. TAKE f \in Entries
    <3>2. conn'[f] = "up" /\ refs[f] >= 1 =>
            refs'[f] >= 1 \/ \E p \in Procs : ToClose(p, f)'
      <4>1. conn' = conn
        BY <2>2
      <4>2. CASE f # x
        BY <2>4, <4>2
      <4>3. CASE f = x /\ refs'[x] >= 1
        BY <4>3
      <4>4. CASE f = x /\ ~(refs'[x] >= 1)
        <5>1. refs[f] >= 1 /\ conn[f] = "up" => ToClose(c, f)'
          BY <2>4, <2>6, <4>4
        <5>2. QED
          BY <2>2, <4>1, <5>1, Zenon
      <4>5. QED
        BY <4>2, <4>3, <4>4
    <3>3. QED
      BY <2>2, <2>4, <2>5, <3>2, HopKept
  <2>8. QED
    BY <2>7 DEF HopShape
<1>7. ASSUME NEW c \in Callers, HopDialled(c) PROVE Goal'
  <2>1. PICK x \in Entries : /\ x = cur[c] /\ phase[x] = "dialling" /\ GrantHop(c, x)
    BY <1>7, HopDialledIs
  <2>2. /\ UNCHANGED <<closed, key, doomed, todo, refs>>
        /\ conn' = [conn EXCEPT ![x] = "up"] /\ phase' = [phase EXCEPT ![x] = "ready"]
        /\ hops' = [hops EXCEPT ![x] = <<>>]
    BY <1>7, <2>1 DEF HopDialled, Dialled
  <2>3. leases \subseteq leases'
    BY <2>1 DEF GrantHop
  <2>4. ASSUME NEW e \in Entries, e # x PROVE HopOf(e)'
    <3>1. \A h \in Range(hops[e]) : phase[h] = "ready" => phase'[h] = "ready"
      BY <2>2, RangeTyped
    <3>2. phase'[e] = phase[e] /\ hops'[e] = hops[e] /\ conn'[e] = conn[e]
      BY <2>2, <2>4
    <3>3. \A p \in Procs : ToClose(p, e) => ToClose(p, e)'
      BY <2>2, SameWork
    <3>4. QED
      BY <2>2, <2>3, <3>1, <3>2, <3>3, HopKept
  <2>5. refs[x] >= 1 /\ hops'[x] = <<>> /\ refs'[x] >= 1
    BY <1>7, <2>1, <2>2, HopDialledIs, Counted
  <2>6. HopOf(x)'
    BY <2>2, <2>5, RangeEmpty DEF HopOf
  <2>7. QED
    BY <2>4, <2>6 DEF HopShape
<1>8. ASSUME NEW c \in Callers, TargetDialled(c) PROVE Goal'
  <2>1. PICK x \in Entries : /\ x = mine[c] /\ phase[x] = "dialling" /\ GrantSelf(c, x)
    BY <1>8, TargetDialledIs
  <2>2. /\ UNCHANGED <<closed, key, doomed, todo, refs>>
        /\ conn' = [conn EXCEPT ![x] = "up"] /\ phase' = [phase EXCEPT ![x] = "ready"]
        /\ hops' = [hops EXCEPT ![x] = borrowed[c]]
    BY <1>8, <2>1 DEF TargetDialled, Dialled
  <2>3. leases \subseteq leases'
    BY <2>1 DEF GrantSelf
  <2>4. ASSUME NEW e \in Entries, e # x PROVE HopOf(e)'
    <3>1. \A h \in Range(hops[e]) : phase[h] = "ready" => phase'[h] = "ready"
      BY <2>2, RangeTyped
    <3>2. phase'[e] = phase[e] /\ hops'[e] = hops[e] /\ conn'[e] = conn[e]
      BY <2>2, <2>4
    <3>3. \A p \in Procs : ToClose(p, e) => ToClose(p, e)'
      BY <2>2, SameWork
    <3>4. QED
      BY <2>2, <2>3, <3>1, <3>2, <3>3, HopKept
  <2>5. refs'[x] >= 1 /\ hops'[x] = borrowed[c]
    BY <1>8, <2>1, <2>2, Counted
  <2>6. HopOf(x)'
    <3>1. ASSUME NEW h \in Range(borrowed[c])
          PROVE  <<x, h>> \in leases' /\ Depth(h)' < Depth(x)' /\ phase'[h] = "ready"
      <4>1. PICK i \in 1..Len(borrowed[c]) : h = borrowed[c][i]
        BY DEF Range
      <4>2. /\ key[h] = Route[key[x]][i] /\ <<x, h>> \in leases /\ i \in 1..Depth(x)
            /\ h \in Entries
        <5>1. RouteOf(c) /\ Len(borrowed[c]) = Depth(x)
          BY <1>8, <2>1, TargetDialledIs DEF RouteShape
        <5>2. borrowed[c] \in Seq(Entries)
          OBVIOUS
        <5>3. h \in Entries
          BY <4>1, <5>2
        <5>4. /\ key[borrowed[c][i]] = Route[key[x]][i]
              /\ <<x, borrowed[c][i]>> \in leases
          BY <2>1, <5>1 DEF RouteOf
        <5>5. QED
          BY <4>1, <5>1, <5>3, <5>4
      <4>3. phase[h] = "ready" /\ h # x
        BY <2>1, <4>2 DEF RefShape
      <4>4. key[x] \in Keys /\ i \in 1..Len(Route[key[x]])
        BY <2>1, <4>2 DEF PhaseShape, Depth
      <4>5. Depth(h) = i - 1
        BY <4>2, <4>4, HopDepth, ZenonT(40) DEF Depth
      <4>6. Depth(h)' = Depth(h) /\ Depth(x)' = Depth(x)
        BY <2>2 DEF Depth
      <4>7. Depth(h)' < Depth(x)'
        <5>1. Depth(x) \in Nat
          BY <2>1, DepthIs
        <5>2. i \in Nat /\ i <= Depth(x)
          BY <4>2, <5>1
        <5>3. QED
          BY <4>5, <4>6, <5>1, <5>2
      <4>8. QED
        BY <2>2, <2>3, <4>2, <4>3, <4>7
    <3>2. QED
      BY <2>5, <3>1 DEF HopOf
  <2>7. QED
    BY <2>4, <2>6 DEF HopShape
<1>9. ASSUME NEW c \in Callers, HopFailed(c) PROVE Goal'
  <2>1. PICK x \in Entries : /\ x = cur[c] /\ phase[x] = "dialling"
    BY <1>9 DEF HopFailed, CallerShape, DialShape
  <2>2. /\ UNCHANGED <<closed, key, doomed, todo, refs, conn, hops, leases>>
        /\ phase' = [phase EXCEPT ![x] = "failed"]
    BY <1>9, <2>1 DEF HopFailed, FailEntry, Denied
  <2>3. QED
    BY <2>1, <2>2, SameWork, HopFrame
<1>10. ASSUME NEW c \in Callers, RouteFailed(c) PROVE Goal'
  BY <1>10, SameWork, HopFrame DEF RouteFailed
<1>11. ASSUME NEW c \in Callers, Unwind(c) PROVE Goal'
  <2>1. \A q \in Procs, f \in Entries : ToClose(q, f) => ToClose(q, f)'
    BY <1>11, UnwindEffect
  <2>2. QED
    BY <1>11, <2>1, HopFrame DEF Unwind
<1>12. ASSUME NEW c \in Callers, TargetFailed(c) PROVE Goal'
  <2>1. PICK x \in Entries : /\ x = mine[c] /\ phase[x] = "dialling"
    BY <1>12 DEF TargetFailed, CallerShape, RouteShape, RouteOf
  <2>2. /\ UNCHANGED <<closed, key, doomed, todo, refs, conn, hops, leases>>
        /\ phase' = [phase EXCEPT ![x] = "failed"]
    BY <1>12, <2>1 DEF TargetFailed, FailEntry, Denied
  <2>3. QED
    BY <2>1, <2>2, SameWork, HopFrame
<1>13. ASSUME NEW c \in Callers, Release(c) PROVE Goal'
  <2>1. \A q \in Procs, f \in Entries : ToClose(q, f) => ToClose(q, f)'
    BY <1>13, ReleaseEffect
  <2>2. QED
    BY <1>13, <2>1, HopFrame DEF Release
<1>14. ASSUME NEW p \in Procs, DropLease(p) PROVE Goal'
  <2>1. PICK h \in Callers \cup Entries, x \in Entries : DropsAway(p, h, x)
    BY <1>14, DropLeaseEffect
  <2>2. UNCHANGED <<closed, key, doomed, phase, conn, hops>>
    BY <1>14 DEF DropLease
  <2>3. /\ <<h, x>> \notin leases => refs' = refs
        /\ <<h, x>> \in leases => refs' = [refs EXCEPT ![x] = @ - 1] /\ refs[x] >= 1
    BY <2>1, Counted DEF DropsAway
  <2>4. /\ \A f \in Entries : refs'[f] >= 1 => refs[f] >= 1
        /\ \A f \in Entries : f # x => refs'[f] = refs[f]
        /\ refs'[x] = refs[x] \/ refs'[x] >= 1 \/ (<<h, x>> \in leases /\ refs[x] <= 1)
    <3>1. CASE <<h, x>> \notin leases
      BY <2>3, <3>1
    <3>2. CASE <<h, x>> \in leases
      <4>1. refs' = [refs EXCEPT ![x] = @ - 1] /\ refs[x] >= 1
        BY <2>3, <3>2
      <4>2. /\ \A f \in Entries : f # x => refs'[f] = refs[f]
            /\ refs'[x] = refs[x] - 1 /\ refs[x] \in Nat
        BY <4>1
      <4>3. \A f \in Entries : refs'[f] >= 1 => refs[f] >= 1
        BY <4>1, <4>2
      <4>4. refs'[x] >= 1 \/ refs[x] <= 1
        BY <4>2
      <4>5. QED
        BY <3>2, <4>2, <4>3, <4>4
    <3>3. QED
      BY <3>1, <3>2
  <2>5. \A q \in Procs, f \in Entries : ToClose(q, f) => ToClose(q, f)'
    BY <2>1 DEF DropsAway
  <2>6. <<h, x>> \in leases /\ refs[x] <= 1 /\ conn[x] = "up" => ToClose(p, x)'
    BY <2>1 DEF DropsAway
  <2>7. h \in Entries => conn[h] # "up"
    <3>1. SUFFICES ASSUME h \in Entries, conn[h] = "up" PROVE FALSE
      OBVIOUS
    <3>2. /\ todo[p] \in Seq(Items) /\ todo[p] # <<>> /\ Head(todo[p]) = DropItem(h, x)
      BY <2>1 DEF DropsAway
    <3>3. 1 \in 1..Len(todo[p]) /\ todo[p][1] = DropItem(h, x)
      BY <3>2
    <3>4. CloseFirstIn(todo[p], Up) /\ h \in Up
      BY <3>1 DEF CloseFirst, Up
    <3>5. \E j \in 1..(1 - 1) : todo[p][j] = CloseItem(h)
      BY <3>3, <3>4 DEF CloseFirstIn
    <3>6. QED
      BY <3>5
  <2>8. h \in Entries /\ phase[h] = "ready" => refs[h] = 0 \/ closed
    BY <2>1 DEF DropsAway, ItemShape, DropOk
  <2>9. \A f, g \in Entries : f # h /\ <<f, g>> \in leases => <<f, g>> \in leases'
    BY <2>1 DEF DropsAway
  <2>10. \A f \in Entries : HopOf(f)'
    <3>1. TAKE f \in Entries
    <3>2. conn'[f] = "up" /\ refs[f] >= 1 =>
            refs'[f] >= 1 \/ \E q \in Procs : ToClose(q, f)'
      <4>1. conn' = conn
        BY <2>2
      <4>2. CASE f # x
        BY <2>4, <4>2
      <4>3. CASE f = x /\ refs'[x] >= 1
        BY <4>3
      <4>4. CASE f = x /\ ~(refs'[x] >= 1)
        <5>1. refs[f] >= 1 /\ conn[f] = "up" => ToClose(p, f)'
          BY <2>4, <2>6, <4>4
        <5>2. QED
          BY <4>1, <5>1, Zenon
      <4>5. QED
        BY <4>2, <4>3, <4>4
    <3>3. conn'[f] = "up" \/ (~closed' /\ phase[f] = "ready" /\ refs'[f] >= 1) => f # h
      BY <2>2, <2>4, <2>7, <2>8
    <3>4. conn'[f] = "up" \/ (~closed' /\ phase[f] = "ready" /\ refs'[f] >= 1) =>
            \A g \in Entries : <<f, g>> \in leases => <<f, g>> \in leases'
      BY <2>9, <3>3
    <3>5. QED
      BY <2>2, <2>4, <2>5, <3>2, <3>4, HopKept
  <2>11. QED
    BY <2>10 DEF HopShape
<1>15. ASSUME NEW p \in Procs, CloseClient(p) PROVE Goal'
  <2>1. PICK x \in Entries : ClosesAway(p, x)
    BY <1>15, CloseClientEffect
  <2>2. UNCHANGED <<closed, key, doomed, phase, refs, hops, leases>>
    BY <1>15 DEF CloseClient
  <2>3. /\ conn'[x] # "up" /\ \A f \in Entries : conn'[f] = "up" => conn[f] = "up"
        /\ \A q \in Procs, f \in Entries : f # x /\ ToClose(q, f) => ToClose(q, f)'
    BY <2>1 DEF ClosesAway
  <2>4. \A f \in Entries : HopOf(f)'
    <3>1. TAKE f \in Entries
    <3>2. QED
      BY <2>2, <2>3, HopKept
  <2>5. QED
    BY <2>4 DEF HopShape
<1>16. ASSUME NEW e \in Entries, Die(e) PROVE Goal'
  BY <1>16, SameWork, HopFrame DEF Die
<1>17. ASSUME NEW e \in Entries, Watch(e) PROVE Goal'
  BY <1>17, SameWork, HopFrame DEF Watch
<1>18. ASSUME NEW e \in Entries, CloseNext(e) PROVE Goal'
  <2>1. conn[e] # "none"
    BY <1>18 DEF CloseNext, ClosedShape, PhaseShape
  <2>2. \A q \in Procs, f \in Entries : ToClose(q, f) => ToClose(q, f)'
    BY <1>18, <2>1, CloseNextEffect
  <2>3. QED
    BY <1>18, <2>2, HopFrame DEF CloseNext
<1>19. ASSUME Close PROVE Goal'
  <2>1. /\ ~closed /\ closed' /\ UNCHANGED <<key, conn, refs, phase, hops, leases, todo>>
        /\ doomed' \subseteq InMap
    BY <1>19 DEF Close
  <2>2. \A f \in Entries : f \in doomed' => refs[f] >= 1
    BY <2>1 DEF InMap, MapShape, RefShape, RefOf
  <2>3. \A q \in Procs, f \in Entries : ToClose(q, f) => ToClose(q, f)'
    BY <2>1, SameWork
  <2>4. \A f \in Entries : HopOf(f)'
    <3>1. TAKE f \in Entries
    <3>2. QED
      BY <2>1, <2>2, <2>3, HopKept
  <2>5. QED
    BY <2>4 DEF HopShape
<1>20. ASSUME UNCHANGED vars PROVE Goal'
  BY <1>20, SameWork, HopFrame DEF vars
<1> HIDE Distinct DEF Goal, IInv, TypeOK, entryVars, callerVars
<1>21. Goal'
  BY <1>1, <1>2, <1>3, <1>4, <1>5, <1>6, <1>7, <1>8, <1>9, <1>10, <1>11,
     <1>12, <1>13, <1>14, <1>15, <1>16, <1>17, <1>18, <1>19, <1>20
  DEF Next, Acquire, DialEnds, WaitEnds, Work
<1>22. QED
  BY <1>21 DEF Goal

(***************************************************************************)
(* The invariant holds initially, every step keeps it, and it says what    *)
(* the runs check.                                                         *)
(***************************************************************************)
LEMMA InitIInv == Init => IInv
<1> SUFFICES ASSUME Init PROVE IInv
  OBVIOUS
<1>1. \A p \in Procs : todo[p] = <<>>
  BY DEF Init
<1>2. /\ \A p \in Procs, e \in Entries : ~ToClose(p, e)
      /\ \A p \in Procs, h \in Callers \cup Entries, e \in Entries : ~ToDrop(p, h, e)
  BY <1>1, RangeEmpty DEF ToClose, ToDrop
<1>3. TypeOK
  <2>1. <<>> \in Seq(Entries) /\ <<>> \in Seq(Items)
    OBVIOUS
  <2>2. /\ hops \in [Entries -> Seq(Entries)] /\ borrowed \in [Callers -> Seq(Entries)]
        /\ todo \in [Procs -> Seq(Items)]
    BY <2>1 DEF Init
  <2>3. QED
    BY <2>2 DEF Init, TypeOK, Phases
<1>4. MapShape /\ PhaseShape
  BY DEF Init, MapShape, PhaseShape
<1>5. CallerShape /\ RouteShape /\ DialShape
  BY <1>1, Distinct DEF Init, CallerShape, RouteShape, DialShape, Dials, Procs
<1>6. RefShape
  <2>1. ASSUME NEW e \in Entries PROVE RefOf(e)
    <3>1. LeasesOn(e) = {} /\ Awaiting(e) = {} /\ Routing(e) = {}
      BY Distinct DEF Init, LeasesOn, Awaiting, Routing
    <3>2. Uses(e) = 0
      BY <3>1, FS_EmptySet DEF Uses
    <3>3. QED
      BY <3>2 DEF RefOf, Init
  <2>2. QED
    BY <2>1, FS_EmptySet DEF RefShape, Init
<1>7. LeaseShape
  BY DEF LeaseShape, Init
<1>8. ItemShape
  BY <1>2 DEF ItemShape
<1>9. CloseFirst
  BY <1>1 DEF CloseFirst, CloseFirstIn
<1>10. ClosedShape
  BY <1>1, <1>2 DEF ClosedShape, ClosedOf, Init, Procs
<1>11. HopShape
  BY DEF HopShape, HopOf, Init
<1>12. OneDialPerKey
  BY DEF OneDialPerKey, Init
<1>13. QED
  BY <1>3, <1>4, <1>5, <1>6, <1>7, <1>8, <1>9, <1>10, <1>11, <1>12 DEF IInv

(* Every step keeps the invariant. *)
LEMMA StepIInv == IInv /\ [Next]_vars => IInv'
  BY TypesStep, MapStep, PhaseStep, CallerStep, RouteStep, DialStep, RefStep,
     LeaseStep, ItemStep, CloseFirstStep, ClosedStep, HopStep, OneDialStep
  DEF IInv

(* So it holds in every reachable state. *)
LEMMA SpecIInv == Spec => []IInv
  BY InitIInv, StepIInv, PTL DEF Spec

(* The variables keep their types; in particular refs is never decremented   *)
(* below zero, whoever releases twice or cancels a wait (release).           *)
THEOREM TypeCorrect == Spec => []TypeOK
<1>1. IInv => TypeOK
  BY DEF IInv
<1>2. QED
  BY <1>1, SpecIInv, PTL

(* A set of naturals has a least element. *)
LEMMA Least ==
  ASSUME NEW S \in SUBSET Nat, S # {}
  PROVE  \E n \in S : \A m \in S : ~(m < n)
<1>1. PICK n \in S : \A m \in S : ~(<<m, n>> \in OpToRel(<, Nat))
  BY WFMin, NatLessThanWellFounded
<1>2. \A m \in S : ~(m < n)
  <2>1. TAKE m \in S
  <2>2. m < n => <<m, n>> \in OpToRel(<, Nat)
    BY Zenon DEF OpToRel
  <2>3. QED
    BY <1>1, <2>2, Zenon
<1>3. QED
  BY <1>2

(* When nobody acquires, holds or tears down, an entry is only used by a     *)
(* deeper one.                                                               *)
Quiet == (\A c \in Callers : pc[c] = "idle") /\ (\A p \in Procs : todo[p] = <<>>)

(* Then every lease has a used entry behind it, which is deeper. *)
LEMMA QuietUse ==
  ASSUME IInv, Quiet
  PROVE  /\ \A p \in Procs, e \in Entries : ~ToClose(p, e)
         /\ \A e \in Entries : phase[e] = "ready" /\ refs[e] >= 1 =>
              \E g : <<g, e>> \in leases
         /\ \A h, e : <<h, e>> \in leases =>
              /\ h \in Entries /\ e \in Entries /\ phase[h] = "ready" /\ refs[h] >= 1
              /\ Depth(e) < Depth(h)
<1>1. /\ \A p \in Procs, e \in Entries : ~ToClose(p, e)
      /\ \A p \in Procs, h \in Callers \cup Entries, e \in Entries : ~ToDrop(p, h, e)
  BY RangeEmpty DEF Quiet, ToClose, ToDrop
<1>2. \A c \in Callers : pc[c] = "idle" /\ mine[c] = None
  BY DEF Quiet, IInv, CallerShape
<1>3. ASSUME NEW e \in Entries, phase[e] = "ready", refs[e] >= 1
      PROVE  \E g : <<g, e>> \in leases
  <2>1. Awaiting(e) = {} /\ Routing(e) = {}
    BY <1>2, Distinct DEF Awaiting, Routing
  <2>2. refs[e] = Cardinality(LeasesOn(e))
    <3>1. Cardinality(Awaiting(e)) = 0 /\ Cardinality(Routing(e)) = 0
      BY <2>1, FS_EmptySet
    <3>2. refs[e] = Uses(e)
      BY <1>3 DEF IInv, RefShape, RefOf
    <3>3. Cardinality(LeasesOn(e)) \in Nat
      BY UsesCount DEF IInv, RefShape
    <3>4. QED
      BY <3>1, <3>2, <3>3 DEF Uses
  <2>3. LeasesOn(e) # {}
    BY <1>3, <2>2, FS_EmptySet
  <2>4. PICK l \in leases : l[2] = e
    BY <2>3 DEF LeasesOn
  <2>5. l = <<l[1], e>>
    BY <2>4 DEF IInv, TypeOK
  <2>6. QED
    BY <2>4, <2>5
<1>4. ASSUME NEW h, NEW e, <<h, e>> \in leases
      PROVE  /\ h \in Entries /\ e \in Entries /\ phase[h] = "ready" /\ refs[h] >= 1
             /\ Depth(e) < Depth(h)
  <2>1. h \in Callers \cup Entries /\ e \in Entries
    BY <1>4 DEF IInv, TypeOK
  <2>2. LeaseOf(h, e)
    BY <1>4, <2>1 DEF IInv, LeaseShape
  <2>3. h \notin Callers
    BY <1>1, <1>2, <2>1, <2>2 DEF LeaseOf, Procs
  <2>4. QED
    BY <1>1, <1>2, <2>1, <2>2, <2>3, Distinct DEF LeaseOf
<1>5. QED
  BY <1>1, <1>3, <1>4

(* Leases do not keep each other: of two entries one is deeper, and no       *)
(* route is longer than MaxJumpChain.                                        *)
LEMMA QuietNoLease ==
  ASSUME IInv, Quiet
  PROVE  leases = {}
<1>1. ASSUME NEW e \in Entries, phase[e] # "unborn"
      PROVE  Depth(e) \in Nat /\ MaxJumpChain \in Nat /\ MaxJumpChain - Depth(e) \in Nat
  <2>1. Depth(e) \in Nat /\ key[e] \in Keys
    BY <1>1, DepthIs
  <2>2. MaxJumpChain \in Nat /\ Depth(e) <= MaxJumpChain
    BY <2>1, PoolAssumption DEF Depth
  <2>3. QED
    BY <2>1, <2>2
<1> DEFINE S == {MaxJumpChain - Depth(e) : e \in {f \in Entries :
                   phase[f] = "ready" /\ \E g : <<g, f>> \in leases}}
<1>2. S \in SUBSET Nat
  BY <1>1
<1>3. ASSUME NEW n \in S PROVE \E m \in S : m < n
  <2>1. PICK e \in Entries : /\ n = MaxJumpChain - Depth(e) /\ phase[e] = "ready"
                             /\ \E g : <<g, e>> \in leases
    OBVIOUS
  <2>2. PICK h : <<h, e>> \in leases
    BY <2>1
  <2>3. h \in Entries /\ phase[h] = "ready" /\ refs[h] >= 1 /\ Depth(e) < Depth(h)
    BY <2>2, QuietUse
  <2>4. \E g : <<g, h>> \in leases
    BY <2>3, QuietUse
  <2>5. MaxJumpChain - Depth(h) \in S
    BY <2>3, <2>4
  <2>6. MaxJumpChain - Depth(h) < n
    BY <1>1, <2>1, <2>3
  <2>7. QED
    BY <2>5, <2>6
<1>4. S = {}
  <2> HIDE DEF S
  <2>1. QED
    BY <1>2, <1>3, Least
<1>5. ASSUME NEW l \in leases PROVE FALSE
  <2>1. l = <<l[1], l[2]>> /\ l[2] \in Entries
    BY DEF IInv, TypeOK
  <2>2. phase[l[2]] = "ready"
    BY DEF IInv, RefShape
  <2>3. MaxJumpChain - Depth(l[2]) \in S
    BY <2>1, <2>2
  <2>4. QED
    BY <1>4, <2>3
<1>6. QED
  BY <1>5

(* The books of the pool always agree, with any routes, callers and entry    *)
(* objects, and whatever was shared, cancelled, lost or failed half way:     *)
(* the map has exactly the entries not evicted, refs is the number of those  *)
(* who use the entry, a key is dialled by one caller at a time, and when     *)
(* all is quiet nothing is leased or up (Acquire, wait, release, evict,      *)
(* dialThrough).                                                             *)
THEOREM BooksAlwaysAgree == Spec => []Accounted
<1>1. IInv => Accounted
  <2>1. SUFFICES ASSUME IInv PROVE Accounted
    OBVIOUS
  <2>2. MapMatches
    BY <2>1, Distinct DEF IInv, TypeOK, MapShape, MapMatches, InMap
  <2>3. RefsAccounted
    BY <2>1 DEF IInv, RefShape, RefOf, RefsAccounted, Uses
  <2>4. NothingLeaks
    <3>1. SUFFICES ASSUME Quiet PROVE leases = {} /\ \A e \in Entries : conn[e] # "up"
      BY DEF NothingLeaks, Quiet
    <3>2. leases = {}
      BY <2>1, <3>1, QuietNoLease
    <3>3. ASSUME NEW e \in Entries, conn[e] = "up" PROVE FALSE
      <4>1. phase[e] = "ready"
        BY <2>1, <3>3 DEF IInv, PhaseShape
      <4>2. refs[e] >= 1
        BY <2>1, <3>1, <3>3, QuietUse DEF IInv, HopShape, HopOf
      <4>3. QED
        BY <2>1, <3>1, <3>2, <4>1, <4>2, QuietUse
    <3>4. QED
      BY <3>2, <3>3
  <2>5. QED
    BY <2>1, <2>2, <2>3, <2>4 DEF Accounted, IInv
<1>2. QED
  BY <1>1, SpecIInv, PTL

(* Nothing is ever closed under whoever uses it: no connection that is       *)
(* leased or waited for, no hop of a connection that is up, and Close sends  *)
(* every disconnect through a live route, in whatever order the goroutines   *)
(* release what they have (release, Close).                                  *)
THEOREM NothingEverPulledAway == Spec => []NothingPulledAway
<1>1. IInv => NothingPulledAway
  <2>1. SUFFICES ASSUME IInv PROVE NothingPulledAway
    OBVIOUS
  <2>2. ASSUME NEW e \in Entries, conn[e] = "closed" PROVE refs[e] = 0 \/ ShutFrom(e)
    BY <2>1, <2>2 DEF IInv, ClosedShape, ClosedOf
  <2>3. TypeOK /\ RefShape
    BY <2>1 DEF IInv
  <2>4. LeasedStayOpen
    <3>1. SUFFICES ASSUME ~closed, NEW e \in Entries, conn[e] = "closed"
                   PROVE  /\ LeasesOn(e) = {}
                          /\ \A c \in Callers : pc[c] = "wait" => cur[c] # e
      BY DEF LeasedStayOpen
    <3>2. refs[e] = 0
      BY <2>2, <3>1 DEF ShutFrom
    <3>3. ASSUME NEW l \in leases, l[2] = e PROVE FALSE
      <4>1. l = <<l[1], e>>
        BY <2>3, <3>3 DEF TypeOK
      <4>2. refs[e] >= 1
        BY <2>3, <4>1, Counted
      <4>3. QED
        BY <3>2, <4>2
    <3>4. \A c \in Callers : pc[c] = "wait" => cur[c] # e
      BY <2>3, <3>2, Counted
    <3>5. QED
      BY <3>3, <3>4 DEF LeasesOn
  <2>5. ASSUME NEW e \in Entries, conn[e] = "up", NEW h \in Range(hops[e]), conn[h] = "closed"
        PROVE  ShutFrom(h) /\ Depth(h) < Depth(e) /\ Depth(h) \in Nat /\ Depth(e) \in Nat
    <3>1. h \in Entries /\ <<e, h>> \in leases
      BY <2>1, <2>3, <2>5, RangeTyped DEF TypeOK, IInv, HopShape, HopOf
    <3>2. refs[h] >= 1
      BY <2>3, <3>1, Counted
    <3>3. Depth(h) < Depth(e)
      BY <2>1, <3>1 DEF IInv, LeaseShape, LeaseOf
    <3>4. phase[e] = "ready" /\ phase[h] = "ready"
      BY <2>1, <2>5, <3>1 DEF IInv, PhaseShape
    <3>5. QED
      BY <2>1, <2>2, <2>5, <3>1, <3>2, <3>3, <3>4, DepthIs
  <2>6. RouteHeld
    BY <2>5 DEF RouteHeld, ShutFrom
  <2>7. ShutdownDeepestFirst
    BY <2>5 DEF ShutdownDeepestFirst, ShutFrom, ToClose
  <2>8. QED
    BY <2>4, <2>6, <2>7 DEF NothingPulledAway
<1>2. QED
  BY <1>1, SpecIInv, PTL
=============================================================================
