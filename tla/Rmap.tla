-------------------------------- MODULE Rmap --------------------------------
(***************************************************************************)
(* Resource maps (sys/sys/subr_rmap.c): malloc, malloc3 and mfree on a map *)
(* of free segments, and what their callers do when there is no room.  The *)
(* kernel has three maps: coremap, swapmap and ub_map.  For the first two  *)
(* malloc has unused text images thrown out (xuncore, xumount, which may   *)
(* sleep) and tries once more; for ub_map mapalloc sleeps until mapfree    *)
(* gives registers back.                                                   *)
(*                                                                         *)
(* The map is the sequence of its entries with m_size # 0.  The entry that *)
(* ends it (size and address 0) is moved with them by every shift, so it   *)
(* always sits in the slot after the last one.                             *)
(***************************************************************************)
EXTENDS Integers, FiniteSets, Sequences, SequencesExt

CONSTANTS
  Clients,  \* the processes that allocate
  Maps,     \* which of the kernel's maps are looked at
  Top,      \* the resource is the units 1..Top
  NSLOT,    \* entries in the array behind the map (CMAPSIZ, ...)
  Sizes,    \* the sizes malloc is asked for
  Sizes3    \* the data, stack and u. sizes malloc3 is asked for

AllMaps == {"coremap", "swapmap", "ub_map"}

ASSUME RmapAssumption ==
  /\ Maps \subseteq AllMaps
  /\ Top \in Nat \ {0} /\ NSLOT \in Nat \ {0}
  /\ Sizes \subseteq Nat \ {0}
  /\ Sizes3 \subseteq Nat \X Nat \X (Nat \ {0})

(* conf/param.c and machdep.c: m_limit is &map[NSLOT].                     *)
m_limit == NSLOT

VARIABLES
  which,      \* the map this is about; it never changes
  map,        \* m_map: a sequence of [addr, size]
  freemem,    \* free core, as the meter counts it
  held,       \* the segments in use
  cached,     \* the segments of text images that nobody executes
  lost,       \* the units mfree had no slot for
  req,        \* what each client is doing
  ub_wantmr   \* does a client sleep for map registers?

vars == <<which, map, freemem, held, cached, lost, req, ub_wantmr>>

Seg(a, n) == [addr |-> a, size |-> n]
End(e) == e.addr + e.size
Units(e) == e.addr .. (End(e) - 1)

(* A request: its sizes, one for malloc and three for malloc3, the sizes   *)
(* xuncore still has to make room for, and where its client is.            *)
Request(l, s, t) == [pc |-> l, sizes |-> s, todo |-> t]
Idle == Request("idle", <<>>, <<>>)

Reclaims == which \in {"coremap", "swapmap"}

-----------------------------------------------------------------------------
(* malloc: first fit.                                                      *)

Fits(m, n) == { i \in DOMAIN m : m[i].size >= n }
FirstFit(m, n) == CHOOSE i \in Fits(m, n) : \A j \in Fits(m, n) : i <= j

(* The first n units of entry i are taken; an entry used up goes away.     *)
Cut(m, i, n) ==
  IF m[i].size = n THEN RemoveAt(m, i)
  ELSE [m EXCEPT ![i] = Seg(@.addr + n, @.size - n)]

-----------------------------------------------------------------------------
(* malloc3: each entry is offered to the three requests in turn, and each  *)
(* takes the first that has room for it after what the ones before it took *)
(* of that entry.  While it scans only m_size is changed.                  *)

Pick(m, n) == IF Fits(m, n) = {} THEN 0 ELSE FirstFit(m, n)
Reduce(m, i, n) == IF i = 0 THEN m ELSE [m EXCEPT ![i].size = @ - n]
Restore(m, i, n) == IF i = 0 THEN m ELSE [m EXCEPT ![i].size = @ + n]

Scan3(m, s) ==
  LET i1 == Pick(m, s[1])    m1 == Reduce(m, i1, s[1])
      i2 == Pick(m1, s[2])   m2 == Reduce(m1, i2, s[2])
      i3 == Pick(m2, s[3])   m3 == Reduce(m2, i3, s[3])
  IN  [madd |-> <<i1, i2, i3>>, map |-> m3]

Found3(r) == \A k \in 1..3 : r.madd[k] # 0

(* Mutant: the size taken for the second request is not put back.          *)
Restore3Two(r, s) == Restore(Restore(r.map, r.madd[1], s[1]), r.madd[3], s[3])

(* Not all three found: put the sizes back.                                *)
Restore3(r, s) ==
  Restore(Restore(Restore(r.map, r.madd[1], s[1]), r.madd[2], s[2]), r.madd[3], s[3])

(* An entry of size 0 is squeezed out.                                     *)
Empty(m) == { i \in DOMAIN m : m[i].size = 0 }
Squeeze(m) == IF Empty(m) = {} THEN m ELSE RemoveAt(m, CHOOSE i \in Empty(m) : TRUE)

(* All found: hand out the addresses in turn, then remove the entries that *)
(* were used up, of which there are at most three.                         *)
Advance(m, i, n) == [m EXCEPT ![i].addr = @ + n]
Resolve3(r, s) ==
  LET a1 == r.map[r.madd[1]].addr   m1 == Advance(r.map, r.madd[1], s[1])
      a2 == m1[r.madd[2]].addr      m2 == Advance(m1, r.madd[2], s[2])
      a3 == m2[r.madd[3]].addr      m3 == Advance(m2, r.madd[3], s[3])
  IN  [segs |-> { e \in {Seg(a1, s[1]), Seg(a2, s[2]), Seg(a3, s[3])} : e.size # 0 },
       map |-> Squeeze(Squeeze(Squeeze(m3)))]

-----------------------------------------------------------------------------
(* mfree.                                                                  *)

(* The entry that starts after the returned space, or the end of the map.  *)
After(m, a) ==
  CHOOSE k \in 1..(Len(m) + 1) :
    /\ k <= Len(m) => m[k].addr > a
    /\ \A j \in 1..(k - 1) : m[j].addr <= a

AbutsLeft(m, e, k) == k > 1 /\ End(m[k - 1]) >= e.addr
AbutsRight(m, e, k) == k <= Len(m) /\ End(e) >= m[k].addr

(* ++bp > m_limit, with bp at the end of the map: no slot for an entry.    *)
Overflows(m, e) ==
  LET k == After(m, e.addr)
  IN  ~ AbutsLeft(m, e, k) /\ ~ AbutsRight(m, e, k) /\ Len(m) + 1 > m_limit

(* Mutant: a piece that abuts on both sides is only joined to the left.    *)
MapFreeLeftOnly(m, e) ==
  LET k == After(m, e.addr)
  IN  CASE AbutsLeft(m, e, k) -> [m EXCEPT ![k - 1].size = @ + e.size]
        [] ~ AbutsLeft(m, e, k) /\ AbutsRight(m, e, k) ->
             [m EXCEPT ![k] = Seg(e.addr, @.size + e.size)]
        [] Overflows(m, e) -> m
        [] OTHER -> InsertAt(m, k, e)

(* The map after mfree of the segment e.                                   *)
MapFree(m, e) ==
  LET k == After(m, e.addr)
      left == AbutsLeft(m, e, k)
      right == AbutsRight(m, e, k)
  IN  CASE left /\ right ->
             RemoveAt([m EXCEPT ![k - 1].size = @ + e.size + m[k].size], k)
        [] left /\ ~ right -> [m EXCEPT ![k - 1].size = @ + e.size]
        [] ~ left /\ right -> [m EXCEPT ![k] = Seg(e.addr, @.size + e.size)]
        [] Overflows(m, e) -> m
        [] OTHER -> InsertAt(m, k, e)

(* mfree(mp, e.size, e.addr): the meter counts the space as free before it *)
(* is known whether there is a slot for it.                                *)
Mfree(e) ==
  /\ map' = MapFree(map, e)
  /\ lost' = IF Overflows(map, e) THEN lost \cup Units(e) ELSE lost
  /\ freemem' = IF which = "coremap" THEN freemem + e.size ELSE freemem

-----------------------------------------------------------------------------
(* The calls.                                                              *)

At(p, l) == req[p].pc = l
Becomes(p, r) == req' = [req EXCEPT ![p] = r]

(* No room: what malloc or its caller does next.  xuncore is called for    *)
(* the smallest segment first; xumount(NODEV) throws every unused text     *)
(* out, as xuncore does that looks for more than there is.                 *)
NoRoom(p, s, retry) ==
  /\ UNCHANGED <<freemem, held>>
  /\ CASE Reclaims /\ ~ retry ->
            /\ Becomes(p, Request("reclaim", s,
                            IF which = "swapmap" THEN <<Top + 1>> ELSE Reverse(s)))
            /\ UNCHANGED ub_wantmr
       [] Reclaims /\ retry -> Becomes(p, Idle) /\ UNCHANGED ub_wantmr
       [] OTHER -> Becomes(p, Request("asleep", s, <<>>)) /\ ub_wantmr' = TRUE

Granted(p, S, m, n) ==
  /\ map' = m
  /\ held' = held \cup S
  /\ freemem' = IF which = "coremap" THEN freemem - n ELSE freemem
  /\ Becomes(p, Idle)
  /\ UNCHANGED ub_wantmr

Malloc(p, s, retry) ==
  IF Fits(map, s[1]) # {}
    THEN LET i == FirstFit(map, s[1])
         IN  Granted(p, {Seg(map[i].addr, s[1])}, Cut(map, i, s[1]), s[1])
    ELSE NoRoom(p, s, retry) /\ UNCHANGED map

Malloc3(p, s, retry) ==
  LET r == Scan3(map, s)
  IN  IF Found3(r)
        THEN Granted(p, Resolve3(r, s).segs, Resolve3(r, s).map, s[1] + s[2] + s[3])
        ELSE NoRoom(p, s, retry) /\ map' = Restore3(r, s)

CallMalloc(p) ==
  /\ At(p, "idle")
  /\ \E n \in Sizes : Malloc(p, <<n>>, FALSE)
  /\ UNCHANGED <<which, cached, lost>>

(* The data and stack of a new process may be empty, its u. never is.      *)
CallMalloc3(p) ==
  /\ At(p, "idle") /\ Reclaims
  /\ \E s \in Sizes3 : Malloc3(p, s, FALSE)
  /\ UNCHANGED <<which, cached, lost>>

(* xuncore, xumount: an unused text image is freed.  xuncore returns once  *)
(* it has freed an image that is large enough.                             *)
Xuncore(p) ==
  /\ At(p, "reclaim") /\ req[p].todo # <<>>
  /\ \E e \in cached :
       /\ Mfree(e)
       /\ cached' = cached \ {e}
       /\ Becomes(p, [req[p] EXCEPT !.todo = IF e.size >= Head(@) THEN Tail(@) ELSE @])
  /\ UNCHANGED <<which, held, ub_wantmr>>

(* A walk sees a text once and may end with images left in core: while it  *)
(* slept for the lock of a text or for its swap, that text may have come   *)
(* into use, which takes it off the free list and ends the walk there, and *)
(* a text behind it may have fallen free.                                  *)
XuncoreDone(p) ==
  /\ At(p, "reclaim") /\ req[p].todo # <<>>
  /\ Becomes(p, [req[p] EXCEPT !.todo = Tail(@)])
  /\ UNCHANGED <<which, map, freemem, held, cached, lost, ub_wantmr>>

(* After the last of its walks p tries again.                              *)
Retry(p) ==
  /\ At(p, "reclaim") /\ req[p].todo = <<>>
  /\ Becomes(p, Request("again", req[p].sizes, <<>>))
  /\ UNCHANGED <<which, map, freemem, held, cached, lost, ub_wantmr>>

(* The second try; mapalloc tries as often as it is woken.                 *)
Again(p) ==
  /\ At(p, "again")
  /\ IF Len(req[p].sizes) = 1
       THEN Malloc(p, req[p].sizes, TRUE)
       ELSE Malloc3(p, req[p].sizes, TRUE)
  /\ UNCHANGED <<which, cached, lost>>

(* Mutant: mapfree does not wake the sleepers up.                          *)
WakeupNobody ==
  /\ req' = req
  /\ ub_wantmr' = FALSE

(* mapfree: wakeup(ub_map).                                                *)
Wakeup ==
  /\ req' = [ p \in Clients |->
                IF At(p, "asleep") /\ ub_wantmr THEN [req[p] EXCEPT !.pc = "again"] ELSE req[p] ]
  /\ ub_wantmr' = FALSE

(* A segment is given back: all of it (exit, swapout, mapfree) or, when a  *)
(* segment shrinks (expand), its upper (data) or lower (stack) part.       *)
CallMfree ==
  /\ \E e \in held :
       /\ Mfree(e)
       /\ held' = held \ {e}
  /\ IF which = "ub_map" THEN Wakeup ELSE UNCHANGED <<req, ub_wantmr>>
  /\ UNCHANGED <<which, cached>>

ExpandData ==
  /\ which = "coremap"
  /\ \E e \in held : \E n \in 1..(e.size - 1) :
       /\ Mfree(Seg(e.addr + n, e.size - n))
       /\ held' = (held \ {e}) \cup {Seg(e.addr, n)}
  /\ UNCHANGED <<which, cached, req, ub_wantmr>>

ExpandStack ==
  /\ which = "coremap"
  /\ \E e \in held : \E n \in 1..(e.size - 1) :
       /\ Mfree(Seg(e.addr, n))
       /\ held' = (held \ {e}) \cup {Seg(e.addr + n, e.size - n)}
  /\ UNCHANGED <<which, cached, req, ub_wantmr>>

(* The last process leaves a text, or one starts to use it again.          *)
Xfree ==
  /\ Reclaims
  /\ \E e \in held : held' = held \ {e} /\ cached' = cached \cup {e}
  /\ UNCHANGED <<which, map, freemem, lost, req, ub_wantmr>>
Xalloc ==
  /\ \E e \in cached : cached' = cached \ {e} /\ held' = held \cup {e}
  /\ UNCHANGED <<which, map, freemem, lost, req, ub_wantmr>>

(* startup: the whole resource is freed into an empty map.                 *)
Init ==
  /\ which \in Maps
  /\ map = <<Seg(1, Top)>>
  /\ freemem = IF which = "coremap" THEN Top ELSE 0
  /\ held = {} /\ cached = {} /\ lost = {}
  /\ req = [p \in Clients |-> Idle]
  /\ ub_wantmr = FALSE

Next ==
  \/ \E p \in Clients :
       \/ CallMalloc(p) \/ CallMalloc3(p)
       \/ Xuncore(p) \/ XuncoreDone(p) \/ Retry(p) \/ Again(p)
  \/ CallMfree \/ ExpandData \/ ExpandStack \/ Xfree \/ Xalloc

Spec == Init /\ [][Next]_vars

-----------------------------------------------------------------------------
FreeUnits == UNION { Units(e) : e \in Range(map) }

(* The variables have the types of the structures they stand for.          *)
TypeOK ==
  /\ which \in AllMaps
  /\ map \in Seq([addr : 1..Top, size : 1..Top])
  /\ freemem \in 0..Top
  /\ held \subseteq [addr : 1..Top, size : 1..Top]
  /\ cached \subseteq [addr : 1..Top, size : 1..Top]
  /\ lost \subseteq 1..Top
  /\ \A p \in Clients : req[p].pc \in {"idle", "reclaim", "again", "asleep"}
  /\ ub_wantmr \in BOOLEAN

(* "The segments are sorted in address order", and two that abut are one:  *)
(* there is always a gap between an entry and the next.                    *)
SortedApart ==
  /\ TypeOK
  /\ \A i \in 1..(Len(map) - 1) : End(map[i]) < map[i + 1].addr

(* Every unit is in exactly one place: in one entry of the map, in one     *)
(* segment somebody uses, in one unused text, or lost to an overflow.  No  *)
(* order of malloc, malloc3, failed malloc3, mfree, shrinking and retrying *)
(* gives a unit to two owners or forgets one.  The meter of coremap counts *)
(* what is free, and what an overflow has lost.                            *)
UnitsConserved ==
  LET places(u) == Cardinality({ i \in DOMAIN map : u \in Units(map[i]) })
                   + Cardinality({ e \in held : u \in Units(e) })
                   + Cardinality({ e \in cached : u \in Units(e) })
                   + (IF u \in lost THEN 1 ELSE 0)
  IN  /\ held \cap cached = {}
      /\ \A u \in 1..Top : places(u) = 1
      /\ which = "coremap" => freemem = Cardinality(FreeUnits) + Cardinality(lost)

(* malloc and malloc3's caller are refused only for a reason: when malloc  *)
(* finds no entry there is no run of that many free units at all.          *)
Run(n) == \E a \in 1..(Top + 1 - n) : a..(a + n - 1) \subseteq FreeUnits
Refused(p) ==
  \/ req[p].pc = "idle" /\ req'[p].pc \in {"reclaim", "asleep"}
  \/ req[p].pc = "again" /\ held' = held /\ req'[p] # req[p]
RefusedOnlyWhenFull ==
  [][ \A p \in Clients :
        Refused(p) /\ Len((IF At(p, "again") THEN req ELSE req')[p].sizes) = 1
          => ~ Run((IF At(p, "again") THEN req ELSE req')[p].sizes[1]) ]_vars

(* Nobody sleeps for map registers while there are enough: mapfree wakes   *)
(* every sleeper and mapalloc looks again.                                 *)
SleepersBlocked ==
  \A p \in Clients : At(p, "asleep") => ub_wantmr /\ ~ Run(req[p].sizes[1])

(* map.h: m_limit is the "address of last slot in map": the entries and    *)
(* the one that ends the map fit in the array.                             *)
MapInArray == Len(map) + 1 <= NSLOT
=============================================================================
