------------------------- MODULE CodingPoolProofs -------------------------
(***************************************************************************)
(* Proofs about CodingPool, for every set of casts and requests, every     *)
(* limit and every number of asks.                                         *)
(***************************************************************************)
EXTENDS CodingPool, FiniteSetTheorems, WellFoundedInduction, TLAPS

(* The inductive invariant: the types, and the arrivals being an order.    *)
Inv == TypeOK /\ ArrivalsDistinct

(* Granting moves entries of the list to slots and touches nothing else.   *)
LEMMA GrantTypes ==
    ASSUME NEW slots \in SUBSET Request, NEW entries \in SUBSET Entry,
           Grant(slots, entries)
    PROVE  held' \subseteq Request /\ waiting' \subseteq entries
  BY DEF Grant, Granted, Requests, Entry

LEMMA InvInit == ASSUME PoolAssumption, Init PROVE Inv
  BY DEF Inv, Init, TypeOK, ArrivalsDistinct

LEMMA InvStep == ASSUME PoolAssumption, Inv, [Next]_vars PROVE Inv'
<1> USE DEF Inv, TypeOK, ArrivalsDistinct
<1>1. ASSUME NEW r \in Request, Requested(r) PROVE Inv'
  <2> DEFINE asked == [request |-> r, arrival |-> asks]
  <2>1. asked \in Entry /\ asks' = asks + 1 /\ limit' = limit
    BY <1>1 DEF Requested, Entry
  <2>2. held' \subseteq Request /\ waiting' \subseteq waiting \cup {asked}
    BY <1>1, <2>1, GrantTypes DEF Requested
  <2>3. \A v, w \in waiting \cup {asked} : v.arrival = w.arrival => v = w
    BY <2>1 DEF Entry
  <2>4. \A w \in waiting \cup {asked} : w.arrival < asks + 1
    BY <2>1 DEF Entry
  <2> QED BY <2>1, <2>2, <2>3, <2>4
<1>2. ASSUME NEW r \in Request, Released(r) PROVE Inv'
  <2>1. held' \subseteq Request /\ waiting' \subseteq waiting
    <3> DEFINE slots == held \ {r}
               entries == {w \in waiting : w.request # r}
    <3>1. slots \in SUBSET Request /\ entries \in SUBSET Entry
          /\ entries \subseteq waiting
      OBVIOUS
    <3>2. Grant(slots, entries) BY <1>2 DEF Released
    <3> HIDE DEF slots, entries
    <3> QED BY <3>1, <3>2, GrantTypes
  <2> QED BY <1>2, <2>1 DEF Released
<1>3. ASSUME NEW c \in Cast, Ended(c) PROVE Inv'
  <2>1. held' \subseteq Request /\ waiting' \subseteq waiting
    <3> DEFINE slots == {r \in held : Owner[r] # c}
               entries == {w \in waiting : Owner[w.request] # c}
    <3>1. slots \in SUBSET Request /\ entries \in SUBSET Entry
          /\ entries \subseteq waiting
      OBVIOUS
    <3>2. Grant(slots, entries) BY <1>3 DEF Ended
    <3> HIDE DEF slots, entries
    <3> QED BY <3>1, <3>2, GrantTypes
  <2> QED BY <1>3, <2>1 DEF Ended
<1>4. ASSUME NEW l \in Limit, Edited(l) PROVE Inv'
  BY <1>4 DEF Edited
<1>5. CASE UNCHANGED vars
  BY <1>5 DEF vars
<1> QED BY <1>1, <1>2, <1>3, <1>4, <1>5 DEF Next

(* The list's entries are requests, the slots are held by requests, and no *)
(* two entries arrived together, in every reachable state.                 *)
THEOREM InvCorrect == Spec => [](TypeOK /\ ArrivalsDistinct)
<1>1. Init => Inv BY InvInit, PoolAssumption
<1>2. Inv /\ [Next]_vars => Inv' BY InvStep, PoolAssumption
<1> QED BY <1>1, <1>2, PTL DEF Spec, Inv

-----------------------------------------------------------------------------

(* Of a set of entries granted something, one arrived last.                *)
LEMMA LastGranted ==
    ASSUME NEW entries \in SUBSET Entry, NEW granted \in SUBSET entries,
           granted # {}, NEW bound \in Nat,
           \A w \in entries : w.arrival < bound
    PROVE  \E w \in granted : \A v \in granted : v.arrival <= w.arrival
<1> DEFINE gaps == {bound - w.arrival : w \in granted}
<1>1. gaps \subseteq Nat /\ gaps # {}
  BY DEF Entry
<1>2. PICK least \in gaps : \A n \in gaps : <<n, least>> \notin OpToRel(<, Nat)
  BY <1>1, NatLessThanWellFounded, WFMin
<1>3. PICK w \in granted : least = bound - w.arrival
  BY DEF gaps
<1>4. ASSUME NEW v \in granted PROVE v.arrival <= w.arrival
  <2>1. ~(bound - v.arrival < least)
    BY <1>1, <1>2 DEF OpToRel
  <2> QED BY <2>1, <1>3 DEF Entry
<1> QED BY <1>3, <1>4

(* What one walk of the list leaves: the slots it was given, or no more    *)
(* than the limit.                                                         *)
LEMMA GrantBound ==
    ASSUME NEW slots \in SUBSET Request, NEW entries \in SUBSET Entry,
           IsFiniteSet(Request), limit \in Nat, NEW bound \in Nat,
           \A v, w \in entries : v.arrival = w.arrival => v = w,
           \A w \in entries : w.arrival < bound,
           Grant(slots, entries), limit' = limit
    PROVE  held' = slots \/ Cardinality(held') <= limit
<1> DEFINE granted == Granted(slots, entries)
<1>1. CASE granted = {}
  BY <1>1 DEF Grant, Requests
<1>2. CASE granted # {}
  <2>1. granted \subseteq entries BY DEF Granted
  <2>2. PICK w \in granted : \A v \in granted : v.arrival <= w.arrival
    BY <1>2, <2>1, LastGranted
  <2> DEFINE taken == slots \cup Requests(Ahead(entries, w))
  <2>3. taken \subseteq Request /\ w.request \in Request
    BY <2>1 DEF Requests, Ahead, Entry
  <2>4. Room(taken) BY <2>2 DEF Granted
  <2>5. held' \subseteq taken \cup {w.request}
    <3>1. ASSUME NEW v \in granted PROVE v = w \/ v \in Ahead(entries, w)
      BY <2>1, <2>2 DEF Ahead, Entry
    <3> QED BY <3>1 DEF Grant, Requests
  <2>6. IsFiniteSet(taken) /\ IsFiniteSet(taken \cup {w.request})
    <3>1. taken \cup {w.request} \subseteq Request BY <2>3
    <3> HIDE DEF taken
    <3> QED BY <2>3, <3>1, FS_Subset
  <2>7. Cardinality(taken \cup {w.request}) <= Cardinality(taken) + 1
    <3> HIDE DEF taken
    <3>1. Cardinality(taken \cup {w.request}) =
            IF w.request \in taken THEN Cardinality(taken)
                                   ELSE Cardinality(taken) + 1
      BY <2>6, FS_AddElement
    <3> QED BY <2>6, <3>1, FS_CardinalityType
  <2>8. Cardinality(held') <= Cardinality(taken \cup {w.request})
    BY <2>5, <2>6, FS_Subset
  <2>9. Cardinality(taken) + 1 <= limit
    <3> HIDE DEF taken
    <3>1. Cardinality(taken) \in Nat BY <2>6, FS_CardinalityType
    <3>2. Cardinality(taken) < limit BY <2>4, PoolAssumption DEF Room, PoolAssumption
    <3> QED BY <3>1, <3>2
  <2>10. IsFiniteSet(held') BY <2>5, <2>6, FS_Subset
  <2> HIDE DEF taken
  <2> QED BY <2>6, <2>7, <2>8, <2>9, <2>10, FS_CardinalityType
<1> QED BY <1>1, <1>2

(* An entry is granted only together with every entry ahead of it.         *)
LEMMA GrantOrder ==
    ASSUME NEW slots \in SUBSET Request, NEW entries \in SUBSET Entry,
           IsFiniteSet(Request), limit \in Nat \cup {NoLimit},
           NEW w \in Granted(slots, entries),
           NEW v \in entries, v.arrival < w.arrival
    PROVE  v \in Granted(slots, entries)
<1> DEFINE early == slots \cup Requests(Ahead(entries, v))
           late == slots \cup Requests(Ahead(entries, w))
<1>1. early \subseteq late /\ late \subseteq Request
  BY DEF Requests, Ahead, Entry, Granted
<1>2. Room(late) BY DEF Granted
<1>3. Room(early)
  <2> HIDE DEF early, late
  <2>1. IsFiniteSet(late) BY <1>1, FS_Subset
  <2>2. IsFiniteSet(early) /\ Cardinality(early) <= Cardinality(late)
    BY <1>1, <2>1, FS_Subset
  <2>3. Cardinality(early) \in Nat /\ Cardinality(late) \in Nat
    BY <2>1, <2>2, FS_CardinalityType
  <2> QED BY <1>2, <2>2, <2>3 DEF Room
<1> QED BY <1>3 DEF Granted

(* What is left waiting after a walk of the list was left because every    *)
(* slot is taken.                                                          *)
LEMMA GrantFills ==
    ASSUME NEW slots \in SUBSET Request, NEW entries \in SUBSET Entry,
           IsFiniteSet(Request), limit \in Nat \cup {NoLimit},
           Grant(slots, entries), limit' = limit
    PROVE  waiting' = {} \/ ~Room(held')
<1> DEFINE left == entries \ Granted(slots, entries)
           stamps == {w.arrival : w \in left}
<1>1. CASE left = {} BY <1>1 DEF Grant
<1>2. CASE left # {}
  <2>1. stamps \subseteq Nat /\ stamps # {} BY <1>2 DEF Entry
  <2>2. PICK least \in stamps : \A n \in stamps : <<n, least>> \notin OpToRel(<, Nat)
    BY <2>1, NatLessThanWellFounded, WFMin
  <2>3. PICK w \in left : least = w.arrival BY DEF stamps
  <2> DEFINE ahead == slots \cup Requests(Ahead(entries, w))
  <2>4. ASSUME NEW v \in Ahead(entries, w) PROVE v \in Granted(slots, entries)
    <3>1. v \in entries /\ v.arrival < w.arrival BY DEF Ahead
    <3>2. SUFFICES ASSUME v \in left PROVE FALSE BY <3>1
    <3>3. v.arrival \in stamps /\ <<v.arrival, least>> \notin OpToRel(<, Nat)
      BY <2>2, <3>2
    <3> QED BY <2>1, <2>3, <3>1, <3>3 DEF OpToRel
  <2>5. ahead \subseteq held' /\ held' \subseteq Request
    <3>1. Requests(Ahead(entries, w)) \subseteq Requests(Granted(slots, entries))
      BY <2>4 DEF Requests
    <3>2. Requests(Granted(slots, entries)) \subseteq Request
      BY DEF Requests, Granted, Entry
    <3> QED BY <3>1, <3>2 DEF Grant
  <2>6. ~Room(ahead) BY <2>3 DEF Granted
  <2>7. ~Room(held')
    <3> HIDE DEF ahead
    <3>1. IsFiniteSet(held') BY <2>5, FS_Subset
    <3>2. IsFiniteSet(ahead) /\ Cardinality(ahead) <= Cardinality(held')
      BY <2>5, <3>1, FS_Subset
    <3>3. Cardinality(ahead) \in Nat /\ Cardinality(held') \in Nat
      BY <3>1, <3>2, FS_CardinalityType
    <3> QED BY <2>6, <3>2, <3>3 DEF Room
  <2> QED BY <2>7
<1> QED BY <1>1, <1>2

-----------------------------------------------------------------------------

(* Every event ends in one walk of the list: over the slots that are still *)
(* held, and the entries that still wait or have just arrived.             *)
Walk(slots, entries) ==
    /\ slots \subseteq held
    /\ \A w \in entries \ waiting : w.arrival = asks
    /\ \A v, w \in entries : v.arrival = w.arrival => v = w
    /\ \A w \in entries : w.arrival < asks + 1
    /\ Grant(slots, entries)
    /\ limit' = limit

LEMMA EventsWalk ==
    ASSUME PoolAssumption, Inv, Next
    PROVE  \/ limit' # limit /\ UNCHANGED <<held, waiting>>
           \/ \E slots \in SUBSET Request, entries \in SUBSET Entry :
                 Walk(slots, entries)
<1> USE DEF Inv, TypeOK, ArrivalsDistinct
<1>1. ASSUME NEW r \in Request, Requested(r)
      PROVE  \E slots \in SUBSET Request, entries \in SUBSET Entry :
                Walk(slots, entries)
  <2> DEFINE asked == [request |-> r, arrival |-> asks]
             entries == waiting \cup {asked}
  <2>1. entries \in SUBSET Entry BY DEF Entry
  <2>2. /\ \A v, w \in entries : v.arrival = w.arrival => v = w
        /\ \A w \in entries : w.arrival < asks + 1
    BY DEF Entry
  <2>3. Grant(held, entries) /\ limit' = limit BY <1>1 DEF Requested
  <2>4. \A w \in entries \ waiting : w.arrival = asks OBVIOUS
  <2> HIDE DEF entries
  <2>5. Walk(held, entries) BY <2>2, <2>3, <2>4 DEF Walk
  <2> QED BY <2>1, <2>5
<1>2. ASSUME NEW r \in Request, Released(r)
      PROVE  \E slots \in SUBSET Request, entries \in SUBSET Entry :
                Walk(slots, entries)
  <2> DEFINE slots == held \ {r}
             entries == {w \in waiting : w.request # r}
  <2>1. slots \in SUBSET Request /\ entries \in SUBSET Entry OBVIOUS
  <2>2. /\ \A v, w \in entries : v.arrival = w.arrival => v = w
        /\ \A w \in entries : w.arrival < asks + 1
    BY DEF Entry
  <2>3. Grant(slots, entries) /\ limit' = limit BY <1>2 DEF Released
  <2>4. slots \subseteq held /\ entries \subseteq waiting OBVIOUS
  <2> HIDE DEF slots, entries
  <2>5. Walk(slots, entries) BY <2>2, <2>3, <2>4 DEF Walk
  <2> QED BY <2>1, <2>5
<1>3. ASSUME NEW c \in Cast, Ended(c)
      PROVE  \E slots \in SUBSET Request, entries \in SUBSET Entry :
                Walk(slots, entries)
  <2> DEFINE slots == {r \in held : Owner[r] # c}
             entries == {w \in waiting : Owner[w.request] # c}
  <2>1. slots \in SUBSET Request /\ entries \in SUBSET Entry OBVIOUS
  <2>2. /\ \A v, w \in entries : v.arrival = w.arrival => v = w
        /\ \A w \in entries : w.arrival < asks + 1
    BY DEF Entry
  <2>3. Grant(slots, entries) /\ limit' = limit BY <1>3 DEF Ended
  <2>4. slots \subseteq held /\ entries \subseteq waiting OBVIOUS
  <2> HIDE DEF slots, entries
  <2>5. Walk(slots, entries) BY <2>2, <2>3, <2>4 DEF Walk
  <2> QED BY <2>1, <2>5
<1>4. ASSUME NEW l \in Limit, Edited(l)
      PROVE  limit' # limit /\ UNCHANGED <<held, waiting>>
  BY <1>4 DEF Edited
<1> QED BY <1>1, <1>2, <1>3, <1>4 DEF Next

LEMMA LimitType ==
    ASSUME PoolAssumption, Inv PROVE limit \in Nat \cup {NoLimit}
  BY DEF PoolAssumption, Inv, TypeOK

(* However many sessions a release, a goodbye or a lowered limit leaves    *)
(* room for, a step that hands out slots leaves no more of them than the   *)
(* limit it read.                                                          *)
THEOREM GrantsWithinLimitCorrect == Spec => GrantsWithinLimit
<1> DEFINE Kept == held' \subseteq held \/ limit' = NoLimit
                     \/ Cardinality(held') <= limit'
<1>1. ASSUME Inv, Next PROVE Kept
  <2>1. CASE limit' # limit /\ UNCHANGED <<held, waiting>> BY <2>1
  <2>2. ASSUME NEW slots \in SUBSET Request, NEW entries \in SUBSET Entry,
               Walk(slots, entries)
        PROVE  Kept
    <3>1. asks + 1 \in Nat BY <1>1 DEF Inv, TypeOK
    <3>2. CASE limit = NoLimit BY <2>2, <3>2 DEF Walk
    <3>3. CASE limit \in Nat
      <4>1. held' = slots \/ Cardinality(held') <= limit
        BY <2>2, <3>1, <3>3, GrantBound, PoolAssumption DEF Walk, PoolAssumption
      <4> QED BY <2>2, <4>1 DEF Walk
    <3> QED BY <1>1, <3>2, <3>3, LimitType, PoolAssumption
  <2> QED BY <1>1, <2>1, <2>2, EventsWalk, PoolAssumption
<1>2. Inv /\ [Next]_vars => [Kept]_vars BY <1>1
<1>3. Init => Inv BY InvInit, PoolAssumption
<1>4. Inv /\ [Next]_vars => Inv' BY InvStep, PoolAssumption
<1> QED BY <1>2, <1>3, <1>4, PTL DEF Spec, GrantsWithinLimit

(* While anything is left waiting, whatever gets a slot, newly arrived or  *)
(* not, was in the list from before all that are left.                     *)
THEOREM NoOvertakingCorrect == Spec => NoOvertaking
<1> DEFINE InOrder == \A r \in held' \ held, v \in waiting' :
                         \E w \in waiting \ waiting' :
                            w.request = r /\ w.arrival < v.arrival
<1>1. ASSUME Inv, Next PROVE InOrder
  <2>1. CASE limit' # limit /\ UNCHANGED <<held, waiting>> BY <2>1
  <2>2. ASSUME NEW slots \in SUBSET Request, NEW entries \in SUBSET Entry,
               Walk(slots, entries)
        PROVE  InOrder
    <3>1. SUFFICES ASSUME NEW r \in held' \ held, NEW v \in waiting'
                   PROVE  \E w \in waiting \ waiting' :
                             w.request = r /\ w.arrival < v.arrival
      OBVIOUS
    <3>2. v \in entries /\ v \notin Granted(slots, entries)
      BY <2>2 DEF Walk, Grant
    <3>3. PICK w \in Granted(slots, entries) : w.request = r
      BY <2>2, <3>1 DEF Walk, Grant, Requests
    <3>4. w \in entries /\ w \notin waiting'
      BY <2>2, <3>3 DEF Walk, Grant, Granted
    <3>5. ~(v.arrival < w.arrival)
      BY <1>1, <3>2, <3>3, GrantOrder, LimitType, PoolAssumption
         DEF PoolAssumption
    <3>6. v.arrival # w.arrival BY <2>2, <3>2, <3>3, <3>4 DEF Walk
    <3>7. w.arrival < v.arrival BY <3>2, <3>4, <3>5, <3>6 DEF Entry
    <3>8. w \in waiting
      <4>1. v.arrival < asks + 1 /\ asks \in Nat
        BY <1>1, <2>2, <3>2 DEF Walk, Inv, TypeOK
      <4>2. w.arrival # asks BY <3>2, <3>4, <3>7, <4>1 DEF Entry
      <4> QED BY <2>2, <3>4, <4>2 DEF Walk
    <3> QED BY <3>3, <3>4, <3>7, <3>8
  <2> QED BY <1>1, <2>1, <2>2, EventsWalk, PoolAssumption
<1>2. Inv /\ [Next]_vars => [InOrder]_vars BY <1>1
<1>3. Init => Inv BY InvInit, PoolAssumption
<1>4. Inv /\ [Next]_vars => Inv' BY InvStep, PoolAssumption
<1> QED BY <1>2, <1>3, <1>4, PTL DEF Spec, NoOvertaking

(* Every event leaves a request waiting only while every slot is taken.    *)
THEOREM NoIdleSlotCorrect == Spec => NoIdleSlot
<1> DEFINE Full == limit' = limit => waiting' = {} \/ ~Room(held')
<1>1. ASSUME Inv, Next PROVE Full
  <2>1. CASE limit' # limit /\ UNCHANGED <<held, waiting>> BY <2>1
  <2>2. ASSUME NEW slots \in SUBSET Request, NEW entries \in SUBSET Entry,
               Walk(slots, entries)
        PROVE  Full
    <3>1. limit \in Nat \cup {NoLimit} BY <1>1, LimitType, PoolAssumption
    <3> QED BY <2>2, <3>1, GrantFills, PoolAssumption DEF Walk, PoolAssumption
  <2> QED BY <1>1, <2>1, <2>2, EventsWalk, PoolAssumption
<1>2. Inv /\ [Next]_vars => [Full]_vars BY <1>1
<1>3. Init => Inv BY InvInit, PoolAssumption
<1>4. Inv /\ [Next]_vars => Inv' BY InvStep, PoolAssumption
<1> QED BY <1>2, <1>3, <1>4, PTL DEF Spec, NoIdleSlot
===========================================================================
