---- MODULE SlotAllocationProofs ----
(***************************************************************************)
(* Theorems about SlotAllocation, for every set of memberships, callers and *)
(* applications and every clock, size, gap and rate limit.                  *)
(***************************************************************************)
EXTENDS SlotAllocation, WellFoundedInduction, TLAPS

(* Facts about the epoch arithmetic. *)

\* A nonempty set of naturals with an upper bound has a largest element, which
\* is what Max returns (the `max` of reserve_slot is well defined).
LEMMA MaxBounded ==
  ASSUME NEW N \in Nat, NEW S \in SUBSET (0..N), S # {}
  PROVE  Max(S) \in S /\ \A y \in S : Max(S) >= y
<1> DEFINE T == {x \in 0..N : N - x \in S}
           Less == {ss \in Nat \X Nat : ss[1] < ss[2]}
<1>1. IsWellFoundedOn(Less, Nat)
  BY NatLessThanWellFounded, Zenon DEF OpToRel
<1> HIDE DEF Less
<1>2. PICK z \in S : TRUE
  OBVIOUS
<1>3. N - z \in 0..N /\ N - (N - z) = z
  BY <1>2
<1>4. T \subseteq Nat /\ T # {}
  <2>1. N - z \in T
    BY <1>3
  <2>2. T \subseteq Nat
    OBVIOUS
  <2> HIDE DEF T
  <2> QED BY <2>1, <2>2
<1>5. PICK m \in T : \A y \in T : ~(<<y, m>> \in Less)
  BY <1>1, <1>4, WFMin, Zenon
<1>6. \A y \in T : ~(y < m)
  BY <1>4, <1>5 DEF Less
<1>7. ASSUME NEW y \in S PROVE N - m >= y
  <2>1. y \in 0..N /\ N - y \in T
    OBVIOUS
  <2> QED BY <1>6, <2>1
<1> QED BY <1>7 DEF Max

\* Dividing a time by an epoch size stays within the times.
LEMMA EpochType ==
  ASSUME NEW t \in Times, NEW size \in Sizes
  PROVE  CurrentEpoch(t, size) \in Epochs
<1>1. t \in Nat /\ size \in Nat /\ size >= 1 /\ t <= MaxTime
  BY TimeAssumption, SizesAssumption DEF Times
<1>2. t = size * (t \div size) + (t % size) /\ t % size \in 0..(size-1) /\ t \div size \in Int
  BY <1>1
<1>3. t \div size >= 0 /\ t \div size <= t
  BY <1>1, <1>2
<1> QED BY <1>1, <1>2, <1>3, TimeAssumption DEF CurrentEpoch, Epochs

\* Saturating operations stay within the times.
LEMMA SaturationType ==
  ASSUME NEW x \in Epochs, NEW y \in Nat
  PROVE  SatSub(x, y) \in Epochs /\ SatAdd(x, y) \in Epochs
BY TimeAssumption DEF Epochs, SatSub, SatAdd, MinOf

-----------------------------------------------------------------------------
(* Facts about reserve_slot. *)

\* The floor only moves up, never past the retain candidate, and when it moves
\* then to at most one past an epoch the section has a row for.
LEMMA ThresholdFacts ==
  ASSUME NEW sec \in Section, NEW cand \in Epochs
  PROVE  /\ Threshold(sec, cand) \in Epochs
         /\ sec.floor <= Threshold(sec, cand)
         /\ \/ Threshold(sec, cand) = sec.floor
            \/ /\ Threshold(sec, cand) <= cand
               /\ \E a \in Apps, x \in Epochs :
                    HasRow(sec, a, x) /\ Threshold(sec, cand) <= x + 1
<1> DEFINE P == PastAllocated(sec, cand)
<1>1. sec.floor \in Epochs
  BY DEF Section
<1>2. CASE P = {}
  BY <1>1, <1>2, TimeAssumption DEF Threshold, Epochs
<1>3. CASE P # {}
  <2>1. P \subseteq 0..MaxTime
    <3> SUFFICES ASSUME NEW e \in Epochs PROVE SatAdd(e, 1) \in Epochs
      BY DEF PastAllocated, Epochs
    <3> QED BY SaturationType
  <2>2. Max(P) \in P
    BY <1>3, <2>1, MaxBounded, TimeAssumption
  <2>3. PICK x \in Epochs : /\ Max(P) = SatAdd(x, 1)
                            /\ \E a \in Apps : HasRow(sec, a, x)
    BY <2>2 DEF PastAllocated
  <2>4. Max(P) \in Epochs /\ Max(P) <= x + 1
    BY <2>1, <2>2, <2>3, TimeAssumption DEF SatAdd, MinOf, Epochs
  <2>5. Threshold(sec, cand) = MaxOf(sec.floor, MinOf(cand, Max(P)))
    BY <1>3 DEF Threshold
  <2> HIDE DEF P
  <2> QED BY <1>1, <2>3, <2>4, <2>5, TimeAssumption DEF MaxOf, MinOf, Epochs
<1> QED BY <1>2, <1>3

\* What a granted reservation needed: the bound size, an epoch at or above the
\* new floor, and a counter below the rate limit.
LEMMA GrantedFacts ==
  ASSUME NEW sec \in Section, NEW r \in Request, ReserveReply(sec, r) = "slot"
  PROVE  /\ sec.size = 0 \/ sec.size = r.size
         /\ Threshold(sec, r.retain) <= r.epoch
         /\ sec.used[r.app][r.epoch] < r.rate
         /\ sec.used[r.app][r.epoch] \in Slots
<1>1. /\ ~SizeMismatch(sec, r.size)
      /\ ~BelowFloor(sec, r)
      /\ ~BudgetExhausted(sec, r)
  BY DEF ReserveReply
<1>2. /\ r.app \in Apps /\ r.epoch \in Epochs /\ r.retain \in Epochs
      /\ r.rate \in 0..MaxRate
  BY RatesAssumption DEF Request
<1>3. sec.used[r.app][r.epoch] \in 0..MaxRate
  BY <1>2 DEF Section
<1>4. Threshold(sec, r.retain) \in Epochs
  BY <1>2, ThresholdFacts
<1> QED BY <1>1, <1>2, <1>3, <1>4, RatesAssumption, TimeAssumption
        DEF SizeMismatch, BelowFloor, BudgetExhausted, Slots, Epochs

\* A granted reservation leaves a section.
LEMMA ReservedType ==
  ASSUME NEW sec \in Section, NEW r \in Request, ReserveReply(sec, r) = "slot"
  PROVE  Reserved(sec, r) \in Section
<1> DEFINE t == Threshold(sec, r.retain)
<1>1. r.retain \in Epochs /\ r.size \in Sizes /\ r.app \in Apps /\ r.epoch \in Epochs
  BY DEF Request
<1>2. t \in Epochs
  BY <1>1, ThresholdFacts
<1>3. sec.used \in [Apps -> [Epochs -> 0..MaxRate]]
  BY DEF Section
<1>4. sec.used[r.app][r.epoch] \in Slots
  BY GrantedFacts
<1>5. ASSUME NEW a \in Apps, NEW e \in Epochs
      PROVE  (IF e < t THEN 0
              ELSE IF a = r.app /\ e = r.epoch THEN sec.used[a][e] + 1
              ELSE sec.used[a][e]) \in 0..MaxRate
  <2>1. sec.used[a][e] \in 0..MaxRate
    BY <1>3
  <2> QED BY <1>4, <2>1, RatesAssumption DEF Slots
<1> HIDE DEF t
<1> QED BY <1>1, <1>2, <1>5 DEF Reserved, Section, t

-----------------------------------------------------------------------------
(* Type correctness. *)

LEMMA InitType == Init => TypeOK
<1> SUFFICES ASSUME Init PROVE TypeOK
  OBVIOUS
<1>1. EmptySection \in Section
  BY RatesAssumption, TimeAssumption DEF EmptySection, Section, Epochs
<1> QED BY <1>1 DEF Init, TypeOK

LEMMA RequestType ==
  ASSUME NEW m \in Members, NEW a \in Apps, NEW ts \in Times, NEW now \in Times,
         NEW rate \in RateLimits, config \in Config
  PROVE  RequestFor(m, a, ts, now, rate) \in Request
<1>1. config.size \in Sizes /\ config.gap \in Nat
  BY GapsAssumption DEF Config
<1>2. CurrentEpoch(ts, config.size) \in Epochs /\ CurrentEpoch(now, config.size) \in Epochs
  BY <1>1, EpochType
<1>3. SatSub(CurrentEpoch(now, config.size), config.gap) \in Epochs
  BY <1>1, <1>2, SaturationType
<1> QED BY <1>1, <1>2, <1>3 DEF RequestFor, Request

\* What Allocate starts from.
LEMMA AllocateFacts ==
  ASSUME TypeOK, NEW c \in Callers, Allocate(c)
  PROVE  /\ reqs[c] \in Request
         /\ reqs[c].member \in Members
         /\ mem[reqs[c].member] \in Section
         /\ ReserveReply(mem[reqs[c].member], reqs[c]) = "slot"
         /\ mem' = [mem EXCEPT ![reqs[c].member] = Reserved(mem[reqs[c].member], reqs[c])]
         /\ mem' \in [Members -> Section]
<1>1. reqs[c] \in Request
  BY DEF TypeOK, Allocate
<1>2. reqs[c].member \in Members
  BY <1>1 DEF Request
<1>3. mem[reqs[c].member] \in Section
  BY <1>2 DEF TypeOK
<1>4. /\ ReserveReply(mem[reqs[c].member], reqs[c]) = "slot"
      /\ mem' = [mem EXCEPT ![reqs[c].member] = Reserved(mem[reqs[c].member], reqs[c])]
  BY DEF Allocate
<1>5. Reserved(mem[reqs[c].member], reqs[c]) \in Section
  BY <1>1, <1>3, <1>4, ReservedType
<1> QED BY <1>1, <1>2, <1>3, <1>4, <1>5 DEF TypeOK

LEMMA AllocateType ==
  ASSUME TypeOK, NEW c \in Callers, Allocate(c)
  PROVE  /\ mem' \in [Members -> Section]
         /\ session' \in BOOLEAN
         /\ config' \in Config \cup {None}
         /\ reqs' \in [Callers -> Request \cup {None}]
         /\ spent' \in [Members -> SUBSET (Apps \X Epochs \X Slots)]
<1> DEFINE r == reqs[c]
           s == mem[r.member].used[r.app][r.epoch]
<1>1. r \in Request /\ s \in Slots /\ mem' \in [Members -> Section]
  BY AllocateFacts, GrantedFacts
<1>2. spent' = [spent EXCEPT ![r.member] = @ \cup {<<r.app, r.epoch, s>>}]
  BY DEF Allocate
<1>3. <<r.app, r.epoch, s>> \in Apps \X Epochs \X Slots /\ r.member \in Members
  BY <1>1 DEF Request
<1> HIDE DEF r, s
<1>4. spent' \in [Members -> SUBSET (Apps \X Epochs \X Slots)]
  BY <1>2, <1>3 DEF TypeOK
<1>5. reqs' = [reqs EXCEPT ![c] = None] /\ session' = session /\ config' = config
  BY DEF Allocate
<1> QED BY <1>1, <1>4, <1>5 DEF TypeOK

LEMMA NextType == TypeOK /\ [Next]_vars => TypeOK'
<1> SUFFICES ASSUME TypeOK, [Next]_vars PROVE TypeOK'
  OBVIOUS
<1>1. ASSUME NEW c \in Callers, NEW m \in Members, NEW a \in Apps, NEW ts \in Times,
             NEW now \in Times, NEW rate \in RateLimits, BeginProof(c, m, a, ts, now, rate)
      PROVE  TypeOK'
  <2>1. config \in Config
    BY <1>1 DEF BeginProof, TypeOK
  <2>2. RequestFor(m, a, ts, now, rate) \in Request
    BY <2>1, RequestType
  <2> QED BY <1>1, <2>2 DEF BeginProof, TypeOK
<1>2. ASSUME NEW c \in Callers, GiveUp(c) PROVE TypeOK'
  BY <1>2 DEF GiveUp, TypeOK
<1>3. ASSUME NEW c \in Callers, Reserve(c) PROVE TypeOK'
  <2> DEFINE r == reqs[c]
             s == mem[r.member].used[r.app][r.epoch]
  <2>1. Allocate(c)
    BY <1>3 DEF Reserve, ReturnSlot
  <2>2. r \in Request /\ s \in Slots
    BY <2>1, AllocateFacts, GrantedFacts
  <2>3. <<r.member, r.app, r.epoch, s>> \in Keys /\ r.member \in Members /\ r.size \in Sizes
    BY <2>2 DEF Keys, Request
  <2>4. /\ issued' = [issued EXCEPT ![<<r.member, r.app, r.epoch, s>>] = @ + 1]
        /\ sizes' = [sizes EXCEPT ![r.member] = @ \cup {r.size}]
        /\ disk' = mem'
    BY <1>3 DEF Reserve, ReturnSlot
  <2> HIDE DEF r, s
  <2>5. issued' \in [Keys -> Nat]
    BY <2>3, <2>4 DEF TypeOK
  <2>6. sizes' \in [Members -> SUBSET Sizes]
    BY <2>3, <2>4 DEF TypeOK
  <2> QED BY <2>1, <2>4, <2>5, <2>6, AllocateType DEF TypeOK
<1>4. ASSUME NEW c \in Callers, ReserveUnpersisted(c) PROVE TypeOK'
  <2>1. /\ Allocate(c) /\ issued' = issued /\ sizes' = sizes
        /\ disk' = disk \/ disk' = mem'
    BY <1>4 DEF ReserveUnpersisted
  <2> QED BY <2>1, AllocateType DEF TypeOK
<1>5. ASSUME Unlock PROVE TypeOK'
  BY <1>5 DEF Unlock, TypeOK
<1>6. ASSUME Lock PROVE TypeOK'
  BY <1>6 DEF Lock, TypeOK
<1>7. ASSUME Reopen PROVE TypeOK'
  <2>1. ASSUME NEW c \in Callers, reqs[c] # None
        PROVE  [reqs[c] EXCEPT !.live = FALSE] \in Request
    BY <2>1 DEF TypeOK, Request
  <2>2. reqs' \in [Callers -> Request \cup {None}]
    BY <1>7, <2>1 DEF Reopen
  <2> QED BY <1>7, <2>2 DEF Reopen, TypeOK
<1>8. ASSUME Restart PROVE TypeOK'
  BY <1>8 DEF Restart, TypeOK
<1>9. ASSUME NEW size \in Sizes, NEW gap \in Gaps, Start(size, gap) PROVE TypeOK'
  BY <1>9 DEF Start, TypeOK, Config
<1>10. CASE UNCHANGED vars
  BY <1>10 DEF vars, TypeOK
<1> QED BY <1>1, <1>2, <1>3, <1>4, <1>5, <1>6, <1>7, <1>8, <1>9, <1>10 DEF Next

\* Sections, requests and configuration keep their types for ever; the retain
\* candidate and the floor never leave the unsigned range (generate_proof_impl,
\* reserve_slot).
THEOREM TypeCorrect == Spec => []TypeOK
<1>1. Init => TypeOK
  BY InitType
<1>2. TypeOK /\ [Next]_vars => TypeOK'
  BY NextType
<1> QED BY <1>1, <1>2, PTL DEF Spec

-----------------------------------------------------------------------------
(* Slots are never reissued. *)

\* What a granted reservation does to its section: what was counted or below
\* the floor stays so, exactly the slot handed out is counted in addition, and
\* a floor that moves stays at or below the reserved epoch and at most one past
\* a row the section had before.
LEMMA ReservedFacts ==
  ASSUME NEW sec \in Section, NEW r \in Request, ReserveReply(sec, r) = "slot"
  PROVE  /\ \A a \in Apps, e \in Epochs, s \in Slots :
              s < sec.used[a][e] \/ e < sec.floor
                => s < Reserved(sec, r).used[a][e] \/ e < Reserved(sec, r).floor
         /\ sec.used[r.app][r.epoch] < Reserved(sec, r).used[r.app][r.epoch]
         /\ \A a \in Apps, e \in Epochs, s \in Slots :
              s < Reserved(sec, r).used[a][e]
                => \/ s < sec.used[a][e]
                   \/ a = r.app /\ e = r.epoch /\ s = sec.used[r.app][r.epoch]
         /\ Reserved(sec, r).size = r.size
         /\ \/ Reserved(sec, r).floor = sec.floor
            \/ /\ Reserved(sec, r).floor <= r.epoch + 1
               /\ \E a \in Apps, x \in Epochs :
                    0 < sec.used[a][x] /\ Reserved(sec, r).floor <= x + 1
<1> DEFINE t   == Threshold(sec, r.retain)
           u   == sec.used[r.app][r.epoch]
           new == Reserved(sec, r)
<1>1. r.app \in Apps /\ r.epoch \in Epochs /\ r.retain \in Epochs
  BY DEF Request
<1>2. t <= r.epoch /\ u \in Slots
  BY GrantedFacts
<1>3. t \in Epochs /\ sec.floor <= t
  BY <1>1, ThresholdFacts
<1>4. t = sec.floor \/ \E a \in Apps, x \in Epochs : 0 < sec.used[a][x] /\ t <= x + 1
  <2>1. \A a \in Apps, x \in Epochs : HasRow(sec, a, x) <=> 0 < sec.used[a][x]
    BY DEF HasRow, Section
  <2> QED BY <1>1, <2>1, ThresholdFacts
<1>5. /\ new.floor = t /\ new.size = r.size
      /\ \A a \in Apps, e \in Epochs : new.used[a][e] =
           IF e < t THEN 0
           ELSE IF a = r.app /\ e = r.epoch THEN sec.used[a][e] + 1
           ELSE sec.used[a][e]
  BY DEF Reserved
<1>6. \A a \in Apps, e \in Epochs : sec.used[a][e] \in Nat
  BY RatesAssumption DEF Section
<1>7. sec.floor \in Epochs
  BY DEF Section
<1> HIDE DEF t, new
<1>8. ASSUME NEW a \in Apps, NEW e \in Epochs, NEW s \in Slots,
             s < sec.used[a][e] \/ e < sec.floor
      PROVE  s < new.used[a][e] \/ e < new.floor
  BY <1>3, <1>5, <1>6, <1>7, <1>8, TimeAssumption, RatesAssumption DEF Epochs, Slots
<1>9. u < new.used[r.app][r.epoch]
  BY <1>1, <1>2, <1>3, <1>5, TimeAssumption, RatesAssumption DEF Epochs, Slots
<1>10. ASSUME NEW a \in Apps, NEW e \in Epochs, NEW s \in Slots, s < new.used[a][e]
       PROVE  s < sec.used[a][e] \/ (a = r.app /\ e = r.epoch /\ s = u)
  BY <1>5, <1>6, <1>10, RatesAssumption DEF Slots
<1>11. t <= r.epoch + 1
  BY <1>1, <1>2, <1>3, TimeAssumption DEF Epochs
<1> QED BY <1>4, <1>5, <1>8, <1>9, <1>10, <1>11 DEF new

LEMMA InitIInv == Init => IInv
<1> SUFFICES ASSUME Init PROVE IInv
  OBVIOUS
<1>1. \A k \in Keys : issued[k] = 0
  BY DEF Init
<1>2. \A m \in Members, a \in Apps, e \in Epochs, s \in Slots : <<m, a, e, s>> \in Keys
  BY DEF Keys
<1>3. \A m \in Members : /\ mem[m] = EmptySection /\ disk[m] = EmptySection
                         /\ sizes[m] = {}
  BY DEF Init
<1>4. \A a \in Apps, e \in Epochs, s \in Slots : ~(s < EmptySection.used[a][e])
  BY DEF EmptySection, Slots
<1>5. EmptySection.floor = 0
  BY DEF EmptySection
<1>6. NoReissue
  BY <1>1 DEF NoReissue
<1>7. Recorded(mem) /\ Recorded(disk)
  BY <1>1, <1>2, <1>3, <1>4, <1>5
     DEF Recorded, SlotsRecorded, SizeRecorded, RowsSpent, FloorWitnessed
<1> QED BY <1>6, <1>7 DEF IInv

\* The slot a caller is given has never been returned, nor any later one of
\* its pair.
LEMMA SlotIsNew ==
  ASSUME TypeOK, IInv, NEW c \in Callers, Allocate(c), NEW s \in Slots,
         s >= mem[reqs[c].member].used[reqs[c].app][reqs[c].epoch]
  PROVE  issued[<<reqs[c].member, reqs[c].app, reqs[c].epoch, s>>] = 0
<1> DEFINE r   == reqs[c]
           sec == mem[r.member]
           k   == <<r.member, r.app, r.epoch, s>>
<1>1. /\ r \in Request /\ sec \in Section /\ ReserveReply(sec, r) = "slot"
      /\ r.member \in Members /\ r.app \in Apps /\ r.epoch \in Epochs /\ r.retain \in Epochs
  BY AllocateFacts DEF Request
<1>2. Threshold(sec, r.retain) <= r.epoch /\ sec.used[r.app][r.epoch] \in Slots
  BY <1>1, GrantedFacts
<1>3. /\ sec.floor <= Threshold(sec, r.retain) /\ Threshold(sec, r.retain) \in Epochs
  BY <1>1, ThresholdFacts
<1>4. sec.floor \in Epochs
  BY <1>1 DEF Section
<1>5. issued[k] > 0 => s < sec.used[r.app][r.epoch] \/ r.epoch < sec.floor
  BY <1>1 DEF IInv, Recorded, SlotsRecorded
<1>6. issued[k] \in Nat
  BY <1>1 DEF TypeOK, Keys
<1> QED BY <1>1, <1>2, <1>3, <1>4, <1>5, <1>6, RatesAssumption, TimeAssumption DEF Slots, Epochs

\* A reservation keeps the records of memory, whether its slot is returned (k
\* and z are the slot and its epoch size) or wasted.
LEMMA AllocateRecorded ==
  ASSUME TypeOK, IInv, NEW c \in Callers, Allocate(c),
         \A m \in Members, a \in Apps, e \in Epochs, s \in Slots :
           issued'[<<m, a, e, s>>] > 0 =>
             \/ issued[<<m, a, e, s>>] > 0
             \/ /\ m = reqs[c].member /\ a = reqs[c].app /\ e = reqs[c].epoch
                /\ s = mem[m].used[a][e],
         \A m \in Members : \A z \in sizes'[m] :
           z \in sizes[m] \/ (m = reqs[c].member /\ z = reqs[c].size)
  PROVE  Recorded(mem)'
<1> DEFINE r   == reqs[c]
           sec == mem[r.member]
           new == Reserved(sec, r)
           u   == sec.used[r.app][r.epoch]
<1>1. /\ r \in Request /\ sec \in Section /\ ReserveReply(sec, r) = "slot"
      /\ r.member \in Members /\ r.app \in Apps /\ r.epoch \in Epochs
  BY AllocateFacts DEF Request
<1>2. u \in Slots /\ (sec.size = 0 \/ sec.size = r.size)
  BY <1>1, GrantedFacts
<1>3. /\ \A a \in Apps, e \in Epochs, s \in Slots :
           s < sec.used[a][e] \/ e < sec.floor => s < new.used[a][e] \/ e < new.floor
      /\ u < new.used[r.app][r.epoch]
      /\ \A a \in Apps, e \in Epochs, s \in Slots :
           s < new.used[a][e] => s < sec.used[a][e] \/ (a = r.app /\ e = r.epoch /\ s = u)
      /\ new.size = r.size
      /\ \/ new.floor = sec.floor
         \/ /\ new.floor <= r.epoch + 1
            /\ \E a \in Apps, x \in Epochs : 0 < sec.used[a][x] /\ new.floor <= x + 1
  BY <1>1, ReservedFacts
<1>4. \A m \in Members : mem'[m] = IF m = r.member THEN new ELSE mem[m]
  BY AllocateFacts DEF TypeOK
<1>5. \A m \in Members :
        spent'[m] = IF m = r.member THEN spent[m] \cup {<<r.app, r.epoch, u>>} ELSE spent[m]
  BY DEF Allocate, TypeOK
<1> HIDE DEF new
<1>6. SlotsRecorded(mem)'
  <2> SUFFICES ASSUME NEW m \in Members, NEW a \in Apps, NEW e \in Epochs, NEW s \in Slots,
                      issued'[<<m, a, e, s>>] > 0
               PROVE  s < mem'[m].used[a][e] \/ e < mem'[m].floor
    BY DEF SlotsRecorded
  <2>1. CASE issued[<<m, a, e, s>>] > 0
    <3>1. s < mem[m].used[a][e] \/ e < mem[m].floor
      BY <2>1 DEF IInv, Recorded, SlotsRecorded
    <3> QED BY <1>3, <1>4, <3>1
  <2>2. CASE /\ m = r.member /\ a = r.app /\ e = r.epoch
             /\ s = mem[m].used[a][e]
    BY <1>3, <1>4, <2>2
  <2> QED BY <2>1, <2>2
<1>7. SizeRecorded(mem)'
  <2> SUFFICES ASSUME NEW m \in Members, NEW z \in sizes'[m] PROVE mem'[m].size = z
    BY DEF SizeRecorded
  <2>1. CASE z \in sizes[m]
    <3>1. z \in Sizes /\ mem[m].size = z
      BY <2>1 DEF TypeOK, IInv, Recorded, SizeRecorded
    <3>2. z # 0
      BY <3>1, SizesAssumption
    <3> QED BY <1>2, <1>3, <1>4, <3>1, <3>2
  <2>2. CASE m = r.member /\ z = r.size
    BY <1>3, <1>4, <2>2
  <2> QED BY <2>1, <2>2
<1>8. RowsSpent(mem)'
  <2> SUFFICES ASSUME NEW m \in Members, NEW a \in Apps, NEW e \in Epochs, NEW s \in Slots,
                      s < mem'[m].used[a][e]
               PROVE  <<a, e, s>> \in spent'[m]
    BY DEF RowsSpent
  <2>1. s < mem[m].used[a][e] => <<a, e, s>> \in spent[m]
    BY DEF IInv, Recorded, RowsSpent
  <2>2. CASE m # r.member
    BY <1>4, <1>5, <2>1, <2>2
  <2>3. CASE m = r.member
    <3>1. s < sec.used[a][e] \/ (a = r.app /\ e = r.epoch /\ s = u)
      BY <1>3, <1>4, <2>3
    <3> QED BY <1>5, <2>1, <2>3, <3>1
  <2> QED BY <2>2, <2>3
<1>9. FloorWitnessed(mem)'
  <2> SUFFICES ASSUME NEW m \in Members, mem'[m].floor > 0
               PROVE  \E x, y \in spent'[m] : /\ x # y
                                              /\ mem'[m].floor <= x[2] + 1
                                              /\ mem'[m].floor <= y[2] + 1
    BY DEF FloorWitnessed
  <2>1. CASE mem'[m].floor = mem[m].floor
    <3>1. PICK x, y \in spent[m] : /\ x # y
                                   /\ mem[m].floor <= x[2] + 1
                                   /\ mem[m].floor <= y[2] + 1
      BY <2>1 DEF IInv, Recorded, FloorWitnessed
    <3>2. x \in spent'[m] /\ y \in spent'[m]
      BY <1>5
    <3> QED BY <2>1, <3>1, <3>2
  <2>2. CASE mem'[m].floor # mem[m].floor
    <3>1. m = r.member
      BY <1>4, <2>2
    <3>2. mem'[m].floor = new.floor /\ new.floor <= r.epoch + 1
      BY <1>3, <1>4, <2>2, <3>1
    <3>3. PICK a \in Apps, x \in Epochs : 0 < sec.used[a][x] /\ new.floor <= x + 1
      BY <1>3, <1>4, <2>2, <3>1
    <3>4. 0 \in Slots
      BY RatesAssumption DEF Slots
    <3>5. <<a, x, 0>> \in spent[m]
      BY <3>1, <3>3, <3>4 DEF IInv, Recorded, RowsSpent
    <3>6. a = r.app /\ x = r.epoch => u # 0
      BY <3>3
    <3>7. <<a, x, 0>> # <<r.app, r.epoch, u>>
      BY <3>6
    <3>8. <<a, x, 0>> \in spent'[m] /\ <<r.app, r.epoch, u>> \in spent'[m]
      BY <1>5, <3>1, <3>5
    <3> QED BY <3>2, <3>3, <3>7, <3>8
  <2> QED BY <2>1, <2>2
<1> QED BY <1>6, <1>7, <1>8, <1>9 DEF Recorded

\* A step that issues nothing and only adds reservations keeps the records of
\* the file it leaves alone.
LEMMA DiskRecorded ==
  ASSUME Recorded(disk), UNCHANGED <<disk, issued, sizes>>,
         \A m \in Members : spent[m] \subseteq spent'[m]
  PROVE  Recorded(disk)'
<1>1. SlotsRecorded(disk)' /\ SizeRecorded(disk)'
  BY DEF Recorded, SlotsRecorded, SizeRecorded
<1>2. RowsSpent(disk)'
  BY DEF Recorded, RowsSpent
<1>3. FloorWitnessed(disk)'
  BY DEF Recorded, FloorWitnessed
<1> QED BY <1>1, <1>2, <1>3 DEF Recorded

\* Steps that issue nothing and reserve nothing: memory keeps its sections or
\* takes those of the disk.
LEMMA QuietStep ==
  ASSUME IInv, UNCHANGED <<disk, issued, sizes, spent>>, mem' = mem \/ mem' = disk
  PROVE  IInv'
<1>1. NoReissue'
  BY DEF IInv, NoReissue
<1>2. Recorded(disk)'
  BY DiskRecorded DEF IInv
<1>3. CASE mem' = mem
  BY <1>1, <1>2, <1>3
     DEF IInv, Recorded, SlotsRecorded, SizeRecorded, RowsSpent, FloorWitnessed
<1>4. CASE mem' = disk
  BY <1>1, <1>2, <1>4
     DEF IInv, Recorded, SlotsRecorded, SizeRecorded, RowsSpent, FloorWitnessed
<1> QED BY <1>3, <1>4

LEMMA ReserveIInv ==
  ASSUME TypeOK, IInv, NEW c \in Callers, Reserve(c)
  PROVE  IInv'
<1> DEFINE r == reqs[c]
           u == mem[r.member].used[r.app][r.epoch]
           k == <<r.member, r.app, r.epoch, u>>
<1>1. Allocate(c) /\ disk' = mem'
  BY DEF Reserve, ReturnSlot
<1>2. /\ issued' = [issued EXCEPT ![k] = @ + 1]
      /\ sizes' = [sizes EXCEPT ![r.member] = @ \cup {r.size}]
  BY DEF Reserve, ReturnSlot
<1>3. r.member \in Members /\ r.app \in Apps /\ r.epoch \in Epochs /\ u \in Slots
  BY <1>1, AllocateFacts, GrantedFacts DEF Request
<1>4. k \in Keys
  BY <1>3 DEF Keys
<1>5. issued[k] = 0
  <2>1. u >= u
    BY <1>3 DEF Slots
  <2> QED BY <1>1, <1>3, <2>1, SlotIsNew
<1>6. \A j \in Keys : issued'[j] = IF j = k THEN 1 ELSE issued[j]
  <2>1. issued \in [Keys -> Nat]
    BY DEF TypeOK
  <2> HIDE DEF k
  <2> QED BY <1>2, <1>4, <1>5, <2>1
<1>7. NoReissue'
  BY <1>6 DEF NoReissue, IInv
<1>8. ASSUME NEW m \in Members, NEW a \in Apps, NEW e \in Epochs, NEW s \in Slots,
             issued'[<<m, a, e, s>>] > 0
      PROVE  \/ issued[<<m, a, e, s>>] > 0
             \/ /\ m = reqs[c].member /\ a = reqs[c].app /\ e = reqs[c].epoch
                /\ s = mem[m].used[a][e]
  <2>1. <<m, a, e, s>> \in Keys
    BY DEF Keys
  <2>2. issued'[<<m, a, e, s>>] = IF <<m, a, e, s>> = k THEN 1 ELSE issued[<<m, a, e, s>>]
    BY <1>6, <2>1
  <2> QED BY <1>8, <2>2
<1>9. ASSUME NEW m \in Members, NEW z \in sizes'[m]
      PROVE  z \in sizes[m] \/ (m = reqs[c].member /\ z = reqs[c].size)
  BY <1>2, <1>3, <1>9 DEF TypeOK
<1> HIDE DEF r, u, k
<1>10. Recorded(mem)'
  BY <1>1, <1>8, <1>9, AllocateRecorded
<1>11. Recorded(disk)'
  BY <1>1, <1>10 DEF Recorded, SlotsRecorded, SizeRecorded, RowsSpent, FloorWitnessed
<1> QED BY <1>7, <1>10, <1>11 DEF IInv

LEMMA UnpersistedIInv ==
  ASSUME TypeOK, IInv, NEW c \in Callers, ReserveUnpersisted(c)
  PROVE  IInv'
<1>1. Allocate(c) /\ UNCHANGED <<issued, sizes>> /\ (disk' = disk \/ disk' = mem')
  BY DEF ReserveUnpersisted
<1>2. NoReissue'
  BY <1>1 DEF IInv, NoReissue
<1>3. Recorded(mem)'
  <2>1. \A m \in Members, a \in Apps, e \in Epochs, s \in Slots :
          issued'[<<m, a, e, s>>] > 0 => issued[<<m, a, e, s>>] > 0
    BY <1>1
  <2>2. \A m \in Members : \A z \in sizes'[m] : z \in sizes[m]
    BY <1>1
  <2> QED BY <1>1, <2>1, <2>2, AllocateRecorded
<1>4. \A m \in Members : spent[m] \subseteq spent'[m]
  BY <1>1 DEF Allocate, TypeOK
<1>5. CASE disk' = disk
  BY <1>1, <1>2, <1>3, <1>4, <1>5, DiskRecorded DEF IInv
<1>6. CASE disk' = mem'
  <2>1. Recorded(disk)'
    BY <1>3, <1>6 DEF Recorded, SlotsRecorded, SizeRecorded, RowsSpent, FloorWitnessed
  <2> QED BY <1>2, <1>3, <2>1 DEF IInv
<1> QED BY <1>1, <1>5, <1>6

LEMMA NextIInv == TypeOK /\ IInv /\ [Next]_vars => IInv'
<1> SUFFICES ASSUME TypeOK, IInv, [Next]_vars PROVE IInv'
  OBVIOUS
<1>1. ASSUME NEW c \in Callers, NEW m \in Members, NEW a \in Apps, NEW ts \in Times,
             NEW now \in Times, NEW rate \in RateLimits, BeginProof(c, m, a, ts, now, rate)
      PROVE  IInv'
  BY <1>1, QuietStep DEF BeginProof
<1>2. ASSUME NEW c \in Callers, GiveUp(c) PROVE IInv'
  BY <1>2, QuietStep DEF GiveUp
<1>3. ASSUME NEW c \in Callers, Reserve(c) PROVE IInv'
  BY <1>3, ReserveIInv
<1>4. ASSUME NEW c \in Callers, ReserveUnpersisted(c) PROVE IInv'
  BY <1>4, UnpersistedIInv
<1>5. ASSUME Unlock \/ Lock PROVE IInv'
  BY <1>5, QuietStep DEF Unlock, Lock
<1>6. ASSUME Reopen \/ Restart PROVE IInv'
  BY <1>6, QuietStep DEF Reopen, Restart
<1>7. ASSUME NEW size \in Sizes, NEW gap \in Gaps, Start(size, gap) PROVE IInv'
  BY <1>7, QuietStep DEF Start
<1>8. CASE UNCHANGED vars
  BY <1>8, QuietStep DEF vars
<1> QED BY <1>1, <1>2, <1>3, <1>4, <1>5, <1>6, <1>7, <1>8 DEF Next

LEMMA Inductive == Spec => [](TypeOK /\ IInv)
<1>1. Init => TypeOK /\ IInv
  BY InitType, InitIInv
<1>2. TypeOK /\ IInv /\ [Next]_vars => (TypeOK /\ IInv)'
  BY NextType, NextIInv
<1> QED BY <1>1, <1>2, PTL DEF Spec

\* No slot is returned twice, whatever the clock, the configuration, the
\* writes and the restarts do (reserve_message_id over reserve_slot).
THEOREM SlotsNeverReissued == Spec => []NoReissue
<1>1. IInv => NoReissue
  BY DEF IInv
<1> QED BY <1>1, Inductive, PTL

\* Every slot returned is recorded in the file first (the durable write of
\* reserve_message_id).
THEOREM SlotsDurable == Spec => []DurableBeforeUse
<1>1. IInv => DurableBeforeUse
  BY DEF IInv, Recorded, DurableBeforeUse
<1> QED BY <1>1, Inductive, PTL

\* A membership's slots are all issued under one epoch size (the guard and the
\* adoption of epoch_size_sec in reserve_message_id).
THEOREM SizesNeverMix == Spec => []OneEpochSize
<1>1. IInv => OneEpochSize
  BY DEF IInv, Recorded, SizeRecorded, OneEpochSize
<1> QED BY <1>1, Inductive, PTL

\* One spiked clock reading cannot brick the future (the cap of the floor in
\* reserve_slot).
THEOREM FloorWitnesses == Spec => []FloorHasTwoWitnesses
<1>1. IInv => FloorHasTwoWitnesses
  BY DEF IInv, Recorded, FloorHasTwoWitnesses
<1> QED BY <1>1, Inductive, PTL

\* For a request whose retain candidate is not past its epoch the floor that a
\* reservation computes refuses no more than the persisted one.
LEMMA QuotaMirrors ==
  ASSUME NEW sec \in Section, NEW r, r.app \in Apps, r.epoch \in Epochs, r.retain \in Epochs,
         r.rate \in RateLimits, r.retain <= r.epoch, ~SectionFull(sec, r)
  PROVE  MirrorsReserve(sec, r)
<1> DEFINE u == sec.used[r.app][r.epoch]
<1>1. u \in 0..MaxRate /\ r.rate \in 0..MaxRate /\ sec.floor \in Epochs
  BY RatesAssumption DEF Section
<1>2. BelowFloor(sec, r) <=> r.epoch < sec.floor
  <2>1. PICK t \in Epochs : t = Threshold(sec, r.retain)
    BY ThresholdFacts
  <2>2. sec.floor <= t /\ (t = sec.floor \/ t <= r.retain)
    BY <2>1, ThresholdFacts
  <2>3. r.epoch < t <=> r.epoch < sec.floor
    BY <1>1, <2>2, TimeAssumption DEF Epochs
  <2> QED BY <2>1, <2>3 DEF BelowFloor
<1>3. CASE SizeMismatch(sec, r.size) \/ BelowFloor(sec, r)
  <2>1. ReserveReply(sec, r) = "permanent" /\ RemainingBudget(sec, r) = None
    BY <1>2, <1>3 DEF ReserveReply, RemainingBudget
  <2> QED BY <2>1 DEF MirrorsReserve
<1>4. CASE ~SizeMismatch(sec, r.size) /\ ~BelowFloor(sec, r)
  <2>1. PICK left : left = SatSub(r.rate, u)
    OBVIOUS
  <2>2. RemainingBudget(sec, r) = left
    BY <1>2, <1>4, <2>1 DEF RemainingBudget
  <2>3. ReserveReply(sec, r) = IF u >= r.rate THEN "budget_exhausted" ELSE "slot"
    BY <1>4 DEF ReserveReply, BudgetExhausted
  <2>4. left \in 0..MaxRate /\ (u >= r.rate <=> left = 0)
    BY <1>1, <2>1, RatesAssumption DEF SatSub
  <2>5. left # None
    BY <2>4, NoneAssumption
  <2> QED BY <2>2, <2>3, <2>4, <2>5 DEF MirrorsReserve
<1> QED BY <1>3, <1>4

\* What get_epoch_quota reports is what a reservation at the same moment would
\* answer (remaining_budget against reserve_message_id, below the row cap).
THEOREM QuotaIsHonest == Spec => []QuotaMirrorsReserveBelowCap
<1>1. TypeOK => QuotaMirrorsReserveBelowCap
  <2> SUFFICES ASSUME TypeOK, NEW r \in FreshRequests, ~SectionFull(mem[r.member], r)
               PROVE  MirrorsReserve(mem[r.member], r)
    BY DEF QuotaMirrorsReserveBelowCap
  <2>1. config # None
    BY DEF FreshRequests
  <2>2. config \in Config
    BY <2>1 DEF TypeOK
  <2>3. config.size \in Sizes /\ config.gap \in Nat
    BY <2>2, GapsAssumption DEF Config
  <2>4. PICK m \in Members, a \in Apps, rate \in RateLimits, ts \in Times, now \in Times :
          r = RequestFor(m, a, ts, now, rate) /\ Fresh(ts, now)
    BY <2>1 DEF FreshRequests
  <2>5. PICK e \in Epochs, n \in Epochs : e = CurrentEpoch(ts, config.size) /\ n = CurrentEpoch(now, config.size)
    BY <2>3, EpochType
  <2>6. PICK f \in Epochs : f = SatSub(n, config.gap)
    BY <2>3, SaturationType
  <2>7. f <= e
    BY <2>4, <2>5, <2>6 DEF Fresh, EpochInWindow
  <2>8. r = [member |-> m, app |-> a, epoch |-> e, retain |-> f, size |-> config.size, rate |-> rate,
             live |-> TRUE]
    BY <2>4, <2>5, <2>6 DEF RequestFor
  <2>9. /\ r.member = m /\ r.app \in Apps /\ r.epoch \in Epochs /\ r.retain \in Epochs
        /\ r.rate \in RateLimits /\ r.retain <= r.epoch
    BY <2>7, <2>8
  <2>10. mem[r.member] \in Section
    BY <2>9 DEF TypeOK
  <2> QED BY <2>9, <2>10, QuotaMirrors
<1> QED BY <1>1, TypeCorrect, PTL

-----------------------------------------------------------------------------
(* The allocator implements the ledger. *)

LEMMA ReserveIssues ==
  ASSUME TypeOK, IInv, NEW c \in Callers, Reserve(c)
  PROVE  Ledger!Next
<1> DEFINE r == reqs[c]
           u == mem[r.member].used[r.app][r.epoch]
           k == <<r.member, r.app, r.epoch, u>>
<1>1. Allocate(c) /\ issued' = [issued EXCEPT ![k] = @ + 1]
  BY DEF Reserve, ReturnSlot
<1>2. r.member \in Members /\ r.app \in Apps /\ r.epoch \in Epochs /\ u \in Slots
  BY <1>1, AllocateFacts, GrantedFacts DEF Request
<1>3. \A t \in Slots : t >= u => issued[<<r.member, r.app, r.epoch, t>>] = 0
  BY <1>1, SlotIsNew
<1>4. issued[k] = 0
  <2>1. u >= u
    BY <1>2 DEF Slots
  <2> QED BY <1>2, <1>3, <2>1
<1>5. issued' = [issued EXCEPT ![k] = 1]
  BY <1>1, <1>4
<1> HIDE DEF r, u
<1>6. Ledger!Issue(r.member, r.app, r.epoch, u)
  BY <1>3, <1>5 DEF Ledger!Issue
<1> QED BY <1>2, <1>6 DEF Ledger!Next

\* Slot allocation implements the ledger of slots issued once and in order:
\* only a reservation that is returned moves it (reserve_message_id).
THEOREM AllocationImplementsLedger == Spec => ImplementsLedger
<1>1. Init => Ledger!Init
  BY DEF Init, Ledger!Init, Keys, Ledger!Keys
<1>2. TypeOK /\ IInv /\ [Next]_vars => [Ledger!Next]_issued
  <2> SUFFICES ASSUME TypeOK, IInv, [Next]_vars PROVE Ledger!Next \/ issued' = issued
    OBVIOUS
  <2>1. ASSUME NEW c \in Callers, Reserve(c) PROVE Ledger!Next
    BY <2>1, ReserveIssues
  <2>2. CASE UNCHANGED vars
    BY <2>2 DEF vars
  <2>3. CASE \E c \in Callers :
               \/ \E m \in Members, a \in Apps, ts, now \in Times, rate \in RateLimits :
                    BeginProof(c, m, a, ts, now, rate)
               \/ GiveUp(c)
               \/ ReserveUnpersisted(c)
    BY <2>3 DEF BeginProof, GiveUp, ReserveUnpersisted
  <2>4. CASE Unlock \/ Lock \/ Reopen \/ Restart
    BY <2>4 DEF Unlock, Lock, Reopen, Restart
  <2>5. CASE \E size \in Sizes, gap \in Gaps : Start(size, gap)
    BY <2>5 DEF Start
  <2> QED BY <2>1, <2>2, <2>3, <2>4, <2>5 DEF Next
<1> QED BY <1>1, <1>2, Inductive, PTL DEF Spec, ImplementsLedger, Ledger!Spec
====
