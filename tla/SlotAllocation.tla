---- MODULE SlotAllocation ----
(***************************************************************************)
(* message_id allocation of the sealed store: rate_limit.rs and the reserve *)
(* path of store.rs, with the part of generate_proof that feeds it.         *)
(*                                                                          *)
(* A caller of generate_proof reads the clock and the configuration, fetches *)
(* a Merkle path (up to a minute), and only then reserves a slot under the   *)
(* store's mutex; meanwhile the clock may step, start() may reconfigure, the *)
(* keystore may be locked or re-opened, and other callers may reserve.  A    *)
(* reservation is written durably before its slot is used; the write may     *)
(* fail before or after the new file is in place, and the process may stop   *)
(* at any moment.                                                           *)
(*                                                                          *)
(* Memberships are honest entries of one registry (quarantine is another     *)
(* module's subject).  A section's rows are the function `used`: 0 stands    *)
(* for "no row", as the code never keeps a row with used = 0.                *)
(*                                                                          *)
(* Definitions named Wrong... are seeded faults: the definition after each is *)
(* replaced by it to show that a property notices.                           *)
(***************************************************************************)
EXTENDS Integers, FiniteSets, FiniteSetsExt

CONSTANTS
    Members,          \* memberships, by hash
    Apps,             \* rln_identifiers
    Callers,          \* concurrent generate_proof calls
    Sizes,            \* epoch_size_sec values start() may configure
    Gaps,             \* max_epoch_gap values start() may configure
    RateLimits,       \* rate_limit readings of the membership record (0: cache row lost)
    MaxRate,          \* the largest of them
    MaxTime,          \* the largest u64 time; saturating additions stop here
    RowCap,           \* WRITE_ROW_CAP
    MaxReservations,  \* bound on distinct reservations of a membership
    None              \* "no value"

ASSUME RatesAssumption == MaxRate \in Nat \ {0} /\ RateLimits \subseteq 0..MaxRate
ASSUME TimeAssumption  == MaxTime \in Nat
ASSUME SizesAssumption == Sizes \subseteq Nat \ {0}
ASSUME GapsAssumption  == Gaps \subseteq Nat \ {0}
ASSUME BoundsAssumption == RowCap \in Nat /\ MaxReservations \in Nat
ASSUME NoneAssumption  == None \notin 0..MaxRate      \* no budget is mistaken for a refusal

Times  == 0..MaxTime
Epochs == 0..MaxTime      \* an epoch is at least a second long
Slots  == 0..(MaxRate - 1)
Keys   == Members \X Apps \X Epochs \X Slots

VARIABLES
    mem,      \* allocation sections in memory (Inner.sections)
    disk,     \* allocation sections in rln_allocations.json
    session,  \* TRUE while the keystore is unlocked
    config,   \* what start() last configured, None before
    reqs,     \* each caller's reservation in flight, or None
    issued,   \* history: how often each slot was returned to a caller
    sizes,    \* history: the epoch sizes a membership's slots were issued under
    spent     \* history: every reservation made in memory, returned or wasted

vars == <<mem, disk, session, config, reqs, issued, sizes, spent>>

Section == [used : [Apps -> [Epochs -> 0..MaxRate]], floor : Epochs, size : Sizes \cup {0}]

Request == [member : Members, app : Apps, epoch : Epochs, retain : Epochs,
            size : Sizes, rate : RateLimits, live : BOOLEAN]

Config == [size : Sizes, gap : Gaps]

-----------------------------------------------------------------------------
(* Epoch arithmetic. *)

MaxOf(x, y) == IF x >= y THEN x ELSE y
MinOf(x, y) == IF x <= y THEN x ELSE y
WrongPlainSub(x, y) == x - y
SatSub(x, y) == IF x >= y THEN x - y ELSE 0
SatAdd(x, y) == MinOf(x + y, MaxTime)

\* floor(now_unix / epoch_size_sec)
CurrentEpoch(t, size) == t \div size

EpochInWindow(e, now, gap) == SatSub(now, gap) <= e /\ e <= SatAdd(now, gap)

-----------------------------------------------------------------------------
(* reserve_slot on one section. *)

HasRow(sec, a, e) == sec.used[a][e] > 0

Rows(sec) == {r \in Apps \X Epochs : HasRow(sec, r[1], r[2])}

\* One past each allocated epoch at or below the retain candidate.
PastAllocated(sec, cand) ==
    {SatAdd(e, 1) : e \in {x \in Epochs : x <= cand /\ \E a \in Apps : HasRow(sec, a, x)}}

WrongUncappedThreshold(sec, cand) == MaxOf(sec.floor, cand)

\* Where the prune floor may advance to.
Threshold(sec, cand) ==
    IF PastAllocated(sec, cand) = {}
      THEN sec.floor
      ELSE MaxOf(sec.floor, MinOf(cand, Max(PastAllocated(sec, cand))))

WrongNoFloorCheck(sec, r) == FALSE
BelowFloor(sec, r) == r.epoch < Threshold(sec, r.retain)

BudgetExhausted(sec, r) == sec.used[r.app][r.epoch] >= r.rate

WrongForgetsFloor(sec, r) ==
    [used  |-> [a \in Apps |-> [e \in Epochs |->
                  IF e < Threshold(sec, r.retain) THEN 0
                  ELSE sec.used[a][e] + (IF a = r.app /\ e = r.epoch THEN 1 ELSE 0)]],
     floor |-> sec.floor,
     size  |-> r.size]

\* The section after the reservation: counter up, floor up, rows below it pruned.
Reserved(sec, r) ==
    LET t == Threshold(sec, r.retain)
    IN  [used  |-> [a \in Apps |-> [e \in Epochs |->
                      IF e < t THEN 0
                      ELSE IF a = r.app /\ e = r.epoch THEN sec.used[a][e] + 1
                      ELSE sec.used[a][e]]],
         floor |-> t,
         size  |-> r.size]
-----------------------------------------------------------------------------
(* reserve_message_id's guards, and the quota read that mirrors them. *)

WrongNoSizeGuard(sec, size) == FALSE
SizeMismatch(sec, size) == sec.size # 0 /\ sec.size # size

SectionFull(sec, r) == ~HasRow(sec, r.app, r.epoch) /\ Cardinality(Rows(sec)) >= RowCap

\* The reply of reserve_message_id on an open, unlocked store.
ReserveReply(sec, r) ==
    IF SizeMismatch(sec, r.size) \/ SectionFull(sec, r) \/ BelowFloor(sec, r)
      THEN "permanent"
    ELSE IF BudgetExhausted(sec, r) THEN "budget_exhausted"
    ELSE "slot"

WrongQuotaIgnoresFloor(sec, r) ==
    IF SizeMismatch(sec, r.size) THEN None ELSE SatSub(r.rate, sec.used[r.app][r.epoch])

\* remaining_budget: None is a permanent refusal.
RemainingBudget(sec, r) ==
    IF SizeMismatch(sec, r.size) \/ r.epoch < sec.floor
      THEN None
      ELSE SatSub(r.rate, sec.used[r.app][r.epoch])

-----------------------------------------------------------------------------
EmptySection ==
    [used |-> [a \in Apps |-> [e \in Epochs |-> 0]], floor |-> 0, size |-> 0]

Init ==
    /\ mem = [m \in Members |-> EmptySection]
    /\ disk = mem
    /\ session = FALSE
    /\ config = None
    /\ reqs = [c \in Callers |-> None]
    /\ issued = [k \in Keys |-> 0]
    /\ sizes = [m \in Members |-> {}]
    /\ spent = [m \in Members |-> {}]

\* What a generate_proof call for (m, a) at timestamp ts carries to the
\* reservation: everything read from the clock, the configuration and the
\* membership record before the Merkle path is fetched.  The wall clock is not
\* trusted to be monotone: `now` is any reading.
RequestFor(m, a, ts, now, rate) ==
    [member |-> m, app |-> a,
     epoch  |-> CurrentEpoch(ts, config.size),
     retain |-> SatSub(CurrentEpoch(now, config.size), config.gap),
     size   |-> config.size, rate |-> rate, live |-> TRUE]

Fresh(ts, now) ==
    EpochInWindow(CurrentEpoch(ts, config.size), CurrentEpoch(now, config.size), config.gap)

\* generate_proof up to the path fetch: readiness and freshness gate, then the
\* credential is unsealed, which needs a session.
BeginProof(c, m, a, ts, now, rate) ==
    /\ reqs[c] = None
    /\ config # None
    /\ Fresh(ts, now)
    /\ session
    /\ Cardinality(spent[m]) < MaxReservations
    /\ reqs' = [reqs EXCEPT ![c] = RequestFor(m, a, ts, now, rate)]
    /\ UNCHANGED <<mem, disk, session, config, issued, sizes, spent>>

\* The path fetch fails, or the store the caller holds is closed, or it is
\* locked, or the guards refuse: nothing is spent and nothing is written.
GiveUp(c) ==
    /\ reqs[c] # None
    /\ reqs' = [reqs EXCEPT ![c] = None]
    /\ UNCHANGED <<mem, disk, session, config, issued, sizes, spent>>

\* The reservation in memory, common to a persisted and an unpersisted one.
Allocate(c) ==
    LET r   == reqs[c]
        sec == mem[r.member]
    IN  /\ r # None
        /\ r.live
        /\ session
        /\ ReserveReply(sec, r) = "slot"
        /\ mem' = [mem EXCEPT ![r.member] = Reserved(sec, r)]
        /\ spent' = [spent EXCEPT ![r.member] = @ \cup {<<r.app, r.epoch, sec.used[r.app][r.epoch]>>}]
        /\ reqs' = [reqs EXCEPT ![c] = None]
        /\ UNCHANGED <<session, config>>

ReturnSlot(c) ==
    LET r == reqs[c]
        k == <<r.member, r.app, r.epoch, mem[r.member].used[r.app][r.epoch]>>
    IN  /\ issued' = [issued EXCEPT ![k] = @ + 1]
        /\ sizes' = [sizes EXCEPT ![r.member] = @ \cup {r.size}]

WrongReturnsUnwritten(c) == Allocate(c) /\ ReturnSlot(c) /\ (UNCHANGED disk \/ disk' = mem')

\* reserve_message_id with a durable write: every section is written, and only
\* then is the slot returned.
Reserve(c) ==
    /\ Allocate(c)
    /\ disk' = mem'
    /\ ReturnSlot(c)

\* The write fails: before the rename (the old file stays) or after it (the
\* new one is in place but its directory entry could not be synced).  Memory
\* stays advanced and no slot is returned.
ReserveUnpersisted(c) ==
    /\ Allocate(c)
    /\ \/ UNCHANGED disk
       \/ disk' = mem'
    /\ UNCHANGED <<issued, sizes>>

-----------------------------------------------------------------------------
Unlock ==
    /\ ~session
    /\ session' = TRUE
    /\ UNCHANGED <<mem, disk, config, reqs, issued, sizes, spent>>

Lock ==
    /\ session
    /\ session' = FALSE
    /\ UNCHANGED <<mem, disk, config, reqs, issued, sizes, spent>>

\* The host hands the module a context again: the adopted store is closed, so
\* callers that hold it are refused from now on, and the directory re-opened.
Reopen ==
    /\ mem' = disk
    /\ session' = FALSE
    /\ reqs' = [c \in Callers |-> IF reqs[c] = None THEN None ELSE [reqs[c] EXCEPT !.live = FALSE]]
    /\ UNCHANGED <<disk, config, issued, sizes, spent>>

\* The process stops, however abruptly, and comes back with what the disk holds.
Restart ==
    /\ mem' = disk
    /\ session' = FALSE
    /\ config' = None
    /\ reqs' = [c \in Callers |-> None]
    /\ UNCHANGED <<disk, issued, sizes, spent>>

\* start(): a positive size and a positive gap.
Start(size, gap) ==
    /\ config' = [size |-> size, gap |-> gap]
    /\ UNCHANGED <<mem, disk, session, reqs, issued, sizes, spent>>

Next ==
    \/ \E c \in Callers :
         \/ \E m \in Members, a \in Apps, ts, now \in Times, rate \in RateLimits :
              BeginProof(c, m, a, ts, now, rate)
         \/ GiveUp(c)
         \/ Reserve(c)
         \/ ReserveUnpersisted(c)
    \/ Unlock
    \/ Lock
    \/ Reopen
    \/ Restart
    \/ \E size \in Sizes, gap \in Gaps : Start(size, gap)

Spec == Init /\ [][Next]_vars

-----------------------------------------------------------------------------
(* Properties. *)

\* The state is well typed: in particular the retain candidate, the floor and
\* the epochs never leave the unsigned range the code computes them in.
TypeOK ==
    /\ mem \in [Members -> Section]
    /\ disk \in [Members -> Section]
    /\ session \in BOOLEAN
    /\ config \in Config \cup {None}
    /\ reqs \in [Callers -> Request \cup {None}]
    /\ issued \in [Keys -> Nat]
    /\ sizes \in [Members -> SUBSET Sizes]
    /\ spent \in [Members -> SUBSET (Apps \X Epochs \X Slots)]

\* No slot is ever returned twice (reserve_message_id, reserve_slot): not after
\* a restart, a failed write, a clock that steps back, a wider gap or a
\* reconfigured epoch size.
NoReissue == \A k \in Keys : issued[k] <= 1

\* All slots of a membership are issued under one epoch size (the size guard
\* and adopt-on-first-success of reserve_message_id): epoch indices of two
\* sizes name different times, so counters kept under both would mean nothing.
OneEpochSize == \A m \in Members : \A x, y \in sizes[m] : x = y

FloorWitnessed(secs) ==
    \A m \in Members : secs[m].floor > 0 =>
        \E x, y \in spent[m] : /\ x # y
                               /\ secs[m].floor <= x[2] + 1
                               /\ secs[m].floor <= y[2] + 1

\* A single reservation, however wrong the clock it was made under, cannot
\* move a prune floor past what another reservation allocated: a positive
\* floor always has two distinct reservations at or above the epoch before it
\* (the cap in reserve_slot that keeps one spiked reading from bricking the
\* future).
FloorHasTwoWitnesses == FloorWitnessed(mem)

SlotsRecorded(secs) ==
    \A m \in Members, a \in Apps, e \in Epochs, s \in Slots :
        issued[<<m, a, e, s>>] > 0 => s < secs[m].used[a][e] \/ e < secs[m].floor

\* Durable before use (the write in reserve_message_id that precedes Ok(slot)):
\* whatever was returned to a caller is either counted on disk or lies below
\* the floor on disk, so whenever the process stops it cannot be served again.
DurableBeforeUse == SlotsRecorded(disk)

\* Every request generate_proof could send now, and the quota read with it.
FreshRequests ==
    IF config = None THEN {}
    ELSE {RequestFor(m, a, p[1], p[2], rate) :
            m \in Members, a \in Apps, rate \in RateLimits,
            p \in {q \in Times \X Times : Fresh(q[1], q[2])}}

MirrorsReserve(sec, r) ==
    LET quota == RemainingBudget(sec, r)
        reply == ReserveReply(sec, r)
    IN  CASE reply = "permanent"        -> quota = None
          [] reply = "budget_exhausted" -> quota = 0
          [] reply = "slot"             -> quota # None /\ quota # 0

\* remaining_budget answers for get_epoch_quota what a reservation made at the
\* same moment would answer: positive iff a slot would be returned, a
\* permanent refusal iff the reservation would be refused for good.  It knows
\* only the persisted floor, while a reservation computes a new one.  It does
\* not look at the row cap, so this is stated for sections below it.
QuotaMirrorsReserveBelowCap ==
    \A r \in FreshRequests :
        ~SectionFull(mem[r.member], r) => MirrorsReserve(mem[r.member], r)

-----------------------------------------------------------------------------
(* The inductive invariant of the proofs. *)

SizeRecorded(secs) == \A m \in Members : \A z \in sizes[m] : secs[m].size = z

RowsSpent(secs) ==
    \A m \in Members, a \in Apps, e \in Epochs, s \in Slots :
        s < secs[m].used[a][e] => <<a, e, s>> \in spent[m]

Recorded(secs) ==
    SlotsRecorded(secs) /\ SizeRecorded(secs) /\ RowsSpent(secs) /\ FloorWitnessed(secs)

\* Memory and disk each record every slot issued, the size they were issued
\* under, and nothing but reservations that were made.  This is what
\* reserve_message_id maintains, whatever happens to its write.
IInv == NoReissue /\ Recorded(mem) /\ Recorded(disk)

-----------------------------------------------------------------------------
\* The ledger of slots issued once and in order.
Ledger == INSTANCE SlotLedger

\* Every step is a step of the ledger or leaves it alone (reserve_message_id
\* against its promise).
ImplementsLedger == Ledger!Spec
====
