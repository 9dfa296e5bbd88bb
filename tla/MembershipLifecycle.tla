---- MODULE MembershipLifecycle ----
(***************************************************************************)
(* The life of membership records of one registry, from register to removal: *)
(* register_scoped and the submit callbacks (lib.rs), provisioning's use of   *)
(* it (ensure.rs), the confirmation poller (poller.rs), the merged state read *)
(* (get_membership_state, lifecycle.rs) and the cache row they all write      *)
(* (store.rs update_cache).                                                  *)
(*                                                                           *)
(* Every registry read takes long: what it answers is fixed when the registry *)
(* is read and applied later, after other writers may have come by.  A poller *)
(* that stop() detached keeps ticking beside its successor, so there may be   *)
(* two.  A restart loses calls, claims and callbacks in flight, and may lose  *)
(* the unauthenticated cache file.  Quarantine is left out.                   *)
(*                                                                           *)
(* Definitions named Wrong... are seeded faults, as in SlotAllocation.        *)
(***************************************************************************)
EXTENDS Integers, FiniteSets

CONSTANTS
    Members,         \* identities, minted one per registration: bounds how many
    Scopes,          \* rln_identifiers of applications
    Wide,            \* the empty rln_identifier: registry-wide
    Callers,         \* concurrent register and provisioning calls
    Pollers,         \* concurrent poller ticks
    Readers,         \* concurrent get_membership_state calls
    RegistryStates,  \* what the registry reports of a member
    CacheLoss,       \* TRUE: a restart may find the cache file gone
    None

ASSUME WideAssumption == Wide \notin Scopes
ASSUME StatesAssumption ==
    "active" \in RegistryStates /\ RegistryStates \subseteq {"active", "grace_period", "expired"}
ASSUME CacheLossAssumption == CacheLoss \in BOOLEAN

VARIABLES
    rec,     \* each member's record (identity block and cache row), or None
    late,    \* members whose confirmation window has elapsed
    chain,   \* the registry's truth: "absent", a RegistryStates value, "gone"
    submit,  \* the submission: "none", "sent" (callback due), "open" (may land), "refused"
    claims,  \* REGISTER_IN_FLIGHT
    calls,   \* each register or provisioning call
    polls,   \* each poller's tick
    reads    \* each get_membership_state call

vars == <<rec, late, chain, submit, claims, calls, polls, reads>>

States == {"unknown", "pending", "failed", "erased"} \cup RegistryStates
Leaves == {"estimate", "true"}

Record == [scope : Scopes \cup {Wide}, state : States, leaf : Leaves \cup {None},
           retryable : BOOLEAN \cup {None},
           seen : BOOLEAN,             \* first_active_at is stamped
           saw : SUBSET Members]       \* history: the records its registration knew of

Answers == RegistryStates \cup {"absent"}

Call == [pc : {"wait", "insert", "submit"}, scope : Scopes \cup {Wide},
         saw : SUBSET Members, member : Members \cup {None}]
Poll == [phase : {"pending", "refresh"}, list : SUBSET Members, late : SUBSET Members,
         cur : Members \cup {None}, answer : Answers \cup {None}]
Read == [member : Members, snap : Record, answer : Answers]

\* None is none of the values it stands in for.
ASSUME NoneAssumption == None \notin Record \cup Call

IsUsable(st) == st \in {"active", "grace_period"}
IsLive(st) == st = "pending" \/ IsUsable(st)
IsActiveLike(st) == st \in RegistryStates \cup {"erased"}

Known == {m \in Members : rec[m] # None}
ScopeMatches(m, s) == rec[m].scope = s \/ rec[m].scope = Wide

-----------------------------------------------------------------------------
(* The cache row. *)

\* update_cache stamps the first active-like observation.
Stamped(row) == IF IsActiveLike(row.state) THEN [row EXCEPT !.seen = TRUE] ELSE row

Write(m, row) == rec' = [rec EXCEPT ![m] = Stamped(row)]

\* apply_observed, and the registered branch of get_membership_state.
Observed(row, st) == [row EXCEPT !.state = st, !.leaf = "true", !.retryable = None]

WindowElapsed(row) == [row EXCEPT !.state = "failed", !.retryable = TRUE]
Removed(row) == [row EXCEPT !.state = "erased"]
SubmitFailed(row, retryable) == [row EXCEPT !.state = "failed", !.retryable = retryable]

\* record_async_submit_error
AsyncSubmitError(row, retryable) ==
    IF row.state # "pending" \/ retryable THEN row ELSE SubmitFailed(row, retryable)

\* The registry's answer about m, at this moment: a removed member is not registered.
Answer(m) == IF chain[m] = "gone" THEN "absent" ELSE chain[m]

-----------------------------------------------------------------------------
(* register_scoped. *)

WrongIgnoresClaim(s) == TRUE
MayClaim(s) == s \notin claims

\* The claim, then the scan: a live record of the scope ends the call at once
\* (no state changes).  What follows is the bounds read, with the claim held.
Scan(c, s) ==
    /\ MayClaim(s)
    /\ ~ \E m \in Known : IsLive(rec[m].state) /\ ScopeMatches(m, s)
    /\ claims' = claims \cup {s}
    /\ calls' = [calls EXCEPT ![c] = [pc |-> "insert", scope |-> s, saw |-> Known, member |-> None]]
    /\ UNCHANGED <<rec, late, chain, submit, polls, reads>>

RegisterBegin(c, s) == calls[c] = None /\ Scan(c, s)

\* provision_one: no live record on the registry, then a wait for the wallet
\* and for funds that may take hours, then register_scoped with the empty scope.
ProvisionBegin(c) ==
    /\ calls[c] = None
    /\ \A m \in Known : ~IsLive(rec[m].state)
    /\ calls' = [calls EXCEPT ![c] = [pc |-> "wait", scope |-> Wide, saw |-> {}, member |-> None]]
    /\ UNCHANGED <<rec, late, chain, submit, claims, polls, reads>>

ProvisionRegister(c) ==
    /\ calls[c] # None
    /\ calls[c].pc = "wait"
    /\ Scan(c, Wide)

Return(c) ==
    /\ calls' = [calls EXCEPT ![c] = None]
    /\ claims' = claims \ {calls[c].scope}

WrongGiveUp(c) ==
    /\ calls[c] # None
    /\ calls[c].pc \in {"wait", "insert"}
    /\ calls' = [calls EXCEPT ![c] = None]
    /\ UNCHANGED <<rec, late, chain, submit, claims, polls, reads>>

\* The call ends without a record: superseded wait, live record, bounds
\* refused, keystore locked, allocation write failed.
GiveUp(c) ==
    /\ calls[c] # None
    /\ calls[c].pc \in {"wait", "insert"}
    /\ calls' = [calls EXCEPT ![c] = None]
    /\ claims' = IF calls[c].pc = "wait" THEN claims ELSE claims \ {calls[c].scope}
    /\ UNCHANGED <<rec, late, chain, submit, polls, reads>>

\* A fresh identity, and its pending record.
Insert(c, m) ==
    /\ calls[c] # None
    /\ calls[c].pc = "insert"
    /\ m \notin Known
    /\ rec' = [rec EXCEPT ![m] = [scope |-> calls[c].scope, state |-> "pending", leaf |-> None,
                                  retryable |-> None, seen |-> FALSE, saw |-> calls[c].saw]]
    /\ calls' = [calls EXCEPT ![c].pc = "submit", ![c].member = m]
    /\ UNCHANGED <<late, chain, submit, claims, polls, reads>>

\* The submission goes out and the call returns; its callback comes later.
Submit(c) ==
    /\ calls[c] # None
    /\ calls[c].pc = "submit"
    /\ submit' = [submit EXCEPT ![calls[c].member] = "sent"]
    /\ Return(c)
    /\ UNCHANGED <<rec, late, chain, polls, reads>>

\* The submission fails at once.
SubmitSyncError(c, retryable) ==
    /\ calls[c] # None
    /\ calls[c].pc = "submit"
    /\ Write(calls[c].member, SubmitFailed(rec[calls[c].member], retryable))
    /\ Return(c)
    /\ UNCHANGED <<late, chain, submit, polls, reads>>

-----------------------------------------------------------------------------
(* The submit callbacks, funded and delegated. *)

WrongAccepted(row) == [row EXCEPT !.state = "active", !.leaf = "estimate"]
\* The reply carries a leaf index estimated before the submission.
Accepted(row) == [row EXCEPT !.leaf = "estimate"]

WrongGifterError(row) == [row EXCEPT !.state = "failed"]
\* A gifter's error reply fails a record that is still pending.
GifterError(row) == IF row.state = "pending" THEN [row EXCEPT !.state = "failed"] ELSE row

\* A refusal says that nothing was sent; after any other reply the
\* registration may still land.
Callback(m) ==
    /\ submit[m] = "sent"
    /\ \/ /\ Write(m, Accepted(rec[m]))
          /\ submit' = [submit EXCEPT ![m] = "open"]
       \/ /\ chain[m] = "absent"
          /\ Write(m, AsyncSubmitError(rec[m], FALSE))
          /\ submit' = [submit EXCEPT ![m] = "refused"]
       \/ /\ Write(m, AsyncSubmitError(rec[m], TRUE))
          /\ submit' = [submit EXCEPT ![m] = "open"]
       \/ /\ Write(m, GifterError(rec[m]))
          /\ submit' = [submit EXCEPT ![m] = "open"]
    /\ UNCHANGED <<late, chain, claims, calls, polls, reads>>

-----------------------------------------------------------------------------
(* The registry and the clock. *)

Land(m) ==
    /\ submit[m] \in {"sent", "open"}
    /\ chain[m] = "absent"
    /\ chain' = [chain EXCEPT ![m] = "active"]
    /\ UNCHANGED <<rec, late, submit, claims, calls, polls, reads>>

\* The registry's own clock moves a member on, or it is removed.
Age(m, st) ==
    /\ chain[m] \in RegistryStates
    /\ st # chain[m]
    /\ chain' = [chain EXCEPT ![m] = st]
    /\ UNCHANGED <<rec, late, submit, claims, calls, polls, reads>>

\* CONFIRMATION_WINDOW_SECS pass after submitted_at.
Elapse(m) ==
    /\ rec[m] # None
    /\ m \notin late
    /\ late' = late \cup {m}
    /\ UNCHANGED <<rec, chain, submit, claims, calls, polls, reads>>

-----------------------------------------------------------------------------
(* The poller's tick: a work list, then a read and an update per record. *)

\* pending_records
PendingRecords == {m \in Known : rec[m].state = "pending"}
WrongRefreshable == {m \in Known : rec[m].state = "unknown"}
\* refreshable_records
RefreshableRecords == {m \in Known : rec[m].state \in RegistryStates \cup {"unknown"}}

\* The window is judged by the clock read when the tick began.
PollBegin(p) ==
    /\ polls[p] = None
    /\ polls' = [polls EXCEPT ![p] = [phase |-> "pending", list |-> PendingRecords,
                                      late |-> late, cur |-> None, answer |-> None]]
    /\ UNCHANGED <<rec, late, chain, submit, claims, calls, reads>>

PollFetch(p, m) ==
    /\ polls[p] # None
    /\ polls[p].cur = None
    /\ m \in polls[p].list
    /\ polls' = [polls EXCEPT ![p].list = @ \ {m}, ![p].cur = m, ![p].answer = Answer(m)]
    /\ UNCHANGED <<rec, late, chain, submit, claims, calls, reads>>

\* A read that fails leaves its record alone.
PollReadFails(p, m) ==
    /\ polls[p] # None
    /\ polls[p].cur = None
    /\ m \in polls[p].list
    /\ polls' = [polls EXCEPT ![p].list = @ \ {m}]
    /\ UNCHANGED <<rec, late, chain, submit, claims, calls, reads>>

WrongPolled(poll, row) ==
    IF poll.answer # "absent" THEN Observed(row, poll.answer)
    ELSE IF poll.phase = "refresh" THEN Removed(row) ELSE row

\* What the tick makes of the answer, whatever the row has become meanwhile.
Polled(poll, row) ==
    CASE poll.answer # "absent" -> Observed(row, poll.answer)
      [] poll.answer = "absent" /\ poll.phase = "pending" /\ poll.cur \in poll.late -> WindowElapsed(row)
      [] poll.answer = "absent" /\ poll.phase = "pending" /\ poll.cur \notin poll.late -> row
      [] poll.answer = "absent" /\ poll.phase = "refresh" -> Removed(row)

PollApply(p) ==
    /\ polls[p] # None
    /\ polls[p].cur # None
    /\ Write(polls[p].cur, Polled(polls[p], rec[polls[p].cur]))
    /\ polls' = [polls EXCEPT ![p].cur = None, ![p].answer = None]
    /\ UNCHANGED <<late, chain, submit, claims, calls, reads>>

\* Every fourth tick goes on to refresh the states the registry once reported.
PollRefresh(p) ==
    /\ polls[p] # None
    /\ polls[p].phase = "pending" /\ polls[p].list = {} /\ polls[p].cur = None
    /\ polls' = [polls EXCEPT ![p].phase = "refresh", ![p].list = RefreshableRecords]
    /\ UNCHANGED <<rec, late, chain, submit, claims, calls, reads>>

PollEnd(p) ==
    /\ polls[p] # None
    /\ polls[p].list = {} /\ polls[p].cur = None
    /\ polls' = [polls EXCEPT ![p] = None]
    /\ UNCHANGED <<rec, late, chain, submit, claims, calls, reads>>

-----------------------------------------------------------------------------
(* get_membership_state. *)

\* scope_candidates
Candidates(s) ==
    IF \E m \in Known : ScopeMatches(m, s) /\ IsUsable(rec[m].state)
      THEN {m \in Known : ScopeMatches(m, s)}
      ELSE Known

WrongMergeState(row, answer, isLate) ==
    IF answer # "absent" THEN answer
    ELSE IF row.state # "pending" THEN "erased"
    ELSE IF isLate THEN "failed" ELSE "pending"

\* merge_state over the snapshot of the record.
MergeState(row, answer, isLate) ==
    CASE answer # "absent" -> answer
      [] answer = "absent" /\ row.state = "pending" -> IF isLate THEN "failed" ELSE "pending"
      [] answer = "absent" /\ row.state # "pending" ->
           IF row.seen \/ IsActiveLike(row.state) THEN "erased" ELSE row.state

\* The snapshot of the sole candidate, and the registry's answer.
ReadFetch(r, s, m) ==
    /\ reads[r] = None
    /\ Candidates(s) = {m}
    /\ reads' = [reads EXCEPT ![r] = [member |-> m, snap |-> rec[m], answer |-> Answer(m)]]
    /\ UNCHANGED <<rec, late, chain, submit, claims, calls, polls>>

WrongMerged(read, row, merged) == TRUE
\* Compare-and-set on the state of the snapshot.
MayMerge(read, row, merged) == merged # read.snap.state /\ row.state = read.snap.state

ReadApply(r) ==
    LET read   == reads[r]
        row    == rec[read.member]
        merged == MergeState(read.snap, read.answer, read.member \in late)
    IN  /\ read # None
        /\ IF MayMerge(read, row, merged)
             THEN Write(read.member, CASE read.answer # "absent" -> Observed(row, merged)
                                       [] read.answer = "absent" /\ merged = "failed" -> WindowElapsed(row)
                                       [] OTHER -> [row EXCEPT !.state = merged])
             ELSE UNCHANGED rec
        /\ reads' = [reads EXCEPT ![r] = None]
        /\ UNCHANGED <<late, chain, submit, claims, calls, polls>>

-----------------------------------------------------------------------------
\* A row the cache file no longer has.
LostRow(row) == [row EXCEPT !.state = "unknown", !.leaf = None, !.retryable = None, !.seen = FALSE]

\* The process stops and comes back: calls, claims, ticks and callbacks in
\* flight are gone.  A submission that was sent may still land.
Restart ==
    /\ \E lost \in {{}} \cup (IF CacheLoss THEN {Known} ELSE {}) :
         rec' = [m \in Members |-> IF m \in lost THEN LostRow(rec[m]) ELSE rec[m]]
    /\ submit' = [m \in Members |-> IF submit[m] = "sent" THEN "open" ELSE submit[m]]
    /\ claims' = {}
    /\ calls' = [c \in Callers |-> None]
    /\ polls' = [p \in Pollers |-> None]
    /\ reads' = [r \in Readers |-> None]
    /\ UNCHANGED <<late, chain>>

Init ==
    /\ rec = [m \in Members |-> None]
    /\ late = {}
    /\ chain = [m \in Members |-> "absent"]
    /\ submit = [m \in Members |-> "none"]
    /\ claims = {}
    /\ calls = [c \in Callers |-> None]
    /\ polls = [p \in Pollers |-> None]
    /\ reads = [r \in Readers |-> None]

PollStep(p) ==
    \/ PollBegin(p)
    \/ \E m \in Members : PollFetch(p, m)
    \/ PollApply(p)
    \/ PollRefresh(p)
    \/ PollEnd(p)

Next ==
    \/ \E c \in Callers :
         \/ \E s \in Scopes : RegisterBegin(c, s)
         \/ ProvisionBegin(c)
         \/ ProvisionRegister(c)
         \/ GiveUp(c)
         \/ \E m \in Members : Insert(c, m)
         \/ Submit(c)
         \/ \E retryable \in BOOLEAN : SubmitSyncError(c, retryable)
    \/ \E m \in Members :
         \/ Callback(m)
         \/ Land(m)
         \/ \E st \in RegistryStates \cup {"gone"} : Age(m, st)
         \/ Elapse(m)
    \/ \E p \in Pollers : PollStep(p) \/ \E m \in Members : PollReadFails(p, m)
    \/ \E r \in Readers :
         \/ \E s \in Scopes, m \in Members : ReadFetch(r, s, m)
         \/ ReadApply(r)
    \/ Restart

\* A poller runs and the registry is reachable again and again: every read it
\* keeps trying succeeds in the end, and so does the update that follows.  The
\* clock moves.  Nothing else has to happen.
Fairness ==
    /\ \A p \in Pollers :
         /\ WF_vars(PollBegin(p)) /\ WF_vars(PollEnd(p))
         /\ SF_vars(PollRefresh(p)) /\ SF_vars(PollApply(p))
         /\ \A m \in Members : SF_vars(PollFetch(p, m))
    /\ \A m \in Members : WF_vars(Elapse(m))

Spec == Init /\ [][Next]_vars /\ Fairness

-----------------------------------------------------------------------------
(* Properties. *)

\* The state is well typed: no record ever holds a state the registry does not
\* report or the lifecycle does not know (observe, merge_state, update_cache).
TypeOK ==
    /\ rec \in [Members -> Record \cup {None}]
    /\ late \subseteq Members
    /\ chain \in [Members -> Answers \cup {"gone"}]
    /\ submit \in [Members -> {"none", "sent", "open", "refused"}]
    /\ claims \subseteq Scopes \cup {Wide}
    /\ calls \in [Callers -> Call \cup {None}]
    /\ polls \in [Pollers -> Poll \cup {None}]
    /\ reads \in [Readers -> Read \cup {None}]

\* Two registrations of one scope never run past each other: of two records
\* of a scope, the registration of one saw the other (RegisterClaim, held from
\* the scan to the insert across a registry read).
NoDoubleMint ==
    \A m, n \in Known :
        m # n /\ rec[m].scope = rec[n].scope => m \in rec[n].saw \/ n \in rec[m].saw

\* A claim is held exactly while its register call is in flight: none leaks,
\* which would refuse the scope for ever, and none is dropped early
\* (RegisterClaim's Drop on every way out).
ClaimsMatchCalls ==
    claims = {calls[c].scope : c \in {d \in Callers : calls[d] # None /\ calls[d].pc # "wait"}}

\* No record is believed usable before its registration is on the registry: a
\* submission's acceptance is not its application (register_async, the submit
\* callbacks, the poller's read-back).
UsableWasRegistered ==
    \A m \in Known : IsUsable(rec[m].state) => chain[m] # "absent"

\* Erased means removed: the record was on the registry before (the poller's
\* refresh, merge_state's has_been_active).
ErasedWasRegistered ==
    \A m \in Known : rec[m].state = "erased" => chain[m] # "absent"

\* A late callback, a late gifter error or a merged read never fails a record
\* that is past pending (record_async_submit_error, delegated_submit_callback,
\* the compare-and-set of get_membership_state); only a poller's own update may.
OnlyPollerFailsConfirmed ==
    [][\A m \in Known :
         (IsUsable(rec[m].state) /\ rec'[m].state = "failed") =>
             \E p \in Pollers : polls[p] # None /\ polls[p].cur = m /\ polls'[p].cur = None]_vars

StateOf(m) == IF rec[m] = None THEN "none" ELSE rec[m].state

\* A pending record is resolved, whether its submission was sent, refused,
\* lost with the process or never made (pending to active or failed, the
\* poller's confirmation window).
PendingResolves ==
    \A m \in Members : StateOf(m) = "pending" ~> StateOf(m) # "pending"

\* Once a member is removed from the registry its record stops being usable,
\* for good, however stale the answers still in flight are (the poller's
\* refresh: the removal consumers must see).
RemovalNoticed ==
    \A m \in Members : chain[m] = "gone" ~> [](~IsUsable(StateOf(m)))

-----------------------------------------------------------------------------
(* What comments of the code say and the code does not do. *)

\* ensure.rs: provisioning does not register beside a live record.
ProvisionAddsNoSecond ==
    [][\A m \in Members : (rec[m] = None /\ rec'[m] # None /\ rec'[m].scope = Wide) =>
         \A n \in Known : ~IsLive(rec[n].state)]_vars
====
