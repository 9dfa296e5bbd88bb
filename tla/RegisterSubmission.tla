---- MODULE RegisterSubmission ----
(***************************************************************************)
(* A registration on its way to the chain: the dispatch of one request to    *)
(* the registry module (provider.rs dispatch_recorded), register_member with *)
(* its in-flight slots, the watcher that follows a submission and re-sends   *)
(* it, and get_membership (registry module lib.rs).                          *)
(*                                                                           *)
(* A slot holds a membership's reply for TTL ticks, and a watcher begins     *)
(* rounds for TTL ticks from its start.  Time may pass at any point: in a    *)
(* send, before a watcher starts, in its sleep and in its rounds, so a slot  *)
(* may expire under its owner.  Every read of the chain is a step of its     *)
(* own, so a transaction may settle between any two.  The sequencer and the  *)
(* registry program are external: a transaction it holds applies, reverts    *)
(* (charged, without effect) or is dropped, within Settle ticks.             *)
(*                                                                           *)
(* Definitions named Wrong... are seeded faults: each is a plausible error   *)
(* in the definition that follows it, and some property must notice it.      *)
(***************************************************************************)
EXTENDS Integers, FiniteSets

CONSTANTS
    Keys,          \* membership accounts
    Callers,       \* concurrent requests
    TTL,           \* REG_IN_FLIGHT_TTL, in ticks
    Settle,        \* ticks within which the sequencer decides a transaction it keeps
    MaxResubmits,  \* REG_MAX_RESUBMITS
    MaxTx,         \* bound: sends
    MaxLostReads,  \* bound: failed reads of a membership that are taken for an absent one
    None

ASSUME TimesAssumption ==
    TTL \in Nat /\ Settle \in Nat /\ Settle < TTL /\ MaxResubmits \in Nat
    /\ MaxLostReads \in Nat

VARIABLES
    chain,   \* memberships the registry holds
    txs,     \* every send, by number (its hash), or None
    slots,   \* REG_IN_FLIGHT
    calls,   \* each register_member call in the registry module
    watch,   \* the watchers, by the number of the send they started from
    reqs,    \* each request on the caller's side: dispatch_recorded's Pending
    known,   \* what get_membership last answered of a membership
    lost,    \* failed membership reads so far
    overrun  \* history: keys whose slot expired under its owner, until all is quiet

vars == <<chain, txs, slots, calls, watch, reqs, known, lost, overrun>>

TxIds == 1 .. MaxTx
TxStates == {"queued", "dropped", "reverted", "applied"}
Replies == {"failed", "already", "pending", "error"}  \* "failed" is the empty reply

Txs == [key : Keys, st : TxStates, age : 0 .. Settle]
Entries == [reply : {"pending", "error"}, age : 0 .. TTL - 1]
Calls == [pc : {"check", "claim", "send", "record"}, key : Keys, tx : TxIds \cup {None}]
Watchers == [pc : {"start", "test", "sleep", "ask", "recheck", "send", "record"},
             key : Keys, tx : TxIds, next : TxIds \cup {None}, resubmits : 0 .. MaxResubmits, age : 0 .. TTL]
Requests == [dispatched : BOOLEAN, replied : BOOLEAN, held : BOOLEAN,
             sync : {"ok", "err", None}, told : 0 .. 2]

\* None is none of the values it stands in for.
ASSUME NoneAssumption ==
    None \notin Txs \cup Entries \cup Calls \cup Watchers \cup Requests
                 \cup {"ok", "err", "registered", "absent"}

TypeOK ==
    /\ chain \subseteq Keys
    /\ txs \in [TxIds -> Txs \cup {None}]
    /\ slots \in [Keys -> Entries \cup {None}]
    /\ calls \in [Callers -> Calls \cup {None}]
    /\ watch \in [TxIds -> Watchers \cup {None}]
    /\ reqs \in [Callers -> Requests \cup {None}]
    /\ known \in [Keys -> {"absent", "registered"}]
    /\ lost \in 0 .. MaxLostReads
    /\ overrun \subseteq Keys

Init ==
    /\ chain = {}
    /\ txs = [i \in TxIds |-> None]
    /\ slots = [k \in Keys |-> None]
    /\ calls = [c \in Callers |-> None]
    /\ watch = [i \in TxIds |-> None]
    /\ reqs = [c \in Callers |-> None]
    /\ known = [k \in Keys |-> "absent"]
    /\ lost = 0
    /\ overrun = {}

-----------------------------------------------------------------------------
(* Reads and sends. *)

\* fetch_shard_tri_state: what one read of a membership account may answer.
Fetch(k) == {IF k \in chain THEN "present" ELSE "absent", "error"}

\* fetch_shard_quiet: an error is no membership, like an absent one.
Landed(k, there) ==
    \/ there = (k \in chain) /\ UNCHANGED lost
    \/ k \in chain /\ there = FALSE /\ lost < MaxLostReads /\ lost' = lost + 1

Free == {i \in TxIds : txs[i] = None}
NextTx == CHOOSE i \in Free : \A j \in Free : i <= j

\* submit_register: the sequencer takes the transaction, or the wallet reports
\* a failure in a reply that is not empty and so counts as a submission, with
\* an empty hash: to the module it is like a transaction that is dropped.
Send(k, i) ==
    /\ Free # {} /\ i = NextTx
    /\ \E st \in {"queued", "dropped"} :
         txs' = [txs EXCEPT ![i] = [key |-> k, st |-> st, age |-> 0]]

WrongIncluded(i) == txs[i].st \in {"queued", "applied", "reverted"}
\* tx_included: in a block, whatever it did there.
Included(i) == txs[i].st \in {"applied", "reverted"}

\* A fresh entry.
Entry(reply) == [reply |-> reply, age |-> 0]

-----------------------------------------------------------------------------
(* register_member. *)

WrongCompletion(req, outcome) ==
    [req EXCEPT !.replied = TRUE, !.sync = outcome, !.held = FALSE, !.told = @ + 1]

\* The callback: before the dispatch has returned it leaves its outcome behind,
\* afterwards it calls on_done.
Completion(req, outcome) ==
    IF ~req.dispatched
      THEN [req EXCEPT !.replied = TRUE, !.sync = outcome]
      ELSE [req EXCEPT !.replied = TRUE, !.held = FALSE, !.told = IF req.held THEN @ + 1 ELSE @]

\* fold_reply: an empty reply is a failure like one of the transport.
Fold(reply) == IF reply = "failed" THEN "err" ELSE "ok"

\* The call returns its reply, which completes the request unless the transport
\* has given it up.
Reply(c, reply) ==
    /\ calls' = [calls EXCEPT ![c] = None]
    /\ reqs' = IF reqs[c].replied THEN reqs ELSE [reqs EXCEPT ![c] = Completion(@, Fold(reply))]

Proceed(c, pc) == calls' = [calls EXCEPT ![c].pc = pc] /\ UNCHANGED reqs

At(c, pc) == calls[c] # None /\ calls[c].pc = pc

\* The call begins; its key is the membership account of the plan.
NewCall(k) == [pc |-> "check", key |-> k, tx |-> None]

\* The arguments, the config account, the payer and the plan: what cannot be
\* read, or is of another network, is an empty reply.
NoContext(c) ==
    /\ At(c, "check")
    /\ Reply(c, "failed")
    /\ UNCHANGED <<chain, txs, slots, watch, known, lost, overrun>>

\* A membership that exists has a leaf in the tree, if the tree can be read.
LeafReplies == {"already", "failed"}

Found(c) ==
    /\ At(c, "check")
    /\ Landed(calls[c].key, TRUE)
    /\ \E reply \in LeafReplies : Reply(c, reply)
    /\ UNCHANGED <<chain, txs, slots, watch, known, overrun>>

\* preflight_register: what the chain would refuse is refused here.
Preflight(c) ==
    /\ At(c, "check")
    /\ Landed(calls[c].key, FALSE)
    /\ \/ Reply(c, "error")
       \/ Proceed(c, "claim")
    /\ UNCHANGED <<chain, txs, slots, watch, known, overrun>>

WrongClaim(c) ==
    /\ At(c, "claim")
    /\ slots' = [slots EXCEPT ![calls[c].key] = Entry("pending")]
    /\ Proceed(c, "send")
    /\ UNCHANGED <<chain, txs, watch, known, lost, overrun>>

\* One caller takes the slot; the others get the reply it holds.
Claim(c) ==
    LET k == calls[c].key IN
    /\ At(c, "claim")
    /\ IF slots[k] # None
         THEN Reply(c, slots[k].reply) /\ UNCHANGED slots
         ELSE /\ slots' = [slots EXCEPT ![k] = Entry("pending")]
              /\ Proceed(c, "send")
    /\ UNCHANGED <<chain, txs, watch, known, lost, overrun>>

\* Not submitted: the clock is unreadable or the wallet is not up.
NotSent(c) ==
    /\ At(c, "send")
    /\ slots' = [slots EXCEPT ![calls[c].key] = None]
    /\ Reply(c, "failed")
    /\ UNCHANGED <<chain, txs, watch, known, lost, overrun>>

Submit(c) ==
    /\ At(c, "send")
    /\ \E i \in TxIds :
         /\ Send(calls[c].key, i)
         /\ calls' = [calls EXCEPT ![c].pc = "record", ![c].tx = i]
    /\ UNCHANGED <<chain, slots, watch, reqs, known, lost, overrun>>

Watcher(k, i) ==
    [pc |-> "start", key |-> k, tx |-> i, next |-> None, resubmits |-> 0, age |-> 0]

\* The slot gets the submission's reply, and a watcher starts, unless its
\* thread cannot be spawned.
Record(c) ==
    LET k == calls[c].key
        i == calls[c].tx
    IN  /\ At(c, "record")
        /\ slots' = [slots EXCEPT ![k] = Entry("pending")]
        /\ \E w \in {Watcher(k, i), None} : watch' = [watch EXCEPT ![i] = w]
        /\ Reply(c, "pending")
        /\ UNCHANGED <<chain, txs, known, lost, overrun>>

-----------------------------------------------------------------------------
(* register_watch: one round is Test, Look, Ask, Recheck and maybe a           *)
(* re-send; a round that is cut short goes back to Test.                      *)

On(i, pc) == watch[i] # None /\ watch[i].pc = pc

GoTo(i, pc) == watch' = [watch EXCEPT ![i].pc = pc]
Ends(i) == watch' = [watch EXCEPT ![i] = None]

\* The thread runs, and its deadline is TTL from here: the slot may be older.
Begin(i) ==
    /\ On(i, "start")
    /\ GoTo(i, "test")
    /\ UNCHANGED <<chain, txs, slots, calls, reqs, known, lost, overrun>>

\* The deadline is tested before the sleep, so the last round runs after it.
Test(i) ==
    /\ On(i, "test")
    /\ IF watch[i].age < TTL THEN GoTo(i, "sleep") ELSE Ends(i)
    /\ UNCHANGED <<chain, txs, slots, calls, reqs, known, lost, overrun>>

\* After the sleep: an unreadable config or plan ends the round.
Look(i) ==
    /\ On(i, "sleep")
    /\ \/ GoTo(i, "test") /\ UNCHANGED lost
       \/ Landed(watch[i].key, TRUE) /\ Ends(i)
       \/ Landed(watch[i].key, FALSE) /\ GoTo(i, "ask")
    /\ UNCHANGED <<chain, txs, slots, calls, reqs, known, overrun>>

\* A transaction in no block, and a sequencer that cannot be asked, end the round.
Ask(i) ==
    /\ On(i, "ask")
    /\ \/ GoTo(i, "test")
       \/ Included(watch[i].tx) /\ GoTo(i, "recheck")
    /\ UNCHANGED <<chain, txs, slots, calls, reqs, known, lost, overrun>>

\* The second look, the limit of re-sends, and preflight_register.
Recheck(i) ==
    LET k == watch[i].key IN
    /\ On(i, "recheck")
    /\ \/ /\ Landed(k, TRUE)
          /\ GoTo(i, "test")
          /\ UNCHANGED slots
       \/ /\ Landed(k, FALSE)
          /\ IF watch[i].resubmits >= MaxResubmits
               THEN slots' = [slots EXCEPT ![k] = None] /\ Ends(i)
               ELSE \/ slots' = [slots EXCEPT ![k] = Entry("error")] /\ Ends(i)
                    \/ GoTo(i, "send") /\ UNCHANGED slots
    /\ UNCHANGED <<chain, txs, calls, reqs, known, overrun>>

NotResent(i) ==
    /\ On(i, "send")
    /\ watch' = [watch EXCEPT ![i].pc = "test", ![i].resubmits = @ + 1]
    /\ UNCHANGED <<chain, txs, slots, calls, reqs, known, lost, overrun>>

Resend(i) ==
    /\ On(i, "send")
    /\ \E j \in TxIds :
         /\ Send(watch[i].key, j)
         /\ watch' = [watch EXCEPT ![i].pc = "record", ![i].resubmits = @ + 1, ![i].next = j]
    /\ UNCHANGED <<chain, slots, calls, reqs, known, lost, overrun>>

\* The watcher follows the new transaction and refreshes the slot; its own
\* deadline stays.
RecordResend(i) ==
    /\ On(i, "record")
    /\ watch' = [watch EXCEPT ![i].pc = "test", ![i].tx = watch[i].next, ![i].next = None]
    /\ slots' = [slots EXCEPT ![watch[i].key] = Entry("pending")]
    /\ UNCHANGED <<chain, txs, calls, reqs, known, lost, overrun>>

-----------------------------------------------------------------------------
(* dispatch_recorded and the SDK below it. *)

\* start is called: the SDK sends the request, or has failed to.
Dispatch(c, k) ==
    /\ calls[c] = None
    /\ reqs[c] # None => reqs[c].dispatched /\ reqs[c].replied
    /\ reqs' = [reqs EXCEPT ![c] = [dispatched |-> FALSE, replied |-> FALSE, held |-> TRUE,
                                    sync |-> None, told |-> 0]]
    /\ \E call \in {NewCall(k), None} :
         calls' = [calls EXCEPT ![c] = call]
    /\ UNCHANGED <<chain, txs, slots, watch, known, lost, overrun>>

\* The transport gives up: a refusal, or REGISTER_TIMEOUT.  The call goes on.
TransportFails(c) ==
    /\ reqs[c] # None /\ ~reqs[c].replied
    /\ reqs' = [reqs EXCEPT ![c] = Completion(@, "err")]
    /\ UNCHANGED <<chain, txs, slots, calls, watch, known, lost, overrun>>

\* start has returned: an error left behind is the dispatch's own result, and a
\* reply left behind goes to on_done.  Either way the owner is told once.
Returned(c) ==
    /\ reqs[c] # None /\ ~reqs[c].dispatched
    /\ reqs' = [reqs EXCEPT ![c].dispatched = TRUE, ![c].sync = None,
                            ![c].held = @ /\ reqs[c].sync = None,
                            ![c].told = IF reqs[c].sync # None /\ reqs[c].held THEN @ + 1 ELSE @]
    /\ UNCHANGED <<chain, txs, slots, calls, watch, known, lost, overrun>>

-----------------------------------------------------------------------------
(* get_membership. *)

WrongAnswerOf(fetched) == IF fetched = "present" THEN "registered" ELSE "absent"
\* A failed read is an empty reply, which tells the caller nothing.
AnswerOf(fetched) ==
    CASE fetched = "present" -> "registered" [] fetched = "absent" -> "absent" [] OTHER -> None

GetMembership(k) ==
    /\ \E f \in Fetch(k) :
         known' = IF AnswerOf(f) = None THEN known ELSE [known EXCEPT ![k] = AnswerOf(f)]
    /\ UNCHANGED <<chain, txs, slots, calls, watch, reqs, lost, overrun>>

-----------------------------------------------------------------------------
(* The sequencer, and time. *)

\* The registry program keeps memberships unique.
Decide(i) ==
    /\ txs[i] # None /\ txs[i].st = "queued"
    /\ \E st \in {"applied", "reverted", "dropped"} :
         /\ st = "applied" => txs[i].key \notin chain
         /\ txs' = [txs EXCEPT ![i].st = st, ![i].age = 0]
         /\ chain' = IF st = "applied" THEN chain \cup {txs[i].key} ELSE chain
    /\ UNCHANGED <<slots, calls, watch, reqs, known, lost, overrun>>

WrongOlder(entry) == IF entry = None THEN None ELSE entry
\* reg_in_flight drops an entry as old as TTL whenever the slots are looked at.
Older(entry) ==
    IF entry = None THEN None
    ELSE IF entry.age + 1 >= TTL THEN None ELSE [entry EXCEPT !.age = @ + 1]

\* Who acts for k: a caller that took the slot, and every watcher that was started.
Busy(k) ==
    \/ \E c \in Callers : calls[c] # None /\ calls[c].key = k /\ calls[c].pc \in {"send", "record"}
    \/ \E i \in TxIds : watch[i] # None /\ watch[i].key = k

Queued(t, k) == txs[t] # None /\ txs[t].key = k /\ txs[t].st = "queued"

Expiring(k) == slots[k] # None /\ slots[k].age = TTL - 1

\* A key stays overrun until nobody acts for it and the sequencer holds nothing of it.
Overruns(k) ==
    \/ Expiring(k) /\ Busy(k)
    \/ k \in overrun /\ (Busy(k) \/ \E t \in TxIds : Queued(t, k))

\* Time passes.  A transaction the sequencer keeps is decided within Settle
\* ticks; nothing else is assumed of how long a step takes.
Tick ==
    /\ \A i \in TxIds : txs[i] # None /\ txs[i].st = "queued" => txs[i].age < Settle
    /\ txs' = [i \in TxIds |-> IF txs[i] # None /\ txs[i].st = "queued"
                                 THEN [txs[i] EXCEPT !.age = @ + 1] ELSE txs[i]]
    /\ slots' = [k \in Keys |-> Older(slots[k])]
    /\ watch' = [i \in TxIds |-> IF watch[i] # None /\ watch[i].pc # "start" /\ watch[i].age < TTL
                                   THEN [watch[i] EXCEPT !.age = @ + 1] ELSE watch[i]]
    /\ overrun' = {k \in Keys : Overruns(k)}
    /\ UNCHANGED <<chain, calls, reqs, known, lost>>

-----------------------------------------------------------------------------
CallStep(c) == NoContext(c) \/ Found(c) \/ Preflight(c) \/ Claim(c) \/ NotSent(c) \/ Submit(c) \/ Record(c)

WatchStep(i) ==
    \/ Begin(i) \/ Test(i) \/ Look(i) \/ Ask(i) \/ Recheck(i)
    \/ NotResent(i) \/ Resend(i) \/ RecordResend(i)

ReqStep(c) == TransportFails(c) \/ Returned(c)

Next ==
    \/ \E c \in Callers : CallStep(c) \/ ReqStep(c) \/ \E k \in Keys : Dispatch(c, k)
    \/ \E i \in TxIds : WatchStep(i) \/ Decide(i)
    \/ \E k \in Keys : GetMembership(k)
    \/ Tick

\* The sequencer decides, and time passes.  No caller, watcher or request has to
\* go on: the process may stop at any point of one.
Fairness ==
    /\ \A i \in TxIds : WF_vars(Decide(i))
    /\ WF_vars(Tick)

Spec == Init /\ [][Next]_vars /\ Fairness

-----------------------------------------------------------------------------
(* Properties. *)

\* A caller that took the slot sends when no transaction of that membership
\* waits in the sequencer: two of them race, and the loser pays the gas of a
\* whole registration for nothing.  It holds of a membership whose slot has not
\* expired while its caller or a watcher was still at work (REG_IN_FLIGHT,
\* register_watch).
SoleSubmission ==
    \A c \in Callers : At(c, "send") /\ calls[c].key \notin overrun =>
        ~ \E t \in TxIds : Queued(t, calls[c].key)

\* Once the watcher has judged a registration reverted, nothing of that
\* membership is under way, and an error it leaves in the slot, which every
\* caller is told until it expires, is final.  It holds of a membership whose
\* slot has not expired under its owner (register_watch).
RevertIsSettled ==
    \A k \in Keys \ overrun : (\E t \in TxIds : Queued(t, k)) =>
        /\ ~ \E w \in TxIds : On(w, "send") /\ watch[w].key = k
        /\ slots[k] # None => slots[k].reply # "error"

\* The owner of a request gets exactly one outcome, the dispatch's own error or
\* a call of on_done, however its completion and its return interleave
\* (dispatch_recorded).
OneOutcome ==
    \A c \in Callers : reqs[c] # None =>
        reqs[c].told = IF reqs[c].dispatched /\ reqs[c].replied THEN 1 ELSE 0

\* A membership that was answered as registered is never answered as absent
\* while the registry holds it, whatever reads fail: the poller would take it
\* for erased (get_membership).
NoFalseErasure ==
    [][\A k \in Keys : known[k] = "registered" => known'[k] = "registered"]_vars

\* A membership does not stay blocked: its slot is freed, or it is registered,
\* however often the watcher refreshes the slot (REG_IN_FLIGHT_TTL).
SlotFreed ==
    \A k \in Keys : slots[k] # None ~> (slots[k] = None \/ k \in chain)
====
