---- MODULE RegisterSubmissionProofs ----
(***************************************************************************)
(* Theorems about RegisterSubmission, for every set of memberships and      *)
(* callers, every lifetime of a slot, every settling time below it, and any *)
(* number of sends, re-sends and lost reads.                                *)
(***************************************************************************)
EXTENDS RegisterSubmission, WellFoundedInduction, TLAPS

(* The inductive invariants. *)

\* A request has been told nothing before it is both dispatched and replied to:
\* until then its callback is held, and an early outcome waits in sync.
RequestOK(r) ==
    IF r.dispatched
      THEN r.sync = None /\ (r.held <=> ~r.replied) /\ r.told = (IF r.replied THEN 1 ELSE 0)
      ELSE r.held /\ r.told = 0 /\ (r.replied <=> r.sync # None)

RequestInv ==
    \A c \in Callers : /\ reqs[c] # None => RequestOK(reqs[c])
                       /\ calls[c] # None => reqs[c] # None

\* What a call and a watcher hold when they record a send, and the limit of
\* re-sends.
StepInv ==
    /\ \A c \in Callers : At(c, "record") => calls[c].tx \in TxIds
    /\ \A i \in TxIds : /\ On(i, "record") => watch[i].next \in TxIds
                        /\ On(i, "send") => watch[i].resubmits < MaxResubmits

TypeInv == TypeOK /\ RequestInv /\ StepInv

\* Who owns the slot of k: a caller that took it and has yet to record its send,
\* or a watcher.
CallOwns(c, k) == calls[c] # None /\ calls[c].key = k /\ calls[c].pc \in {"send", "record"}
WatchOwns(i, k) == watch[i] # None /\ watch[i].key = k

\* Where a watcher follows a transaction that it has not seen in a block.
Waiting == {"start", "test", "sleep", "ask"}

Held(k) == slots[k] # None /\ slots[k].reply = "pending"

\* An owned slot is held, and there is one owner.
Owned(k) ==
    /\ \A c \in Callers : CallOwns(c, k) =>
         /\ Held(k)
         /\ \A d \in Callers : CallOwns(d, k) => d = c
         /\ \A i \in TxIds : ~WatchOwns(i, k)
    /\ \A i \in TxIds : WatchOwns(i, k) =>
         /\ Held(k)
         /\ \A j \in TxIds : WatchOwns(j, k) => j = i

\* The send of t is yet to be recorded.
Sending(t, k) ==
    \/ \E c \in Callers : CallOwns(c, k) /\ calls[c].pc = "record" /\ calls[c].tx = t
    \/ \E i \in TxIds : WatchOwns(i, k) /\ watch[i].pc = "record" /\ watch[i].next = t

\* A transaction the sequencer holds keeps the slot, which is no older than the
\* transaction, but for the moment between a send and its record; and whoever
\* owns the slot follows that transaction.
Guarded(t, k) ==
    /\ Held(k)
    /\ slots[k].age <= txs[t].age \/ Sending(t, k)
    /\ \A c \in Callers : CallOwns(c, k) => calls[c].pc = "record" /\ calls[c].tx = t
    /\ \A i \in TxIds : WatchOwns(i, k) =>
         \/ watch[i].pc \in Waiting /\ watch[i].tx = t
         \/ watch[i].pc = "record" /\ watch[i].next = t

\* A send that is recorded, and one a watcher started from, is of its membership.
LinkInv ==
    /\ \A c \in Callers : At(c, "record") =>
         txs[calls[c].tx] # None /\ txs[calls[c].tx].key = calls[c].key
    /\ \A i \in TxIds : watch[i] # None => txs[i] # None /\ txs[i].key = watch[i].key

Settled(k) == Owned(k) /\ \A t \in TxIds : Queued(t, k) => Guarded(t, k)

SlotInv == LinkInv /\ \A k \in Keys \ overrun : Settled(k)

\* A membership that was answered as registered is on the chain.
KnownInv == \A k \in Keys : known[k] = "registered" => k \in chain

-----------------------------------------------------------------------------
(* Requests. *)

\* What completes a request, and what its return leaves, is a request.
LEMMA Told ==
  ASSUME NEW r \in Requests, NEW h \in BOOLEAN, NEW n \in 0 .. 1
  PROVE  /\ [r EXCEPT !.replied = TRUE, !.held = FALSE, !.told = 1] \in Requests
         /\ [r EXCEPT !.dispatched = TRUE, !.sync = None, !.held = h, !.told = n] \in Requests
<1> DEFINE s == [r EXCEPT !.replied = TRUE, !.held = FALSE]
           u == [r EXCEPT !.dispatched = TRUE, !.sync = None, !.held = h]
<1>1. s \in Requests /\ u \in Requests
  BY DEF Requests
<1>2. [r EXCEPT !.replied = TRUE, !.held = FALSE, !.told = 1] = [s EXCEPT !.told = 1]
  OBVIOUS
<1>3. [r EXCEPT !.dispatched = TRUE, !.sync = None, !.held = h, !.told = n] = [u EXCEPT !.told = n]
  OBVIOUS
<1> HIDE DEF s, u
<1>4. [s EXCEPT !.told = 1] \in Requests
  BY <1>1 DEF Requests
<1>5. [u EXCEPT !.told = n] \in Requests
  BY <1>1 DEF Requests
<1> QED BY <1>2, <1>3, <1>4, <1>5

LEMMA CompletionFacts ==
  ASSUME NEW r \in Requests, RequestOK(r), ~r.replied, NEW o \in {"ok", "err"}
  PROVE  Completion(r, o) \in Requests /\ RequestOK(Completion(r, o))
<1>1. CASE r.dispatched
  <2>1. r.held /\ r.told = 0 /\ r.sync = None
    BY <1>1 DEF RequestOK
  <2>2. Completion(r, o) = [r EXCEPT !.replied = TRUE, !.held = FALSE, !.told = 1]
    BY <1>1, <2>1 DEF Completion
  <2> DEFINE new == [r EXCEPT !.replied = TRUE, !.held = FALSE, !.told = 1]
  <2>7. 1 \in 0 .. 1
    OBVIOUS
  <2>3. new \in Requests
    BY <2>7, Told
  <2>4. new.dispatched /\ new.replied /\ ~new.held
    BY <1>1 DEF Requests
  <2>5. new.told = 1 /\ new.sync = None
    BY <2>1 DEF Requests
  <2> HIDE DEF new
  <2>6. RequestOK(new)
    BY <2>4, <2>5 DEF RequestOK
  <2> QED BY <2>2, <2>3, <2>6 DEF new
<1>2. CASE ~r.dispatched
  BY <1>2, NoneAssumption DEF Completion, Requests, RequestOK
<1> QED BY <1>1, <1>2

\* What is true of the calls and the requests.
CallSide ==
    /\ calls \in [Callers -> Calls \cup {None}]
    /\ reqs \in [Callers -> Requests \cup {None}]
    /\ RequestInv
    /\ \A c \in Callers : At(c, "record") => calls[c].tx \in TxIds

LEMMA ReplyFacts ==
  ASSUME CallSide, NEW c \in Callers, calls[c] # None, NEW reply, Reply(c, reply)
  PROVE  /\ CallSide' /\ calls'[c] = None
         /\ \A d \in Callers \ {c} : calls'[d] = calls[d]
<1>1. /\ calls' \in [Callers -> Calls \cup {None}] /\ calls'[c] = None
      /\ \A d \in Callers \ {c} : calls'[d] = calls[d]
  BY DEF Reply, CallSide
<1>2. reqs[c] \in Requests /\ RequestOK(reqs[c]) /\ reqs[c] # None
  BY DEF CallSide, RequestInv
<1>3. CASE reqs' = reqs
  BY <1>1, <1>3 DEF CallSide, RequestInv, At
<1>4. CASE ~reqs[c].replied /\ reqs' = [reqs EXCEPT ![c] = Completion(reqs[c], Fold(reply))]
  <2>1. Fold(reply) \in {"ok", "err"}
    BY DEF Fold
  <2>2. Completion(reqs[c], Fold(reply)) \in Requests /\ RequestOK(Completion(reqs[c], Fold(reply)))
    BY <1>2, <1>4, <2>1, CompletionFacts
  <2>3. /\ reqs' \in [Callers -> Requests \cup {None}] /\ reqs'[c] = Completion(reqs[c], Fold(reply))
        /\ \A d \in Callers \ {c} : reqs'[d] = reqs[d]
    BY <1>4, <2>2 DEF CallSide
  <2> QED BY <1>1, <2>2, <2>3 DEF CallSide, RequestInv, At
<1> QED BY <1>1, <1>3, <1>4 DEF Reply

LEMMA ProceedFacts ==
  ASSUME CallSide, NEW c \in Callers, calls[c] # None, NEW pc \in {"claim", "send"}, Proceed(c, pc)
  PROVE  /\ CallSide' /\ calls'[c] # None /\ calls'[c].pc = pc /\ calls'[c].key = calls[c].key
         /\ \A d \in Callers \ {c} : calls'[d] = calls[d]
<1>1. calls[c] \in Calls
  BY DEF CallSide
<1>2. /\ calls' \in [Callers -> Calls \cup {None}] /\ calls'[c] \in Calls
      /\ calls'[c].pc = pc /\ calls'[c].key = calls[c].key
      /\ \A d \in Callers \ {c} : calls'[d] = calls[d]
      /\ reqs' = reqs
  BY <1>1 DEF Proceed, CallSide, Calls
<1> QED BY <1>2, NoneAssumption DEF CallSide, RequestInv, At

\* A call moves one step, and is answered when it ends.
LEMMA CallStepFacts ==
  ASSUME CallSide, NEW c \in Callers, CallStep(c)
  PROVE  /\ CallSide'
         /\ \A d \in Callers \ {c} : calls'[d] = calls[d]
         /\ calls[c] \in Calls
         /\ \/ calls'[c] = None
            \/ calls'[c] \in Calls /\ calls'[c].key = calls[c].key
<1>0. calls[c] # None /\ calls[c] \in Calls
  BY DEF CallStep, NoContext, Found, Preflight, Claim, NotSent, Submit, Record, At, CallSide
<1>1. ASSUME NEW reply, Reply(c, reply)
      PROVE  /\ CallSide' /\ calls'[c] = None /\ \A d \in Callers \ {c} : calls'[d] = calls[d]
  BY <1>0, <1>1, ReplyFacts
<1>2. ASSUME NEW pc \in {"claim", "send"}, Proceed(c, pc)
      PROVE  /\ CallSide' /\ calls'[c] \in Calls /\ calls'[c].key = calls[c].key
             /\ \A d \in Callers \ {c} : calls'[d] = calls[d]
  BY <1>0, <1>2, ProceedFacts DEF CallSide
<1>3. CASE Submit(c)
  <2>1. PICK i \in TxIds : calls' = [calls EXCEPT ![c].pc = "record", ![c].tx = i]
    BY <1>3 DEF Submit
  <2>2. /\ calls' \in [Callers -> Calls \cup {None}] /\ calls'[c] \in Calls
        /\ calls'[c].tx = i /\ calls'[c].key = calls[c].key
        /\ \A d \in Callers \ {c} : calls'[d] = calls[d]
    BY <1>0, <2>1 DEF CallSide, Calls
  <2>3. reqs' = reqs
    BY <1>3 DEF Submit
  <2> QED BY <1>0, <2>2, <2>3 DEF CallSide, RequestInv, At
<1>4. CASE NoContext(c) \/ Found(c) \/ Preflight(c) \/ Claim(c) \/ NotSent(c) \/ Record(c)
  <2>1. (\E reply : Reply(c, reply)) \/ \E pc \in {"claim", "send"} : Proceed(c, pc)
    BY <1>4 DEF NoContext, Found, Preflight, Claim, NotSent, Record
  <2> QED BY <1>0, <1>1, <1>2, <2>1
<1> QED BY <1>3, <1>4 DEF CallStep

LEMMA DispatchFacts ==
  ASSUME CallSide, NEW c \in Callers, NEW k \in Keys, Dispatch(c, k)
  PROVE  /\ CallSide' /\ (calls'[c] = None \/ calls'[c].pc = "check")
         /\ \A d \in Callers \ {c} : calls'[d] = calls[d]
<1>1. calls[c] = None
  BY DEF Dispatch
<1>2. PICK call \in {NewCall(k), None} : calls' = [calls EXCEPT ![c] = call]
  BY DEF Dispatch
<1>3. NewCall(k) \in Calls /\ NewCall(k).pc = "check"
  BY DEF NewCall, Calls
<1>4. /\ calls' \in [Callers -> Calls \cup {None}] /\ (calls'[c] = None \/ calls'[c].pc = "check")
      /\ \A d \in Callers \ {c} : calls'[d] = calls[d]
  BY <1>2, <1>3 DEF CallSide
<1> DEFINE req == [dispatched |-> FALSE, replied |-> FALSE, held |-> TRUE, sync |-> None, told |-> 0]
<1>5. req \in Requests /\ RequestOK(req)
  BY DEF Requests, RequestOK
<1>6. reqs' = [reqs EXCEPT ![c] = req]
  BY DEF Dispatch
<1> HIDE DEF req
<1>7. /\ reqs' \in [Callers -> Requests \cup {None}] /\ reqs'[c] = req
      /\ \A d \in Callers \ {c} : reqs'[d] = reqs[d]
  BY <1>5, <1>6 DEF CallSide
<1> QED BY <1>4, <1>5, <1>7, NoneAssumption DEF CallSide, RequestInv, At

LEMMA ReqStepFacts ==
  ASSUME CallSide, NEW c \in Callers, ReqStep(c)
  PROVE  CallSide' /\ UNCHANGED calls
<1>1. calls' = calls /\ reqs[c] \in Requests /\ reqs[c] # None /\ RequestOK(reqs[c])
  BY DEF ReqStep, TransportFails, Returned, CallSide, RequestInv
<1>2. ASSUME NEW req \in Requests, RequestOK(req), reqs' = [reqs EXCEPT ![c] = req]
      PROVE  CallSide'
  <2>1. /\ reqs' \in [Callers -> Requests \cup {None}] /\ reqs'[c] = req
        /\ \A d \in Callers \ {c} : reqs'[d] = reqs[d]
    BY <1>2 DEF CallSide
  <2> QED BY <1>1, <1>2, <2>1, NoneAssumption DEF CallSide, RequestInv, At
<1>3. CASE TransportFails(c)
  <2>1. Completion(reqs[c], "err") \in Requests /\ RequestOK(Completion(reqs[c], "err"))
    BY <1>1, <1>3, CompletionFacts DEF TransportFails
  <2> QED BY <1>1, <1>2, <1>3, <2>1 DEF TransportFails
<1>4. CASE Returned(c)
  <2> DEFINE r == reqs[c]
             back == [r EXCEPT !.dispatched = TRUE, !.sync = None, !.held = TRUE, !.told = 0]
             told == [r EXCEPT !.dispatched = TRUE, !.sync = None, !.held = FALSE, !.told = 1]
  <2>1. ~r.dispatched /\ r \in Requests /\ RequestOK(r) /\ r.held /\ r.told = 0
    BY <1>1, <1>4 DEF Returned, RequestOK
  <2>2. CASE r.sync = None
    <3>1. ~r.replied
      BY <2>1, <2>2 DEF RequestOK
    <3>7. 0 \in 0 .. 1
      OBVIOUS
    <3>2. back \in Requests
      BY <2>1, <3>7, Told
    <3>5. back.dispatched /\ ~back.replied /\ back.held
      BY <2>1, <3>1 DEF Requests
    <3>6. back.told = 0 /\ back.sync = None
      BY <2>1 DEF Requests
    <3>3. reqs' = [reqs EXCEPT ![c] = back]
      BY <1>4, <2>1, <2>2 DEF Returned, CallSide, Requests
    <3> HIDE DEF back, told, r
    <3>4. RequestOK(back)
      BY <3>2, <3>5, <3>6 DEF RequestOK
    <3> QED BY <1>1, <1>2, <3>2, <3>3, <3>4
  <2>3. CASE r.sync # None
    <3>1. r.replied
      BY <2>1, <2>3 DEF RequestOK
    <3>7. 1 \in 0 .. 1
      OBVIOUS
    <3>2. told \in Requests
      BY <2>1, <3>7, Told
    <3>5. told.dispatched /\ told.replied /\ ~told.held
      BY <2>1, <3>1 DEF Requests
    <3>6. told.told = 1 /\ told.sync = None
      BY <2>1 DEF Requests
    <3>3. reqs' = [reqs EXCEPT ![c] = told]
      BY <1>4, <2>1, <2>3 DEF Returned, CallSide, Requests
    <3> HIDE DEF back, told, r
    <3>4. RequestOK(told)
      BY <3>5, <3>6 DEF RequestOK
    <3> QED BY <1>1, <1>2, <3>2, <3>3, <3>4
  <2> QED BY <2>2, <2>3
<1> QED BY <1>1, <1>3, <1>4 DEF ReqStep

-----------------------------------------------------------------------------
(* Sends, slots and watchers. *)

\* A nonempty set of naturals has a least element.
LEMMA Least ==
  ASSUME NEW S, S \subseteq Nat, S # {}
  PROVE  \E x \in S : \A y \in S : x <= y
<1> DEFINE R == OpToRel(<, Nat)
<1>1. IsWellFoundedOn(R, Nat)
  BY NatLessThanWellFounded, Zenon
<1>2. \A x, y \in Nat : x < y => <<x, y>> \in R
  BY SMT DEF OpToRel
<1> HIDE DEF R
<1>3. PICK x \in S : \A y \in S : ~ (<<y, x>> \in R)
  BY <1>1, WFMin, Zenon
<1>4. \A y \in S : ~ (y < x)
  BY <1>2, <1>3, Zenon
<1>5. \A y \in S : x <= y
  BY <1>4
<1> QED BY <1>5

\* A send gets a number that no earlier send has.
LEMMA SendFacts ==
  ASSUME txs \in [TxIds -> Txs \cup {None}], NEW k \in Keys, NEW i \in TxIds, Send(k, i)
  PROVE  /\ txs' \in [TxIds -> Txs \cup {None}]
         /\ txs[i] = None /\ txs'[i] \in Txs /\ txs'[i].key = k
         /\ \A j \in TxIds \ {i} : txs'[j] = txs[j]
<1>1. Free \subseteq Nat /\ Free # {}
  BY DEF Send, Free, TxIds
<1>2. \E x \in Free : \A y \in Free : x <= y
  BY <1>1, Least
<1>3. NextTx \in Free
  BY <1>2 DEF NextTx
<1>4. txs[i] = None
  BY <1>3 DEF Send, Free
<1>5. PICK st \in {"queued", "dropped"} : txs' = [txs EXCEPT ![i] = [key |-> k, st |-> st, age |-> 0]]
  BY DEF Send
<1> DEFINE new == [key |-> k, st |-> st, age |-> 0]
<1>6. new \in Txs /\ new.key = k
  BY TimesAssumption DEF Txs, TxStates
<1>7. txs' = [txs EXCEPT ![i] = new]
  BY <1>5
<1> HIDE DEF new
<1> QED BY <1>4, <1>6, <1>7

LEMMA LandedFacts ==
  ASSUME lost \in 0 .. MaxLostReads, NEW k, NEW there, Landed(k, there)
  PROVE  lost' \in 0 .. MaxLostReads
BY TimesAssumption DEF Landed

LEMMA EntryFacts ==
  ASSUME NEW reply \in {"pending", "error"}
  PROVE  /\ Entry(reply) \in Entries /\ Entry(reply) # None
         /\ Entry(reply).reply = reply /\ Entry(reply).age = 0
<1>1. Entry(reply) \in Entries /\ Entry(reply).reply = reply /\ Entry(reply).age = 0
  BY TimesAssumption DEF Entry, Entries
<1> QED BY <1>1, NoneAssumption

\* The slot of k is set.
SlotSet(k, e) ==
    /\ slots' \in [Keys -> Entries \cup {None}] /\ slots'[k] = e
    /\ \A l \in Keys \ {k} : slots'[l] = slots[l]

LEMMA SlotFacts ==
  ASSUME slots \in [Keys -> Entries \cup {None}], NEW k \in Keys, NEW e \in Entries \cup {None},
         slots' = [slots EXCEPT ![k] = e]
  PROVE  SlotSet(k, e)
BY DEF SlotSet

\* Watcher i ends, or goes on at pc with the transactions tx and next.
WatchEnds(i) ==
    /\ watch' \in [TxIds -> Watchers \cup {None}] /\ watch'[i] = None
    /\ \A j \in TxIds \ {i} : watch'[j] = watch[j]

WatchGoes(i, pc) ==
    /\ watch' \in [TxIds -> Watchers \cup {None}] /\ watch'[i] \in Watchers
    /\ watch'[i].pc = pc /\ watch'[i].key = watch[i].key /\ watch'[i].age = watch[i].age
    /\ \A j \in TxIds \ {i} : watch'[j] = watch[j]

WatchTyped == watch \in [TxIds -> Watchers \cup {None}]

LEMMA EndsFacts ==
  ASSUME WatchTyped, NEW i \in TxIds, Ends(i)
  PROVE  WatchEnds(i)
BY DEF WatchTyped, Ends, WatchEnds

LEMMA GoToFacts ==
  ASSUME WatchTyped, NEW i \in TxIds, watch[i] # None,
         NEW pc \in {"test", "sleep", "ask", "recheck", "send"}, GoTo(i, pc)
  PROVE  /\ WatchGoes(i, pc) /\ watch'[i].tx = watch[i].tx /\ watch'[i].next = watch[i].next
         /\ watch'[i].resubmits = watch[i].resubmits
<1>1. watch[i] \in Watchers
  BY DEF WatchTyped
<1>2. watch' = [watch EXCEPT ![i] = [watch[i] EXCEPT !.pc = pc]]
  BY DEF GoTo
<1> DEFINE new == [watch[i] EXCEPT !.pc = pc]
<1>3. /\ new \in Watchers /\ new.pc = pc /\ new.key = watch[i].key /\ new.age = watch[i].age
      /\ new.tx = watch[i].tx /\ new.next = watch[i].next /\ new.resubmits = watch[i].resubmits
  BY <1>1 DEF Watchers
<1> HIDE DEF new
<1> QED BY <1>2, <1>3 DEF WatchGoes, WatchTyped, new

\* What is true of the rest of the state.
RestSide ==
    /\ chain \subseteq Keys
    /\ txs \in [TxIds -> Txs \cup {None}]
    /\ slots \in [Keys -> Entries \cup {None}]
    /\ WatchTyped
    /\ known \in [Keys -> {"absent", "registered"}]
    /\ lost \in 0 .. MaxLostReads
    /\ overrun \subseteq Keys
    /\ \A i \in TxIds : /\ On(i, "record") => watch[i].next \in TxIds
                        /\ On(i, "send") => watch[i].resubmits < MaxResubmits

LEMMA Sides == TypeInv <=> CallSide /\ RestSide
BY DEF TypeInv, TypeOK, StepInv, CallSide, RestSide, WatchTyped

\* One more re-send of a watcher that has some left, with the step it goes to.
LEMMA ResubmitFacts ==
  ASSUME NEW w \in Watchers, w.resubmits < MaxResubmits, NEW pc \in {"test", "record"},
         NEW j \in TxIds \cup {None}
  PROVE  LET new == [[w EXCEPT !.pc = pc, !.next = j] EXCEPT !.resubmits = @ + 1]
         IN  /\ new \in Watchers /\ new.pc = pc /\ new.key = w.key /\ new.age = w.age
             /\ new.next = j
<1> DEFINE s == [w EXCEPT !.pc = pc, !.next = j]
<1>1. /\ s \in Watchers /\ s.pc = pc /\ s.key = w.key /\ s.age = w.age /\ s.next = j
      /\ s.resubmits = w.resubmits
  BY DEF Watchers
<1> HIDE DEF s
<1>2. s.resubmits + 1 \in 0 .. MaxResubmits
  BY <1>1, TimesAssumption DEF Watchers
<1> DEFINE n == s.resubmits + 1
           new == [s EXCEPT !.resubmits = n]
<1> HIDE DEF n
<1>3. new \in Watchers /\ new.pc = pc /\ new.key = w.key /\ new.age = w.age /\ new.next = j
  BY <1>1, <1>2 DEF Watchers, n
<1> QED BY <1>3 DEF s, n

LEMMA NotResentFacts ==
  ASSUME RestSide, NEW i \in TxIds, NotResent(i)
  PROVE  WatchGoes(i, "test")
<1>1. watch[i] \in Watchers /\ watch[i].resubmits < MaxResubmits
  BY DEF NotResent, On, RestSide, WatchTyped
<1> DEFINE w == watch[i]
           j == w.next
           new == [[w EXCEPT !.pc = "test", !.next = j] EXCEPT !.resubmits = @ + 1]
<1>2. watch' = [watch EXCEPT ![i] = new]
  BY <1>1 DEF NotResent, Watchers, RestSide, WatchTyped
<1>4. j \in TxIds \cup {None} /\ w \in Watchers /\ w.resubmits < MaxResubmits
  BY <1>1 DEF Watchers
<1> HIDE DEF j, w
<1>3. new \in Watchers /\ new.pc = "test" /\ new.key = w.key /\ new.age = w.age /\ new.next = j
  BY <1>4, ResubmitFacts
<1> HIDE DEF new
<1> QED BY <1>2, <1>3 DEF WatchGoes, RestSide, WatchTyped, w

LEMMA ResendFacts ==
  ASSUME RestSide, NEW i \in TxIds, Resend(i)
  PROVE  /\ WatchGoes(i, "record")
         /\ \E j \in TxIds : Send(watch[i].key, j) /\ watch'[i].next = j
<1>1. watch[i] \in Watchers /\ watch[i].resubmits < MaxResubmits
  BY DEF Resend, On, RestSide, WatchTyped
<1>2. PICK j \in TxIds :
        /\ Send(watch[i].key, j)
        /\ watch' = [watch EXCEPT ![i].pc = "record", ![i].resubmits = @ + 1, ![i].next = j]
  BY DEF Resend
<1> DEFINE new == [[watch[i] EXCEPT !.pc = "record", !.next = j] EXCEPT !.resubmits = @ + 1]
<1>3. watch' = [watch EXCEPT ![i] = new]
  BY <1>1, <1>2 DEF Watchers, RestSide, WatchTyped
<1>4. /\ new \in Watchers /\ new.pc = "record" /\ new.key = watch[i].key /\ new.age = watch[i].age
      /\ new.next = j
  BY <1>1, ResubmitFacts
<1> HIDE DEF new
<1>5. WatchGoes(i, "record") /\ watch'[i].next = j
  BY <1>3, <1>4 DEF WatchGoes, RestSide, WatchTyped
<1> QED BY <1>2, <1>5

LEMMA RecordResendFacts ==
  ASSUME RestSide, NEW i \in TxIds, RecordResend(i)
  PROVE  /\ WatchGoes(i, "test") /\ watch'[i].tx = watch[i].next
         /\ SlotSet(watch[i].key, Entry("pending"))
<1>1. watch[i] \in Watchers /\ watch[i].next \in TxIds
  BY DEF RecordResend, On, RestSide, WatchTyped
<1> DEFINE new == [watch[i] EXCEPT !.pc = "test", !.tx = watch[i].next, !.next = None]
<1>2. watch' = [watch EXCEPT ![i] = new]
  BY DEF RecordResend
<1>3. /\ new \in Watchers /\ new.pc = "test" /\ new.key = watch[i].key /\ new.age = watch[i].age
      /\ new.tx = watch[i].next
  BY <1>1 DEF Watchers
<1> HIDE DEF new
<1>4. WatchGoes(i, "test") /\ watch'[i].tx = watch[i].next
  BY <1>2, <1>3 DEF WatchGoes, RestSide, WatchTyped
<1>5. watch[i].key \in Keys
  BY <1>1 DEF Watchers
<1>6. slots' = [slots EXCEPT ![watch[i].key] = Entry("pending")]
  BY DEF RecordResend
<1>7. slots \in [Keys -> Entries \cup {None}]
  BY DEF RestSide
<1>8. SlotSet(watch[i].key, Entry("pending"))
  BY <1>5, <1>6, <1>7, EntryFacts, SlotFacts
<1> QED BY <1>4, <1>8

\* A recheck ends the watcher, with the slot freed or in error, or lets it go on.
LEMMA RecheckFacts ==
  ASSUME RestSide, NEW i \in TxIds, Recheck(i)
  PROVE  /\ lost' \in 0 .. MaxLostReads
         /\ \/ /\ slots' = slots
               /\ WatchGoes(i, "test")
            \/ /\ slots' = slots
               /\ WatchGoes(i, "send") /\ watch'[i].resubmits < MaxResubmits
            \/ /\ WatchEnds(i)
               /\ SlotSet(watch[i].key, None) \/ SlotSet(watch[i].key, Entry("error"))
<1>1. watch[i] \in Watchers /\ watch[i].key \in Keys /\ watch[i] # None
  BY DEF Recheck, On, RestSide, WatchTyped, Watchers
<1>2. lost' \in 0 .. MaxLostReads
  BY LandedFacts DEF Recheck, RestSide
<1>3. WatchTyped /\ slots \in [Keys -> Entries \cup {None}]
  BY DEF RestSide
<1>4. CASE GoTo(i, "test") /\ slots' = slots
  BY <1>1, <1>2, <1>3, <1>4, GoToFacts
<1>5. CASE GoTo(i, "send") /\ slots' = slots /\ ~(watch[i].resubmits >= MaxResubmits)
  <2>1. watch[i].resubmits < MaxResubmits
    BY <1>1, <1>5, TimesAssumption DEF Watchers
  <2> QED BY <1>1, <1>2, <1>3, <1>5, <2>1, GoToFacts
<1>6. CASE Ends(i) /\ slots' = [slots EXCEPT ![watch[i].key] = None]
  BY <1>1, <1>2, <1>3, <1>6, EndsFacts, SlotFacts
<1>7. CASE Ends(i) /\ slots' = [slots EXCEPT ![watch[i].key] = Entry("error")]
  BY <1>1, <1>2, <1>3, <1>7, EndsFacts, SlotFacts, EntryFacts
<1> QED BY <1>4, <1>5, <1>6, <1>7, Zenon DEF Recheck

LEMMA WatchStepTypes ==
  ASSUME RestSide, NEW i \in TxIds, WatchStep(i)
  PROVE  RestSide'
<1> USE DEF RestSide
<1>1. WatchTyped /\ watch[i] # None /\ watch[i] \in Watchers /\ watch[i].key \in Keys
  BY DEF WatchStep, Begin, Test, Look, Ask, Recheck, NotResent, Resend, RecordResend, On, WatchTyped, Watchers
<1>2. /\ chain' = chain /\ known' = known /\ overrun' = overrun
  BY DEF WatchStep, Begin, Test, Look, Ask, Recheck, NotResent, Resend, RecordResend
<1>3. ASSUME NEW pc \in {"test", "sleep", "ask", "recheck"}, WatchGoes(i, pc)
      PROVE  WatchTyped' /\ \A j \in TxIds : /\ On(j, "record")' => watch'[j].next \in TxIds
                                             /\ On(j, "send")' => watch'[j].resubmits < MaxResubmits
  BY <1>3 DEF WatchGoes, WatchTyped, On
<1>4. ASSUME WatchEnds(i)
      PROVE  WatchTyped' /\ \A j \in TxIds : /\ On(j, "record")' => watch'[j].next \in TxIds
                                             /\ On(j, "send")' => watch'[j].resubmits < MaxResubmits
  BY <1>4 DEF WatchEnds, WatchTyped, On
<1>5. CASE Begin(i) \/ Test(i) \/ Ask(i)
  <2>1. (GoTo(i, "test") \/ GoTo(i, "sleep") \/ GoTo(i, "recheck") \/ Ends(i))
        /\ txs' = txs /\ slots' = slots /\ lost' = lost
    BY <1>5 DEF Begin, Test, Ask
  <2>2. WatchEnds(i) \/ \E pc \in {"test", "sleep", "ask", "recheck"} : WatchGoes(i, pc)
    BY <1>1, <2>1, GoToFacts, EndsFacts
  <2> QED BY <1>2, <1>3, <1>4, <2>1, <2>2
<1>6. CASE Look(i)
  <2>1. (GoTo(i, "ask") \/ GoTo(i, "test") \/ Ends(i)) /\ txs' = txs /\ slots' = slots
    BY <1>6 DEF Look
  <2>2. lost' \in 0 .. MaxLostReads
    BY <1>6, LandedFacts DEF Look
  <2>3. WatchEnds(i) \/ \E pc \in {"test", "sleep", "ask", "recheck"} : WatchGoes(i, pc)
    BY <1>1, <2>1, GoToFacts, EndsFacts
  <2> QED BY <1>2, <1>3, <1>4, <2>1, <2>2, <2>3
<1>7. CASE Recheck(i)
  <2>1. txs' = txs /\ lost' \in 0 .. MaxLostReads
    BY <1>7, RecheckFacts DEF Recheck
  <2>2. slots' \in [Keys -> Entries \cup {None}]
    BY <1>7, RecheckFacts DEF SlotSet
  <2>3. CASE WatchGoes(i, "send") /\ watch'[i].resubmits < MaxResubmits
    BY <1>2, <2>1, <2>2, <2>3 DEF WatchGoes, WatchTyped, On
  <2>4. CASE WatchEnds(i) \/ WatchGoes(i, "test")
    BY <1>2, <1>3, <1>4, <2>1, <2>2, <2>4
  <2> QED BY <1>7, <2>3, <2>4, RecheckFacts
<1>8. CASE NotResent(i)
  <2>1. txs' = txs /\ slots' = slots /\ lost' = lost
    BY <1>8 DEF NotResent
  <2> QED BY <1>2, <1>3, <1>8, <2>1, NotResentFacts
<1>9. CASE Resend(i)
  <2>1. slots' = slots /\ lost' = lost
    BY <1>9 DEF Resend
  <2>2. PICK j \in TxIds : Send(watch[i].key, j) /\ watch'[i].next = j
    BY <1>9, ResendFacts
  <2>3. txs' \in [TxIds -> Txs \cup {None}]
    BY <1>1, <2>2, SendFacts
  <2>4. WatchGoes(i, "record")
    BY <1>9, ResendFacts
  <2> QED BY <1>2, <2>1, <2>2, <2>3, <2>4 DEF WatchGoes, WatchTyped, On
<1>10. CASE RecordResend(i)
  <2>1. txs' = txs /\ lost' = lost
    BY <1>10 DEF RecordResend
  <2>2. slots' \in [Keys -> Entries \cup {None}]
    BY <1>10, RecordResendFacts DEF SlotSet
  <2> QED BY <1>2, <1>3, <1>10, <2>1, <2>2, RecordResendFacts
<1> QED BY <1>5, <1>6, <1>7, <1>8, <1>9, <1>10 DEF WatchStep

\* A call that is recorded starts a watcher, or none.
LEMMA RecordFacts ==
  ASSUME RestSide, CallSide, NEW c \in Callers, Record(c)
  PROVE  /\ calls[c].key \in Keys /\ calls[c].tx \in TxIds /\ calls'[c] = None
         /\ SlotSet(calls[c].key, Entry("pending"))
         /\ WatchTyped' /\ \A j \in TxIds \ {calls[c].tx} : watch'[j] = watch[j]
         /\ LET w == watch'[calls[c].tx]
            IN  \/ w = None
                \/ /\ w \in Watchers /\ w.pc = "start" /\ w.key = calls[c].key
                   /\ w.tx = calls[c].tx /\ w.age = 0
<1> DEFINE i == calls[c].tx
           k == calls[c].key
<1>1. k \in Keys /\ i \in TxIds /\ calls[c] # None
  BY DEF CallSide, Record, At, Calls
<1>2. slots' = [slots EXCEPT ![k] = Entry("pending")]
  BY DEF Record
<1>3. SlotSet(k, Entry("pending"))
  BY <1>1, <1>2, SlotFacts, EntryFacts DEF RestSide
<1>4. PICK w \in {Watcher(k, i), None} : watch' = [watch EXCEPT ![i] = w]
  BY DEF Record
<1>5. /\ Watcher(k, i) \in Watchers /\ Watcher(k, i).pc = "start" /\ Watcher(k, i).key = k
      /\ Watcher(k, i).tx = i /\ Watcher(k, i).age = 0
  BY <1>1, TimesAssumption DEF Watcher, Watchers
<1>6. calls'[c] = None
  BY DEF Record, Reply, CallSide
<1>7. /\ watch' \in [TxIds -> Watchers \cup {None}] /\ watch'[i] = w
      /\ \A j \in TxIds \ {i} : watch'[j] = watch[j]
  BY <1>1, <1>4, <1>5 DEF RestSide, WatchTyped
<1> HIDE DEF i, k
<1>8. \/ watch'[i] = None
      \/ /\ watch'[i] \in Watchers /\ watch'[i].pc = "start" /\ watch'[i].key = k
         /\ watch'[i].tx = i /\ watch'[i].age = 0
  BY <1>4, <1>5, <1>7
<1> QED BY <1>1, <1>3, <1>6, <1>7, <1>8 DEF WatchTyped, i, k

LEMMA CallStepTypes ==
  ASSUME RestSide, CallSide, NEW c \in Callers, CallStep(c)
  PROVE  RestSide'
<1> USE DEF RestSide
<1>1. /\ calls[c] \in Calls /\ calls[c].key \in Keys
      /\ chain' = chain /\ known' = known /\ overrun' = overrun
  BY DEF CallStep, NoContext, Found, Preflight, Claim, NotSent, Submit, Record, At, CallSide, Calls
<1>2. ASSUME watch' = watch
      PROVE  WatchTyped' /\ \A j \in TxIds : /\ On(j, "record")' => watch'[j].next \in TxIds
                                             /\ On(j, "send")' => watch'[j].resubmits < MaxResubmits
  BY <1>2 DEF WatchTyped, On
<1>3. CASE NoContext(c) \/ Found(c) \/ Preflight(c)
  <2>1. txs' = txs /\ slots' = slots /\ watch' = watch
    BY <1>3 DEF NoContext, Found, Preflight
  <2>2. lost' \in 0 .. MaxLostReads
    BY <1>3, LandedFacts DEF NoContext, Found, Preflight
  <2> QED BY <1>1, <1>2, <2>1, <2>2
<1>4. CASE Claim(c) \/ NotSent(c)
  <2>1. txs' = txs /\ watch' = watch /\ lost' = lost
    BY <1>4 DEF Claim, NotSent
  <2>2. slots' \in [Keys -> Entries \cup {None}]
    BY <1>1, <1>4, EntryFacts DEF Claim, NotSent
  <2> QED BY <1>1, <1>2, <2>1, <2>2
<1>5. CASE Submit(c)
  <2>1. slots' = slots /\ watch' = watch /\ lost' = lost
    BY <1>5 DEF Submit
  <2>2. PICK i \in TxIds : Send(calls[c].key, i)
    BY <1>5 DEF Submit
  <2>3. txs' \in [TxIds -> Txs \cup {None}]
    BY <1>1, <2>2, SendFacts
  <2> QED BY <1>1, <1>2, <2>1, <2>3
<1>6. CASE Record(c)
  <2>1. txs' = txs /\ lost' = lost
    BY <1>6 DEF Record
  <2>2. slots' \in [Keys -> Entries \cup {None}] /\ WatchTyped'
    BY <1>6, RecordFacts DEF SlotSet
  <2>3. \A j \in TxIds : /\ On(j, "record")' => watch'[j].next \in TxIds
                         /\ On(j, "send")' => watch'[j].resubmits < MaxResubmits
    BY <1>6, RecordFacts DEF On
  <2> QED BY <1>1, <2>1, <2>2, <2>3
<1> QED BY <1>3, <1>4, <1>5, <1>6 DEF CallStep

LEMMA DecideFacts ==
  ASSUME RestSide, NEW i \in TxIds, Decide(i)
  PROVE  /\ RestSide'
         /\ txs[i] \in Txs /\ txs'[i] \in Txs /\ txs'[i].key = txs[i].key /\ txs'[i].st # "queued"
         /\ \A j \in TxIds \ {i} : txs'[j] = txs[j]
<1> USE DEF RestSide
<1>1. /\ txs[i] \in Txs /\ slots' = slots /\ watch' = watch /\ known' = known /\ lost' = lost
      /\ overrun' = overrun
  BY DEF Decide
<1>2. PICK st \in {"applied", "reverted", "dropped"} :
        /\ txs' = [txs EXCEPT ![i].st = st, ![i].age = 0]
        /\ chain' = IF st = "applied" THEN chain \cup {txs[i].key} ELSE chain
  BY DEF Decide
<1> DEFINE s == [txs[i] EXCEPT !.st = st]
           new == [s EXCEPT !.age = 0]
<1>3. s \in Txs /\ s.key = txs[i].key /\ s.st = st
  BY <1>1 DEF Txs, TxStates
<1>4. txs' = [txs EXCEPT ![i] = new]
  BY <1>1, <1>2 DEF Txs
<1> HIDE DEF s
<1>5. new \in Txs /\ new.key = txs[i].key /\ new.st = st
  BY <1>3, TimesAssumption DEF Txs
<1> HIDE DEF new
<1>6. /\ txs' \in [TxIds -> Txs \cup {None}] /\ txs'[i] = new
      /\ \A j \in TxIds \ {i} : txs'[j] = txs[j]
  BY <1>4, <1>5
<1>7. chain' \subseteq Keys
  BY <1>1, <1>2 DEF Txs
<1> QED BY <1>1, <1>5, <1>6, <1>7 DEF WatchTyped, On

LEMMA TickFacts ==
  ASSUME RestSide, Tick
  PROVE  /\ RestSide'
         /\ \A i \in TxIds :
              /\ txs'[i] = None <=> txs[i] = None
              /\ txs[i] # None => /\ txs'[i].key = txs[i].key /\ txs'[i].st = txs[i].st
                                  /\ txs[i].st = "queued" => txs'[i].age = txs[i].age + 1
              /\ watch'[i] = None <=> watch[i] = None
              /\ watch[i] # None =>
                   /\ watch'[i].key = watch[i].key /\ watch'[i].pc = watch[i].pc
                   /\ watch'[i].tx = watch[i].tx /\ watch'[i].next = watch[i].next
         /\ \A k \in Keys : slots[k] # None /\ slots[k].age + 1 < TTL =>
              /\ slots'[k] # None /\ slots'[k].reply = slots[k].reply
              /\ slots'[k].age = slots[k].age + 1
<1> USE DEF RestSide
<1>1. ASSUME NEW i \in TxIds
      PROVE  /\ txs'[i] \in Txs \cup {None}
             /\ txs'[i] = None <=> txs[i] = None
             /\ txs[i] # None => /\ txs'[i].key = txs[i].key /\ txs'[i].st = txs[i].st
                                 /\ txs[i].st = "queued" => txs'[i].age = txs[i].age + 1
  <2>1. CASE txs[i] # None /\ txs[i].st = "queued"
    <3> DEFINE t == txs[i]
               n == t.age + 1
               new == [t EXCEPT !.age = n]
    <3>1. t \in Txs /\ t.age < Settle
      BY <2>1 DEF Tick
    <3>2. n \in 0 .. Settle
      BY <3>1, TimesAssumption DEF Txs
    <3>3. txs'[i] = new
      BY <2>1 DEF Tick
    <3> HIDE DEF n
    <3>4. new \in Txs /\ new.key = t.key /\ new.st = t.st /\ new.age = n
      BY <3>1, <3>2 DEF Txs
    <3> QED BY <2>1, <3>3, <3>4, NoneAssumption DEF n
  <2>2. CASE ~(txs[i] # None /\ txs[i].st = "queued")
    BY <2>2 DEF Tick
  <2> QED BY <2>1, <2>2
<1>2. ASSUME NEW i \in TxIds
      PROVE  /\ watch'[i] \in Watchers \cup {None}
             /\ watch'[i] = None <=> watch[i] = None
             /\ watch[i] # None =>
                  /\ watch'[i].key = watch[i].key /\ watch'[i].pc = watch[i].pc
                  /\ watch'[i].tx = watch[i].tx /\ watch'[i].next = watch[i].next
                  /\ watch'[i].resubmits = watch[i].resubmits
  <2>1. CASE watch[i] # None /\ watch[i].pc # "start" /\ watch[i].age < TTL
    <3> DEFINE w == watch[i]
               n == w.age + 1
               new == [w EXCEPT !.age = n]
    <3>1. w \in Watchers /\ n \in 0 .. TTL
      BY <2>1, TimesAssumption DEF WatchTyped, Watchers
    <3>3. watch'[i] = new
      BY <2>1 DEF Tick
    <3> HIDE DEF n
    <3>4. /\ new \in Watchers /\ new.key = w.key /\ new.pc = w.pc /\ new.age = n
          /\ new.tx = w.tx /\ new.next = w.next /\ new.resubmits = w.resubmits
      BY <3>1 DEF Watchers
    <3> QED BY <2>1, <3>3, <3>4, NoneAssumption DEF n
  <2>2. CASE ~(watch[i] # None /\ watch[i].pc # "start" /\ watch[i].age < TTL)
    BY <2>2 DEF Tick, WatchTyped
  <2> QED BY <2>1, <2>2
<1>3. ASSUME NEW k \in Keys
      PROVE  /\ slots'[k] \in Entries \cup {None}
             /\ slots[k] # None /\ slots[k].age + 1 < TTL =>
                  /\ slots'[k] # None /\ slots'[k].reply = slots[k].reply
                  /\ slots'[k].age = slots[k].age + 1
  <2>1. slots'[k] = Older(slots[k])
    BY DEF Tick
  <2>2. CASE slots[k] # None /\ ~(slots[k].age + 1 >= TTL)
    <3> DEFINE e == slots[k]
               n == e.age + 1
               new == [e EXCEPT !.age = n]
    <3>1. e \in Entries /\ n \in 0 .. TTL - 1
      BY <2>2, TimesAssumption DEF Entries
    <3>2. slots'[k] = new
      BY <2>1, <2>2 DEF Older
    <3> HIDE DEF n
    <3>3. new \in Entries /\ new.reply = e.reply /\ new.age = n
      BY <3>1 DEF Entries
    <3> QED BY <3>2, <3>3, NoneAssumption DEF n
  <2>3. CASE slots[k] = None \/ slots[k].age + 1 >= TTL
    <3>1. slots'[k] = None
      BY <2>1, <2>3 DEF Older
    <3>2. ~(slots[k] # None /\ slots[k].age + 1 < TTL)
      BY <2>3, TimesAssumption DEF Entries
    <3> QED BY <3>1, <3>2
  <2> QED BY <2>2, <2>3
<1>4. /\ txs' \in [TxIds -> Txs \cup {None}] /\ watch' \in [TxIds -> Watchers \cup {None}]
      /\ slots' \in [Keys -> Entries \cup {None}]
      /\ chain' = chain /\ known' = known /\ lost' = lost /\ overrun' \subseteq Keys
  BY <1>1, <1>2, <1>3 DEF Tick
<1>5. \A i \in TxIds : /\ On(i, "record")' => watch'[i].next \in TxIds
                       /\ On(i, "send")' => watch'[i].resubmits < MaxResubmits
  BY <1>2 DEF On
<1> QED BY <1>1, <1>2, <1>3, <1>4, <1>5 DEF WatchTyped

-----------------------------------------------------------------------------
(* Type correctness, and what the callers see. *)

LEMMA GetMembershipFacts ==
  ASSUME RestSide, NEW k \in Keys, GetMembership(k)
  PROVE  /\ RestSide'
         /\ \/ known' = known
            \/ known' = [known EXCEPT ![k] = IF k \in chain THEN "registered" ELSE "absent"]
<1>1. PICK f \in Fetch(k) : known' = IF AnswerOf(f) = None THEN known ELSE [known EXCEPT ![k] = AnswerOf(f)]
  BY DEF GetMembership
<1>2. CASE f = "error"
  <2>1. AnswerOf(f) = None
    BY <1>2 DEF AnswerOf
  <2>2. known' = known
    BY <1>1, <2>1
  <2> QED BY <2>2 DEF GetMembership, RestSide, WatchTyped, On
<1>3. CASE f = IF k \in chain THEN "present" ELSE "absent"
  <2>1. AnswerOf(f) = IF k \in chain THEN "registered" ELSE "absent"
    BY <1>3 DEF AnswerOf
  <2>2. AnswerOf(f) # None
    BY <2>1, NoneAssumption
  <2>3. known' = [known EXCEPT ![k] = IF k \in chain THEN "registered" ELSE "absent"]
    BY <1>1, <2>1, <2>2
  <2> QED BY <2>3 DEF GetMembership, RestSide, WatchTyped, On
<1> QED BY <1>2, <1>3 DEF Fetch

LEMMA InitTypeInv == Init => TypeInv
<1> SUFFICES ASSUME Init PROVE TypeInv
  OBVIOUS
<1>1. CallSide
  BY DEF Init, CallSide, RequestInv, At
<1>2. RestSide
  BY TimesAssumption DEF Init, RestSide, WatchTyped, On
<1> QED BY <1>1, <1>2, Sides

LEMMA NextTypeInv == TypeInv /\ [Next]_vars => TypeInv'
<1> SUFFICES ASSUME TypeInv, [Next]_vars PROVE CallSide' /\ RestSide'
  BY Sides, PTL
<1>0. CallSide /\ RestSide
  BY Sides
<1>1. ASSUME NEW c \in Callers, CallStep(c)
      PROVE  CallSide' /\ RestSide'
  BY <1>0, <1>1, CallStepFacts, CallStepTypes
<1>2. ASSUME NEW c \in Callers, ReqStep(c)
      PROVE  CallSide' /\ RestSide'
  <2>1. UNCHANGED <<chain, txs, slots, watch, known, lost, overrun>>
    BY <1>2 DEF ReqStep, TransportFails, Returned
  <2>2. RestSide'
    BY <1>0, <2>1 DEF RestSide, WatchTyped, On
  <2> QED BY <1>0, <1>2, <2>2, ReqStepFacts
<1>3. ASSUME NEW c \in Callers, NEW k \in Keys, Dispatch(c, k)
      PROVE  CallSide' /\ RestSide'
  <2>1. UNCHANGED <<chain, txs, slots, watch, known, lost, overrun>>
    BY <1>3 DEF Dispatch
  <2>2. RestSide'
    BY <1>0, <2>1 DEF RestSide, WatchTyped, On
  <2> QED BY <1>0, <1>3, <2>2, DispatchFacts
<1>4. ASSUME UNCHANGED <<calls, reqs>>
      PROVE  CallSide'
  BY <1>0, <1>4 DEF CallSide, RequestInv, At
<1>5. ASSUME NEW i \in TxIds, WatchStep(i)
      PROVE  CallSide' /\ RestSide'
  <2>1. UNCHANGED <<calls, reqs>>
    BY <1>5 DEF WatchStep, Begin, Test, Look, Ask, Recheck, NotResent, Resend, RecordResend
  <2> QED BY <1>0, <1>4, <1>5, <2>1, WatchStepTypes
<1>6. ASSUME NEW i \in TxIds, Decide(i)
      PROVE  CallSide' /\ RestSide'
  <2>1. UNCHANGED <<calls, reqs>>
    BY <1>6 DEF Decide
  <2> QED BY <1>0, <1>4, <1>6, <2>1, DecideFacts
<1>7. ASSUME NEW k \in Keys, GetMembership(k)
      PROVE  CallSide' /\ RestSide'
  <2>1. UNCHANGED <<calls, reqs>>
    BY <1>7 DEF GetMembership
  <2> QED BY <1>0, <1>4, <1>7, <2>1, GetMembershipFacts
<1>8. CASE Tick
  <2>1. UNCHANGED <<calls, reqs>>
    BY <1>8 DEF Tick
  <2> QED BY <1>0, <1>4, <1>8, <2>1, TickFacts
<1>9. CASE UNCHANGED vars
  BY <1>0, <1>9 DEF vars, CallSide, RequestInv, At, RestSide, WatchTyped, On
<1> QED BY <1>1, <1>2, <1>3, <1>5, <1>6, <1>7, <1>8, <1>9 DEF Next

\* Every reachable state is of the declared types (RegisterSubmission.TypeOK).
THEOREM TypeCorrect == Spec => []TypeOK
<1>1. TypeInv => TypeOK
  BY DEF TypeInv
<1> QED BY <1>1, InitTypeInv, NextTypeInv, PTL DEF Spec

LEMMA AlwaysTypeInv == Spec => []TypeInv
BY InitTypeInv, NextTypeInv, PTL DEF Spec

\* The owner of a request is told one outcome, when the dispatch has returned
\* and the callback has come, in whichever order they do (dispatch_recorded).
THEOREM ToldOnce == Spec => []OneOutcome
<1>1. TypeInv => OneOutcome
  BY DEF TypeInv, RequestInv, RequestOK, OneOutcome
<1> QED BY <1>1, AlwaysTypeInv, PTL

LEMMA ChainGrows ==
  ASSUME TypeInv, [Next]_vars
  PROVE  chain \subseteq chain'
BY DEF Next, vars, CallStep, NoContext, Found, Preflight, Claim, NotSent, Submit, Record,
       ReqStep, TransportFails, Returned, Dispatch, WatchStep, Begin, Test, Look, Ask, Recheck, NotResent,
       Resend, RecordResend, Decide, GetMembership, Tick

LEMMA KnownSteps ==
  ASSUME TypeInv, [Next]_vars
  PROVE  \/ known' = known
         \/ \E k \in Keys : /\ chain' = chain
                            /\ known' = [known EXCEPT ![k] = IF k \in chain THEN "registered" ELSE "absent"]
<1>1. RestSide
  BY Sides
<1>2. CASE \E k \in Keys : GetMembership(k)
  BY <1>1, <1>2, GetMembershipFacts DEF GetMembership
<1>3. CASE ~ \E k \in Keys : GetMembership(k)
  BY <1>3 DEF Next, vars, CallStep, NoContext, Found, Preflight, Claim, NotSent, Submit, Record,
       ReqStep, TransportFails, Returned, Dispatch, WatchStep, Begin, Test, Look, Ask, Recheck, NotResent,
       Resend, RecordResend, Decide, Tick
<1> QED BY <1>2, <1>3

LEMMA KnownStep == TypeInv /\ KnownInv /\ [Next]_vars => KnownInv'
<1> SUFFICES ASSUME TypeInv, KnownInv, [Next]_vars, NEW k \in Keys, known'[k] = "registered"
             PROVE  k \in chain'
  BY DEF KnownInv
<1>1. chain \subseteq chain'
  BY ChainGrows
<1>2. known \in [Keys -> {"absent", "registered"}]
  BY DEF TypeInv, TypeOK
<1> QED BY <1>1, <1>2, KnownSteps DEF KnownInv

\* A membership that was answered as registered is never answered as absent: a
\* read that fails answers nothing, and the registry holds it still
\* (get_membership).
THEOREM NeverFalselyErased == Spec => NoFalseErasure
<1>1. Init => KnownInv
  BY DEF Init, KnownInv
<1>2. TypeInv /\ KnownInv /\ [Next]_vars
        => [\A k \in Keys : known[k] = "registered" => known'[k] = "registered"]_vars
  <2> SUFFICES ASSUME TypeInv, KnownInv, [Next]_vars, NEW k \in Keys, known[k] = "registered"
               PROVE  known'[k] = "registered"
    OBVIOUS
  <2>1. known \in [Keys -> {"absent", "registered"}]
    BY DEF TypeInv, TypeOK
  <2> QED BY <2>1, KnownSteps DEF KnownInv
<1> QED BY <1>1, <1>2, AlwaysTypeInv, KnownStep, PTL DEF Spec, NoFalseErasure

-----------------------------------------------------------------------------
(* The slot, its owner and the transactions of a membership. *)

\* Nothing happens to the slot of k, to its owner or to a transaction of k but
\* that one may leave the queue.
Framed(k) ==
    /\ slots'[k] = slots[k]
    /\ \A c \in Callers : CallOwns(c, k)' \/ CallOwns(c, k) => calls'[c] = calls[c]
    /\ \A i \in TxIds : WatchOwns(i, k)' \/ WatchOwns(i, k) => watch'[i] = watch[i]
    /\ \A t \in TxIds : Queued(t, k)' => txs'[t] = txs[t]

LEMMA FrameFacts ==
  ASSUME NEW k \in Keys, Settled(k), Framed(k)
  PROVE  Settled(k)'
<1>1. /\ Held(k)' <=> Held(k)
      /\ slots'[k] = slots[k]
      /\ \A c \in Callers : CallOwns(c, k)' <=> CallOwns(c, k)
      /\ \A i \in TxIds : WatchOwns(i, k)' <=> WatchOwns(i, k)
      /\ \A t \in TxIds : Queued(t, k)' => Queued(t, k) /\ txs'[t] = txs[t]
      /\ \A c \in Callers : CallOwns(c, k) => calls'[c] = calls[c]
      /\ \A i \in TxIds : WatchOwns(i, k) => watch'[i] = watch[i]
  BY DEF Framed, Held, CallOwns, WatchOwns, Queued
<1>2. Owned(k)'
  BY <1>1 DEF Settled, Owned
<1>3. ASSUME NEW t \in TxIds, Queued(t, k)'
      PROVE  Guarded(t, k)'
  BY <1>1, <1>3 DEF Settled, Guarded, Sending
<1> QED BY <1>2, <1>3 DEF Settled

\* Steps that leave slots, transactions and watchers alone, and calls that do
\* not own a slot before or after.
LEMMA QuietFacts ==
  ASSUME UNCHANGED <<txs, slots, watch>>, NEW k \in Keys, Settled(k),
         \A c \in Callers : calls'[c] # calls[c] => ~CallOwns(c, k) /\ ~CallOwns(c, k)'
  PROVE  Settled(k)'
<1>1. Framed(k)
  BY DEF Framed
<1> QED BY <1>1, FrameFacts

LEMMA ClaimSettles ==
  ASSUME CallSide, RestSide, NEW c \in Callers, Claim(c), NEW k \in Keys, Settled(k)
  PROVE  Settled(k)'
<1>1. calls[c] # None /\ calls[c].pc = "claim" /\ calls[c].key \in Keys /\ calls[c] \in Calls
  BY DEF Claim, At, CallSide, Calls
<1>2. UNCHANGED <<txs, watch>>
  BY DEF Claim
<1>3. ~CallOwns(c, k)
  BY <1>1 DEF CallOwns
<1>4. CASE slots[calls[c].key] # None
  <2>1. Reply(c, slots[calls[c].key].reply) /\ UNCHANGED slots
    BY <1>4 DEF Claim
  <2>2. calls'[c] = None /\ \A d \in Callers \ {c} : calls'[d] = calls[d]
    BY <1>1, <2>1, ReplyFacts
  <2> QED BY <1>2, <1>3, <2>1, <2>2, QuietFacts DEF CallOwns
<1>5. CASE slots[calls[c].key] = None
  <2>1. slots' = [slots EXCEPT ![calls[c].key] = Entry("pending")] /\ Proceed(c, "send")
    BY <1>5 DEF Claim
  <2>2. SlotSet(calls[c].key, Entry("pending"))
    BY <1>1, <2>1, SlotFacts, EntryFacts DEF RestSide
  <2>3. /\ calls'[c] # None /\ calls'[c].pc = "send" /\ calls'[c].key = calls[c].key
        /\ \A d \in Callers \ {c} : calls'[d] = calls[d]
    BY <1>1, <2>1, ProceedFacts
  <2>4. CASE k # calls[c].key
    <3>1. Framed(k)
      BY <1>2, <1>3, <2>2, <2>3, <2>4 DEF Framed, SlotSet, CallOwns
    <3> QED BY <3>1, FrameFacts
  <2>5. CASE k = calls[c].key
    <3>1. ~Held(k)
      BY <1>5, <2>5 DEF Held
    <3>2. /\ \A d \in Callers : ~CallOwns(d, k)
          /\ \A i \in TxIds : ~WatchOwns(i, k)
          /\ \A t \in TxIds : ~Queued(t, k)
      BY <3>1 DEF Settled, Owned, Guarded
    <3>3. Held(k)'
      BY <2>2, <2>5, EntryFacts DEF SlotSet, Held
    <3>4. /\ \A d \in Callers : CallOwns(d, k)' => d = c
          /\ \A i \in TxIds : ~WatchOwns(i, k)'
          /\ \A t \in TxIds : ~Queued(t, k)'
      BY <1>2, <2>3, <3>2 DEF CallOwns, WatchOwns, Queued
    <3> QED BY <3>3, <3>4 DEF Settled, Owned
  <2> QED BY <2>4, <2>5
<1> QED BY <1>4, <1>5

LEMMA NotSentSettles ==
  ASSUME CallSide, RestSide, NEW c \in Callers, NotSent(c), NEW k \in Keys, Settled(k)
  PROVE  Settled(k)'
<1>1. calls[c] # None /\ calls[c].pc = "send" /\ calls[c].key \in Keys /\ calls[c] \in Calls
  BY DEF NotSent, At, CallSide, Calls
<1>2. UNCHANGED <<txs, watch>> /\ Reply(c, "failed")
  BY DEF NotSent
<1>3. calls'[c] = None /\ \A d \in Callers \ {c} : calls'[d] = calls[d]
  BY <1>1, <1>2, ReplyFacts
<1>4. SlotSet(calls[c].key, None)
  BY <1>1, SlotFacts DEF NotSent, RestSide
<1>5. CASE k # calls[c].key
  <2>1. Framed(k)
    BY <1>2, <1>3, <1>4, <1>5 DEF Framed, SlotSet, CallOwns
  <2> QED BY <2>1, FrameFacts
<1>6. CASE k = calls[c].key
  <2>1. CallOwns(c, k)
    BY <1>1, <1>6 DEF CallOwns
  <2>2. /\ \A d \in Callers : CallOwns(d, k) => d = c
        /\ \A i \in TxIds : ~WatchOwns(i, k)
        /\ \A t \in TxIds : ~Queued(t, k)
    BY <1>1, <2>1 DEF Settled, Owned, Guarded
  <2>3. /\ \A d \in Callers : ~CallOwns(d, k)'
        /\ \A i \in TxIds : ~WatchOwns(i, k)'
        /\ \A t \in TxIds : ~Queued(t, k)'
    BY <1>2, <1>3, <2>2 DEF CallOwns, WatchOwns, Queued
  <2> QED BY <2>3 DEF Settled, Owned
<1> QED BY <1>5, <1>6

LEMMA SubmitSettles ==
  ASSUME CallSide, RestSide, NEW c \in Callers, Submit(c), NEW k \in Keys, Settled(k)
  PROVE  Settled(k)'
<1>1. calls[c] # None /\ calls[c].pc = "send" /\ calls[c].key \in Keys /\ calls[c] \in Calls
  BY DEF Submit, At, CallSide, Calls
<1>2. UNCHANGED <<slots, watch>>
  BY DEF Submit
<1>3. PICK i \in TxIds : /\ Send(calls[c].key, i)
                         /\ calls' = [calls EXCEPT ![c].pc = "record", ![c].tx = i]
  BY DEF Submit
<1>4. /\ calls'[c] # None /\ calls'[c].pc = "record" /\ calls'[c].tx = i
      /\ calls'[c].key = calls[c].key
      /\ \A d \in Callers \ {c} : calls'[d] = calls[d]
  <2> DEFINE new == [calls[c] EXCEPT !.pc = "record", !.tx = i]
  <2>1. calls' = [calls EXCEPT ![c] = new]
    BY <1>3
  <2>2. new \in Calls /\ new.pc = "record" /\ new.tx = i /\ new.key = calls[c].key
    BY <1>1 DEF Calls
  <2> HIDE DEF new
  <2> QED BY <2>1, <2>2, NoneAssumption DEF CallSide
<1>5. /\ txs[i] = None /\ txs'[i].key = calls[c].key
      /\ \A j \in TxIds \ {i} : txs'[j] = txs[j]
  BY <1>1, <1>3, SendFacts DEF RestSide
<1>6. CASE k # calls[c].key
  <2>1. Framed(k)
    BY <1>2, <1>4, <1>5, <1>6 DEF Framed, CallOwns, Queued
  <2> QED BY <2>1, FrameFacts
<1>7. CASE k = calls[c].key
  <2>1. CallOwns(c, k)
    BY <1>1, <1>7 DEF CallOwns
  <2>2. /\ Held(k)
        /\ \A d \in Callers : CallOwns(d, k) => d = c
        /\ \A j \in TxIds : ~WatchOwns(j, k)
        /\ \A t \in TxIds : ~Queued(t, k)
    BY <1>1, <2>1 DEF Settled, Owned, Guarded
  <2>3. /\ Held(k)' /\ CallOwns(c, k)'
        /\ \A d \in Callers : CallOwns(d, k)' => d = c
        /\ \A j \in TxIds : ~WatchOwns(j, k)'
        /\ \A t \in TxIds : Queued(t, k)' => t = i
    BY <1>2, <1>4, <1>5, <1>7, <2>2 DEF Held, CallOwns, WatchOwns, Queued
  <2> QED BY <1>4, <2>3 DEF Settled, Owned, Guarded, Sending
<1> QED BY <1>6, <1>7

LEMMA RecordSettles ==
  ASSUME CallSide, RestSide, LinkInv, NEW c \in Callers, Record(c), NEW k \in Keys, Settled(k)
  PROVE  Settled(k)'
<1>0. PICK i \in TxIds : i = calls[c].tx
  BY RecordFacts
<1>1. calls[c] # None /\ calls[c].pc = "record" /\ At(c, "record")
  BY DEF Record, At
<1>2. txs' = txs
  BY DEF Record
<1>3. Reply(c, "pending")
  BY DEF Record
<1>4. calls'[c] = None /\ \A d \in Callers \ {c} : calls'[d] = calls[d]
  BY <1>1, <1>3, ReplyFacts
<1>5. /\ calls[c].key \in Keys
      /\ SlotSet(calls[c].key, Entry("pending"))
      /\ \A j \in TxIds \ {i} : watch'[j] = watch[j]
      /\ \/ watch'[i] = None
         \/ /\ watch'[i] \in Watchers /\ watch'[i].pc = "start" /\ watch'[i].key = calls[c].key
            /\ watch'[i].tx = i /\ watch'[i].age = 0
  BY <1>0, RecordFacts
<1>6. watch[i] # None => watch[i].key = calls[c].key
  BY <1>0, <1>1 DEF LinkInv
<1>7. CASE k # calls[c].key
  <2>1. Framed(k)
    BY <1>2, <1>4, <1>5, <1>6, <1>7 DEF Framed, SlotSet, CallOwns, WatchOwns
  <2> QED BY <2>1, FrameFacts
<1>8. CASE k = calls[c].key
  <2>1. CallOwns(c, k)
    BY <1>1, <1>8 DEF CallOwns
  <2>2. /\ \A d \in Callers : CallOwns(d, k) => d = c
        /\ \A j \in TxIds : ~WatchOwns(j, k)
        /\ \A t \in TxIds : Queued(t, k) => t = i
    BY <1>0, <1>1, <2>1 DEF Settled, Owned, Guarded
  <2>3. /\ Held(k)' /\ slots'[k].age = 0
    BY <1>5, <1>8, EntryFacts DEF SlotSet, Held
  <2>4. /\ \A d \in Callers : ~CallOwns(d, k)'
        /\ \A j \in TxIds : WatchOwns(j, k)' => j = i
        /\ \A t \in TxIds : Queued(t, k)' => t = i
    BY <1>2, <1>4, <1>5, <2>2 DEF CallOwns, WatchOwns, Queued
  <2>5. WatchOwns(i, k)' => watch'[i].pc = "start" /\ watch'[i].tx = i /\ watch'[i].age = 0
    BY <1>5 DEF WatchOwns
  <2>6. Queued(i, k)' => txs'[i].age \in 0 .. Settle
    BY <1>2, <1>5 DEF Queued, RestSide, Txs
  <2>7. Owned(k)'
    BY <2>3, <2>4, <2>5 DEF Owned
  <2>8. Queued(i, k)' => Guarded(i, k)'
    BY <2>3, <2>4, <2>5, <2>6, TimesAssumption DEF Guarded, Waiting
  <2> QED BY <2>4, <2>7, <2>8 DEF Settled
<1> QED BY <1>7, <1>8

\* What owning the slot tells of the others.
LEMMA WatcherAlone ==
  ASSUME NEW k \in Keys, Settled(k), NEW i \in TxIds, WatchOwns(i, k)
  PROVE  /\ Held(k)
         /\ \A c \in Callers : ~CallOwns(c, k)
         /\ \A j \in TxIds : WatchOwns(j, k) => j = i
         /\ \A t \in TxIds : Queued(t, k) =>
              /\ slots[k].age <= txs[t].age \/ (watch[i].pc = "record" /\ watch[i].next = t)
              /\ \/ watch[i].pc \in Waiting /\ watch[i].tx = t
                 \/ watch[i].pc = "record" /\ watch[i].next = t
<1>1. /\ Held(k)
      /\ \A c \in Callers : ~CallOwns(c, k)
      /\ \A j \in TxIds : WatchOwns(j, k) => j = i
  BY DEF Settled, Owned
<1>2. ASSUME NEW t \in TxIds, Queued(t, k)
      PROVE  /\ slots[k].age <= txs[t].age \/ (watch[i].pc = "record" /\ watch[i].next = t)
             /\ \/ watch[i].pc \in Waiting /\ watch[i].tx = t
                \/ watch[i].pc = "record" /\ watch[i].next = t
  BY <1>1, <1>2 DEF Settled, Guarded, Sending, Waiting
<1> QED BY <1>1, <1>2

\* A step of a watcher moves it on or ends it.
LEMMA WatchMoves ==
  ASSUME RestSide, NEW i \in TxIds, WatchStep(i)
  PROVE  /\ watch[i] # None /\ watch[i] \in Watchers /\ watch[i].key \in Keys
         /\ calls' = calls /\ overrun' = overrun
         /\ WatchEnds(i) \/ \E pc : WatchGoes(i, pc)
<1>1. /\ WatchTyped /\ watch[i] # None /\ watch[i] \in Watchers /\ watch[i].key \in Keys
      /\ calls' = calls /\ overrun' = overrun
  BY DEF WatchStep, Begin, Test, Look, Ask, Recheck, NotResent, Resend, RecordResend, On, WatchTyped,
         Watchers, RestSide
<1>2. CASE Begin(i) \/ Test(i) \/ Look(i) \/ Ask(i)
  <2>1. Ends(i) \/ \E pc \in {"test", "sleep", "ask", "recheck", "send"} : GoTo(i, pc)
    BY <1>2 DEF Begin, Test, Look, Ask
  <2> QED BY <1>1, <2>1, GoToFacts, EndsFacts
<1> QED BY <1>1, <1>2, RecheckFacts, NotResentFacts, ResendFacts, RecordResendFacts DEF WatchStep

\* A watcher leaves the slot and the transactions of other memberships alone.
LEMMA WatchFrames ==
  ASSUME RestSide, NEW i \in TxIds, WatchStep(i), NEW k \in Keys, k # watch[i].key, Settled(k)
  PROVE  Settled(k)'
<1>1. /\ watch[i] # None /\ watch[i].key \in Keys /\ calls' = calls
      /\ WatchEnds(i) \/ \E pc : WatchGoes(i, pc)
  BY WatchMoves
<1>2. /\ \A j \in TxIds \ {i} : watch'[j] = watch[j]
      /\ watch'[i] = None \/ watch'[i].key = watch[i].key
  BY <1>1 DEF WatchEnds, WatchGoes
<1>3. slots'[k] = slots[k]
  <2>1. CASE Recheck(i)
    BY <2>1, RecheckFacts DEF SlotSet
  <2>2. CASE RecordResend(i)
    BY <2>2, RecordResendFacts DEF SlotSet
  <2>3. CASE Begin(i) \/ Test(i) \/ Look(i) \/ Ask(i) \/ NotResent(i) \/ Resend(i)
    BY <2>3 DEF Begin, Test, Look, Ask, NotResent, Resend
  <2> QED BY <2>1, <2>2, <2>3 DEF WatchStep
<1>4. \A t \in TxIds : Queued(t, k)' => txs'[t] = txs[t]
  <2>1. CASE Resend(i)
    <3>1. PICK n \in TxIds : Send(watch[i].key, n)
      BY <2>1, ResendFacts
    <3>2. txs'[n].key = watch[i].key /\ \A t \in TxIds \ {n} : txs'[t] = txs[t]
      BY <1>1, <3>1, SendFacts DEF RestSide
    <3> QED BY <3>2 DEF Queued
  <2>2. CASE ~Resend(i)
    <3>1. txs' = txs
      BY <2>2 DEF WatchStep, Begin, Test, Look, Ask, Recheck, NotResent, RecordResend
    <3> QED BY <3>1
  <2> QED BY <2>1, <2>2
<1>5. Framed(k)
  BY <1>1, <1>2, <1>3, <1>4 DEF Framed, WatchOwns, CallOwns
<1> QED BY <1>5, FrameFacts

\* A watcher moves on or ends, its slot as it was: it follows the transaction it
\* followed, or the sequencer holds none of its membership.
LEMMA RoundSettles ==
  ASSUME RestSide, NEW i \in TxIds, NEW k \in Keys, WatchOwns(i, k), Settled(k),
         UNCHANGED <<txs, slots, calls>>,
         WatchEnds(i) \/ \E pc : WatchGoes(i, pc),
         \/ /\ watch[i].pc \in Waiting
            /\ watch'[i] # None => watch'[i].pc \in Waiting /\ watch'[i].tx = watch[i].tx
         \/ \A t \in TxIds : ~Queued(t, k)
  PROVE  Settled(k)'
<1>1. /\ \A j \in TxIds \ {i} : watch'[j] = watch[j]
      /\ watch'[i] = None \/ watch'[i].key = watch[i].key
  BY DEF WatchEnds, WatchGoes
<1>2. /\ Held(k)
      /\ \A c \in Callers : ~CallOwns(c, k)
      /\ \A j \in TxIds : WatchOwns(j, k) => j = i
      /\ \A t \in TxIds : Queued(t, k) =>
           /\ slots[k].age <= txs[t].age \/ (watch[i].pc = "record" /\ watch[i].next = t)
           /\ \/ watch[i].pc \in Waiting /\ watch[i].tx = t
              \/ watch[i].pc = "record" /\ watch[i].next = t
  BY WatcherAlone
<1>3. /\ Held(k)' /\ slots'[k] = slots[k]
      /\ \A c \in Callers : ~CallOwns(c, k)'
      /\ \A j \in TxIds : WatchOwns(j, k)' => j = i
      /\ \A t \in TxIds : Queued(t, k)' => Queued(t, k) /\ txs'[t] = txs[t]
  BY <1>1, <1>2 DEF Held, CallOwns, WatchOwns, Queued
<1>4. WatchOwns(i, k)' => watch'[i] # None
  BY DEF WatchOwns
<1>5. Owned(k)'
  BY <1>3 DEF Owned
<1>6. ASSUME NEW t \in TxIds, Queued(t, k)'
      PROVE  Guarded(t, k)'
  <2>1. /\ watch[i].pc \in Waiting /\ watch[i].pc # "record"
        /\ watch'[i] # None => watch'[i].pc \in Waiting /\ watch'[i].tx = watch[i].tx
    BY <1>3, <1>6 DEF Waiting
  <2>2. slots'[k].age <= txs'[t].age /\ watch[i].tx = t
    BY <1>2, <1>3, <1>6, <2>1
  <2> QED BY <1>3, <1>4, <2>1, <2>2 DEF Guarded
<1> QED BY <1>5, <1>6 DEF Settled

LEMMA RecheckSettles ==
  ASSUME RestSide, NEW i \in TxIds, Recheck(i), NEW k \in Keys, k = watch[i].key, Settled(k)
  PROVE  Settled(k)'
<1>1. watch[i].pc = "recheck" /\ WatchOwns(i, k)
  BY DEF Recheck, On, WatchOwns
<1>2. UNCHANGED <<txs, calls>>
  BY DEF Recheck
<1>3. /\ \A c \in Callers : ~CallOwns(c, k)
      /\ \A j \in TxIds : WatchOwns(j, k) => j = i
      /\ \A t \in TxIds : ~Queued(t, k)
  BY <1>1, WatcherAlone DEF Waiting
<1>4. CASE slots' = slots /\ (WatchGoes(i, "test") \/ WatchGoes(i, "send"))
  <2>1. UNCHANGED <<txs, slots, calls>>
    BY <1>2, <1>4
  <2> QED BY <1>1, <1>3, <1>4, <2>1, RoundSettles
<1>5. CASE WatchEnds(i)
  <2>1. watch'[i] = None /\ \A j \in TxIds \ {i} : watch'[j] = watch[j]
    BY <1>5 DEF WatchEnds
  <2>2. /\ \A c \in Callers : ~CallOwns(c, k)'
        /\ \A j \in TxIds : ~WatchOwns(j, k)'
        /\ \A t \in TxIds : ~Queued(t, k)'
    BY <1>2, <1>3, <2>1 DEF CallOwns, WatchOwns, Queued
  <2> QED BY <2>2 DEF Settled, Owned
<1> QED BY <1>4, <1>5, RecheckFacts

LEMMA ResendSettles ==
  ASSUME RestSide, NEW i \in TxIds, Resend(i), NEW k \in Keys, k = watch[i].key, Settled(k)
  PROVE  Settled(k)'
<1>1. watch[i].pc = "send" /\ WatchOwns(i, k)
  BY DEF Resend, On, WatchOwns
<1>2. UNCHANGED <<slots, calls>>
  BY DEF Resend
<1>3. PICK n \in TxIds : Send(watch[i].key, n) /\ watch'[i].next = n
  BY ResendFacts
<1>4. /\ txs[n] = None /\ txs'[n].key = k
      /\ \A j \in TxIds \ {n} : txs'[j] = txs[j]
  BY <1>3, SendFacts DEF RestSide
<1>5. /\ watch'[i] # None /\ watch'[i].pc = "record" /\ watch'[i].key = k
      /\ \A j \in TxIds \ {i} : watch'[j] = watch[j]
  BY ResendFacts, NoneAssumption DEF WatchGoes
<1>6. /\ Held(k)
      /\ \A c \in Callers : ~CallOwns(c, k)
      /\ \A j \in TxIds : WatchOwns(j, k) => j = i
      /\ \A t \in TxIds : ~Queued(t, k)
  BY <1>1, WatcherAlone DEF Waiting
<1>7. /\ Held(k)' /\ WatchOwns(i, k)'
      /\ \A c \in Callers : ~CallOwns(c, k)'
      /\ \A j \in TxIds : WatchOwns(j, k)' => j = i
      /\ \A t \in TxIds : Queued(t, k)' => t = n
  BY <1>2, <1>4, <1>5, <1>6 DEF Held, CallOwns, WatchOwns, Queued
<1> QED BY <1>3, <1>5, <1>7 DEF Settled, Owned, Guarded, Sending

LEMMA RecordResendSettles ==
  ASSUME RestSide, NEW i \in TxIds, RecordResend(i), NEW k \in Keys, k = watch[i].key, Settled(k)
  PROVE  Settled(k)'
<1>1. watch[i].pc = "record" /\ WatchOwns(i, k)
  BY DEF RecordResend, On, WatchOwns
<1>2. UNCHANGED <<txs, calls>>
  BY DEF RecordResend
<1>3. /\ watch'[i].pc = "test" /\ watch'[i].tx = watch[i].next
      /\ \A j \in TxIds \ {i} : watch'[j] = watch[j]
  BY RecordResendFacts DEF WatchGoes
<1>4. SlotSet(k, Entry("pending"))
  BY RecordResendFacts
<1>5. /\ \A c \in Callers : ~CallOwns(c, k)
      /\ \A j \in TxIds : WatchOwns(j, k) => j = i
      /\ \A t \in TxIds : Queued(t, k) => t = watch[i].next
  BY <1>1, WatcherAlone DEF Waiting
<1>6. Held(k)' /\ slots'[k].age = 0
  BY <1>4, EntryFacts DEF SlotSet, Held
<1>7. /\ \A c \in Callers : ~CallOwns(c, k)'
      /\ \A j \in TxIds : WatchOwns(j, k)' => j = i
      /\ \A t \in TxIds : Queued(t, k)' => t = watch'[i].tx
  BY <1>2, <1>3, <1>5 DEF CallOwns, WatchOwns, Queued
<1>8. \A t \in TxIds : Queued(t, k)' => 0 <= txs'[t].age
  BY <1>2, TimesAssumption DEF Queued, RestSide, Txs
<1>9. Owned(k)'
  BY <1>6, <1>7 DEF Owned
<1>10. ASSUME NEW t \in TxIds, Queued(t, k)'
       PROVE  Guarded(t, k)'
  BY <1>3, <1>6, <1>7, <1>8, <1>10 DEF Guarded, Waiting
<1> QED BY <1>9, <1>10 DEF Settled

LEMMA WatchStepSettles ==
  ASSUME RestSide, NEW i \in TxIds, WatchStep(i), NEW k \in Keys, Settled(k)
  PROVE  Settled(k)'
<1>0. CASE k # watch[i].key
  BY <1>0, WatchFrames
<1>1. CASE k = watch[i].key
  <2>1. WatchTyped /\ watch[i] # None /\ WatchOwns(i, k) /\ (WatchEnds(i) \/ \E pc : WatchGoes(i, pc))
    BY <1>1, WatchMoves DEF WatchOwns, RestSide
  <2>2. CASE Begin(i) \/ Test(i) \/ Look(i) \/ (Ask(i) /\ GoTo(i, "test"))
    <3>1. /\ watch[i].pc \in Waiting /\ UNCHANGED <<txs, slots, calls>>
          /\ Ends(i) \/ \E pc \in {"test", "sleep", "ask"} : GoTo(i, pc)
      BY <2>2 DEF Begin, Test, Look, Ask, On, Waiting
    <3>2. watch'[i] # None => watch'[i].pc \in Waiting /\ watch'[i].tx = watch[i].tx
      <4>1. CASE Ends(i)
        BY <2>1, <4>1, EndsFacts DEF WatchEnds
      <4>2. ASSUME NEW pc \in {"test", "sleep", "ask"}, GoTo(i, pc)
            PROVE  watch'[i].pc = pc /\ watch'[i].tx = watch[i].tx
        BY <2>1, <4>2, GoToFacts DEF WatchGoes
      <4> QED BY <3>1, <4>1, <4>2 DEF Waiting
    <3> QED BY <2>1, <3>1, <3>2, RoundSettles
  <2>3. CASE Ask(i) /\ Included(watch[i].tx)
    <3>1. watch[i].pc = "ask" /\ UNCHANGED <<txs, slots, calls>>
      BY <2>3 DEF Ask, On
    <3>2. \A t \in TxIds : Queued(t, k) => t = watch[i].tx
      BY <2>1, <3>1, WatcherAlone
    <3>3. \A t \in TxIds : ~Queued(t, k)
      BY <2>3, <3>2 DEF Included, Queued
    <3> QED BY <2>1, <3>1, <3>3, RoundSettles
  <2>4. CASE NotResent(i)
    <3>1. watch[i].pc = "send" /\ UNCHANGED <<txs, slots, calls>>
      BY <2>4 DEF NotResent, On
    <3>2. \A t \in TxIds : ~Queued(t, k)
      BY <2>1, <3>1, WatcherAlone DEF Waiting
    <3> QED BY <2>1, <3>1, <3>2, RoundSettles
  <2>5. Ask(i) => GoTo(i, "test") \/ Included(watch[i].tx)
    BY DEF Ask
  <2> QED BY <1>1, <2>2, <2>3, <2>4, <2>5, RecheckSettles, ResendSettles, RecordResendSettles DEF WatchStep
<1> QED BY <1>0, <1>1

\* A slot that guards a transaction and expires without an owner would be older
\* than the transaction, which settles before the slot is that old.
LEMMA TickSettles ==
  ASSUME RestSide, Tick, NEW k \in Keys, Settled(k), ~(Expiring(k) /\ Busy(k))
  PROVE  Settled(k)'
<1>1. calls' = calls
  BY DEF Tick
<1>2. \A i \in TxIds :
        /\ watch'[i] = None <=> watch[i] = None
        /\ watch[i] # None =>
             /\ watch'[i].key = watch[i].key /\ watch'[i].pc = watch[i].pc
             /\ watch'[i].tx = watch[i].tx /\ watch'[i].next = watch[i].next
  BY TickFacts
<1>3. \A i \in TxIds : WatchOwns(i, k)' <=> WatchOwns(i, k)
  BY <1>2 DEF WatchOwns
<1>4. \A c \in Callers : CallOwns(c, k)' <=> CallOwns(c, k)
  BY <1>1 DEF CallOwns
<1>5. \A t \in TxIds : Queued(t, k)' =>
        /\ Queued(t, k) /\ txs[t].age < Settle /\ txs[t].age \in 0 .. Settle
        /\ txs'[t].age = txs[t].age + 1
  <2>1. \A t \in TxIds : Queued(t, k)' => Queued(t, k) /\ txs'[t].age = txs[t].age + 1
    BY TickFacts DEF Queued
  <2>2. \A t \in TxIds : Queued(t, k) => txs[t].age < Settle /\ txs[t].age \in 0 .. Settle
    BY DEF Tick, Queued, RestSide, Txs
  <2> QED BY <2>1, <2>2
<1>6. slots[k] # None => slots[k].age \in 0 .. TTL - 1
  BY DEF RestSide, Entries
<1>7. Held(k) /\ slots[k].age + 1 < TTL => Held(k)' /\ slots'[k].age = slots[k].age + 1
  BY TickFacts DEF Held
<1>8. Held(k) /\ Busy(k) => slots[k].age + 1 < TTL
  <2>1. slots[k] # None /\ Busy(k) => slots[k].age # TTL - 1
    BY DEF Expiring
  <2> QED BY <1>6, <2>1, TimesAssumption DEF Held
<1>9. /\ \A c \in Callers : CallOwns(c, k) => Busy(k)
      /\ \A i \in TxIds : WatchOwns(i, k) => Busy(k)
  BY DEF CallOwns, WatchOwns, Busy
<1>10. Owned(k)'
  <2>1. ASSUME NEW c \in Callers, CallOwns(c, k)
        PROVE  /\ Held(k)'
               /\ \A d \in Callers : CallOwns(d, k) => d = c
               /\ \A i \in TxIds : ~WatchOwns(i, k)
    BY <1>7, <1>8, <1>9, <2>1 DEF Settled, Owned
  <2>2. ASSUME NEW i \in TxIds, WatchOwns(i, k)
        PROVE  Held(k)' /\ \A j \in TxIds : WatchOwns(j, k) => j = i
    BY <1>7, <1>8, <1>9, <2>2 DEF Settled, Owned
  <2> QED BY <1>3, <1>4, <2>1, <2>2 DEF Owned
<1>11. ASSUME NEW t \in TxIds, Queued(t, k)'
       PROVE  Guarded(t, k)'
  <2>1. /\ Queued(t, k) /\ txs[t].age < Settle /\ txs[t].age \in 0 .. Settle
        /\ txs'[t].age = txs[t].age + 1
    BY <1>5, <1>11
  <2>2. Held(k) /\ (slots[k].age <= txs[t].age \/ Sending(t, k)) /\ slots[k] # None
    BY <2>1 DEF Settled, Guarded, Held
  <2>3. Sending(t, k) => Busy(k)
    BY <1>9 DEF Sending
  <2>4. slots[k].age + 1 < TTL
    BY <1>6, <1>8, <2>1, <2>2, <2>3, TimesAssumption
  <2>5. Held(k)' /\ slots'[k].age = slots[k].age + 1
    BY <1>7, <2>2, <2>4
  <2>6. Sending(t, k) => Sending(t, k)'
    <3>1. \A i \in TxIds : WatchOwns(i, k) => WatchOwns(i, k)' /\ watch'[i].pc = watch[i].pc /\ watch'[i].next = watch[i].next
      BY <1>2 DEF WatchOwns
    <3> QED BY <1>1, <1>4, <3>1 DEF Sending
  <2>7. slots'[k].age <= txs'[t].age \/ Sending(t, k)'
    BY <1>6, <2>1, <2>2, <2>5, <2>6
  <2>8. \A c \in Callers : CallOwns(c, k)' => calls'[c].pc = "record" /\ calls'[c].tx = t
    BY <1>1, <1>4, <2>1 DEF Settled, Guarded
  <2>9. ASSUME NEW i \in TxIds, WatchOwns(i, k)'
        PROVE  \/ watch'[i].pc \in Waiting /\ watch'[i].tx = t
               \/ watch'[i].pc = "record" /\ watch'[i].next = t
    <3>1. WatchOwns(i, k) /\ watch[i] # None
      BY <1>3, <2>9 DEF WatchOwns
    <3> QED BY <1>2, <2>1, <3>1 DEF Settled, Guarded
  <2> QED BY <2>5, <2>7, <2>8, <2>9 DEF Guarded
<1> QED BY <1>10, <1>11 DEF Settled

\* A key for which nobody acts, and of which nothing is queued, is settled.
LEMMA TickQuiets ==
  ASSUME RestSide, Tick, NEW k \in Keys, ~Busy(k), \A t \in TxIds : ~Queued(t, k)
  PROVE  Settled(k)'
<1>1. /\ \A c \in Callers : ~CallOwns(c, k)
      /\ \A i \in TxIds : ~WatchOwns(i, k)
  BY DEF Busy, CallOwns, WatchOwns
<1>2. /\ \A c \in Callers : ~CallOwns(c, k)'
      /\ \A i \in TxIds : ~WatchOwns(i, k)'
      /\ \A t \in TxIds : ~Queued(t, k)'
  <2>1. calls' = calls
    BY DEF Tick
  <2>2. \A i \in TxIds : WatchOwns(i, k)' => WatchOwns(i, k)
    BY TickFacts DEF WatchOwns
  <2>3. \A t \in TxIds : Queued(t, k)' => Queued(t, k)
    BY TickFacts DEF Queued
  <2> QED BY <1>1, <2>1, <2>2, <2>3 DEF CallOwns
<1> QED BY <1>2 DEF Settled, Owned

LEMMA NextSettled ==
  ASSUME TypeInv, SlotInv, [Next]_vars, NEW k \in Keys, k \notin overrun'
  PROVE  Settled(k)'
<1>a. CASE Tick
  <2>1. RestSide /\ ~Overruns(k)
    BY <1>a, Sides DEF Tick
  <2>2. CASE k \in overrun
    BY <1>a, <2>1, <2>2, TickQuiets DEF Overruns
  <2>3. CASE k \notin overrun
    BY <1>a, <2>1, <2>3, TickSettles DEF Overruns, SlotInv
  <2> QED BY <2>2, <2>3
<1> SUFFICES ASSUME ~Tick PROVE Settled(k)'
  BY <1>a
<1>b. overrun' = overrun
  BY DEF Next, vars, CallStep, NoContext, Found, Preflight, Claim, NotSent, Submit, Record,
         ReqStep, TransportFails, Returned, Dispatch, WatchStep, Begin, Test, Look, Ask, Recheck,
         NotResent, Resend, RecordResend, Decide, GetMembership
<1>0. CallSide /\ RestSide /\ LinkInv /\ Settled(k)
  BY <1>b, Sides DEF SlotInv
<1>1. ASSUME NEW c \in Callers, CallStep(c)
      PROVE  Settled(k)'
  <2>1. CASE NoContext(c) \/ Found(c) \/ Preflight(c)
    <3>1. UNCHANGED <<txs, slots, watch>> /\ At(c, "check")
      BY <2>1 DEF NoContext, Found, Preflight
    <3>2. (\E reply : Reply(c, reply)) \/ Proceed(c, "claim")
      BY <2>1 DEF NoContext, Found, Preflight
    <3>3. \A d \in Callers \ {c} : calls'[d] = calls[d]
      BY <1>0, <1>1, CallStepFacts
    <3>4. calls'[c] = None \/ calls'[c].pc = "claim"
      BY <1>0, <3>1, <3>2, ReplyFacts, ProceedFacts DEF At
    <3> QED BY <1>0, <3>1, <3>3, <3>4, QuietFacts DEF CallOwns, At
  <2> QED BY <1>0, <1>1, <2>1, ClaimSettles, NotSentSettles, SubmitSettles, RecordSettles DEF CallStep
<1>2. ASSUME NEW c \in Callers, ReqStep(c)
      PROVE  Settled(k)'
  <2>1. UNCHANGED <<txs, slots, watch>> /\ calls' = calls
    BY <1>2 DEF ReqStep, TransportFails, Returned
  <2> QED BY <1>0, <2>1, QuietFacts
<1>3. ASSUME NEW c \in Callers, NEW l \in Keys, Dispatch(c, l)
      PROVE  Settled(k)'
  <2>1. UNCHANGED <<txs, slots, watch>> /\ calls[c] = None
    BY <1>3 DEF Dispatch
  <2>2. /\ calls'[c] = None \/ calls'[c].pc = "check"
        /\ \A d \in Callers \ {c} : calls'[d] = calls[d]
    BY <1>0, <1>3, DispatchFacts
  <2> QED BY <1>0, <2>1, <2>2, QuietFacts DEF CallOwns
<1>4. ASSUME NEW i \in TxIds, WatchStep(i)
      PROVE  Settled(k)'
  BY <1>0, <1>4, WatchStepSettles
<1>5. ASSUME NEW i \in TxIds, Decide(i)
      PROVE  Settled(k)'
  <2>1. UNCHANGED <<slots, calls, watch>>
    BY <1>5 DEF Decide
  <2>2. txs'[i].st # "queued" /\ \A j \in TxIds \ {i} : txs'[j] = txs[j]
    BY <1>0, <1>5, DecideFacts
  <2>3. Framed(k)
    BY <2>1, <2>2 DEF Framed, Queued
  <2> QED BY <1>0, <2>3, FrameFacts
<1>6. ASSUME NEW l \in Keys, GetMembership(l)
      PROVE  Settled(k)'
  <2>1. UNCHANGED <<txs, slots, watch>> /\ calls' = calls
    BY <1>6 DEF GetMembership
  <2> QED BY <1>0, <2>1, QuietFacts
<1>8. CASE UNCHANGED vars
  <2>1. UNCHANGED <<txs, slots, watch>> /\ calls' = calls
    BY <1>8 DEF vars
  <2> QED BY <1>0, <2>1, QuietFacts
<1> QED BY <1>1, <1>2, <1>3, <1>4, <1>5, <1>6, <1>8 DEF Next

\* A number that was sent keeps its membership.
LEMMA SendsStay ==
  ASSUME TypeInv, [Next]_vars, NEW i \in TxIds, txs[i] # None
  PROVE  txs'[i] # None /\ txs'[i].key = txs[i].key
<1>0. CallSide /\ RestSide
  BY Sides
<1>1. ASSUME NEW k \in Keys, NEW n \in TxIds, Send(k, n)
      PROVE  txs'[i] # None /\ txs'[i].key = txs[i].key
  BY <1>0, <1>1, SendFacts DEF RestSide
<1>2. CASE \E c \in Callers : Submit(c)
  <2>1. PICK c \in Callers : Submit(c)
    BY <1>2
  <2>2. calls[c].key \in Keys /\ \E n \in TxIds : Send(calls[c].key, n)
    BY <1>0, <2>1 DEF Submit, At, CallSide, Calls
  <2> QED BY <1>1, <2>2
<1>3. CASE \E w \in TxIds : Resend(w)
  <2>1. PICK w \in TxIds : Resend(w)
    BY <1>3
  <2>2. watch[w].key \in Keys /\ \E n \in TxIds : Send(watch[w].key, n)
    BY <1>0, <2>1 DEF Resend, On, RestSide, WatchTyped, Watchers
  <2> QED BY <1>1, <2>2
<1>4. CASE \E n \in TxIds : Decide(n)
  BY <1>0, <1>4, DecideFacts, NoneAssumption
<1>5. CASE Tick
  BY <1>0, <1>5, TickFacts
<1>6. CASE txs' = txs
  BY <1>6
<1> QED BY <1>2, <1>3, <1>4, <1>5, <1>6
     DEF Next, vars, CallStep, NoContext, Found, Preflight, Claim, NotSent, Record, ReqStep, TransportFails,
         Returned, Dispatch, WatchStep, Begin, Test, Look, Ask, Recheck, NotResent, RecordResend, GetMembership

LEMMA NextLink ==
  ASSUME TypeInv, LinkInv, [Next]_vars
  PROVE  LinkInv'
<1>0. CallSide /\ RestSide
  BY Sides
<1>1. ASSUME NEW c \in Callers, At(c, "record")'
      PROVE  txs'[calls'[c].tx] # None /\ txs'[calls'[c].tx].key = calls'[c].key
  <2>1. CASE Submit(c)
    <3>1. calls[c] \in Calls /\ calls[c].key \in Keys
      BY <1>0, <2>1 DEF Submit, At, CallSide, Calls
    <3>2. PICK n \in TxIds : /\ Send(calls[c].key, n)
                             /\ calls' = [calls EXCEPT ![c].pc = "record", ![c].tx = n]
      BY <2>1 DEF Submit
    <3>3. calls'[c].tx = n /\ calls'[c].key = calls[c].key
      BY <1>0, <3>1, <3>2 DEF CallSide, Calls
    <3>4. txs'[n] \in Txs /\ txs'[n].key = calls[c].key
      BY <1>0, <3>1, <3>2, SendFacts DEF RestSide
    <3> QED BY <3>3, <3>4, NoneAssumption
  <2>2. CASE calls'[c] = calls[c]
    <3>1. /\ calls[c].tx \in TxIds /\ txs[calls[c].tx] # None
          /\ txs[calls[c].tx].key = calls[c].key
      BY <1>0, <1>1, <2>2 DEF At, CallSide, LinkInv
    <3> QED BY <2>2, <3>1, SendsStay
  <2>3. CASE calls'[c] # calls[c] /\ ~Submit(c)
    <3>1. ASSUME NEW d \in Callers, CallStep(d)
          PROVE  calls'[c] = None \/ calls'[c].pc \in {"claim", "send"}
      <4>1. d = c /\ calls[c] # None
        BY <1>0, <2>3, <3>1, CallStepFacts, NoneAssumption
      <4>2. (\E reply : Reply(c, reply)) \/ \E pc \in {"claim", "send"} : Proceed(c, pc)
        BY <2>3, <3>1, <4>1 DEF CallStep, NoContext, Found, Preflight, Claim, NotSent, Record
      <4> QED BY <1>0, <4>1, <4>2, ReplyFacts, ProceedFacts
    <3>2. ASSUME NEW d \in Callers, NEW k \in Keys, Dispatch(d, k)
          PROVE  calls'[c] = None \/ calls'[c].pc = "check"
      BY <1>0, <2>3, <3>2, DispatchFacts
    <3>3. \/ \E d \in Callers : CallStep(d)
          \/ \E d \in Callers, k \in Keys : Dispatch(d, k)
      BY <2>3 DEF Next, vars, ReqStep, TransportFails, Returned, WatchStep, Begin, Test, Look, Ask, Recheck,
                  NotResent, Resend, RecordResend, Decide, GetMembership, Tick
    <3> QED BY <1>1, <3>1, <3>2, <3>3 DEF At
  <2> QED BY <2>1, <2>2, <2>3
<1>2. ASSUME NEW i \in TxIds, watch'[i] # None
      PROVE  txs'[i] # None /\ txs'[i].key = watch'[i].key
  <2>1. CASE watch[i] # None /\ watch'[i].key = watch[i].key
    BY <2>1, SendsStay DEF LinkInv
  <2>2. CASE \E c \in Callers : Record(c)
    <3>1. PICK c \in Callers : Record(c)
      BY <2>2
    <3>2. CASE i = calls[c].tx
      <4>1. watch'[i].key = calls[c].key
        BY <1>0, <1>2, <3>1, <3>2, RecordFacts
      <4>2. txs[i] # None /\ txs[i].key = calls[c].key
        BY <3>1, <3>2 DEF LinkInv, Record
      <4> QED BY <4>1, <4>2, SendsStay
    <3>3. CASE i # calls[c].tx
      BY <1>0, <1>2, <2>1, <3>1, <3>3, RecordFacts
    <3> QED BY <3>2, <3>3
  <2>3. CASE \E j \in TxIds : WatchStep(j)
    <3>1. PICK j \in TxIds : WatchStep(j)
      BY <2>3
    <3>2. watch[j] # None /\ (WatchEnds(j) \/ \E pc : WatchGoes(j, pc))
      BY <1>0, <3>1, WatchMoves
    <3>3. \/ watch'[i] = watch[i]
          \/ watch[i] # None /\ (watch'[i] = None \/ watch'[i].key = watch[i].key)
      BY <3>2 DEF WatchEnds, WatchGoes
    <3> QED BY <1>2, <2>1, <3>3
  <2>4. CASE Tick
    BY <1>0, <1>2, <2>1, <2>4, TickFacts
  <2>5. CASE watch' = watch
    BY <1>2, <2>1, <2>5
  <2> QED BY <2>2, <2>3, <2>4, <2>5
       DEF Next, vars, CallStep, NoContext, Found, Preflight, Claim, NotSent, Submit, ReqStep, TransportFails,
           Returned, Dispatch, Decide, GetMembership
<1> QED BY <1>1, <1>2 DEF LinkInv

LEMMA AlwaysSlotInv == Spec => []SlotInv
<1>1. Init => SlotInv
  BY DEF Init, SlotInv, LinkInv, At, Settled, Owned, CallOwns, WatchOwns, Queued
<1>2. TypeInv /\ SlotInv /\ [Next]_vars => SlotInv'
  BY NextSettled, NextLink DEF SlotInv
<1> QED BY <1>1, <1>2, AlwaysTypeInv, PTL DEF Spec

\* A caller that took the slot sends when the sequencer holds no transaction of
\* its membership, unless the slot has expired under its owner and the membership
\* has not been quiet since: while a transaction waits, the slot is taken
\* (REG_IN_FLIGHT, register_watch).
THEOREM SendsAlone == Spec => []SoleSubmission
<1>1. TypeInv /\ SlotInv => SoleSubmission
  <2> SUFFICES ASSUME TypeInv, SlotInv, NEW c \in Callers, At(c, "send"), calls[c].key \notin overrun,
                      NEW t \in TxIds, Queued(t, calls[c].key)
               PROVE  FALSE
    BY DEF SoleSubmission
  <2>1. calls[c].key \in Keys
    BY DEF TypeInv, TypeOK, At, Calls
  <2>2. CallOwns(c, calls[c].key)
    BY DEF At, CallOwns
  <2>3. calls[c].pc = "record"
    BY <2>1, <2>2 DEF SlotInv, Settled, Guarded
  <2> QED BY <2>3 DEF At
<1> QED BY <1>1, AlwaysTypeInv, AlwaysSlotInv, PTL

\* While the sequencer holds a transaction of a membership whose slot has not
\* expired under its owner, no watcher of it is about to send and its slot holds
\* no error: the watcher judges a registration reverted only after the sequencer
\* has decided it (register_watch).
THEOREM JudgedAfterDecision == Spec => []RevertIsSettled
<1>1. TypeInv /\ SlotInv => RevertIsSettled
  <2> SUFFICES ASSUME TypeInv, SlotInv, NEW k \in Keys \ overrun, NEW t \in TxIds, Queued(t, k)
               PROVE  /\ ~ \E w \in TxIds : On(w, "send") /\ watch[w].key = k
                      /\ slots[k] # None => slots[k].reply # "error"
    BY DEF RevertIsSettled
  <2>1. Guarded(t, k)
    BY DEF SlotInv, Settled
  <2>2. slots[k].reply # "error"
    BY <2>1 DEF Guarded, Held
  <2>3. ASSUME NEW w \in TxIds, On(w, "send"), watch[w].key = k
        PROVE  FALSE
    BY <2>1, <2>3 DEF Guarded, On, WatchOwns, Waiting
  <2> QED BY <2>2, <2>3
<1> QED BY <1>1, AlwaysTypeInv, AlwaysSlotInv, PTL

====
