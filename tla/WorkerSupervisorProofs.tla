---- MODULE WorkerSupervisorProofs ----
(***************************************************************************)
(* Theorems about WorkerSupervisor, for every number of host threads, worker *)
(* threads, reads of a phase, and calls of start() and stop().               *)
(***************************************************************************)
EXTENDS WorkerSupervisor, FiniteSetTheorems, WellFoundedInduction, TLAPS

(* The inductive invariants. *)

Starting == {"start_poller", "start_refresher", "start_warm", "start_join"}
Stopping == {"stop_grace", "stop_join"}

\* One start() or stop() at a time, each in the state it set; a stop() under way
\* leaves room for the generation it will close.
LifeInv ==
    /\ \A h, g \in Hosts : ops[h] # "idle" /\ ops[g] # "idle" => h = g
    /\ \A h \in Hosts :
         /\ ops[h] \in Starting => state = "Running"
         /\ ops[h] \in Stopping => state = "Stopped" /\ gen < MaxGen

\* The phases of each kind of worker.
PhasesOf(kind) == CASE kind = "poller" -> {"pending", "states", "paths"}
                    [] kind = "refresher" -> {"roots"}
                    [] kind = "warm" -> {"select", "roots", "paths", "provision"}

Live(r) == r.pc \notin {"counted", "exiting", "exited"}

\* A worker of no later generation; a loop that leaves was stopped or superseded;
\* only a provisioning pass has a ticket; reads after stop() are counted from 0,
\* and the refresher's only one was begun.
Thread(r) ==
    /\ r.gen <= gen
    /\ r.done <=> r.pc \in {"exiting", "exited"}
    /\ r.phase \in PhasesOf(r.kind)
    /\ r.pc = "wait" => r.kind # "warm"
    /\ r.pc \in {"returned", "counted", "exiting"} => r.kind = "warm" \/ r.gen # gen \/ state = "Stopped"
    /\ r.mine # 0 => r.phase = "provision" /\ r.pc # "gate"
    /\ r.pc = "item" /\ r.phase # "provision" => r.left # 0
    /\ ~stopped => r.late = 0
    /\ r.kind = "refresher" => r.late = 0 \/ (r.late = 1 /\ r.pc \notin {"gate", "item"})

ThreadInv == \A w \in Ids : Thread(workers[w])

\* A slot holds a worker of its kind and of this generation, or one that is gone;
\* a loop's is alive until stop().
SlotInv ==
    \A k \in Kinds : slots[k] # None =>
        /\ \/ workers[slots[k]].pc = "exited"
           \/ workers[slots[k]].kind = k /\ workers[slots[k]].gen = gen
        /\ k \in Loops /\ state # "Stopped" => slots[k] \in Current

\* What start() has ensured so far, and what stop() has cleared.
CallInv ==
    /\ \A h \in Hosts :
         /\ ops[h] = "start_refresher" /\ "poller" \in Loops => slots["poller"] # None
         /\ ops[h] \in {"start_warm", "start_join"} => \A k \in Loops : slots[k] # None
         /\ ops[h] = "stop_join" => \A k \in Kinds : slots[k] = None
    /\ state = "Running" /\ (\A h \in Hosts : ops[h] = "idle") => \A k \in Loops : slots[k] # None

\* Warm passes that have not taken their ticket.
Waiting(r) == r.kind = "warm" /\ r.mine = 0 /\ r.pc \in {"gate", "item", "reading"}
Ahead == {w \in Ids : Waiting(workers[w])}
Due == IF \E h \in Hosts : ops[h] \in Starting THEN 1 ELSE 0

\* Every ticket belongs to a start().
TicketInv == ticket + Cardinality(Ahead) + Due <= starts

SupervisorInv ==
    /\ TypeOK /\ LifeInv /\ ThreadInv /\ SlotInv /\ CallInv
    /\ NoDuplicateLoop /\ QuietAfterStop /\ RunningExact /\ TicketInv

-----------------------------------------------------------------------------
(* A worker's record, field by field. *)

Pcs == {"wait", "gate", "item", "reading", "returned", "counted", "exiting", "exited"}

\* rec is r but for where it is.
Moved(rec, r, pc, phase) ==
    /\ rec \in Worker /\ rec.kind = r.kind /\ rec.gen = r.gen /\ rec.pc = pc /\ rec.phase = phase

LEMMA WorkerFields ==
  ASSUME NEW r \in Worker
  PROVE  /\ r.kind \in Kinds /\ r.gen \in 0 .. MaxGen /\ r.pc \in Pcs /\ r.phase \in Phases
         /\ r.left \in 0 .. MaxItems /\ r.mine \in 0 .. MaxStarts /\ r.late \in 0 .. 2
         /\ r.done \in BOOLEAN
BY DEF Worker, Pcs

LEMMA PcFacts ==
  ASSUME NEW r \in Worker, NEW pc \in Pcs
  PROVE  /\ Moved([r EXCEPT !.pc = pc], r, pc, r.phase)
         /\ [r EXCEPT !.pc = pc].left = r.left /\ [r EXCEPT !.pc = pc].done = r.done
         /\ [r EXCEPT !.pc = pc].mine = r.mine /\ [r EXCEPT !.pc = pc].late = r.late
BY DEF Moved, Worker, Pcs

\* How much there is to read is chosen.
LEMMA ItemFacts ==
  ASSUME NEW r \in Worker, NEW n \in 0 .. MaxItems
  PROVE  \E rec :
           /\ rec = [r EXCEPT !.pc = "item", !.left = n]
           /\ Moved(rec, r, "item", r.phase)
           /\ rec.left = n /\ rec.done = r.done /\ rec.mine = r.mine /\ rec.late = r.late
<1>a. PICK rec : rec = [r EXCEPT !.pc = "item", !.left = n]
  OBVIOUS
<1> DEFINE s == [r EXCEPT !.left = n]
<1>1. /\ s \in Worker /\ s.kind = r.kind /\ s.gen = r.gen /\ s.pc = r.pc /\ s.phase = r.phase
      /\ s.left = n /\ s.done = r.done /\ s.mine = r.mine /\ s.late = r.late
  BY DEF Worker
<1>2. rec = [s EXCEPT !.pc = "item"]
  BY <1>a
<1> HIDE DEF s
<1>3. /\ rec \in Worker /\ rec.kind = s.kind /\ rec.gen = s.gen /\ rec.pc = "item" /\ rec.phase = s.phase
      /\ rec.left = s.left /\ rec.done = s.done /\ rec.mine = s.mine /\ rec.late = s.late
  BY <1>1, <1>2 DEF Worker
<1> QED BY <1>a, <1>1, <1>3 DEF Moved

\* A read begins, with n more to come and m counted since stop().
Reads(r, n, m) == [r EXCEPT !.pc = "reading", !.left = n, !.late = m]

LEMMA ReadFacts ==
  ASSUME NEW r \in Worker, NEW n \in 0 .. MaxItems, NEW m \in 0 .. 2
  PROVE  /\ Moved(Reads(r, n, m), r, "reading", r.phase)
         /\ Reads(r, n, m).left = n /\ Reads(r, n, m).done = r.done
         /\ Reads(r, n, m).mine = r.mine /\ Reads(r, n, m).late = m
<1>a. PICK rec : rec = Reads(r, n, m)
  OBVIOUS
<1> DEFINE s == [r EXCEPT !.left = n, !.late = m]
<1>1. /\ s \in Worker /\ s.kind = r.kind /\ s.gen = r.gen /\ s.pc = r.pc /\ s.phase = r.phase
      /\ s.left = n /\ s.done = r.done /\ s.mine = r.mine /\ s.late = m
  BY DEF Worker
<1>2. rec = [s EXCEPT !.pc = "reading"]
  BY <1>a DEF Reads
<1> HIDE DEF s
<1>3. /\ rec \in Worker /\ rec.kind = s.kind /\ rec.gen = s.gen /\ rec.pc = "reading" /\ rec.phase = s.phase
      /\ rec.left = s.left /\ rec.done = s.done /\ rec.mine = s.mine /\ rec.late = s.late
  BY <1>1, <1>2 DEF Worker
<1> QED BY <1>a, <1>1, <1>3 DEF Moved

LEMMA TicketFacts ==
  ASSUME NEW r \in Worker, NEW t \in 0 .. MaxStarts
  PROVE  \E rec :
           /\ rec = [r EXCEPT !.pc = "item", !.mine = t]
           /\ Moved(rec, r, "item", r.phase)
           /\ rec.left = r.left /\ rec.done = r.done /\ rec.mine = t /\ rec.late = r.late
<1>a. PICK rec : rec = [r EXCEPT !.pc = "item", !.mine = t]
  OBVIOUS
<1> DEFINE s == [r EXCEPT !.mine = t]
<1>1. /\ s \in Worker /\ s.kind = r.kind /\ s.gen = r.gen /\ s.pc = r.pc /\ s.phase = r.phase
      /\ s.left = r.left /\ s.done = r.done /\ s.mine = t /\ s.late = r.late
  BY DEF Worker
<1>2. rec = [s EXCEPT !.pc = "item"]
  BY <1>a
<1> HIDE DEF s
<1>3. /\ rec \in Worker /\ rec.kind = s.kind /\ rec.gen = s.gen /\ rec.pc = "item" /\ rec.phase = s.phase
      /\ rec.left = s.left /\ rec.done = s.done /\ rec.mine = s.mine /\ rec.late = s.late
  BY <1>1, <1>2 DEF Worker
<1> QED BY <1>a, <1>1, <1>3 DEF Moved

LEMMA DoneFacts ==
  ASSUME NEW r \in Worker, NEW rec, rec = [r EXCEPT !.pc = "exiting", !.done = TRUE]
  PROVE  /\ Moved(rec, r, "exiting", r.phase)
         /\ rec.left = r.left /\ rec.done /\ rec.mine = r.mine /\ rec.late = r.late
<1> DEFINE s == [r EXCEPT !.pc = "exiting"]
<1>1. /\ s \in Worker /\ s.kind = r.kind /\ s.gen = r.gen /\ s.pc = "exiting" /\ s.phase = r.phase
      /\ s.left = r.left /\ s.mine = r.mine /\ s.late = r.late
  BY PcFacts DEF Moved, Pcs
<1>2. rec = [s EXCEPT !.done = TRUE]
  OBVIOUS
<1> HIDE DEF s
<1>3. /\ rec \in Worker /\ rec.kind = s.kind /\ rec.gen = s.gen /\ rec.pc = s.pc /\ rec.phase = s.phase
      /\ rec.left = s.left /\ rec.mine = s.mine /\ rec.late = s.late
  BY <1>1, <1>2 DEF Worker
<1>4. rec.done
  BY <1>1, <1>2 DEF Worker
<1> QED BY <1>1, <1>3, <1>4 DEF Moved

LEMMA NoThreadFacts ==
  /\ NoThread \in Worker /\ NoThread.kind = "poller" /\ NoThread.gen = 0 /\ NoThread.pc = "exited"
  /\ NoThread.phase = "pending" /\ NoThread.mine = 0 /\ NoThread.late = 0 /\ NoThread.done = TRUE
BY WorkerBounds DEF NoThread, Worker, Kinds, Phases

LEMMA PhaseKinds ==
  ASSUME NEW kind \in Kinds
  PROVE  /\ FirstPhase(kind) \in Phases /\ FirstPhase(kind) \in PhasesOf(kind)
         /\ FirstPhase(kind) # "provision"
         /\ PhasesOf(kind) = IF kind = "poller" THEN {"pending", "states", "paths"}
                             ELSE IF kind = "refresher" THEN {"roots"}
                             ELSE {"select", "roots", "paths", "provision"}
BY DEF Kinds, Phases, FirstPhase, PhasesOf

LEMMA NewWorkerFacts ==
  ASSUME TypeOK, NEW kind \in Kinds
  PROVE  LET r == NewWorker(kind)
         IN  /\ r \in Worker /\ r.kind = kind /\ r.gen = gen /\ r.pc = IF kind = "warm" THEN "gate" ELSE "wait"
             /\ r.phase = FirstPhase(kind) /\ r.mine = 0 /\ r.late = 0 /\ r.done = FALSE
<1> DEFINE ph == FirstPhase(kind)
           pc == IF kind = "warm" THEN "gate" ELSE "wait"
           r == [kind |-> kind, gen |-> gen, pc |-> pc, phase |-> ph, left |-> 0, done |-> FALSE,
                 mine |-> 0, late |-> 0]
<1>1. ph \in Phases /\ pc \in Pcs /\ gen \in 0 .. MaxGen /\ 0 \in 0 .. MaxItems /\ 0 \in 0 .. MaxStarts /\ 0 \in 0 .. 2
  BY PhaseKinds, WorkerBounds DEF TypeOK, Pcs
<1>2. NewWorker(kind) = r
  BY DEF NewWorker
<1> HIDE DEF ph, pc
<1>3. /\ r \in Worker /\ r.kind = kind /\ r.gen = gen /\ r.pc = pc
      /\ r.phase = ph /\ r.mine = 0 /\ r.late = 0 /\ r.done = FALSE
  BY <1>1 DEF Worker, Pcs
<1> HIDE DEF r
<1> QED BY <1>2, <1>3 DEF ph, pc

-----------------------------------------------------------------------------
(* What a step of a worker thread does. *)

\* Worker w goes on as rec, or is gone; it leaves the count in its epilogue, and
\* a warm pass that waits for its ticket may take it.
MovesTo(w, rec) ==
    /\ rec \in Worker /\ Thread(rec)
    /\ workers' = [workers EXCEPT ![w] = rec]
    /\ workers[w].pc # "exited"
    /\ \/ rec.pc = "exited" /\ workers[w].pc = "exiting"
       \/ rec.pc # "exited" /\ rec.kind = workers[w].kind /\ rec.gen = workers[w].gen
    /\ \/ running' = running /\ (Live(rec) <=> Live(workers[w]))
       \/ /\ Live(workers[w]) /\ ~Live(rec) /\ workers[w].pc = "returned"
          /\ running' = IF workers[w].gen = gen /\ running > 0 THEN running - 1 ELSE running
    /\ \/ ticket' = ticket /\ (Waiting(rec) => Waiting(workers[w]))
       \/ ticket' = ticket + 1 /\ Waiting(workers[w]) /\ ~Waiting(rec)
    /\ UNCHANGED <<state, gen, slots, stopped, ops, joining, starts>>

WorkerMoves(w) == \E rec : MovesTo(w, rec)

\* The steps that leave the count and the tickets alone.
LEMMA GoesOn ==
  ASSUME NEW w \in Ids, NEW rec \in Worker, Becomes(w, rec), Thread(rec),
         workers[w].pc # "exited", rec.pc # "exited", rec.kind = workers[w].kind, rec.gen = workers[w].gen,
         Live(rec) <=> Live(workers[w]), Waiting(rec) => Waiting(workers[w]),
         UNCHANGED <<state, gen, running, slots, stopped, ops, joining, ticket, starts>>
  PROVE  WorkerMoves(w)
BY DEF WorkerMoves, MovesTo, Becomes

LEMMA SleepFacts ==
  ASSUME NEW r \in Worker
  PROVE  /\ Moved(Sleep(r), r, "wait", FirstPhase(r.kind))
         /\ Sleep(r).left = 0 /\ Sleep(r).done = r.done /\ Sleep(r).mine = r.mine /\ Sleep(r).late = r.late
<1>1. r.kind \in Kinds /\ 0 \in 0 .. MaxItems
  BY WorkerFields, WorkerBounds
<1>2. FirstPhase(r.kind) \in Phases
  BY <1>1, PhaseKinds
<1> DEFINE s == [r EXCEPT !.pc = "wait", !.phase = FirstPhase(r.kind)]
<1>3. /\ s \in Worker /\ s.kind = r.kind /\ s.gen = r.gen /\ s.pc = "wait" /\ s.phase = FirstPhase(r.kind)
      /\ s.done = r.done /\ s.mine = r.mine /\ s.late = r.late
  BY <1>2 DEF Worker
<1>4. Sleep(r) = [s EXCEPT !.left = 0]
  BY DEF Sleep
<1> HIDE DEF s
<1>5. PICK rec : rec = [s EXCEPT !.left = 0]
  OBVIOUS
<1>6. /\ rec \in Worker /\ rec.kind = s.kind /\ rec.gen = s.gen /\ rec.pc = s.pc /\ rec.phase = s.phase
      /\ rec.left = 0 /\ rec.done = s.done /\ rec.mine = s.mine /\ rec.late = s.late
  BY <1>1, <1>3, <1>5 DEF Worker
<1> QED BY <1>3, <1>4, <1>5, <1>6 DEF Moved

LEMMA GoFacts ==
  ASSUME NEW r \in Worker, NEW ph \in Phases
  PROVE  /\ Moved(Go(r, ph), r, "gate", ph)
         /\ Go(r, ph).left = 0 /\ Go(r, ph).done = r.done /\ Go(r, ph).mine = r.mine /\ Go(r, ph).late = r.late
<1>1. 0 \in 0 .. MaxItems
  BY WorkerBounds
<1>2. ph \in Phases
  OBVIOUS
<1> DEFINE s == [r EXCEPT !.pc = "gate", !.phase = ph]
<1>3. /\ s \in Worker /\ s.kind = r.kind /\ s.gen = r.gen /\ s.pc = "gate" /\ s.phase = ph
      /\ s.done = r.done /\ s.mine = r.mine /\ s.late = r.late
  BY <1>2 DEF Worker
<1>4. Go(r, ph) = [s EXCEPT !.left = 0]
  BY DEF Go
<1> HIDE DEF s
<1>5. PICK rec : rec = [s EXCEPT !.left = 0]
  OBVIOUS
<1>6. /\ rec \in Worker /\ rec.kind = s.kind /\ rec.gen = s.gen /\ rec.pc = s.pc /\ rec.phase = s.phase
      /\ rec.left = 0 /\ rec.done = s.done /\ rec.mine = s.mine /\ rec.late = s.late
  BY <1>1, <1>3, <1>5 DEF Worker
<1> QED BY <1>3, <1>4, <1>5, <1>6 DEF Moved

LEMMA FinishFacts ==
  ASSUME NEW r \in Worker
  PROVE  /\ Moved(Finish(r), r, "returned", r.phase)
         /\ Finish(r).done = r.done /\ Finish(r).mine = r.mine /\ Finish(r).late = r.late
<1>1. "returned" \in Pcs
  BY DEF Pcs
<1> QED BY <1>1, PcFacts DEF Finish

\* rec goes on with r's run.
GoodNext(rec, r) ==
    /\ rec \in Worker /\ Thread(rec) /\ rec.kind = r.kind /\ rec.gen = r.gen
    /\ rec.pc \in {"wait", "gate", "returned"}
    /\ Waiting(rec) => Waiting(r)

LEMMA SleepThread ==
  ASSUME NEW r \in Worker, Thread(r), r.pc \in {"gate", "reading"}, r.kind # "warm"
  PROVE  GoodNext(Sleep(r), r)
<1>1. /\ Moved(Sleep(r), r, "wait", FirstPhase(r.kind))
      /\ Sleep(r).done = r.done /\ Sleep(r).mine = r.mine /\ Sleep(r).late = r.late
  BY SleepFacts
<1>2. r.kind \in Kinds
  BY WorkerFields
<1>3. FirstPhase(r.kind) \in PhasesOf(r.kind) /\ "provision" \notin PhasesOf(r.kind)
  BY <1>2, PhaseKinds DEF Kinds
<1> QED BY <1>1, <1>3 DEF Thread, Moved, GoodNext, Waiting

LEMMA GoThread ==
  ASSUME NEW r \in Worker, Thread(r), r.pc \in {"gate", "reading"}, NEW ph \in PhasesOf(r.kind),
         r.kind # "refresher", r.phase # "provision"
  PROVE  GoodNext(Go(r, ph), r)
<1>1. r.kind \in Kinds /\ ph \in Phases
  BY WorkerFields, PhaseKinds DEF Phases
<1>2. /\ Moved(Go(r, ph), r, "gate", ph)
      /\ Go(r, ph).done = r.done /\ Go(r, ph).mine = r.mine /\ Go(r, ph).late = r.late
  BY <1>1, GoFacts
<1> QED BY <1>1, <1>2 DEF Thread, Moved, GoodNext, Waiting

LEMMA FinishThread ==
  ASSUME NEW r \in Worker, Thread(r), r.pc \in {"wait", "gate", "item", "reading"},
         r.kind = "warm" \/ r.gen # gen \/ state = "Stopped"
  PROVE  GoodNext(Finish(r), r)
<1>1. /\ Moved(Finish(r), r, "returned", r.phase)
      /\ Finish(r).done = r.done /\ Finish(r).mine = r.mine /\ Finish(r).late = r.late
  BY FinishFacts
<1> QED BY <1>1 DEF Thread, Moved, GoodNext, Waiting

LEMMA FollowingFacts ==
  ASSUME NEW r \in Worker, Thread(r), r.pc \in {"gate", "reading"}, NEW next \in Following(r)
  PROVE  GoodNext(next, r)
<1>1. r.kind \in Kinds /\ r.phase \in PhasesOf(r.kind) /\ r.phase \in Phases
  BY WorkerFields DEF Thread
<1>2. PhasesOf(r.kind) = IF r.kind = "poller" THEN {"pending", "states", "paths"}
                         ELSE IF r.kind = "refresher" THEN {"roots"}
                         ELSE {"select", "roots", "paths", "provision"}
  BY <1>1, PhaseKinds
<1>3. CASE r.phase = "pending"
  <2>1. next = Sleep(r) \/ next = Go(r, "states")
    BY <1>3 DEF Following
  <2>2. r.kind = "poller" /\ "states" \in PhasesOf(r.kind)
    BY <1>1, <1>2, <1>3
  <2> QED BY <1>3, <2>1, <2>2, SleepThread, GoThread
<1>4. CASE r.phase = "states"
  <2>1. next = Go(r, "paths")
    BY <1>4 DEF Following
  <2>2. r.kind = "poller" /\ "paths" \in PhasesOf(r.kind)
    BY <1>1, <1>2, <1>4
  <2> QED BY <1>4, <2>1, <2>2, GoThread
<1>5. CASE r.phase = "roots"
  <2>1. next = IF r.kind = "warm" THEN Go(r, "paths") ELSE Sleep(r)
    BY <1>5 DEF Following
  <2>2. r.kind = "warm" => "paths" \in PhasesOf(r.kind)
    BY <1>2
  <2> QED BY <1>5, <2>1, <2>2, SleepThread, GoThread
<1>6. CASE r.phase = "paths"
  <2>1. IF r.kind = "warm" THEN next = Go(r, "provision") \/ next = Finish(r) ELSE next = Sleep(r)
    BY <1>6 DEF Following
  <2>2. r.kind = "warm" => "provision" \in PhasesOf(r.kind)
    BY <1>2
  <2> QED BY <1>6, <2>1, <2>2, SleepThread, GoThread, FinishThread
<1>7. CASE r.phase = "select"
  <2>1. next = Go(r, "roots")
    BY <1>7 DEF Following
  <2>2. r.kind = "warm" /\ "roots" \in PhasesOf(r.kind)
    BY <1>1, <1>2, <1>7 DEF Kinds
  <2> QED BY <1>7, <2>1, <2>2, GoThread
<1>8. CASE r.phase = "provision"
  <2>1. next = Finish(r)
    BY <1>8 DEF Following
  <2>2. r.kind = "warm"
    BY <1>1, <1>2, <1>8 DEF Kinds
  <2> QED BY <2>1, <2>2, FinishThread
<1> QED BY <1>1, <1>3, <1>4, <1>5, <1>6, <1>7, <1>8 DEF Phases

\* A live worker that goes on as GoodNext allows.
LEMMA NextMoves ==
  ASSUME NEW w \in Ids, NEW rec, Becomes(w, rec), GoodNext(rec, workers[w]),
         workers[w].pc \in {"wait", "gate", "item", "reading"},
         UNCHANGED <<state, gen, running, slots, stopped, ops, joining, ticket, starts>>
  PROVE  WorkerMoves(w)
<1>1. /\ rec \in Worker /\ Thread(rec) /\ workers[w].pc # "exited" /\ rec.pc # "exited"
      /\ rec.kind = workers[w].kind /\ rec.gen = workers[w].gen
      /\ Live(rec) <=> Live(workers[w])
      /\ Waiting(rec) => Waiting(workers[w])
  BY DEF GoodNext, Live
<1> QED BY <1>1, GoesOn

\* A waiting warm pass leaves room for its ticket.
LEMMA TicketRoom ==
  ASSUME TypeOK, TicketInv, NEW w \in Ids, Waiting(workers[w])
  PROVE  ticket + 1 \in 0 .. MaxStarts
<1>1. IsFiniteSet(Ids) /\ Ahead \subseteq Ids /\ w \in Ahead
  BY FS_Interval, WorkerBounds DEF Ids, Ahead
<1>2. IsFiniteSet(Ahead) /\ Cardinality(Ahead) \in Nat
  BY <1>1, FS_Subset, FS_CardinalityType
<1>3. Cardinality(Ahead) # 0
  BY <1>1, <1>2, FS_EmptySet
<1>4. Due \in Nat /\ ticket \in Nat /\ starts \in Nat /\ starts <= MaxStarts /\ MaxStarts \in Nat
  BY WorkerBounds DEF Due, TypeOK
<1> QED BY <1>2, <1>3, <1>4 DEF TicketInv

LEMMA GateMoves ==
  ASSUME TypeOK, ThreadInv, NEW w \in Ids, Gate(w)
  PROVE  WorkerMoves(w)
<1>1. PICK r \in Worker : r = workers[w]
  BY DEF TypeOK
<1>2. /\ Thread(r) /\ r.pc = "gate" /\ r.phase # "provision"
      /\ UNCHANGED <<state, gen, running, slots, stopped, ops, joining, ticket, starts>>
  BY <1>1 DEF Gate, ThreadInv
<1>3. ASSUME NEW next, GoodNext(next, r), Becomes(w, next)
      PROVE  WorkerMoves(w)
  BY <1>1, <1>2, <1>3, NextMoves
<1>4. ASSUME NEW next \in Following(r), Becomes(w, next)
      PROVE  WorkerMoves(w)
  <2>1. GoodNext(next, r)
    BY <1>2, <1>4, FollowingFacts
  <2> QED BY <1>3, <1>4, <2>1
<1>5. CASE r.phase = "pending" /\ Becomes(w, Sleep(r))
  <2>1. r.kind \in Kinds /\ r.phase \in PhasesOf(r.kind)
    BY <1>2, WorkerFields DEF Thread
  <2>2. r.kind # "warm"
    BY <1>5, <2>1, PhaseKinds
  <2>3. GoodNext(Sleep(r), r)
    BY <1>2, <2>2, SleepThread
  <2> QED BY <1>3, <1>5, <2>3
<1>6. ASSUME NEW n \in 1 .. MaxItems, Becomes(w, [r EXCEPT !.pc = "item", !.left = n])
      PROVE  WorkerMoves(w)
  <2>2. n \in 0 .. MaxItems /\ n # 0
    BY WorkerBounds
  <2>3. PICK rec :
          /\ rec = [r EXCEPT !.pc = "item", !.left = n]
          /\ Moved(rec, r, "item", r.phase)
          /\ rec.left = n /\ rec.done = r.done /\ rec.mine = r.mine /\ rec.late = r.late
    BY <2>2, ItemFacts
  <2>4. Thread(rec)
    BY <1>2, <2>2, <2>3 DEF Thread, Moved
  <2>5. /\ rec \in Worker /\ rec.kind = r.kind /\ rec.gen = r.gen /\ rec.pc # "exited"
        /\ (Live(rec) <=> Live(r)) /\ (Waiting(rec) => Waiting(r))
    BY <1>2, <2>3 DEF Moved, Live, Waiting
  <2> QED BY <1>1, <1>2, <1>6, <2>3, <2>4, <2>5, GoesOn
<1>7. \/ \E next \in IF r.phase = "pending" THEN {Sleep(r)} ELSE Following(r) : Becomes(w, next)
      \/ \E n \in 1 .. MaxItems : Becomes(w, [r EXCEPT !.pc = "item", !.left = n])
      \/ \E next \in Following(r) : Becomes(w, next)
  BY <1>1 DEF Gate
<1> QED BY <1>4, <1>5, <1>6, <1>7

LEMMA ReadMoves ==
  ASSUME TypeOK, ThreadInv, NEW w \in Ids, BeginRead(w) \/ EndRead(w)
  PROVE  WorkerMoves(w)
<1>1. PICK r \in Worker : r = workers[w]
  BY DEF TypeOK
<1>2. /\ Thread(r)
      /\ UNCHANGED <<state, gen, running, slots, stopped, ops, joining, ticket, starts>>
  BY <1>1 DEF BeginRead, EndRead, ThreadInv
<1>3. CASE BeginRead(w)
  <2>a. /\ r.pc = "item"
        /\ Becomes(w, [r EXCEPT !.pc = "reading", !.left = IF r.phase = "provision" THEN 0 ELSE @ - 1,
                                !.late = IF stopped /\ @ < 2 THEN @ + 1 ELSE @])
    BY <1>1, <1>3 DEF BeginRead
  <2>2. r.phase # "provision" => r.left # 0
    BY <1>2, <2>a DEF Thread
  <2>3. PICK n \in 0 .. MaxItems : n = IF r.phase = "provision" THEN 0 ELSE r.left - 1
    BY <2>2, WorkerFields, WorkerBounds
  <2>4. PICK m \in 0 .. 2 : m = IF stopped /\ r.late < 2 THEN r.late + 1 ELSE r.late
    BY WorkerFields
  <2>5. (~stopped => m = r.late) /\ (r.late = 0 => m \in {0, 1})
    BY <2>4
  <2>1. r.pc = "item" /\ Becomes(w, Reads(r, n, m))
    BY <2>a, <2>3, <2>4 DEF Reads
  <2>b. PICK rec : rec = Reads(r, n, m)
    OBVIOUS
  <2>6. /\ Moved(rec, r, "reading", r.phase)
        /\ rec.left = n /\ rec.done = r.done /\ rec.mine = r.mine /\ rec.late = m
    BY <2>b, ReadFacts
  <2>7. Thread(rec)
    BY <1>2, <2>1, <2>5, <2>6 DEF Thread, Moved
  <2>8. /\ rec \in Worker /\ rec.kind = r.kind /\ rec.gen = r.gen /\ rec.pc # "exited"
        /\ (Live(rec) <=> Live(r)) /\ (Waiting(rec) => Waiting(r))
    BY <2>1, <2>6 DEF Moved, Live, Waiting
  <2> QED BY <1>1, <1>2, <2>1, <2>b, <2>7, <2>8, GoesOn
<1>4. CASE EndRead(w)
  <2> DEFINE last == r.left = 0 \/ (ChecksEachItem(r) /\ stopped)
  <2>1. r.pc = "reading"
    BY <1>1, <1>4 DEF EndRead
  <2>2. \/ (r.phase = "provision" \/ ~last) /\ Becomes(w, [r EXCEPT !.pc = "item"])
        \/ \E next \in Following(r) : Becomes(w, next)
    BY <1>1, <1>4 DEF EndRead
  <2>3. CASE \E next \in Following(r) : Becomes(w, next)
    <3>1. PICK next \in Following(r) : Becomes(w, next)
      BY <2>3
    <3>2. GoodNext(next, r)
      BY <1>2, <2>1, FollowingFacts
    <3> QED BY <1>1, <1>2, <2>1, <3>1, <3>2, NextMoves
  <2>4. CASE (r.phase = "provision" \/ ~last) /\ Becomes(w, [r EXCEPT !.pc = "item"])
    <3>1. PICK rec : rec = [r EXCEPT !.pc = "item"]
      OBVIOUS
    <3>2. "item" \in Pcs
      BY DEF Pcs
    <3>3. /\ Moved(rec, r, "item", r.phase)
          /\ rec.left = r.left /\ rec.done = r.done /\ rec.mine = r.mine /\ rec.late = r.late
      BY <3>1, <3>2, PcFacts
    <3>4. r.kind \in Kinds /\ r.phase \in PhasesOf(r.kind)
      BY <1>2, WorkerFields DEF Thread
    <3>5. r.kind = "refresher" => ~stopped
      BY <2>4, <3>4, PhaseKinds DEF ChecksEachItem
    <3>6. Thread(rec)
      BY <1>2, <2>1, <2>4, <3>3, <3>5 DEF Thread, Moved
    <3>7. /\ rec \in Worker /\ rec.kind = r.kind /\ rec.gen = r.gen /\ rec.pc # "exited"
          /\ (Live(rec) <=> Live(r)) /\ (Waiting(rec) => Waiting(r))
      BY <2>1, <3>3 DEF Moved, Live, Waiting
    <3> QED BY <1>1, <1>2, <2>1, <2>4, <3>1, <3>6, <3>7, GoesOn
  <2> QED BY <2>2, <2>3, <2>4
<1> QED BY <1>3, <1>4

LEMMA LoopMoves ==
  ASSUME TypeOK, ThreadInv, NEW w \in Ids, Tick(w) \/ Quit(w) \/ LeaveProvision(w)
  PROVE  WorkerMoves(w)
<1>1. PICK r \in Worker : r = workers[w]
  BY DEF TypeOK
<1>2. /\ Thread(r) /\ r.kind \in Kinds /\ r.phase \in PhasesOf(r.kind)
      /\ UNCHANGED <<state, gen, running, slots, stopped, ops, joining, ticket, starts>>
  BY <1>1, WorkerFields DEF Tick, Quit, LeaveProvision, ThreadInv, Thread
<1>3. CASE Tick(w)
  <2>1. r.pc = "wait" /\ r.gen = gen /\ ~stopped /\ Becomes(w, [r EXCEPT !.pc = "gate"])
    BY <1>1, <1>3 DEF Tick, TypeOK
  <2>2. PICK rec : rec = [r EXCEPT !.pc = "gate"]
    OBVIOUS
  <2>3. "gate" \in Pcs
    BY DEF Pcs
  <2>4. /\ Moved(rec, r, "gate", r.phase)
        /\ rec.left = r.left /\ rec.done = r.done /\ rec.mine = r.mine /\ rec.late = r.late
    BY <2>2, <2>3, PcFacts
  <2>5. r.kind # "warm" /\ r.phase # "provision"
    BY <1>2, <2>1, PhaseKinds DEF Thread, Kinds
  <2>6. Thread(rec)
    BY <1>2, <2>1, <2>4, <2>5 DEF Thread, Moved
  <2>7. /\ rec \in Worker /\ rec.kind = r.kind /\ rec.gen = r.gen /\ rec.pc # "exited"
        /\ (Live(rec) <=> Live(r)) /\ (Waiting(rec) => Waiting(r))
    BY <2>1, <2>4, <2>5 DEF Moved, Live, Waiting
  <2> QED BY <1>1, <1>2, <2>1, <2>2, <2>6, <2>7, GoesOn
<1>4. CASE Quit(w) \/ LeaveProvision(w)
  <2>1. r.pc \in {"wait", "item"} /\ Becomes(w, Finish(r))
    BY <1>1, <1>4 DEF Quit, LeaveProvision
  <2>2. r.kind = "warm" \/ r.gen # gen \/ state = "Stopped"
    BY <1>1, <1>2, <1>4, PhaseKinds DEF Quit, LeaveProvision, Kinds
  <2>3. GoodNext(Finish(r), r)
    BY <1>2, <2>1, <2>2, FinishThread
  <2> QED BY <1>1, <1>2, <2>1, <2>3, NextMoves
<1> QED BY <1>3, <1>4

LEMMA ProvisionMoves ==
  ASSUME TypeOK, ThreadInv, TicketInv, NEW w \in Ids, EnterProvision(w)
  PROVE  WorkerMoves(w)
<1>1. PICK r \in Worker : r = workers[w]
  BY DEF TypeOK
<1>2. /\ Thread(r) /\ r.pc = "gate" /\ r.phase = "provision" /\ ticket' = ticket + 1
      /\ Becomes(w, [r EXCEPT !.pc = "item", !.mine = ticket + 1])
      /\ UNCHANGED <<state, gen, running, slots, stopped, ops, joining, starts>>
  BY <1>1 DEF EnterProvision, ThreadInv
<1>3. r.kind \in Kinds /\ r.phase \in PhasesOf(r.kind)
  BY <1>2, WorkerFields DEF Thread
<1>4. r.kind = "warm"
  BY <1>2, <1>3, PhaseKinds DEF Kinds
<1>5. Waiting(r)
  BY <1>2, <1>4 DEF Waiting, Thread
<1>6. PICK t \in 0 .. MaxStarts : t = ticket + 1
  BY <1>1, <1>5, TicketRoom
<1>8. PICK rec :
        /\ rec = [r EXCEPT !.pc = "item", !.mine = t]
        /\ Moved(rec, r, "item", r.phase)
        /\ rec.left = r.left /\ rec.done = r.done /\ rec.mine = t /\ rec.late = r.late
  BY TicketFacts
<1>9. t # 0
  BY <1>6 DEF TypeOK
<1>10. Thread(rec)
  BY <1>2, <1>4, <1>8 DEF Thread, Moved
<1>11. /\ rec \in Worker /\ rec.kind = r.kind /\ rec.gen = r.gen /\ rec.pc # "exited" /\ r.pc # "exited"
       /\ (Live(rec) <=> Live(r)) /\ ~Waiting(rec)
  BY <1>2, <1>8, <1>9 DEF Moved, Live, Waiting
<1>12. workers' = [workers EXCEPT ![w] = rec]
  BY <1>2, <1>6, <1>8 DEF Becomes
<1> QED BY <1>1, <1>2, <1>5, <1>10, <1>11, <1>12 DEF WorkerMoves, MovesTo

LEMMA EpilogueMoves ==
  ASSUME TypeOK, ThreadInv, NEW w \in Ids, Count(w) \/ SetDone(w) \/ Exit(w)
  PROVE  WorkerMoves(w)
<1>1. PICK r \in Worker : r = workers[w]
  BY DEF TypeOK
<1>2. Thread(r) /\ UNCHANGED <<state, gen, slots, stopped, ops, joining, ticket, starts>>
  BY <1>1 DEF Count, SetDone, Exit, ThreadInv
<1>3. CASE Count(w)
  <2>1. /\ r.pc = "returned" /\ Becomes(w, [r EXCEPT !.pc = "counted"])
        /\ running' = IF r.gen = gen /\ running > 0 THEN running - 1 ELSE running
    BY <1>1, <1>3 DEF Count, Counted
  <2>2. PICK rec : rec = [r EXCEPT !.pc = "counted"]
    OBVIOUS
  <2>3. "counted" \in Pcs
    BY DEF Pcs
  <2>4. /\ Moved(rec, r, "counted", r.phase)
        /\ rec.left = r.left /\ rec.done = r.done /\ rec.mine = r.mine /\ rec.late = r.late
    BY <2>2, <2>3, PcFacts
  <2>5. Thread(rec)
    BY <1>2, <2>1, <2>4 DEF Thread, Moved
  <2>6. /\ rec \in Worker /\ rec.kind = r.kind /\ rec.gen = r.gen /\ rec.pc # "exited" /\ r.pc # "exited"
        /\ Live(r) /\ ~Live(rec) /\ ~Waiting(rec)
    BY <2>1, <2>4 DEF Moved, Live, Waiting
  <2>7. workers' = [workers EXCEPT ![w] = rec]
    BY <2>1, <2>2 DEF Becomes
  <2> QED BY <1>1, <1>2, <2>1, <2>5, <2>6, <2>7 DEF WorkerMoves, MovesTo
<1>4. CASE SetDone(w)
  <2>1. r.pc = "counted" /\ running' = running /\ Becomes(w, [r EXCEPT !.pc = "exiting", !.done = TRUE])
    BY <1>1, <1>4 DEF SetDone
  <2>2. PICK rec : rec = [r EXCEPT !.pc = "exiting", !.done = TRUE]
    OBVIOUS
  <2>3. /\ Moved(rec, r, "exiting", r.phase)
        /\ rec.left = r.left /\ rec.done /\ rec.mine = r.mine /\ rec.late = r.late
    BY <2>2, DoneFacts
  <2>4. Thread(rec)
    BY <1>2, <2>1, <2>3 DEF Thread, Moved
  <2>5. /\ rec \in Worker /\ rec.kind = r.kind /\ rec.gen = r.gen /\ rec.pc # "exited"
        /\ (Live(rec) <=> Live(r)) /\ (Waiting(rec) => Waiting(r))
    BY <2>1, <2>3 DEF Moved, Live, Waiting
  <2> QED BY <1>1, <1>2, <2>1, <2>2, <2>4, <2>5, GoesOn
<1>5. CASE Exit(w)
  <2>1. r.pc = "exiting" /\ running' = running /\ workers' = [workers EXCEPT ![w] = NoThread]
    BY <1>1, <1>5 DEF Exit, Becomes
  <2>2. PICK rec \in Worker : rec = NoThread
    BY NoThreadFacts
  <2>3. "pending" \in PhasesOf("poller") /\ gen \in Nat
    BY WorkerBounds DEF PhasesOf, TypeOK
  <2>4. Thread(rec) /\ rec.pc = "exited" /\ ~Live(rec) /\ ~Waiting(rec) /\ ~Live(r)
    BY <2>1, <2>2, <2>3, NoThreadFacts DEF Thread, Live, Waiting
  <2> QED BY <1>1, <1>2, <2>1, <2>2, <2>4 DEF WorkerMoves, MovesTo
<1> QED BY <1>3, <1>4, <1>5

LEMMA WorkerStepMoves ==
  ASSUME TypeOK, ThreadInv, TicketInv, NEW w \in Ids, WorkerStep(w)
  PROVE  WorkerMoves(w)
BY GateMoves, ReadMoves, LoopMoves, ProvisionMoves, EpilogueMoves DEF WorkerStep

-----------------------------------------------------------------------------
(* A worker's step keeps the invariant. *)

LEMMA IdSets ==
  ASSUME NEW S \in SUBSET Ids
  PROVE  IsFiniteSet(S) /\ Cardinality(S) \in Nat
<1>1. IsFiniteSet(Ids)
  BY FS_Interval, WorkerBounds DEF Ids
<1>2. IsFiniteSet(S)
  BY <1>1, FS_Subset
<1> QED BY <1>2, FS_CardinalityType

LEMMA CurrentDef ==
  /\ Current = {w \in Ids : workers[w].gen = gen /\ Live(workers[w])}
  /\ Current \in SUBSET Ids /\ Ahead \in SUBSET Ids
BY DEF Current, Live, Ahead

LEMMA MovesThreads ==
  ASSUME TypeOK, NEW w \in Ids, NEW rec, MovesTo(w, rec)
  PROVE  workers'[w] = rec /\ \A v \in Ids : v # w => workers'[v] = workers[v]
BY DEF TypeOK, MovesTo

\* The count goes down exactly when a worker of this generation leaves it.
LEMMA MovesCurrent ==
  ASSUME TypeOK, NEW w \in Ids, NEW rec, MovesTo(w, rec)
  PROVE  \/ Current' = Current /\ running' = running
         \/ /\ w \in Current /\ Current' = Current \ {w} /\ workers[w].pc = "returned"
            /\ running' = IF running > 0 THEN running - 1 ELSE running
<1>1. workers'[w] = rec /\ \A v \in Ids : v # w => workers'[v] = workers[v]
  BY MovesThreads
<1>2. /\ Current = {v \in Ids : workers[v].gen = gen /\ Live(workers[v])}
      /\ Current' = {v \in Ids : workers'[v].gen = gen /\ Live(workers'[v])}
  BY DEF Current, Live, MovesTo
<1>3. rec.pc = "exited" /\ workers[w].pc = "exiting" => ~Live(rec) /\ ~Live(workers[w])
  BY DEF Live
<1>4. CASE running' = running /\ (Live(rec) <=> Live(workers[w]))
  <2>1. (rec.gen = gen /\ Live(rec)) <=> (workers[w].gen = gen /\ Live(workers[w]))
    BY <1>3, <1>4 DEF MovesTo
  <2> QED BY <1>1, <1>2, <1>4, <2>1
<1>5. CASE /\ Live(workers[w]) /\ ~Live(rec) /\ workers[w].pc = "returned"
           /\ running' = IF workers[w].gen = gen /\ running > 0 THEN running - 1 ELSE running
  <2>1. CASE workers[w].gen = gen
    BY <1>1, <1>2, <1>5, <2>1
  <2>2. CASE workers[w].gen # gen
    BY <1>1, <1>2, <1>5, <2>2
  <2> QED BY <2>1, <2>2
<1> QED BY <1>4, <1>5 DEF MovesTo

LEMMA MovesTypes ==
  ASSUME SupervisorInv, NEW w \in Ids, NEW rec, MovesTo(w, rec)
  PROVE  TypeOK' /\ ThreadInv'
<1>1. TypeOK /\ ThreadInv /\ TicketInv
  BY DEF SupervisorInv
<1>2. workers'[w] = rec /\ \A v \in Ids : v # w => workers'[v] = workers[v]
  BY <1>1, MovesThreads
<1>3. workers' \in [Ids -> Worker]
  BY <1>1 DEF TypeOK, MovesTo
<1>4. running' \in Nat
  BY <1>1 DEF TypeOK, MovesTo
<1>5. ticket' \in 0 .. MaxStarts
  BY <1>1, TicketRoom DEF TypeOK, MovesTo
<1>6. TypeOK'
  BY <1>1, <1>3, <1>4, <1>5 DEF TypeOK, MovesTo
<1>7. ASSUME NEW v \in Ids
      PROVE  Thread(workers[v])'
  <2>1. PICK r : r = workers'[v] /\ Thread(r)
    BY <1>1, <1>2 DEF ThreadInv, MovesTo
  <2>2. Thread(r)'
    BY <2>1 DEF Thread, MovesTo
  <2> QED BY <2>1, <2>2 DEF Thread
<1> QED BY <1>6, <1>7 DEF ThreadInv

LEMMA MovesSlots ==
  ASSUME SupervisorInv, NEW w \in Ids, NEW rec, MovesTo(w, rec)
  PROVE  SlotInv'
<1>1. TypeOK /\ ThreadInv /\ SlotInv /\ workers[w] \in Worker /\ Thread(workers[w])
  BY DEF SupervisorInv, TypeOK, ThreadInv
<1>2. workers'[w] = rec /\ \A v \in Ids : v # w => workers'[v] = workers[v]
  BY <1>1, MovesThreads
<1>3. UNCHANGED <<state, gen, slots>> /\ workers[w].pc # "exited"
  BY DEF MovesTo
<1>4. rec.pc = "exited" \/ (rec.kind = workers[w].kind /\ rec.gen = workers[w].gen)
  BY DEF MovesTo
<1> SUFFICES ASSUME NEW k \in Kinds, slots[k] # None
             PROVE  /\ \/ workers'[slots[k]].pc = "exited"
                       \/ workers'[slots[k]].kind = k /\ workers'[slots[k]].gen = gen
                    /\ k \in Loops /\ state # "Stopped" => slots[k] \in Current'
  BY <1>3 DEF SlotInv
<1>5. PICK v \in Ids : v = slots[k]
  BY <1>1 DEF TypeOK
<1>6. /\ workers[v].pc = "exited" \/ (workers[v].kind = k /\ workers[v].gen = gen)
      /\ k \in Loops /\ state # "Stopped" => v \in Current
  BY <1>1, <1>5 DEF SlotInv
<1>7. workers'[v].pc = "exited" \/ (workers'[v].kind = k /\ workers'[v].gen = gen)
  BY <1>2, <1>3, <1>4, <1>6
<1>8. ASSUME k \in Loops, state # "Stopped"
      PROVE  v \in Current'
  <2>1. v \in Current /\ k # "warm"
    BY <1>6, <1>8, LoopsAssumption
  <2>2. CASE w \in Current /\ Current' = Current \ {w} /\ workers[w].pc = "returned"
    <3>1. workers[w].gen = gen
      BY <2>2 DEF Current
    <3>2. workers[w].kind = "warm"
      BY <1>1, <1>8, <2>2, <3>1 DEF Thread
    <3>3. v # w
      BY <1>3, <1>6, <2>1, <3>2
    <3> QED BY <2>1, <2>2, <3>3
  <2> QED BY <1>1, <2>1, <2>2, MovesCurrent
<1> QED BY <1>5, <1>7, <1>8

LEMMA MovesCount ==
  ASSUME SupervisorInv, NEW w \in Ids, NEW rec, MovesTo(w, rec)
  PROVE  NoDuplicateLoop' /\ QuietAfterStop' /\ RunningExact'
<1>1. TypeOK /\ NoDuplicateLoop /\ QuietAfterStop /\ RunningExact
  BY DEF SupervisorInv
<1>2. workers'[w] = rec /\ \A v \in Ids : v # w => workers'[v] = workers[v]
  BY <1>1, MovesThreads
<1>3. UNCHANGED <<state, gen, slots, ops>> /\ running \in Nat
  BY <1>1 DEF MovesTo, TypeOK
<1>4. \/ Current' = Current /\ running' = running
      \/ /\ w \in Current /\ Current' = Current \ {w}
         /\ running' = IF running > 0 THEN running - 1 ELSE running
  BY <1>1, MovesCurrent
<1>5. NoDuplicateLoop'
  <2> SUFFICES ASSUME NEW v \in Current', workers'[v].kind \in Loops
               PROVE  slots[workers'[v].kind] = v \/ state = "Stopped"
    BY <1>3 DEF NoDuplicateLoop
  <2>1. v \in Current /\ v \in Ids
    BY <1>4, CurrentDef
  <2>2. workers'[v].kind = workers[v].kind
    <3>1. workers'[v].pc # "exited"
      BY DEF Current
    <3> QED BY <1>2, <2>1, <3>1 DEF MovesTo
  <2> QED BY <1>1, <2>1, <2>2 DEF NoDuplicateLoop
<1>6. QuietAfterStop'
  BY <1>1, <1>3, <1>4 DEF QuietAfterStop
<1>7. RunningExact'
  <2>1. CASE Current' = Current /\ running' = running
    BY <1>1, <2>1 DEF RunningExact
  <2>2. CASE /\ w \in Current /\ Current' = Current \ {w}
             /\ running' = IF running > 0 THEN running - 1 ELSE running
    <3>1. PICK C \in SUBSET Ids : C = Current
      BY CurrentDef
    <3>2. IsFiniteSet(C) /\ Cardinality(C) \in Nat /\ w \in C
      BY <2>2, <3>1, IdSets
    <3>3. Cardinality(C \ {w}) = Cardinality(C) - 1 /\ Cardinality(C) # 0
      BY <3>2, FS_RemoveElement, FS_EmptySet
    <3>4. running = Cardinality(C)
      BY <1>1, <3>1 DEF RunningExact
    <3>5. running' = Cardinality(C \ {w})
      BY <2>2, <3>2, <3>3, <3>4
    <3> QED BY <2>2, <3>1, <3>5 DEF RunningExact
  <2> QED BY <1>4, <2>1, <2>2
<1> QED BY <1>5, <1>6, <1>7

LEMMA MovesTickets ==
  ASSUME SupervisorInv, NEW w \in Ids, NEW rec, MovesTo(w, rec)
  PROVE  TicketInv'
<1>1. TypeOK /\ TicketInv
  BY DEF SupervisorInv
<1>2. workers'[w] = rec /\ \A v \in Ids : v # w => workers'[v] = workers[v]
  BY <1>1, MovesThreads
<1>3. starts' = starts /\ Due' = Due /\ Due \in Nat /\ starts \in Nat /\ ticket \in Nat
  BY <1>1, WorkerBounds DEF MovesTo, Due, TypeOK
<1>4. PICK A \in SUBSET Ids : A = Ahead
  BY CurrentDef
<1>5. PICK B \in SUBSET Ids : B = Ahead'
  BY DEF Ahead
<1>6. A = {v \in Ids : Waiting(workers[v])} /\ B = {v \in Ids : Waiting(workers'[v])}
  BY <1>4, <1>5 DEF Ahead, Waiting
<1>7. IsFiniteSet(A) /\ Cardinality(A) \in Nat /\ IsFiniteSet(B) /\ Cardinality(B) \in Nat
  BY IdSets
<1>8. CASE ticket' = ticket /\ (Waiting(rec) => Waiting(workers[w]))
  <2>1. B \subseteq A
    BY <1>2, <1>6, <1>8
  <2>2. Cardinality(B) <= Cardinality(A)
    BY <1>7, <2>1, FS_Subset
  <2> QED BY <1>1, <1>3, <1>4, <1>5, <1>7, <1>8, <2>2 DEF TicketInv
<1>9. CASE ticket' = ticket + 1 /\ Waiting(workers[w]) /\ ~Waiting(rec)
  <2>1. B = A \ {w} /\ w \in A
    BY <1>2, <1>6, <1>9
  <2>2. Cardinality(B) = Cardinality(A) - 1
    BY <1>7, <2>1, FS_RemoveElement
  <2> QED BY <1>1, <1>3, <1>4, <1>5, <1>7, <1>9, <2>2 DEF TicketInv
<1> QED BY <1>8, <1>9 DEF MovesTo

LEMMA WorkerKeeps ==
  ASSUME SupervisorInv, NEW w \in Ids, WorkerStep(w)
  PROVE  SupervisorInv'
<1>1. WorkerMoves(w)
  BY WorkerStepMoves DEF SupervisorInv
<1>2. PICK rec : MovesTo(w, rec)
  BY <1>1 DEF WorkerMoves, MovesTo
<1>3. UNCHANGED <<state, gen, slots, ops>> /\ LifeInv /\ CallInv
  BY <1>2 DEF MovesTo, SupervisorInv
<1>4. LifeInv' /\ CallInv'
  BY <1>3 DEF LifeInv, CallInv
<1>5. TypeOK' /\ ThreadInv'
  BY <1>2, MovesTypes
<1>6. SlotInv'
  BY <1>2, MovesSlots
<1>7. NoDuplicateLoop' /\ QuietAfterStop' /\ RunningExact'
  BY <1>2, MovesCount
<1>8. TicketInv'
  BY <1>2, MovesTickets
<1> QED BY <1>4, <1>5, <1>6, <1>7, <1>8 DEF SupervisorInv

-----------------------------------------------------------------------------
(* Spawning. *)

\* A nonempty set of naturals has a least element.
LEMMA Least ==
  ASSUME NEW S, S \subseteq Nat, S # {}
  PROVE  \E x \in S : \A y \in S : x <= y
<1> DEFINE R == OpToRel(<, Nat)
<1>1. IsWellFoundedOn(R, Nat)
  BY NatLessThanWellFounded, Zenon
<1>2. \A x, y \in Nat : x < y => <<x, y>> \in R
  BY SMT DEF OpToRel
<1> HIDE DEF R
<1>3. PICK x \in S : \A y \in S : ~ (<<y, x>> \in R)
  BY <1>1, WFMin, Zenon
<1>4. \A y \in S : ~ (y < x)
  BY <1>2, <1>3, Zenon
<1>5. \A y \in S : x <= y
  BY <1>4
<1> QED BY <1>5

\* Worker w, which no thread was and no slot named, begins as kind.
SpawnsAt(w, kind) ==
    /\ workers[w].pc = "exited" /\ \A k \in Kinds : slots[k] # w
    /\ workers' = [workers EXCEPT ![w] = NewWorker(kind)]
    /\ slots' = [slots EXCEPT ![kind] = w]
    /\ running' = running + 1

LEMMA SpawnPicks ==
  ASSUME NEW kind \in Kinds, Spawn(kind)
  PROVE  \E w \in Ids : SpawnsAt(w, kind)
<1>1. FreeIds \subseteq Nat /\ FreeIds # {} /\ FreeIds \subseteq Ids
  BY DEF Spawn, FreeIds, Ids
<1>2. \E x \in FreeIds : \A y \in FreeIds : x <= y
  BY <1>1, Least
<1>3. Min(FreeIds) \in FreeIds
  BY <1>2 DEF Min
<1>4. PICK w : w = Min(FreeIds)
  OBVIOUS
<1>5. w \in Ids /\ workers[w].pc = "exited" /\ \A k \in Kinds : slots[k] # w
  BY <1>1, <1>3, <1>4 DEF FreeIds
<1>6. /\ workers' = [workers EXCEPT ![w] = NewWorker(kind)]
      /\ slots' = [slots EXCEPT ![kind] = w]
      /\ running' = running + 1
  BY <1>4 DEF Spawn
<1> QED BY <1>5, <1>6 DEF SpawnsAt

\* The supervisor's own fields and the slots after a spawn.
LEMMA SpawnThreads ==
  ASSUME TypeOK, NEW kind \in Kinds, NEW w \in Ids, SpawnsAt(w, kind), gen' = gen
  PROVE  /\ workers' \in [Ids -> Worker] /\ slots' \in [Kinds -> Ids \cup {None}] /\ running' \in Nat
         /\ workers'[w] = NewWorker(kind) /\ \A v \in Ids : v # w => workers'[v] = workers[v]
         /\ slots'[kind] = w /\ \A k \in Kinds : k # kind => slots'[k] = slots[k]
         /\ w \notin Current /\ Current' = Current \cup {w}
         /\ w \notin Ahead /\ Ahead' = IF kind = "warm" THEN Ahead \cup {w} ELSE Ahead
<1>1. PICK r \in Worker : r = NewWorker(kind)
  BY NewWorkerFacts
<1>2. /\ r.kind = kind /\ r.gen = gen /\ r.pc = IF kind = "warm" THEN "gate" ELSE "wait"
      /\ r.mine = 0
  BY <1>1, NewWorkerFacts
<1>3. /\ workers' = [workers EXCEPT ![w] = r] /\ slots' = [slots EXCEPT ![kind] = w] /\ running' = running + 1
      /\ workers[w].pc = "exited"
  BY <1>1 DEF SpawnsAt
<1>4. workers'[w] = r /\ \A v \in Ids : v # w => workers'[v] = workers[v]
  BY <1>3 DEF TypeOK
<1>5. slots'[kind] = w /\ \A k \in Kinds : k # kind => slots'[k] = slots[k]
  BY <1>3 DEF TypeOK
<1>6. workers' \in [Ids -> Worker] /\ running' \in Nat
  BY <1>3 DEF TypeOK
<1>7. slots' \in [Kinds -> Ids \cup {None}]
  BY <1>3 DEF TypeOK
<1>8. /\ Current = {v \in Ids : workers[v].gen = gen /\ Live(workers[v])}
      /\ Current' = {v \in Ids : workers'[v].gen = gen /\ Live(workers'[v])}
      /\ Ahead = {v \in Ids : Waiting(workers[v])} /\ Ahead' = {v \in Ids : Waiting(workers'[v])}
  BY DEF Current, Live, Ahead, Waiting
<1>9. ~Live(workers[w]) /\ ~Waiting(workers[w])
  BY <1>3 DEF Live, Waiting
<1>10. Live(r) /\ (Waiting(r) <=> kind = "warm")
  BY <1>2 DEF Live, Waiting
<1>11. w \notin Current /\ Current' = Current \cup {w}
  BY <1>2, <1>4, <1>8, <1>9, <1>10
<1>12. w \notin Ahead /\ Ahead' = IF kind = "warm" THEN Ahead \cup {w} ELSE Ahead
  BY <1>4, <1>8, <1>9, <1>10
<1> QED BY <1>1, <1>4, <1>5, <1>6, <1>7, <1>11, <1>12

LEMMA SpawnKeeps ==
  ASSUME SupervisorInv, NEW kind \in Kinds, NEW w \in Ids, SpawnsAt(w, kind),
         UNCHANGED <<state, gen, stopped>>, state # "Stopped",
         kind \in Loops => slots[kind] = None
  PROVE  ThreadInv' /\ SlotInv' /\ NoDuplicateLoop' /\ QuietAfterStop' /\ RunningExact'
<1>1. TypeOK /\ ThreadInv /\ SlotInv /\ NoDuplicateLoop /\ RunningExact
  BY DEF SupervisorInv
<1>2. /\ workers'[w] = NewWorker(kind) /\ \A v \in Ids : v # w => workers'[v] = workers[v]
      /\ slots'[kind] = w /\ \A k \in Kinds : k # kind => slots'[k] = slots[k]
      /\ w \notin Current /\ Current' = Current \cup {w}
  BY <1>1, SpawnThreads
<1>3. PICK r \in Worker : r = NewWorker(kind)
  BY <1>1, NewWorkerFacts
<1>4. /\ r.kind = kind /\ r.gen = gen /\ r.pc = IF kind = "warm" THEN "gate" ELSE "wait"
      /\ r.phase = FirstPhase(kind) /\ r.mine = 0 /\ r.late = 0 /\ r.done = FALSE
  BY <1>1, <1>3, NewWorkerFacts
<1>5. ThreadInv'
  <2>1. gen \in Nat
    BY <1>1, WorkerBounds DEF TypeOK
  <2>2. FirstPhase(kind) \in PhasesOf(kind)
    BY PhaseKinds
  <2>3. Thread(r)
    BY <1>4, <2>1, <2>2 DEF Thread
  <2> SUFFICES ASSUME NEW v \in Ids
               PROVE  Thread(workers[v])'
    BY DEF ThreadInv
  <2>4. PICK s : s = workers'[v] /\ Thread(s)
    BY <1>1, <1>2, <1>3, <2>3 DEF ThreadInv
  <2>5. Thread(s)'
    BY <2>4 DEF Thread
  <2> QED BY <2>4, <2>5 DEF Thread
<1>6. SlotInv'
  <2> SUFFICES ASSUME NEW k \in Kinds, slots'[k] # None
               PROVE  /\ \/ workers'[slots'[k]].pc = "exited"
                         \/ workers'[slots'[k]].kind = k /\ workers'[slots'[k]].gen = gen
                      /\ k \in Loops /\ state # "Stopped" => slots'[k] \in Current'
    BY DEF SlotInv
  <2>1. CASE k = kind
    BY <1>2, <1>3, <1>4, <2>1
  <2>2. CASE k # kind
    <3>1. PICK v \in Ids : v = slots[k] /\ v # w
      BY <1>1, <1>2, <2>2 DEF TypeOK, SpawnsAt
    <3>2. /\ workers[v].pc = "exited" \/ (workers[v].kind = k /\ workers[v].gen = gen)
          /\ k \in Loops /\ state # "Stopped" => v \in Current
      BY <1>1, <1>2, <2>2, <3>1 DEF SlotInv
    <3> QED BY <1>2, <2>2, <3>1, <3>2
  <2> QED BY <2>1, <2>2
<1>7. NoDuplicateLoop'
  <2> SUFFICES ASSUME NEW v \in Current', workers'[v].kind \in Loops
               PROVE  slots'[workers'[v].kind] = v
    BY DEF NoDuplicateLoop
  <2>1. CASE v = w
    BY <1>2, <1>3, <1>4, <2>1
  <2>2. CASE v # w
    <3>1. v \in Current /\ v \in Ids /\ workers'[v] = workers[v]
      BY <1>2, <2>2, CurrentDef
    <3>2. slots[workers[v].kind] = v
      BY <1>1, <3>1 DEF NoDuplicateLoop
    <3>3. v # None
      BY <3>1, NoneIsNoWorker DEF Ids
    <3>4. workers[v].kind # kind
      BY <3>1, <3>2, <3>3
    <3>5. workers[v].kind \in Kinds
      BY <3>1, LoopsAssumption DEF Kinds
    <3> QED BY <1>2, <3>1, <3>2, <3>4, <3>5
  <2> QED BY <2>1, <2>2
<1>8. QuietAfterStop'
  BY DEF QuietAfterStop
<1>9. RunningExact'
  <2>1. PICK C \in SUBSET Ids : C = Current
    BY CurrentDef
  <2>2. IsFiniteSet(C) /\ Cardinality(C) \in Nat /\ w \notin C
    BY <1>2, <2>1, IdSets
  <2>3. Cardinality(C \cup {w}) = Cardinality(C) + 1
    BY <2>2, FS_AddElement
  <2>4. running' = Cardinality(C \cup {w})
    BY <1>1, <2>1, <2>3 DEF RunningExact, SpawnsAt
  <2> QED BY <1>2, <2>1, <2>4 DEF RunningExact
<1> QED BY <1>5, <1>6, <1>7, <1>8, <1>9

\* A loop that is spawned has an empty slot: a done one is never left there.
LEMMA MaySpawnFacts ==
  ASSUME TypeOK, ThreadInv, SlotInv, NEW kind \in Kinds, MaySpawn(kind)
  PROVE  kind \in Loops /\ state # "Stopped" /\ slots[kind] = None
<1>1. kind \in Loops /\ state # "Stopped" /\ ~Alive(kind)
  BY DEF MaySpawn
<1>2. ASSUME slots[kind] # None
      PROVE  FALSE
  <2>1. PICK v \in Ids : v = slots[kind]
    BY <1>2 DEF TypeOK
  <2>2. v \in Current
    BY <1>1, <1>2, <2>1 DEF SlotInv
  <2>3. Thread(workers[v]) /\ workers[v].pc \notin {"exiting", "exited"}
    BY <2>2 DEF ThreadInv, Current
  <2>4. ~workers[v].done
    BY <2>3 DEF Thread
  <2> QED BY <1>1, <1>2, <2>1, <2>4 DEF Alive
<1> QED BY <1>1, <1>2

-----------------------------------------------------------------------------
(* start() and stop(). *)

\* Only one host thread is inside a call.
LEMMA OnlyHost ==
  ASSUME TypeOK, LifeInv, NEW h \in Hosts, NEW next \in Ops, ops[h] # "idle" \/ LifecycleFree,
         ops' = [ops EXCEPT ![h] = next]
  PROVE  /\ ops' \in [Hosts -> Ops] /\ ops'[h] = next
         /\ \A g \in Hosts : g # h => ops[g] = "idle" /\ ops'[g] = "idle"
         /\ Due = IF ops[h] \in Starting THEN 1 ELSE 0
         /\ Due' = IF next \in Starting THEN 1 ELSE 0
<1>1. ops' \in [Hosts -> Ops] /\ ops'[h] = next /\ \A g \in Hosts : g # h => ops'[g] = ops[g]
  BY DEF TypeOK
<1>2. \A g \in Hosts : g # h => ops[g] = "idle"
  BY DEF LifeInv, LifecycleFree
<1>3. "idle" \notin Starting
  BY DEF Starting
<1>4. Due = IF ops[h] \in Starting THEN 1 ELSE 0
  BY <1>2, <1>3 DEF Due
<1>5. Due' = IF next \in Starting THEN 1 ELSE 0
  BY <1>1, <1>2, <1>3 DEF Due
<1> QED BY <1>1, <1>2, <1>4, <1>5

\* The tickets when no pass takes one.
LEMMA TicketsKept ==
  ASSUME TypeOK, TicketInv, ticket' = ticket, NEW B \in SUBSET Ids, B = Ahead',
         Due \in {0, 1}, Due' \in {0, 1}, starts' \in Nat,
         \/ B = Ahead /\ starts' - Due' >= starts - Due
         \/ (\E w \in Ids : w \notin Ahead /\ B = Ahead \cup {w}) /\ starts' = starts /\ Due = 1 /\ Due' = 0
  PROVE  TicketInv'
<1>1. PICK A \in SUBSET Ids : A = Ahead
  BY CurrentDef
<1>2. /\ IsFiniteSet(A) /\ Cardinality(A) \in Nat /\ ticket \in Nat /\ starts \in Nat
      /\ ticket + Cardinality(A) + Due <= starts
  BY <1>1, IdSets, WorkerBounds DEF TypeOK, TicketInv
<1>3. CASE B = Ahead /\ starts' - Due' >= starts - Due
  <2>1. PICK d \in {0, 1}, e \in {0, 1}, n \in Nat, c \in Nat :
            d = Due /\ e = Due' /\ n = starts' /\ c = Cardinality(B)
    BY IdSets
  <2>2. ticket + c + d <= starts /\ n - e >= starts - d
    BY <1>1, <1>2, <1>3, <2>1
  <2>3. ticket + c + e <= n
    BY <1>2, <2>2
  <2> QED BY <2>1, <2>3 DEF TicketInv
<1>4. CASE (\E w \in Ids : w \notin Ahead /\ B = Ahead \cup {w}) /\ starts' = starts /\ Due = 1 /\ Due' = 0
  <2>1. PICK w \in Ids : w \notin A /\ B = A \cup {w}
    BY <1>1, <1>4
  <2>2. Cardinality(B) = Cardinality(A) + 1
    BY <1>2, <2>1, FS_AddElement
  <2>3. ticket + Cardinality(B) + Due' <= starts'
    BY <1>2, <1>4, <2>2
  <2> QED BY <2>3 DEF TicketInv
<1> QED BY <1>3, <1>4

LEMMA EnsureLoopKeeps ==
  ASSUME SupervisorInv, NEW kind \in Loops, EnsureLoop(kind)
  PROVE  SupervisorInv'
<1>1. /\ TypeOK /\ LifeInv /\ ThreadInv /\ SlotInv /\ CallInv /\ TicketInv /\ kind \in Kinds /\ kind # "warm"
      /\ UNCHANGED <<state, gen, stopped, ops, joining, ticket, starts>>
  BY LoopsAssumption DEF SupervisorInv, Kinds, EnsureLoop
<1>2. Spawn(kind) /\ MaySpawn(kind)
  BY DEF EnsureLoop
<1>3. state # "Stopped" /\ slots[kind] = None
  BY <1>1, <1>2, MaySpawnFacts
<1>4. PICK w \in Ids : SpawnsAt(w, kind)
  BY <1>1, <1>2, SpawnPicks
<1>5. ThreadInv' /\ SlotInv' /\ NoDuplicateLoop' /\ QuietAfterStop' /\ RunningExact'
  BY <1>1, <1>3, <1>4, SpawnKeeps
<1>6. /\ workers' \in [Ids -> Worker] /\ slots' \in [Kinds -> Ids \cup {None}] /\ running' \in Nat
      /\ slots'[kind] = w /\ \A k \in Kinds : k # kind => slots'[k] = slots[k]
      /\ Ahead' = Ahead
  BY <1>1, <1>4, SpawnThreads
<1>7. TypeOK'
  BY <1>1, <1>6 DEF TypeOK
<1>8. LifeInv'
  BY <1>1 DEF LifeInv
<1>9. w # None /\ Loops \subseteq Kinds
  BY NoneIsNoWorker, LoopsAssumption DEF Ids, Kinds
<1>10. CallInv'
  <2>1. \A k \in Kinds : slots[k] # None => slots'[k] # None
    BY <1>6, <1>9
  <2>2. \A h \in Hosts : ops[h] # "stop_join"
    BY <1>1, <1>3 DEF LifeInv, Stopping
  <2>3. "poller" \in Kinds
    BY DEF Kinds
  <2> QED BY <1>1, <1>9, <2>1, <2>2, <2>3 DEF CallInv
<1>11. TicketInv'
  BY <1>1, <1>6 DEF TicketInv, Due
<1> QED BY <1>5, <1>7, <1>8, <1>10, <1>11 DEF SupervisorInv

LEMMA StartEnsureKeeps ==
  ASSUME SupervisorInv, NEW h \in Hosts, NEW kind \in Kinds, NEW at, NEW next,
         \/ kind = "poller" /\ at = "start_poller" /\ next = "start_refresher"
         \/ kind = "refresher" /\ at = "start_refresher" /\ next = "start_warm",
         StartEnsure(h, kind, at, next)
  PROVE  SupervisorInv'
<1>1. /\ TypeOK /\ LifeInv /\ ThreadInv /\ SlotInv /\ CallInv /\ TicketInv
      /\ NoDuplicateLoop /\ QuietAfterStop /\ RunningExact
  BY DEF SupervisorInv
<1>2. /\ ops[h] = at /\ ops' = [ops EXCEPT ![h] = next] /\ Ensure(kind)
      /\ UNCHANGED <<state, gen, stopped, joining, ticket, starts>>
  BY DEF StartEnsure
<1>3. at \in Starting /\ next \in Starting /\ next \in Ops /\ at # "idle" /\ next # "idle"
  BY DEF Starting, Ops
<1>4. /\ ops' \in [Hosts -> Ops] /\ ops'[h] = next
      /\ \A g \in Hosts : g # h => ops[g] = "idle" /\ ops'[g] = "idle"
      /\ Due = 1 /\ Due' = 1
  BY <1>1, <1>2, <1>3, OnlyHost
<1>5. state = "Running"
  BY <1>1, <1>2, <1>3 DEF LifeInv
<1>6. LifeInv'
  BY <1>2, <1>3, <1>4, <1>5 DEF LifeInv, Starting, Stopping
<1>7. ASSUME slots' \in [Kinds -> Ids \cup {None}],
             \A k \in Kinds : slots[k] # None => slots'[k] # None,
             kind \in Loops => slots'[kind] # None
      PROVE  CallInv'
  <2>1. \A g \in Hosts : /\ ops'[g] = "start_refresher" => g = h /\ kind = "poller"
                         /\ ops'[g] \in {"start_warm", "start_join"} => g = h /\ kind = "refresher"
                         /\ ops'[g] # "stop_join"
    BY <1>4
  <2>2. kind = "refresher" /\ "poller" \in Loops => slots["poller"] # None
    BY <1>1, <1>2 DEF CallInv
  <2>3. kind = "refresher" => \A k \in Loops : slots'[k] # None
    BY <1>7, <2>2, LoopsAssumption DEF Kinds
  <2>4. \E g \in Hosts : ops'[g] # "idle"
    BY <1>3, <1>4
  <2> QED BY <1>7, <2>1, <2>3, <2>4 DEF CallInv
<1>8. CASE MaySpawn(kind)
  <2>1. Spawn(kind)
    BY <1>2, <1>8 DEF Ensure
  <2>2. state # "Stopped" /\ slots[kind] = None /\ kind # "warm"
    BY <1>1, <1>8, MaySpawnFacts
  <2>3. PICK w \in Ids : SpawnsAt(w, kind)
    BY <2>1, SpawnPicks
  <2>4. ThreadInv' /\ SlotInv' /\ NoDuplicateLoop' /\ QuietAfterStop' /\ RunningExact'
    BY <1>2, <2>2, <2>3, SpawnKeeps
  <2>5. /\ workers' \in [Ids -> Worker] /\ slots' \in [Kinds -> Ids \cup {None}] /\ running' \in Nat
        /\ slots'[kind] = w /\ \A k \in Kinds : k # kind => slots'[k] = slots[k]
        /\ Ahead' = Ahead
    BY <1>1, <1>2, <2>2, <2>3, SpawnThreads
  <2>6. TypeOK'
    BY <1>1, <1>2, <1>4, <2>5 DEF TypeOK
  <2>7. w # None
    BY NoneIsNoWorker DEF Ids
  <2>8. CallInv'
    BY <1>7, <2>5, <2>7
  <2>9. TicketInv'
    BY <1>1, <1>2, <1>4, <2>5 DEF TicketInv
  <2> QED BY <1>6, <2>4, <2>6, <2>8, <2>9 DEF SupervisorInv
<1>9. CASE ~MaySpawn(kind)
  <2>1. UNCHANGED <<workers, slots, running, state, gen, stopped, joining, ticket, starts>>
    BY <1>2, <1>9 DEF Ensure
  <2>2. kind \in Loops => slots[kind] # None
    BY <1>5, <1>9 DEF MaySpawn, Alive
  <2>3. Current' = Current /\ Ahead' = Ahead
    BY <2>1 DEF Current, Ahead, Waiting
  <2>4. TypeOK'
    BY <1>1, <1>4, <2>1 DEF TypeOK
  <2>5. CallInv'
    BY <1>1, <1>7, <2>1, <2>2 DEF TypeOK
  <2>6. ThreadInv' /\ SlotInv' /\ NoDuplicateLoop' /\ RunningExact'
    BY <1>1, <2>1, <2>3 DEF ThreadInv, Thread, SlotInv, NoDuplicateLoop, RunningExact
  <2>7. QuietAfterStop'
    BY <1>5, <2>1 DEF QuietAfterStop
  <2>8. TicketInv'
    BY <1>1, <1>4, <2>1, <2>3 DEF TicketInv
  <2> QED BY <1>6, <2>4, <2>5, <2>6, <2>7, <2>8 DEF SupervisorInv
<1> QED BY <1>8, <1>9

LEMMA StartTakeWarmKeeps ==
  ASSUME SupervisorInv, NEW h \in Hosts, StartTakeWarm(h)
  PROVE  SupervisorInv'
<1>1. /\ TypeOK /\ LifeInv /\ ThreadInv /\ SlotInv /\ CallInv /\ TicketInv
      /\ NoDuplicateLoop /\ QuietAfterStop /\ RunningExact
  BY DEF SupervisorInv
<1>2. /\ ops[h] = "start_warm" /\ ops' = [ops EXCEPT ![h] = "start_join"]
      /\ slots' = [slots EXCEPT !["warm"] = None]
      /\ joining' = {w \in {slots["warm"]} \ {None} : workers[w].done}
      /\ UNCHANGED <<state, gen, running, stopped, workers, ticket, starts>>
  BY DEF StartTakeWarm
<1>3. "start_join" \in Ops /\ "start_warm" \in Starting /\ "start_join" \in Starting
  BY DEF Starting, Ops
<1>4. /\ ops' \in [Hosts -> Ops] /\ ops'[h] = "start_join"
      /\ \A g \in Hosts : g # h => ops[g] = "idle" /\ ops'[g] = "idle"
      /\ Due = 1 /\ Due' = 1
  BY <1>1, <1>2, <1>3, OnlyHost
<1>5. state = "Running"
  BY <1>1, <1>2, <1>3 DEF LifeInv
<1>6. LifeInv'
  BY <1>2, <1>4, <1>5 DEF LifeInv, Starting, Stopping
<1>7. "warm" \in Kinds /\ "warm" \notin Loops /\ Loops \subseteq Kinds
  BY LoopsAssumption DEF Kinds
<1>8. slots'["warm"] = None /\ \A k \in Kinds : k # "warm" => slots'[k] = slots[k]
  BY <1>1, <1>2, <1>7 DEF TypeOK
<1>9. slots["warm"] \in Ids \cup {None}
  BY <1>1, <1>7 DEF TypeOK
<1>10. slots' \in [Kinds -> Ids \cup {None}] /\ joining' \subseteq Ids
  BY <1>1, <1>2, <1>9 DEF TypeOK
<1>11. TypeOK'
  BY <1>1, <1>2, <1>4, <1>10 DEF TypeOK
<1>12. Current' = Current /\ Ahead' = Ahead
  BY <1>2 DEF Current, Ahead, Waiting
<1>13. ThreadInv' /\ RunningExact'
  BY <1>1, <1>2, <1>12 DEF ThreadInv, Thread, RunningExact
<1>14. SlotInv'
  BY <1>1, <1>2, <1>8, <1>12 DEF SlotInv
<1>15. NoDuplicateLoop'
  BY <1>1, <1>2, <1>7, <1>8, <1>12 DEF NoDuplicateLoop
<1>16. QuietAfterStop'
  BY <1>2, <1>5 DEF QuietAfterStop
<1>17. CallInv'
  <2>1. \A k \in Loops : slots'[k] # None
    BY <1>1, <1>2, <1>7, <1>8 DEF CallInv
  <2>2. \A g \in Hosts : ops'[g] \notin {"start_refresher", "stop_join"}
    BY <1>4
  <2> QED BY <2>1, <2>2 DEF CallInv
<1>18. TicketInv'
  BY <1>1, <1>2, <1>4, <1>12 DEF TicketInv
<1> QED BY <1>6, <1>11, <1>13, <1>14, <1>15, <1>16, <1>17, <1>18 DEF SupervisorInv

LEMMA StartSpawnWarmKeeps ==
  ASSUME SupervisorInv, NEW h \in Hosts, StartSpawnWarm(h)
  PROVE  SupervisorInv'
<1>1. /\ TypeOK /\ LifeInv /\ CallInv /\ TicketInv
  BY DEF SupervisorInv
<1>2. /\ ops[h] = "start_join" /\ ops' = [ops EXCEPT ![h] = "idle"] /\ joining' = {}
      /\ state # "Stopped" => Spawn("warm")
      /\ UNCHANGED <<state, gen, stopped, ticket, starts>>
  BY DEF StartSpawnWarm
<1>3. "idle" \in Ops /\ "start_join" \in Starting /\ "idle" \notin Starting
  BY DEF Starting, Ops
<1>4. /\ ops' \in [Hosts -> Ops] /\ ops'[h] = "idle"
      /\ \A g \in Hosts : g # h => ops[g] = "idle" /\ ops'[g] = "idle"
      /\ Due = 1 /\ Due' = 0
  BY <1>1, <1>2, <1>3, OnlyHost
<1>5. state = "Running"
  BY <1>1, <1>2, <1>3 DEF LifeInv
<1>6. \A g \in Hosts : ops'[g] = "idle"
  BY <1>4
<1>7. LifeInv'
  BY <1>6 DEF LifeInv, Starting, Stopping
<1>8. "warm" \in Kinds /\ "warm" \notin Loops /\ Loops \subseteq Kinds
  BY LoopsAssumption DEF Kinds
<1>9. PICK w \in Ids : SpawnsAt(w, "warm")
  BY <1>2, <1>5, <1>8, SpawnPicks
<1>10. ThreadInv' /\ SlotInv' /\ NoDuplicateLoop' /\ QuietAfterStop' /\ RunningExact'
  BY <1>2, <1>5, <1>8, <1>9, SpawnKeeps
<1>11. /\ workers' \in [Ids -> Worker] /\ slots' \in [Kinds -> Ids \cup {None}] /\ running' \in Nat
       /\ slots'["warm"] = w /\ \A k \in Kinds : k # "warm" => slots'[k] = slots[k]
       /\ w \notin Ahead /\ Ahead' = Ahead \cup {w}
  BY <1>1, <1>2, <1>8, <1>9, SpawnThreads
<1>12. TypeOK'
  BY <1>1, <1>2, <1>4, <1>11 DEF TypeOK
<1>13. CallInv'
  <2>1. \A k \in Loops : slots'[k] # None
    BY <1>1, <1>2, <1>8, <1>11 DEF CallInv
  <2> QED BY <1>6, <2>1 DEF CallInv
<1>14. TicketInv'
  <2>1. PICK B \in SUBSET Ids : B = Ahead'
    BY DEF Ahead
  <2>2. starts' \in Nat /\ starts' = starts /\ ticket' = ticket
    BY <1>1, <1>2, WorkerBounds DEF TypeOK
  <2>3. \E v \in Ids : v \notin Ahead /\ B = Ahead \cup {v}
    BY <1>11, <2>1
  <2> QED BY <1>1, <1>4, <2>1, <2>2, <2>3, TicketsKept
<1> QED BY <1>7, <1>10, <1>12, <1>13, <1>14 DEF SupervisorInv

LEMMA LateFacts ==
  ASSUME NEW r \in Worker
  PROVE  LET s == [r EXCEPT !.late = 0]
         IN  /\ s \in Worker /\ s.kind = r.kind /\ s.gen = r.gen /\ s.pc = r.pc /\ s.phase = r.phase
             /\ s.left = r.left /\ s.mine = r.mine /\ s.late = 0 /\ (s.done <=> r.done)
<1>1. 0 \in 0 .. 2
  OBVIOUS
<1> QED BY <1>1 DEF Worker

\* What start() leaves of the threads: the reads since stop() are counted afresh.
LEMMA StartBeginThreads ==
  ASSUME TypeOK, ThreadInv, NEW h \in Hosts, StartBegin(h)
  PROVE  /\ workers' \in [Ids -> Worker] /\ ThreadInv' /\ Ahead' = Ahead
         /\ \A w \in Ids : /\ workers'[w].kind = workers[w].kind /\ workers'[w].gen = workers[w].gen
                           /\ workers'[w].pc = workers[w].pc
<1>1. workers' = [w \in Ids |-> [workers[w] EXCEPT !.late = 0]]
  BY DEF StartBegin
<1>2. ASSUME NEW w \in Ids
      PROVE  LET r == workers[w]
                 s == workers'[w]
             IN  /\ s \in Worker /\ s.kind = r.kind /\ s.gen = r.gen /\ s.pc = r.pc /\ s.phase = r.phase
                 /\ s.left = r.left /\ s.mine = r.mine /\ s.late = 0 /\ (s.done <=> r.done)
  <2>1. PICK r \in Worker : r = workers[w]
    BY DEF TypeOK
  <2>2. workers'[w] = [r EXCEPT !.late = 0]
    BY <1>1, <2>1
  <2> QED BY <2>1, <2>2, LateFacts
<1>3. workers' \in [Ids -> Worker]
  BY <1>1, <1>2
<1>4. Ahead' = Ahead
  BY <1>2 DEF Ahead, Waiting
<1>5. /\ gen \in Nat /\ stopped' = FALSE /\ state' = "Running"
      /\ gen' = IF state = "Stopped" THEN gen + 1 ELSE gen
  BY WorkerBounds DEF TypeOK, StartBegin
<1>6. ASSUME NEW w \in Ids
      PROVE  Thread(workers[w])'
  <2>1. PICK r \in Worker : r = workers[w] /\ Thread(r)
    BY DEF TypeOK, ThreadInv
  <2>2. PICK s : s = workers'[w]
    OBVIOUS
  <2>3. /\ s \in Worker /\ s.kind = r.kind /\ s.gen = r.gen /\ s.pc = r.pc /\ s.phase = r.phase
        /\ s.left = r.left /\ s.mine = r.mine /\ s.late = 0 /\ (s.done <=> r.done)
    BY <1>2, <2>1, <2>2
  <2>4. r.gen \in Nat /\ r.gen <= gen
    BY <2>1, WorkerFields, WorkerBounds DEF Thread
  <2>5. s.gen <= gen' /\ (state = "Stopped" => s.gen # gen')
    BY <1>5, <2>3, <2>4
  <2>6. Thread(s)'
    BY <1>5, <2>1, <2>3, <2>5 DEF Thread
  <2> QED BY <2>2, <2>6 DEF Thread
<1> QED BY <1>2, <1>3, <1>4, <1>6 DEF ThreadInv

LEMMA StartBeginKeeps ==
  ASSUME SupervisorInv, NEW h \in Hosts, StartBegin(h)
  PROVE  SupervisorInv'
<1>1. /\ TypeOK /\ LifeInv /\ ThreadInv /\ SlotInv /\ CallInv /\ TicketInv
      /\ NoDuplicateLoop /\ QuietAfterStop /\ RunningExact
  BY DEF SupervisorInv
<1>2. /\ LifecycleFree /\ ops' = [ops EXCEPT ![h] = "start_poller"] /\ starts < MaxStarts
      /\ state = "Stopped" => gen < MaxGen
      /\ gen' = IF state = "Stopped" THEN gen + 1 ELSE gen
      /\ state' = "Running" /\ stopped' = FALSE /\ starts' = starts + 1
      /\ UNCHANGED <<running, slots, joining, ticket>>
  BY DEF StartBegin
<1>3. "start_poller" \in Ops /\ "start_poller" \in Starting /\ "idle" \notin Starting
  BY DEF Starting, Ops
<1>4. /\ ops' \in [Hosts -> Ops] /\ ops'[h] = "start_poller"
      /\ \A g \in Hosts : g # h => ops[g] = "idle" /\ ops'[g] = "idle"
      /\ Due = (IF ops[h] \in Starting THEN 1 ELSE 0) /\ Due' = 1
  BY <1>1, <1>2, <1>3, OnlyHost
<1>5. ops[h] = "idle" /\ Due = 0
  BY <1>2, <1>3, <1>4 DEF LifecycleFree
<1>6. /\ workers' \in [Ids -> Worker] /\ ThreadInv' /\ Ahead' = Ahead
      /\ \A w \in Ids : /\ workers'[w].kind = workers[w].kind /\ workers'[w].gen = workers[w].gen
                        /\ workers'[w].pc = workers[w].pc
  BY <1>1, StartBeginThreads
<1>7. gen' \in 0 .. MaxGen /\ starts' \in 0 .. MaxStarts /\ gen \in Nat /\ starts \in Nat
  BY <1>1, <1>2, WorkerBounds DEF TypeOK
<1>8. TypeOK'
  BY <1>1, <1>2, <1>4, <1>6, <1>7 DEF TypeOK
<1>9. LifeInv'
  BY <1>2, <1>4 DEF LifeInv, Starting, Stopping
<1>10. CallInv'
  <2>1. \A g \in Hosts : ops'[g] \in {"idle", "start_poller"}
    BY <1>4
  <2>2. ~ \A g \in Hosts : ops'[g] = "idle"
    BY <1>4
  <2> QED BY <2>1, <2>2 DEF CallInv
<1>11. QuietAfterStop'
  BY <1>2 DEF QuietAfterStop
<1>12. TicketInv'
  <2>1. PICK B \in SUBSET Ids : B = Ahead'
    BY DEF Ahead
  <2>2. starts' \in Nat /\ starts' - Due' >= starts - Due /\ ticket' = ticket
    BY <1>2, <1>4, <1>5, <1>7
  <2> QED BY <1>1, <1>4, <1>5, <1>6, <2>1, <2>2, TicketsKept
<1>13. CASE state = "Stopped"
  <2>1. Current = {} /\ running = 0 /\ \A k \in Kinds : slots[k] = None
    BY <1>1, <1>2, <1>13 DEF QuietAfterStop, LifecycleFree
  <2>2. \A w \in Ids : workers[w].gen \in Nat /\ workers[w].gen <= gen
    <3> TAKE w \in Ids
    <3>1. workers[w] \in Worker /\ Thread(workers[w])
      BY <1>1 DEF TypeOK, ThreadInv
    <3> QED BY <3>1, WorkerFields, WorkerBounds DEF Thread
  <2>3. Current' = {}
    BY <1>2, <1>6, <1>7, <1>13, <2>2 DEF Current
  <2>4. SlotInv' /\ NoDuplicateLoop'
    BY <1>2, <2>1, <2>3 DEF SlotInv, NoDuplicateLoop
  <2>5. RunningExact'
    BY <1>2, <2>1, <2>3, FS_EmptySet DEF RunningExact
  <2> QED BY <1>6, <1>8, <1>9, <1>10, <1>11, <1>12, <2>4, <2>5 DEF SupervisorInv
<1>14. CASE state # "Stopped"
  <2>1. gen' = gen
    BY <1>2, <1>14
  <2>2. Current' = Current
    BY <1>6, <2>1 DEF Current
  <2>3. SlotInv'
    <3> SUFFICES ASSUME NEW k \in Kinds, slots[k] # None
                 PROVE  /\ \/ workers'[slots[k]].pc = "exited"
                           \/ workers'[slots[k]].kind = k /\ workers'[slots[k]].gen = gen
                        /\ k \in Loops => slots[k] \in Current
      BY <1>2, <2>1, <2>2 DEF SlotInv
    <3>1. slots[k] \in Ids
      BY <1>1 DEF TypeOK
    <3> QED BY <1>1, <1>6, <1>14, <3>1 DEF SlotInv
  <2>4. NoDuplicateLoop'
    <3> SUFFICES ASSUME NEW v \in Current, workers'[v].kind \in Loops
                 PROVE  slots[workers'[v].kind] = v
      BY <1>2, <2>2 DEF NoDuplicateLoop
    <3>1. v \in Ids
      BY CurrentDef
    <3> QED BY <1>1, <1>6, <1>14, <3>1 DEF NoDuplicateLoop
  <2>5. RunningExact'
    BY <1>1, <1>2, <2>2 DEF RunningExact
  <2> QED BY <1>6, <1>8, <1>9, <1>10, <1>11, <1>12, <2>3, <2>4, <2>5 DEF SupervisorInv
<1> QED BY <1>13, <1>14

LEMMA StopBeginKeeps ==
  ASSUME SupervisorInv, NEW h \in Hosts, StopBegin(h)
  PROVE  SupervisorInv'
<1>1. /\ TypeOK /\ LifeInv /\ ThreadInv /\ SlotInv /\ CallInv /\ TicketInv
      /\ NoDuplicateLoop /\ RunningExact
  BY DEF SupervisorInv
<1>2. /\ LifecycleFree /\ ops' = [ops EXCEPT ![h] = "stop_grace"] /\ gen < MaxGen
      /\ state' = "Stopped" /\ stopped' = TRUE
      /\ UNCHANGED <<gen, running, slots, workers, joining, ticket, starts>>
  BY DEF StopBegin
<1>3. "stop_grace" \in Ops /\ "stop_grace" \notin Starting /\ "idle" \notin Starting
  BY DEF Starting, Ops
<1>4. /\ ops' \in [Hosts -> Ops] /\ ops'[h] = "stop_grace"
      /\ \A g \in Hosts : g # h => ops[g] = "idle" /\ ops'[g] = "idle"
      /\ Due = (IF ops[h] \in Starting THEN 1 ELSE 0) /\ Due' = 0
  BY <1>1, <1>2, <1>3, OnlyHost
<1>5. Due = 0
  BY <1>2, <1>3, <1>4 DEF LifecycleFree
<1>6. Current' = Current /\ Ahead' = Ahead
  BY <1>2 DEF Current, Ahead, Waiting
<1>7. TypeOK'
  BY <1>1, <1>2, <1>4 DEF TypeOK
<1>8. LifeInv'
  BY <1>2, <1>4 DEF LifeInv, Starting, Stopping
<1>9. ASSUME NEW w \in Ids
      PROVE  Thread(workers[w])'
  <2>1. PICK r : r = workers[w] /\ Thread(r)
    BY <1>1 DEF ThreadInv
  <2>2. Thread(r)'
    BY <1>2, <2>1 DEF Thread
  <2> QED BY <1>2, <2>1, <2>2 DEF Thread
<1>10. SlotInv' /\ NoDuplicateLoop' /\ RunningExact'
  BY <1>1, <1>2, <1>6 DEF SlotInv, NoDuplicateLoop, RunningExact
<1>11. ~ \A g \in Hosts : ops'[g] = "idle"
  BY <1>4
<1>12. QuietAfterStop'
  BY <1>11 DEF QuietAfterStop
<1>13. \A g \in Hosts : ops'[g] \in {"idle", "stop_grace"}
  BY <1>4
<1>14. CallInv'
  BY <1>11, <1>13 DEF CallInv
<1>15. TicketInv'
  BY <1>1, <1>2, <1>4, <1>5, <1>6 DEF TicketInv
<1> QED BY <1>7, <1>8, <1>9, <1>10, <1>12, <1>14, <1>15 DEF SupervisorInv, ThreadInv

LEMMA StopCollectKeeps ==
  ASSUME SupervisorInv, NEW h \in Hosts, StopCollect(h)
  PROVE  SupervisorInv'
<1>1. /\ TypeOK /\ LifeInv /\ ThreadInv /\ TicketInv /\ RunningExact
  BY DEF SupervisorInv
<1>2. /\ ops[h] = "stop_grace" /\ ops' = [ops EXCEPT ![h] = "stop_join"]
      /\ joining' \subseteq Ids /\ slots' = [k \in Kinds |-> None]
      /\ UNCHANGED <<state, gen, running, stopped, workers, ticket, starts>>
  BY DEF StopCollect
<1>3. /\ "stop_join" \in Ops /\ "stop_join" \notin Starting /\ "stop_grace" \notin Starting
      /\ "stop_grace" \in Stopping
  BY DEF Starting, Stopping, Ops
<1>4. /\ ops' \in [Hosts -> Ops] /\ ops'[h] = "stop_join"
      /\ \A g \in Hosts : g # h => ops[g] = "idle" /\ ops'[g] = "idle"
      /\ Due = 0 /\ Due' = 0
  BY <1>1, <1>2, <1>3, OnlyHost
<1>5. state = "Stopped" /\ gen < MaxGen
  BY <1>1, <1>2, <1>3 DEF LifeInv
<1>6. Current' = Current /\ Ahead' = Ahead
  BY <1>2 DEF Current, Ahead, Waiting
<1>7. slots' \in [Kinds -> Ids \cup {None}] /\ \A k \in Kinds : slots'[k] = None
  BY <1>2
<1>8. TypeOK'
  BY <1>1, <1>2, <1>4, <1>7 DEF TypeOK
<1>9. LifeInv'
  BY <1>2, <1>4, <1>5 DEF LifeInv, Starting, Stopping
<1>10. ThreadInv' /\ RunningExact'
  BY <1>1, <1>2, <1>6 DEF ThreadInv, Thread, RunningExact
<1>11. SlotInv' /\ NoDuplicateLoop'
  BY <1>2, <1>5, <1>7 DEF SlotInv, NoDuplicateLoop
<1>12. ~ \A g \in Hosts : ops'[g] = "idle"
  BY <1>4
<1>13. QuietAfterStop'
  BY <1>12 DEF QuietAfterStop
<1>14. \A g \in Hosts : ops'[g] \in {"idle", "stop_join"}
  BY <1>4
<1>15. CallInv'
  BY <1>7, <1>12, <1>14 DEF CallInv
<1>16. TicketInv'
  BY <1>1, <1>2, <1>4, <1>6 DEF TicketInv
<1> QED BY <1>8, <1>9, <1>10, <1>11, <1>13, <1>15, <1>16 DEF SupervisorInv

LEMMA StopCloseKeeps ==
  ASSUME SupervisorInv, NEW h \in Hosts, StopClose(h)
  PROVE  SupervisorInv'
<1>1. /\ TypeOK /\ LifeInv /\ ThreadInv /\ CallInv /\ TicketInv
  BY DEF SupervisorInv
<1>2. /\ ops[h] = "stop_join" /\ ops' = [ops EXCEPT ![h] = "idle"]
      /\ joining' = {} /\ gen' = gen + 1 /\ running' = 0
      /\ UNCHANGED <<state, slots, stopped, workers, ticket, starts>>
  BY DEF StopClose
<1>3. "idle" \in Ops /\ "idle" \notin Starting /\ "stop_join" \notin Starting /\ "stop_join" \in Stopping
  BY DEF Starting, Stopping, Ops
<1>4. /\ ops' \in [Hosts -> Ops] /\ ops'[h] = "idle"
      /\ \A g \in Hosts : g # h => ops[g] = "idle" /\ ops'[g] = "idle"
      /\ Due = 0 /\ Due' = 0
  BY <1>1, <1>2, <1>3, OnlyHost
<1>5. state = "Stopped" /\ gen < MaxGen
  BY <1>1, <1>2, <1>3 DEF LifeInv
<1>6. \A k \in Kinds : slots[k] = None
  BY <1>1, <1>2 DEF CallInv
<1>7. gen \in Nat /\ gen' \in 0 .. MaxGen
  BY <1>1, <1>2, <1>5, WorkerBounds DEF TypeOK
<1>8. TypeOK'
  BY <1>1, <1>2, <1>4, <1>7 DEF TypeOK
<1>9. \A g \in Hosts : ops'[g] = "idle"
  BY <1>4
<1>10. LifeInv'
  BY <1>9 DEF LifeInv, Starting, Stopping
<1>11. ASSUME NEW w \in Ids
       PROVE  Thread(workers[w])' /\ workers[w].gen # gen'
  <2>1. PICK r \in Worker : r = workers[w] /\ Thread(r)
    BY <1>1 DEF TypeOK, ThreadInv
  <2>2. r.gen \in Nat /\ r.gen <= gen
    BY <2>1, WorkerFields, WorkerBounds DEF Thread
  <2>3. r.gen <= gen' /\ r.gen # gen'
    BY <1>2, <1>7, <2>2
  <2>4. Thread(r)'
    BY <1>2, <2>1, <2>3 DEF Thread
  <2> QED BY <1>2, <2>1, <2>3, <2>4 DEF Thread
<1>12. Current' = {}
  BY <1>2, <1>11 DEF Current
<1>13. SlotInv' /\ NoDuplicateLoop'
  BY <1>2, <1>6, <1>12 DEF SlotInv, NoDuplicateLoop
<1>14. RunningExact'
  BY <1>2, <1>12, FS_EmptySet DEF RunningExact
<1>15. QuietAfterStop'
  BY <1>2, <1>6, <1>12 DEF QuietAfterStop
<1>16. CallInv'
  BY <1>2, <1>5, <1>9 DEF CallInv
<1>17. Ahead' = Ahead
  BY <1>2 DEF Ahead, Waiting
<1>18. TicketInv'
  BY <1>1, <1>2, <1>4, <1>17 DEF TicketInv
<1> QED BY <1>8, <1>10, <1>11, <1>13, <1>14, <1>15, <1>16, <1>18 DEF SupervisorInv, ThreadInv

-----------------------------------------------------------------------------
(* The specification keeps the invariant. *)

LEMMA SupervisorInit == Init => SupervisorInv
<1> SUFFICES ASSUME Init
             PROVE  SupervisorInv
  OBVIOUS
<1>1. /\ state = "NeverStarted" /\ gen = 0 /\ running = 0 /\ slots = [k \in Kinds |-> None]
      /\ stopped = FALSE /\ workers = [w \in Ids |-> NoThread] /\ ops = [h \in Hosts |-> "idle"]
      /\ joining = {} /\ ticket = 0 /\ starts = 0
  BY DEF Init
<1>2. PICK r \in Worker : r = NoThread
  BY NoThreadFacts
<1>3. /\ r.kind = "poller" /\ r.gen = 0 /\ r.pc = "exited" /\ r.phase = "pending" /\ r.mine = 0
      /\ r.late = 0 /\ r.done = TRUE
  BY <1>2, NoThreadFacts
<1>4. workers \in [Ids -> Worker] /\ \A w \in Ids : workers[w] = r
  BY <1>1, <1>2
<1>5. TypeOK
  <2>1. "idle" \in Ops /\ 0 \in 0 .. MaxGen /\ 0 \in 0 .. MaxStarts
    BY WorkerBounds DEF Ops
  <2>2. slots \in [Kinds -> Ids \cup {None}] /\ ops \in [Hosts -> Ops]
    BY <1>1, <2>1
  <2>3. stopped = (state = "Stopped")
    BY <1>1
  <2> QED BY <1>1, <1>4, <2>1, <2>2, <2>3 DEF TypeOK
<1>6. Thread(r)
  <2>1. "pending" \in PhasesOf("poller")
    BY DEF PhasesOf
  <2> QED BY <1>1, <1>3, <2>1 DEF Thread
<1>7. ThreadInv
  BY <1>4, <1>6 DEF ThreadInv
<1>8. \A h \in Hosts : ops[h] = "idle"
  BY <1>1
<1>9. Current = {} /\ Ahead = {}
  BY <1>3, <1>4 DEF Current, Ahead, Waiting
<1>10. Cardinality({}) = 0
  BY FS_EmptySet
<1>11. LifeInv /\ CallInv
  BY <1>1, <1>8 DEF LifeInv, CallInv, Starting, Stopping
<1>12. SlotInv /\ NoDuplicateLoop /\ QuietAfterStop
  BY <1>1, <1>9 DEF SlotInv, NoDuplicateLoop, QuietAfterStop
<1>13. RunningExact
  BY <1>1, <1>9, <1>10 DEF RunningExact
<1>14. Due = 0
  BY <1>8 DEF Due, Starting
<1>15. TicketInv
  BY <1>1, <1>9, <1>10, <1>14 DEF TicketInv
<1> QED BY <1>5, <1>7, <1>11, <1>12, <1>13, <1>15 DEF SupervisorInv

LEMMA SupervisorStep == SupervisorInv /\ [Next]_vars => SupervisorInv'
<1> SUFFICES ASSUME SupervisorInv, [Next]_vars
             PROVE  SupervisorInv'
  OBVIOUS
<1>1. ASSUME NEW w \in Ids, WorkerStep(w)
      PROVE  SupervisorInv'
  BY <1>1, WorkerKeeps
<1>2. ASSUME NEW h \in Hosts, HostStep(h)
      PROVE  SupervisorInv'
  <2>1. CASE StartEnsure(h, "poller", "start_poller", "start_refresher")
    <3>1. "poller" \in Kinds
      BY DEF Kinds
    <3> QED BY <2>1, <3>1, StartEnsureKeeps
  <2>2. CASE StartEnsure(h, "refresher", "start_refresher", "start_warm")
    <3>1. "refresher" \in Kinds
      BY DEF Kinds
    <3> QED BY <2>2, <3>1, StartEnsureKeeps
  <2>3. CASE StartTakeWarm(h)
    BY <2>3, StartTakeWarmKeeps
  <2>4. CASE StartSpawnWarm(h)
    BY <2>4, StartSpawnWarmKeeps
  <2>5. CASE StopCollect(h)
    BY <2>5, StopCollectKeeps
  <2>6. CASE StopClose(h)
    BY <2>6, StopCloseKeeps
  <2> QED BY <1>2, <2>1, <2>2, <2>3, <2>4, <2>5, <2>6 DEF HostStep
<1>3. ASSUME NEW h \in Hosts, StartBegin(h) \/ StopBegin(h)
      PROVE  SupervisorInv'
  BY <1>3, StartBeginKeeps, StopBeginKeeps
<1>4. ASSUME NEW kind \in Loops, EnsureLoop(kind)
      PROVE  SupervisorInv'
  BY <1>4, EnsureLoopKeeps
<1>5. CASE UNCHANGED vars
  <2>1. UNCHANGED <<state, gen, running, slots, stopped, workers, ops, joining, ticket, starts>>
    BY <1>5 DEF vars
  <2>2. Current' = Current /\ Ahead' = Ahead /\ Due' = Due
    BY <2>1 DEF Current, Ahead, Waiting, Due
  <2>3. TypeOK' /\ LifeInv' /\ CallInv'
    BY <2>1 DEF SupervisorInv, TypeOK, LifeInv, CallInv
  <2>4. ThreadInv' /\ SlotInv'
    BY <2>1, <2>2 DEF SupervisorInv, ThreadInv, Thread, SlotInv
  <2>5. NoDuplicateLoop' /\ QuietAfterStop' /\ RunningExact' /\ TicketInv'
    BY <2>1, <2>2 DEF SupervisorInv, NoDuplicateLoop, QuietAfterStop, RunningExact, TicketInv
  <2> QED BY <2>3, <2>4, <2>5 DEF SupervisorInv
<1> QED BY <1>1, <1>2, <1>3, <1>4, <1>5 DEF Next

LEMMA SupervisorAlways == Spec => []SupervisorInv
BY SupervisorInit, SupervisorStep, PTL DEF Spec

\* The supervisor's fields keep their types, the STOPPED flag mirrors the state,
\* and the provisioning tickets (ensure.rs EPOCH) never outnumber the start() calls
\* allowed.
THEOREM TypeCorrect == Spec => []TypeOK
<1>1. SupervisorInv => TypeOK
  BY DEF SupervisorInv
<1> QED BY <1>1, SupervisorAlways, PTL

\* spawn_into's epilogue and stop() keep `running` equal to the number of live
\* workers of the current generation.
THEOREM CountIsExact == Spec => []RunningExact
<1>1. SupervisorInv => RunningExact
  BY DEF SupervisorInv
<1> QED BY <1>1, SupervisorAlways, PTL

\* ensure() never runs a second poller or refresher of the current generation.
THEOREM LoopsAreUnique == Spec => []NoDuplicateLoop
<1>1. SupervisorInv => NoDuplicateLoop
  BY DEF SupervisorInv
<1> QED BY <1>1, SupervisorAlways, PTL

\* Between start() and the next stop() both loops run under the current generation.
THEOREM LoopsKeepRunning == Spec => []LoopsRun
<1>1. SupervisorInv => LoopsRun
  <2> SUFFICES ASSUME SupervisorInv, state = "Running", \A h \in Hosts : ops[h] = "idle", NEW k \in Loops
               PROVE  slots[k] # None /\ slots[k] \in Current
    BY DEF LoopsRun
  <2>1. slots[k] # None
    BY DEF SupervisorInv, CallInv
  <2>2. k \in Kinds
    BY LoopsAssumption DEF Kinds
  <2> QED BY <2>1, <2>2 DEF SupervisorInv, SlotInv
<1> QED BY <1>1, SupervisorAlways, PTL

\* After stop() returns nothing of the current run is alive, counted or held.
THEOREM StopIsQuiet == Spec => []QuietAfterStop
<1>1. SupervisorInv => QuietAfterStop
  BY DEF SupervisorInv
<1> QED BY <1>1, SupervisorAlways, PTL

\* After stop() the refresher begins at most one more read (refresh_all's flag check).
THEOREM RefresherStops == Spec => []RefresherStopsReading
<1>1. SupervisorInv => RefresherStopsReading
  <2> SUFFICES ASSUME SupervisorInv, NEW w \in Ids, workers[w].kind = "refresher"
               PROVE  workers[w].late <= 1
    BY DEF RefresherStopsReading
  <2>1. Thread(workers[w])
    BY DEF SupervisorInv, ThreadInv
  <2> QED BY <2>1 DEF Thread
<1> QED BY <1>1, SupervisorAlways, PTL

====
