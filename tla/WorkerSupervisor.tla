---- MODULE WorkerSupervisor ----
(***************************************************************************)
(* worker.rs: the owner of the maintenance threads (the confirmation poller, *)
(* the root refresher and start()'s one-shot warm pass), with the loops and  *)
(* tick bodies it runs (poller.rs, roots.rs, the warm closure of start_impl  *)
(* and the ticket of ensure.rs).                                            *)
(*                                                                          *)
(* SUP is a mutex: an action that takes it needs SupFree, and the joins that *)
(* are made while holding it are the only moments it stays held between two  *)
(* steps.  A tick body is a sequence of phases, each a run of registry reads; *)
(* what is read is left out, and where the body looks at the stop flag is    *)
(* kept.  A wait ends by timeout or nudge at any moment.                     *)
(*                                                                          *)
(* Definitions named Wrong... are seeded faults, as in SlotAllocation.       *)
(***************************************************************************)
EXTENDS Integers, FiniteSets, FiniteSetsExt

CONSTANTS
    Hosts,       \* threads that call start() and stop()
    Loops,       \* the loops of the instance: "poller", "refresher" or both
    MaxWorkers,  \* bound on threads alive at once; ids of exited ones are reused
    MaxItems,    \* bound on the records or registries a phase reads
    MaxGen,      \* bound on the generation: limits stop()
    MaxStarts,   \* bound on the number of start() calls
    None

ASSUME WorkerBounds ==
    /\ MaxWorkers \in Nat \ {0} /\ MaxItems \in Nat
    /\ MaxGen \in Nat /\ MaxStarts \in Nat
ASSUME LoopsAssumption == Loops \subseteq {"poller", "refresher"}
ASSUME NoneIsNoWorker == None \notin 1..MaxWorkers

Kinds  == {"poller", "refresher", "warm"}
Ids    == 1..MaxWorkers
Phases == {"pending", "states", "paths", "roots", "select", "provision"}

VARIABLES
    state,    \* Supervisor.state
    gen,      \* Supervisor.generation
    running,  \* Supervisor.running
    slots,    \* Supervisor.poller, .refresher, .warm: a worker id or None
    stopped,  \* STOPPED
    workers,  \* the threads
    ops,      \* each host thread's place in start() or stop()
    joining,  \* threads being joined with SUP held
    ticket,   \* ensure.rs EPOCH
    starts    \* history: how many start() calls there were

vars == <<state, gen, running, slots, stopped, workers, ops, joining, ticket, starts>>

\* pc: wait (in wait_tick), gate (before a phase), item (before its next
\* read), reading, returned (body left), counted (epilogue past SUP), exiting
\* (done flag set), exited.
Worker == [kind : Kinds, gen : 0..MaxGen, pc : {"wait", "gate", "item", "reading",
             "returned", "counted", "exiting", "exited"},
           phase : Phases, left : 0..MaxItems, done : BOOLEAN,
           mine : 0..MaxStarts,    \* its provisioning ticket
           late : 0..2]            \* history: reads begun since stop(), at most 2 counted

\* Where a host thread is: SUP is held in the last two.
Ops == {"idle", "start_poller", "start_refresher", "start_warm", "stop_grace",
        "start_join", "stop_join"}

SupFree == \A h \in Hosts : ops[h] \notin {"start_join", "stop_join"}

WrongNoLifecycle == SupFree
\* The LIFECYCLE mutex that start_impl and stop_impl take.
LifecycleFree == \A h \in Hosts : ops[h] = "idle"

-----------------------------------------------------------------------------
(* Spawning. *)

FreeIds == {w \in Ids : /\ workers[w].pc = "exited"
                        /\ w \notin joining
                        /\ \A k \in Kinds : slots[k] # w}

\* An id no thread uses: what an exited thread was is forgotten.
NoThread == [kind |-> "poller", gen |-> 0, pc |-> "exited", phase |-> "pending", left |-> 0,
             done |-> TRUE, mine |-> 0, late |-> 0]

FirstPhase(kind) == CASE kind = "poller" -> "pending"
                      [] kind = "refresher" -> "roots"
                      [] kind = "warm" -> "select"

NewWorker(kind) ==
    [kind |-> kind, gen |-> gen, pc |-> IF kind = "warm" THEN "gate" ELSE "wait",
     phase |-> FirstPhase(kind), left |-> 0, done |-> FALSE,
     mine |-> 0, late |-> 0]

\* spawn_into(name, gen, body), stored in the slot and counted.
Spawn(kind) ==
    /\ FreeIds # {}
    /\ LET w == Min(FreeIds)
       IN  /\ workers' = [workers EXCEPT ![w] = NewWorker(kind)]
           /\ slots' = [slots EXCEPT ![kind] = w]
    /\ running' = running + 1

WrongNeverAlive(kind) == FALSE
Alive(kind) == slots[kind] # None /\ ~workers[slots[kind]].done

WrongSpawnsWhileStopped(kind) == kind \in Loops /\ ~Alive(kind)
MaySpawn(kind) == kind \in Loops /\ state # "Stopped" /\ ~Alive(kind)

\* ensure(): a no-op while stopped or alive.  A done thread in the slot is
\* reaped, which LoopsRun shows never to be needed for a loop.
Ensure(kind) ==
    IF MaySpawn(kind) THEN Spawn(kind) ELSE UNCHANGED <<workers, slots, running>>

\* ensure_poller from register, ensure_refresher from track: any thread, any time.
EnsureLoop(kind) ==
    /\ SupFree
    /\ MaySpawn(kind)
    /\ Spawn(kind)
    /\ UNCHANGED <<state, gen, stopped, ops, joining, ticket, starts>>

-----------------------------------------------------------------------------
(* start(). *)

StartBegin(h) ==
    /\ LifecycleFree
    /\ ops[h] = "idle"
    /\ starts < MaxStarts
    /\ state = "Stopped" => gen < MaxGen
    /\ gen' = IF state = "Stopped" THEN gen + 1 ELSE gen
    /\ state' = "Running"
    /\ stopped' = FALSE
    /\ workers' = [w \in Ids |-> [workers[w] EXCEPT !.late = 0]]
    /\ starts' = starts + 1
    /\ ops' = [ops EXCEPT ![h] = "start_poller"]
    /\ UNCHANGED <<running, slots, joining, ticket>>

\* Its ensure_poller, then its ensure_refresher.
StartEnsure(h, kind, at, next) ==
    /\ SupFree
    /\ ops[h] = at
    /\ Ensure(kind)
    /\ ops' = [ops EXCEPT ![h] = next]
    /\ UNCHANGED <<state, gen, stopped, joining, ticket, starts>>

\* A finished warm pass is joined, one still in flight is detached.
StartTakeWarm(h) ==
    /\ SupFree
    /\ ops[h] = "start_warm"
    /\ joining' = {w \in {slots["warm"]} \ {None} : workers[w].done}
    /\ slots' = [slots EXCEPT !["warm"] = None]
    /\ ops' = [ops EXCEPT ![h] = "start_join"]
    /\ UNCHANGED <<state, gen, running, stopped, workers, ticket, starts>>

JoinsDone == \A w \in joining : workers[w].pc = "exited"

StartSpawnWarm(h) ==
    /\ ops[h] = "start_join"
    /\ JoinsDone
    /\ joining' = {}
    /\ IF state = "Stopped" THEN UNCHANGED <<workers, slots, running>> ELSE Spawn("warm")
    /\ ops' = [ops EXCEPT ![h] = "idle"]
    /\ UNCHANGED <<state, gen, stopped, ticket, starts>>

-----------------------------------------------------------------------------
(* stop(). *)

StopBegin(h) ==
    /\ LifecycleFree
    /\ ops[h] = "idle"
    /\ gen < MaxGen
    /\ state' = "Stopped"
    /\ stopped' = TRUE
    /\ ops' = [ops EXCEPT ![h] = "stop_grace"]
    /\ UNCHANGED <<gen, running, slots, workers, joining, ticket, starts>>

\* The grace ends, because nobody runs any more or by timeout: threads that
\* are done are joined, the others detached.
StopCollect(h) ==
    /\ SupFree
    /\ ops[h] = "stop_grace"
    /\ joining' = {w \in Ids : workers[w].done /\ \E k \in Kinds : slots[k] = w}
    /\ slots' = [k \in Kinds |-> None]
    /\ ops' = [ops EXCEPT ![h] = "stop_join"]
    /\ UNCHANGED <<state, gen, running, stopped, workers, ticket, starts>>

\* The generation closes and the count restarts.
StopClose(h) ==
    /\ ops[h] = "stop_join"
    /\ JoinsDone
    /\ joining' = {}
    /\ gen' = gen + 1
    /\ running' = 0
    /\ ops' = [ops EXCEPT ![h] = "idle"]
    /\ UNCHANGED <<state, slots, stopped, workers, ticket, starts>>

-----------------------------------------------------------------------------
(* The loops and their tick bodies. *)

Becomes(w, rec) == workers' = [workers EXCEPT ![w] = rec]

\* wait(): the tick is due, and the run is neither stopped nor superseded.
Tick(w) ==
    /\ SupFree
    /\ workers[w].pc = "wait"
    /\ workers[w].gen = gen
    /\ state # "Stopped"
    /\ Becomes(w, [workers[w] EXCEPT !.pc = "gate"])
    /\ UNCHANGED <<state, gen, running, slots, stopped, ops, joining, ticket, starts>>

WrongFinish(rec) == [rec EXCEPT !.pc = "returned", !.done = TRUE]
\* The body returns; the done flag is still down.
Finish(rec) == [rec EXCEPT !.pc = "returned"]

WrongIgnoresGeneration(w) ==
    /\ SupFree
    /\ workers[w].pc = "wait"
    /\ state = "Stopped"
    /\ Becomes(w, Finish(workers[w]))
    /\ UNCHANGED <<state, gen, running, slots, stopped, ops, joining, ticket, starts>>

\* wait() returned false: run_loop returns.
Quit(w) ==
    /\ SupFree
    /\ workers[w].pc = "wait"
    /\ workers[w].gen # gen \/ state = "Stopped"
    /\ Becomes(w, Finish(workers[w]))
    /\ UNCHANGED <<state, gen, running, slots, stopped, ops, joining, ticket, starts>>

Sleep(rec)  == [rec EXCEPT !.pc = "wait", !.phase = FirstPhase(rec.kind), !.left = 0]
Go(rec, ph) == [rec EXCEPT !.pc = "gate", !.phase = ph, !.left = 0]

\* What may follow a phase: the poller refreshes states and paths on every
\* fourth tick only, and start() may opt out of provisioning.
Following(rec) ==
    CASE rec.phase = "pending"   -> {Sleep(rec), Go(rec, "states")}
      [] rec.phase = "states"    -> {Go(rec, "paths")}
      [] rec.phase = "roots"     -> {IF rec.kind = "warm" THEN Go(rec, "paths") ELSE Sleep(rec)}
      [] rec.phase = "paths"     -> IF rec.kind = "warm" THEN {Go(rec, "provision"), Finish(rec)}
                                    ELSE {Sleep(rec)}
      [] rec.phase = "select"    -> {Go(rec, "roots")}
      [] rec.phase = "provision" -> {Finish(rec)}

\* tick, refresh_all and refresh_paths look at the flag when entered; the
\* state refresh inside tick and the network selection do not.
Gated(rec) == rec.phase \in {"pending", "roots", "paths"}

\* The gate is shut: a tick of the poller ends, a warm pass goes on to the next phase.
Gate(w) ==
    LET rec == workers[w]
    IN  /\ rec.pc = "gate"
        /\ rec.phase # "provision"
        /\ \/ /\ Gated(rec) /\ stopped
              /\ \E next \in IF rec.phase = "pending" THEN {Sleep(rec)} ELSE Following(rec) :
                   Becomes(w, next)
           \/ /\ ~(Gated(rec) /\ stopped)
              /\ \/ \E n \in 1..MaxItems : Becomes(w, [rec EXCEPT !.pc = "item", !.left = n])
                 \/ \E next \in Following(rec) : Becomes(w, next)
        /\ UNCHANGED <<state, gen, running, slots, stopped, ops, joining, ticket, starts>>

\* ensure::run takes its ticket.
EnterProvision(w) ==
    /\ workers[w].pc = "gate"
    /\ workers[w].phase = "provision"
    /\ ticket' = ticket + 1
    /\ Becomes(w, [workers[w] EXCEPT !.pc = "item", !.mine = ticket'])
    /\ UNCHANGED <<state, gen, running, slots, stopped, ops, joining, starts>>

\* ensure::superseded
Superseded(rec) == stopped \/ rec.mine # ticket

\* The next registry read goes out.  One read of the provisioning phase stands
\* for the reads the code makes between two looks at `superseded`.
BeginRead(w) ==
    LET rec == workers[w]
    IN  /\ rec.pc = "item"
        /\ rec.phase = "provision" => ~Superseded(rec)
        /\ Becomes(w, [rec EXCEPT !.pc = "reading",
                                  !.left = IF rec.phase = "provision" THEN 0 ELSE @ - 1,
                                  !.late = IF stopped /\ @ < 2 THEN @ + 1 ELSE @])
        /\ UNCHANGED <<state, gen, running, slots, stopped, ops, joining, ticket, starts>>

\* provision_one or run notices that this pass is not the current one.
LeaveProvision(w) ==
    /\ workers[w].pc = "item"
    /\ workers[w].phase = "provision"
    /\ Superseded(workers[w])
    /\ Becomes(w, Finish(workers[w]))
    /\ UNCHANGED <<state, gen, running, slots, stopped, ops, joining, ticket, starts>>

WrongChecksNothing(rec) == FALSE
\* refresh_all and refresh_paths look at the flag after every read.
ChecksEachItem(rec) == rec.phase \in {"roots", "paths"}

\* The read answers or times out, and its result is applied.  Provisioning may
\* go on for ever: it ends when the node is funded, or refused for good.
EndRead(w) ==
    LET rec  == workers[w]
        last == rec.left = 0 \/ (ChecksEachItem(rec) /\ stopped)
    IN  /\ rec.pc = "reading"
        /\ \/ /\ rec.phase = "provision" \/ ~last
              /\ Becomes(w, [rec EXCEPT !.pc = "item"])
           \/ /\ rec.phase = "provision" \/ last
              /\ \E next \in Following(rec) : Becomes(w, next)
        /\ UNCHANGED <<state, gen, running, slots, stopped, ops, joining, ticket, starts>>

WrongDecrement(rec) == TRUE
\* Only a worker of the current generation is in the count.
Counted(rec) == rec.gen = gen

\* The epilogue of spawn_into: the SUP section, then the done flag, then the
\* thread's own teardown.
Count(w) ==
    /\ SupFree
    /\ workers[w].pc = "returned"
    /\ running' = IF Counted(workers[w]) /\ running > 0 THEN running - 1 ELSE running
    /\ Becomes(w, [workers[w] EXCEPT !.pc = "counted"])
    /\ UNCHANGED <<state, gen, slots, stopped, ops, joining, ticket, starts>>

SetDone(w) ==
    /\ workers[w].pc = "counted"
    /\ Becomes(w, [workers[w] EXCEPT !.pc = "exiting", !.done = TRUE])
    /\ UNCHANGED <<state, gen, running, slots, stopped, ops, joining, ticket, starts>>

Exit(w) ==
    /\ workers[w].pc = "exiting"
    /\ Becomes(w, NoThread)
    /\ UNCHANGED <<state, gen, running, slots, stopped, ops, joining, ticket, starts>>

-----------------------------------------------------------------------------
Init ==
    /\ state = "NeverStarted"
    /\ gen = 0
    /\ running = 0
    /\ slots = [k \in Kinds |-> None]
    /\ stopped = FALSE
    /\ workers = [w \in Ids |-> NoThread]
    /\ ops = [h \in Hosts |-> "idle"]
    /\ joining = {}
    /\ ticket = 0
    /\ starts = 0

WorkerStep(w) ==
    \/ Tick(w)
    \/ Quit(w)
    \/ Gate(w)
    \/ EnterProvision(w)
    \/ BeginRead(w)
    \/ LeaveProvision(w)
    \/ EndRead(w)
    \/ Count(w)
    \/ SetDone(w)
    \/ Exit(w)

\* What a start() or stop() that has begun does next.
HostStep(h) ==
    \/ StartEnsure(h, "poller", "start_poller", "start_refresher")
    \/ StartEnsure(h, "refresher", "start_refresher", "start_warm")
    \/ StartTakeWarm(h)
    \/ StartSpawnWarm(h)
    \/ StopCollect(h)
    \/ StopClose(h)

Next ==
    \/ \E w \in Ids : WorkerStep(w)
    \/ \E h \in Hosts : HostStep(h) \/ StartBegin(h) \/ StopBegin(h)
    \/ \E kind \in Loops : EnsureLoop(kind)

\* Threads run, reads end (every provider call has a timeout), mutexes are
\* granted.  Nobody has to call start() or stop().
Fairness ==
    /\ \A w \in Ids : WF_vars(WorkerStep(w))
    /\ \A h \in Hosts : WF_vars(HostStep(h))

Spec == Init /\ [][Next]_vars /\ Fairness

-----------------------------------------------------------------------------
(* Properties. *)

\* The supervisor's fields are well typed, and the STOPPED flag that workers read
\* without the mutex always agrees with the state it mirrors (start, stop).
TypeOK ==
    /\ state \in {"NeverStarted", "Running", "Stopped"}
    /\ gen \in 0..MaxGen
    /\ running \in Nat
    /\ slots \in [Kinds -> Ids \cup {None}]
    /\ stopped = (state = "Stopped")
    /\ workers \in [Ids -> Worker]
    /\ ops \in [Hosts -> Ops]
    /\ joining \subseteq Ids
    /\ ticket \in 0..MaxStarts
    /\ starts \in 0..MaxStarts

\* Threads of the current generation that have not left the count.
Current == {w \in Ids : workers[w].gen = gen
                        /\ workers[w].pc \notin {"counted", "exiting", "exited"}}

\* `running` counts exactly the live workers of the current run, however many
\* detached stragglers of earlier runs exit meanwhile (the generation check in
\* the epilogue, the bump in stop()): neither a leak nor a double count.
RunningExact == running = Cardinality(Current)

\* A loop is never duplicated: at most one poller and one refresher of the
\* current run exist, and the supervisor holds its handle until it stops it.
NoDuplicateLoop ==
    \A w \in Current : workers[w].kind \in Loops =>
        \/ slots[workers[w].kind] = w
        \/ state = "Stopped"

\* After start() has returned, until the next stop(), both loops run under the
\* current generation (LIFECYCLE: a stop() in between must not strand them).
LoopsRun ==
    (state = "Running" /\ \A h \in Hosts : ops[h] = "idle") =>
        \A k \in Loops : slots[k] # None /\ slots[k] \in Current

\* After stop() has returned nothing of the current run is alive and nothing
\* brings maintenance back (ensure's Stopped check).
QuietAfterStop ==
    (state = "Stopped" /\ \A h \in Hosts : ops[h] = "idle") =>
        Current = {} /\ running = 0 /\ \A k \in Kinds : slots[k] = None

\* Once stopped, the refresher begins at most one more read (the flag check
\* after each registry in refresh_all).
RefresherStopsReading ==
    \A w \in Ids : workers[w].kind = "refresher" => workers[w].late <= 1

\* start() and stop() return: no join of theirs waits for ever and the grace of
\* stop() is bounded.
CallsReturn == \A h \in Hosts : ops[h] # "idle" ~> ops[h] = "idle"

\* A poller or refresher of a superseded run exits, whatever it was reading
\* when it was detached (wait's generation check).
StragglersExit ==
    \A w \in Ids : (workers[w].kind \in Loops /\ workers[w].gen # gen) ~> workers[w].pc = "exited"
====
