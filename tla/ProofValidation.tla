---- MODULE ProofValidation ----
(***************************************************************************)
(* validate_proof (lib.rs) with the two caches it answers from: the window   *)
(* of acceptable roots of each registry (roots.rs) and the log of the        *)
(* nullifiers already accepted (nullifier_log.rs).                          *)
(*                                                                          *)
(* A call reads clock and configuration, later the root window, later still  *)
(* verifies and records; other calls, root reads and rotations come between. *)
(* A root read fixes its answer when the registry is read, and installs it   *)
(* at most ReadLimit later.  The clock does not step back, and nothing of    *)
(* this survives the process: both are limits the code documents, so a run   *)
(* of the process is modelled from its start.                               *)
(*                                                                          *)
(* Definitions named Wrong... are seeded faults, as in SlotAllocation.       *)
(***************************************************************************)
EXTENDS Integers, FiniteSets

CONSTANTS
    Registries,
    Nullifiers,    \* one per (identity, rln_identifier, message_id) of an epoch
    Home,          \* the registry whose roots a nullifier's proofs are made for
    Cheats,        \* nullifiers under which more than one message was signed
    Shares,        \* share_x values, one per message
    Honest,        \* the share_x of the one message of any other nullifier
    Validators,    \* concurrent validate_proof calls
    Refreshers,    \* concurrent passes over the tracked registries
    Provers,       \* concurrent Merkle path reads, whose roots are adopted
    Configs,       \* what start() may configure: (size, gap) of each registry
    StaleAfter,    \* STALE_AFTER_SECS
    NudgeMin,      \* NUDGE_MIN_INTERVAL_SECS
    ReadLimit,     \* the longest a provider read takes
    History,       \* how many roots the registry reports
    MaxHead,       \* bound on root rotations
    MaxTime,       \* bound on the clock
    MaxCalls,      \* bound on validate_proof calls
    None

ASSUME ValidationConstants ==
    /\ Home \in [Nullifiers -> Registries] /\ Cheats \subseteq Nullifiers /\ Honest \in Shares
    /\ Configs \subseteq [Registries -> [size : Nat \ {0}, gap : Nat \ {0}]]
ASSUME ValidationBounds ==
    /\ {StaleAfter, NudgeMin, ReadLimit, MaxHead, MaxTime, MaxCalls} \subseteq Nat
    /\ History \in Nat \ {0} /\ NudgeMin <= MaxTime
ASSUME ReadersAssumption == Refreshers \cap Provers = {}

Times   == 0..MaxTime
Epochs  == 0..MaxTime
Roots   == 0..MaxHead
Readers == Refreshers \cup Provers
Proof   == [null : Nullifiers, epoch : Epochs, share : Shares, root : Roots]

VARIABLES
    clock,    \* now_unix
    config,   \* CONFIG, None before start()
    log,      \* LOG: for each epoch and nullifier the share first accepted, or None
    windows,  \* WINDOWS
    tracked,  \* TRACKED
    last,     \* LAST_NUDGE_UNIX
    calls,    \* each validate_proof in flight
    reads,    \* each root read in flight
    head,     \* each registry's newest root
    dropped,  \* history: when a root left its registry's list, or None
    valid,    \* history: how often (nullifier, epoch) was answered "valid"
    accused,  \* history: nullifiers answered "rate_limit_violation"
    begun     \* history: how many calls there were

vars == <<clock, config, log, windows, tracked, last, calls, reads, head, dropped, valid, accused,
          begun>>

Window == [roots : SUBSET Roots, at : Times]
Call   == [pc : {"window", "verify", "nudge"}, proof : Proof, floor : Epochs,
           now : Times, seen : Times]
Read   == [reg : Registries, roots : SUBSET Roots, since : Times]

ASSUME NoneAssumption ==
    /\ None \notin Shares /\ None \notin Times /\ None \notin Configs
    /\ None \notin Window /\ None \notin Call /\ None \notin Read

-----------------------------------------------------------------------------
(* Root windows. *)

\* What a registry reports: its last History roots.
ValidRoots(r) == {x \in Roots : head[r] - History < x /\ x <= head[r]}

Rotate(r) ==
    /\ head[r] < MaxHead
    /\ head' = [head EXCEPT ![r] = @ + 1]
    /\ dropped' = [dropped EXCEPT ![r] = [x \in Roots |->
                     IF x = head[r] + 1 - History THEN clock ELSE dropped[r][x]]]
    /\ UNCHANGED <<clock, config, log, windows, tracked, last, calls, reads, valid, accused, begun>>

\* A refresher reads a registry it tracks, a prover the one it proves for.  An
\* answer with no decodable root is an empty one.
BeginRead(q, r) ==
    /\ reads[q] = None
    /\ q \in Refreshers => r \in tracked
    /\ \E roots \in {ValidRoots(r), {}} :
         reads' = [reads EXCEPT ![q] = [reg |-> r, roots |-> roots, since |-> clock]]
    /\ UNCHANGED <<clock, config, log, windows, tracked, last, calls, head, dropped, valid, accused, begun>>

\* adopt ignores an empty answer, refresh_one installs it.
Ignored(q) == q \in Provers /\ reads[q].roots = {}

\* The answer is installed and stamped with the time of its installation.
EndRead(q) ==
    /\ reads[q] # None
    /\ windows' = IF Ignored(q) THEN windows
                  ELSE [windows EXCEPT ![reads[q].reg] = [roots |-> reads[q].roots, at |-> clock]]
    /\ reads' = [reads EXCEPT ![q] = None]
    /\ UNCHANGED <<clock, config, log, tracked, last, calls, head, dropped, valid, accused, begun>>

ReadFails(q) ==
    /\ reads[q] # None
    /\ reads' = [reads EXCEPT ![q] = None]
    /\ UNCHANGED <<clock, config, log, windows, tracked, last, calls, head, dropped, valid, accused, begun>>

WrongServesStale(r) == windows[r] # None
\* window(): the cold view is none.
Warm(r) == windows[r] # None /\ clock - windows[r].at <= StaleAfter

-----------------------------------------------------------------------------
(* The nullifier log. *)

NoProofs == [n \in Nullifiers |-> None]

WrongPruned(floor) == [e \in Epochs |-> IF e <= floor THEN NoProofs ELSE log[e]]
\* Buckets strictly below the retention floor go.
Pruned(floor) == [e \in Epochs |-> IF e < floor THEN NoProofs ELSE log[e]]

Outcome(bucket, p) ==
    CASE bucket[p.null] = None -> "fresh"
      [] bucket[p.null] = p.share -> "duplicate"
      [] bucket[p.null] \notin {None, p.share} -> "collision"

\* record_verified, one step under the log's lock.
RecordVerified(p, floor) ==
    LET kept    == Pruned(floor)
        outcome == Outcome(kept[p.epoch], p)
    IN  /\ log' = IF outcome = "fresh" THEN [kept EXCEPT ![p.epoch][p.null] = p.share] ELSE kept
        /\ valid' = IF outcome = "fresh" THEN [valid EXCEPT ![<<p.null, p.epoch>>] = @ + 1] ELSE valid
        /\ accused' = IF outcome = "collision" THEN accused \cup {p.null} ELSE accused

-----------------------------------------------------------------------------
(* validate_proof. *)

CurrentEpoch(t, size) == t \div size
NowEpoch(r) == CurrentEpoch(clock, config[r].size)
EpochInWindow(e, now, gap) == now - gap <= e /\ e <= now + gap
InWindow(p) == EpochInWindow(p.epoch, NowEpoch(Home[p.null]), config[Home[p.null]].gap)

\* Saturating, and of the clock: a caller's timestamp does not move it.
RetainFloor(r) == IF NowEpoch(r) >= config[r].gap THEN NowEpoch(r) - config[r].gap ELSE 0

\* The gate and the epoch binding; a proof bound to an epoch other than its
\* message's, or outside the window, is answered "invalid" and changes nothing.
Begin(v, p) ==
    /\ calls[v] = None
    /\ config # None
    /\ InWindow(p)
    /\ begun < MaxCalls
    /\ begun' = begun + 1
    /\ calls' = [calls EXCEPT ![v] = [pc |-> "window", proof |-> p, floor |-> RetainFloor(Home[p.null]),
                                      now |-> 0, seen |-> 0]]
    /\ UNCHANGED <<clock, config, log, windows, tracked, last, reads, head, dropped, valid, accused>>

\* Too soon after the last nudge for another.
TooSoon == clock - last < NudgeMin

\* The registry is tracked from now on.  A cold window is NOT_READY; a window
\* without the proof's root is "invalid", and asks for a nudge.
CheckRoots(v) ==
    LET p == calls[v].proof
        r == Home[p.null]
    IN  /\ calls[v] # None
        /\ calls[v].pc = "window"
        /\ tracked' = tracked \cup {r}
        /\ calls' = [calls EXCEPT ![v] =
             CASE ~Warm(r) -> None
               [] Warm(r) /\ p.root \in windows[r].roots -> [calls[v] EXCEPT !.pc = "verify"]
               [] Warm(r) /\ p.root \notin windows[r].roots ->
                    IF TooSoon THEN None
                    ELSE [calls[v] EXCEPT !.pc = "nudge", !.now = clock, !.seen = last]]
        /\ UNCHANGED <<clock, config, log, windows, last, reads, head, dropped, valid, accused, begun>>

\* compare_exchange(last, now)
Swaps(call) == last = call.seen

Nudge(v) ==
    /\ calls[v] # None
    /\ calls[v].pc = "nudge"
    /\ last' = IF Swaps(calls[v]) THEN calls[v].now ELSE last
    /\ calls' = [calls EXCEPT ![v] = None]
    /\ UNCHANGED <<clock, config, log, windows, tracked, reads, head, dropped, valid, accused, begun>>

\* Proofs that verify exist of messages that were signed only.
MayVerify(p) == p.null \in Cheats \/ p.share = Honest

WrongRecordsFirst(v) ==
    /\ calls[v] # None
    /\ calls[v].pc = "verify"
    /\ RecordVerified(calls[v].proof, calls[v].floor)
    /\ calls' = [calls EXCEPT ![v] = None]
    /\ UNCHANGED <<clock, config, windows, tracked, last, reads, head, dropped, begun>>

\* Verification and the log.  A proof that does not verify, as any may that was
\* forged or damaged, touches nothing.
Judge(v) ==
    /\ calls[v] # None
    /\ calls[v].pc = "verify"
    /\ \/ UNCHANGED <<log, valid, accused>>
       \/ /\ MayVerify(calls[v].proof)
          /\ RecordVerified(calls[v].proof, calls[v].floor)
    /\ calls' = [calls EXCEPT ![v] = None]
    /\ UNCHANGED <<clock, config, windows, tracked, last, reads, head, dropped, begun>>

-----------------------------------------------------------------------------
\* start(): the configuration, and the registries it names.
Start(cfg, regs) ==
    /\ config' = cfg
    /\ tracked' = tracked \cup regs
    /\ UNCHANGED <<clock, log, windows, last, calls, reads, head, dropped, valid, accused, begun>>

\* No read outlives its timeout.
Tick ==
    /\ clock < MaxTime
    /\ \A q \in Readers : reads[q] # None => clock - reads[q].since < ReadLimit
    /\ clock' = clock + 1
    /\ UNCHANGED <<config, log, windows, tracked, last, calls, reads, head, dropped, valid, accused, begun>>

\* The clock is past the first nudge's interval when the process starts.
Init ==
    /\ clock = NudgeMin
    /\ config = None
    /\ log = [e \in Epochs |-> NoProofs]
    /\ windows = [r \in Registries |-> None]
    /\ tracked = {}
    /\ last = 0
    /\ calls = [v \in Validators |-> None]
    /\ reads = [q \in Readers |-> None]
    /\ head = [r \in Registries |-> 0]
    /\ dropped = [r \in Registries |-> [x \in Roots |-> None]]
    /\ valid = [k \in Nullifiers \X Epochs |-> 0]
    /\ accused = {}
    /\ begun = 0

Next ==
    \/ \E r \in Registries :
         \/ Rotate(r)
         \/ \E q \in Readers : BeginRead(q, r)
    \/ \E q \in Readers : EndRead(q) \/ ReadFails(q)
    \/ \E v \in Validators :
         \/ \E p \in Proof : Begin(v, p)
         \/ CheckRoots(v)
         \/ Nudge(v)
         \/ Judge(v)
    \/ \E cfg \in Configs, regs \in SUBSET Registries : Start(cfg, regs)
    \/ Tick

Spec == Init /\ [][Next]_vars

-----------------------------------------------------------------------------
(* Properties. *)

\* The state is well typed: retention floors and epochs never leave the unsigned
\* range validate_proof computes them in.
TypeOK ==
    /\ clock \in Times /\ last \in Times
    /\ config \in Configs \cup {None}
    /\ log \in [Epochs -> [Nullifiers -> Shares \cup {None}]]
    /\ windows \in [Registries -> Window \cup {None}]
    /\ tracked \subseteq Registries
    /\ calls \in [Validators -> Call \cup {None}]
    /\ reads \in [Readers -> Read \cup {None}]
    /\ head \in [Registries -> Roots]
    /\ dropped \in [Registries -> [Roots -> Times \cup {None}]]
    /\ valid \in [Nullifiers \X Epochs -> Nat]
    /\ accused \subseteq Nullifiers
    /\ begun \in 0..MaxCalls

\* Pruning loses nothing (record_verified): of the proofs of a nullifier only
\* the first is answered "valid", as long as their epoch is still in the window
\* when the answer is made, however the calls interleave.
ExactWhileFresh ==
    [][\A n \in Nullifiers, e \in Epochs :
         (valid'[<<n, e>>] > valid[<<n, e>>] /\
          EpochInWindow(e, NowEpoch(Home[n]), config[Home[n]].gap)) => valid[<<n, e>>] = 0]_vars

\* Nobody is accused who did not sign two messages under one nullifier: a
\* proof that was not verified never reaches the log (validate_proof_impl).
NoFalseAccusation == accused \subseteq Cheats

\* A root passes only if its registry reported it recently: it left the
\* registry's list no longer ago than a window may age and a read may take
\* (window(), refresh_one, adopt).  Windows are stamped when installed, so a
\* slow read is older than its stamp, and may replace a newer window.
RootsRecent ==
    [][\A v \in Validators :
         (calls[v] # None /\ calls[v].pc = "window" /\ calls'[v] # None /\ calls'[v].pc = "verify") =>
            LET t == dropped[Home[calls[v].proof.null]][calls[v].proof.root]
            IN  t # None => clock - t <= StaleAfter + ReadLimit]_vars
====
