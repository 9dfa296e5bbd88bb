---- MODULE NetworkBinding ----
(***************************************************************************)
(* Which chain a node talks to: the registry module's wallet home on disk,    *)
(* the selection that binds it to one network for good, the bring-up of its   *)
(* wallet and payer (registry module wallet.rs), and the gate in which the    *)
(* membership module remembers what it was told (provider.rs).                *)
(*                                                                           *)
(* Writing a home takes two files, so a crash may come between them.  A       *)
(* restart takes both modules down, loses everything but the files, and may   *)
(* bring another environment (Envs).  The sequencer may be out of reach at any time. *)
(* LEZ_RLN_PAYER is unset, and consumers ask for networks of the table.       *)
(*                                                                           *)
(* Definitions named Wrong... are seeded faults: each is a plausible error    *)
(* in the definition that follows it, and some property must notice it.       *)
(***************************************************************************)
EXTENDS Integers, FiniteSets

CONSTANTS
    Networks,      \* references of the built-in table; each names its own chain
    Foreign,       \* a reference the table does not have
    Elsewhere,     \* a chain the table does not have
    Envs,          \* environments a start may find: LEZ_RLN_SEQUENCER and
                   \* LEZ_RLN_NETWORK
    Askers,        \* concurrent provider calls: start(), refresher, provisioning
    MaxStarts,     \* bound: starts of the process
    MaxOutages,    \* bound: outages of the sequencer
    None

Refs == Networks \cup {Foreign}
Chains == Networks \cup {Elsewhere}

ASSUME NamesAssumption == Foreign \notin Networks /\ Elsewhere \notin Networks
ASSUME EnvsAssumption ==
    Envs \subseteq [seq : Chains \cup {None}, net : Refs \cup {None}]
ASSUME BoundsAssumption == MaxStarts \in Nat \ {0} /\ MaxOutages \in Nat

VARIABLES
    config,     \* wallet_config.json: the chain it names, and who wrote it
    marker,     \* network.json
    storage,    \* storage.json: the accounts the wallet can sign for
    payerFile,  \* payer.json
    sel,        \* SELECTION
    thread,     \* the bring-up thread: its next step, and the account it derived
    ready,      \* Readiness: "pending", "ready", or the cause of the failure
    payer,      \* STATE.payer_hex
    published,  \* history: the payer a wallet_status first named since payer.json
                \* could last not be read
    gate,       \* NETWORK_GATE
    asks,       \* ensure_network calls that went to the registry module
    up,         \* the sequencer can be reached
    outages, starts

disk == <<config, marker, storage, payerFile>>
wallet == <<thread, ready, payer, published>>
bound == <<up, outages, starts>>
bindingVars == <<disk, sel, wallet, gate, asks, bound>>

Accounts == 1 .. MaxStarts
Torn == 0   \* a part of an account id
Marker(net, source) == [network |-> net, source |-> source]
Markers == [network : Refs, source : {"table", "env"}]
Causes == {"network", "disk", "key", "payer", "spawn", "open"}
Stages == {"unresolved", "awaiting", "marker", "config", "bound", "failed"}
\* "late" is an operator's config that came while the module provisioned the home.
Configs == [seq : Chains, by : {"table", "env", "operator", "late"}]

\* None is none of the values it stands in for.
ASSUME NoneAssumption == None \notin Markers \cup Configs \cup {"accepted", "refused"}

\* A binding is a marker, or None for an operator's home.
BindingTypeOK ==
    /\ config \in Configs \cup {None}
    /\ marker \in Markers \cup {None}
    /\ storage \subseteq Accounts
    /\ payerFile \in Accounts \cup {Torn, None}
    /\ sel \in [at : Stages, seq : Chains \cup {None}, binding : Markers \cup {None}]
    /\ thread \in [pc : {"open", "payer", "save", "write", "sync"}, account : Accounts \cup {None}] \cup {None}
    /\ ready \in {"pending", "ready"} \cup Causes
    /\ payer \in Accounts \cup {None} /\ published \in Accounts \cup {None}
    /\ gate \in [Networks -> {"accepted", "refused", None}]
    /\ asks \in [Askers -> [ref : Networks, answer : {"accepted", "refused", "retry", None}] \cup {None}]
    /\ up \in BOOLEAN /\ outages \in 0 .. MaxOutages /\ starts \in 1 .. MaxStarts

Unresolved == [at |-> "unresolved", seq |-> None, binding |-> None]

BindingInit ==
    /\ config = None /\ marker = None /\ storage = {} /\ payerFile = None
    /\ sel = Unresolved
    /\ thread = None /\ ready = "pending" /\ payer = None /\ published = None
    /\ gate = [n \in Networks |-> None]
    /\ asks = [a \in Askers |-> None]
    /\ up = TRUE /\ outages = 0 /\ starts = 1

-----------------------------------------------------------------------------
(* Planning a home, and carrying the plan out. *)

\* A plan: adopt a config as it stands, provision one, wait for use_network, fail.
PlanTo(at, seq, binding) == [at |-> at, seq |-> seq, binding |-> binding]

\* plan_home
PlanHome(e) ==
    CASE config # None -> PlanTo("bound", config.seq, marker)
      [] config = None /\ e.seq # None ->
           PlanTo("marker", e.seq, IF e.net = None THEN None ELSE Marker(e.net, "env"))
      [] config = None /\ e.seq = None /\ e.net \in Networks ->
           PlanTo("marker", e.net, Marker(e.net, "table"))
      [] config = None /\ e.seq = None /\ e.net = Foreign -> PlanTo("failed", None, None)
      [] config = None /\ e.seq = None /\ e.net = None -> PlanTo("awaiting", None, None)

\* start_bring_up: the thread runs, or there is none, or no directory for it.
StartBringUp ==
    \/ thread' = [pc |-> "open", account |-> None] /\ UNCHANGED ready
    \/ UNCHANGED thread /\ ready' = "spawn"

\* apply_plan up to the first write, and perform.
ApplyPlan(plan) ==
    /\ sel' = plan
    /\ CASE plan.at = "bound" -> StartBringUp
         [] plan.at = "failed" -> ready' = "network" /\ UNCHANGED thread
         [] OTHER -> UNCHANGED <<thread, ready>>

\* spawn_bring_up, from on_context_ready: a plan, or no place for a home.
ContextReady ==
    /\ sel.at = "unresolved"
    /\ \/ \E e \in Envs : ApplyPlan(PlanHome(e))
       \/ ApplyPlan(PlanTo("failed", None, None))
    /\ UNCHANGED <<disk, payer, published, gate, asks, bound>>

ProvisionFails == sel' = PlanTo("failed", None, None) /\ ready' = "disk"

WrongWriteMarker ==
    /\ sel.at = "marker"
    /\ config' = [seq |-> sel.seq, by |-> IF sel.binding = None THEN "operator" ELSE sel.binding.source]
    /\ sel' = [sel EXCEPT !.at = "config"]
    /\ UNCHANGED <<marker, storage, payerFile, wallet, gate, asks, bound>>

\* provision_home's first file: the marker of the binding, or none.
WriteMarker ==
    /\ sel.at = "marker"
    /\ \/ marker' = sel.binding /\ sel' = [sel EXCEPT !.at = "config"] /\ UNCHANGED ready
       \/ ProvisionFails /\ UNCHANGED marker
    /\ UNCHANGED <<config, storage, payerFile, thread, payer, published, gate, asks, bound>>

\* provision_home's second file; the home is bound and bring-up starts.
WriteConfig ==
    /\ sel.at = "config"
    /\ \/ /\ config' = [seq |-> sel.seq,
                        by |-> IF sel.binding = None THEN "operator" ELSE sel.binding.source]
          /\ sel' = [sel EXCEPT !.at = "bound"]
          /\ StartBringUp
       \/ ProvisionFails /\ UNCHANGED <<config, thread>>
    /\ UNCHANGED <<marker, storage, payerFile, payer, published, gate, asks, bound>>

-----------------------------------------------------------------------------
(* use_network and the gate. *)

\* answer_bound
AnswerBound(binding, ref) ==
    IF binding = None \/ binding.network = ref THEN "accepted" ELSE "refused"

\* select_network where it binds nothing.
Answer(ref) ==
    CASE sel.at = "unresolved" -> "retry"
      [] sel.at = "bound" -> AnswerBound(sel.binding, ref)
      [] OTHER -> "refused"

Told(a, answer) == asks' = [asks EXCEPT ![a].answer = answer]

WrongMayProvision == sel.at = "awaiting"
\* A home still waiting, that nobody configured meanwhile.
MayProvision == sel.at = "awaiting" /\ config = None

\* ensure_network asks about a reference it has no answer for.
Ask(a, ref) ==
    /\ asks[a] = None /\ gate[ref] = None
    /\ asks' = [asks EXCEPT ![a] = [ref |-> ref, answer |-> None]]
    /\ UNCHANGED <<disk, sel, wallet, gate, bound>>

\* select_network under SELECTION, which is held while a home is provisioned:
\* the caller that provisions is answered like everyone else, once it is done.
UseNetwork(a) ==
    /\ asks[a] # None /\ asks[a].answer = None
    /\ sel.at \notin {"marker", "config"}
    /\ CASE MayProvision ->
              /\ sel' = PlanTo("marker", asks[a].ref, Marker(asks[a].ref, "table"))
              /\ UNCHANGED <<thread, ready, asks>>
         [] ~MayProvision /\ sel.at = "awaiting" ->
              \/ /\ ApplyPlan(PlanTo("bound", config.seq, marker))
                 /\ Told(a, AnswerBound(marker, asks[a].ref))
              \/ /\ ApplyPlan(PlanTo("failed", None, None))  \* read_marker fails
                 /\ Told(a, "refused")
         [] OTHER ->
              /\ Told(a, Answer(asks[a].ref))
              /\ UNCHANGED <<sel, thread, ready>>
    /\ UNCHANGED <<disk, payer, published, gate, bound>>

\* The request or its reply is lost; a selection it began goes on.
AskLost(a) ==
    /\ asks[a] # None
    /\ asks' = [asks EXCEPT ![a] = None]
    /\ UNCHANGED <<disk, sel, wallet, gate, bound>>

WrongInterpret(answer) == IF answer = "accepted" THEN "accepted" ELSE "refused"
\* interpret_use_network, and what remember keeps of it.
Interpret(answer) == IF answer = "retry" THEN None ELSE answer

Remember(a) ==
    /\ asks[a] # None /\ asks[a].answer # None
    /\ gate' = IF Interpret(asks[a].answer) = None THEN gate
               ELSE [gate EXCEPT ![asks[a].ref] = Interpret(asks[a].answer)]
    /\ asks' = [asks EXCEPT ![a] = None]
    /\ UNCHANGED <<disk, sel, wallet, bound>>

-----------------------------------------------------------------------------
(* bring_up. *)

At(pc) == thread # None /\ thread.pc = pc
Fail(cause) == ready' = cause /\ thread' = None

WrongOpenFails ==
    /\ At("open") /\ ~up
    /\ Fail("open")
    /\ UNCHANGED <<disk, sel, payer, published, gate, asks, bound>>

\* open_with_retry: an attempt fails, for want of the sequencer or for any other
\* cause, and is tried again for as long as it takes.
OpenFails ==
    /\ At("open")
    /\ ready' = "pending"
    /\ UNCHANGED <<disk, sel, thread, payer, published, gate, asks, bound>>

\* The wallet opens, or is created; then import_payer_key, which a malformed
\* LEZ_RLN_PAYER_KEY fails.
Open ==
    /\ At("open") /\ up
    /\ \/ thread' = [thread EXCEPT !.pc = "payer"] /\ UNCHANGED ready
       \/ Fail("key")
    /\ UNCHANGED <<disk, sel, payer, published, gate, asks, bound>>

\* Derivation is deterministic: the wallet's next account.
NextAccount == Cardinality(storage) + 1

WrongResolvePayer ==
    /\ At("payer")
    /\ thread' = [pc |-> "save", account |-> NextAccount]
    /\ UNCHANGED <<disk, sel, ready, payer, published, gate, asks, bound>>

Derive == \/ thread' = [pc |-> "save", account |-> NextAccount] /\ UNCHANGED ready
          \/ Fail("payer")

\* resolve_payer: the recorded account; or a new one, where nothing is recorded
\* and where what is recorded cannot be read.
ResolvePayer ==
    /\ At("payer")
    /\ \/ /\ payerFile # None
          /\ IF payerFile = Torn THEN Fail("payer")
               ELSE thread' = [pc |-> "sync", account |-> payerFile] /\ UNCHANGED ready
          /\ UNCHANGED published
       \/ /\ payerFile = None
          /\ Derive
          /\ UNCHANGED published
       \/ /\ payerFile # None
          /\ Derive
          /\ published' = None
    /\ UNCHANGED <<disk, sel, payer, gate, asks, bound>>

\* A failed save is only logged: the account is gone with this wallet handle.
Save ==
    /\ At("save")
    /\ \/ storage' = storage \cup {thread.account}
       \/ UNCHANGED storage
    /\ thread' = [thread EXCEPT !.pc = "write"]
    /\ UNCHANGED <<config, marker, payerFile, sel, ready, payer, published, gate, asks, bound>>

\* Written in place: a failure leaves no file, or a part of one.
WritePayer ==
    /\ At("write")
    /\ \/ payerFile' = thread.account /\ thread' = [thread EXCEPT !.pc = "sync"] /\ UNCHANGED ready
       \/ Fail("payer") /\ payerFile' \in {payerFile, Torn}
    /\ UNCHANGED <<config, marker, storage, sel, payer, published, gate, asks, bound>>

\* A sync that fails is no obstacle.
Ready ==
    /\ At("sync")
    /\ ready' = "ready" /\ payer' = thread.account /\ thread' = None
    /\ published' = IF published = None THEN thread.account ELSE published
    /\ UNCHANGED <<disk, sel, gate, asks, bound>>

-----------------------------------------------------------------------------
(* The operator, the sequencer, and crashes. *)

\* An operator, or a tool, puts a config into a home that has none: nothing keeps
\* it from doing so while the module is about to write its own.
Stage(seq) ==
    /\ config = None
    /\ config' = [seq |-> seq, by |-> IF sel.at \in {"marker", "config"} THEN "late" ELSE "operator"]
    /\ UNCHANGED <<marker, storage, payerFile, sel, wallet, gate, asks, bound>>

GoDown ==
    /\ up /\ outages < MaxOutages
    /\ up' = FALSE /\ outages' = outages + 1
    /\ UNCHANGED <<disk, sel, wallet, gate, asks, starts>>

ComeBack ==
    /\ ~up
    /\ up' = TRUE
    /\ UNCHANGED <<disk, sel, wallet, gate, asks, outages, starts>>

\* Both modules go down and come back.  payer.json is written in place: a crash
\* may leave a part of it.
Restart ==
    /\ starts < MaxStarts
    /\ starts' = starts + 1
    /\ sel' = Unresolved
    /\ thread' = None /\ ready' = "pending" /\ payer' = None
    /\ payerFile' \in {payerFile} \cup (IF At("write") THEN {Torn} ELSE {})
    /\ gate' = [n \in Networks |-> None]
    /\ asks' = [a \in Askers |-> None]
    /\ UNCHANGED <<config, marker, storage, published, up, outages>>

BringUpStep == OpenFails \/ Open \/ ResolvePayer \/ Save \/ WritePayer \/ Ready

BindingNext ==
    \/ ContextReady \/ WriteMarker \/ WriteConfig
    \/ \E a \in Askers : (\E n \in Networks : Ask(a, n)) \/ UseNetwork(a) \/ AskLost(a) \/ Remember(a)
    \/ BringUpStep
    \/ \E c \in Chains : Stage(c)
    \/ GoDown \/ ComeBack

-----------------------------------------------------------------------------
(* Properties. *)

\* A home that is configured is never pointed anywhere else, whatever networks
\* are asked for, by whom and across how many starts: it may hold registered
\* memberships.  The one config that is replaced came after provision_home's
\* caller had looked for one, and is replaced by the write that was under way
\* (plan_home, select_network).
HomeNeverRepointed ==
    [][config # None /\ config' # config => config.by = "late" /\ sel.at = "config"]_bindingVars

\* What the gate remembers for the life of the process is what the registry
\* module would still answer (NETWORK_GATE).
GateIsCurrent ==
    \A n \in Networks : gate[n] # None => gate[n] = Answer(n)

\* Once a payer was named to be funded, every later start that comes up names
\* the same one, wherever the first was cut short, as long as payer.json can be
\* read: nobody funds an account the node has moved on from (resolve_payer).
PayerStays == ready = "ready" => payer = published

\* An outage of the sequencer only delays a wallet whose home is bound: the
\* wallet comes up unless its payer, its key or its thread is the trouble, or
\* the process ends (open_with_retry).
OutageHeals ==
    sel.at = "bound" ~>
        (ready = "ready" \/ ready \in {"key", "payer", "spawn"} \/ sel.at = "unresolved")
====
