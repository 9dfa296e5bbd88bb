---- MODULE Provisioning ----
(***************************************************************************)
(* Provisioning a membership at start() (ensure.rs): a pass waits for the     *)
(* registry module's wallet, looks at the registry, prices the registration,  *)
(* waits for the payer to be funded, and registers.  It runs beside the       *)
(* network selection and the wallet's bring-up of NetworkBinding, and is      *)
(* composed with them here.                                                  *)
(*                                                                           *)
(* One registry is provisioned per start, and another chain may hold an       *)
(* account of the same id.  What register_scoped does is in                   *)
(* MembershipLifecycle, and passes that a later start() supersedes are in     *)
(* WorkerSupervisor.                                                         *)
(***************************************************************************)
EXTENDS NetworkBinding

CONSTANTS
    Quarantined,  \* networks on whose registry a quarantined record is kept
    MaxFunds,     \* bound: what the payer is ever sent
    MaxQuote      \* bound: the fee reserve

ASSUME FundsAssumption == MaxFunds \in Nat /\ MaxQuote \in Nat \ {0}

VARIABLES
    pass,     \* the provisioning pass of this start
    members,  \* networks on whose registry a live record is kept
    balance,  \* the payer's native balance
    quote     \* price and fee reserve by the chain's present quote

passVars == <<pass, members, balance, quote>>
vars == <<bindingVars, passVars>>

Steps == {"scan", "wallet", "check", "price", "fund", "register", "done", "refused", "locked"}
Ended == {"done", "refused", "locked"}
Reasons == {"quarantine", "wallet", "registry", "network", "outage", "register"}

TypeOK ==
    /\ BindingTypeOK
    /\ pass \in [net : Networks, step : Steps, required : 0 .. MaxQuote,
                 reason : Reasons \cup {None}] \cup {None}
    /\ members \subseteq Networks
    /\ balance \in 0 .. MaxFunds /\ quote \in 1 .. MaxQuote

Init ==
    /\ BindingInit
    /\ pass = None /\ members = {} /\ balance = 0 /\ quote = MaxQuote

-----------------------------------------------------------------------------
(* The pass. *)

On(step) == pass # None /\ pass.step = step
GoOn(step) == pass' = [pass EXCEPT !.step = step]
Refuse(reason) == pass' = [pass EXCEPT !.step = "refused", !.reason = reason]

\* start() with provisioning: ensure::run.
Begin(n) ==
    /\ pass = None
    /\ pass' = [net |-> n, step |-> "scan", required |-> 0, reason |-> None]
    /\ UNCHANGED <<bindingVars, members, balance, quote>>

\* Any live record is enough, and a quarantined one is not an absent one.
Scan ==
    /\ On("scan")
    /\ CASE pass.net \in members -> GoOn("done")
         [] pass.net \notin members /\ pass.net \in Quarantined -> Refuse("quarantine")
         [] OTHER -> GoOn("wallet")
    /\ UNCHANGED <<bindingVars, members, balance, quote>>

\* What wallet_status tells of the bring-up.
WalletStatus == IF ready \in {"pending", "ready"} THEN ready ELSE "failed"

\* No deadline: a wallet that is pending, or does not answer, is waited for.
WalletWait ==
    /\ On("wallet")
    /\ WalletStatus # "pending"
    /\ IF WalletStatus = "ready" THEN GoOn("check") ELSE Refuse("wallet")
    /\ UNCHANGED <<bindingVars, members, balance, quote>>

\* ensure_network, before every read of the registry.
EnsureNetwork ==
    gate' = IF gate[pass.net] = None
              THEN [gate EXCEPT ![pass.net] = Interpret(Answer(pass.net))] ELSE gate

\* check_registry: only a chain that answers can say that a registry is not there.
RegistryProblem == up /\ config.seq # pass.net

\* registry_problem: no answer, and a network that is refused, are no problem of
\* the registry; and another chain may hold an account of the same id.
CheckRegistry ==
    /\ On("check")
    /\ \/ GoOn("price") /\ (UNCHANGED gate \/ EnsureNetwork)
       \/ EnsureNetwork /\ gate'[pass.net] = "accepted" /\ RegistryProblem /\ Refuse("registry")
    /\ UNCHANGED <<disk, sel, wallet, asks, bound, members, balance, quote>>

\* get_registry_bounds, where ensure_network has its say first.
PriceNetwork ==
    /\ On("price")
    /\ gate[pass.net] # "accepted"
    /\ \/ EnsureNetwork /\ IF gate'[pass.net] = "accepted" THEN UNCHANGED pass ELSE Refuse("network")
       \/ UNCHANGED gate /\ Refuse("outage")
    /\ UNCHANGED <<disk, sel, wallet, asks, bound, members, balance, quote>>

\* FALLBACK_FEE_RESERVE: no quote can be had.
Fallback == MaxQuote

\* The bounds are read from the chain, and a read that fails ends the pass; the
\* reserve has its fallback.
Price ==
    /\ On("price")
    /\ gate[pass.net] = "accepted"
    /\ \/ up /\ \E r \in {quote, Fallback} : pass' = [pass EXCEPT !.step = "fund", !.required = r]
       \/ Refuse("outage")
    /\ UNCHANGED <<bindingVars, members, balance, quote>>

WrongRequired == pass.required
\* The reserve is quoted again with every read of the balance.
Required == quote

\* What the payer is seen to hold.
Covers(r) == balance >= r

\* One read of the balance; one that fails says nothing of it.
Fund ==
    /\ On("fund") /\ up
    /\ \E r \in {Required, Fallback} :
         pass' = [pass EXCEPT !.required = r, !.step = IF Covers(r) THEN "register" ELSE "fund"]
    /\ UNCHANGED <<bindingVars, members, balance, quote>>

\* register_scoped: recorded and submitted, refused, or the keystore is locked.
Register ==
    /\ On("register")
    /\ \/ GoOn("done") /\ members' = members \cup {pass.net}
       \/ Refuse("register") /\ UNCHANGED members
       \/ GoOn("locked") /\ UNCHANGED members
    /\ UNCHANGED <<bindingVars, balance, quote>>

-----------------------------------------------------------------------------
(* Money, and the fee market, which move while somebody looks at them. *)

\* Somebody funds the payer that wallet_status names.
Transfer ==
    /\ On("fund") /\ balance < MaxFunds
    /\ balance' = balance + 1
    /\ UNCHANGED <<bindingVars, pass, members, quote>>

\* A quote that rises again is left out: a pass would only wait for it to fall.
QuoteFalls ==
    /\ On("fund") /\ quote > 1
    /\ quote' = quote - 1
    /\ UNCHANGED <<bindingVars, pass, members, balance>>

RestartAll == Restart /\ pass' = None /\ UNCHANGED <<members, balance, quote>>

PassStep == Scan \/ WalletWait \/ CheckRegistry \/ PriceNetwork \/ Price \/ Fund \/ Register

Next ==
    \/ BindingNext /\ UNCHANGED passVars
    \/ \E n \in Networks : Begin(n)
    \/ PassStep
    \/ Transfer \/ QuoteFalls
    \/ RestartAll

\* Threads run; the refresher keeps asking for the networks it tracks, and calls
\* get through in the end; an outage ends; the payer is funded and the fee
\* market calms down in the end.
Fairness ==
    /\ WF_vars(ContextReady /\ UNCHANGED passVars)
    /\ WF_vars((WriteMarker \/ WriteConfig) /\ UNCHANGED passVars)
    /\ WF_vars(BringUpStep /\ UNCHANGED passVars)
    /\ \A a \in Askers :
         /\ WF_vars((\E n \in Networks : Ask(a, n)) /\ UNCHANGED passVars)
         /\ SF_vars(UseNetwork(a) /\ UNCHANGED passVars)
         /\ SF_vars(Remember(a) /\ UNCHANGED passVars)
    /\ WF_vars(ComeBack /\ UNCHANGED passVars)
    /\ WF_vars(PassStep) /\ WF_vars(Transfer) /\ WF_vars(QuoteFalls)

Spec == Init /\ [][Next]_vars /\ Fairness

-----------------------------------------------------------------------------
(* Properties. *)

\* Every pass comes to an end once the payer holds what a registration costs
\* now, even if it cost more when the pass began (provision_one's two waits
\* have no deadline, and the reserve is quoted anew).
PassEnds == (pass # None /\ pass.step \notin Ended) ~> (pass = None \/ pass.step \in Ended)

\* A pass that goes ahead in a home the module configured from its table does so
\* on the chain its registry is on, however the writing of the home was cut short
\* and whoever bound it: nothing is paid on another network (provision_home,
\* answer_bound, ensure_network, provision_one).
PaysOnItsChain ==
    \A n \in Networks :
        pass # None /\ pass.net = n /\ pass.step \in {"fund", "register"}
            /\ config.by = "table"
            => config.seq = n
====
