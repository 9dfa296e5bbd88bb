---- MODULE ProvisioningProofs ----
(***************************************************************************)
(* Theorems about NetworkBinding and its composition with Provisioning, for *)
(* every table of networks, every set of environments and callers, and any  *)
(* number of starts and outages.                                            *)
(***************************************************************************)
EXTENDS Provisioning, FiniteSetTheorems, TLAPS

(* Types, and how many accounts a wallet derives. *)

\* A start derives at most one account: the thread that does is spawned when the
\* home becomes bound, and nothing unbinds it before the next start
\* (start_bring_up, resolve_payer).
OneAccountPerStart ==
    /\ Cardinality(storage) <= starts
    /\ thread # None => sel.at = "bound"
    /\ sel.at # "bound" \/ At("open") \/ At("payer") \/ At("save") => Cardinality(storage) < starts
    /\ At("save") \/ At("write") \/ At("sync") => thread.account \in Accounts

\* A home is provisioned for a chain.
ProvisionsAChain == sel.at \in {"marker", "config"} => sel.seq \in Chains

TypeInv == TypeOK /\ OneAccountPerStart /\ ProvisionsAChain

\* The home is bound to what its files say, and what the table chose is in both
\* files (provision_home writes the marker before the config).
HomeInv ==
    /\ sel.at \in {"marker", "config"} => config = None \/ config.by = "late"
    /\ sel.at = "bound" => config # None /\ sel.binding = marker
    /\ sel.at = "config" => marker = sel.binding
    /\ sel.at \in {"marker", "config"} /\ sel.binding # None /\ sel.binding.source = "table"
         => sel.seq = sel.binding.network
    /\ config # None /\ config.by = "table" => marker # None /\ marker.network = config.seq

\* No answer that is kept is given before the home is bound or given up.
GateInv ==
    /\ sel.at \notin {"bound", "failed"} =>
         /\ \A n \in Networks : gate[n] = None
         /\ \A a \in Askers : asks[a] # None => asks[a].answer \in {None, "retry"}
    /\ \A a \in Askers :
         asks[a] # None /\ asks[a].answer \in {"accepted", "refused"}
             => asks[a].answer = Answer(asks[a].ref)
    /\ GateIsCurrent

\* An account that was named is in payer.json, and a thread that derives one
\* found no payer.json or could not read it.
PayerInv ==
    /\ published # None => payerFile = published
    /\ At("save") \/ At("write") => published = None
    /\ At("sync") => payerFile = thread.account
    /\ ready = "ready" => sel.at = "bound" /\ thread = None
    /\ PayerStays

\* A pass that reads the registry does so in a bound home, and one that pays was
\* told that its network is the home's.
PassInv ==
    pass # None =>
        /\ pass.step \in {"check", "price", "fund", "register"} => sel.at = "bound"
        /\ pass.step \in {"fund", "register"} => gate[pass.net] = "accepted"

-----------------------------------------------------------------------------
(* Facts about the operators. *)

\* storage.json holds finitely many accounts, and one more raises their number
\* by at most one.
LEMMA StorageSize ==
  ASSUME storage \subseteq Accounts
  PROVE  /\ Cardinality(storage) \in Nat
         /\ \A x : /\ Cardinality(storage \cup {x}) \in Nat
                   /\ Cardinality(storage \cup {x}) <= Cardinality(storage) + 1
<1>1. IsFiniteSet(storage)
  <2>1. IsFiniteSet(1 .. MaxStarts)
    BY FS_Interval, BoundsAssumption
  <2> QED BY <2>1, FS_Subset DEF Accounts
<1>2. Cardinality(storage) \in Nat
  BY <1>1, FS_CardinalityType
<1>3. ASSUME NEW x
      PROVE  /\ Cardinality(storage \cup {x}) \in Nat
             /\ Cardinality(storage \cup {x}) <= Cardinality(storage) + 1
  <2>1. Cardinality(storage \cup {x}) =
            IF x \in storage THEN Cardinality(storage) ELSE Cardinality(storage) + 1
    BY <1>1, FS_AddElement, Zenon
  <2> QED BY <1>2, <2>1
<1> QED BY <1>2, <1>3

\* What plan_home plans: a config that is there is adopted with its marker, and
\* a home is provisioned only where there is none, by the table for the network
\* it is asked for.
LEMMA PlanFacts ==
  ASSUME BindingTypeOK, NEW e \in Envs
  PROVE  /\ PlanHome(e) \in [at : Stages, seq : Chains \cup {None}, binding : Markers \cup {None}]
         /\ PlanHome(e).at \in {"bound", "marker", "failed", "awaiting"}
         /\ PlanHome(e).at = "marker" => config = None /\ PlanHome(e).seq \in Chains
         /\ PlanHome(e).at = "bound" => config # None /\ PlanHome(e).binding = marker
         /\ PlanHome(e).binding # None /\ PlanHome(e).binding.source = "table" /\ config = None
              => PlanHome(e).seq = PlanHome(e).binding.network
<1>1. e \in [seq : Chains \cup {None}, net : Refs \cup {None}]
  BY EnvsAssumption
<1>2. CASE config # None
  BY <1>2 DEF PlanHome, PlanTo, BindingTypeOK, Stages, Configs
<1>3. CASE config = None /\ e.seq # None
  BY <1>1, <1>3 DEF PlanHome, PlanTo, Stages, Marker, Markers
<1>4. CASE config = None /\ e.seq = None /\ e.net \in Networks
  BY <1>1, <1>4 DEF PlanHome, PlanTo, Stages, Marker, Markers, Refs, Chains
<1>5. CASE config = None /\ e.seq = None /\ e.net \notin Networks
  <2>1. e.net = Foreign \/ e.net = None
    BY <1>1, <1>5 DEF Refs
  <2> QED BY <2>1, <1>5 DEF PlanHome, PlanTo, Stages
<1> QED BY <1>2, <1>3, <1>4, <1>5

-----------------------------------------------------------------------------
(* Type correctness. *)

LEMMA TypeInit == Init => TypeInv
<1> SUFFICES ASSUME Init PROVE TypeInv
  OBVIOUS
<1> USE DEF Init, BindingInit
<1>1. Cardinality(storage) = 0
  BY FS_EmptySet
<1>2. BindingTypeOK
  BY BoundsAssumption DEF BindingTypeOK, Unresolved, Stages, Causes
<1>3. TypeOK
  BY <1>2, FundsAssumption DEF TypeOK
<1>4. OneAccountPerStart
  BY <1>1 DEF OneAccountPerStart, At, Unresolved
<1>5. ProvisionsAChain
  BY DEF ProvisionsAChain, Unresolved
<1> QED BY <1>3, <1>4, <1>5 DEF TypeInv

\* Every step of the selection, the bring-up and the gate.
LEMMA TypeBinding == TypeInv /\ BindingNext => BindingTypeOK' /\ OneAccountPerStart'
<1> SUFFICES ASSUME TypeInv, BindingNext PROVE BindingTypeOK' /\ OneAccountPerStart'
  OBVIOUS
<1> USE DEF TypeInv, TypeOK
<1>0. /\ Cardinality(storage) \in Nat
      /\ \A x : /\ Cardinality(storage \cup {x}) \in Nat
                /\ Cardinality(storage \cup {x}) <= Cardinality(storage) + 1
      /\ starts \in 1 .. MaxStarts
  BY StorageSize DEF BindingTypeOK
<1>1. CASE ContextReady
  <2>1. PICK plan \in [at : Stages, seq : Chains \cup {None}, binding : Markers \cup {None}] : ApplyPlan(plan)
    BY <1>1, PlanFacts DEF ContextReady, PlanTo, Stages
  <2>2. sel.at = "unresolved" /\ UNCHANGED <<disk, payer, published, gate, asks, bound>>
    BY <1>1 DEF ContextReady
  <2>3. BindingTypeOK'
    BY <2>1, <2>2 DEF ApplyPlan, StartBringUp, BindingTypeOK, disk, bound, Causes
  <2>4. OneAccountPerStart'
    BY <1>0, <2>1, <2>2 DEF ApplyPlan, StartBringUp, OneAccountPerStart, At, disk, bound, BindingTypeOK
  <2> QED BY <2>3, <2>4
<1>2. CASE WriteMarker
  <2>1. BindingTypeOK'
    BY <1>2 DEF WriteMarker, ProvisionFails, PlanTo, BindingTypeOK, bound, Stages, Causes
  <2>2. OneAccountPerStart'
    BY <1>2 DEF WriteMarker, ProvisionFails, PlanTo, BindingTypeOK, OneAccountPerStart, At, bound
  <2> QED BY <2>1, <2>2
<1>3. CASE WriteConfig
  <2>1. BindingTypeOK'
    BY <1>3 DEF WriteConfig, StartBringUp, ProvisionFails, PlanTo, BindingTypeOK, bound, Stages, Causes, Configs, Markers, ProvisionsAChain
  <2>2. OneAccountPerStart'
    BY <1>3 DEF WriteConfig, StartBringUp, ProvisionFails, PlanTo, BindingTypeOK, OneAccountPerStart, At, bound
  <2> QED BY <2>1, <2>2
<1>4. ASSUME NEW a \in Askers, NEW n \in Networks, Ask(a, n)
      PROVE  BindingTypeOK' /\ OneAccountPerStart'
  BY <1>4 DEF Ask, BindingTypeOK, OneAccountPerStart, At, disk, wallet, bound
<1>5. ASSUME NEW a \in Askers, UseNetwork(a)
      PROVE  BindingTypeOK' /\ OneAccountPerStart'
  <2> USE <1>5 DEF UseNetwork
  <2>1. asks[a].ref \in Networks /\ asks[a] \in [ref : Networks, answer : {"accepted", "refused", "retry", None}]
    BY DEF BindingTypeOK
  <2>2. CASE MayProvision
    <3>1. /\ sel' = PlanTo("marker", asks[a].ref, Marker(asks[a].ref, "table"))
          /\ UNCHANGED <<disk, wallet, gate, asks, bound>>
      BY <2>2 DEF wallet
    <3> QED BY <2>1, <2>2, <3>1 DEF MayProvision, PlanTo, Marker, Markers, Refs, Chains, Stages,
               BindingTypeOK, OneAccountPerStart, At, disk, wallet, bound
  <2>3. CASE ~MayProvision /\ sel.at = "awaiting"
    <3>1. /\ \/ /\ ApplyPlan(PlanTo("bound", config.seq, marker))
                /\ Told(a, AnswerBound(marker, asks[a].ref))
             \/ /\ ApplyPlan(PlanTo("failed", None, None))
                /\ Told(a, "refused")
          /\ UNCHANGED <<disk, payer, published, gate, bound>>
      BY <2>3
    <3>2. config \in Configs
      BY <2>3 DEF MayProvision, BindingTypeOK
    <3>3. BindingTypeOK'
      BY <2>1, <3>1, <3>2 DEF ApplyPlan, PlanTo, StartBringUp, Told, AnswerBound, Configs, Stages, Causes,
         BindingTypeOK, disk, bound
    <3>4. OneAccountPerStart'
      BY <2>3, <3>1 DEF ApplyPlan, PlanTo, StartBringUp, OneAccountPerStart, At, disk, bound, BindingTypeOK
    <3> QED BY <3>3, <3>4
  <2>4. CASE ~MayProvision /\ sel.at # "awaiting"
    <3>1. /\ Told(a, Answer(asks[a].ref))
          /\ UNCHANGED <<disk, sel, wallet, gate, bound>>
      BY <2>4 DEF wallet
    <3> QED BY <2>1, <3>1 DEF Told, Answer, AnswerBound, BindingTypeOK, OneAccountPerStart, At, disk, wallet, bound
  <2> QED BY <2>2, <2>3, <2>4
<1>6. ASSUME NEW a \in Askers, AskLost(a) \/ Remember(a)
      PROVE  BindingTypeOK' /\ OneAccountPerStart'
  BY <1>6 DEF AskLost, Remember, Interpret, BindingTypeOK, OneAccountPerStart, At, disk, wallet, bound
<1>7. CASE OpenFails \/ Open
  BY <1>7 DEF OpenFails, Open, Fail, BindingTypeOK, OneAccountPerStart, At, disk, bound, Causes
<1>8. CASE ResolvePayer
  <2>1. NextAccount \in Accounts
    BY <1>0, <1>8, BoundsAssumption DEF ResolvePayer, OneAccountPerStart, NextAccount, Accounts
  <2> QED BY <1>8, <2>1 DEF ResolvePayer, Derive, Fail, BindingTypeOK, OneAccountPerStart, At, disk, bound, Causes
<1>9. CASE Save
  <2>1. /\ thread.account \in Accounts /\ thread # None /\ Cardinality(storage) < starts
        /\ sel.at = "bound"
    BY <1>9 DEF Save, OneAccountPerStart, At
  <2>2. Cardinality(storage') \in Nat /\ Cardinality(storage') <= starts
    <3>1. PICK n \in Nat : n <= Cardinality(storage) + 1 /\ Cardinality(storage') = n
      <4>1. storage' = storage \/ storage' = storage \cup {thread.account}
        BY <1>9 DEF Save
      <4>2. Cardinality(storage) <= Cardinality(storage) + 1
        BY <1>0
      <4> QED BY <1>0, <4>1, <4>2, Zenon
    <3> QED BY <1>0, <2>1, <3>1
  <2>3. BindingTypeOK'
    BY <1>9, <2>1 DEF Save, BindingTypeOK, At, bound
  <2>4. thread' = [thread EXCEPT !.pc = "write"] /\ sel' = sel /\ starts' = starts
    BY <1>9 DEF Save, bound
  <2> QED BY <2>1, <2>2, <2>3, <2>4 DEF OneAccountPerStart, BindingTypeOK, At
<1>10. CASE WritePayer
  BY <1>10 DEF WritePayer, Fail, BindingTypeOK, OneAccountPerStart, At, bound, Causes
<1>11. CASE Ready
  BY <1>11 DEF Ready, BindingTypeOK, OneAccountPerStart, At, disk, bound
<1>12. ASSUME NEW c \in Chains, Stage(c)
       PROVE  BindingTypeOK' /\ OneAccountPerStart'
  BY <1>12 DEF Stage, Configs, BindingTypeOK, OneAccountPerStart, At, wallet, bound
<1>13. CASE GoDown \/ ComeBack
  <2>1. up' \in BOOLEAN
    BY <1>13, Zenon DEF GoDown, ComeBack
  <2>2. /\ outages' \in 0 .. MaxOutages /\ starts' = starts
        /\ UNCHANGED <<disk, sel, wallet, gate, asks>>
    BY <1>13, BoundsAssumption DEF GoDown, ComeBack, BindingTypeOK
  <2> QED BY <2>1, <2>2 DEF BindingTypeOK, OneAccountPerStart, At, disk, wallet
<1> QED BY <1>1, <1>2, <1>3, <1>4, <1>5, <1>6, <1>7, <1>8, <1>9, <1>10, <1>11, <1>12, <1>13
        DEF BindingNext, BringUpStep

\* A step that does not read or write the selection leaves it alone.
LEMMA SelectionSteps ==
  BindingNext => \/ ContextReady \/ WriteMarker \/ WriteConfig
                 \/ \E a \in Askers : UseNetwork(a)
                 \/ \E c \in Chains : Stage(c)
                 \/ UNCHANGED <<sel, marker, config>>
<1> SUFFICES ASSUME BindingNext
             PROVE  \/ ContextReady \/ WriteMarker \/ WriteConfig
                    \/ \E a \in Askers : UseNetwork(a)
                    \/ \E c \in Chains : Stage(c)
                    \/ UNCHANGED <<sel, marker, config>>
  OBVIOUS
<1>1. ASSUME NEW a \in Askers, (\E n \in Networks : Ask(a, n)) \/ AskLost(a) \/ Remember(a)
      PROVE  UNCHANGED <<sel, marker, config>>
  BY <1>1 DEF Ask, AskLost, Remember, disk
<1>2. CASE BringUpStep
  BY <1>2 DEF BringUpStep, OpenFails, Open, ResolvePayer, Save, WritePayer, Ready, disk
<1>3. CASE GoDown \/ ComeBack
  BY <1>3 DEF GoDown, ComeBack, disk
<1> QED BY <1>1, <1>2, <1>3 DEF BindingNext

\* use_network binds a home that waits, and only that.
LEMMA UseNetworkSteps ==
  ASSUME NEW a \in Askers, UseNetwork(a), BindingTypeOK
  PROVE  /\ UNCHANGED <<config, marker>>
         /\ \/ /\ sel.at = "awaiting" /\ config = None
               /\ sel' = PlanTo("marker", asks[a].ref, Marker(asks[a].ref, "table"))
               /\ UNCHANGED <<gate, asks>>
            \/ /\ sel.at = "awaiting" /\ config # None
               /\ sel' = PlanTo("bound", config.seq, marker)
               /\ Told(a, AnswerBound(marker, asks[a].ref)) /\ UNCHANGED gate
            \/ /\ sel.at = "awaiting" /\ sel' = PlanTo("failed", None, None)
               /\ Told(a, "refused") /\ UNCHANGED gate
            \/ /\ sel.at \notin {"awaiting", "marker", "config"} /\ UNCHANGED sel
               /\ Told(a, Answer(asks[a].ref)) /\ UNCHANGED gate
<1>1. UNCHANGED <<config, marker, gate>>
  BY DEF UseNetwork, disk
<1>2. CASE MayProvision
  BY <1>1, <1>2 DEF UseNetwork, MayProvision
<1>3. CASE ~MayProvision /\ sel.at = "awaiting"
  BY <1>1, <1>3 DEF UseNetwork, MayProvision, ApplyPlan
<1>4. CASE ~MayProvision /\ sel.at # "awaiting"
  BY <1>1, <1>4 DEF UseNetwork
<1> QED BY <1>2, <1>3, <1>4

LEMMA ProvisionsBinding == TypeInv /\ BindingNext => ProvisionsAChain'
<1> SUFFICES ASSUME TypeInv, BindingNext PROVE ProvisionsAChain'
  OBVIOUS
<1> USE DEF TypeInv, TypeOK, ProvisionsAChain
<1>1. CASE ContextReady
  BY <1>1, PlanFacts DEF ContextReady, ApplyPlan, PlanTo
<1>2. CASE WriteMarker \/ WriteConfig
  BY <1>2 DEF WriteMarker, WriteConfig, ProvisionFails, PlanTo, BindingTypeOK
<1>3. ASSUME NEW a \in Askers, UseNetwork(a)
      PROVE  ProvisionsAChain'
  <2>1. asks[a].ref \in Networks
    BY <1>3 DEF UseNetwork, BindingTypeOK
  <2> QED BY <1>3, <2>1, UseNetworkSteps DEF PlanTo, Chains
<1>4. ASSUME NEW c \in Chains, Stage(c) PROVE ProvisionsAChain'
  BY <1>4 DEF Stage
<1> QED BY <1>1, <1>2, <1>3, <1>4, SelectionSteps

\* Every step of a pass, and of the money.
LEMMA TypePass ==
  TypeInv /\ (PassStep \/ Transfer \/ QuoteFalls \/ \E n \in Networks : Begin(n)) => TypeInv'
<1> SUFFICES ASSUME TypeInv, PassStep \/ Transfer \/ QuoteFalls \/ \E n \in Networks : Begin(n)
             PROVE  TypeInv'
  OBVIOUS
<1> USE DEF TypeInv, TypeOK
<1> DEFINE Passes == [net : Networks, step : Steps, required : 0 .. MaxQuote, reason : Reasons \cup {None}]
<1>1. CASE PassStep
  <2>1. pass \in Passes /\ pass.net \in Networks
    BY <1>1 DEF PassStep, On, Scan, WalletWait, CheckRegistry, PriceNetwork, Price, Fund, Register
  <2>2. UNCHANGED <<disk, sel, wallet, asks, bound>>
    BY <1>1 DEF PassStep, Scan, WalletWait, CheckRegistry, PriceNetwork, Price, Fund, Register, bindingVars
  <2>3. gate' = gate \/ EnsureNetwork
    BY <1>1 DEF PassStep, Scan, WalletWait, CheckRegistry, PriceNetwork, Price, Fund, Register, bindingVars
  <2>4. gate' \in [Networks -> {"accepted", "refused", None}]
    BY <2>1, <2>3 DEF EnsureNetwork, Interpret, Answer, AnswerBound, BindingTypeOK
  <2>5. BindingTypeOK' /\ OneAccountPerStart' /\ ProvisionsAChain'
    BY <2>2, <2>4 DEF BindingTypeOK, OneAccountPerStart, ProvisionsAChain, At, disk, wallet, bound
  <2>6. pass' \in Passes
    <3>1. ASSUME NEW s \in Steps, GoOn(s) PROVE pass' \in Passes
      BY <2>1, <3>1 DEF GoOn
    <3>2. ASSUME NEW r \in Reasons, Refuse(r) PROVE pass' \in Passes
      BY <2>1, <3>2 DEF Refuse, Steps
    <3>3. ASSUME NEW r \in 0 .. MaxQuote, NEW s \in Steps, pass' = [pass EXCEPT !.required = r, !.step = s]
          PROVE pass' \in Passes
      BY <2>1, <3>3
    <3>4. ASSUME NEW r \in 0 .. MaxQuote, NEW s \in Steps, pass' = [pass EXCEPT !.step = s, !.required = r]
          PROVE pass' \in Passes
      BY <2>1, <3>4
    <3>5. quote \in 0 .. MaxQuote /\ MaxQuote \in 0 .. MaxQuote
      BY FundsAssumption
    <3> HIDE DEF TypeInv, TypeOK, Passes
    <3>6. CASE Scan \/ WalletWait \/ Register
      BY <3>1, <3>2, <3>6 DEF Scan, WalletWait, Register, Steps, Reasons
    <3>7. CASE CheckRegistry \/ PriceNetwork
      BY <2>1, <3>1, <3>2, <3>7 DEF CheckRegistry, PriceNetwork, Steps, Reasons
    <3>8. CASE Price
      BY <3>2, <3>4, <3>5, <3>8 DEF Price, Fallback, Steps, Reasons
    <3>9. CASE Fund
      BY <3>3, <3>5, <3>9 DEF Fund, Fallback, Required, Steps
    <3> QED BY <1>1, <3>6, <3>7, <3>8, <3>9 DEF PassStep
  <2>7. members' \subseteq Networks /\ balance' = balance /\ quote' = quote
    BY <1>1, <2>1 DEF PassStep, Scan, WalletWait, CheckRegistry, PriceNetwork, Price, Fund, Register
  <2> QED BY <2>5, <2>6, <2>7
<1>2. CASE Transfer \/ QuoteFalls
  <2>1. UNCHANGED <<bindingVars, pass, members>>
    BY <1>2 DEF Transfer, QuoteFalls
  <2>2. balance' \in 0 .. MaxFunds /\ quote' \in 1 .. MaxQuote
    BY <1>2, FundsAssumption DEF Transfer, QuoteFalls
  <2> QED BY <2>1, <2>2 DEF BindingTypeOK, OneAccountPerStart, ProvisionsAChain, At, bindingVars, disk, wallet, bound
<1>3. ASSUME NEW n \in Networks, Begin(n)
      PROVE  TypeInv'
  <2>1. UNCHANGED <<bindingVars, members, balance, quote>>
    BY <1>3 DEF Begin
  <2>2. pass' \in Passes
    BY <1>3, FundsAssumption DEF Begin, Steps
  <2> QED BY <2>1, <2>2 DEF BindingTypeOK, OneAccountPerStart, ProvisionsAChain, At, bindingVars, disk, wallet, bound
<1> QED BY <1>1, <1>2, <1>3

LEMMA TypeRestart == TypeInv /\ RestartAll => TypeInv'
<1> SUFFICES ASSUME TypeInv, RestartAll PROVE TypeInv'
  OBVIOUS
<1> USE DEF TypeInv, TypeOK, RestartAll
<1>1. Cardinality(storage) \in Nat /\ starts \in 1 .. MaxStarts /\ starts' \in 1 .. MaxStarts
      /\ starts' = starts + 1 /\ storage' = storage
  BY StorageSize, BoundsAssumption DEF BindingTypeOK, Restart
<1>2. BindingTypeOK'
  BY <1>1 DEF BindingTypeOK, Restart, Unresolved, Stages
<1>3. OneAccountPerStart'
  BY <1>1 DEF OneAccountPerStart, Restart, At
<1>4. ProvisionsAChain'
  BY DEF ProvisionsAChain, Restart, Unresolved
<1> QED BY <1>2, <1>3, <1>4

LEMMA TypeStep == TypeInv /\ [Next]_vars => TypeInv'
<1> SUFFICES ASSUME TypeInv, [Next]_vars PROVE TypeInv'
  OBVIOUS
<1>1. CASE BindingNext /\ UNCHANGED passVars
  BY <1>1, TypeBinding, ProvisionsBinding DEF TypeInv, TypeOK, passVars
<1>2. CASE UNCHANGED vars
  BY <1>2 DEF TypeInv, TypeOK, BindingTypeOK, OneAccountPerStart, ProvisionsAChain, At,
              vars, passVars, bindingVars, disk, wallet, bound
<1> QED BY <1>1, <1>2, TypePass, TypeRestart DEF Next

\* Every state of Provisioning has the types its variables are declared with;
\* in particular no start derives an account beyond the ones there are starts
\* (resolve_payer's accounts, the gate, the pass and its bounds).
THEOREM TypeCorrect == Spec => []TypeOK
<1>1. Spec => []TypeInv
  BY TypeInit, TypeStep, PTL DEF Spec
<1>2. TypeInv => TypeOK
  BY DEF TypeInv
<1> QED BY <1>1, <1>2, PTL

-----------------------------------------------------------------------------
(* The home. *)

\* A step replaces a config only as HomeNeverRepointed says.
Repoints == config # None /\ config' # config => config.by = "late" /\ sel.at = "config"

LEMMA HomeStep == TypeInv /\ HomeInv /\ [Next]_vars => HomeInv' /\ Repoints
<1> SUFFICES ASSUME TypeInv, HomeInv, [Next]_vars
             PROVE  HomeInv' /\ Repoints
  OBVIOUS
<1> USE DEF TypeInv, TypeOK
<1>1. CASE ContextReady
  <2>1. UNCHANGED <<config, marker>> /\ sel.at = "unresolved"
    BY <1>1 DEF ContextReady, disk
  <2>2. CASE sel' = PlanTo("failed", None, None)
    <3>1. sel'.at = "failed"
      BY <2>2 DEF PlanTo
    <3> QED BY <2>1, <3>1 DEF HomeInv, Repoints
  <2>3. ASSUME NEW e \in Envs, sel' = PlanHome(e)
        PROVE  HomeInv'
    BY <2>1, <2>3, PlanFacts DEF HomeInv
  <2> QED BY <1>1, <2>1, <2>2, <2>3 DEF ContextReady, ApplyPlan, Repoints
<1>2. CASE WriteMarker
  BY <1>2 DEF WriteMarker, ProvisionFails, PlanTo, HomeInv, Repoints, BindingTypeOK
<1>3. CASE WriteConfig
  <2>1. /\ config = None \/ (config.by = "late" /\ sel.at = "config")
        /\ marker = sel.binding /\ marker' = marker
        /\ sel \in [at : Stages, seq : Chains \cup {None}, binding : Markers \cup {None}]
    BY <1>3 DEF WriteConfig, HomeInv, BindingTypeOK
  <2>2. CASE sel' = PlanTo("failed", None, None) /\ config' = config
    <3>1. sel'.at = "failed"
      BY <2>2 DEF PlanTo
    <3> QED BY <2>1, <2>2, <3>1 DEF HomeInv, Repoints
  <2>3. CASE /\ sel' = [sel EXCEPT !.at = "bound"]
             /\ config' = [seq |-> sel.seq, by |-> IF sel.binding = None THEN "operator" ELSE sel.binding.source]
    <3>1. config' # None
      BY <1>3, <2>1, <2>3, NoneAssumption DEF Configs, Markers, ProvisionsAChain, WriteConfig
    <3>2. sel'.at = "bound" /\ sel'.binding = marker
      BY <2>1, <2>3
    <3>3. config'.by = "table" => marker # None /\ marker.network = config'.seq
      BY <1>3, <2>1, <2>3 DEF HomeInv, WriteConfig
    <3> QED BY <2>1, <3>1, <3>2, <3>3 DEF HomeInv, Repoints
  <2>4. \/ sel' = PlanTo("failed", None, None) /\ config' = config
        \/ /\ sel' = [sel EXCEPT !.at = "bound"]
           /\ config' = [seq |-> sel.seq, by |-> IF sel.binding = None THEN "operator" ELSE sel.binding.source]
    BY <1>3 DEF WriteConfig, ProvisionFails
  <2>5. HomeInv'
    BY <2>2, <2>3, <2>4
  <2> QED BY <2>1, <2>5 DEF Repoints
<1>4. ASSUME NEW a \in Askers, UseNetwork(a)
      PROVE  HomeInv' /\ config' = config
  BY <1>4, UseNetworkSteps DEF HomeInv, PlanTo, Marker
<1>5. CASE UNCHANGED <<sel, marker, config>>
  BY <1>5 DEF HomeInv, Repoints
<1>8. ASSUME NEW c \in Chains, Stage(c)
      PROVE  HomeInv' /\ config = None
  BY <1>8 DEF Stage, HomeInv, BindingTypeOK
<1>6. CASE RestartAll
  BY <1>6 DEF RestartAll, Restart, Unresolved, HomeInv, Repoints
<1>7. CASE PassStep \/ Transfer \/ QuoteFalls \/ (\E n \in Networks : Begin(n)) \/ UNCHANGED vars
  BY <1>5, <1>7 DEF PassStep, Scan, WalletWait, CheckRegistry, PriceNetwork, Price, Fund, Register,
                    Transfer, QuoteFalls, Begin, vars, bindingVars, disk
<1> QED BY <1>1, <1>2, <1>3, <1>4, <1>5, <1>6, <1>7, <1>8, SelectionSteps DEF Next, Repoints

\* In every state the files of the home and the selection agree.
LEMMA HomeAlways == Spec => [](TypeInv /\ HomeInv)
<1>1. Init => TypeInv /\ HomeInv
  BY TypeInit DEF Init, BindingInit, HomeInv, Unresolved
<1> QED BY <1>1, TypeStep, HomeStep, PTL DEF Spec

\* A configured home is never pointed anywhere else, by no plan, no caller of
\* use_network and no start, but for a config that comes while the module writes
\* its own (plan_home, select_network, provision_home).
THEOREM HomeStays == Spec => HomeNeverRepointed
<1>1. TypeInv /\ HomeInv /\ [Next]_vars => [Repoints]_bindingVars
  BY HomeStep
<1> QED BY <1>1, HomeAlways, PTL DEF Spec, HomeNeverRepointed, Repoints

-----------------------------------------------------------------------------
(* The payer. *)

LEMMA PayerStep == TypeInv /\ PayerInv /\ [Next]_vars => PayerInv'
<1> SUFFICES ASSUME TypeInv, PayerInv, [Next]_vars PROVE PayerInv'
  OBVIOUS
<1> USE DEF TypeInv, TypeOK
<1>0. CASE UNCHANGED <<payerFile, wallet>> /\ (sel.at = "bound" => sel'.at = "bound")
  BY <1>0 DEF PayerInv, PayerStays, At, wallet
<1>1. CASE /\ UNCHANGED <<payerFile, payer, published>> /\ sel.at # "bound" /\ thread = None
           /\ \/ StartBringUp /\ sel'.at = "bound"
              \/ UNCHANGED thread /\ (ready' = ready \/ ready' \in Causes)
  <2>1. ready # "ready"
    BY <1>1 DEF PayerInv
  <2> QED BY <1>1, <2>1 DEF PayerInv, PayerStays, At, StartBringUp, Causes
<1>2. sel.at # "bound" => thread = None
  BY DEF OneAccountPerStart
<1>3. CASE ContextReady
  <2>1. UNCHANGED <<payerFile, payer, published>> /\ sel.at # "bound"
    BY <1>3 DEF ContextReady, disk
  <2>2. PICK plan : ApplyPlan(plan)
    BY <1>3 DEF ContextReady
  <2> QED BY <1>1, <1>2, <2>1, <2>2 DEF ApplyPlan, Causes
<1>4. CASE WriteMarker \/ WriteConfig
  <2>1. UNCHANGED <<payerFile, payer, published>> /\ sel.at # "bound"
    BY <1>4 DEF WriteMarker, WriteConfig
  <2>2. \/ StartBringUp /\ sel'.at = "bound"
        \/ UNCHANGED thread /\ (ready' = ready \/ ready' \in Causes)
    BY <1>4 DEF WriteMarker, WriteConfig, ProvisionFails, Causes, BindingTypeOK
  <2> QED BY <1>1, <1>2, <2>1, <2>2
<1>5. ASSUME NEW a \in Askers, UseNetwork(a)
      PROVE  PayerInv'
  <2>1. UNCHANGED <<payerFile, payer, published>>
    BY <1>5 DEF UseNetwork, disk
  <2>2. CASE UNCHANGED <<thread, ready>> /\ (sel.at = "bound" => sel' = sel)
    BY <1>0, <2>1, <2>2 DEF wallet
  <2>3. CASE /\ sel.at = "awaiting"
             /\ ApplyPlan(PlanTo("bound", config.seq, marker)) \/ ApplyPlan(PlanTo("failed", None, None))
    BY <1>1, <1>2, <2>1, <2>3 DEF ApplyPlan, PlanTo, Causes
  <2>4. \/ UNCHANGED <<thread, ready>> /\ (sel.at = "bound" => sel' = sel)
        \/ /\ sel.at = "awaiting"
           /\ ApplyPlan(PlanTo("bound", config.seq, marker)) \/ ApplyPlan(PlanTo("failed", None, None))
    BY <1>5 DEF UseNetwork, MayProvision
  <2> QED BY <2>2, <2>3, <2>4
<1>6. CASE OpenFails \/ Open
  BY <1>6 DEF OpenFails, Open, Fail, PayerInv, PayerStays, At, disk, BindingTypeOK
<1>7. CASE ResolvePayer
  BY <1>7 DEF ResolvePayer, Derive, Fail, Causes, PayerInv, PayerStays, At, disk, BindingTypeOK
<1>8. CASE Save
  BY <1>8 DEF Save, PayerInv, PayerStays, At, BindingTypeOK
<1>9. CASE WritePayer
  BY <1>9 DEF WritePayer, Fail, PayerInv, PayerStays, At, BindingTypeOK
<1>10. CASE Ready
  BY <1>10 DEF Ready, PayerInv, PayerStays, At, disk, OneAccountPerStart
<1>11. CASE RestartAll
  BY <1>11 DEF RestartAll, Restart, PayerInv, PayerStays, At
<1>12. ASSUME NEW a \in Askers, (\E n \in Networks : Ask(a, n)) \/ AskLost(a) \/ Remember(a)
       PROVE  PayerInv'
  BY <1>0, <1>12 DEF Ask, AskLost, Remember, disk
<1>13. CASE (\E c \in Chains : Stage(c)) \/ GoDown \/ ComeBack
  BY <1>0, <1>13 DEF Stage, GoDown, ComeBack, disk
<1>14. CASE PassStep \/ Transfer \/ QuoteFalls \/ (\E n \in Networks : Begin(n)) \/ UNCHANGED vars
  BY <1>0, <1>14 DEF PassStep, Scan, WalletWait, CheckRegistry, PriceNetwork, Price, Fund, Register,
                     Transfer, QuoteFalls, Begin, vars, bindingVars, disk
<1> QED BY <1>3, <1>4, <1>5, <1>6, <1>7, <1>8, <1>9, <1>10, <1>11, <1>12, <1>13, <1>14
        DEF Next, BindingNext, BringUpStep

LEMMA PayerAlways == Spec => [](TypeInv /\ PayerInv)
<1>1. Init => TypeInv /\ PayerInv
  BY TypeInit DEF Init, BindingInit, PayerInv, PayerStays, At
<1> QED BY <1>1, TypeStep, PayerStep, PTL DEF Spec

\* Every start that comes up names the payer that was named first, however often
\* the process ended between deriving the account and recording it, until a read
\* of payer.json fails (resolve_payer, payer.json).
THEOREM PayerIsStable == Spec => []PayerStays
<1>1. PayerInv => PayerStays
  BY DEF PayerInv
<1> QED BY <1>1, PayerAlways, PTL

-----------------------------------------------------------------------------
(* The gate, and a pass that goes by it. *)

\* The registry module's answer is its selection's.
LEMMA AnswerStays ==
  ASSUME UNCHANGED sel, NEW n \in Networks
  PROVE  Answer(n)' = Answer(n)
BY DEF Answer, AnswerBound

\* A selection that is not done has told nobody anything that is kept.
LEMMA NothingToldBefore ==
  ASSUME TypeInv, GateInv, sel.at \notin {"bound", "failed"}, UNCHANGED <<gate, asks>>
  PROVE  GateInv'
BY NoneAssumption DEF GateInv, GateIsCurrent, TypeInv, TypeOK, BindingTypeOK

LEMMA GateAskers ==
  ASSUME TypeInv, GateInv, NEW a \in Askers,
         (\E n \in Networks : Ask(a, n)) \/ UseNetwork(a) \/ AskLost(a) \/ Remember(a)
  PROVE  GateInv'
<1> USE DEF TypeInv, TypeOK
<1>1. CASE (\E n \in Networks : Ask(a, n)) \/ AskLost(a)
  <2>1. UNCHANGED <<sel, gate>>
    BY <1>1 DEF Ask, AskLost
  <2>2. \A b \in Askers : asks'[b] = asks[b] \/ asks'[b] = None \/ asks'[b].answer = None
    BY <1>1 DEF Ask, AskLost, BindingTypeOK
  <2>3. \A b \in Askers : asks[b] # None => asks[b].ref \in Networks
    BY DEF BindingTypeOK
  <2> QED BY <2>1, <2>2, <2>3, AnswerStays, NoneAssumption DEF GateInv, GateIsCurrent
<1>2. CASE UseNetwork(a)
  <2>0. asks[a].ref \in Networks /\ asks[a] \in [ref : Networks, answer : {"accepted", "refused", "retry", None}]
    BY <1>2 DEF UseNetwork, BindingTypeOK
  <2>1. CASE sel.at \notin {"bound", "failed"} /\ UNCHANGED <<gate, asks>>
    BY <2>1, NothingToldBefore
  <2>2. CASE /\ sel.at = "awaiting" /\ sel' = PlanTo("bound", config.seq, marker)
             /\ Told(a, AnswerBound(marker, asks[a].ref)) /\ UNCHANGED gate
    <3>1. asks'[a].answer = Answer(asks[a].ref)' /\ asks'[a].ref = asks[a].ref
      BY <2>0, <2>2 DEF Told, PlanTo, Answer, AnswerBound, BindingTypeOK
    <3>2. \A b \in Askers \ {a} : asks'[b] = asks[b]
      BY <2>2 DEF Told, BindingTypeOK
    <3>3. \A b \in Askers \ {a} : asks[b] # None => asks[b].answer \notin {"accepted", "refused"}
      BY <2>2, NoneAssumption DEF GateInv
    <3>4. \A n \in Networks : gate'[n] = None
      BY <2>2 DEF GateInv
    <3>5. sel'.at = "bound"
      BY <2>2 DEF PlanTo
    <3> QED BY <3>1, <3>2, <3>3, <3>4, <3>5 DEF GateInv, GateIsCurrent
  <2>4. CASE /\ sel.at = "awaiting" /\ sel' = PlanTo("failed", None, None)
             /\ Told(a, "refused") /\ UNCHANGED gate
    <3>1. asks'[a].answer = Answer(asks[a].ref)' /\ asks'[a].ref = asks[a].ref
      BY <2>0, <2>4 DEF Told, PlanTo, Answer, BindingTypeOK
    <3>2. \A b \in Askers \ {a} : asks'[b] = asks[b]
      BY <2>4 DEF Told, BindingTypeOK
    <3>3. \A b \in Askers \ {a} : asks[b] # None => asks[b].answer \notin {"accepted", "refused"}
      BY <2>4, NoneAssumption DEF GateInv
    <3>4. \A n \in Networks : gate'[n] = None
      BY <2>4 DEF GateInv
    <3>5. sel'.at = "failed"
      BY <2>4 DEF PlanTo
    <3> QED BY <3>1, <3>2, <3>3, <3>4, <3>5 DEF GateInv, GateIsCurrent
  <2>3. CASE /\ sel.at \notin {"awaiting", "marker", "config"} /\ UNCHANGED sel
             /\ Told(a, Answer(asks[a].ref)) /\ UNCHANGED gate
    <3>1. /\ asks'[a].answer = Answer(asks[a].ref)' /\ asks'[a].ref = asks[a].ref
          /\ asks'[a].answer = Answer(asks[a].ref)
      BY <2>0, <2>3, AnswerStays DEF Told, BindingTypeOK
    <3>2. \A b \in Askers \ {a} : asks'[b] = asks[b]
      BY <2>3 DEF Told, BindingTypeOK
    <3>3. sel.at \notin {"bound", "failed"} => Answer(asks[a].ref) = "retry"
      BY <2>3 DEF Answer, BindingTypeOK, Stages
    <3>4. \A b \in Askers : asks[b] # None => asks[b].ref \in Networks
      BY DEF BindingTypeOK
    <3> QED BY <2>3, <3>1, <3>2, <3>3, <3>4, AnswerStays DEF GateInv, GateIsCurrent
  <2> QED BY <1>2, <2>1, <2>2, <2>3, <2>4, UseNetworkSteps
<1>3. CASE Remember(a)
  <2>1. UNCHANGED sel /\ asks[a] # None /\ asks[a].answer # None /\ asks[a].ref \in Networks
        /\ asks[a].answer \in {"accepted", "refused", "retry"}
    BY <1>3 DEF Remember, BindingTypeOK
  <2>2. \A b \in Askers : asks'[b] = asks[b] \/ asks'[b] = None
    BY <1>3 DEF Remember, BindingTypeOK
  <2>3. \A n \in Networks : gate'[n] = gate[n] \/ (gate'[n] = Answer(n) /\ sel.at \in {"bound", "failed"})
    <3>1. CASE asks[a].answer = "retry"
      <4>1. Interpret(asks[a].answer) = None
        BY <3>1 DEF Interpret
      <4>2. gate' = gate
        BY <1>3, <4>1, Zenon DEF Remember
      <4> QED BY <4>2
    <3>2. CASE asks[a].answer # "retry"
      <4>1. asks[a].answer = Answer(asks[a].ref) /\ sel.at \in {"bound", "failed"}
        BY <2>1, <3>2 DEF GateInv
      <4>2. gate' = [gate EXCEPT ![asks[a].ref] = asks[a].answer]
        BY <1>3, <2>1, <3>2, NoneAssumption DEF Remember, Interpret
      <4> QED BY <2>1, <4>1, <4>2 DEF BindingTypeOK
    <3> QED BY <3>1, <3>2
  <2>4. \A b \in Askers : asks[b] # None => asks[b].ref \in Networks
    BY DEF BindingTypeOK
  <2> QED BY <2>1, <2>2, <2>3, <2>4, AnswerStays DEF GateInv, GateIsCurrent
<1> QED BY <1>1, <1>2, <1>3

\* ensure_network on a pass's behalf, once the home is bound.
LEMMA GateEnsure ==
  ASSUME TypeInv, GateInv, UNCHANGED <<sel, asks>>, sel.at = "bound", pass.net \in Networks,
         EnsureNetwork \/ UNCHANGED gate
  PROVE  GateInv' /\ \A n \in Networks : gate[n] # None => gate'[n] = gate[n]
<1> USE DEF TypeInv, TypeOK
<1>1. Answer(pass.net) \in {"accepted", "refused"}
  BY DEF Answer, AnswerBound
<1>2. \A n \in Networks : gate'[n] = gate[n] \/ (gate[n] = None /\ gate'[n] = Answer(n))
  <2>1. Interpret(Answer(pass.net)) = Answer(pass.net)
    BY <1>1 DEF Interpret
  <2>2. gate \in [Networks -> {"accepted", "refused", None}]
    BY DEF BindingTypeOK
  <2>3. CASE gate' = gate
    BY <2>3
  <2>4. CASE gate[pass.net] = None /\ gate' = [gate EXCEPT ![pass.net] = Answer(pass.net)]
    BY <2>2, <2>4
  <2> QED BY <2>1, <2>3, <2>4 DEF EnsureNetwork
<1>3. \A b \in Askers : asks[b] # None => asks[b].ref \in Networks
  BY DEF BindingTypeOK
<1> QED BY <1>2, <1>3, AnswerStays DEF GateInv, GateIsCurrent

LEMMA GateStep ==
  TypeInv /\ PayerInv /\ GateInv /\ PassInv /\ [Next]_vars => GateInv' /\ PassInv'
<1> SUFFICES ASSUME TypeInv, PayerInv, GateInv, PassInv, [Next]_vars
             PROVE  GateInv' /\ PassInv'
  OBVIOUS
<1> USE DEF TypeInv, TypeOK
<1>0. \A a \in Askers : asks[a] # None => asks[a].ref \in Networks
  BY DEF BindingTypeOK
<1>1. UNCHANGED <<sel, gate, asks>> => GateInv'
  BY <1>0, AnswerStays DEF GateInv, GateIsCurrent
<1>2. CASE BindingNext /\ UNCHANGED passVars
  <2>1. CASE ContextReady \/ WriteMarker \/ WriteConfig
    <3>1. sel.at \notin {"bound", "failed"} /\ UNCHANGED <<gate, asks, pass>>
      BY <1>2, <2>1 DEF ContextReady, WriteMarker, WriteConfig, passVars
    <3> QED BY <3>1, NothingToldBefore DEF PassInv
  <2>2. ASSUME NEW a \in Askers,
               (\E n \in Networks : Ask(a, n)) \/ UseNetwork(a) \/ AskLost(a) \/ Remember(a)
        PROVE  GateInv' /\ PassInv'
    <3>1. GateInv'
      BY <2>2, GateAskers
    <3>2. pass' = pass /\ (pass # None => pass.net \in Networks)
      BY <1>2 DEF passVars
    <3>3. sel.at = "bound" => UNCHANGED sel
      BY <2>2, UseNetworkSteps DEF Ask, AskLost, Remember
    <3>4. ASSUME pass # None, pass.step \in {"fund", "register"}
          PROVE  gate'[pass.net] = "accepted"
      <4>1. sel.at = "bound" /\ gate[pass.net] = "accepted" /\ pass.net \in Networks
        BY <3>2, <3>4 DEF PassInv
      <4>2. Answer(pass.net) = "accepted"
        BY <4>1, NoneAssumption DEF GateInv, GateIsCurrent
      <4>3. CASE UNCHANGED gate
        BY <4>1, <4>3
      <4>4. CASE Remember(a)
        BY <4>1, <4>2, <4>4, NoneAssumption DEF Remember, Interpret, GateInv, BindingTypeOK
      <4> QED BY <2>2, <4>3, <4>4, UseNetworkSteps DEF Ask, AskLost
    <3> QED BY <3>1, <3>2, <3>3, <3>4 DEF PassInv
  <2>3. CASE BringUpStep \/ (\E c \in Chains : Stage(c)) \/ GoDown \/ ComeBack
    <3>1. UNCHANGED <<sel, gate, asks, pass>>
      BY <1>2, <2>3 DEF BringUpStep, OpenFails, Open, ResolvePayer, Save, WritePayer, Ready, Stage, GoDown,
                        ComeBack, passVars
    <3> QED BY <1>1, <3>1 DEF PassInv
  <2> QED BY <1>2, <2>1, <2>2, <2>3 DEF BindingNext
<1>3. CASE Scan \/ WalletWait \/ Register
  <2>1. UNCHANGED <<sel, gate, asks>>
    BY <1>3 DEF Scan, WalletWait, Register, bindingVars
  <2>2. ready = "ready" => sel.at = "bound"
    BY DEF PayerInv
  <2> QED BY <1>1, <1>3, <2>1, <2>2 DEF Scan, WalletWait, Register, WalletStatus, On, GoOn, Refuse, PassInv
<1>4. CASE CheckRegistry \/ PriceNetwork
  <2>1. /\ UNCHANGED <<sel, asks>> /\ sel.at = "bound" /\ pass # None /\ pass.net \in Networks
        /\ pass.step \in {"check", "price"}
    BY <1>4 DEF CheckRegistry, PriceNetwork, On, PassInv
  <2>2. GateInv'
    BY <1>4, <2>1, GateEnsure DEF CheckRegistry, PriceNetwork
  <2>3. pass' = pass \/ pass' = [pass EXCEPT !.step = "price"] \/ \E r : Refuse(r)
    BY <1>4 DEF CheckRegistry, PriceNetwork, GoOn
  <2> QED BY <2>1, <2>2, <2>3 DEF PassInv, Refuse
<1>5. CASE Price \/ Fund
  <2>1. UNCHANGED <<sel, gate, asks>>
    BY <1>5 DEF Price, Fund, bindingVars
  <2> QED BY <1>1, <1>5, <2>1 DEF Price, Fund, On, Refuse, PassInv
<1>6. CASE Transfer \/ QuoteFalls \/ (\E n \in Networks : Begin(n)) \/ UNCHANGED vars
  <2>1. UNCHANGED <<sel, gate, asks>>
    BY <1>6 DEF Transfer, QuoteFalls, Begin, vars, bindingVars
  <2> QED BY <1>1, <1>6, <2>1 DEF Transfer, QuoteFalls, Begin, vars, passVars, PassInv
<1>7. CASE RestartAll
  BY <1>7 DEF RestartAll, Restart, GateInv, GateIsCurrent, PassInv
<1> QED BY <1>2, <1>3, <1>4, <1>5, <1>6, <1>7 DEF Next, PassStep

LEMMA GateAlways == Spec => [](TypeInv /\ PayerInv /\ GateInv /\ PassInv)
<1>1. Init => TypeInv /\ PayerInv /\ GateInv /\ PassInv
  BY TypeInit DEF Init, BindingInit, PayerInv, PayerStays, At, GateInv, GateIsCurrent, PassInv, Unresolved
<1> QED BY <1>1, TypeStep, PayerStep, GateStep, PTL DEF Spec

\* What the membership module remembers of use_network is what the registry
\* module would answer now (NETWORK_GATE, which is never asked again).
THEOREM GateCurrent == Spec => []GateIsCurrent
<1>1. GateInv => GateIsCurrent
  BY DEF GateInv
<1> QED BY <1>1, GateAlways, PTL

\* A pass that funds or registers in a home of the table is on the chain of its
\* registry, whoever bound the home and wherever that was cut short
\* (provision_home, answer_bound, provision_one).
THEOREM PaysWhereItMeans == Spec => []PaysOnItsChain
<1>1. TypeInv /\ HomeInv /\ GateInv /\ PassInv => PaysOnItsChain
  <2> SUFFICES ASSUME TypeInv, HomeInv, GateInv, PassInv, pass # None,
                      pass.step \in {"fund", "register"}, config.by = "table"
               PROVE  config.seq = pass.net
    BY DEF PaysOnItsChain
  <2>1. sel.at = "bound" /\ gate[pass.net] = "accepted" /\ pass.net \in Networks
    BY DEF PassInv, TypeInv, TypeOK
  <2>2. Answer(pass.net) = "accepted"
    BY <2>1, NoneAssumption DEF GateInv, GateIsCurrent
  <2>3. sel.binding = marker /\ marker # None /\ marker.network = config.seq
    BY <2>1 DEF HomeInv
  <2> QED BY <2>1, <2>2, <2>3 DEF Answer, AnswerBound
<1> QED BY <1>1, HomeAlways, GateAlways, PTL

====
