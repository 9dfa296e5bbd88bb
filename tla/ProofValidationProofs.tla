---- MODULE ProofValidationProofs ----
(***************************************************************************)
(* Theorems about ProofValidation, for every set of registries, nullifiers, *)
(* concurrent calls and reads, every configuration and every length of run.  *)
(***************************************************************************)
EXTENDS ProofValidation, TLAPS

(* The inductive invariants. *)

\* An honest nullifier is in the log with its one share only.
LogInv ==
    /\ accused \subseteq Cheats
    /\ \A e \in Epochs, n \in Nullifiers \ Cheats : log[e][n] \in {None, Honest}

\* Of the roots in a set, none left its registry's list before t.
NotBefore(r, roots, t) == \A x \in roots : dropped[r][x] # None => t <= dropped[r][x]

\* A root in the list was not dropped; an answer under way was right when the
\* registry was read, not longer ago than a read takes; a window was at most that
\* old when it was stamped.
RootInv ==
    /\ \A r \in Registries, x \in Roots :
         dropped[r][x] # None => dropped[r][x] <= clock /\ x <= head[r] - History
    /\ \A q \in Readers : reads[q] # None =>
         /\ reads[q].since <= clock /\ clock <= reads[q].since + ReadLimit
         /\ NotBefore(reads[q].reg, reads[q].roots, reads[q].since)
    /\ \A r \in Registries : windows[r] # None =>
         windows[r].at <= clock /\ NotBefore(r, windows[r].roots, windows[r].at - ReadLimit)

\* What start() may configure is one epoch size and one gap, for every registry.
OneConfig == \A c, d \in Configs : \A r, s \in Registries : c[r] = d[s]

\* A call's floor was the floor of its time.
CallsBelow == \A v \in Validators : calls[v] # None =>
    config # None /\ calls[v].floor <= RetainFloor(Home[calls[v].proof.null])

\* What was answered "valid" is in the log, or below the floor of every window from
\* now on.
ValidLogged == \A n \in Nullifiers, e \in Epochs : valid[<<n, e>>] # 0 =>
    config # None /\ (log[e][n] # None \/ e < RetainFloor(Home[n]))

FreshInv == CallsBelow /\ ValidLogged

-----------------------------------------------------------------------------
(* Epochs and floors. *)

LEMMA DivFacts ==
  ASSUME NEW a \in Nat, NEW b \in Nat \ {0}
  PROVE  (a \div b) \in Nat /\ (a \div b) <= a /\ (a \div b) <= ((a + 1) \div b)
OBVIOUS

LEMMA ConfigFacts ==
  ASSUME TypeOK, config # None, NEW r \in Registries
  PROVE  config \in Configs /\ config[r].size \in Nat \ {0} /\ config[r].gap \in Nat \ {0}
<1>1. config \in Configs
  BY DEF TypeOK
<1>2. config[r] \in [size : Nat \ {0}, gap : Nat \ {0}]
  BY <1>1, ValidationConstants
<1> QED BY <1>1, <1>2

LEMMA FloorFacts ==
  ASSUME TypeOK, config # None, NEW r \in Registries
  PROVE  NowEpoch(r) \in Nat /\ RetainFloor(r) \in Epochs /\ RetainFloor(r) \in Nat
<1>1. config[r].size \in Nat \ {0} /\ config[r].gap \in Nat \ {0} /\ clock \in Nat /\ clock <= MaxTime
  BY ConfigFacts, ValidationBounds DEF TypeOK, Times
<1>2. NowEpoch(r) \in Nat /\ NowEpoch(r) <= clock
  BY <1>1, DivFacts DEF NowEpoch, CurrentEpoch
<1> QED BY <1>1, <1>2, ValidationBounds DEF RetainFloor, Epochs

\* An epoch in the window is at or above the retention floor.
LEMMA WindowAboveFloor ==
  ASSUME TypeOK, config # None, NEW r \in Registries, NEW e \in Epochs,
         EpochInWindow(e, NowEpoch(r), config[r].gap)
  PROVE  RetainFloor(r) <= e
<1>1. config[r].gap \in Nat /\ NowEpoch(r) \in Nat /\ e \in Nat
  BY ConfigFacts, FloorFacts DEF Epochs
<1> QED BY <1>1 DEF EpochInWindow, RetainFloor

-----------------------------------------------------------------------------
(* The fields of a call. *)

Moved(c, d) == d \in Call /\ d.proof = c.proof /\ d.floor = c.floor

LEMMA CallFields ==
  ASSUME NEW c \in Call
  PROVE  /\ c.proof \in Proof /\ c.floor \in Epochs /\ c.now \in Times /\ c.seen \in Times
         /\ c.proof.null \in Nullifiers /\ c.proof.epoch \in Epochs /\ c.proof.share \in Shares
         /\ c.proof.root \in Roots /\ Home[c.proof.null] \in Registries
<1>1. c.proof \in Proof /\ c.floor \in Epochs /\ c.now \in Times /\ c.seen \in Times
  BY DEF Call
<1>2. /\ c.proof.null \in Nullifiers /\ c.proof.epoch \in Epochs /\ c.proof.share \in Shares
      /\ c.proof.root \in Roots
  BY <1>1 DEF Proof
<1> QED BY <1>1, <1>2, ValidationConstants

LEMMA PcFacts ==
  ASSUME NEW c \in Call, NEW pc \in {"window", "verify", "nudge"}
  PROVE  Moved(c, [c EXCEPT !.pc = pc]) /\ [c EXCEPT !.pc = pc].pc = pc
BY DEF Moved, Call

Nudging(c, t, s) == [c EXCEPT !.pc = "nudge", !.now = t, !.seen = s]

LEMMA NudgingFacts ==
  ASSUME NEW c \in Call, NEW t \in Times, NEW s \in Times
  PROVE  Moved(c, Nudging(c, t, s)) /\ Nudging(c, t, s).pc = "nudge"
<1> DEFINE d == [c EXCEPT !.now = t, !.seen = s]
<1>1. d \in Call /\ d.proof = c.proof /\ d.floor = c.floor
  BY DEF Call
<1>2. Nudging(c, t, s) = [d EXCEPT !.pc = "nudge"]
  BY DEF Nudging
<1> HIDE DEF d
<1>3. Moved(d, [d EXCEPT !.pc = "nudge"]) /\ [d EXCEPT !.pc = "nudge"].pc = "nudge"
  BY <1>1, PcFacts
<1> QED BY <1>1, <1>2, <1>3 DEF Moved

\* Where CheckRoots leaves its call.
LEMMA CheckFacts ==
  ASSUME TypeOK, NEW v \in Validators, CheckRoots(v)
  PROVE  \E d \in Call \cup {None} :
           /\ calls' = [calls EXCEPT ![v] = d]
           /\ calls[v] \in Call
           /\ d # None => Moved(calls[v], d)
           /\ d # None /\ d.pc = "verify" =>
                LET r == Home[calls[v].proof.null]
                IN  Warm(r) /\ calls[v].proof.root \in windows[r].roots
<1>1. PICK c \in Call : c = calls[v]
  BY DEF TypeOK, CheckRoots
<1>2. PICK r : r = Home[c.proof.null]
  OBVIOUS
<1>3. clock \in Times /\ last \in Times
  BY DEF TypeOK
<1>4. calls' = [calls EXCEPT ![v] =
             CASE ~Warm(r) -> None
               [] Warm(r) /\ c.proof.root \in windows[r].roots -> [c EXCEPT !.pc = "verify"]
               [] Warm(r) /\ c.proof.root \notin windows[r].roots ->
                    IF TooSoon THEN None ELSE Nudging(c, clock, last)]
  BY <1>1, <1>2 DEF CheckRoots, Nudging
<1>5. CASE calls' = [calls EXCEPT ![v] = None]
  BY <1>1, <1>5
<1>6. CASE Warm(r) /\ c.proof.root \in windows[r].roots /\ calls' = [calls EXCEPT ![v] = [c EXCEPT !.pc = "verify"]]
  <2>1. PICK d : d = [c EXCEPT !.pc = "verify"]
    OBVIOUS
  <2>2. Moved(c, d)
    BY <2>1, PcFacts
  <2>3. d \in Call
    BY <2>2 DEF Moved
  <2> QED BY <1>1, <1>2, <1>6, <2>1, <2>2, <2>3
<1>7. CASE calls' = [calls EXCEPT ![v] = Nudging(c, clock, last)]
  <2>1. PICK t \in Times, s \in Times : t = clock /\ s = last
    BY <1>3
  <2>2. PICK d : d = Nudging(c, t, s)
    OBVIOUS
  <2>3. Moved(c, d) /\ d.pc = "nudge"
    BY <2>2, NudgingFacts
  <2>4. d \in Call
    BY <2>3 DEF Moved
  <2>5. calls' = [calls EXCEPT ![v] = d]
    BY <1>7, <2>1, <2>2
  <2> QED BY <1>1, <2>3, <2>4, <2>5
<1> QED BY <1>4, <1>5, <1>6, <1>7

-----------------------------------------------------------------------------
(* The log. *)

Kept(e, n, floor) == IF e < floor THEN None ELSE log[e][n]

\* record_verified, entry by entry.
LEMMA RecordFacts ==
  ASSUME TypeOK, NEW p \in Proof, NEW floor \in Epochs, RecordVerified(p, floor)
  PROVE  LET fresh == Kept(p.epoch, p.null, floor) = None
         IN  /\ log' \in [Epochs -> [Nullifiers -> Shares \cup {None}]]
             /\ \A e \in Epochs, n \in Nullifiers :
                  log'[e][n] = IF e = p.epoch /\ n = p.null /\ fresh THEN p.share ELSE Kept(e, n, floor)
             /\ valid' \in [Nullifiers \X Epochs -> Nat]
             /\ \A n \in Nullifiers, e \in Epochs :
                  valid'[<<n, e>>] = IF e = p.epoch /\ n = p.null /\ fresh
                                     THEN valid[<<n, e>>] + 1 ELSE valid[<<n, e>>]
             /\ \/ accused' = accused
                \/ /\ accused' = accused \cup {p.null}
                   /\ Kept(p.epoch, p.null, floor) \notin {None, p.share}
<1>1. p.null \in Nullifiers /\ p.epoch \in Epochs /\ p.share \in Shares
  BY DEF Proof
<1>2. PICK kept : kept = Pruned(floor)
  OBVIOUS
<1>3. /\ kept \in [Epochs -> [Nullifiers -> Shares \cup {None}]]
      /\ \A e \in Epochs, n \in Nullifiers : kept[e][n] = Kept(e, n, floor)
  BY <1>2 DEF Pruned, NoProofs, Kept, TypeOK
<1>4. PICK outcome : outcome = Outcome(kept[p.epoch], p)
  OBVIOUS
<1>5. /\ log' = IF outcome = "fresh" THEN [kept EXCEPT ![p.epoch][p.null] = p.share] ELSE kept
      /\ valid' = IF outcome = "fresh" THEN [valid EXCEPT ![<<p.null, p.epoch>>] = @ + 1] ELSE valid
      /\ accused' = IF outcome = "collision" THEN accused \cup {p.null} ELSE accused
  BY <1>2, <1>4 DEF RecordVerified
<1>6. /\ outcome = "fresh" <=> kept[p.epoch][p.null] = None
      /\ outcome = "collision" => kept[p.epoch][p.null] \notin {None, p.share}
  BY <1>1, <1>4, NoneAssumption DEF Outcome
<1>7. kept[p.epoch][p.null] = Kept(p.epoch, p.null, floor)
  BY <1>1, <1>3
<1>8. CASE outcome = "fresh"
  <2>1. log' \in [Epochs -> [Nullifiers -> Shares \cup {None}]]
    BY <1>1, <1>3, <1>5, <1>8
  <2>2. \A e \in Epochs, n \in Nullifiers :
          log'[e][n] = IF e = p.epoch /\ n = p.null THEN p.share ELSE kept[e][n]
    BY <1>1, <1>3, <1>5, <1>8
  <2>3. <<p.null, p.epoch>> \in Nullifiers \X Epochs
    BY <1>1
  <2>4. valid' = [valid EXCEPT ![<<p.null, p.epoch>>] = valid[<<p.null, p.epoch>>] + 1]
    BY <1>5, <1>8
  <2>5. valid' \in [Nullifiers \X Epochs -> Nat]
    BY <2>3, <2>4 DEF TypeOK
  <2>6. \A n \in Nullifiers, e \in Epochs :
          valid'[<<n, e>>] = IF e = p.epoch /\ n = p.null THEN valid[<<n, e>>] + 1 ELSE valid[<<n, e>>]
    BY <2>3, <2>4 DEF TypeOK
  <2> QED BY <1>3, <1>5, <1>6, <1>7, <1>8, <2>1, <2>2, <2>5, <2>6
<1>9. CASE outcome # "fresh"
  BY <1>3, <1>5, <1>6, <1>7, <1>9 DEF TypeOK
<1> QED BY <1>8, <1>9

\* What Judge does to the log.
LEMMA JudgeFacts ==
  ASSUME TypeOK, NEW v \in Validators, Judge(v)
  PROVE  /\ calls[v] \in Call /\ calls' = [calls EXCEPT ![v] = None]
         /\ UNCHANGED <<clock, config, windows, tracked, last, reads, head, dropped, begun>>
         /\ \/ UNCHANGED <<log, valid, accused>>
            \/ MayVerify(calls[v].proof) /\ RecordVerified(calls[v].proof, calls[v].floor)
BY DEF Judge, TypeOK

-----------------------------------------------------------------------------
(* Types. *)

LEMMA InitType == Init => TypeOK
<1> SUFFICES ASSUME Init
             PROVE  TypeOK
  OBVIOUS
<1>1. clock \in Times /\ last \in Times /\ begun \in 0 .. MaxCalls
  BY ValidationBounds DEF Init, Times
<1>2. log \in [Epochs -> [Nullifiers -> Shares \cup {None}]]
  BY DEF Init, NoProofs
<1>3. /\ windows \in [Registries -> Window \cup {None}] /\ calls \in [Validators -> Call \cup {None}]
      /\ reads \in [Readers -> Read \cup {None}]
      /\ dropped \in [Registries -> [Roots -> Times \cup {None}]]
  BY DEF Init
<1>4. head \in [Registries -> Roots] /\ valid \in [Nullifiers \X Epochs -> Nat]
  BY ValidationBounds DEF Init, Roots
<1>5. config \in Configs \cup {None} /\ tracked \subseteq Registries /\ accused \subseteq Nullifiers
  BY DEF Init
<1> QED BY <1>1, <1>2, <1>3, <1>4, <1>5 DEF TypeOK

LEMMA BeginFacts ==
  ASSUME TypeOK, NEW v \in Validators, NEW p \in Proof, Begin(v, p)
  PROVE  \E d \in Call : /\ calls' = [calls EXCEPT ![v] = d] /\ d.pc = "window" /\ d.proof = p
                         /\ d.floor = RetainFloor(Home[p.null]) /\ config # None
<1>1. p.null \in Nullifiers /\ Home[p.null] \in Registries /\ config # None /\ 0 \in Times
  BY ValidationConstants, ValidationBounds DEF Proof, Begin, Times
<1>2. PICK f \in Epochs : f = RetainFloor(Home[p.null])
  BY <1>1, FloorFacts
<1>3. PICK d : d = [pc |-> "window", proof |-> p, floor |-> f, now |-> 0, seen |-> 0]
  OBVIOUS
<1>4. d \in Call /\ d.pc = "window" /\ d.proof = p /\ d.floor = f
  BY <1>1, <1>2, <1>3 DEF Call
<1>5. calls' = [calls EXCEPT ![v] = d]
  BY <1>2, <1>3 DEF Begin
<1> QED BY <1>1, <1>2, <1>4, <1>5

\* The answer of a read, as it is fixed when the registry is read.
LEMMA BeginReadFacts ==
  ASSUME TypeOK, NEW q \in Readers, NEW r \in Registries, BeginRead(q, r)
  PROVE  \E d \in Read : /\ reads' = [reads EXCEPT ![q] = d] /\ d.reg = r /\ d.since = clock
                         /\ d.roots \subseteq ValidRoots(r)
<1>1. PICK roots \in {ValidRoots(r), {}} :
        reads' = [reads EXCEPT ![q] = [reg |-> r, roots |-> roots, since |-> clock]]
  BY DEF BeginRead
<1>2. roots \subseteq ValidRoots(r) /\ roots \in SUBSET Roots
  BY DEF ValidRoots
<1>3. PICK d : d = [reg |-> r, roots |-> roots, since |-> clock]
  OBVIOUS
<1>4. d \in Read /\ d.reg = r /\ d.since = clock /\ d.roots = roots
  BY <1>2, <1>3 DEF Read, TypeOK
<1> QED BY <1>1, <1>2, <1>3, <1>4

\* The window a read installs, if it installs one.
LEMMA EndReadFacts ==
  ASSUME TypeOK, NEW q \in Readers, EndRead(q)
  PROVE  /\ reads[q] \in Read /\ reads[q] # None /\ reads' = [reads EXCEPT ![q] = None]
         /\ \/ windows' = windows
            \/ \E d \in Window : /\ windows' = [windows EXCEPT ![reads[q].reg] = d]
                                 /\ d.at = clock /\ d.roots = reads[q].roots
<1>1. PICK a \in Read : a = reads[q]
  BY DEF TypeOK, EndRead
<1>2. reads[q] # None /\ reads' = [reads EXCEPT ![q] = None]
  BY DEF EndRead
<1>3. PICK d : d = [roots |-> a.roots, at |-> clock]
  OBVIOUS
<1>4. d \in Window /\ d.at = clock /\ d.roots = a.roots
  BY <1>3 DEF Window, Read, TypeOK
<1>5. windows' = windows \/ windows' = [windows EXCEPT ![a.reg] = d]
  BY <1>1, <1>3 DEF EndRead
<1> QED BY <1>1, <1>2, <1>4, <1>5

LEMMA RotateFacts ==
  ASSUME TypeOK, NEW r \in Registries, Rotate(r)
  PROVE  /\ head' \in [Registries -> Roots] /\ dropped' \in [Registries -> [Roots -> Times \cup {None}]]
         /\ head'[r] = head[r] + 1 /\ \A s \in Registries \ {r} : head'[s] = head[s] /\ dropped'[s] = dropped[s]
         /\ \A x \in Roots : dropped'[r][x] = IF x = head[r] + 1 - History THEN clock ELSE dropped[r][x]
<1>1. head[r] \in Nat /\ head[r] + 1 \in Roots
  BY ValidationBounds DEF TypeOK, Roots, Rotate
<1>2. head' = [head EXCEPT ![r] = head[r] + 1]
  BY DEF Rotate
<1>3. PICK d : d = [x \in Roots |-> IF x = head[r] + 1 - History THEN clock ELSE dropped[r][x]]
  OBVIOUS
<1>4. d \in [Roots -> Times \cup {None}]
  BY <1>3 DEF TypeOK
<1>5. dropped' = [dropped EXCEPT ![r] = d]
  BY <1>3 DEF Rotate
<1> QED BY <1>1, <1>2, <1>3, <1>4, <1>5 DEF TypeOK

LEMMA NextType == TypeOK /\ [Next]_vars => TypeOK'
<1> SUFFICES ASSUME TypeOK, [Next]_vars
             PROVE  TypeOK'
  OBVIOUS
<1>1. ASSUME NEW r \in Registries, Rotate(r)
      PROVE  TypeOK'
  <2>1. head' \in [Registries -> Roots] /\ dropped' \in [Registries -> [Roots -> Times \cup {None}]]
    BY <1>1, RotateFacts
  <2> QED BY <1>1, <2>1 DEF TypeOK, Rotate
<1>2. ASSUME NEW q \in Readers, NEW r \in Registries, BeginRead(q, r)
      PROVE  TypeOK'
  <2>1. reads' \in [Readers -> Read \cup {None}]
    <3>1. PICK d \in Read : reads' = [reads EXCEPT ![q] = d]
      BY <1>2, BeginReadFacts
    <3> QED BY <3>1 DEF TypeOK
  <2> QED BY <1>2, <2>1 DEF TypeOK, BeginRead
<1>3. ASSUME NEW q \in Readers, EndRead(q)
      PROVE  TypeOK'
  <2>1. /\ reads[q] \in Read /\ reads' = [reads EXCEPT ![q] = None]
        /\ windows' = windows \/ \E d \in Window : windows' = [windows EXCEPT ![reads[q].reg] = d]
    BY <1>3, EndReadFacts
  <2>2. reads' \in [Readers -> Read \cup {None}] /\ windows' \in [Registries -> Window \cup {None}]
    BY <2>1 DEF TypeOK
  <2> QED BY <1>3, <2>2 DEF TypeOK, EndRead
<1>4. ASSUME NEW q \in Readers, ReadFails(q)
      PROVE  TypeOK'
  <2>1. reads' \in [Readers -> Read \cup {None}]
    BY <1>4 DEF TypeOK, ReadFails
  <2> QED BY <1>4, <2>1 DEF TypeOK, ReadFails
<1>5. ASSUME NEW v \in Validators, NEW p \in Proof, Begin(v, p)
      PROVE  TypeOK'
  <2>1. calls' \in [Validators -> Call \cup {None}]
    <3>1. PICK d \in Call : calls' = [calls EXCEPT ![v] = d]
      BY <1>5, BeginFacts
    <3> QED BY <3>1 DEF TypeOK
  <2>2. begun' \in 0 .. MaxCalls
    BY <1>5, ValidationBounds DEF TypeOK, Begin
  <2> QED BY <1>5, <2>1, <2>2 DEF TypeOK, Begin
<1>6. ASSUME NEW v \in Validators, CheckRoots(v)
      PROVE  TypeOK'
  <2>1. PICK d \in Call \cup {None} : calls' = [calls EXCEPT ![v] = d] /\ calls[v] \in Call
    BY <1>6, CheckFacts
  <2>2. calls' \in [Validators -> Call \cup {None}]
    BY <2>1 DEF TypeOK
  <2>3. Home[calls[v].proof.null] \in Registries
    BY <2>1, CallFields
  <2>4. tracked' \subseteq Registries
    BY <1>6, <2>3 DEF TypeOK, CheckRoots
  <2> QED BY <1>6, <2>2, <2>4 DEF TypeOK, CheckRoots
<1>7. ASSUME NEW v \in Validators, Nudge(v)
      PROVE  TypeOK'
  <2>1. calls' \in [Validators -> Call \cup {None}]
    BY <1>7 DEF TypeOK, Nudge
  <2>2. calls[v] \in Call
    BY <1>7 DEF TypeOK, Nudge
  <2>3. last' \in Times
    BY <1>7, <2>2, CallFields DEF TypeOK, Nudge
  <2> QED BY <1>7, <2>1, <2>3 DEF TypeOK, Nudge
<1>8. ASSUME NEW v \in Validators, Judge(v)
      PROVE  TypeOK'
  <2>1. /\ calls[v] \in Call /\ calls' = [calls EXCEPT ![v] = None]
        /\ UNCHANGED <<clock, config, windows, tracked, last, reads, head, dropped, begun>>
        /\ \/ UNCHANGED <<log, valid, accused>>
           \/ MayVerify(calls[v].proof) /\ RecordVerified(calls[v].proof, calls[v].floor)
    BY <1>8, JudgeFacts
  <2>2. calls' \in [Validators -> Call \cup {None}]
    BY <2>1 DEF TypeOK
  <2>3. PICK p \in Proof, f \in Epochs : p = calls[v].proof /\ f = calls[v].floor /\ p.null \in Nullifiers
    BY <2>1, CallFields
  <2>4. CASE RecordVerified(p, f)
    <3>1. /\ log' \in [Epochs -> [Nullifiers -> Shares \cup {None}]]
          /\ valid' \in [Nullifiers \X Epochs -> Nat]
          /\ accused' = accused \/ accused' = accused \cup {p.null}
      BY <2>4, RecordFacts
    <3>2. accused' \subseteq Nullifiers
      BY <2>3, <3>1 DEF TypeOK
    <3> QED BY <2>1, <2>2, <3>1, <3>2 DEF TypeOK
  <2>5. CASE UNCHANGED <<log, valid, accused>>
    BY <2>1, <2>2, <2>5 DEF TypeOK
  <2> QED BY <2>1, <2>3, <2>4, <2>5
<1>9. ASSUME NEW cfg \in Configs, NEW regs \in SUBSET Registries, Start(cfg, regs)
      PROVE  TypeOK'
  BY <1>9 DEF TypeOK, Start
<1>10. CASE Tick
  <2>1. clock' \in Times
    BY <1>10, ValidationBounds DEF TypeOK, Tick, Times
  <2> QED BY <1>10, <2>1 DEF TypeOK, Tick
<1>11. CASE UNCHANGED vars
  BY <1>11 DEF TypeOK, vars
<1> QED BY <1>1, <1>2, <1>3, <1>4, <1>5, <1>6, <1>7, <1>8, <1>9, <1>10, <1>11 DEF Next

\* The validation state keeps its types: in particular every retention floor that
\* validate_proof computes is an epoch of the unsigned range.
THEOREM TypeCorrect == Spec => []TypeOK
BY InitType, NextType, PTL DEF Spec

-----------------------------------------------------------------------------
(* Accusations. *)

LEMMA LogStep == TypeOK /\ LogInv /\ [Next]_vars => LogInv'
<1> SUFFICES ASSUME TypeOK, LogInv, [Next]_vars
             PROVE  LogInv'
  OBVIOUS
<1>1. ASSUME NEW v \in Validators, Judge(v)
      PROVE  LogInv'
  <2>1. /\ calls[v] \in Call
        /\ \/ UNCHANGED <<log, valid, accused>>
           \/ MayVerify(calls[v].proof) /\ RecordVerified(calls[v].proof, calls[v].floor)
    BY <1>1, JudgeFacts
  <2>2. PICK p \in Proof, f \in Epochs : p = calls[v].proof /\ f = calls[v].floor
    BY <2>1, CallFields
  <2>3. CASE UNCHANGED <<log, accused>>
    BY <2>3 DEF LogInv
  <2>4. CASE MayVerify(p) /\ RecordVerified(p, f)
    <3>1. /\ \A e \in Epochs, n \in Nullifiers :
              log'[e][n] = IF e = p.epoch /\ n = p.null /\ Kept(p.epoch, p.null, f) = None
                           THEN p.share ELSE Kept(e, n, f)
          /\ \/ accused' = accused
             \/ /\ accused' = accused \cup {p.null}
                /\ Kept(p.epoch, p.null, f) \notin {None, p.share}
      BY <2>4, RecordFacts
    <3>2. p.null \in Nullifiers /\ p.epoch \in Epochs
      BY DEF Proof
    <3>3. \A e \in Epochs, n \in Nullifiers \ Cheats : Kept(e, n, f) \in {None, Honest}
      BY DEF LogInv, Kept
    <3>4. p.null \in Cheats \/ p.share = Honest
      BY <2>4 DEF MayVerify
    <3>5. \A e \in Epochs, n \in Nullifiers \ Cheats : log'[e][n] \in {None, Honest}
      BY <3>1, <3>3, <3>4
    <3>6. accused' \subseteq Cheats
      BY <3>1, <3>2, <3>3, <3>4 DEF LogInv
    <3> QED BY <3>5, <3>6 DEF LogInv
  <2> QED BY <2>1, <2>2, <2>3, <2>4
<1>2. CASE UNCHANGED <<log, accused>>
  BY <1>2 DEF LogInv
<1>3. (\E v \in Validators : Judge(v)) \/ UNCHANGED <<log, accused>>
  BY DEF Next, vars, Rotate, BeginRead, EndRead, ReadFails, Begin, CheckRoots, Nudge, Start, Tick
<1> QED BY <1>1, <1>2, <1>3

\* Nobody is accused who did not sign two messages under one nullifier: only
\* verified proofs reach the log (validate_proof_impl, record_verified).
THEOREM AccusesCheatsOnly == Spec => []NoFalseAccusation
<1>1. Init => LogInv
  BY DEF Init, LogInv, NoProofs
<1>2. LogInv => NoFalseAccusation
  BY DEF LogInv, NoFalseAccusation
<1> QED BY <1>1, <1>2, LogStep, TypeCorrect, PTL DEF Spec

-----------------------------------------------------------------------------
(* Roots. *)

\* A step that leaves the windows, the reads and the registries alone.
LEMMA RootsQuiet ==
  ASSUME RootInv, UNCHANGED <<clock, windows, reads, head, dropped>>
  PROVE  RootInv'
BY DEF RootInv, NotBefore

LEMMA RotateRoots ==
  ASSUME TypeOK, RootInv, NEW r \in Registries, Rotate(r)
  PROVE  RootInv'
<1>1. /\ head'[r] = head[r] + 1 /\ \A s \in Registries \ {r} : head'[s] = head[s] /\ dropped'[s] = dropped[s]
      /\ \A x \in Roots : dropped'[r][x] = IF x = head[r] + 1 - History THEN clock ELSE dropped[r][x]
  BY RotateFacts
<1>2. UNCHANGED <<clock, windows, reads>>
  BY DEF Rotate
<1>3. clock \in Nat /\ ReadLimit \in Nat /\ History \in Nat /\ Roots \subseteq Nat /\ Times \subseteq Nat
  BY ValidationBounds DEF TypeOK, Times, Roots
<1>4. \A s \in Registries : head[s] \in Nat
  BY <1>3 DEF TypeOK
<1>5. ASSUME NEW s \in Registries, NEW x \in Roots, dropped'[s][x] # None
      PROVE  dropped'[s][x] <= clock /\ x <= head'[s] - History
  <2>1. CASE dropped'[s][x] = dropped[s][x] /\ (head'[s] = head[s] \/ head'[s] = head[s] + 1)
    <3>1. x <= head[s] - History /\ dropped[s][x] <= clock
      BY <1>5, <2>1 DEF RootInv
    <3> QED BY <1>3, <1>4, <2>1, <3>1
  <2>2. CASE s = r /\ x = head[r] + 1 - History
    BY <1>1, <1>3, <1>4, <2>2
  <2> QED BY <1>1, <2>1, <2>2
<1>6. ASSUME NEW s \in Registries, NEW roots \in SUBSET Roots, NEW t \in Int, t <= clock, NotBefore(s, roots, t)
      PROVE  NotBefore(s, roots, t)'
  <2> SUFFICES ASSUME NEW x \in roots, dropped'[s][x] # None
               PROVE  t <= dropped'[s][x]
    BY DEF NotBefore
  <2>1. dropped'[s][x] = dropped[s][x] \/ dropped'[s][x] = clock
    BY <1>1
  <2> QED BY <1>6, <2>1 DEF NotBefore
<1>7. ASSUME NEW q \in Readers, reads[q] # None
      PROVE  NotBefore(reads[q].reg, reads[q].roots, reads[q].since)'
  <2>1. PICK a \in Read : a = reads[q]
    BY <1>7 DEF TypeOK
  <2>a. a.reg \in Registries /\ a.roots \in SUBSET Roots /\ a.since \in Times
    BY DEF Read
  <2>b. a.since \in Nat
    BY <1>3, <2>a
  <2>2. a.since \in Int
    BY <2>b
  <2>3. a.since <= clock /\ NotBefore(a.reg, a.roots, a.since)
    BY <1>7, <2>1 DEF RootInv
  <2>4. NotBefore(a.reg, a.roots, a.since)'
    BY <1>6, <2>a, <2>2, <2>3
  <2> QED BY <1>2, <2>1, <2>4 DEF NotBefore
<1>8. ASSUME NEW s \in Registries, windows[s] # None
      PROVE  (windows[s].at <= clock /\ NotBefore(s, windows[s].roots, windows[s].at - ReadLimit))'
  <2>1. PICK d \in Window : d = windows[s]
    BY <1>8 DEF TypeOK
  <2>2. d.roots \in SUBSET Roots /\ d.at \in Nat
    BY <1>3 DEF Window
  <2>3. NotBefore(s, d.roots, d.at - ReadLimit)
    BY <1>8, <2>1 DEF RootInv
  <2>a. d.at <= clock
    BY <1>8, <2>1 DEF RootInv
  <2>4. d.at - ReadLimit <= clock
    BY <1>3, <2>2, <2>a
  <2>5. NotBefore(s, d.roots, d.at - ReadLimit)'
    BY <1>3, <1>6, <2>2, <2>3, <2>4
  <2> QED BY <1>2, <2>1, <2>a, <2>5 DEF NotBefore
<1> QED BY <1>2, <1>5, <1>7, <1>8 DEF RootInv

LEMMA ReadRoots ==
  ASSUME TypeOK, RootInv, NEW q \in Readers, (\E r \in Registries : BeginRead(q, r)) \/ ReadFails(q)
  PROVE  RootInv'
<1>1. UNCHANGED <<clock, windows, head, dropped>>
  BY DEF BeginRead, ReadFails
<1>2. clock \in Nat /\ ReadLimit \in Nat
  BY ValidationBounds DEF TypeOK, Times
<1>3. ASSUME NEW d, reads' = [reads EXCEPT ![q] = d],
             d = None \/ (d.since = clock /\ NotBefore(d.reg, d.roots, d.since))
      PROVE  RootInv'
  <2>1. ASSUME NEW o \in Readers, reads'[o] # None
        PROVE  /\ reads'[o].since <= clock /\ clock <= reads'[o].since + ReadLimit
               /\ NotBefore(reads'[o].reg, reads'[o].roots, reads'[o].since)
    <3>1. CASE o = q
      BY <1>2, <1>3, <2>1, <3>1 DEF TypeOK
    <3>2. CASE o # q
      <4>1. reads'[o] = reads[o]
        BY <1>3, <3>2 DEF TypeOK
      <4> QED BY <2>1, <4>1 DEF RootInv
    <3> QED BY <3>1, <3>2
  <2> QED BY <1>1, <2>1 DEF RootInv, NotBefore
<1>4. ASSUME NEW r \in Registries, BeginRead(q, r)
      PROVE  RootInv'
  <2>1. PICK d \in Read : /\ reads' = [reads EXCEPT ![q] = d] /\ d.reg = r /\ d.since = clock
                          /\ d.roots \subseteq ValidRoots(r)
    BY <1>4, BeginReadFacts
  <2>2. \A x \in ValidRoots(r) : dropped[r][x] = None
    <3> TAKE x \in ValidRoots(r)
    <3>1. x \in Roots /\ head[r] - History < x /\ head[r] \in Int /\ History \in Int /\ x \in Int
      BY ValidationBounds DEF ValidRoots, TypeOK, Roots
    <3>2. ~(x <= head[r] - History)
      BY <3>1
    <3> QED BY <3>1, <3>2 DEF RootInv
  <2>3. NotBefore(d.reg, d.roots, d.since)
    BY <2>1, <2>2 DEF NotBefore
  <2> QED BY <1>3, <2>1, <2>3
<1>5. CASE ReadFails(q)
  BY <1>3, <1>5 DEF ReadFails
<1> QED BY <1>4, <1>5

LEMMA InstallRoots ==
  ASSUME TypeOK, RootInv, NEW q \in Readers, EndRead(q)
  PROVE  RootInv'
<1>1. UNCHANGED <<clock, head, dropped>>
  BY DEF EndRead
<1>2. /\ reads[q] \in Read /\ reads[q] # None /\ reads' = [reads EXCEPT ![q] = None]
      /\ \/ windows' = windows
         \/ \E d \in Window : /\ windows' = [windows EXCEPT ![reads[q].reg] = d]
                              /\ d.at = clock /\ d.roots = reads[q].roots
  BY EndReadFacts
<1>3. clock \in Int /\ ReadLimit \in Int /\ Times \subseteq Int
  BY ValidationBounds DEF TypeOK, Times
<1>4. \A o \in Readers : reads'[o] # None => reads'[o] = reads[o]
  BY <1>2 DEF TypeOK
<1>5. ASSUME NEW r \in Registries, windows'[r] # None
      PROVE  windows'[r].at <= clock /\ NotBefore(r, windows'[r].roots, windows'[r].at - ReadLimit)
  <2>1. CASE windows'[r] = windows[r]
    BY <1>5, <2>1 DEF RootInv
  <2>2. CASE windows'[r] # windows[r]
    <3>1. PICK d \in Window : /\ windows' = [windows EXCEPT ![reads[q].reg] = d]
                             /\ d.at = clock /\ d.roots = reads[q].roots
      BY <1>2, <2>2
    <3>2. r = reads[q].reg /\ windows'[r] = d
      BY <2>2, <3>1 DEF TypeOK
    <3>3. PICK a \in Read : a = reads[q]
      BY <1>2
    <3>4. clock <= a.since + ReadLimit /\ NotBefore(r, d.roots, a.since)
      BY <1>2, <3>1, <3>2, <3>3 DEF RootInv
    <3>5. a.since \in Times /\ a.roots \subseteq Roots
      BY DEF Read
    <3>6. \A x \in d.roots : dropped[r][x] # None => dropped[r][x] \in Times
      BY <3>1, <3>3, <3>5 DEF TypeOK
    <3>7. \A x \in d.roots : dropped[r][x] # None => d.at - ReadLimit <= dropped[r][x]
      <4> SUFFICES ASSUME NEW x \in d.roots, dropped[r][x] # None
                   PROVE  d.at - ReadLimit <= dropped[r][x]
        OBVIOUS
      <4>1. PICK t \in Int, s \in Int : t = dropped[r][x] /\ s = a.since
        BY <1>3, <3>5, <3>6
      <4>2. s <= t /\ clock <= s + ReadLimit
        BY <3>4, <4>1 DEF NotBefore
      <4>3. clock - ReadLimit <= t
        BY <1>3, <4>2
      <4> QED BY <3>1, <4>1, <4>3
    <3>8. d.at <= clock
      BY <1>3, <3>1
    <3> QED BY <3>2, <3>7, <3>8 DEF NotBefore
  <2> QED BY <2>1, <2>2
<1> QED BY <1>1, <1>4, <1>5 DEF RootInv, NotBefore

LEMMA TickRoots ==
  ASSUME TypeOK, RootInv, Tick
  PROVE  RootInv'
<1>1. /\ clock' = clock + 1 /\ UNCHANGED <<windows, reads, head, dropped>>
      /\ \A q \in Readers : reads[q] # None => clock - reads[q].since < ReadLimit
  BY DEF Tick
<1>2. clock \in Int /\ ReadLimit \in Int /\ Times \subseteq Int
  BY ValidationBounds DEF TypeOK, Times
<1>3. ASSUME NEW r \in Registries, NEW x \in Roots, dropped[r][x] # None
      PROVE  dropped[r][x] <= clock + 1
  <2>1. PICK t \in Int : t = dropped[r][x]
    BY <1>2, <1>3 DEF TypeOK
  <2>2. t <= clock
    BY <1>3, <2>1 DEF RootInv
  <2> QED BY <1>2, <2>1, <2>2
<1>4. ASSUME NEW q \in Readers, reads[q] # None
      PROVE  reads[q].since <= clock + 1 /\ clock + 1 <= reads[q].since + ReadLimit
  <2>1. PICK a \in Read : a = reads[q]
    BY <1>4 DEF TypeOK
  <2>2. PICK s \in Int : s = a.since
    BY <1>2 DEF Read
  <2>3. s <= clock /\ clock - s < ReadLimit
    BY <1>1, <1>4, <2>1, <2>2 DEF RootInv
  <2>4. s <= clock + 1 /\ clock + 1 <= s + ReadLimit
    BY <1>2, <2>3
  <2> QED BY <2>1, <2>2, <2>4
<1>5. ASSUME NEW r \in Registries, windows[r] # None
      PROVE  windows[r].at <= clock + 1
  <2>1. PICK d \in Window : d = windows[r]
    BY <1>5 DEF TypeOK
  <2>2. PICK s \in Int : s = d.at
    BY <1>2 DEF Window
  <2>3. s <= clock
    BY <1>5, <2>1, <2>2 DEF RootInv
  <2> QED BY <1>2, <2>1, <2>2, <2>3
<1> QED BY <1>1, <1>3, <1>4, <1>5 DEF RootInv, NotBefore

LEMMA RootsStep == TypeOK /\ RootInv /\ [Next]_vars => RootInv'
<1> SUFFICES ASSUME TypeOK, RootInv, [Next]_vars
             PROVE  RootInv'
  OBVIOUS
<1>1. ASSUME NEW r \in Registries, Rotate(r)
      PROVE  RootInv'
  BY <1>1, RotateRoots
<1>2. ASSUME NEW r \in Registries, NEW q \in Readers, BeginRead(q, r)
      PROVE  RootInv'
  BY <1>2, ReadRoots
<1>3. ASSUME NEW q \in Readers, EndRead(q) \/ ReadFails(q)
      PROVE  RootInv'
  BY <1>3, InstallRoots, ReadRoots
<1>4. CASE Tick
  BY <1>4, TickRoots
<1>5. CASE UNCHANGED <<clock, windows, reads, head, dropped>>
  BY <1>5, RootsQuiet
<1>6. \/ \E r \in Registries : Rotate(r) \/ \E q \in Readers : BeginRead(q, r)
      \/ \E q \in Readers : EndRead(q) \/ ReadFails(q)
      \/ Tick
      \/ UNCHANGED <<clock, windows, reads, head, dropped>>
  BY DEF Next, vars, Begin, CheckRoots, Nudge, Judge, Start
<1> QED BY <1>1, <1>2, <1>3, <1>4, <1>5, <1>6

LEMMA RootsAlways == Spec => [](TypeOK /\ RootInv)
<1>1. Init => RootInv
  BY DEF Init, RootInv
<1> QED BY <1>1, RootsStep, TypeCorrect, PTL DEF Spec

\* What RootsRecent says of one call.
RootRecent(v) ==
    (calls[v] # None /\ calls[v].pc = "window" /\ calls'[v] # None /\ calls'[v].pc = "verify") =>
        LET t == dropped[Home[calls[v].proof.null]][calls[v].proof.root]
        IN  t # None => clock - t <= StaleAfter + ReadLimit

LEMMA CheckRecent ==
  ASSUME TypeOK, RootInv, NEW v \in Validators, CheckRoots(v), calls'[v] # None, calls'[v].pc = "verify"
  PROVE  LET t == dropped[Home[calls[v].proof.null]][calls[v].proof.root]
         IN  t # None => clock - t <= StaleAfter + ReadLimit
<1>1. PICK d \in Call \cup {None} :
        /\ calls' = [calls EXCEPT ![v] = d] /\ calls[v] \in Call
        /\ d # None /\ d.pc = "verify" =>
             LET r == Home[calls[v].proof.null]
             IN  Warm(r) /\ calls[v].proof.root \in windows[r].roots
  BY CheckFacts
<1>2. calls'[v] = d
  BY <1>1 DEF TypeOK
<1>3. PICK r \in Registries, x \in Roots : r = Home[calls[v].proof.null] /\ x = calls[v].proof.root
  BY <1>1, CallFields
<1>4. Warm(r) /\ x \in windows[r].roots
  BY <1>1, <1>2, <1>3
<1>5. clock \in Int /\ ReadLimit \in Int /\ StaleAfter \in Int /\ Times \subseteq Int
  BY ValidationBounds DEF TypeOK, Times
<1>6. PICK w \in Window : w = windows[r]
  BY <1>4 DEF TypeOK, Warm
<1>7. PICK s \in Int : s = w.at
  BY <1>5 DEF Window
<1>8. clock - s <= StaleAfter
  BY <1>4, <1>6, <1>7 DEF Warm
<1>9. ASSUME dropped[r][x] # None
      PROVE  clock - dropped[r][x] <= StaleAfter + ReadLimit
  <2>a. dropped[r][x] \in Times
    BY <1>9 DEF TypeOK
  <2>1. PICK t \in Int : t = dropped[r][x]
    BY <1>5, <2>a
  <2>2. s - ReadLimit <= t
    BY <1>4, <1>6, <1>7, <1>9, <2>1 DEF RootInv, NotBefore, Warm
  <2>3. clock - t <= StaleAfter + ReadLimit
    BY <1>5, <1>8, <2>2
  <2> QED BY <2>1, <2>3
<1> QED BY <1>3, <1>9

\* Only CheckRoots lets a call go on to verification.
LEMMA RecentStep == TypeOK /\ RootInv /\ [Next]_vars => \A v \in Validators : RootRecent(v)
<1> SUFFICES ASSUME TypeOK, RootInv, [Next]_vars, NEW v \in Validators,
                    calls[v] # None, calls[v].pc = "window", calls'[v] # None, calls'[v].pc = "verify"
             PROVE  LET t == dropped[Home[calls[v].proof.null]][calls[v].proof.root]
                    IN  t # None => clock - t <= StaleAfter + ReadLimit
  BY DEF RootRecent
<1>1. calls'[v] # calls[v]
  OBVIOUS
<1>2. \/ \E u \in Validators : \/ \E p \in Proof : Begin(u, p)
                             \/ CheckRoots(u) \/ Nudge(u) \/ Judge(u)
      \/ calls' = calls
  BY DEF Next, vars, Rotate, BeginRead, EndRead, ReadFails, Start, Tick
<1>3. PICK u \in Validators : \/ \E p \in Proof : Begin(u, p)
                             \/ CheckRoots(u) \/ Nudge(u) \/ Judge(u)
  BY <1>1, <1>2
<1>4. CASE \E p \in Proof : Begin(u, p)
  <2>1. PICK p \in Proof : Begin(u, p)
    BY <1>4
  <2>2. \E d \in Call : calls' = [calls EXCEPT ![u] = d] /\ d.pc = "window"
    BY <2>1, BeginFacts
  <2> QED BY <1>1, <2>2 DEF TypeOK
<1>5. CASE CheckRoots(u)
  <2>1. \E d \in Call \cup {None} : calls' = [calls EXCEPT ![u] = d]
    BY <1>5, CheckFacts
  <2>2. u = v
    BY <1>1, <2>1 DEF TypeOK
  <2> QED BY <1>5, <2>2, CheckRecent
<1>6. CASE Nudge(u) \/ Judge(u)
  <2>1. calls' = [calls EXCEPT ![u] = None]
    BY <1>6 DEF Nudge, Judge
  <2> QED BY <1>1, <2>1 DEF TypeOK
<1> QED BY <1>3, <1>4, <1>5, <1>6

\* A root that passes left its registry's list no longer ago than a window may
\* age and a read may take (window(), refresh_one, adopt).
THEOREM RootsAreRecent == Spec => RootsRecent
<1>1. TypeOK /\ RootInv /\ [Next]_vars => [\A v \in Validators : RootRecent(v)]_vars
  BY RecentStep
<1>2. Spec => [][\A v \in Validators : RootRecent(v)]_vars
  BY <1>1, RootsAlways, PTL DEF Spec
<1> QED BY <1>2 DEF RootsRecent, RootRecent

-----------------------------------------------------------------------------
(* Exactness. *)

LEMMA OneFloor ==
  ASSUME OneConfig, TypeOK, config # None, NEW r \in Registries, NEW s \in Registries
  PROVE  RetainFloor(r) = RetainFloor(s)
<1>1. config \in Configs
  BY ConfigFacts
<1>2. config[r] = config[s]
  BY <1>1 DEF OneConfig
<1> QED BY <1>2 DEF RetainFloor, NowEpoch

\* Once configured, always configured, and no floor ever goes down.
Later == config # None =>
    config' # None /\ \A r \in Registries : RetainFloor(r) <= RetainFloor(r)'

LEMMA FloorsRise == ASSUME OneConfig PROVE TypeOK /\ [Next]_vars => Later
<1> SUFFICES ASSUME TypeOK, [Next]_vars, config # None
             PROVE  config' # None /\ \A r \in Registries : RetainFloor(r) <= RetainFloor(r)'
  BY DEF Later
<1>1. /\ config' = config \/ config' \in Configs
      /\ clock' = clock \/ clock' = clock + 1
  BY DEF Next, vars, Rotate, BeginRead, EndRead, ReadFails, Begin, CheckRoots, Nudge, Judge, Start, Tick
<1>2. config' # None
  BY <1>1, NoneAssumption
<1>3. ASSUME NEW r \in Registries
      PROVE  RetainFloor(r) <= RetainFloor(r)'
  <2>1. config \in Configs /\ config[r].size \in Nat \ {0} /\ config[r].gap \in Nat \ {0} /\ clock \in Nat
    BY ConfigFacts, ValidationBounds DEF TypeOK, Times
  <2>2. config'[r] = config[r]
    BY <1>1, <2>1 DEF OneConfig
  <2>3. PICK z \in Nat \ {0}, g \in Nat \ {0} : z = config[r].size /\ g = config[r].gap
    BY <2>1
  <2>4. PICK a \in Nat : a = clock \div z
    BY <2>1, DivFacts
  <2>5. PICK b \in Nat : b = clock' \div z
    BY <1>1, <2>1, DivFacts
  <2>6. a <= b
    BY <1>1, <2>1, <2>4, <2>5, DivFacts
  <2>7. RetainFloor(r) = IF a >= g THEN a - g ELSE 0
    BY <2>3, <2>4 DEF RetainFloor, NowEpoch, CurrentEpoch
  <2>8. RetainFloor(r)' = IF b >= g THEN b - g ELSE 0
    BY <2>2, <2>3, <2>5 DEF RetainFloor, NowEpoch, CurrentEpoch
  <2>9. (IF a >= g THEN a - g ELSE 0) <= (IF b >= g THEN b - g ELSE 0)
    BY <2>6
  <2> QED BY <2>7, <2>8, <2>9
<1> QED BY <1>2, <1>3

\* No step changes a call's proof or floor.
LEMMA CallsKept ==
  ASSUME TypeOK, [Next]_vars, NEW v \in Validators, calls'[v] # None
  PROVE  \/ /\ calls[v] \in Call /\ calls[v] # None
            /\ calls'[v].proof = calls[v].proof /\ calls'[v].floor = calls[v].floor
         \/ /\ config # None /\ UNCHANGED <<clock, config>> /\ calls'[v] \in Call
            /\ calls'[v].floor = RetainFloor(Home[calls'[v].proof.null])
<1>1. calls[v] \in Call \cup {None} /\ None \notin Call
  BY NoneAssumption DEF TypeOK
<1>2. \/ \E u \in Validators : \/ \E p \in Proof : Begin(u, p)
                             \/ CheckRoots(u) \/ Nudge(u) \/ Judge(u)
      \/ calls' = calls
  BY DEF Next, vars, Rotate, BeginRead, EndRead, ReadFails, Start, Tick
<1>3. CASE calls'[v] = calls[v]
  BY <1>1, <1>3
<1>4. ASSUME calls'[v] # calls[v], NEW u \in Validators, NEW p \in Proof, Begin(u, p)
      PROVE  /\ config # None /\ UNCHANGED <<clock, config>> /\ calls'[v] \in Call
             /\ calls'[v].floor = RetainFloor(Home[calls'[v].proof.null])
  <2>1. PICK d \in Call : /\ calls' = [calls EXCEPT ![u] = d] /\ d.proof = p
                         /\ d.floor = RetainFloor(Home[p.null]) /\ config # None
    BY <1>4, BeginFacts
  <2>2. calls'[v] = d
    BY <1>4, <2>1 DEF TypeOK
  <2>3. UNCHANGED <<clock, config>>
    BY <1>4 DEF Begin
  <2> QED BY <2>1, <2>2, <2>3
<1>5. ASSUME calls'[v] # calls[v], NEW u \in Validators, CheckRoots(u)
      PROVE  /\ calls[v] \in Call
             /\ calls'[v].proof = calls[v].proof /\ calls'[v].floor = calls[v].floor
  <2>1. PICK d \in Call \cup {None} :
          /\ calls' = [calls EXCEPT ![u] = d] /\ calls[u] \in Call
          /\ d # None => Moved(calls[u], d)
    BY <1>5, CheckFacts
  <2>2. calls'[v] = IF v = u THEN d ELSE calls[v]
    BY <2>1 DEF TypeOK
  <2>3. u = v /\ calls'[v] = d
    BY <1>5, <2>2
  <2>4. Moved(calls[v], d)
    BY <2>1, <2>3
  <2> QED BY <2>1, <2>3, <2>4 DEF Moved
<1>6. ASSUME calls'[v] # calls[v], NEW u \in Validators, Nudge(u) \/ Judge(u)
      PROVE  FALSE
  <2>1. calls' = [calls EXCEPT ![u] = None]
    BY <1>6 DEF Nudge, Judge
  <2> QED BY <1>6, <2>1 DEF TypeOK
<1> QED BY <1>1, <1>2, <1>3, <1>4, <1>5, <1>6

LEMMA CallsStep ==
  ASSUME OneConfig, TypeOK, TypeOK', CallsBelow, [Next]_vars
  PROVE  CallsBelow'
<1> SUFFICES ASSUME NEW v \in Validators, calls'[v] # None
             PROVE  config' # None /\ calls'[v].floor <= RetainFloor(Home[calls[v].proof.null])'
  BY DEF CallsBelow
<1>1. CASE /\ calls[v] \in Call /\ calls[v] # None
           /\ calls'[v].proof = calls[v].proof /\ calls'[v].floor = calls[v].floor
  <2>1. PICK r \in Registries : r = Home[calls[v].proof.null]
    BY <1>1, CallFields
  <2>2. config # None /\ calls[v].floor <= RetainFloor(r)
    BY <1>1, <2>1 DEF CallsBelow
  <2>3. config' # None /\ RetainFloor(r) <= RetainFloor(r)'
    BY <2>2, FloorsRise DEF Later
  <2>4. RetainFloor(r) \in Nat
    BY <2>2, FloorFacts
  <2>5. RetainFloor(r)' \in Nat
    <3>1. (config # None)'
      BY <2>3
    <3>2. (RetainFloor(r) \in Nat)'
      BY <3>1, FloorFacts, PTL
    <3> QED BY <3>2
  <2>6. calls[v].floor \in Nat
    BY <1>1, CallFields DEF Epochs
  <2>7. calls[v].floor <= RetainFloor(r)'
    BY <2>2, <2>3, <2>4, <2>5, <2>6
  <2>8. RetainFloor(Home[calls[v].proof.null])' = RetainFloor(r)'
    BY <1>1, <2>1
  <2> QED BY <1>1, <2>3, <2>7, <2>8
<1>2. CASE /\ config # None /\ UNCHANGED <<clock, config>> /\ calls'[v] \in Call
           /\ calls'[v].floor = RetainFloor(Home[calls'[v].proof.null])
  <2>1. RetainFloor(Home[calls[v].proof.null])' = calls'[v].floor
    BY <1>2 DEF RetainFloor, NowEpoch
  <2>2. PICK f \in Int : f = calls'[v].floor
    BY <1>2, CallFields DEF Epochs
  <2>3. f <= f
    OBVIOUS
  <2> QED BY <1>2, <2>1, <2>2, <2>3
<1> QED BY <1>1, <1>2, CallsKept

\* What Judge does to an entry and to its count.
LEMMA JudgeEntry ==
  ASSUME TypeOK, NEW u \in Validators, Judge(u), NEW n \in Nullifiers, NEW e \in Epochs
  PROVE  /\ UNCHANGED <<clock, config>> /\ calls[u] \in Call /\ calls[u] # None
         /\ \/ log'[e][n] = log[e][n] /\ valid'[<<n, e>>] = valid[<<n, e>>]
            \/ e < calls[u].floor /\ log'[e][n] = None /\ valid'[<<n, e>>] = valid[<<n, e>>]
            \/ /\ Kept(e, n, calls[u].floor) = None /\ log'[e][n] # None
               /\ n = calls[u].proof.null
<1>1. /\ calls[u] \in Call /\ UNCHANGED <<clock, config>>
      /\ \/ UNCHANGED <<log, valid, accused>>
         \/ MayVerify(calls[u].proof) /\ RecordVerified(calls[u].proof, calls[u].floor)
  BY JudgeFacts
<1>2. calls[u] # None
  BY DEF Judge
<1>3. PICK p \in Proof, f \in Epochs : p = calls[u].proof /\ f = calls[u].floor
  BY <1>1, CallFields
<1>4. CASE UNCHANGED <<log, valid>>
  BY <1>1, <1>2, <1>4
<1>5. CASE RecordVerified(p, f)
  <2>1. LET fresh == Kept(p.epoch, p.null, f) = None
        IN  /\ \A b \in Epochs, m \in Nullifiers :
                 log'[b][m] = IF b = p.epoch /\ m = p.null /\ fresh THEN p.share ELSE Kept(b, m, f)
            /\ \A m \in Nullifiers, b \in Epochs :
                 valid'[<<m, b>>] = IF b = p.epoch /\ m = p.null /\ fresh
                                    THEN valid[<<m, b>>] + 1 ELSE valid[<<m, b>>]
    BY <1>5, RecordFacts
  <2>2. CASE e = p.epoch /\ n = p.null /\ Kept(p.epoch, p.null, f) = None
    <3>1. log'[e][n] = p.share
      BY <2>1, <2>2
    <3>2. p.share # None
      BY NoneAssumption DEF Proof
    <3> QED BY <1>1, <1>2, <1>3, <2>2, <3>1, <3>2
  <2>3. CASE ~(e = p.epoch /\ n = p.null /\ Kept(p.epoch, p.null, f) = None)
    <3>1. log'[e][n] = Kept(e, n, f)
      BY <2>1, <2>3
    <3>2. valid'[<<n, e>>] = valid[<<n, e>>]
      BY <2>1, <2>3
    <3> QED BY <1>1, <1>2, <1>3, <3>1, <3>2 DEF Kept
  <2> QED BY <2>2, <2>3
<1> QED BY <1>1, <1>3, <1>4, <1>5

\* Pruning keeps what is in or above the window of the clock.
LEMMA BelowFloor ==
  ASSUME OneConfig, TypeOK, CallsBelow, NEW u \in Validators, calls[u] \in Call, calls[u] # None,
         NEW r \in Registries
  PROVE  config # None /\ calls[u].floor <= RetainFloor(r) /\ calls[u].floor \in Int /\ RetainFloor(r) \in Int
<1>1. PICK s \in Registries : s = Home[calls[u].proof.null]
  BY CallFields
<1>2. config # None /\ calls[u].floor <= RetainFloor(s)
  BY <1>1 DEF CallsBelow
<1>3. RetainFloor(s) = RetainFloor(r)
  BY <1>2, OneFloor
<1>4. RetainFloor(r) \in Int
  BY <1>2, FloorFacts
<1>5. calls[u].floor \in Epochs
  BY CallFields
<1>6. calls[u].floor \in Int
  BY <1>5 DEF Epochs
<1> QED BY <1>2, <1>3, <1>4, <1>6

LEMMA ValidStep ==
  ASSUME OneConfig, TypeOK, TypeOK', CallsBelow, ValidLogged, [Next]_vars
  PROVE  ValidLogged'
<1> SUFFICES ASSUME NEW n \in Nullifiers, NEW e \in Epochs, valid'[<<n, e>>] # 0
             PROVE  config' # None /\ (log'[e][n] # None \/ e < RetainFloor(Home[n])')
  BY DEF ValidLogged
<1>1. PICK r \in Registries : r = Home[n]
  BY ValidationConstants
<1>2. e \in Int
  BY DEF Epochs
<1>3. ASSUME valid[<<n, e>>] # 0, log'[e][n] = log[e][n]
      PROVE  config' # None /\ (log'[e][n] # None \/ e < RetainFloor(r)')
  <2>1. config # None /\ (log[e][n] # None \/ e < RetainFloor(r))
    BY <1>1, <1>3 DEF ValidLogged
  <2>2. config' # None /\ RetainFloor(r) <= RetainFloor(r)'
    BY <2>1, FloorsRise DEF Later
  <2>3. RetainFloor(r) \in Nat
    BY <2>1, FloorFacts
  <2>4. (RetainFloor(r) \in Nat)'
    <3>1. (config # None)'
      BY <2>2
    <3> QED BY <3>1, FloorFacts, PTL
  <2>5. e < RetainFloor(r) => e < RetainFloor(r)'
    BY <1>2, <2>2, <2>3, <2>4
  <2> QED BY <1>3, <2>1, <2>2, <2>5
<1>4. ASSUME NEW u \in Validators, Judge(u)
      PROVE  config' # None /\ (log'[e][n] # None \/ e < RetainFloor(r)')
  <2>1. /\ UNCHANGED <<clock, config>> /\ calls[u] \in Call /\ calls[u] # None
        /\ \/ log'[e][n] = log[e][n] /\ valid'[<<n, e>>] = valid[<<n, e>>]
           \/ e < calls[u].floor /\ log'[e][n] = None /\ valid'[<<n, e>>] = valid[<<n, e>>]
           \/ log'[e][n] # None
    BY <1>4, JudgeEntry
  <2>2. /\ config # None /\ calls[u].floor <= RetainFloor(r)
        /\ calls[u].floor \in Int /\ RetainFloor(r) \in Int
    BY <2>1, BelowFloor
  <2>3. config' # None /\ RetainFloor(r)' = RetainFloor(r)
    BY <2>1, <2>2 DEF RetainFloor, NowEpoch
  <2>4. CASE log'[e][n] = log[e][n] /\ valid'[<<n, e>>] = valid[<<n, e>>]
    BY <1>3, <2>4
  <2>5. CASE e < calls[u].floor
    <3>1. e < RetainFloor(r)
      BY <1>2, <2>2, <2>5
    <3> QED BY <2>3, <3>1
  <2>6. CASE log'[e][n] # None
    BY <2>3, <2>6
  <2> QED BY <2>1, <2>4, <2>5, <2>6
<1>5. (\E u \in Validators : Judge(u)) \/ UNCHANGED <<log, valid>>
  BY DEF Next, vars, Rotate, BeginRead, EndRead, ReadFails, Begin, CheckRoots, Nudge, Start, Tick
<1>6. config' # None /\ (log'[e][n] # None \/ e < RetainFloor(r)')
  BY <1>3, <1>4, <1>5
<1> QED BY <1>1, <1>6

\* What ExactWhileFresh says of one nullifier and epoch.
Exact(n, e) ==
    (valid'[<<n, e>>] > valid[<<n, e>>] /\
     EpochInWindow(e, NowEpoch(Home[n]), config[Home[n]].gap)) => valid[<<n, e>>] = 0

LEMMA ExactStep ==
  ASSUME OneConfig, TypeOK, CallsBelow, ValidLogged, [Next]_vars
  PROVE  \A n \in Nullifiers, e \in Epochs : Exact(n, e)
<1> SUFFICES ASSUME NEW n \in Nullifiers, NEW e \in Epochs, valid'[<<n, e>>] > valid[<<n, e>>],
                    EpochInWindow(e, NowEpoch(Home[n]), config[Home[n]].gap), valid[<<n, e>>] # 0
             PROVE  FALSE
  BY DEF Exact
<1>1. PICK r \in Registries : r = Home[n]
  BY ValidationConstants
<1>2. valid[<<n, e>>] \in Nat /\ e \in Int
  BY DEF TypeOK, Epochs
<1>3. valid'[<<n, e>>] # valid[<<n, e>>]
  BY <1>2
<1>4. PICK u \in Validators : Judge(u)
  BY <1>3 DEF Next, vars, Rotate, BeginRead, EndRead, ReadFails, Begin, CheckRoots, Nudge, Start, Tick
<1>5. calls[u] \in Call /\ calls[u] # None /\ Kept(e, n, calls[u].floor) = None
  BY <1>3, <1>4, JudgeEntry
<1>6. /\ config # None /\ calls[u].floor <= RetainFloor(r)
      /\ calls[u].floor \in Int /\ RetainFloor(r) \in Int
  BY <1>5, BelowFloor
<1>7. RetainFloor(r) <= e
  BY <1>1, <1>6, WindowAboveFloor
<1>8. ~(e < calls[u].floor) /\ ~(e < RetainFloor(r))
  BY <1>2, <1>6, <1>7
<1>9. log[e][n] # None
  BY <1>1, <1>8 DEF ValidLogged
<1> QED BY <1>5, <1>8, <1>9 DEF Kept

\* Pruning loses nothing: of the proofs of a nullifier only the first is answered
\* "valid" while their epoch is in the window, however calls interleave, as long
\* as no registry overrides the epoch size or the gap (record_verified, whose
\* log and floor all registries share).
THEOREM ExactUnderOneConfig ==
  ASSUME OneConfig
  PROVE  Spec => ExactWhileFresh
<1>1. Init => FreshInv
  BY DEF Init, FreshInv, CallsBelow, ValidLogged
<1>2. TypeOK /\ TypeOK' /\ FreshInv /\ [Next]_vars => FreshInv'
  <2> SUFFICES ASSUME TypeOK, TypeOK', FreshInv, [Next]_vars
               PROVE  FreshInv'
    OBVIOUS
  <2>1. CallsBelow /\ ValidLogged
    BY DEF FreshInv
  <2>2. CallsBelow' /\ ValidLogged'
    BY <2>1, CallsStep, ValidStep
  <2> QED BY <2>2 DEF FreshInv
<1>3. TypeOK /\ FreshInv /\ [Next]_vars => [\A n \in Nullifiers, e \in Epochs : Exact(n, e)]_vars
  BY ExactStep DEF FreshInv
<1>4. Spec => [][\A n \in Nullifiers, e \in Epochs : Exact(n, e)]_vars
  BY <1>1, <1>2, <1>3, TypeCorrect, PTL DEF Spec
<1> QED BY <1>4 DEF ExactWhileFresh, Exact

====
