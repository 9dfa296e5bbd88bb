---- MODULE SealedStore ----
(***************************************************************************)
(* The sealed keystore of one module instance (sealed_store/store.rs), the   *)
(* files it lives in, and the auto-unlock walk that decides where its        *)
(* password comes from (keychain.rs).                                        *)
(*                                                                           *)
(* Every store operation runs under one mutex, so its steps are seen only by *)
(* a crash: insert, which writes three files in order, is a sequence of      *)
(* actions with a crash possible between any two, the others are one action  *)
(* each.  A durable write may fail before its rename or after it.  The       *)
(* auto-unlock walk holds its own lock, which a manual unlock and            *)
(* remember_keystore_password do not take: what the walk has read may have   *)
(* changed when it uses it.                                                  *)
(* While the process is down a file may be lost or damaged from outside.     *)
(*                                                                           *)
(* A credential's ciphertext is the password whose key sealed it, a section's *)
(* MAC the password whose key made it, or None when it does not verify.       *)
(*                                                                           *)
(* Definitions named Wrong... are seeded faults, as in SlotAllocation.        *)
(***************************************************************************)
EXTENDS Integers, FiniteSets

CONSTANTS
    Hashes,         \* membership hashes, one fresh identity per insert
    UserPasswords,  \* passwords a person types into unlock_keystore
    Secrets,        \* secrets auto-unlock generates, one per generation
    Walkers,        \* concurrent auto-unlock and remember calls
    Rememberers,    \* those of them that are remember_keystore_password
    MaxSlots,       \* bound: reservations of one membership
    MaxUuids,       \* bound: store uuids generated
    MaxFaults,      \* bound: writes that fail, and files lost or damaged
    MaxOpens,       \* bound: times the store is opened
    None,
    Corrupt         \* a file that does not parse

ASSUME SealedStoreBounds ==
    /\ {MaxSlots, MaxUuids, MaxFaults, MaxOpens} \subseteq Nat
    /\ Rememberers \subseteq Walkers
    /\ Corrupt # None
    /\ None \notin UserPasswords \cup Secrets
    /\ UserPasswords \cap Secrets = {}

VARIABLES
    disk,      \* the files
    item,      \* the OS keychain item, or None
    inner,     \* the open store's memory, or None
    shown,     \* the published snapshot
    ins,       \* the insert under way: its hash and its next step, or None
    walks,     \* each auto-unlock or remember call under way
    minted,    \* history: hashes an insert was begun for
    acked,     \* history: hashes whose insert returned Ok
    issued,    \* history: how many slots of each hash were handed out
    damage,    \* history: what was done to the files from outside
    replaced,  \* history: keychain items overwritten while they were in use
    count      \* how much of each bound is used

vars == <<disk, item, inner, shown, ins, walks, minted, acked, issued, damage, replaced, count>>
history == <<minted, acked, issued, damage, replaced>>

\* A password stands for the keys derived from it, and for what they seal.
Passwords == UserPasswords \cup Secrets
Counts == 0 .. MaxSlots
Rows == {"unknown", "pending", "active"}

SealedFile == [uuid : 0 .. MaxUuids, password : Passwords, creds : [Hashes -> Passwords \cup {None}]]
Section == [used : Counts, mac : Passwords \cup {None}]
Root == [key : Passwords, over : SUBSET Hashes]
Ledger == [sections : [Hashes -> Section \cup {None}], root : Root \cup {None}]
AllocationsFile == [uuid : 0 .. MaxUuids, ledger : Ledger]

Disk == [sealed : SealedFile \cup {None, Corrupt},
         alloc : AllocationsFile \cup {None, Corrupt},
         cache : [Hashes -> Rows],
         secret : Passwords \cup {None}]

Inner == [sealed : SealedFile \cup {None}, sections : [Hashes -> Counts \cup {None}], raw : Ledger,
          rows : [Hashes -> Rows], census : SUBSET Hashes, keyed : SUBSET Hashes,
          session : Passwords \cup {None}]

Snapshot == [recs : SUBSET Hashes, quarantined : SUBSET Hashes, rows : [Hashes -> Rows]]

\* The steps of auto-unlock, and "remember": a remember call with what it read.
Walk == [at : {"lock", "file", "keychain", "item", "write", "unlock", "remember"},
         secret : Passwords \cup {None}, rejected : BOOLEAN, closed : BOOLEAN, provisioned : BOOLEAN]

Inserts == [hash : Hashes, step : {"row", "credential"}]

Tally == [opens : 0 .. MaxOpens, faults : 0 .. MaxFaults, uuids : 0 .. MaxUuids,
          drawn : SUBSET Secrets]

\* None and Corrupt are none of the values they stand in for.
ASSUME NoneAssumption ==
    /\ None \notin SealedFile \cup AllocationsFile \cup Inner \cup Section \cup Root \cup Walk
                   \cup Inserts \cup Counts
    /\ Corrupt \notin SealedFile \cup AllocationsFile

\* The hashes a function over Hashes has an entry for.
Entries(f) == {h \in Hashes : f[h] # None}
NoEntries == [h \in Hashes |-> None]

Credentials(file) == IF file \in {None, Corrupt} THEN {} ELSE Entries(file.creds)
Quarantined(st) == st.census \cup st.keyed
NoLedger == [sections |-> NoEntries, root |-> None]
NoSnapshot == [recs |-> {}, quarantined |-> {}, rows |-> [h \in Hashes |-> "unknown"]]

\* build_snapshot: a record per credential, quarantined or not.
BuildSnapshot(st) ==
    [recs |-> Credentials(st.sealed), quarantined |-> Quarantined(st), rows |-> st.rows]

-----------------------------------------------------------------------------
(* Files. *)

\* How a write may end: done, failed before the rename, failed after it (the
\* directory sync).  The last two return the same error.
Outcomes == {"ok", "before", "after"}
MayEnd(o) == o # "ok" => count.faults < MaxFaults
Charged(o) == IF o = "ok" THEN 0 ELSE 1

\* write_allocations: trusted sections restamped under the session's key,
\* quarantined ones as loaded, no orphan carried; the root covers what is written.
WrongStamp(st, h) ==
    IF st.sections[h] = None THEN None ELSE [used |-> st.sections[h], mac |-> st.session]
Stamp(st, h) ==
    IF st.sections[h] = None THEN None
    ELSE IF h \in Quarantined(st) THEN st.raw.sections[h]
    ELSE [used |-> st.sections[h], mac |-> st.session]
LedgerOf(st) ==
    LET secs == [h \in Hashes |-> Stamp(st, h)]
    IN  [sections |-> secs, root |-> [key |-> st.session, over |-> Entries(secs)]]

\* load_sealed: a file that does not parse is moved aside, the store is as new.
LoadSealed(d) == IF d.sealed = Corrupt THEN None ELSE d.sealed
MovedAside(d) ==
    [d EXCEPT !.sealed = LoadSealed(d), !.alloc = IF @ = Corrupt THEN None ELSE @]

\* The ledger belongs to this store.
LedgerBound(d) ==
    /\ d.alloc \notin {None, Corrupt}
    /\ LoadSealed(d) # None
    /\ d.alloc.uuid = LoadSealed(d).uuid

\* load_allocations: sections of known credentials, and the credentials to
\* quarantine: all when the ledger is missing, corrupt or foreign, else those
\* without a section.
LoadSections(d) ==
    [h \in Hashes |->
        IF LedgerBound(d) /\ h \in Credentials(d.sealed) /\ d.alloc.ledger.sections[h] # None
        THEN d.alloc.ledger.sections[h].used ELSE None]
LoadCensus(d) ==
    IF LedgerBound(d) THEN Credentials(d.sealed) \ Entries(d.alloc.ledger.sections)
    ELSE Credentials(d.sealed)
LoadRaw(d) == IF d.alloc \in {None, Corrupt} THEN NoLedger ELSE d.alloc.ledger

\* load_cache: rows of unknown hashes are dropped.
LoadCache(d) == [h \in Hashes |-> IF h \in Credentials(d.sealed) THEN d.cache[h] ELSE "unknown"]

Loaded(d) ==
    [sealed |-> LoadSealed(d), sections |-> LoadSections(d), raw |-> LoadRaw(d),
     rows |-> LoadCache(d), census |-> LoadCensus(d), keyed |-> {}, session |-> None]

-----------------------------------------------------------------------------
(* Opening and closing. *)

Idle == ins = None

OpenFiles ==
    /\ count.opens < MaxOpens
    /\ count' = [count EXCEPT !.opens = @ + 1]
    /\ disk' = MovedAside(disk)
    /\ inner' = Loaded(disk)
    /\ shown' = BuildSnapshot(Loaded(disk))
    /\ UNCHANGED <<item, ins, history>>

\* Store::open
Open ==
    /\ inner = None
    /\ OpenFiles
    /\ UNCHANGED walks

\* A walk that holds the store which is being closed keeps its handle; a
\* remember call that has read the session has no more use for its own.
Closed(w) ==
    IF w = None \/ w.closed \/ w.at = "remember" THEN w
    ELSE [w EXCEPT !.closed = TRUE, !.provisioned = inner.sealed # None]

\* open_store of a repeated on_context_ready: close, then open.
Reopen ==
    /\ inner # None /\ Idle
    /\ OpenFiles
    /\ walks' = [w \in Walkers |-> Closed(walks[w])]

\* The process dies; what it wrote stays.
Crash ==
    /\ inner # None
    /\ inner' = None /\ shown' = NoSnapshot /\ ins' = None
    /\ walks' = [w \in Walkers |-> None]
    /\ UNCHANGED <<disk, item, history, count>>

-----------------------------------------------------------------------------
(* unlock. *)

\* Nothing could verify the password.
AllQuarantined == Credentials(inner.sealed) # {} /\ Credentials(inner.sealed) \subseteq inner.census

WrongEmpty == Credentials(inner.sealed) \ inner.census = {}
Empty == Credentials(inner.sealed) = {}

WrongVerifier(p) == TRUE
VerifierMatches(p) == inner.sealed.password = p

\* Keyed verification: the credential, its section, and the root over the
\* sections as stored, whose mismatch cannot be attributed to one of them.
RootOk(p) ==
    \/ Entries(inner.raw.sections) = {}
    \/ inner.raw.root = [key |-> p, over |-> Entries(inner.raw.sections)]
SectionOk(p, h) == inner.raw.sections[h] # None /\ inner.raw.sections[h].mac = p
Verified(p) ==
    {h \in Credentials(inner.sealed) \ inner.census :
        inner.sealed.creds[h] = p /\ SectionOk(p, h) /\ RootOk(p)}

\* What unlock answers: "ok" with the session set, or why not.
UnlockAnswer(p) ==
    CASE AllQuarantined /\ ~Empty -> "refused"
      [] Empty -> "empty"
      [] ~Empty /\ ~AllQuarantined /\ ~VerifierMatches(p) -> "bad_password"
      [] OTHER -> "ok"

\* An empty store takes any password, durably, and keeps its uuid if it has one.
Provision(p, o) ==
    LET new == inner.sealed = None
        file == [uuid |-> IF new THEN count.uuids + 1 ELSE inner.sealed.uuid,
                 password |-> p, creds |-> NoEntries]
        st == [inner EXCEPT !.sealed = file, !.session = p]
    IN  /\ MayEnd(o) /\ (new => count.uuids < MaxUuids)
        /\ count' = [count EXCEPT !.faults = @ + Charged(o), !.uuids = IF new THEN @ + 1 ELSE @]
        /\ disk' = [disk EXCEPT !.sealed = IF o = "before" THEN @ ELSE file]
        /\ inner' = IF o = "ok" THEN st ELSE inner
        /\ shown' = IF o = "ok" THEN BuildSnapshot(st) ELSE shown

OpenSession(p) ==
    LET st == [inner EXCEPT !.session = p,
                            !.keyed = Credentials(inner.sealed) \ (inner.census \cup Verified(p))]
    IN  inner' = st /\ shown' = BuildSnapshot(st) /\ UNCHANGED <<disk, count>>

UnlockStep(p, o) ==
    \/ UnlockAnswer(p) = "empty" /\ Provision(p, o)
    \/ UnlockAnswer(p) = "ok" /\ o = "ok" /\ OpenSession(p)
    \/ /\ UnlockAnswer(p) \in {"refused", "bad_password"} /\ o = "ok"
       /\ UNCHANGED <<disk, inner, shown, count>>

\* unlock_keystore; a call that is refused changes nothing.
Unlock(p, o) ==
    /\ inner # None /\ Idle
    /\ UnlockAnswer(p) \in {"empty", "ok"}
    /\ UnlockStep(p, o)
    /\ UNCHANGED <<item, ins, walks, history>>

\* lock_keystore
Lock ==
    /\ inner # None /\ Idle /\ inner.session # None
    /\ inner' = [inner EXCEPT !.session = None]
    /\ UNCHANGED <<disk, item, shown, ins, walks, history, count>>

-----------------------------------------------------------------------------
(* insert: allocations, cache row, credential. *)

\* (a) The fresh section, durably.
InsertSection(h, o) ==
    LET st == [inner EXCEPT !.sections[h] = 0]
    IN  /\ inner # None /\ Idle /\ inner.session # None
        /\ h \notin minted
        /\ minted' = minted \cup {h}
        /\ MayEnd(o)
        /\ count' = [count EXCEPT !.faults = @ + Charged(o)]
        /\ disk' = [disk EXCEPT !.alloc =
                       IF o = "before" THEN @ ELSE [uuid |-> st.sealed.uuid, ledger |-> LedgerOf(st)]]
        /\ inner' = IF o = "ok" THEN [st EXCEPT !.raw = LedgerOf(st)] ELSE st
        /\ ins' = IF o = "ok" THEN [hash |-> h, step |-> "row"] ELSE None
        /\ UNCHANGED <<item, shown, walks, acked, issued, damage, replaced>>

\* (b) The cache row, loosely: the write is not synced and has no after.
InsertRow(o) ==
    /\ ins # None /\ ins.step = "row"
    /\ o # "after" /\ MayEnd(o)
    /\ count' = [count EXCEPT !.faults = @ + Charged(o)]
    /\ inner' = [inner EXCEPT !.rows[ins.hash] = "pending"]
    /\ disk' = [disk EXCEPT !.cache = IF o = "ok" THEN inner'.rows ELSE @]
    /\ ins' = IF o = "ok" THEN [ins EXCEPT !.step = "credential"] ELSE None
    /\ UNCHANGED <<item, shown, walks, history>>

WrongCommitted(o) == TRUE
Committed(o) == o = "ok"

\* (c) The credential: into memory, then durably, then published.
InsertCredential(o) ==
    LET h == ins.hash
        st == [inner EXCEPT !.sealed.creds[h] = inner.session]
    IN  /\ ins # None /\ ins.step = "credential"
        /\ MayEnd(o)
        /\ count' = [count EXCEPT !.faults = @ + Charged(o)]
        /\ inner' = st
        /\ disk' = [disk EXCEPT !.sealed = IF o = "before" THEN @ ELSE st.sealed]
        /\ shown' = IF Committed(o) THEN BuildSnapshot(st) ELSE shown
        /\ acked' = IF Committed(o) THEN acked \cup {h} ELSE acked
        /\ ins' = None
        /\ UNCHANGED <<item, walks, minted, issued, damage, replaced>>

-----------------------------------------------------------------------------
(* reserve_message_id and update_cache. *)

\* unseal_credential, which generate_proof asks first.
Unsealable(h) ==
    inner.session # None /\ h \in Credentials(inner.sealed) \ Quarantined(inner)

\* A slot goes out only when its counter is on disk; memory and snapshot keep
\* the advance either way.
Reserve(h, o) ==
    LET st == [inner EXCEPT !.sections[h] = @ + 1]
    IN  /\ inner # None /\ Idle
        /\ h \in shown.recs /\ Unsealable(h)
        /\ inner.sections[h] # None
        /\ inner.sections[h] < MaxSlots
        /\ MayEnd(o)
        /\ count' = [count EXCEPT !.faults = @ + Charged(o)]
        /\ disk' = [disk EXCEPT !.alloc =
                       IF o = "before" THEN @ ELSE [uuid |-> st.sealed.uuid, ledger |-> LedgerOf(st)]]
        /\ inner' = IF o = "ok" THEN [st EXCEPT !.raw = LedgerOf(st)] ELSE st
        /\ shown' = BuildSnapshot(st)
        /\ issued' = IF o = "ok" THEN [issued EXCEPT ![h] = st.sections[h]] ELSE issued
        /\ UNCHANGED <<item, ins, walks, minted, acked, damage, replaced>>

\* The poller finds the registration confirmed: the row changes, then the file
\* is written, then the snapshot and the event follow.
Confirm(h, o) ==
    LET st == [inner EXCEPT !.rows[h] = "active"]
    IN  /\ inner # None /\ Idle
        /\ h \in shown.recs \ shown.quarantined
        /\ shown.rows[h] \in {"pending", "unknown"}
        /\ o # "after" /\ MayEnd(o)
        /\ count' = [count EXCEPT !.faults = @ + Charged(o)]
        /\ inner' = st
        /\ disk' = [disk EXCEPT !.cache = IF o = "ok" THEN st.rows ELSE @]
        /\ shown' = IF o = "ok" THEN BuildSnapshot(st) ELSE shown
        /\ UNCHANGED <<item, ins, walks, history>>

-----------------------------------------------------------------------------
(* The auto-unlock walk (auto_unlock_core). *)

Walked(w, next) == walks' = [walks EXCEPT ![w] = next]

\* The store handle is taken before the walk's lock.
WalkBegin(w) ==
    /\ w \notin Rememberers
    /\ inner # None /\ walks[w] = None
    /\ Walked(w, [at |-> "lock", secret |-> None, rejected |-> FALSE, closed |-> FALSE,
                  provisioned |-> FALSE])
    /\ UNCHANGED <<disk, item, inner, shown, ins, history, count>>

WalkFree == \A w \in Walkers : walks[w] # None => walks[w].at \in {"lock", "remember"}

\* The lock, and the secret file.
WalkRead(w) ==
    /\ walks[w] # None /\ walks[w].at = "lock" /\ WalkFree
    /\ Walked(w, [walks[w] EXCEPT !.at = "file", !.secret = disk.secret])
    /\ UNCHANGED <<disk, item, inner, shown, ins, history, count>>

\* unlock through this walk's handle: a closed store refuses.
HandleUnlock(w, p, o) ==
    IF walks[w].closed THEN o = "ok" /\ UNCHANGED <<disk, inner, shown, count>>
    ELSE Idle /\ UnlockStep(p, o)
Rejects(w, p) == ~walks[w].closed /\ UnlockAnswer(p) = "bad_password"

\* The file's secret opens the store, or is rejected and moved aside, if it can be.
WalkFile(w, o) ==
    /\ walks[w] # None /\ walks[w].at = "file" /\ walks[w].secret # None
    /\ IF Rejects(w, walks[w].secret)
       THEN /\ Idle /\ o # "after" /\ MayEnd(o)
            /\ count' = [count EXCEPT !.faults = @ + Charged(o)]
            /\ disk' = [disk EXCEPT !.secret = IF o = "ok" THEN None ELSE @]
            /\ Walked(w, [walks[w] EXCEPT !.at = "keychain", !.rejected = TRUE])
            /\ UNCHANGED <<inner, shown>>
       ELSE HandleUnlock(w, walks[w].secret, o) /\ Walked(w, None)
    /\ UNCHANGED <<item, ins, history>>

WalkNoFile(w) ==
    /\ walks[w] # None /\ walks[w].at = "file" /\ walks[w].secret = None
    /\ Walked(w, [walks[w] EXCEPT !.at = "keychain"])
    /\ UNCHANGED <<disk, item, inner, shown, ins, history, count>>

\* The keychain is asked, and what it holds settles the walk, whatever unlock
\* says of it; the item and the store may change between the two.
WalkItem(w) ==
    /\ walks[w] # None /\ walks[w].at = "keychain" /\ item # None
    /\ Walked(w, [walks[w] EXCEPT !.at = "item", !.secret = item])
    /\ UNCHANGED <<disk, item, inner, shown, ins, history, count>>

WalkKeychain(w, o) ==
    /\ walks[w] # None /\ walks[w].at = "item"
    /\ HandleUnlock(w, walks[w].secret, o)
    /\ Walked(w, None)
    /\ UNCHANGED <<item, ins, history>>

\* Only a store that was never provisioned may be given a secret.
IsFresh(w) ==
    /\ ~walks[w].rejected
    /\ IF walks[w].closed THEN ~walks[w].provisioned ELSE inner.sealed = None

\* No item, or one that the keychain will not hand out.
WalkNoItem(w) ==
    /\ walks[w] # None /\ walks[w].at = "keychain"
    /\ Walked(w, IF IsFresh(w) THEN [walks[w] EXCEPT !.at = "write"] ELSE None)
    /\ UNCHANGED <<disk, item, inner, shown, ins, history, count>>

WrongSecretStored(o) == TRUE
\* A secret that could not be written is not used.
SecretStored(o) == o = "ok"

\* The generated secret is durable before the store is keyed to it.
WalkWrite(w, g, o) ==
    /\ walks[w] # None /\ walks[w].at = "write"
    /\ g \notin count.drawn
    /\ MayEnd(o)
    /\ count' = [count EXCEPT !.faults = @ + Charged(o), !.drawn = @ \cup {g}]
    /\ disk' = [disk EXCEPT !.secret = IF o = "before" THEN @ ELSE g]
    /\ Walked(w, IF SecretStored(o) THEN [walks[w] EXCEPT !.at = "unlock", !.secret = g] ELSE None)
    /\ UNCHANGED <<item, inner, shown, ins, history>>

WalkUnlock(w, o) ==
    /\ walks[w] # None /\ walks[w].at = "unlock"
    /\ HandleUnlock(w, walks[w].secret, o)
    /\ Walked(w, None)
    /\ UNCHANGED <<item, ins, history>>

-----------------------------------------------------------------------------
(* remember_keystore_password, where the platform has a keychain. *)

\* The password of the session is read under the store's mutex ...
RememberRead(w) ==
    /\ w \in Rememberers
    /\ inner # None /\ Idle /\ inner.session # None
    /\ walks[w] = None
    /\ Walked(w, [at |-> "remember", secret |-> inner.session, rejected |-> FALSE, closed |-> FALSE,
                  provisioned |-> FALSE])
    /\ UNCHANGED <<disk, item, inner, shown, ins, history, count>>

\* An item the store is keyed to, or an auto-unlock is about to key it to.
InUse(x) ==
    \/ inner.sealed # None /\ inner.sealed.password = x
    \/ \E v \in Walkers : walks[v] # None /\ walks[v].at = "item" /\ walks[v].secret = x

\* ... and replaces the item under no lock at all, unless the keychain refuses.
RememberWrite(w) ==
    /\ walks[w] # None /\ walks[w].at = "remember"
    /\ \/ /\ item' = walks[w].secret
          /\ replaced' = IF item' # item /\ InUse(item) THEN replaced \cup {item} ELSE replaced
       \/ UNCHANGED <<item, replaced>>
    /\ Walked(w, None)
    /\ UNCHANGED <<disk, inner, shown, ins, minted, acked, issued, damage, count>>

-----------------------------------------------------------------------------
(* What may happen to the files while the process is down. *)

Damaged(what) ==
    /\ inner = None
    /\ count.faults < MaxFaults
    /\ count' = [count EXCEPT !.faults = @ + 1]
    /\ damage' = damage \cup {what}
    /\ UNCHANGED <<item, inner, shown, ins, walks, minted, acked, issued, replaced>>

\* The ledger is lost, unparsable, or another store's (its uuid is no uuid of ours).
DamageLedger ==
    /\ disk.alloc # None
    /\ Damaged("ledger")
    /\ \/ disk' = [disk EXCEPT !.alloc = None]
       \/ disk' = [disk EXCEPT !.alloc = Corrupt]
       \/ disk.alloc # Corrupt /\ disk' = [disk EXCEPT !.alloc.uuid = 0]

\* One section's counter is no longer what its MAC covers, or the section is gone.
DamageSection(h) ==
    /\ disk.alloc \notin {None, Corrupt}
    /\ disk.alloc.ledger.sections[h] # None
    /\ Damaged("section")
    /\ \/ disk' = [disk EXCEPT !.alloc.ledger.sections[h] = [used |-> 0, mac |-> None]]
       \/ disk' = [disk EXCEPT !.alloc.ledger.sections[h] = None]

DamageSealed ==
    /\ disk.sealed # None
    /\ Damaged("sealed")
    /\ disk' = [disk EXCEPT !.sealed = Corrupt]

-----------------------------------------------------------------------------
Init ==
    /\ disk = [sealed |-> None, alloc |-> None, cache |-> [h \in Hashes |-> "unknown"],
               secret |-> None]
    /\ item = None
    /\ inner = None
    /\ shown = NoSnapshot
    /\ ins = None
    /\ walks = [w \in Walkers |-> None]
    /\ minted = {}
    /\ acked = {}
    /\ issued = [h \in Hashes |-> 0]
    /\ damage = {}
    /\ replaced = {}
    /\ count = [opens |-> 0, faults |-> 0, uuids |-> 0, drawn |-> {}]

StoreNext ==
    \/ Open \/ Reopen \/ Crash \/ Lock
    \/ \E o \in Outcomes :
        \/ \E p \in UserPasswords : Unlock(p, o)
        \/ \E h \in Hashes : InsertSection(h, o) \/ Reserve(h, o) \/ Confirm(h, o)
        \/ InsertRow(o) \/ InsertCredential(o)

WalkNext ==
    \E w \in Walkers :
        \/ WalkBegin(w) \/ WalkRead(w) \/ WalkNoFile(w) \/ WalkItem(w) \/ WalkNoItem(w)
        \/ \E o \in Outcomes :
            \/ WalkFile(w, o) \/ WalkKeychain(w, o) \/ WalkUnlock(w, o)
            \/ \E g \in Secrets : WalkWrite(w, g, o)

RememberNext == \E w \in Walkers : RememberRead(w) \/ RememberWrite(w)

DamageNext == DamageLedger \/ DamageSealed \/ \E h \in Hashes : DamageSection(h)

Next == StoreNext \/ WalkNext \/ RememberNext \/ DamageNext

Spec == Init /\ [][Next]_vars

-----------------------------------------------------------------------------
(* Properties. *)

TypeOK ==
    /\ disk \in Disk
    /\ item \in Passwords \cup {None}
    /\ inner \in Inner \cup {None}
    /\ shown \in Snapshot
    /\ ins \in Inserts \cup {None}
    /\ walks \in [Walkers -> Walk \cup {None}]
    /\ minted \subseteq Hashes /\ acked \subseteq minted
    /\ issued \in [Hashes -> Counts]
    /\ damage \subseteq {"ledger", "section", "sealed"}
    /\ replaced \subseteq Passwords \cup {None}
    /\ count \in Tally

\* A membership is quarantined only when a file was damaged from outside: no
\* order of crashes, failed writes, password changes of an empty store and
\* reopenings makes the keystore distrust what it wrote itself.
NoFalseQuarantine ==
    inner # None /\ damage = {} => Quarantined(inner) = {}

\* A store that can issue slots of a membership counts at least those already
\* issued: a ledger that is lost, corrupt, another store's or edited beside
\* intact credentials quarantines and never starts the counter again.
CountersNeverRollBack ==
    \A h \in Hashes :
        inner # None /\ Unsealable(h) =>
            inner.sections[h] # None /\ inner.sections[h] >= issued[h]

\* An insert that returned Ok is in the sealed file for good, quarantined or
\* not, unless that file itself was damaged.
AckedSurvive ==
    "sealed" \notin damage => acked \subseteq Credentials(disk.sealed)

\* Every credential on disk can be opened again: by a password a person typed,
\* or by a secret that is on disk or in the keychain.  The one way to key the
\* store to a secret that is stored nowhere is a remember_keystore_password that
\* overwrites the keychain item an overlapping auto-unlock has read, or used.
CredentialsOpenable ==
    \A h \in Credentials(disk.sealed) :
        disk.sealed.creds[h] \in UserPasswords \cup {disk.secret, item} \cup replaced

Abs == INSTANCE Custody WITH
    kept <- Credentials(disk.sealed),
    password <- IF disk.sealed \in {None, Corrupt} THEN None ELSE disk.sealed.password

\* The files implement the custody of memberships: every step adds memberships,
\* changes the password of an empty store, or is damage.
ImplementsCustody == Abs!Spec
====
