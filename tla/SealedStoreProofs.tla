---- MODULE SealedStoreProofs ----
(***************************************************************************)
(* Theorems about SealedStore, for every set of memberships, passwords,      *)
(* generated secrets and auto-unlock calls, and any number of failed writes, *)
(* reopenings and damaged files; and the proof that it implements Custody.   *)
(***************************************************************************)
EXTENDS SealedStore, TLAPS

(* The inductive invariants. *)

\* Every credential of a file is sealed under the file's own password.
Uniform(file) == \A h \in Credentials(file) : file.creds[h] = file.password

\* Memory and disk agree on the sealed file but for credentials a failed write
\* left behind, and a session is open under the password of the file.
SealInv ==
    /\ Uniform(disk.sealed) /\ Credentials(disk.sealed) \subseteq minted
    /\ inner # None =>
         /\ Uniform(inner.sealed) /\ Credentials(inner.sealed) \subseteq minted
         /\ Credentials(disk.sealed) \subseteq Credentials(inner.sealed)
         /\ inner.sealed # None => disk.sealed \in SealedFile /\ disk.sealed.uuid = inner.sealed.uuid
         /\ Credentials(disk.sealed) # {} => disk.sealed.password = inner.sealed.password
         /\ inner.session # None => inner.sealed # None /\ inner.session = inner.sealed.password
    /\ ins # None => /\ inner # None /\ inner.session # None
                     /\ ins.hash \in minted /\ ins.hash \notin Credentials(inner.sealed)

\* The ledger l authenticates the memberships C under the password p.
Authentic(l, p, C) ==
    /\ \A h \in C : l.sections[h] # None /\ l.sections[h].mac = p
    /\ l.root = [key |-> p, over |-> Entries(l.sections)]

\* The memberships the store stands for, or is about to.
Claimed == Credentials(inner.sealed) \cup (IF ins = None THEN {} ELSE {ins.hash})

\* Without damage, the ledger authenticates every credential on disk and every
\* one in memory, the one being inserted included.
LedgerInv ==
    damage = {} =>
        /\ disk.alloc # Corrupt /\ disk.sealed # Corrupt
        /\ Credentials(disk.sealed) # {} =>
             /\ disk.alloc \in AllocationsFile /\ disk.alloc.uuid = disk.sealed.uuid
             /\ Authentic(disk.alloc.ledger, disk.sealed.password, Credentials(disk.sealed))
        /\ inner # None =>
             /\ Quarantined(inner) = {}
             /\ Claimed # {} =>
                  /\ \A h \in Claimed : inner.sections[h] # None
                  /\ Authentic(inner.raw, inner.sealed.password, Claimed)
                  /\ disk.alloc \in AllocationsFile /\ disk.alloc.uuid = inner.sealed.uuid
                  /\ Authentic(disk.alloc.ledger, inner.sealed.password, Claimed)

\* A section whose MAC verifies counts every slot issued.
Sound(l) ==
    \A h \in Hashes : l.sections[h] # None =>
        h \in minted /\ (l.sections[h].mac # None => l.sections[h].used >= issued[h])

\* The open store counts no less than the ledger it loaded or wrote last, for
\* what the census let pass; and what it would unseal, no less than was issued.
MemoryInv ==
    inner # None =>
        /\ Sound(inner.raw) /\ inner.census \subseteq minted
        /\ \A h \in Hashes :
             /\ inner.sections[h] # None => h \in minted
             /\ h \in Credentials(inner.sealed) \ inner.census => inner.sections[h] # None
             /\ h \notin inner.census /\ inner.sections[h] # None /\ inner.raw.sections[h] # None
                  => inner.sections[h] >= inner.raw.sections[h].used
             /\ inner.sections[h] # None /\ h \notin Credentials(inner.sealed) => issued[h] = 0
             /\ Unsealable(h) => inner.sections[h] >= issued[h]

CounterInv ==
    /\ \A h \in Hashes : issued[h] # 0 => h \in minted
    /\ disk.alloc \in AllocationsFile => Sound(disk.alloc.ledger)
    /\ MemoryInv
    /\ ins # None => inner.sections[ins.hash] # None /\ ins.hash \notin inner.census

\* One walk at a time is past its lock, and it knows what the secret file holds;
\* an item it has read is in the keychain still, or was replaced in its use.
WalkInv ==
    /\ \A w, v \in Walkers :
         /\ walks[w] # None /\ walks[w].at \notin {"lock", "remember"}
         /\ walks[v] # None /\ walks[v].at \notin {"lock", "remember"}
         => w = v
    /\ \A w \in Walkers : walks[w] # None =>
         /\ inner # None
         /\ walks[w].at \in {"file", "unlock"} => disk.secret = walks[w].secret
         /\ walks[w].at = "unlock" => walks[w].secret # None
         /\ walks[w].at = "keychain" /\ ~walks[w].rejected => disk.secret = None
         /\ walks[w].at = "write" => disk.secret = None
         /\ walks[w].at = "item" => walks[w].secret \in Passwords \cap ({item} \cup replaced)

\* Where a password can be found again, or was until its item was replaced.
Kept == UserPasswords \cup {disk.secret, item} \cup replaced

\* The store is keyed to a password that can be found again.
OpenableInv ==
    /\ Credentials(disk.sealed) # {} => disk.sealed.password \in Kept
    /\ inner # None /\ inner.session # None => inner.session \in Kept

-----------------------------------------------------------------------------
(* What each step does to the files and to the open store, field by field. *)

DiskIs(sealed, alloc, cache, secret) ==
    /\ disk' \in Disk
    /\ disk'.sealed = sealed /\ disk'.alloc = alloc /\ disk'.cache = cache /\ disk'.secret = secret

InnerIs(sealed, sections, raw, rows, census, keyed, session) ==
    /\ inner' \in Inner
    /\ inner'.sealed = sealed /\ inner'.sections = sections /\ inner'.raw = raw /\ inner'.rows = rows
    /\ inner'.census = census /\ inner'.keyed = keyed /\ inner'.session = session

SealedFiles == SealedFile \cup {None, Corrupt}
AllocationsFiles == AllocationsFile \cup {None, Corrupt}

LEMMA DiskFields ==
  ASSUME disk \in Disk
  PROVE  /\ disk.sealed \in SealedFiles /\ disk.alloc \in AllocationsFiles
         /\ disk.cache \in [Hashes -> Rows] /\ disk.secret \in Passwords \cup {None}
BY DEF Disk, SealedFiles, AllocationsFiles

LEMMA DiskSets ==
  ASSUME disk \in Disk
  PROVE  /\ \A s \in SealedFiles : disk' = [disk EXCEPT !.sealed = s]
              => DiskIs(s, disk.alloc, disk.cache, disk.secret)
         /\ \A a \in AllocationsFiles : disk' = [disk EXCEPT !.alloc = a]
              => DiskIs(disk.sealed, a, disk.cache, disk.secret)
         /\ \A c \in [Hashes -> Rows] : disk' = [disk EXCEPT !.cache = c]
              => DiskIs(disk.sealed, disk.alloc, c, disk.secret)
         /\ \A x \in Passwords \cup {None} : disk' = [disk EXCEPT !.secret = x]
              => DiskIs(disk.sealed, disk.alloc, disk.cache, x)
BY DEF Disk, SealedFiles, AllocationsFiles, DiskIs

LEMMA InnerFields ==
  ASSUME NEW st \in Inner
  PROVE  /\ st.sealed \in SealedFile \cup {None} /\ st.sections \in [Hashes -> Counts \cup {None}]
         /\ st.raw \in Ledger /\ st.rows \in [Hashes -> Rows]
         /\ st.census \in SUBSET Hashes /\ st.keyed \in SUBSET Hashes /\ st.session \in Passwords \cup {None}
BY DEF Inner

LEMMA FileFields ==
  ASSUME NEW f \in SealedFile
  PROVE  /\ f.uuid \in 0 .. MaxUuids /\ f.password \in Passwords /\ f.creds \in [Hashes -> Passwords \cup {None}]
         /\ Credentials(f) = {h \in Hashes : f.creds[h] # None}
         /\ f # None /\ f # Corrupt
BY NoneAssumption DEF SealedFile, Credentials, Entries

LEMMA NoFile == Credentials(None) = {} /\ Credentials(Corrupt) = {}
BY DEF Credentials

LEMMA LedgerFields ==
  ASSUME NEW l \in Ledger
  PROVE  /\ l.sections \in [Hashes -> Section \cup {None}] /\ l.root \in Root \cup {None}
         /\ \A h \in Hashes : l.sections[h] # None =>
              l.sections[h].used \in Counts /\ l.sections[h].mac \in Passwords \cup {None}
BY DEF Ledger, Section

LEMMA NoLedgerType == NoLedger \in Ledger
BY DEF NoLedger, Ledger, NoEntries

\* What write_allocations writes.
LEMMA LedgerOfFacts ==
  ASSUME NEW st \in Inner, st.session # None
  PROVE  /\ LedgerOf(st) \in Ledger
         /\ \A h \in Hashes : LedgerOf(st).sections[h] =
              IF st.sections[h] = None THEN None
              ELSE IF h \in Quarantined(st) THEN st.raw.sections[h]
              ELSE [used |-> st.sections[h], mac |-> st.session]
         /\ LedgerOf(st).root = [key |-> st.session, over |-> Entries(LedgerOf(st).sections)]
<1> DEFINE secs == [h \in Hashes |-> Stamp(st, h)]
           root == [key |-> st.session, over |-> Entries(secs)]
<1>1. LedgerOf(st) = [sections |-> secs, root |-> root]
  BY DEF LedgerOf
<1>2. \A h \in Hashes : Stamp(st, h) \in Section \cup {None}
  <2> SUFFICES ASSUME NEW h \in Hashes PROVE Stamp(st, h) \in Section \cup {None}
    OBVIOUS
  <2>1. st.raw.sections[h] \in Section \cup {None}
    BY InnerFields, LedgerFields
  <2>2. st.sections[h] # None => st.sections[h] \in Counts
    BY InnerFields
  <2>3. st.session \in Passwords
    BY InnerFields
  <2>4. st.sections[h] # None => [used |-> st.sections[h], mac |-> st.session] \in Section
    BY <2>2, <2>3 DEF Section
  <2> QED BY <2>1, <2>4 DEF Stamp
<1>3. secs \in [Hashes -> Section \cup {None}]
  BY <1>2
<1>4. Entries(secs) \subseteq Hashes
  BY DEF Entries
<1>5. root \in Root
  BY <1>4, InnerFields DEF Root
<1>6. \A h \in Hashes : secs[h] = Stamp(st, h)
  OBVIOUS
<1> HIDE DEF secs
<1>7. root = [key |-> st.session, over |-> Entries(secs)]
  OBVIOUS
<1> HIDE DEF root
<1>8. LedgerOf(st) \in Ledger /\ LedgerOf(st).sections = secs /\ LedgerOf(st).root = root
  BY <1>1, <1>3, <1>5 DEF Ledger
<1> QED BY <1>6, <1>7, <1>8 DEF Stamp

LEMMA SnapshotType ==
  ASSUME NEW st \in Inner
  PROVE  BuildSnapshot(st) \in Snapshot
<1>1. Credentials(st.sealed) \subseteq Hashes /\ Quarantined(st) \subseteq Hashes /\ st.rows \in [Hashes -> Rows]
  BY InnerFields DEF Credentials, Entries, Quarantined
<1> QED BY <1>1 DEF BuildSnapshot, Snapshot

\* What a failed or completed write leaves of the bounds.
LEMMA CountFacts ==
  ASSUME count \in Tally, NEW o \in Outcomes, MayEnd(o)
  PROVE  /\ count.faults + Charged(o) \in 0 .. MaxFaults
         /\ count' = [count EXCEPT !.faults = @ + Charged(o)] => count' \in Tally
<1>1. MaxFaults \in Nat
  BY SealedStoreBounds
<1>2. count.faults + Charged(o) \in 0 .. MaxFaults
  BY <1>1 DEF Tally, MayEnd, Charged
<1> DEFINE n == count.faults + Charged(o)
<1>3. count' = [count EXCEPT !.faults = @ + Charged(o)] => count' = [count EXCEPT !.faults = n]
  OBVIOUS
<1> HIDE DEF n
<1>4. n \in 0 .. MaxFaults
  BY <1>2 DEF n
<1>5. [count EXCEPT !.faults = n] \in Tally
  BY <1>4 DEF Tally
<1> QED BY <1>2, <1>3, <1>5

LEMMA OpenFacts ==
  ASSUME TypeOK, OpenFiles
  PROVE  /\ DiskIs(LoadSealed(disk), IF disk.alloc = Corrupt THEN None ELSE disk.alloc,
                   disk.cache, disk.secret)
         /\ InnerIs(LoadSealed(disk), LoadSections(disk), LoadRaw(disk), LoadCache(disk),
                    LoadCensus(disk), {}, None)
         /\ shown' \in Snapshot /\ count' \in Tally
<1>1. disk \in Disk
  BY DEF TypeOK
<1>2. LoadSealed(disk) \in SealedFile \cup {None}
  BY <1>1, DiskFields DEF LoadSealed, SealedFiles
<1>3. DiskIs(LoadSealed(disk), IF disk.alloc = Corrupt THEN None ELSE disk.alloc,
             disk.cache, disk.secret)
  <2> DEFINE s == LoadSealed(disk)
             a == IF disk.alloc = Corrupt THEN None ELSE disk.alloc
  <2>1. a \in AllocationsFiles /\ s \in SealedFiles
    BY <1>1, <1>2, DiskFields DEF AllocationsFiles, SealedFiles
  <2>2. disk' = [disk EXCEPT !.sealed = s, !.alloc = a]
    BY DEF OpenFiles, MovedAside
  <2> HIDE DEF s, a
  <2>3. DiskIs(s, a, disk.cache, disk.secret)
    BY <1>1, <2>1, <2>2 DEF DiskIs, Disk, SealedFiles, AllocationsFiles
  <2> QED BY <2>3 DEF s, a
<1>4. LoadSections(disk) \in [Hashes -> Counts \cup {None}]
  <2> SUFFICES ASSUME NEW h \in Hashes, LedgerBound(disk), disk.alloc.ledger.sections[h] # None
               PROVE  disk.alloc.ledger.sections[h].used \in Counts
    BY DEF LoadSections
  <2>1. disk.alloc \in AllocationsFile
    BY <1>1, DiskFields DEF LedgerBound, AllocationsFiles
  <2>2. disk.alloc.ledger \in Ledger
    BY <2>1 DEF AllocationsFile
  <2> QED BY <2>2, LedgerFields
<1>5. LoadRaw(disk) \in Ledger
  BY <1>1, DiskFields, NoLedgerType DEF LoadRaw, AllocationsFiles, AllocationsFile
<1>6. LoadCache(disk) \in [Hashes -> Rows]
  BY <1>1, DiskFields DEF LoadCache, Rows
<1>7. LoadCensus(disk) \in SUBSET Hashes
  BY DEF LoadCensus, Credentials, Entries
<1>8. /\ Loaded(disk) \in Inner
      /\ InnerIs(LoadSealed(disk), LoadSections(disk), LoadRaw(disk), LoadCache(disk),
                 LoadCensus(disk), {}, None)
  <2> DEFINE sealed == LoadSealed(disk)
             sections == LoadSections(disk)
             raw == LoadRaw(disk)
             rows == LoadCache(disk)
             census == LoadCensus(disk)
             new == [sealed |-> sealed, sections |-> sections, raw |-> raw, rows |-> rows,
                     census |-> census, keyed |-> {}, session |-> None]
  <2>1. Loaded(disk) = new /\ inner' = new
    BY DEF Loaded, OpenFiles
  <2>2. /\ sealed \in SealedFile \cup {None} /\ sections \in [Hashes -> Counts \cup {None}]
        /\ raw \in Ledger /\ rows \in [Hashes -> Rows] /\ census \in SUBSET Hashes
    BY <1>2, <1>4, <1>5, <1>6, <1>7
  <2> HIDE DEF sealed, sections, raw, rows, census
  <2>3. /\ new \in Inner /\ new.sealed = sealed /\ new.sections = sections /\ new.raw = raw
        /\ new.rows = rows /\ new.census = census /\ new.keyed = {} /\ new.session = None
    BY <2>2 DEF Inner
  <2> HIDE DEF new
  <2> QED BY <2>1, <2>3 DEF InnerIs, sealed, sections, raw, rows, census
<1>9. shown' \in Snapshot
  BY <1>8, SnapshotType DEF OpenFiles
<1>10. count' \in Tally
  <2> DEFINE n == count.opens + 1
  <2>1. n \in 0 .. MaxOpens
    BY SealedStoreBounds DEF OpenFiles, TypeOK, Tally
  <2>2. count' = [count EXCEPT !.opens = n]
    BY DEF OpenFiles
  <2> HIDE DEF n
  <2> QED BY <2>1, <2>2 DEF TypeOK, Tally
<1> QED BY <1>3, <1>8, <1>9, <1>10

\* The store is given a password; its file is written, and is in memory when the
\* write returned Ok.
Provisioned(p, o) ==
    /\ Empty
    /\ \E file \in SealedFile :
         /\ file.password = p /\ Credentials(file) = {}
         /\ inner.sealed # None => file.uuid = inner.sealed.uuid
         /\ DiskIs(IF o = "before" THEN disk.sealed ELSE file, disk.alloc, disk.cache, disk.secret)
         /\ IF o = "ok" THEN InnerIs(file, inner.sections, inner.raw, inner.rows, inner.census,
                                     inner.keyed, p)
            ELSE inner' = inner

SessionOpened(p) ==
    /\ ~Empty /\ ~AllQuarantined /\ inner.sealed.password = p
    /\ disk' = disk
    /\ InnerIs(inner.sealed, inner.sections, inner.raw, inner.rows, inner.census,
               Credentials(inner.sealed) \ (inner.census \cup Verified(p)), p)

LEMMA ProvisionFacts ==
  ASSUME TypeOK, inner # None, NEW p \in Passwords, NEW o \in Outcomes, Empty, Provision(p, o)
  PROVE  Provisioned(p, o) /\ shown' \in Snapshot /\ count' \in Tally
<1>1. disk \in Disk /\ inner \in Inner /\ count \in Tally
  BY DEF TypeOK
<1> DEFINE new == inner.sealed = None
           uuid == IF new THEN count.uuids + 1 ELSE inner.sealed.uuid
           file == [uuid |-> uuid, password |-> p, creds |-> NoEntries]
           st == [inner EXCEPT !.sealed = file, !.session = p]
<1>2. /\ MayEnd(o) /\ (new => count.uuids < MaxUuids)
      /\ count' = [count EXCEPT !.faults = @ + Charged(o), !.uuids = IF new THEN @ + 1 ELSE @]
      /\ disk' = [disk EXCEPT !.sealed = IF o = "before" THEN @ ELSE file]
      /\ inner' = IF o = "ok" THEN st ELSE inner
      /\ shown' = IF o = "ok" THEN BuildSnapshot(st) ELSE shown
  BY DEF Provision
<1>3. uuid \in 0 .. MaxUuids
  <2>1. new => uuid \in 0 .. MaxUuids
    BY <1>1, <1>2, SealedStoreBounds DEF Tally
  <2>2. ~new => uuid \in 0 .. MaxUuids
    BY <1>1, InnerFields, FileFields
  <2> QED BY <2>1, <2>2
<1>4. NoEntries \in [Hashes -> Passwords \cup {None}] /\ Entries(NoEntries) = {}
  BY DEF NoEntries, Entries
<1>5. file \in SealedFile /\ file.password = p /\ file.creds = NoEntries /\ file.uuid = uuid
  <2> HIDE DEF uuid
  <2> QED BY <1>3, <1>4 DEF SealedFile
<1>6. count' \in Tally
  <2> DEFINE n == count.faults + Charged(o)
             m == IF new THEN count.uuids + 1 ELSE count.uuids
  <2>1. n \in 0 .. MaxFaults
    BY <1>1, <1>2, CountFacts
  <2>2. m \in 0 .. MaxUuids
    BY <1>1, <1>2, SealedStoreBounds DEF Tally
  <2>3. count' = [count EXCEPT !.faults = n, !.uuids = m]
    BY <1>2
  <2> HIDE DEF n, m
  <2> QED BY <1>1, <2>1, <2>2, <2>3 DEF Tally
<1> HIDE DEF file
<1>7. Credentials(file) = {} /\ (inner.sealed # None => file.uuid = inner.sealed.uuid)
  BY <1>4, <1>5, NoneAssumption DEF Credentials
<1>8. DiskIs(IF o = "before" THEN disk.sealed ELSE file, disk.alloc, disk.cache, disk.secret)
  <2>1. (IF o = "before" THEN disk.sealed ELSE file) \in SealedFiles
    BY <1>1, <1>5, DiskFields DEF SealedFiles
  <2> QED BY <1>1, <1>2, <2>1, DiskSets
<1>9. /\ st \in Inner /\ st.sealed = file /\ st.sections = inner.sections /\ st.raw = inner.raw
      /\ st.rows = inner.rows /\ st.census = inner.census /\ st.keyed = inner.keyed /\ st.session = p
  BY <1>1, <1>5 DEF Inner
<1> HIDE DEF st
<1>10. IF o = "ok" THEN InnerIs(file, inner.sections, inner.raw, inner.rows, inner.census, inner.keyed, p)
       ELSE inner' = inner
  BY <1>2, <1>9 DEF InnerIs
<1>11. shown' \in Snapshot
  BY <1>2, <1>9, SnapshotType DEF TypeOK
<1>12. Provisioned(p, o)
  BY <1>5, <1>7, <1>8, <1>10 DEF Provisioned
<1> QED BY <1>6, <1>11, <1>12

LEMMA UnlockFacts ==
  ASSUME TypeOK, inner # None, NEW p \in Passwords, NEW o \in Outcomes, UnlockStep(p, o)
  PROVE  /\ shown' \in Snapshot /\ count' \in Tally
         /\ \/ Provisioned(p, o)
            \/ SessionOpened(p)
            \/ UNCHANGED <<disk, inner>>
<1>1. CASE UnlockAnswer(p) = "empty" /\ Provision(p, o)
  <2>1. Empty
    BY <1>1 DEF UnlockAnswer
  <2> QED BY <1>1, <2>1, ProvisionFacts
<1>2. CASE UnlockAnswer(p) = "ok" /\ OpenSession(p)
  <2>1. ~Empty /\ ~AllQuarantined /\ inner.sealed.password = p
    BY <1>2 DEF UnlockAnswer, VerifierMatches
  <2> DEFINE keyed == Credentials(inner.sealed) \ (inner.census \cup Verified(p))
             st == [inner EXCEPT !.session = p, !.keyed = keyed]
  <2>2. inner' = st /\ shown' = BuildSnapshot(st) /\ UNCHANGED <<disk, count>>
    BY <1>2 DEF OpenSession
  <2>3. keyed \subseteq Hashes
    BY DEF Credentials, Entries
  <2>4. inner \in Inner
    BY DEF TypeOK
  <2> HIDE DEF keyed
  <2>5. /\ st \in Inner /\ st.sealed = inner.sealed /\ st.sections = inner.sections /\ st.raw = inner.raw
        /\ st.rows = inner.rows /\ st.census = inner.census /\ st.keyed = keyed /\ st.session = p
    BY <2>3, <2>4 DEF Inner
  <2> HIDE DEF st
  <2>6. InnerIs(inner.sealed, inner.sections, inner.raw, inner.rows, inner.census, keyed, p)
    BY <2>2, <2>5 DEF InnerIs
  <2>7. SessionOpened(p)
    BY <2>1, <2>2, <2>6 DEF SessionOpened, keyed
  <2> QED BY <2>2, <2>5, <2>7, SnapshotType DEF TypeOK
<1>3. CASE UNCHANGED <<disk, inner, shown, count>>
  BY <1>3 DEF TypeOK
<1> QED BY <1>1, <1>2, <1>3 DEF UnlockStep

\* The counter of h is set in memory, the ledger is written, and memory takes the
\* written ledger for the stored one when the write returned Ok.
Counted(h, n, o) ==
    LET secs == [inner.sections EXCEPT ![h] = n]
    IN  \E st \in Inner :
          /\ st.sealed = inner.sealed /\ st.sections = secs /\ st.raw = inner.raw
          /\ st.rows = inner.rows /\ st.census = inner.census /\ st.keyed = inner.keyed
          /\ st.session = inner.session
          /\ DiskIs(disk.sealed,
                    IF o = "before" THEN disk.alloc
                    ELSE [uuid |-> inner.sealed.uuid, ledger |-> LedgerOf(st)],
                    disk.cache, disk.secret)
          /\ o # "before" => disk'.alloc \in AllocationsFile
          /\ InnerIs(inner.sealed, secs, IF o = "ok" THEN LedgerOf(st) ELSE inner.raw, inner.rows,
                     inner.census, inner.keyed, inner.session)

LEMMA CountedFacts ==
  ASSUME TypeOK, inner # None, inner.session # None, inner.sealed # None,
         NEW h \in Hashes, NEW n \in Counts, NEW o \in Outcomes, NEW st,
         st = [inner EXCEPT !.sections = [inner.sections EXCEPT ![h] = n]],
         disk' = [disk EXCEPT !.alloc =
                    IF o = "before" THEN @ ELSE [uuid |-> st.sealed.uuid, ledger |-> LedgerOf(st)]],
         inner' = IF o = "ok" THEN [st EXCEPT !.raw = LedgerOf(st)] ELSE st
  PROVE  Counted(h, n, o) /\ st \in Inner
<1>1. disk \in Disk /\ inner \in Inner
  BY DEF TypeOK
<1> DEFINE secs == [inner.sections EXCEPT ![h] = n]
<1>2. secs \in [Hashes -> Counts \cup {None}]
  BY <1>1, InnerFields
<1> HIDE DEF secs
<1>3. /\ st \in Inner /\ st.sealed = inner.sealed /\ st.sections = secs /\ st.raw = inner.raw
      /\ st.rows = inner.rows /\ st.census = inner.census /\ st.keyed = inner.keyed
      /\ st.session = inner.session
  BY <1>1, <1>2 DEF Inner, secs
<1> DEFINE l == LedgerOf(st)
           file == [uuid |-> st.sealed.uuid, ledger |-> l]
<1>4. l \in Ledger
  BY <1>3, LedgerOfFacts
<1> HIDE DEF l
<1>5. file \in AllocationsFile
  BY <1>1, <1>3, <1>4, InnerFields, FileFields DEF AllocationsFile
<1>6. DiskIs(disk.sealed, IF o = "before" THEN disk.alloc ELSE file, disk.cache, disk.secret)
  <2>1. (IF o = "before" THEN disk.alloc ELSE file) \in AllocationsFiles
    BY <1>1, <1>5, DiskFields DEF AllocationsFiles
  <2>2. disk' = [disk EXCEPT !.alloc = IF o = "before" THEN disk.alloc ELSE file]
    BY DEF l
  <2> QED BY <1>1, <2>1, <2>2, DiskSets
<1>7. o # "before" => disk'.alloc \in AllocationsFile
  BY <1>5, <1>6 DEF DiskIs
<1>8. /\ [st EXCEPT !.raw = l] \in Inner /\ [st EXCEPT !.raw = l].sealed = st.sealed
      /\ [st EXCEPT !.raw = l].sections = st.sections /\ [st EXCEPT !.raw = l].raw = l
      /\ [st EXCEPT !.raw = l].rows = st.rows /\ [st EXCEPT !.raw = l].census = st.census
      /\ [st EXCEPT !.raw = l].keyed = st.keyed /\ [st EXCEPT !.raw = l].session = st.session
  BY <1>3, <1>4 DEF Inner
<1>9. InnerIs(inner.sealed, secs, IF o = "ok" THEN l ELSE inner.raw, inner.rows,
              inner.census, inner.keyed, inner.session)
  <2>1. CASE o = "ok"
    BY <1>3, <1>8, <2>1 DEF InnerIs, l
  <2>2. CASE o # "ok"
    BY <1>3, <2>2 DEF InnerIs
  <2> QED BY <2>1, <2>2
<1>10. DiskIs(disk.sealed,
              IF o = "before" THEN disk.alloc ELSE [uuid |-> inner.sealed.uuid, ledger |-> LedgerOf(st)],
              disk.cache, disk.secret)
  BY <1>3, <1>6 DEF l
<1> QED BY <1>3, <1>7, <1>9, <1>10 DEF Counted, secs, l

LEMMA InsertSectionFacts ==
  ASSUME TypeOK, SealInv, NEW h \in Hashes, NEW o \in Outcomes, InsertSection(h, o)
  PROVE  Counted(h, 0, o) /\ count' \in Tally /\ ins' \in Inserts \cup {None}
<1>1. inner # None /\ inner.session # None /\ inner.sealed # None /\ inner \in Inner
  BY DEF InsertSection, SealInv, TypeOK
<1>2. 0 \in Counts
  BY SealedStoreBounds DEF Counts
<1> DEFINE st == [inner EXCEPT !.sections[h] = 0]
<1>3. st = [inner EXCEPT !.sections = [inner.sections EXCEPT ![h] = 0]]
  BY <1>1
<1>4. /\ disk' = [disk EXCEPT !.alloc =
                    IF o = "before" THEN @ ELSE [uuid |-> st.sealed.uuid, ledger |-> LedgerOf(st)]]
      /\ inner' = IF o = "ok" THEN [st EXCEPT !.raw = LedgerOf(st)] ELSE st
  BY DEF InsertSection
<1> HIDE DEF st
<1>5. Counted(h, 0, o)
  BY <1>1, <1>2, <1>3, <1>4, CountedFacts
<1>6. count' \in Tally
  BY CountFacts DEF InsertSection, TypeOK
<1>7. ins' \in Inserts \cup {None}
  BY DEF InsertSection, Inserts
<1> QED BY <1>5, <1>6, <1>7

LEMMA ReserveFacts ==
  ASSUME TypeOK, SealInv, NEW h \in Hashes, NEW o \in Outcomes, Reserve(h, o)
  PROVE  /\ inner.sections[h] \in Counts /\ inner.sections[h] + 1 \in Counts
         /\ Counted(h, inner.sections[h] + 1, o)
         /\ issued' = IF o = "ok" THEN [issued EXCEPT ![h] = inner.sections[h] + 1] ELSE issued
         /\ shown' \in Snapshot /\ count' \in Tally
<1>1. inner # None /\ inner.session # None /\ inner.sealed # None /\ inner \in Inner
  BY DEF Reserve, Unsealable, SealInv, TypeOK
<1>2. inner.sections \in [Hashes -> Counts \cup {None}] /\ inner.sections[h] \in Counts
  BY <1>1, InnerFields DEF Reserve
<1> DEFINE n == inner.sections[h] + 1
           st == [inner EXCEPT !.sections[h] = @ + 1]
<1>3. n \in Counts
  BY <1>2, SealedStoreBounds DEF Counts, Reserve
<1>4. st = [inner EXCEPT !.sections = [inner.sections EXCEPT ![h] = n]]
  BY <1>1
<1>5. /\ disk' = [disk EXCEPT !.alloc =
                    IF o = "before" THEN @ ELSE [uuid |-> st.sealed.uuid, ledger |-> LedgerOf(st)]]
      /\ inner' = IF o = "ok" THEN [st EXCEPT !.raw = LedgerOf(st)] ELSE st
      /\ shown' = BuildSnapshot(st)
      /\ issued' = IF o = "ok" THEN [issued EXCEPT ![h] = st.sections[h]] ELSE issued
  BY DEF Reserve
<1>6. st.sections[h] = n
  BY <1>1, <1>2 DEF Inner
<1> HIDE DEF st, n
<1>7. Counted(h, n, o) /\ st \in Inner
  BY <1>1, <1>3, <1>4, <1>5, CountedFacts
<1>8. count' \in Tally
  BY CountFacts DEF Reserve, TypeOK
<1> QED BY <1>2, <1>3, <1>5, <1>6, <1>7, <1>8, SnapshotType DEF n

\* A cache row is set.
LEMMA RowFacts ==
  ASSUME TypeOK, inner # None, NEW h \in Hashes, NEW row \in Rows, NEW st,
         st = [inner EXCEPT !.rows[h] = row], inner' = st
  PROVE  InnerIs(inner.sealed, inner.sections, inner.raw, [inner.rows EXCEPT ![h] = row],
                 inner.census, inner.keyed, inner.session)
<1>1. inner \in Inner
  BY DEF TypeOK
<1> DEFINE rows == [inner.rows EXCEPT ![h] = row]
<1>2. rows \in [Hashes -> Rows]
  BY <1>1, InnerFields
<1>3. inner' = [inner EXCEPT !.rows = rows]
  OBVIOUS
<1> HIDE DEF rows
<1>4. InnerIs(inner.sealed, inner.sections, inner.raw, rows, inner.census, inner.keyed, inner.session)
  BY <1>1, <1>2, <1>3 DEF InnerIs, Inner
<1> QED BY <1>4 DEF rows

LEMMA InsertRowFacts ==
  ASSUME TypeOK, SealInv, NEW o \in Outcomes, InsertRow(o)
  PROVE  /\ InnerIs(inner.sealed, inner.sections, inner.raw, [inner.rows EXCEPT ![ins.hash] = "pending"],
                    inner.census, inner.keyed, inner.session)
         /\ \E c : DiskIs(disk.sealed, disk.alloc, c, disk.secret)
         /\ count' \in Tally
         /\ ins' = None \/ (ins' \in Inserts /\ ins'.hash = ins.hash)
<1>1. inner # None /\ ins \in Inserts /\ ins.hash \in Hashes /\ disk \in Disk
  BY DEF InsertRow, SealInv, TypeOK, Inserts
<1> DEFINE st == [inner EXCEPT !.rows[ins.hash] = "pending"]
<1>2. inner' = st
  BY DEF InsertRow
<1>3. "pending" \in Rows
  BY DEF Rows
<1> HIDE DEF st
<1>4. InnerIs(inner.sealed, inner.sections, inner.raw, [inner.rows EXCEPT ![ins.hash] = "pending"],
              inner.census, inner.keyed, inner.session)
  <2>1. st = [inner EXCEPT !.rows[ins.hash] = "pending"]
    BY DEF st
  <2> QED BY <1>1, <1>2, <1>3, <2>1, RowFacts
<1>5. inner'.rows \in [Hashes -> Rows]
  BY <1>4, InnerFields DEF InnerIs
<1>6. \E c : DiskIs(disk.sealed, disk.alloc, c, disk.secret)
  <2> DEFINE c == IF o = "ok" THEN inner'.rows ELSE disk.cache
  <2>1. disk' = [disk EXCEPT !.cache = c]
    BY DEF InsertRow
  <2>2. c \in [Hashes -> Rows]
    BY <1>1, <1>5, DiskFields
  <2> HIDE DEF c
  <2>3. DiskIs(disk.sealed, disk.alloc, c, disk.secret)
    BY <1>1, <2>1, <2>2, DiskSets
  <2> QED BY <2>3
<1>7. count' \in Tally
  BY CountFacts DEF InsertRow, TypeOK
<1>8. ins' = None \/ (ins' \in Inserts /\ ins'.hash = ins.hash)
  BY <1>1 DEF InsertRow, Inserts
<1> QED BY <1>4, <1>6, <1>7, <1>8

LEMMA ConfirmFacts ==
  ASSUME TypeOK, NEW h \in Hashes, NEW o \in Outcomes, Confirm(h, o)
  PROVE  /\ InnerIs(inner.sealed, inner.sections, inner.raw, [inner.rows EXCEPT ![h] = "active"],
                    inner.census, inner.keyed, inner.session)
         /\ \E c : DiskIs(disk.sealed, disk.alloc, c, disk.secret)
         /\ shown' \in Snapshot /\ count' \in Tally
<1>1. inner # None /\ disk \in Disk
  BY DEF Confirm, TypeOK
<1> DEFINE st == [inner EXCEPT !.rows[h] = "active"]
<1>2. /\ inner' = st
      /\ disk' = [disk EXCEPT !.cache = IF o = "ok" THEN st.rows ELSE @]
      /\ shown' = IF o = "ok" THEN BuildSnapshot(st) ELSE shown
  BY DEF Confirm
<1>3. "active" \in Rows /\ st = [inner EXCEPT !.rows[h] = "active"]
  BY DEF Rows
<1> HIDE DEF st
<1>4. InnerIs(inner.sealed, inner.sections, inner.raw, [inner.rows EXCEPT ![h] = "active"],
              inner.census, inner.keyed, inner.session)
  BY <1>1, <1>2, <1>3, RowFacts
<1>5. st \in Inner /\ st.rows \in [Hashes -> Rows]
  BY <1>2, <1>4, InnerFields DEF InnerIs
<1>6. \E c : DiskIs(disk.sealed, disk.alloc, c, disk.secret)
  <2> DEFINE c == IF o = "ok" THEN st.rows ELSE disk.cache
  <2>1. disk' = [disk EXCEPT !.cache = c]
    BY <1>2
  <2>2. c \in [Hashes -> Rows]
    BY <1>1, <1>5, DiskFields
  <2> HIDE DEF c
  <2>3. DiskIs(disk.sealed, disk.alloc, c, disk.secret)
    BY <1>1, <2>1, <2>2, DiskSets
  <2> QED BY <2>3
<1>7. count' \in Tally
  BY CountFacts DEF Confirm, TypeOK
<1> QED BY <1>2, <1>4, <1>5, <1>6, <1>7, SnapshotType DEF TypeOK

\* A credential is added to the file in memory, and the file is written.
Sealed(h, o) ==
    \E file \in SealedFile :
        /\ file.uuid = inner.sealed.uuid /\ file.password = inner.sealed.password
        /\ file.creds = [inner.sealed.creds EXCEPT ![h] = inner.session]
        /\ Credentials(file) = Credentials(inner.sealed) \cup {h}
        /\ DiskIs(IF o = "before" THEN disk.sealed ELSE file, disk.alloc, disk.cache, disk.secret)
        /\ InnerIs(file, inner.sections, inner.raw, inner.rows, inner.census, inner.keyed, inner.session)

LEMMA InsertCredentialFacts ==
  ASSUME TypeOK, SealInv, NEW o \in Outcomes, InsertCredential(o)
  PROVE  /\ Sealed(ins.hash, o) /\ shown' \in Snapshot /\ count' \in Tally
         /\ acked' = IF o = "ok" THEN acked \cup {ins.hash} ELSE acked
<1>1. PICK h \in Hashes : h = ins.hash
  BY DEF InsertCredential, TypeOK, Inserts
<1>2. inner # None /\ inner \in Inner /\ disk \in Disk /\ inner.session # None /\ inner.sealed # None
  BY DEF InsertCredential, SealInv, TypeOK
<1>3. inner.sealed \in SealedFile /\ inner.session \in Passwords
  BY <1>2, InnerFields
<1> DEFINE creds == [inner.sealed.creds EXCEPT ![h] = inner.session]
           file == [inner.sealed EXCEPT !.creds = creds]
           st == [inner EXCEPT !.sealed = file]
<1>4. creds \in [Hashes -> Passwords \cup {None}]
  BY <1>3, FileFields
<1>5. Entries(creds) = Entries(inner.sealed.creds) \cup {h}
  BY <1>2, <1>3, FileFields DEF Entries
<1>6. /\ inner' = st
      /\ disk' = [disk EXCEPT !.sealed = IF o = "before" THEN @ ELSE st.sealed]
      /\ shown' = IF o = "ok" THEN BuildSnapshot(st) ELSE shown
      /\ acked' = IF o = "ok" THEN acked \cup {ins.hash} ELSE acked
  BY <1>1 DEF InsertCredential, Committed
<1> HIDE DEF creds
<1>7. file \in SealedFile /\ file.uuid = inner.sealed.uuid /\ file.password = inner.sealed.password /\ file.creds = creds
  BY <1>3, <1>4 DEF SealedFile
<1> HIDE DEF file
<1>8. Credentials(file) = Credentials(inner.sealed) \cup {h}
  BY <1>3, <1>5, <1>7, NoneAssumption DEF Credentials
<1>9. /\ st \in Inner /\ st.sealed = file /\ st.sections = inner.sections /\ st.raw = inner.raw
      /\ st.rows = inner.rows /\ st.census = inner.census /\ st.keyed = inner.keyed
      /\ st.session = inner.session
  BY <1>2, <1>7 DEF Inner
<1> HIDE DEF st
<1>10. DiskIs(IF o = "before" THEN disk.sealed ELSE file, disk.alloc, disk.cache, disk.secret)
  <2>1. (IF o = "before" THEN disk.sealed ELSE file) \in SealedFiles
    BY <1>2, <1>7, DiskFields DEF SealedFiles
  <2>2. disk' = [disk EXCEPT !.sealed = IF o = "before" THEN disk.sealed ELSE file]
    BY <1>6, <1>9
  <2> QED BY <1>2, <2>1, <2>2, DiskSets
<1>11. InnerIs(file, inner.sections, inner.raw, inner.rows, inner.census, inner.keyed, inner.session)
  BY <1>6, <1>9 DEF InnerIs
<1>12. Sealed(h, o)
  BY <1>7, <1>8, <1>10, <1>11 DEF Sealed, creds
<1>13. count' \in Tally
  BY CountFacts DEF InsertCredential, TypeOK
<1> QED BY <1>1, <1>6, <1>9, <1>12, <1>13, SnapshotType DEF TypeOK

LEMMA LockFacts ==
  ASSUME TypeOK, Lock
  PROVE  InnerIs(inner.sealed, inner.sections, inner.raw, inner.rows, inner.census, inner.keyed, None)
<1>1. inner \in Inner /\ inner' = [inner EXCEPT !.session = None]
  BY DEF Lock, TypeOK
<1> QED BY <1>1 DEF InnerIs, Inner

\* A damaged ledger is no ledger, or has the sections it had but for one that no
\* longer verifies or is gone.
LEMMA DamageFacts ==
  ASSUME TypeOK, DamageNext
  PROVE  /\ inner = None /\ damage' \subseteq {"ledger", "section", "sealed"} /\ damage' # {}
         /\ \/ /\ disk.sealed # None /\ damage' = damage \cup {"sealed"}
               /\ DiskIs(Corrupt, disk.alloc, disk.cache, disk.secret)
            \/ /\ damage \subseteq damage'
               /\ \E a \in AllocationsFiles :
                    /\ DiskIs(disk.sealed, a, disk.cache, disk.secret)
                    /\ a \in AllocationsFile =>
                         /\ disk.alloc \in AllocationsFile
                         /\ \A h \in Hashes : \/ a.ledger.sections[h] = disk.alloc.ledger.sections[h]
                                              \/ a.ledger.sections[h] = None
                                              \/ disk.alloc.ledger.sections[h] # None /\ a.ledger.sections[h].mac = None
<1>1. disk \in Disk /\ disk.sealed \in SealedFiles /\ disk.alloc \in AllocationsFiles
  BY DiskFields DEF TypeOK
<1>2. inner = None /\ damage' \subseteq {"ledger", "section", "sealed"} /\ damage' # {}
      /\ damage \subseteq damage'
  BY DEF DamageNext, DamageLedger, DamageSealed, DamageSection, Damaged, TypeOK
<1>3. CASE DamageSealed
  <2>1. disk' = [disk EXCEPT !.sealed = Corrupt] /\ disk.sealed # None /\ damage' = damage \cup {"sealed"}
    BY <1>3 DEF DamageSealed, Damaged
  <2>2. Corrupt \in SealedFiles
    BY DEF SealedFiles
  <2>3. DiskIs(Corrupt, disk.alloc, disk.cache, disk.secret)
    BY <1>1, <2>1, <2>2, DiskSets
  <2> QED BY <1>2, <2>1, <2>3
<1>4. ASSUME NEW a \in AllocationsFiles, disk' = [disk EXCEPT !.alloc = a],
             a \in AllocationsFile =>
               /\ disk.alloc \in AllocationsFile
               /\ \A h \in Hashes : \/ a.ledger.sections[h] = disk.alloc.ledger.sections[h]
                                    \/ a.ledger.sections[h] = None
                                    \/ disk.alloc.ledger.sections[h] # None /\ a.ledger.sections[h].mac = None
      PROVE  \E b \in AllocationsFiles :
               /\ DiskIs(disk.sealed, b, disk.cache, disk.secret)
               /\ b \in AllocationsFile =>
                    /\ disk.alloc \in AllocationsFile
                    /\ \A h \in Hashes : \/ b.ledger.sections[h] = disk.alloc.ledger.sections[h]
                                         \/ b.ledger.sections[h] = None
                                         \/ disk.alloc.ledger.sections[h] # None /\ b.ledger.sections[h].mac = None
  <2>1. DiskIs(disk.sealed, a, disk.cache, disk.secret)
    BY <1>1, <1>4, DiskSets
  <2> QED BY <1>4, <2>1
<1>5. CASE DamageLedger
  <2>1. CASE disk' = [disk EXCEPT !.alloc = None]
    BY <1>2, <1>4, <2>1, NoneAssumption DEF AllocationsFiles
  <2>2. CASE disk' = [disk EXCEPT !.alloc = Corrupt]
    BY <1>2, <1>4, <2>2, NoneAssumption DEF AllocationsFiles
  <2>3. CASE disk.alloc # Corrupt /\ disk' = [disk EXCEPT !.alloc.uuid = 0]
    <3> DEFINE a == [disk.alloc EXCEPT !.uuid = 0]
    <3>1. disk.alloc \in AllocationsFile
      BY <1>1, <1>5, <2>3 DEF DamageLedger, AllocationsFiles
    <3>2. 0 \in 0 .. MaxUuids
      BY SealedStoreBounds
    <3>3. a \in AllocationsFile /\ a.ledger = disk.alloc.ledger
      BY <3>1, <3>2 DEF AllocationsFile
    <3>4. disk' = [disk EXCEPT !.alloc = a]
      BY <2>3
    <3> HIDE DEF a
    <3> QED BY <1>2, <1>4, <3>1, <3>3, <3>4 DEF AllocationsFiles
  <2> QED BY <1>5, <2>1, <2>2, <2>3 DEF DamageLedger
<1>6. ASSUME NEW h \in Hashes, DamageSection(h)
      PROVE  \E b \in AllocationsFiles :
               /\ DiskIs(disk.sealed, b, disk.cache, disk.secret)
               /\ b \in AllocationsFile =>
                    /\ disk.alloc \in AllocationsFile
                    /\ \A g \in Hashes : \/ b.ledger.sections[g] = disk.alloc.ledger.sections[g]
                                         \/ b.ledger.sections[g] = None
                                         \/ disk.alloc.ledger.sections[g] # None /\ b.ledger.sections[g].mac = None
  <2>1. disk.alloc \in AllocationsFile /\ disk.alloc.ledger \in Ledger /\ disk.alloc.ledger.sections[h] # None
    BY <1>1, <1>6 DEF DamageSection, AllocationsFiles, AllocationsFile
  <2>2. ASSUME NEW s \in Section \cup {None}, s = None \/ s.mac = None,
               disk' = [disk EXCEPT !.alloc.ledger.sections[h] = s]
        PROVE  \E b \in AllocationsFiles :
                 /\ DiskIs(disk.sealed, b, disk.cache, disk.secret)
                 /\ b \in AllocationsFile =>
                      /\ disk.alloc \in AllocationsFile
                      /\ \A g \in Hashes : \/ b.ledger.sections[g] = disk.alloc.ledger.sections[g]
                                           \/ b.ledger.sections[g] = None
                                           \/ disk.alloc.ledger.sections[g] # None /\ b.ledger.sections[g].mac = None
    <3> DEFINE secs == [disk.alloc.ledger.sections EXCEPT ![h] = s]
               l == [disk.alloc.ledger EXCEPT !.sections = secs]
               a == [disk.alloc EXCEPT !.ledger = l]
    <3>1. /\ secs \in [Hashes -> Section \cup {None}] /\ secs[h] = s
          /\ \A g \in Hashes \ {h} : secs[g] = disk.alloc.ledger.sections[g]
      BY <2>1, LedgerFields
    <3>2. disk' = [disk EXCEPT !.alloc = a]
      BY <2>2
    <3> HIDE DEF secs
    <3>3. l \in Ledger /\ l.sections = secs
      BY <2>1, <3>1 DEF Ledger
    <3> HIDE DEF l
    <3>4. a \in AllocationsFile /\ a.ledger = l
      BY <2>1, <3>3 DEF AllocationsFile
    <3> HIDE DEF a
    <3>5. \A g \in Hashes : \/ a.ledger.sections[g] = disk.alloc.ledger.sections[g]
                            \/ a.ledger.sections[g] = None
                            \/ disk.alloc.ledger.sections[g] # None /\ a.ledger.sections[g].mac = None
      BY <2>1, <2>2, <3>1, <3>3, <3>4
    <3> QED BY <1>4, <2>1, <3>2, <3>4, <3>5 DEF AllocationsFiles
  <2> DEFINE bad == [used |-> 0, mac |-> None]
  <2>3. bad \in Section /\ bad.mac = None
    BY SealedStoreBounds DEF Section, Counts
  <2>4. disk' = [disk EXCEPT !.alloc.ledger.sections[h] = bad]
        \/ disk' = [disk EXCEPT !.alloc.ledger.sections[h] = None]
    BY <1>6 DEF DamageSection
  <2> HIDE DEF bad
  <2> QED BY <2>2, <2>3, <2>4
<1> QED BY <1>2, <1>3, <1>5, <1>6 DEF DamageNext

-----------------------------------------------------------------------------
(* The auto-unlock walk. *)

\* Walk w is now next, and the others are where they were.
WalkIs(w, next) ==
    /\ walks' \in [Walkers -> Walk \cup {None}] /\ walks'[w] = next
    /\ \A v \in Walkers \ {w} : walks'[v] = walks[v]

LEMMA WalkedFacts ==
  ASSUME TypeOK, NEW w \in Walkers, NEW next \in Walk \cup {None}, Walked(w, next)
  PROVE  WalkIs(w, next)
BY DEF TypeOK, Walked, WalkIs

LEMMA WalkFields ==
  ASSUME TypeOK, NEW w \in Walkers, walks[w] # None
  PROVE  walks[w] \in Walk /\ walks[w].secret \in Passwords \cup {None}
         /\ walks[w].rejected \in BOOLEAN /\ walks[w].closed \in BOOLEAN
BY DEF TypeOK, Walk

LEMMA WalkOnFacts ==
  ASSUME NEW k \in Walk, NEW at \in {"keychain", "write"}
  PROVE  [k EXCEPT !.at = at] \in Walk /\ [k EXCEPT !.at = at].at = at
BY DEF Walk

LEMMA RejectedFacts ==
  ASSUME NEW k \in Walk
  PROVE  /\ [k EXCEPT !.at = "keychain", !.rejected = TRUE] \in Walk
         /\ [k EXCEPT !.at = "keychain", !.rejected = TRUE].at = "keychain"
         /\ [k EXCEPT !.at = "keychain", !.rejected = TRUE].rejected
<1> DEFINE j == [k EXCEPT !.at = "keychain"]
<1>1. j \in Walk /\ j.at = "keychain"
  BY DEF Walk
<1>2. [k EXCEPT !.at = "keychain", !.rejected = TRUE] = [j EXCEPT !.rejected = TRUE]
  OBVIOUS
<1> HIDE DEF j
<1>3. [j EXCEPT !.rejected = TRUE] \in Walk /\ [j EXCEPT !.rejected = TRUE].at = "keychain"
  BY <1>1 DEF Walk
<1>4. [j EXCEPT !.rejected = TRUE].rejected
  BY <1>1 DEF Walk
<1> QED BY <1>2, <1>3, <1>4

LEMMA ClosedFacts ==
  ASSUME NEW k \in Walk
  PROVE  /\ Closed(k) \in Walk
         /\ Closed(k).at = k.at /\ Closed(k).secret = k.secret /\ Closed(k).rejected = k.rejected
<1>1. CASE k.closed \/ k.at = "remember"
  BY <1>1 DEF Closed
<1>2. CASE ~(k.closed \/ k.at = "remember")
  <2> DEFINE b == inner.sealed # None
  <2>1. Closed(k) = [k EXCEPT !.closed = TRUE, !.provisioned = b]
    BY <1>2, NoneAssumption DEF Closed
  <2>2. b \in BOOLEAN
    OBVIOUS
  <2> HIDE DEF b
  <2>3. [k EXCEPT !.closed = TRUE, !.provisioned = b] \in Walk
    BY <2>2 DEF Walk
  <2>4. [k EXCEPT !.closed = TRUE, !.provisioned = b].at = k.at
        /\ [k EXCEPT !.closed = TRUE, !.provisioned = b].secret = k.secret
        /\ [k EXCEPT !.closed = TRUE, !.provisioned = b].rejected = k.rejected
    BY DEF Walk
  <2> QED BY <2>1, <2>3, <2>4
<1> QED BY <1>1, <1>2

\* The store is unlocked with p, which changes the file of an empty store.
Keyed(p, o) ==
    /\ inner # None /\ Idle
    /\ Provisioned(p, o) \/ SessionOpened(p)

\* What may become of the secret file: it is written when there is none, and put
\* aside when the store it was read for does not open with it.
SecretMoves ==
    \/ disk'.secret = disk.secret
    \/ disk.secret = None
    \/ inner # None /\ ~Empty /\ inner.sealed.password # disk.secret

\* A step of a walk: the files of the store stay, or the store is unlocked with
\* a password that is kept.
WalkEffect ==
    /\ shown' \in Snapshot /\ count' \in Tally /\ walks' \in [Walkers -> Walk \cup {None}]
    /\ UNCHANGED <<item, ins, history>>
    /\ \/ /\ \E s \in Passwords \cup {None} : DiskIs(disk.sealed, disk.alloc, disk.cache, s)
          /\ inner' = inner /\ SecretMoves
       \/ \E p \in Passwords \cap Kept, o \in Outcomes : Keyed(p, o)

\* What is to be shown of the walk invariant when w moves.
LEMMA WalkMoves ==
  ASSUME TypeOK, WalkInv, NEW w \in Walkers, NEW next \in Walk \cup {None}, WalkIs(w, next),
         walks[w] # None => (walks[w].at \notin {"lock", "remember"} \/ WalkFree),
         UNCHANGED <<item, history>>,
         next # None => inner' # None,
         next # None /\ next.at \in {"file", "unlock"} => disk'.secret = next.secret,
         next # None /\ next.at = "unlock" => next.secret # None,
         next # None /\ next.at = "keychain" /\ ~next.rejected => disk'.secret = None,
         next # None /\ next.at = "write" => disk'.secret = None,
         next # None /\ next.at = "item" => next.secret \in Passwords \cap ({item} \cup replaced),
         walks[w] # None, inner # None => inner' # None
  PROVE  WalkInv'
<1>1. \A v \in Walkers \ {w} : walks[v] # None => walks[v].at \in {"lock", "remember"}
  BY DEF WalkInv, WalkFree
<1>2. \A v \in Walkers \ {w} : walks'[v] # None => walks'[v].at \in {"lock", "remember"} /\ inner' # None
  BY <1>1 DEF WalkIs, WalkInv
<1> QED BY <1>2 DEF WalkInv, WalkIs, history

LEMMA HandleUnlockFacts ==
  ASSUME TypeOK, WalkInv, NEW w \in Walkers, NEW p \in Passwords, NEW o \in Outcomes,
         walks[w] # None, HandleUnlock(w, p, o)
  PROVE  /\ shown' \in Snapshot /\ count' \in Tally
         /\ UNCHANGED <<disk, inner>> \/ Keyed(p, o)
<1>1. inner # None
  BY DEF WalkInv
<1>2. CASE walks[w].closed
  BY <1>2 DEF HandleUnlock, TypeOK
<1>3. CASE ~walks[w].closed
  <2>1. Idle /\ UnlockStep(p, o)
    BY <1>3 DEF HandleUnlock
  <2> QED BY <1>1, <2>1, UnlockFacts DEF Keyed
<1> QED BY <1>2, <1>3

\* An unlock leaves the secret file and the store's being open alone.
LEMMA KeyedFacts ==
  ASSUME TypeOK, NEW p, NEW o, Keyed(p, o)
  PROVE  disk' \in Disk /\ disk'.secret = disk.secret /\ disk'.alloc = disk.alloc
         /\ inner' \in Inner /\ inner' # None
<1>1. CASE Provisioned(p, o)
  BY <1>1, NoneAssumption DEF Keyed, Provisioned, DiskIs, InnerIs, TypeOK
<1>2. CASE SessionOpened(p)
  BY <1>2, NoneAssumption DEF SessionOpened, InnerIs, TypeOK
<1> QED BY <1>1, <1>2 DEF Keyed

\* A walk that unlocks, or is told the store is closed, is over.
LEMMA WalkUnlocks ==
  ASSUME TypeOK, WalkInv, NEW w \in Walkers, NEW p \in Passwords \cap Kept, NEW o \in Outcomes,
         walks[w] # None, walks[w].at \notin {"lock", "remember"}, HandleUnlock(w, p, o), Walked(w, None),
         UNCHANGED <<item, ins, history>>
  PROVE  WalkEffect /\ WalkInv'
<1>1. WalkIs(w, None)
  BY WalkedFacts
<1>2. /\ shown' \in Snapshot /\ count' \in Tally
      /\ UNCHANGED <<disk, inner>> \/ Keyed(p, o)
  BY HandleUnlockFacts
<1>3. inner # None => inner' # None
  BY <1>2, KeyedFacts
<1>4. WalkInv'
  BY <1>1, <1>3, WalkMoves
<1>5. UNCHANGED <<disk, inner>> => \E s \in Passwords \cup {None} : DiskIs(disk.sealed, disk.alloc, disk.cache, s)
  BY DiskFields DEF TypeOK, DiskIs
<1>6. UNCHANGED <<disk, inner>> => SecretMoves /\ inner' = inner
  BY DEF SecretMoves
<1> QED BY <1>1, <1>2, <1>4, <1>5, <1>6 DEF WalkEffect, WalkIs

\* A walk that moves on without the store.
LEMMA WalkGoesOn ==
  ASSUME TypeOK, WalkInv, NEW w \in Walkers, NEW next \in Walk \cup {None}, WalkIs(w, next),
         UNCHANGED <<disk, item, inner, shown, ins, history, count>>
  PROVE  WalkEffect
<1>1. \E s \in Passwords \cup {None} : DiskIs(disk.sealed, disk.alloc, disk.cache, s)
  BY DiskFields DEF TypeOK, DiskIs
<1> QED BY <1>1 DEF WalkEffect, SecretMoves, WalkIs, TypeOK

LEMMA WalkStepFacts ==
  ASSUME TypeOK, WalkInv, WalkNext
  PROVE  WalkEffect /\ WalkInv'
<1> PICK w \in Walkers :
      \/ WalkBegin(w) \/ WalkRead(w) \/ WalkNoFile(w) \/ WalkItem(w) \/ WalkNoItem(w)
      \/ \E o \in Outcomes :
          \/ WalkFile(w, o) \/ WalkKeychain(w, o) \/ WalkUnlock(w, o)
          \/ \E g \in Secrets : WalkWrite(w, g, o)
  BY DEF WalkNext
<1>1. CASE WalkBegin(w)
  <2> DEFINE new == [at |-> "lock", secret |-> None, rejected |-> FALSE, closed |-> FALSE,
                     provisioned |-> FALSE]
  <2>1. new \in Walk /\ new.at = "lock"
    BY DEF Walk
  <2>2. Walked(w, new) /\ inner # None /\ UNCHANGED <<disk, item, inner, shown, ins, history, count>>
    BY <1>1 DEF WalkBegin
  <2> HIDE DEF new
  <2>3. WalkIs(w, new)
    BY <2>1, <2>2, WalkedFacts
  <2>4. WalkEffect
    BY <2>1, <2>2, <2>3, WalkGoesOn
  <2>5. WalkInv'
    BY <2>1, <2>2, <2>3 DEF WalkInv, WalkIs, history
  <2> QED BY <2>4, <2>5
<1>2. CASE WalkRead(w)
  <2> DEFINE new == [walks[w] EXCEPT !.at = "file", !.secret = disk.secret]
  <2>1. walks[w] # None /\ WalkFree /\ Walked(w, new) /\ UNCHANGED <<disk, item, inner, shown, ins, history, count>>
    BY <1>2 DEF WalkRead
  <2>2. walks[w] \in Walk /\ disk.secret \in Passwords \cup {None}
    BY <2>1, WalkFields, DiskFields DEF TypeOK
  <2>3. new \in Walk /\ new.at = "file" /\ new.secret = disk.secret
    BY <2>2 DEF Walk
  <2> HIDE DEF new
  <2>4. WalkIs(w, new) /\ WalkEffect
    BY <2>1, <2>3, WalkedFacts, WalkGoesOn
  <2>5. inner # None
    BY <2>1 DEF WalkInv
  <2>6. WalkInv'
    BY <2>1, <2>3, <2>4, <2>5, WalkMoves
  <2> QED BY <2>4, <2>6
<1>3. CASE WalkNoFile(w)
  <2> DEFINE new == [walks[w] EXCEPT !.at = "keychain"]
  <2>1. /\ walks[w] # None /\ walks[w].at = "file" /\ walks[w].secret = None /\ Walked(w, new)
        /\ UNCHANGED <<disk, item, inner, shown, ins, history, count>>
    BY <1>3 DEF WalkNoFile
  <2>2. walks[w] \in Walk
    BY <2>1, WalkFields
  <2>3. new \in Walk /\ new.at = "keychain"
    BY <2>2, WalkOnFacts
  <2> HIDE DEF new
  <2>4. WalkIs(w, new) /\ WalkEffect
    BY <2>1, <2>3, WalkedFacts, WalkGoesOn
  <2>5. inner # None /\ disk.secret = None
    BY <2>1 DEF WalkInv
  <2>6. WalkInv'
    BY <2>1, <2>3, <2>4, <2>5, WalkMoves
  <2> QED BY <2>4, <2>6
<1>4. CASE WalkNoItem(w)
  <2> DEFINE on == [walks[w] EXCEPT !.at = "write"]
             new == IF IsFresh(w) THEN on ELSE None
  <2>1. /\ walks[w] # None /\ walks[w].at = "keychain" /\ Walked(w, new)
        /\ UNCHANGED <<disk, item, inner, shown, ins, history, count>>
    BY <1>4 DEF WalkNoItem
  <2>2. walks[w] \in Walk
    BY <2>1, WalkFields
  <2>3. on \in Walk /\ on.at = "write"
    BY <2>2, WalkOnFacts
  <2>4. new = None \/ (new \in Walk /\ new.at = "write" /\ ~walks[w].rejected)
    BY <2>3 DEF IsFresh
  <2> HIDE DEF new
  <2>5. WalkIs(w, new) /\ WalkEffect
    BY <2>1, <2>4, WalkedFacts, WalkGoesOn
  <2>6. inner # None /\ (~walks[w].rejected => disk.secret = None)
    BY <2>1 DEF WalkInv
  <2>7. WalkInv'
    BY <2>1, <2>4, <2>5, <2>6, WalkMoves
  <2> QED BY <2>5, <2>7
<1>5. ASSUME NEW o \in Outcomes, WalkFile(w, o)
      PROVE  WalkEffect /\ WalkInv'
  <2>1. walks[w] # None /\ walks[w].at = "file" /\ walks[w].secret # None /\ UNCHANGED <<item, ins, history>>
    BY <1>5 DEF WalkFile
  <2>2. walks[w] \in Walk /\ walks[w].secret \in Passwords
    BY <2>1, WalkFields
  <2>3. inner # None /\ disk.secret = walks[w].secret
    BY <2>1 DEF WalkInv
  <2>4. walks[w].secret \in Passwords \cap Kept
    BY <2>2, <2>3 DEF Kept
  <2>5. CASE ~Rejects(w, walks[w].secret)
    <3>1. HandleUnlock(w, walks[w].secret, o) /\ Walked(w, None)
      BY <1>5, <2>5 DEF WalkFile
    <3> QED BY <2>1, <2>4, <3>1, WalkUnlocks
  <2>6. CASE Rejects(w, walks[w].secret)
    <3> DEFINE new == [walks[w] EXCEPT !.at = "keychain", !.rejected = TRUE]
               s == IF o = "ok" THEN None ELSE disk.secret
    <3>1. /\ MayEnd(o) /\ count' = [count EXCEPT !.faults = @ + Charged(o)]
          /\ disk' = [disk EXCEPT !.secret = s]
          /\ Walked(w, new)
          /\ UNCHANGED <<inner, shown>>
      BY <1>5, <2>6 DEF WalkFile
    <3>2. s \in Passwords \cup {None}
      BY DiskFields DEF TypeOK
    <3>3. new \in Walk /\ new.at = "keychain" /\ new.rejected
      BY <2>2, RejectedFacts
    <3> HIDE DEF new, s
    <3>4. DiskIs(disk.sealed, disk.alloc, disk.cache, s)
      BY <3>1, <3>2, DiskSets DEF TypeOK
    <3>5. count' \in Tally
      BY <3>1, CountFacts DEF TypeOK
    <3>6. WalkIs(w, new)
      BY <3>1, <3>3, WalkedFacts
    <3>7. UnlockAnswer(walks[w].secret) = "bad_password"
      BY <2>6 DEF Rejects
    <3>8. ~Empty /\ inner.sealed.password # walks[w].secret
      BY <3>7 DEF UnlockAnswer, VerifierMatches
    <3>9. SecretMoves
      BY <2>3, <3>8 DEF SecretMoves
    <3>10. WalkInv'
      BY <2>1, <2>3, <3>1, <3>3, <3>6, WalkMoves
    <3>11. shown' \in Snapshot
      BY <3>1 DEF TypeOK
    <3> QED BY <2>1, <3>1, <3>2, <3>4, <3>5, <3>6, <3>9, <3>10, <3>11 DEF WalkEffect, WalkIs
  <2> QED BY <2>5, <2>6
<1>9. CASE WalkItem(w)
  <2> DEFINE new == [walks[w] EXCEPT !.at = "item", !.secret = item]
  <2>1. /\ walks[w] # None /\ walks[w].at = "keychain" /\ item # None /\ Walked(w, new)
        /\ UNCHANGED <<disk, item, inner, shown, ins, history, count>>
    BY <1>9 DEF WalkItem
  <2>2. walks[w] \in Walk /\ item \in Passwords
    BY <2>1, WalkFields DEF TypeOK
  <2>3. new \in Walk /\ new.at = "item" /\ new.secret = item
    BY <2>2 DEF Walk
  <2> HIDE DEF new
  <2>4. WalkIs(w, new) /\ WalkEffect
    BY <2>1, <2>3, WalkedFacts, WalkGoesOn
  <2>5. inner # None
    BY <2>1 DEF WalkInv
  <2>6. WalkInv'
    BY <2>1, <2>2, <2>3, <2>4, <2>5, WalkMoves
  <2> QED BY <2>4, <2>6
<1>6. ASSUME NEW o \in Outcomes, WalkKeychain(w, o)
      PROVE  WalkEffect /\ WalkInv'
  <2>1. /\ walks[w] # None /\ walks[w].at = "item"
        /\ HandleUnlock(w, walks[w].secret, o) /\ Walked(w, None) /\ UNCHANGED <<item, ins, history>>
    BY <1>6 DEF WalkKeychain
  <2>2. walks[w].secret \in Passwords \cap Kept
    BY <2>1 DEF WalkInv, Kept
  <2> QED BY <2>1, <2>2, WalkUnlocks
<1>7. ASSUME NEW o \in Outcomes, WalkUnlock(w, o)
      PROVE  WalkEffect /\ WalkInv'
  <2>1. /\ walks[w] # None /\ walks[w].at = "unlock"
        /\ HandleUnlock(w, walks[w].secret, o) /\ Walked(w, None) /\ UNCHANGED <<item, ins, history>>
    BY <1>7 DEF WalkUnlock
  <2>2. disk.secret = walks[w].secret /\ walks[w].secret # None
    BY <2>1 DEF WalkInv
  <2>3. walks[w].secret \in Passwords \cap Kept
    BY <2>1, <2>2, WalkFields DEF Kept
  <2> QED BY <2>1, <2>3, WalkUnlocks
<1>8. ASSUME NEW o \in Outcomes, NEW g \in Secrets, WalkWrite(w, g, o)
      PROVE  WalkEffect /\ WalkInv'
  <2> DEFINE on == [walks[w] EXCEPT !.at = "unlock", !.secret = g]
             new == IF SecretStored(o) THEN on ELSE None
             s == IF o = "before" THEN disk.secret ELSE g
             n == count.faults + Charged(o)
             drawn == count.drawn \cup {g}
  <2>1. /\ walks[w] # None /\ walks[w].at = "write" /\ MayEnd(o) /\ Walked(w, new)
        /\ disk' = [disk EXCEPT !.secret = s]
        /\ count' = [count EXCEPT !.faults = n, !.drawn = drawn]
        /\ UNCHANGED <<item, inner, shown, ins, history>>
    BY <1>8 DEF WalkWrite
  <2>2. walks[w] \in Walk /\ g \in Passwords /\ g # None
    BY <2>1, WalkFields, SealedStoreBounds DEF Passwords
  <2>3. on \in Walk /\ on.at = "unlock" /\ on.secret = g
    BY <2>2 DEF Walk
  <2>4. new = None \/ (new \in Walk /\ new.at = "unlock" /\ new.secret = g /\ s = g)
    BY <2>3 DEF SecretStored
  <2>5. s \in Passwords \cup {None}
    BY <2>2, DiskFields DEF TypeOK
  <2>6. n \in 0 .. MaxFaults /\ drawn \in SUBSET Secrets
    BY <2>1, CountFacts DEF TypeOK, Tally
  <2> HIDE DEF new, s, n, drawn
  <2>7. count' \in Tally
    BY <2>1, <2>6 DEF TypeOK, Tally
  <2>8. WalkIs(w, new)
    BY <2>1, <2>4, WalkedFacts
  <2>9. DiskIs(disk.sealed, disk.alloc, disk.cache, s)
    BY <2>1, <2>5, DiskSets DEF TypeOK
  <2>10. inner # None /\ disk.secret = None
    BY <2>1 DEF WalkInv
  <2>11. WalkInv'
    BY <2>1, <2>2, <2>4, <2>8, <2>9, <2>10, WalkMoves DEF DiskIs
  <2>12. SecretMoves
    BY <2>10 DEF SecretMoves
  <2>13. shown' \in Snapshot
    BY <2>1 DEF TypeOK
  <2> QED BY <2>1, <2>5, <2>7, <2>8, <2>9, <2>11, <2>12, <2>13 DEF WalkEffect, WalkIs
<1> QED BY <1>1, <1>2, <1>3, <1>4, <1>5, <1>6, <1>7, <1>8, <1>9

-----------------------------------------------------------------------------
(* Types, and the sealed file in memory and on disk. *)

CoreInv == TypeOK /\ SealInv /\ WalkInv

\* The sealed file, the session and the insert under way are as they were, but
\* that the insert may have ended.
SameSeal ==
    /\ disk'.sealed = disk.sealed /\ minted' = minted
    /\ \/ inner' = inner
       \/ /\ inner # None /\ inner' \in Inner
          /\ inner'.sealed = inner.sealed /\ inner'.session = inner.session
    /\ ins' = None \/ (ins # None /\ ins'.hash = ins.hash)

LEMMA SameSealFacts ==
  ASSUME SealInv, SameSeal
  PROVE  SealInv'
<1>1. inner' # None => /\ inner # None /\ inner'.sealed = inner.sealed /\ inner'.session = inner.session
  BY DEF SameSeal
<1>2. inner # None => inner' # None
  BY NoneAssumption DEF SameSeal
<1> QED BY <1>1, <1>2 DEF SealInv, SameSeal, Uniform

LEMMA KeyedSeals ==
  ASSUME CoreInv, NEW p \in Passwords, NEW o \in Outcomes, Keyed(p, o), ins' = ins, minted' = minted
  PROVE  SealInv'
<1>1. inner # None /\ ins' = None /\ inner \in Inner
  BY DEF Keyed, Idle, CoreInv, TypeOK
<1>2. CASE Provisioned(p, o)
  <2>1. PICK file \in SealedFile :
          /\ file.password = p /\ Credentials(file) = {}
          /\ inner.sealed # None => file.uuid = inner.sealed.uuid
          /\ DiskIs(IF o = "before" THEN disk.sealed ELSE file, disk.alloc, disk.cache, disk.secret)
          /\ IF o = "ok" THEN InnerIs(file, inner.sections, inner.raw, inner.rows, inner.census,
                                      inner.keyed, p)
             ELSE inner' = inner
    BY <1>2 DEF Provisioned
  <2>2. Credentials(inner.sealed) = {} /\ Credentials(disk.sealed) = {}
    BY <1>1, <1>2 DEF Provisioned, Empty, CoreInv, SealInv
  <2>3. Credentials(disk'.sealed) = {}
    BY <2>1, <2>2 DEF DiskIs
  <2>4. inner' # None /\ Credentials(inner'.sealed) = {}
    BY <1>1, <2>1, <2>2, NoneAssumption DEF InnerIs
  <2>5. CASE o = "ok"
    <3>1. inner'.sealed = file /\ inner'.session = p /\ disk'.sealed = file
      BY <2>1, <2>5 DEF InnerIs, DiskIs
    <3>2. file # None
      BY FileFields
    <3> QED BY <1>1, <2>1, <2>3, <2>4, <3>1, <3>2 DEF SealInv, Uniform
  <2>6. CASE o # "ok"
    <3>1. inner' = inner /\ (disk'.sealed = disk.sealed \/ disk'.sealed = file)
      BY <2>1, <2>6 DEF DiskIs
    <3>2. inner'.sealed # None => disk'.sealed \in SealedFile /\ disk'.sealed.uuid = inner'.sealed.uuid
      BY <1>1, <2>1, <3>1 DEF CoreInv, SealInv
    <3> QED BY <1>1, <2>3, <2>4, <3>1, <3>2 DEF SealInv, Uniform, CoreInv
  <2> QED BY <2>5, <2>6
<1>3. CASE SessionOpened(p)
  <2>1. /\ disk' = disk /\ inner' \in Inner /\ inner'.sealed = inner.sealed /\ inner'.session = p
        /\ inner.sealed.password = p /\ Credentials(inner.sealed) # {}
    BY <1>3 DEF SessionOpened, InnerIs, Empty
  <2>2. inner.sealed # None
    BY <2>1, NoFile
  <2> QED BY <1>1, <2>1, <2>2 DEF SealInv, Uniform, CoreInv
<1> QED BY <1>2, <1>3 DEF Keyed

LEMMA OpenSeals ==
  ASSUME CoreInv, OpenFiles, Idle
  PROVE  SealInv'
<1>1. /\ disk'.sealed = LoadSealed(disk) /\ inner'.sealed = LoadSealed(disk) /\ inner'.session = None
      /\ ins' = None /\ minted' = minted
  BY OpenFacts DEF CoreInv, DiskIs, InnerIs, OpenFiles, Idle, history
<1>2. Credentials(LoadSealed(disk)) = Credentials(disk.sealed)
  BY NoFile DEF LoadSealed
<1>3. LoadSealed(disk) \in SealedFile \cup {None}
  BY DiskFields DEF LoadSealed, CoreInv, TypeOK, SealedFiles
<1>4. Uniform(LoadSealed(disk))
  BY NoFile DEF LoadSealed, Uniform, CoreInv, SealInv
<1>5. Credentials(disk.sealed) \subseteq minted
  BY DEF CoreInv, SealInv
<1> QED BY <1>1, <1>2, <1>3, <1>4, <1>5 DEF SealInv, Uniform

LEMMA InsertSectionSeals ==
  ASSUME CoreInv, NEW h \in Hashes, NEW o \in Outcomes, InsertSection(h, o)
  PROVE  SealInv'
<1>1. Counted(h, 0, o)
  BY InsertSectionFacts DEF CoreInv
<1>2. /\ disk'.sealed = disk.sealed /\ inner' \in Inner /\ inner'.sealed = inner.sealed
      /\ inner'.session = inner.session
  BY <1>1 DEF Counted, DiskIs, InnerIs
<1>3. /\ inner # None /\ inner.session # None /\ h \notin minted /\ minted' = minted \cup {h}
      /\ ins' = None \/ ins' = [hash |-> h, step |-> "row"]
  BY DEF InsertSection
<1>4. ins' # None => ins'.hash = h
  BY <1>3
<1>5. inner' # None
  BY <1>2, NoneAssumption
<1> QED BY <1>2, <1>3, <1>4, <1>5 DEF CoreInv, SealInv, Uniform

LEMMA InsertCredentialSeals ==
  ASSUME CoreInv, NEW o \in Outcomes, InsertCredential(o)
  PROVE  SealInv'
<1>1. PICK h \in Hashes : h = ins.hash
  BY DEF InsertCredential, CoreInv, TypeOK, Inserts
<1>2. Sealed(h, o)
  BY <1>1, InsertCredentialFacts DEF CoreInv
<1>3. PICK file \in SealedFile :
        /\ file.uuid = inner.sealed.uuid /\ file.password = inner.sealed.password
        /\ file.creds = [inner.sealed.creds EXCEPT ![h] = inner.session]
        /\ Credentials(file) = Credentials(inner.sealed) \cup {h}
        /\ DiskIs(IF o = "before" THEN disk.sealed ELSE file, disk.alloc, disk.cache, disk.secret)
        /\ InnerIs(file, inner.sections, inner.raw, inner.rows, inner.census, inner.keyed, inner.session)
  BY <1>2 DEF Sealed
<1>4. /\ inner # None /\ inner.session # None /\ inner.sealed # None /\ inner \in Inner
      /\ inner.session = inner.sealed.password /\ h \in minted
  BY <1>1 DEF InsertCredential, CoreInv, SealInv, TypeOK
<1>5. inner.sealed \in SealedFile
  BY <1>4, InnerFields
<1>6. Uniform(file)
  <2> SUFFICES ASSUME NEW g \in Credentials(file) PROVE file.creds[g] = file.password
    BY DEF Uniform
  <2>1. g \in Hashes /\ inner.sealed.creds \in [Hashes -> Passwords \cup {None}]
    BY <1>5, FileFields
  <2>2. CASE g = h
    BY <1>3, <1>4, <2>1, <2>2
  <2>3. CASE g # h
    <3>1. g \in Credentials(inner.sealed) /\ file.creds[g] = inner.sealed.creds[g]
      BY <1>3, <2>1, <2>3
    <3> QED BY <1>3, <1>4, <3>1 DEF CoreInv, SealInv, Uniform
  <2> QED BY <2>2, <2>3
<1>7. /\ inner' \in Inner /\ inner'.sealed = file /\ inner'.session = inner.session
      /\ disk'.sealed = IF o = "before" THEN disk.sealed ELSE file
  BY <1>3 DEF InnerIs, DiskIs
<1>8. file # None /\ inner' # None /\ ins' = None /\ minted' = minted
  BY <1>7, NoneAssumption DEF InsertCredential
<1>9. CASE o = "before"
  <2>1. disk'.sealed = disk.sealed
    BY <1>7, <1>9
  <2> QED BY <1>3, <1>4, <1>6, <1>7, <1>8, <2>1 DEF CoreInv, SealInv
<1>10. CASE o # "before"
  <2>1. disk'.sealed = file
    BY <1>7, <1>10
  <2>2. Credentials(file) \subseteq minted
    BY <1>3, <1>4 DEF CoreInv, SealInv
  <2> QED BY <1>3, <1>4, <1>6, <1>7, <1>8, <2>1, <2>2 DEF SealInv
<1> QED BY <1>9, <1>10

LEMMA DamageSeals ==
  ASSUME CoreInv, DamageNext
  PROVE  SealInv'
<1>1. inner = None /\ inner' = None /\ ins' = ins /\ minted' = minted
  BY DEF DamageNext, DamageLedger, DamageSealed, DamageSection, Damaged
<1>2. disk'.sealed = disk.sealed \/ disk'.sealed = Corrupt
  BY DamageFacts DEF CoreInv, DiskIs
<1>3. Uniform(Corrupt)
  BY NoFile DEF Uniform
<1> QED BY <1>1, <1>2, <1>3, NoFile DEF CoreInv, SealInv, Uniform

\* What a step that leaves the walks alone must do for them.
LEMMA WalksStay ==
  ASSUME WalkInv, UNCHANGED <<walks, item, replaced>>, disk'.secret = disk.secret, inner # None => inner' # None
  PROVE  WalkInv'
BY DEF WalkInv

LEMMA OpenCore ==
  ASSUME CoreInv, Open \/ Reopen
  PROVE  CoreInv'
<1>1. OpenFiles /\ Idle /\ TypeOK /\ WalkInv
  BY DEF Open, Reopen, CoreInv, SealInv, Idle
<1>2. /\ disk' \in Disk /\ disk'.secret = disk.secret /\ inner' \in Inner
      /\ shown' \in Snapshot /\ count' \in Tally
  BY <1>1, OpenFacts DEF DiskIs, InnerIs
<1>3. inner' # None
  BY <1>2, NoneAssumption
<1>4. UNCHANGED <<item, ins, minted, acked, issued, damage, replaced>>
  BY <1>1 DEF OpenFiles, history
<1>5. SealInv'
  BY <1>1, OpenSeals
<1>6. CASE Open
  <2>1. walks' = walks
    BY <1>6 DEF Open
  <2>2. WalkInv'
    BY <1>1, <1>2, <1>3, <1>4, <2>1, WalksStay
  <2> QED BY <1>1, <1>2, <1>4, <1>5, <2>1, <2>2 DEF CoreInv, TypeOK
<1>7. CASE Reopen
  <2>1. walks' = [w \in Walkers |-> Closed(walks[w])]
    BY <1>7 DEF Reopen
  <2>2. \A w \in Walkers : walks[w] = None => walks'[w] = None
    BY <2>1 DEF Closed
  <2>3. \A w \in Walkers : walks[w] # None =>
          /\ walks[w] \in Walk /\ walks'[w] \in Walk /\ walks'[w].at = walks[w].at
          /\ walks'[w].secret = walks[w].secret /\ walks'[w].rejected = walks[w].rejected
    BY <1>1, <2>1, ClosedFacts DEF TypeOK
  <2>4. walks' \in [Walkers -> Walk \cup {None}]
    BY <2>1, <2>2, <2>3
  <2>5. WalkInv'
    BY <1>1, <1>2, <1>3, <1>4, <2>2, <2>3 DEF WalkInv
  <2> QED BY <1>1, <1>2, <1>4, <1>5, <2>4, <2>5 DEF CoreInv, TypeOK
<1> QED BY <1>6, <1>7

LEMMA CrashCore ==
  ASSUME CoreInv, Crash
  PROVE  CoreInv'
<1>1. NoSnapshot \in Snapshot
  BY DEF NoSnapshot, Snapshot, Rows
<1>2. /\ inner' = None /\ shown' = NoSnapshot /\ ins' = None /\ walks' = [w \in Walkers |-> None]
      /\ UNCHANGED <<disk, item, minted, acked, issued, damage, replaced, count>>
  BY DEF Crash, history
<1>3. TypeOK'
  BY <1>1, <1>2 DEF CoreInv, TypeOK
<1>4. SealInv' /\ WalkInv'
  BY <1>2 DEF CoreInv, SealInv, WalkInv, Uniform
<1> QED BY <1>3, <1>4 DEF CoreInv

\* An unlock by a person, or by a walk.
LEMMA KeyedType ==
  ASSUME TypeOK, NEW p, NEW o, Keyed(p, o), shown' \in Snapshot, count' \in Tally,
         walks' \in [Walkers -> Walk \cup {None}], UNCHANGED <<item, ins, minted, acked, issued, damage, replaced>>
  PROVE  TypeOK'
BY KeyedFacts DEF TypeOK

\* What a person's unlock comes to.
LEMMA UnlockEffect ==
  ASSUME CoreInv, NEW p \in UserPasswords, NEW o \in Outcomes, Unlock(p, o)
  PROVE  /\ shown' \in Snapshot /\ count' \in Tally
         /\ Keyed(p, o) \/ UNCHANGED <<disk, inner>>
<1>1. inner # None /\ Idle /\ UnlockStep(p, o) /\ p \in Passwords /\ TypeOK
  BY DEF Unlock, Passwords, CoreInv
<1> QED BY <1>1, UnlockFacts DEF Keyed

LEMMA UnlockCore ==
  ASSUME CoreInv, NEW p \in UserPasswords, NEW o \in Outcomes, Unlock(p, o)
  PROVE  CoreInv'
<1>1. /\ shown' \in Snapshot /\ count' \in Tally
      /\ Keyed(p, o) \/ UNCHANGED <<disk, inner>>
  BY UnlockEffect
<1>2. UNCHANGED <<item, ins, walks, minted, acked, issued, damage, replaced>> /\ p \in Passwords
  BY DEF Unlock, history, Passwords
<1>3. TypeOK /\ SealInv /\ WalkInv
  BY DEF CoreInv
<1>4. CASE Keyed(p, o)
  <2>1. SealInv'
    BY <1>2, <1>4, KeyedSeals
  <2>2. disk'.secret = disk.secret /\ inner' # None
    BY <1>3, <1>4, KeyedFacts
  <2>3. WalkInv'
    BY <1>2, <1>3, <2>2, WalksStay
  <2>4. walks' \in [Walkers -> Walk \cup {None}]
    BY <1>2, <1>3 DEF TypeOK
  <2>5. TypeOK'
    BY <1>1, <1>2, <1>3, <1>4, <2>4, KeyedType
  <2> QED BY <2>1, <2>3, <2>5 DEF CoreInv
<1>5. CASE UNCHANGED <<disk, inner>>
  <2>1. TypeOK'
    BY <1>1, <1>2, <1>3, <1>5 DEF TypeOK
  <2>2. SealInv' /\ WalkInv'
    BY <1>2, <1>3, <1>5 DEF SealInv, WalkInv, Uniform
  <2> QED BY <2>1, <2>2 DEF CoreInv
<1> QED BY <1>1, <1>4, <1>5

LEMMA WalkCore ==
  ASSUME CoreInv, WalkNext
  PROVE  CoreInv'
<1>1. TypeOK /\ SealInv /\ WalkInv
  BY DEF CoreInv
<1>2. WalkEffect /\ WalkInv'
  BY <1>1, WalkStepFacts
<1>3. /\ shown' \in Snapshot /\ count' \in Tally /\ walks' \in [Walkers -> Walk \cup {None}]
      /\ UNCHANGED <<item, ins, minted, acked, issued, damage, replaced>>
  BY <1>2 DEF WalkEffect, history
<1>4. CASE inner' = inner /\ \E s \in Passwords \cup {None} : DiskIs(disk.sealed, disk.alloc, disk.cache, s)
  <2>1. disk' \in Disk /\ disk'.sealed = disk.sealed
    BY <1>4 DEF DiskIs
  <2>2. TypeOK'
    BY <1>1, <1>3, <1>4, <2>1 DEF TypeOK
  <2>3. SealInv'
    BY <1>1, <1>3, <1>4, <2>1 DEF SealInv, Uniform
  <2> QED BY <1>2, <2>2, <2>3 DEF CoreInv
<1>5. ASSUME NEW p \in Passwords \cap Kept, NEW o \in Outcomes, Keyed(p, o)
      PROVE  CoreInv'
  <2>1. SealInv'
    BY <1>3, <1>5, KeyedSeals
  <2>2. TypeOK'
    BY <1>1, <1>3, <1>5, KeyedType
  <2> QED BY <1>2, <2>1, <2>2 DEF CoreInv
<1> QED BY <1>2, <1>4, <1>5 DEF WalkEffect

LEMMA LockCore ==
  ASSUME CoreInv, Lock
  PROVE  CoreInv'
<1>1. TypeOK /\ SealInv /\ WalkInv
  BY DEF CoreInv
<1>2. inner' \in Inner /\ inner'.sealed = inner.sealed /\ inner'.session = None
  BY <1>1, LockFacts DEF InnerIs
<1>3. inner # None /\ ins = None /\ UNCHANGED <<disk, item, shown, ins, walks, minted, acked, issued, damage, replaced, count>>
  BY DEF Lock, Idle, history
<1>4. TypeOK'
  BY <1>1, <1>2, <1>3 DEF TypeOK
<1>5. SealInv'
  BY <1>1, <1>2, <1>3 DEF SealInv, Uniform
<1>6. WalkInv'
  BY <1>1, <1>2, <1>3, NoneAssumption DEF WalkInv
<1> QED BY <1>4, <1>5, <1>6 DEF CoreInv

\* A remember call touches the keychain and nothing else.
LEMMA RememberFacts ==
  ASSUME RememberNext
  PROVE  UNCHANGED <<disk, inner, shown, ins, minted, acked, issued, damage, count>>
BY DEF RememberNext, RememberRead, RememberWrite, history

LEMMA RememberCore ==
  ASSUME CoreInv, RememberNext
  PROVE  CoreInv'
<1>1. TypeOK /\ SealInv /\ WalkInv
  BY DEF CoreInv
<1>2. UNCHANGED <<disk, inner, shown, ins, minted, acked, issued, damage, count>>
  BY RememberFacts
<1>3. SealInv'
  BY <1>1, <1>2 DEF SealInv, Uniform
<1>4. PICK w \in Walkers : RememberRead(w) \/ RememberWrite(w)
  BY DEF RememberNext
<1>5. CASE RememberRead(w)
  <2> DEFINE new == [at |-> "remember", secret |-> inner.session, rejected |-> FALSE, closed |-> FALSE,
                     provisioned |-> FALSE]
  <2>1. inner # None /\ Walked(w, new) /\ UNCHANGED <<item, replaced>>
    BY <1>5 DEF RememberRead, history
  <2>2. inner.session \in Passwords \cup {None}
    BY <1>1, <2>1, InnerFields DEF TypeOK
  <2>3. new \in Walk /\ new.at = "remember"
    BY <2>2 DEF Walk
  <2> HIDE DEF new
  <2>4. WalkIs(w, new)
    BY <1>1, <2>1, <2>3, WalkedFacts
  <2>5. TypeOK'
    BY <1>1, <1>2, <2>1, <2>4 DEF TypeOK, WalkIs
  <2>6. WalkInv'
    BY <1>1, <1>2, <2>1, <2>3, <2>4 DEF WalkInv, WalkIs
  <2> QED BY <1>3, <2>5, <2>6 DEF CoreInv
<1>6. CASE RememberWrite(w)
  <2>1. /\ walks[w] # None /\ Walked(w, None)
        /\ \/ /\ item' = walks[w].secret
              /\ replaced' = IF item' # item /\ InUse(item) THEN replaced \cup {item} ELSE replaced
           \/ UNCHANGED <<item, replaced>>
    BY <1>6 DEF RememberWrite
  <2>2. WalkIs(w, None) /\ walks[w].secret \in Passwords \cup {None}
    BY <1>1, <2>1, WalkedFacts, WalkFields
  <2>3. item' \in Passwords \cup {None} /\ replaced' \subseteq Passwords \cup {None}
    BY <1>1, <2>1, <2>2 DEF TypeOK
  <2>4. TypeOK'
    BY <1>1, <1>2, <2>2, <2>3 DEF TypeOK, WalkIs
  <2>5. \A v \in Walkers : walks[v] # None /\ walks[v].at = "item" => walks[v].secret \in {item'} \cup replaced'
    BY <1>1, <2>1 DEF WalkInv, InUse
  <2>6. WalkInv'
    BY <1>1, <1>2, <2>2, <2>5 DEF WalkInv, WalkIs
  <2> QED BY <1>3, <2>4, <2>6 DEF CoreInv
<1> QED BY <1>4, <1>5, <1>6

\* Steps of the open store that leave the walks, the secret file and the item alone.
LEMMA StoreCore ==
  ASSUME CoreInv, SealInv', UNCHANGED <<item, walks, damage, replaced>>, disk' \in Disk, disk'.secret = disk.secret,
         inner' \in Inner, shown' \in Snapshot, ins' \in Inserts \cup {None}, count' \in Tally,
         minted' \subseteq Hashes, acked' \subseteq minted', issued' \in [Hashes -> Counts]
  PROVE  CoreInv'
<1>1. TypeOK'
  BY DEF CoreInv, TypeOK
<1>2. WalkInv'
  BY NoneAssumption DEF CoreInv, WalkInv
<1> QED BY <1>1, <1>2 DEF CoreInv

LEMMA InsertSectionCore ==
  ASSUME CoreInv, NEW h \in Hashes, NEW o \in Outcomes, InsertSection(h, o)
  PROVE  CoreInv'
<1>1. SealInv'
  BY InsertSectionSeals
<1>2. Counted(h, 0, o) /\ count' \in Tally /\ ins' \in Inserts \cup {None}
  BY InsertSectionFacts DEF CoreInv
<1>3. disk' \in Disk /\ disk'.secret = disk.secret /\ inner' \in Inner
  BY <1>2 DEF Counted, DiskIs, InnerIs
<1>4. UNCHANGED <<item, shown, walks, acked, issued, damage, replaced>> /\ minted' = minted \cup {h}
  BY DEF InsertSection
<1>5. shown' \in Snapshot /\ minted' \subseteq Hashes /\ acked' \subseteq minted' /\ issued' \in [Hashes -> Counts]
  BY <1>4 DEF CoreInv, TypeOK
<1> QED BY <1>1, <1>2, <1>3, <1>4, <1>5, StoreCore

LEMMA ReserveCore ==
  ASSUME CoreInv, NEW h \in Hashes, NEW o \in Outcomes, Reserve(h, o)
  PROVE  CoreInv'
<1>1. /\ inner.sections[h] + 1 \in Counts /\ Counted(h, inner.sections[h] + 1, o)
      /\ issued' = IF o = "ok" THEN [issued EXCEPT ![h] = inner.sections[h] + 1] ELSE issued
      /\ shown' \in Snapshot /\ count' \in Tally
  BY ReserveFacts DEF CoreInv
<1>2. /\ disk' \in Disk /\ disk'.secret = disk.secret /\ disk'.sealed = disk.sealed
      /\ inner' \in Inner /\ inner'.sealed = inner.sealed /\ inner'.session = inner.session
  BY <1>1 DEF Counted, DiskIs, InnerIs
<1>3. inner # None /\ ins = None /\ UNCHANGED <<item, ins, walks, minted, acked, damage, replaced>>
  BY DEF Reserve, Idle
<1>4. SealInv'
  BY <1>2, <1>3, SameSealFacts DEF SameSeal, CoreInv
<1>5. /\ issued' \in [Hashes -> Counts] /\ ins' \in Inserts \cup {None}
      /\ minted' \subseteq Hashes /\ acked' \subseteq minted'
  BY <1>1, <1>3 DEF CoreInv, TypeOK
<1> QED BY <1>1, <1>2, <1>3, <1>4, <1>5, StoreCore

LEMMA InsertRowCore ==
  ASSUME CoreInv, NEW o \in Outcomes, InsertRow(o)
  PROVE  CoreInv'
<1>1. /\ InnerIs(inner.sealed, inner.sections, inner.raw, [inner.rows EXCEPT ![ins.hash] = "pending"],
                 inner.census, inner.keyed, inner.session)
      /\ \E c : DiskIs(disk.sealed, disk.alloc, c, disk.secret)
      /\ count' \in Tally
      /\ ins' = None \/ (ins' \in Inserts /\ ins'.hash = ins.hash)
  BY InsertRowFacts DEF CoreInv
<1>2. /\ disk' \in Disk /\ disk'.secret = disk.secret /\ disk'.sealed = disk.sealed
      /\ inner' \in Inner /\ inner'.sealed = inner.sealed /\ inner'.session = inner.session
  BY <1>1 DEF DiskIs, InnerIs
<1>3. inner # None /\ ins # None /\ UNCHANGED <<item, shown, walks, minted, acked, issued, damage, replaced>>
  BY DEF InsertRow, CoreInv, SealInv, history
<1>4. SealInv'
  BY <1>1, <1>2, <1>3, SameSealFacts DEF SameSeal, CoreInv
<1>5. /\ issued' \in [Hashes -> Counts] /\ ins' \in Inserts \cup {None} /\ shown' \in Snapshot
      /\ minted' \subseteq Hashes /\ acked' \subseteq minted'
  BY <1>1, <1>3 DEF CoreInv, TypeOK
<1> QED BY <1>1, <1>2, <1>3, <1>4, <1>5, StoreCore

LEMMA ConfirmCore ==
  ASSUME CoreInv, NEW h \in Hashes, NEW o \in Outcomes, Confirm(h, o)
  PROVE  CoreInv'
<1>1. /\ InnerIs(inner.sealed, inner.sections, inner.raw, [inner.rows EXCEPT ![h] = "active"],
                 inner.census, inner.keyed, inner.session)
      /\ \E c : DiskIs(disk.sealed, disk.alloc, c, disk.secret)
      /\ shown' \in Snapshot /\ count' \in Tally
  BY ConfirmFacts DEF CoreInv
<1>2. /\ disk' \in Disk /\ disk'.secret = disk.secret /\ disk'.sealed = disk.sealed
      /\ inner' \in Inner /\ inner'.sealed = inner.sealed /\ inner'.session = inner.session
  BY <1>1 DEF DiskIs, InnerIs
<1>3. inner # None /\ ins = None /\ UNCHANGED <<item, ins, walks, minted, acked, issued, damage, replaced>>
  BY DEF Confirm, Idle, history
<1>4. SealInv'
  BY <1>2, <1>3, SameSealFacts DEF SameSeal, CoreInv
<1>5. /\ issued' \in [Hashes -> Counts] /\ ins' \in Inserts \cup {None}
      /\ minted' \subseteq Hashes /\ acked' \subseteq minted'
  BY <1>3 DEF CoreInv, TypeOK
<1> QED BY <1>1, <1>2, <1>3, <1>4, <1>5, StoreCore

LEMMA InsertCredentialCore ==
  ASSUME CoreInv, NEW o \in Outcomes, InsertCredential(o)
  PROVE  CoreInv'
<1>1. SealInv'
  BY InsertCredentialSeals
<1>2. /\ Sealed(ins.hash, o) /\ shown' \in Snapshot /\ count' \in Tally
      /\ acked' = IF o = "ok" THEN acked \cup {ins.hash} ELSE acked
  BY InsertCredentialFacts DEF CoreInv
<1>3. disk' \in Disk /\ disk'.secret = disk.secret /\ inner' \in Inner
  BY <1>2 DEF Sealed, DiskIs, InnerIs
<1>4. UNCHANGED <<item, walks, minted, issued, damage, replaced>> /\ ins' = None /\ ins.hash \in minted
  BY DEF InsertCredential, CoreInv, SealInv
<1>5. ins' \in Inserts \cup {None} /\ minted' \subseteq Hashes /\ acked' \subseteq minted' /\ issued' \in [Hashes -> Counts]
  BY <1>2, <1>4 DEF CoreInv, TypeOK
<1> QED BY <1>1, <1>2, <1>3, <1>4, <1>5, StoreCore

LEMMA DamageCore ==
  ASSUME CoreInv, DamageNext
  PROVE  CoreInv'
<1>1. SealInv'
  BY DamageSeals
<1>2. /\ inner = None /\ UNCHANGED <<item, inner, shown, ins, walks, minted, acked, issued, replaced>>
      /\ count.faults < MaxFaults /\ count' = [count EXCEPT !.faults = @ + 1]
  BY DEF DamageNext, DamageLedger, DamageSealed, DamageSection, Damaged
<1>3. disk' \in Disk /\ damage' \subseteq {"ledger", "section", "sealed"}
  BY DamageFacts DEF CoreInv, DiskIs
<1>6. count' \in Tally
  <2> DEFINE n == count.faults + 1
  <2>1. count \in Tally /\ count.faults \in 0 .. MaxFaults /\ MaxFaults \in Nat
    BY SealedStoreBounds DEF CoreInv, TypeOK, Tally
  <2>2. n \in 0 .. MaxFaults
    BY <1>2, <2>1
  <2>3. count' = [count EXCEPT !.faults = n]
    BY <1>2
  <2> HIDE DEF n
  <2> QED BY <2>1, <2>2, <2>3 DEF Tally
<1>4. WalkInv'
  BY <1>2 DEF CoreInv, WalkInv
<1>5. TypeOK'
  BY <1>2, <1>3, <1>6 DEF CoreInv, TypeOK
<1> QED BY <1>1, <1>4, <1>5 DEF CoreInv

LEMMA StutterCore ==
  ASSUME CoreInv, UNCHANGED vars
  PROVE  CoreInv'
BY DEF CoreInv, TypeOK, SealInv, WalkInv, Uniform, vars

LEMMA NextCore == CoreInv /\ [Next]_vars => CoreInv'
<1> SUFFICES ASSUME CoreInv, [Next]_vars PROVE CoreInv'
  OBVIOUS
<1>1. CASE StoreNext
  BY <1>1, OpenCore, CrashCore, LockCore, UnlockCore, InsertSectionCore, ReserveCore,
     ConfirmCore, InsertRowCore, InsertCredentialCore DEF StoreNext
<1> QED BY <1>1, WalkCore, RememberCore, DamageCore, StutterCore DEF Next

LEMMA InitCore == Init => CoreInv
<1> SUFFICES ASSUME Init PROVE CoreInv
  OBVIOUS
<1> USE DEF Init
<1>1. disk \in Disk
  BY DEF Disk, Rows
<1>2. shown \in Snapshot
  BY DEF NoSnapshot, Snapshot, Rows
<1>3. issued \in [Hashes -> Counts]
  BY SealedStoreBounds DEF Counts
<1>4. count \in Tally
  BY SealedStoreBounds DEF Tally
<1>5. TypeOK
  BY <1>1, <1>2, <1>3, <1>4 DEF TypeOK
<1>6. SealInv
  BY NoFile DEF SealInv, Uniform
<1>7. WalkInv
  BY DEF WalkInv
<1> QED BY <1>5, <1>6, <1>7 DEF CoreInv

LEMMA AlwaysCore == Spec => []CoreInv
<1> QED BY InitCore, NextCore, PTL DEF Spec

\* The keystore's state keeps its types: every file, the open store, the snapshot,
\* the insert under way and every auto-unlock call.
THEOREM TypeCorrect == Spec => []TypeOK
<1>1. CoreInv => TypeOK
  BY DEF CoreInv
<1> QED BY <1>1, AlwaysCore, PTL

-----------------------------------------------------------------------------
(* Custody: what may become of the sealed file. *)

\* A step leaves the sealed file, puts an unreadable one aside, rewrites it while
\* it holds no credential, adds a credential to it, or is damage.
SealedStep ==
    \/ acked' = acked /\ damage \subseteq damage' /\ disk'.sealed = disk.sealed
    \/ acked' = acked /\ damage' = damage /\ disk.sealed = Corrupt /\ disk'.sealed = None
    \/ /\ acked' = acked /\ damage' = damage /\ Credentials(disk.sealed) = {}
       /\ disk'.sealed \in SealedFile /\ Credentials(disk'.sealed) = {}
    \/ \E h \in Hashes :
         /\ acked' \subseteq acked \cup {h} /\ damage' = damage /\ inner # None /\ inner.session # None
         /\ disk'.sealed \in SealedFile /\ disk'.sealed.password = inner.session
         /\ inner.session = inner.sealed.password
         /\ Credentials(disk'.sealed) = Credentials(inner.sealed) \cup {h}
    \/ acked' = acked /\ "sealed" \in damage' /\ disk'.sealed = Corrupt

LEMMA KeyedSealed ==
  ASSUME CoreInv, NEW p \in Passwords, NEW o \in Outcomes, Keyed(p, o), acked' = acked, damage' = damage
  PROVE  SealedStep
<1>1. CASE Provisioned(p, o)
  <2>1. PICK file \in SealedFile :
          /\ Credentials(file) = {}
          /\ DiskIs(IF o = "before" THEN disk.sealed ELSE file, disk.alloc, disk.cache, disk.secret)
    BY <1>1 DEF Provisioned
  <2>2. Credentials(disk.sealed) = {}
    BY <1>1 DEF Keyed, Provisioned, Empty, CoreInv, SealInv
  <2>3. disk'.sealed = disk.sealed \/ disk'.sealed = file
    BY <2>1 DEF DiskIs
  <2> QED BY <2>1, <2>2, <2>3 DEF SealedStep
<1>2. CASE SessionOpened(p)
  BY <1>2 DEF SessionOpened, SealedStep
<1> QED BY <1>1, <1>2 DEF Keyed

LEMMA StepSealed ==
  ASSUME CoreInv, [Next]_vars
  PROVE  SealedStep
<1>1. TypeOK /\ SealInv /\ WalkInv
  BY DEF CoreInv
<1>2. CASE Open \/ Reopen
  <2>1. OpenFiles /\ acked' = acked /\ damage' = damage
    BY <1>2 DEF Open, Reopen, OpenFiles, history
  <2>2. disk'.sealed = LoadSealed(disk)
    BY <1>1, <2>1, OpenFacts DEF DiskIs
  <2> QED BY <2>1, <2>2 DEF LoadSealed, SealedStep
<1>3. CASE Crash \/ Lock \/ RememberNext \/ UNCHANGED vars
  BY <1>3, RememberFacts DEF Crash, Lock, vars, history, SealedStep
<1>4. ASSUME NEW o \in Outcomes, NEW p \in UserPasswords, Unlock(p, o)
      PROVE  SealedStep
  <2>1. Keyed(p, o) \/ UNCHANGED <<disk, inner>>
    BY <1>4, UnlockEffect
  <2>2. acked' = acked /\ damage' = damage /\ p \in Passwords
    BY <1>4 DEF Unlock, history, Passwords
  <2>3. UNCHANGED <<disk, inner>> => SealedStep
    BY <2>2 DEF SealedStep
  <2> QED BY <2>1, <2>2, <2>3, KeyedSealed
<1>5. ASSUME NEW o \in Outcomes, NEW h \in Hashes, InsertSection(h, o) \/ Reserve(h, o) \/ Confirm(h, o)
      PROVE  SealedStep
  <2>1. acked' = acked /\ damage' = damage
    BY <1>5 DEF InsertSection, Reserve, Confirm, history
  <2>2. CASE InsertSection(h, o)
    <3>1. Counted(h, 0, o)
      BY <1>1, <2>2, InsertSectionFacts
    <3> QED BY <2>1, <3>1 DEF Counted, DiskIs, SealedStep
  <2>3. CASE Reserve(h, o)
    <3>1. Counted(h, inner.sections[h] + 1, o)
      BY <1>1, <2>3, ReserveFacts
    <3> QED BY <2>1, <3>1 DEF Counted, DiskIs, SealedStep
  <2>4. CASE Confirm(h, o)
    <3>1. \E c : DiskIs(disk.sealed, disk.alloc, c, disk.secret)
      BY <1>1, <2>4, ConfirmFacts
    <3> QED BY <2>1, <3>1 DEF DiskIs, SealedStep
  <2> QED BY <1>5, <2>2, <2>3, <2>4
<1>6. ASSUME NEW o \in Outcomes, InsertCredential(o)
      PROVE  SealedStep
  <2>1. PICK h \in Hashes : h = ins.hash
    BY <1>1, <1>6 DEF InsertCredential, TypeOK, Inserts
  <2>2. Sealed(h, o) /\ acked' = IF o = "ok" THEN acked \cup {h} ELSE acked
    BY <1>1, <1>6, <2>1, InsertCredentialFacts
  <2>3. /\ inner # None /\ inner.session # None /\ inner.session = inner.sealed.password
        /\ damage' = damage
    BY <1>1, <1>6 DEF InsertCredential, SealInv
  <2>4. PICK file \in SealedFile :
          /\ file.password = inner.sealed.password
          /\ Credentials(file) = Credentials(inner.sealed) \cup {h}
          /\ DiskIs(IF o = "before" THEN disk.sealed ELSE file, disk.alloc, disk.cache, disk.secret)
    BY <2>2 DEF Sealed
  <2>5. CASE o = "before"
    BY <2>2, <2>3, <2>4, <2>5 DEF DiskIs, SealedStep
  <2>6. CASE o # "before"
    <3>1. disk'.sealed = file
      BY <2>4, <2>6 DEF DiskIs
    <3> QED BY <2>2, <2>3, <2>4, <3>1 DEF SealedStep
  <2> QED BY <2>5, <2>6
<1>7. CASE WalkNext
  <2>1. WalkEffect
    BY <1>1, <1>7, WalkStepFacts
  <2>2. acked' = acked /\ damage' = damage
    BY <2>1 DEF WalkEffect, history
  <2>3. CASE \E s \in Passwords \cup {None} : DiskIs(disk.sealed, disk.alloc, disk.cache, s)
    BY <2>2, <2>3 DEF DiskIs, SealedStep
  <2>4. CASE \E p \in Passwords \cap Kept, o \in Outcomes : Keyed(p, o)
    BY <2>2, <2>4, KeyedSealed
  <2> QED BY <2>1, <2>3, <2>4 DEF WalkEffect
<1>8. CASE DamageNext
  <2>1. acked' = acked
    BY <1>8 DEF DamageNext, DamageLedger, DamageSealed, DamageSection, Damaged
  <2>2. \/ damage' = damage \cup {"sealed"} /\ disk'.sealed = Corrupt
        \/ damage \subseteq damage' /\ disk'.sealed = disk.sealed
    BY <1>1, <1>8, DamageFacts DEF DiskIs
  <2> QED BY <2>1, <2>2 DEF SealedStep
<1>9. ASSUME NEW o \in Outcomes, InsertRow(o)
      PROVE  SealedStep
  <2>1. acked' = acked /\ damage' = damage
    BY <1>9 DEF InsertRow, history
  <2>2. \E c : DiskIs(disk.sealed, disk.alloc, c, disk.secret)
    BY <1>1, <1>9, InsertRowFacts
  <2> QED BY <2>1, <2>2 DEF DiskIs, SealedStep
<1> QED BY <1>2, <1>3, <1>4, <1>5, <1>6, <1>7, <1>8, <1>9 DEF Next, StoreNext

\* An insert that returned Ok is in the sealed file for good, quarantined or not,
\* unless that file itself was damaged.
THEOREM AcknowledgedStay == Spec => []AckedSurvive
<1>1. Init => AckedSurvive
  BY DEF Init, AckedSurvive
<1>2. CoreInv /\ AckedSurvive /\ [Next]_vars => AckedSurvive'
  <2> SUFFICES ASSUME CoreInv, AckedSurvive, [Next]_vars PROVE AckedSurvive'
    OBVIOUS
  <2>1. SealedStep
    BY StepSealed
  <2>2. inner # None => Credentials(disk.sealed) \subseteq Credentials(inner.sealed)
    BY DEF CoreInv, SealInv
  <2> QED BY <2>1, <2>2, NoFile DEF SealedStep, AckedSurvive
<1> QED BY <1>1, <1>2, AlwaysCore, PTL DEF Spec

\* The files implement the custody of memberships: every step adds memberships
\* under the password of those kept, changes the password of an empty store, or
\* is damage; a crash, a failed write and a reopening are steps of none.
THEOREM FilesImplementCustody == Spec => ImplementsCustody
<1>1. Init => Abs!Init
  BY NoFile DEF Init, Abs!Init
<1>2. CoreInv /\ [Next]_vars => [Abs!Next]_<<Credentials(disk.sealed),
            IF disk.sealed \in {None, Corrupt} THEN None ELSE disk.sealed.password>>
  <2> SUFFICES ASSUME CoreInv, [Next]_vars
               PROVE  \/ Abs!Next
                      \/ /\ Credentials(disk'.sealed) = Credentials(disk.sealed)
                         /\ (IF disk'.sealed \in {None, Corrupt} THEN None ELSE disk'.sealed.password)
                             = (IF disk.sealed \in {None, Corrupt} THEN None ELSE disk.sealed.password)
    OBVIOUS
  <2>1. ASSUME disk'.sealed \in SealedFile, NEW S \in SUBSET Hashes,
               Credentials(disk'.sealed) = Credentials(disk.sealed) \cup S,
               Credentials(disk.sealed) # {} => disk'.sealed.password = disk.sealed.password
        PROVE  Abs!Next
    <3>1. disk'.sealed.password \in Passwords /\ disk'.sealed \notin {None, Corrupt}
      BY <2>1, FileFields
    <3>2. Credentials(disk.sealed) # {} => disk.sealed \notin {None, Corrupt}
      BY NoFile
    <3>3. Abs!Keep(S, disk'.sealed.password)
      BY <2>1, <3>1, <3>2 DEF Abs!Keep
    <3> QED BY <3>1, <3>3 DEF Abs!Next
  <2>2. CASE disk'.sealed = disk.sealed
    BY <2>2
  <2>3. CASE disk.sealed = Corrupt /\ disk'.sealed = None
    BY <2>3, NoFile
  <2>4. CASE Credentials(disk.sealed) = {} /\ disk'.sealed \in SealedFile /\ Credentials(disk'.sealed) = {}
    BY <2>1, <2>4
  <2>5. ASSUME NEW h \in Hashes, inner # None,
               disk'.sealed \in SealedFile, disk'.sealed.password = inner.session,
               inner.session = inner.sealed.password,
               Credentials(disk'.sealed) = Credentials(inner.sealed) \cup {h}
        PROVE  Abs!Next
    <3>1. /\ Credentials(disk.sealed) \subseteq Credentials(inner.sealed)
          /\ Credentials(disk.sealed) # {} => disk.sealed.password = inner.sealed.password
      BY <2>5 DEF CoreInv, SealInv
    <3> DEFINE S == Credentials(inner.sealed) \cup {h}
    <3>2. S \in SUBSET Hashes
      BY DEF Credentials, Entries
    <3>3. Credentials(disk'.sealed) = Credentials(disk.sealed) \cup S
      BY <2>5, <3>1
    <3> HIDE DEF S
    <3> QED BY <2>1, <2>5, <3>1, <3>2, <3>3
  <2>6. CASE disk'.sealed = Corrupt
    BY <2>6, NoFile DEF Abs!Next, Abs!Lose
  <2>7. SealedStep
    BY StepSealed
  <2> QED BY <2>2, <2>3, <2>4, <2>5, <2>6, <2>7 DEF SealedStep
<1> QED BY <1>1, <1>2, AlwaysCore, PTL DEF Spec, ImplementsCustody, Abs!Spec

-----------------------------------------------------------------------------
(* The store is keyed to a password that can be found again. *)

LEMMA NoPassword == None \notin Passwords
BY SealedStoreBounds DEF Passwords

\* The item and the secret file stay, or what they hold is not needed.
LEMMA KeptStays ==
  ASSUME CoreInv, OpenableInv, UNCHANGED <<item, replaced>>, SecretMoves
  PROVE  /\ Credentials(disk.sealed) # {} => disk.sealed.password \in Kept'
         /\ inner # None /\ inner.session # None => inner.session \in Kept'
<1>1. CASE disk'.secret = disk.secret
  BY <1>1 DEF Kept, OpenableInv
<1>2. CASE disk.secret = None
  <2>1. Credentials(disk.sealed) # {} => disk.sealed.password # None
    <3>1. disk.sealed \in SealedFiles
      BY DiskFields DEF CoreInv, TypeOK
    <3> QED BY <3>1, NoFile, FileFields, NoPassword DEF SealedFiles
  <2> QED BY <1>2, <2>1 DEF Kept, OpenableInv
<1>3. CASE inner # None /\ ~Empty /\ inner.sealed.password # disk.secret
  <2>1. /\ inner.session # None => inner.session = inner.sealed.password
        /\ Credentials(disk.sealed) # {} => disk.sealed.password = inner.sealed.password
    BY <1>3 DEF CoreInv, SealInv
  <2> QED BY <1>3, <2>1 DEF Kept, OpenableInv
<1> QED BY <1>1, <1>2, <1>3 DEF SecretMoves

LEMMA KeyedOpenable ==
  ASSUME CoreInv, OpenableInv, NEW p \in Passwords \cap Kept, NEW o \in Outcomes, Keyed(p, o),
         UNCHANGED <<item, replaced>>
  PROVE  OpenableInv'
<1>1. Kept' = Kept
  BY KeyedFacts DEF Kept, CoreInv
<1>2. CASE Provisioned(p, o)
  <2>1. PICK file \in SealedFile :
          /\ Credentials(file) = {}
          /\ DiskIs(IF o = "before" THEN disk.sealed ELSE file, disk.alloc, disk.cache, disk.secret)
          /\ IF o = "ok" THEN InnerIs(file, inner.sections, inner.raw, inner.rows, inner.census,
                                      inner.keyed, p)
             ELSE inner' = inner
    BY <1>2 DEF Provisioned
  <2>2. Credentials(disk.sealed) = {}
    BY <1>2 DEF Keyed, Provisioned, Empty, CoreInv, SealInv
  <2>3. Credentials(disk'.sealed) = {}
    BY <2>1, <2>2 DEF DiskIs
  <2>4. inner' = inner \/ inner'.session = p
    BY <2>1 DEF InnerIs
  <2> QED BY <1>1, <2>3, <2>4 DEF OpenableInv
<1>3. CASE SessionOpened(p)
  BY <1>1, <1>3 DEF SessionOpened, InnerIs, OpenableInv
<1> QED BY <1>2, <1>3 DEF Keyed

\* The sealed file, the session, the item and the secret file all stay.
LEMMA SameOpenable ==
  ASSUME OpenableInv, UNCHANGED <<item, replaced>>, disk'.sealed = disk.sealed, disk'.secret = disk.secret,
         inner' # None /\ inner'.session # None => inner # None /\ inner'.session = inner.session
  PROVE  OpenableInv'
BY DEF OpenableInv, Kept

LEMMA NextOpenable ==
  ASSUME CoreInv, OpenableInv, [Next]_vars
  PROVE  OpenableInv'
<1>1. TypeOK /\ SealInv /\ WalkInv
  BY DEF CoreInv
<1>2. CASE Open \/ Reopen
  <2>1. OpenFiles /\ UNCHANGED <<item, replaced>>
    BY <1>2 DEF Open, Reopen, OpenFiles, history
  <2>2. disk'.sealed = LoadSealed(disk) /\ disk'.secret = disk.secret /\ inner'.session = None
    BY <1>1, <2>1, OpenFacts DEF DiskIs, InnerIs
  <2> QED BY <2>1, <2>2, NoFile DEF LoadSealed, OpenableInv, Kept
<1>3. CASE Crash \/ Lock \/ UNCHANGED vars
  <2>1. disk' = disk /\ UNCHANGED <<item, replaced>>
    BY <1>3 DEF Crash, Lock, vars, history
  <2>2. inner' # None /\ inner'.session # None => inner # None /\ inner'.session = inner.session
    <3>1. CASE Lock
      BY <1>1, <3>1, LockFacts DEF InnerIs
    <3>2. CASE Crash \/ UNCHANGED vars
      BY <3>2 DEF Crash, vars
    <3> QED BY <1>3, <3>1, <3>2
  <2> QED BY <2>1, <2>2, SameOpenable
<1>4. CASE RememberNext
  <2>1. disk' = disk /\ inner' = inner
    BY <1>4, RememberFacts
  <2>2. PICK w \in Walkers : RememberRead(w) \/ RememberWrite(w)
    BY <1>4 DEF RememberNext
  <2>3. CASE UNCHANGED <<item, replaced>>
    BY <2>1, <2>3, SameOpenable
  <2>4. CASE replaced' = IF item' # item /\ InUse(item) THEN replaced \cup {item} ELSE replaced
    <3>1. inner # None
      BY <1>1, <2>2 DEF RememberRead, RememberWrite, WalkInv
    <3>2. \A x : inner.sealed # None /\ x = inner.sealed.password /\ x \in Kept => x \in Kept'
      BY <2>1, <2>4 DEF Kept, InUse
    <3>3. inner.session # None => inner.sealed # None /\ inner.session = inner.sealed.password
      BY <1>1, <3>1 DEF SealInv
    <3>4. Credentials(disk.sealed) # {} => inner.sealed # None /\ disk.sealed.password = inner.sealed.password
      BY <1>1, <3>1, NoFile DEF SealInv
    <3> QED BY <2>1, <3>1, <3>2, <3>3, <3>4 DEF OpenableInv
  <2> QED BY <2>2, <2>3, <2>4 DEF RememberRead, RememberWrite, history
<1>5. ASSUME NEW o \in Outcomes, NEW p \in UserPasswords, Unlock(p, o)
      PROVE  OpenableInv'
  <2>1. Keyed(p, o) \/ UNCHANGED <<disk, inner>>
    BY <1>5, UnlockEffect
  <2>2. UNCHANGED <<item, replaced>> /\ p \in Passwords \cap Kept
    BY <1>5 DEF Unlock, Passwords, Kept, history
  <2>3. UNCHANGED <<disk, inner>> => OpenableInv'
    BY <2>2 DEF OpenableInv, Kept
  <2> QED BY <2>1, <2>2, <2>3, KeyedOpenable
<1>6. ASSUME NEW o \in Outcomes, NEW h \in Hashes, InsertSection(h, o) \/ Reserve(h, o) \/ Confirm(h, o)
      PROVE  OpenableInv'
  <2>1. UNCHANGED <<item, replaced>> /\ inner # None
    BY <1>1, <1>6 DEF InsertSection, Reserve, Confirm, history
  <2>2. disk'.sealed = disk.sealed /\ disk'.secret = disk.secret /\ inner'.session = inner.session
    <3>1. CASE InsertSection(h, o)
      <4>1. Counted(h, 0, o)
        BY <1>1, <3>1, InsertSectionFacts
      <4> QED BY <4>1 DEF Counted, DiskIs, InnerIs
    <3>2. CASE Reserve(h, o)
      <4>1. Counted(h, inner.sections[h] + 1, o)
        BY <1>1, <3>2, ReserveFacts
      <4> QED BY <4>1 DEF Counted, DiskIs, InnerIs
    <3>3. CASE Confirm(h, o)
      BY <1>1, <3>3, ConfirmFacts DEF DiskIs, InnerIs
    <3> QED BY <1>6, <3>1, <3>2, <3>3
  <2> QED BY <2>1, <2>2, SameOpenable
<1>7. ASSUME NEW o \in Outcomes, InsertCredential(o)
      PROVE  OpenableInv'
  <2>1. PICK h \in Hashes : h = ins.hash
    BY <1>1, <1>7 DEF InsertCredential, TypeOK, Inserts
  <2>2. Sealed(h, o)
    BY <1>1, <1>7, <2>1, InsertCredentialFacts
  <2>3. /\ inner # None /\ inner.session # None /\ inner.session = inner.sealed.password /\ UNCHANGED <<item, replaced>>
    BY <1>1, <1>7 DEF InsertCredential, SealInv
  <2>4. /\ disk'.sealed = disk.sealed \/ disk'.sealed.password = inner.session
        /\ disk'.secret = disk.secret /\ inner'.session = inner.session
    BY <2>2, <2>3 DEF Sealed, DiskIs, InnerIs
  <2> QED BY <2>3, <2>4 DEF OpenableInv, Kept
<1>8. CASE WalkNext
  <2>1. WalkEffect /\ UNCHANGED <<item, replaced>>
    BY <1>1, <1>8, WalkStepFacts DEF WalkEffect, history
  <2>2. CASE inner' = inner /\ SecretMoves /\ \E s \in Passwords \cup {None} : DiskIs(disk.sealed, disk.alloc, disk.cache, s)
    <3>1. disk'.sealed = disk.sealed
      BY <2>2 DEF DiskIs
    <3>2. /\ Credentials(disk.sealed) # {} => disk.sealed.password \in Kept'
          /\ inner # None /\ inner.session # None => inner.session \in Kept'
      BY <2>1, <2>2, KeptStays
    <3> QED BY <2>2, <3>1, <3>2 DEF OpenableInv
  <2>3. CASE \E p \in Passwords \cap Kept, o \in Outcomes : Keyed(p, o)
    BY <2>1, <2>3, KeyedOpenable
  <2> QED BY <2>1, <2>2, <2>3 DEF WalkEffect
<1>9. CASE DamageNext
  <2>1. inner' = None /\ UNCHANGED <<item, replaced>>
    BY <1>9 DEF DamageNext, DamageLedger, DamageSealed, DamageSection, Damaged
  <2>2. disk'.secret = disk.secret /\ (disk'.sealed = Corrupt \/ disk'.sealed = disk.sealed)
    BY <1>1, <1>9, DamageFacts DEF DiskIs
  <2> QED BY <2>1, <2>2, NoFile DEF OpenableInv, Kept
<1>10. ASSUME NEW o \in Outcomes, InsertRow(o)
      PROVE  OpenableInv'
  <2>1. UNCHANGED <<item, replaced>> /\ inner # None
    BY <1>1, <1>10 DEF InsertRow, SealInv, history
  <2>2. disk'.sealed = disk.sealed /\ disk'.secret = disk.secret /\ inner'.session = inner.session
    BY <1>1, <1>10, InsertRowFacts DEF DiskIs, InnerIs
  <2> QED BY <2>1, <2>2, SameOpenable
<1> QED BY <1>2, <1>3, <1>4, <1>5, <1>6, <1>7, <1>8, <1>9, <1>10 DEF Next, StoreNext

\* Every credential on disk can be opened again, by a password a person typed or
\* by a secret that is on disk or in the keychain, but for one whose keychain
\* item remember_keystore_password replaced while the store was keyed to it or an
\* auto-unlock about to (auto_unlock_core, remember_impl).
THEOREM NeverLockedOut == Spec => []CredentialsOpenable
<1>1. Init => OpenableInv
  BY NoFile DEF Init, OpenableInv
<1>2. CoreInv /\ OpenableInv /\ [Next]_vars => OpenableInv'
  BY NextOpenable
<1>3. CoreInv /\ OpenableInv => CredentialsOpenable
  BY DEF CoreInv, SealInv, Uniform, OpenableInv, CredentialsOpenable, Kept
<1> QED BY <1>1, <1>2, <1>3, AlwaysCore, PTL DEF Spec

-----------------------------------------------------------------------------
(* Without damage nothing is quarantined. *)

LEMMA FewerAuthentic ==
  ASSUME NEW l, NEW p, NEW C, NEW D \in SUBSET C, Authentic(l, p, C)
  PROVE  Authentic(l, p, D)
BY DEF Authentic

\* What is written authenticates every membership that has a counter.
LEMMA WrittenAuthentic ==
  ASSUME NEW st \in Inner, st.session # None, Quarantined(st) = {}, NEW C \in SUBSET Hashes,
         \A h \in C : st.sections[h] # None
  PROVE  Authentic(LedgerOf(st), st.session, C)
<1>1. LedgerOf(st).root = [key |-> st.session, over |-> Entries(LedgerOf(st).sections)]
  BY LedgerOfFacts
<1>2. ASSUME NEW h \in C
      PROVE  LedgerOf(st).sections[h] # None /\ LedgerOf(st).sections[h].mac = st.session
  <2> DEFINE stamped == [used |-> st.sections[h], mac |-> st.session]
  <2>1. LedgerOf(st).sections[h] = stamped
    BY <1>2, LedgerOfFacts
  <2>2. st.sections[h] \in Counts /\ st.session \in Passwords
    BY <1>2, InnerFields
  <2>3. stamped \in Section /\ stamped.mac = st.session
    BY <2>2 DEF Section
  <2> HIDE DEF stamped
  <2> QED BY <2>1, <2>3, NoneAssumption
<1> QED BY <1>1, <1>2 DEF Authentic

\* The part of LedgerInv about the open store, for the memberships C.
Vouched(C) ==
    /\ \A h \in C : inner.sections[h] # None
    /\ Authentic(inner.raw, inner.sealed.password, C)
    /\ disk.alloc \in AllocationsFile /\ disk.alloc.uuid = inner.sealed.uuid
    /\ Authentic(disk.alloc.ledger, inner.sealed.password, C)

\* The part about the files.
FilesVouched ==
    /\ disk.alloc # Corrupt /\ disk.sealed # Corrupt
    /\ Credentials(disk.sealed) # {} =>
         /\ disk.alloc \in AllocationsFile /\ disk.alloc.uuid = disk.sealed.uuid
         /\ Authentic(disk.alloc.ledger, disk.sealed.password, Credentials(disk.sealed))

LEMMA LedgerParts ==
  LedgerInv <=> (damage = {} => /\ FilesVouched
                                /\ inner # None => /\ Quarantined(inner) = {}
                                                   /\ Claimed # {} => Vouched(Claimed))
BY DEF LedgerInv, FilesVouched, Vouched

\* What was vouched for stays so when fewer memberships are claimed.
LEMMA LedgerStays ==
  ASSUME LedgerInv, damage' = damage, disk'.sealed = disk.sealed, disk'.alloc = disk.alloc,
         \/ inner' = None
         \/ /\ inner # None /\ inner'.sealed = inner.sealed /\ inner'.sections = inner.sections
            /\ inner'.raw = inner.raw /\ inner'.census = inner.census /\ inner'.keyed = inner.keyed
            /\ ins' = None \/ (ins # None /\ ins'.hash = ins.hash)
  PROVE  LedgerInv'
<1> SUFFICES ASSUME damage' = {}
             PROVE  FilesVouched' /\ (inner' # None => Quarantined(inner') = {} /\ (Claimed' # {} => Vouched(Claimed)'))
  BY DEF LedgerInv, FilesVouched, Vouched
<1>1. FilesVouched /\ (inner # None => Quarantined(inner) = {} /\ (Claimed # {} => Vouched(Claimed)))
  BY LedgerParts
<1>2. FilesVouched'
  BY <1>1 DEF FilesVouched
<1>3. inner' # None => Claimed' \subseteq Claimed
  BY DEF Claimed
<1>4. inner' # None => Quarantined(inner') = {}
  BY <1>1 DEF Quarantined
<1>5. ASSUME inner' # None, Claimed' # {}
      PROVE  Vouched(Claimed)'
  <2>1. PICK C : C = Claimed'
    OBVIOUS
  <2>2. Vouched(Claimed)
    BY <1>1, <1>3, <1>5
  <2>3. Vouched(C)
    BY <1>3, <1>5, <2>1, <2>2, FewerAuthentic DEF Vouched
  <2>4. Vouched(C)'
    BY <1>5, <2>3 DEF Vouched
  <2> QED BY <2>1, <2>4 DEF Vouched
<1> QED BY <1>2, <1>4, <1>5

LEMMA OpenVouches ==
  ASSUME CoreInv, LedgerInv, OpenFiles, Idle
  PROVE  LedgerInv'
<1> SUFFICES ASSUME damage' = {}
             PROVE  FilesVouched' /\ (inner' # None => Quarantined(inner') = {} /\ (Claimed' # {} => Vouched(Claimed)'))
  BY DEF LedgerInv, FilesVouched, Vouched
<1>1. damage = {} /\ ins' = None
  BY DEF OpenFiles, Idle, history
<1>2. FilesVouched
  BY <1>1, LedgerParts
<1>3. LoadSealed(disk) = disk.sealed /\ (IF disk.alloc = Corrupt THEN None ELSE disk.alloc) = disk.alloc
  BY <1>2 DEF FilesVouched, LoadSealed
<1>4. /\ disk'.sealed = disk.sealed /\ disk'.alloc = disk.alloc
      /\ inner'.sealed = disk.sealed /\ inner'.sections = LoadSections(disk) /\ inner'.raw = LoadRaw(disk)
      /\ inner'.census = LoadCensus(disk) /\ inner'.keyed = {}
  BY <1>3, OpenFacts DEF CoreInv, DiskIs, InnerIs
<1>5. FilesVouched'
  BY <1>2, <1>4 DEF FilesVouched
<1>6. Claimed' = Credentials(disk.sealed)
  BY <1>1, <1>4 DEF Claimed
<1>7. CASE Credentials(disk.sealed) = {}
  <2>1. inner'.census = {}
    BY <1>4, <1>7 DEF LoadCensus
  <2> QED BY <1>4, <1>5, <1>6, <1>7, <2>1 DEF Quarantined
<1>8. CASE Credentials(disk.sealed) # {}
  <2>1. /\ disk.alloc \in AllocationsFile /\ disk.alloc.uuid = disk.sealed.uuid
        /\ Authentic(disk.alloc.ledger, disk.sealed.password, Credentials(disk.sealed))
    BY <1>2, <1>8 DEF FilesVouched
  <2>2. disk.alloc \notin {None, Corrupt} /\ disk.sealed # None
    BY <1>8, <2>1, NoFile, NoneAssumption
  <2>3. LedgerBound(disk)
    BY <1>3, <2>1, <2>2 DEF LedgerBound
  <2>4. \A h \in Credentials(disk.sealed) : h \in Hashes /\ disk.alloc.ledger.sections[h] # None
    BY <2>1 DEF Authentic, Credentials, Entries
  <2>5. LoadCensus(disk) = {}
    BY <2>3, <2>4 DEF LoadCensus, Entries
  <2>6. LoadRaw(disk) = disk.alloc.ledger
    BY <2>2 DEF LoadRaw
  <2>7. \A h \in Credentials(disk.sealed) : LoadSections(disk)[h] # None
    <3> SUFFICES ASSUME NEW h \in Credentials(disk.sealed) PROVE LoadSections(disk)[h] # None
      OBVIOUS
    <3>1. LoadSections(disk)[h] = disk.alloc.ledger.sections[h].used
      BY <2>3, <2>4 DEF LoadSections
    <3>2. disk.alloc.ledger \in Ledger
      BY <2>1 DEF AllocationsFile
    <3>3. disk.alloc.ledger.sections[h].used \in Counts
      BY <2>4, <3>2, LedgerFields
    <3> QED BY <3>1, <3>3, NoneAssumption
  <2>8. Quarantined(inner') = {}
    BY <1>4, <2>5 DEF Quarantined
  <2>9. PICK C : C = Credentials(disk.sealed)
    OBVIOUS
  <2>10. Vouched(C)'
    BY <1>4, <2>1, <2>6, <2>7, <2>9 DEF Vouched
  <2>11. Vouched(Claimed)'
    BY <1>6, <2>9, <2>10 DEF Vouched
  <2> QED BY <1>5, <2>8, <2>11
<1> QED BY <1>7, <1>8

LEMMA KeyedVouches ==
  ASSUME CoreInv, LedgerInv, NEW p \in Passwords, NEW o \in Outcomes, Keyed(p, o), ins' = ins, damage' = damage
  PROVE  LedgerInv'
<1> SUFFICES ASSUME damage' = {}
             PROVE  FilesVouched' /\ (inner' # None => Quarantined(inner') = {} /\ (Claimed' # {} => Vouched(Claimed)'))
  BY DEF LedgerInv, FilesVouched, Vouched
<1>1. inner # None /\ ins = None /\ ins' = None /\ inner \in Inner
  BY DEF Keyed, Idle, CoreInv, TypeOK
<1>2. FilesVouched /\ Quarantined(inner) = {} /\ (Claimed # {} => Vouched(Claimed))
  BY <1>1, LedgerParts
<1>3. CASE Provisioned(p, o)
  <2>1. PICK file \in SealedFile :
          /\ Credentials(file) = {}
          /\ DiskIs(IF o = "before" THEN disk.sealed ELSE file, disk.alloc, disk.cache, disk.secret)
          /\ IF o = "ok" THEN InnerIs(file, inner.sections, inner.raw, inner.rows, inner.census,
                                      inner.keyed, p)
             ELSE inner' = inner
    BY <1>3 DEF Provisioned
  <2>2. Credentials(inner.sealed) = {} /\ Credentials(disk.sealed) = {}
    BY <1>1, <1>3 DEF Provisioned, Empty, CoreInv, SealInv
  <2>3. /\ disk'.alloc = disk.alloc /\ Credentials(disk'.sealed) = {}
        /\ disk'.sealed = disk.sealed \/ disk'.sealed = file
    BY <2>1, <2>2 DEF DiskIs
  <2>4. file # Corrupt
    BY FileFields
  <2>5. FilesVouched'
    BY <1>2, <2>3, <2>4 DEF FilesVouched
  <2>6. /\ Credentials(inner'.sealed) = {} /\ inner'.census = inner.census /\ inner'.keyed = inner.keyed
    BY <2>1, <2>2 DEF InnerIs
  <2>7. Claimed' = {} /\ Quarantined(inner') = {}
    BY <1>1, <1>2, <2>6 DEF Claimed, Quarantined
  <2> QED BY <2>5, <2>7
<1>4. CASE SessionOpened(p)
  <2>1. /\ disk' = disk /\ inner'.sealed = inner.sealed /\ inner'.sections = inner.sections
        /\ inner'.raw = inner.raw /\ inner'.census = inner.census
        /\ inner'.keyed = Credentials(inner.sealed) \ (inner.census \cup Verified(p))
        /\ inner.sealed.password = p /\ Credentials(inner.sealed) # {}
    BY <1>4 DEF SessionOpened, InnerIs, Empty
  <2>2. Claimed = Credentials(inner.sealed) /\ inner.census = {}
    BY <1>1, <1>2 DEF Claimed, Quarantined
  <2>3. Vouched(Credentials(inner.sealed))
    BY <1>2, <2>1, <2>2
  <2>4. ASSUME NEW h \in Credentials(inner.sealed)
        PROVE  h \in Verified(p)
    <3>1. inner.sealed.creds[h] = p
      BY <1>1, <2>1 DEF CoreInv, SealInv, Uniform
    <3>2. SectionOk(p, h) /\ RootOk(p)
      BY <2>1, <2>3 DEF Vouched, Authentic, SectionOk, RootOk
    <3> QED BY <2>2, <3>1, <3>2 DEF Verified
  <2>5. Quarantined(inner') = {}
    BY <2>1, <2>2, <2>4 DEF Quarantined
  <2>6. PICK C : C = Credentials(inner.sealed)
    OBVIOUS
  <2>7. Vouched(C)'
    BY <2>1, <2>3, <2>6 DEF Vouched
  <2>8. Claimed' = C
    BY <1>1, <2>1, <2>6 DEF Claimed
  <2>9. Vouched(Claimed)'
    BY <2>7, <2>8 DEF Vouched
  <2>10. FilesVouched'
    BY <1>2, <2>1 DEF FilesVouched
  <2> QED BY <2>5, <2>9, <2>10
<1> QED BY <1>3, <1>4 DEF Keyed

\* A counter is set and the ledger written, for what was claimed and, when the
\* write returned Ok, for the membership whose counter it is.
LEMMA CountedVouches ==
  ASSUME CoreInv, LedgerInv, inner # None, inner.session # None, ins = None, damage' = damage,
         NEW h \in Hashes, NEW n \in Counts, NEW o \in Outcomes, Counted(h, n, o),
         ins' = None \/ (o = "ok" /\ ins'.hash = h)
  PROVE  LedgerInv'
<1> SUFFICES ASSUME damage' = {}
             PROVE  FilesVouched' /\ (inner' # None => Quarantined(inner') = {} /\ (Claimed' # {} => Vouched(Claimed)'))
  BY DEF LedgerInv, FilesVouched, Vouched
<1>1. FilesVouched /\ Quarantined(inner) = {} /\ (Claimed # {} => Vouched(Claimed))
  BY LedgerParts
<1>2. Claimed = Credentials(inner.sealed)
  BY DEF Claimed
<1> DEFINE secs == [inner.sections EXCEPT ![h] = n]
<1>3. PICK st \in Inner :
          /\ st.sealed = inner.sealed /\ st.sections = secs /\ st.raw = inner.raw
          /\ st.rows = inner.rows /\ st.census = inner.census /\ st.keyed = inner.keyed
          /\ st.session = inner.session
          /\ DiskIs(disk.sealed,
                    IF o = "before" THEN disk.alloc
                    ELSE [uuid |-> inner.sealed.uuid, ledger |-> LedgerOf(st)],
                    disk.cache, disk.secret)
          /\ o # "before" => disk'.alloc \in AllocationsFile
          /\ InnerIs(inner.sealed, secs, IF o = "ok" THEN LedgerOf(st) ELSE inner.raw, inner.rows,
                     inner.census, inner.keyed, inner.session)
  BY DEF Counted
<1>4. inner \in Inner /\ inner.sections \in [Hashes -> Counts \cup {None}] /\ n # None
  BY InnerFields, NoneAssumption DEF CoreInv, TypeOK
<1>5. secs[h] # None /\ \A g \in Hashes : inner.sections[g] # None => secs[g] # None
  BY <1>4
<1> HIDE DEF secs
<1>6. /\ disk'.sealed = disk.sealed /\ inner'.sealed = inner.sealed /\ inner'.sections = secs
      /\ inner'.census = inner.census /\ inner'.keyed = inner.keyed
      /\ inner'.raw = IF o = "ok" THEN LedgerOf(st) ELSE inner.raw
      /\ o = "before" => disk'.alloc = disk.alloc
      /\ o # "before" => disk'.alloc.uuid = inner.sealed.uuid /\ disk'.alloc.ledger = LedgerOf(st)
  BY <1>3 DEF DiskIs, InnerIs
<1>7. Quarantined(inner') = {} /\ Quarantined(st) = {}
  BY <1>1, <1>3, <1>6 DEF Quarantined
<1>8. /\ inner.sealed # None /\ inner.session = inner.sealed.password
      /\ disk.sealed \in SealedFile /\ disk.sealed.uuid = inner.sealed.uuid
      /\ Credentials(disk.sealed) \subseteq Credentials(inner.sealed)
      /\ Credentials(disk.sealed) # {} => disk.sealed.password = inner.sealed.password
  BY DEF CoreInv, SealInv
<1>9. \A g \in Credentials(inner.sealed) : g \in Hashes /\ secs[g] # None
  BY <1>1, <1>2, <1>5 DEF Vouched, Credentials, Entries
<1>10. ASSUME NEW C \in SUBSET (Credentials(inner.sealed) \cup {h})
       PROVE  Authentic(LedgerOf(st), inner.sealed.password, C)
  <2>1. C \in SUBSET Hashes /\ \A g \in C : st.sections[g] # None
    BY <1>3, <1>5, <1>9
  <2> QED BY <1>3, <1>7, <1>8, <2>1, WrittenAuthentic
<1>11. FilesVouched'
  <2>1. CASE o = "before"
    BY <1>1, <1>6, <2>1 DEF FilesVouched
  <2>2. CASE o # "before"
    <3>1. disk'.alloc # Corrupt /\ disk'.sealed # Corrupt
      BY <1>1, <1>3, <1>6, <2>2, NoneAssumption DEF FilesVouched
    <3>2. Authentic(LedgerOf(st), inner.sealed.password, Credentials(disk.sealed))
      BY <1>8, <1>10
    <3> QED BY <1>3, <1>6, <1>8, <2>2, <3>1, <3>2 DEF FilesVouched
  <2> QED BY <2>1, <2>2
<1>12. PICK C : C = Claimed'
  OBVIOUS
<1>13. /\ C \subseteq Credentials(inner.sealed) \cup {h}
       /\ o # "ok" => C = Credentials(inner.sealed)
  BY <1>6, <1>12 DEF Claimed
<1>14. ASSUME C # {} PROVE Vouched(C)'
  <2>1. \A g \in C : secs[g] # None
    BY <1>5, <1>9, <1>13
  <2>2. CASE o = "ok"
    BY <1>3, <1>6, <1>10, <1>13, <2>1, <2>2 DEF Vouched
  <2>3. CASE o # "ok"
    <3>1. Vouched(C)
      BY <1>1, <1>2, <1>13, <1>14, <2>3
    <3>2. Authentic(LedgerOf(st), inner.sealed.password, C)
      BY <1>10, <1>13
    <3> QED BY <1>3, <1>6, <2>1, <2>3, <3>1, <3>2 DEF Vouched
  <2> QED BY <2>2, <2>3
<1>15. Claimed' # {} => Vouched(Claimed)'
  BY <1>12, <1>14 DEF Vouched
<1> QED BY <1>7, <1>11, <1>15

LEMMA CredentialVouches ==
  ASSUME CoreInv, LedgerInv, NEW o \in Outcomes, InsertCredential(o)
  PROVE  LedgerInv'
<1> SUFFICES ASSUME damage' = {}
             PROVE  FilesVouched' /\ (inner' # None => Quarantined(inner') = {} /\ (Claimed' # {} => Vouched(Claimed)'))
  BY DEF LedgerInv, FilesVouched, Vouched
<1>1. PICK h \in Hashes : h = ins.hash
  BY DEF InsertCredential, CoreInv, TypeOK, Inserts
<1>2. Sealed(h, o)
  BY <1>1, InsertCredentialFacts DEF CoreInv
<1>3. inner # None /\ damage = {} /\ ins # None /\ ins' = None
  BY DEF InsertCredential, CoreInv, SealInv
<1>4. FilesVouched /\ Quarantined(inner) = {} /\ (Claimed # {} => Vouched(Claimed))
  BY <1>3, LedgerParts
<1>5. PICK C : C = Credentials(inner.sealed) \cup {h}
  OBVIOUS
<1>6. Claimed = C
  BY <1>1, <1>3, <1>5 DEF Claimed
<1>7. Vouched(C)
  BY <1>4, <1>5, <1>6
<1>8. PICK file \in SealedFile :
        /\ file.uuid = inner.sealed.uuid /\ file.password = inner.sealed.password
        /\ Credentials(file) = Credentials(inner.sealed) \cup {h}
        /\ DiskIs(IF o = "before" THEN disk.sealed ELSE file, disk.alloc, disk.cache, disk.secret)
        /\ InnerIs(file, inner.sections, inner.raw, inner.rows, inner.census, inner.keyed, inner.session)
  BY <1>2 DEF Sealed
<1>9. /\ inner'.sealed = file /\ inner'.sections = inner.sections /\ inner'.raw = inner.raw
      /\ inner'.census = inner.census /\ inner'.keyed = inner.keyed /\ disk'.alloc = disk.alloc
      /\ disk'.sealed = IF o = "before" THEN disk.sealed ELSE file
  BY <1>8 DEF DiskIs, InnerIs
<1>10. Vouched(C)'
  BY <1>7, <1>8, <1>9 DEF Vouched
<1>11. Claimed' = C
  BY <1>3, <1>5, <1>8, <1>9 DEF Claimed
<1>12. Vouched(Claimed)'
  BY <1>10, <1>11 DEF Vouched
<1>13. Quarantined(inner') = {}
  BY <1>4, <1>9 DEF Quarantined
<1>14. FilesVouched'
  <2>1. CASE o = "before"
    BY <1>4, <1>9, <2>1 DEF FilesVouched
  <2>2. CASE o # "before"
    BY <1>4, <1>5, <1>7, <1>8, <1>9, <2>2, FileFields DEF FilesVouched, Vouched
  <2> QED BY <2>1, <2>2
<1> QED BY <1>12, <1>13, <1>14

LEMMA NextLedger ==
  ASSUME CoreInv, LedgerInv, [Next]_vars
  PROVE  LedgerInv'
<1>1. TypeOK /\ SealInv /\ WalkInv
  BY DEF CoreInv
<1>2. CASE Open \/ Reopen
  <2>1. OpenFiles /\ Idle
    BY <1>1, <1>2 DEF Open, Reopen, SealInv, Idle
  <2> QED BY <2>1, OpenVouches
<1>3. CASE Crash
  BY <1>3, LedgerStays DEF Crash, history
<1>4. CASE RememberNext \/ UNCHANGED vars
  <2>1. damage' = damage /\ disk' = disk /\ inner' = inner /\ ins' = ins
    BY <1>4, RememberFacts DEF vars
  <2> QED BY <2>1, LedgerStays
<1>5. CASE Lock
  <2>1. damage' = damage /\ disk' = disk /\ inner # None /\ ins' = None
    BY <1>5 DEF Lock, Idle, history
  <2>2. /\ inner'.sealed = inner.sealed /\ inner'.sections = inner.sections
        /\ inner'.raw = inner.raw /\ inner'.census = inner.census /\ inner'.keyed = inner.keyed
    BY <1>1, <1>5, LockFacts DEF InnerIs
  <2> QED BY <2>1, <2>2, LedgerStays
<1>6. ASSUME NEW o \in Outcomes, NEW p \in UserPasswords, Unlock(p, o)
      PROVE  LedgerInv'
  <2>1. Keyed(p, o) \/ UNCHANGED <<disk, inner>>
    BY <1>6, UnlockEffect
  <2>2. p \in Passwords /\ ins' = ins /\ damage' = damage /\ inner # None
    BY <1>6 DEF Unlock, Passwords, history
  <2>3. UNCHANGED <<disk, inner>> => LedgerInv'
    BY <2>2, LedgerStays
  <2> QED BY <2>1, <2>2, <2>3, KeyedVouches
<1>7. ASSUME NEW o \in Outcomes, NEW h \in Hashes, InsertSection(h, o)
      PROVE  LedgerInv'
  <2>1. Counted(h, 0, o)
    BY <1>1, <1>7, InsertSectionFacts
  <2>2. /\ inner # None /\ inner.session # None /\ ins = None /\ damage' = damage
        /\ ins' = IF o = "ok" THEN [hash |-> h, step |-> "row"] ELSE None
    BY <1>7 DEF InsertSection, Idle
  <2>3. ins' = None \/ (o = "ok" /\ ins'.hash = h)
    BY <2>2
  <2>4. 0 \in Counts
    BY SealedStoreBounds DEF Counts
  <2> QED BY <2>1, <2>2, <2>3, <2>4, CountedVouches
<1>8. ASSUME NEW o \in Outcomes, NEW h \in Hashes, Reserve(h, o)
      PROVE  LedgerInv'
  <2>1. inner.sections[h] + 1 \in Counts /\ Counted(h, inner.sections[h] + 1, o)
    BY <1>1, <1>8, ReserveFacts
  <2>2. inner # None /\ inner.session # None /\ ins = None /\ ins' = None /\ damage' = damage
    BY <1>8 DEF Reserve, Unsealable, Idle
  <2> QED BY <2>1, <2>2, CountedVouches
<1>9. ASSUME NEW o \in Outcomes, NEW h \in Hashes, Confirm(h, o)
      PROVE  LedgerInv'
  <2>1. damage' = damage /\ inner # None /\ ins' = None
    BY <1>9 DEF Confirm, Idle, history
  <2>2. /\ inner'.sealed = inner.sealed /\ inner'.sections = inner.sections
        /\ inner'.raw = inner.raw /\ inner'.census = inner.census /\ inner'.keyed = inner.keyed
        /\ disk'.sealed = disk.sealed /\ disk'.alloc = disk.alloc
    BY <1>1, <1>9, ConfirmFacts DEF InnerIs, DiskIs
  <2> QED BY <2>1, <2>2, LedgerStays
<1>10. ASSUME NEW o \in Outcomes, InsertRow(o)
       PROVE  LedgerInv'
  <2>1. damage' = damage /\ inner # None /\ ins # None
    BY <1>1, <1>10 DEF InsertRow, SealInv, history
  <2>2. /\ inner'.sealed = inner.sealed /\ inner'.sections = inner.sections
        /\ inner'.raw = inner.raw /\ inner'.census = inner.census /\ inner'.keyed = inner.keyed
        /\ disk'.sealed = disk.sealed /\ disk'.alloc = disk.alloc
        /\ ins' = None \/ ins'.hash = ins.hash
    BY <1>1, <1>10, InsertRowFacts DEF InnerIs, DiskIs
  <2> QED BY <2>1, <2>2, LedgerStays
<1>11. ASSUME NEW o \in Outcomes, InsertCredential(o)
       PROVE  LedgerInv'
  BY <1>11, CredentialVouches
<1>12. CASE WalkNext
  <2>1. WalkEffect
    BY <1>1, <1>12, WalkStepFacts
  <2>2. ins' = ins /\ damage' = damage
    BY <2>1 DEF WalkEffect, history
  <2>3. CASE inner' = inner /\ \E s \in Passwords \cup {None} : DiskIs(disk.sealed, disk.alloc, disk.cache, s)
    <3>1. disk'.sealed = disk.sealed /\ disk'.alloc = disk.alloc
      BY <2>3 DEF DiskIs
    <3> QED BY <2>2, <2>3, <3>1, LedgerStays
  <2>4. CASE \E p \in Passwords \cap Kept, o \in Outcomes : Keyed(p, o)
    BY <2>2, <2>4, KeyedVouches
  <2> QED BY <2>1, <2>3, <2>4 DEF WalkEffect
<1>13. CASE DamageNext
  BY <1>1, <1>13, DamageFacts DEF LedgerInv
<1> QED BY <1>2, <1>3, <1>4, <1>5, <1>6, <1>7, <1>8, <1>9, <1>10, <1>11, <1>12, <1>13 DEF Next, StoreNext

\* A membership is quarantined only when a file was damaged from outside: no order
\* of crashes, failed writes, password changes of an empty store and reopenings
\* makes the keystore distrust what it wrote itself.
THEOREM TrustsItsOwnWrites == Spec => []NoFalseQuarantine
<1>1. Init => LedgerInv
  BY NoFile, SealedStoreBounds DEF Init, LedgerInv
<1>2. CoreInv /\ LedgerInv /\ [Next]_vars => LedgerInv'
  BY NextLedger
<1>3. LedgerInv => NoFalseQuarantine
  BY DEF LedgerInv, NoFalseQuarantine
<1> QED BY <1>1, <1>2, <1>3, AlwaysCore, PTL DEF Spec

-----------------------------------------------------------------------------
(* Counters never roll back. *)

LEMMA CountsNat == Counts \subseteq Nat /\ 0 \in Counts
BY SealedStoreBounds DEF Counts

\* MemoryInv, one membership at a time.
Counter(h) ==
    /\ inner.sections[h] # None => h \in minted
    /\ h \in Credentials(inner.sealed) \ inner.census => inner.sections[h] # None
    /\ h \notin inner.census /\ inner.sections[h] # None /\ inner.raw.sections[h] # None
         => inner.sections[h] >= inner.raw.sections[h].used
    /\ inner.sections[h] # None /\ h \notin Credentials(inner.sealed) => issued[h] = 0
    /\ Unsealable(h) => inner.sections[h] >= issued[h]

\* The parts of CounterInv that are not about the open store.
FilesCount ==
    /\ \A h \in Hashes : issued[h] # 0 => h \in minted
    /\ disk.alloc \in AllocationsFile => Sound(disk.alloc.ledger)

InsertCounts ==
    ins # None => inner.sections[ins.hash] # None /\ ins.hash \notin inner.census

LEMMA CounterParts ==
  /\ CounterInv <=> FilesCount /\ MemoryInv /\ InsertCounts
  /\ MemoryInv <=> (inner # None => /\ Sound(inner.raw) /\ inner.census \subseteq minted
                                    /\ \A h \in Hashes : Counter(h))
BY DEF CounterInv, FilesCount, MemoryInv, InsertCounts, Counter

\* The store and the ledger stay, but that the session may end.
LEMMA CountersStay ==
  ASSUME CounterInv, minted' = minted, issued' = issued, disk'.alloc = disk.alloc,
         \/ inner' = None /\ ins' = None
         \/ /\ inner # None /\ inner'.sealed = inner.sealed /\ inner'.sections = inner.sections
            /\ inner'.raw = inner.raw /\ inner'.census = inner.census /\ inner'.keyed = inner.keyed
            /\ inner'.session = inner.session \/ inner'.session = None
            /\ ins' = None \/ (ins # None /\ ins'.hash = ins.hash)
  PROVE  CounterInv'
<1>1. FilesCount /\ MemoryInv /\ InsertCounts
  BY CounterParts
<1>2. FilesCount'
  BY <1>1 DEF FilesCount, Sound
<1>3. InsertCounts'
  BY <1>1 DEF InsertCounts
<1>4. MemoryInv'
  <2> SUFFICES ASSUME inner' # None PROVE (Sound(inner.raw) /\ inner.census \subseteq minted /\ \A h \in Hashes : Counter(h))'
    BY DEF MemoryInv, Counter
  <2>1. Sound(inner.raw) /\ inner.census \subseteq minted /\ \A h \in Hashes : Counter(h)
    BY <1>1, CounterParts
  <2>2. Sound(inner.raw)' /\ inner'.census \subseteq minted'
    BY <2>1 DEF Sound
  <2>3. \A h \in Hashes : Counter(h)'
    BY <2>1 DEF Counter, Unsealable, Quarantined
  <2> QED BY <2>2, <2>3
<1> QED BY <1>2, <1>3, <1>4 DEF CounterInv, FilesCount, InsertCounts

LEMMA OpenCounts ==
  ASSUME CoreInv, CounterInv, OpenFiles, Idle
  PROVE  CounterInv'
<1>1. FilesCount
  BY CounterParts
<1>2. ins' = None /\ minted' = minted /\ issued' = issued
  BY DEF OpenFiles, Idle, history
<1>3. /\ disk'.alloc = IF disk.alloc = Corrupt THEN None ELSE disk.alloc
      /\ inner'.sealed = LoadSealed(disk) /\ inner'.sections = LoadSections(disk) /\ inner'.raw = LoadRaw(disk)
      /\ inner'.census = LoadCensus(disk) /\ inner'.session = None
  BY OpenFacts DEF CoreInv, DiskIs, InnerIs
<1>4. disk'.alloc \in AllocationsFile => disk'.alloc = disk.alloc
  BY <1>3, NoneAssumption
<1>5. FilesCount'
  BY <1>1, <1>2, <1>4 DEF FilesCount, Sound
<1>6. disk.alloc \notin {None, Corrupt} => disk.alloc \in AllocationsFile /\ disk.alloc.ledger \in Ledger
  BY DiskFields DEF CoreInv, TypeOK, AllocationsFiles, AllocationsFile
<1>7. Sound(LoadRaw(disk))
  <2>1. CASE disk.alloc \in {None, Corrupt}
    BY <2>1 DEF LoadRaw, NoLedger, NoEntries, Sound
  <2>2. CASE disk.alloc \notin {None, Corrupt}
    BY <1>1, <1>6, <2>2 DEF LoadRaw, FilesCount
  <2> QED BY <2>1, <2>2
<1>8. Sound(inner.raw)'
  BY <1>2, <1>3, <1>7 DEF Sound
<1>9. Credentials(LoadSealed(disk)) = Credentials(disk.sealed) /\ Credentials(disk.sealed) \subseteq minted
  BY NoFile DEF LoadSealed, CoreInv, SealInv
<1>10. inner'.census \subseteq minted'
  BY <1>2, <1>3, <1>9 DEF LoadCensus
<1>11. ASSUME NEW h \in Hashes PROVE Counter(h)'
  <2>1. LoadSections(disk)[h] =
          IF LedgerBound(disk) /\ h \in Credentials(disk.sealed) /\ disk.alloc.ledger.sections[h] # None
          THEN disk.alloc.ledger.sections[h].used ELSE None
    BY DEF LoadSections
  <2>2. ~ Unsealable(h)'
    BY <1>3 DEF Unsealable
  <2>3. h \in Credentials(disk.sealed) \ LoadCensus(disk) => LoadSections(disk)[h] # None
    <3> SUFFICES ASSUME h \in Credentials(disk.sealed), h \notin LoadCensus(disk)
                 PROVE  LoadSections(disk)[h] # None
      OBVIOUS
    <3>1. LedgerBound(disk) /\ disk.alloc.ledger.sections[h] # None
      BY DEF LoadCensus, Entries
    <3>2. disk.alloc.ledger.sections[h].used \in Counts
      BY <1>6, <3>1, LedgerFields DEF LedgerBound
    <3> QED BY <2>1, <3>1, <3>2, NoneAssumption
  <2>4. LoadSections(disk)[h] # None =>
          /\ h \in Credentials(disk.sealed) /\ LoadRaw(disk).sections[h].used \in Counts
          /\ LoadSections(disk)[h] = LoadRaw(disk).sections[h].used
    BY <1>6, <2>1, LedgerFields DEF LedgerBound, LoadRaw
  <2>5. LoadSections(disk)[h] # None => LoadSections(disk)[h] >= LoadRaw(disk).sections[h].used
    <3> SUFFICES ASSUME LoadSections(disk)[h] # None
                 PROVE  LoadSections(disk)[h] >= LoadRaw(disk).sections[h].used
      OBVIOUS
    <3>1. PICK n \in Counts : n = LoadRaw(disk).sections[h].used /\ n = LoadSections(disk)[h]
      BY <2>4
    <3>2. n >= n
      BY CountsNat
    <3> QED BY <3>1, <3>2
  <2>6. inner'.sections[h] # None => h \in minted' /\ h \in Credentials(inner'.sealed)
    BY <1>2, <1>3, <1>9, <2>4
  <2>7. h \in Credentials(inner'.sealed) \ inner'.census => inner'.sections[h] # None
    BY <1>3, <1>9, <2>3
  <2>8. inner'.sections[h] # None => inner'.sections[h] >= inner'.raw.sections[h].used
    BY <1>3, <2>5
  <2> QED BY <2>2, <2>6, <2>7, <2>8 DEF Counter
<1>12. MemoryInv'
  BY <1>8, <1>10, <1>11 DEF MemoryInv, Counter
<1> QED BY <1>2, <1>5, <1>12 DEF CounterInv, FilesCount

LEMMA KeyedCounts ==
  ASSUME CoreInv, CounterInv, NEW p \in Passwords, NEW o \in Outcomes, Keyed(p, o), ins' = ins,
         minted' = minted, issued' = issued
  PROVE  CounterInv'
<1>1. inner # None /\ ins' = None /\ inner \in Inner /\ issued \in [Hashes -> Counts]
  BY DEF Keyed, Idle, CoreInv, TypeOK
<1>2. /\ FilesCount /\ Sound(inner.raw) /\ inner.census \subseteq minted
      /\ \A h \in Hashes : Counter(h)
  BY <1>1, CounterParts
<1>3. disk'.alloc = disk.alloc
  BY KeyedFacts DEF CoreInv
<1>4. FilesCount'
  BY <1>2, <1>3 DEF FilesCount, Sound
<1>5. CASE Provisioned(p, o)
  <2>1. PICK file \in SealedFile :
          /\ Credentials(file) = {}
          /\ IF o = "ok" THEN InnerIs(file, inner.sections, inner.raw, inner.rows, inner.census,
                                      inner.keyed, p)
             ELSE inner' = inner
    BY <1>5 DEF Provisioned
  <2>2. Credentials(inner.sealed) = {}
    BY <1>5 DEF Provisioned, Empty
  <2>3. /\ Credentials(inner'.sealed) = {} /\ inner'.sections = inner.sections
        /\ inner'.raw = inner.raw /\ inner'.census = inner.census
    BY <2>1, <2>2 DEF InnerIs
  <2>4. Sound(inner.raw)' /\ inner'.census \subseteq minted'
    BY <1>2, <2>3 DEF Sound
  <2>5. \A h \in Hashes : Counter(h)'
    BY <1>2, <2>2, <2>3 DEF Counter, Unsealable
  <2>6. MemoryInv'
    BY <2>4, <2>5 DEF MemoryInv, Counter
  <2> QED BY <1>1, <1>4, <2>6 DEF CounterInv, FilesCount
<1>6. CASE SessionOpened(p)
  <2>1. /\ inner'.sealed = inner.sealed /\ inner'.sections = inner.sections
        /\ inner'.raw = inner.raw /\ inner'.census = inner.census
        /\ inner'.keyed = Credentials(inner.sealed) \ (inner.census \cup Verified(p))
    BY <1>6 DEF SessionOpened, InnerIs
  <2>2. Sound(inner.raw)' /\ inner'.census \subseteq minted'
    BY <1>2, <2>1 DEF Sound
  <2>3. ASSUME NEW h \in Hashes PROVE Counter(h)'
    <3>1. ASSUME Unsealable(h)' PROVE inner.sections[h] >= issued[h]
      <4>1. h \in Credentials(inner.sealed) \ inner.census /\ h \in Verified(p)
        BY <2>1, <3>1 DEF Unsealable, Quarantined
      <4>2. inner.raw.sections[h] # None /\ inner.raw.sections[h].mac # None
        BY <4>1, NoPassword DEF Verified, SectionOk
      <4>3. inner.raw.sections[h].used >= issued[h]
        BY <1>2, <4>2 DEF Sound
      <4>4. inner.sections[h] # None /\ inner.sections[h] >= inner.raw.sections[h].used
        BY <1>2, <4>1, <4>2 DEF Counter
      <4>5. inner.sections[h] \in Nat /\ inner.raw.sections[h].used \in Nat /\ issued[h] \in Nat
        BY <1>1, <4>2, <4>4, InnerFields, LedgerFields, CountsNat
      <4> QED BY <4>3, <4>4, <4>5
    <3> QED BY <1>2, <2>1, <3>1 DEF Counter
  <2>4. MemoryInv'
    BY <2>2, <2>3 DEF MemoryInv, Counter
  <2> QED BY <1>1, <1>4, <2>4 DEF CounterInv, FilesCount
<1> QED BY <1>5, <1>6 DEF Keyed

\* What is written counts every slot issued, when memory does for what it stamps
\* and the ledger it carries on does for the rest.
LEMMA WrittenCounts ==
  ASSUME NEW st \in Inner, st.session # None, NEW M, NEW I,
         \A h \in Hashes : st.sections[h] # None => h \in M,
         \A h \in Hashes \ Quarantined(st) : st.sections[h] # None => st.sections[h] >= I[h],
         \A h \in Hashes \cap Quarantined(st) :
           st.raw.sections[h] # None /\ st.raw.sections[h].mac # None => st.raw.sections[h].used >= I[h]
  PROVE  \A h \in Hashes : LedgerOf(st).sections[h] # None =>
           /\ h \in M
           /\ LedgerOf(st).sections[h].mac # None => LedgerOf(st).sections[h].used >= I[h]
<1> SUFFICES ASSUME NEW h \in Hashes, LedgerOf(st).sections[h] # None
             PROVE  /\ h \in M
                    /\ LedgerOf(st).sections[h].mac # None => LedgerOf(st).sections[h].used >= I[h]
  OBVIOUS
<1>1. LedgerOf(st).sections[h] = IF st.sections[h] = None THEN None
                                 ELSE IF h \in Quarantined(st) THEN st.raw.sections[h]
                                 ELSE [used |-> st.sections[h], mac |-> st.session]
  BY LedgerOfFacts
<1>2. CASE h \in Quarantined(st)
  BY <1>1, <1>2
<1>3. CASE h \notin Quarantined(st)
  BY <1>1, <1>3
<1> QED BY <1>2, <1>3

\* The counter of h is set to n, which is at least what is issued of it from now on.
LEMMA CountedCounts ==
  ASSUME CoreInv, CounterInv, inner # None, inner.session # None, ins = None,
         NEW h \in Hashes, NEW n \in Counts, NEW o \in Outcomes, Counted(h, n, o),
         minted' = minted \cup {h}, issued' \in [Hashes -> Counts],
         \A g \in Hashes \ {h} : issued'[g] = issued[g],
         o # "ok" => issued' = issued,
         n >= issued'[h],
         h \notin inner.census,
         h \in inner.keyed => inner.raw.sections[h] = None,
         inner.raw.sections[h] # None => n >= inner.raw.sections[h].used,
         h \notin Credentials(inner.sealed) => issued'[h] = 0,
         ins' = None \/ ins'.hash = h
  PROVE  CounterInv'
<1>1. /\ FilesCount /\ Sound(inner.raw) /\ inner.census \subseteq minted
      /\ \A g \in Hashes : Counter(g)
  BY CounterParts
<1>2. /\ inner \in Inner /\ inner.sections \in [Hashes -> Counts \cup {None}] /\ inner.raw \in Ledger
      /\ n # None /\ n \in Nat /\ issued \in [Hashes -> Counts]
  BY InnerFields, NoneAssumption, CountsNat DEF CoreInv, TypeOK
<1> DEFINE secs == [inner.sections EXCEPT ![h] = n]
<1>3. PICK st \in Inner :
          /\ st.sealed = inner.sealed /\ st.sections = secs /\ st.raw = inner.raw
          /\ st.rows = inner.rows /\ st.census = inner.census /\ st.keyed = inner.keyed
          /\ st.session = inner.session
          /\ DiskIs(disk.sealed,
                    IF o = "before" THEN disk.alloc
                    ELSE [uuid |-> inner.sealed.uuid, ledger |-> LedgerOf(st)],
                    disk.cache, disk.secret)
          /\ o # "before" => disk'.alloc \in AllocationsFile
          /\ InnerIs(inner.sealed, secs, IF o = "ok" THEN LedgerOf(st) ELSE inner.raw, inner.rows,
                     inner.census, inner.keyed, inner.session)
  BY DEF Counted
<1>4. secs[h] = n /\ \A g \in Hashes \ {h} : secs[g] = inner.sections[g]
  BY <1>2
<1> HIDE DEF secs
<1>5. /\ inner'.sealed = inner.sealed /\ inner'.sections = secs
      /\ inner'.census = inner.census /\ inner'.keyed = inner.keyed /\ inner'.session = inner.session
      /\ inner'.raw = IF o = "ok" THEN LedgerOf(st) ELSE inner.raw
      /\ o = "before" => disk'.alloc = disk.alloc
      /\ o # "before" => disk'.alloc.ledger = LedgerOf(st)
  BY <1>3 DEF DiskIs, InnerIs
<1>6. Quarantined(st) = inner.census \cup inner.keyed
  BY <1>3 DEF Quarantined
<1>7. \A g \in Hashes : secs[g] # None => g \in minted'
  BY <1>1, <1>4 DEF Counter
<1>8. ASSUME NEW g \in Hashes, g \notin Quarantined(st), secs[g] # None
      PROVE  secs[g] >= issued'[g]
  <2>1. CASE g = h
    BY <1>4, <2>1
  <2>2. CASE g # h
    <3>1. secs[g] = inner.sections[g] /\ inner.sections[g] \in Nat /\ issued'[g] = issued[g]
      BY <1>2, <1>4, <1>8, <2>2, CountsNat
    <3>2. CASE g \in Credentials(inner.sealed)
      BY <1>1, <1>6, <1>8, <3>1, <3>2 DEF Counter, Unsealable, Quarantined
    <3>3. CASE g \notin Credentials(inner.sealed)
      <4>1. issued[g] = 0
        BY <1>1, <1>8, <3>1, <3>3 DEF Counter
      <4> QED BY <3>1, <4>1
    <3> QED BY <3>2, <3>3
  <2> QED BY <2>1, <2>2
<1>9. ASSUME NEW g \in Hashes, g \in Quarantined(st), inner.raw.sections[g] # None, inner.raw.sections[g].mac # None
      PROVE  inner.raw.sections[g].used >= issued'[g]
  <2>1. g # h
    BY <1>6, <1>9
  <2> QED BY <1>1, <1>9, <2>1 DEF Sound
<1>10. PICK M, I : M = minted' /\ I = issued'
  OBVIOUS
<1>11. \A g \in Hashes : LedgerOf(st).sections[g] # None =>
           /\ g \in M
           /\ LedgerOf(st).sections[g].mac # None => LedgerOf(st).sections[g].used >= I[g]
  <2>1. st.session # None
    BY <1>3
  <2>2. \A g \in Hashes : st.sections[g] # None => g \in M
    BY <1>3, <1>7, <1>10
  <2>3. \A g \in Hashes \ Quarantined(st) : st.sections[g] # None => st.sections[g] >= I[g]
    BY <1>3, <1>8, <1>10
  <2>4. \A g \in Hashes \cap Quarantined(st) :
          st.raw.sections[g] # None /\ st.raw.sections[g].mac # None => st.raw.sections[g].used >= I[g]
    BY <1>3, <1>9, <1>10
  <2> QED BY <2>1, <2>2, <2>3, <2>4, WrittenCounts
<1>12. \A g \in Hashes : LedgerOf(st).sections[g] # None =>
           /\ g \in minted'
           /\ LedgerOf(st).sections[g].mac # None => LedgerOf(st).sections[g].used >= issued'[g]
  BY <1>10, <1>11
<1>13. FilesCount'
  <2>1. \A g \in Hashes : issued'[g] # 0 => g \in minted'
    BY <1>1 DEF FilesCount
  <2>2. CASE o = "before"
    BY <1>1, <1>5, <2>1, <2>2 DEF FilesCount, Sound
  <2>3. CASE o # "before"
    BY <1>5, <1>12, <2>1, <2>3 DEF FilesCount, Sound
  <2> QED BY <2>2, <2>3
<1>14. Sound(inner.raw)'
  <2>1. CASE o = "ok"
    BY <1>5, <1>12, <2>1 DEF Sound
  <2>2. CASE o # "ok"
    BY <1>1, <1>5, <2>2 DEF Sound
  <2> QED BY <2>1, <2>2
<1>15. ASSUME NEW g \in Hashes PROVE Counter(g)'
  <2>1. g \in Credentials(inner.sealed) \ inner.census => secs[g] # None
    BY <1>1, <1>2, <1>4 DEF Counter
  <2>2. secs[g] # None /\ g \notin Credentials(inner.sealed) => issued'[g] = 0
    BY <1>1, <1>4 DEF Counter
  <2>3. Unsealable(g)' => secs[g] >= issued'[g]
    <3> SUFFICES ASSUME Unsealable(g)' PROVE secs[g] >= issued'[g]
      OBVIOUS
    <3>1. g \in Credentials(inner.sealed) /\ g \notin Quarantined(st)
      BY <1>5, <1>6 DEF Unsealable, Quarantined
    <3> QED BY <1>6, <1>8, <2>1, <3>1
  <2>4. ASSUME g \notin inner.census, secs[g] # None, inner.raw.sections[g] # None
        PROVE  secs[g] >= inner.raw.sections[g].used
    <3>1. CASE g = h
      BY <1>4, <2>4, <3>1
    <3>2. CASE g # h
      BY <1>1, <1>4, <2>4, <3>2 DEF Counter
    <3> QED BY <3>1, <3>2
  <2>5. ASSUME g \notin inner.census, secs[g] # None, LedgerOf(st).sections[g] # None
        PROVE  secs[g] >= LedgerOf(st).sections[g].used
    <3>1. LedgerOf(st).sections[g] = IF g \in Quarantined(st) THEN inner.raw.sections[g]
                                     ELSE [used |-> secs[g], mac |-> inner.session]
      BY <1>3, <2>5, LedgerOfFacts
    <3>2. secs[g] \in Nat
      BY <1>2, <1>4, <2>5, CountsNat
    <3>3. CASE g \in Quarantined(st)
      BY <2>4, <2>5, <3>1, <3>3
    <3>4. CASE g \notin Quarantined(st)
      BY <3>1, <3>2, <3>4
    <3> QED BY <3>3, <3>4
  <2>6. g \notin inner'.census /\ inner'.sections[g] # None /\ inner'.raw.sections[g] # None
          => inner'.sections[g] >= inner'.raw.sections[g].used
    BY <1>5, <2>4, <2>5
  <2> QED BY <1>5, <1>7, <2>1, <2>2, <2>3, <2>6 DEF Counter
<1>16. MemoryInv'
  BY <1>1, <1>5, <1>14, <1>15 DEF MemoryInv, Counter
<1>17. InsertCounts'
  BY <1>2, <1>4, <1>5 DEF InsertCounts
<1> QED BY <1>13, <1>16, <1>17 DEF CounterInv, FilesCount, InsertCounts

LEMMA CredentialCounts ==
  ASSUME CoreInv, CounterInv, NEW o \in Outcomes, InsertCredential(o)
  PROVE  CounterInv'
<1>1. PICK h \in Hashes : h = ins.hash
  BY DEF InsertCredential, CoreInv, TypeOK, Inserts
<1>2. Sealed(h, o)
  BY <1>1, InsertCredentialFacts DEF CoreInv
<1>3. /\ inner # None /\ ins # None /\ ins' = None /\ minted' = minted /\ issued' = issued
      /\ h \notin Credentials(inner.sealed) /\ inner \in Inner
  BY <1>1 DEF InsertCredential, CoreInv, SealInv, TypeOK
<1>4. /\ FilesCount /\ Sound(inner.raw) /\ inner.census \subseteq minted
      /\ \A g \in Hashes : Counter(g)
      /\ inner.sections[h] # None
  BY <1>1, <1>3, CounterParts DEF InsertCounts
<1>5. PICK file \in SealedFile :
        /\ Credentials(file) = Credentials(inner.sealed) \cup {h}
        /\ DiskIs(IF o = "before" THEN disk.sealed ELSE file, disk.alloc, disk.cache, disk.secret)
        /\ InnerIs(file, inner.sections, inner.raw, inner.rows, inner.census, inner.keyed, inner.session)
  BY <1>2 DEF Sealed
<1>6. /\ inner'.sealed = file /\ inner'.sections = inner.sections /\ inner'.raw = inner.raw
      /\ inner'.census = inner.census /\ inner'.keyed = inner.keyed /\ inner'.session = inner.session
      /\ disk'.alloc = disk.alloc
  BY <1>5 DEF DiskIs, InnerIs
<1>7. FilesCount' /\ Sound(inner.raw)' /\ inner'.census \subseteq minted'
  BY <1>3, <1>4, <1>6 DEF FilesCount, Sound
<1>8. ASSUME NEW g \in Hashes PROVE Counter(g)'
  <2>1. CASE g = h
    <3>1. issued[h] = 0 /\ inner.sections[h] \in Nat
      BY <1>3, <1>4, InnerFields, CountsNat DEF Counter
    <3>2. inner.sections[h] >= issued[h]
      BY <3>1
    <3> QED BY <1>3, <1>4, <1>6, <2>1, <3>1, <3>2 DEF Counter
  <2>2. CASE g # h
    <3>1. g \in Credentials(inner'.sealed) <=> g \in Credentials(inner.sealed)
      BY <1>5, <1>6, <2>2
    <3> QED BY <1>3, <1>4, <1>6, <3>1 DEF Counter, Unsealable, Quarantined
  <2> QED BY <2>1, <2>2
<1>9. MemoryInv'
  BY <1>7, <1>8 DEF MemoryInv, Counter
<1> QED BY <1>3, <1>7, <1>9 DEF CounterInv, FilesCount

LEMMA NextCounter ==
  ASSUME CoreInv, CounterInv, [Next]_vars
  PROVE  CounterInv'
<1>1. TypeOK /\ SealInv /\ WalkInv
  BY DEF CoreInv
<1>2. CASE Open \/ Reopen
  <2>1. OpenFiles /\ Idle
    BY <1>1, <1>2 DEF Open, Reopen, SealInv, Idle
  <2> QED BY <2>1, OpenCounts
<1>3. CASE Crash
  BY <1>3, CountersStay DEF Crash, history
<1>4. CASE RememberNext \/ UNCHANGED vars
  <2>1. minted' = minted /\ issued' = issued /\ disk' = disk /\ inner' = inner /\ ins' = ins
    BY <1>4, RememberFacts DEF vars
  <2>2. inner = None => ins = None
    BY <1>1 DEF SealInv
  <2> QED BY <2>1, <2>2, CountersStay
<1>5. CASE Lock
  <2>1. minted' = minted /\ issued' = issued /\ disk' = disk /\ inner # None /\ ins' = None
    BY <1>5 DEF Lock, Idle, history
  <2>2. /\ inner'.sealed = inner.sealed /\ inner'.sections = inner.sections /\ inner'.raw = inner.raw
        /\ inner'.census = inner.census /\ inner'.keyed = inner.keyed /\ inner'.session = None
    BY <1>1, <1>5, LockFacts DEF InnerIs
  <2> QED BY <2>1, <2>2, CountersStay
<1>6. ASSUME NEW o \in Outcomes, NEW p \in UserPasswords, Unlock(p, o)
      PROVE  CounterInv'
  <2>1. Keyed(p, o) \/ UNCHANGED <<disk, inner>>
    BY <1>6, UnlockEffect
  <2>2. p \in Passwords /\ ins' = ins /\ minted' = minted /\ issued' = issued /\ inner # None
    BY <1>6 DEF Unlock, Passwords, history
  <2>3. UNCHANGED <<disk, inner>> => CounterInv'
    BY <2>2, CountersStay
  <2> QED BY <2>1, <2>2, <2>3, KeyedCounts
<1>7. ASSUME NEW o \in Outcomes, NEW h \in Hashes, InsertSection(h, o)
      PROVE  CounterInv'
  <2>1. Counted(h, 0, o)
    BY <1>1, <1>7, InsertSectionFacts
  <2>2. /\ inner # None /\ inner.session # None /\ ins = None /\ h \notin minted
        /\ minted' = minted \cup {h} /\ issued' = issued
        /\ ins' = IF o = "ok" THEN [hash |-> h, step |-> "row"] ELSE None
    BY <1>7 DEF InsertSection, Idle
  <2>3. ins' = None \/ ins'.hash = h
    BY <2>2
  <2>4. /\ FilesCount /\ Sound(inner.raw) /\ inner.census \subseteq minted
    BY <2>2, CounterParts
  <2>5. issued[h] = 0 /\ inner.raw.sections[h] = None /\ h \notin inner.census
    BY <2>2, <2>4 DEF FilesCount, Sound
  <2>6. issued' \in [Hashes -> Counts] /\ 0 \in Counts /\ 0 >= issued'[h]
    BY <1>1, <2>2, <2>5, CountsNat DEF TypeOK
  <2> QED BY <2>1, <2>2, <2>3, <2>5, <2>6, CountedCounts
<1>8. ASSUME NEW o \in Outcomes, NEW h \in Hashes, Reserve(h, o)
      PROVE  CounterInv'
  <2>1. PICK n \in Counts : n = inner.sections[h] + 1
    BY <1>1, <1>8, ReserveFacts
  <2>2. /\ inner.sections[h] \in Counts /\ Counted(h, n, o)
        /\ issued' = IF o = "ok" THEN [issued EXCEPT ![h] = n] ELSE issued
    BY <1>1, <1>8, <2>1, ReserveFacts
  <2>3. /\ inner # None /\ inner.session # None /\ ins = None /\ ins' = None /\ minted' = minted
        /\ Unsealable(h) /\ inner.sections[h] # None /\ inner \in Inner
    BY <1>1, <1>8 DEF Reserve, Unsealable, Idle, TypeOK
  <2>4. h \in Credentials(inner.sealed) /\ h \notin inner.census /\ h \notin inner.keyed
    BY <2>3 DEF Unsealable, Quarantined
  <2>5. h \in minted /\ minted' = minted \cup {h}
    BY <1>1, <2>3, <2>4 DEF SealInv
  <2>6. Counter(h)
    BY <2>3, CounterParts
  <2>7. n \in Nat /\ inner.sections[h] \in Nat /\ issued \in [Hashes -> Counts] /\ issued[h] \in Nat
    BY <1>1, <2>2, CountsNat DEF TypeOK
  <2>8. issued' \in [Hashes -> Counts] /\ n >= issued'[h] /\ \A g \in Hashes \ {h} : issued'[g] = issued[g]
    BY <2>1, <2>2, <2>3, <2>6, <2>7 DEF Counter
  <2>9. ASSUME inner.raw.sections[h] # None PROVE n >= inner.raw.sections[h].used
    <3>1. inner.raw.sections[h].used \in Nat
      BY <2>3, <2>9, InnerFields, LedgerFields, CountsNat
    <3> QED BY <2>1, <2>3, <2>4, <2>6, <2>7, <2>9, <3>1 DEF Counter
  <2>10. o # "ok" => issued' = issued
    BY <2>2
  <2> QED BY <2>2, <2>3, <2>4, <2>5, <2>8, <2>9, <2>10, CountedCounts
<1>9. ASSUME NEW o \in Outcomes, NEW h \in Hashes, Confirm(h, o)
      PROVE  CounterInv'
  <2>1. minted' = minted /\ issued' = issued /\ inner # None /\ ins' = None
    BY <1>9 DEF Confirm, Idle, history
  <2>2. /\ inner'.sealed = inner.sealed /\ inner'.sections = inner.sections /\ inner'.raw = inner.raw
        /\ inner'.census = inner.census /\ inner'.keyed = inner.keyed /\ inner'.session = inner.session
        /\ disk'.alloc = disk.alloc
    BY <1>1, <1>9, ConfirmFacts DEF InnerIs, DiskIs
  <2> QED BY <2>1, <2>2, CountersStay
<1>10. ASSUME NEW o \in Outcomes, InsertRow(o)
       PROVE  CounterInv'
  <2>1. minted' = minted /\ issued' = issued /\ inner # None /\ ins # None
    BY <1>1, <1>10 DEF InsertRow, SealInv, history
  <2>2. /\ inner'.sealed = inner.sealed /\ inner'.sections = inner.sections /\ inner'.raw = inner.raw
        /\ inner'.census = inner.census /\ inner'.keyed = inner.keyed /\ inner'.session = inner.session
        /\ disk'.alloc = disk.alloc /\ (ins' = None \/ ins'.hash = ins.hash)
    BY <1>1, <1>10, InsertRowFacts DEF InnerIs, DiskIs
  <2> QED BY <2>1, <2>2, CountersStay
<1>11. ASSUME NEW o \in Outcomes, InsertCredential(o)
       PROVE  CounterInv'
  BY <1>11, CredentialCounts
<1>12. CASE WalkNext
  <2>1. WalkEffect
    BY <1>1, <1>12, WalkStepFacts
  <2>2. ins' = ins /\ minted' = minted /\ issued' = issued /\ (inner = None => ins = None)
    BY <1>1, <2>1 DEF WalkEffect, history, SealInv
  <2>3. CASE inner' = inner /\ \E s \in Passwords \cup {None} : DiskIs(disk.sealed, disk.alloc, disk.cache, s)
    <3>1. disk'.alloc = disk.alloc
      BY <2>3 DEF DiskIs
    <3> QED BY <2>2, <2>3, <3>1, CountersStay
  <2>4. CASE \E p \in Passwords \cap Kept, o \in Outcomes : Keyed(p, o)
    BY <2>2, <2>4, KeyedCounts
  <2> QED BY <2>1, <2>3, <2>4 DEF WalkEffect
<1>13. CASE DamageNext
  <2>1. inner = None /\ UNCHANGED <<inner, ins, minted, issued>>
    BY <1>13 DEF DamageNext, DamageLedger, DamageSealed, DamageSection, Damaged
  <2>2. FilesCount /\ ins = None
    BY <1>1, <2>1, CounterParts DEF SealInv
  <2>3. \/ disk'.alloc = disk.alloc
        \/ disk'.alloc \in AllocationsFile =>
             /\ disk.alloc \in AllocationsFile
             /\ \A h \in Hashes : \/ disk'.alloc.ledger.sections[h] = disk.alloc.ledger.sections[h]
                                  \/ disk'.alloc.ledger.sections[h] = None
                                  \/ disk.alloc.ledger.sections[h] # None /\ disk'.alloc.ledger.sections[h].mac = None
    BY <1>1, <1>13, DamageFacts DEF DiskIs
  <2>4. FilesCount'
    BY <2>1, <2>2, <2>3 DEF FilesCount, Sound
  <2> QED BY <2>1, <2>2, <2>4 DEF CounterInv, FilesCount, MemoryInv
<1> QED BY <1>2, <1>3, <1>4, <1>5, <1>6, <1>7, <1>8, <1>9, <1>10, <1>11, <1>12, <1>13 DEF Next, StoreNext

\* A store that can issue slots of a membership counts at least those already
\* issued: a ledger that is lost, corrupt, another store's or edited beside intact
\* credentials quarantines and never starts the counter again.
THEOREM CountersKept == Spec => []CountersNeverRollBack
<1>1. Init => CounterInv
  BY NoneAssumption DEF Init, CounterInv, MemoryInv
<1>2. CoreInv /\ CounterInv /\ [Next]_vars => CounterInv'
  BY NextCounter
<1>3. CounterInv => CountersNeverRollBack
  BY DEF CounterInv, MemoryInv, CountersNeverRollBack, Unsealable, Quarantined
<1> QED BY <1>1, <1>2, <1>3, AlwaysCore, PTL DEF Spec

====
