---- MODULE MembershipLifecycleProofs ----
(***************************************************************************)
(* Theorems about MembershipLifecycle, for every set of members, scopes and *)
(* registry states, and any number of calls, pollers and readers at once.   *)
(***************************************************************************)
EXTENDS MembershipLifecycle, TLAPS

(* The inductive invariants. *)

\* Whatever is on its way to a record is about a record there is: no record is
\* ever dropped, and every list is taken from the records.
Refer ==
    /\ \A c \in Callers : calls[c] # None /\ calls[c].pc = "submit" => calls[c].member \in Known
    /\ \A m \in Members : submit[m] # "none" => m \in Known
    /\ \A p \in Pollers : polls[p] # None =>
         /\ polls[p].list \subseteq Known
         /\ polls[p].cur # None => polls[p].cur \in Known /\ polls[p].answer \in Answers
    /\ \A r \in Readers : reads[r] # None => reads[r].member \in Known

TypeInv == TypeOK /\ Refer

InFlight(c) == calls[c] # None /\ calls[c].pc # "wait"

\* Two calls in flight hold claims of two scopes, and a call that has yet to
\* insert knows of every record of its scope.
ClaimInv ==
    /\ ClaimsMatchCalls
    /\ \A c, d \in Callers : InFlight(c) /\ InFlight(d) /\ c # d => calls[c].scope # calls[d].scope
    /\ \A c \in Callers : calls[c] # None /\ calls[c].pc = "insert" =>
         \A m \in Known : rec[m].scope = calls[c].scope => m \in calls[c].saw

\* What the registry was seen to say was once true.
Confirmed(m) == chain[m] # "absent"
RegistryInv ==
    /\ \A m \in Known : rec[m].state \in RegistryStates => Confirmed(m)
    /\ \A p \in Pollers : polls[p] # None /\ polls[p].cur # None /\ polls[p].answer \in RegistryStates
         => Confirmed(polls[p].cur)
    /\ \A r \in Readers : reads[r] # None /\ reads[r].answer \in RegistryStates
         => Confirmed(reads[r].member)

\* With the cache file intact, a stamp and a removal mean as much.
StampInv ==
    /\ \A m \in Known : /\ rec[m].state # "unknown"
                        /\ rec[m].seen \/ rec[m].state = "erased" => Confirmed(m)
    /\ \A p \in Pollers : polls[p] # None /\ polls[p].phase = "refresh" =>
         /\ \A m \in polls[p].list : Confirmed(m)
         /\ polls[p].cur # None => Confirmed(polls[p].cur)
    /\ \A r \in Readers : reads[r] # None =>
         /\ reads[r].snap.state # "unknown"
         /\ reads[r].snap.seen \/ IsActiveLike(reads[r].snap.state) => Confirmed(reads[r].member)

\* Nothing lands before it is submitted, and a record belongs to one call.
SubmitInv ==
    /\ \A m \in Members : submit[m] = "none" => chain[m] = "absent"
    /\ \A c \in Callers : calls[c] # None /\ calls[c].pc = "submit" => submit[calls[c].member] = "none"
    /\ \A c, d \in Callers : /\ c # d /\ calls[c] # None /\ calls[d] # None
                             /\ calls[c].pc = "submit" /\ calls[d].pc = "submit"
                             => calls[c].member # calls[d].member

-----------------------------------------------------------------------------
(* Facts about the rows. *)

\* A row that was rewritten is the same member's: its scope and its history stay,
\* and no stamp is set before update_cache sets it.
Rewritten(row, new) ==
    /\ new \in Record /\ new.scope = row.scope /\ new.saw = row.saw
    /\ new.seen => row.seen

LEMMA StampFacts ==
  ASSUME NEW row \in Record
  PROVE  /\ Stamped(row) \in Record
         /\ Stamped(row).scope = row.scope /\ Stamped(row).saw = row.saw
         /\ Stamped(row).state = row.state
         /\ Stamped(row).seen => row.seen \/ IsActiveLike(row.state)
BY DEF Stamped, Record

\* Every change of a row keeps what a row is about (apply_observed,
\* record_async_submit_error, the callbacks, a lost cache row).
LEMMA RowFacts ==
  ASSUME NEW row \in Record
  PROVE  /\ \A st \in States : Rewritten(row, [row EXCEPT !.state = st])
         /\ \A st \in RegistryStates : Rewritten(row, Observed(row, st))
         /\ Rewritten(row, WindowElapsed(row))
         /\ Rewritten(row, Removed(row))
         /\ Rewritten(row, Accepted(row))
         /\ Rewritten(row, GifterError(row))
         /\ Rewritten(row, LostRow(row))
         /\ Rewritten(row, row)
         /\ \A b \in BOOLEAN : /\ Rewritten(row, SubmitFailed(row, b))
                               /\ Rewritten(row, AsyncSubmitError(row, b))
<1> USE DEF Rewritten
<1>1. \A st \in States : Rewritten(row, [row EXCEPT !.state = st])
  BY DEF Record
<1>2. ASSUME NEW st \in RegistryStates PROVE Rewritten(row, Observed(row, st))
  BY DEF Record, Observed, States, Leaves
<1>3. Rewritten(row, WindowElapsed(row))
  BY DEF Record, WindowElapsed, States
<1>4. Rewritten(row, Removed(row))
  BY DEF Record, Removed, States
<1>5. Rewritten(row, Accepted(row))
  BY DEF Record, Accepted, Leaves
<1>6. Rewritten(row, GifterError(row))
  BY DEF Record, GifterError, States
<1>7. Rewritten(row, LostRow(row))
  BY DEF Record, LostRow, States
<1>8. ASSUME NEW b \in BOOLEAN
      PROVE  Rewritten(row, SubmitFailed(row, b)) /\ Rewritten(row, AsyncSubmitError(row, b))
  BY DEF Record, SubmitFailed, AsyncSubmitError, States
<1>9. Rewritten(row, row)
  OBVIOUS
<1> HIDE DEF Rewritten
<1> QED BY <1>1, <1>2, <1>3, <1>4, <1>5, <1>6, <1>7, <1>8, <1>9

\* A write touches one row.
LEMMA WriteFacts ==
  ASSUME rec \in [Members -> Record \cup {None}], NEW m \in Known, NEW row,
         Rewritten(rec[m], row), Write(m, row)
  PROVE  /\ rec' \in [Members -> Record \cup {None}]
         /\ Known' = Known
         /\ rec'[m] = Stamped(row) /\ rec'[m] \in Record
         /\ rec'[m].scope = rec[m].scope /\ rec'[m].saw = rec[m].saw
         /\ rec'[m].state = row.state
         /\ rec'[m].seen => rec[m].seen \/ IsActiveLike(row.state)
         /\ \A n \in Known \ {m} : rec'[n] = rec[n]
<1>1. m \in Members
  BY DEF Known
<1>2. /\ Stamped(row) \in Record
      /\ Stamped(row).scope = rec[m].scope /\ Stamped(row).saw = rec[m].saw
      /\ Stamped(row).state = row.state
      /\ Stamped(row).seen => rec[m].seen \/ IsActiveLike(row.state)
  BY StampFacts DEF Rewritten
<1>3. rec' = [rec EXCEPT ![m] = Stamped(row)]
  BY DEF Write
<1>4. /\ rec' \in [Members -> Record \cup {None}] /\ rec'[m] = Stamped(row)
      /\ \A n \in Members \ {m} : rec'[n] = rec[n]
  BY <1>1, <1>2, <1>3
<1>5. Known' = Known
  BY <1>1, <1>2, <1>4, NoneAssumption DEF Known
<1> QED BY <1>2, <1>4, <1>5 DEF Known

\* What a poller writes, and what a merged read writes.
LEMMA PolledFacts ==
  ASSUME TypeInv, NEW p \in Pollers, polls[p] # None, polls[p].cur # None
  PROVE  LET row == rec[polls[p].cur]
             new == Polled(polls[p], row) IN
         /\ polls[p].cur \in Known /\ row \in Record
         /\ Rewritten(row, new)
         /\ \/ polls[p].answer \in RegistryStates /\ new.state = polls[p].answer
            \/ new.state = "failed"
            \/ new.state = row.state
            \/ polls[p].phase = "refresh" /\ new.state = "erased"
<1> DEFINE row == rec[polls[p].cur]
           new == Polled(polls[p], row)
<1>1. /\ polls[p] \in Poll /\ polls[p].cur \in Known /\ polls[p].answer \in Answers
      /\ row \in Record
  BY DEF TypeInv, TypeOK, Refer, Known
<1>2. CASE polls[p].answer # "absent"
  <2>1. polls[p].answer \in RegistryStates /\ new = Observed(row, polls[p].answer)
    BY <1>1, <1>2 DEF Answers, Polled
  <2>2. /\ Rewritten(row, Observed(row, polls[p].answer))
        /\ Observed(row, polls[p].answer).state = polls[p].answer
    BY <1>1, <2>1, RowFacts DEF Observed, Record
  <2> HIDE DEF row, new
  <2> QED BY <1>1, <2>1, <2>2 DEF row, new
<1>3. CASE polls[p].answer = "absent"
  <2>1. polls[p].phase \in {"pending", "refresh"}
    BY <1>1 DEF Poll
  <2>2. \/ new = WindowElapsed(row) \/ new = row
        \/ polls[p].phase = "refresh" /\ new = Removed(row)
    BY <1>3, <2>1 DEF Polled
  <2>3. /\ Rewritten(row, WindowElapsed(row)) /\ WindowElapsed(row).state = "failed"
        /\ Rewritten(row, Removed(row)) /\ Removed(row).state = "erased"
        /\ Rewritten(row, row)
    BY <1>1, RowFacts DEF WindowElapsed, Removed, Record
  <2> HIDE DEF row, new
  <2> QED BY <1>1, <2>2, <2>3 DEF row, new
<1> QED BY <1>1, <1>2, <1>3

Merged(r) == MergeState(reads[r].snap, reads[r].answer, reads[r].member \in late)

LEMMA MergedFacts ==
  ASSUME TypeInv, NEW r \in Readers, ReadApply(r)
  PROVE  LET m == reads[r].member IN
         /\ m \in Known /\ rec[m] \in Record /\ reads[r] \in Read
         /\ UNCHANGED <<late, chain, submit, claims, calls, polls>>
         /\ reads' = [reads EXCEPT ![r] = None]
         /\ \/ UNCHANGED rec
            \/ /\ MayMerge(reads[r], rec[m], Merged(r))
               /\ \E new : Write(m, new) /\ Rewritten(rec[m], new) /\ new.state = Merged(r)
<1> DEFINE m == reads[r].member
           row == rec[m]
           merged == Merged(r)
<1>1. /\ m \in Known /\ row \in Record /\ reads[r] \in Read /\ reads[r].snap \in Record
      /\ reads[r].answer \in Answers
  BY DEF ReadApply, TypeInv, TypeOK, Refer, Known, Read
<1>2. merged \in States /\ (reads[r].answer # "absent" => merged \in RegistryStates)
  BY <1>1 DEF Merged, MergeState, States, Answers, Record
<1>3. UNCHANGED <<late, chain, submit, claims, calls, polls>> /\ reads' = [reads EXCEPT ![r] = None]
  BY DEF ReadApply
<1>4. CASE ~MayMerge(reads[r], row, merged)
  BY <1>1, <1>3, <1>4 DEF ReadApply, Merged
<1>5. CASE MayMerge(reads[r], row, merged)
  <2> DEFINE new == CASE reads[r].answer # "absent" -> Observed(row, merged)
                      [] reads[r].answer = "absent" /\ merged = "failed" -> WindowElapsed(row)
                      [] OTHER -> [row EXCEPT !.state = merged]
  <2>1. Write(m, new)
    BY <1>5 DEF ReadApply, Merged
  <2> HIDE DEF merged
  <2>2. CASE reads[r].answer # "absent"
    <3>1. new = Observed(row, merged)
      BY <2>2
    <3> QED BY <1>1, <1>2, <1>3, <1>5, <2>1, <2>2, <3>1, RowFacts DEF merged, Observed, Record
  <2>3. CASE reads[r].answer = "absent" /\ merged = "failed"
    <3>1. new = WindowElapsed(row)
      BY <2>3
    <3> QED BY <1>1, <1>2, <1>3, <1>5, <2>1, <2>3, <3>1, RowFacts DEF merged, WindowElapsed, Record
  <2>4. CASE reads[r].answer = "absent" /\ merged # "failed"
    <3>1. new = [row EXCEPT !.state = merged]
      BY <2>4
    <3> QED BY <1>1, <1>2, <1>3, <1>5, <2>1, <3>1, RowFacts DEF merged, Record
  <2> QED BY <2>2, <2>3, <2>4
<1> QED BY <1>4, <1>5

-----------------------------------------------------------------------------
(* Types. *)

\* Every step writes at most one row, of a record there is, or inserts a record,
\* or is a restart; no record is ever dropped.
LEMMA RecordSteps ==
  ASSUME TypeInv, [Next]_vars
  PROVE  /\ rec' \in [Members -> Record \cup {None}]
         /\ \A m \in Known : m \in Known' /\ rec'[m].scope = rec[m].scope /\ rec'[m].saw = rec[m].saw
         /\ Known' = Known \/ \E c \in Callers, m \in Members : Insert(c, m)
<1> USE DEF TypeInv, TypeOK
<1>1. CASE UNCHANGED rec
  BY <1>1 DEF Known
<1>2. ASSUME NEW m \in Known, NEW row, Rewritten(rec[m], row), Write(m, row)
      PROVE  /\ rec' \in [Members -> Record \cup {None}]
             /\ Known' = Known
             /\ \A n \in Known : rec'[n].scope = rec[n].scope /\ rec'[n].saw = rec[n].saw
  BY <1>2, WriteFacts
<1>3. ASSUME NEW c \in Callers, NEW m \in Members, Insert(c, m)
      PROVE  /\ rec' \in [Members -> Record \cup {None}]
             /\ \A n \in Known : n \in Known' /\ rec'[n] = rec[n]
  BY <1>3 DEF Insert, Known, Record, States, Call
<1> DEFINE Wrote == UNCHANGED rec \/ \E m \in Known : \E row : Rewritten(rec[m], row) /\ Write(m, row)
<1>4. ASSUME NEW c \in Callers, NEW b \in BOOLEAN, SubmitSyncError(c, b)
      PROVE  Wrote
  <2>1. calls[c].member \in Known /\ rec[calls[c].member] \in Record
    BY <1>4 DEF SubmitSyncError, Refer, Known
  <2> QED BY <1>4, <2>1, RowFacts DEF SubmitSyncError
<1>5. ASSUME NEW m \in Members, Callback(m)
      PROVE  Wrote
  <2>1. m \in Known /\ rec[m] \in Record
    BY <1>5 DEF Callback, Refer, Known
  <2> QED BY <1>5, <2>1, RowFacts DEF Callback
<1>6. ASSUME NEW p \in Pollers, PollApply(p)
      PROVE  Wrote
  BY <1>6, PolledFacts DEF PollApply
<1>7. ASSUME NEW r \in Readers, ReadApply(r)
      PROVE  Wrote
  BY <1>7, MergedFacts
<1>8. CASE Restart
  <2>1. PICK lost \in SUBSET Known : rec' = [m \in Members |-> IF m \in lost THEN LostRow(rec[m]) ELSE rec[m]]
    BY <1>8 DEF Restart
  <2>2. ASSUME NEW m \in Known
        PROVE  /\ rec'[m] \in Record /\ rec'[m] # None
               /\ rec'[m].scope = rec[m].scope /\ rec'[m].saw = rec[m].saw
    <3>1. m \in Members /\ rec[m] \in Record
      BY DEF Known
    <3>2. rec'[m] = LostRow(rec[m]) \/ rec'[m] = rec[m]
      BY <2>1, <3>1
    <3> QED BY <3>1, <3>2, RowFacts, NoneAssumption DEF Rewritten
  <2>3. \A m \in Members \ Known : rec'[m] = None
    BY <2>1 DEF Known
  <2> QED BY <2>1, <2>2, <2>3 DEF Known
<1>9. UNCHANGED vars => UNCHANGED rec
  BY DEF vars
<1>10. ASSUME NEW c \in Callers,
              \/ \E s \in Scopes : RegisterBegin(c, s)
              \/ ProvisionBegin(c) \/ ProvisionRegister(c) \/ GiveUp(c) \/ Submit(c)
       PROVE  UNCHANGED rec
  BY <1>10 DEF RegisterBegin, ProvisionBegin, ProvisionRegister, Scan, GiveUp, Submit
<1>11. ASSUME NEW m \in Members, Land(m) \/ Elapse(m) \/ \E st \in RegistryStates \cup {"gone"} : Age(m, st)
       PROVE  UNCHANGED rec
  BY <1>11 DEF Land, Elapse, Age
<1>12. ASSUME NEW p \in Pollers,
              \/ PollBegin(p) \/ PollRefresh(p) \/ PollEnd(p)
              \/ \E m \in Members : PollFetch(p, m) \/ PollReadFails(p, m)
       PROVE  UNCHANGED rec
  BY <1>12 DEF PollBegin, PollRefresh, PollEnd, PollFetch, PollReadFails
<1>13. ASSUME NEW r \in Readers, \E s \in Scopes, m \in Members : ReadFetch(r, s, m)
       PROVE  UNCHANGED rec
  BY <1>13 DEF ReadFetch
<1>14. Wrote \/ (\E c \in Callers, m \in Members : Insert(c, m)) \/ Restart
  <2> HIDE DEF Wrote, TypeInv, TypeOK
  <2>1. UNCHANGED rec => Wrote
    BY DEF Wrote
  <2> QED BY <1>4, <1>5, <1>6, <1>7, <1>9, <1>10, <1>11, <1>12, <1>13, <2>1, Zenon DEF Next, PollStep, vars
<1> QED BY <1>1, <1>2, <1>3, <1>8, <1>14

LEMMA TypeInit == Init => TypeInv
BY DEF Init, TypeInv, TypeOK, Refer, Known, Answers

\* The part of the type invariant that is not about the rows.
Shape ==
    /\ late \subseteq Members
    /\ chain \in [Members -> Answers \cup {"gone"}]
    /\ submit \in [Members -> {"none", "sent", "open", "refused"}]
    /\ claims \subseteq Scopes \cup {Wide}
    /\ calls \in [Callers -> Call \cup {None}]
    /\ polls \in [Pollers -> Poll \cup {None}]
    /\ reads \in [Readers -> Read \cup {None}]
    /\ Refer

LEMMA TypeStep == TypeInv /\ [Next]_vars => TypeInv'
<1> SUFFICES ASSUME TypeInv, [Next]_vars PROVE TypeInv'
  OBVIOUS
<1>0. /\ rec' \in [Members -> Record \cup {None}] /\ rec \in [Members -> Record \cup {None}]
      /\ \A m \in Known : m \in Known'
      /\ Known \subseteq Members
  BY RecordSteps DEF TypeInv, TypeOK, Known
<1>a. Shape
  BY DEF Shape, TypeInv, TypeOK
<1> SUFFICES Shape'
  BY <1>0 DEF Shape, TypeInv, TypeOK
<1> HIDE DEF TypeInv
<1>1. ASSUME NEW c \in Callers, NEW s \in Scopes \cup {Wide}, Scan(c, s)
      PROVE  Shape'
  BY <1>0, <1>1, <1>a DEF Shape, Scan, Refer, Call
<1>2. ASSUME NEW c \in Callers, ProvisionBegin(c)
      PROVE  Shape'
  BY <1>0, <1>2, <1>a DEF Shape, ProvisionBegin, Refer, Call
<1>3. ASSUME NEW c \in Callers, GiveUp(c)
      PROVE  Shape'
  BY <1>0, <1>3, <1>a DEF Shape, GiveUp, Refer
<1>4. ASSUME NEW c \in Callers, NEW m \in Members, Insert(c, m)
      PROVE  Shape'
  <2>1. calls[c] \in Call
    BY <1>4, <1>a DEF Insert, Shape
  <2>2. m \in Known'
    <3> DEFINE row == [scope |-> calls[c].scope, state |-> "pending", leaf |-> None,
                       retryable |-> None, seen |-> FALSE, saw |-> calls[c].saw]
    <3>1. row \in Record
      BY <2>1 DEF Record, States, Call
    <3>2. rec'[m] = row
      BY <1>0, <1>4 DEF Insert
    <3> HIDE DEF row
    <3> QED BY <3>1, <3>2, NoneAssumption DEF Known
  <2>3. /\ calls' \in [Callers -> Call \cup {None}]
        /\ calls'[c].member = m
        /\ \A d \in Callers \ {c} : calls'[d] = calls[d]
    BY <1>4, <1>a, <2>1 DEF Insert, Shape, Call
  <2>4. UNCHANGED <<late, chain, submit, claims, polls, reads>>
    BY <1>4 DEF Insert
  <2> QED BY <1>0, <1>a, <2>2, <2>3, <2>4 DEF Shape, Refer
<1>5. ASSUME NEW c \in Callers, Submit(c)
      PROVE  Shape'
  BY <1>0, <1>5, <1>a DEF Shape, Submit, Return, Refer
<1>6. ASSUME NEW c \in Callers, NEW b \in BOOLEAN, SubmitSyncError(c, b)
      PROVE  Shape'
  BY <1>0, <1>6, <1>a DEF Shape, SubmitSyncError, Return, Refer
<1>7. ASSUME NEW m \in Members, Callback(m)
      PROVE  Shape'
  BY <1>0, <1>7, <1>a DEF Shape, Callback, Refer
<1>8. ASSUME NEW m \in Members, Land(m) \/ \E st \in RegistryStates \cup {"gone"} : Age(m, st)
      PROVE  Shape'
  BY <1>0, <1>8, <1>a, StatesAssumption DEF Shape, Land, Age, Answers, Refer
<1>9. ASSUME NEW m \in Members, Elapse(m)
      PROVE  Shape'
  BY <1>0, <1>9, <1>a DEF Shape, Elapse, Refer
<1>10. ASSUME NEW p \in Pollers, PollBegin(p)
       PROVE  Shape'
  <2>1. PendingRecords \subseteq Known
    BY DEF PendingRecords
  <2> QED BY <1>0, <1>10, <1>a, <2>1 DEF Shape, PollBegin, Poll, Refer
<1>11. ASSUME NEW p \in Pollers, NEW m \in Members, PollFetch(p, m)
       PROVE  Shape'
  <2>1. Answer(m) \in Answers
    BY <1>a DEF Shape, Answer, Answers
  <2>2. polls[p] \in Poll /\ polls[p].list \subseteq Known /\ m \in Known
    BY <1>11, <1>a DEF PollFetch, Shape, Refer
  <2>3. /\ polls' \in [Pollers -> Poll \cup {None}]
        /\ polls'[p].list \subseteq Known /\ polls'[p].cur = m /\ polls'[p].answer = Answer(m)
        /\ \A q \in Pollers \ {p} : polls'[q] = polls[q]
    BY <1>11, <1>a, <2>1, <2>2 DEF PollFetch, Shape, Poll
  <2>4. UNCHANGED <<rec, late, chain, submit, claims, calls, reads>>
    BY <1>11 DEF PollFetch
  <2> QED BY <1>0, <1>a, <2>1, <2>2, <2>3, <2>4 DEF Shape, Refer
<1>12. ASSUME NEW p \in Pollers, NEW m \in Members, PollReadFails(p, m)
       PROVE  Shape'
  BY <1>0, <1>12, <1>a DEF Shape, PollReadFails, Poll, Refer
<1>13. ASSUME NEW p \in Pollers, PollApply(p)
       PROVE  Shape'
  <2>1. polls[p] \in Poll /\ polls[p].list \subseteq Known
    BY <1>13, <1>a DEF PollApply, Shape, Refer
  <2>2. /\ polls' \in [Pollers -> Poll \cup {None}]
        /\ polls'[p].list = polls[p].list /\ polls'[p].cur = None
        /\ \A q \in Pollers \ {p} : polls'[q] = polls[q]
    BY <1>13, <1>a, <2>1 DEF PollApply, Shape, Poll
  <2>3. UNCHANGED <<late, chain, submit, claims, calls, reads>>
    BY <1>13 DEF PollApply
  <2> QED BY <1>0, <1>a, <2>1, <2>2, <2>3 DEF Shape, Refer
<1>14. ASSUME NEW p \in Pollers, PollRefresh(p)
       PROVE  Shape'
  <2>1. RefreshableRecords \subseteq Known
    BY DEF RefreshableRecords
  <2>2. polls[p] \in Poll /\ polls[p].cur = None
    BY <1>14, <1>a DEF PollRefresh, Shape
  <2>3. /\ polls' \in [Pollers -> Poll \cup {None}]
        /\ polls'[p].list = RefreshableRecords /\ polls'[p].cur = None
        /\ \A q \in Pollers \ {p} : polls'[q] = polls[q]
    BY <1>0, <1>14, <1>a, <2>1, <2>2 DEF PollRefresh, Shape, Poll
  <2>4. UNCHANGED <<rec, late, chain, submit, claims, calls, reads>>
    BY <1>14 DEF PollRefresh
  <2> QED BY <1>0, <1>a, <2>1, <2>2, <2>3, <2>4 DEF Shape, Refer
<1>15. ASSUME NEW p \in Pollers, PollEnd(p)
       PROVE  Shape'
  BY <1>0, <1>15, <1>a DEF Shape, PollEnd, Refer
<1>16. ASSUME NEW r \in Readers, NEW s \in Scopes, NEW m \in Members, ReadFetch(r, s, m)
       PROVE  Shape'
  <2>1. Answer(m) \in Answers
    BY <1>a DEF Shape, Answer, Answers
  <2>2. m \in Known
    BY <1>16 DEF ReadFetch, Candidates
  <2>3. rec[m] \in Record
    BY <1>0, <2>2 DEF Known
  <2> QED BY <1>0, <1>16, <1>a, <2>1, <2>2, <2>3 DEF Shape, ReadFetch, Read, Refer
<1>17. ASSUME NEW r \in Readers, ReadApply(r)
       PROVE  Shape'
  <2>1. UNCHANGED <<late, chain, submit, claims, calls, polls>> /\ reads' = [reads EXCEPT ![r] = None]
    BY <1>17 DEF ReadApply
  <2> QED BY <1>0, <1>a, <2>1 DEF Shape, Refer
<1>18. CASE Restart
  BY <1>0, <1>18, <1>a DEF Shape, Restart, Refer
<1>19. CASE UNCHANGED vars
  BY <1>0, <1>19, <1>a DEF Shape, vars, Refer
<1> HIDE DEF Shape
<1> QED BY <1>1, <1>2, <1>3, <1>4, <1>5, <1>6, <1>7, <1>8, <1>9, <1>10, <1>11, <1>12, <1>13, <1>14, <1>15,
           <1>16, <1>17, <1>18, <1>19, Zenon DEF Next, PollStep, RegisterBegin, ProvisionRegister

LEMMA TypeAlways == Spec => []TypeInv
BY TypeInit, TypeStep, PTL DEF Spec

\* Every state is well typed: in particular whatever is on its way to a record
\* (a callback, a tick, a read) finds one (observe, merge_state, update_cache).
THEOREM TypeCorrect == Spec => []TypeOK
<1>1. TypeInv => TypeOK
  BY DEF TypeInv
<1> QED BY <1>1, TypeAlways, PTL

-----------------------------------------------------------------------------
(* Claims, and what they are for. *)

\* What an insert does: the call is in flight before and after, in one scope, and
\* the new record knows what the call saw.
LEMMA InsertFacts ==
  ASSUME TypeInv, NEW c \in Callers, NEW m \in Members, Insert(c, m)
  PROVE  /\ InFlight(c) /\ calls[c].pc = "insert" /\ calls[c] \in Call
         /\ calls' \in [Callers -> Call \cup {None}]
         /\ calls'[c] # None /\ calls'[c].pc = "submit" /\ calls'[c].scope = calls[c].scope
         /\ calls'[c].member = m
         /\ \A d \in Callers \ {c} : calls'[d] = calls[d]
         /\ m \notin Known /\ Known' = Known \cup {m}
         /\ rec'[m] \in Record /\ rec'[m].scope = calls[c].scope /\ rec'[m].saw = calls[c].saw
         /\ rec'[m].state = "pending" /\ ~rec'[m].seen
         /\ \A n \in Known : rec'[n] = rec[n]
<1>1. calls[c] \in Call /\ InFlight(c) /\ calls[c].pc = "insert"
  BY DEF Insert, TypeInv, TypeOK, InFlight
<1>2. /\ calls' \in [Callers -> Call \cup {None}]
      /\ calls'[c] \in Call
      /\ calls'[c].pc = "submit" /\ calls'[c].scope = calls[c].scope
      /\ calls'[c].member = m
      /\ \A d \in Callers \ {c} : calls'[d] = calls[d]
  BY <1>1 DEF Insert, TypeInv, TypeOK, Call
<1> DEFINE row == [scope |-> calls[c].scope, state |-> "pending", leaf |-> None,
                   retryable |-> None, seen |-> FALSE, saw |-> calls[c].saw]
<1>3. /\ row \in Record /\ row.scope = calls[c].scope /\ row.saw = calls[c].saw
      /\ row.state = "pending" /\ ~row.seen
  BY <1>1 DEF Record, States, Call
<1>4. rec' = [rec EXCEPT ![m] = row]
  BY DEF Insert
<1> HIDE DEF row
<1>5. rec'[m] = row /\ \A n \in Members \ {m} : rec'[n] = rec[n]
  BY <1>4 DEF TypeInv, TypeOK
<1>6. m \notin Known
  BY DEF Insert
<1>7. Known' = Known \cup {m}
  BY <1>3, <1>5, NoneAssumption DEF Known
<1> QED BY <1>1, <1>2, <1>3, <1>5, <1>6, <1>7, NoneAssumption DEF Known

\* A step that leaves the calls alone inserts nothing.
LEMMA NoInsert ==
  ASSUME TypeInv, [Next]_vars, UNCHANGED calls
  PROVE  Known' = Known
<1>1. ASSUME NEW c \in Callers, NEW m \in Members, Insert(c, m) PROVE FALSE
  BY <1>1, InsertFacts
<1> QED BY <1>1, RecordSteps

\* A call that begins a scan is not in flight, and one that returns is gone.
LEMMA ScanFacts ==
  ASSUME TypeInv, NEW c \in Callers, NEW s \in Scopes \cup {Wide}, Scan(c, s),
         calls[c] = None \/ calls[c].pc = "wait"
  PROVE  /\ ~InFlight(c) /\ s \notin claims /\ claims' = claims \cup {s}
         /\ calls'[c] # None /\ calls'[c].pc = "insert" /\ calls'[c].scope = s /\ calls'[c].saw = Known
         /\ \A d \in Callers \ {c} : calls'[d] = calls[d]
         /\ Known' = Known /\ UNCHANGED rec
<1> DEFINE new == [pc |-> "insert", scope |-> s, saw |-> Known, member |-> None]
<1>1. new \in Call /\ new.pc = "insert" /\ new.scope = s /\ new.saw = Known
  BY DEF Call, Known
<1>2. calls' = [calls EXCEPT ![c] = new] /\ UNCHANGED rec /\ s \notin claims /\ claims' = claims \cup {s}
  BY DEF Scan, MayClaim
<1>3. calls'[c] = new /\ \A d \in Callers \ {c} : calls'[d] = calls[d]
  BY <1>2 DEF TypeInv, TypeOK
<1> HIDE DEF new
<1> QED BY <1>1, <1>2, <1>3, NoneAssumption DEF InFlight, Known

LEMMA ClaimStep == TypeInv /\ ClaimInv /\ [Next]_vars => ClaimInv'
<1> SUFFICES ASSUME TypeInv, ClaimInv, [Next]_vars PROVE ClaimInv'
  OBVIOUS
<1> DEFINE Match == \A s : s \in claims <=> \E c \in Callers : InFlight(c) /\ calls[c].scope = s
           Unique == \A c, d \in Callers : InFlight(c) /\ InFlight(d) /\ c # d => calls[c].scope # calls[d].scope
           Aware == \A c \in Callers : calls[c] # None /\ calls[c].pc = "insert" =>
                      \A m \in Known : rec[m].scope = calls[c].scope => m \in calls[c].saw
<1>1. Match /\ Unique /\ Aware
  BY DEF ClaimInv, ClaimsMatchCalls, InFlight
<1> SUFFICES Match' /\ Unique' /\ Aware'
  BY DEF ClaimInv, ClaimsMatchCalls, InFlight
<1>2. \A m \in Known : rec'[m].scope = rec[m].scope
  BY RecordSteps
<1>3. CASE UNCHANGED <<calls, claims>>
  <2>1. Known' = Known
    BY <1>3, NoInsert
  <2> QED BY <1>1, <1>2, <1>3, <2>1 DEF InFlight
<1>4. ASSUME NEW c \in Callers, NEW s \in Scopes \cup {Wide}, Scan(c, s), calls[c] = None \/ calls[c].pc = "wait"
      PROVE  Match' /\ Unique' /\ Aware'
  <2>1. /\ ~InFlight(c) /\ s \notin claims /\ claims' = claims \cup {s}
        /\ calls'[c] # None /\ calls'[c].pc = "insert" /\ calls'[c].scope = s /\ calls'[c].saw = Known
        /\ \A d \in Callers \ {c} : calls'[d] = calls[d]
        /\ Known' = Known
    BY <1>4, ScanFacts
  <2>2. InFlight(c)' /\ \A d \in Callers \ {c} : InFlight(d)' <=> InFlight(d)
    BY <2>1 DEF InFlight
  <2>3. Match'
    BY <1>1, <2>1, <2>2
  <2>4. Unique'
    BY <1>1, <2>1, <2>2
  <2>5. Aware'
    BY <1>1, <1>2, <2>1
  <2> QED BY <2>3, <2>4, <2>5
<1>5. ASSUME NEW c \in Callers, ProvisionBegin(c)
      PROVE  Match' /\ Unique' /\ Aware'
  <2>1. /\ ~InFlight(c) /\ UNCHANGED <<claims, rec>> /\ calls'[c].pc = "wait"
        /\ \A d \in Callers \ {c} : calls'[d] = calls[d]
    BY <1>5 DEF ProvisionBegin, InFlight, TypeInv, TypeOK
  <2>2. \A d \in Callers : InFlight(d)' <=> InFlight(d)
    BY <2>1 DEF InFlight
  <2>3. Known' = Known
    BY <2>1 DEF Known
  <2> QED BY <1>1, <2>1, <2>2, <2>3 DEF InFlight
<1>6. ASSUME NEW c \in Callers, InFlight(c), calls' = [calls EXCEPT ![c] = None],
             claims' = claims \ {calls[c].scope}, Known' = Known
      PROVE  Match' /\ Unique' /\ Aware'
  <2>1. calls'[c] = None /\ \A d \in Callers \ {c} : calls'[d] = calls[d]
    BY <1>6 DEF TypeInv, TypeOK
  <2>2. ~InFlight(c)' /\ \A d \in Callers \ {c} : InFlight(d)' <=> InFlight(d)
    BY <2>1 DEF InFlight
  <2>3. Match'
    BY <1>1, <1>6, <2>1, <2>2
  <2>4. Unique'
    BY <1>1, <2>1, <2>2
  <2>5. Aware'
    BY <1>1, <1>2, <1>6, <2>1
  <2> QED BY <2>3, <2>4, <2>5
<1>7. ASSUME NEW c \in Callers, GiveUp(c)
      PROVE  Match' /\ Unique' /\ Aware'
  <2>1. UNCHANGED rec /\ Known' = Known /\ calls' = [calls EXCEPT ![c] = None]
    BY <1>7 DEF GiveUp, Known
  <2>2. CASE calls[c].pc = "wait"
    <3>1. claims' = claims /\ ~InFlight(c)
      BY <1>7, <2>2 DEF GiveUp, InFlight
    <3>2. calls'[c] = None /\ \A d \in Callers \ {c} : calls'[d] = calls[d]
      BY <2>1 DEF TypeInv, TypeOK
    <3>3. \A d \in Callers : InFlight(d)' <=> InFlight(d)
      BY <3>1, <3>2 DEF InFlight
    <3> QED BY <1>1, <2>1, <3>1, <3>2, <3>3 DEF InFlight
  <2>3. CASE calls[c].pc # "wait"
    BY <1>6, <1>7, <2>1, <2>3 DEF GiveUp, InFlight
  <2> QED BY <2>2, <2>3
<1>8. ASSUME NEW c \in Callers, Submit(c) \/ \E b \in BOOLEAN : SubmitSyncError(c, b)
      PROVE  Match' /\ Unique' /\ Aware'
  <2>1. InFlight(c) /\ Return(c)
    BY <1>8 DEF Submit, SubmitSyncError, InFlight
  <2>2. calls'[c] = None
    BY <2>1 DEF Return, TypeInv, TypeOK
  <2>3. Known' = Known
    <3>1. ASSUME NEW d \in Callers, NEW m \in Members, Insert(d, m) PROVE FALSE
      <4>1. calls'[c] # None
        BY <2>1, <3>1, InsertFacts DEF InFlight
      <4> QED BY <2>2, <4>1
    <3> QED BY <3>1, RecordSteps
  <2> QED BY <1>6, <2>1, <2>3 DEF Return
<1>9. ASSUME NEW c \in Callers, NEW m \in Members, Insert(c, m)
      PROVE  Match' /\ Unique' /\ Aware'
  <2>1. /\ InFlight(c) /\ calls'[c] # None /\ calls'[c].pc = "submit" /\ calls'[c].scope = calls[c].scope
        /\ \A d \in Callers \ {c} : calls'[d] = calls[d]
        /\ Known' = Known \cup {m} /\ rec'[m].scope = calls[c].scope
        /\ claims' = claims
    <3>1. claims' = claims
      BY <1>9 DEF Insert
    <3> QED BY <1>9, <3>1, InsertFacts
  <2>2. \A d \in Callers : (InFlight(d)' <=> InFlight(d)) /\ (InFlight(d) => calls'[d].scope = calls[d].scope)
    BY <2>1 DEF InFlight
  <2>3. Match'
    BY <1>1, <2>1, <2>2
  <2>4. Unique'
    BY <1>1, <2>2
  <2>5. ASSUME NEW d \in Callers, calls'[d] # None, calls'[d].pc = "insert",
               NEW n \in Known', rec'[n].scope = calls'[d].scope
        PROVE  n \in calls'[d].saw
    <3>1. d # c /\ calls'[d] = calls[d] /\ InFlight(d)
      BY <2>1, <2>5 DEF InFlight
    <3>2. calls[d].scope # calls[c].scope
      BY <1>1, <2>1, <3>1
    <3>3. n \in Known /\ rec[n].scope = calls[d].scope
      BY <1>2, <2>1, <2>5, <3>1, <3>2
    <3> QED BY <1>1, <2>5, <3>1, <3>3
  <2> QED BY <2>3, <2>4, <2>5
<1>10. CASE Restart
  <2>1. claims' = {} /\ \A c \in Callers : calls'[c] = None
    BY <1>10 DEF Restart
  <2> QED BY <2>1 DEF InFlight
<1>11. ASSUME NEW m \in Members,
              Callback(m) \/ Land(m) \/ Elapse(m) \/ \E st \in RegistryStates \cup {"gone"} : Age(m, st)
       PROVE  UNCHANGED <<calls, claims>>
  BY <1>11 DEF Callback, Land, Elapse, Age
<1>12. ASSUME NEW p \in Pollers, PollStep(p) \/ \E m \in Members : PollReadFails(p, m)
       PROVE  UNCHANGED <<calls, claims>>
  BY <1>12 DEF PollStep, PollBegin, PollFetch, PollApply, PollRefresh, PollEnd, PollReadFails
<1>13. ASSUME NEW r \in Readers, (\E s \in Scopes, m \in Members : ReadFetch(r, s, m)) \/ ReadApply(r)
       PROVE  UNCHANGED <<calls, claims>>
  BY <1>13 DEF ReadFetch, ReadApply
<1>14. CASE UNCHANGED vars
  BY <1>3, <1>14 DEF vars
<1> HIDE DEF Match, Unique, Aware
<1> QED BY <1>3, <1>4, <1>5, <1>7, <1>8, <1>9, <1>10, <1>11, <1>12, <1>13, <1>14
        DEF Next, RegisterBegin, ProvisionRegister

LEMMA ClaimAlways == Spec => [](TypeInv /\ ClaimInv)
<1>1. Init => TypeInv /\ ClaimInv
  BY TypeInit DEF Init, ClaimInv, ClaimsMatchCalls, InFlight
<1> QED BY <1>1, TypeStep, ClaimStep, PTL DEF Spec

\* A scope is claimed exactly while a register call of it is between its scan and
\* its return, for any number of calls (RegisterClaim).
THEOREM ClaimsExact == Spec => []ClaimsMatchCalls
<1>1. ClaimInv => ClaimsMatchCalls
  BY DEF ClaimInv
<1> QED BY <1>1, ClaimAlways, PTL

\* Of any two records of a scope, one was registered knowing of the other: no two
\* registrations run past each other across the bounds read (register_scoped).
THEOREM OneMintAtATime == Spec => []NoDoubleMint
<1>1. Init => NoDoubleMint
  BY DEF Init, NoDoubleMint, Known
<1>2. TypeInv /\ ClaimInv /\ NoDoubleMint /\ [Next]_vars => NoDoubleMint'
  <2> SUFFICES ASSUME TypeInv, ClaimInv, NoDoubleMint, [Next]_vars PROVE NoDoubleMint'
    OBVIOUS
  <2>1. \A m \in Known : rec'[m].scope = rec[m].scope /\ rec'[m].saw = rec[m].saw
    BY RecordSteps
  <2>2. CASE Known' = Known
    BY <2>1, <2>2 DEF NoDoubleMint
  <2>3. ASSUME NEW c \in Callers, NEW m \in Members, Insert(c, m)
        PROVE  NoDoubleMint'
    <3>1. /\ calls[c].pc = "insert" /\ calls[c] # None /\ Known' = Known \cup {m} /\ m \notin Known
          /\ rec'[m].scope = calls[c].scope /\ rec'[m].saw = calls[c].saw
      BY <2>3, InsertFacts DEF InFlight
    <3>2. \A n \in Known : rec[n].scope = rec'[m].scope => n \in rec'[m].saw
      BY <3>1 DEF ClaimInv
    <3> QED BY <2>1, <3>1, <3>2 DEF NoDoubleMint
  <2> QED BY <2>2, <2>3, RecordSteps
<1> QED BY <1>1, <1>2, ClaimAlways, PTL DEF Spec

-----------------------------------------------------------------------------
(* What a record's state says of the registry. *)

\* Every way in which the state of a record changes.
LEMMA StateSteps ==
  ASSUME TypeInv, [Next]_vars, NEW m \in Known
  PROVE  /\ rec'[m].seen => rec[m].seen \/ IsActiveLike(rec'[m].state)
         /\ \/ rec'[m].state = rec[m].state
            \/ rec[m].state = "pending" /\ rec'[m].state = "failed"
            \/ /\ rec'[m].state = "failed"
               /\ \E c \in Callers : calls[c] # None /\ calls[c].pc = "submit" /\ calls[c].member = m
            \/ \E p \in Pollers :
                 /\ polls[p] # None /\ polls[p].cur # None /\ polls[p].cur = m /\ polls'[p].cur = None
                 /\ rec'[m].state = Polled(polls[p], rec[m]).state
            \/ \E r \in Readers :
                 /\ reads[r] # None /\ reads[r].member = m
                 /\ MayMerge(reads[r], rec[m], Merged(r)) /\ rec'[m].state = Merged(r)
            \/ CacheLoss /\ rec'[m].state = "unknown"
<1> DEFINE Seen == rec'[m].seen => rec[m].seen \/ IsActiveLike(rec'[m].state)
           Caller == \E c \in Callers : calls[c] # None /\ calls[c].pc = "submit" /\ calls[c].member = m
           Poller == \E p \in Pollers :
                       /\ polls[p] # None /\ polls[p].cur # None /\ polls[p].cur = m /\ polls'[p].cur = None
                       /\ rec'[m].state = Polled(polls[p], rec[m]).state
           Reader == \E r \in Readers :
                       /\ reads[r] # None /\ reads[r].member = m
                       /\ MayMerge(reads[r], rec[m], Merged(r)) /\ rec'[m].state = Merged(r)
           Goal == Seen /\ \/ rec'[m].state = rec[m].state
                           \/ rec[m].state = "pending" /\ rec'[m].state = "failed"
                           \/ rec'[m].state = "failed" /\ Caller
                           \/ Poller \/ Reader
                           \/ CacheLoss /\ rec'[m].state = "unknown"
<1> SUFFICES Goal
  OBVIOUS
<1>0. rec \in [Members -> Record \cup {None}] /\ rec[m] \in Record /\ m \in Members
  BY DEF TypeInv, TypeOK, Known
<1>1. rec'[m] = rec[m] => Goal
  OBVIOUS
<1>2. ASSUME NEW n \in Known, NEW row, Rewritten(rec[n], row), Write(n, row)
      PROVE  \/ n # m /\ rec'[m] = rec[m]
             \/ n = m /\ Seen /\ rec'[m].state = row.state
  BY <1>0, <1>2, WriteFacts
<1>3. ASSUME NEW c \in Callers, NEW b \in BOOLEAN, SubmitSyncError(c, b)
      PROVE  Goal
  <2>1. calls[c] # None /\ calls[c].pc = "submit" /\ calls[c].member \in Known
    BY <1>3 DEF SubmitSyncError, TypeInv, Refer
  <2>2. rec[calls[c].member] \in Record
    BY <1>0, <2>1 DEF Known
  <2>3. /\ Rewritten(rec[calls[c].member], SubmitFailed(rec[calls[c].member], b))
        /\ SubmitFailed(rec[calls[c].member], b).state = "failed"
    BY <2>2, RowFacts DEF SubmitFailed, Record
  <2>4. Write(calls[c].member, SubmitFailed(rec[calls[c].member], b))
    BY <1>3 DEF SubmitSyncError
  <2> HIDE DEF Seen
  <2> QED BY <1>1, <1>2, <2>1, <2>3, <2>4
<1>4. ASSUME NEW n \in Members, Callback(n)
      PROVE  Goal
  <2>1. n \in Known
    BY <1>4 DEF Callback, TypeInv, Refer
  <2>2. rec[n] \in Record
    BY <1>0, <2>1 DEF Known
  <2>3. PICK row : /\ Write(n, row)
                   /\ \/ row = Accepted(rec[n]) \/ row = GifterError(rec[n])
                      \/ \E b \in BOOLEAN : row = AsyncSubmitError(rec[n], b)
    BY <1>4 DEF Callback
  <2>4. Rewritten(rec[n], row)
    BY <2>2, <2>3, RowFacts
  <2>5. row.state = rec[n].state \/ (rec[n].state = "pending" /\ row.state = "failed")
    BY <2>2, <2>3 DEF Accepted, GifterError, AsyncSubmitError, SubmitFailed, Record
  <2> HIDE DEF Seen
  <2> QED BY <1>1, <1>2, <2>1, <2>3, <2>4, <2>5
<1>5. ASSUME NEW p \in Pollers, PollApply(p)
      PROVE  Goal
  <2>1. /\ polls[p] # None /\ polls[p].cur # None
        /\ Write(polls[p].cur, Polled(polls[p], rec[polls[p].cur]))
    BY <1>5 DEF PollApply
  <2>2. polls[p].cur \in Known /\ Rewritten(rec[polls[p].cur], Polled(polls[p], rec[polls[p].cur]))
    BY <2>1, PolledFacts
  <2>3. polls'[p].cur = None
    BY <1>5, <2>1 DEF PollApply, TypeInv, TypeOK, Poll
  <2> HIDE DEF Seen
  <2> QED BY <1>1, <1>2, <2>1, <2>2, <2>3
<1>6. ASSUME NEW r \in Readers, ReadApply(r)
      PROVE  Goal
  <2>1. reads[r] # None
    BY <1>6 DEF ReadApply
  <2>2. CASE UNCHANGED rec
    BY <1>1, <2>2
  <2>3. CASE /\ MayMerge(reads[r], rec[reads[r].member], Merged(r))
             /\ \E new : /\ Write(reads[r].member, new) /\ Rewritten(rec[reads[r].member], new)
                         /\ new.state = Merged(r)
    <3>1. PICK new : /\ Write(reads[r].member, new) /\ Rewritten(rec[reads[r].member], new)
                     /\ new.state = Merged(r)
      BY <2>3
    <3>2. reads[r].member \in Known
      BY <1>6, MergedFacts
    <3> HIDE DEF Seen
    <3> QED BY <1>1, <1>2, <2>1, <2>3, <3>1, <3>2
  <2> QED BY <1>6, <2>2, <2>3, MergedFacts
<1>7. CASE Restart
  <2>1. PICK lost \in {{}} \cup (IF CacheLoss THEN {Known} ELSE {}) :
          rec' = [n \in Members |-> IF n \in lost THEN LostRow(rec[n]) ELSE rec[n]]
    BY <1>7 DEF Restart
  <2>2. CASE m \notin lost
    BY <1>0, <1>1, <2>1, <2>2
  <2>3. CASE m \in lost
    <3>1. CacheLoss /\ rec'[m] = LostRow(rec[m])
      BY <1>0, <2>1, <2>3
    <3> QED BY <1>0, <3>1 DEF LostRow, Record
  <2> QED BY <2>2, <2>3
<1>8. ASSUME NEW c \in Callers, NEW n \in Members, Insert(c, n)
      PROVE  Goal
  BY <1>1, <1>8, InsertFacts
<1>9. UNCHANGED vars => UNCHANGED rec
  BY DEF vars
<1>10. ASSUME NEW c \in Callers,
              \/ \E s \in Scopes : RegisterBegin(c, s)
              \/ ProvisionBegin(c) \/ ProvisionRegister(c) \/ GiveUp(c) \/ Submit(c)
       PROVE  UNCHANGED rec
  BY <1>10 DEF RegisterBegin, ProvisionBegin, ProvisionRegister, Scan, GiveUp, Submit
<1>11. ASSUME NEW n \in Members, Land(n) \/ Elapse(n) \/ \E st \in RegistryStates \cup {"gone"} : Age(n, st)
       PROVE  UNCHANGED rec
  BY <1>11 DEF Land, Elapse, Age
<1>12. ASSUME NEW p \in Pollers,
              \/ PollBegin(p) \/ PollRefresh(p) \/ PollEnd(p)
              \/ \E n \in Members : PollFetch(p, n) \/ PollReadFails(p, n)
       PROVE  UNCHANGED rec
  BY <1>12 DEF PollBegin, PollRefresh, PollEnd, PollFetch, PollReadFails
<1>13. ASSUME NEW r \in Readers, \E s \in Scopes, n \in Members : ReadFetch(r, s, n)
       PROVE  UNCHANGED rec
  BY <1>13 DEF ReadFetch
<1>14. UNCHANGED rec => Goal
  BY <1>1
<1> HIDE DEF Goal
<1> QED BY <1>3, <1>4, <1>5, <1>6, <1>7, <1>8, <1>9, <1>10, <1>11, <1>12, <1>13, <1>14, Zenon DEF Next, PollStep

\* A registration that is on the registry, or was, stays one that was.
LEMMA ConfirmedStays ==
  ASSUME TypeInv, [Next]_vars, NEW m \in Members, Confirmed(m)
  PROVE  Confirmed(m)'
<1> USE DEF Confirmed
<1>1. CASE UNCHANGED chain
  BY <1>1
<1>2. ASSUME NEW n \in Members, Land(n) \/ \E st \in RegistryStates \cup {"gone"} : Age(n, st)
      PROVE  Confirmed(m)'
  BY <1>2, StatesAssumption DEF Land, Age, TypeInv, TypeOK
<1>3. ASSUME NEW c \in Callers,
             \/ \E s \in Scopes : RegisterBegin(c, s)
             \/ ProvisionBegin(c) \/ ProvisionRegister(c) \/ GiveUp(c) \/ Submit(c)
             \/ \E n \in Members : Insert(c, n)
             \/ \E b \in BOOLEAN : SubmitSyncError(c, b)
      PROVE  UNCHANGED chain
  BY <1>3 DEF RegisterBegin, ProvisionBegin, ProvisionRegister, Scan, GiveUp, Submit, Insert, SubmitSyncError
<1>4. ASSUME NEW n \in Members, Callback(n) \/ Elapse(n)
      PROVE  UNCHANGED chain
  BY <1>4 DEF Callback, Elapse
<1>5. ASSUME NEW p \in Pollers, PollStep(p) \/ \E n \in Members : PollReadFails(p, n)
      PROVE  UNCHANGED chain
  BY <1>5 DEF PollStep, PollBegin, PollFetch, PollApply, PollRefresh, PollEnd, PollReadFails
<1>6. ASSUME NEW r \in Readers, (\E s \in Scopes, n \in Members : ReadFetch(r, s, n)) \/ ReadApply(r)
      PROVE  UNCHANGED chain
  BY <1>6 DEF ReadFetch, ReadApply
<1>7. Restart \/ UNCHANGED vars => UNCHANGED chain
  BY DEF Restart, vars
<1> HIDE DEF Confirmed
<1> QED BY <1>1, <1>2, <1>3, <1>4, <1>5, <1>6, <1>7, Zenon DEF Next

\* How a tick goes on: it waits for nothing, or it has just read the registry.
LEMMA PollSteps ==
  ASSUME TypeInv, [Next]_vars, NEW p \in Pollers, polls'[p] # None
  PROVE  \/ polls'[p] = polls[p]
         \/ /\ polls'[p].cur = None
            /\ polls'[p].phase = "refresh" =>
                 \/ polls'[p].list \subseteq RefreshableRecords
                 \/ polls[p] # None /\ polls[p].phase = "refresh" /\ polls'[p].list \subseteq polls[p].list
         \/ /\ polls[p] # None /\ polls'[p].phase = polls[p].phase
            /\ polls'[p].list \subseteq polls[p].list
            /\ polls'[p].cur \in polls[p].list /\ polls'[p].answer = Answer(polls'[p].cur)
<1> DEFINE Goal == \/ polls'[p] = polls[p]
                   \/ /\ polls'[p].cur = None
                      /\ polls'[p].phase = "refresh" =>
                           \/ polls'[p].list \subseteq RefreshableRecords
                           \/ polls[p] # None /\ polls[p].phase = "refresh" /\ polls'[p].list \subseteq polls[p].list
                   \/ /\ polls[p] # None /\ polls'[p].phase = polls[p].phase
                      /\ polls'[p].list \subseteq polls[p].list
                      /\ polls'[p].cur \in polls[p].list /\ polls'[p].answer = Answer(polls'[p].cur)
<1>0. polls \in [Pollers -> Poll \cup {None}]
  BY DEF TypeInv, TypeOK
<1>1. UNCHANGED polls => Goal
  OBVIOUS
<1>2. ASSUME NEW q \in Pollers, PollBegin(q) PROVE Goal
  BY <1>0, <1>2 DEF PollBegin
<1>3. ASSUME NEW q \in Pollers, NEW m \in Members, PollFetch(q, m) PROVE Goal
  <2>1. CASE q = p
    <3>1. polls[p] \in Poll
      BY <1>0, <1>3, <2>1 DEF PollFetch
    <3>2. /\ polls'[p].phase = polls[p].phase /\ polls'[p].list = polls[p].list \ {m}
          /\ polls'[p].cur = m /\ polls'[p].answer = Answer(m)
      BY <1>0, <1>3, <2>1, <3>1 DEF PollFetch, Poll
    <3> QED BY <1>3, <2>1, <3>2 DEF PollFetch
  <2>2. CASE q # p
    BY <1>0, <1>3, <2>2 DEF PollFetch
  <2> QED BY <2>1, <2>2
<1>4. ASSUME NEW q \in Pollers, NEW m \in Members, PollReadFails(q, m) PROVE Goal
  BY <1>0, <1>4 DEF PollReadFails, Poll
<1>5. ASSUME NEW q \in Pollers, PollApply(q) PROVE Goal
  <2>1. CASE q = p
    <3>1. polls[p] \in Poll /\ polls[p] # None
      BY <1>0, <1>5, <2>1 DEF PollApply
    <3>2. polls'[p].phase = polls[p].phase /\ polls'[p].list = polls[p].list /\ polls'[p].cur = None
      BY <1>0, <1>5, <2>1, <3>1 DEF PollApply, Poll
    <3> QED BY <3>1, <3>2
  <2>2. CASE q # p
    BY <1>0, <1>5, <2>2 DEF PollApply
  <2> QED BY <2>1, <2>2
<1>6. ASSUME NEW q \in Pollers, PollRefresh(q) PROVE Goal
  <2>1. CASE q = p
    <3>1. polls[p] \in Poll /\ polls[p].cur = None
      BY <1>0, <1>6, <2>1 DEF PollRefresh
    <3>2. polls'[p].list = RefreshableRecords /\ polls'[p].cur = None
      BY <1>0, <1>6, <2>1, <3>1 DEF PollRefresh, Poll
    <3> QED BY <3>2
  <2>2. CASE q # p
    BY <1>0, <1>6, <2>2 DEF PollRefresh
  <2> QED BY <2>1, <2>2
<1>7. ASSUME NEW q \in Pollers, PollEnd(q) PROVE Goal
  BY <1>0, <1>7 DEF PollEnd
<1>8. ASSUME Restart PROVE Goal
  BY <1>8 DEF Restart
<1>9. ASSUME NEW c \in Callers,
             \/ \E s \in Scopes : RegisterBegin(c, s)
             \/ ProvisionBegin(c) \/ ProvisionRegister(c) \/ GiveUp(c) \/ Submit(c)
             \/ \E n \in Members : Insert(c, n)
             \/ \E b \in BOOLEAN : SubmitSyncError(c, b)
      PROVE  UNCHANGED polls
  BY <1>9 DEF RegisterBegin, ProvisionBegin, ProvisionRegister, Scan, GiveUp, Submit, Insert, SubmitSyncError
<1>10. ASSUME NEW n \in Members,
              Callback(n) \/ Elapse(n) \/ Land(n) \/ \E st \in RegistryStates \cup {"gone"} : Age(n, st)
       PROVE  UNCHANGED polls
  BY <1>10 DEF Callback, Elapse, Land, Age
<1>11. ASSUME NEW r \in Readers, (\E s \in Scopes, n \in Members : ReadFetch(r, s, n)) \/ ReadApply(r)
       PROVE  UNCHANGED polls
  BY <1>11 DEF ReadFetch, ReadApply
<1>12. UNCHANGED vars => UNCHANGED polls
  BY DEF vars
<1> HIDE DEF Goal
<1>13. Goal
  BY <1>1, <1>2, <1>3, <1>4, <1>5, <1>6, <1>7, <1>8, <1>9, <1>10, <1>11, <1>12, Zenon DEF Next, PollStep
<1> QED BY <1>13 DEF Goal

\* A read in flight was there before, or it has just looked.
LEMMA ReadSteps ==
  ASSUME TypeInv, [Next]_vars, NEW r \in Readers, reads'[r] # None
  PROVE  \/ reads'[r] = reads[r]
         \/ /\ reads'[r].member \in Known
            /\ reads'[r].snap = rec[reads'[r].member]
            /\ reads'[r].answer = Answer(reads'[r].member)
<1> DEFINE Goal == \/ reads'[r] = reads[r]
                   \/ /\ reads'[r].member \in Known
                      /\ reads'[r].snap = rec[reads'[r].member]
                      /\ reads'[r].answer = Answer(reads'[r].member)
<1>0. reads \in [Readers -> Read \cup {None}]
  BY DEF TypeInv, TypeOK
<1>1. UNCHANGED reads => Goal
  OBVIOUS
<1>2. ASSUME NEW q \in Readers, NEW s \in Scopes, NEW m \in Members, ReadFetch(q, s, m) PROVE Goal
  <2>1. m \in Known
    BY <1>2 DEF ReadFetch, Candidates
  <2> QED BY <1>0, <1>2, <2>1 DEF ReadFetch
<1>3. ASSUME NEW q \in Readers, ReadApply(q) PROVE Goal
  <2>1. reads' = [reads EXCEPT ![q] = None]
    BY <1>3 DEF ReadApply
  <2> QED BY <1>0, <2>1
<1>4. ASSUME Restart PROVE Goal
  BY <1>4 DEF Restart
<1>5. ASSUME NEW c \in Callers,
             \/ \E s \in Scopes : RegisterBegin(c, s)
             \/ ProvisionBegin(c) \/ ProvisionRegister(c) \/ GiveUp(c) \/ Submit(c)
             \/ \E n \in Members : Insert(c, n)
             \/ \E b \in BOOLEAN : SubmitSyncError(c, b)
      PROVE  UNCHANGED reads
  BY <1>5 DEF RegisterBegin, ProvisionBegin, ProvisionRegister, Scan, GiveUp, Submit, Insert, SubmitSyncError
<1>6. ASSUME NEW n \in Members,
             Callback(n) \/ Elapse(n) \/ Land(n) \/ \E st \in RegistryStates \cup {"gone"} : Age(n, st)
      PROVE  UNCHANGED reads
  BY <1>6 DEF Callback, Elapse, Land, Age
<1>7. ASSUME NEW p \in Pollers, PollStep(p) \/ \E n \in Members : PollReadFails(p, n)
      PROVE  UNCHANGED reads
  BY <1>7 DEF PollStep, PollBegin, PollFetch, PollApply, PollRefresh, PollEnd, PollReadFails
<1>8. UNCHANGED vars => UNCHANGED reads
  BY DEF vars
<1> HIDE DEF Goal
<1>9. Goal
  BY <1>1, <1>2, <1>3, <1>4, <1>5, <1>6, <1>7, <1>8, Zenon DEF Next
<1> QED BY <1>9 DEF Goal

\* What merge_state makes of a snapshot: the registry's answer, or nothing that
\* the registry reports.
LEMMA MergeFacts ==
  ASSUME TypeInv, NEW r \in Readers, reads[r] # None
  PROVE  /\ Merged(r) \in RegistryStates => reads[r].answer \in RegistryStates
         /\ Merged(r) = "erased" => reads[r].snap.seen \/ IsActiveLike(reads[r].snap.state)
         /\ Merged(r) = "failed" => reads[r].snap.state \in {"pending", "failed"}
         /\ Merged(r) = "unknown" => reads[r].snap.state = "unknown"
<1>1. /\ reads[r] \in Read /\ reads[r].answer \in Answers /\ reads[r].snap.state \in States
  BY DEF TypeInv, TypeOK, Read, Record
<1>2. CASE reads[r].answer # "absent"
  BY <1>1, <1>2, StatesAssumption DEF Merged, MergeState, Answers
<1>3. CASE reads[r].answer = "absent"
  BY <1>1, <1>3, StatesAssumption DEF Merged, MergeState, IsActiveLike
<1> QED BY <1>2, <1>3

LEMMA AnswerFacts ==
  ASSUME TypeInv, NEW m \in Members, Answer(m) \in RegistryStates
  PROVE  Confirmed(m)
BY StatesAssumption DEF Answer, Confirmed

LEMMA RegistryStep == TypeInv /\ RegistryInv /\ [Next]_vars => RegistryInv'
<1> SUFFICES ASSUME TypeInv, RegistryInv, [Next]_vars PROVE RegistryInv'
  OBVIOUS
<1>0. \A m \in Members : chain[m] # "absent" => chain'[m] # "absent"
  BY ConfirmedStays DEF Confirmed
<1>1. ASSUME NEW m \in Known', rec'[m].state \in RegistryStates
      PROVE  chain'[m] # "absent"
  <2>0. m \in Members
    BY DEF Known
  <2>1. CASE m \notin Known
    <3>1. PICK c \in Callers, n \in Members : Insert(c, n)
      BY <2>1, RecordSteps
    <3>2. n = m
      BY <2>1, <3>1, InsertFacts
    <3> QED BY <1>1, <3>1, <3>2, InsertFacts, StatesAssumption
  <2>2. CASE m \in Known
    <3>1. CASE rec'[m].state = rec[m].state
      BY <1>0, <1>1, <2>0, <2>2, <3>1 DEF RegistryInv, Confirmed
    <3>2. ASSUME NEW p \in Pollers, polls[p] # None, polls[p].cur # None, polls[p].cur = m,
                 rec'[m].state = Polled(polls[p], rec[m]).state
          PROVE  chain'[m] # "absent"
      <4>1. \/ polls[p].answer \in RegistryStates
            \/ rec'[m].state \in {"failed", "erased", rec[m].state}
        BY <3>2, PolledFacts
      <4> QED BY <1>0, <1>1, <2>0, <2>2, <3>2, <4>1, StatesAssumption DEF RegistryInv, Confirmed
    <3>3. ASSUME NEW r \in Readers, reads[r] # None, reads[r].member = m, rec'[m].state = Merged(r)
          PROVE  chain'[m] # "absent"
      BY <1>0, <1>1, <2>0, <3>3, MergeFacts DEF RegistryInv, Confirmed
    <3> QED BY <1>1, <2>2, <3>1, <3>2, <3>3, StateSteps, StatesAssumption
  <2> QED BY <2>1, <2>2
<1>2. ASSUME NEW p \in Pollers, polls'[p] # None, polls'[p].cur # None, polls'[p].answer \in RegistryStates
      PROVE  chain'[polls'[p].cur] # "absent"
  <2>1. polls'[p].cur \in Members
    BY <1>2, TypeStep DEF TypeInv, TypeOK, Poll
  <2>2. CASE polls'[p] = polls[p]
    BY <1>0, <1>2, <2>1, <2>2 DEF RegistryInv, Confirmed
  <2>3. CASE polls'[p].answer = Answer(polls'[p].cur)
    BY <1>0, <1>2, <2>1, <2>3, AnswerFacts DEF Confirmed
  <2> QED BY <1>2, <2>2, <2>3, PollSteps
<1>3. ASSUME NEW r \in Readers, reads'[r] # None, reads'[r].answer \in RegistryStates
      PROVE  chain'[reads'[r].member] # "absent"
  <2>1. reads'[r].member \in Members
    BY <1>3, TypeStep DEF TypeInv, TypeOK, Read
  <2>2. CASE reads'[r] = reads[r]
    BY <1>0, <1>3, <2>1, <2>2 DEF RegistryInv, Confirmed
  <2>3. CASE reads'[r].answer = Answer(reads'[r].member)
    BY <1>0, <1>3, <2>1, <2>3, AnswerFacts DEF Confirmed
  <2> QED BY <1>3, <2>2, <2>3, ReadSteps
<1> QED BY <1>1, <1>2, <1>3 DEF RegistryInv, Confirmed

LEMMA RegistryAlways == Spec => [](TypeInv /\ RegistryInv)
<1>1. Init => TypeInv /\ RegistryInv
  BY TypeInit DEF Init, RegistryInv, Known
<1> QED BY <1>1, TypeStep, RegistryStep, PTL DEF Spec

\* A record that is believed usable was registered, whether or not the cache
\* file survives: no acceptance, no gifter's reply and no stale answer says so
\* before the registry does (register_async, the submit callbacks, the poller).
THEOREM UsableIsRegistered == Spec => []UsableWasRegistered
<1>1. TypeInv /\ RegistryInv => UsableWasRegistered
  <2> SUFFICES ASSUME TypeInv, RegistryInv, NEW m \in Known, IsUsable(rec[m].state)
               PROVE  chain[m] # "absent"
    BY DEF UsableWasRegistered
  <2>1. rec[m].state \in States
    BY DEF TypeInv, TypeOK, Known, Record
  <2>2. rec[m].state \in RegistryStates
    BY <2>1 DEF IsUsable, States
  <2> QED BY <2>2 DEF RegistryInv, Confirmed
<1> QED BY <1>1, RegistryAlways, PTL

LEMMA StampStep ==
  ASSUME ~CacheLoss
  PROVE  TypeInv /\ RegistryInv /\ StampInv /\ [Next]_vars => StampInv'
<1> SUFFICES ASSUME TypeInv, RegistryInv, StampInv, [Next]_vars PROVE StampInv'
  OBVIOUS
<1> USE DEF Confirmed
<1>0. \A m \in Members : chain[m] # "absent" => chain'[m] # "absent"
  BY ConfirmedStays
<1>a. \A m \in Known' : rec'[m].state \in RegistryStates => chain'[m] # "absent"
  BY RegistryStep DEF RegistryInv
<1>1. ASSUME NEW m \in Known'
      PROVE  /\ rec'[m].state # "unknown"
             /\ rec'[m].seen \/ rec'[m].state = "erased" => chain'[m] # "absent"
  <2>0. m \in Members
    BY DEF Known
  <2>1. CASE m \notin Known
    <3>1. PICK c \in Callers, n \in Members : Insert(c, n)
      BY <2>1, RecordSteps
    <3>2. n = m
      BY <2>1, <3>1, InsertFacts
    <3> QED BY <3>1, <3>2, InsertFacts
  <2>2. CASE m \in Known
    <3> DEFINE Ok == rec'[m].state # "unknown" /\ (rec'[m].state = "erased" => chain'[m] # "absent")
    <3>1. rec[m].state # "unknown" /\ (rec[m].seen \/ rec[m].state = "erased" => chain[m] # "absent")
      BY <2>2 DEF StampInv
    <3>2. rec'[m].state = rec[m].state => Ok
      BY <1>0, <2>0, <3>1
    <3>3. ASSUME NEW p \in Pollers, polls[p] # None, polls[p].cur # None, polls[p].cur = m,
                 rec'[m].state = Polled(polls[p], rec[m]).state
          PROVE  Ok
      <4>1. \/ rec'[m].state \in RegistryStates \cup {"failed", rec[m].state}
            \/ polls[p].phase = "refresh"
        BY <3>3, PolledFacts
      <4>2. rec'[m].state # "unknown"
        BY <3>1, <3>3, PolledFacts, StatesAssumption
      <4>3. polls[p].phase = "refresh" => chain[m] # "absent"
        BY <3>3 DEF StampInv
      <4> QED BY <1>0, <2>0, <3>1, <4>1, <4>2, <4>3, StatesAssumption
    <3>4. ASSUME NEW r \in Readers, reads[r] # None, reads[r].member = m, rec'[m].state = Merged(r)
          PROVE  Ok
      BY <1>0, <2>0, <3>4, MergeFacts DEF StampInv
    <3>5. Ok
      BY <2>2, <3>2, <3>3, <3>4, StateSteps, <1>0, <2>0, <3>1
    <3>6. rec'[m].seen => rec[m].seen \/ IsActiveLike(rec'[m].state)
      BY <2>2, StateSteps
    <3> QED BY <1>0, <1>a, <2>0, <3>1, <3>5, <3>6 DEF IsActiveLike
  <2> QED BY <2>1, <2>2
<1>2. ASSUME NEW p \in Pollers, polls'[p] # None, polls'[p].phase = "refresh"
      PROVE  /\ \A m \in polls'[p].list : chain'[m] # "absent"
             /\ polls'[p].cur # None => chain'[polls'[p].cur] # "absent"
  <2>0. polls'[p] \in Poll
    BY <1>2, TypeStep DEF TypeInv, TypeOK
  <2>1. CASE polls'[p] = polls[p]
    BY <1>0, <1>2, <2>0, <2>1 DEF StampInv, Poll
  <2>2. CASE polls'[p].cur = None /\ polls'[p].list \subseteq RefreshableRecords
    <3>1. \A m \in RefreshableRecords : m \in Members /\ chain[m] # "absent"
      BY DEF RefreshableRecords, StampInv, RegistryInv, Known
    <3> QED BY <1>0, <2>2, <3>1
  <2>3. CASE /\ polls'[p].cur = None /\ polls[p] # None /\ polls[p].phase = "refresh"
             /\ polls'[p].list \subseteq polls[p].list
    BY <1>0, <2>0, <2>3 DEF StampInv, Poll
  <2>4. CASE /\ polls[p] # None /\ polls'[p].phase = polls[p].phase
             /\ polls'[p].list \subseteq polls[p].list /\ polls'[p].cur \in polls[p].list
    <3>1. polls'[p].cur # None => polls'[p].cur \in Members
      BY <2>0 DEF Poll
    <3> QED BY <1>0, <1>2, <2>0, <2>4, <3>1 DEF StampInv, Poll
  <2> QED BY <1>2, <2>1, <2>2, <2>3, <2>4, PollSteps
<1>3. ASSUME NEW r \in Readers, reads'[r] # None
      PROVE  /\ reads'[r].snap.state # "unknown"
             /\ reads'[r].snap.seen \/ IsActiveLike(reads'[r].snap.state) => chain'[reads'[r].member] # "absent"
  <2>1. reads'[r].member \in Members
    BY <1>3, TypeStep DEF TypeInv, TypeOK, Read
  <2>2. CASE reads'[r] = reads[r]
    BY <1>0, <1>3, <2>1, <2>2 DEF StampInv
  <2>3. CASE reads'[r].member \in Known /\ reads'[r].snap = rec[reads'[r].member]
    BY <1>0, <2>1, <2>3 DEF StampInv, RegistryInv, IsActiveLike
  <2> QED BY <1>3, <2>2, <2>3, ReadSteps
<1> QED BY <1>1, <1>2, <1>3 DEF StampInv

\* As long as the cache file is kept, a record is erased only after it was on
\* the registry: refreshed records were seen there, and merge_state goes by the
\* stamp.  (Without the file a row is unknown, and the refresh takes it for one
\* that was registered.)
THEOREM ErasedIsRemoved ==
  ASSUME ~CacheLoss
  PROVE  Spec => []ErasedWasRegistered
<1>1. Init => TypeInv /\ RegistryInv /\ StampInv
  BY TypeInit DEF Init, RegistryInv, StampInv, Known
<1>2. TypeInv /\ RegistryInv /\ StampInv /\ [Next]_vars => (TypeInv /\ RegistryInv /\ StampInv)'
  BY TypeStep, RegistryStep, StampStep
<1>3. StampInv => ErasedWasRegistered
  BY DEF StampInv, ErasedWasRegistered, Confirmed
<1> QED BY <1>1, <1>2, <1>3, PTL DEF Spec

-----------------------------------------------------------------------------
(* Who may fail a record. *)

LEMMA SubmitStep == TypeInv /\ SubmitInv /\ [Next]_vars => SubmitInv'
<1> SUFFICES ASSUME TypeInv, SubmitInv, [Next]_vars PROVE SubmitInv'
  OBVIOUS
<1>0. /\ calls \in [Callers -> Call \cup {None}]
      /\ submit \in [Members -> {"none", "sent", "open", "refused"}]
      /\ chain \in [Members -> Answers \cup {"gone"}]
      /\ \A c \in Callers : calls[c] # None /\ calls[c].pc = "submit" =>
           calls[c].member \in Known /\ calls[c].member \in Members
  BY DEF TypeInv, TypeOK, Refer, Known
<1>1. CASE UNCHANGED <<chain, submit, calls>>
  BY <1>1 DEF SubmitInv
<1>2. ASSUME NEW c \in Callers, UNCHANGED <<chain, submit>>, calls'[c] = None \/ calls'[c].pc # "submit",
             \A d \in Callers \ {c} : calls'[d] = calls[d]
      PROVE  SubmitInv'
  BY <1>2 DEF SubmitInv
<1>3. ASSUME NEW c \in Callers, NEW s \in Scopes \cup {Wide}, Scan(c, s) PROVE SubmitInv'
  <2>1. UNCHANGED <<chain, submit>> /\ calls'[c].pc = "insert" /\ \A d \in Callers \ {c} : calls'[d] = calls[d]
    BY <1>0, <1>3 DEF Scan
  <2> QED BY <1>2, <2>1
<1>4. ASSUME NEW c \in Callers, ProvisionBegin(c) PROVE SubmitInv'
  <2>1. UNCHANGED <<chain, submit>> /\ calls'[c].pc = "wait" /\ \A d \in Callers \ {c} : calls'[d] = calls[d]
    BY <1>0, <1>4 DEF ProvisionBegin
  <2> QED BY <1>2, <2>1
<1>5. ASSUME NEW c \in Callers, GiveUp(c) \/ \E b \in BOOLEAN : SubmitSyncError(c, b) PROVE SubmitInv'
  <2>1. UNCHANGED <<chain, submit>> /\ calls'[c] = None /\ \A d \in Callers \ {c} : calls'[d] = calls[d]
    BY <1>0, <1>5 DEF GiveUp, SubmitSyncError, Return
  <2> QED BY <1>2, <2>1
<1>6. ASSUME NEW c \in Callers, NEW m \in Members, Insert(c, m) PROVE SubmitInv'
  <2>1. UNCHANGED <<chain, submit>>
    BY <1>6 DEF Insert
  <2>2. /\ calls'[c] # None /\ calls'[c].pc = "submit" /\ calls'[c].member = m /\ m \notin Known
        /\ \A d \in Callers \ {c} : calls'[d] = calls[d]
    BY <1>6, InsertFacts
  <2>3. submit[m] = "none"
    BY <2>2 DEF TypeInv, Refer
  <2> QED BY <1>0, <2>1, <2>2, <2>3 DEF SubmitInv
<1>7. ASSUME NEW c \in Callers, Submit(c) PROVE SubmitInv'
  <2>1. /\ UNCHANGED chain /\ calls'[c] = None /\ \A d \in Callers \ {c} : calls'[d] = calls[d]
        /\ submit' = [submit EXCEPT ![calls[c].member] = "sent"]
        /\ calls[c] # None /\ calls[c].pc = "submit" /\ calls[c].member \in Members
    BY <1>0, <1>7 DEF Submit, Return
  <2>2. \A m \in Members : submit'[m] = submit[m] \/ (m = calls[c].member /\ submit'[m] = "sent")
    BY <1>0, <2>1
  <2> QED BY <1>0, <2>1, <2>2 DEF SubmitInv
<1>8. ASSUME NEW m \in Members, Callback(m) PROVE SubmitInv'
  <2>1. UNCHANGED <<chain, calls>> /\ submit[m] = "sent"
    BY <1>8 DEF Callback
  <2>2. \A n \in Members : submit'[n] = submit[n] \/ (n = m /\ submit'[n] # "none")
    BY <1>0, <1>8 DEF Callback
  <2> QED BY <1>0, <2>1, <2>2 DEF SubmitInv
<1>9. ASSUME NEW m \in Members, Land(m) \/ \E st \in RegistryStates \cup {"gone"} : Age(m, st) PROVE SubmitInv'
  <2>1. UNCHANGED <<submit, calls>> /\ submit[m] # "none" /\ \A n \in Members \ {m} : chain'[n] = chain[n]
    BY <1>0, <1>9, StatesAssumption DEF Land, Age, SubmitInv
  <2> QED BY <2>1 DEF SubmitInv
<1>10. ASSUME NEW m \in Members, Elapse(m) PROVE SubmitInv'
  BY <1>1, <1>10 DEF Elapse
<1>11. ASSUME NEW p \in Pollers, PollStep(p) \/ \E m \in Members : PollReadFails(p, m) PROVE SubmitInv'
  BY <1>1, <1>11 DEF PollStep, PollBegin, PollFetch, PollApply, PollRefresh, PollEnd, PollReadFails
<1>12. ASSUME NEW r \in Readers, (\E s \in Scopes, n \in Members : ReadFetch(r, s, n)) \/ ReadApply(r)
       PROVE  SubmitInv'
  BY <1>1, <1>12 DEF ReadFetch, ReadApply
<1>13. CASE Restart
  <2>1. /\ UNCHANGED chain /\ \A c \in Callers : calls'[c] = None
        /\ \A m \in Members : submit'[m] = submit[m] \/ submit'[m] = "open"
    BY <1>13 DEF Restart
  <2> QED BY <2>1 DEF SubmitInv
<1>14. CASE UNCHANGED vars
  BY <1>1, <1>14 DEF vars
<1> QED BY <1>3, <1>4, <1>5, <1>6, <1>7, <1>8, <1>9, <1>10, <1>11, <1>12, <1>13, <1>14
        DEF Next, RegisterBegin, ProvisionRegister

\* Only a poller's own update fails a record that is past pending: no callback
\* and no merged read does, however late, and no call does that submits
\* (record_async_submit_error, delegated_submit_callback, the compare-and-set).
THEOREM OnlyPollerFails == Spec => OnlyPollerFailsConfirmed
<1>1. Init => TypeInv /\ RegistryInv /\ SubmitInv
  BY TypeInit DEF Init, RegistryInv, SubmitInv, Known
<1>2. TypeInv /\ RegistryInv /\ SubmitInv /\ [Next]_vars => (TypeInv /\ RegistryInv /\ SubmitInv)'
  BY TypeStep, RegistryStep, SubmitStep
<1> DEFINE Act == \A m \in Known :
                    (IsUsable(rec[m].state) /\ rec'[m].state = "failed") =>
                        \E p \in Pollers : polls[p] # None /\ polls[p].cur = m /\ polls'[p].cur = None
<1>3. TypeInv /\ RegistryInv /\ SubmitInv /\ [Next]_vars => [Act]_vars
  <2> SUFFICES ASSUME TypeInv, RegistryInv, SubmitInv, [Next]_vars, NEW m \in Known,
                      IsUsable(rec[m].state), rec'[m].state = "failed"
               PROVE  \E p \in Pollers : polls[p] # None /\ polls[p].cur = m /\ polls'[p].cur = None
    OBVIOUS
  <2>1. rec[m].state \in RegistryStates /\ m \in Members
    BY DEF TypeInv, TypeOK, Known, Record, States, IsUsable
  <2>2. rec[m].state \notin {"failed", "pending", "unknown"}
    BY DEF IsUsable
  <2>3. ASSUME NEW c \in Callers, calls[c] # None, calls[c].pc = "submit", calls[c].member = m
        PROVE  FALSE
    BY <2>1, <2>3 DEF SubmitInv, RegistryInv, Confirmed
  <2>4. ASSUME NEW r \in Readers, reads[r] # None, reads[r].member = m,
               MayMerge(reads[r], rec[m], Merged(r)), rec'[m].state = Merged(r)
        PROVE  FALSE
    BY <2>2, <2>4, MergeFacts DEF MayMerge
  <2> QED BY <2>2, <2>3, <2>4, StateSteps
<1> QED BY <1>1, <1>2, <1>3, PTL DEF Spec, OnlyPollerFailsConfirmed

====
