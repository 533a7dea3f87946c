----------------------- MODULE TemplateRetirementProofs -----------------------
(***************************************************************************)
(* The fence of TemplateRetirement keeps the promise of TemplateFence, the *)
(* leases span the commit and none is forgotten, no use of a version is    *)
(* overlooked, and what an application may be bound to, for any number of  *)
(* requests, records, versions, storages and faults.                       *)
(***************************************************************************)
EXTENDS TemplateRetirement, TLAPS

\* Where a caller has published nothing yet.
Before == {"idle", "loaded", "ready"} \cup InTransaction

\* A copy of a record is one, and an upgrade or a restore goes by a record.
Copies ==
    /\ \A c \in Upgraders : pc[c] # "idle" =>
          rec[c] \in Records /\ records[rec[c]] \in Record
    /\ \A p \in Restorers \cup Syncers : aside[p].pc \in {"sync", "restore", "record"} =>
          aside[p].rec \in RecordIds /\ aside[p].held \in Record
    /\ \A p \in Restorers : /\ aside[p].pc # "sync"
                            /\ aside[p].pc = "deploy" => records[p] \in Record

\* What a caller holds follows from where it is; a caller in a transaction holds
\* the rows of the template.
Staged(c) ==
    /\ pc[c] \in Before => ~committed[c] /\ answer[c] = "none"
    /\ c \in Installers => pc[c] \notin {"loaded", "ready", "work", "save", "deploy"}
    /\ pc[c] \in InTransaction => lock = c /\ want[c] \in Versions
    /\ pc[c] \in Working => committed[c] /\ answer[c] = "none" /\ want[c] \in Versions

Stages == \A c \in Callers : Staged(c)

\* The leases of a caller: absent until they are asked for, open until they are
\* ended, and ended before the caller is through.
Leased(c) ==
    /\ pc[c] \in {"idle", "loaded", "ready", "discover"} =>
          \A s \in Stores : lease[c][s] = "absent"
    /\ pc[c] = "acquire" =>
          \A s \in Stores : lease[c][s] = IF s \in pending[c] THEN "absent" ELSE "open"
    /\ pc[c] = "inside" => \A s \in Stores : lease[c][s] = "open"
    /\ pc[c] = "undo" /\ ~excused[c] => \A s \in Stores \ pending[c] : lease[c][s] # "open"
    /\ pc[c] = "finish" /\ ~excused[c] => \A s \in Stores \ pending[c] : lease[c][s] # "open"
    /\ pc[c] = "finish" /\ ~missed[c] => \A s \in Stores \ pending[c] : lease[c][s] = "released"
    /\ pc[c] \in {"work", "save", "deploy"} => \A s \in Stores : lease[c][s] = "released"

Leases == \A c \in Callers : Leased(c)

\* The clean-up works on a version; unless its revision has changed it was not
\* used since it was listed.
Listed ==
    /\ \A v \in Versions : rev[v] # None => committed[rev[v]]
    /\ retire.pc # "idle" =>
          /\ retire.v \in Versions
          /\ retire.rev # None => committed[retire.rev]
          /\ rev[retire.v] = retire.rev => uses[retire.v] = retire.uses

\* The record of an upgrade that is not exposed names the version it moves to.
Naming ==
    \A c \in Upgraders \ exposed : pc[c] \in Moving => want[c] \in Active(records[rec[c]])

\* A snapshot a record or a copy of one knows of is there.
Snaps ==
    /\ \A r \in RecordIds : records[r] # None => records[r].snap \in pins \cup {None}
    /\ \A p \in Restorers \cup Syncers : aside[p].pc \in {"sync", "restore", "record"} =>
          aside[p].held.snap \in pins \cup {None}

\* While the clean-up deletes a version it holds the rows, and nothing uses it.
Deleting ==
    retire.pc = "delete" =>
        /\ lock = Retirer /\ rev[retire.v] = retire.rev
        /\ ~Latest(retire.v) /\ retire.v \notin Used

\* The version a caller is about to publish, and whatever is used, is there.
Standing == /\ \A c \in Callers : pc[c] \in InTransaction => want[c] \in alive
            /\ Used \subseteq alive

\* An upgrade took the version up although nothing protected it: its record had
\* stopped naming it, or the group whose snapshot it made had left it.
TookUp(c, v) ==
    /\ committed[c] /\ pc[c] \in {"deploy", "done"}
    /\ (c \in exposed /\ want[c] = v) \/ base[c] = v

\* Whatever is loose was taken up like that.
LooseExplained == \A v \in loose : \E c \in Upgraders : TookUp(c, v)

-----------------------------------------------------------------------------
(* The steps by what they touch                                            *)

FenceStep(c) ==
    \/ \E v \in Versions : Lock(c, v)
    \/ Discover(c) \/ BodyFails(c) \/ CommitFails(c) \/ Crash(c)
    \/ \E s \in Stores : Acquire(c, s) \/ AcquireFails(c, s) \/ Undo(c, s) \/ Confirm(c, s)

UpgradeStep(c) ==
    \/ \E r \in Records : Load(c, r)
    \/ \E v \in Versions : ReadGroup(c, v)
    \/ SyncNewApp(c) \/ SaveApp(c) \/ UpgradeFails(c) \/ Deployed(c)

BesideStep ==
    \/ \E r \in Records, g \in Groups : CreateRecord(r, g)
    \/ \E p \in Syncers : \/ \E r \in RecordIds : SyncLoad(p, r)
                          \/ PollSave(p) \/ RetrySave(p)
    \/ \E p \in Restorers : \/ \E r \in Records : RestoreLoad(p, r)
                            \/ RestoreSave(p) \/ RestoreRecord(p)
                            \/ RestoreDeployed(p) \/ RestoreFails(p)
    \/ \E g \in Groups : Uninstall(g)

RetireStep == (\E v \in Versions : ListRow(v)) \/ ListTarget \/ RetireCheck \/ RetireDelete

LEMMA Steps == ASSUME [Next]_vars
               PROVE  \/ \E c \in Callers : FenceStep(c) \/ Commit(c)
                      \/ \E c \in Upgraders : UpgradeStep(c)
                      \/ BesideStep \/ RetireStep \/ UNCHANGED vars
  BY DEF Next, FenceStep, UpgradeStep, BesideStep, RetireStep

\* Until it commits a caller in the fence touches nothing but itself.
LEMMA FenceFrame ==
    ASSUME NEW c \in Callers, FenceStep(c)
    PROVE  UNCHANGED <<alive, references, rec, base, aside, retire, uses, committed, exposed,
                       loose>>
<1> USE DEF references, caller, history
<1>1. ASSUME NEW v \in Versions, Lock(c, v)
      PROVE  UNCHANGED <<alive, references, rec, base, aside, retire, uses, committed,
                         exposed, loose>>
  BY <1>1 DEF Lock
<1>2. ASSUME NEW s \in Stores, Acquire(c, s) \/ AcquireFails(c, s) \/ Undo(c, s) \/ Confirm(c, s)
      PROVE  UNCHANGED <<alive, references, rec, base, aside, retire, uses, committed,
                         exposed, loose>>
  BY <1>2 DEF Acquire, AcquireFails, Undo, Confirm
<1>3. ASSUME Discover(c) \/ BodyFails(c) \/ CommitFails(c) \/ Crash(c)
      PROVE  UNCHANGED <<alive, references, rec, base, aside, retire, uses, committed,
                         exposed, loose>>
  BY <1>3 DEF Discover, BodyFails, CommitFails, Crash
<1> QED
  BY <1>1, <1>2, <1>3 DEF FenceStep

\* An upgrade outside of the fence leaves the fence alone.
LEMMA UpgradeFrame ==
    ASSUME NEW c \in Upgraders, UpgradeStep(c)
    PROVE  /\ UNCHANGED <<alive, rev, lock, pending, missed, aside, lease, retire, uses,
                          committed, excused>>
           /\ faults' = faults \/ Fault
<1> USE DEF references, caller, history, Outside
<1>1. ASSUME NEW r \in Records, Load(c, r)
      PROVE  UNCHANGED <<alive, rev, lock, pending, missed, aside, lease, retire, uses,
                         committed, excused, faults>>
  BY <1>1 DEF Load
<1>2. ASSUME NEW v \in Versions, ReadGroup(c, v)
      PROVE  UNCHANGED <<alive, rev, lock, pending, missed, aside, lease, retire, uses,
                         committed, excused, faults>>
  BY <1>2 DEF ReadGroup
<1>3. ASSUME SyncNewApp(c) \/ SaveApp(c) \/ UpgradeFails(c) \/ Deployed(c)
      PROVE  /\ UNCHANGED <<alive, rev, lock, pending, missed, aside, lease, retire, uses,
                            committed, excused>>
             /\ faults' = faults \/ Fault
  BY <1>3 DEF SyncNewApp, SaveApp, UpgradeFails, Deployed
<1> QED
  BY <1>1, <1>2, <1>3 DEF UpgradeStep

\* Requests that do not pass the fence leave everybody else alone.
LEMMA BesideFrame ==
    ASSUME BesideStep
    PROVE  /\ UNCHANGED <<alive, rev, lock, caller, lease, retire, uses, committed, excused,
                          loose>>
           /\ faults' = faults \/ Fault
<1> USE DEF references, caller, history, Beside, Outside
<1>1. ASSUME NEW r \in Records, NEW g \in Groups, CreateRecord(r, g)
      PROVE  UNCHANGED <<alive, rev, lock, caller, lease, retire, uses, committed, excused,
                         loose, faults>>
  BY <1>1 DEF CreateRecord
<1>2. ASSUME NEW p \in Syncers, NEW r \in RecordIds, SyncLoad(p, r)
      PROVE  UNCHANGED <<alive, rev, lock, caller, lease, retire, uses, committed, excused,
                         loose, faults>>
  BY <1>2 DEF SyncLoad
<1>3. ASSUME NEW p \in Syncers, PollSave(p) \/ RetrySave(p)
      PROVE  UNCHANGED <<alive, rev, lock, caller, lease, retire, uses, committed, excused,
                         loose, faults>>
  BY <1>3 DEF PollSave, RetrySave, SyncSave
<1>4. ASSUME NEW p \in Restorers, NEW r \in Records, RestoreLoad(p, r)
      PROVE  UNCHANGED <<alive, rev, lock, caller, lease, retire, uses, committed, excused,
                         loose, faults>>
  BY <1>4 DEF RestoreLoad
<1>5. ASSUME NEW p \in Restorers,
             RestoreSave(p) \/ RestoreRecord(p) \/ RestoreDeployed(p) \/ RestoreFails(p)
      PROVE  /\ UNCHANGED <<alive, rev, lock, caller, lease, retire, uses, committed,
                            excused, loose>>
             /\ faults' = faults \/ Fault
  BY <1>5 DEF RestoreSave, RestoreRecord, RestoreDeployed, RestoreFails
<1>6. ASSUME NEW g \in Groups, Uninstall(g)
      PROVE  UNCHANGED <<alive, rev, lock, caller, lease, retire, uses, committed, excused,
                         loose, faults>>
  BY <1>6 DEF Uninstall
<1> QED
  BY <1>1, <1>2, <1>3, <1>4, <1>5, <1>6 DEF BesideStep

\* The clean-up touches the versions and the lock only.
LEMMA RetireFrame == ASSUME RetireStep
                     PROVE  UNCHANGED <<references, caller, aside, lease, faults, history>>
  BY DEF RetireStep, ListRow, ListTarget, RetireCheck, RetireDelete, Untouched

-----------------------------------------------------------------------------
(* Types                                                                   *)

LEMMA TypeInit == Init => TypeOK /\ Copies
  BY RetirementAssumption DEF Init, TypeOK, Copies, NoRow, NoCopy, Unfinished, InTransaction,
     Working, Callers

LeaseStates == {"absent", "open", "uncertain", "released"}

Places == {"idle", "loaded", "ready", "done"} \cup InTransaction \cup Working

CopyStates == [pc : {"idle", "sync", "restore", "record", "deploy", "done"},
               rec : RecordIds \cup {None}, held : Record \cup {None}]

\* A lease that changes its state leaves the leases well-formed.
LEMMA LeaseShape == ASSUME NEW f \in [Callers -> [Stores -> LeaseStates]],
                           NEW c \in Callers, NEW s \in Stores, NEW x \in LeaseStates
                    PROVE  [f EXCEPT ![c][s] = x] \in [Callers -> [Stores -> LeaseStates]]
<1>1. [f[c] EXCEPT ![s] = x] \in [Stores -> LeaseStates]
  OBVIOUS
<1> QED
  BY <1>1

\* A record that is written stays one, and no other is touched.
LEMMA WriteShape == ASSUME TypeOK, Copies, NEW r \in RecordIds, NEW record \in Record,
                           records' = [records EXCEPT ![r] = record]
                    PROVE  /\ records' \in [RecordIds -> Record \cup {None}]
                           /\ records'[r] = record
                           /\ \A q \in RecordIds : records[q] \in Record => records'[q] \in Record
  BY DEF TypeOK

\* A record stays one when some of its columns change.
LEMMA RecordShape ==
    ASSUME NEW record \in Record
    PROVE  /\ \A st \in Unfinished \cup {"over"} : [record EXCEPT !.status = st] \in Record
           /\ \A st \in Unfinished \cup {"over"}, v \in Versions \cup {None} :
                 [record EXCEPT !.status = st, !.version = v] \in Record
           /\ \A st \in Unfinished \cup {"over"}, v, w \in Versions \cup {None} :
                 /\ [record EXCEPT !.status = st, !.version = v, !.snap = w] \in Record
                 /\ [record EXCEPT !.status = st, !.version = v, !.old = w] \in Record
  BY DEF Record

\* What a step of the fence may change.
FenceOK == /\ lock \in Callers \cup {Retirer, None}
           /\ pc \in [Callers -> Places]
           /\ want \in [Callers -> Versions \cup {None}]
           /\ pending \in [Callers -> SUBSET Stores]
           /\ missed \in [Callers -> BOOLEAN]
           /\ answer \in [Callers -> {"none", "ok", "refused", "failed"}]
           /\ lease \in [Callers -> [Stores -> LeaseStates]]
           /\ faults \in 0 .. MaxFaults
           /\ excused \in [Callers -> BOOLEAN]

\* Faults are counted up to their bound.
LEMMA FaultOK == ASSUME faults \in 0 .. MaxFaults, faults' = faults \/ Fault
                 PROVE  faults' \in 0 .. MaxFaults
  BY RetirementAssumption DEF Fault

LEMMA FenceTypes == ASSUME TypeOK, NEW c \in Callers, FenceStep(c) PROVE FenceOK'
<1> USE RetirementAssumption DEF Places, references, history, InTransaction, Working
<1>0. FenceOK
  BY DEF TypeOK, FenceOK, LeaseStates
<1> USE <1>0
<1>1. ASSUME NEW v \in Versions, Lock(c, v) PROVE FenceOK'
  BY <1>1 DEF Lock, Answers, FenceOK
<1>2. ASSUME Discover(c) PROVE FenceOK'
  <2>1. faults' \in 0 .. MaxFaults
    BY <1>2, FaultOK DEF Discover, FenceOK
  <2>2. \/ pc' = [pc EXCEPT ![c] = "acquire"] /\ answer' = answer /\ lock' = lock
        \/ Answers(c, "refused") /\ Unlock(c)
    BY <1>2 DEF Discover
  <2>3. /\ pc' \in [Callers -> Places] /\ lock' \in Callers \cup {Retirer, None}
        /\ answer' \in [Callers -> {"none", "ok", "refused", "failed"}]
    BY <2>2 DEF Answers, Unlock, FenceOK
  <2>4. /\ pending' \in [Callers -> SUBSET Stores]
        /\ UNCHANGED <<want, missed, lease, excused>>
    BY <1>2 DEF Discover, FenceOK
  <2> QED
    BY <2>1, <2>3, <2>4 DEF FenceOK
<1>3. ASSUME BodyFails(c) PROVE FenceOK'
  BY <1>3 DEF BodyFails, Fault, FenceOK
<1>4. ASSUME CommitFails(c) PROVE FenceOK'
  BY <1>4 DEF CommitFails, Answers, Unlock, Fault, FenceOK
<1>5. ASSUME Crash(c) PROVE FenceOK'
  BY <1>5 DEF Crash, Answers, Unlock, Fault, FenceOK
<1>6. ASSUME NEW s \in Stores, Acquire(c, s) PROVE FenceOK'
  <2>1. lease' \in [Callers -> [Stores -> LeaseStates]]
    <3> DEFINE x == "open"
    <3>1. x \in LeaseStates /\ lease' = [lease EXCEPT ![c][s] = x]
      BY <1>6 DEF Acquire, LeaseStates
    <3> HIDE DEF x
    <3> QED
      BY <3>1, LeaseShape DEF FenceOK
  <2> QED
    BY <1>6, <2>1 DEF Acquire, FenceOK
<1>7. ASSUME NEW s \in Stores, AcquireFails(c, s) PROVE FenceOK'
  <2>1. lease' \in [Callers -> [Stores -> LeaseStates]]
    <3> DEFINE x == "open"
    <3>1. x \in LeaseStates /\ (lease' = [lease EXCEPT ![c][s] = x] \/ lease' = lease)
      BY <1>7 DEF AcquireFails, LeaseStates
    <3> HIDE DEF x
    <3>2. CASE lease' = lease
      BY <3>2 DEF FenceOK
    <3>3. CASE lease' = [lease EXCEPT ![c][s] = x]
      BY <3>1, <3>3, LeaseShape DEF FenceOK
    <3> QED
      BY <3>1, <3>2, <3>3
  <2>2. faults' \in 0 .. MaxFaults
    BY <1>7, FaultOK DEF AcquireFails, FenceOK
  <2> QED
    BY <1>7, <2>1, <2>2 DEF AcquireFails, FenceOK
<1>8. ASSUME NEW s \in Stores, Undo(c, s) PROVE FenceOK'
  <2> DEFINE x == IF lease[c][s] = "open" THEN "uncertain" ELSE lease[c][s]
  <2>1. lease' \in [Callers -> [Stores -> LeaseStates]]
    <3>1. x \in LeaseStates
      BY DEF FenceOK, LeaseStates
    <3>2. lease' = [lease EXCEPT ![c][s] = x] \/ lease' = lease
      BY <1>8 DEF Undo
    <3> HIDE DEF x
    <3>3. CASE lease' = lease
      BY <3>3 DEF FenceOK
    <3>4. CASE lease' = [lease EXCEPT ![c][s] = x]
      BY <3>1, <3>4, LeaseShape DEF FenceOK
    <3> QED
      BY <3>2, <3>3, <3>4
  <2>2. (pc' = pc /\ answer' = answer /\ lock' = lock) \/ (Answers(c, "refused") /\ Unlock(c))
    BY <1>8 DEF Undo
  <2>3. /\ pc' \in [Callers -> Places] /\ lock' \in Callers \cup {Retirer, None}
        /\ answer' \in [Callers -> {"none", "ok", "refused", "failed"}]
    BY <2>2 DEF Answers, Unlock, FenceOK
  <2>4. pending' \in [Callers -> SUBSET Stores]
    BY <1>8 DEF Undo, FenceOK
  <2>5. faults' \in 0 .. MaxFaults
    BY <1>8, FaultOK DEF Undo, FenceOK
  <2>6. /\ excused' \in [Callers -> BOOLEAN] /\ missed' = missed /\ want' = want
    BY <1>8 DEF Undo, FenceOK
  <2> QED
    BY <2>1, <2>3, <2>4, <2>5, <2>6 DEF FenceOK
<1>9. ASSUME NEW s \in Stores, Confirm(c, s) PROVE FenceOK'
  <2>1. lease' \in [Callers -> [Stores -> LeaseStates]]
    <3> DEFINE x == "released"
    <3>1. x \in LeaseStates /\ (lease' = [lease EXCEPT ![c][s] = x] \/ lease' = lease)
      BY <1>9 DEF Confirm, LeaseStates
    <3> HIDE DEF x
    <3>2. CASE lease' = lease
      BY <3>2 DEF FenceOK
    <3>3. CASE lease' = [lease EXCEPT ![c][s] = x]
      BY <3>1, <3>3, LeaseShape DEF FenceOK
    <3> QED
      BY <3>1, <3>2, <3>3
  <2>2. \/ pc' = pc /\ answer' = answer
        \/ Answers(c, "refused") \/ Answers(c, "ok")
        \/ pc' = [pc EXCEPT ![c] = "work"] /\ answer' = answer
    BY <1>9 DEF Confirm
  <2>3. pc' \in [Callers -> Places] /\ answer' \in [Callers -> {"none", "ok", "refused", "failed"}]
    BY <2>2 DEF Answers, FenceOK
  <2>4. pending' \in [Callers -> SUBSET Stores]
    BY <1>9 DEF Confirm, FenceOK
  <2>5. faults' \in 0 .. MaxFaults
    BY <1>9, FaultOK DEF Confirm, FenceOK
  <2>6. /\ excused' \in [Callers -> BOOLEAN] /\ missed' \in [Callers -> BOOLEAN]
        /\ want' = want /\ lock' = lock
    BY <1>9 DEF Confirm, FenceOK
  <2> QED
    BY <2>1, <2>3, <2>4, <2>5, <2>6 DEF FenceOK
<1> QED
  BY <1>1, <1>2, <1>3, <1>4, <1>5, <1>6, <1>7, <1>8, <1>9 DEF FenceStep

\* Only an installation leaves "idle" in the fence.
LEMMA FenceIdle == ASSUME TypeOK, NEW c \in Callers, FenceStep(c)
                   PROVE  \A d \in Upgraders : pc'[d] # "idle" => pc[d] # "idle"
<1> USE RetirementAssumption DEF Callers
<1>1. ASSUME NEW v \in Versions, Lock(c, v)
      PROVE  \A d \in Upgraders : pc'[d] # "idle" => pc[d] # "idle"
  BY <1>1 DEF Lock, Answers, TypeOK
<1>2. ASSUME NEW s \in Stores, Acquire(c, s) \/ AcquireFails(c, s) \/ Undo(c, s) \/ Confirm(c, s)
      PROVE  \A d \in Upgraders : pc'[d] # "idle" => pc[d] # "idle"
  <2>1. pc[c] # "idle" /\ \A d \in Callers \ {c} : pc'[d] = pc[d]
    BY <1>2 DEF Acquire, AcquireFails, Undo, Confirm, Answers, TypeOK
  <2> QED
    BY <2>1
<1>3. ASSUME Discover(c) \/ BodyFails(c) \/ CommitFails(c) \/ Crash(c)
      PROVE  \A d \in Upgraders : pc'[d] # "idle" => pc[d] # "idle"
  <2>1. pc[c] # "idle" /\ \A d \in Callers \ {c} : pc'[d] = pc[d]
    BY <1>3 DEF Discover, BodyFails, CommitFails, Crash, Answers, TypeOK
  <2> QED
    BY <2>1
<1> QED
  BY <1>1, <1>2, <1>3 DEF FenceStep

LEMMA CommitTypes == ASSUME TypeOK, Copies, Stages, NEW c \in Callers, Commit(c)
                     PROVE  TypeOK' /\ Copies'
<1> USE RetirementAssumption DEF references, InTransaction, Working
<1>1. pc[c] = "inside" /\ want[c] \in Versions
  BY DEF Commit, Committed, Stages, Staged
<1>2. /\ pc' = [pc EXCEPT ![c] = "finish"] /\ uses' = [uses EXCEPT ![want[c]] = @ + 1]
      /\ committed' = [committed EXCEPT ![c] = TRUE] /\ Unlock(c)
      /\ pending' = [pending EXCEPT ![c] = Stores] /\ rev' = [rev EXCEPT ![want[c]] = c]
      /\ UNCHANGED <<alive, pins, rows, want, rec, base, missed, answer, aside, lease, retire,
                     faults, excused, loose>>
  BY DEF Commit, Committed
<1>3. /\ bind' \in [Groups -> Versions \cup {None}]
      /\ records' \in [RecordIds -> Record \cup {None}]
      /\ exposed' \subseteq Upgraders
      /\ \A q \in RecordIds : records[q] \in Record => records'[q] \in Record
  <2>1. CASE c \in Installers
    BY <1>1, <2>1 DEF Commit, Committed, Publish, Groups, TypeOK
  <2>2. CASE c \notin Installers
    <3> DEFINE record == [records[rec[c]] EXCEPT !.status = "upgrading", !.version = want[c]]
    <3>1. c \in Upgraders /\ rec[c] \in RecordIds /\ records[rec[c]] \in Record
      BY <1>1, <2>2 DEF Copies, Callers, RecordIds
    <3>2. record \in Record
      BY <1>1, <3>1, RecordShape DEF Unfinished
    <3>3. Write(rec[c], record) /\ bind' = bind
      BY <2>2 DEF Commit, Committed, Publish
    <3> HIDE DEF record
    <3>4. records' = [records EXCEPT ![rec[c]] = record] /\ exposed' \subseteq Upgraders
      BY <3>3 DEF Write, TypeOK
    <3>5. /\ records' \in [RecordIds -> Record \cup {None}]
          /\ \A q \in RecordIds : records[q] \in Record => records'[q] \in Record
      BY <3>1, <3>2, <3>4, WriteShape
    <3> QED
      BY <3>3, <3>4, <3>5 DEF TypeOK
  <2> QED
    BY <2>1, <2>2
<1>4. uses' \in [Versions -> Nat]
  <2>1. uses \in [Versions -> Nat]
    BY DEF TypeOK
  <2>2. uses[want[c]] \in Nat
    BY <1>1, <2>1
  <2>3. uses[want[c]] + 1 \in Nat
    BY <2>2
  <2> QED
    BY <1>2, <2>1, <2>3
<1>5. TypeOK'
  BY <1>1, <1>2, <1>3, <1>4 DEF TypeOK, Unlock
<1>6. Copies'
  BY <1>1, <1>2, <1>3 DEF Copies, Callers, TypeOK, RecordIds
<1> QED
  BY <1>5, <1>6

\* What an upgrade may change outside of the fence.
UpgradeOK == /\ bind \in [Groups -> Versions \cup {None}]
             /\ records \in [RecordIds -> Record \cup {None}]
             /\ pins \subseteq Versions
             /\ rows \subseteq RecordIds
             /\ pc \in [Callers -> Places]
             /\ want \in [Callers -> Versions \cup {None}]
             /\ rec \in [Callers -> RecordIds \cup {None}]
             /\ base \in [Callers -> Versions \cup {None}]
             /\ answer \in [Callers -> {"none", "ok", "refused", "failed"}]
             /\ exposed \subseteq Upgraders
             /\ loose \subseteq Versions

LEMMA UpgradeTypes == ASSUME TypeOK, Copies, Stages, NEW c \in Upgraders, UpgradeStep(c)
                      PROVE  UpgradeOK' /\ Copies'
<1> USE RetirementAssumption DEF Callers, references
<1>0. UpgradeOK /\ aside' = aside
  BY UpgradeFrame DEF TypeOK, UpgradeOK, Places
<1> USE <1>0
<1>1. ASSUME NEW r \in Records, Load(c, r) PROVE UpgradeOK' /\ Copies'
  <2>1. UpgradeOK'
    BY <1>1 DEF Load, UpgradeOK, Places, RecordIds
  <2>2. Copies'
    BY <1>1 DEF Load, Copies, UpgradeOK, RecordIds
  <2> QED
    BY <2>1, <2>2
<1>2. ASSUME NEW v \in Versions, ReadGroup(c, v) PROVE UpgradeOK' /\ Copies'
  <2>1. pc[c] = "loaded" /\ rec[c] \in RecordIds /\ records[rec[c]].group \in Groups
    BY <1>2 DEF ReadGroup, Copies, Record, RecordIds
  <2>2. UpgradeOK'
    BY <1>2, <2>1 DEF ReadGroup, UpgradeOK, Places
  <2>3. Copies'
    BY <1>2 DEF ReadGroup, Copies, UpgradeOK
  <2> QED
    BY <2>2, <2>3
<1>3. ASSUME SyncNewApp(c) PROVE UpgradeOK' /\ Copies'
  <2>1. UpgradeOK'
    BY <1>3 DEF SyncNewApp, UpgradeOK, Places, Working
  <2>2. Copies'
    BY <1>3 DEF SyncNewApp, Copies, UpgradeOK
  <2> QED
    BY <2>1, <2>2
<1>4. ASSUME SaveApp(c) PROVE UpgradeOK' /\ Copies'
  <2>1. PICK snap \in {None, base[c]} :
              /\ pins' = pins \cup ({snap} \ {None})
              /\ Write(rec[c], [records[rec[c]] EXCEPT !.status = "upgrading",
                                          !.version = want[c], !.snap = snap])
              /\ loose' = loose \cup ({want[c], snap} \ (Used \cup {None}))
    BY <1>4 DEF SaveApp
  <2> DEFINE record == [records[rec[c]] EXCEPT !.status = "upgrading",
                                          !.version = want[c], !.snap = snap]
  <2>2. /\ pc[c] = "save" /\ rec[c] \in RecordIds /\ records[rec[c]] \in Record
        /\ want[c] \in Versions /\ snap \in Versions \cup {None}
    BY <1>4, <2>1 DEF SaveApp, Copies, Stages, Staged, Working, UpgradeOK, RecordIds
  <2>3. record \in Record /\ records[rec[c]].group \in Groups
    BY <2>2, RecordShape DEF Unfinished, Record
  <2> HIDE DEF record
  <2>4. records' = [records EXCEPT ![rec[c]] = record] /\ exposed' \subseteq Upgraders
    BY <2>1 DEF Write, record, UpgradeOK
  <2>5. /\ records' \in [RecordIds -> Record \cup {None}]
        /\ \A q \in RecordIds : records[q] \in Record => records'[q] \in Record
    BY <2>2, <2>3, <2>4, WriteShape
  <2>6. /\ bind' \in [Groups -> Versions \cup {None}] /\ pc' = [pc EXCEPT ![c] = "deploy"]
        /\ UNCHANGED <<rows, want, rec, base, answer>>
    BY <1>4, <2>2, <2>3 DEF SaveApp, UpgradeOK
  <2>7. pins' \subseteq Versions /\ loose' \subseteq Versions
    BY <2>1, <2>2 DEF UpgradeOK
  <2>8. UpgradeOK'
    BY <2>4, <2>5, <2>6, <2>7 DEF UpgradeOK, Places, Working
  <2>9. Copies'
    BY <2>2, <2>5, <2>6 DEF Copies, UpgradeOK, RecordIds
  <2> QED
    BY <2>8, <2>9
<1>5. ASSUME UpgradeFails(c) PROVE UpgradeOK' /\ Copies'
  <2> DEFINE record == [records[rec[c]] EXCEPT !.status = "over", !.version = want[c],
                                                !.snap = None]
  <2>1. pc[c] # "idle" /\ rec[c] \in RecordIds /\ records[rec[c]] \in Record
    BY <1>5 DEF UpgradeFails, Copies, RecordIds
  <2>2. record \in Record
    BY <2>1, RecordShape DEF UpgradeOK
  <2>3. /\ Write(rec[c], record) \/ UNCHANGED <<records, exposed>>
        /\ Answers(c, "failed") /\ UNCHANGED <<bind, pins, rows, want, rec, base, loose>>
    BY <1>5 DEF UpgradeFails
  <2> HIDE DEF record
  <2>4. records' = [records EXCEPT ![rec[c]] = record] \/ records' = records
    BY <2>3 DEF Write
  <2>5. /\ records' \in [RecordIds -> Record \cup {None}]
        /\ \A q \in RecordIds : records[q] \in Record => records'[q] \in Record
    BY <2>1, <2>2, <2>4, WriteShape DEF UpgradeOK
  <2>6. exposed' \subseteq Upgraders
    BY <2>3 DEF Write, UpgradeOK
  <2>7. UpgradeOK'
    BY <2>3, <2>5, <2>6 DEF UpgradeOK, Answers, Places
  <2>8. Copies'
    BY <2>1, <2>3, <2>5 DEF Copies, Answers, UpgradeOK, RecordIds
  <2> QED
    BY <2>7, <2>8
<1>6. ASSUME Deployed(c) PROVE UpgradeOK' /\ Copies'
  <2>1. UpgradeOK'
    BY <1>6 DEF Deployed, Answers, Copies, UpgradeOK, Places, RecordIds
  <2>2. Copies'
    BY <1>6 DEF Deployed, Answers, Copies, UpgradeOK
  <2> QED
    BY <2>1, <2>2
<1> QED
  BY <1>1, <1>2, <1>3, <1>4, <1>5, <1>6 DEF UpgradeStep

\* What requests change that do not pass the fence.
BesideOK == /\ bind \in [Groups -> Versions \cup {None}]
            /\ records \in [RecordIds -> Record \cup {None}]
            /\ pins \subseteq Versions
            /\ rows \subseteq RecordIds
            /\ aside \in [Restorers \cup Syncers -> CopyStates]
            /\ exposed \subseteq Upgraders
            /\ \A p \in Restorers : aside[p].pc \in {"restore", "record"} => aside[p].held.snap # None
            /\ \A q \in RecordIds : records[q] # None => records[q] \in Record
            /\ Copies

\* A request that saves its copy saves a record.
LEMMA SyncSaveTypes ==
    ASSUME BesideOK, UNCHANGED pc, UNCHANGED rec, TypeOK, NEW p \in Syncers,
           aside[p].pc = "sync", NEW status \in Unfinished \cup {"over"}, SyncSave(p, status)
    PROVE  BesideOK'
<1> USE RetirementAssumption
<1> DEFINE record == [aside[p].held EXCEPT !.status = status]
<1>1. aside[p].rec \in RecordIds /\ aside[p].held \in Record
  BY DEF BesideOK, Copies
<1>2. record \in Record
  BY <1>1, RecordShape
<1>3. /\ records' = [records EXCEPT ![aside[p].rec] = record] /\ exposed' \subseteq Upgraders
      /\ aside' = [aside EXCEPT ![p] = Ended] /\ UNCHANGED <<bind, pins, rows>>
  BY DEF SyncSave, Write, BesideOK
<1> HIDE DEF record
<1>4. /\ records' \in [RecordIds -> Record \cup {None}]
      /\ \A q \in RecordIds : records[q] \in Record => records'[q] \in Record
      /\ \A q \in RecordIds : records'[q] # None => records'[q] \in Record
  BY <1>1, <1>2, <1>3 DEF BesideOK
<1>5. Ended \in CopyStates /\ Ended.pc = "done"
  BY DEF Ended, NoCopy, CopyStates
<1>6. /\ aside' \in [Restorers \cup Syncers -> CopyStates]
      /\ \A q \in Restorers \cup Syncers : aside'[q] = IF q = p THEN Ended ELSE aside[q]
  BY <1>3, <1>5 DEF BesideOK
<1>7. Copies'
  BY <1>4, <1>5, <1>6 DEF BesideOK, Copies, RecordIds
<1> QED
  BY <1>3, <1>4, <1>5, <1>6, <1>7 DEF BesideOK

LEMMA BesideTypes == ASSUME TypeOK, Copies, BesideStep PROVE BesideOK'
<1> USE RetirementAssumption DEF references
<1>0. BesideOK /\ UNCHANGED <<pc, rec>>
  BY BesideFrame DEF BesideOK, TypeOK, CopyStates, caller
<1> USE <1>0
<1>1. ASSUME NEW r \in Records, NEW g \in Groups, CreateRecord(r, g) PROVE BesideOK'
  <2> DEFINE record == [group |-> g, status |-> "new", version |-> None, old |-> bind[g],
                        snap |-> None]
  <2>1. record \in Record /\ r \in RecordIds
    BY DEF Record, BesideOK, Unfinished, RecordIds
  <2>2. records' = [records EXCEPT ![r] = record] /\ UNCHANGED <<bind, pins, rows, aside, exposed>>
    BY <1>1 DEF CreateRecord
  <2> HIDE DEF record
  <2>3. /\ records' \in [RecordIds -> Record \cup {None}]
        /\ \A q \in RecordIds : records[q] \in Record => records'[q] \in Record
        /\ \A q \in RecordIds : records'[q] # None => records'[q] \in Record
    BY <2>1, <2>2 DEF BesideOK
  <2>4. Copies'
    BY <2>2, <2>3 DEF BesideOK, Copies, RecordIds
  <2> QED
    BY <2>2, <2>3, <2>4 DEF BesideOK
<1>2. ASSUME NEW p \in Syncers, NEW r \in RecordIds, SyncLoad(p, r) PROVE BesideOK'
  <2> DEFINE copy == [pc |-> "sync", rec |-> r, held |-> records[r]]
  <2>1. copy \in CopyStates /\ copy.pc = "sync" /\ copy.rec = r /\ copy.held \in Record
    BY <1>2 DEF SyncLoad, CopyStates, BesideOK
  <2>2. aside' = [aside EXCEPT ![p] = copy] /\ UNCHANGED <<bind, records, pins, rows, exposed>>
    BY <1>2 DEF SyncLoad
  <2> HIDE DEF copy
  <2>3. /\ aside' \in [Restorers \cup Syncers -> CopyStates]
        /\ \A q \in Restorers \cup Syncers : aside'[q] = IF q = p THEN copy ELSE aside[q]
    BY <2>1, <2>2 DEF BesideOK
  <2>4. Copies'
    BY <2>1, <2>2, <2>3 DEF BesideOK, Copies
  <2> QED
    BY <2>1, <2>2, <2>3, <2>4 DEF BesideOK
<1>3. ASSUME NEW p \in Syncers, PollSave(p) PROVE BesideOK'
  <2>1. aside[p].held.status \in Unfinished /\ aside[p].pc = "sync"
    BY <1>3 DEF PollSave
  <2>2. SyncSave(p, "over") \/ SyncSave(p, aside[p].held.status)
    BY <1>3 DEF PollSave
  <2> QED
    BY <2>1, <2>2, SyncSaveTypes
<1>4. ASSUME NEW p \in Syncers, RetrySave(p) PROVE BesideOK'
  <2>1. aside[p].pc = "sync"
    BY <1>4 DEF RetrySave
  <2>2. SyncSave(p, "over") \/ SyncSave(p, "rolling") \/ SyncSave(p, "upgrading")
    BY <1>4 DEF RetrySave
  <2>3. {"over", "rolling", "upgrading"} \subseteq Unfinished \cup {"over"}
    BY DEF Unfinished
  <2> QED
    BY <2>1, <2>2, <2>3, SyncSaveTypes
<1>5. ASSUME NEW p \in Restorers, NEW r \in Records, RestoreLoad(p, r) PROVE BesideOK'
  <2> DEFINE copy == [pc |-> "restore", rec |-> r, held |-> records[r]]
  <2>1. /\ copy \in CopyStates /\ copy.pc = "restore" /\ copy.rec \in RecordIds
        /\ copy.held \in Record /\ copy.held.snap # None
    BY <1>5 DEF RestoreLoad, CopyStates, BesideOK, RecordIds
  <2>2. aside' = [aside EXCEPT ![p] = copy] /\ UNCHANGED <<bind, records, pins, rows, exposed>>
    BY <1>5 DEF RestoreLoad
  <2> HIDE DEF copy
  <2>3. /\ aside' \in [Restorers \cup Syncers -> CopyStates]
        /\ \A q \in Restorers \cup Syncers : aside'[q] = IF q = p THEN copy ELSE aside[q]
    BY <2>1, <2>2 DEF BesideOK
  <2>4. Copies'
    BY <2>1, <2>2, <2>3 DEF BesideOK, Copies
  <2> QED
    BY <2>1, <2>2, <2>3, <2>4 DEF BesideOK
<1>6. ASSUME NEW p \in Restorers, RestoreSave(p) PROVE BesideOK'
  <2> DEFINE copy == [aside[p] EXCEPT !.pc = "record"]
  <2>1. /\ aside[p].pc = "restore" /\ aside[p].held \in Record /\ aside[p].rec \in RecordIds
        /\ aside[p].held.snap # None /\ aside[p] \in CopyStates
    BY <1>6 DEF RestoreSave, BesideOK, Copies
  <2>2. /\ copy \in CopyStates /\ copy.pc = "record"
        /\ copy.rec = aside[p].rec /\ copy.held = aside[p].held
    BY <2>1 DEF CopyStates
  <2>3. aside' = [aside EXCEPT ![p] = copy] /\ UNCHANGED <<records, pins, rows, exposed>>
    BY <1>6 DEF RestoreSave
  <2>4. bind' \in [Groups -> Versions \cup {None}]
    BY <1>6, <2>1 DEF RestoreSave, Record, BesideOK
  <2> HIDE DEF copy
  <2>5. /\ aside' \in [Restorers \cup Syncers -> CopyStates]
        /\ \A q \in Restorers \cup Syncers : aside'[q] = IF q = p THEN copy ELSE aside[q]
    BY <2>2, <2>3 DEF BesideOK
  <2>6. Copies'
    BY <2>1, <2>2, <2>3, <2>5 DEF BesideOK, Copies
  <2> QED
    BY <2>1, <2>2, <2>3, <2>4, <2>5, <2>6 DEF BesideOK
<1>7. ASSUME NEW p \in Restorers, RestoreRecord(p) PROVE BesideOK'
  <2> DEFINE copy == [aside[p] EXCEPT !.pc = "deploy"]
             record == [aside[p].held EXCEPT !.status = "rolling", !.version = aside[p].held.old,
                                             !.old = aside[p].held.version]
  <2>1. aside[p].pc = "record" /\ aside[p].held \in Record /\ aside[p] \in CopyStates
    BY <1>7 DEF RestoreRecord, BesideOK, Copies
  <2>2. copy \in CopyStates /\ copy.pc = "deploy"
    BY <2>1 DEF CopyStates
  <2>3. record \in Record /\ p \in RecordIds
    BY <2>1 DEF Record, Unfinished, RecordIds
  <2>4. /\ aside' = [aside EXCEPT ![p] = copy] /\ records' = [records EXCEPT ![p] = record]
        /\ UNCHANGED <<bind, pins, rows, exposed>>
    BY <1>7 DEF RestoreRecord
  <2> HIDE DEF copy, record
  <2>5. /\ aside' \in [Restorers \cup Syncers -> CopyStates]
        /\ \A q \in Restorers \cup Syncers : aside'[q] = IF q = p THEN copy ELSE aside[q]
    BY <2>2, <2>4 DEF BesideOK
  <2>6. /\ records' \in [RecordIds -> Record \cup {None}] /\ records'[p] \in Record
        /\ \A q \in RecordIds : records[q] \in Record => records'[q] \in Record
        /\ \A q \in RecordIds : records'[q] # None => records'[q] \in Record
    BY <2>3, <2>4 DEF BesideOK
  <2>7. Copies'
    BY <2>2, <2>5, <2>6 DEF BesideOK, Copies, RecordIds
  <2> QED
    BY <2>2, <2>4, <2>5, <2>6, <2>7 DEF BesideOK
<1>8. ASSUME NEW p \in Restorers, RestoreDeployed(p) PROVE BesideOK'
  <2>1. Ended \in CopyStates /\ Ended.pc = "done" /\ p \in RecordIds
    BY DEF Ended, NoCopy, CopyStates, RecordIds
  <2>2. /\ aside' = [aside EXCEPT ![p] = Ended] /\ rows' = rows \cup {p}
        /\ UNCHANGED <<bind, records, pins, exposed>>
    BY <1>8 DEF RestoreDeployed
  <2>3. /\ aside' \in [Restorers \cup Syncers -> CopyStates]
        /\ \A q \in Restorers \cup Syncers : aside'[q] = IF q = p THEN Ended ELSE aside[q]
    BY <2>1, <2>2 DEF BesideOK
  <2>4. Copies'
    BY <2>1, <2>2, <2>3 DEF BesideOK, Copies
  <2> QED
    BY <2>1, <2>2, <2>3, <2>4 DEF BesideOK
<1>9. ASSUME NEW p \in Restorers, RestoreFails(p) PROVE BesideOK'
  <2> DEFINE record == [records[p] EXCEPT !.status = "over"]
  <2>1. Ended \in CopyStates /\ Ended.pc = "done" /\ p \in RecordIds
    BY DEF Ended, NoCopy, CopyStates, RecordIds
  <2>2. /\ aside' = [aside EXCEPT ![p] = Ended] /\ UNCHANGED <<bind, pins, rows, exposed>>
        /\ \/ records' = records
           \/ aside[p].pc = "deploy" /\ records' = [records EXCEPT ![p] = record]
    BY <1>9 DEF RestoreFails
  <2>3. aside[p].pc = "deploy" => record \in Record
    BY RecordShape DEF BesideOK, Copies
  <2> HIDE DEF record
  <2>4. /\ aside' \in [Restorers \cup Syncers -> CopyStates]
        /\ \A q \in Restorers \cup Syncers : aside'[q] = IF q = p THEN Ended ELSE aside[q]
    BY <2>1, <2>2 DEF BesideOK
  <2>5. /\ records' \in [RecordIds -> Record \cup {None}]
        /\ \A q \in RecordIds : records[q] \in Record => records'[q] \in Record
        /\ \A q \in RecordIds : records'[q] # None => records'[q] \in Record
    BY <2>1, <2>2, <2>3 DEF BesideOK
  <2>6. Copies'
    BY <2>1, <2>4, <2>5 DEF BesideOK, Copies, RecordIds
  <2> QED
    BY <2>1, <2>2, <2>4, <2>5, <2>6 DEF BesideOK
<1>10. ASSUME NEW g \in Groups, Uninstall(g) PROVE BesideOK'
  BY <1>10 DEF Uninstall, BesideOK, Copies
<1> QED
  BY <1>1, <1>2, <1>3, <1>4, <1>5, <1>6, <1>7, <1>8, <1>9, <1>10 DEF BesideStep

LEMMA RetireTypes ==
    ASSUME TypeOK, RetireStep
    PROVE  /\ alive' \subseteq Versions /\ lock' \in Callers \cup {Retirer, None}
           /\ retire' \in [pc : {"idle", "row", "target", "delete"}, v : Versions \cup {None},
                           rev : Callers \cup {None}, uses : Nat]
<1> DEFINE RetireStates == [pc : {"idle", "row", "target", "delete"}, v : Versions \cup {None},
                            rev : Callers \cup {None}, uses : Nat]
<1>1. NoRow \in RetireStates
  BY DEF NoRow
<1>2. ASSUME NEW v \in Versions, ListRow(v)
      PROVE  alive' = alive /\ lock' = lock /\ retire' \in RetireStates
  BY <1>2 DEF ListRow, TypeOK
<1>3. ASSUME ListTarget PROVE alive' = alive /\ lock' = lock /\ retire' \in RetireStates
  <2>1. retire' = NoRow \/ retire' = [retire EXCEPT !.pc = "target"]
    BY <1>3 DEF ListTarget
  <2> QED
    BY <1>1, <1>3, <2>1 DEF ListTarget, TypeOK
<1>4. ASSUME RetireCheck
      PROVE  alive' = alive /\ lock' \in {lock, Retirer} /\ retire' \in RetireStates
  <2>1. retire' = NoRow \/ retire' = [retire EXCEPT !.pc = "delete"]
    BY <1>4 DEF RetireCheck
  <2> QED
    BY <1>1, <1>4, <2>1 DEF RetireCheck, TypeOK
<1>5. ASSUME RetireDelete
      PROVE  alive' \subseteq alive /\ lock' \in {lock, None} /\ retire' \in RetireStates
  BY <1>1, <1>5 DEF RetireDelete
<1> QED
  BY <1>2, <1>3, <1>4, <1>5 DEF RetireStep, TypeOK

-----------------------------------------------------------------------------
(* Where callers are                                                       *)

LEMMA StagesInit == Init => Stages
  BY RetirementAssumption DEF Init, Stages, Staged, Before, InTransaction, Working

\* A step of one caller leaves the others where they are.
LEMMA FenceAlone ==
    ASSUME TypeOK, NEW c \in Callers, FenceStep(c)
    PROVE  /\ \A d \in Callers \ {c} :
                 /\ pc'[d] = pc[d] /\ want'[d] = want[d] /\ answer'[d] = answer[d]
                 /\ pending'[d] = pending[d] /\ missed'[d] = missed[d]
                 /\ lease'[d] = lease[d] /\ excused'[d] = excused[d]
           /\ lock' = lock \/ (lock = None /\ lock' = c) \/ (lock = c /\ lock' = None)
<1> DEFINE Alone == \A d \in Callers \ {c} :
                       /\ pc'[d] = pc[d] /\ want'[d] = want[d] /\ answer'[d] = answer[d]
                       /\ pending'[d] = pending[d] /\ missed'[d] = missed[d]
                       /\ lease'[d] = lease[d] /\ excused'[d] = excused[d]
           Locks == lock' = lock \/ (lock = None /\ lock' = c) \/ (lock = c /\ lock' = None)
<1> USE DEF TypeOK, history
<1>1. ASSUME NEW v \in Versions, Lock(c, v) PROVE Alone /\ Locks
  BY <1>1 DEF Lock, Answers
<1>2. ASSUME NEW s \in Stores, Acquire(c, s) \/ AcquireFails(c, s) PROVE Alone /\ Locks
  BY <1>2 DEF Acquire, AcquireFails
<1>3. ASSUME NEW s \in Stores, Undo(c, s) PROVE Alone /\ Locks
  BY <1>3 DEF Undo, Answers, Unlock
<1>4. ASSUME NEW s \in Stores, Confirm(c, s) PROVE Alone /\ Locks
  BY <1>4 DEF Confirm, Answers
<1>5. ASSUME Discover(c) \/ BodyFails(c) PROVE Alone /\ Locks
  BY <1>5 DEF Discover, BodyFails, Answers, Unlock
<1>6. ASSUME CommitFails(c) \/ Crash(c) PROVE Alone /\ Locks
  BY <1>6 DEF CommitFails, Crash, Answers, Unlock
<1> QED
  BY <1>1, <1>2, <1>3, <1>4, <1>5, <1>6 DEF FenceStep

LEMMA CommitAlone ==
    ASSUME TypeOK, NEW c \in Callers, Commit(c)
    PROVE  /\ \A d \in Callers \ {c} : pc'[d] = pc[d] /\ pending'[d] = pending[d]
                                       /\ committed'[d] = committed[d]
           /\ UNCHANGED <<alive, pins, want, rec, base, answer, missed, aside, lease, excused,
                          retire, loose>>
           /\ pc[c] = "inside" /\ pc'[c] = "finish" /\ committed'[c] /\ pending'[c] = Stores
           /\ lock' = IF lock = c THEN None ELSE lock
  BY DEF Commit, Committed, Unlock, TypeOK

LEMMA UpgradeAlone ==
    ASSUME TypeOK, NEW c \in Upgraders, UpgradeStep(c)
    PROVE  /\ \A d \in Callers \ {c} : /\ pc'[d] = pc[d] /\ want'[d] = want[d] /\ rec'[d] = rec[d]
                                       /\ base'[d] = base[d] /\ answer'[d] = answer[d]
           /\ \/ pc[c] = "idle" /\ pc'[c] = "loaded" /\ answer'[c] = answer[c]
              \/ pc[c] = "loaded" /\ pc'[c] = "ready" /\ answer'[c] = answer[c]
              \/ pc[c] = "work" /\ pc'[c] = "save" /\ answer'[c] = answer[c] /\ want'[c] = want[c]
              \/ pc[c] = "save" /\ pc'[c] = "deploy" /\ answer'[c] = answer[c] /\ want'[c] = want[c]
              \/ pc[c] \in {"work", "save", "deploy"} /\ pc'[c] = "done" /\ answer'[c] = "failed"
              \/ pc[c] = "deploy" /\ pc'[c] = "done" /\ answer'[c] = "ok"
<1> DEFINE Alone == \A d \in Callers \ {c} :
                       /\ pc'[d] = pc[d] /\ want'[d] = want[d] /\ rec'[d] = rec[d]
                       /\ base'[d] = base[d] /\ answer'[d] = answer[d]
<1> USE DEF TypeOK, Callers
<1>1. ASSUME NEW r \in Records, Load(c, r)
      PROVE  Alone /\ pc[c] = "idle" /\ pc'[c] = "loaded" /\ answer'[c] = answer[c]
  BY <1>1 DEF Load
<1>2. ASSUME NEW v \in Versions, ReadGroup(c, v)
      PROVE  Alone /\ pc[c] = "loaded" /\ pc'[c] = "ready" /\ answer'[c] = answer[c]
  BY <1>2 DEF ReadGroup
<1>3. ASSUME SyncNewApp(c)
      PROVE  Alone /\ pc[c] = "work" /\ pc'[c] = "save" /\ answer'[c] = answer[c]
             /\ want'[c] = want[c]
  BY <1>3 DEF SyncNewApp
<1>4. ASSUME SaveApp(c)
      PROVE  Alone /\ pc[c] = "save" /\ pc'[c] = "deploy" /\ answer'[c] = answer[c]
             /\ want'[c] = want[c]
  BY <1>4 DEF SaveApp
<1>5. ASSUME UpgradeFails(c)
      PROVE  Alone /\ pc[c] \in {"work", "save", "deploy"} /\ pc'[c] = "done"
             /\ answer'[c] = "failed"
  BY <1>5 DEF UpgradeFails, Answers
<1>6. ASSUME Deployed(c)
      PROVE  Alone /\ pc[c] = "deploy" /\ pc'[c] = "done" /\ answer'[c] = "ok"
  BY <1>6 DEF Deployed, Answers
<1> QED
  BY <1>1, <1>2, <1>3, <1>4, <1>5, <1>6 DEF UpgradeStep

LEMMA StagesNext == ASSUME TypeOK, Stages, [Next]_vars PROVE Stages'
<1> USE RetirementAssumption DEF InTransaction, Working
<1>1. ASSUME NEW c \in Callers, FenceStep(c) PROVE Stages'
  <2>1. \A d \in Callers \ {c} : Staged(d)'
    BY <1>1, FenceAlone, FenceFrame DEF Stages, Staged, Before, Callers
  <2>2. Staged(c)'
    <3> USE DEF Stages, Staged, Before, Callers, TypeOK, history
    <3>1. ASSUME NEW v \in Versions, Lock(c, v) PROVE Staged(c)'
      BY <3>1 DEF Lock, Answers
    <3>2. ASSUME NEW s \in Stores, Acquire(c, s) \/ AcquireFails(c, s) PROVE Staged(c)'
      BY <3>2 DEF Acquire, AcquireFails
    <3>3. ASSUME NEW s \in Stores, Undo(c, s) PROVE Staged(c)'
      BY <3>3 DEF Undo, Answers, Unlock
    <3>4. ASSUME NEW s \in Stores, Confirm(c, s) PROVE Staged(c)'
      BY <3>4 DEF Confirm, Answers
    <3>5. ASSUME Discover(c) \/ BodyFails(c) PROVE Staged(c)'
      BY <3>5 DEF Discover, BodyFails, Answers, Unlock
    <3>6. ASSUME CommitFails(c) \/ Crash(c) PROVE Staged(c)'
      BY <3>6 DEF CommitFails, Crash, Answers, Unlock
    <3> QED
      BY <1>1, <3>1, <3>2, <3>3, <3>4, <3>5, <3>6 DEF FenceStep
  <2> QED
    BY <2>1, <2>2 DEF Stages
<1>2. ASSUME NEW c \in Callers, Commit(c) PROVE Stages'
  BY <1>2, CommitAlone DEF Stages, Staged, Before, Callers
<1>3. ASSUME NEW c \in Upgraders, UpgradeStep(c) PROVE Stages'
  <2>1. \A d \in Callers \ {c} : Staged(d)'
    BY <1>3, UpgradeAlone, UpgradeFrame DEF Stages, Staged, Before, Callers
  <2>2. Staged(c)'
    BY <1>3, UpgradeAlone, UpgradeFrame DEF Stages, Staged, Before, Callers
  <2> QED
    BY <2>1, <2>2 DEF Stages
<1>4. CASE BesideStep
  BY <1>4, BesideFrame DEF Stages, Staged, Before, caller
<1>5. CASE RetireStep
  <2>1. UNCHANGED <<pc, want, committed, answer>>
    BY <1>5, RetireFrame DEF caller, history
  <2>2. lock' = lock \/ lock \in {None, Retirer}
    BY <1>5 DEF RetireStep, ListRow, ListTarget, RetireCheck, RetireDelete
  <2> QED
    BY <2>1, <2>2 DEF Stages, Staged, Before
<1>6. CASE UNCHANGED vars
  BY <1>6 DEF vars, caller, history, Stages, Staged, Before
<1> QED
  BY <1>1, <1>2, <1>3, <1>4, <1>5, <1>6, Steps

LEMMA TypeNext == ASSUME TypeOK, Copies, Stages, [Next]_vars PROVE TypeOK' /\ Copies'
<1> USE RetirementAssumption DEF references, caller, history
<1>1. ASSUME NEW c \in Callers, FenceStep(c) PROVE TypeOK' /\ Copies'
  <2>1. /\ UNCHANGED <<alive, rev, bind, records, pins, rows, rec, base, aside, retire, uses,
                       committed, exposed, loose>>
    BY <1>1, FenceFrame
  <2>2. FenceOK'
    BY <1>1, FenceTypes
  <2>3. TypeOK'
    BY <2>1, <2>2 DEF TypeOK, FenceOK, LeaseStates, Places
  <2>4. Copies'
    BY <1>1, <2>1, FenceIdle DEF Copies
  <2> QED
    BY <2>3, <2>4
<1>2. ASSUME NEW c \in Callers, Commit(c) PROVE TypeOK' /\ Copies'
  BY <1>2, CommitTypes
<1>3. ASSUME NEW c \in Upgraders, UpgradeStep(c) PROVE TypeOK' /\ Copies'
  <2>1. UpgradeOK' /\ Copies'
    BY <1>3, UpgradeTypes
  <2>2. UNCHANGED <<alive, rev, lock, pending, missed, aside, lease, retire, uses, committed,
                    excused>>
    BY <1>3, UpgradeFrame
  <2>3. faults' \in 0 .. MaxFaults
    BY <1>3, UpgradeFrame, FaultOK DEF TypeOK
  <2> QED
    BY <2>1, <2>2, <2>3 DEF UpgradeOK, TypeOK, Places
<1>4. CASE BesideStep
  <2>1. BesideOK'
    BY <1>4, BesideTypes
  <2>2. UNCHANGED <<alive, rev, lock, caller, lease, retire, uses, committed, excused, loose>>
    BY <1>4, BesideFrame
  <2>3. faults' \in 0 .. MaxFaults
    BY <1>4, BesideFrame, FaultOK DEF TypeOK
  <2> QED
    BY <2>1, <2>2, <2>3 DEF BesideOK, TypeOK, CopyStates
<1>5. CASE RetireStep
  <2>1. UNCHANGED <<references, caller, aside, lease, faults, history>>
    BY <1>5, RetireFrame
  <2>2. TypeOK'
    BY <1>5, <2>1, RetireTypes DEF TypeOK
  <2>3. Copies'
    BY <2>1 DEF Copies
  <2> QED
    BY <2>2, <2>3
<1>6. CASE UNCHANGED vars
  BY <1>6 DEF vars, TypeOK, Copies
<1> QED
  BY <1>1, <1>2, <1>3, <1>4, <1>5, <1>6, Steps

-----------------------------------------------------------------------------
(* Leases                                                                  *)

LEMMA LeasesInit == Init => Leases
  BY DEF Init, Leases, Leased

LEMMA LeasesNext == ASSUME TypeOK, Stages, Leases, [Next]_vars PROVE Leases'
<1> USE RetirementAssumption DEF InTransaction, Working
<1>1. ASSUME NEW c \in Callers, FenceStep(c) PROVE Leases'
  <2>1. \A d \in Callers \ {c} : Leased(d)'
    BY <1>1, FenceAlone DEF Leases, Leased
  <2>2. Leased(c)'
    <3> USE DEF Leases, Leased, TypeOK, history
    <3>1. ASSUME NEW v \in Versions, Lock(c, v) PROVE Leased(c)'
      BY <3>1 DEF Lock, Answers
    <3>2. ASSUME NEW s \in Stores, Acquire(c, s) PROVE Leased(c)'
      BY <3>2 DEF Acquire
    <3>3. ASSUME NEW s \in Stores, AcquireFails(c, s) PROVE Leased(c)'
      BY <3>3 DEF AcquireFails
    <3>4. ASSUME NEW s \in Stores, Undo(c, s) PROVE Leased(c)'
      BY <3>4 DEF Undo, Answers, Unlock
    <3>5. ASSUME NEW s \in Stores, Confirm(c, s) PROVE Leased(c)'
      <4>1. /\ pc[c] = "finish" /\ pending'[c] = pending[c] \ {s}
            /\ pc'[c] \in {"finish", "done", "work"}
            /\ pc'[c] = "work" => pending'[c] = {} /\ ~missed'[c]
        BY <3>5 DEF Confirm, Answers
      <4>2. CASE lease' = [lease EXCEPT ![c][s] = "released"] /\ UNCHANGED <<missed, excused>>
        BY <4>1, <4>2
      <4>3. CASE missed'[c] /\ excused'[c]
        BY <4>1, <4>3
      <4> QED
        BY <3>5, <4>2, <4>3 DEF Confirm
    <3>6. ASSUME Discover(c) \/ BodyFails(c) PROVE Leased(c)'
      BY <3>6 DEF Discover, BodyFails, Answers, Unlock
    <3>7. ASSUME CommitFails(c) \/ Crash(c) PROVE Leased(c)'
      BY <3>7 DEF CommitFails, Crash, Answers, Unlock
    <3> QED
      BY <1>1, <3>1, <3>2, <3>3, <3>4, <3>5, <3>6, <3>7 DEF FenceStep
  <2> QED
    BY <2>1, <2>2 DEF Leases
<1>2. ASSUME NEW c \in Callers, Commit(c) PROVE Leases'
  BY <1>2, CommitAlone DEF Leases, Leased
<1>3. ASSUME NEW c \in Upgraders, UpgradeStep(c) PROVE Leases'
  BY <1>3, UpgradeAlone, UpgradeFrame DEF Leases, Leased, Callers
<1>4. CASE BesideStep
  BY <1>4, BesideFrame DEF Leases, Leased, caller
<1>5. CASE RetireStep
  BY <1>5, RetireFrame DEF Leases, Leased, caller, history
<1>6. CASE UNCHANGED vars
  BY <1>6 DEF vars, caller, history, Leases, Leased
<1> QED
  BY <1>1, <1>2, <1>3, <1>4, <1>5, <1>6, Steps

LEMMA SpanInit == Init => LeasesSpanCommit
  BY DEF Init, LeasesSpanCommit

LEMMA SpanNext ==
    ASSUME TypeOK, Stages, Leases, LeasesSpanCommit, [Next]_vars
    PROVE  LeasesSpanCommit'
<1> DEFINE Spans(d) == IF committed[d] THEN \A s \in Stores : lease[d][s] \in {"open", "released"}
                                       ELSE \A s \in Stores : lease[d][s] # "released"
<1>0. \A d \in Callers : Spans(d)
  BY DEF LeasesSpanCommit
<1> SUFFICES \A d \in Callers : Spans(d)'
  BY DEF LeasesSpanCommit
<1> USE RetirementAssumption DEF InTransaction, Working
<1>1. ASSUME NEW c \in Callers, FenceStep(c) PROVE \A d \in Callers : Spans(d)'
  <2>1. \A d \in Callers \ {c} : Spans(d)'
    BY <1>0, <1>1, FenceAlone, FenceFrame
  <2>2. Spans(c)'
    <3>0. committed' = committed
      BY <1>1, FenceFrame
    <3> USE <1>0, <3>0 DEF Stages, Staged, Before, Leases, Leased, TypeOK
    <3>1. ASSUME lease' = lease PROVE Spans(c)'
      BY <3>1
    <3>2. ASSUME NEW s \in Stores, Acquire(c, s) \/ AcquireFails(c, s) PROVE Spans(c)'
      <4>1. pc[c] = "acquire" /\ (lease' = [lease EXCEPT ![c][s] = "open"] \/ lease' = lease)
        BY <3>2 DEF Acquire, AcquireFails
      <4> QED
        BY <4>1
    <3>3. ASSUME NEW s \in Stores, Undo(c, s) PROVE Spans(c)'
      BY <3>3 DEF Undo
    <3>4. ASSUME NEW s \in Stores, Confirm(c, s) PROVE Spans(c)'
      <4>1. pc[c] = "finish" /\ (lease' = [lease EXCEPT ![c][s] = "released"] \/ lease' = lease)
        BY <3>4 DEF Confirm
      <4> QED
        BY <4>1
    <3>5. ASSUME NEW v \in Versions, Lock(c, v) PROVE lease' = lease
      BY <3>5 DEF Lock
    <3>6. ASSUME Discover(c) \/ BodyFails(c) \/ CommitFails(c) \/ Crash(c) PROVE lease' = lease
      BY <3>6 DEF Discover, BodyFails, CommitFails, Crash
    <3> QED
      BY <1>1, <3>1, <3>2, <3>3, <3>4, <3>5, <3>6 DEF FenceStep
  <2> QED
    BY <2>1, <2>2
<1>2. ASSUME NEW c \in Callers, Commit(c) PROVE \A d \in Callers : Spans(d)'
  BY <1>0, <1>2, CommitAlone DEF Leases, Leased
<1>3. ASSUME NEW c \in Upgraders, UpgradeStep(c) PROVE \A d \in Callers : Spans(d)'
  BY <1>0, <1>3, UpgradeFrame
<1>4. CASE BesideStep
  BY <1>0, <1>4, BesideFrame
<1>5. CASE RetireStep
  BY <1>0, <1>5, RetireFrame DEF history
<1>6. CASE UNCHANGED vars
  BY <1>0, <1>6 DEF vars, history
<1> QED
  BY <1>1, <1>2, <1>3, <1>4, <1>5, <1>6, Steps

LEMMA ForgottenInit == Init => NoLeaseForgotten
  BY DEF Init, NoLeaseForgotten

LEMMA ForgottenNext ==
    ASSUME TypeOK, Stages, Leases, NoLeaseForgotten, [Next]_vars
    PROVE  NoLeaseForgotten'
<1> DEFINE Ends(d) == pc[d] = "done" /\ ~excused[d] => \A s \in Stores : lease[d][s] # "open"
<1>0. \A d \in Callers : Ends(d)
  BY DEF NoLeaseForgotten
<1> SUFFICES \A d \in Callers : Ends(d)'
  BY DEF NoLeaseForgotten
<1> USE RetirementAssumption DEF InTransaction, Working
<1>1. ASSUME NEW c \in Callers, FenceStep(c) PROVE \A d \in Callers : Ends(d)'
  <2>1. \A d \in Callers \ {c} : Ends(d)'
    BY <1>0, <1>1, FenceAlone
  <2>2. Ends(c)'
    <3> USE <1>0 DEF Leases, Leased, TypeOK
    <3>1. ASSUME NEW v \in Versions, Lock(c, v) PROVE Ends(c)'
      BY <3>1 DEF Lock, Answers, history
    <3>2. ASSUME NEW s \in Stores, Acquire(c, s) \/ AcquireFails(c, s) PROVE Ends(c)'
      BY <3>2 DEF Acquire, AcquireFails
    <3>3. ASSUME NEW s \in Stores, Undo(c, s) PROVE Ends(c)'
      <4>1. CASE excused'[c]
        BY <4>1
      <4>2. CASE /\ lease' = [lease EXCEPT ![c][s] = IF @ = "open" THEN "uncertain" ELSE @]
                 /\ excused' = excused
        <5>1. pc[c] = "undo" /\ pending'[c] = pending[c] \ {s}
          BY <3>3 DEF Undo
        <5>2. pc'[c] = "done" => pending'[c] = {}
          BY <3>3, <5>1 DEF Undo
        <5>3. ~excused[c] => \A t \in Stores \ pending'[c] : lease'[c][t] # "open"
          BY <4>2, <5>1
        <5> QED
          BY <4>2, <5>2, <5>3
      <4> QED
        BY <3>3, <4>1, <4>2 DEF Undo
    <3>4. ASSUME NEW s \in Stores, Confirm(c, s) PROVE Ends(c)'
      <4>1. CASE lease' = [lease EXCEPT ![c][s] = "released"] /\ excused' = excused
        BY <3>4, <4>1 DEF Confirm
      <4>2. CASE excused'[c]
        BY <4>2
      <4> QED
        BY <3>4, <4>1, <4>2 DEF Confirm
    <3>5. ASSUME Discover(c) PROVE Ends(c)'
      BY <3>5 DEF Discover, Answers
    <3>6. ASSUME BodyFails(c) \/ CommitFails(c) \/ Crash(c) PROVE Ends(c)'
      BY <3>6 DEF BodyFails, CommitFails, Crash
    <3> QED
      BY <1>1, <3>1, <3>2, <3>3, <3>4, <3>5, <3>6 DEF FenceStep
  <2> QED
    BY <2>1, <2>2
<1>2. ASSUME NEW c \in Callers, Commit(c) PROVE \A d \in Callers : Ends(d)'
  BY <1>0, <1>2, CommitAlone
<1>3. ASSUME NEW c \in Upgraders, UpgradeStep(c) PROVE \A d \in Callers : Ends(d)'
  BY <1>0, <1>3, UpgradeAlone, UpgradeFrame DEF Leases, Leased, Callers
<1>4. CASE BesideStep
  BY <1>0, <1>4, BesideFrame DEF caller
<1>5. CASE RetireStep
  BY <1>0, <1>5, RetireFrame DEF caller, history
<1>6. CASE UNCHANGED vars
  BY <1>0, <1>6 DEF vars, caller, history
<1> QED
  BY <1>1, <1>2, <1>3, <1>4, <1>5, <1>6, Steps

LEMMA AnswerInit == Init => AnswerExplained
  BY DEF Init, AnswerExplained

LEMMA AnswerNext ==
    ASSUME TypeOK, Stages, Leases, AnswerExplained, [Next]_vars
    PROVE  AnswerExplained'
<1> DEFINE Explained(d) ==
        /\ answer[d] = "refused" /\ committed[d] => missed[d]
        /\ answer[d] = "ok" => committed[d] /\ \A s \in Stores : lease[d][s] = "released"
<1>0. \A d \in Callers : Explained(d)
  BY DEF AnswerExplained
<1> SUFFICES \A d \in Callers : Explained(d)'
  BY DEF AnswerExplained
<1> USE RetirementAssumption DEF InTransaction, Working
<1>1. ASSUME NEW c \in Callers, FenceStep(c) PROVE \A d \in Callers : Explained(d)'
  <2>0. committed' = committed
    BY <1>1, FenceFrame
  <2>1. \A d \in Callers \ {c} : Explained(d)'
    BY <1>0, <1>1, <2>0, FenceAlone
  <2>2. Explained(c)'
    <3> USE <1>0, <2>0 DEF Stages, Staged, Before, Leases, Leased, TypeOK
    <3>1. ASSUME NEW v \in Versions, Lock(c, v) PROVE Explained(c)'
      BY <3>1 DEF Lock, Answers
    <3>2. ASSUME NEW s \in Stores, Acquire(c, s) \/ AcquireFails(c, s) PROVE Explained(c)'
      BY <3>2 DEF Acquire, AcquireFails
    <3>3. ASSUME NEW s \in Stores, Undo(c, s) PROVE Explained(c)'
      BY <3>3 DEF Undo, Answers
    <3>4. ASSUME NEW s \in Stores, Confirm(c, s) PROVE Explained(c)'
      <4>1. pc[c] = "finish" /\ answer[c] = "none" /\ pending'[c] = pending[c] \ {s}
        BY <3>4 DEF Confirm
      <4>2. CASE answer' = answer
        BY <4>1, <4>2
      <4>3. CASE pending'[c] = {} /\ missed'[c] /\ Answers(c, "refused")
        BY <4>3 DEF Answers
      <4>4. CASE pending'[c] = {} /\ ~missed'[c] /\ Answers(c, "ok")
        <5>1. ~missed[c] /\ lease' = [lease EXCEPT ![c][s] = "released"]
          BY <3>4, <4>4 DEF Confirm
        <5>2. \A t \in Stores : t = s \/ lease[c][t] = "released"
          BY <4>1, <4>4, <5>1
        <5>3. \A t \in Stores : lease'[c][t] = "released"
          BY <5>1, <5>2
        <5>4. committed[c] /\ answer'[c] = "ok"
          BY <4>1, <4>4 DEF Answers
        <5> QED
          BY <2>0, <5>3, <5>4
      <4> QED
        BY <3>4, <4>2, <4>3, <4>4 DEF Confirm
    <3>5. ASSUME Discover(c) PROVE Explained(c)'
      BY <3>5 DEF Discover, Answers
    <3>6. ASSUME BodyFails(c) \/ CommitFails(c) \/ Crash(c) PROVE Explained(c)'
      BY <3>6 DEF BodyFails, CommitFails, Crash, Answers
    <3> QED
      BY <1>1, <3>1, <3>2, <3>3, <3>4, <3>5, <3>6 DEF FenceStep
  <2> QED
    BY <2>1, <2>2
<1>2. ASSUME NEW c \in Callers, Commit(c) PROVE \A d \in Callers : Explained(d)'
  BY <1>0, <1>2, CommitAlone DEF Stages, Staged, Before
<1>3. ASSUME NEW c \in Upgraders, UpgradeStep(c) PROVE \A d \in Callers : Explained(d)'
  BY <1>0, <1>3, UpgradeAlone, UpgradeFrame DEF Stages, Staged, Leases, Leased, Callers
<1>4. CASE BesideStep
  BY <1>0, <1>4, BesideFrame DEF caller
<1>5. CASE RetireStep
  BY <1>0, <1>5, RetireFrame DEF caller, history
<1>6. CASE UNCHANGED vars
  BY <1>0, <1>6 DEF vars, caller, history
<1> QED
  BY <1>1, <1>2, <1>3, <1>4, <1>5, <1>6, Steps

-----------------------------------------------------------------------------
(* What is in use                                                          *)

LEMMA ListedInit == Init => Listed
  BY DEF Init, Listed, NoRow

LEMMA ListedNext == ASSUME TypeOK, Stages, Listed, [Next]_vars PROVE Listed'
<1> USE RetirementAssumption
<1>1. ASSUME NEW c \in Callers, FenceStep(c) PROVE Listed'
  BY <1>1, FenceFrame DEF Listed, references
<1>2. ASSUME NEW c \in Callers, Commit(c) PROVE Listed'
  BY <1>2 DEF Commit, Committed, Stages, Staged, Before, InTransaction, TypeOK, Listed
<1>3. ASSUME NEW c \in Upgraders, UpgradeStep(c) PROVE Listed'
  BY <1>3, UpgradeFrame DEF Listed
<1>4. CASE BesideStep
  BY <1>4, BesideFrame DEF Listed
<1>5. CASE RetireStep
  <2>1. UNCHANGED <<rev, uses, committed>>
    BY <1>5, RetireFrame DEF references, history
  <2>2. ASSUME NEW v \in Versions, ListRow(v) PROVE Listed'
    BY <2>1, <2>2 DEF ListRow, Listed
  <2>3. CASE ListTarget \/ RetireCheck \/ RetireDelete
    <3>1. \/ retire' = NoRow
          \/ retire.pc # "idle" /\ \E p \in {"target", "delete"} : retire' = [retire EXCEPT !.pc = p]
      BY <2>3 DEF ListTarget, RetireCheck, RetireDelete
    <3> QED
      BY <2>1, <3>1 DEF Listed, NoRow, TypeOK
  <2> QED
    BY <1>5, <2>2, <2>3 DEF RetireStep
<1>6. CASE UNCHANGED vars
  BY <1>6 DEF vars, references, history, Listed
<1> QED
  BY <1>1, <1>2, <1>3, <1>4, <1>5, <1>6, Steps

LEMMA NamingInit == Init => Naming /\ Snaps
  BY DEF Init, Naming, Snaps, NoCopy, Moving, Callers

\* In the fence nobody begins to move, and nobody's target changes on the way.
LEMMA FenceMoving ==
    ASSUME TypeOK, NEW c \in Callers, FenceStep(c), NEW d \in Callers, pc'[d] \in Moving
    PROVE  pc[d] \in Moving /\ want'[d] = want[d]
<1> USE DEF Moving, TypeOK
<1>1. ASSUME NEW v \in Versions, Lock(c, v) PROVE pc[d] \in Moving /\ want'[d] = want[d]
  BY <1>1 DEF Lock, Answers
<1>2. ASSUME NEW s \in Stores, Acquire(c, s) \/ AcquireFails(c, s) \/ Undo(c, s)
      PROVE  pc[d] \in Moving /\ want'[d] = want[d]
  BY <1>2 DEF Acquire, AcquireFails, Undo, Answers
<1>3. ASSUME NEW s \in Stores, Confirm(c, s) PROVE pc[d] \in Moving /\ want'[d] = want[d]
  BY <1>3 DEF Confirm, Answers
<1>4. ASSUME Discover(c) \/ BodyFails(c) \/ CommitFails(c) \/ Crash(c)
      PROVE  pc[d] \in Moving /\ want'[d] = want[d]
  BY <1>4 DEF Discover, BodyFails, CommitFails, Crash, Answers
<1> QED
  BY <1>1, <1>2, <1>3, <1>4 DEF FenceStep

\* A record that is written exposes whom it leaves without a name.
LEMMA WriteNames ==
    ASSUME TypeOK, Copies, Naming, NEW r \in RecordIds, NEW record, Write(r, record),
           NEW d \in Upgraders \ exposed', pc[d] \in Moving
    PROVE  want[d] \in Active(records'[rec[d]]) /\ d \notin exposed
<1>1. d \notin exposed /\ rec[d] \in RecordIds /\ want[d] \in Active(records[rec[d]])
  BY DEF Write, Naming, Copies, RecordIds, Moving
<1>2. records' = [records EXCEPT ![r] = record]
  BY DEF Write
<1>3. CASE rec[d] = r
  <2>1. want[d] \in Active(record)
    BY <1>1, <1>3 DEF Write
  <2> QED
    BY <1>1, <1>2, <1>3, <2>1 DEF TypeOK
<1>4. CASE rec[d] # r
  BY <1>1, <1>2, <1>4 DEF TypeOK
<1> QED
  BY <1>3, <1>4

LEMMA NamingNext == ASSUME TypeOK, Copies, Stages, Naming, [Next]_vars PROVE Naming'
<1> USE RetirementAssumption
<1>1. ASSUME NEW c \in Callers, FenceStep(c) PROVE Naming'
  BY <1>1, FenceFrame, FenceMoving DEF Naming, references, Callers
<1>2. ASSUME NEW c \in Callers, Commit(c) PROVE Naming'
  <2>1. /\ pc[c] = "inside" /\ want[c] \in Versions /\ UNCHANGED <<want, rec>>
        /\ \A d \in Callers \ {c} : pc'[d] = pc[d]
    BY <1>2, CommitAlone DEF Stages, Staged, InTransaction
  <2>2. CASE c \in Installers
    BY <1>2, <2>1, <2>2 DEF Commit, Committed, Publish, Naming, Callers
  <2>3. CASE c \notin Installers
    <3> DEFINE record == [records[rec[c]] EXCEPT !.status = "upgrading", !.version = want[c]]
    <3>1. c \in Upgraders /\ rec[c] \in RecordIds /\ records[rec[c]] \in Record
      BY <2>1, <2>3 DEF Copies, Callers, RecordIds
    <3>2. Write(rec[c], record)
      BY <1>2, <2>3 DEF Commit, Committed, Publish
    <3>3. want[c] \in Active(record)
      BY <2>1, <3>1 DEF Active, Unfinished, Record
    <3> HIDE DEF record
    <3>4. records'[rec[c]] = record
      BY <3>1, <3>2 DEF Write, TypeOK
    <3>5. ASSUME NEW d \in Upgraders \ exposed', pc'[d] \in Moving
          PROVE  want'[d] \in Active(records'[rec'[d]])
      <4>1. CASE d = c
        BY <2>1, <3>3, <3>4, <4>1
      <4>2. CASE d # c
        BY <2>1, <3>1, <3>2, <3>5, <4>2, WriteNames DEF Callers
      <4> QED
        BY <4>1, <4>2
    <3> QED
      BY <3>5 DEF Naming
  <2> QED
    BY <2>2, <2>3
<1>3. ASSUME NEW c \in Upgraders, UpgradeStep(c) PROVE Naming'
  <2>1. \A d \in Upgraders : pc'[d] \in Moving =>
            pc[d] \in Moving /\ want'[d] = want[d] /\ rec'[d] = rec[d]
    <3>1. \A d \in Upgraders \ {c} : pc'[d] = pc[d] /\ want'[d] = want[d] /\ rec'[d] = rec[d]
      BY <1>3, UpgradeAlone DEF Callers
    <3>2. pc'[c] \in Moving => pc[c] \in Moving /\ want'[c] = want[c]
      BY <1>3, UpgradeAlone DEF Moving
    <3>3. pc'[c] \in Moving => rec'[c] = rec[c]
      <4>1. ASSUME NEW r \in Records, Load(c, r) PROVE pc'[c] \notin Moving
        BY <4>1 DEF Load, TypeOK, Moving, Callers
      <4>2. ASSUME NEW v \in Versions, ReadGroup(c, v) PROVE rec' = rec
        BY <4>2 DEF ReadGroup
      <4>3. ASSUME SyncNewApp(c) \/ SaveApp(c) \/ UpgradeFails(c) \/ Deployed(c) PROVE rec' = rec
        BY <4>3 DEF SyncNewApp, SaveApp, UpgradeFails, Deployed
      <4> QED
        BY <1>3, <4>1, <4>2, <4>3 DEF UpgradeStep
    <3> QED
      BY <3>1, <3>2, <3>3
  <2>2. UNCHANGED <<records, exposed>> \/ \E record : Write(rec[c], record)
    <3>1. ASSUME NEW r \in Records, Load(c, r) PROVE UNCHANGED <<records, exposed>>
      BY <3>1 DEF Load, references
    <3>2. ASSUME NEW v \in Versions, ReadGroup(c, v) PROVE UNCHANGED <<records, exposed>>
      BY <3>2 DEF ReadGroup, references
    <3>3. ASSUME SyncNewApp(c) \/ Deployed(c) PROVE UNCHANGED <<records, exposed>>
      BY <3>3 DEF SyncNewApp, Deployed, references
    <3>4. ASSUME SaveApp(c) PROVE \E record : Write(rec[c], record)
      BY <3>4 DEF SaveApp
    <3>5. ASSUME UpgradeFails(c)
          PROVE  UNCHANGED <<records, exposed>> \/ \E record : Write(rec[c], record)
      BY <3>5 DEF UpgradeFails
    <3> QED
      BY <1>3, <3>1, <3>2, <3>3, <3>4, <3>5 DEF UpgradeStep
  <2>3. CASE UNCHANGED <<records, exposed>>
    BY <2>1, <2>3 DEF Naming
  <2>4. ASSUME NEW record, Write(rec[c], record) PROVE Naming'
    <3>1. CASE rec[c] \in RecordIds
      BY <2>1, <2>4, <3>1, WriteNames DEF Naming
    <3>2. CASE rec[c] \notin RecordIds
      BY <2>1, <2>4, <3>2 DEF Write, TypeOK, Naming
    <3> QED
      BY <3>1, <3>2
  <2> QED
    BY <2>2, <2>3, <2>4
<1>4. CASE BesideStep
  <2>1. UNCHANGED <<pc, want, rec>>
    BY <1>4, BesideFrame DEF caller
  <2>2. ASSUME NEW r \in Records, NEW g \in Groups, CreateRecord(r, g) PROVE Naming'
    <3>1. records[r] \notin Record /\ exposed' = exposed
      BY <2>2 DEF CreateRecord
    <3>2. \A q \in Records : records[q] \in Record => records'[q] = records[q]
      BY <2>2, <3>1 DEF CreateRecord, TypeOK, RecordIds
    <3> QED
      BY <2>1, <3>1, <3>2 DEF Naming, Copies, Moving
  <2>3. ASSUME NEW p \in Syncers, NEW r \in RecordIds, SyncLoad(p, r) PROVE Naming'
    BY <2>1, <2>3 DEF SyncLoad, references, Naming
  <2>4. ASSUME NEW p \in Syncers, PollSave(p) \/ RetrySave(p) PROVE Naming'
    <3>1. aside[p].pc = "sync" /\ \E status : SyncSave(p, status)
      BY <2>4 DEF PollSave, RetrySave
    <3>2. aside[p].rec \in RecordIds
      BY <3>1 DEF Copies
    <3>3. \E record : Write(aside[p].rec, record)
      BY <3>1 DEF SyncSave
    <3> QED
      BY <2>1, <3>2, <3>3, WriteNames DEF Naming
  <2>5. ASSUME NEW p \in Restorers, NEW r \in Records, RestoreLoad(p, r) PROVE Naming'
    BY <2>1, <2>5 DEF RestoreLoad, references, Naming
  <2>6. ASSUME NEW p \in Restorers,
               RestoreSave(p) \/ RestoreRecord(p) \/ RestoreDeployed(p) \/ RestoreFails(p)
        PROVE  Naming'
    <3>1. exposed' = exposed /\ \A q \in Records : records'[q] = records[q]
      BY <2>6 DEF RestoreSave, RestoreRecord, RestoreDeployed, RestoreFails, TypeOK, RecordIds
    <3> QED
      BY <2>1, <3>1 DEF Naming, Copies, Moving
  <2>7. ASSUME NEW g \in Groups, Uninstall(g) PROVE Naming'
    BY <2>1, <2>7 DEF Uninstall, Naming
  <2> QED
    BY <1>4, <2>2, <2>3, <2>4, <2>5, <2>6, <2>7 DEF BesideStep
<1>5. CASE RetireStep
  BY <1>5, RetireFrame DEF Naming, references, caller, history
<1>6. CASE UNCHANGED vars
  BY <1>6 DEF vars, references, caller, history, Naming
<1> QED
  BY <1>1, <1>2, <1>3, <1>4, <1>5, <1>6, Steps

\* Snapshots stay, and a record knows of no other than those that are there.
LEMMA SnapsNext == ASSUME TypeOK, Copies, Snaps, [Next]_vars PROVE Snaps'
<1> USE RetirementAssumption
<1> DEFINE Kept == \A r \in RecordIds : records[r] # None => records[r].snap \in pins \cup {None}
           Held == \A p \in Restorers \cup Syncers : aside[p].pc \in {"sync", "restore", "record"} =>
                      aside[p].held.snap \in pins \cup {None}
<1>0. Kept /\ Held
  BY DEF Snaps
<1>1. ASSUME NEW c \in Callers, FenceStep(c) PROVE Snaps'
  BY <1>1, FenceFrame DEF Snaps, references
<1>2. ASSUME NEW c \in Callers, Commit(c) PROVE Snaps'
  <2>1. pc[c] = "inside" /\ UNCHANGED <<pins, aside>>
    BY <1>2, CommitAlone
  <2>2. CASE c \in Installers
    BY <1>2, <2>1, <2>2 DEF Commit, Committed, Publish, Snaps
  <2>3. CASE c \notin Installers
    <3>1. rec[c] \in RecordIds /\ records[rec[c]] \in Record /\ records[rec[c]] # None
      BY <2>1, <2>3 DEF Copies, Callers, RecordIds
    <3>2. records' = [records EXCEPT ![rec[c]] =
              [records[rec[c]] EXCEPT !.status = "upgrading", !.version = want[c]]]
      BY <1>2, <2>3 DEF Commit, Committed, Publish, Write
    <3>3. [records[rec[c]] EXCEPT !.status = "upgrading", !.version = want[c]].snap
              = records[rec[c]].snap
      BY <3>1 DEF Record
    <3>4. \A r \in RecordIds : records'[r] # None => records'[r].snap \in pins \cup {None}
      BY <1>0, <3>1, <3>2, <3>3 DEF TypeOK
    <3> QED
      BY <1>0, <2>1, <3>4 DEF Snaps
  <2> QED
    BY <2>2, <2>3
<1>3. ASSUME NEW c \in Upgraders, UpgradeStep(c) PROVE Snaps'
  <2>1. aside' = aside
    BY <1>3, UpgradeFrame
  <2>2. ASSUME NEW r \in Records, Load(c, r) PROVE Snaps'
    BY <2>2 DEF Load, references, Snaps, Outside
  <2>3. ASSUME NEW v \in Versions, ReadGroup(c, v) PROVE Snaps'
    BY <2>3 DEF ReadGroup, references, Snaps, Outside
  <2>4. ASSUME SyncNewApp(c) \/ Deployed(c) PROVE Snaps'
    BY <2>1, <2>4 DEF SyncNewApp, Deployed, references, Snaps, Outside
  <2>5. ASSUME SaveApp(c) PROVE Snaps'
    <3>1. PICK snap \in {None, base[c]} :
                /\ pins' = pins \cup ({snap} \ {None})
                /\ Write(rec[c], [records[rec[c]] EXCEPT !.status = "upgrading",
                                            !.version = want[c], !.snap = snap])
      BY <2>5 DEF SaveApp
    <3>2. pc[c] = "save" /\ rec[c] \in RecordIds /\ records[rec[c]] \in Record
      BY <2>5 DEF SaveApp, Copies, RecordIds
    <3> DEFINE record == [records[rec[c]] EXCEPT !.status = "upgrading",
                                            !.version = want[c], !.snap = snap]
    <3>3. record.snap = snap
      BY <3>2 DEF Record
    <3> HIDE DEF record
    <3>4. records' = [records EXCEPT ![rec[c]] = record]
      BY <3>1 DEF record, Write
    <3>5. pins \subseteq pins' /\ snap \in pins' \cup {None}
      BY <3>1
    <3>6. \A r \in RecordIds : records'[r] # None => records'[r].snap \in pins' \cup {None}
      BY <1>0, <3>2, <3>3, <3>4, <3>5 DEF TypeOK
    <3>7. Held'
      BY <1>0, <2>1, <3>5
    <3> QED
      BY <3>6, <3>7 DEF Snaps
  <2>6. ASSUME UpgradeFails(c) PROVE Snaps'
    <3> DEFINE record == [records[rec[c]] EXCEPT !.status = "over", !.version = want[c],
                                                  !.snap = None]
    <3>1. /\ pc[c] # "idle" /\ rec[c] \in RecordIds /\ records[rec[c]] \in Record
          /\ pins' = pins
      BY <2>6 DEF UpgradeFails, Copies, RecordIds
    <3>2. record.snap = None
      BY <3>1 DEF Record
    <3>3. Write(rec[c], record) \/ records' = records
      BY <2>6 DEF UpgradeFails
    <3> HIDE DEF record
    <3>4. Kept'
      BY <1>0, <3>1, <3>2, <3>3 DEF Write, TypeOK
    <3> QED
      BY <1>0, <2>1, <3>1, <3>4 DEF Snaps
  <2> QED
    BY <1>3, <2>2, <2>3, <2>4, <2>5, <2>6 DEF UpgradeStep
<1>4. CASE BesideStep
  <2>1. ASSUME NEW r \in Records, NEW g \in Groups, CreateRecord(r, g) PROVE Snaps'
    BY <1>0, <2>1 DEF CreateRecord, TypeOK, Snaps
  <2>2. ASSUME NEW p \in Syncers, NEW r \in RecordIds, SyncLoad(p, r) PROVE Snaps'
    BY <1>0, <2>2 DEF SyncLoad, references, TypeOK, Snaps
  <2>3. ASSUME NEW p \in Syncers, PollSave(p) \/ RetrySave(p) PROVE Snaps'
    <3>1. PICK status : SyncSave(p, status)
      BY <2>3 DEF PollSave, RetrySave
    <3> DEFINE record == [aside[p].held EXCEPT !.status = status]
    <3>2. /\ aside[p].pc = "sync" /\ aside[p].rec \in RecordIds /\ aside[p].held \in Record
          /\ aside[p].held.snap \in pins \cup {None}
      BY <2>3, <1>0 DEF PollSave, RetrySave, Copies
    <3>3. record.snap = aside[p].held.snap
      BY <3>2 DEF Record
    <3>4. /\ records' = [records EXCEPT ![aside[p].rec] = record] /\ pins' = pins
          /\ aside' = [aside EXCEPT ![p] = Ended] /\ Ended.pc = "done"
      BY <3>1 DEF SyncSave, Write, Ended, NoCopy
    <3> HIDE DEF record
    <3>5. Kept'
      BY <1>0, <3>2, <3>3, <3>4 DEF TypeOK
    <3>6. Held'
      BY <1>0, <3>4 DEF TypeOK
    <3> QED
      BY <3>5, <3>6 DEF Snaps
  <2>4. ASSUME NEW p \in Restorers, NEW r \in Records, RestoreLoad(p, r) PROVE Snaps'
    BY <1>0, <2>4 DEF RestoreLoad, references, TypeOK, Snaps, RecordIds
  <2>5. ASSUME NEW p \in Restorers, RestoreSave(p) PROVE Snaps'
    <3>1. /\ aside[p].pc = "restore" /\ aside' = [aside EXCEPT ![p].pc = "record"]
          /\ UNCHANGED <<records, pins>>
      BY <2>5 DEF RestoreSave
    <3>2. \A q \in Restorers \cup Syncers : aside'[q].pc \in {"sync", "restore", "record"} =>
              aside[q].pc \in {"sync", "restore", "record"} /\ aside'[q].held = aside[q].held
      BY <3>1 DEF TypeOK
    <3> QED
      BY <1>0, <3>1, <3>2 DEF Snaps
  <2>6. ASSUME NEW p \in Restorers, RestoreRecord(p) PROVE Snaps'
    <3> DEFINE record == [aside[p].held EXCEPT !.status = "rolling", !.version = aside[p].held.old,
                                               !.old = aside[p].held.version]
    <3>1. /\ aside[p].pc = "record" /\ aside' = [aside EXCEPT ![p].pc = "deploy"]
          /\ records' = [records EXCEPT ![p] = record] /\ pins' = pins
      BY <2>6 DEF RestoreRecord
    <3>2. record.snap = aside[p].held.snap /\ aside[p].held.snap \in pins \cup {None}
      BY <1>0, <3>1 DEF Copies, Record
    <3> HIDE DEF record
    <3>3. Kept'
      BY <1>0, <3>1, <3>2 DEF TypeOK
    <3>4. \A q \in Restorers \cup Syncers : aside'[q].pc \in {"sync", "restore", "record"} =>
              aside[q].pc \in {"sync", "restore", "record"} /\ aside'[q].held = aside[q].held
      BY <3>1 DEF TypeOK
    <3> QED
      BY <1>0, <3>1, <3>3, <3>4 DEF Snaps
  <2>7. ASSUME NEW p \in Restorers, RestoreDeployed(p) PROVE Snaps'
    BY <1>0, <2>7 DEF RestoreDeployed, TypeOK, Snaps, Ended, NoCopy
  <2>8. ASSUME NEW p \in Restorers, RestoreFails(p) PROVE Snaps'
    <3>1. /\ aside' = [aside EXCEPT ![p] = Ended] /\ Ended.pc = "done" /\ pins' = pins
          /\ records' = IF aside[p].pc = "deploy"
                        THEN [records EXCEPT ![p] = [records[p] EXCEPT !.status = "over"]]
                        ELSE records
      BY <2>8 DEF RestoreFails, Ended, NoCopy
    <3>2. aside[p].pc = "deploy" => records[p] # None /\
              [records[p] EXCEPT !.status = "over"].snap = records[p].snap
      BY DEF Copies, Record
    <3>3. Kept'
      BY <1>0, <3>1, <3>2 DEF TypeOK
    <3>4. Held'
      BY <1>0, <3>1 DEF TypeOK
    <3> QED
      BY <3>3, <3>4 DEF Snaps
  <2>9. ASSUME NEW g \in Groups, Uninstall(g) PROVE Snaps'
    BY <1>0, <2>9 DEF Uninstall, Snaps
  <2> QED
    BY <1>4, <2>1, <2>2, <2>3, <2>4, <2>5, <2>6, <2>7, <2>8, <2>9 DEF BesideStep
<1>5. CASE RetireStep
  BY <1>5, RetireFrame DEF Snaps, references
<1>6. CASE UNCHANGED vars
  BY <1>6 DEF vars, references, Snaps
<1> QED
  BY <1>1, <1>2, <1>3, <1>4, <1>5, <1>6, Steps

\* Where upgrades under way go.
Targets == {want[c] : c \in {u \in Upgraders : pc[u] \in Moving /\ u \notin exposed}}

LEMMA UsedIs == Used = (Bound \cup pins \cup Targets) \ loose
  BY DEF Used, Targets

LEMMA UsedVersions == ASSUME TypeOK, Stages PROVE Used \subseteq Versions
<1>1. Targets \subseteq Versions
  BY DEF Targets, Moving, Stages, Staged, Working, Callers
<1>2. Bound \subseteq Versions /\ pins \subseteq Versions
  BY DEF Bound, TypeOK
<1> QED
  BY <1>1, <1>2, UsedIs

\* The checks of the clean-up see all that is used.
LEMMA UsedSeen == ASSUME Copies, Naming PROVE Used \subseteq Bound \cup pins \cup Named
<1>1. ASSUME NEW c \in Upgraders, pc[c] \in Moving, c \notin exposed PROVE want[c] \in Named
  <2>1. rec[c] \in RecordIds /\ records[rec[c]] # None /\ want[c] \in Active(records[rec[c]])
    BY <1>1, RetirementAssumption DEF Copies, Naming, Moving, RecordIds
  <2> QED
    BY <2>1 DEF Named
<1>2. Targets \subseteq Named
  BY <1>1 DEF Targets
<1> QED
  BY <1>2, UsedIs

\* No step but the commit of the fence takes a version into use.
LEMMA UsedNext ==
    ASSUME TypeOK, Copies, Stages, Snaps, [Next]_vars
    PROVE  \/ Used' \subseteq Used
           \/ \E c \in Callers : Commit(c) /\ Used' \subseteq Used \cup {want[c]}
<1> USE RetirementAssumption
<1> DEFINE Fewer == /\ loose \subseteq loose'
                    /\ Targets' \subseteq Targets /\ Bound' \cup pins' \subseteq Bound \cup pins
<1>a. /\ Used = (Bound \cup pins \cup Targets) \ loose
      /\ Used' = (Bound' \cup pins' \cup Targets') \ loose'
  BY DEF Used, Targets
<1>0. Fewer => Used' \subseteq Used
  BY <1>a
<1>1. ASSUME NEW c \in Callers, FenceStep(c) PROVE Fewer
  <2>1. UNCHANGED <<bind, pins, exposed, loose>>
    BY <1>1, FenceFrame DEF references
  <2>2. Targets' \subseteq Targets
    BY <1>1, <2>1, FenceMoving DEF Targets, Callers
  <2> QED
    BY <2>1, <2>2 DEF Bound
<1>2. ASSUME NEW c \in Callers, Commit(c) PROVE Used' \subseteq Used \cup {want[c]}
  <2>1. /\ \A d \in Callers \ {c} : pc'[d] = pc[d]
        /\ UNCHANGED <<pins, want, loose>>
    BY <1>2, CommitAlone
  <2>2. exposed \subseteq exposed' /\ (bind' = bind \/ bind' = [bind EXCEPT ![c] = want[c]])
    BY <1>2 DEF Commit, Committed, Publish, Write
  <2>3. Targets' \subseteq Targets \cup {want[c]}
    BY <2>1, <2>2 DEF Targets, Callers
  <2>4. Bound' \subseteq Bound \cup {want[c]}
    BY <2>2 DEF Bound, TypeOK
  <2> QED
    BY <1>a, <2>1, <2>3, <2>4
<1>3. ASSUME NEW c \in Upgraders, UpgradeStep(c) PROVE Used' \subseteq Used
  <2>1. \A d \in Upgraders : pc'[d] \in Moving => pc[d] \in Moving /\ want'[d] = want[d]
    BY <1>3, UpgradeAlone DEF Moving, Callers
  <2>2. ASSUME exposed \subseteq exposed' PROVE Targets' \subseteq Targets
    BY <2>1, <2>2 DEF Targets
  <2>3. ASSUME NEW r \in Records, Load(c, r) PROVE Fewer
    BY <2>2, <2>3 DEF Load, references, Bound
  <2>4. ASSUME NEW v \in Versions, ReadGroup(c, v) PROVE Fewer
    BY <2>2, <2>4 DEF ReadGroup, references, Bound
  <2>5. ASSUME SyncNewApp(c) \/ Deployed(c) PROVE Fewer
    BY <2>2, <2>5 DEF SyncNewApp, Deployed, references, Bound
  <2>6. ASSUME UpgradeFails(c) PROVE Fewer
    <3>1. UNCHANGED <<bind, pins, loose>> /\ exposed \subseteq exposed'
      BY <2>6 DEF UpgradeFails, Write
    <3> QED
      BY <2>2, <3>1 DEF Bound
  <2>7. ASSUME SaveApp(c) PROVE Used' \subseteq Used
    <3>1. PICK snap \in {None, base[c]} :
                /\ pins' = pins \cup ({snap} \ {None})
                /\ Write(rec[c], [records[rec[c]] EXCEPT !.status = "upgrading",
                                            !.version = want[c], !.snap = snap])
                /\ loose' = loose \cup ({want[c], snap} \ (Used \cup {None}))
      BY <2>7 DEF SaveApp
    <3>2. Targets' \subseteq Targets
      BY <2>2, <3>1 DEF Write
    <3>3. Bound' \cup pins' \subseteq Bound \cup pins \cup ({want[c], snap} \ {None})
      <4>1. bind' = [bind EXCEPT ![records[rec[c]].group] = want[c]]
        BY <2>7 DEF SaveApp
      <4> QED
        BY <3>1, <4>1 DEF Bound, TypeOK
    <3> QED
      BY <1>a, <3>1, <3>2, <3>3
  <2> QED
    BY <1>0, <1>3, <2>3, <2>4, <2>5, <2>6, <2>7 DEF UpgradeStep
<1>4. ASSUME BesideStep PROVE Fewer
  <2>1. UNCHANGED <<pc, want, loose>>
    BY <1>4, BesideFrame DEF caller
  <2>2. ASSUME exposed \subseteq exposed' PROVE Targets' \subseteq Targets
    BY <2>1, <2>2 DEF Targets
  <2>3. ASSUME NEW r \in Records, NEW g \in Groups, CreateRecord(r, g) PROVE Fewer
    BY <2>1, <2>2, <2>3 DEF CreateRecord, Bound
  <2>4. ASSUME NEW p \in Syncers, NEW r \in RecordIds, SyncLoad(p, r) PROVE Fewer
    BY <2>1, <2>2, <2>4 DEF SyncLoad, references, Bound
  <2>5. ASSUME NEW p \in Syncers, PollSave(p) \/ RetrySave(p) PROVE Fewer
    BY <2>1, <2>2, <2>5 DEF PollSave, RetrySave, SyncSave, Write, Bound
  <2>6. ASSUME NEW p \in Restorers, NEW r \in Records, RestoreLoad(p, r) PROVE Fewer
    BY <2>1, <2>2, <2>6 DEF RestoreLoad, references, Bound
  <2>7. ASSUME NEW p \in Restorers, RestoreSave(p) PROVE Fewer
    <3>1. /\ aside[p].pc = "restore" /\ UNCHANGED <<pins, exposed>>
          /\ bind' = [bind EXCEPT ![aside[p].held.group] = aside[p].held.snap]
      BY <2>7 DEF RestoreSave
    <3>2. aside[p].held.snap \in pins \cup {None}
      BY <3>1 DEF Snaps
    <3>3. Bound' \subseteq Bound \cup pins
      BY <3>1, <3>2 DEF Bound, TypeOK
    <3> QED
      BY <2>1, <2>2, <3>1, <3>3
  <2>8. ASSUME NEW p \in Restorers, RestoreRecord(p) \/ RestoreDeployed(p) \/ RestoreFails(p)
        PROVE  Fewer
    BY <2>1, <2>2, <2>8 DEF RestoreRecord, RestoreDeployed, RestoreFails, Bound
  <2>9. ASSUME NEW g \in Groups, Uninstall(g) PROVE Fewer
    <3>1. Bound' \subseteq Bound /\ UNCHANGED <<pins, exposed>>
      BY <2>9 DEF Uninstall, Bound, TypeOK
    <3> QED
      BY <2>1, <2>2, <3>1
  <2> QED
    BY <1>4, <2>3, <2>4, <2>5, <2>6, <2>7, <2>8, <2>9 DEF BesideStep
<1>5. ASSUME RetireStep PROVE Fewer
  BY <1>5, RetireFrame DEF references, caller, history, Bound, Targets
<1>6. ASSUME UNCHANGED vars PROVE Fewer
  BY <1>6 DEF vars, references, caller, history, Bound, Targets
<1> QED
  BY <1>0, <1>1, <1>2, <1>3, <1>4, <1>5, <1>6, Steps

LEMMA DeletingInit == Init => Deleting
  BY DEF Init, Deleting, NoRow

LEMMA DeletingNext ==
    ASSUME TypeOK, Copies, Stages, Listed, Naming, Snaps, Deleting, [Next]_vars
    PROVE  Deleting'
<1> USE RetirementAssumption
\* While the clean-up deletes, nobody passes the fence and nothing is taken into use.
<1>0. ASSUME UNCHANGED <<retire, alive, rev>>, retire.pc = "delete" => lock' = lock,
             retire.pc = "delete" => Used' \subseteq Used
      PROVE  Deleting'
  BY <1>0 DEF Deleting, Latest
<1>1. ASSUME NEW c \in Callers, FenceStep(c) PROVE Deleting'
  <2>1. UNCHANGED <<retire, alive, rev>>
    BY <1>1, FenceFrame DEF references
  <2>2. retire.pc = "delete" => lock' = lock
    BY <1>1, FenceAlone DEF Deleting
  <2>3. pc'[c] # "finish" \/ pc[c] = "finish"
    BY <1>1, FenceMoving DEF Moving, TypeOK, FenceStep, Lock, Discover, BodyFails, CommitFails,
       Crash, Acquire, AcquireFails, Undo, Confirm, Answers
  <2>4. ~\E d \in Callers : Commit(d)
    <3> SUFFICES ASSUME NEW d \in Callers, Commit(d) PROVE FALSE
      OBVIOUS
    <3>1. pc[d] = "inside" /\ pc'[d] = "finish"
      BY CommitAlone
    <3> QED
      BY <1>1, <3>1, FenceMoving DEF Moving
  <2> QED
    BY <1>0, <2>1, <2>2, <2>4, UsedNext
<1>2. ASSUME NEW c \in Callers, Commit(c) PROVE Deleting'
  BY <1>2, CommitAlone DEF Stages, Staged, InTransaction, Deleting
<1>3. ASSUME NEW c \in Upgraders, UpgradeStep(c) PROVE Deleting'
  <2>1. UNCHANGED <<retire, alive, rev, lock, committed>>
    BY <1>3, UpgradeFrame
  <2>2. ~\E d \in Callers : Commit(d)
    BY <2>1, CommitAlone DEF Stages, Staged, Before, InTransaction
  <2> QED
    BY <1>0, <2>1, <2>2, UsedNext
<1>4. CASE BesideStep
  <2>1. UNCHANGED <<retire, alive, rev, lock, committed>>
    BY <1>4, BesideFrame
  <2>2. ~\E d \in Callers : Commit(d)
    BY <2>1, CommitAlone DEF Stages, Staged, Before, InTransaction
  <2> QED
    BY <1>0, <2>1, <2>2, UsedNext
<1>5. CASE RetireStep
  <2>1. UNCHANGED <<references, caller, history>>
    BY <1>5, RetireFrame
  <2>2. ASSUME NEW v \in Versions, ListRow(v) PROVE Deleting'
    BY <2>2 DEF ListRow, Deleting
  <2>3. CASE ListTarget
    <3>1. retire'.pc # "delete"
      BY <2>3 DEF ListTarget, NoRow, TypeOK
    <3> QED
      BY <3>1 DEF Deleting
  <2>4. CASE RetireCheck
    <3>1. CASE retire' = NoRow
      BY <3>1 DEF Deleting, NoRow
    <3>2. CASE /\ Retirable(retire.v) /\ rev[retire.v] = retire.rev
               /\ retire' = [retire EXCEPT !.pc = "delete"] /\ lock' = Retirer
      <4>1. retire'.v = retire.v /\ retire'.rev = retire.rev /\ alive' = alive /\ rev' = rev
        BY <2>1, <2>4, <3>2 DEF RetireCheck, TypeOK, references
      <4>2. ~Latest(retire.v)'
        BY <3>2, <4>1 DEF Retirable, Latest
      <4>3. retire.v \notin Used
        BY <3>2, UsedSeen DEF Retirable
      <4>4. Used' = Used
        BY <2>1 DEF Used, Bound, references, caller, history
      <4> QED
        BY <3>2, <4>1, <4>2, <4>3, <4>4 DEF Deleting
    <3> QED
      BY <2>4, <3>1, <3>2 DEF RetireCheck
  <2>5. CASE RetireDelete
    BY <2>5 DEF RetireDelete, Deleting, NoRow
  <2> QED
    BY <1>5, <2>2, <2>3, <2>4, <2>5 DEF RetireStep
<1>6. CASE UNCHANGED vars
  BY <1>6 DEF vars, references, caller, history, Deleting, Latest, Used, Bound
<1> QED
  BY <1>1, <1>2, <1>3, <1>4, <1>5, <1>6, Steps

LEMMA StandingInit == ASSUME Init PROVE Standing
<1>1. TypeOK /\ Stages
  BY TypeInit, StagesInit
<1> QED
  BY <1>1, UsedVersions DEF Init, Standing, InTransaction

LEMMA StandingNext ==
    ASSUME TypeOK, Copies, Stages, Listed, Naming, Snaps, Deleting, Standing, [Next]_vars
    PROVE  Standing'
<1> USE RetirementAssumption
<1>1. CASE RetireDelete
  <2>1. UNCHANGED <<references, caller, history>> /\ alive' = alive \ {retire.v}
    BY <1>1 DEF RetireDelete, Untouched
  <2>2. \A c \in Callers : pc[c] \notin InTransaction
    BY <1>1 DEF RetireDelete, Deleting, Stages, Staged
  <2>3. Used' = Used /\ retire.v \notin Used
    BY <1>1, <2>1 DEF RetireDelete, Deleting, Used, Bound, references, caller, history
  <2> QED
    BY <2>1, <2>2, <2>3 DEF Standing, caller
<1>2. CASE ~RetireDelete
  <2>1. alive' = alive
    BY <1>2, Steps, FenceFrame, CommitAlone, UpgradeFrame, BesideFrame
    DEF RetireStep, ListRow, ListTarget, RetireCheck, vars
  <2>2. Used' \subseteq alive
    BY UsedNext, CommitAlone DEF Standing, InTransaction
  <2>3. \A c \in Callers : pc'[c] \in InTransaction => want'[c] \in alive
    <3>1. ASSUME NEW c \in Callers, FenceStep(c), NEW d \in Callers, pc'[d] \in InTransaction
          PROVE  want'[d] \in alive
      <4> USE DEF Standing, InTransaction, TypeOK
      <4>1. CASE d # c
        BY <3>1, <4>1, FenceAlone
      <4>2. ASSUME NEW v \in Versions, Lock(c, v) PROVE want'[d] \in alive
        BY <3>1, <4>2 DEF Lock, Answers
      <4>3. ASSUME NEW s \in Stores, Acquire(c, s) \/ AcquireFails(c, s) \/ Undo(c, s)
            PROVE  want'[d] \in alive
        BY <3>1, <4>3 DEF Acquire, AcquireFails, Undo, Answers
      <4>4. ASSUME NEW s \in Stores, Confirm(c, s) PROVE want'[d] \in alive
        BY <3>1, <4>4 DEF Confirm, Answers
      <4>5. ASSUME Discover(c) \/ BodyFails(c) \/ CommitFails(c) \/ Crash(c)
            PROVE  want'[d] \in alive
        BY <3>1, <4>5 DEF Discover, BodyFails, CommitFails, Crash, Answers
      <4> QED
        BY <3>1, <4>2, <4>3, <4>4, <4>5 DEF FenceStep
    <3>2. ASSUME NEW c \in Callers, Commit(c), NEW d \in Callers, pc'[d] \in InTransaction
          PROVE  want'[d] \in alive
      BY <3>2, CommitAlone DEF Standing, InTransaction
    <3>3. ASSUME NEW c \in Upgraders, UpgradeStep(c), NEW d \in Callers, pc'[d] \in InTransaction
          PROVE  want'[d] \in alive
      BY <3>3, UpgradeAlone DEF Standing, InTransaction
    <3>4. ASSUME BesideStep \/ RetireStep \/ UNCHANGED vars
          PROVE  UNCHANGED <<pc, want>>
      BY <3>4, BesideFrame, RetireFrame DEF vars, caller
    <3> QED
      BY <3>1, <3>2, <3>3, <3>4, Steps DEF Standing
  <2> QED
    BY <2>1, <2>2, <2>3 DEF Standing
<1> QED
  BY <1>1, <1>2

LEMMA LooseInit == Init => LooseExplained
  BY DEF Init, LooseExplained

LEMMA LooseNext ==
    ASSUME TypeOK, Copies, Stages, LooseExplained, [Next]_vars
    PROVE  LooseExplained'
<1> USE RetirementAssumption
<1> DEFINE Through(c) == pc[c] \in {"deploy", "done"}
\* Who is through stays so, with the same target and base.
<1>1. ASSUME NEW c \in Callers, FenceStep(c), NEW d \in Upgraders, Through(d), committed[d]
      PROVE  pc'[d] \in {"deploy", "done"} /\ want'[d] = want[d]
  <2>1. CASE d # c
    BY <1>1, <2>1, FenceAlone DEF Callers
  <2>2. ASSUME NEW v \in Versions, Lock(c, v) PROVE d # c
    BY <1>1, <2>2 DEF Lock
  <2>3. ASSUME NEW s \in Stores, Acquire(c, s) \/ AcquireFails(c, s) \/ Undo(c, s) \/ Confirm(c, s)
        PROVE  d # c
    BY <1>1, <2>3 DEF Acquire, AcquireFails, Undo, Confirm
  <2>4. ASSUME Discover(c) \/ BodyFails(c) \/ CommitFails(c) PROVE d # c
    BY <1>1, <2>4 DEF Discover, BodyFails, CommitFails
  <2>5. ASSUME Crash(c) PROVE pc'[d] \in {"deploy", "done"} /\ want'[d] = want[d]
    BY <1>1, <2>5 DEF Crash, Answers, TypeOK, Callers
  <2> QED
    BY <1>1, <2>1, <2>2, <2>3, <2>4, <2>5 DEF FenceStep
<1>2. ASSUME NEW c \in Upgraders, UpgradeStep(c)
      PROVE  exposed \subseteq exposed' /\ \A d \in Upgraders : Through(d) =>
                 pc'[d] \in {"deploy", "done"} /\ want'[d] = want[d] /\ base'[d] = base[d]
  <2>1. ASSUME NEW r \in Records, Load(c, r) PROVE exposed' = exposed /\ UNCHANGED <<want, base>>
    BY <2>1 DEF Load
  <2>2. ASSUME NEW v \in Versions, ReadGroup(c, v) PROVE exposed' = exposed /\ ~Through(c)
    BY <2>2 DEF ReadGroup
  <2>3. ASSUME SyncNewApp(c) \/ Deployed(c) PROVE exposed' = exposed /\ UNCHANGED <<want, base>>
    BY <2>3 DEF SyncNewApp, Deployed
  <2>4. ASSUME SaveApp(c) PROVE exposed \subseteq exposed' /\ UNCHANGED <<want, base>>
    BY <2>4 DEF SaveApp, Write
  <2>5. ASSUME UpgradeFails(c) PROVE exposed \subseteq exposed' /\ UNCHANGED <<want, base>>
    BY <2>5 DEF UpgradeFails, Write
  <2>6. Through(c) => pc'[c] \in {"deploy", "done"}
    BY <1>2, UpgradeAlone
  <2>7. \A d \in Callers \ {c} : pc'[d] = pc[d] /\ want'[d] = want[d] /\ base'[d] = base[d]
    BY <1>2, UpgradeAlone
  <2>8. exposed \subseteq exposed' /\ (Through(c) => want'[c] = want[c] /\ base'[c] = base[c])
    BY <1>2, <2>1, <2>2, <2>3, <2>4, <2>5 DEF UpgradeStep
  <2> QED
    BY <2>6, <2>7, <2>8 DEF Callers
<1>3. ASSUME NEW c \in Upgraders, SaveApp(c), NEW v \in loose' \ loose
      PROVE  TookUp(c, v)'
  <2>1. pc[c] = "save" /\ pc'[c] = "deploy" /\ UNCHANGED <<want, base, committed>>
    BY <1>3 DEF SaveApp, Outside, TypeOK, Callers
  <2>2. committed[c] /\ want[c] \in Versions
    BY <2>1 DEF Stages, Staged, Working, Callers
  <2>3. PICK snap \in {None, base[c]} :
              /\ Write(rec[c], [records[rec[c]] EXCEPT !.status = "upgrading",
                                          !.version = want[c], !.snap = snap])
              /\ loose' = loose \cup ({want[c], snap} \ (Used \cup {None}))
    BY <1>3 DEF SaveApp
  <2>4. exposed \subseteq exposed' /\ v \in {want[c], base[c]} /\ v \notin Used
    BY <1>3, <2>3 DEF Write
  <2>5. v = want[c] => c \in exposed
    BY <1>3, <2>1, <2>4 DEF Used, Moving
  <2> QED
    BY <2>1, <2>2, <2>4, <2>5 DEF TookUp
<1>4. ASSUME NEW v \in loose' \ loose PROVE \E c \in Upgraders : SaveApp(c)
  <2>1. ASSUME NEW c \in Upgraders, UpgradeStep(c), ~SaveApp(c) PROVE FALSE
    <3>1. ASSUME NEW r \in Records, Load(c, r) PROVE loose' = loose
      BY <3>1 DEF Load
    <3>2. ASSUME NEW w \in Versions, ReadGroup(c, w) PROVE loose' = loose
      BY <3>2 DEF ReadGroup
    <3>3. ASSUME SyncNewApp(c) \/ UpgradeFails(c) \/ Deployed(c) PROVE loose' = loose
      BY <3>3 DEF SyncNewApp, UpgradeFails, Deployed
    <3> QED
      BY <1>4, <2>1, <3>1, <3>2, <3>3 DEF UpgradeStep
  <2> QED
    BY <1>4, <2>1, Steps, FenceFrame, CommitAlone, BesideFrame, RetireFrame DEF vars, history
<1>5. ASSUME NEW d \in Upgraders, NEW v \in loose, TookUp(d, v) PROVE TookUp(d, v)'
  <2> USE <1>5
  <2>1. ASSUME exposed \subseteq exposed', pc'[d] \in {"deploy", "done"}, want'[d] = want[d],
               base'[d] = base[d], committed'[d]
        PROVE  TookUp(d, v)'
    BY <2>1 DEF TookUp
  <2>2. Through(d) /\ committed[d] /\ d \in Callers
    BY DEF TookUp, Callers
  <2>3. ASSUME NEW c \in Callers, FenceStep(c) PROVE TookUp(d, v)'
    BY <1>1, <2>1, <2>2, <2>3, FenceFrame
  <2>4. ASSUME NEW c \in Callers, Commit(c) PROVE TookUp(d, v)'
    <3>1. exposed \subseteq exposed'
      BY <2>4 DEF Commit, Committed, Publish, Write
    <3>2. d # c
      BY <2>2, <2>4, CommitAlone
    <3> QED
      BY <2>1, <2>2, <2>4, <3>1, <3>2, CommitAlone
  <2>5. ASSUME NEW c \in Upgraders, UpgradeStep(c) PROVE TookUp(d, v)'
    BY <1>2, <2>1, <2>2, <2>5, UpgradeFrame
  <2>6. CASE BesideStep
    <3>1. exposed \subseteq exposed'
      BY <2>6 DEF BesideStep, CreateRecord, SyncLoad, PollSave, RetrySave, SyncSave, Write,
         RestoreLoad, RestoreSave, RestoreRecord, RestoreDeployed, RestoreFails, Uninstall
    <3> QED
      BY <2>1, <2>2, <2>6, <3>1, BesideFrame DEF caller
  <2>7. CASE RetireStep
    BY <2>1, <2>2, <2>7, RetireFrame DEF caller, history
  <2>8. CASE UNCHANGED vars
    BY <2>1, <2>2, <2>8 DEF vars, caller, history
  <2> QED
    BY <2>3, <2>4, <2>5, <2>6, <2>7, <2>8, Steps
<1>6. ASSUME NEW v \in loose' PROVE \E c \in Upgraders : TookUp(c, v)'
  <2>1. CASE v \in loose
    BY <1>5, <2>1 DEF LooseExplained
  <2>2. CASE v \notin loose
    BY <1>3, <1>4, <1>6, <2>2
  <2> QED
    BY <2>1, <2>2
<1> QED
  BY <1>6 DEF LooseExplained

-----------------------------------------------------------------------------
(* The invariant and what follows from it                                  *)

IInv == /\ TypeOK /\ Copies /\ Stages /\ Leases
        /\ LeasesSpanCommit /\ NoLeaseForgotten /\ AnswerExplained
        /\ Listed /\ Naming /\ Snaps /\ Deleting /\ Standing /\ LooseExplained

LEMMA Invariant == Spec => []IInv
<1>1. Init => IInv
  BY TypeInit, StagesInit, LeasesInit, SpanInit, ForgottenInit, AnswerInit, ListedInit,
     NamingInit, DeletingInit, StandingInit, LooseInit DEF IInv
<1>2. IInv /\ [Next]_vars => IInv'
  <2> SUFFICES ASSUME IInv, [Next]_vars PROVE IInv'
    OBVIOUS
  <2> USE DEF IInv
  <2>1. TypeOK' /\ Copies' /\ Stages'
    BY TypeNext, StagesNext
  <2>2. Leases' /\ LeasesSpanCommit' /\ NoLeaseForgotten' /\ AnswerExplained'
    BY LeasesNext, SpanNext, ForgottenNext, AnswerNext
  <2>3. Listed' /\ Naming' /\ Snaps'
    BY ListedNext, NamingNext, SnapsNext
  <2>4. Deleting' /\ Standing' /\ LooseExplained'
    BY DeletingNext, StandingNext, LooseNext
  <2> QED
    BY <2>1, <2>2, <2>3, <2>4
<1> QED
  BY <1>1, <1>2, PTL DEF Spec

\* The variables keep the shapes the tables, the region and the handlers give them
\* (the tables of TenantServiceGroup and AppUpgradeRecord, cleanup_coordination.py).
THEOREM TypeCorrect == Spec => []TypeOK
<1>1. IInv => TypeOK
  BY DEF IInv
<1> QED
  BY <1>1, Invariant, PTL

\* No lease ends before the reference it protects is committed, and none is
\* missing while a committed one is reported (protect_references).
THEOREM LeasesSpanCommitCorrect == Spec => []LeasesSpanCommit
<1>1. IInv => LeasesSpanCommit
  BY DEF IInv
<1> QED
  BY <1>1, Invariant, PTL

\* A lease that was granted is ended or known as uncertain when its caller is
\* through, unless a message, the commit or the worker was lost (finish).
THEOREM NoLeaseForgottenCorrect == Spec => []NoLeaseForgotten
<1>1. IInv => NoLeaseForgotten
  BY DEF IInv
<1> QED
  BY <1>1, Invariant, PTL

\* A caller is refused what is committed only when the end of a lease was not
\* acknowledged, and a caller that succeeds leaves no lease (the 409 answers of
\* market_app_service.py and app_upgrade.py).
THEOREM AnswerExplainedCorrect == Spec => []AnswerExplained
<1>1. IInv => AnswerExplained
  BY DEF IInv
<1> QED
  BY <1>1, Invariant, PTL

\* Clean-up never deletes a version whose fence was passed after it was listed
\* (validate_template_retirement).
THEOREM NoUseOverlookedCorrect == Spec => []NoUseOverlooked
<1>1. IInv => NoUseOverlooked
  BY DEF IInv, Listed, Deleting, NoUseOverlooked
<1> QED
  BY <1>1, Invariant, PTL

\* The fence and the clean-up keep the promise of TemplateFence: nobody begins to
\* use a retired version, and no version in use is retired (lock_template_use,
\* retire_template).
THEOREM Refinement == Spec => KeepsFence
<1>1. Init => Fence!Init
  <2> SUFFICES ASSUME Init PROVE Fence!Init
    OBVIOUS
  <2>1. Used \subseteq Versions
    BY TypeInit, StagesInit, UsedVersions
  <2> QED
    BY <2>1 DEF Init, Fence!Init
<1>2. IInv /\ IInv' /\ [Next]_vars => [Fence!Next]_Fence!vars
  <2> SUFFICES ASSUME IInv, IInv', [Next]_vars PROVE [Fence!Next]_Fence!vars
    OBVIOUS
  <2>0. Used \subseteq Versions /\ Used' \subseteq Versions /\ Used \subseteq alive
    <3>1. Used' \subseteq Versions
      BY DEF IInv, Standing, TypeOK
    <3> QED
      BY <3>1, UsedVersions DEF IInv, Standing
  <2>1. CASE RetireDelete
    <3>1. /\ alive' = alive \ {retire.v} /\ retire.v \in Versions /\ retire.v \notin Used
          /\ ~Latest(retire.v) /\ UNCHANGED <<references, caller, history>>
      BY <2>1 DEF RetireDelete, Untouched, IInv, Deleting, Listed
    <3>2. Used' = Used
      BY <3>1 DEF Used, Bound, references, caller, history
    <3>3. \E w \in alive : w > retire.v
      <4>1. alive \subseteq Nat /\ retire.v \in Nat
        BY <3>1, RetirementAssumption DEF IInv, TypeOK
      <4> QED
        BY <3>1, <4>1 DEF Latest
    <3>4. Fence!Retire(retire.v)
      BY <3>1, <3>2, <3>3 DEF Fence!Retire
    <3> QED
      BY <3>1, <3>4 DEF Fence!Next
  <2>2. CASE ~RetireDelete
    <3>1. alive' = alive
      BY <2>2, Steps, FenceFrame, CommitAlone, UpgradeFrame, BesideFrame
      DEF IInv, RetireStep, ListRow, ListTarget, RetireCheck, vars
    <3>2. Used' \ Used \subseteq alive
      BY UsedNext, CommitAlone DEF IInv, Standing, InTransaction
    <3> QED
      BY <2>0, <3>1, <3>2 DEF Fence!Next, Fence!Move
  <2> QED
    BY <2>1, <2>2
<1> QED
  BY <1>1, <1>2, Invariant, PTL DEF Spec, KeepsFence, Fence!Spec

-----------------------------------------------------------------------------
(***************************************************************************)
(* What applications and snapshots may be bound to                         *)
(***************************************************************************)

\* A version that an application or a snapshot is bound to is there, unless an
\* upgrade took it up again: its target although its record had stopped naming it,
\* or the version the application had when it was read.
BoundUnlessTakenUp ==
    \A v \in Bound \cup pins : v \in alive \/ \E c \in Upgraders : TookUp(c, v)

\* An application or a snapshot is bound to a retired version only when an upgrade that
\* had passed the fence was bound for that version and its record had been written by
\* somebody else on the way (exposed), or had read its application when that was bound to
\* the version; the one binds the application, the other makes the snapshot, in the
\* transaction of app_upgrade.py:468.  Where no upgrade came that far nothing is bound to
\* a retired version.
THEOREM BoundUnlessTakenUpCorrect == Spec => []BoundUnlessTakenUp
<1>1. IInv => BoundUnlessTakenUp
  <2> SUFFICES ASSUME IInv, NEW v \in Bound \cup pins
               PROVE  v \in alive \/ \E c \in Upgraders : TookUp(c, v)
    BY DEF BoundUnlessTakenUp
  <2>1. v \in Used \/ v \in loose
    BY DEF Used
  <2> QED
    BY <2>1 DEF IInv, Standing, LooseExplained
<1> QED
  BY <1>1, Invariant, PTL
===============================================================================
