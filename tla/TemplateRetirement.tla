-------------------------- MODULE TemplateRetirement --------------------------
(***************************************************************************)
(* The retirement of template versions and the fence that keeps it away    *)
(* from installations and upgrades (console/services/cleanup_retirement.py *)
(* and cleanup_coordination.py).                                           *)
(*                                                                         *)
(* A caller installs a version of a template or upgrades an application to *)
(* it.  It locks the rows of the template, asks the storages of the region *)
(* for a lease each, publishes its reference in the same transaction and   *)
(* ends the leases once that is committed.  Clean-up lists versions nobody *)
(* refers to and retires one of them later, in a transaction that takes    *)
(* the same lock and checks again.                                         *)
(*                                                                         *)
(* One template stands for all: the lock, the revisions and the references *)
(* are those of one parent row.  A transaction shows its writes when it    *)
(* commits.  The scopes of a template are one lease per storage, and the   *)
(* signatures, fingerprints and identities of the commands are left out.   *)
(* The region answers, answers too late, or never gets the request.        *)
(***************************************************************************)
EXTENDS Naturals, FiniteSets

CONSTANTS
    Installers,     \* requests that install a version
    Upgraders,      \* requests that upgrade an installed application
    Restorers,      \* requests that restore one from the snapshot of an upgrade
    Syncers,        \* requests that poll a record or deploy its components again
    Apps,           \* applications installed before
    Records,        \* IDs of upgrade records
    Versions,       \* IDs of the versions: the newest is the largest
    Stores,         \* storages of the region
    Retirer,        \* the clean-up, as the holder of the lock
    None,
    MaxRequests,    \* bound: installations, upgrades and restores that begin
    MaxFaults       \* bound: calls that fail, answers that are lost, workers that die

Callers == Installers \cup Upgraders

\* An installation makes a group of its own, a restore a record.
Groups == Apps \cup Installers
RecordIds == Records \cup Restorers

\* Statuses 0, 1, 2 and 4 of a record are "new", "upgrading" and "rolling".
Unfinished == {"new", "upgrading", "rolling"}

Record == [group   : Groups,
           status  : Unfinished \cup {"over"},
           version : Versions \cup {None},
           old     : Versions \cup {None},
           snap    : Versions \cup {None}]

ASSUME RetirementAssumption ==
    /\ Versions \subseteq Nat
    /\ None \notin Versions \cup Callers \cup RecordIds \cup Record
    /\ Installers \cap (Upgraders \cup Apps) = {}
    /\ Records \cap Restorers = {}
    /\ Syncers \cap Restorers = {}
    /\ Retirer \notin Callers \cup {None}
    /\ IsFiniteSet(Stores) /\ Stores # {}
    /\ MaxRequests \in Nat /\ MaxFaults \in Nat

VARIABLES
    alive,      \* the rows of the versions
    rev,        \* cleanup_activation_revision of each: who passed the fence last
    bind,       \* the version each group is bound to, None when there is no group
    records,    \* the upgrade and rollback records
    pins,       \* the versions snapshots are bound to
    rows,       \* the records that have component records
    lock,       \* who holds the rows of the template
    pc, want,   \* where each caller is, and the version it wants
    rec,        \* the record an upgrade has loaded
    base,       \* the version its copy of the group is bound to
    pending,    \* the storages it still has to ask, or to tell
    missed,     \* an end of its lease was not acknowledged
    answer,     \* what it answered
    aside,      \* the requests that do not pass the fence, with their copy of a record
    lease,      \* at the region: the lease of each caller in each storage
    retire,     \* the clean-up: its position and the row it works on
    faults,
    uses,       \* history: how often the fence of a version was passed
    committed,  \* history: the caller's reference was committed
    excused,    \* history: a lease of the caller may stay open
    exposed,    \* history: upgrades whose record stopped naming where they go
    loose       \* history: versions taken up again after their last user

references == <<rev, bind, records, pins, rows>>
caller == <<pc, want, rec, base, pending, missed, answer>>
history == <<uses, committed, excused, exposed, loose>>
vars == <<alive, references, lock, caller, aside, lease, retire, faults, history>>

NoRow == [pc |-> "idle", v |-> None, rev |-> None, uses |-> 0]
NoCopy == [pc |-> "idle", rec |-> None, held |-> None]
Ended == [NoCopy EXCEPT !.pc = "done"]

InTransaction == {"discover", "acquire", "inside", "undo"}
Working == {"finish", "work", "save", "deploy"}

\* An upgrade that has published its reference and not moved its group yet.
Moving == {"finish", "work", "save"}

TypeOK ==
    /\ alive \subseteq Versions
    /\ rev \in [Versions -> Callers \cup {None}]
    /\ bind \in [Groups -> Versions \cup {None}]
    /\ records \in [RecordIds -> Record \cup {None}]
    /\ pins \subseteq Versions
    /\ rows \subseteq RecordIds
    /\ lock \in Callers \cup {Retirer, None}
    /\ pc \in [Callers -> {"idle", "loaded", "ready", "done"} \cup InTransaction \cup Working]
    /\ want \in [Callers -> Versions \cup {None}]
    /\ rec \in [Callers -> RecordIds \cup {None}]
    /\ base \in [Callers -> Versions \cup {None}]
    /\ pending \in [Callers -> SUBSET Stores]
    /\ missed \in [Callers -> BOOLEAN]
    /\ answer \in [Callers -> {"none", "ok", "refused", "failed"}]
    /\ aside \in [Restorers \cup Syncers ->
                    [pc : {"idle", "sync", "restore", "record", "deploy", "done"},
                     rec : RecordIds \cup {None}, held : Record \cup {None}]]
    /\ lease \in [Callers -> [Stores -> {"absent", "open", "uncertain", "released"}]]
    /\ retire \in [pc : {"idle", "row", "target", "delete"}, v : Versions \cup {None},
                   rev : Callers \cup {None}, uses : Nat]
    /\ faults \in 0 .. MaxFaults
    /\ uses \in [Versions -> Nat]
    /\ committed \in [Callers -> BOOLEAN]
    /\ excused \in [Callers -> BOOLEAN]
    /\ exposed \subseteq Upgraders
    /\ loose \subseteq Versions
    /\ \A p \in Restorers : aside[p].pc \in {"restore", "record"} => aside[p].held.snap # None

Init ==
    /\ alive = Versions
    /\ rev = [v \in Versions |-> None]
    /\ bind \in [Groups -> Versions \cup {None}]
    /\ \A g \in Groups : bind[g] = None <=> g \in Installers
    /\ records = [r \in RecordIds |-> None]
    /\ pins = {} /\ rows = {}
    /\ lock = None
    /\ pc = [c \in Callers |-> "idle"] /\ want = [c \in Callers |-> None]
    /\ rec = [c \in Callers |-> None] /\ base = [c \in Callers |-> None]
    /\ pending = [c \in Callers |-> {}]
    /\ missed = [c \in Callers |-> FALSE] /\ answer = [c \in Callers |-> "none"]
    /\ aside = [p \in Restorers \cup Syncers |-> NoCopy]
    /\ lease = [c \in Callers |-> [s \in Stores |-> "absent"]]
    /\ retire = NoRow
    /\ faults = 0
    /\ uses = [v \in Versions |-> 0]
    /\ committed = [c \in Callers |-> FALSE] /\ excused = [c \in Callers |-> FALSE]
    /\ exposed = {} /\ loose = {}

-----------------------------------------------------------------------------
(* References.                                                             *)

\* The versions a record refers to while it is unfinished.
Active(record) ==
    IF record.status \in Unfinished THEN {record.version, record.old} \ {None} ELSE {}

Named == UNION {Active(records[r]) : r \in {q \in RecordIds : records[q] # None}}

Bound == {bind[g] : g \in Groups} \ {None}

\* What is in use: the versions of the groups and of the snapshots, and those the
\* upgrades under way move to.
Used ==
    (Bound \cup pins \cup
     {want[c] : c \in {u \in Upgraders : pc[u] \in Moving /\ u \notin exposed}}) \ loose

\* A record is written; upgrades that rest on it may find that it no longer names
\* the version they move to.
Write(r, record) ==
    /\ records' = [records EXCEPT ![r] = record]
    /\ exposed' = exposed \cup
          {c \in Upgraders : rec[c] = r /\ pc[c] \in Moving /\ want[c] \notin Active(record)}

-----------------------------------------------------------------------------
(* What a request does in the end, and the faults it meets.                *)

Answers(c, a) ==
    /\ pc' = [pc EXCEPT ![c] = "done"]
    /\ answer' = [answer EXCEPT ![c] = a]

Unlock(c) == lock' = IF lock = c THEN None ELSE lock

\* One more request may begin.
Room ==
    Cardinality({c \in Callers : pc[c] # "idle"})
        + Cardinality({p \in Restorers : aside[p].pc # "idle"}) < MaxRequests

Fault == faults < MaxFaults /\ faults' = faults + 1

-----------------------------------------------------------------------------
(* The fence: lock_template_use and protect_references.                    *)

\* The rows of the template are locked before anything else is looked at; a
\* version whose row is gone is a RetirementConflict.
Lock(c, v) ==
    /\ lock = None
    /\ \/ c \in Installers /\ pc[c] = "idle" /\ Room
       \/ c \in Upgraders /\ pc[c] = "ready" /\ v = want[c]
    /\ want' = [want EXCEPT ![c] = v]
    /\ IF v \in alive
       THEN /\ lock' = c
            /\ pc' = [pc EXCEPT ![c] = "discover"]
            /\ UNCHANGED answer
       ELSE Answers(c, "refused") /\ UNCHANGED lock
    /\ UNCHANGED <<alive, references, rec, base, pending, missed, aside, lease, retire,
                   faults, history>>

\* The stores are asked for outside the try block: a failure ends nothing.
Discover(c) ==
    /\ pc[c] = "discover"
    /\ \/ /\ pc' = [pc EXCEPT ![c] = "acquire"]
          /\ pending' = [pending EXCEPT ![c] = Stores]
          /\ UNCHANGED <<lock, answer, faults>>
       \/ Fault /\ Answers(c, "refused") /\ Unlock(c) /\ UNCHANGED pending
    /\ UNCHANGED <<alive, references, want, rec, base, missed, aside, lease, retire, history>>

Acquire(c, s) ==
    /\ pc[c] = "acquire" /\ s \in pending[c]
    /\ lease' = [lease EXCEPT ![c][s] = "open"]
    /\ pending' = [pending EXCEPT ![c] = @ \ {s}]
    /\ pc' = [pc EXCEPT ![c] = IF pending'[c] = {} THEN "inside" ELSE "acquire"]
    /\ UNCHANGED <<alive, references, lock, want, rec, base, missed, answer, aside, retire,
                   faults, history>>

\* A mutant of AcquireFails: the operation is remembered once it is admitted.
AcquireFailsForgets(c, s) ==
    /\ pc[c] = "acquire" /\ s \in pending[c] /\ pending[c] # Stores
    /\ Fault
    /\ \/ lease' = [lease EXCEPT ![c][s] = "open"]
       \/ UNCHANGED lease
    /\ pending' = [pending EXCEPT ![c] = Stores \ @]
    /\ pc' = [pc EXCEPT ![c] = "undo"]
    /\ UNCHANGED <<alive, references, lock, want, rec, base, missed, answer, aside, retire,
                   history>>

\* Admission was refused or not confirmed, and the region may have admitted the
\* operation all the same.  Every operation that was sent, this one included, is
\* told that it did not succeed.
AcquireFails(c, s) ==
    /\ pc[c] = "acquire" /\ s \in pending[c]
    /\ Fault
    /\ \/ lease' = [lease EXCEPT ![c][s] = "open"]
       \/ UNCHANGED lease
    /\ pending' = [pending EXCEPT ![c] = (Stores \ @) \cup {s}]
    /\ pc' = [pc EXCEPT ![c] = "undo"]
    /\ UNCHANGED <<alive, references, lock, want, rec, base, missed, answer, aside, retire,
                   history>>

\* The body of the fence raises: the database, or before_upgrade refuses.
BodyFails(c) ==
    /\ pc[c] = "inside"
    /\ Fault
    /\ pc' = [pc EXCEPT ![c] = "undo"]
    /\ pending' = [pending EXCEPT ![c] = Stores]
    /\ UNCHANGED <<alive, references, lock, want, rec, base, missed, answer, aside, lease,
                   retire, history>>

\* A mutant of Undo: what failed is reported as done.
UndoConfirmed(c, s) ==
    /\ pc[c] = "undo" /\ s \in pending[c]
    /\ \/ /\ lease' = [lease EXCEPT ![c][s] = IF @ = "open" THEN "released" ELSE @]
          /\ UNCHANGED <<faults, excused>>
       \/ Fault /\ excused' = [excused EXCEPT ![c] = TRUE] /\ UNCHANGED lease
    /\ pending' = [pending EXCEPT ![c] = @ \ {s}]
    /\ IF pending'[c] = {}
       THEN Answers(c, "refused") /\ Unlock(c)
       ELSE UNCHANGED <<pc, answer, lock>>
    /\ UNCHANGED <<alive, references, want, rec, base, missed, aside, retire, uses,
                   committed, exposed, loose>>

\* finish(False): the region keeps the operation as uncertain.  Answers do not
\* matter.  After the last one the transaction is rolled back.
Undo(c, s) ==
    /\ pc[c] = "undo" /\ s \in pending[c]
    /\ \/ /\ lease' = [lease EXCEPT ![c][s] = IF @ = "open" THEN "uncertain" ELSE @]
          /\ UNCHANGED <<faults, excused>>
       \/ Fault /\ excused' = [excused EXCEPT ![c] = TRUE] /\ UNCHANGED lease
    /\ pending' = [pending EXCEPT ![c] = @ \ {s}]
    /\ IF pending'[c] = {}
       THEN Answers(c, "refused") /\ Unlock(c)
       ELSE UNCHANGED <<pc, answer, lock>>
    /\ UNCHANGED <<alive, references, want, rec, base, missed, aside, retire, uses,
                   committed, exposed, loose>>

\* What the transaction refers to the version with: the group of an installation,
\* or the two columns of an upgrade's record, whoever wrote them last.
Publish(c) ==
    IF c \in Installers
    THEN bind' = [bind EXCEPT ![c] = want[c]] /\ UNCHANGED <<records, exposed>>
    ELSE /\ Write(rec[c], [records[rec[c]] EXCEPT !.status = "upgrading",
                                                !.version = want[c]])
         /\ UNCHANGED bind

Committed(c) ==
    /\ pc[c] = "inside"
    /\ Publish(c)
    /\ uses' = [uses EXCEPT ![want[c]] = @ + 1]
    /\ committed' = [committed EXCEPT ![c] = TRUE]
    /\ Unlock(c)
    /\ pc' = [pc EXCEPT ![c] = "finish"]
    /\ pending' = [pending EXCEPT ![c] = Stores]
    /\ UNCHANGED <<alive, pins, rows, want, rec, base, missed, answer, aside, lease, retire,
                   faults, excused, loose>>

\* A mutant of Commit: the fence does not mark the version as activated.
CommitUnmarked(c) == Committed(c) /\ UNCHANGED rev

\* The transaction is committed: the revision of the version is new, and so is
\* the reference to it.  Only now the operations may end.
Commit(c) == Committed(c) /\ rev' = [rev EXCEPT ![want[c]] = c]

\* The outermost transaction is rolled back after the fence was left: what was to
\* run on commit never runs.
CommitFails(c) ==
    /\ pc[c] = "inside"
    /\ Fault
    /\ Answers(c, "refused")
    /\ Unlock(c)
    /\ excused' = [excused EXCEPT ![c] = TRUE]
    /\ UNCHANGED <<alive, references, want, rec, base, pending, missed, aside, lease, retire,
                   uses, committed, exposed, loose>>

\* A mutant of Confirm: an end that is not acknowledged is overlooked.
ConfirmOverlooks(c, s) ==
    /\ pc[c] = "finish" /\ s \in pending[c]
    /\ \/ /\ lease' = [lease EXCEPT ![c][s] = "released"]
          /\ UNCHANGED <<faults, excused>>
       \/ Fault /\ excused' = [excused EXCEPT ![c] = TRUE] /\ UNCHANGED lease
    /\ pending' = [pending EXCEPT ![c] = @ \ {s}]
    /\ IF pending'[c] # {} THEN UNCHANGED <<pc, answer>>
       ELSE IF c \in Installers
            THEN Answers(c, "ok")
            ELSE pc' = [pc EXCEPT ![c] = "work"] /\ UNCHANGED answer
    /\ UNCHANGED <<alive, references, lock, want, rec, base, missed, aside, retire, uses,
                   committed, exposed, loose>>

\* finish(True), one storage after the other.  When one does not acknowledge it
\* the request is refused, although it is committed.
Confirm(c, s) ==
    /\ pc[c] = "finish" /\ s \in pending[c]
    /\ \/ /\ lease' = [lease EXCEPT ![c][s] = "released"]
          /\ UNCHANGED <<faults, missed, excused>>
       \/ /\ Fault
          /\ lease' = [lease EXCEPT ![c][s] = "released"] \/ UNCHANGED lease
          /\ missed' = [missed EXCEPT ![c] = TRUE]
          /\ excused' = [excused EXCEPT ![c] = TRUE]
    /\ pending' = [pending EXCEPT ![c] = @ \ {s}]
    /\ IF pending'[c] # {} THEN UNCHANGED <<pc, answer>>
       ELSE IF missed'[c] THEN Answers(c, "refused")
       ELSE IF c \in Installers THEN Answers(c, "ok")
       ELSE pc' = [pc EXCEPT ![c] = "work"] /\ UNCHANGED answer
    /\ UNCHANGED <<alive, references, lock, want, rec, base, aside, retire, uses, committed,
                   exposed, loose>>

\* The worker dies: its transaction is rolled back, and nobody else goes on.
Crash(c) ==
    /\ pc[c] \notin {"idle", "done"}
    /\ Fault
    /\ Answers(c, "failed")
    /\ Unlock(c)
    /\ excused' = [excused EXCEPT ![c] = TRUE]
    /\ UNCHANGED <<alive, references, want, rec, base, pending, missed, aside, lease, retire,
                   uses, committed, exposed, loose>>

-----------------------------------------------------------------------------
(* Upgrades outside the fence.                                             *)

Outside == UNCHANGED <<alive, rev, lock, pending, missed, lease, retire, uses, committed,
                       excused>>

\* POST upgrade-records, whatever other records the group has: create_upgrade_record
\* looks at the last one only, and two requests may do so at the same time.
CreateRecord(r, g) ==
    /\ records[r] = None /\ bind[g] # None
    /\ records' = [records EXCEPT ![r] =
          [group |-> g, status |-> "new", version |-> None, old |-> bind[g], snap |-> None]]
    /\ UNCHANGED <<bind, pins, rows, pc, want, rec, base, answer, aside, faults, exposed,
                   loose>> /\ Outside

\* The view loads a record that can be upgraded.
Load(c, r) ==
    /\ pc[c] = "idle" /\ Room
    /\ records[r] # None /\ records[r].status = "new"
    /\ rec' = [rec EXCEPT ![c] = r]
    /\ pc' = [pc EXCEPT ![c] = "loaded"]
    /\ UNCHANGED <<references, want, base, answer, aside, faults, exposed, loose>> /\ Outside

\* The group is read, and the template of the version it shall have.
ReadGroup(c, v) ==
    LET g == records[rec[c]].group
    IN  /\ pc[c] = "loaded"
        /\ bind[g] # None /\ v \in alive
        /\ base' = [base EXCEPT ![c] = bind[g]]
        /\ want' = [want EXCEPT ![c] = v]
        /\ pc' = [pc EXCEPT ![c] = "ready"]
        /\ UNCHANGED <<references, rec, answer, aside, faults, exposed, loose>> /\ Outside

\* The plugins and the application are sent to the region before the group moves.
SyncNewApp(c) ==
    /\ pc[c] = "work"
    /\ pc' = [pc EXCEPT ![c] = "save"]
    /\ UNCHANGED <<references, want, rec, base, answer, aside, faults, exposed, loose>>
    /\ Outside

\* One transaction: a snapshot of the application as it was read, unless that has no
\* components, the application (a group deleted meanwhile is inserted again), and
\* the record, of which only these columns ever change.
SaveApp(c) ==
    LET record == records[rec[c]]
    IN  /\ pc[c] = "save"
        /\ \E snap \in {None, base[c]} :
              /\ pins' = pins \cup ({snap} \ {None})
              /\ Write(rec[c], [record EXCEPT !.status = "upgrading", !.version = want[c],
                                              !.snap = snap])
              /\ loose' = loose \cup ({want[c], snap} \ (Used \cup {None}))
        /\ bind' = [bind EXCEPT ![record.group] = want[c]]
        /\ pc' = [pc EXCEPT ![c] = "deploy"]
        /\ UNCHANGED <<rows, want, rec, base, answer, aside, faults>> /\ Outside

\* A step outside the fence raises, the commit of SaveApp included: the record is
\* UPGRADE_FAILED or DEPLOY_FAILED and has no snapshot, unless that is not saved.
UpgradeFails(c) ==
    /\ pc[c] \in {"work", "save", "deploy"}
    /\ Fault
    /\ \/ Write(rec[c], [records[rec[c]] EXCEPT !.status = "over", !.version = want[c],
                                                !.snap = None])
       \/ UNCHANGED <<records, exposed>>
    /\ Answers(c, "failed")
    /\ UNCHANGED <<bind, pins, rows, want, rec, base, aside, loose>> /\ Outside

\* The region deploys the components, and each has its record.
Deployed(c) ==
    /\ pc[c] = "deploy"
    /\ rows' = rows \cup {rec[c]}
    /\ Answers(c, "ok")
    /\ UNCHANGED <<bind, records, pins, want, rec, base, aside, faults, exposed, loose>>
    /\ Outside

-----------------------------------------------------------------------------
(* Requests that do not pass the fence.                                    *)

Beside == UNCHANGED caller /\ Outside

SyncLoad(p, r) ==
    /\ aside[p].pc = "idle" /\ records[r] # None
    /\ aside' = [aside EXCEPT ![p] = [pc |-> "sync", rec |-> r, held |-> records[r]]]
    /\ UNCHANGED <<references, faults, exposed, loose>> /\ Beside

\* A request ends with the whole copy of the record saved.
SyncSave(p, status) ==
    /\ Write(aside[p].rec, [aside[p].held EXCEPT !.status = status])
    /\ aside' = [aside EXCEPT ![p] = Ended]
    /\ UNCHANGED <<bind, pins, rows, faults, loose>> /\ Beside

\* A poll of an unfinished record.  Without component records the verdict is that it
\* is over, also when its upgrade has not begun or not come that far.
PollSave(p) ==
    /\ aside[p].pc = "sync"
    /\ aside[p].held.status \in Unfinished
    /\ \/ SyncSave(p, "over")
       \/ aside[p].rec \in rows /\ SyncSave(p, aside[p].held.status)

\* POST .../deploy of a finished record.
RetrySave(p) ==
    /\ aside[p].pc = "sync"
    /\ aside[p].held.status = "over"
    /\ \/ SyncSave(p, "over")
       \/ SyncSave(p, IF aside[p].rec \in Restorers THEN "rolling" ELSE "upgrading")

\* A mutant of RestoreLoad: a record without a snapshot is let in.
RestoreLoadBlind(p, r) ==
    /\ aside[p].pc = "idle" /\ Room
    /\ records[r] # None /\ records[r].status = "over"
    /\ bind[records[r].group] # None /\ records[r].old \in alive
    /\ aside' = [aside EXCEPT ![p] = [pc |-> "restore", rec |-> r, held |-> records[r]]]
    /\ UNCHANGED <<references, faults, exposed, loose>> /\ Beside

\* A settled record with a snapshot is loaded, whatever else goes on with its group;
\* the group and the template of the old version are there.
RestoreLoad(p, r) ==
    /\ aside[p].pc = "idle" /\ Room
    /\ records[r] # None /\ records[r].status = "over" /\ records[r].snap # None
    /\ bind[records[r].group] # None /\ records[r].old \in alive
    /\ aside' = [aside EXCEPT ![p] = [pc |-> "restore", rec |-> r, held |-> records[r]]]
    /\ UNCHANGED <<references, faults, exposed, loose>> /\ Beside

\* A restore moves the group back to the version of the snapshot, outside of the
\* fence, and makes its own record afterwards.
RestoreSave(p) ==
    LET held == aside[p].held
    IN  /\ aside[p].pc = "restore"
        /\ bind' = [bind EXCEPT ![held.group] = held.snap]
        /\ aside' = [aside EXCEPT ![p].pc = "record"]
        /\ UNCHANGED <<records, pins, rows, faults, exposed, loose>> /\ Beside

RestoreRecord(p) ==
    LET held == aside[p].held
    IN  /\ aside[p].pc = "record"
        /\ records' = [records EXCEPT ![p] = [held EXCEPT !.status = "rolling",
                                                          !.version = held.old,
                                                          !.old = held.version]]
        /\ aside' = [aside EXCEPT ![p].pc = "deploy"]
        /\ UNCHANGED <<bind, pins, rows, faults, exposed, loose>> /\ Beside

RestoreDeployed(p) ==
    /\ aside[p].pc = "deploy"
    /\ rows' = rows \cup {p}
    /\ aside' = [aside EXCEPT ![p] = Ended]
    /\ UNCHANGED <<bind, records, pins, faults, exposed, loose>> /\ Beside

\* Only the record of the restore tells of a failure, if it is there already.
RestoreFails(p) ==
    /\ aside[p].pc \in {"restore", "record", "deploy"}
    /\ Fault
    /\ records' = IF aside[p].pc = "deploy"
                  THEN [records EXCEPT ![p].status = "over"] ELSE records
    /\ aside' = [aside EXCEPT ![p] = Ended]
    /\ UNCHANGED <<bind, pins, rows, exposed, loose>> /\ Beside

\* The last component of a group is deleted, and the group with it, whatever
\* requests are under way.
Uninstall(g) ==
    /\ bind[g] # None
    /\ bind' = [bind EXCEPT ![g] = None]
    /\ UNCHANGED <<records, pins, rows, aside, faults, exposed, loose>> /\ Beside

-----------------------------------------------------------------------------
(* The clean-up.                                                           *)

Latest(v) == \A w \in alive : w <= v

Retirable(v) == ~Latest(v) /\ v \notin Bound \cup pins \cup Named

Untouched == UNCHANGED <<references, caller, aside, lease, faults, history>>

\* The inventory reads the rows, and later what refers to them.
ListRow(v) ==
    /\ retire.pc = "idle" /\ v \in alive
    /\ retire' = [pc |-> "row", v |-> v, rev |-> rev[v], uses |-> uses[v]]
    /\ UNCHANGED <<alive, lock>> /\ Untouched

ListTarget ==
    /\ retire.pc = "row"
    /\ retire' = IF Retirable(retire.v) THEN [retire EXCEPT !.pc = "target"] ELSE NoRow
    /\ UNCHANGED <<alive, lock>> /\ Untouched

\* A mutant of RetireCheck: it works without the lock of the parent.
RetireCheckUnlocked ==
    /\ retire.pc = "target"
    /\ IF Retirable(retire.v) /\ rev[retire.v] = retire.rev
       THEN retire' = [retire EXCEPT !.pc = "delete"]
       ELSE retire' = NoRow
    /\ UNCHANGED <<alive, lock>> /\ Untouched

\* retire_template locks the rows and checks everything again, and that the
\* version was not activated since it was listed.
RetireCheck ==
    /\ retire.pc = "target" /\ lock = None
    /\ IF Retirable(retire.v) /\ rev[retire.v] = retire.rev
       THEN retire' = [retire EXCEPT !.pc = "delete"] /\ lock' = Retirer
       ELSE retire' = NoRow /\ UNCHANGED lock
    /\ UNCHANGED alive /\ Untouched

RetireDelete ==
    /\ retire.pc = "delete"
    /\ alive' = alive \ {retire.v}
    /\ retire' = NoRow
    /\ lock' = IF lock = Retirer THEN None ELSE lock
    /\ Untouched

Next ==
    \/ \E c \in Callers :
          \/ \E v \in Versions : Lock(c, v)
          \/ Discover(c)
          \/ \E s \in Stores : \/ Acquire(c, s) \/ AcquireFails(c, s)
                               \/ Undo(c, s) \/ Confirm(c, s)
          \/ BodyFails(c) \/ Commit(c) \/ CommitFails(c) \/ Crash(c)
    \/ \E c \in Upgraders :
          \/ \E r \in Records : Load(c, r)
          \/ \E v \in Versions : ReadGroup(c, v)
          \/ SyncNewApp(c) \/ SaveApp(c) \/ UpgradeFails(c) \/ Deployed(c)
    \/ \E r \in Records, g \in Groups : CreateRecord(r, g)
    \/ \E p \in Syncers : \/ \E r \in RecordIds : SyncLoad(p, r)
                          \/ PollSave(p) \/ RetrySave(p)
    \/ \E p \in Restorers : \/ \E r \in Records : RestoreLoad(p, r)
                            \/ RestoreSave(p) \/ RestoreRecord(p)
                            \/ RestoreDeployed(p) \/ RestoreFails(p)
    \/ \E g \in Groups : Uninstall(g)
    \/ \E v \in Versions : ListRow(v)
    \/ ListTarget \/ RetireCheck \/ RetireDelete

Spec == Init /\ [][Next]_vars

-----------------------------------------------------------------------------
\* The leases span the commit: a storage is told to forget an operation only
\* after its reference is committed, and while a committed reference is being
\* reported no storage lacks its lease (protect_references,
\* cleanup_coordination.py:143-161).
LeasesSpanCommit ==
    \A c \in Callers :
        IF committed[c]
        THEN \A s \in Stores : lease[c][s] \in {"open", "released"}
        ELSE \A s \in Stores : lease[c][s] # "released"

\* A lease that was granted is never just forgotten: when its caller is through it
\* is released or known as uncertain, unless a message about its end was lost, the
\* commit failed or the worker died.
NoLeaseForgotten ==
    \A c \in Callers :
        pc[c] = "done" /\ ~excused[c] => \A s \in Stores : lease[c][s] # "open"

\* What a caller hears: it is refused although its reference is committed only
\* when an end of a lease was not acknowledged, and when it succeeds no lease of
\* its is left (market_app_service.py:911, app_upgrade.py:238).
AnswerExplained ==
    \A c \in Callers :
        /\ answer[c] = "refused" /\ committed[c] => missed[c]
        /\ answer[c] = "ok" => committed[c] /\ \A s \in Stores : lease[c][s] = "released"

\* A version is not retired when its fence was passed after it was listed, even
\* if the reference is gone again (the activation revision,
\* cleanup_retirement.py:120 and :265).
NoUseOverlooked == retire.pc = "delete" => retire.uses = uses[retire.v]

Fence == INSTANCE TemplateFence WITH present <- alive, used <- Used

\* Nobody comes to use a retired version, and no version in use is retired:
\* "Fence template retirement against a new installation reference"
\* (cleanup_retirement.py:237).  A version is in use by a group, by a snapshot and
\* by an upgrade that has published it and not arrived there.  Nothing is promised
\* to an upgrade from when its record names another version or is settled: by a
\* poll or a repeated deployment with an old copy of the record, or by a second
\* upgrade of the same record (app_upgrade.py:236).
KeepsFence == Fence!Spec

\* No version an installed application is bound to is retired: "Publish the
\* pending reference while holding the same parent lock as retirement"
\* (app_upgrade.py:222).  An early verdict of a poll takes the pending reference
\* away while the upgrade goes on.
BoundVersionsExist == Bound \subseteq alive
===============================================================================
